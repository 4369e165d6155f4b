--------------------------- MODULE DualFip_proofs ---------------------------
(***************************************************************************)
(* Proofs about DualFip: the slots and the configuration together keep the *)
(* board bootable, for every wrap-around of the update count and every     *)
(* sequence of upgrades and power losses.  What BspConf_proofs shows of    *)
(* the configuration by itself is taken over by instantiation.             *)
(***************************************************************************)
EXTENDS DualFip, TLAPS

P == INSTANCE BspConf_proofs WITH
       Vals <- FipConfs, NoVal <- NoConf, ZeroVal <- ZeroConf

\* A configuration is written without errors: a failed save leaves U-Boot's
\* working copy naming a slot that the flash does not name
NoFailures == FailCnts = {}

\* BL2 learns whether an image loads while it can still turn to the other slot
LoadsOrNot == "packed" \notin Images

----------------------------------------------------------------------------
(* The inductive invariant                                                 *)

Up == pc # "off"

\* The slot it names is not marked, and if the other one is, the slot it names
\* is the one that booted instead
Sound(c) == ~c.inv[c.cur] /\ (c.inv[Other(c.cur)] => image[c.cur] = "good")

\* What the next power-up would import
FlashIs ==
  Up => P!Imported = IF stage = "written" THEN curr
                     ELSE IF index = 0 THEN P!Zero ELSE orig

\* Nothing on flash: the first save is under way
Fresh == Up /\ index = 0 => pc = "bl2" /\ (stage = "start" => ~copy[1].ok)

\* Between saves the working copy is the one on flash
Clean == pc \in {"idle", "again"} => index # 0 /\ curr = orig

Marks ==
  /\ Sound(P!Imported.val)
  /\ Up => Sound(curr.val) /\ Sound(orig.val)

TypeOK ==
  /\ image \in [Slots -> {"good", "torn"} \cup Images]
  /\ job \in {"none", "erased", "written"}
  /\ job # "none" => pc = "idle"

IInv ==
  /\ TypeOK
  /\ P!IInv
  /\ FlashIs
  /\ Fresh
  /\ Clean
  /\ Marks

----------------------------------------------------------------------------
(* The configuration                                                       *)

(* What BspConf assumes of its constants holds of the configuration of the  *)
(* slots.                                                                   *)
LEMMA BspAssumptions ==
  /\ ZeroConf \in FipConfs /\ NoConf \notin FipConfs
  /\ MaxCnt \in Nat /\ MaxCnt >= 3
  /\ FailCnts \subseteq P!Cnts
BY NoConfAssumption, MaxCntAssumption, FailCntsAssumption
   DEF ZeroConf, FipConfs, Slots, P!Cnts

(* The operations of the configuration are those its proofs are about. *)
LEMMA SameOperations ==
  /\ B!Init <=> P!Init
  /\ B!Imported = P!Imported
  /\ B!WriteErase <=> P!WriteErase
  /\ B!WriteProgram <=> P!WriteProgram
  /\ B!SaveReturns <=> P!SaveReturns
  /\ B!SaveFails <=> P!SaveFails
  /\ B!SaveAgain <=> P!SaveAgain
  /\ B!PowerLoss <=> P!PowerLoss
  /\ \A v : B!Boot(v) <=> P!Boot(v)
  /\ \A c : B!Counted(c) = P!Counted(c)
  /\ \A n, v : B!Conf(n, v) = P!Conf(n, v)
<1> USE DEF B!Conf, P!Conf, B!Zero, P!Zero, B!Copies, P!Copies, B!Lost, P!Lost,
            B!Stored, P!Stored, B!Newer, P!Newer, B!Selected, P!Selected,
            B!Imported, P!Imported, B!NextIndex, P!NextIndex, B!Counted, P!Counted,
            B!Saving, P!Saving, B!ram, P!ram, B!AfterSave, P!AfterSave
<1>1. B!Init <=> P!Init
  BY DEF B!Init, P!Init
<1>2. B!Imported = P!Imported
  OBVIOUS
<1>3. (B!WriteErase <=> P!WriteErase) /\ (B!WriteProgram <=> P!WriteProgram)
  BY DEF B!WriteErase, P!WriteErase, B!WriteProgram, P!WriteProgram
<1>4. (B!SaveReturns <=> P!SaveReturns) /\ (B!SaveFails <=> P!SaveFails)
  BY DEF B!SaveReturns, P!SaveReturns, B!SaveFails, P!SaveFails
<1>5. (B!SaveAgain <=> P!SaveAgain) /\ (B!PowerLoss <=> P!PowerLoss)
  BY DEF B!SaveAgain, P!SaveAgain, B!PowerLoss, P!PowerLoss
<1>6. \A v : B!Boot(v) <=> P!Boot(v)
  BY DEF B!Boot, P!Boot
<1>7. \A c : B!Counted(c) = P!Counted(c)
  OBVIOUS
<1>8. \A n, v : B!Conf(n, v) = P!Conf(n, v)
  OBVIOUS
<1> HIDE DEF B!Conf, P!Conf, B!Imported, P!Imported, B!Counted, P!Counted
<1> QED
  BY <1>1, <1>2, <1>3, <1>4, <1>5, <1>6, <1>7, <1>8

(* Without failing writes none can fail next to the wrap-around. *)
LEMMA FailsNowhere == NoFailures => P!FailsAwayFromWrap
BY DEF NoFailures, P!FailsAwayFromWrap

(* A step of the configuration keeps its own invariant. *)
LEMMA ConfStep ==
  ASSUME NoFailures, P!IInv, P!Next PROVE P!IInv'
BY BspAssumptions, FailsNowhere, P!NextIInv

(* Without failing writes, the next power-up imports what was imported or     *)
(* saved last, until a write is complete.                                     *)
LEMMA FlashIsLast ==
  ASSUME NoFailures PROVE P!IInv /\ Fresh => FlashIs
<1> SUFFICES ASSUME P!IInv, Fresh, Up
             PROVE  P!Imported = IF stage = "written" THEN curr
                                 ELSE IF index = 0 THEN P!Zero ELSE orig
  BY DEF FlashIs
<1>1. P!Up /\ FailCnts = {}
  BY DEF Up, P!Up, NoFailures
<1>2. stage \in {"start", "erased", "written"}
  BY DEF P!IInv, P!TypeOK, P!Stages
<1>3. index = 0 /\ stage # "written" => ~copy[1].ok
  BY <1>1, <1>2 DEF Fresh, P!IInv, P!Nothing
<1> QED
  BY <1>1, <1>3, BspAssumptions, P!ImportIsLast

(* The same in the next state. *)
LEMMA FlashIsLastNext ==
  ASSUME NoFailures PROVE P!IInv' /\ Fresh' => FlashIs'
<1>1. P!IInv /\ Fresh => FlashIs
  BY FlashIsLast
<1> QED
  BY <1>1, PTL

----------------------------------------------------------------------------
(* BL2                                                                     *)

(* The fields of a configuration. *)
LEMMA ConfFields ==
  ASSUME NEW c \in FipConfs
  PROVE  /\ c.cur \in Slots /\ Other(c.cur) \in Slots /\ Other(c.cur) # c.cur
         /\ Other(Other(c.cur)) = c.cur
         /\ \A s \in Slots : s = c.cur \/ s = Other(c.cur)
         /\ \A s \in Slots : c.inv[s] \in BOOLEAN
BY DEF FipConfs, Slots, Other

(* Marking a slot, and turning to a slot. *)
LEMMA MarkedConf ==
  ASSUME NEW c \in FipConfs, NEW s \in Slots
  PROVE  /\ Marked(c, s) \in FipConfs
         /\ Marked(c, s).cur = c.cur
         /\ Marked(c, s).inv[s]
         /\ \A t \in Slots : t # s => (Marked(c, s).inv[t] <=> c.inv[t])
<1>1. Marked(c, s) \in FipConfs /\ Marked(c, s).cur = c.cur
  BY DEF Marked, FipConfs
<1>2. Marked(c, s).inv = [c.inv EXCEPT ![s] = TRUE]
  BY DEF Marked, FipConfs
<1>3. c.inv \in [Slots -> BOOLEAN]
  BY DEF FipConfs
<1> QED
  BY <1>1, <1>2, <1>3

LEMMA TurnedConf ==
  ASSUME NEW c \in FipConfs, NEW s \in Slots
  PROVE  LET d == [c EXCEPT !.cur = s]
         IN  d \in FipConfs /\ d.cur = s /\ d.inv = c.inv
BY DEF FipConfs

(* Giving the current slot up: it is marked, and the other one is current. *)
LEMMA GivenUp ==
  ASSUME NEW c \in FipConfs,
         NEW d, d = [Marked(c, c.cur) EXCEPT !.cur = Other(@)]
  PROVE  /\ d \in FipConfs
         /\ d.cur = Other(c.cur) /\ d.inv[c.cur]
         /\ d.inv[Other(c.cur)] <=> c.inv[Other(c.cur)]
         /\ \A s : Usable(Marked(c, c.cur), s) <=> Usable(d, s)
<1>1. c.cur \in Slots /\ Other(c.cur) \in Slots /\ Other(c.cur) # c.cur
  BY ConfFields
<1>2. /\ Marked(c, c.cur) \in FipConfs /\ Marked(c, c.cur).cur = c.cur
      /\ Marked(c, c.cur).inv[c.cur]
      /\ Marked(c, c.cur).inv[Other(c.cur)] <=> c.inv[Other(c.cur)]
  BY <1>1, MarkedConf
<1>3. d = [Marked(c, c.cur) EXCEPT !.cur = Other(c.cur)]
  BY <1>2
<1>4. d \in FipConfs /\ d.cur = Other(c.cur) /\ d.inv = Marked(c, c.cur).inv
  BY <1>1, <1>2, <1>3, TurnedConf
<1> QED
  BY <1>2, <1>4 DEF Usable

(* A sound configuration whose slot is good boots from that slot. *)
LEMMA BootsCurrent ==
  ASSUME NEW c \in FipConfs, Sound(c), image[c.cur] = "good"
  PROVE  Bl2(c) = Slot(c)
BY DEF Sound, Bl2, GetFipSlot, Usable, Loads, Slot

(* From any other sound configuration BL2 turns to the other slot, and boots  *)
(* from it if it is good.                                                     *)
LEMMA BootsOther ==
  ASSUME NEW c \in FipConfs, Sound(c), TypeOK, image[c.cur] # "good",
         NEW d, d = [Marked(c, c.cur) EXCEPT !.cur = Other(@)]
  PROVE  Bl2(c) = IF image[d.cur] = "good" /\ image[c.cur] # "packed"
                    THEN Slot(d) ELSE NoSlot
<1> DEFINE first == GetFipSlot(c, FALSE)
           retry == GetFipSlot(first.conf, TRUE)
<1>1. /\ d \in FipConfs
      /\ d.cur = Other(c.cur) /\ d.inv[c.cur]
      /\ d.inv[Other(c.cur)] <=> c.inv[Other(c.cur)]
      /\ \A s : Usable(Marked(c, c.cur), s) <=> Usable(d, s)
  BY GivenUp
<1>2. /\ c.cur \in Slots /\ d.cur \in Slots /\ d.cur # c.cur /\ Other(d.cur) = c.cur
  BY <1>1, ConfFields
<1>3. ~c.inv[c.cur] /\ ~d.inv[d.cur]
  BY <1>1 DEF Sound
<1>4. /\ image[c.cur] \in {"bad", "packed", "torn"}
      /\ image[d.cur] \in {"good", "bad", "packed", "torn"}
  BY <1>2, ImagesAssumption DEF TypeOK, Kinds
<1>5. Usable(d, d.cur) <=> image[d.cur] # "torn"
  BY <1>3 DEF Usable
<1>6. GetFipSlot(c, TRUE) = IF image[d.cur] # "torn" THEN Slot(d) ELSE NoSlot
  BY <1>1, <1>5 DEF GetFipSlot
<1>7. /\ first = GetFipSlot(c, FALSE)
      /\ retry = GetFipSlot(first.conf, TRUE)
      /\ Bl2(c) = IF Loads(first) THEN first
                  ELSE IF first.ok /\ image[first.conf.cur] = "bad" /\ Loads(retry)
                    THEN retry
                  ELSE NoSlot
  BY DEF Bl2
<1>8. /\ \A e : Slot(e).ok /\ Slot(e).conf = e
      /\ \A e : Loads(Slot(e)) <=> image[e.cur] = "good"
      /\ ~NoSlot.ok /\ ~Loads(NoSlot)
  BY DEF Slot, NoSlot, Loads
<1> HIDE DEF first, retry
<1>9. CASE image[c.cur] \in {"bad", "packed"}
  <2>1. first = Slot(c)
    BY <1>3, <1>7, <1>9 DEF GetFipSlot, Usable
  <2>2. retry = IF image[d.cur] # "torn" THEN Slot(d) ELSE NoSlot
    BY <1>6, <1>7, <1>8, <2>1
  <2> QED
    BY <1>7, <1>8, <1>9, <2>1, <2>2
<1>10. CASE image[c.cur] = "torn"
  <2>1. ~Usable(c, c.cur) /\ Usable(Marked(c, c.cur), Other(c.cur)) <=> image[d.cur] # "torn"
    BY <1>1, <1>5, <1>10 DEF Usable
  <2>2. first = IF image[d.cur] # "torn" THEN Slot(d) ELSE NoSlot
    BY <1>7, <1>10, <2>1 DEF GetFipSlot, Usable
  <2>3. CASE image[d.cur] \in {"bad", "packed"}
    <3>1. first = Slot(d) /\ retry = GetFipSlot(d, TRUE)
      BY <1>7, <1>8, <2>2, <2>3
    <3>2. Marked(d, d.cur).inv[c.cur]
      BY <1>1, <1>2, MarkedConf
    <3>3. retry = NoSlot
      BY <1>2, <3>1, <3>2 DEF GetFipSlot, Usable
    <3> QED
      BY <1>7, <1>8, <2>3, <3>1, <3>3
  <2>4. CASE image[d.cur] = "good"
    BY <1>7, <1>8, <1>10, <2>2, <2>4
  <2>5. CASE image[d.cur] = "torn"
    BY <1>7, <1>8, <2>2, <2>5
  <2> QED
    BY <1>4, <2>3, <2>4, <2>5
<1> QED
  BY <1>4, <1>9, <1>10

(* A sound configuration boots if any slot is good and no image is found out  *)
(* too late, and what it boots with is sound again.                           *)
LEMMA BootsSound ==
  ASSUME NEW c \in FipConfs, Sound(c), TypeOK
  PROVE  /\ LoadsOrNot /\ (\E s \in Slots : image[s] = "good") => Bl2(c).ok
         /\ Bl2(c).ok => Bl2(c).conf \in FipConfs /\ Sound(Bl2(c).conf)
<1>1. CASE image[c.cur] = "good"
  BY <1>1, BootsCurrent DEF Slot
<1>2. CASE image[c.cur] # "good"
  <2> DEFINE d == [Marked(c, c.cur) EXCEPT !.cur = Other(@)]
  <2>1. /\ d \in FipConfs /\ d.cur = Other(c.cur)
        /\ d.inv[Other(c.cur)] <=> c.inv[Other(c.cur)]
    BY GivenUp
  <2>2. Bl2(c) = IF image[d.cur] = "good" /\ image[c.cur] # "packed"
                   THEN Slot(d) ELSE NoSlot
    BY <1>2, BootsOther
  <2>3. ~d.inv[d.cur]
    BY <1>2, <2>1 DEF Sound
  <2>4. \A s \in Slots : image[s] = "good" => s = d.cur
    BY <1>2, <2>1, ConfFields
  <2> HIDE DEF d
  <2>5. image[d.cur] = "good" => Sound(d)
    BY <2>3 DEF Sound
  <2>6. LoadsOrNot => image[c.cur] # "packed"
    BY ConfFields DEF LoadsOrNot, TypeOK
  <2> QED
    BY <2>1, <2>2, <2>4, <2>5, <2>6 DEF Slot, NoSlot
<1> QED
  BY <1>1, <1>2

----------------------------------------------------------------------------
(* The steps                                                               *)

(* What IInv says of the configurations, by their types. *)
LEMMA ConfTypes ==
  ASSUME IInv
  PROVE  /\ P!Imported.val \in FipConfs /\ curr.val \in FipConfs /\ orig.val \in FipConfs
         /\ index \in 0 .. 2
         /\ stage \in {"start", "erased", "written"}
<1>1. P!TypeOK
  BY DEF IInv, P!IInv
<1>2. P!Imported \in P!Confs
  BY <1>1, BspAssumptions, P!ImportType
<1> QED
  BY <1>1, <1>2 DEF P!TypeOK, P!Confs, P!Stages

(* While nothing is being saved, flash and working copy agree. *)
LEMMA IdleAgrees ==
  ASSUME IInv, pc = "idle"
  PROVE  P!Imported = curr /\ orig = curr
BY DEF IInv, FlashIs, Clean, Up, P!IInv, P!Saving

(* What is imported depends on the copies only. *)
LEMMA SameImport == copy' = copy => P!Imported' = P!Imported
BY DEF P!Imported, P!Selected

LEMMA InitIInv ==
  ASSUME NoFailures, Init PROVE IInv
<1>1. P!Init
  BY SameOperations DEF Init
<1>2. P!IInv
  BY <1>1, BspAssumptions, P!InitIInv
<1>3. P!Imported = P!Zero
  BY <1>1 DEF P!Init, P!Imported, P!Selected, P!Copies, P!Lost
<1>4. Sound(P!Zero.val)
  BY DEF Sound, P!Zero, P!Conf, ZeroConf, Slots, Other
<1>5. pc = "off" /\ TypeOK
  BY <1>1 DEF Init, TypeOK, P!Init
<1> QED
  BY <1>2, <1>3, <1>4, <1>5 DEF IInv, FlashIs, Fresh, Clean, Marks, Up

(* An upgrade touches the slot that no configuration names. *)
LEMMA TargetIInv ==
  ASSUME IInv, NoFailures, pc = "idle", UNCHANGED bsp,
         NEW k \in {"torn"} \cup Images, image' = [image EXCEPT ![Target] = k],
         job' \in {"none", "erased", "written"}
  PROVE  IInv'
<1>1. P!Imported = curr /\ orig = curr /\ curr.val \in FipConfs
  BY IdleAgrees, ConfTypes
<1>2. Target \in Slots /\ curr.val.cur \in Slots /\ curr.val.cur # Target
  BY <1>1, ConfFields DEF Target
<1>3. /\ image' \in [Slots -> {"good", "torn"} \cup Images]
      /\ image'[curr.val.cur] = image[curr.val.cur]
  BY <1>2 DEF IInv, TypeOK
<1>4. P!Imported' = P!Imported /\ curr' = curr /\ orig' = orig /\ pc' = pc
  BY SameImport DEF bsp
<1>5. P!IInv'
  BY BspAssumptions, FailsNowhere, P!NextIInv DEF IInv, bsp, P!vars
<1>6. FlashIs' /\ Fresh' /\ Clean'
  BY <1>4 DEF IInv, FlashIs, Fresh, Clean, Up, bsp, P!Zero, P!Conf
<1>7. Marks'
  BY <1>1, <1>3, <1>4 DEF IInv, Marks, Sound, Up
<1> QED
  BY <1>3, <1>4, <1>5, <1>6, <1>7 DEF IInv, TypeOK

(* The configuration that names the slot just written is sound. *)
LEMMA SwitchedSound ==
  ASSUME curr.val \in FipConfs, Sound(curr.val)
  PROVE  /\ Switched(curr.val) \in FipConfs
         /\ Switched(curr.val).cur = Target
         /\ ~Switched(curr.val).inv[Target] /\ ~Switched(curr.val).inv[Other(Target)]
<1> DEFINE c == curr.val
<1>1. /\ c.cur \in Slots /\ Target \in Slots /\ Target # c.cur
      /\ Other(Target) = c.cur
  BY ConfFields DEF Target
<1>2. c.inv \in [Slots -> BOOLEAN] /\ ~c.inv[c.cur]
  BY DEF FipConfs, Sound
<1>3. /\ Switched(c) \in FipConfs /\ Switched(c).cur = Target
      /\ Switched(c).inv = [c.inv EXCEPT ![Target] = FALSE]
  BY <1>1 DEF Switched, FipConfs
<1> QED
  BY <1>1, <1>2, <1>3

LEMMA SavesIInv ==
  ASSUME IInv, NoFailures, UpgradeSaves PROVE IInv'
<1> DEFINE v == Switched(curr.val)
<1>1. /\ pc = "idle" /\ pc' = "save" /\ stage' = "start" /\ job' = "none"
      /\ UNCHANGED <<copy, orig, index, persist, image>>
  BY DEF UpgradeSaves, IInv, TypeOK
<1>2. curr.val \in FipConfs /\ curr' = P!Counted(P!Conf(curr.cnt, v))
  BY ConfTypes, SameOperations DEF UpgradeSaves
<1>3. /\ v \in FipConfs /\ v.cur = Target
      /\ ~v.inv[Target] /\ ~v.inv[Other(Target)]
  BY <1>1, <1>2, SwitchedSound DEF IInv, Marks, Up
<1> HIDE DEF v
<1>4. P!IInv'
  BY <1>1, <1>2, <1>3, BspAssumptions, FailsNowhere, P!BeginIInv DEF IInv, P!Saving
<1>5. curr'.val = v
  BY <1>2 DEF P!Counted, P!Conf
<1>6. index' # 0 /\ stage' # "written" /\ P!Imported' = P!Imported
  BY <1>1, SameImport DEF IInv, Clean
<1>7. Fresh' /\ Clean' /\ TypeOK'
  BY <1>1, <1>6 DEF Fresh, Clean, TypeOK, IInv
<1>8. Marks'
  BY <1>1, <1>3, <1>5, <1>6 DEF IInv, Marks, Sound, Up
<1> QED
  BY <1>4, <1>7, <1>8, FlashIsLastNext DEF IInv

LEMMA PowerUpIInv ==
  ASSUME IInv, NoFailures, PowerUp PROVE IInv'
<1> DEFINE v == Bl2Result.conf
<1>1. Bl2Result.ok /\ P!Boot(v) /\ image' = image /\ job' = job
  BY SameOperations DEF PowerUp
<1>2. v \in FipConfs /\ Sound(v)
  BY <1>1, ConfTypes, SameOperations, BootsSound DEF Bl2Result, IInv, Marks
<1> HIDE DEF v
<1>3. /\ pc = "off" /\ copy' = copy /\ stage' = stage
      /\ orig' = P!Imported /\ index' = P!Selected
      /\ \/ index' # 0 /\ curr' = P!Imported /\ pc' = "idle"
         \/ curr' = P!Counted(P!Conf(P!Imported.cnt, v)) /\ pc' = "bl2"
  BY <1>1 DEF P!Boot
<1>4. P!IInv'
  BY <1>1, <1>2, ConfStep DEF IInv, P!Next
<1>5. P!Imported' = P!Imported
  BY <1>3, SameImport
<1>6. index' = 0 => ~copy[1].ok
  BY <1>3, BspAssumptions, P!ImportIsKept DEF IInv, P!IInv
<1>7. curr'.val = P!Imported.val \/ curr'.val = v
  BY <1>3 DEF P!Counted, P!Conf
<1>8. Fresh' /\ Clean' /\ TypeOK'
  BY <1>1, <1>3, <1>6 DEF Fresh, Clean, TypeOK, IInv
<1>9. Marks'
  BY <1>1, <1>2, <1>3, <1>5, <1>7 DEF IInv, Marks, Sound
<1> QED
  BY <1>4, <1>8, <1>9, FlashIsLastNext DEF IInv

LEMMA WritesIInv ==
  ASSUME IInv, NoFailures, WritesConf PROVE IInv'
<1>1. image' = image /\ job' = job
  BY DEF WritesConf
<1>2. /\ P!WriteErase \/ P!WriteProgram \/ P!SaveReturns \/ P!SaveAgain
      /\ P!IInv'
  <2>1. P!WriteErase \/ P!WriteProgram \/ P!SaveReturns \/ P!SaveFails \/ P!SaveAgain
    BY SameOperations DEF WritesConf
  <2>2. ~P!SaveFails
    BY DEF NoFailures, P!SaveFails
  <2>3. P!IInv'
    BY <2>1, ConfStep DEF IInv, P!Next, P!Save
  <2> QED
    BY <2>1, <2>2, <2>3
<1>3. pc \in {"save", "bl2", "bl2again", "again"} /\ pc' # "off" /\ job = "none"
  BY <1>2 DEF P!WriteErase, P!WriteProgram, P!SaveReturns, P!SaveAgain, P!AfterSave,
              P!Saving, P!ram, IInv, TypeOK
<1>4. TypeOK'
  BY <1>1, <1>3 DEF TypeOK, IInv
<1>5. CASE P!WriteErase \/ P!WriteProgram
  <2>1. stage' \in {"erased", "written"} /\ UNCHANGED <<curr, orig, index, pc>>
    BY <1>5 DEF P!WriteErase, P!WriteProgram, P!ram
  <2>2. Fresh' /\ Clean'
    BY <2>1 DEF IInv, Fresh, Clean, Up
  <2>3. FlashIs'
    BY <1>2, <2>2, FlashIsLastNext
  <2>4. P!Imported' \in {curr, orig, P!Zero}
    BY <1>3, <2>1, <2>3 DEF FlashIs, Up, P!Zero, P!Conf
  <2>5. Sound(P!Zero.val)
    BY DEF Sound, P!Zero, P!Conf, ZeroConf, Slots, Other
  <2>6. Marks'
    BY <1>1, <1>3, <2>1, <2>4, <2>5 DEF IInv, Marks, Sound, Up
  <2> QED
    BY <1>2, <1>4, <2>2, <2>3, <2>6 DEF IInv
<1>6. CASE P!SaveReturns
  <2>1. /\ orig' = curr /\ index' # 0 /\ UNCHANGED <<copy, curr>>
    BY <1>6 DEF P!SaveReturns, P!NextIndex
  <2>2. P!Imported' = P!Imported /\ Fresh' /\ Clean'
    BY <2>1, SameImport DEF Fresh, Clean
  <2>3. Marks'
    BY <1>1, <1>3, <2>1, <2>2 DEF IInv, Marks, Sound, Up
  <2> QED
    BY <1>2, <1>4, <2>2, <2>3, FlashIsLastNext DEF IInv
<1>7. CASE P!SaveAgain
  <2>1. /\ pc = "again" /\ pc' = "bl2again" /\ curr' = P!Counted(curr)
        /\ UNCHANGED <<copy, orig, index>>
    BY <1>7 DEF P!SaveAgain
  <2>2. curr'.val = curr.val
    <3>1. P!TypeOK
      BY DEF IInv, P!IInv
    <3> QED
      BY <2>1, <3>1 DEF P!Counted, P!TypeOK, P!Confs
  <2>3. P!Imported' = P!Imported /\ Fresh' /\ Clean'
    BY <2>1, SameImport DEF IInv, Fresh, Clean
  <2>4. Marks'
    BY <1>1, <1>3, <2>1, <2>2, <2>3 DEF IInv, Marks, Sound, Up
  <2> QED
    BY <1>2, <1>4, <2>3, <2>4, FlashIsLastNext DEF IInv
<1> QED
  BY <1>2, <1>5, <1>6, <1>7

LEMMA PowerLossIInv ==
  ASSUME IInv, NoFailures, PowerLoss PROVE IInv'
<1>1. /\ image' = image /\ job' = "none" /\ copy' = copy /\ pc' = "off"
      /\ P!PowerLoss
  BY SameOperations DEF PowerLoss, P!PowerLoss
<1>2. P!IInv' /\ P!Imported' = P!Imported
  BY <1>1, ConfStep, SameImport DEF IInv, P!Next
<1> QED
  BY <1>1, <1>2 DEF IInv, TypeOK, FlashIs, Fresh, Clean, Marks, Sound, Up

LEMMA NextIInv ==
  ASSUME IInv, NoFailures, [Next]_vars PROVE IInv'
<1>1. CASE UpgradeErases
  BY <1>1, TargetIInv DEF UpgradeErases
<1>2. ASSUME NEW k \in Images, UpgradeWrites(k) PROVE IInv'
  <2>1. pc = "idle"
    BY <1>2 DEF UpgradeWrites, IInv, TypeOK
  <2> QED
    BY <1>2, <2>1, TargetIInv DEF UpgradeWrites
<1>3. ASSUME UNCHANGED <<bsp, image>>, job' = job \/ job' = "none" PROVE IInv'
  <2>1. P!Imported' = P!Imported
    BY <1>3, SameImport DEF bsp
  <2>2. P!IInv'
    BY <1>3, BspAssumptions, FailsNowhere, P!NextIInv DEF IInv, bsp, P!vars
  <2> QED
    BY <1>3, <2>1, <2>2
       DEF IInv, TypeOK, FlashIs, Fresh, Clean, Marks, Sound, Up, bsp, P!Zero, P!Conf
<1>4. CASE UpgradeFails \/ UNCHANGED vars
  BY <1>3, <1>4 DEF UpgradeFails, vars
<1> QED
  BY <1>1, <1>2, <1>4, SavesIInv, PowerUpIInv, WritesIInv, PowerLossIInv DEF Next

----------------------------------------------------------------------------
(* What holds of the slots                                                 *)

(* BootsIfAnyGood: as long as one slot holds a good image the next power-up   *)
(* boots, whatever upgrades and power losses came before.                     *)
THEOREM AlwaysBoots ==
  ASSUME NoFailures, LoadsOrNot PROVE Spec => []BootsIfAnyGood
<1>1. Init => IInv
  BY InitIInv
<1>2. IInv /\ [Next]_vars => IInv'
  BY NextIInv
<1>3. IInv => BootsIfAnyGood
  BY ConfTypes, SameOperations, BootsSound DEF IInv, Marks, BootsIfAnyGood, Bl2Result
<1> QED
  BY <1>1, <1>2, <1>3, PTL DEF Spec

(* UpgradeIsBooted: after an upgrade that returned success, the next power-up *)
(* boots from the slot it wrote, if that image is good.                       *)
THEOREM UpgradeBoots ==
  ASSUME NoFailures PROVE Spec => []UpgradeIsBooted
<1>1. Init => IInv
  BY InitIInv
<1>2. IInv /\ [Next]_vars => IInv'
  BY NextIInv
<1>3. IInv => UpgradeIsBooted
  <2> SUFFICES ASSUME IInv, pc = "idle", image[curr.val.cur] = "good"
               PROVE  Bl2Result = Slot(curr.val)
    BY DEF UpgradeIsBooted
  <2>1. B!Imported = curr /\ curr.val \in FipConfs /\ Sound(curr.val)
    BY IdleAgrees, ConfTypes, SameOperations DEF IInv, Marks, Up
  <2> QED
    BY <2>1, BootsCurrent DEF Bl2Result
<1> QED
  BY <1>1, <1>2, <1>3, PTL DEF Spec

(* SpareIsWritten: an upgrade never writes the slot that the flash names.     *)
THEOREM NamedSlotIsKept ==
  ASSUME NoFailures PROVE Spec => []SpareIsWritten
<1>1. Init => IInv
  BY InitIInv
<1>2. IInv /\ [Next]_vars => IInv'
  BY NextIInv
<1>3. IInv => SpareIsWritten
  <2> SUFFICES ASSUME IInv, pc = "idle" PROVE B!Imported.val.cur # Target
    BY DEF SpareIsWritten, IInv, TypeOK
  <2>1. B!Imported = curr /\ curr.val \in FipConfs
    BY IdleAgrees, ConfTypes, SameOperations
  <2> QED
    BY <2>1, ConfFields DEF Target
<1> QED
  BY <1>1, <1>2, <1>3, PTL DEF Spec
=============================================================================
