--------------------------- MODULE BspConf_proofs ---------------------------
(***************************************************************************)
(* Proofs about BspConf: the two copies implement the atomic register of   *)
(* AtomicConf, for every wrap-around of the update count and every number  *)
(* of failed writes and power losses, as long as the writes whose counts   *)
(* are next to the wrap-around do not fail.                                *)
(***************************************************************************)
EXTENDS BspConf, TLAPS

\* A failed write costs an update count; at the wrap-around the counts of the
\* two copies must be neighbours to be told apart
FailsAwayFromWrap == FailCnts \cap {0, MaxCnt - 1, MaxCnt} = {}

Up == pc # "off"

\* the copy that the next save does not write
Spare == IF index = 1 THEN 2 ELSE 1

\* A write of the other copy that was not acknowledged took effect
Unacked(i) == copy[i].cnt \in FailCnts /\ orig.cnt < copy[i].cnt

\* Two good copies are told apart by their counts
Ordered ==
  copy[1].ok /\ copy[2].ok =>
    Newer(copy[1].cnt, copy[2].cnt) \/ Newer(copy[2].cnt, copy[1].cnt)

\* Nothing was ever imported or saved: only copy 1 is being written
Nothing ==
  Up /\ index = 0 =>
    /\ ~copy[2].ok
    /\ stage = "erased" => ~copy[1].ok
    /\ stage = "written" => copy[1] = Stored(curr)

\* The copy last imported or saved is untouched
Kept == Up /\ index # 0 => copy[index] = Stored(orig)

\* The update count has moved past the kept one by failed writes only
CountOK ==
  Up /\ index # 0 =>
    /\ pc \in {"idle", "again"} =>
         curr.cnt = orig.cnt \/ (curr.cnt \in FailCnts /\ orig.cnt < curr.cnt)
    /\ pc \in Saving =>
         /\ Newer(curr.cnt, orig.cnt)
         /\ curr.cnt \in FailCnts => orig.cnt < curr.cnt

\* The other copy is older, was not acknowledged, or is the one being written
OtherOK ==
  Up /\ index # 0 =>
    /\ stage = "start" /\ copy[Spare].ok =>
         \/ Newer(orig.cnt, copy[Spare].cnt)
         \/ Unacked(Spare) /\ copy[Spare].cnt <= curr.cnt
    /\ stage = "erased" => ~copy[Spare].ok
    /\ stage = "written" => copy[Spare] = Stored(curr)

IInv ==
  /\ TypeOK
  /\ pc \notin Saving => stage = "start"
  /\ pc = "off" => Ordered
  /\ Nothing
  /\ Kept
  /\ CountOK
  /\ OtherOK

----------------------------------------------------------------------------
(* The comparison of update counts                                         *)

(* Of two counts at most one is the newer. *)
LEMMA NewerOneWay ==
  ASSUME NEW a \in Cnts, NEW b \in Cnts, Newer(a, b)
  PROVE  ~Newer(b, a) /\ a # b
BY MaxCntAssumption DEF Newer, Cnts

(* The next count is newer, across the wrap-around too. *)
LEMMA NextIsNewer ==
  ASSUME NEW c \in Cnts
  PROVE  LET n == IF c = MaxCnt THEN 0 ELSE c + 1
         IN  n \in Cnts /\ Newer(n, c) /\ (n # 0 => c < n)
BY MaxCntAssumption DEF Newer, Cnts

(* Counts after failed writes stay clear of the wrap-around. *)
LEMMA AfterFailure ==
  ASSUME FailsAwayFromWrap,
         NEW f \in FailCnts, NEW c \in Cnts, c < f
  PROVE  /\ f \in Cnts /\ f # MaxCnt
         /\ Newer(f, c)
         /\ f + 1 \in Cnts /\ Newer(f + 1, c) /\ c < f + 1
<1>1. f \in Cnts /\ f # MaxCnt /\ f # MaxCnt - 1 /\ f # 0
  BY FailCntsAssumption DEF FailsAwayFromWrap
<1> QED
  BY <1>1, MaxCntAssumption DEF Newer, Cnts

(* A good copy is picked if the other one is lost or older. *)
LEMMA PicksNewer ==
  ASSUME TypeOK, NEW i \in Copies, copy[i].ok,
         copy[3 - i].ok => Newer(copy[i].cnt, copy[3 - i].cnt)
  PROVE  Selected = i
<1>1. copy[1].cnt \in Cnts /\ copy[2].cnt \in Cnts
  BY DEF TypeOK, Copies
<1>2. CASE i = 1
  BY <1>1, <1>2, NewerOneWay DEF Selected
<1>3. CASE i = 2
  BY <1>1, <1>3, NewerOneWay DEF Selected
<1> QED
  BY <1>2, <1>3 DEF Copies

----------------------------------------------------------------------------
(* The inductive invariant                                                 *)

(* The configuration imported at power-up is well typed and is the one kept  *)
(* on flash.                                                                 *)
LEMMA ImportIsKept ==
  ASSUME TypeOK, Ordered
  PROVE  /\ Selected \in 0 .. 2
         /\ Imported \in Confs
         /\ Selected = 0 => ~copy[1].ok /\ ~copy[2].ok
         /\ Selected # 0 =>
              /\ Selected \in Copies
              /\ copy[Selected] = Stored(Imported)
              /\ copy[3 - Selected].ok => Newer(Imported.cnt, copy[3 - Selected].cnt)
<1>1. /\ copy[1] \in [ok : BOOLEAN, cnt : Cnts, val : Vals]
      /\ copy[2] \in [ok : BOOLEAN, cnt : Cnts, val : Vals]
  BY DEF TypeOK, Copies
<1>2. Zero \in Confs
  BY ValsAssumption, MaxCntAssumption DEF Zero, Conf, Confs, Cnts
<1>3. Selected = 0 => ~copy[1].ok /\ ~copy[2].ok
  BY <1>1, NewerOneWay DEF Selected
<1>4. CASE Selected = 0
  BY <1>2, <1>3, <1>4 DEF Imported
<1>5. ASSUME NEW i \in Copies, Selected = i
      PROVE  /\ Selected \in Copies
             /\ Imported \in Confs
             /\ copy[i] = Stored(Imported)
             /\ copy[3 - i].ok => Newer(Imported.cnt, copy[3 - i].cnt)
  <2>1. copy[i].ok /\ (copy[3 - i].ok => Newer(copy[i].cnt, copy[3 - i].cnt))
    BY <1>1, <1>5, NewerOneWay DEF Selected, Ordered, Copies
  <2>2. copy[i] \in [ok : BOOLEAN, cnt : Cnts, val : Vals]
    BY DEF TypeOK
  <2>3. Imported = [cnt |-> copy[i].cnt, val |-> copy[i].val]
    BY <1>5 DEF Imported, Conf, Copies
  <2>4. copy[i] = [ok |-> TRUE, cnt |-> copy[i].cnt, val |-> copy[i].val]
    BY <2>1, <2>2
  <2> QED
    BY <1>5, <2>1, <2>2, <2>3, <2>4 DEF Stored, Confs
<1>6. Selected \in {0, 1, 2}
  BY DEF Selected
<1> QED
  BY <1>3, <1>4, <1>5, <1>6 DEF Copies

(* Whatever the power loss interrupts, the copies left behind are told apart. *)
LEMMA AlwaysOrdered ==
  ASSUME IInv, FailsAwayFromWrap PROVE Ordered
<1>1. /\ copy[1].cnt \in Cnts /\ copy[2].cnt \in Cnts
      /\ curr.cnt \in Cnts /\ orig.cnt \in Cnts
      /\ stage \in Stages /\ index \in 0 .. 2
  BY DEF IInv, TypeOK, Copies, Confs
<1>2. CASE ~Up
  BY <1>2 DEF IInv, Up
<1>3. CASE Up /\ index = 0
  BY <1>3 DEF IInv, Nothing, Ordered
<1>4. CASE Up /\ index # 0
  <2>1. /\ Spare \in Copies /\ Spare = 3 - index
        /\ copy[index].cnt = orig.cnt
    BY <1>1, <1>4 DEF Spare, Copies, IInv, Kept, Stored
  <2>2. copy[Spare].ok => \/ Newer(orig.cnt, copy[Spare].cnt)
                          \/ Newer(copy[Spare].cnt, orig.cnt)
    <3>1. CASE stage = "start"
      BY <1>1, <1>4, <2>1, <3>1, AfterFailure DEF IInv, OtherOK, Unacked, Copies
    <3>2. CASE stage = "erased"
      BY <1>4, <3>2 DEF IInv, OtherOK
    <3>3. CASE stage = "written"
      BY <1>4, <3>3 DEF IInv, OtherOK, CountOK, Stored
    <3> QED
      BY <1>1, <3>1, <3>2, <3>3 DEF Stages
  <2> QED
    BY <1>1, <1>4, <2>1, <2>2 DEF Ordered, Copies
<1> QED
  BY <1>2, <1>3, <1>4

(* Counting an update keeps the type, and gives a newer count. *)
LEMMA CountedIsNewer ==
  ASSUME NEW c \in Confs
  PROVE  /\ Counted(c) \in Confs
         /\ Counted(c).val = c.val
         /\ Newer(Counted(c).cnt, c.cnt)
         /\ Counted(c).cnt = IF c.cnt = MaxCnt THEN 0 ELSE c.cnt + 1
         /\ Counted(c).cnt # 0 => c.cnt < Counted(c).cnt
<1>1. c.cnt \in Cnts /\ c = [cnt |-> c.cnt, val |-> c.val] /\ c.val \in Vals
  BY DEF Confs
<1>2. Counted(c) = [cnt |-> IF c.cnt = MaxCnt THEN 0 ELSE c.cnt + 1, val |-> c.val]
  BY <1>1 DEF Counted
<1> QED
  BY <1>1, <1>2, NextIsNewer DEF Confs

LEMMA InitIInv == Init => IInv
<1> SUFFICES ASSUME Init PROVE IInv
  OBVIOUS
<1>1. Zero \in Confs
  BY ValsAssumption, MaxCntAssumption DEF Zero, Conf, Confs, Cnts
<1>2. Lost(Stored(Zero)) = [ok |-> FALSE, cnt |-> 0, val |-> ZeroVal]
  BY DEF Zero, Conf, Lost, Stored
<1>3. Lost(Stored(Zero)) \in [ok : BOOLEAN, cnt : Cnts, val : Vals]
  BY <1>2, ValsAssumption, MaxCntAssumption DEF Cnts
<1>4. TypeOK
  <2>1. copy \in [Copies -> [ok : BOOLEAN, cnt : Cnts, val : Vals]]
    BY <1>3 DEF Init
  <2>2. curr \in Confs /\ orig \in Confs /\ index \in 0 .. 2
    BY <1>1 DEF Init
  <2>3. persist \in BOOLEAN /\ pc = "off" /\ stage \in Stages
    BY DEF Init, Stages
  <2> QED
    BY <2>1, <2>2, <2>3 DEF TypeOK
<1>5. Ordered
  BY <1>2 DEF Init, Ordered, Copies
<1> QED
  BY <1>4, <1>5 DEF Init, IInv, Saving, Nothing, Kept, CountOK, OtherOK, Up

(* Types do not depend on which writes fail. *)
LEMMA ImportType ==
  ASSUME TypeOK PROVE Selected \in 0 .. 2 /\ Imported \in Confs
<1>1. Zero \in Confs
  BY ValsAssumption, MaxCntAssumption DEF Zero, Conf, Confs, Cnts
<1>2. \A i \in Copies : Conf(copy[i].cnt, copy[i].val) \in Confs
  BY DEF TypeOK, Conf, Confs
<1> QED
  BY <1>1, <1>2 DEF Imported, Selected, Copies

LEMMA WriteType ==
  ASSUME TypeOK, NEW c \in [ok : BOOLEAN, cnt : Cnts, val : Vals], NEW i \in Copies
  PROVE  [copy EXCEPT ![i] = c] \in [Copies -> [ok : BOOLEAN, cnt : Cnts, val : Vals]]
BY DEF TypeOK

LEMMA NextType ==
  ASSUME TypeOK, [Next]_vars PROVE TypeOK'
<1> USE DEF TypeOK
<1>1. NextIndex \in Copies /\ NextIndex \in 0 .. 2
  BY DEF NextIndex, Copies
<1>2. CASE SaveBegin \/ SaveAgain
  BY <1>2, CountedIsNewer DEF SaveBegin, SaveAgain, Saving, Stages
<1>3. CASE WriteErase
  <2>1. Lost(copy[NextIndex]) \in [ok : BOOLEAN, cnt : Cnts, val : Vals]
    BY <1>1 DEF Lost
  <2>2. copy' = [copy EXCEPT ![NextIndex] = Lost(copy[NextIndex])]
    BY <1>3 DEF WriteErase
  <2> QED
    BY <1>1, <1>3, <2>1, <2>2, WriteType DEF WriteErase, ram, Stages
<1>4. CASE WriteProgram
  <2>1. Stored(curr) \in [ok : BOOLEAN, cnt : Cnts, val : Vals]
    BY DEF Stored, Confs
  <2>2. copy' = [copy EXCEPT ![NextIndex] = Stored(curr)]
    BY <1>4 DEF WriteProgram
  <2> QED
    BY <1>1, <1>4, <2>1, <2>2, WriteType DEF WriteProgram, ram, Stages
<1>5. CASE SaveReturns \/ SaveFails
  BY <1>1, <1>5 DEF SaveReturns, SaveFails, AfterSave, Stages
<1>6. CASE BootPlain
  BY <1>6, ImportType DEF BootPlain
<1>7. ASSUME NEW v \in Vals, Boot(v) PROVE TypeOK'
  <2>1. Conf(Imported.cnt, v) \in Confs
    BY ImportType DEF Conf, Confs
  <2> QED
    BY <1>7, <2>1, ImportType, CountedIsNewer DEF Boot, Saving
<1>8. ASSUME NEW v \in Vals, Change(v) PROVE TypeOK'
  <2>1. [curr EXCEPT !.val = v] \in Confs
    BY DEF Confs
  <2> QED
    BY <1>8, <2>1 DEF Change
<1>9. CASE PowerLoss
  <2>1. Zero \in Confs
    BY ValsAssumption, MaxCntAssumption DEF Zero, Conf, Confs, Cnts
  <2>2. copy' = copy /\ curr' \in Confs /\ orig' \in Confs /\ index' \in 0 .. 2
    BY <1>9, <2>1 DEF PowerLoss
  <2>3. persist' \in BOOLEAN /\ pc' = "off" /\ stage' \in Stages
    BY <1>9 DEF PowerLoss, Stages
  <2> QED
    BY <2>2, <2>3
<1>10. CASE UNCHANGED vars
  BY <1>10 DEF vars
<1> QED
  BY <1>2, <1>3, <1>4, <1>5, <1>6, <1>7, <1>8, <1>9, <1>10 DEF Next, Save

(* A save of any value, counted as the next update, keeps the invariant. *)
LEMMA BeginIInv ==
  ASSUME FailsAwayFromWrap, IInv, NEW v \in Vals,
         pc \in {"idle", "again"}, pc' \in Saving, stage' = "start",
         curr' = Counted(Conf(curr.cnt, v)),
         UNCHANGED <<copy, orig, index, persist>>
  PROVE  IInv'
<1> USE DEF IInv
<1>1. /\ copy[1].cnt \in Cnts /\ copy[2].cnt \in Cnts
      /\ curr.cnt \in Cnts /\ orig.cnt \in Cnts
      /\ index \in 0 .. 2
  BY DEF TypeOK, Copies, Confs
<1>2. index # 0 => Spare \in Copies
  BY <1>1 DEF Spare, Copies
<1>3. Conf(curr.cnt, v) \in Confs /\ Conf(curr.cnt, v).cnt = curr.cnt
  BY <1>1 DEF Conf, Confs
<1>4. /\ curr' \in Confs /\ curr'.cnt \in Cnts
      /\ Newer(curr'.cnt, curr.cnt)
      /\ curr'.cnt = IF curr.cnt = MaxCnt THEN 0 ELSE curr.cnt + 1
      /\ curr'.cnt # 0 => curr.cnt < curr'.cnt
  <2>1. /\ curr' \in Confs
        /\ Newer(curr'.cnt, curr.cnt)
        /\ curr'.cnt = IF curr.cnt = MaxCnt THEN 0 ELSE curr.cnt + 1
        /\ curr'.cnt # 0 => curr.cnt < curr'.cnt
    BY <1>3, CountedIsNewer
  <2> QED
    BY <2>1 DEF Confs
<1>5. stage = "start" /\ pc' \notin {"off", "idle", "again"}
  BY DEF Saving
<1>6. TypeOK'
  BY <1>4 DEF TypeOK, Stages
<1>7. Nothing' /\ Kept' /\ Spare' = Spare
  BY <1>5 DEF Nothing, Kept, Up, Spare, Saving
<1>8. ASSUME index # 0
      PROVE  /\ Newer(curr'.cnt, orig.cnt)
             /\ curr'.cnt \in FailCnts => orig.cnt < curr'.cnt
  <2>1. CASE curr.cnt = orig.cnt
    BY <1>4, <2>1 DEF FailsAwayFromWrap
  <2>2. CASE curr.cnt \in FailCnts /\ orig.cnt < curr.cnt
    BY <1>1, <1>4, <2>2, AfterFailure
  <2> QED
    BY <1>8, <2>1, <2>2 DEF CountOK, Up
<1>9. ASSUME index # 0, Unacked(Spare), copy[Spare].cnt <= curr.cnt
      PROVE  copy[Spare].cnt <= curr'.cnt
  <2>1. curr.cnt \in FailCnts /\ orig.cnt < curr.cnt
    BY <1>1, <1>2, <1>9 DEF CountOK, Up, Unacked, Copies, Cnts
  <2>2. curr'.cnt = curr.cnt + 1
    BY <1>1, <1>4, <2>1, AfterFailure
  <2> QED
    BY <1>1, <1>2, <1>9, <2>2 DEF Copies, Cnts
<1>10. CountOK'
  BY <1>5, <1>8 DEF CountOK
<1>11. OtherOK'
  BY <1>5, <1>7, <1>9 DEF OtherOK, Unacked, Up
<1> QED
  BY <1>5, <1>6, <1>7, <1>10, <1>11

LEMMA NextIInv ==
  ASSUME FailsAwayFromWrap, IInv, [Next]_vars PROVE IInv'
<1> USE DEF IInv
<1>1. TypeOK'
  BY NextType
<1>2. /\ copy[1].cnt \in Cnts /\ copy[2].cnt \in Cnts
      /\ curr \in Confs /\ orig \in Confs
      /\ curr.cnt \in Cnts /\ orig.cnt \in Cnts
      /\ index \in 0 .. 2
  BY DEF TypeOK, Copies, Confs
<1>3. NextIndex \in Copies /\ (index # 0 => NextIndex = Spare /\ Spare = 3 - index)
  BY <1>2 DEF NextIndex, Spare, Copies
<1>4. CASE SaveBegin \/ SaveAgain
  <2>1. /\ pc \in {"idle", "again"} /\ stage' = "start"
        /\ pc' \in Saving
        /\ curr' = Counted(curr)
        /\ UNCHANGED <<copy, orig, index, persist>>
    BY <1>4 DEF SaveBegin, SaveAgain, Saving
  <2>2. curr.val \in Vals /\ curr = Conf(curr.cnt, curr.val)
    BY <1>2 DEF Confs, Conf
  <2> QED
    BY <2>1, <2>2, BeginIInv
<1>5. CASE WriteErase \/ WriteProgram
  <2>1. /\ pc \in Saving
        /\ UNCHANGED <<curr, orig, index, persist, pc>>
    BY <1>5 DEF WriteErase, WriteProgram, ram
  <2>2. \/ /\ stage' = "erased"
           /\ copy' = [copy EXCEPT ![NextIndex] = Lost(copy[NextIndex])]
        \/ /\ stage' = "written"
           /\ copy' = [copy EXCEPT ![NextIndex] = Stored(curr)]
    BY <1>5 DEF WriteErase, WriteProgram
  <2>3. copy \in [Copies -> [ok : BOOLEAN, cnt : Cnts, val : Vals]]
    BY DEF TypeOK
  <2>4. /\ \/ stage' = "erased" /\ ~copy'[NextIndex].ok
           \/ stage' = "written" /\ copy'[NextIndex] = Stored(curr)
        /\ \A i \in Copies : i # NextIndex => copy'[i] = copy[i]
    BY <1>3, <2>2, <2>3 DEF Lost
  <2>5. ASSUME index # 0 PROVE copy'[index] = copy[index]
    BY <1>2, <1>3, <2>4, <2>5 DEF Copies
  <2>6. Kept' /\ CountOK' /\ Spare' = Spare
    BY <2>1, <2>5 DEF Kept, CountOK, Up, Spare, Saving
  <2>7. OtherOK'
    BY <1>3, <2>1, <2>2, <2>4, <2>6 DEF OtherOK, Up
  <2>8. Nothing'
    BY <2>1, <2>2, <2>4 DEF Nothing, Up, NextIndex, Copies
  <2> QED
    BY <1>1, <2>1, <2>6, <2>7, <2>8 DEF Saving
<1>6. CASE SaveReturns
  <2>1. /\ pc \in Saving /\ stage = "written" /\ stage' = "start"
        /\ orig' = curr /\ index' = NextIndex
        /\ pc' \in {"again", "idle"}
        /\ UNCHANGED <<copy, curr>>
    BY <1>6 DEF SaveReturns, AfterSave
  <2>2. copy[NextIndex] = Stored(curr) /\ NextIndex # 0
    BY <1>2, <1>3, <2>1 DEF Nothing, OtherOK, Up, Saving, NextIndex, Copies
  <2>3. Kept' /\ CountOK' /\ Nothing'
    BY <2>1, <2>2 DEF Kept, CountOK, Nothing, Saving, Up
  <2>4. CASE index = 0
    <3>1. Spare' = 2 /\ ~copy[2].ok
      BY <2>1, <2>4 DEF Spare, NextIndex, Nothing, Up, Saving
    <3> QED
      BY <1>1, <2>1, <2>3, <3>1 DEF OtherOK, Saving
  <2>5. CASE index # 0
    <3>1. Spare' = index
      BY <1>2, <1>3, <2>1, <2>5 DEF Spare, NextIndex
    <3>2. copy[index].cnt = orig.cnt /\ Newer(curr.cnt, orig.cnt)
      BY <2>1, <2>5 DEF Kept, CountOK, Up, Saving, Stored
    <3> QED
      BY <1>1, <2>1, <2>3, <3>1, <3>2 DEF OtherOK, Saving
  <2> QED
    BY <2>4, <2>5
<1>7. CASE SaveFails
  <2>1. /\ pc \in Saving /\ stage' = "start"
        /\ curr.cnt \in FailCnts
        /\ pc' = "idle"
        /\ UNCHANGED <<copy, curr, orig, index>>
    BY <1>7 DEF SaveFails, AfterSave
  <2>2. Kept' /\ Nothing' /\ CountOK' /\ Spare' = Spare
    BY <2>1 DEF Kept, Nothing, CountOK, Up, Saving, Spare
  <2>3. ASSUME index # 0, copy[Spare].ok
        PROVE  \/ Newer(orig.cnt, copy[Spare].cnt)
               \/ Unacked(Spare) /\ copy[Spare].cnt <= curr.cnt
    <3>1. CASE stage = "start"
      BY <2>1, <2>3, <3>1 DEF OtherOK, Up, Saving
    <3>2. CASE stage = "erased"
      BY <2>1, <2>3, <3>2 DEF OtherOK, Up, Saving
    <3>3. CASE stage = "written"
      BY <1>2, <2>1, <2>3, <3>3 DEF OtherOK, CountOK, Up, Saving, Stored, Unacked, Cnts
    <3> QED
      BY <3>1, <3>2, <3>3 DEF TypeOK, Stages
  <2>4. OtherOK'
    BY <2>1, <2>2, <2>3 DEF OtherOK, Unacked
  <2> QED
    BY <1>1, <2>1, <2>2, <2>4 DEF Saving
<1>8. ASSUME pc = "off", stage' = stage, copy' = copy, orig' = Imported, index' = Selected,
             \/ pc' = "idle" /\ curr' = Imported
             \/ /\ pc' \in Saving
                /\ \E v \in Vals : curr' = Counted(Conf(Imported.cnt, v))
      PROVE  IInv'
  <2>1. /\ Selected \in 0 .. 2 /\ Imported \in Confs /\ Imported.cnt \in Cnts
        /\ Selected = 0 => ~copy[1].ok /\ ~copy[2].ok
        /\ Selected # 0 =>
             /\ Selected \in Copies
             /\ copy[Selected] = Stored(Imported)
             /\ copy[3 - Selected].ok => Newer(Imported.cnt, copy[3 - Selected].cnt)
    BY <1>8, ImportIsKept DEF Confs
  <2>2. stage' = "start" /\ pc' # "off"
    BY <1>8 DEF Saving
  <2>3. Nothing' /\ Kept'
    BY <1>8, <2>1, <2>2 DEF Nothing, Kept
  <2>4. Spare' = 3 - Selected \/ Selected = 0
    BY <1>8, <2>1 DEF Spare
  <2>5. OtherOK'
    BY <1>8, <2>1, <2>2, <2>4 DEF OtherOK
  <2>6. CASE pc' = "idle" /\ curr' = Imported
    BY <1>1, <1>8, <2>2, <2>3, <2>5, <2>6 DEF CountOK, Saving
  <2>7. ASSUME pc' \in Saving, NEW v \in Vals, curr' = Counted(Conf(Imported.cnt, v))
        PROVE  IInv'
    <3>1. Conf(Imported.cnt, v) \in Confs /\ Conf(Imported.cnt, v).cnt = Imported.cnt
      BY <2>1 DEF Conf, Confs
    <3>2. /\ Newer(curr'.cnt, Imported.cnt)
          /\ curr'.cnt # 0 => Imported.cnt < curr'.cnt
      BY <2>7, <3>1, CountedIsNewer
    <3>3. CountOK'
      BY <1>8, <2>7, <3>2 DEF CountOK, Saving, FailsAwayFromWrap
    <3> QED
      BY <1>1, <2>2, <2>3, <2>5, <3>3
  <2> QED
    BY <1>8, <2>6, <2>7
<1>9. CASE BootPlain
  BY <1>8, <1>9 DEF BootPlain
<1>10. ASSUME NEW v \in Vals, Boot(v) PROVE IInv'
  BY <1>8, <1>10 DEF Boot, Saving
<1>11. ASSUME NEW v \in Vals, Change(v) PROVE IInv'
  <2>1. curr'.cnt = curr.cnt
    BY <1>2, <1>11 DEF Change, Confs
  <2>2. pc = "idle" /\ UNCHANGED <<copy, orig, index, persist, pc, stage>>
    BY <1>11 DEF Change
  <2>3. stage = "start" /\ Spare' = Spare
    BY <2>2 DEF Saving, Spare
  <2>4. Nothing' /\ Kept' /\ CountOK' /\ OtherOK'
    BY <2>1, <2>2, <2>3 DEF Nothing, Kept, CountOK, OtherOK, Unacked, Up, Saving
  <2> QED
    BY <1>1, <2>2, <2>4
<1>12. CASE PowerLoss
  <2>1. Ordered' /\ pc' = "off" /\ stage' = "start"
    BY <1>12, AlwaysOrdered DEF PowerLoss, Ordered
  <2> QED
    BY <1>1, <2>1 DEF Nothing, Kept, CountOK, OtherOK, Up
<1>13. CASE UNCHANGED vars
  BY <1>1, <1>13 DEF vars, Ordered, Nothing, Kept, CountOK, OtherOK, Up, Unacked, Spare
<1> QED
  BY <1>4, <1>5, <1>6, <1>7, <1>9, <1>10, <1>11, <1>12, <1>13 DEF Next, Save

----------------------------------------------------------------------------
(* What holds of the configuration                                         *)

(* TypeOK holds in every reachable state, whichever writes fail. *)
THEOREM BspTypeCorrect == Spec => []TypeOK
<1>1. Init => TypeOK
  BY InitIInv DEF IInv
<1>2. TypeOK /\ [Next]_vars => TypeOK'
  BY NextType
<1> QED
  BY <1>1, <1>2, PTL DEF Spec

\* What the next power-up imports, by the state of the working copy
DurableOK ==
  Up =>
    /\ index = 0 /\ ~copy[1].ok => Durable = NoVal
    /\ index # 0 /\ (stage = "erased" \/ (stage = "start" /\ curr.cnt = orig.cnt))
         => Durable = orig.val
    /\ stage = "written" => Durable = curr.val

(* The copies are picked as DurableOK says. *)
LEMMA DurableIsPicked == IInv => DurableOK
<1> SUFFICES ASSUME IInv, Up PROVE DurableOK
  BY DEF DurableOK
<1>1. /\ copy[1].cnt \in Cnts /\ copy[2].cnt \in Cnts
      /\ curr.cnt \in Cnts /\ orig.cnt \in Cnts
      /\ index \in 0 .. 2 /\ stage \in Stages
  BY DEF IInv, TypeOK, Copies, Confs
<1>2. ASSUME index = 0, ~copy[1].ok PROVE Durable = NoVal
  BY <1>2 DEF IInv, Nothing, Durable, Selected
<1>3. ASSUME index # 0 PROVE index \in Copies /\ Spare = 3 - index /\ Spare \in Copies
  BY <1>1, <1>3 DEF Copies, Spare
<1>4. ASSUME index # 0, stage = "erased" \/ (stage = "start" /\ curr.cnt = orig.cnt)
      PROVE  Durable = orig.val
  <2>1. copy[Spare].ok => Newer(orig.cnt, copy[Spare].cnt)
    <3>1. CASE stage = "erased"
      BY <1>4, <3>1 DEF IInv, OtherOK
    <3>2. CASE stage = "start" /\ curr.cnt = orig.cnt
      BY <1>1, <1>3, <1>4, <3>2 DEF IInv, OtherOK, Unacked, Cnts, Copies
    <3> QED
      BY <1>4, <3>1, <3>2
  <2>2. copy[index].ok /\ copy[index].cnt = orig.cnt /\ copy[index].val = orig.val
    BY <1>4 DEF IInv, Kept, Stored
  <2>3. Selected = index
    BY <1>3, <1>4, <2>1, <2>2, PicksNewer DEF IInv
  <2> QED
    BY <1>4, <2>2, <2>3 DEF Durable
<1>5. ASSUME stage = "written" PROVE Durable = curr.val
  <2>0. pc \in Saving
    BY <1>5 DEF IInv
  <2>1. CASE index = 0
    <3>1. copy[1].ok /\ ~copy[2].ok /\ copy[1].val = curr.val
      BY <1>5, <2>1 DEF IInv, Nothing, Stored
    <3> QED
      BY <3>1 DEF Durable, Selected
  <2>2. CASE index # 0
    <3>1. copy[Spare] = Stored(curr) /\ copy[index] = Stored(orig)
      BY <1>5, <2>2 DEF IInv, OtherOK, Kept
    <3>2. /\ copy[Spare].ok /\ copy[Spare].val = curr.val
          /\ copy[Spare].cnt = curr.cnt /\ copy[index].cnt = orig.cnt
      BY <3>1 DEF Stored
    <3>3. Newer(curr.cnt, orig.cnt)
      BY <2>0, <2>2 DEF IInv, CountOK
    <3>4. Spare \in Copies /\ 3 - Spare = index
      BY <1>1, <1>3, <2>2
    <3>5. Selected = Spare
      BY <3>2, <3>3, <3>4, PicksNewer DEF IInv
    <3> QED
      BY <3>2, <3>4, <3>5 DEF Durable, Copies
  <2> QED
    BY <2>1, <2>2
<1> QED
  BY <1>2, <1>4, <1>5 DEF DurableOK

(* Without failing writes, the next power-up imports what was imported or      *)
(* saved last, until a write is complete.                                      *)
LEMMA ImportIsLast ==
  ASSUME IInv, FailCnts = {}, Up, index = 0 /\ stage # "written" => ~copy[1].ok
  PROVE  Imported = IF stage = "written" THEN curr
                    ELSE IF index = 0 THEN Zero ELSE orig
<1>1. /\ curr = Conf(curr.cnt, curr.val) /\ orig = Conf(orig.cnt, orig.val)
      /\ index \in 0 .. 2 /\ stage \in Stages
  BY DEF IInv, TypeOK, Confs, Conf
<1>2. ASSUME NEW i \in Copies, NEW c, copy[i] = Stored(c), c = Conf(c.cnt, c.val), Selected = i
      PROVE  Imported = c
  <2>1. copy[i].cnt = c.cnt /\ copy[i].val = c.val
    BY <1>2 DEF Stored
  <2> QED
    BY <1>2, <2>1 DEF Imported, Copies
<1>3. CASE index = 0
  <2>1. ~copy[2].ok
    BY <1>3 DEF IInv, Nothing
  <2>2. CASE stage = "written"
    <3>1. copy[1] = Stored(curr)
      BY <1>3, <2>2 DEF IInv, Nothing
    <3>2. Selected = 1
      BY <2>1, <3>1 DEF Selected, Stored
    <3> QED
      BY <1>1, <1>2, <2>2, <3>1, <3>2 DEF Copies
  <2>3. CASE stage # "written"
    BY <1>3, <2>1, <2>3 DEF Selected, Imported
  <2> QED
    BY <2>2, <2>3
<1>4. CASE index # 0
  <2>1. index \in Copies /\ Spare \in Copies /\ Spare = 3 - index /\ index = 3 - Spare
    BY <1>1, <1>4 DEF Copies, Spare
  <2>2. copy[index] = Stored(orig) /\ copy[index].ok /\ copy[index].cnt = orig.cnt
    BY <1>4 DEF IInv, Kept, Stored
  <2>3. CASE stage = "written"
    <3>1. /\ copy[Spare] = Stored(curr) /\ copy[Spare].ok /\ copy[Spare].cnt = curr.cnt
          /\ Newer(curr.cnt, orig.cnt)
      BY <1>4, <2>3 DEF IInv, OtherOK, CountOK, Stored
    <3>2. Selected = Spare
      BY <2>1, <2>2, <3>1, PicksNewer DEF IInv
    <3> QED
      BY <1>1, <1>2, <2>1, <2>3, <3>1, <3>2
  <2>4. CASE stage # "written"
    <3>1. copy[Spare].ok => Newer(orig.cnt, copy[Spare].cnt)
      BY <1>1, <1>4, <2>4 DEF IInv, OtherOK, Unacked, Stages
    <3>2. Selected = index
      BY <2>1, <2>2, <3>1, PicksNewer DEF IInv
    <3> QED
      BY <1>1, <1>2, <1>4, <2>1, <2>2, <2>4, <3>2
  <2> QED
    BY <2>3, <2>4
<1> QED
  BY <1>3, <1>4

(* The same in the next state. *)
LEMMA DurableIsPickedNext == IInv' => DurableOK'
BY DurableIsPicked, PTL

(* CleanMeansStored: a save that finds nothing to do has nothing to do. *)
THEOREM CleanIsStored ==
  ASSUME FailsAwayFromWrap PROVE Spec => []CleanMeansStored
<1>1. Init => IInv
  BY InitIInv
<1>2. IInv /\ [Next]_vars => IInv'
  BY NextIInv
<1>3. IInv => CleanMeansStored
  <2> SUFFICES ASSUME IInv, pc = "idle", index # 0, curr = orig PROVE Durable = curr.val
    BY DEF CleanMeansStored
  <2>1. Up /\ stage = "start"
    BY DEF IInv, Up, Saving
  <2> QED
    BY <2>1, DurableIsPicked DEF DurableOK
<1> QED
  BY <1>1, <1>2, <1>3, PTL DEF Spec

(* Every step of the two copies is a step of the atomic register. *)
LEMMA StepRefines ==
  ASSUME FailsAwayFromWrap, IInv, IInv', [Next]_vars
  PROVE  [Atomic!Next]_(Atomic!vars)
<1> USE DEF Atomic!vars, Atomic!Next
<1>1. curr \in Confs /\ curr' \in Confs /\ orig \in Confs /\ NoVal \notin Vals
  BY ValsAssumption DEF IInv, TypeOK
<1>2. DurableOK /\ DurableOK'
  BY DurableIsPicked, DurableIsPickedNext
<1>3. copy' = copy => Durable' = Durable
  BY DEF Durable, Selected
<1>4. CASE SaveBegin \/ SaveAgain
  <2>1. /\ pc \in {"idle", "again"} /\ pc' \in Saving
        /\ curr'.val = curr.val /\ curr.val \in Vals
        /\ UNCHANGED <<copy, orig, index>>
    BY <1>1, <1>4, CountedIsNewer DEF SaveBegin, SaveAgain, Saving, Confs
  <2>2. Atomic!Begin(curr.val)
    BY <1>3, <2>1 DEF Atomic!Begin, Saving
  <2> QED
    BY <2>1, <2>2
<1>5. CASE WriteErase
  <2>1. pc \in Saving /\ stage' = "erased" /\ UNCHANGED <<curr, orig, index, pc>>
    BY <1>5 DEF WriteErase, ram
  <2>2. index = 0 => ~copy'[1].ok
    BY <2>1 DEF IInv, Nothing, Up, Saving
  <2>3. Durable' = IF index = 0 THEN NoVal ELSE orig.val
    <3>1. Up' /\ index' = index /\ orig' = orig
      BY <2>1 DEF Up, Saving
    <3>2. CASE index = 0
      BY <1>2, <2>2, <3>1, <3>2 DEF DurableOK
    <3>3. CASE index # 0
      BY <1>2, <2>1, <3>1, <3>3 DEF DurableOK
    <3> QED
      BY <3>2, <3>3
  <2>4. Atomic!Revert
    BY <1>1, <2>1, <2>3 DEF Atomic!Revert, Saving, Confs
  <2> QED
    BY <2>4
<1>6. CASE WriteProgram
  <2>1. pc \in Saving /\ stage' = "written" /\ UNCHANGED <<curr, orig, index, pc>>
    BY <1>6 DEF WriteProgram, ram
  <2>2. Durable' = curr.val
    BY <1>2, <2>1 DEF DurableOK, Up, Saving
  <2>3. Atomic!Commit
    BY <1>1, <2>1, <2>2 DEF Atomic!Commit, Saving, Confs
  <2> QED
    BY <2>3
<1>7. CASE SaveReturns
  <2>1. /\ pc \in Saving /\ pc' \in {"idle", "again"} /\ stage = "written"
        /\ orig' = curr /\ index' # 0 /\ copy' = copy
    BY <1>7 DEF SaveReturns, AfterSave, NextIndex
  <2>2. Durable = curr.val /\ Durable' = Durable
    BY <1>2, <1>3, <2>1 DEF DurableOK, Up, Saving
  <2>3. Atomic!Ack
    BY <1>1, <2>1, <2>2 DEF Atomic!Ack, Saving, Confs
  <2> QED
    BY <2>3
<1>8. CASE SaveFails
  <2>1. pc \in Saving /\ pc' = "idle" /\ UNCHANGED <<copy, orig, index>>
    BY <1>8 DEF SaveFails, AfterSave
  <2>2. Atomic!Fail
    BY <1>1, <1>3, <2>1 DEF Atomic!Fail, Saving, Confs
  <2> QED
    BY <2>2
<1>9. ASSUME pc = "off", copy' = copy, orig' = Imported, index' = Selected
      PROVE  /\ Durable' = Durable
             /\ Durable = IF index' = 0 THEN NoVal ELSE orig'.val
  BY <1>3, <1>9 DEF Durable, Imported, Conf
<1>10. CASE BootPlain
  <2>1. pc = "off" /\ pc' = "idle" /\ copy' = copy /\ orig' = Imported /\ index' = Selected
    BY <1>10 DEF BootPlain
  <2> QED
    BY <1>9, <2>1 DEF Saving
<1>11. ASSUME NEW v \in Vals, Boot(v) PROVE [Atomic!Next]_(Atomic!vars)
  <2>1. pc = "off" /\ copy' = copy /\ orig' = Imported /\ index' = Selected
    BY <1>11 DEF Boot
  <2>2. CASE pc' = "idle"
    BY <1>9, <2>1, <2>2 DEF Saving
  <2>3. CASE pc' = "bl2" /\ curr' = Counted(Conf(Imported.cnt, v))
    <3>1. Conf(Imported.cnt, v) \in Confs /\ Conf(Imported.cnt, v).val = v
      BY <1>11, ImportType DEF IInv, Conf, Confs
    <3>2. curr'.val = v
      BY <2>3, <3>1, CountedIsNewer
    <3>3. Atomic!Begin(v)
      BY <1>9, <2>1, <2>3, <3>2 DEF Atomic!Begin, Saving
    <3> QED
      BY <3>3
  <2> QED
    BY <1>11, <2>2, <2>3 DEF Boot
<1>12. ASSUME NEW v \in Vals, Change(v) PROVE [Atomic!Next]_(Atomic!vars)
  BY <1>3, <1>12 DEF Change, Saving
<1>13. CASE PowerLoss
  <2>1. pc' = "off" /\ copy' = copy
    BY <1>13 DEF PowerLoss
  <2>2. Atomic!PowerLoss
    BY <1>3, <2>1 DEF Atomic!PowerLoss, Saving
  <2> QED
    BY <2>2
<1>14. CASE UNCHANGED vars
  BY <1>3, <1>14 DEF vars
<1> QED
  BY <1>4, <1>5, <1>6, <1>7, <1>8, <1>10, <1>11, <1>12, <1>13, <1>14 DEF Next, Save

(* ImplementsAtomicConf: the two copies implement the atomic register. *)
THEOREM BspConfIsAtomic ==
  ASSUME FailsAwayFromWrap PROVE Spec => ImplementsAtomicConf
<1>1. Init => IInv
  BY InitIInv
<1>2. IInv /\ [Next]_vars => IInv'
  BY NextIInv
<1>3. Init => Atomic!Init
  <2> SUFFICES ASSUME Init PROVE Atomic!Init
    OBVIOUS
  <2>1. pc = "off" /\ ~copy[1].ok /\ ~copy[2].ok
    BY DEF Init, Copies, Lost
  <2> QED
    BY <2>1 DEF Atomic!Init, Durable, Selected, Saving
<1>4. IInv /\ IInv' /\ [Next]_vars => [Atomic!Next]_(Atomic!vars)
  BY StepRefines
<1> QED
  BY <1>1, <1>2, <1>3, <1>4, PTL DEF Spec, ImplementsAtomicConf, Atomic!Spec
=============================================================================
