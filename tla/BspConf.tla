------------------------------ MODULE BspConf ------------------------------
(***************************************************************************)
(* The BSP configuration: two copies on flash (volumes bspconf1 and        *)
(* bspconf2, or both ends of the partition bspconf), each with an update   *)
(* count, of which the newer good one counts, and the working copy of      *)
(* U-Boot.  board/mediatek/common/bsp_conf.c; BL2 has the same import in   *)
(* plat/mediatek/apsoc_common/bl2/bsp_conf.c and passes its own working    *)
(* copy on in memory.                                                      *)
(*                                                                         *)
(* A copy that fails check_bsp_conf (length, version, CRC) has ok = FALSE. *)
(* Writing a copy destroys the old content first (a UBI volume is removed  *)
(* and created again, an MMC block is overwritten), and the power may fail *)
(* between any two steps.                                                  *)
(***************************************************************************)
EXTENDS Integers

CONSTANTS
  Vals,      \* what a configuration can say, all fields but the update count
  NoVal,     \* no configuration
  ZeroVal,   \* the zero-initialised curr_bspconf
  MaxCnt,    \* UINT32_MAX: update counts wrap around after it
  FailCnts   \* update counts whose write may report an error

Copies == 1 .. 2
Cnts   == 0 .. MaxCnt

ASSUME ValsAssumption == ZeroVal \in Vals /\ NoVal \notin Vals
ASSUME MaxCntAssumption == MaxCnt \in Nat /\ MaxCnt >= 3
ASSUME FailCntsAssumption == FailCnts \subseteq Cnts

VARIABLES
  copy,     \* the copies on flash
  curr,     \* curr_bspconf
  orig,     \* orig_bspconf: curr as it was last imported or saved
  index,    \* curr_bspconf_index, 0 if nothing was imported or saved
  persist,  \* persist_bsp_conf_available
  pc,       \* what U-Boot is doing with its configuration
  stage     \* how far the write of a copy has come

vars == <<copy, curr, orig, index, persist, pc, stage>>
ram  == <<curr, orig, index, persist>>

Conf(c, v) == [cnt |-> c, val |-> v]
Stored(conf) == [ok |-> TRUE, cnt |-> conf.cnt, val |-> conf.val]
Lost(c) == [ok |-> FALSE, cnt |-> c.cnt, val |-> c.val]
Zero == Conf(0, ZeroVal)

\* save: save_bsp_conf; bl2: the first forced save of import_bsp_conf_bl2;
\* bl2again: its second one, "again" being the point between them
Saving == {"save", "bl2", "bl2again"}
Stages == {"start", "erased", "written"}

----------------------------------------------------------------------------
(* import_bsp_conf: which copy counts                                      *)

\* Mutant: plain comparison, no wrap-around
NewerPlain(a, b) == a > b

\* the comparison of update counts in import_bsp_conf
Newer(a, b) ==
  \/ a = 0 /\ b = MaxCnt
  \/ a > b /\ ~(a = MaxCnt /\ b = 0)

\* the copy import_bsp_conf picks, 0 if none is usable
Selected ==
  IF copy[1].ok /\ ~(copy[2].ok /\ Newer(copy[2].cnt, copy[1].cnt)) THEN 1
  ELSE IF copy[2].ok THEN 2
  ELSE 0

Imported == IF Selected = 0 THEN Zero
            ELSE Conf(copy[Selected].cnt, copy[Selected].val)

----------------------------------------------------------------------------
(* __save_bsp_conf                                                         *)

NextIndex == IF index = 1 THEN 2 ELSE 1

\* curr_bspconf.upd_cnt++
Counted(conf) == [conf EXCEPT !.cnt = IF @ = MaxCnt THEN 0 ELSE @ + 1]

\* Called by a user of the configuration, who may find nothing to save
SaveBegin ==
  /\ pc = "idle"
  /\ ~(index # 0 /\ curr = orig)
  /\ curr' = Counted(curr)
  /\ pc' = "save"
  /\ stage' = "start"
  /\ UNCHANGED <<copy, orig, index, persist>>

\* board_save_bsp_conf destroys the old content of the copy ...
WriteErase ==
  /\ pc \in Saving
  /\ stage = "start"
  /\ copy' = [copy EXCEPT ![NextIndex] = Lost(@)]
  /\ stage' = "erased"
  /\ UNCHANGED <<ram, pc>>

\* ... and writes the new one
WriteProgram ==
  /\ pc \in Saving
  /\ stage = "erased"
  /\ copy' = [copy EXCEPT ![NextIndex] = Stored(curr)]
  /\ stage' = "written"
  /\ UNCHANGED <<ram, pc>>

\* What the caller does next: import_bsp_conf_bl2 saves a second time if there
\* was no configuration on flash, so that both copies exist
AfterSave(ok) ==
  /\ pc' = IF pc = "bl2" /\ ok /\ ~persist THEN "again" ELSE "idle"
  /\ persist' = (persist \/ pc = "bl2again")

SaveReturns ==
  /\ pc \in Saving
  /\ stage = "written"
  /\ orig' = curr
  /\ index' = NextIndex
  /\ AfterSave(TRUE)
  /\ stage' = "start"
  /\ UNCHANGED <<copy, curr>>

\* Mutant: the update count is taken back
SaveFailsUncounted ==
  /\ pc \in Saving
  /\ curr.cnt \in FailCnts
  /\ curr' = [curr EXCEPT !.cnt = orig.cnt]
  /\ AfterSave(FALSE)
  /\ stage' = "start"
  /\ UNCHANGED <<copy, orig, index>>

\* The board reports an error, at any point: the verification of a good write
\* may fail as well.  The update count keeps its increment.
SaveFails ==
  /\ pc \in Saving
  /\ curr.cnt \in FailCnts
  /\ AfterSave(FALSE)
  /\ stage' = "start"
  /\ UNCHANGED <<copy, curr, orig, index>>

SaveAgain ==
  /\ pc = "again"
  /\ curr' = Counted(curr)
  /\ pc' = "bl2again"
  /\ UNCHANGED <<copy, orig, index, persist, stage>>

----------------------------------------------------------------------------
(* Power-up, users, power loss                                             *)

\* ubi_import_bsp_conf or mmc_import_bsp_conf, without a correct configuration
\* from BL2
BootPlain ==
  /\ pc = "off"
  /\ curr' = Imported
  /\ orig' = Imported
  /\ index' = Selected
  /\ persist' = (Selected # 0)
  /\ pc' = "idle"
  /\ UNCHANGED <<copy, stage>>

\* The same, followed by import_bsp_conf_bl2: BL2 imported what U-Boot imports,
\* and passes the value "val" it has made of it
Boot(val) ==
  /\ pc = "off"
  /\ orig' = Imported
  /\ index' = Selected
  /\ persist' = (Selected # 0)
  /\ LET passed == Conf(Imported.cnt, val)
     IN  IF Selected # 0 /\ passed = Imported
           THEN /\ curr' = Imported
                /\ pc' = "idle"
           ELSE /\ curr' = Counted(passed)
                /\ pc' = "bl2"
  /\ UNCHANGED <<copy, stage>>

\* "bspconf set", or an upgrade of the firmware
Change(val) ==
  /\ pc = "idle"
  /\ curr' = [curr EXCEPT !.val = val]
  /\ UNCHANGED <<copy, orig, index, persist, pc, stage>>

PowerLoss ==
  /\ pc # "off"
  /\ curr' = Zero
  /\ orig' = Zero
  /\ index' = 0
  /\ persist' = FALSE
  /\ pc' = "off"
  /\ stage' = "start"
  /\ UNCHANGED copy

----------------------------------------------------------------------------
Init ==
  /\ copy = [i \in Copies |-> Lost(Stored(Zero))]
  /\ curr = Zero
  /\ orig = Zero
  /\ index = 0
  /\ persist = FALSE
  /\ pc = "off"
  /\ stage = "start"

Save ==
  SaveBegin \/ WriteErase \/ WriteProgram \/ SaveReturns \/ SaveFails \/ SaveAgain

Next ==
  \/ BootPlain
  \/ \E v \in Vals : Boot(v) \/ Change(v)
  \/ Save
  \/ PowerLoss

Spec == Init /\ [][Next]_vars

----------------------------------------------------------------------------
(* Properties                                                              *)

Confs == [cnt : Cnts, val : Vals]

TypeOK ==
  /\ copy \in [Copies -> [ok : BOOLEAN, cnt : Cnts, val : Vals]]
  /\ curr \in Confs
  /\ orig \in Confs
  /\ index \in 0 .. 2
  /\ persist \in BOOLEAN
  /\ pc \in {"off", "idle", "again"} \cup Saving
  /\ stage \in Stages

Durable == IF Selected = 0 THEN NoVal ELSE copy[Selected].val

\* A save that finds nothing to do returns success, and success it is: what
\* U-Boot takes for saved is what the next power-up would import, whatever
\* failed writes and power losses came before.
CleanMeansStored ==
  (pc = "idle" /\ index # 0 /\ curr = orig) => Durable = curr.val

Atomic ==
  INSTANCE AtomicConf WITH
    store  <- Durable,
    acked  <- IF pc = "off" THEN Durable
              ELSE IF index = 0 THEN NoVal ELSE orig.val,
    saving <- IF pc \in Saving THEN curr.val ELSE NoVal

\* The two copies and their update counts make an atomic, durable register of
\* what need not be one: no power loss at any point of a save, no failed write
\* and no wrap-around of the count brings an older value back.
ImplementsAtomicConf == Atomic!Spec
=============================================================================
