----------------------------- MODULE AtomicConf -----------------------------
(***************************************************************************)
(* What the two-copy BSP configuration promises its users: a save is       *)
(* atomic.  Power loss leaves the old value or the new one, an             *)
(* acknowledged save is durable, and a value nobody saved never appears.   *)
(* A save that reports an error may have taken effect; it stays in effect  *)
(* if the power fails, and a later save may first undo it.                 *)
(***************************************************************************)
CONSTANTS
  Vals,
  NoVal    \* no value was ever saved; not one of Vals

VARIABLES
  store,   \* the value found if the power failed now
  acked,   \* the value last acknowledged, or found at the last power-up
  saving   \* the value being saved

vars == <<store, acked, saving>>

Init ==
  /\ store \in Vals \cup {NoVal}
  /\ acked = store
  /\ saving = NoVal

Begin(v) ==
  /\ saving = NoVal
  /\ saving' = v
  /\ UNCHANGED <<store, acked>>

Commit ==
  /\ saving # NoVal
  /\ store' = saving
  /\ UNCHANGED <<acked, saving>>

\* undoes an earlier save that was not acknowledged
Revert ==
  /\ saving # NoVal
  /\ store' = acked
  /\ UNCHANGED <<acked, saving>>

Ack ==
  /\ saving # NoVal
  /\ store = saving
  /\ acked' = saving
  /\ saving' = NoVal
  /\ UNCHANGED store

Fail ==
  /\ saving # NoVal
  /\ saving' = NoVal
  /\ UNCHANGED <<store, acked>>

PowerLoss ==
  /\ saving' = NoVal
  /\ acked' = store
  /\ UNCHANGED store

Next ==
  \/ \E v \in Vals : Begin(v)
  \/ Commit \/ Revert \/ Ack \/ Fail \/ PowerLoss

Spec == Init /\ [][Next]_vars
=============================================================================
