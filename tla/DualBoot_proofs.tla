-------------------------- MODULE DualBoot_proofs --------------------------
(***************************************************************************)
(* Proofs about DualBoot: dual_boot() gives up only when it must, and no   *)
(* intact image is marked before its retries are used up, for every        *)
(* retry count, whatever saves of the environment fail.                    *)
(***************************************************************************)
EXTENDS DualBoot, TLAPS

\* "mtkbootconf" counts attempts it does not make
NoBootconf == "mtkbootconf" \notin Commands

\* The register counts attempts of the image in its slot only
CountOK ==
  NoBootconf =>
    /\ doBoot
    /\ count.slot \in Slots => count.n <= tries[count.slot]

\* What dual_boot() has established at its intermediate points
StepsOK ==
  /\ (NoBootconf /\ pc = "mark") => image[env.cur] = "torn" \/ tries[env.cur] >= MaxRetry
  /\ pc = "next" => env.inv[env.cur]
  /\ pc \in {"bootnext", "marknext"} => env.inv[Other(env.cur)]
  /\ pc = "marknext" => image[env.cur] = "torn"
  /\ job # "none" => pc = "idle" /\ ret = "unset"

IInv == TypeOK /\ CountOK /\ StepsOK /\ FailsOnlyIfNoGood

----------------------------------------------------------------------------
(* The environments that dual_boot() and the upgrade make                  *)

LEMMA SlotFacts ==
  ASSUME NEW s \in Slots
  PROVE  /\ Other(s) \in Slots /\ Other(s) # s /\ Other(Other(s)) = s
         /\ \A t \in Slots : t = s \/ t = Other(s)
BY DEF Slots, Other

LEMMA MarkedFacts ==
  ASSUME NEW e \in Envs, NEW s \in Slots
  PROVE  /\ Marked(e, s) \in Envs
         /\ Marked(e, s).cur = e.cur
         /\ Marked(e, s).inv[s]
         /\ \A t \in Slots : t # s => Marked(e, s).inv[t] = e.inv[t]
BY DEF Marked, Envs

LEMMA SwitchedFacts ==
  ASSUME NEW e \in Envs, NEW s \in Slots
  PROVE  /\ [e EXCEPT !.cur = s] \in Envs
         /\ [e EXCEPT !.cur = s].cur = s
         /\ [e EXCEPT !.cur = s].inv = e.inv
BY DEF Envs

LEMMA UpgradedFacts ==
  ASSUME NEW e \in Envs, NEW s \in Slots
  PROVE  /\ [e EXCEPT !.cur = s, !.inv[s] = FALSE] \in Envs
         /\ \A t \in Slots :
              [e EXCEPT !.cur = s, !.inv[s] = FALSE].inv[t] => e.inv[t]
BY DEF Envs

LEMMA DefaultFacts == DefaultEnv \in Envs /\ \A t \in Slots : ~DefaultEnv.inv[t]
BY DEF DefaultEnv, Envs, Slots

LEMMA TriesFacts ==
  ASSUME NEW f \in [Slots -> 0 .. MaxRetry], NEW s \in Slots
  PROVE  [f EXCEPT ![s] = 0] \in [Slots -> 0 .. MaxRetry]
<1>1. 0 \in 0 .. MaxRetry
  BY MaxRetryAssumption
<1> QED
  BY <1>1

LEMMA CountFacts ==
  ASSUME TypeOK, NEW s \in Slots, NEW n \in 0 .. MaxRetry, SetBootCount(s, n)
  PROVE  count' \in {NoCount} \cup [slot : Slots, n : 0 .. MaxRetry]
BY MaxRetryAssumption DEF TypeOK, SetBootCount

----------------------------------------------------------------------------
(* Types                                                                   *)

LEMMA BootSlotType ==
  ASSUME TypeOK, NEW s \in Slots, NEW failed \in Steps, BootSlot(s, failed)
  PROVE  /\ pc' \in {"off", "idle", "os", "osup"} \cup Steps
         /\ ret' \in {"unset", "zero", "error"}
         /\ loaded' \in BOOLEAN
         /\ tries' \in [Slots -> 0 .. MaxRetry]
<1>1. tries' \in [Slots -> 0 .. MaxRetry]
  <2>1. tries' = [tries EXCEPT ![s] = IF doBoot /\ tries[s] < MaxRetry
                                       THEN tries[s] + 1 ELSE tries[s]]
    BY DEF BootSlot
  <2>2. tries \in [Slots -> 0 .. MaxRetry] /\ tries[s] \in 0 .. MaxRetry
    BY DEF TypeOK
  <2>3. (IF doBoot /\ tries[s] < MaxRetry THEN tries[s] + 1 ELSE tries[s]) \in 0 .. MaxRetry
    BY <2>2, MaxRetryAssumption
  <2> QED
    BY <2>1, <2>2, <2>3
<1>2. loaded' \in BOOLEAN
  BY DEF BootSlot
<1>3. pc' \in {"off", "idle", "os", "osup"} \cup Steps /\ ret' \in {"unset", "zero", "error"}
  BY DEF BootSlot, TypeOK
<1> QED
  BY <1>1, <1>2, <1>3

LEMMA InitType == Init => TypeOK
<1> SUFFICES ASSUME Init PROVE TypeOK
  OBVIOUS
<1>1. image \in [Slots -> Kinds] /\ env \in Envs /\ flash \in Envs
  BY DefaultFacts DEF Init, Kinds
<1>2. tries \in [Slots -> 0 .. MaxRetry]
  BY MaxRetryAssumption DEF Init
<1>3. doBoot \in BOOLEAN /\ loaded \in BOOLEAN
  BY DEF Init
<1> QED
  BY <1>1, <1>2, <1>3 DEF Init, TypeOK

LEMMA NextType == TypeOK /\ [Next]_vars => TypeOK'
<1> SUFFICES ASSUME TypeOK, [Next]_vars PROVE TypeOK'
  OBVIOUS
<1>1. /\ env \in Envs /\ flash \in Envs
      /\ env.cur \in Slots /\ Other(env.cur) \in Slots
  BY SlotFacts DEF TypeOK, Envs
<1>2. CASE TryMarked \/ TryExhausted
  BY <1>2 DEF TypeOK, TryMarked, TryExhausted, Steps
<1>3. CASE TryCurrent
  <2>1. BootCount + 1 \in 0 .. MaxRetry \/ MaxRetry = 0
    BY <1>1, <1>3, MaxRetryAssumption DEF TypeOK, TryCurrent, BootCount, Exhausted, NoCount, Slots
  <2>2. count' \in {NoCount} \cup [slot : Slots, n : 0 .. MaxRetry]
    BY <1>1, <1>3, <2>1, CountFacts DEF TryCurrent, SetBootCount, TypeOK
  <2>3. BootSlot(env.cur, "mark") /\ "mark" \in Steps
    BY <1>3 DEF TryCurrent, Steps
  <2> QED
    BY <1>1, <1>3, <2>2, <2>3, BootSlotType DEF TypeOK, TryCurrent
<1>4. ASSUME NEW ok \in BOOLEAN, MarkInvalid(ok) PROVE TypeOK'
  <2>1. env' \in Envs /\ flash' \in Envs
    BY <1>1, <1>4, MarkedFacts DEF MarkInvalid, Saved
  <2> QED
    BY <1>4, <2>1 DEF TypeOK, MarkInvalid, Steps
<1>5. CASE NextMarked
  BY <1>5 DEF TypeOK, NextMarked
<1>6. ASSUME NEW ok \in BOOLEAN, NextSelected(ok) PROVE TypeOK'
  <2>1. env' \in Envs /\ flash' \in Envs
    BY <1>1, <1>6, SwitchedFacts DEF NextSelected, Saved
  <2> QED
    BY <1>6, <2>1 DEF TypeOK, NextSelected, Steps
<1>7. CASE BootNext
  <2>1. count' \in {NoCount} \cup [slot : Slots, n : 0 .. MaxRetry]
    <3>1. CASE MaxRetry = 0
      BY <1>7, <3>1 DEF BootNext, SetBootCount, TypeOK
    <3>2. CASE MaxRetry > 0
      <4>1. 1 \in 0 .. MaxRetry
        BY <3>2, MaxRetryAssumption
      <4> QED
        BY <1>1, <1>7, <4>1, CountFacts DEF BootNext
    <3> QED
      BY <3>1, <3>2, MaxRetryAssumption
  <2>2. BootSlot(env.cur, "marknext") /\ "marknext" \in Steps
    BY <1>7 DEF BootNext, Steps
  <2> QED
    BY <1>1, <1>7, <2>1, <2>2, BootSlotType DEF TypeOK, BootNext
<1>8. CASE AutoBoot
  BY <1>8 DEF TypeOK, AutoBoot, Call, Steps
<1>9. ASSUME NEW cmd \in Commands, Command(cmd) PROVE TypeOK'
  <2>1. doBoot' \in BOOLEAN /\ loaded' \in BOOLEAN
    BY <1>9 DEF Command, Call
  <2> QED
    BY <1>9, <2>1 DEF TypeOK, Command, Call, Steps
<1>10. CASE OsUp
  <2>1. tries' \in [Slots -> 0 .. MaxRetry]
    BY <1>1, <1>10, TriesFacts DEF OsUp, TypeOK
  <2>2. count' \in {NoCount} \cup [slot : Slots, n : 0 .. MaxRetry]
    BY <1>1, <1>10, MaxRetryAssumption, CountFacts DEF OsUp
  <2> QED
    BY <1>10, <2>1, <2>2 DEF TypeOK, OsUp
<1>11. CASE OsCrashes \/ UserResets \/ ColdReset
  <2>1. count' = count \/ count' = NoCount
    BY <1>11 DEF OsCrashes, UserResets, ColdReset
  <2>2. Reset
    BY <1>11 DEF OsCrashes, UserResets, ColdReset
  <2> QED
    BY <2>1, <2>2 DEF TypeOK, Reset
<1>12. CASE Interrupt
  BY <1>12 DEF TypeOK, Interrupt
<1>13. CASE UpgradeErases \/ UpgradeFails \/ \E k \in Images : UpgradeWrites(k)
  <2>1. image' \in [Slots -> Kinds]
    BY <1>1, <1>13, ImagesAssumption
       DEF UpgradeErases, UpgradeFails, UpgradeWrites, TypeOK, Kinds, Target
  <2> QED
    BY <1>13, <2>1 DEF TypeOK, UpgradeErases, UpgradeFails, UpgradeWrites
<1>14. ASSUME NEW ok \in BOOLEAN, PostUpgrade(ok) PROVE TypeOK'
  <2>1. env' \in Envs /\ flash' \in Envs
    BY <1>1, <1>14, UpgradedFacts DEF PostUpgrade, Saved, Target
  <2>2. tries' \in [Slots -> 0 .. MaxRetry]
    BY <1>1, <1>14, TriesFacts DEF PostUpgrade, TypeOK, Target
  <2>3. count' \in {NoCount} \cup [slot : Slots, n : 0 .. MaxRetry]
    BY <1>1, <1>14, MaxRetryAssumption, CountFacts DEF PostUpgrade, Target
  <2> QED
    BY <1>14, <2>1, <2>2, <2>3 DEF TypeOK, PostUpgrade
<1>15. ASSUME NEW ok \in BOOLEAN, EnvReset(ok) PROVE TypeOK'
  <2>1. env' \in Envs /\ flash' \in Envs
    BY <1>1, <1>15, DefaultFacts DEF EnvReset, Saved
  <2> QED
    BY <1>15, <2>1 DEF TypeOK, EnvReset
<1>16. CASE UNCHANGED vars
  BY <1>16 DEF TypeOK, vars
<1> QED
  BY <1>2, <1>3, <1>4, <1>5, <1>6, <1>7, <1>8, <1>9, <1>10, <1>11, <1>12, <1>13, <1>14,
     <1>15, <1>16 DEF Next, Boot, BootSaves, User, Upgrade

(* TypeOK holds in every reachable state. *)
THEOREM DualBootTypeCorrect == Spec => []TypeOK
BY InitType, NextType, PTL DEF Spec

----------------------------------------------------------------------------
(* The register: it never counts more than the attempts made               *)

LEMMA TriesGrow ==
  ASSUME TypeOK, NEW s \in Slots, NEW failed \in Steps, BootSlot(s, failed)
  PROVE  /\ \A t \in Slots : tries[t] <= tries'[t]
         /\ (doBoot /\ tries[s] < MaxRetry) => tries'[s] = tries[s] + 1
<1>1. tries' = [tries EXCEPT ![s] = IF doBoot /\ tries[s] < MaxRetry
                                     THEN tries[s] + 1 ELSE tries[s]]
  BY DEF BootSlot
<1>2. tries \in [Slots -> 0 .. MaxRetry] /\ \A t \in Slots : tries[t] \in 0 .. MaxRetry
  BY DEF TypeOK
<1> QED
  BY <1>1, <1>2, MaxRetryAssumption

LEMMA CountStep ==
  ASSUME TypeOK, CountOK, [Next]_vars
  PROVE  CountOK'
<1> SUFFICES ASSUME NoBootconf
             PROVE  doBoot' /\ (count'.slot \in Slots => count'.n <= tries'[count'.slot])
  BY DEF CountOK, NoBootconf
<1>1. /\ doBoot
      /\ count.slot \in Slots => count.n <= tries[count.slot]
  BY DEF CountOK
<1>2. /\ env.cur \in Slots
      /\ Other(env.cur) \in Slots
      /\ Other(env.cur) # env.cur
  BY SlotFacts DEF TypeOK, Envs
<1>3. /\ count \in {NoCount} \cup [slot : Slots, n : 0 .. MaxRetry]
      /\ NoCount.slot \notin Slots
      /\ tries \in [Slots -> 0 .. MaxRetry]
      /\ \A s \in Slots : tries[s] \in 0 .. MaxRetry
      /\ MaxRetry \in 0 .. 127
  BY MaxRetryAssumption DEF TypeOK, NoCount, Slots
<1>4. CASE TryCurrent
  <2>1. /\ doBoot' = doBoot
        /\ SetBootCount(env.cur, BootCount + 1)
        /\ ~Exhausted
        /\ BootSlot(env.cur, "mark") /\ "mark" \in Steps
    BY <1>4 DEF TryCurrent, Steps
  <2>2. /\ \A t \in Slots : tries[t] <= tries'[t] /\ tries'[t] \in 0 .. MaxRetry
        /\ tries[env.cur] < MaxRetry => tries'[env.cur] = tries[env.cur] + 1
    BY <1>1, <1>2, <2>1, TriesGrow, BootSlotType
  <2>3. CASE MaxRetry = 0
    BY <1>1, <1>3, <2>1, <2>2, <2>3 DEF SetBootCount
  <2>4. CASE MaxRetry > 0
    <3>1. count' = [slot |-> env.cur, n |-> BootCount + 1]
      BY <2>1, <2>4 DEF SetBootCount
    <3>2. BootCount \in 0 .. MaxRetry - 1 /\ BootCount <= tries[env.cur]
      BY <1>1, <1>2, <1>3, <2>1, <2>4 DEF BootCount, Exhausted
    <3>3. BootCount + 1 <= tries'[env.cur]
      BY <1>2, <1>3, <2>2, <3>2
    <3> QED
      BY <1>1, <2>1, <3>1, <3>3
  <2> QED
    BY <1>3, <2>3, <2>4
<1>5. CASE BootNext
  <2>1. /\ doBoot' = doBoot
        /\ SetBootCount(env.cur, 1)
        /\ BootSlot(env.cur, "marknext") /\ "marknext" \in Steps
    BY <1>5 DEF BootNext, Steps
  <2>2. /\ \A t \in Slots : tries[t] <= tries'[t] /\ tries'[t] \in 0 .. MaxRetry
        /\ tries[env.cur] < MaxRetry => tries'[env.cur] = tries[env.cur] + 1
    BY <1>1, <1>2, <2>1, TriesGrow, BootSlotType
  <2>3. CASE MaxRetry = 0
    BY <1>1, <1>3, <2>1, <2>2, <2>3 DEF SetBootCount
  <2>4. CASE MaxRetry > 0
    <3>1. count' = [slot |-> env.cur, n |-> 1]
      BY <2>1, <2>4 DEF SetBootCount
    <3>2. 1 <= tries'[env.cur]
      BY <1>2, <1>3, <2>2, <2>4
    <3> QED
      BY <1>1, <2>1, <3>1, <3>2
  <2> QED
    BY <1>3, <2>3, <2>4
<1>6. CASE OsUp
  <2>1. /\ doBoot' = doBoot
        /\ SetBootCount(env.cur, 0)
        /\ tries' = [tries EXCEPT ![env.cur] = 0]
    BY <1>6 DEF OsUp
  <2>2. CASE MaxRetry = 0
    BY <1>1, <1>2, <1>3, <2>1, <2>2 DEF SetBootCount
  <2>3. CASE MaxRetry > 0
    BY <1>1, <1>2, <1>3, <2>1, <2>3 DEF SetBootCount
  <2> QED
    BY <1>3, <2>2, <2>3
<1>7. ASSUME NEW ok \in BOOLEAN, PostUpgrade(ok)
      PROVE  doBoot' /\ (count'.slot \in Slots => count'.n <= tries'[count'.slot])
  <2>1. /\ doBoot' = doBoot
        /\ SetBootCount(Target, 0)
        /\ tries' = [tries EXCEPT ![Target] = 0]
        /\ Target \in Slots
    BY <1>2, <1>7 DEF PostUpgrade, Target
  <2>2. CASE MaxRetry = 0
    BY <1>1, <1>2, <1>3, <2>1, <2>2 DEF SetBootCount
  <2>3. CASE MaxRetry > 0
    BY <1>1, <1>2, <1>3, <2>1, <2>3 DEF SetBootCount
  <2> QED
    BY <1>3, <2>2, <2>3
<1>8. CASE AutoBoot
  BY <1>1, <1>8 DEF AutoBoot, Call
<1>9. ASSUME NEW cmd \in Commands, Command(cmd)
      PROVE  doBoot' /\ (count'.slot \in Slots => count'.n <= tries'[count'.slot])
  <2>1. cmd = "mtkboardboot"
    BY CommandsAssumption DEF NoBootconf
  <2> QED
    BY <1>1, <1>9, <2>1 DEF Command, Call
<1>10. CASE OsCrashes \/ UserResets
  BY <1>1, <1>10 DEF OsCrashes, UserResets, Reset
<1>11. CASE ColdReset
  BY <1>1, <1>3, <1>11 DEF ColdReset, Reset
<1>12. CASE TryMarked \/ TryExhausted \/ NextMarked \/ Interrupt
  BY <1>1, <1>12 DEF TryMarked, TryExhausted, NextMarked, Interrupt
<1>13. CASE UpgradeErases \/ UpgradeFails \/ \E k \in Images : UpgradeWrites(k)
  BY <1>1, <1>13 DEF UpgradeErases, UpgradeFails, UpgradeWrites
<1>14. ASSUME NEW ok \in BOOLEAN, MarkInvalid(ok) \/ NextSelected(ok) \/ EnvReset(ok)
       PROVE  doBoot' /\ (count'.slot \in Slots => count'.n <= tries'[count'.slot])
  BY <1>1, <1>14 DEF MarkInvalid, NextSelected, EnvReset
<1>15. CASE UNCHANGED vars
  BY <1>1, <1>15 DEF vars
<1> QED
  BY <1>4, <1>5, <1>6, <1>7, <1>8, <1>9, <1>10, <1>11, <1>12, <1>13, <1>14, <1>15
     DEF Next, Boot, BootSaves, User, Upgrade

----------------------------------------------------------------------------
(* dual_boot() from one of its writes to the next                          *)

LEMMA StepsStep ==
  ASSUME IInv, [Next]_vars
  PROVE  StepsOK'
<1>1. /\ env \in Envs /\ flash \in Envs
      /\ env.cur \in Slots
      /\ Other(env.cur) \in Slots
      /\ Other(env.cur) # env.cur
      /\ Other(Other(env.cur)) = env.cur
  BY SlotFacts DEF IInv, TypeOK, Envs
<1>2. StepsOK
  BY DEF IInv
<1>3. CASE TryMarked
  BY <1>2, <1>3 DEF StepsOK, TryMarked
<1>4. CASE TryExhausted
  <2>1. NoBootconf => tries[env.cur] >= MaxRetry
    <3> SUFFICES ASSUME NoBootconf PROVE tries[env.cur] >= MaxRetry
      OBVIOUS
    <3>1. count.slot = env.cur /\ count.n >= MaxRetry
      BY <1>4, MaxRetryAssumption DEF TryExhausted, Exhausted, BootCount
    <3>2. count.n <= tries[env.cur]
      BY <1>1, <3>1 DEF IInv, CountOK
    <3>3. count.n \in 0 .. MaxRetry /\ tries[env.cur] \in 0 .. MaxRetry
      BY <1>1, <3>1 DEF IInv, TypeOK, NoCount, Slots
    <3> QED
      BY <3>1, <3>2, <3>3, MaxRetryAssumption
  <2>2. /\ pc' = "mark" /\ env' = env /\ tries' = tries /\ image' = image
        /\ job' = job /\ job = "none"
    BY <1>2, <1>4 DEF TryExhausted, StepsOK
  <2>3. NoBootconf' = NoBootconf
    BY DEF NoBootconf
  <2> QED
    BY <2>1, <2>2, <2>3 DEF StepsOK
<1>5. CASE TryCurrent
  <2>1. /\ env' = env /\ image' = image /\ job' = job /\ job = "none"
    BY <1>2, <1>5 DEF TryCurrent, StepsOK
  <2>2. \/ pc' = "mark" /\ image[env.cur] = "torn"
        \/ pc' \in {"os", "idle"}
    BY <1>5 DEF TryCurrent, BootSlot
  <2> QED
    BY <2>1, <2>2 DEF StepsOK
<1>6. ASSUME NEW ok \in BOOLEAN, MarkInvalid(ok) PROVE StepsOK'
  <2>1. job' = job /\ job = "none"
    BY <1>2, <1>6 DEF MarkInvalid, StepsOK
  <2>2. CASE pc = "mark"
    <3>1. pc' = "next" /\ env'.inv[env'.cur]
      BY <1>1, <1>6, <2>2, MarkedFacts DEF MarkInvalid, Saved
    <3> QED
      BY <2>1, <3>1 DEF StepsOK
  <2>3. CASE pc = "marknext"
    BY <1>6, <2>1, <2>3 DEF StepsOK, MarkInvalid
  <2> QED
    BY <1>6, <2>2, <2>3 DEF MarkInvalid
<1>7. CASE NextMarked
  <2>1. pc' = "idle" /\ job' = job /\ job = "none"
    BY <1>2, <1>7 DEF NextMarked, StepsOK
  <2> QED
    BY <2>1 DEF StepsOK
<1>8. ASSUME NEW ok \in BOOLEAN, NextSelected(ok) PROVE StepsOK'
  <2>1. job' = job /\ job = "none" /\ env.inv[env.cur]
    BY <1>2, <1>8 DEF NextSelected, StepsOK
  <2>2. CASE ok = TRUE
    <3>1. pc' = "bootnext" /\ env' = [env EXCEPT !.cur = Other(@)]
      BY <1>8, <2>2 DEF NextSelected, Saved
    <3>2. env'.cur = Other(env.cur) /\ env'.inv = env.inv
      BY <1>1, <3>1 DEF Envs
    <3>3. env'.inv[Other(env'.cur)]
      BY <1>1, <2>1, <3>2
    <3> QED
      BY <2>1, <3>1, <3>3 DEF StepsOK
  <2>3. CASE ok = FALSE
    BY <1>8, <2>1, <2>3 DEF StepsOK, NextSelected
  <2> QED
    BY <2>2, <2>3
<1>9. CASE BootNext
  <2>1. /\ env' = env /\ image' = image /\ job' = job /\ job = "none"
        /\ env.inv[Other(env.cur)]
    BY <1>2, <1>9 DEF BootNext, StepsOK
  <2>2. \/ pc' = "marknext" /\ image[env.cur] = "torn"
        \/ pc' \in {"os", "idle"}
    BY <1>9 DEF BootNext, BootSlot
  <2> QED
    BY <2>1, <2>2 DEF StepsOK
<1>10. CASE AutoBoot \/ Interrupt
  BY <1>2, <1>10 DEF StepsOK, AutoBoot, Interrupt, Call
<1>11. ASSUME NEW cmd \in Commands, Command(cmd) PROVE StepsOK'
  BY <1>2, <1>11 DEF StepsOK, Command, Call
<1>12. CASE OsUp
  BY <1>2, <1>12 DEF StepsOK, OsUp
<1>13. CASE OsCrashes \/ UserResets \/ ColdReset
  BY <1>13 DEF StepsOK, OsCrashes, UserResets, ColdReset, Reset
<1>14. CASE UpgradeErases
  BY <1>2, <1>14 DEF StepsOK, UpgradeErases
<1>15. CASE UpgradeFails \/ \E k \in Images : UpgradeWrites(k)
  BY <1>2, <1>15 DEF StepsOK, UpgradeFails, UpgradeWrites
<1>16. ASSUME NEW ok \in BOOLEAN, PostUpgrade(ok) PROVE StepsOK'
  BY <1>2, <1>16 DEF StepsOK, PostUpgrade
<1>17. ASSUME NEW ok \in BOOLEAN, EnvReset(ok) PROVE StepsOK'
  BY <1>17 DEF StepsOK, EnvReset
<1>18. CASE UNCHANGED vars
  BY <1>2, <1>18 DEF StepsOK, vars, NoBootconf
<1> QED
  BY <1>3, <1>4, <1>5, <1>6, <1>7, <1>8, <1>9, <1>10, <1>11, <1>12, <1>13, <1>14, <1>15,
     <1>16, <1>17, <1>18 DEF Next, Boot, BootSaves, User, Upgrade

----------------------------------------------------------------------------
(* Giving up                                                               *)

\* dual_boot() can only fail where both slots are marked
LEMMA FailStep ==
  ASSUME IInv, [Next]_vars
  PROVE  FailsOnlyIfNoGood'
<1>1. /\ env \in Envs
      /\ env.cur \in Slots
      /\ Other(env.cur) # env.cur
      /\ \A s \in Slots : s = env.cur \/ s = Other(env.cur)
      /\ Other(env.cur) \in Slots
  BY SlotFacts DEF IInv, TypeOK, Envs
<1>2. StepsOK /\ FailsOnlyIfNoGood
  BY DEF IInv
<1>3. CASE NextMarked
  <2>1. env' = env /\ env.inv[env.cur] /\ env.inv[Other(env.cur)]
    BY <1>2, <1>3 DEF NextMarked, StepsOK
  <2>2. \A s \in Slots : env'.inv[s]
    BY <1>1, <2>1
  <2> QED
    BY <2>2 DEF FailsOnlyIfNoGood
<1>4. ASSUME NEW ok \in BOOLEAN, MarkInvalid(ok) PROVE FailsOnlyIfNoGood'
  <2>1. CASE pc = "mark"
    BY <1>4, <2>1 DEF MarkInvalid, FailsOnlyIfNoGood, Failed
  <2>2. CASE pc = "marknext"
    <3>1. env.inv[Other(env.cur)] /\ env' = Marked(env, env.cur)
      BY <1>2, <1>4, <2>2 DEF StepsOK, MarkInvalid, Saved
    <3>2. env'.inv[env.cur] /\ env'.inv[Other(env.cur)]
      BY <1>1, <3>1, MarkedFacts
    <3>3. \A s \in Slots : env'.inv[s]
      BY <1>1, <3>2
    <3> QED
      BY <3>3 DEF FailsOnlyIfNoGood
  <2> QED
    BY <1>4, <2>1, <2>2 DEF MarkInvalid
<1>5. CASE TryCurrent
  <2>1. ~Failed'
    BY <1>5 DEF TryCurrent, BootSlot, Failed
  <2> QED
    BY <2>1 DEF FailsOnlyIfNoGood
<1>6. CASE BootNext
  <2>1. ~Failed'
    BY <1>6 DEF BootNext, BootSlot, Failed
  <2> QED
    BY <2>1 DEF FailsOnlyIfNoGood
<1>7. CASE TryMarked \/ TryExhausted \/ AutoBoot \/ Interrupt \/ OsUp
  <2>1. ~Failed'
    BY <1>7 DEF Failed, TryMarked, TryExhausted, AutoBoot, Interrupt, OsUp, Call
  <2> QED
    BY <2>1 DEF FailsOnlyIfNoGood
<1>8. ASSUME NEW ok \in BOOLEAN, NextSelected(ok) PROVE FailsOnlyIfNoGood'
  <2>1. ~Failed'
    BY <1>8 DEF Failed, NextSelected
  <2> QED
    BY <2>1 DEF FailsOnlyIfNoGood
<1>9. ASSUME NEW cmd \in Commands, Command(cmd) PROVE FailsOnlyIfNoGood'
  BY <1>9 DEF FailsOnlyIfNoGood, Failed, Command, Call
<1>10. CASE OsCrashes \/ UserResets \/ ColdReset
  BY <1>10 DEF FailsOnlyIfNoGood, Failed, OsCrashes, UserResets, ColdReset, Reset
<1>11. CASE UpgradeErases
  BY <1>11 DEF FailsOnlyIfNoGood, Failed, UpgradeErases
<1>12. CASE UpgradeFails \/ \E k \in Images : UpgradeWrites(k)
  <2>1. ret = "unset" /\ ret' = ret
    BY <1>2, <1>12 DEF StepsOK, UpgradeFails, UpgradeWrites
  <2> QED
    BY <2>1 DEF FailsOnlyIfNoGood, Failed
<1>13. ASSUME NEW ok \in BOOLEAN, PostUpgrade(ok) PROVE FailsOnlyIfNoGood'
  <2>1. ret = "unset" /\ ret' = ret
    BY <1>2, <1>13 DEF StepsOK, PostUpgrade
  <2> QED
    BY <2>1 DEF FailsOnlyIfNoGood, Failed
<1>14. ASSUME NEW ok \in BOOLEAN, EnvReset(ok) PROVE FailsOnlyIfNoGood'
  BY <1>14 DEF FailsOnlyIfNoGood, Failed, EnvReset
<1>15. CASE UNCHANGED vars
  BY <1>2, <1>15 DEF FailsOnlyIfNoGood, Failed, vars
<1> QED
  BY <1>3, <1>4, <1>5, <1>6, <1>7, <1>8, <1>9, <1>10, <1>11, <1>12, <1>13, <1>14, <1>15
     DEF Next, Boot, BootSaves, User, Upgrade

----------------------------------------------------------------------------
(* The theorems                                                            *)

LEMMA InitInv == Init => IInv
<1> SUFFICES ASSUME Init PROVE IInv
  OBVIOUS
<1>1. TypeOK
  BY InitType
<1>2. CountOK
  BY DEF Init, CountOK, NoCount, Slots
<1>3. StepsOK
  BY DEF Init, StepsOK
<1>4. FailsOnlyIfNoGood
  BY DEF Init, FailsOnlyIfNoGood, Failed
<1> QED
  BY <1>1, <1>2, <1>3, <1>4 DEF IInv

LEMMA NextInv == IInv /\ [Next]_vars => IInv'
<1> SUFFICES ASSUME IInv, [Next]_vars PROVE IInv'
  OBVIOUS
<1>1. TypeOK'
  BY NextType DEF IInv
<1>2. CountOK'
  BY CountStep DEF IInv
<1>3. StepsOK'
  BY StepsStep
<1>4. FailsOnlyIfNoGood'
  BY FailStep
<1> QED
  BY <1>1, <1>2, <1>3, <1>4 DEF IInv

LEMMA Inductive == Spec => []IInv
BY InitInv, NextInv, PTL DEF Spec

(* dual_boot() returns without an image only if every slot that holds a good *)
(* one has been marked, for any number of retries and whatever saves fail.   *)
THEOREM GivesUpOnlyIfNoGood == Spec => []FailsOnlyIfNoGood
<1>1. IInv => FailsOnlyIfNoGood
  BY DEF IInv
<1> QED
  BY <1>1, Inductive, PTL

\* Every write of the marks but those of MarkInvalid clears them, or restores
\* those on flash after a reset
LEMMA MarkStep ==
  ASSUME NoBootconf, IInv, [Next]_vars, NEW s \in Slots,
         pc' # "off", image[s] # "torn", ~env.inv[s], env'.inv[s]
  PROVE  tries[s] >= MaxRetry
<1>1. /\ env \in Envs /\ flash \in Envs
      /\ env.cur \in Slots
      /\ Other(env.cur) \in Slots
  BY SlotFacts DEF IInv, TypeOK, Envs
<1>2. env' # env
  OBVIOUS
<1>3. CASE \E ok \in BOOLEAN : MarkInvalid(ok)
  <2>1. env' = Marked(env, env.cur) /\ pc \in {"mark", "marknext"}
    BY <1>3 DEF MarkInvalid, Saved
  <2>2. Marked(env, env.cur).inv = [env.inv EXCEPT ![env.cur] = TRUE]
    BY <1>1 DEF Marked, Envs
  <2>3. s = env.cur
    <3> SUFFICES ASSUME s # env.cur PROVE FALSE
      OBVIOUS
    <3>1. env'.inv[s] <=> env.inv[s]
      BY <1>1, <2>1, <2>2 DEF Envs
    <3> QED
      BY <3>1
  <2>4. image[env.cur] = "torn" \/ tries[env.cur] >= MaxRetry
    BY <2>1 DEF IInv, StepsOK
  <2> QED
    BY <2>3, <2>4
<1>4. ASSUME NEW ok \in BOOLEAN, NextSelected(ok) PROVE FALSE
  <2>1. env' = [env EXCEPT !.cur = Other(@)]
    BY <1>4 DEF NextSelected, Saved
  <2>2. env'.inv = env.inv
    BY <1>1, <2>1 DEF Envs
  <2> QED
    BY <2>2
<1>5. ASSUME NEW ok \in BOOLEAN, PostUpgrade(ok) PROVE FALSE
  <2>1. env' = [env EXCEPT !.cur = Target, !.inv[Target] = FALSE]
    BY <1>5 DEF PostUpgrade, Saved
  <2>2. env'.inv[s] => env.inv[s]
    BY <1>1, <2>1, UpgradedFacts DEF Target
  <2> QED
    BY <2>2
<1>6. ASSUME NEW ok \in BOOLEAN, EnvReset(ok) PROVE FALSE
  <2>1. env' = DefaultEnv
    BY <1>6 DEF EnvReset, Saved
  <2> QED
    BY <2>1, DefaultFacts
<1>7. ASSUME OsCrashes \/ UserResets \/ ColdReset PROVE FALSE
  BY <1>7 DEF OsCrashes, UserResets, ColdReset, Reset
<1>8. ASSUME \/ TryMarked \/ TryExhausted \/ TryCurrent \/ NextMarked \/ BootNext
             \/ AutoBoot \/ Interrupt \/ OsUp
             \/ \E cmd \in Commands : Command(cmd)
      PROVE  FALSE
  BY <1>2, <1>8 DEF TryMarked, TryExhausted, TryCurrent, NextMarked, BootNext, AutoBoot,
     Interrupt, OsUp, Command
<1>9. ASSUME UpgradeErases \/ UpgradeFails \/ \E k \in Images : UpgradeWrites(k)
      PROVE  FALSE
  BY <1>2, <1>9 DEF UpgradeErases, UpgradeFails, UpgradeWrites
<1>10. ASSUME UNCHANGED vars PROVE FALSE
  BY <1>2, <1>10 DEF vars
<1> QED
  BY <1>3, <1>4, <1>5, <1>6, <1>7, <1>8, <1>9, <1>10 DEF Next, Boot, BootSaves, User, Upgrade

(* Without "mtkbootconf", an intact image is marked invalid only after all    *)
(* its retries, whatever the number of retries is: neither the count of the   *)
(* other slot nor that of the image it replaced is held against it.           *)
THEOREM MarksAreEarned ==
  ASSUME NoBootconf
  PROVE  Spec => MarkedAfterRetries
<1>1. IInv /\ [Next]_vars =>
        [\A s \in Slots :
           (pc' # "off" /\ image[s] # "torn" /\ ~env.inv[s] /\ env'.inv[s]) =>
             tries[s] >= MaxRetry]_vars
  BY MarkStep
<1> QED
  BY <1>1, Inductive, PTL DEF Spec, MarkedAfterRetries
=============================================================================
