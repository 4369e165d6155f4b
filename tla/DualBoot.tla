------------------------------ MODULE DualBoot ------------------------------
(***************************************************************************)
(* A/B boot of the firmware: board/mediatek/common/dual_boot.c, with the   *)
(* boot_slot callbacks and the upgrades of mtd_helper.c and mmc_helper.c.  *)
(* The current slot and the marks of the invalid ones are environment      *)
(* variables; the number of attempts is in a register that a warm reset    *)
(* keeps and a cold one clears.                                            *)
(*                                                                         *)
(* Images are verified before they are started (FIT images, or             *)
(* CONFIG_MTK_DUAL_BOOT_IMAGE_ROOTFS_VERIFY); env_save() is atomic, for    *)
(* the environment is redundant, but it may fail; panic() resets.  There   *)
(* is no emergency image.                                                  *)
(***************************************************************************)
EXTENDS Integers

CONSTANTS
  MaxRetry,  \* CONFIG_MTK_DUAL_BOOT_MAX_RETRY_COUNT, 0 if retries are disabled
  Images,    \* what may be uploaded
  Commands   \* the commands of the prompt that read an image

\* good     boots, and then sets the boot count to 0
\* crashes  is intact, but resets the board before it gets that far
\* torn     fails the verification: empty, or half written
Kinds == {"good", "crashes", "torn"}

ASSUME MaxRetryAssumption == MaxRetry \in 0 .. 127
ASSUME ImagesAssumption == Images \subseteq {"good", "crashes"}
ASSUME CommandsAssumption == Commands \subseteq {"mtkboardboot", "mtkbootconf"}

Slots == 0 .. 1
Other(s) == 1 - s

VARIABLES
  image,   \* what each slot holds
  flash,   \* the environment on flash: current slot, slots marked invalid
  env,     \* the environment in memory
  count,   \* the boot count register
  pc,      \* where the board is
  doBoot,  \* the argument of dual_boot()
  ret,     \* its local variable and result
  loaded,  \* a verified image is at the load address
  job,     \* the upgrade
  tries    \* history: attempts to boot from a slot since its image last came up
           \* or was upgraded

vars == <<image, flash, env, count, pc, doBoot, ret, loaded, job, tries>>

Envs == [cur : Slots, inv : [Slots -> BOOLEAN]]
DefaultEnv == [cur |-> 0, inv |-> [s \in Slots |-> FALSE]]

\* The register without a valid count
NoCount == [slot |-> -1, n |-> 0]

\* try .. marknext are the points of dual_boot() between its writes
Steps == {"try", "mark", "next", "bootnext", "marknext"}

----------------------------------------------------------------------------
(* dual_boot()                                                             *)

BootCount == IF count.slot = env.cur THEN count.n ELSE 0

SetBootCount(s, n) ==
  count' = IF MaxRetry > 0 THEN [slot |-> s, n |-> n] ELSE count

Exhausted == MaxRetry > 0 /\ BootCount >= MaxRetry

Marked(e, s) == [e EXCEPT !.inv[s] = TRUE]

\* priv->boot_slot: verify the image of slot s and start it
BootSlot(s, failed) ==
  /\ loaded' = (image[s] # "torn")
  /\ IF image[s] = "torn" THEN pc' = failed /\ ret' = "error"
     ELSE IF doBoot        THEN pc' = "os" /\ UNCHANGED ret
     ELSE pc' = "idle" /\ ret' = "zero"
  /\ tries' = [tries EXCEPT ![s] = IF doBoot /\ @ < MaxRetry THEN @ + 1 ELSE @]

TryMarked ==
  /\ pc = "try"
  /\ env.inv[env.cur]
  /\ pc' = "next"
  /\ UNCHANGED <<image, flash, env, count, doBoot, ret, loaded, job, tries>>

TryExhausted ==
  /\ pc = "try"
  /\ ~env.inv[env.cur]
  /\ Exhausted
  /\ pc' = "mark"
  /\ UNCHANGED <<image, flash, env, count, doBoot, ret, loaded, job, tries>>

\* Mutant: the attempt is not counted
TryUncounted ==
  /\ pc = "try"
  /\ ~env.inv[env.cur]
  /\ ~Exhausted
  /\ SetBootCount(env.cur, BootCount)
  /\ BootSlot(env.cur, "mark")
  /\ UNCHANGED <<image, flash, env, doBoot, job>>

TryCurrent ==
  /\ pc = "try"
  /\ ~env.inv[env.cur]
  /\ ~Exhausted
  /\ SetBootCount(env.cur, BootCount + 1)
  /\ BootSlot(env.cur, "mark")
  /\ UNCHANGED <<image, flash, env, doBoot, job>>

\* env_save(); if it fails the environment in memory keeps the change
Saved(e, ok) ==
  /\ env' = e
  /\ flash' = IF ok THEN e ELSE flash

\* The result of dual_boot_set_slot_invalid is ignored
MarkInvalid(ok) ==
  /\ pc \in {"mark", "marknext"}
  /\ Saved(Marked(env, env.cur), ok)
  /\ pc' = IF pc = "mark" THEN "next" ELSE "idle"
  /\ UNCHANGED <<image, count, doBoot, ret, loaded, job, tries>>

\* The next slot is marked as well: dual_boot returns "ret", which nothing has
\* set if the current slot was marked, or its attempts exhausted
NextMarked ==
  /\ pc = "next"
  /\ env.inv[Other(env.cur)]
  /\ ret' \in IF ret = "unset" THEN {"zero", "error"} ELSE {ret}
  /\ pc' = "idle"
  /\ UNCHANGED <<image, flash, env, count, doBoot, loaded, job, tries>>

\* Mutant: the switch is not made
NextKept(ok) ==
  /\ pc = "next"
  /\ ~env.inv[Other(env.cur)]
  /\ Saved(env, ok)
  /\ pc' = IF ok THEN "bootnext" ELSE "off"
  /\ UNCHANGED <<image, count, doBoot, ret, loaded, job, tries>>

\* dual_boot_set_current_slot(dual_boot_get_next_slot()), which must succeed
NextSelected(ok) ==
  /\ pc = "next"
  /\ ~env.inv[Other(env.cur)]
  /\ LET e == [env EXCEPT !.cur = Other(@)]
     IN  IF ok THEN Saved(e, TRUE) /\ pc' = "bootnext"
         ELSE UNCHANGED flash /\ env' = flash /\ pc' = "off"    \* panic()
  /\ UNCHANGED <<image, count, doBoot, ret, loaded, job, tries>>

BootNext ==
  /\ pc = "bootnext"
  /\ SetBootCount(env.cur, 1)
  /\ BootSlot(env.cur, "marknext")
  /\ UNCHANGED <<image, flash, env, doBoot, job>>

----------------------------------------------------------------------------
(* The board                                                               *)

Call(b) ==
  /\ pc' = "try"
  /\ doBoot' = b
  /\ ret' = "unset"
  /\ loaded' = FALSE

\* bootcmd is "mtkboardboot"
AutoBoot ==
  /\ pc = "off"
  /\ Call(TRUE)
  /\ UNCHANGED <<image, flash, env, count, job, tries>>

\* Autoboot is interrupted
Interrupt ==
  /\ pc = "off"
  /\ pc' = "idle"
  /\ ret' = "unset"
  /\ loaded' = FALSE
  /\ UNCHANGED <<image, flash, env, count, doBoot, job, tries>>

Command(cmd) ==
  /\ pc = "idle"
  /\ job = "none"
  /\ Call(cmd = "mtkboardboot")
  /\ UNCHANGED <<image, flash, env, count, job, tries>>

\* The firmware is up and resets the boot count, as "reset_boot_count" asks it to
OsUp ==
  /\ pc = "os"
  /\ image[env.cur] = "good"
  /\ pc' = "osup"
  /\ SetBootCount(env.cur, 0)
  /\ tries' = [tries EXCEPT ![env.cur] = 0]
  /\ UNCHANGED <<image, flash, env, doBoot, ret, loaded, job>>

\* A warm reset; U-Boot then loads the environment from flash
Reset ==
  /\ pc' = "off"
  /\ env' = flash
  /\ job' = "none"
  /\ UNCHANGED <<image, flash, doBoot, ret, loaded, tries>>

OsCrashes ==
  /\ pc = "os"
  /\ image[env.cur] = "crashes"
  /\ Reset
  /\ UNCHANGED count

\* At the prompt, or while the firmware boots or runs
UserResets ==
  /\ pc \in {"idle", "os", "osup"}
  /\ pc = "os" => image[env.cur] = "good"
  /\ Reset
  /\ UNCHANGED count

\* A power loss, or a cold reset
ColdReset ==
  /\ Reset
  /\ count' = NoCount

----------------------------------------------------------------------------
(* Upgrades and the environment                                            *)

Target == Other(env.cur)

UpgradeErases ==
  /\ pc = "idle"
  /\ job = "none"
  /\ image' = [image EXCEPT ![Target] = "torn"]
  /\ job' = "erased"
  /\ ret' = "unset"
  /\ UNCHANGED <<flash, env, count, pc, doBoot, loaded, tries>>

UpgradeWrites(kind) ==
  /\ job = "erased"
  /\ image' = [image EXCEPT ![Target] = kind]
  /\ job' = "written"
  /\ UNCHANGED <<flash, env, count, pc, doBoot, ret, loaded, tries>>

UpgradeFails ==
  /\ job \in {"erased", "written"}
  /\ job' = "none"
  /\ UNCHANGED <<image, flash, env, count, pc, doBoot, ret, loaded, tries>>

\* Mutant: the count of the slot written is not reset
PostUpgradeKeepsCount(ok) ==
  /\ job = "written"
  /\ Saved([env EXCEPT !.cur = Target, !.inv[Target] = FALSE], ok)
  /\ tries' = [tries EXCEPT ![Target] = 0]
  /\ job' = "none"
  /\ UNCHANGED <<image, count, pc, doBoot, ret, loaded>>

\* mtd_dual_boot_post_upgrade, mmc_dual_boot_post_upgrade: the upgrade succeeds
\* whether the environment is saved or not
PostUpgrade(ok) ==
  /\ job = "written"
  /\ Saved([env EXCEPT !.cur = Target, !.inv[Target] = FALSE], ok)
  /\ SetBootCount(Target, 0)
  /\ tries' = [tries EXCEPT ![Target] = 0]
  /\ job' = "none"
  /\ UNCHANGED <<image, pc, doBoot, ret, loaded>>

\* The environment is set to its default from the web UI
EnvReset(ok) ==
  /\ pc = "idle"
  /\ job = "none"
  /\ Saved(DefaultEnv, ok)
  /\ ret' = "unset"
  /\ UNCHANGED <<image, count, pc, doBoot, loaded, job, tries>>

----------------------------------------------------------------------------
Init ==
  /\ image \in [Slots -> {"good", "torn"}]
  /\ image[0] = "good"
  /\ flash = DefaultEnv
  /\ env = DefaultEnv
  /\ count = NoCount
  /\ pc = "off"
  /\ doBoot = TRUE
  /\ ret = "unset"
  /\ loaded = FALSE
  /\ job = "none"
  /\ tries = [s \in Slots |-> 0]

Boot ==
  \/ AutoBoot
  \/ TryMarked \/ TryExhausted \/ TryCurrent
  \/ NextMarked \/ BootNext
  \/ OsUp \/ OsCrashes

BootSaves(ok) == MarkInvalid(ok) \/ NextSelected(ok)

User ==
  \/ Interrupt
  \/ \E cmd \in Commands : Command(cmd)
  \/ UserResets
  \/ ColdReset

Upgrade ==
  \/ UpgradeErases
  \/ \E k \in Images : UpgradeWrites(k)
  \/ UpgradeFails
  \/ \E ok \in BOOLEAN : PostUpgrade(ok) \/ EnvReset(ok)

Next ==
  \/ Boot
  \/ \E ok \in BOOLEAN : BootSaves(ok)
  \/ User
  \/ Upgrade

Spec == Init /\ [][Next]_vars

\* Nothing keeps the board from booting once it is on: dual_boot() waits for
\* nobody, and an image either comes up or resets the board
FairSpec == Spec /\ WF_vars(Boot \/ \E ok \in BOOLEAN : BootSaves(ok))

----------------------------------------------------------------------------
(* Properties                                                              *)

TypeOK ==
  /\ image \in [Slots -> Kinds]
  /\ flash \in Envs
  /\ env \in Envs
  /\ count \in {NoCount} \cup [slot : Slots, n : 0 .. MaxRetry]
  /\ pc \in {"off", "idle", "os", "osup"} \cup Steps
  /\ doBoot \in BOOLEAN
  /\ ret \in {"unset", "zero", "error"}
  /\ loaded \in BOOLEAN
  /\ job \in {"none", "erased", "written"}
  /\ tries \in [Slots -> 0 .. MaxRetry]

\* dual_boot() has returned without an image
Failed == pc = "idle" /\ ret # "unset" /\ ~loaded

\* dual_boot gives up only when no slot is left that holds a good image and is
\* not marked: power losses, resets and failed saves of the environment between
\* its steps never make it skip one.
FailsOnlyIfNoGood ==
  Failed => \A s \in Slots : image[s] = "good" => env.inv[s]

\* An intact image is marked invalid only after all its retries: no count left
\* over from the other slot or from the image that was overwritten is held
\* against it.
MarkedAfterRetries ==
  [][\A s \in Slots :
       (pc' # "off" /\ image[s] # "torn" /\ ~env.inv[s] /\ env'.inv[s]) =>
         tries[s] >= MaxRetry]_vars

\* dual_boot returns 0 only with a verified image at the load address.
ZeroMeansLoaded == (pc = "idle" /\ ret = "zero") => loaded

\* What keeps a boot from being followed to its end
Disturbed ==
  \/ ColdReset \/ UserResets
  \/ MarkInvalid(FALSE) \/ NextSelected(FALSE)

\* If the board is left alone, booting comes to an end, in a firmware that is up
\* or at the prompt: an image that crashes is given up after its retries.
BootEnds == <>[][~Disturbed]_vars => []<>(pc \in {"idle", "osup"})
=============================================================================
