------------------------------ MODULE DualFip ------------------------------
(***************************************************************************)
(* Dual FIP: two slots for the firmware image package, of which BL2 loads  *)
(* the current one or falls back to the other, and which U-Boot upgrades   *)
(* by writing the other slot and switching to it.  Which slot is current   *)
(* and which are marked invalid is kept in the BSP configuration, so the   *)
(* module composes the slots with BspConf:                                 *)
(*   BL2     plat/mediatek/apsoc_common/bl2/dual_fip.c and the retry of    *)
(*           bl2/bl2_image_load_v2.c (Trusted Firmware-A)                  *)
(*   U-Boot  generic_ubi_write_dual_fip, generic_mmc_write_dual_fip        *)
(* Power may fail anywhere: in an image, in a copy of the configuration.   *)
(***************************************************************************)
EXTENDS Integers

CONSTANTS
  NoConf,    \* no configuration
  MaxCnt,    \* UINT32_MAX
  FailCnts,  \* update counts whose write may report an error
  Images     \* what may be uploaded

\* good    loads and runs
\* bad     its checksum is right, but an image in it fails to load
\* packed  an image in it loads, but cannot be decompressed
\* torn    fails load_validate_fip: empty, or half written
Kinds == {"good", "bad", "packed", "torn"}

ASSUME ImagesAssumption == Images \subseteq Kinds \ {"torn"}
ASSUME MaxCntAssumption == MaxCnt \in Nat /\ MaxCnt >= 3
ASSUME FailCntsAssumption == FailCnts \subseteq 0 .. MaxCnt

Slots == 0 .. 1
Other(s) == 1 - s

\* The fields of the configuration that BL2 and the upgrade look at; the size,
\* CRC and update count of each image are bookkeeping
FipConfs == [cur : Slots, inv : [Slots -> BOOLEAN]]
ZeroConf == [cur |-> 0, inv |-> [s \in Slots |-> FALSE]]

ASSUME NoConfAssumption == NoConf \notin FipConfs

VARIABLES
  copy, curr, orig, index, persist, pc, stage,  \* of BspConf
  image,  \* what each slot holds
  job     \* the upgrade: none, erased, written

bsp  == <<copy, curr, orig, index, persist, pc, stage>>
vars == <<bsp, image, job>>

B == INSTANCE BspConf WITH Vals <- FipConfs, NoVal <- NoConf, ZeroVal <- ZeroConf

----------------------------------------------------------------------------
(* BL2                                                                     *)

NoSlot == [ok |-> FALSE, conf |-> ZeroConf]
Slot(c) == [ok |-> TRUE, conf |-> c]

Marked(c, s) == [c EXCEPT !.inv[s] = TRUE]
Usable(c, s) == ~c.inv[s] /\ image[s] # "torn"

\* Mutant: the slot that failed is not marked, and is tried again
GetFipSlotUnmarked(c, failed) ==
  IF Usable(c, c.cur) THEN Slot(c)
  ELSE IF Usable(c, Other(c.cur)) THEN Slot([c EXCEPT !.cur = Other(@)])
  ELSE NoSlot

\* get_fip_slot: the current slot unless it is marked invalid, has just failed
\* to load, or does not verify; then the other one
GetFipSlot(c, failed) ==
  LET marked == Marked(c, c.cur)
  IN  IF ~failed /\ Usable(c, c.cur) THEN Slot(c)
      ELSE IF Usable(marked, Other(c.cur))
        THEN Slot([marked EXCEPT !.cur = Other(@)])
      ELSE NoSlot

Loads(r) == r.ok /\ image[r.conf.cur] = "good"

\* bl2_load_images: a slot that fails to load is given up for the next one,
\* once; one that fails later, in bl2_plat_handle_post_image_load, is not
Bl2(c) ==
  LET first == GetFipSlot(c, FALSE)
      retry == GetFipSlot(first.conf, TRUE)
  IN  IF Loads(first) THEN first
      ELSE IF first.ok /\ image[first.conf.cur] = "bad" /\ Loads(retry) THEN retry
      ELSE NoSlot

\* What BL2 makes of the configuration on flash; if no slot loads,
\* plat_error_handler stops the boot
Bl2Result == Bl2(B!Imported.val)

PowerUp ==
  /\ Bl2Result.ok
  /\ B!Boot(Bl2Result.conf)
  /\ UNCHANGED <<image, job>>

----------------------------------------------------------------------------
(* U-Boot                                                                  *)

\* the slot an upgrade writes
Target == Other(curr.val.cur)

UpgradeErases ==
  /\ pc = "idle"
  /\ job = "none"
  /\ image' = [image EXCEPT ![Target] = "torn"]
  /\ job' = "erased"
  /\ UNCHANGED bsp

UpgradeWrites(kind) ==
  /\ job = "erased"
  /\ image' = [image EXCEPT ![Target] = kind]
  /\ job' = "written"
  /\ UNCHANGED bsp

\* The write or its verification reports an error: the configuration stays
UpgradeFails ==
  /\ job \in {"erased", "written"}
  /\ job' = "none"
  /\ UNCHANGED <<bsp, image>>

\* Mutant: the mark of the slot written is not taken back
SwitchedMarked(c) == [c EXCEPT !.cur = Target]

Switched(c) == [c EXCEPT !.cur = Target, !.inv[Target] = FALSE]

\* The new slot becomes the current one; the image's update count has changed,
\* so that save_bsp_conf always finds something to save
UpgradeSaves ==
  /\ job = "written"
  /\ job' = "none"
  /\ curr' = B!Counted(B!Conf(curr.cnt, Switched(curr.val)))
  /\ pc' = "save"
  /\ stage' = "start"
  /\ UNCHANGED <<copy, orig, index, persist, image>>

WritesConf ==
  /\ B!WriteErase \/ B!WriteProgram \/ B!SaveReturns \/ B!SaveFails \/ B!SaveAgain
  /\ UNCHANGED <<image, job>>

PowerLoss ==
  /\ B!PowerLoss
  /\ job' = "none"
  /\ UNCHANGED image

----------------------------------------------------------------------------
Init ==
  /\ B!Init
  /\ image \in [Slots -> {"good", "torn"}]
  /\ image[0] = "good"
  /\ job = "none"

Next ==
  \/ PowerUp
  \/ UpgradeErases
  \/ \E k \in Images : UpgradeWrites(k)
  \/ UpgradeFails
  \/ UpgradeSaves
  \/ WritesConf
  \/ PowerLoss

Spec == Init /\ [][Next]_vars

----------------------------------------------------------------------------
(* Properties                                                              *)

\* As long as one slot holds a good image, the next power-up boots: whatever was
\* cut short, no torn image, no bad image and no stale mark in the configuration
\* keeps BL2 from the slot that works.
BootsIfAnyGood ==
  (pc = "off" /\ \E s \in Slots : image[s] = "good") => Bl2Result.ok

\* When an upgrade has returned success, the next power-up boots from the slot
\* it wrote, if that image is good, and not from the one before.
UpgradeIsBooted ==
  (pc = "idle" /\ job = "none" /\ curr = orig /\ image[curr.val.cur] = "good") =>
    Bl2Result = Slot(curr.val)

\* While a slot is being written, the configuration on flash names the other
\* one, in which U-Boot's working copy agrees with it.
SpareIsWritten == job # "none" => B!Imported.val.cur # Target
=============================================================================
