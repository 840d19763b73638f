----------------------------- MODULE DeltaUpdate ----------------------------
(***************************************************************************)
(* The device: the main loop of main.c and its button interrupt, updates   *)
(* one after the other, the bootloader, the developer's host, and the loss *)
(* of power at any moment.  What a call of delta_check_and_apply does is   *)
(* taken from its contract, which DeltaCheck implements.                   *)
(*                                                                         *)
(* Images are numbered in the order in which they were built.  The patch   *)
(* partition holds a patch from one image to another; what the engine      *)
(* makes of it when the running image is a different one is "broken", and  *)
(* so may be what delta_flash_write makes of it (see DeltaFlash).          *)
(***************************************************************************)
EXTENDS UpdateContract, Integers

CONSTANT MAX_IMAGE  \* bound: images built

ASSUME ImageAssumption == MAX_IMAGE \in Nat

VARIABLES
  main,      \* where main() is; "off" from power loss or reset to boot
  listening, \* the button's callback is installed
  btn_flag,
  slot0,     \* the image in the primary slot
  slot1_image, \* the image in the secondary slot
  pending,   \* the bootloader has been asked for a swap
  patch,     \* the patch in the partition
  source,    \* the host's copy of the running image (source.bin)
  built,     \* the image built last (target.bin)
  made,      \* the patch made last (patch.bin)
  asking,    \* make flash-patch waits at its prompt
  wanted,    \* history: a press that no read of the header followed yet
  uses,      \* history: how often this patch was taken
  applied,   \* history: an upgrade was requested with this patch
  base       \* history: the image that ran when a swap was last requested

device_vars == << main, listening, btn_flag >>
image_vars == << slot0, slot1_image, pending >>
host_vars == << patch, source, built, made, asking >>
history_vars == << wanted, uses, applied, base >>
update_vars == << contract_vars, device_vars, image_vars, host_vars, history_vars >>

Images == 0 .. MAX_IMAGE
Contents == Images \cup {-1}  \* -1: no image, or a broken one
Broken == -1

UpdateInit ==
  /\ main = "off" /\ listening = FALSE /\ btn_flag = FALSE
  /\ slot0 = 0 /\ slot1_image = Broken /\ pending = FALSE
  /\ header = "none" /\ slot1 = "kept" /\ status = "zero"
  /\ patch = [from |-> 0, to |-> 0] /\ made = patch
  /\ source = 0 /\ built = 0 /\ asking = FALSE
  /\ wanted = FALSE /\ uses = 0 /\ applied = FALSE /\ base = 0

-----------------------------------------------------------------------------
(* MCUboot swaps the slots if that was requested and the image in the      *)
(* secondary slot is valid: a broken one fails the check of its signature. *)
Bootable_Unchecked == TRUE
Bootable == slot1_image # Broken

Boot ==
  /\ main = "off"
  /\ main' = "start" /\ listening' = FALSE /\ btn_flag' = FALSE
  /\ IF pending /\ Bootable
     THEN slot0' = slot1_image /\ slot1_image' = slot0
     ELSE UNCHANGED << slot0, slot1_image >>
  /\ pending' = FALSE
  /\ UNCHANGED << contract_vars, host_vars, history_vars >>

PowerLoss ==
  /\ main # "off"
  /\ main' = "off" /\ listening' = FALSE
  /\ wanted' = FALSE
  /\ UNCHANGED << contract_vars, btn_flag, image_vars, host_vars, uses, applied, base >>

-----------------------------------------------------------------------------
(* main.c.  A device that is not ready, or a pin that cannot be toggled,   *)
(* ends main; the interrupt stays.                                         *)
ConfigDevices ==
  /\ main = "start"
  /\ \/ main' = "stopped" /\ UNCHANGED listening
     \/ main' = "config" /\ listening' = TRUE
  /\ UNCHANGED << contract_vars, btn_flag, image_vars, host_vars, history_vars >>

ClearFlag ==
  /\ main = "config"
  /\ btn_flag' = FALSE
  /\ main' = "loop"
  /\ UNCHANGED << contract_vars, listening, image_vars, host_vars, history_vars >>

ButtonPressed ==
  /\ listening
  /\ btn_flag' = TRUE
  /\ wanted' = TRUE
  /\ UNCHANGED << contract_vars, main, listening, image_vars, host_vars, uses, applied, base >>

ToggleFails ==
  /\ main = "loop"
  /\ main' = "stopped"
  /\ UNCHANGED << contract_vars, listening, btn_flag, image_vars, host_vars, history_vars >>

(* The flag is looked at once a second; the faulty form looks for its      *)
(* opposite.                                                               *)
Pressed_Inverted == ~btn_flag
Pressed == btn_flag

CallCheck ==
  /\ main = "loop" /\ Pressed
  /\ main' = "check"
  /\ status' = "called" /\ slot1' = "kept"
  /\ UNCHANGED << header, listening, btn_flag, image_vars, host_vars, history_vars >>

(* After zero the loop goes on with the flag cleared; after an error, main *)
(* returns.                                                                *)
CheckReturns ==
  /\ main = "check"
  /\ \/ status = "zero" /\ btn_flag' = FALSE /\ main' = "loop"
     \/ status = "error" /\ main' = "stopped" /\ UNCHANGED btn_flag
  /\ UNCHANGED << contract_vars, listening, image_vars, host_vars, history_vars >>

-----------------------------------------------------------------------------
(* The call, by its contract.                                              *)

(* What stands in the secondary slot after a step of the call.             *)
Target == IF patch.from = slot0 THEN {patch.to, Broken} ELSE {Broken}

SlotAfter ==
  CASE slot1' = "written" /\ slot1 # "written" -> Target
    [] slot1' = "partial" -> {Broken}
    [] OTHER -> {slot1_image}

(* A request that fails may have been noted all the same.                  *)
RequestFails ==
  /\ status = "working" /\ Complete
  /\ status' = "error"
  /\ UNCHANGED << header, slot1 >>

CheckStep ==
  /\ main = "check"
  /\ \/ MarkPatch /\ uses' = uses + 1 /\ UNCHANGED << pending, applied >>
     \/ (WriteTarget \/ NothingToDo) /\ UNCHANGED << pending, uses, applied >>
     \/ RequestUpgrade /\ pending' = TRUE /\ applied' = TRUE /\ UNCHANGED uses
     \/ ReturnError /\ UNCHANGED << pending, uses, applied >>
     \/ RequestFails /\ pending' \in {pending, TRUE} /\ UNCHANGED << uses, applied >>
  /\ slot1_image' \in SlotAfter
  /\ wanted' = (wanted /\ status # "called")
  /\ base' = IF pending' /\ ~pending THEN slot0 ELSE base
  /\ UNCHANGED << device_vars, slot0, host_vars >>

(* sys_reboot, which does not return.                                      *)
Reboot ==
  /\ main = "check" /\ status = "requested"
  /\ main' = "off" /\ listening' = FALSE
  /\ wanted' = FALSE
  /\ UNCHANGED << contract_vars, btn_flag, image_vars, host_vars, uses, applied, base >>

-----------------------------------------------------------------------------
(* The host, one action per make target; the programmer resets the device. *)
HostBuild ==
  /\ built < MAX_IMAGE
  /\ built' = built + 1
  /\ UNCHANGED << contract_vars, device_vars, image_vars, patch, source, made,
                  asking, history_vars >>

HostCreatePatch ==
  /\ made' = [from |-> source, to |-> built]
  /\ UNCHANGED << contract_vars, device_vars, image_vars, patch, source, built,
                  asking, history_vars >>

HostFlashPatch ==
  /\ patch' = made
  /\ header' = "NEWP"
  /\ asking' = TRUE
  /\ uses' = 0 /\ applied' = FALSE
  /\ main' = "off" /\ listening' = FALSE /\ wanted' = FALSE
  /\ UNCHANGED << slot1, status, btn_flag, image_vars, source, built, made, base >>

(* set_current.py: the image built last now counts as the running one, or  *)
(* it does not.                                                            *)
SetCurrent == source' \in {source, built}

HostAnswer ==
  /\ asking /\ SetCurrent
  /\ asking' = FALSE
  /\ UNCHANGED << contract_vars, device_vars, image_vars, patch, built, made,
                  history_vars >>

(* The question comes first here, and what is flashed is the source image. *)
HostFlashImage ==
  /\ SetCurrent
  /\ slot0' = source'
  /\ main' = "off" /\ listening' = FALSE /\ wanted' = FALSE
  /\ UNCHANGED << contract_vars, btn_flag, slot1_image, pending, patch, built,
                  made, asking, uses, applied, base >>

Host == HostBuild \/ HostCreatePatch \/ HostFlashPatch \/ HostAnswer \/ HostFlashImage

-----------------------------------------------------------------------------
Firmware == ConfigDevices \/ ClearFlag \/ CallCheck \/ CheckStep \/ CheckReturns \/ Reboot

UpdateNext ==
  \/ Boot \/ PowerLoss
  \/ Firmware \/ ToggleFails \/ ButtonPressed
  \/ Host

UpdateSpec == UpdateInit /\ [][UpdateNext]_update_vars

(* The processor runs, and a call of delta_check_and_apply ends (CallEnds  *)
(* of DeltaCheck); nothing is assumed of power, developer and button.      *)
CheckEnds == CheckStep /\ status' \in {"requested", "zero", "error"}

FairUpdateSpec ==
  UpdateSpec /\ WF_update_vars(Firmware) /\ WF_update_vars(CheckEnds)

-----------------------------------------------------------------------------
UpdateTypeOK ==
  /\ main \in {"off", "start", "config", "loop", "check", "stopped"}
  /\ listening \in BOOLEAN /\ btn_flag \in BOOLEAN
  /\ slot0 \in Images /\ slot1_image \in Contents /\ pending \in BOOLEAN
  /\ header \in Headers /\ slot1 \in Slots /\ status \in Statuses
  /\ patch \in [from : Images, to : Images] /\ made \in [from : Images, to : Images]
  /\ source \in Images /\ built \in Images /\ asking \in BOOLEAN
  /\ wanted \in BOOLEAN /\ uses \in Nat /\ applied \in BOOLEAN /\ base \in Images

(***************************************************************************)
(* A patch is taken at most once from the partition, whatever resets and   *)
(* losses of power come in between: an upgrade that fails or crashes the   *)
(* device does not repeat itself (delta.c:225 marks the header before      *)
(* anything else is done).                                                 *)
(***************************************************************************)
TakenOnce == uses <= 1 /\ (uses = 1 => header = "marked")

(***************************************************************************)
(* The slots are swapped only for an image the device has just written in  *)
(* whole: while a swap is pending, no call is working on the secondary     *)
(* slot, and none has left it half-written.                                *)
(***************************************************************************)
PendingIsWhole ==
  pending => /\ slot1 = "written"
             /\ main = "check" => status # "working"

(***************************************************************************)
(* An update never takes the device back: what a boot puts into the        *)
(* primary slot is no older than the image that ran when the swap was      *)
(* requested, though patches may be stale, made for another image, or      *)
(* flashed again, and the programmer may have changed the primary slot in  *)
(* between (delta.c:195-205, Makefile:74-86).                              *)
(***************************************************************************)
ForwardOnly == [][Boot /\ slot0' # slot0 => slot0' >= base]_update_vars

(***************************************************************************)
(* A new patch and a press seen by the loop: the patch is taken, unless    *)
(* main has stopped or the power is lost (main.c:78-87).                   *)
(***************************************************************************)
PressTakesPatch ==
  (main = "loop" /\ btn_flag /\ header = "NEWP") ~>
    (header # "NEWP" \/ main \in {"stopped", "off"})

(***************************************************************************)
(* README.md:4: when button 1 is pressed the program checks for a new      *)
(* patch.  Here: whenever the button's callback is installed, so also      *)
(* before the loop is entered (main.c:122-124) and while a check is going  *)
(* on (main.c:80-86), unless main stops or the power is lost.              *)
(***************************************************************************)
PressIsAnswered ==
  (main \in {"config", "loop", "check"} /\ wanted)
    ~> (~wanted \/ main \in {"stopped", "off"})

(***************************************************************************)
(* delta.h:78-80: the header is changed to mark that the patch has been    *)
(* applied.  Here: also if the call was cut off before it returned.        *)
(***************************************************************************)
CutOff == main = "loop" /\ status = "working"

MarkedIsApplied == CutOff /\ header = "marked" => applied

=============================================================================
