------------------------- MODULE DeltaUpdateProofs --------------------------
(***************************************************************************)
(* Theorems about the device, for any number of images: a patch is taken   *)
(* once, a pending swap is one for a whole image, an update never takes    *)
(* the device back, and the primary slot always holds an image.            *)
(***************************************************************************)
EXTENDS DeltaUpdate, TLAPS

(***************************************************************************)
(* The inductive invariant of the history of a patch.                      *)
(***************************************************************************)
TakenInv == uses \in Nat /\ TakenOnce

(* The actions that neither take a patch nor touch the header.             *)
LEMMA TakenKept ==
  ASSUME TakenInv, uses' = uses, header' = header
  PROVE  TakenInv'
BY DEF TakenInv, TakenOnce

(* A patch is taken at most once from the partition: the header is marked  *)
(* before anything else is done (delta.c:225).                             *)
THEOREM PatchTakenOnce == UpdateSpec => []TakenOnce
<1>1. UpdateInit => TakenInv
  BY DEF UpdateInit, TakenInv, TakenOnce
<1>2. TakenInv /\ [UpdateNext]_update_vars => TakenInv'
  <2> SUFFICES ASSUME TakenInv, [UpdateNext]_update_vars
               PROVE  TakenInv'
    OBVIOUS
  <2>1. CASE Boot
    BY <2>1, TakenKept DEF Boot, contract_vars, history_vars
  <2>2. CASE PowerLoss
    BY <2>2, TakenKept DEF PowerLoss, contract_vars
  <2>3. CASE ConfigDevices \/ ClearFlag
    BY <2>3, TakenKept DEF ConfigDevices, ClearFlag, contract_vars, history_vars
  <2>4. CASE CallCheck
    BY <2>4, TakenKept DEF CallCheck, history_vars
  <2>5. CASE CheckReturns
    BY <2>5, TakenKept DEF CheckReturns, contract_vars, history_vars
  <2>6. CASE CheckStep
    <3>1. CASE MarkPatch /\ uses' = uses + 1
      BY <3>1 DEF MarkPatch, TakenInv, TakenOnce
    <3>2. CASE UNCHANGED uses /\ header' \in {header, "marked"}
      BY <3>2 DEF TakenInv, TakenOnce
    <3> QED
      BY <2>6, <3>1, <3>2 DEF CheckStep, WriteTarget, NothingToDo, RequestUpgrade,
                              ReturnError, RequestFails
  <2>7. CASE Reboot
    BY <2>7, TakenKept DEF Reboot, contract_vars
  <2>8. CASE ToggleFails \/ ButtonPressed
    BY <2>8, TakenKept DEF ToggleFails, ButtonPressed, contract_vars, history_vars
  <2>9. CASE HostFlashPatch
    BY <2>9 DEF HostFlashPatch, TakenInv, TakenOnce
  <2>10. CASE HostBuild \/ HostCreatePatch \/ HostAnswer \/ HostFlashImage
    BY <2>10, TakenKept
    DEF HostBuild, HostCreatePatch, HostAnswer, HostFlashImage, contract_vars, history_vars
  <2>11. CASE UNCHANGED update_vars
    BY <2>11, TakenKept DEF update_vars, contract_vars, history_vars
  <2> QED
    BY <2>1, <2>2, <2>3, <2>4, <2>5, <2>6, <2>7, <2>8, <2>9, <2>10, <2>11
    DEF UpdateNext, Firmware, Host
<1>3. TakenInv => TakenOnce
  BY DEF TakenInv
<1> QED
  BY <1>1, <1>2, <1>3, PTL DEF UpdateSpec

-----------------------------------------------------------------------------
(***************************************************************************)
(* While a swap is pending the call is over: it has asked for the upgrade, *)
(* or failed to and main has stopped, or the device is off.                *)
(***************************************************************************)
CallIsOver ==
  pending =>
    /\ slot1 = "written"
    /\ \/ main \in {"off", "stopped"}
       \/ main = "check" /\ status \in {"requested", "error"}

(* No step of the device lets a swap be pending while a call goes on.      *)
LEMMA CallStaysOver == CallIsOver /\ [UpdateNext]_update_vars => CallIsOver'
<1> SUFFICES ASSUME CallIsOver, [UpdateNext]_update_vars, pending'
             PROVE  CallIsOver'
  BY DEF CallIsOver
<1>1. CASE Boot
  BY <1>1 DEF Boot
<1>2. CASE PowerLoss \/ Reboot
  BY <1>2 DEF PowerLoss, Reboot, CallIsOver, contract_vars, image_vars
<1>3. CASE ConfigDevices \/ ClearFlag \/ ToggleFails
  BY <1>3 DEF ConfigDevices, ClearFlag, ToggleFails, CallIsOver, contract_vars, image_vars
<1>4. CASE CallCheck
  BY <1>4 DEF CallCheck, CallIsOver, image_vars
<1>5. CASE CheckReturns
  BY <1>5 DEF CheckReturns, CallIsOver, contract_vars, image_vars
<1>6. CASE CheckStep
  <2>1. main = "check" /\ main' = "check"
    BY <1>6 DEF CheckStep, device_vars
  <2>2. status \in {"called", "working"}
    BY <1>6 DEF CheckStep, MarkPatch, WriteTarget, NothingToDo, RequestUpgrade,
                ReturnError, RequestFails
  <2>3. ~pending
    BY <2>1, <2>2 DEF CallIsOver
  <2>4. RequestUpgrade \/ RequestFails
    BY <1>6, <2>3 DEF CheckStep
  <2> QED
    BY <2>1, <2>4 DEF RequestUpgrade, RequestFails, Complete, CallIsOver
<1>7. CASE ButtonPressed \/ HostBuild \/ HostCreatePatch \/ HostAnswer
  BY <1>7 DEF ButtonPressed, HostBuild, HostCreatePatch, HostAnswer, CallIsOver,
              contract_vars, image_vars, device_vars
<1>8. CASE HostFlashPatch \/ HostFlashImage
  BY <1>8 DEF HostFlashPatch, HostFlashImage, CallIsOver, contract_vars, image_vars
<1>9. CASE UNCHANGED update_vars
  BY <1>9 DEF update_vars, contract_vars, image_vars, device_vars, CallIsOver
<1> QED
  BY <1>1, <1>2, <1>3, <1>4, <1>5, <1>6, <1>7, <1>8, <1>9 DEF UpdateNext, Firmware, Host

(* The slots are swapped only for an image written in whole: no call works *)
(* on the secondary slot while a swap is pending.                          *)
THEOREM SwapIsWhole == UpdateSpec => []PendingIsWhole
<1>1. UpdateInit => CallIsOver
  BY DEF UpdateInit, CallIsOver
<1>2. CallIsOver => PendingIsWhole
  BY DEF CallIsOver, PendingIsWhole
<1> QED
  BY <1>1, <1>2, CallStaysOver, PTL DEF UpdateSpec

-----------------------------------------------------------------------------
(***************************************************************************)
(* The inductive invariant of the images: patches lead forward, what a     *)
(* call has written is broken or no older than the running image, and what *)
(* it has asked to boot no older than the image that ran then.             *)
(***************************************************************************)
Numbered ==
  /\ slot0 \in Int /\ slot1_image \in Int /\ source \in Int
  /\ built \in Int /\ base \in Int
  /\ patch \in [from : Int, to : Int] /\ made \in [from : Int, to : Int]
  /\ patch.from <= patch.to /\ made.from <= made.to /\ source <= built

NotOlder(image) == Bootable => slot1_image >= image

WrittenIsNotOlder ==
  /\ main = "check" /\ status = "called" => slot1 = "kept"
  /\ main = "check" /\ status = "working" /\ slot1 = "written" => NotOlder(slot0)
  /\ pending => NotOlder(base)

ImageInv == CallIsOver /\ Numbered /\ WrittenIsNotOlder

(* What a call makes of the secondary slot: a new image or a broken one.   *)
LEMMA SlotAfterStep ==
  ASSUME Numbered, NEW c, c \in SlotAfter
  PROVE  /\ c \in Int
         /\ slot1' = "written" /\ slot1 # "written" /\ c # Broken => c >= slot0
         /\ slot1' = slot1 /\ slot1 # "partial" => c = slot1_image
<1>1. CASE slot1' = "written" /\ slot1 # "written"
  <2>1. c \in Target
    BY <1>1 DEF SlotAfter
  <2> QED
    BY <1>1, <2>1 DEF Target, Numbered, Broken
<1>2. CASE slot1' = "partial"
  BY <1>2 DEF SlotAfter, Broken
<1>3. CASE ~(slot1' = "written" /\ slot1 # "written") /\ slot1' # "partial"
  BY <1>3 DEF SlotAfter, Numbered
<1> QED
  BY <1>1, <1>2, <1>3

(* A step of the call keeps what is said of the images.                    *)
LEMMA CheckStepKeepsImages ==
  ASSUME ImageInv, CheckStep
  PROVE  Numbered' /\ WrittenIsNotOlder'
<1>1. /\ main = "check" /\ slot0' = slot0 /\ patch' = patch /\ source' = source
      /\ built' = built /\ made' = made
      /\ base' = IF pending' /\ ~pending THEN slot0 ELSE base
  BY DEF CheckStep, host_vars
<1>2. slot1_image' \in SlotAfter
  BY DEF CheckStep
<1>3. Numbered'
  BY <1>1, <1>2, SlotAfterStep DEF ImageInv, Numbered
<1>4. /\ status \in {"called", "working"} /\ ~pending
      /\ status' # "called"
  <2>1. /\ status \in {"called", "working"}
        /\ status' = "working" \/ status' \in {"requested", "zero", "error"}
    BY DEF CheckStep, MarkPatch, WriteTarget, NothingToDo, RequestUpgrade,
           ReturnError, RequestFails
  <2> QED
    BY <1>1, <2>1 DEF ImageInv, CallIsOver
<1>5. status = "working" /\ slot1' = "written" => (Bootable' => slot1_image' >= slot0)
  <2> SUFFICES ASSUME status = "working", slot1' = "written", slot1_image' # Broken
               PROVE  slot1_image' >= slot0
    BY <1>1 DEF Bootable
  <2>1. CASE slot1 # "written"
    BY <1>2, <2>1, SlotAfterStep DEF ImageInv
  <2>2. CASE slot1 = "written"
    <3>1. slot1_image' = slot1_image
      BY <1>2, <2>2, SlotAfterStep DEF ImageInv
    <3> QED
      BY <1>1, <2>2, <3>1 DEF ImageInv, WrittenIsNotOlder, NotOlder, Bootable
  <2> QED
    BY <2>1, <2>2
<1>6. status = "called" => slot1' # "written" /\ ~pending'
  <2> SUFFICES ASSUME status = "called"
               PROVE  slot1' # "written" /\ ~pending'
    OBVIOUS
  <2>1. slot1 = "kept"
    BY <1>1 DEF ImageInv, WrittenIsNotOlder
  <2>2. MarkPatch \/ NothingToDo \/ ReturnError
    BY DEF CheckStep, WriteTarget, RequestUpgrade, RequestFails
  <2>3. slot1' # "written"
    BY <2>1, <2>2 DEF MarkPatch, NothingToDo, ReturnError
  <2>4. UNCHANGED pending
    BY DEF CheckStep, RequestUpgrade, RequestFails, WriteTarget
  <2> QED
    BY <1>4, <2>3, <2>4
<1>7. pending' => status = "working" /\ slot1' = "written" /\ base' = slot0
  <2> SUFFICES ASSUME pending'
               PROVE  status = "working" /\ slot1' = "written"
    BY <1>1, <1>4
  <2>1. RequestUpgrade \/ RequestFails
    BY <1>4 DEF CheckStep
  <2> QED
    BY <2>1 DEF RequestUpgrade, RequestFails, Complete
<1> QED
  BY <1>1, <1>3, <1>4, <1>5, <1>6, <1>7 DEF WrittenIsNotOlder, NotOlder

(* A boot swaps the slots only for an image that is not older.             *)
LEMMA BootGoesForward ==
  ASSUME ImageInv, Boot
  PROVE  (slot0' # slot0 => slot0' >= base) /\ Numbered' /\ WrittenIsNotOlder'
<1>1. /\ UNCHANGED << patch, source, built, made, base >> /\ main' = "start" /\ ~pending'
      /\ \/ slot0' = slot0 /\ slot1_image' = slot1_image
         \/ pending /\ Bootable /\ slot0' = slot1_image /\ slot1_image' = slot0
  BY DEF Boot, host_vars, history_vars
<1>2. slot0' # slot0 => slot0' >= base
  BY <1>1 DEF ImageInv, WrittenIsNotOlder, NotOlder, Numbered
<1>3. Numbered'
  BY <1>1 DEF ImageInv, Numbered
<1>4. WrittenIsNotOlder'
  BY <1>1 DEF WrittenIsNotOlder
<1> QED
  BY <1>2, <1>3, <1>4

(* The other steps of the device change neither the images nor the slot.   *)
LEMMA OtherStepsKeepImages ==
  ASSUME ImageInv, UNCHANGED << slot0, slot1_image, pending, slot1, status >>,
         UNCHANGED << patch, source, built, made, base >>,
         main' # "check" \/ main' = main
  PROVE  Numbered' /\ WrittenIsNotOlder'
<1>1. Numbered'
  BY DEF ImageInv, Numbered
<1>2. WrittenIsNotOlder'
  BY DEF ImageInv, WrittenIsNotOlder, NotOlder, Bootable
<1> QED
  BY <1>1, <1>2

(* Neither do those of the host, but for the slot that is flashed.         *)
LEMMA HostKeepsImages ==
  ASSUME ImageInv, Host
  PROVE  Numbered' /\ WrittenIsNotOlder'
<1>1. /\ UNCHANGED << slot1_image, pending, slot1, status, base >>
      /\ main' = "off" \/ (main' = main /\ slot0' = slot0)
  BY DEF Host, HostBuild, HostCreatePatch, HostFlashPatch, HostAnswer, HostFlashImage,
         contract_vars, device_vars, image_vars, history_vars
<1>2. WrittenIsNotOlder'
  BY <1>1 DEF ImageInv, WrittenIsNotOlder, NotOlder, Bootable
<1>3. Numbered'
  <2>1. CASE HostBuild
    BY <2>1 DEF HostBuild, ImageInv, Numbered, image_vars, history_vars
  <2>2. CASE HostCreatePatch
    BY <2>2 DEF HostCreatePatch, ImageInv, Numbered, image_vars, history_vars
  <2>3. CASE HostFlashPatch
    BY <2>3 DEF HostFlashPatch, ImageInv, Numbered, image_vars
  <2>4. CASE HostAnswer
    BY <2>4 DEF HostAnswer, SetCurrent, ImageInv, Numbered, image_vars, history_vars
  <2>5. CASE HostFlashImage
    BY <2>5 DEF HostFlashImage, SetCurrent, ImageInv, Numbered
  <2> QED
    BY <2>1, <2>2, <2>3, <2>4, <2>5 DEF Host
<1> QED
  BY <1>2, <1>3

(* One step.                                                               *)
LEMMA StepGoesForward ==
  ASSUME ImageInv, UpdateNext
  PROVE  Numbered' /\ WrittenIsNotOlder' /\ (Boot /\ slot0' # slot0 => slot0' >= base)
<1>1. Boot /\ slot0' # slot0 => slot0' >= base
  BY BootGoesForward
<1>2. CASE Boot
  BY <1>2, BootGoesForward
<1>3. CASE CheckStep
  BY <1>1, <1>3, CheckStepKeepsImages
<1>4. CASE CallCheck
  <2>1. /\ slot0' = slot0 /\ slot1_image' = slot1_image /\ pending' = pending
        /\ UNCHANGED << patch, source, built, made, base >>
        /\ slot1' = "kept" /\ status' = "called"
    BY <1>4 DEF CallCheck, image_vars, host_vars, history_vars
  <2>2. Numbered'
    BY <2>1 DEF ImageInv, Numbered
  <2>3. WrittenIsNotOlder'
    BY <2>1 DEF ImageInv, WrittenIsNotOlder, NotOlder, Bootable
  <2> QED
    BY <1>1, <2>2, <2>3
<1>5. CASE PowerLoss \/ Reboot \/ CheckReturns
  BY <1>1, <1>5, OtherStepsKeepImages
  DEF PowerLoss, Reboot, CheckReturns, contract_vars, image_vars, host_vars, history_vars
<1>6. CASE ConfigDevices \/ ClearFlag \/ ToggleFails \/ ButtonPressed
  BY <1>1, <1>6, OtherStepsKeepImages
  DEF ConfigDevices, ClearFlag, ToggleFails, ButtonPressed, contract_vars, image_vars,
      host_vars, history_vars
<1>7. CASE Host
  BY <1>1, <1>7, HostKeepsImages
<1> QED
  BY <1>2, <1>3, <1>4, <1>5, <1>6, <1>7 DEF UpdateNext, Firmware

(* An update never takes the device back: patches lead forward, and the    *)
(* slots are swapped only for a target of a patch that was made for the    *)
(* image running when the swap was requested (delta.c:195-201).            *)
THEOREM NeverBackwards == UpdateSpec => ForwardOnly
<1>1. UpdateInit => ImageInv
  BY ImageAssumption
  DEF UpdateInit, ImageInv, CallIsOver, Numbered, WrittenIsNotOlder, NotOlder, Broken
<1>2. ImageInv /\ [UpdateNext]_update_vars => ImageInv'
  <2> SUFFICES ASSUME ImageInv, [UpdateNext]_update_vars
               PROVE  ImageInv'
    OBVIOUS
  <2>1. CallIsOver'
    BY CallStaysOver DEF ImageInv
  <2>2. CASE UpdateNext
    BY <2>1, <2>2, StepGoesForward DEF ImageInv
  <2>3. CASE UNCHANGED update_vars
    BY <2>1, <2>3, OtherStepsKeepImages
    DEF ImageInv, update_vars, contract_vars, device_vars, image_vars, host_vars, history_vars
  <2> QED
    BY <2>2, <2>3
<1>3. ImageInv /\ [UpdateNext]_update_vars
        => [Boot /\ slot0' # slot0 => slot0' >= base]_update_vars
  BY StepGoesForward
<1> QED
  BY <1>1, <1>2, <1>3, PTL DEF UpdateSpec, ForwardOnly
-----------------------------------------------------------------------------
(* The variables of the device are well typed on their own, since only a   *)
(* valid image is ever swapped in.                                         *)
ContractTypeOK == header \in Headers /\ slot1 \in Slots /\ status \in Statuses

LEMMA ContractType ==
  ASSUME ContractTypeOK, [UpdateNext]_update_vars
  PROVE  ContractTypeOK'
BY DEF ContractTypeOK, Headers, Slots, Statuses, UpdateNext, Firmware, Host, Boot,
   PowerLoss, ConfigDevices, ClearFlag, CallCheck, CheckReturns, CheckStep, Reboot,
   ToggleFails, ButtonPressed, HostBuild, HostCreatePatch, HostFlashPatch, HostAnswer,
   HostFlashImage, MarkPatch, WriteTarget, NothingToDo, RequestUpgrade, ReturnError,
   RequestFails, contract_vars, update_vars

DeviceTypeOK ==
  /\ main \in {"off", "start", "config", "loop", "check", "stopped"}
  /\ listening \in BOOLEAN /\ btn_flag \in BOOLEAN

LEMMA DeviceType ==
  ASSUME DeviceTypeOK, [UpdateNext]_update_vars
  PROVE  DeviceTypeOK'
BY DEF DeviceTypeOK, UpdateNext, Firmware, Host, Boot,
   PowerLoss, ConfigDevices, ClearFlag, CallCheck, CheckReturns, CheckStep, Reboot,
   ToggleFails, ButtonPressed, HostBuild, HostCreatePatch, HostFlashPatch, HostAnswer,
   HostFlashImage, device_vars, update_vars

HistoryTypeOK ==
  /\ wanted \in BOOLEAN /\ applied \in BOOLEAN /\ uses \in Nat
  /\ pending \in BOOLEAN /\ asking \in BOOLEAN

LEMMA HistoryType ==
  ASSUME HistoryTypeOK, [UpdateNext]_update_vars
  PROVE  HistoryTypeOK'
<1>1. wanted' \in BOOLEAN /\ applied' \in BOOLEAN
  BY DEF HistoryTypeOK, UpdateNext, Firmware, Host, Boot,
     PowerLoss, ConfigDevices, ClearFlag, CallCheck, CheckReturns, CheckStep, Reboot,
     ToggleFails, ButtonPressed, HostBuild, HostCreatePatch, HostFlashPatch, HostAnswer,
     HostFlashImage, history_vars, image_vars, host_vars, update_vars
<1>2. pending' \in BOOLEAN /\ asking' \in BOOLEAN
  BY DEF HistoryTypeOK, UpdateNext, Firmware, Host, Boot,
     PowerLoss, ConfigDevices, ClearFlag, CallCheck, CheckReturns, CheckStep, Reboot,
     ToggleFails, ButtonPressed, HostBuild, HostCreatePatch, HostFlashPatch, HostAnswer,
     HostFlashImage, history_vars, image_vars, host_vars, update_vars
<1>3. uses' \in {uses, 0, uses + 1}
  BY DEF UpdateNext, Firmware, Host, Boot,
     PowerLoss, ConfigDevices, ClearFlag, CallCheck, CheckReturns, CheckStep, Reboot,
     ToggleFails, ButtonPressed, HostBuild, HostCreatePatch, HostFlashPatch, HostAnswer,
     HostFlashImage, history_vars, update_vars
<1> QED
  BY <1>1, <1>2, <1>3 DEF HistoryTypeOK

ImagesTypeOK ==
  /\ slot0 \in Images /\ slot1_image \in Contents /\ base \in Images
  /\ source \in Images /\ built \in Images
  /\ patch \in [from : Images, to : Images] /\ made \in [from : Images, to : Images]

LEMMA ImagesType ==
  ASSUME ImagesTypeOK, [UpdateNext]_update_vars
  PROVE  ImagesTypeOK'
<1>1. CASE Boot
  BY <1>1 DEF Boot, Bootable, Broken, Contents, ImagesTypeOK, host_vars, history_vars
<1>2. CASE CheckStep
  <2>1. patch.to \in Contents /\ Broken \in Contents
    BY DEF ImagesTypeOK, Contents, Broken
  <2>2. SlotAfter \subseteq Contents
    BY <2>1 DEF SlotAfter, Target, ImagesTypeOK
  <2> QED
    BY <1>2, <2>2 DEF CheckStep, ImagesTypeOK, host_vars
<1>3. CASE HostBuild
  BY <1>3, ImageAssumption DEF HostBuild, ImagesTypeOK, Images, image_vars, history_vars
<1>4. CASE HostCreatePatch \/ HostFlashPatch \/ HostAnswer \/ HostFlashImage
  BY <1>4 DEF HostCreatePatch, HostFlashPatch, HostAnswer, HostFlashImage, SetCurrent,
              ImagesTypeOK, image_vars, history_vars
<1>5. CASE UNCHANGED << image_vars, host_vars, base >>
  BY <1>5 DEF ImagesTypeOK, image_vars, host_vars
<1> QED
  BY <1>1, <1>2, <1>3, <1>4, <1>5
  DEF UpdateNext, Firmware, Host, PowerLoss, ConfigDevices, ClearFlag, CallCheck,
      CheckReturns, Reboot, ToggleFails, ButtonPressed, image_vars, host_vars,
      history_vars, update_vars

(* The device and its host are well typed, for any number of images: the   *)
(* primary slot, above all, holds an image at any moment (MCUboot checks   *)
(* what it swaps in).                                                      *)
THEOREM UpdateTypeCorrect == UpdateSpec => []UpdateTypeOK
<1> DEFINE Inv == ContractTypeOK /\ DeviceTypeOK /\ HistoryTypeOK /\ ImagesTypeOK
<1>1. UpdateInit => Inv
  <2>1. UpdateInit => ContractTypeOK
    BY DEF UpdateInit, ContractTypeOK, Headers, Slots, Statuses
  <2>2. UpdateInit => DeviceTypeOK
    BY DEF UpdateInit, DeviceTypeOK
  <2>3. UpdateInit => HistoryTypeOK
    <3>1. UpdateInit => uses \in Nat
      BY DEF UpdateInit
    <3>2. UpdateInit => /\ wanted \in BOOLEAN /\ applied \in BOOLEAN
                        /\ pending \in BOOLEAN /\ asking \in BOOLEAN
      BY DEF UpdateInit
    <3> QED
      BY <3>1, <3>2 DEF HistoryTypeOK
  <2>4. 0 \in Images /\ Broken \in Contents
    BY ImageAssumption DEF Images, Contents, Broken
  <2>5. UpdateInit => ImagesTypeOK
    BY <2>4 DEF UpdateInit, ImagesTypeOK
  <2> QED
    BY <2>1, <2>2, <2>3, <2>5
<1>2. Inv /\ [UpdateNext]_update_vars => Inv'
  BY ContractType, DeviceType, HistoryType, ImagesType
<1>3. Inv => UpdateTypeOK
  BY DEF ContractTypeOK, DeviceTypeOK, HistoryTypeOK, ImagesTypeOK, UpdateTypeOK
<1> QED
  BY <1>1, <1>2, <1>3, PTL DEF UpdateSpec

=============================================================================
