----------------------------- MODULE DeltaCheck -----------------------------
(***************************************************************************)
(* One call of delta_check_and_apply: the header of the patch partition is *)
(* read and marked, the flash port is prepared, the patch engine is run    *)
(* with the callbacks of the flash port, and an upgrade is requested.      *)
(* Every callback of the engine (ApplyPatch) is one step together with the *)
(* function of delta.c that answers it (DeltaFlash).                       *)
(***************************************************************************)
EXTENDS PatchReference, DeltaFlash, ErrorStrings

VARIABLES
  header,   \* of the patch partition: none, NEWP or marked
  step,     \* where delta_check_and_apply is
  result    \* what it returned

call_vars == << header, step, result >>
check_vars == << vars, flash_vars, call_vars >>

DELTA_PATCH_HEADER_ERROR == 37

CheckInit ==
  /\ Init /\ FlashInit
  /\ header \in {"none", "NEWP", "marked"}
  /\ step = "header" /\ result = 0

Return(r) == step' = "returned" /\ result' = r

-----------------------------------------------------------------------------
(* delta_read_patch_header.  The mark is programmed over the magic; if the *)
(* driver fails it may or may not have been.                               *)
ReadPatchHeader ==
  /\ step = "header"
  /\ \/ Return(-DELTA_PATCH_HEADER_ERROR) /\ UNCHANGED header
     \/ header # "NEWP" /\ Return(0) /\ UNCHANGED header
     \/ header = "NEWP" /\ header' = "marked" /\ Return(-DELTA_PATCH_HEADER_ERROR)
     \/ /\ header = "NEWP" /\ header' = "marked"
        /\ IF patch_size > 0 THEN step' = "init" /\ UNCHANGED result
           ELSE Return(0)
  /\ UNCHANGED << vars, flash_vars >>

InitFlash ==
  /\ step = "init"
  /\ \E r \in Results :
       /\ DeltaInit(r)
       /\ IF r = 0 THEN step' = "apply" /\ UNCHANGED result ELSE Return(r)
  /\ UNCHANGED << vars, header >>

-----------------------------------------------------------------------------
(* detools_apply_patch_callbacks, with the callbacks of delta.c.           *)
ApplyEngine ==
  /\ step = "apply"
  /\ Engine
  /\ UNCHANGED << flash_vars, call_vars >>

ApplyPatchRead(r) ==
  /\ step = "apply"
  /\ PatchRead(r) /\ DeltaFlashPatchRead(ChunkSize, r)
  /\ UNCHANGED call_vars

ApplyFromRead(r) ==
  /\ step = "apply"
  /\ FromRead(r) /\ DeltaFlashFromRead(Len(buf), r)
  /\ UNCHANGED call_vars

ApplyFromSeek(r) ==
  /\ step = "apply"
  /\ FromSeek(r) /\ DeltaFlashSeek(seek, r)
  /\ UNCHANGED call_vars

ApplyToWrite(r) ==
  /\ step = "apply"
  /\ ToWrite(r) /\ DeltaFlashWrite(Len(buf), r)
  /\ UNCHANGED call_vars

(* An upgrade is requested for a target of more than zero bytes; the       *)
(* faulty form also takes an error for a size.                             *)
Upgradable_Any(r) == r # 0
Upgradable(r) == r > 0

(* Then the device is rebooted, and the call does not return.              *)
RequestUpgrade ==
  /\ step = "apply" /\ pc = "done"
  /\ \/ ~Upgradable(ret) /\ Return(ret)
     \/ Upgradable(ret) /\ Return(-1)
     \/ Upgradable(ret) /\ step' = "reboot" /\ UNCHANGED result
  /\ UNCHANGED << vars, flash_vars, header >>

-----------------------------------------------------------------------------
CheckNext ==
  \/ ReadPatchHeader
  \/ InitFlash
  \/ ApplyEngine
  \/ \E r \in Results :
       ApplyPatchRead(r) \/ ApplyFromRead(r) \/ ApplyFromSeek(r) \/ ApplyToWrite(r)
  \/ RequestUpgrade

CheckSpec == CheckInit /\ [][CheckNext]_check_vars

(* The flash driver returns, with or without an error.                     *)
FairCheckSpec == CheckSpec /\ WF_check_vars(CheckNext)

-----------------------------------------------------------------------------
CheckTypeOK ==
  /\ TypeOK /\ FlashTypeOK
  /\ header \in {"none", "NEWP", "marked"}
  /\ step \in {"header", "init", "apply", "reboot", "returned"}
  /\ result \in Int

(***************************************************************************)
(* As long as the engine has not failed, the cursors of source and target  *)
(* are where it believes them to be, although neither ever tells the       *)
(* other: the port seeks from its own cursor (delta.c:122), and the engine *)
(* counts to_offset and from_offset by itself.  After a failed read of the *)
(* patch, too: the finalization that follows it still reads and writes     *)
(* (detools.c:832).  The cursor of the patch agrees until that read.       *)
(***************************************************************************)
CursorsAgree ==
  step = "apply" /\ state # "failed" =>
    /\ from_current = PRIMARY_OFFSET + from_offset
    /\ to_current = SECONDARY_OFFSET + to_offset
    /\ cb_res = 0 => patch_current = STORAGE_OFFSET + HEADER_SIZE + patch_offset

InSlot1 == SECONDARY_OFFSET .. SECONDARY_OFFSET + Len(out) - 1

(***************************************************************************)
(* When the upgrade is requested, the target announced by the patch is in  *)
(* the slot, and nothing outside of it was changed but the mark in the     *)
(* header: provided the page counter stayed in step, every byte of the     *)
(* target reads back as it was written.                                    *)
(***************************************************************************)
UpgradeIsWhole ==
  step = "reboot" =>
    /\ Len(out) = patch.to_size /\ to_current = SECONDARY_OFFSET + Len(out)
    /\ \A a \in Addr \ Slot1 : cells[a] = "old"
    /\ drift = 0 => \A a \in InSlot1 : cells[a] = "new"

(***************************************************************************)
(* An upgrade is requested only for the bytes that the patch as a whole    *)
(* means when it is read against the source, and its size is what the      *)
(* engine returned: neither a patch that was cut off nor an error that     *)
(* came late is taken for a target (delta.c:195-201).                      *)
(***************************************************************************)
UpgradeIsMeant ==
  step = "reboot" =>
    LET a == Reference(patch, patch_size) IN ret = a.ret /\ out = a.out

(***************************************************************************)
(* delta.h:66-68: the patch is applied, then the device is restarted and   *)
(* boots from the new image; README.md:14: the new firmware is created on  *)
(* the secondary partition.                                                *)
(***************************************************************************)
BootsNewImage ==
  step = "reboot" => \A a \in InSlot1 : cells[a] = "new"

(***************************************************************************)
(* delta.h:90-97: the error string for the given error code.  Here: what   *)
(* main prints when the call has returned an error names that error        *)
(* (main.c:82).                                                            *)
(***************************************************************************)
ErrorIsNamed ==
  step = "returned" /\ result < 0 => delta_error_as_string(result) = -result

(* What the call has done to the slot: it counts as touched once           *)
(* delta_init has been called, and as written when all of the target has   *)
(* been accepted.                                                          *)
SlotNow ==
  IF to_current = 0 THEN "kept"
  ELSE IF to_size > 0 /\ Len(out) = to_size THEN "written" ELSE "partial"

StatusNow ==
  CASE step = "header" -> "called"
    [] step \in {"init", "apply"} -> "working"
    [] step = "reboot" -> "requested"
    [] step = "returned" -> IF result = 0 THEN "zero" ELSE "error"

(***************************************************************************)
(* The call keeps the contract the rest of the device relies on.           *)
(***************************************************************************)
Contract == INSTANCE UpdateContract WITH slot1 <- SlotNow, status <- StatusNow

ImplementsContract == Contract!ContractSpec

(***************************************************************************)
(* The call comes to an end, on whatever the flash holds: with the port    *)
(* below it the engine neither loops nor waits for a buffer that never     *)
(* comes (detools.c:771, 789).  DeltaUpdate relies on this.                *)
(***************************************************************************)
CallEnds == <>(step \in {"reboot", "returned"})

=============================================================================
