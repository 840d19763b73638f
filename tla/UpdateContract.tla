--------------------------- MODULE UpdateContract ---------------------------
(***************************************************************************)
(* What a call of delta_check_and_apply promises the rest of the device,   *)
(* without patches, cursors or pages: the patch is marked as used before   *)
(* the secondary slot is touched, the bootloader is asked for an upgrade   *)
(* only once all of the new image has been written, and a call that        *)
(* returns zero has found no patch or an empty one.  An error may end the  *)
(* call at any point.                                                      *)
(***************************************************************************)
VARIABLES
  header,  \* the header of the patch partition
  slot1,   \* what the call has done to the secondary slot
  status   \* of the call

contract_vars == << header, slot1, status >>

Headers == {"none", "NEWP", "marked"}
Slots == {"kept", "partial", "written"}
Statuses == {"called", "working", "requested", "zero", "error"}

ContractInit ==
  /\ header \in Headers
  /\ slot1 = "kept"
  /\ status = "called"

(* The header says that there is a new patch; it is marked (the faulty     *)
(* form leaves the header as it is).                                       *)
MarkPatch_Forgotten ==
  /\ status = "called" /\ header = "NEWP"
  /\ status' = "working"
  /\ UNCHANGED << header, slot1 >>
MarkPatch ==
  /\ status = "called" /\ header = "NEWP"
  /\ header' = "marked"
  /\ status' = "working"
  /\ UNCHANGED slot1

(* The target is erased and written, piece by piece.                       *)
WriteTarget ==
  /\ status = "working"
  /\ slot1' \in {"partial", "written"}
  /\ UNCHANGED << header, status >>

(* The faulty form does not look at what the engine returned.              *)
Complete_Assumed == TRUE
Complete == slot1 = "written"

RequestUpgrade ==
  /\ status = "working" /\ Complete
  /\ status' = "requested"
  /\ UNCHANGED << header, slot1 >>

(* There was no patch, an empty one, or one for an empty target.           *)
NothingToDo ==
  /\ \/ status = "called" /\ header # "NEWP" /\ UNCHANGED header
     \/ status = "called" /\ header = "NEWP" /\ header' = "marked"
     \/ status = "working" /\ UNCHANGED header
  /\ status' = "zero"
  /\ UNCHANGED slot1

(* An error: the mark may or may not have been written, the slot may have  *)
(* been touched.                                                           *)
ReturnError ==
  /\ status \in {"called", "working"}
  /\ status' = "error"
  /\ \/ UNCHANGED << header, slot1 >>
     \/ header = "NEWP" /\ header' = "marked" /\ UNCHANGED slot1
     \/ status = "working" /\ slot1' = "partial" /\ UNCHANGED header

ContractNext ==
  MarkPatch \/ WriteTarget \/ RequestUpgrade \/ NothingToDo \/ ReturnError

ContractSpec == ContractInit /\ [][ContractNext]_contract_vars

=============================================================================
