---------------------------- MODULE ResumePatch ----------------------------
(***************************************************************************)
(* An update that survives a crash: detools_apply_patch_dump writes the    *)
(* engine away between two chunks, and after a restart                     *)
(* detools_apply_patch_init and detools_apply_patch_restore bring it back. *)
(* This program does not call them; they are modelled in the loop of       *)
(* callbacks_process, as detools.h tells their caller to use them: the     *)
(* ports are opened anew, the target is cut back to get_to_offset and the  *)
(* patch is read on from get_patch_offset.                                 *)
(***************************************************************************)
EXTENDS ApplyPatch

CONSTANT MAX_CRASHES  \* bound: crashes

ASSUME CrashAssumption == MAX_CRASHES \in Nat

VARIABLES
  dumped,   \* the dump, or "none"
  crashes,
  told,     \* what get_to_offset says after restore
  due       \* history: bytes of the target accepted at the last dump

resume_vars == << vars, dumped, crashes, told, due >>

NoDump == [state |-> "none"]

ResumeInit ==
  /\ Init
  /\ dumped = NoDump /\ crashes = 0 /\ told = 0 /\ due = 0

Work ==
  /\ pc # "crashed"
  /\ Next
  /\ UNCHANGED << dumped, crashes, told, due >>

(***************************************************************************)
(* detools_apply_patch_dump: the whole object at once, patch reader and    *)
(* decoder included, so that patch_reader_dump has nothing to add.  A      *)
(* failing write may spoil the dump there was.                             *)
(***************************************************************************)
Dumped ==
  [state        |-> state,
   patch_size   |-> patch_size,
   patch_offset |-> patch_offset,
   to_offset    |-> to_offset,
   to_size      |-> to_size,
   from_offset  |-> from_offset,
   chunk_size   |-> chunk_size,
   window_known |-> window_known,
   sunk         |-> sunk,
   taken        |-> taken,
   usize        |-> usize]

Dump_Anytime ==
  /\ pc = "read"
  /\ dumped' \in {Dumped, NoDump}
  /\ due' = IF dumped' = NoDump THEN 0 ELSE Len(out)
  /\ UNCHANGED << vars, crashes, told >>
Dump ==
  /\ pc = "read" /\ cb_res = 0
  /\ dumped' \in {Dumped, NoDump}
  /\ due' = IF dumped' = NoDump THEN 0 ELSE Len(out)
  /\ UNCHANGED << vars, crashes, told >>

(* What is in RAM is lost, and no handler runs any more; the dump and the  *)
(* target stay.                                                            *)
Crash ==
  /\ pc \in {"read", "process", "finalize"} /\ crashes < MAX_CRASHES
  /\ pc' = "crashed" /\ call' = "none"
  /\ crashes' = crashes + 1
  /\ UNCHANGED << input_vars, state, res, chunk_left, reader_vars,
                  target_vars, source_vars, dumped, told, due >>

(* detools_apply_patch_init on a new object, with a new chunk and ports    *)
(* that stand at their start.                                              *)
Opened ==
  /\ pc' = "read" /\ call' = "none" /\ res' = 0 /\ cb_res' = 0
  /\ chunk_left' = 0 /\ seek' = 0 /\ buf' = << >>
  /\ UNCHANGED << patch, patch_size, ret, crashes, dumped, due >>

Fresh ==
  /\ state' = "init" /\ patch_offset' = 0
  /\ window_known' = FALSE /\ sunk' = 0 /\ taken' = 0
  /\ usize' = [state |-> "first", value |-> 0, offset |-> 0, is_signed |-> FALSE]
  /\ to_size' = 0 /\ to_offset' = 0 /\ chunk_size' = 0 /\ out' = << >>
  /\ from_offset' = 0 /\ from_pos' = 0

(* Without a dump, the update starts over.                                 *)
StartOver ==
  /\ pc = "crashed" /\ dumped = NoDump
  /\ Opened /\ Fresh
  /\ told' = 0

(* detools_apply_patch_restore returns early for an engine dumped in its   *)
(* first state; to_offset has not been set then, by init or by restore,    *)
(* and is whatever the memory held.  The target is taken to start over, as *)
(* it must, whatever the caller is told.                                   *)
RestoreInit ==
  /\ pc = "crashed" /\ dumped.state = "init"
  /\ Opened /\ Fresh
  /\ told' \in {0, 1}

(* The offset is handed to from_seek, which seeks from where the port      *)
(* stands: the caller has opened it anew, at the start of the source.      *)
RestoredPosition_Stays(offset) == 0
RestoredPosition(offset) == offset

(* The caller cuts the target back; there is no more of it than there is.  *)
(* The faulty form goes on at its end.                                     *)
CutBack_Kept(n) == out
CutBack(n) == IF n < Len(out) THEN SubSeq(out, 1, n) ELSE out

Restore ==
  /\ pc = "crashed" /\ dumped.state \notin {"none", "init"}
  /\ Opened
  /\ state' = dumped.state /\ patch_offset' = dumped.patch_offset
  /\ to_offset' = dumped.to_offset /\ to_size' = dumped.to_size
  /\ from_offset' = dumped.from_offset /\ chunk_size' = dumped.chunk_size
  /\ from_pos' = RestoredPosition(dumped.from_offset)
  /\ window_known' = dumped.window_known /\ usize' = dumped.usize
  /\ sunk' = dumped.sunk /\ taken' = dumped.taken
  /\ told' = dumped.to_offset
  /\ out' = CutBack(told')

(* state_read or from_seek fails, and the caller gives up.                 *)
RestoreFails ==
  /\ pc = "crashed" /\ dumped # NoDump
  /\ pc' = "done" /\ ret' = -DETOOLS_IO_FAILED
  /\ UNCHANGED << patch, patch_size, patch_offset, cb_res, state, call, res,
                  chunk_left, reader_vars, target_vars, source_vars,
                  dumped, crashes, told, due >>

-----------------------------------------------------------------------------
ResumeNext ==
  \/ Work \/ Dump \/ Crash
  \/ StartOver \/ RestoreInit \/ Restore \/ RestoreFails

ResumeSpec == ResumeInit /\ [][ResumeNext]_resume_vars

-----------------------------------------------------------------------------
(***************************************************************************)
(* What get_to_offset says after restore is how many bytes the target had  *)
(* accepted when the engine was dumped, so that neither a byte is written  *)
(* twice nor a gap is left: here for an engine that was dumped after its   *)
(* first chunk.                                                            *)
(***************************************************************************)
RestoredOffsetIsDue ==
  [][pc = "crashed" /\ pc' = "read" /\ dumped.state # "init" =>
       told' = due /\ Len(out') = due]_resume_vars

=============================================================================
