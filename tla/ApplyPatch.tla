----------------------------- MODULE ApplyPatch -----------------------------
(***************************************************************************)
(* The patch engine, detools.c, as detools_apply_patch_callbacks drives    *)
(* it: chunks of the patch are read and processed one state at a time by   *)
(* apply_patch_process_once until the patch is used up, then the engine is *)
(* finalized.  All the engine learns of the outside are the results of its *)
(* callbacks: patch_read, from_read, from_seek and to_write.               *)
(*                                                                         *)
(* A patch starts with a header (the patch type and the size of the        *)
(* target), then a byte with the parameters of the heatshrink compression, *)
(* then the compressed stream, which StreamReader hands over decompressed. *)
(* The bytes of the plain stream count, since they are the sizes, offsets  *)
(* and data the engine works on.                                           *)
(***************************************************************************)
EXTENDS StreamReader

CONSTANTS
  From,       \* the source image: a byte for each offset that can be read
  SIZE_MOD    \* number of values of a size_t

PatchLen(p) == p.head_len + 1 + Len(p.upto)

ASSUME FromAssumption == DOMAIN From \subseteq Int /\ \A i \in DOMAIN From : From[i] \in Byte

ASSUME SizeAssumption == SIZE_MOD \in Nat \ {0}

(***************************************************************************)
(* A size has at most 27 bits: six, and three times seven more.  A size_t  *)
(* has more than that, so that a size wraps only if it is negative.        *)
(***************************************************************************)
ASSUME WidthAssumption ==
  /\ SIZE_MOD >= 268435456
  /\ \A p \in Patches : p.to_size < 134217728

DETOOLS_NOT_IMPLEMENTED        == 1
DETOOLS_BAD_PATCH_TYPE         == 3
DETOOLS_CORRUPT_PATCH          == 9
DETOOLS_IO_FAILED              == 10
DETOOLS_ALREADY_DONE           == 11
DETOOLS_SHORT_HEADER           == 18
DETOOLS_NOT_ENOUGH_PATCH_DATA  == 19
DETOOLS_ALREADY_FAILED         == 24
DETOOLS_CORRUPT_PATCH_OVERFLOW == 25

PATCH_TYPE_SEQUENTIAL == 0

States == {"init", "dfpatch_size", "diff_size", "diff_data", "extra_size",
           "extra_data", "adjustment", "done", "failed"}

VARIABLES
  patch_size,   \* the size its header gives
  pc,           \* where callbacks_process is
  state,        \* self_p->state
  call,         \* the loop or callback process_once is inside of, or "none"
  res,          \* what process_once returned last
  cb_res,       \* res of callbacks_process
  ret,          \* what detools_apply_patch_callbacks returned
  patch_offset, \* bytes of the patch read
  usize,        \* patch_reader.size: a size being unpacked
  to_size,
  to_offset,
  chunk_size,   \* rest of the current diff or extra section
  seek,         \* the offset handed to from_seek
  from_offset,
  from_pos,     \* where the source is read next (behind the callback)
  buf,          \* the bytes handed from callback to callback
  out           \* history: all bytes that to_write accepted

reader_vars == << window_known, sunk, taken, usize >>
target_vars == << to_size, to_offset, chunk_size, out >>
source_vars == << seek, from_offset, from_pos, buf >>
input_vars  == << patch, patch_size, patch_offset, cb_res, ret >>
vars == << input_vars, pc, state, call, res, chunk_left,
           reader_vars, target_vars, source_vars >>

Init ==
  /\ patch \in Patches
  /\ patch_size \in 0 .. PatchLen(patch)
  /\ pc = "read" /\ state = "init" /\ call = "none"
  /\ res = 0 /\ cb_res = 0 /\ ret = 0
  /\ patch_offset = 0 /\ chunk_left = 0
  /\ window_known = FALSE /\ sunk = 0 /\ taken = 0
  /\ usize = [state |-> "first", value |-> 0, offset |-> 0, is_signed |-> FALSE]
  /\ to_size = 0 /\ to_offset = 0 /\ chunk_size = 0 /\ out = << >>
  /\ seek = 0 /\ from_offset = 0 /\ from_pos = 0 /\ buf = << >>

-----------------------------------------------------------------------------
(* callbacks_process and detools_apply_patch_process: the two outer loops. *)

Reading == patch_offset < patch_size /\ cb_res = 0

ChunkSize == IF patch_size - patch_offset < CHUNK_BUF
             THEN patch_size - patch_offset ELSE CHUNK_BUF

PatchRead(r) ==
  /\ pc = "read" /\ Reading
  /\ \/ /\ r = 0
        /\ pc' = "process"
        /\ patch_offset' = patch_offset + ChunkSize
        /\ chunk_left' = ChunkSize
        /\ res' = 0
        /\ UNCHANGED cb_res
     \/ /\ r # 0
        /\ cb_res' = -DETOOLS_IO_FAILED
        /\ UNCHANGED << pc, patch_offset, chunk_left, res >>
  /\ UNCHANGED << patch, patch_size, ret, state, call,
                  reader_vars, target_vars, source_vars >>

ProcessEnd ==
  /\ pc = "process" /\ call = "none"
  /\ chunk_left = 0 \/ res < 0
  /\ cb_res' = IF res = 1 THEN 0 ELSE res
  /\ pc' = "read"
  /\ UNCHANGED << patch, patch_size, patch_offset, ret, state, call, res,
                  chunk_left, reader_vars, target_vars, source_vars >>

(* The engine is finalized whether or not the reading went well.           *)
FinalizeStart ==
  /\ pc = "read" /\ ~Reading
  /\ pc' = "finalize"
  /\ chunk_left' = 0
  /\ res' = 0
  /\ UNCHANGED << input_vars, state, call, reader_vars, target_vars,
                  source_vars >>

(* apply_patch_common_finalize: a stall now means that data is missing,    *)
(* and a finished patch must leave nothing in the decoder.                 *)
FinalResult_StallPasses ==
  CASE res = -DETOOLS_ALREADY_DONE ->
         IF Finished THEN to_size ELSE -DETOOLS_CORRUPT_PATCH
    [] OTHER -> res
FinalResult ==
  CASE res = 1 -> -DETOOLS_NOT_ENOUGH_PATCH_DATA
    [] res = -DETOOLS_ALREADY_DONE ->
         IF Finished THEN to_size ELSE -DETOOLS_CORRUPT_PATCH
    [] OTHER -> res

Finalize ==
  /\ pc = "finalize" /\ call = "none" /\ res # 0
  /\ ret' = IF cb_res = 0 THEN FinalResult ELSE cb_res
  /\ pc' = "done"
  /\ UNCHANGED << patch, patch_size, patch_offset, cb_res, state, call, res,
                  chunk_left, reader_vars, target_vars, source_vars >>

-----------------------------------------------------------------------------
(* apply_patch_process_once: one action per outcome of a state's handler.  *)

Once ==
  /\ call = "none"
  /\ \/ pc = "process" /\ chunk_left > 0 /\ res >= 0
     \/ pc = "finalize" /\ res = 0

Failed(e) == state' = "failed" /\ res' = -e /\ call' = "none"

Stalled == res' = 1 /\ call' = "none" /\ UNCHANGED state

Goto(s) == state' = s /\ res' = 0 /\ call' = "none"

(* chunk_unpack_header_size: the size of the target must be in the first   *)
(* chunk as a whole, behind the type, and in at most four bytes.           *)
HeaderShort == chunk_left < patch.head_len /\ chunk_left < 6

HeaderOverflows == patch.head_len > 5 /\ chunk_left > 5

ProcessInit ==
  /\ Once /\ state = "init"
  /\ CASE chunk_left = 0 -> Failed(DETOOLS_SHORT_HEADER) /\ UNCHANGED << chunk_left, to_size >>
       [] chunk_left > 0 /\ patch.type # PATCH_TYPE_SEQUENTIAL ->
            Failed(DETOOLS_BAD_PATCH_TYPE) /\ UNCHANGED << chunk_left, to_size >>
       [] OTHER ->
            \/ /\ HeaderShort
               /\ Failed(DETOOLS_SHORT_HEADER)
               /\ UNCHANGED << chunk_left, to_size >>
            \/ /\ HeaderOverflows
               /\ Failed(DETOOLS_CORRUPT_PATCH_OVERFLOW)
               /\ UNCHANGED << chunk_left, to_size >>
            \/ /\ ~HeaderShort /\ ~HeaderOverflows
               /\ chunk_left' = chunk_left - patch.head_len
               /\ to_size' = patch.to_size
               /\ Goto(IF patch.to_size > 0 THEN "dfpatch_size" ELSE "done")
  /\ UNCHANGED << input_vars, pc, reader_vars, to_offset, chunk_size, out,
                  source_vars >>

-----------------------------------------------------------------------------
(***************************************************************************)
(* patch_reader_unpack_size: a size is a first byte (continuation bit,     *)
(* sign bit, six bits) and consecutive bytes (continuation bit, seven      *)
(* bits), the least significant bits first.  What has been unpacked so far *)
(* is kept in usize when the chunk ends inside of a size.                  *)
(***************************************************************************)
SizeStates == {"dfpatch_size", "diff_size", "extra_size", "adjustment"}

Unpacking == state \in SizeStates /\ (Once \/ call = "unpack")

is_overflow_Late(offset) == offset > 32
is_overflow(offset) == offset + 7 > 32

Shift(offset) == CASE offset = 6  -> 64
                   [] offset = 13 -> 8192
                   [] OTHER       -> 1048576

(* A byte of a size, taken up by the size unpacked so far; the faulty form *)
(* forgets that it has been called before.                                 *)
Extended_Restarted(u, byte) ==
  [state |-> "consecutive", value |-> byte % 64, offset |-> 6,
   is_signed |-> (byte \div 64) % 2 = 1]
Extended(u, byte) ==
  IF u.state = "first"
  THEN [state |-> "consecutive", value |-> byte % 64, offset |-> 6,
        is_signed |-> (byte \div 64) % 2 = 1]
  ELSE [u EXCEPT !.value = @ + (byte % 128) * Shift(u.offset),
                 !.offset = @ + 7]

Continued(byte) == byte >= 128

Signed(u) == IF u.is_signed THEN -u.value ELSE u.value

NextByte == patch.plain[taken + 1]

(* No byte could be had: the chunk is used up, or is no heatshrink stream. *)
UnpackStops ==
  /\ Unpacking
  /\ \E r \in {1, -DETOOLS_HEATSHRINK_HEADER} :
       /\ Decompress(1, r, 0)
       /\ IF r = 1 THEN Stalled ELSE Failed(-r)
  /\ UNCHANGED << input_vars, pc, usize, target_vars, source_vars >>

(* A byte was had, but there are too many of them or more to come.         *)
UnpackOverflows ==
  /\ Unpacking
  /\ Decompress(1, 0, 1)
  /\ usize.state = "consecutive" /\ is_overflow(usize.offset)
  /\ Failed(DETOOLS_CORRUPT_PATCH_OVERFLOW)
  /\ UNCHANGED << input_vars, pc, usize, target_vars, source_vars >>

Unpack(done) ==
  /\ Unpacking
  /\ Decompress(1, 0, 1)
  /\ ~(usize.state = "consecutive" /\ is_overflow(usize.offset))
  /\ Continued(NextByte) # done
  /\ LET u == Extended(usize, NextByte)
     IN  usize' = IF done THEN [u EXCEPT !.state = "first", !.value = Signed(u)]
                  ELSE u

UnpackContinues ==
  /\ Unpack(FALSE)
  /\ call' = "unpack"
  /\ UNCHANGED << input_vars, pc, state, res, target_vars, source_vars >>

(* A patch of the data format would need size > 0.                         *)
ProcessDfpatchSize ==
  /\ state = "dfpatch_size" /\ Unpack(TRUE)
  /\ IF usize'.value > 0 THEN Failed(DETOOLS_NOT_IMPLEMENTED)
     ELSE Goto("diff_size")
  /\ UNCHANGED << input_vars, pc, target_vars, source_vars >>

(* The size of a section must fit what is left of the target.  The sum is  *)
(* one of size_t: a negative size wraps around.                            *)
SizeFits_Unchecked(size) == TRUE
SizeFits(size) == (to_offset + size) % SIZE_MOD <= to_size

ProcessSize ==
  /\ state \in {"diff_size", "extra_size"} /\ Unpack(TRUE)
  /\ IF SizeFits(usize'.value)
     THEN /\ chunk_size' = usize'.value % SIZE_MOD
          /\ Goto(IF state = "diff_size" THEN "diff_data" ELSE "extra_data")
     ELSE /\ Failed(DETOOLS_CORRUPT_PATCH)
          /\ UNCHANGED chunk_size
  /\ UNCHANGED << input_vars, pc, to_size, to_offset, out, source_vars >>

ProcessAdjustment ==
  /\ state = "adjustment" /\ Unpack(TRUE)
  /\ seek' = usize'.value
  /\ call' = "from_seek"
  /\ UNCHANGED << input_vars, pc, state, res, target_vars, from_offset,
                  from_pos, buf >>

FromSeek(r) ==
  /\ call = "from_seek"
  /\ \/ /\ r = 0
        /\ from_pos' = from_pos + seek
        /\ from_offset' = from_offset + seek
        /\ Goto(IF to_offset = to_size THEN "done" ELSE "diff_size")
     \/ /\ r # 0
        /\ Failed(DETOOLS_IO_FAILED)
        /\ UNCHANGED << from_pos, from_offset >>
  /\ UNCHANGED << input_vars, pc, chunk_left, reader_vars, target_vars,
                  seek, buf >>

-----------------------------------------------------------------------------
(* process_data, in three steps: decompress, from_read, to_write.          *)

DataStates == {"diff_data", "extra_data"}

SectionEnd ==
  /\ Once /\ state \in DataStates /\ chunk_size = 0
  /\ Goto(IF state = "diff_data" THEN "extra_size" ELSE "adjustment")
  /\ UNCHANGED << input_vars, pc, chunk_left, reader_vars, target_vars,
                  source_vars >>

(* As much as is there, up to the buffer and the end of the section.       *)
DecompressData ==
  /\ Once /\ state \in DataStates /\ chunk_size > 0
  /\ \E r \in {0, 1}, got \in 0 .. TO_BUF :
       /\ Decompress(IF chunk_size < TO_BUF THEN chunk_size ELSE TO_BUF, r, got)
       /\ IF r = 1
          THEN Stalled /\ UNCHANGED buf
          ELSE /\ buf' = SubSeq(patch.plain, taken + 1, taken + got)
               /\ call' = IF state = "diff_data" THEN "from_read" ELSE "to_write"
               /\ UNCHANGED << state, res >>
  /\ UNCHANGED << input_vars, pc, usize, target_vars, seek, from_offset,
                  from_pos >>

FromRead(r) ==
  LET n == Len(buf) IN
  /\ call = "from_read"
  /\ \/ /\ r = 0
        /\ from_pos .. from_pos + n - 1 \subseteq DOMAIN From
        /\ buf' = [i \in 1 .. n |-> (buf[i] + From[from_pos + i - 1]) % 256]
        /\ from_pos' = from_pos + n
        /\ from_offset' = from_offset + n
        /\ call' = "to_write"
        /\ UNCHANGED << state, res >>
     \/ /\ r # 0
        /\ Failed(DETOOLS_IO_FAILED)
        /\ UNCHANGED << buf, from_pos, from_offset >>
  /\ UNCHANGED << input_vars, pc, chunk_left, reader_vars, target_vars, seek >>

(* The offsets advance whether or not the bytes are accepted.              *)
ToWrite(r) ==
  /\ call = "to_write"
  /\ to_offset' = to_offset + Len(buf)
  /\ chunk_size' = chunk_size - Len(buf)
  /\ buf' = << >>
  /\ \/ /\ r = 0
        /\ out' = out \o buf
        /\ Goto(state)
     \/ /\ r # 0
        /\ Failed(DETOOLS_IO_FAILED)
        /\ UNCHANGED out
  /\ UNCHANGED << input_vars, pc, chunk_left, reader_vars, to_size, seek,
                  from_offset, from_pos >>

(* Nothing more can be done in these states.                               *)
ProcessNothing ==
  /\ Once /\ state \in {"done", "failed"}
  /\ Failed(IF state = "done" THEN DETOOLS_ALREADY_DONE ELSE DETOOLS_ALREADY_FAILED)
  /\ UNCHANGED << input_vars, pc, chunk_left, reader_vars, target_vars,
                  source_vars >>

-----------------------------------------------------------------------------
Callback(r) == PatchRead(r) \/ FromRead(r) \/ FromSeek(r) \/ ToWrite(r)

Engine ==
  \/ ProcessEnd \/ FinalizeStart \/ Finalize
  \/ ProcessInit
  \/ UnpackStops \/ UnpackOverflows \/ UnpackContinues
  \/ ProcessDfpatchSize \/ ProcessSize \/ ProcessAdjustment
  \/ SectionEnd \/ DecompressData
  \/ ProcessNothing

(* The engine only tells zero from other answers of a callback.            *)
Next == Engine \/ \E r \in {0, -1} : Callback(r)

Spec == Init /\ [][Next]_vars

(* Callbacks return, and the engine runs in a thread of its own.           *)
FairSpec == Spec /\ WF_vars(Next)

-----------------------------------------------------------------------------
InputTypeOK ==
  /\ patch \in Patches /\ patch_size \in 0 .. PatchLen(patch)
  /\ patch_offset \in 0 .. patch_size /\ cb_res \in Int /\ ret \in Int

ControlTypeOK ==
  /\ pc \in {"read", "process", "finalize", "done"}
  /\ state \in States
  /\ call \in {"none", "unpack", "from_read", "from_seek", "to_write"}
  /\ res \in Int

ReaderTypeOK ==
  /\ chunk_left \in 0 .. CHUNK_BUF
  /\ window_known \in BOOLEAN
  /\ sunk \in 0 .. Len(patch.upto) /\ taken \in 0 .. Upto(patch, sunk)
  /\ usize \in [state : {"first", "consecutive"}, value : Int,
                offset : {0, 6, 13, 20, 27}, is_signed : BOOLEAN]

TargetTypeOK ==
  /\ to_size \in Nat /\ to_offset \in Nat
  /\ chunk_size \in 0 .. SIZE_MOD - 1
  /\ out \in Seq(Byte)

SourceTypeOK ==
  /\ seek \in Int /\ from_offset \in Int /\ from_pos \in Int
  /\ buf \in Seq(Byte) /\ Len(buf) <= TO_BUF

TypeOK == InputTypeOK /\ ControlTypeOK /\ ReaderTypeOK /\ TargetTypeOK /\ SourceTypeOK

(***************************************************************************)
(* An update the engine reports as done is a target of exactly the size    *)
(* the header announced, every byte of it accepted by to_write; whatever   *)
(* the patch holds, wherever it is cut off, whichever callback fails.      *)
(***************************************************************************)
SuccessIsExact ==
  pc = "done" /\ ret >= 0 =>
    /\ ret = patch.to_size
    /\ Len(out) = ret

(***************************************************************************)
(* While a section is being written, the rest of it ends inside of the     *)
(* target, in the arithmetic of size_t in which common_process_size        *)
(* checked it (detools.c:388): no interleaving of partial reads, full      *)
(* buffers and section changes lets to_offset and chunk_size drift apart.  *)
(***************************************************************************)
SectionFits ==
  state \in DataStates => (to_offset + chunk_size) % SIZE_MOD <= to_size

(***************************************************************************)
(* The engine always comes to an end: every turn of the process loop uses  *)
(* up input, output of the decoder or a section, and the loop of finalize  *)
(* stops when nothing is left (detools.c:771, 789).                        *)
(***************************************************************************)
Terminates == <>(pc = "done")

=============================================================================
