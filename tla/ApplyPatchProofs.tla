-------------------------- MODULE ApplyPatchProofs --------------------------
(***************************************************************************)
(* What the engine promises for every patch, every source and every size   *)
(* of chunk and buffer, whichever callbacks fail.                          *)
(***************************************************************************)
EXTENDS ApplyPatch, NumberFacts

(***************************************************************************)
(* The inductive invariant.  Accounted: every byte of patch that was read  *)
(* is in the header, the heatshrink byte, the decoder or what is left of   *)
(* the chunk.                                                              *)
(***************************************************************************)
Compressed == IF window_known THEN 1 + sunk ELSE 0

Accounted ==
  /\ ~window_known => sunk = 0 /\ taken = 0
  /\ state = "init" => ~window_known
  /\ usize.state = "consecutive" => usize.offset # 0
  /\ state # "failed" =>
       patch_offset = chunk_left + Compressed
                        + (IF state = "init" THEN 0 ELSE patch.head_len)

(* Phases: how the loops, the callbacks and the results go together.       *)
Phases ==
  /\ pc = "read" /\ state # "failed" => chunk_left = 0
  /\ pc = "finalize" => chunk_left = 0
  /\ res < 0 => state = "failed"
  /\ res <= 1 /\ cb_res <= 0
  /\ call # "none" => pc \in {"process", "finalize"}
  /\ call = "unpack" => state \in SizeStates
  /\ call = "from_seek" => state = "adjustment"
  /\ call = "from_read" => state = "diff_data"
  /\ call = "to_write" => state \in DataStates
  /\ call \in {"from_read", "to_write"} => 0 < Len(buf) /\ Len(buf) <= chunk_size

(* Exact: what was written is what the offsets say, up to the done state.  *)
Exact ==
  /\ state \notin {"init", "failed"} => to_size = patch.to_size
  /\ state # "failed" => Len(out) = to_offset
  /\ state = "init" => to_offset = 0
  /\ state = "done" => to_offset = to_size
  /\ res = -DETOOLS_ALREADY_DONE => to_size = patch.to_size /\ Len(out) = to_size
  /\ SuccessIsExact

IInv == TypeOK /\ Accounted /\ Phases /\ SectionFits /\ Exact

-----------------------------------------------------------------------------
LEMMA ByteSum ==
  ASSUME NEW x \in Byte, NEW y \in Byte
  PROVE  (x + y) % 256 \in Byte
BY DEF Byte

(* The decoder hands over no more than the plain stream holds.             *)
LEMMA PatchFacts ==
  ASSUME NEW p \in Patches
  PROVE  /\ p.head_len \in Nat /\ p.to_size \in Nat
         /\ p.plain \in Seq(Byte) /\ Len(p.plain) \in Nat
         /\ Len(p.upto) \in Nat
         /\ \A j \in 0 .. Len(p.upto) : Upto(p, j) \in 0 .. Len(p.plain)
         /\ PatchLen(p) = p.head_len + 1 + Len(p.upto)
<1>1. p \in Patch /\ \A j \in 1 .. Len(p.upto) : p.upto[j] <= Len(p.plain)
  BY PatchesAssumption
<1>2. /\ p.head_len \in Nat /\ p.to_size \in Nat
      /\ p.plain \in Seq(Byte) /\ p.upto \in Seq(Nat)
  BY <1>1 DEF Patch
<1>3. Len(p.plain) \in Nat /\ Len(p.upto) \in Nat
  BY <1>2
<1>4. \A j \in 1 .. Len(p.upto) : p.upto[j] \in Nat
  BY <1>2
<1>5. \A j \in 0 .. Len(p.upto) : Upto(p, j) \in 0 .. Len(p.plain)
  BY <1>1, <1>3, <1>4 DEF Upto
<1> QED
  BY <1>2, <1>3, <1>5 DEF PatchLen

(* More input never takes output back.                                     *)
LEMMA UptoGrows ==
  ASSUME NEW p \in Patches, NEW i \in 0 .. Len(p.upto),
         NEW j \in 0 .. Len(p.upto), i <= j
  PROVE  Upto(p, i) <= Upto(p, j)
<1>1. CASE i = 0
  BY <1>1, PatchFacts DEF Upto
<1>2. CASE i # 0
  <2>1. i \in 1 .. Len(p.upto) /\ j \in 1 .. Len(p.upto)
    BY <1>2, PatchFacts
  <2>2. p.upto[i] <= p.upto[j]
    BY <2>1, PatchesAssumption
  <2> QED
    BY <2>1, <2>2 DEF Upto
<1> QED
  BY <1>1, <1>2

(* What is sunk is part of the compressed stream.                          *)
LEMMA SunkBound ==
  ASSUME TypeOK, Accounted, state \notin {"init", "failed"}
  PROVE  Compressed + chunk_left <= 1 + Len(patch.upto)
<1>1. patch_offset = chunk_left + Compressed + patch.head_len
  BY DEF Accounted
<1>2. /\ patch_size \in Nat /\ patch_size <= patch.head_len + 1 + Len(patch.upto)
      /\ patch_offset \in Nat /\ patch_offset <= patch_size
      /\ patch.head_len \in Nat /\ Len(patch.upto) \in Nat /\ chunk_left \in Nat
      /\ Compressed \in Nat
  BY PatchFacts, SizeAssumption, ChunkAssumption
     DEF TypeOK, InputTypeOK, ReaderTypeOK, Compressed
<1> HIDE DEF Compressed
<1> QED
  BY <1>1, <1>2

(***************************************************************************)
(* patch_reader_heatshrink_decompress keeps its books: bytes that leave    *)
(* the chunk are sunk, bytes handed over are bytes of the plain stream     *)
(* (detools.c:133-208).                                                    *)
(***************************************************************************)
Handed(n, r, got) ==
  /\ got \in 0 .. n /\ taken' = taken + got
  /\ r = 0 => got > 0

LEMMA PolledFacts ==
  ASSUME TypeOK, NEW n \in Nat \ {0}, NEW left \in Nat, NEW r, NEW got,
         Polled(n, left, r, got), sunk + left <= Len(patch.upto)
  PROVE  /\ Handed(n, r, got) /\ r \in {0, 1}
         /\ \E used \in 0 .. left :
              /\ chunk_left' = left - used
              /\ sunk' = sunk + used /\ sunk + used \in 0 .. Len(patch.upto)
              /\ taken + got \in 0 .. Upto(patch, sunk + used)
              /\ r = 1 => used = left
<1>1. PICK used \in 0 .. left :
        /\ \/ Enough(n, used) /\ got = n
           \/ ~Enough(n, used) /\ used = left /\ got = Held(used)
        /\ r = PolledResult(got)
        /\ chunk_left' = left - used
        /\ sunk' = sunk + used
        /\ taken' = taken + got
  BY DEF Polled
<1>2. /\ patch \in Patches /\ sunk \in 0 .. Len(patch.upto)
      /\ taken \in 0 .. Upto(patch, sunk) /\ Len(patch.upto) \in Nat
  BY PatchFacts DEF TypeOK, InputTypeOK, ReaderTypeOK
<1>3. sunk + used \in 0 .. Len(patch.upto)
  BY <1>2
<1>4. /\ Upto(patch, sunk) <= Upto(patch, sunk + used)
      /\ Upto(patch, sunk) \in Nat /\ Upto(patch, sunk + used) \in Nat
  BY <1>2, <1>3, UptoGrows, PatchFacts
<1>5. got \in 0 .. n /\ taken + got \in 0 .. Upto(patch, sunk + used)
  <2> DEFINE before == Upto(patch, sunk)
             after == Upto(patch, sunk + used)
  <2>1. /\ before \in Nat /\ after \in Nat /\ before <= after
        /\ taken \in Nat /\ taken <= before
    BY <1>2, <1>4
  <2>2. \/ after - taken >= n /\ got = n
        \/ ~(after - taken >= n) /\ got = after - taken
    BY <1>1 DEF Enough, Held
  <2> HIDE DEF before, after
  <2>3. got \in 0 .. n /\ taken + got \in 0 .. after
    BY <2>1, <2>2
  <2> QED
    BY <2>3 DEF after
<1>6. r = 1 => used = left
  BY <1>1, <1>5 DEF PolledResult
<1>7. r \in {0, 1} /\ (r = 0 => got > 0)
  BY <1>1 DEF PolledResult
<1> QED
  BY <1>1, <1>3, <1>5, <1>6, <1>7 DEF Handed

(* What the handlers need to know of a call of decompress.                 *)
LEMMA DecompressFacts ==
  ASSUME TypeOK, Accounted, state \notin {"init", "failed"},
         NEW n \in Nat \ {0}, NEW r, NEW got, Decompress(n, r, got)
  PROVE  /\ Handed(n, r, got) /\ r \in {0, 1, -DETOOLS_HEATSHRINK_HEADER}
         /\ window_known' \in BOOLEAN /\ (~window_known' => sunk' = 0 /\ taken' = 0)
         /\ sunk' \in 0 .. Len(patch.upto)
         /\ taken + got \in 0 .. Upto(patch, sunk')
         /\ \E used \in 0 .. chunk_left :
              /\ chunk_left' = chunk_left - used
              /\ Compressed' = Compressed + used
              /\ r = 1 => used = chunk_left
<1>1. /\ chunk_left \in Nat /\ window_known \in BOOLEAN
      /\ sunk \in 0 .. Len(patch.upto) /\ taken \in 0 .. Upto(patch, sunk)
      /\ Len(patch.upto) \in Nat
  BY SizeAssumption, ChunkAssumption, PatchFacts DEF TypeOK, InputTypeOK, ReaderTypeOK
<1>2. Compressed + chunk_left <= 1 + Len(patch.upto)
  BY SunkBound
<1>3. CASE window_known /\ Polled(n, chunk_left, r, got) /\ UNCHANGED window_known
  <2>1. Compressed = 1 + sunk
    BY <1>3 DEF Compressed
  <2>2. sunk + chunk_left <= Len(patch.upto)
    BY <1>1, <1>2, <2>1
  <2>3. Handed(n, r, got) /\ r \in {0, 1}
    BY <1>1, <1>3, <2>2, PolledFacts
  <2>4. PICK used \in 0 .. chunk_left :
              /\ chunk_left' = chunk_left - used
              /\ sunk' = sunk + used /\ sunk + used \in 0 .. Len(patch.upto)
              /\ taken + got \in 0 .. Upto(patch, sunk + used)
              /\ r = 1 => used = chunk_left
    BY <1>1, <1>3, <2>2, PolledFacts
  <2>5. window_known' \in BOOLEAN /\ window_known'
    BY <1>3
  <2>6. Compressed' = 1 + sunk'
    BY <2>5 DEF Compressed
  <2>7. Compressed' = Compressed + used
    BY <1>1, <2>1, <2>4, <2>6
  <2> QED
    BY <2>3, <2>4, <2>5, <2>7
<1>4. CASE /\ ~window_known /\ chunk_left = 0
           /\ r = 1 /\ got = 0
           /\ UNCHANGED << window_known, chunk_left, sunk, taken >>
  <2>1. Compressed' = Compressed /\ Compressed = 0 /\ sunk = 0 /\ taken = 0
    BY <1>4 DEF Compressed, Accounted
  <2>2. Handed(n, r, got)
    BY <1>4, <2>1 DEF Handed
  <2>3. window_known' \in BOOLEAN /\ (~window_known' => sunk' = 0 /\ taken' = 0)
    BY <1>1, <1>4, <2>1
  <2>4. 0 \in 0 .. chunk_left /\ chunk_left' = chunk_left - 0
        /\ Compressed' = Compressed + 0
    BY <1>1, <1>4, <2>1
  <2> QED
    BY <1>1, <1>4, <2>1, <2>2, <2>3, <2>4
<1>5. CASE /\ ~window_known /\ chunk_left > 0 /\ window_known' = TRUE
           /\ Polled(n, chunk_left - 1, r, got)
  <2>1. sunk = 0 /\ Compressed = 0
    BY <1>5 DEF Accounted, Compressed
  <2>2. chunk_left - 1 \in Nat /\ sunk + (chunk_left - 1) <= Len(patch.upto)
    BY <1>1, <1>2, <1>5, <2>1
  <2>3. Handed(n, r, got) /\ r \in {0, 1}
    BY <1>5, <2>2, PolledFacts
  <2>4. PICK used \in 0 .. chunk_left - 1 :
              /\ chunk_left' = chunk_left - 1 - used
              /\ sunk' = sunk + used /\ sunk + used \in 0 .. Len(patch.upto)
              /\ taken + got \in 0 .. Upto(patch, sunk + used)
              /\ r = 1 => used = chunk_left - 1
    BY <1>5, <2>2, PolledFacts
  <2>5. window_known' \in BOOLEAN /\ window_known'
    BY <1>5
  <2>6. Compressed' = 1 + sunk'
    BY <2>5 DEF Compressed
  <2>7. /\ 1 + used \in 0 .. chunk_left
        /\ Compressed' = Compressed + (1 + used)
        /\ chunk_left' = chunk_left - (1 + used)
        /\ r = 1 => 1 + used = chunk_left
    BY <1>1, <1>5, <2>1, <2>4, <2>6
  <2> QED
    BY <2>3, <2>4, <2>5, <2>7
<1>6. CASE /\ ~window_known /\ chunk_left > 0 /\ window_known' = TRUE
           /\ r = -DETOOLS_HEATSHRINK_HEADER /\ got = 0
           /\ chunk_left' = chunk_left - 1
           /\ UNCHANGED << sunk, taken >>
  <2>1. sunk = 0 /\ taken = 0 /\ Compressed = 0
    BY <1>6 DEF Accounted, Compressed
  <2>2. window_known' \in BOOLEAN /\ window_known'
    BY <1>6
  <2>3. Compressed' = Compressed + 1
    BY <1>6, <2>1, <2>2 DEF Compressed
  <2>4. 1 \in 0 .. chunk_left
    BY <1>1, <1>6
  <2>5. Handed(n, r, got) /\ r # 1
    BY <1>6, <2>1 DEF Handed, DETOOLS_HEATSHRINK_HEADER
  <2> QED
    BY <1>1, <1>6, <2>1, <2>2, <2>3, <2>4, <2>5
<1> QED
  BY <1>3, <1>4, <1>5, <1>6 DEF Decompress

(* A step that leaves chunk and decoder alone keeps the books.             *)
LEMMA BooksKept ==
  ASSUME Accounted, UNCHANGED << patch, patch_offset, chunk_left, reader_vars >>,
         state # "init", state' # "init", state = "failed" => state' = "failed"
  PROVE  Accounted'
<1>1. Compressed' = Compressed
  BY DEF Compressed, reader_vars
<1> QED
  BY <1>1 DEF Accounted, reader_vars

(* Reading a chunk (detools.c:815-826).                                    *)
LEMMA PatchReadStep ==
  ASSUME IInv, NEW r, PatchRead(r)
  PROVE  IInv'
<1> USE DEF IInv, PatchRead, ChunkSize, Reading, DETOOLS_IO_FAILED, input_vars, reader_vars, target_vars, source_vars
<1>1. TypeOK'
  <2>1. /\ patch_size \in Nat /\ patch_offset \in 0 .. patch_size
        /\ CHUNK_BUF \in Nat /\ ChunkSize \in 0 .. CHUNK_BUF
        /\ ChunkSize <= patch_size - patch_offset
    BY PatchFacts, ChunkAssumption DEF TypeOK, InputTypeOK, PatchLen
  <2> HIDE DEF ChunkSize
  <2>2. patch_offset' \in 0 .. patch_size /\ chunk_left' \in 0 .. CHUNK_BUF
    BY <2>1 DEF TypeOK, ReaderTypeOK
  <2>3. InputTypeOK'
    BY <2>2 DEF TypeOK, InputTypeOK
  <2>4. ReaderTypeOK'
    BY <2>2 DEF TypeOK, ReaderTypeOK
  <2>5. ControlTypeOK'
    BY DEF TypeOK, ControlTypeOK
  <2>6. TargetTypeOK' /\ SourceTypeOK'
    BY DEF TypeOK, TargetTypeOK, SourceTypeOK
  <2> QED
    BY <2>3, <2>4, <2>5, <2>6 DEF TypeOK
<1>2. Accounted'
  <2>1. Compressed' = Compressed
    BY DEF Compressed
  <2>2. CASE r # 0
    BY <2>1, <2>2 DEF Accounted
  <2>3. CASE r = 0
    <3> DEFINE size == IF patch_size - patch_offset < CHUNK_BUF
                       THEN patch_size - patch_offset ELSE CHUNK_BUF
    <3>1. patch_offset' = patch_offset + size /\ chunk_left' = size
      BY <2>3
    <3>2. state # "failed" => chunk_left = 0
      BY DEF Phases
    <3>3. size \in Int /\ patch_offset \in Int /\ Compressed \in Int
          /\ patch.head_len \in Int
      BY SizeAssumption, ChunkAssumption, PatchFacts
         DEF TypeOK, InputTypeOK, ReaderTypeOK, PatchLen, Compressed
    <3> HIDE DEF size, Compressed
    <3>4. state # "failed" =>
            patch_offset' = chunk_left' + Compressed'
                              + (IF state' = "init" THEN 0 ELSE patch'.head_len)
      BY <2>1, <3>1, <3>2, <3>3 DEF Accounted
    <3> QED
      BY <3>4 DEF Accounted
  <2> QED
    BY <2>2, <2>3
<1>3. Phases'
  BY DEF TypeOK, InputTypeOK, ControlTypeOK, ReaderTypeOK, TargetTypeOK, SourceTypeOK, Phases, SizeStates, DataStates
<1>4. SectionFits'
  BY DEF TypeOK, InputTypeOK, ControlTypeOK, ReaderTypeOK, TargetTypeOK, SourceTypeOK, SectionFits, DataStates
<1>5. Exact'
  BY DEF TypeOK, InputTypeOK, ControlTypeOK, ReaderTypeOK, TargetTypeOK, SourceTypeOK, Exact, SuccessIsExact, Phases, DETOOLS_ALREADY_DONE
<1> QED
  BY <1>1, <1>2, <1>3, <1>4, <1>5

(* The end of the process loop (detools.c:771-779).                        *)
LEMMA ProcessEndStep ==
  ASSUME IInv, ProcessEnd
  PROVE  IInv'
<1> USE DEF IInv, ProcessEnd, input_vars, reader_vars, target_vars, source_vars
<1>1. TypeOK'
  BY SizeAssumption, ChunkAssumption DEF TypeOK, InputTypeOK, ControlTypeOK, ReaderTypeOK, TargetTypeOK, SourceTypeOK, States
<1>2. Accounted'
  BY DEF TypeOK, InputTypeOK, ControlTypeOK, ReaderTypeOK, TargetTypeOK, SourceTypeOK, Accounted, Compressed, Phases
<1>3. Phases'
  BY DEF TypeOK, InputTypeOK, ControlTypeOK, ReaderTypeOK, TargetTypeOK, SourceTypeOK, Phases, SizeStates, DataStates
<1>4. SectionFits'
  BY DEF TypeOK, InputTypeOK, ControlTypeOK, ReaderTypeOK, TargetTypeOK, SourceTypeOK, SectionFits, DataStates
<1>5. Exact'
  BY DEF TypeOK, InputTypeOK, ControlTypeOK, ReaderTypeOK, TargetTypeOK, SourceTypeOK, Exact, SuccessIsExact, Phases, DETOOLS_ALREADY_DONE
<1> QED
  BY <1>1, <1>2, <1>3, <1>4, <1>5

(* The start of the finalization (detools.c:786-787).                      *)
LEMMA FinalizeStartStep ==
  ASSUME IInv, FinalizeStart
  PROVE  IInv'
<1> USE DEF IInv, FinalizeStart, Reading, input_vars, reader_vars, target_vars, source_vars
<1>1. TypeOK'
  BY SizeAssumption, ChunkAssumption DEF TypeOK, InputTypeOK, ControlTypeOK, ReaderTypeOK, TargetTypeOK, SourceTypeOK, States
<1>2. Accounted'
  BY DEF TypeOK, InputTypeOK, ControlTypeOK, ReaderTypeOK, TargetTypeOK, SourceTypeOK, Accounted, Compressed, Phases
<1>3. Phases'
  BY DEF TypeOK, InputTypeOK, ControlTypeOK, ReaderTypeOK, TargetTypeOK, SourceTypeOK, Phases, SizeStates, DataStates
<1>4. SectionFits'
  BY DEF TypeOK, InputTypeOK, ControlTypeOK, ReaderTypeOK, TargetTypeOK, SourceTypeOK, SectionFits, DataStates
<1>5. Exact'
  BY DEF TypeOK, InputTypeOK, ControlTypeOK, ReaderTypeOK, TargetTypeOK, SourceTypeOK, Exact, SuccessIsExact, Phases, DETOOLS_ALREADY_DONE
<1> QED
  BY <1>1, <1>2, <1>3, <1>4, <1>5

(* The end of a section (detools.c:500-504).                               *)
LEMMA SectionEndStep ==
  ASSUME IInv, SectionEnd
  PROVE  IInv'
<1> USE DEF IInv, SectionEnd, Goto, Once, input_vars, reader_vars, target_vars, source_vars
<1>1. TypeOK'
  BY SizeAssumption, ChunkAssumption DEF TypeOK, InputTypeOK, ControlTypeOK, ReaderTypeOK, TargetTypeOK, SourceTypeOK, States
<1>2. Accounted'
  BY BooksKept DEF DataStates
<1>3. Phases'
  BY DEF TypeOK, InputTypeOK, ControlTypeOK, ReaderTypeOK, TargetTypeOK, SourceTypeOK, Phases, SizeStates, DataStates
<1>4. SectionFits'
  BY DEF TypeOK, InputTypeOK, ControlTypeOK, ReaderTypeOK, TargetTypeOK, SourceTypeOK, SectionFits, DataStates
<1>5. Exact'
  <2>1. /\ state \notin {"init", "failed", "done"}
        /\ state' \notin {"init", "failed", "done"} /\ res' = 0
        /\ pc' = pc /\ pc # "done"
    BY DEF DataStates
  <2> QED
    BY <2>1 DEF Exact, SuccessIsExact, DETOOLS_ALREADY_DONE
<1> QED
  BY <1>1, <1>2, <1>3, <1>4, <1>5

(* Reading the source (detools.c:515-525).                                 *)
LEMMA FromReadStep ==
  ASSUME IInv, NEW r, FromRead(r)
  PROVE  IInv'
<1> USE DEF IInv, FromRead, Failed, DETOOLS_IO_FAILED, input_vars, reader_vars, target_vars, source_vars
<1>1. TypeOK'
  <2>1. buf' \in Seq(Byte) /\ Len(buf') <= TO_BUF
    <3>1. CASE r # 0
      BY <3>1 DEF TypeOK, SourceTypeOK
    <3>2. CASE r = 0
      <4> DEFINE n == Len(buf)
      <4>1. n \in Nat /\ n <= TO_BUF /\ from_pos \in Int
            /\ \A i \in 1 .. n : buf[i] \in Byte
        BY DEF TypeOK, SourceTypeOK
      <4>2. from_pos .. from_pos + n - 1 \subseteq DOMAIN From
            /\ buf' = [i \in 1 .. n |-> (buf[i] + From[from_pos + i - 1]) % 256]
        BY <3>2
      <4> HIDE DEF n
      <4>3. ASSUME NEW i \in 1 .. n
            PROVE  (buf[i] + From[from_pos + i - 1]) % 256 \in Byte
        <5>1. from_pos + i - 1 \in DOMAIN From
          BY <4>1, <4>2
        <5>2. From[from_pos + i - 1] \in Byte
          BY <5>1, FromAssumption
        <5>3. buf[i] \in Byte
          BY <4>1
        <5> QED
          BY <5>2, <5>3, ByteSum
      <4>4. buf' \in [1 .. n -> Byte]
        BY <4>2, <4>3
      <4> QED
        BY <4>1, <4>4
    <3> QED
      BY <3>1, <3>2
  <2>2. from_pos' \in Int /\ from_offset' \in Int
    BY DEF TypeOK, SourceTypeOK
  <2>3. InputTypeOK' /\ ReaderTypeOK' /\ TargetTypeOK'
    BY DEF TypeOK, InputTypeOK, ReaderTypeOK, TargetTypeOK
  <2>4. ControlTypeOK'
    BY DEF TypeOK, ControlTypeOK, States
  <2> QED
    BY <2>1, <2>2, <2>3, <2>4 DEF TypeOK, SourceTypeOK
<1>2. Accounted'
  BY DEF TypeOK, InputTypeOK, ControlTypeOK, ReaderTypeOK, TargetTypeOK, SourceTypeOK, Accounted, Compressed, Phases
<1>3. Phases'
  <2>1. state = "diff_data" /\ Len(buf) <= chunk_size /\ Len(buf) \in Nat
    BY DEF Phases, TypeOK, SourceTypeOK
  <2>2. CASE r = 0
    <3>1. Len(buf') = Len(buf)
      BY <2>1, <2>2
    <3> QED
      BY <2>1, <2>2, <3>1 DEF Phases, SizeStates, DataStates
  <2>3. CASE r # 0
    BY <2>1, <2>3 DEF Phases, SizeStates, DataStates
  <2> QED
    BY <2>2, <2>3
<1>4. SectionFits'
  BY DEF TypeOK, InputTypeOK, ControlTypeOK, ReaderTypeOK, TargetTypeOK, SourceTypeOK, SectionFits, DataStates
<1>5. Exact'
  BY DEF TypeOK, InputTypeOK, ControlTypeOK, ReaderTypeOK, TargetTypeOK, SourceTypeOK, Exact, SuccessIsExact, Phases, DETOOLS_ALREADY_DONE
<1> QED
  BY <1>1, <1>2, <1>3, <1>4, <1>5

(* Seeking in the source (detools.c:571-585).                              *)
LEMMA FromSeekStep ==
  ASSUME IInv, NEW r, FromSeek(r)
  PROVE  IInv'
<1> USE DEF IInv, FromSeek, Goto, Failed, DETOOLS_IO_FAILED, input_vars, reader_vars, target_vars, source_vars
<1>1. TypeOK'
  <2>1. InputTypeOK' /\ ReaderTypeOK'
    BY DEF TypeOK, InputTypeOK, ReaderTypeOK
  <2>2. TargetTypeOK' /\ SourceTypeOK'
    BY DEF TypeOK, TargetTypeOK, SourceTypeOK
  <2>3. ControlTypeOK'
    BY DEF TypeOK, ControlTypeOK, States
  <2> QED
    BY <2>1, <2>2, <2>3 DEF TypeOK
<1>2. Accounted'
  BY DEF TypeOK, InputTypeOK, ControlTypeOK, ReaderTypeOK, TargetTypeOK, SourceTypeOK, Accounted, Compressed, Phases
<1>3. Phases'
  BY DEF TypeOK, InputTypeOK, ControlTypeOK, ReaderTypeOK, TargetTypeOK, SourceTypeOK, Phases, SizeStates, DataStates
<1>4. SectionFits'
  BY DEF TypeOK, InputTypeOK, ControlTypeOK, ReaderTypeOK, TargetTypeOK, SourceTypeOK, SectionFits, DataStates
<1>5. Exact'
  BY DEF TypeOK, InputTypeOK, ControlTypeOK, ReaderTypeOK, TargetTypeOK, SourceTypeOK, Exact, SuccessIsExact, Phases, DETOOLS_ALREADY_DONE
<1> QED
  BY <1>1, <1>2, <1>3, <1>4, <1>5

(* Writing the target (detools.c:528-537).                                 *)
LEMMA ToWriteStep ==
  ASSUME IInv, NEW r, ToWrite(r)
  PROVE  IInv'
<1> USE DEF IInv, ToWrite, Goto, Failed, DETOOLS_IO_FAILED, input_vars, reader_vars, target_vars, source_vars
<1>1. TypeOK'
  <2>1. /\ buf \in Seq(Byte) /\ Len(buf) \in Nat /\ Len(buf) <= chunk_size
        /\ to_offset \in Nat /\ chunk_size \in 0 .. SIZE_MOD - 1
        /\ out \in Seq(Byte)
    BY DEF Phases, TypeOK, TargetTypeOK, SourceTypeOK
  <2>2. out \o buf \in Seq(Byte)
    BY <2>1
  <2>3. to_offset + Len(buf) \in Nat /\ chunk_size - Len(buf) \in 0 .. SIZE_MOD - 1
    BY <2>1, SizeAssumption, ChunkAssumption
  <2>4. TargetTypeOK'
    BY <2>1, <2>2, <2>3 DEF TypeOK, TargetTypeOK
  <2>5. SourceTypeOK'
    <3>1. << >> \in Seq(Byte) /\ Len(<< >>) = 0
      OBVIOUS
    <3> QED
      BY <3>1, SizeAssumption, ChunkAssumption DEF TypeOK, SourceTypeOK
  <2>6. InputTypeOK' /\ ReaderTypeOK'
    BY DEF TypeOK, InputTypeOK, ReaderTypeOK
  <2>7. ControlTypeOK'
    BY DEF TypeOK, ControlTypeOK, States
  <2> QED
    BY <2>4, <2>5, <2>6, <2>7 DEF TypeOK
<1>2. Accounted'
  BY DEF TypeOK, InputTypeOK, ControlTypeOK, ReaderTypeOK, TargetTypeOK, SourceTypeOK, Accounted, Compressed, Phases
<1>3. Phases'
  <2>1. /\ call' = "none" /\ pc' = pc /\ cb_res' = cb_res /\ chunk_left' = chunk_left
        /\ \/ state' = state /\ res' = 0
           \/ state' = "failed" /\ res' <= 0
    OBVIOUS
  <2> QED
    BY <2>1 DEF Phases
<1>4. SectionFits'
  BY DEF TypeOK, InputTypeOK, ControlTypeOK, ReaderTypeOK, TargetTypeOK, SourceTypeOK, SectionFits, DataStates
<1>5. Exact'
  <2>1. /\ state \in DataStates /\ pc # "done" /\ pc' = pc /\ to_size' = to_size
        /\ patch' = patch /\ to_offset' = to_offset + Len(buf)
    BY DEF Phases
  <2>2. state \notin {"init", "failed", "done"} /\ to_size = patch.to_size
        /\ Len(out) = to_offset
    BY <2>1 DEF Exact, DataStates
  <2>3. CASE r = 0
    <3>1. out' = out \o buf /\ state' = state /\ res' = 0
      BY <2>3
    <3>2. Len(out') = to_offset'
      BY <2>1, <2>2, <3>1 DEF TypeOK, TargetTypeOK, SourceTypeOK
    <3> QED
      BY <2>1, <2>2, <3>1, <3>2 DEF Exact, SuccessIsExact, DETOOLS_ALREADY_DONE
  <2>4. CASE r # 0
    <3>1. state' = "failed" /\ res' = -DETOOLS_IO_FAILED
      BY <2>4
    <3> QED
      BY <2>1, <3>1 DEF Exact, SuccessIsExact, DETOOLS_ALREADY_DONE
  <2> QED
    BY <2>3, <2>4
<1> QED
  BY <1>1, <1>2, <1>3, <1>4, <1>5

(* The answer (detools.c:642-668, 829-835).                                *)
LEMMA FinalizeStep ==
  ASSUME IInv, Finalize
  PROVE  IInv'
<1> USE DEF IInv, Finalize, FinalResult, DETOOLS_NOT_ENOUGH_PATCH_DATA, DETOOLS_CORRUPT_PATCH, input_vars, reader_vars, target_vars, source_vars
<1>1. TypeOK'
  BY SizeAssumption, ChunkAssumption DEF TypeOK, InputTypeOK, ControlTypeOK, ReaderTypeOK, TargetTypeOK, SourceTypeOK, States
<1>2. Accounted'
  BY DEF TypeOK, InputTypeOK, ControlTypeOK, ReaderTypeOK, TargetTypeOK, SourceTypeOK, Accounted, Compressed, Phases
<1>3. Phases'
  BY DEF TypeOK, InputTypeOK, ControlTypeOK, ReaderTypeOK, TargetTypeOK, SourceTypeOK, Phases, SizeStates, DataStates
<1>4. SectionFits'
  BY DEF TypeOK, InputTypeOK, ControlTypeOK, ReaderTypeOK, TargetTypeOK, SourceTypeOK, SectionFits, DataStates
<1>5. Exact'
  <2>1. /\ state' = state /\ res' = res /\ to_size' = to_size /\ out' = out
        /\ to_offset' = to_offset /\ patch' = patch
    OBVIOUS
  <2>2. SuccessIsExact'
    <3>1. SUFFICES ASSUME ret' >= 0
                   PROVE  ret' = patch.to_size /\ Len(out) = ret'
      BY <2>1 DEF SuccessIsExact
    <3>2. cb_res \in Int /\ cb_res <= 0 /\ res \in Int /\ res <= 1 /\ res # 0
      BY DEF Phases, TypeOK, InputTypeOK, ControlTypeOK
    <3>3. cb_res = 0 /\ ret' = FinalResult
      BY <3>1, <3>2
    <3>4. res = -DETOOLS_ALREADY_DONE /\ FinalResult = to_size
      BY <3>1, <3>2, <3>3
    <3> QED
      BY <3>3, <3>4 DEF Exact
  <2> QED
    BY <2>1, <2>2 DEF Exact
<1> QED
  BY <1>1, <1>2, <1>3, <1>4, <1>5

(* The states done and failed (detools.c:622-628).                         *)
LEMMA ProcessNothingStep ==
  ASSUME IInv, ProcessNothing
  PROVE  IInv'
<1> USE DEF IInv, ProcessNothing, Failed, Once, DETOOLS_ALREADY_FAILED, input_vars, reader_vars, target_vars, source_vars
<1>1. TypeOK'
  BY SizeAssumption, ChunkAssumption DEF TypeOK, InputTypeOK, ControlTypeOK, ReaderTypeOK, TargetTypeOK, SourceTypeOK, States
<1>2. Accounted'
  BY DEF TypeOK, InputTypeOK, ControlTypeOK, ReaderTypeOK, TargetTypeOK, SourceTypeOK, Accounted, Compressed, Phases
<1>3. Phases'
  <2>1. state' = "failed" /\ call' = "none" /\ res' \in {-11, -24}
    BY DEF DETOOLS_ALREADY_DONE
  <2> QED
    BY <2>1 DEF Phases
<1>4. SectionFits'
  BY DEF TypeOK, InputTypeOK, ControlTypeOK, ReaderTypeOK, TargetTypeOK, SourceTypeOK, SectionFits, DataStates
<1>5. Exact'
  BY DEF TypeOK, InputTypeOK, ControlTypeOK, ReaderTypeOK, TargetTypeOK, SourceTypeOK, Exact, SuccessIsExact, Phases, DETOOLS_ALREADY_DONE
<1> QED
  BY <1>1, <1>2, <1>3, <1>4, <1>5

-----------------------------------------------------------------------------
(* A call of decompress keeps the types and the books of the reader, and   *)
(* answers that more input is needed only when the chunk is used up.       *)
LEMMA DecompressKeeps ==
  ASSUME TypeOK, Accounted, state \notin {"init", "failed"},
         NEW n \in Nat \ {0}, NEW r, NEW got, Decompress(n, r, got),
         UNCHANGED << patch, patch_offset >>
  PROVE  /\ r \in {0, 1, -DETOOLS_HEATSHRINK_HEADER} /\ got \in 0 .. n
         /\ r = 0 => got > 0
         /\ taken + got <= Len(patch.plain)
         /\ usize' \in [state : {"first", "consecutive"}, value : Int,
                        offset : {0, 6, 13, 20, 27}, is_signed : BOOLEAN]
              => ReaderTypeOK'
         /\ state' # "init" /\ (usize'.state = "consecutive" => usize'.offset # 0)
              => Accounted'
         /\ chunk_left = 0 \/ r = 1 => chunk_left' = 0
<1>1. /\ Handed(n, r, got) /\ r \in {0, 1, -DETOOLS_HEATSHRINK_HEADER}
      /\ window_known' \in BOOLEAN /\ (~window_known' => sunk' = 0 /\ taken' = 0)
      /\ sunk' \in 0 .. Len(patch.upto)
      /\ taken + got \in 0 .. Upto(patch, sunk')
  BY DecompressFacts
<1>2. PICK used \in 0 .. chunk_left :
              /\ chunk_left' = chunk_left - used
              /\ Compressed' = Compressed + used
              /\ r = 1 => used = chunk_left
  BY DecompressFacts
<1>3. /\ chunk_left \in Nat /\ chunk_left <= CHUNK_BUF /\ CHUNK_BUF \in Nat
      /\ patch_offset \in Nat /\ patch \in Patches
  BY SizeAssumption, ChunkAssumption, PatchFacts DEF TypeOK, InputTypeOK, ReaderTypeOK, PatchLen
<1>4. chunk_left - used \in 0 .. CHUNK_BUF
  BY <1>3
<1>5. chunk_left' \in 0 .. CHUNK_BUF
  BY <1>2, <1>4
<1>6. chunk_left = 0 \/ r = 1 => chunk_left' = 0
  BY <1>2, <1>3
<1>7. taken' \in 0 .. Upto(patch', sunk')
  BY <1>1 DEF Handed
<1>8. ASSUME state' # "init", usize'.state = "consecutive" => usize'.offset # 0
      PROVE  Accounted'
  <2>1. patch_offset = chunk_left + Compressed + patch.head_len
    BY DEF Accounted
  <2>2. Compressed \in Nat /\ patch.head_len \in Nat
    BY PatchFacts, <1>3 DEF TypeOK, ReaderTypeOK, Compressed
  <2> HIDE DEF Compressed
  <2>3. patch_offset' = chunk_left' + Compressed' + patch'.head_len
    BY <1>2, <1>3, <2>1, <2>2
  <2> QED
    BY <1>1, <1>8, <2>3 DEF Accounted
<1>9. taken + got <= Len(patch.plain)
  <2>1. \A j \in 0 .. Len(patch.upto) : Upto(patch, j) \in 0 .. Len(patch.plain)
    BY <1>3, PatchFacts
  <2>2. PICK j \in 0 .. Len(patch.upto) : taken + got \in 0 .. Upto(patch, j)
    BY <1>1
  <2>3. Upto(patch, j) \in 0 .. Len(patch.plain) /\ Len(patch.plain) \in Nat
    BY <1>3, <2>1, PatchFacts
  <2> QED
    BY <2>2, <2>3
<1> QED
  BY <1>1, <1>5, <1>6, <1>7, <1>8, <1>9 DEF Handed, ReaderTypeOK

(* The header (detools.c:399-446).                                         *)
LEMMA ProcessInitStep ==
  ASSUME IInv, ProcessInit
  PROVE  IInv'
<1> USE DEF IInv, ProcessInit, HeaderShort, HeaderOverflows, Goto, Failed, Once, DETOOLS_SHORT_HEADER, DETOOLS_BAD_PATCH_TYPE, DETOOLS_CORRUPT_PATCH_OVERFLOW, input_vars, reader_vars, source_vars
<1>1. /\ patch \in Patches /\ patch.head_len \in Nat /\ patch.to_size \in Nat
      /\ chunk_left \in Nat /\ chunk_left <= CHUNK_BUF /\ CHUNK_BUF \in Nat
      /\ patch_offset \in Nat
  <2>1. patch \in Patches /\ patch_size \in 0 .. PatchLen(patch) /\ patch_offset \in 0 .. patch_size
    BY DEF TypeOK, InputTypeOK
  <2>2. /\ patch.head_len \in Nat /\ patch.to_size \in Nat
        /\ Len(patch.upto) \in Nat /\ PatchLen(patch) = patch.head_len + 1 + Len(patch.upto)
    BY <2>1, PatchFacts
  <2>3. chunk_left \in 0 .. CHUNK_BUF /\ CHUNK_BUF \in Nat
    BY ChunkAssumption DEF TypeOK, ReaderTypeOK
  <2>4. PatchLen(patch) \in Nat
    BY <2>2
  <2> QED
    BY <2>1, <2>2, <2>3, <2>4
<1>2. \/ /\ state' = "failed" /\ res' \in {-18, -3, -25}
         /\ UNCHANGED << chunk_left, to_size >>
      \/ /\ chunk_left >= patch.head_len
         /\ chunk_left' = chunk_left - patch.head_len
         /\ to_size' = patch.to_size
         /\ res' = 0
         /\ \/ state' = "done" /\ patch.to_size = 0
            \/ state' = "dfpatch_size"
  BY <1>1
<1>3. TypeOK'
  <2>1. chunk_left' \in 0 .. CHUNK_BUF /\ to_size' \in Nat
    BY <1>1, <1>2 DEF TypeOK, ReaderTypeOK, TargetTypeOK
  <2>2. InputTypeOK' /\ SourceTypeOK'
    BY DEF TypeOK, InputTypeOK, SourceTypeOK
  <2>3. ControlTypeOK'
    BY <1>2 DEF TypeOK, ControlTypeOK, States
  <2>4. ReaderTypeOK' /\ TargetTypeOK'
    BY <2>1 DEF TypeOK, ReaderTypeOK, TargetTypeOK
  <2> QED
    BY <2>2, <2>3, <2>4 DEF TypeOK
<1>4. Accounted'
  <2>1. Compressed' = Compressed /\ Compressed = 0
    BY DEF Compressed, Accounted
  <2>2. patch_offset = chunk_left + Compressed
    BY DEF Accounted, TypeOK, InputTypeOK, ReaderTypeOK, Compressed
  <2>3. state' # "failed" => patch_offset' = chunk_left' + Compressed' + patch'.head_len
    BY <1>1, <1>2, <2>1, <2>2
  <2> QED
    BY <1>2, <2>3 DEF Accounted
<1>5. Phases'
  <2>1. /\ call' = "none" /\ pc' = pc /\ cb_res' = cb_res /\ res' \in Int
        /\ res' < 0 => state' = "failed"
        /\ res' <= 1
        /\ pc \in {"process", "finalize"}
        /\ chunk_left = 0 => chunk_left' = 0
    BY <1>1, <1>2
  <2> QED
    BY <2>1 DEF Phases
<1>6. SectionFits'
  BY <1>2 DEF SectionFits, DataStates
<1>7. Exact'
  <2>1. /\ pc' # "done" /\ to_offset = 0 /\ Len(out) = 0 /\ patch' = patch
        /\ to_offset' = to_offset /\ out' = out
    BY DEF Exact
  <2> QED
    BY <1>2, <2>1 DEF Exact, SuccessIsExact, DETOOLS_ALREADY_DONE
<1> QED
  BY <1>3, <1>4, <1>5, <1>6, <1>7

-----------------------------------------------------------------------------
(* Sizes (detools.c:316-372).                                              *)
UsizeType == [state : {"first", "consecutive"}, value : Int,
              offset : {0, 6, 13, 20, 27}, is_signed : BOOLEAN]

LEMMA ExtendedTyped ==
  ASSUME NEW u \in UsizeType, NEW byte \in Byte,
         u.state = "consecutive" => u.offset # 0 /\ ~is_overflow(u.offset)
  PROVE  Extended(u, byte) \in UsizeType /\ Extended(u, byte).offset # 0
<1>1. CASE u.state = "first"
  <2>1. byte % 64 \in Int /\ ((byte \div 64) % 2 = 1) \in BOOLEAN
    BY DEF Byte
  <2> QED
    BY <1>1, <2>1 DEF Extended, UsizeType
<1>2. CASE u.state # "first"
  <2>1. u.offset \in {6, 13, 20} /\ u.value \in Int
    BY <1>2 DEF UsizeType, is_overflow
  <2> DEFINE shift == Shift(u.offset)
             value == u.value + (byte % 128) * shift
  <2>2. shift \in Int
    BY SMT DEF Shift
  <2> HIDE DEF shift
  <2>3. byte % 128 \in Int
    BY DEF Byte
  <2>4. value \in Int
    BY <2>1, <2>2, <2>3
  <2>5. Extended(u, byte) = [u EXCEPT !.value = value, !.offset = @ + 7]
    BY <1>2 DEF Extended, shift
  <2> HIDE DEF value
  <2>6. u.offset + 7 \in {13, 20, 27}
    BY <2>1
  <2>7. u.state \in {"first", "consecutive"} /\ u.is_signed \in BOOLEAN
    BY DEF UsizeType
  <2>8. Extended(u, byte) = [state |-> u.state, value |-> value,
                             offset |-> u.offset + 7, is_signed |-> u.is_signed]
    BY <2>5 DEF UsizeType
  <2> DEFINE offset == u.offset + 7
  <2>9. offset \in {0, 6, 13, 20, 27} /\ offset # 0
    BY <2>6
  <2> HIDE DEF offset
  <2> QED
    BY <2>4, <2>7, <2>8, <2>9 DEF UsizeType, offset
<1> QED
  BY <1>1, <1>2

LEMMA NextByteTyped ==
  ASSUME TypeOK, taken + 1 <= Len(patch.plain)
  PROVE  NextByte \in Byte
<1>1. patch \in Patches /\ taken \in Nat
  BY PatchFacts DEF TypeOK, InputTypeOK, ReaderTypeOK
<1>2. patch.plain \in Seq(Byte)
  BY <1>1, PatchFacts
<1> QED
  BY <1>1, <1>2 DEF NextByte

LEMMA UnpackingFacts ==
  ASSUME IInv, Unpacking
  PROVE  /\ state \in SizeStates /\ state \notin {"init", "failed", "done"}
         /\ pc \in {"process", "finalize"}
         /\ TypeOK /\ Accounted /\ Phases /\ SectionFits /\ Exact
         /\ usize \in UsizeType
         /\ usize.state = "consecutive" => usize.offset # 0
BY DEF IInv, Unpacking, Once, Phases, SizeStates, TypeOK, ReaderTypeOK, UsizeType, Accounted

(* Taking up a byte keeps the size and the reader well typed.              *)
LEMMA UnpackFacts ==
  ASSUME IInv, NEW done \in BOOLEAN, Unpack(done), UNCHANGED << patch, patch_offset >>
  PROVE  /\ ReaderTypeOK' /\ (state' # "init" => Accounted')
         /\ \E v \in Int : usize'.value = v
         /\ chunk_left = 0 => chunk_left' = 0
<1>1. /\ state \in SizeStates /\ state \notin {"init", "failed"}
      /\ TypeOK /\ Accounted /\ usize \in UsizeType
      /\ usize.state = "consecutive" => usize.offset # 0
  BY UnpackingFacts DEF Unpack
<1> DEFINE u == Extended(usize, NextByte)
           w == [u EXCEPT !.state = "first", !.value = Signed(u)]
<1>2. /\ Decompress(1, 0, 1)
      /\ ~(usize.state = "consecutive" /\ is_overflow(usize.offset))
      /\ usize' = IF done THEN w ELSE u
  BY DEF Unpack
<1>3. /\ taken + 1 <= Len(patch.plain)
      /\ usize' \in UsizeType => ReaderTypeOK'
      /\ state' # "init" /\ (usize'.state = "consecutive" => usize'.offset # 0)
              => Accounted'
      /\ chunk_left = 0 => chunk_left' = 0
  <2>1. 1 \in Nat \ {0}
    OBVIOUS
  <2> QED
    BY <1>1, <1>2, <2>1, DecompressKeeps DEF UsizeType
<1>4. NextByte \in Byte
  BY <1>1, <1>3, NextByteTyped
<1>5. u \in UsizeType /\ u.offset # 0
  BY <1>1, <1>2, <1>4, ExtendedTyped
<1> HIDE DEF u
<1>6. Signed(u) \in Int
  BY <1>5 DEF Signed, UsizeType
<1>7. w \in UsizeType /\ w.offset # 0
  BY <1>5, <1>6 DEF UsizeType
<1> HIDE DEF w
<1>8. usize' \in UsizeType /\ usize'.offset # 0
  BY <1>2, <1>5, <1>7
<1>9. \E v \in Int : usize'.value = v
  <2>1. u.value \in Int /\ w.value \in Int
    BY <1>5, <1>7 DEF UsizeType
  <2> QED
    BY <1>2, <2>1
<1> QED
  BY <1>3, <1>8, <1>9

(* What a step that unpacks a size does to the rest: it leaves the target  *)
(* alone and stays in the loop it is in.                                   *)
LEMMA HandlerKeeps ==
  ASSUME IInv, pc \in {"process", "finalize"}, state \in SizeStates,
         UNCHANGED << input_vars, pc, to_size, to_offset, out >>,
         chunk_left = 0 => chunk_left' = 0,
         NEW s \in States \ {"init", "done"}, state' = s,
         NEW e \in Int, res' = e, e <= 1, e # -DETOOLS_ALREADY_DONE,
         e < 0 => s = "failed",
         NEW c, call' = c, \/ c = "none"
                           \/ c = "unpack" /\ s \in SizeStates
                           \/ c = "from_seek" /\ s = "adjustment"
  PROVE  InputTypeOK' /\ ControlTypeOK' /\ Phases' /\ Exact'
<1> USE DEF IInv, input_vars
<1>1. InputTypeOK'
  BY DEF TypeOK, InputTypeOK
<1>2. ControlTypeOK'
  <2>1. c \in {"none", "unpack", "from_read", "from_seek", "to_write"}
        /\ s \in States /\ pc \in {"read", "process", "finalize", "done"}
    OBVIOUS
  <2> QED
    BY <2>1 DEF ControlTypeOK
<1>3. Phases'
  <2>1. pc = "finalize" => chunk_left' = 0
    BY DEF Phases
  <2>2. cb_res <= 0 /\ cb_res' = cb_res /\ pc' = pc
    BY DEF Phases
  <2> QED
    BY <2>1, <2>2 DEF Phases
<1>4. Exact'
  <2>1. state \notin {"init", "failed", "done"}
    BY DEF SizeStates
  <2>2. res' # -DETOOLS_ALREADY_DONE /\ pc' # "done" /\ patch' = patch
    OBVIOUS
  <2> QED
    BY <2>1, <2>2 DEF Exact, SuccessIsExact
<1> QED
  BY <1>1, <1>2, <1>3, <1>4

(* A size that cannot be unpacked, or not yet.                             *)
LEMMA UnpackStopsStep ==
  ASSUME IInv, UnpackStops
  PROVE  IInv'
<1>1. PICK r \in {1, -DETOOLS_HEATSHRINK_HEADER} :
        /\ Decompress(1, r, 0)
        /\ IF r = 1 THEN Stalled ELSE Failed(-r)
  BY DEF UnpackStops
<1>2. /\ state \in SizeStates /\ state \notin {"init", "failed"}
      /\ pc \in {"process", "finalize"}
      /\ TypeOK /\ Accounted /\ SectionFits /\ usize \in UsizeType
      /\ usize.state = "consecutive" => usize.offset # 0
  BY UnpackingFacts DEF UnpackStops
<1>3. UNCHANGED << input_vars, pc, usize, target_vars, source_vars >>
  BY DEF UnpackStops
<1>4. UNCHANGED << patch, patch_offset >>
  BY <1>3 DEF input_vars
<1>5. /\ usize' \in UsizeType => ReaderTypeOK'
      /\ state' # "init" /\ (usize'.state = "consecutive" => usize'.offset # 0)
              => Accounted'
      /\ chunk_left = 0 => chunk_left' = 0
  <2>1. 1 \in Nat \ {0}
    OBVIOUS
  <2> QED
    BY <1>1, <1>2, <1>4, <2>1, DecompressKeeps DEF UsizeType
<1>6. UNCHANGED << input_vars, pc, to_size, to_offset, out >>
  BY <1>3 DEF target_vars
<1>7. call' = "none"
  BY <1>1 DEF Stalled, Failed
<1>8. ASSUME r = 1
      PROVE  InputTypeOK' /\ ControlTypeOK' /\ Phases' /\ Exact'
  <2>1. state' = state /\ res' = 1
    BY <1>1, <1>8 DEF Stalled
  <2>2. state \in States \ {"init", "done"} /\ 1 # -DETOOLS_ALREADY_DONE
    BY <1>2 DEF States, SizeStates, DETOOLS_ALREADY_DONE
  <2>3. InputTypeOK' /\ ControlTypeOK' /\ Phases' /\ Exact'
    BY <1>2, <1>5, <1>6, <1>7, <2>1, <2>2, HandlerKeeps
  <2> QED
    BY <2>3
<1>9. ASSUME r # 1
      PROVE  InputTypeOK' /\ ControlTypeOK' /\ Phases' /\ Exact'
  <2>1. state' = "failed" /\ res' = -DETOOLS_HEATSHRINK_HEADER
    BY <1>1, <1>9 DEF Failed, DETOOLS_HEATSHRINK_HEADER
  <2>2. /\ "failed" \in States \ {"init", "done"}
        /\ -DETOOLS_HEATSHRINK_HEADER # -DETOOLS_ALREADY_DONE
        /\ -DETOOLS_HEATSHRINK_HEADER \in Int /\ -DETOOLS_HEATSHRINK_HEADER <= 1
    BY DEF States, DETOOLS_ALREADY_DONE, DETOOLS_HEATSHRINK_HEADER
  <2>3. InputTypeOK' /\ ControlTypeOK' /\ Phases' /\ Exact'
    BY <1>2, <1>5, <1>6, <1>7, <2>1, <2>2, HandlerKeeps
  <2> QED
    BY <2>3
<1>10. state' # "init" /\ (state' = "failed" \/ state' = state)
  BY <1>1, <1>2 DEF Stalled, Failed
<1>11. ReaderTypeOK' /\ Accounted'
  BY <1>2, <1>3, <1>5, <1>10
<1>12. SourceTypeOK'
  BY <1>2, <1>3 DEF TypeOK, SourceTypeOK, source_vars
<1>13. TargetTypeOK' /\ SectionFits'
  BY <1>2, <1>3, <1>10 DEF TypeOK, TargetTypeOK, SectionFits, target_vars, DataStates
<1> QED
  BY <1>8, <1>9, <1>11, <1>12, <1>13 DEF IInv, TypeOK

(* A size of too many bytes.                                               *)
LEMMA UnpackOverflowsStep ==
  ASSUME IInv, UnpackOverflows
  PROVE  IInv'
<1>1. Decompress(1, 0, 1) /\ Failed(DETOOLS_CORRUPT_PATCH_OVERFLOW)
  BY DEF UnpackOverflows
<1>2. /\ state \in SizeStates /\ state \notin {"init", "failed"}
      /\ pc \in {"process", "finalize"}
      /\ TypeOK /\ Accounted /\ SectionFits /\ usize \in UsizeType
      /\ usize.state = "consecutive" => usize.offset # 0
  BY UnpackingFacts DEF UnpackOverflows
<1>3. UNCHANGED << input_vars, pc, usize, target_vars, source_vars >>
  BY DEF UnpackOverflows
<1>4. UNCHANGED << patch, patch_offset >>
  BY <1>3 DEF input_vars
<1>5. /\ usize' \in UsizeType => ReaderTypeOK'
      /\ state' # "init" /\ (usize'.state = "consecutive" => usize'.offset # 0)
              => Accounted'
      /\ chunk_left = 0 => chunk_left' = 0
  <2>1. 1 \in Nat \ {0}
    OBVIOUS
  <2> QED
    BY <1>1, <1>2, <1>4, <2>1, DecompressKeeps DEF UsizeType
<1>6. state' = "failed" /\ res' = -DETOOLS_CORRUPT_PATCH_OVERFLOW /\ call' = "none"
  BY <1>1 DEF Failed
<1>7. InputTypeOK' /\ ControlTypeOK' /\ Phases' /\ Exact'
  <2>1. UNCHANGED << input_vars, pc, to_size, to_offset, out >>
    BY <1>3 DEF target_vars
  <2>2. /\ "failed" \in States \ {"init", "done"}
        /\ -DETOOLS_CORRUPT_PATCH_OVERFLOW # -DETOOLS_ALREADY_DONE
        /\ -DETOOLS_CORRUPT_PATCH_OVERFLOW \in Int /\ -DETOOLS_CORRUPT_PATCH_OVERFLOW <= 1
    BY DEF States, DETOOLS_ALREADY_DONE, DETOOLS_CORRUPT_PATCH_OVERFLOW
  <2> QED
    BY <1>2, <1>5, <1>6, <2>1, <2>2, HandlerKeeps
<1>8. ReaderTypeOK' /\ Accounted'
  BY <1>2, <1>3, <1>5, <1>6
<1>9. SourceTypeOK'
  BY <1>2, <1>3 DEF TypeOK, SourceTypeOK, source_vars
<1>10. TargetTypeOK' /\ SectionFits'
  BY <1>2, <1>3, <1>6 DEF TypeOK, TargetTypeOK, SectionFits, target_vars, DataStates
<1> QED
  BY <1>7, <1>8, <1>9, <1>10 DEF IInv, TypeOK

(* One more byte of a size.                                                *)
LEMMA UnpackContinuesStep ==
  ASSUME IInv, UnpackContinues
  PROVE  IInv'
<1>1. /\ Unpack(FALSE) /\ call' = "unpack"
      /\ UNCHANGED << input_vars, pc, state, res, target_vars, source_vars >>
  BY DEF UnpackContinues
<1>2. /\ state \in SizeStates /\ state \notin {"init", "failed"}
      /\ pc \in {"process", "finalize"}
      /\ TypeOK /\ Accounted /\ Phases /\ SectionFits /\ Exact
  BY <1>1, UnpackingFacts DEF Unpack
<1>3. UNCHANGED << patch, patch_offset >>
  BY <1>1 DEF input_vars
<1>4. ReaderTypeOK' /\ Accounted' /\ (chunk_left = 0 => chunk_left' = 0)
  <2>1. FALSE \in BOOLEAN
    OBVIOUS
  <2> QED
    BY <1>1, <1>2, <1>3, <2>1, UnpackFacts
<1>5. InputTypeOK' /\ ControlTypeOK' /\ Phases' /\ Exact'
  <2>1. UNCHANGED << input_vars, pc, to_size, to_offset, out >>
    BY <1>1 DEF target_vars
  <2>2. state \in States \ {"init", "done"}
    BY <1>2 DEF States, SizeStates
  <2>3. /\ res \in Int /\ res <= 1 /\ res # -DETOOLS_ALREADY_DONE
        /\ ~(res < 0) /\ res' = res /\ state' = state
    BY <1>1, <1>2 DEF TypeOK, ControlTypeOK, Phases, DETOOLS_ALREADY_DONE
  <2> QED
    BY <1>1, <1>2, <1>4, <2>1, <2>2, <2>3, HandlerKeeps
<1>6. SourceTypeOK'
  BY <1>1, <1>2 DEF TypeOK, SourceTypeOK, source_vars
<1>7. TargetTypeOK' /\ SectionFits'
  BY <1>1, <1>2 DEF TypeOK, TargetTypeOK, SectionFits, target_vars, DataStates
<1> QED
  BY <1>4, <1>5, <1>6, <1>7 DEF IInv, TypeOK

(* The size of the data format part.                                       *)
LEMMA ProcessDfpatchSizeStep ==
  ASSUME IInv, ProcessDfpatchSize
  PROVE  IInv'
<1>1. /\ Unpack(TRUE)
      /\ UNCHANGED << input_vars, pc, target_vars, source_vars >>
  BY DEF ProcessDfpatchSize
<1>2. /\ state \in SizeStates /\ state \notin {"init", "failed"}
      /\ pc \in {"process", "finalize"}
      /\ TypeOK /\ Accounted /\ Phases /\ SectionFits /\ Exact
  BY <1>1, UnpackingFacts DEF Unpack
<1>3. \/ state' = "failed" /\ res' = -DETOOLS_NOT_IMPLEMENTED /\ call' = "none"
      \/ state' = "diff_size" /\ res' = 0 /\ call' = "none"
  BY DEF ProcessDfpatchSize, Goto, Failed
<1>4. ReaderTypeOK' /\ Accounted' /\ (chunk_left = 0 => chunk_left' = 0)
  <2>1. TRUE \in BOOLEAN /\ UNCHANGED << patch, patch_offset >>
    BY <1>1 DEF input_vars
  <2>2. state' # "init"
    BY <1>3
  <2> QED
    BY <1>1, <1>2, <2>1, <2>2, UnpackFacts
<1>5. InputTypeOK' /\ ControlTypeOK' /\ Phases' /\ Exact'
  <2>1. UNCHANGED << input_vars, pc, to_size, to_offset, out >>
    BY <1>1 DEF target_vars
  <2>2. /\ {"failed", "diff_size"} \subseteq States \ {"init", "done"}
        /\ \A e \in {0, -DETOOLS_NOT_IMPLEMENTED} :
             e \in Int /\ e <= 1 /\ e # -DETOOLS_ALREADY_DONE
    BY DEF States, DETOOLS_ALREADY_DONE, DETOOLS_NOT_IMPLEMENTED
  <2> QED
    BY <1>2, <1>3, <1>4, <2>1, <2>2, HandlerKeeps
<1>6. SourceTypeOK'
  BY <1>1, <1>2 DEF TypeOK, SourceTypeOK, source_vars
<1>7. TargetTypeOK' /\ SectionFits'
  BY <1>1, <1>2, <1>3 DEF TypeOK, TargetTypeOK, SectionFits, target_vars, DataStates
<1> QED
  BY <1>4, <1>5, <1>6, <1>7 DEF IInv, TypeOK

(* The sum checked in the arithmetic of size_t is that of the section.     *)
LEMMA WrappedSum ==
  ASSUME NEW p \in Nat \ {0}, NEW a \in Int, NEW v \in Int
  PROVE  (a + (v % p)) % p = (a + v) % p
<1>1. v % p \in 0 .. p - 1 /\ v \div p \in Int /\ v = p * (v \div p) + (v % p)
  BY DivMod
<1> DEFINE m == v % p
           k == v \div p
           s == a + m
<1> HIDE DEF m, k
<1>2. m \in Int /\ k \in Int /\ v = p * k + m
  BY <1>1 DEF m, k
<1>3. s \in Int
  BY <1>2
<1>4. s % p \in 0 .. p - 1 /\ s \div p \in Int /\ s = p * (s \div p) + (s % p)
  BY <1>3, DivMod
<1> DEFINE r == s % p
           q == s \div p
<1> HIDE DEF r, q
<1>5. r \in 0 .. p - 1 /\ q \in Int /\ s = p * q + r
  BY <1>4 DEF r, q
<1>6. a + v = p * (q + k) + r
  BY <1>2, <1>5, Z3
<1>7. (p * (q + k) + r) % p = r
  BY <1>2, <1>5, RemainderUnique
<1> QED
  BY <1>6, <1>7 DEF r, s, m

(* The size of a section (detools.c:468-487, 540-553).                     *)
LEMMA ProcessSizeStep ==
  ASSUME IInv, ProcessSize
  PROVE  IInv'
<1>1. /\ Unpack(TRUE)
      /\ UNCHANGED << input_vars, pc, to_size, to_offset, out, source_vars >>
  BY DEF ProcessSize
<1>2. /\ state \in SizeStates /\ state \notin {"init", "failed"}
      /\ pc \in {"process", "finalize"}
      /\ TypeOK /\ Accounted /\ Phases /\ SectionFits /\ Exact
  BY <1>1, UnpackingFacts DEF Unpack
<1>3. \/ /\ state' = "failed" /\ res' = -DETOOLS_CORRUPT_PATCH /\ call' = "none"
         /\ chunk_size' = chunk_size
      \/ /\ \/ state' = "diff_data"
            \/ state' = "extra_data"
         /\ res' = 0 /\ call' = "none"
         /\ SizeFits(usize'.value) /\ chunk_size' = usize'.value % SIZE_MOD
  BY DEF ProcessSize, Goto, Failed
<1>4. UNCHANGED << patch, patch_offset >> /\ state' # "init"
  BY <1>1, <1>3 DEF input_vars
<1>5. /\ ReaderTypeOK' /\ Accounted' /\ (chunk_left = 0 => chunk_left' = 0)
      /\ \E v \in Int : usize'.value = v
  <2>1. TRUE \in BOOLEAN
    OBVIOUS
  <2> QED
    BY <1>1, <1>2, <1>4, <2>1, UnpackFacts
<1>6. InputTypeOK' /\ ControlTypeOK' /\ Phases' /\ Exact'
  <2>1. /\ {"failed", "diff_data", "extra_data"} \subseteq States \ {"init", "done"}
        /\ \A e \in {0, -DETOOLS_CORRUPT_PATCH} :
             e \in Int /\ e <= 1 /\ e # -DETOOLS_ALREADY_DONE
    BY DEF States, DETOOLS_ALREADY_DONE, DETOOLS_CORRUPT_PATCH
  <2> QED
    BY <1>1, <1>2, <1>3, <1>5, <2>1, HandlerKeeps
<1>7. SourceTypeOK'
  BY <1>1, <1>2 DEF TypeOK, SourceTypeOK, source_vars
<1>8. PICK v \in Int : usize'.value = v
  BY <1>5
<1>9. v % SIZE_MOD \in 0 .. SIZE_MOD - 1 /\ SIZE_MOD \in Nat \ {0}
  BY SizeAssumption, ChunkAssumption, DivMod
<1>10. TargetTypeOK'
  <2>1. chunk_size' = chunk_size \/ chunk_size' = v % SIZE_MOD
    BY <1>3, <1>8
  <2>2. chunk_size' \in 0 .. SIZE_MOD - 1
    BY <1>2, <1>9, <2>1 DEF TypeOK, TargetTypeOK
  <2> QED
    BY <1>1, <1>2, <2>2 DEF TypeOK, TargetTypeOK
<1>11. SectionFits'
  <2>1. ASSUME state' \in DataStates
        PROVE  (to_offset' + chunk_size') % SIZE_MOD <= to_size'
    <3>1. (to_offset + v) % SIZE_MOD <= to_size /\ chunk_size' = v % SIZE_MOD
      BY <1>3, <1>8, <2>1 DEF SizeFits, DataStates
    <3>2. to_offset \in Int
      BY <1>2 DEF TypeOK, TargetTypeOK
    <3>3. (to_offset + (v % SIZE_MOD)) % SIZE_MOD = (to_offset + v) % SIZE_MOD
      BY <1>9, <3>2, WrappedSum
    <3> QED
      BY <1>1, <3>1, <3>3
  <2> QED
    BY <2>1 DEF SectionFits
<1> QED
  BY <1>5, <1>6, <1>7, <1>10, <1>11 DEF IInv, TypeOK

(* The seek between two rounds (detools.c:560-570).                        *)
LEMMA ProcessAdjustmentStep ==
  ASSUME IInv, ProcessAdjustment
  PROVE  IInv'
<1>1. /\ Unpack(TRUE) /\ state = "adjustment" /\ call' = "from_seek"
      /\ seek' = usize'.value
      /\ UNCHANGED << input_vars, pc, state, res, target_vars, from_offset,
                      from_pos, buf >>
  BY DEF ProcessAdjustment
<1>2. /\ state \in SizeStates /\ state \notin {"init", "failed"}
      /\ pc \in {"process", "finalize"}
      /\ TypeOK /\ Accounted /\ Phases /\ SectionFits /\ Exact
  BY <1>1, UnpackingFacts DEF Unpack
<1>3. UNCHANGED << patch, patch_offset >> /\ state' # "init"
  BY <1>1 DEF input_vars
<1>4. /\ ReaderTypeOK' /\ Accounted' /\ (chunk_left = 0 => chunk_left' = 0)
      /\ \E v \in Int : usize'.value = v
  <2>1. TRUE \in BOOLEAN
    OBVIOUS
  <2> QED
    BY <1>1, <1>2, <1>3, <2>1, UnpackFacts
<1>5. InputTypeOK' /\ ControlTypeOK' /\ Phases' /\ Exact'
  <2>1. UNCHANGED << input_vars, pc, to_size, to_offset, out >>
    BY <1>1 DEF target_vars
  <2>2. state \in States \ {"init", "done"}
    BY <1>1 DEF States
  <2>3. /\ res \in Int /\ res <= 1 /\ res # -DETOOLS_ALREADY_DONE
        /\ ~(res < 0) /\ res' = res /\ state' = state
    BY <1>1, <1>2 DEF TypeOK, ControlTypeOK, Phases, DETOOLS_ALREADY_DONE
  <2> QED
    BY <1>1, <1>2, <1>4, <2>1, <2>2, <2>3, HandlerKeeps
<1>6. SourceTypeOK'
  BY <1>1, <1>2, <1>4 DEF TypeOK, SourceTypeOK
<1>7. TargetTypeOK' /\ SectionFits'
  BY <1>1, <1>2 DEF TypeOK, TargetTypeOK, SectionFits, target_vars, DataStates
<1> QED
  BY <1>4, <1>5, <1>6, <1>7 DEF IInv, TypeOK

(* Decompressing a part of a section (detools.c:506-513).                  *)
LEMMA DecompressDataStep ==
  ASSUME IInv, DecompressData
  PROVE  IInv'
<1> DEFINE n == IF chunk_size < TO_BUF THEN chunk_size ELSE TO_BUF
<1>1. PICK r \in {0, 1}, got \in 0 .. TO_BUF :
        /\ Decompress(n, r, got)
        /\ IF r = 1
           THEN Stalled /\ UNCHANGED buf
           ELSE /\ buf' = SubSeq(patch.plain, taken + 1, taken + got)
                /\ call' = IF state = "diff_data" THEN "from_read" ELSE "to_write"
                /\ UNCHANGED << state, res >>
  BY DEF DecompressData
<1>2. /\ state \in DataStates /\ state \notin {"init", "failed", "done"}
      /\ pc \in {"process", "finalize"} /\ chunk_size > 0 /\ state' = state
      /\ res' = res \/ res' = 1
      /\ UNCHANGED << input_vars, pc, usize, target_vars, seek, from_offset,
                      from_pos >>
      /\ TypeOK /\ Accounted /\ Phases /\ SectionFits /\ Exact
  BY <1>1 DEF DecompressData, Once, DataStates, IInv, Stalled
<1>3. /\ n \in Nat \ {0} /\ n <= chunk_size /\ n <= TO_BUF
      /\ usize \in UsizeType
      /\ usize.state = "consecutive" => usize.offset # 0
  BY <1>2, SizeAssumption, ChunkAssumption DEF TypeOK, TargetTypeOK, ReaderTypeOK, UsizeType, Accounted
<1> HIDE DEF n
<1>4. UNCHANGED << patch, patch_offset >>
  BY <1>2 DEF input_vars
<1>5. /\ got \in 0 .. n /\ taken + got <= Len(patch.plain) /\ (r = 0 => got > 0)
      /\ usize' \in UsizeType => ReaderTypeOK'
      /\ state' # "init" /\ (usize'.state = "consecutive" => usize'.offset # 0)
              => Accounted'
      /\ chunk_left = 0 => chunk_left' = 0
  BY <1>1, <1>2, <1>3, <1>4, DecompressKeeps DEF UsizeType
<1>6. ReaderTypeOK' /\ Accounted'
  BY <1>2, <1>3, <1>5
<1>7. /\ InputTypeOK' /\ TargetTypeOK' /\ SectionFits'
  BY <1>2 DEF TypeOK, InputTypeOK, TargetTypeOK, SectionFits, input_vars, target_vars
<1>8. /\ buf' \in Seq(Byte) /\ Len(buf') <= TO_BUF
      /\ r = 0 => 0 < Len(buf') /\ Len(buf') <= chunk_size
  <2>1. patch.plain \in Seq(Byte) /\ taken \in Nat /\ Len(patch.plain) \in Nat
        /\ chunk_size \in Int /\ TO_BUF \in Nat
    BY <1>2, SizeAssumption, ChunkAssumption, PatchFacts DEF TypeOK, InputTypeOK, ReaderTypeOK, TargetTypeOK
  <2>2. CASE r = 1
    BY <1>1, <1>2, <2>2 DEF TypeOK, SourceTypeOK
  <2>3. CASE r = 0
    <3> DEFINE s == SubSeq(patch.plain, taken + 1, taken + got)
    <3>1. s \in Seq(Byte) /\ Len(s) = got
      BY <1>3, <1>5, <2>1
    <3>2. buf' = s
      BY <1>1, <2>3
    <3> HIDE DEF s
    <3>3. 0 < got /\ got <= TO_BUF /\ got <= chunk_size
      BY <1>3, <1>5, <2>1, <2>3
    <3> QED
      BY <3>1, <3>2, <3>3
  <2> QED
    BY <2>2, <2>3
<1>9. SourceTypeOK'
  BY <1>2, <1>8 DEF TypeOK, SourceTypeOK
<1>10. \/ r = 1 /\ call' = "none"
       \/ r = 0 /\ call' = "from_read" /\ state = "diff_data" /\ res' = res
       \/ r = 0 /\ call' = "to_write" /\ state # "diff_data" /\ res' = res
  BY <1>1, <1>2 DEF Stalled
<1>11. ControlTypeOK'
  BY <1>2, <1>10 DEF TypeOK, ControlTypeOK
<1>12. Phases'
  <2>1. chunk_size' = chunk_size /\ cb_res' = cb_res /\ pc' = pc
    BY <1>2 DEF target_vars, input_vars
  <2>2. /\ ~(res < 0) /\ res <= 1 /\ cb_res <= 0
        /\ pc = "finalize" => chunk_left' = 0
    BY <1>2, <1>5 DEF Phases
  <2>3. res' <= 1 /\ ~(res' < 0)
    BY <1>2, <2>2
  <2> QED
    BY <1>2, <1>8, <1>10, <2>1, <2>2, <2>3 DEF Phases
<1>13. Exact'
  <2>1. ~(res < 0) /\ pc' # "done"
    BY <1>2 DEF Phases, input_vars
  <2>2. res' # -DETOOLS_ALREADY_DONE
    BY <1>2, <2>1 DEF DETOOLS_ALREADY_DONE, TypeOK, ControlTypeOK
  <2> QED
    BY <1>2, <2>1, <2>2 DEF Exact, SuccessIsExact, input_vars, target_vars
<1> QED
  BY <1>6, <1>7, <1>9, <1>11, <1>12, <1>13 DEF IInv, TypeOK

-----------------------------------------------------------------------------
LEMMA InitEstablishes ==
  ASSUME Init
  PROVE  IInv
<1> USE DEF Init
<1>1. patch \in Patches /\ PatchLen(patch) \in Nat /\ Len(patch.upto) \in Nat
      /\ Upto(patch, 0) = 0
  BY PatchFacts DEF Upto
<1>2. TypeOK
  <2>1. InputTypeOK
    BY <1>1 DEF InputTypeOK
  <2>2. ControlTypeOK
    BY DEF ControlTypeOK, States
  <2>3. ReaderTypeOK
    <3>1. window_known \in BOOLEAN
      BY Zenon
    <3>2. usize \in [state : {"first", "consecutive"}, value : Int,
                    offset : {0, 6, 13, 20, 27}, is_signed : BOOLEAN]
      <4>1. 0 \in Int /\ FALSE \in BOOLEAN
        OBVIOUS
      <4> QED
        BY <4>1, Zenon
    <3>3. chunk_left \in 0 .. CHUNK_BUF /\ sunk \in 0 .. Len(patch.upto)
          /\ taken \in 0 .. Upto(patch, sunk)
      BY <1>1, SizeAssumption, ChunkAssumption
    <3> QED
      BY <3>1, <3>2, <3>3 DEF ReaderTypeOK
  <2>4. TargetTypeOK
    BY SizeAssumption, ChunkAssumption DEF TargetTypeOK
  <2>5. SourceTypeOK
    BY SizeAssumption, ChunkAssumption DEF SourceTypeOK
  <2> QED
    BY <2>1, <2>2, <2>3, <2>4, <2>5 DEF TypeOK
<1>3. Accounted
  BY DEF Accounted, Compressed
<1>4. Phases
  BY DEF Phases
<1>5. SectionFits
  BY DEF SectionFits, DataStates
<1>6. Exact
  BY DEF Exact, SuccessIsExact, DETOOLS_ALREADY_DONE
<1> QED
  BY <1>2, <1>3, <1>4, <1>5, <1>6 DEF IInv

LEMMA StutterStep ==
  ASSUME IInv, UNCHANGED vars
  PROVE  IInv'
<1> USE DEF IInv, vars, input_vars, reader_vars, target_vars, source_vars
<1>1. TypeOK'
  BY DEF TypeOK, InputTypeOK, ControlTypeOK, ReaderTypeOK, TargetTypeOK, SourceTypeOK
<1>2. Accounted'
  BY DEF Accounted, Compressed
<1>3. Phases' /\ SectionFits'
  BY DEF Phases, SectionFits
<1>4. Exact'
  BY DEF Exact, SuccessIsExact
<1> QED
  BY <1>1, <1>2, <1>3, <1>4

(* All that the engine does between two callbacks.                         *)
LEMMA EngineStep ==
  ASSUME IInv, Engine
  PROVE  IInv'
BY ProcessEndStep, FinalizeStartStep, FinalizeStep, ProcessInitStep,
   UnpackStopsStep, UnpackOverflowsStep, UnpackContinuesStep,
   ProcessDfpatchSizeStep, ProcessSizeStep, ProcessAdjustmentStep,
   SectionEndStep, DecompressDataStep, ProcessNothingStep DEF Engine

(* The inductive invariant holds throughout.                               *)
LEMMA Invariance == Spec => []IInv
<1>1. Init => IInv
  BY InitEstablishes
<1>2. IInv /\ [Next]_vars => IInv'
  <2> SUFFICES ASSUME IInv, [Next]_vars
               PROVE  IInv'
    OBVIOUS
  <2>1. ASSUME Engine PROVE IInv'
    BY <2>1, EngineStep
  <2>2. ASSUME NEW r \in {0, -1}, Callback(r) PROVE IInv'
    BY <2>2, PatchReadStep, FromReadStep, FromSeekStep, ToWriteStep DEF Callback
  <2>3. CASE UNCHANGED vars
    BY <2>3, StutterStep
  <2> QED
    BY <2>1, <2>2, <2>3 DEF Next
<1> QED
  BY <1>1, <1>2, PTL DEF Spec

(***************************************************************************)
(* The state of the engine is well typed: offsets stay inside of patch,    *)
(* chunk and stream, a section's rest does not run below zero, a buffer    *)
(* never overruns (the sizes of detools.c:500-537 and the shift of a size  *)
(* that stays below the width, detools.c:344-360).                         *)
(***************************************************************************)
THEOREM TypeCorrect == Spec => []TypeOK
<1>1. IInv => TypeOK
  BY DEF IInv
<1> QED
  BY <1>1, Invariance, PTL

(***************************************************************************)
(* An update reported as done wrote exactly the bytes the header announced *)
(* (detools.c:642-668, 829-835).                                           *)
(***************************************************************************)
THEOREM ExactSuccess == Spec => []SuccessIsExact
<1>1. IInv => SuccessIsExact
  BY DEF IInv, Exact
<1> QED
  BY <1>1, Invariance, PTL

(***************************************************************************)
(* A section never reaches beyond the target, in the arithmetic in which   *)
(* common_process_size checked it (detools.c:374-393).                     *)
(***************************************************************************)
THEOREM SectionsFit == Spec => []SectionFits
<1>1. IInv => SectionFits
  BY DEF IInv
<1> QED
  BY <1>1, Invariance, PTL

-----------------------------------------------------------------------------
(***************************************************************************)
(* What those who drive the engine rely on.  A chunk is processed only     *)
(* while no error is known; a failure is known to callbacks_process as     *)
(* soon as it is back in its loop.                                         *)
(***************************************************************************)
Processing == pc = "process" => cb_res = 0

FailureKnown ==
  /\ pc = "read" /\ state = "failed" => cb_res < 0
  /\ pc = "process" /\ state = "failed" => res < 0

(* The engine goes into its last state once more when it is done, which    *)
(* takes it to "failed" with ALREADY_DONE: all writes have gone well.      *)
GoneWell == state # "failed" \/ res = -DETOOLS_ALREADY_DONE

(* Between two callbacks the engine moves none of its cursors, and is as   *)
(* well off as it was (detools.c:588-640, 759-836).                        *)
Quiet ==
  /\ UNCHANGED << patch, patch_size, patch_offset, from_offset, to_offset, out >>
  /\ state' # "failed" => state # "failed"
  /\ GoneWell' => GoneWell
  /\ Processing' /\ FailureKnown'
  /\ state' # "failed" /\ cb_res' = 0 => cb_res = 0
  /\ pc' \in {"read", "process", "finalize", "done"}

LEMMA LoopsQuiet ==
  ASSUME IInv, Processing, FailureKnown, ProcessEnd \/ FinalizeStart \/ Finalize
  PROVE  Quiet
<1> USE DEF Quiet, GoneWell, Processing, FailureKnown, input_vars, source_vars,
            target_vars, DETOOLS_ALREADY_DONE
<1>1. ASSUME ProcessEnd
      PROVE  Quiet
  BY <1>1 DEF ProcessEnd
<1>2. ASSUME FinalizeStart
      PROVE  Quiet
  BY <1>2 DEF FinalizeStart
<1>3. ASSUME Finalize
      PROVE  Quiet
  BY <1>3 DEF Finalize
<1> QED
  BY <1>1, <1>2, <1>3

LEMMA HandlersQuiet ==
  ASSUME IInv, Processing, FailureKnown, Engine,
         ~ProcessEnd, ~FinalizeStart, ~Finalize
  PROVE  Quiet /\ pc' = pc /\ pc # "done"
<1> USE DEF Quiet, GoneWell, Processing, FailureKnown, input_vars, source_vars,
            target_vars, DETOOLS_ALREADY_DONE, Failed, Stalled, Goto
<1>0. Unpacking => /\ pc \in {"process", "finalize"} /\ state \in SizeStates
                   /\ state \notin {"init", "failed"}
  BY UnpackingFacts
<1>1. ASSUME ProcessInit
      PROVE  Quiet /\ pc' = pc /\ pc # "done"
  BY <1>1 DEF ProcessInit, Once, DETOOLS_SHORT_HEADER, DETOOLS_BAD_PATCH_TYPE,
              DETOOLS_CORRUPT_PATCH_OVERFLOW
<1>2. ASSUME UnpackStops \/ UnpackOverflows \/ UnpackContinues
      PROVE  Quiet /\ pc' = pc /\ pc # "done"
  <2>1. Unpacking
    BY <1>2 DEF UnpackStops, UnpackOverflows, UnpackContinues, Unpack
  <2> QED
    <3>1. pc' = pc /\ UNCHANGED << input_vars, from_offset, to_offset, out >>
      BY <1>2 DEF UnpackStops, UnpackOverflows, UnpackContinues
    <3>2. state' = "failed" => res' < 0 /\ res' # -DETOOLS_ALREADY_DONE
      <4>1. UnpackStops => state' # "failed" \/ res' = -27
        BY <1>0, <2>1 DEF UnpackStops, DETOOLS_HEATSHRINK_HEADER
      <4>2. UnpackOverflows => res' = -25
        BY DEF UnpackOverflows, DETOOLS_CORRUPT_PATCH_OVERFLOW
      <4>3. UnpackContinues => state' # "failed"
        BY <1>0, <2>1 DEF UnpackContinues
      <4> QED
        BY <1>2, <4>1, <4>2, <4>3
    <3> QED
      BY <1>0, <2>1, <3>1, <3>2
<1>3. ASSUME ProcessDfpatchSize \/ ProcessSize \/ ProcessAdjustment
      PROVE  Quiet /\ pc' = pc /\ pc # "done"
  <2>1. Unpacking
    BY <1>3 DEF ProcessDfpatchSize, ProcessSize, ProcessAdjustment, Unpack
  <2> QED
    <3>1. pc' = pc /\ UNCHANGED << input_vars, from_offset, to_offset, out >>
      BY <1>3 DEF ProcessDfpatchSize, ProcessSize, ProcessAdjustment
    <3>2. state' = "failed" => res' < 0 /\ res' # -DETOOLS_ALREADY_DONE
      <4>1. ProcessDfpatchSize => state' # "failed" \/ res' = -1
        BY DEF ProcessDfpatchSize, DETOOLS_NOT_IMPLEMENTED
      <4>2. ProcessSize => state' # "failed" \/ res' = -9
        BY DEF ProcessSize, DETOOLS_CORRUPT_PATCH
      <4>3. ProcessAdjustment => state' # "failed"
        BY DEF ProcessAdjustment
      <4> QED
        BY <1>3, <4>1, <4>2, <4>3
    <3> QED
      BY <1>0, <2>1, <3>1, <3>2
<1>4. ASSUME SectionEnd \/ DecompressData
      PROVE  Quiet /\ pc' = pc /\ pc # "done"
  <2>1. /\ pc \in {"process", "finalize"} /\ state \notin {"init", "failed"}
        /\ state' # "failed" /\ pc' = pc
        /\ UNCHANGED << input_vars, from_offset, to_offset, out >>
    BY <1>4 DEF SectionEnd, DecompressData, Once, DataStates
  <2> QED
    BY <2>1
<1>5. ASSUME ProcessNothing
      PROVE  Quiet /\ pc' = pc /\ pc # "done"
  BY <1>5 DEF ProcessNothing, Once, DETOOLS_ALREADY_FAILED
<1> QED
  BY <1>1, <1>2, <1>3, <1>4, <1>5 DEF Engine

LEMMA EngineQuiet ==
  ASSUME IInv, Processing, FailureKnown, Engine
  PROVE  Quiet
BY LoopsQuiet, HandlersQuiet

(* A callback that fails is the end of the engine, or of its reading.      *)
LEMMA CallbackQuiet ==
  ASSUME IInv, Processing, FailureKnown, NEW r, Callback(r)
  PROVE  /\ UNCHANGED << patch, patch_size >> /\ Processing' /\ FailureKnown'
         /\ out' = out \/ out' = out \o buf
         /\ pc' \in {"read", "process", "finalize", "done"}
<1> USE DEF Processing, FailureKnown, input_vars, target_vars, Failed, Goto, DETOOLS_IO_FAILED
<1>1. call # "none" => pc \in {"process", "finalize"} /\ state # "failed"
  BY DEF IInv, Phases, SizeStates, DataStates, TypeOK, ControlTypeOK
<1>2. CASE PatchRead(r)
  BY <1>2 DEF PatchRead, Reading
<1>3. CASE FromRead(r)
  BY <1>1, <1>3 DEF FromRead
<1>4. CASE FromSeek(r)
  BY <1>1, <1>4 DEF FromSeek
<1>5. CASE ToWrite(r)
  BY <1>1, <1>5 DEF ToWrite
<1> QED
  BY <1>2, <1>3, <1>4, <1>5 DEF Callback

(* A size is only returned for a patch that was worked off, since all      *)
(* other answers are errors (detools.c:642-668, 829-835).                  *)
LEMMA OnlyDoneGrants ==
  ASSUME IInv, Processing, FailureKnown, Engine, pc' = "done", ret' > 0
  PROVE  res' = -DETOOLS_ALREADY_DONE
<1>1. Finalize
  <2>1. ~ProcessEnd /\ ~FinalizeStart
    BY DEF ProcessEnd, FinalizeStart
  <2> QED
    BY <2>1, HandlersQuiet
<1>2. /\ res' = res /\ res \in Int /\ res # 0 /\ res <= 1
      /\ cb_res <= 0 /\ cb_res \in Int
      /\ ret' = IF cb_res = 0 THEN FinalResult ELSE cb_res
  BY <1>1 DEF Finalize, IInv, TypeOK, InputTypeOK, ControlTypeOK, Phases
<1>3. ret' = FinalResult
  BY <1>2
<1>4. res = 1 => FinalResult = -DETOOLS_NOT_ENOUGH_PATCH_DATA
  BY DEF FinalResult, DETOOLS_ALREADY_DONE
<1>5. res # 1 /\ res # -DETOOLS_ALREADY_DONE => FinalResult = res
  BY DEF FinalResult
<1> QED
  BY <1>2, <1>3, <1>4, <1>5 DEF DETOOLS_NOT_ENOUGH_PATCH_DATA

=============================================================================
