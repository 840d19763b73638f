---------------------------- MODULE StreamReader ----------------------------
(***************************************************************************)
(* What the patch reader of detools.c promises the engine: a decompressed  *)
(* stream, handed over piece by piece while the compressed bytes come in   *)
(* chunks.  Nothing is said of the decoder: "upto" gives how many bytes of *)
(* the plain stream it can yield once so many compressed bytes are sunk.   *)
(* ApplyPatch is written on top of this module; PatchReader, with the real *)
(* decoder inside, implements it.                                          *)
(***************************************************************************)
EXTENDS Buffers, Sequences

CONSTANT Patches  \* the patches that may be read

Byte == 0 .. 255

Patch == [type       : 0 .. 7,       \* patch type
          to_size    : Nat,          \* size of the target, as in the header
          head_len   : Nat \ {0, 1}, \* bytes of the header
          heatshrink : Byte,         \* window and lookahead size
          upto       : Seq(Nat),     \* output of the decoder by input
          plain      : Seq(Byte)]    \* the decompressed stream

Upto(p, j) == IF j = 0 THEN 0 ELSE p.upto[j]

(* More input never takes output back.                                     *)
ASSUME PatchesAssumption ==
  \A p \in Patches :
    /\ p \in Patch
    /\ \A j \in 1 .. Len(p.upto) : p.upto[j] <= Len(p.plain)
    /\ \A i, j \in 1 .. Len(p.upto) : i <= j => p.upto[i] <= p.upto[j]

DETOOLS_HEATSHRINK_HEADER == 27

(* The heatshrink byte of the build's configuration: window 8, lookahead 7 *)
HEATSHRINK_STATIC == 68

VARIABLES
  patch,        \* the patch that is read
  chunk_left,   \* unread bytes of the current chunk
  window_known, \* the heatshrink byte has been read (window_sz2 /= -1)
  sunk,         \* compressed bytes sunk into the decoder
  taken         \* plain bytes polled from it

(***************************************************************************)
(* patch_reader_heatshrink_decompress, asked for n > 0 bytes: it answers r *)
(* and, if r = 0, hands over the next got bytes of the plain stream.       *)
(* Output that the decoder holds comes first; compressed bytes are sunk    *)
(* one by one only while it holds too little.                              *)
(***************************************************************************)
(* Bytes the decoder holds after j more bytes of input.                    *)
Held(j) == Upto(patch, sunk + j) - taken

Enough(n, j) == Held(j) >= n

(* No byte could be had: more input is needed.                             *)
PolledResult_Always(got) == 0
PolledResult(got) == IF got > 0 THEN 0 ELSE 1

Polled(n, left, r, got) ==
  \E used \in 0 .. left :
    /\ \A j \in 0 .. used - 1 : ~Enough(n, j)
    /\ \/ Enough(n, used) /\ got = n
       \/ ~Enough(n, used) /\ used = left /\ got = Held(used)
    /\ r = PolledResult(got)
    /\ chunk_left' = left - used
    /\ sunk' = sunk + used
    /\ taken' = taken + got

Decompress(n, r, got) ==
  \/ /\ window_known
     /\ Polled(n, chunk_left, r, got)
     /\ UNCHANGED window_known
  \/ /\ ~window_known /\ chunk_left = 0
     /\ r = 1 /\ got = 0
     /\ UNCHANGED << window_known, chunk_left, sunk, taken >>
  \/ /\ ~window_known /\ chunk_left > 0
     /\ window_known' = TRUE
     /\ \/ /\ patch.heatshrink = HEATSHRINK_STATIC
           /\ Polled(n, chunk_left - 1, r, got)
        \/ /\ patch.heatshrink # HEATSHRINK_STATIC
           /\ r = -DETOOLS_HEATSHRINK_HEADER /\ got = 0
           /\ chunk_left' = chunk_left - 1
           /\ UNCHANGED << sunk, taken >>

(* patch_reader_heatshrink_destroy finds nothing left in the decoder.      *)
Finished == Upto(patch, sunk) = taken

-----------------------------------------------------------------------------
(* The reader on its own: a new patch, a new chunk of it once the last one *)
(* is used up, a call for up to TO_BUF bytes.                            *)
stream_vars == << patch, chunk_left, window_known, sunk, taken >>

ReaderInit ==
  /\ patch \in Patches
  /\ chunk_left = 0 /\ window_known = FALSE /\ sunk = 0 /\ taken = 0

NewPatch ==
  /\ patch' \in Patches
  /\ chunk_left' = 0 /\ window_known' = FALSE /\ sunk' = 0 /\ taken' = 0

(* Bytes of the patch behind its header that were not in a chunk yet.      *)
Unread == 1 + Len(patch.upto) - (sunk + IF window_known THEN 1 ELSE 0)

NewChunk(n) ==
  /\ chunk_left = 0 /\ n <= Unread
  /\ chunk_left' = n
  /\ UNCHANGED << patch, window_known, sunk, taken >>

Called(n) ==
  \E r \in {0, 1, -DETOOLS_HEATSHRINK_HEADER}, got \in 0 .. n :
    Decompress(n, r, got) /\ UNCHANGED patch

ReaderNext ==
  \/ NewPatch
  \/ \E n \in 1 .. CHUNK_BUF : NewChunk(n)
  \/ \E n \in 1 .. TO_BUF : Called(n)

ReaderSpec == ReaderInit /\ [][ReaderNext]_stream_vars

=============================================================================
