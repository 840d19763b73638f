--------------------------- MODULE PatchReference ---------------------------
(***************************************************************************)
(* What a patch means, said without chunks, buffers, decoder state or      *)
(* resumption: the whole plain stream is at hand and is read once.  The    *)
(* engine of ApplyPatch must come to the same answer and the same target   *)
(* wherever its chunks end and however the decoder holds its output back.  *)
(***************************************************************************)
EXTENDS ApplyPatch

(***************************************************************************)
(* The first chunk holds the header, or six bytes of one that is too long: *)
(* detools_apply_patch_callbacks reads 512 bytes at once.                  *)
(***************************************************************************)
ASSUME FirstChunkAssumption ==
  CHUNK_BUF >= 6 \/ \A p \in Patches : p.head_len <= CHUNK_BUF

(***************************************************************************)
(* The number that starts at position i of stream s: all bytes with the    *)
(* continuation bit and the one after them, at most four.                  *)
(***************************************************************************)
IsNumber(s, i, k) ==
  /\ i + k - 1 <= Len(s) /\ s[i + k - 1] < 128
  /\ \A j \in i .. i + k - 2 : s[j] >= 128

Magnitude(s, i, k) ==
  (s[i] % 64) + (IF k > 1 THEN 64 * (s[i + 1] % 128) ELSE 0)
              + (IF k > 2 THEN 8192 * (s[i + 2] % 128) ELSE 0)
              + (IF k > 3 THEN 1048576 * (s[i + 3] % 128) ELSE 0)

(* [ok, value, next] of the number at i, or the error it makes.            *)
Number(s, i) ==
  IF \E k \in 1 .. 4 : IsNumber(s, i, k)
  THEN LET k == CHOOSE k \in 1 .. 4 : IsNumber(s, i, k)
           m == Magnitude(s, i, k)
       IN  [ok |-> TRUE, value |-> IF s[i] % 128 >= 64 THEN -m ELSE m, next |-> i + k]
  ELSE [ok |-> FALSE,
        value |-> IF i + 4 <= Len(s) THEN -DETOOLS_CORRUPT_PATCH_OVERFLOW
                  ELSE -DETOOLS_NOT_ENOUGH_PATCH_DATA,
        next |-> i]

(***************************************************************************)
(* How far a stream has been read: what is read next (in the words of      *)
(* States, or "end"), from which position, where the source is read then,  *)
(* the target so far, and at the end the answer.                           *)
(***************************************************************************)
Start == [kind |-> "dfpatch_size", next |-> 1, pos |-> 0, out |-> << >>, ret |-> 0]

Ended(r, answer) == [r EXCEPT !.kind = "end", !.ret = answer]

(* Bytes i .. i + n - 1 of the stream as they go into the target.          *)
Data(s, r, i, n) ==
  [j \in 1 .. n |-> IF r.kind = "diff_size" THEN (s[i + j - 1] + From[r.pos + j - 1]) % 256
                    ELSE s[i + j - 1]]

(* A diff or extra section whose size is num: all of it that is here.      *)
Section(s, size, r, num) ==
  LET len  == num.value % SIZE_MOD
      here == Len(s) - num.next + 1
      n    == IF len < here THEN len ELSE here
      o    == r.out \o Data(s, r, num.next, n)
      diff == r.kind = "diff_size"
  IN
  IF (Len(r.out) + num.value) % SIZE_MOD > size THEN Ended(r, -DETOOLS_CORRUPT_PATCH)
  ELSE IF diff /\ ~(r.pos .. r.pos + n - 1 \subseteq DOMAIN From)
  THEN Ended(r, -DETOOLS_IO_FAILED)
  ELSE IF n < len THEN Ended([r EXCEPT !.out = o], -DETOOLS_NOT_ENOUGH_PATCH_DATA)
  ELSE [kind |-> IF diff THEN "extra_size" ELSE "adjustment", next |-> num.next + n,
        pos |-> IF diff THEN r.pos + n ELSE r.pos, out |-> o, ret |-> 0]

(* One number more, and the section it is the size of.                     *)
NextSection(s, size, r) ==
  LET num == Number(s, r.next) IN
  CASE r.kind = "end" -> r
    [] r.kind # "end" /\ ~num.ok -> Ended(r, num.value)
    [] r.kind = "dfpatch_size" /\ num.ok ->
         IF num.value > 0 THEN Ended(r, -DETOOLS_NOT_IMPLEMENTED)
         ELSE [r EXCEPT !.kind = "diff_size", !.next = num.next]
    [] r.kind = "adjustment" /\ num.ok ->
         IF Len(r.out) = size THEN Ended([r EXCEPT !.next = num.next], size)
         ELSE [r EXCEPT !.kind = "diff_size", !.next = num.next, !.pos = @ + num.value]
    [] r.kind \in {"diff_size", "extra_size"} /\ num.ok -> Section(s, size, r, num)

AfterSections(s, size, k) ==
  LET After[i \in Nat] == IF i = 0 THEN Start ELSE NextSection(s, size, After[i - 1])
  IN  After[k]

(* A stream: each section takes a byte or more, so that there are no more  *)
(* of them than bytes.                                                     *)
Stream(s, size) ==
  LET r == AfterSections(s, size, Len(s) + 1)
  IN  [ret |-> r.ret, used |-> r.next - 1, out |-> r.out]

Answer(r) == [ret |-> r, used |-> 0, out |-> << >>]

(* Nothing may follow the last adjustment, compressed or decompressed.     *)
Closed(p, j, a) ==
  IF a.ret < 0 \/ (a.used = Upto(p, j) /\ (j = 0 \/ Upto(p, j - 1) < a.used)) THEN a
  ELSE [a EXCEPT !.ret = IF \E i \in 0 .. j - 1 : Upto(p, i) >= a.used
                         THEN -DETOOLS_ALREADY_DONE ELSE -DETOOLS_CORRUPT_PATCH]

(* The first n bytes of patch p.                                           *)
Reference(p, n) ==
  LET j == n - p.head_len - 1 IN
  CASE n = 0 -> Answer(-DETOOLS_SHORT_HEADER)
    [] n > 0 /\ p.type # PATCH_TYPE_SEQUENTIAL -> Answer(-DETOOLS_BAD_PATCH_TYPE)
    [] n > 0 /\ p.type = PATCH_TYPE_SEQUENTIAL ->
         IF n < p.head_len /\ n < 6 THEN Answer(-DETOOLS_SHORT_HEADER)
         ELSE IF p.head_len > 5 THEN Answer(-DETOOLS_CORRUPT_PATCH_OVERFLOW)
         ELSE IF p.to_size = 0
              THEN Answer(IF j >= 0 THEN -DETOOLS_ALREADY_DONE ELSE 0)
         ELSE IF j < 0 THEN Answer(-DETOOLS_NOT_ENOUGH_PATCH_DATA)
         ELSE IF p.heatshrink # HEATSHRINK_STATIC
              THEN Answer(-DETOOLS_HEATSHRINK_HEADER)
         ELSE Closed(p, j, Stream(SubSeq(p.plain, 1, Upto(p, j)), p.to_size))

(***************************************************************************)
(* Unless a callback failed, the answer of detools_apply_patch_callbacks   *)
(* and the bytes it wrote are those of the reference: neither depends on   *)
(* where the 512-byte chunks end, on how far the decoder lags behind its   *)
(* input, or on a size being cut in two by the end of a chunk.             *)
(***************************************************************************)
MatchesReference ==
  pc = "done" =>
    LET a == Reference(patch, patch_size) IN
    \/ ret = a.ret /\ out = a.out
    \/ ret = -DETOOLS_IO_FAILED /\ Len(out) <= Len(a.out) /\ out = SubSeq(a.out, 1, Len(out))
    \/ ret = -DETOOLS_IO_FAILED /\ a.ret = -DETOOLS_IO_FAILED

=============================================================================
