---------------------------- MODULE MCApplyPatch ----------------------------
(***************************************************************************)
(* Patches for the engine: every plain stream of four bytes from an        *)
(* alphabet of the bytes that matter (0, sizes 1 and 2, -1, a continuation *)
(* byte), and longer ones made by hand, each compressed in one of three    *)
(* ways and cut off anywhere.  A chunk has six bytes, a buffer two, so     *)
(* that the longer patches take three chunks and sections several buffers. *)
(***************************************************************************)
EXTENDS PatchReference

MCFrom == [i \in 0 .. 3 |-> 10 * i + 5]

(* Each byte of input yields one of output;                                *)
Even(n) == [j \in 1 .. n |-> j]
(* output lags behind the input and comes two bytes at a time;             *)
Lagging(n) == [j \in 1 .. n |-> IF j = n THEN n ELSE 2 * (j \div 2)]
(* or three bytes at once, from a back-reference.                          *)
Bursty(n) == [j \in 1 .. (n + 2) \div 3 |-> IF 3 * j < n THEN 3 * j ELSE n]

Patched(head, target, upto, plain) ==
  [type |-> 0, to_size |-> target, head_len |-> head, heatshrink |-> 68,
   upto |-> upto, plain |-> plain]

InThreeWays(plain, size) ==
  {Patched(2, size, Even(Len(plain)), plain),
   Patched(4, size, Lagging(Len(plain)), plain),
   Patched(5, size, Bursty(Len(plain)), plain)}

Alphabet == {0, 1, 2, 65, 128}
Streams == {<< 0 >> \o s : s \in [1 .. 4 -> Alphabet]}

(* Two rounds with a seek back between them, four bytes of target (with    *)
(* two, the extra section is too long);                                    *)
TwoRounds == << 0, 2, 1, 2, 1, 7, 65, 1, 250, 0, 0 >>
(* the same with sizes longer than they need be;                           *)
LongSizes == << 128, 0, 130, 128, 0, 1, 2, 129, 0, 7, 193, 0, 1, 250, 0, 0 >>
(* a size of too many bytes; a second one of -1; bytes behind the end;     *)
TooLong == << 0, 130, 128, 128, 128, 128, 0 >>
Negative == << 0, 1, 5, 65, 1, 2, 3, 4 >>
Trailing == << 0, 1, 5, 0, 0, 9, 9, 9 >>
(* a source read past its end; a patch of the data format.                 *)
PastSource == << 0, 2, 1, 2, 0, 1, 2, 1, 2, 0, 0 >>
DataFormat == << 3, 2, 1, 2 >>

HandMade ==
  UNION {InThreeWays(TwoRounds, 4), InThreeWays(TwoRounds, 2),
         InThreeWays(LongSizes, 4),
         InThreeWays(TooLong, 4), InThreeWays(Negative, 2),
         InThreeWays(Trailing, 1), InThreeWays(PastSource, 4),
         InThreeWays(DataFormat, 4), InThreeWays(<< 0 >>, 0)}
  \cup {[p EXCEPT !.type = 1] : p \in InThreeWays(TwoRounds, 4)}
  \cup {[p EXCEPT !.heatshrink = 183] : p \in InThreeWays(TwoRounds, 4)}
  \cup {[p EXCEPT !.head_len = 7] : p \in InThreeWays(TwoRounds, 4)}

Enumerated ==
  UNION {InThreeWays(s, 1) : s \in Streams}
  \cup {Patched(4, 2, Lagging(Len(s)), s) : s \in Streams}

AllPatches == HandMade \cup Enumerated
=============================================================================
