---------------------------- MODULE MCHeatshrink ----------------------------
(***************************************************************************)
(* Streams for the decoder: packed from tokens, with padding or trailing   *)
(* bits, so that tokens start at every bit of a byte.                      *)
(***************************************************************************)
EXTENDS HeatshrinkReference, SequencesExt

Encoded(n, bits) == [i \in 1 .. bits |-> (n \div 2 ^ (bits - i)) % 2]

Lit(byte) == << 1 >> \o Encoded(byte, 8)
Ref(distance, count) ==
  << 0 >> \o Encoded(distance - 1, WINDOW_BITS) \o Encoded(count - 1, LOOKAHEAD_BITS)

Packed(tokens, padding) ==
  LET bits == FlattenSeq(tokens)
      bytes == (Len(bits) + 7) \div 8
      padded == bits \o [i \in 1 .. 8 * bytes - Len(bits) |-> padding]
  IN  [b \in 1 .. bytes |-> Number(SubSeq(padded, 8 * b - 7, 8 * b))]

A == Lit(165)
B == Lit(90)

(* Window 10, lookahead 9: a copy from before the start, one over itself,  *)
(* two fields of more than eight bits; padding of ones; literals only.     *)
MCStreams ==
  {Packed(<< A, Ref(600, 2), B, Ref(2, 5), Ref(259, 2), A >>, 0),
   Packed(<< A, B, Ref(3, 258), Ref(259, 2), B >>, 0),
   Packed(<< Ref(3, 2), A, B, Ref(4, 3), A >>, 1),
   Packed(<< B, B, B, B, B, B, A >>, 0)}
=============================================================================
