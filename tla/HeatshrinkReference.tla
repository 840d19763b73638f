------------------------ MODULE HeatshrinkReference ------------------------
(***************************************************************************)
(* What a heatshrink stream means, said without buffers, a window or       *)
(* suspension: all bits are at hand and each token is read at once.        *)
(***************************************************************************)
EXTENDS HeatshrinkDecoder

(* The bits of stream s, counted from 0; the number that its n bits from p *)
(* on stand for.                                                           *)
BitAt(s, p) ==
  IF p < 8 * Len(s) THEN (s[p \div 8 + 1] \div 2 ^ (7 - (p % 8))) % 2 ELSE 0

NumberAt(s, p, n) ==
  LET Leading[k \in Nat] ==
        IF k = 0 THEN 0 ELSE 2 * Leading[k - 1] + BitAt(s, p + k - 1)
  IN  Leading[n]

(* A text that goes on by count bytes, repeating its last d bytes; there   *)
(* are zeros before its start.                                             *)
Repeated(text, d, count) ==
  text \o [i \in 1 .. count |->
             LET k == Len(text) - d + 1 + ((i - 1) % d)
             IN  IF k >= 1 THEN text[k] ELSE 0]

(* One more token of the first m bits of s, if it is there as a whole.     *)
LiteralEnd(p) == p + 9
BackrefEnd(p) == p + 1 + WINDOW_BITS + LOOKAHEAD_BITS

NextToken(s, m, r) ==
  CASE BitAt(s, r.pos) = 1 /\ LiteralEnd(r.pos) <= m ->
         [pos |-> LiteralEnd(r.pos), text |-> Append(r.text, NumberAt(s, r.pos + 1, 8))]
    [] BitAt(s, r.pos) = 0 /\ BackrefEnd(r.pos) <= m ->
         [pos |-> BackrefEnd(r.pos),
          text |-> Repeated(r.text, NumberAt(s, r.pos + 1, WINDOW_BITS) + 1,
                            NumberAt(s, r.pos + 1 + WINDOW_BITS, LOOKAHEAD_BITS) + 1)]
    [] OTHER -> r

Start == [pos |-> 0, text |-> << >>]

AfterTokens(s, m, k) ==
  LET After[i \in Nat] == IF i = 0 THEN Start ELSE NextToken(s, m, After[i - 1])
  IN  After[k]

(* What the first j bytes of each stream decompress to: a token has eight  *)
(* bits or more, so that there are no more tokens than bytes.              *)
Text(s, j) == AfterTokens(s, 8 * j, j).text

Decoded == [s \in Streams |-> [j \in 0 .. Len(s) |-> Text(s, j)]]

Sunk == Decoded[stream][sunk]

(***************************************************************************)
(* Whatever is sunk and polled, in pieces of any size, the bytes yielded   *)
(* are the beginning of what the stream decompresses to; and when poll     *)
(* says EMPTY they are all that can be had of the bytes sunk, so that      *)
(* patch_reader_heatshrink_decompress may ask for more input.              *)
(***************************************************************************)
DecodesStream ==
  /\ Sunk \in Seq(Byte)
  /\ Len(out) <= Len(Sunk) /\ out = SubSeq(Sunk, 1, Len(out))
  /\ poll_res = "EMPTY" => Len(out) = Len(Sunk)

(***************************************************************************)
(* After a poll, finish says DONE exactly if nothing more can be yielded   *)
(* from what has been sunk: neither a finished patch is refused for the    *)
(* padding of its last byte (heatshrink_decoder.c:343-356) nor is a patch  *)
(* accepted that has more output (detools.c:210-225).                      *)
(***************************************************************************)
FinishIsExact ==
  poll_res \in {"EMPTY", "MORE"} => (FinishDone <=> Len(out) = Len(Sunk))

=============================================================================
