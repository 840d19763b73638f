------------------------- MODULE HeatshrinkDecoder -------------------------
(***************************************************************************)
(* The heatshrink decoder, heatshrink_decoder.c: compressed bytes are sunk *)
(* into an input buffer, and poll drives a state machine that takes them   *)
(* apart bit by bit and yields decompressed bytes into a buffer of the     *)
(* caller, until it is full or the input is used up.  Either can happen    *)
(* anywhere: inside of a token, inside of a byte, inside of a              *)
(* back-reference.                                                         *)
(*                                                                         *)
(* A token is a tag bit 1 and a literal byte, or a tag bit 0, a distance   *)
(* (less one) of WINDOW_BITS and a count (less one) of LOOKAHEAD_BITS.     *)
(***************************************************************************)
EXTENDS Integers, Sequences

CONSTANTS
  Streams,            \* the compressed streams that may be sunk
  WINDOW_BITS,        \* 8 in this build
  LOOKAHEAD_BITS,     \* 7 in this build
  INPUT_BUFFER_SIZE,  \* 256 in this build
  INDEX_MOD,          \* number of values of head_index, a uint16_t
  SINK_MAX,           \* bytes the caller offers at once, at most
  PollSizes           \* sizes of the buffers the caller polls into

Byte == 0 .. 255
Bit == {0, 1}

WindowSize == 2 ^ WINDOW_BITS

(* heatshrink_common.h: at least 4 and 3 bits, at most 15, and a lookahead *)
(* shorter than the window.                                                *)
ASSUME BitsAssumption ==
  /\ WINDOW_BITS \in 4 .. 15
  /\ LOOKAHEAD_BITS \in 3 .. WINDOW_BITS - 1

ASSUME BufferAssumption ==
  /\ INPUT_BUFFER_SIZE \in Nat \ {0}
  /\ SINK_MAX \in Nat /\ PollSizes \subseteq Nat
  /\ \A s \in Streams : s \in Seq(Byte)

(* head_index wraps at a multiple of the size of the window.               *)
ASSUME WrapAssumption ==
  \E k \in 1 .. INDEX_MOD : INDEX_MOD = k * WindowSize

VARIABLES
  stream,        \* the compressed stream that is being sunk
  sunk,          \* bytes of it sunk
  input,         \* the first part of buffers
  input_size,
  input_index,
  current,       \* bits of current_byte not taken yet: bit_index = 2^(Len - 1)
  output_count,
  output_index,
  head_index,
  window,        \* the second part of buffers
  state,
  buf_size,      \* of the caller's buffer
  output_size,   \* bytes of it filled
  poll_res,      \* what poll returned last, "running" inside of it
  out            \* history: all bytes yielded since the decoder was reset

input_vars  == << input, input_size, input_index, current >>
token_vars  == << output_count, output_index >>
yield_vars  == << head_index, window, output_size, out >>
caller_vars == << stream, sunk, buf_size, poll_res >>
decoder_vars == << stream, sunk, input_vars, token_vars, head_index, window,
                   state, buf_size, output_size, poll_res, out >>

DecoderStates == {"tag_bit", "yield_literal", "index_msb", "index_lsb",
                  "count_msb", "count_lsb", "yield_backref"}

(* heatshrink_decoder_reset.                                               *)
Zeros == [i \in 0 .. WindowSize - 1 |-> 0]

DecoderInit ==
  /\ stream \in Streams /\ sunk = 0
  /\ input = [i \in 0 .. INPUT_BUFFER_SIZE - 1 |-> 0]
  /\ input_size = 0 /\ input_index = 0 /\ current = << >>
  /\ output_count = 0 /\ output_index = 0
  /\ head_index = 0 /\ window = Zeros
  /\ state = "tag_bit"
  /\ buf_size = 0 /\ output_size = 0 /\ poll_res = "none" /\ out = << >>

(* The caller starts over, with a new stream, whatever is still in here.   *)
Reset ==
  /\ poll_res # "running"
  /\ stream' \in Streams /\ sunk' = 0
  /\ input' = [i \in 0 .. INPUT_BUFFER_SIZE - 1 |-> 0]
  /\ input_size' = 0 /\ input_index' = 0 /\ current' = << >>
  /\ output_count' = 0 /\ output_index' = 0
  /\ head_index' = 0 /\ window' = Zeros
  /\ state' = "tag_bit"
  /\ buf_size' = 0 /\ output_size' = 0 /\ poll_res' = "none" /\ out' = << >>

-----------------------------------------------------------------------------
(* heatshrink_decoder_sink: as many of the n bytes offered as fit.         *)
SinkRoom == INPUT_BUFFER_SIZE - input_size

SinkSize(n) == IF SinkRoom < n THEN SinkRoom ELSE n

(* The faulty form overwrites what has not been read.                      *)
SinkAt_Start == 0
SinkAt == input_size

Sink(n) ==
  /\ poll_res # "running"
  /\ n <= Len(stream) - sunk
  /\ SinkRoom > 0
  /\ input' = [i \in DOMAIN input |->
                 IF i \in SinkAt .. SinkAt + SinkSize(n) - 1
                 THEN stream[sunk + i - SinkAt + 1] ELSE input[i]]
  /\ input_size' = input_size + SinkSize(n)
  /\ sunk' = sunk + SinkSize(n)
  /\ poll_res' = "none"
  /\ UNCHANGED << stream, input_index, current, token_vars, yield_vars, state,
                  buf_size >>

(***************************************************************************)
(* get_bits: bits are taken from the byte at hand, then from the next one  *)
(* of the input buffer, which is emptied with its last byte.  No state     *)
(* asks for more than eight, so that one more byte always suffices.  If    *)
(* there are too few, none is taken.                                       *)
(***************************************************************************)
Bits(byte) == [i \in 1 .. 8 |-> (byte \div 2 ^ (8 - i)) % 2]

(* The number that at most eight bits stand for, the first one the highest.*)
Number(bits) ==
  LET At(i) == IF i < Len(bits) THEN bits[Len(bits) - i] ELSE 0
  IN  (At(0) + 2 * At(1) + 4 * At(2) + 8 * At(3))
      + 16 * (At(4) + 2 * At(5) + 4 * At(6) + 8 * At(7))

HasBits(count) == input_size > 0 \/ Len(current) >= count

BitsAtHand(count) ==
  IF Len(current) >= count THEN current ELSE current \o Bits(input[input_index])

GetBits(count) == Number(SubSeq(BitsAtHand(count), 1, count))

TakeBits(count) ==
  /\ HasBits(count)
  /\ current' = SubSeq(BitsAtHand(count), count + 1, Len(BitsAtHand(count)))
  /\ IF Len(current) >= count THEN UNCHANGED << input_size, input_index >>
     ELSE IF input_index + 1 = input_size
     THEN input_index' = 0 /\ input_size' = 0
     ELSE input_index' = input_index + 1 /\ UNCHANGED input_size
  /\ UNCHANGED input

-----------------------------------------------------------------------------
(* heatshrink_decoder_poll: one action per way out of a state.             *)

IndexBits == WINDOW_BITS
CountBits == LOOKAHEAD_BITS
LowBits(n) == IF n < 8 THEN n ELSE 8

PollStart(size) ==
  /\ poll_res # "running"
  /\ poll_res' = "running"
  /\ buf_size' = size
  /\ output_size' = 0
  /\ UNCHANGED << stream, sunk, input_vars, token_vars, head_index, window,
                  state, out >>

In(s) == poll_res = "running" /\ state = s

TagBit ==
  /\ In("tag_bit") /\ TakeBits(1)
  /\ IF GetBits(1) = 1 THEN state' = "yield_literal" /\ UNCHANGED output_index
     ELSE IF IndexBits > 8 THEN state' = "index_msb" /\ UNCHANGED output_index
     ELSE state' = "index_lsb" /\ output_index' = 0
  /\ UNCHANGED << caller_vars, output_count, yield_vars >>

BufferFull_OffByOne == output_size > buf_size
BufferFull == output_size = buf_size

(* A byte goes to the caller and to the head of the window; the faulty     *)
(* form forgets the latter.                                                *)
Mask(i) == i % WindowSize

Yield_Unsaved(c) ==
  /\ head_index' = (head_index + 1) % INDEX_MOD
  /\ output_size' = output_size + 1
  /\ out' = Append(out, c)
  /\ UNCHANGED window
Yield(c) ==
  /\ window' = [window EXCEPT ![Mask(head_index)] = c]
  /\ head_index' = (head_index + 1) % INDEX_MOD
  /\ output_size' = output_size + 1
  /\ out' = Append(out, c)

(* The buffer is looked at first: a literal is not taken from the input    *)
(* unless it can be handed over, as it is in the faulty form.              *)
YieldLiteral_Lost ==
  /\ In("yield_literal") /\ TakeBits(8)
  /\ IF BufferFull THEN UNCHANGED yield_vars ELSE Yield(GetBits(8))
  /\ state' = "tag_bit"
  /\ UNCHANGED << caller_vars, token_vars >>
YieldLiteral ==
  /\ In("yield_literal") /\ ~BufferFull /\ TakeBits(8)
  /\ Yield(GetBits(8))
  /\ state' = "tag_bit"
  /\ UNCHANGED << caller_vars, token_vars >>

IndexMsb ==
  /\ In("index_msb") /\ TakeBits(IndexBits - 8)
  /\ output_index' = 256 * GetBits(IndexBits - 8)
  /\ state' = "index_lsb"
  /\ UNCHANGED << caller_vars, output_count, yield_vars >>

(* The low byte of output_index is zero here, so that |= adds.             *)
IndexLsb ==
  /\ In("index_lsb") /\ TakeBits(LowBits(IndexBits))
  /\ output_index' = output_index + GetBits(LowBits(IndexBits)) + 1
  /\ output_count' = 0
  /\ state' = IF CountBits > 8 THEN "count_msb" ELSE "count_lsb"
  /\ UNCHANGED << caller_vars, yield_vars >>

CountMsb ==
  /\ In("count_msb") /\ TakeBits(CountBits - 8)
  /\ output_count' = 256 * GetBits(CountBits - 8)
  /\ state' = "count_lsb"
  /\ UNCHANGED << caller_vars, output_index, yield_vars >>

CountLsb ==
  /\ In("count_lsb") /\ TakeBits(LowBits(CountBits))
  /\ output_count' = output_count + GetBits(LowBits(CountBits)) + 1
  /\ state' = "yield_backref"
  /\ UNCHANGED << caller_vars, output_index, yield_vars >>

(* One byte of a back-reference, which may reach into itself; it goes on   *)
(* with the next buffer if this one is full.                               *)
YieldBackref ==
  /\ In("yield_backref") /\ ~BufferFull
  /\ Yield(window[Mask(head_index - output_index)])
  /\ output_count' = output_count - 1
  /\ state' = IF output_count = 1 THEN "tag_bit" ELSE "yield_backref"
  /\ UNCHANGED << caller_vars, input_vars, output_index >>

BitsFor(s) ==
  CASE s = "tag_bit"       -> 1
    [] s = "yield_literal" -> 8
    [] s = "index_msb"     -> IndexBits - 8
    [] s = "index_lsb"     -> LowBits(IndexBits)
    [] s = "count_msb"     -> CountBits - 8
    [] s = "count_lsb"     -> LowBits(CountBits)

(* The state cannot advance: for want of room or of input.                 *)
Stuck ==
  \/ state \in {"yield_literal", "yield_backref"} /\ BufferFull
  \/ state # "yield_backref" /\ ~HasBits(BitsFor(state))

PollReturn ==
  /\ poll_res = "running" /\ Stuck
  /\ poll_res' = IF BufferFull THEN "MORE" ELSE "EMPTY"
  /\ UNCHANGED << stream, sunk, input_vars, token_vars, yield_vars, state,
                  buf_size >>

PollStep ==
  \/ TagBit \/ YieldLiteral \/ YieldBackref
  \/ IndexMsb \/ IndexLsb \/ CountMsb \/ CountLsb
  \/ PollReturn

(* heatshrink_decoder_finish: padding of up to seven bits may be left in   *)
(* any state but one; the faulty form looks for it between tokens only.    *)
FinishDone_TagOnly == state = "tag_bit" /\ input_size = 0
FinishDone == state # "yield_backref" /\ input_size = 0

-----------------------------------------------------------------------------
DecoderNext ==
  \/ Reset
  \/ \E n \in 1 .. SINK_MAX : Sink(n)
  \/ \E size \in PollSizes : PollStart(size)
  \/ PollStep

DecoderSpec == DecoderInit /\ [][DecoderNext]_decoder_vars

-----------------------------------------------------------------------------
InputTypeOK ==
  /\ stream \in Streams /\ sunk \in 0 .. Len(stream)
  /\ input \in [0 .. INPUT_BUFFER_SIZE - 1 -> Byte]
  /\ input_size \in 0 .. INPUT_BUFFER_SIZE
  /\ input_index \in 0 .. INPUT_BUFFER_SIZE - 1
  /\ input_size > 0 => input_index < input_size
  /\ input_size = 0 => input_index = 0
  /\ current \in Seq(Bit) /\ Len(current) <= 7

OutputTypeOK ==
  /\ window \in [0 .. WindowSize - 1 -> Byte]
  /\ head_index \in 0 .. INDEX_MOD - 1
  /\ buf_size \in Nat /\ output_size \in 0 .. buf_size
  /\ out \in Seq(Byte)

(***************************************************************************)
(* The type invariant of the decoder, with the bounds that its assertions  *)
(* state (heatshrink_decoder.c:222, 244, 272): the most significant bits   *)
(* are asked for only where there are more than eight, and a distance that *)
(* is used lies inside of the window.                                      *)
(***************************************************************************)
DecoderTypeOK ==
  /\ InputTypeOK /\ OutputTypeOK
  /\ state \in DecoderStates
  /\ poll_res \in {"none", "running", "EMPTY", "MORE"}
  /\ output_count \in Nat /\ output_index \in Nat
  /\ state = "index_msb" => IndexBits > 8
  /\ state = "count_msb" => CountBits > 8
  /\ state = "yield_backref" =>
       /\ output_index \in 1 .. WindowSize
       /\ output_count \in 1 .. 2 ^ CountBits

(***************************************************************************)
(* The bits in the decoder are the last ones sunk, none lost at the end of *)
(* the input buffer and none taken twice (get_bits, heatshrink_decoder.c:  *)
(* 298-316, and the position sink copies to, line 110).                    *)
(***************************************************************************)
UnreadIsSuffix ==
  LET n == input_size - input_index IN
  /\ \A i \in 0 .. n - 1 : input[input_index + i] = stream[sunk - n + i + 1]
  /\ current # << >> =>
       current = SubSeq(Bits(stream[sunk - n]), 9 - Len(current), 8)

(***************************************************************************)
(* The window is a ring that holds the bytes yielded last, zeros from      *)
(* before the first one, however often head_index has wrapped around.      *)
(***************************************************************************)
WindowHoldsOutput ==
  \A d \in 1 .. WindowSize :
    window[Mask(head_index - d)] = IF d <= Len(out) THEN out[Len(out) - d + 1] ELSE 0

=============================================================================
