---------------------- MODULE HeatshrinkDecoderProofs ----------------------
(***************************************************************************)
(* Theorems about the decoder, for every window and lookahead size, every  *)
(* input buffer, every stream and every way to sink and poll it.           *)
(***************************************************************************)
EXTENDS HeatshrinkReference, NumberFacts, SequenceTheorems, TLAPS

(* The powers of two that the sizes of the decoder come to.                *)
Power(n) == 2 ^ n

LEMMA Powers ==
  ASSUME NEW n \in 0 .. 15
  PROVE  /\ Power(n) \in Nat \ {0}
         /\ n = 0 => Power(n) = 1
         /\ n = 1 => Power(n) = 2
         /\ n = 2 => Power(n) = 4
         /\ n = 3 => Power(n) = 8
         /\ n = 4 => Power(n) = 16
         /\ n = 5 => Power(n) = 32
         /\ n = 6 => Power(n) = 64
         /\ n = 7 => Power(n) = 128
         /\ n = 8 => Power(n) = 256
         /\ n = 9 => Power(n) = 512
         /\ n = 10 => Power(n) = 1024
         /\ n = 11 => Power(n) = 2048
         /\ n = 12 => Power(n) = 4096
         /\ n = 13 => Power(n) = 8192
         /\ n = 14 => Power(n) = 16384
         /\ n = 15 => Power(n) = 32768
<1>1. /\ Power(0) = 1 /\ Power(1) = 2 /\ Power(2) = 4 /\ Power(3) = 8
      /\ Power(4) = 16 /\ Power(5) = 32 /\ Power(6) = 64 /\ Power(7) = 128
      /\ Power(8) = 256 /\ Power(9) = 512 /\ Power(10) = 1024
      /\ Power(11) = 2048 /\ Power(12) = 4096 /\ Power(13) = 8192
      /\ Power(14) = 16384 /\ Power(15) = 32768
  BY DEF Power
<1> QED
  BY <1>1

(* A field of more than eight bits is its high part and a byte.            *)
LEMMA WideField ==
  ASSUME NEW n \in 9 .. 15
  PROVE  Power(n) = 256 * Power(n - 8)
<1>1. n - 8 \in 0 .. 15
  OBVIOUS
<1> QED
  BY <1>1, Powers

LEMMA LowBitsFact ==
  ASSUME NEW n \in 3 .. 15
  PROVE  /\ LowBits(n) \in 3 .. 8
         /\ n <= 8 => LowBits(n) = n
         /\ n > 8 => LowBits(n) = 8
BY DEF LowBits

LEMMA Nibble ==
  ASSUME NEW a \in 0 .. 1, NEW b \in 0 .. 1, NEW c \in 0 .. 1, NEW d \in 0 .. 1
  PROVE  /\ a + 2 * b + 4 * c + 8 * d \in 0 .. 15
         /\ d = 0 => a + 2 * b + 4 * c + 8 * d <= 7
         /\ c = 0 /\ d = 0 => a + 2 * b + 4 * c + 8 * d <= 3
         /\ b = 0 /\ c = 0 /\ d = 0 => a + 2 * b + 4 * c + 8 * d <= 1
         /\ a = 0 /\ b = 0 /\ c = 0 /\ d = 0 => a + 2 * b + 4 * c + 8 * d = 0
OBVIOUS

(* A string of at most eight bits is a number below the power of two.      *)
LEMMA NumberBound ==
  ASSUME NEW bits \in Seq(Bit), Len(bits) \in 1 .. 8
  PROVE  Number(bits) \in 0 .. Power(Len(bits)) - 1
<1> DEFINE L == Len(bits)
           At(i) == IF i < L THEN bits[L - i] ELSE 0
<1>1. ASSUME NEW i \in Nat
      PROVE  At(i) \in 0 .. 1 /\ (i >= L => At(i) = 0)
  <2>1. CASE i < L
    <3>1. L - i \in 1 .. L
      BY <2>1
    <3> QED
      BY <2>1, <3>1 DEF Bit
  <2> QED
    BY <2>1
<1>2. Number(bits) = (At(0) + 2 * At(1) + 4 * At(2) + 8 * At(3))
                     + 16 * (At(4) + 2 * At(5) + 4 * At(6) + 8 * At(7))
  BY DEF Number
<1> HIDE DEF At
<1>3. L \in 1 .. 8
  OBVIOUS
<1>4. /\ L = 1 => Power(L) = 2
      /\ L = 2 => Power(L) = 4
      /\ L = 3 => Power(L) = 8
      /\ L = 4 => Power(L) = 16
      /\ L = 5 => Power(L) = 32
      /\ L = 6 => Power(L) = 64
      /\ L = 7 => Power(L) = 128
      /\ L = 8 => Power(L) = 256
  <2> HIDE DEF L
  <2>1. L \in 0 .. 15
    BY <1>3
  <2> QED
    BY <2>1, Powers
<1> HIDE DEF L
<1>5. Number(bits) \in 0 .. Power(L) - 1
  <2>1. /\ At(0) \in 0 .. 1 /\ At(1) \in 0 .. 1 /\ At(2) \in 0 .. 1 /\ At(3) \in 0 .. 1
        /\ At(4) \in 0 .. 1 /\ At(5) \in 0 .. 1 /\ At(6) \in 0 .. 1 /\ At(7) \in 0 .. 1
    BY <1>1
  <2>2. /\ L < 8 => At(7) = 0
        /\ L < 7 => At(6) = 0
        /\ L < 6 => At(5) = 0
        /\ L < 5 => At(4) = 0
        /\ L < 4 => At(3) = 0
        /\ L < 3 => At(2) = 0
        /\ L < 2 => At(1) = 0
    BY <1>1, <1>3
  <2> DEFINE lo == At(0) + 2 * At(1) + 4 * At(2) + 8 * At(3)
             hi == At(4) + 2 * At(5) + 4 * At(6) + 8 * At(7)
  <2>3. /\ lo \in 0 .. 15
        /\ At(3) = 0 => lo <= 7
        /\ At(2) = 0 /\ At(3) = 0 => lo <= 3
        /\ At(1) = 0 /\ At(2) = 0 /\ At(3) = 0 => lo <= 1
    BY <2>1, Nibble
  <2>4. /\ hi \in 0 .. 15
        /\ At(7) = 0 => hi <= 7
        /\ At(6) = 0 /\ At(7) = 0 => hi <= 3
        /\ At(5) = 0 /\ At(6) = 0 /\ At(7) = 0 => hi <= 1
        /\ At(4) = 0 /\ At(5) = 0 /\ At(6) = 0 /\ At(7) = 0 => hi = 0
    BY <2>1, Nibble
  <2>5. Number(bits) = lo + 16 * hi
    BY <1>2
  <2> HIDE DEF lo, hi
  <2> QED
    BY <1>3, <1>4, <2>2, <2>3, <2>4, <2>5
<1> QED
  BY <1>5 DEF L

(* The bits of a byte.                                                     *)
LEMMA BitsOfByte ==
  ASSUME NEW byte \in Byte
  PROVE  Bits(byte) \in Seq(Bit) /\ Len(Bits(byte)) = 8
<1>1. ASSUME NEW i \in 1 .. 8
      PROVE  (byte \div Power(8 - i)) % 2 \in Bit
  <2>1. 8 - i \in 0 .. 15
    OBVIOUS
  <2> DEFINE p == Power(8 - i)
  <2>2. p \in Nat \ {0}
    BY <2>1, Powers
  <2>3. byte \in Int
    BY DEF Byte
  <2> HIDE DEF p
  <2>4. byte \div p \in Int
    BY <2>2, <2>3, DivMod
  <2> DEFINE q == byte \div p
  <2> HIDE DEF q
  <2>5. q \in Int
    BY <2>4 DEF q
  <2>6. q % 2 \in 0 .. 2 - 1
    BY <2>5, DivMod
  <2> QED
    BY <2>6 DEF q, p, Bit
<1>2. Bits(byte) \in [1 .. 8 -> Bit]
  BY <1>1 DEF Bits, Power
<1>3. Bits(byte) \in Seq(Bit)
  BY <1>2, SeqDef, 8 \in Nat
<1>4. DOMAIN Bits(byte) = 1 .. 8
  BY DEF Bits
<1> QED
  BY <1>3, <1>4

-----------------------------------------------------------------------------
(* The sizes of the decoder.                                               *)
LEMMA Sizes ==
  /\ WINDOW_BITS \in 4 .. 15 /\ LOOKAHEAD_BITS \in 3 .. 14
  /\ IndexBits = WINDOW_BITS /\ CountBits = LOOKAHEAD_BITS
  /\ WindowSize = Power(WINDOW_BITS) /\ WindowSize \in Nat \ {0}
  /\ 2 ^ CountBits = Power(LOOKAHEAD_BITS)
  /\ INPUT_BUFFER_SIZE \in Nat \ {0}
<1>1. WINDOW_BITS \in 4 .. 15 /\ LOOKAHEAD_BITS \in 3 .. 14
  BY BitsAssumption
<1>2. WindowSize = Power(WINDOW_BITS) /\ 2 ^ CountBits = Power(LOOKAHEAD_BITS)
  BY DEF WindowSize, Power, CountBits
<1>3. WINDOW_BITS \in 0 .. 15
  BY <1>1
<1>4. WindowSize \in Nat \ {0}
  BY <1>2, <1>3, Powers
<1>5. INPUT_BUFFER_SIZE \in Nat \ {0}
  BY BufferAssumption
<1>6. IndexBits = WINDOW_BITS /\ CountBits = LOOKAHEAD_BITS
  BY DEF IndexBits, CountBits
<1> QED
  BY <1>1, <1>2, <1>4, <1>5, <1>6

(* The bits get_bits takes from: those at hand, and at most a byte more.   *)
LEMMA AtHand ==
  ASSUME InputTypeOK, NEW count \in 1 .. 8, HasBits(count)
  PROVE  /\ BitsAtHand(count) \in Seq(Bit)
         /\ Len(BitsAtHand(count)) =
              IF Len(current) >= count THEN Len(current) ELSE Len(current) + 8
<1>1. current \in Seq(Bit)
  BY DEF InputTypeOK
<1>2. CASE Len(current) >= count
  BY <1>1, <1>2 DEF BitsAtHand
<1>3. CASE ~(Len(current) >= count)
  <2>1. input_size > 0
    BY <1>3 DEF HasBits
  <2>2. input[input_index] \in Byte
    BY <2>1, BufferAssumption DEF InputTypeOK
  <2>3. /\ Bits(input[input_index]) \in Seq(Bit)
        /\ Len(Bits(input[input_index])) = 8
    BY <2>2, BitsOfByte
  <2> DEFINE b == Bits(input[input_index])
  <2>4. BitsAtHand(count) = current \o b
    BY <1>3 DEF BitsAtHand
  <2> HIDE DEF b
  <2>5. b \in Seq(Bit) /\ Len(b) = 8
    BY <2>3 DEF b
  <2>6. current \o b \in Seq(Bit) /\ Len(current \o b) = Len(current) + Len(b)
    BY <1>1, <2>5, ConcatProperties
  <2> QED
    BY <1>3, <2>4, <2>5, <2>6
<1> QED
  BY <1>2, <1>3

LEMMA GetBitsBound ==
  ASSUME InputTypeOK, NEW count \in 1 .. 8, HasBits(count)
  PROVE  GetBits(count) \in 0 .. Power(count) - 1
<1> DEFINE b == BitsAtHand(count)
           t == SubSeq(b, 1, count)
<1>1. b \in Seq(Bit) /\ Len(b) >= count
  <2>1. Len(current) \in Nat
    BY DEF InputTypeOK
  <2> QED
    BY <2>1, AtHand
<1>2. GetBits(count) = Number(t)
  BY DEF GetBits
<1> HIDE DEF b
<1>3. t \in Seq(Bit) /\ Len(t) = count
  BY <1>1
<1> HIDE DEF t
<1> QED
  BY <1>2, <1>3, NumberBound

LEMMA CurrentType ==
  ASSUME InputTypeOK
  PROVE  current \in Seq(Bit) /\ Len(current) \in 0 .. 7
<1> DEFINE n == Len(current)
<1>1. current \in Seq(Bit) /\ n <= 7
  BY DEF InputTypeOK
<1>2. n \in Nat
  BY <1>1, LenProperties
<1> HIDE DEF n
<1>3. n \in 0 .. 7
  BY <1>1, <1>2
<1> QED
  BY <1>1, <1>3 DEF n

(* What get_bits leaves behind is well typed.                              *)
LEMMA TakeBitsType ==
  ASSUME InputTypeOK, NEW count \in 1 .. 8, TakeBits(count),
         stream' = stream, sunk' = sunk
  PROVE  InputTypeOK'
<1> DEFINE b == BitsAtHand(count)
<1>1. HasBits(count)
  BY DEF TakeBits
<1>2. /\ b \in Seq(Bit)
      /\ Len(b) = IF Len(current) >= count THEN Len(current) ELSE Len(current) + 8
  BY <1>1, AtHand
<1>3. current \in Seq(Bit) /\ Len(current) \in 0 .. 7
  BY CurrentType
<1>4. current' = SubSeq(b, count + 1, Len(b))
  BY DEF TakeBits
<1> HIDE DEF b
<1>5. current' \in Seq(Bit) /\ Len(current') <= 7
  <2>1. \A i \in count + 1 .. Len(b) : b[i] \in Bit
    BY <1>2, ElementOfSeq
  <2>2. Len(b) \in Int
    BY <1>2, <1>3
  <2>3. /\ SubSeq(b, count + 1, Len(b)) \in Seq(Bit)
        /\ Len(SubSeq(b, count + 1, Len(b))) =
             IF count + 1 <= Len(b) THEN Len(b) - (count + 1) + 1 ELSE 0
    BY <2>1, <2>2, SubSeqProperties
  <2> QED
    BY <1>2, <1>3, <1>4, <2>3
<1>6. /\ input_size' \in 0 .. INPUT_BUFFER_SIZE
      /\ input_index' \in 0 .. INPUT_BUFFER_SIZE - 1
      /\ input_size' > 0 => input_index' < input_size'
      /\ input_size' = 0 => input_index' = 0
  <2>1. CASE Len(current) >= count
    BY <2>1 DEF TakeBits, InputTypeOK
  <2>2. CASE ~(Len(current) >= count)
    <3>1. input_size > 0
      BY <1>1, <2>2 DEF HasBits
    <3> QED
      BY <2>2, <3>1, BufferAssumption DEF TakeBits, InputTypeOK
  <2> QED
    BY <2>1, <2>2
<1>7. input' = input
  BY DEF TakeBits
<1> QED
  BY <1>5, <1>6, <1>7 DEF InputTypeOK

-----------------------------------------------------------------------------
(* The window is a ring that head_index goes round.                        *)
LEMMA Wrap ==
  /\ INDEX_MOD \in Nat \ {0}
  /\ \E k \in Nat \ {0} : INDEX_MOD = k * WindowSize
<1>1. PICK k \in 1 .. INDEX_MOD : INDEX_MOD = k * WindowSize
  BY WrapAssumption
<1> DEFINE w == WindowSize
<1>2. w \in Nat \ {0}
  BY Sizes
<1> HIDE DEF w
<1>3. k \in Nat \ {0}
  BY <1>1
<1>4. k * w \in Nat \ {0}
  BY <1>2, <1>3, Z3
<1> QED
  BY <1>1, <1>3, <1>4 DEF w

LEMMA MaskRange ==
  ASSUME NEW i \in Int
  PROVE  Mask(i) \in 0 .. WindowSize - 1
BY Sizes, DivMod DEF Mask

LEMMA YieldType ==
  ASSUME OutputTypeOK, NEW c \in Byte, Yield(c), ~BufferFull, buf_size' = buf_size
  PROVE  OutputTypeOK'
<1>1. head_index \in Int /\ head_index + 1 \in Int
  BY Wrap DEF OutputTypeOK
<1>2. head_index' \in 0 .. INDEX_MOD - 1
  BY <1>1, Wrap, DivMod DEF Yield
<1>3. Mask(head_index) \in 0 .. WindowSize - 1
  BY <1>1, MaskRange
<1>4. window' \in [0 .. WindowSize - 1 -> Byte]
  BY <1>3 DEF Yield, OutputTypeOK
<1>5. output_size' \in 0 .. buf_size'
  BY DEF Yield, BufferFull, OutputTypeOK
<1>6. out' \in Seq(Byte)
  BY AppendProperties DEF Yield, OutputTypeOK
<1> QED
  BY <1>2, <1>4, <1>5, <1>6 DEF OutputTypeOK

-----------------------------------------------------------------------------
(***************************************************************************)
(* What is known of a distance and a count while they are being read: what *)
(* is still to be added to them fits.                                      *)
(***************************************************************************)
FieldsFit ==
  /\ state = "index_lsb" =>
       output_index \in 0 .. Power(WINDOW_BITS) - Power(LowBits(WINDOW_BITS))
  /\ state \in {"count_msb", "count_lsb"} => output_index \in 1 .. WindowSize
  /\ state = "count_lsb" =>
       output_count \in 0 .. Power(LOOKAHEAD_BITS) - Power(LowBits(LOOKAHEAD_BITS))

TypeInv == DecoderTypeOK /\ FieldsFit

(* The low part of a field fits the field.                                 *)
LEMMA LowPart ==
  ASSUME NEW n \in 3 .. 15
  PROVE  /\ Power(LowBits(n)) \in Nat \ {0} /\ Power(n) \in Nat \ {0}
         /\ Power(LowBits(n)) <= Power(n)
         /\ LowBits(n) \in 1 .. 8
         /\ n > 8 => Power(LowBits(n)) = 256 /\ n - 8 \in 1 .. 8
         /\ n > 8 => Power(n - 8) \in Nat \ {0} /\ Power(n) = 256 * Power(n - 8)
<1>1. n \in 0 .. 15 /\ LowBits(n) \in 0 .. 15 /\ LowBits(n) \in 1 .. 8
  BY LowBitsFact
<1>2. /\ Power(n) \in Nat \ {0} /\ Power(LowBits(n)) \in Nat \ {0}
  BY <1>1, Powers
<1>3. CASE n <= 8
  BY <1>1, <1>2, <1>3, LowBitsFact
<1>4. CASE n > 8
  <2>1. Power(LowBits(n)) = 256
    BY <1>1, <1>4, LowBitsFact, Powers
  <2>2. n - 8 \in 0 .. 15 /\ n - 8 \in 1 .. 8 /\ n \in 9 .. 15
    BY <1>4
  <2>3. Power(n - 8) \in Nat \ {0} /\ Power(n) = 256 * Power(n - 8)
    BY <2>2, Powers, WideField
  <2> QED
    BY <1>1, <1>2, <2>1, <2>2, <2>3
<1> QED
  BY <1>3, <1>4

LEMMA InitType ==
  ASSUME DecoderInit
  PROVE  TypeInv
<1>1. Zeros \in [0 .. WindowSize - 1 -> Byte]
  BY DEF Zeros, Byte
<1>2. [i \in 0 .. INPUT_BUFFER_SIZE - 1 |-> 0] \in [0 .. INPUT_BUFFER_SIZE - 1 -> Byte]
  BY DEF Byte
<1>3. stream \in Seq(Byte) /\ Len(stream) \in Nat
  BY BufferAssumption, LenProperties DEF DecoderInit
<1>4. InputTypeOK
  BY <1>2, <1>3, Sizes, EmptySeq DEF DecoderInit, InputTypeOK
<1>5. OutputTypeOK
  BY <1>1, Wrap, EmptySeq DEF DecoderInit, OutputTypeOK
<1> QED
  BY <1>4, <1>5 DEF DecoderInit, TypeInv, DecoderTypeOK, FieldsFit, DecoderStates

LEMMA ResetType ==
  ASSUME TypeInv, Reset
  PROVE  TypeInv'
<1>1. Zeros \in [0 .. WindowSize - 1 -> Byte]
  BY DEF Zeros, Byte
<1>2. [i \in 0 .. INPUT_BUFFER_SIZE - 1 |-> 0] \in [0 .. INPUT_BUFFER_SIZE - 1 -> Byte]
  BY DEF Byte
<1>3. stream' \in Seq(Byte) /\ Len(stream') \in Nat
  BY BufferAssumption, LenProperties DEF Reset
<1>4. InputTypeOK'
  BY <1>2, <1>3, Sizes, EmptySeq DEF Reset, InputTypeOK
<1>5. OutputTypeOK'
  BY <1>1, Wrap, EmptySeq DEF Reset, OutputTypeOK
<1> QED
  BY <1>4, <1>5 DEF Reset, TypeInv, DecoderTypeOK, FieldsFit, DecoderStates

LEMMA SinkType ==
  ASSUME TypeInv, NEW n \in 1 .. SINK_MAX, Sink(n)
  PROVE  TypeInv'
<1>1. SinkSize(n) \in 1 .. n /\ SinkSize(n) <= SinkRoom
  BY Sizes, BufferAssumption DEF SinkSize, SinkRoom, Sink, TypeInv, DecoderTypeOK, InputTypeOK
<1>2. stream \in Seq(Byte) /\ Len(stream) \in Nat /\ sunk \in Nat /\ stream' = stream
  BY BufferAssumption, LenProperties DEF Sink, TypeInv, DecoderTypeOK, InputTypeOK
<1>3. sunk' \in 0 .. Len(stream)
  BY <1>1, <1>2, BufferAssumption DEF Sink, TypeInv, DecoderTypeOK, InputTypeOK
<1>4. input_size' \in 1 .. INPUT_BUFFER_SIZE /\ input_size' >= input_size
  <2>1. input_size \in 0 .. INPUT_BUFFER_SIZE
    BY DEF TypeInv, DecoderTypeOK, InputTypeOK
  <2>2. input_size' = input_size + SinkSize(n)
    BY DEF Sink
  <2>3. SinkSize(n) \in Nat /\ SinkSize(n) >= 1 /\ SinkSize(n) <= INPUT_BUFFER_SIZE - input_size
    BY <1>1, <2>1, Sizes, BufferAssumption DEF SinkRoom
  <2> QED
    BY <2>1, <2>2, <2>3, Sizes
<1>5. input' \in [0 .. INPUT_BUFFER_SIZE - 1 -> Byte]
  <2>1. ASSUME NEW i \in 0 .. INPUT_BUFFER_SIZE - 1,
               i \in SinkAt .. SinkAt + SinkSize(n) - 1
        PROVE  stream[sunk + i - SinkAt + 1] \in Byte
    <3>1. sunk + i - SinkAt + 1 \in 1 .. Len(stream)
      <4>1. n <= Len(stream) - sunk /\ n \in Nat
        BY BufferAssumption DEF Sink
      <4>2. input_size \in Int /\ SinkAt = input_size
        BY DEF SinkAt, TypeInv, DecoderTypeOK, InputTypeOK
      <4> QED
        BY <1>1, <1>2, <2>1, <4>1, <4>2
    <3> QED
      BY <1>2, <3>1, ElementOfSeq
  <2>2. input \in [0 .. INPUT_BUFFER_SIZE - 1 -> Byte]
    BY DEF TypeInv, DecoderTypeOK, InputTypeOK
  <2> QED
    BY <2>1, <2>2 DEF Sink
<1>6. InputTypeOK'
  <2>1. /\ input_size \in 0 .. INPUT_BUFFER_SIZE
        /\ input_index \in 0 .. INPUT_BUFFER_SIZE - 1
        /\ input_size > 0 => input_index < input_size
        /\ input_size = 0 => input_index = 0
        /\ current \in Seq(Bit) /\ Len(current) <= 7 /\ stream \in Streams
    BY DEF TypeInv, DecoderTypeOK, InputTypeOK
  <2>2. input_index' = input_index /\ current' = current
    BY DEF Sink
  <2>3. input_index' < input_size'
    BY <1>4, <2>1, <2>2, Sizes
  <2> QED
    BY <1>2, <1>3, <1>4, <1>5, <2>1, <2>2, <2>3, Sizes DEF InputTypeOK
<1>7. OutputTypeOK'
  BY DEF Sink, yield_vars, TypeInv, DecoderTypeOK, OutputTypeOK
<1> QED
  BY <1>6, <1>7 DEF Sink, token_vars, TypeInv, DecoderTypeOK, FieldsFit, DecoderStates

LEMMA PollStartType ==
  ASSUME TypeInv, NEW size \in PollSizes, PollStart(size)
  PROVE  TypeInv'
<1>1. size \in Nat
  BY BufferAssumption
<1>2. InputTypeOK'
  BY DEF PollStart, input_vars, TypeInv, DecoderTypeOK, InputTypeOK
<1>3. OutputTypeOK'
  BY <1>1 DEF PollStart, TypeInv, DecoderTypeOK, OutputTypeOK
<1> QED
  BY <1>2, <1>3 DEF PollStart, token_vars, TypeInv, DecoderTypeOK, FieldsFit

LEMMA TagBitType ==
  ASSUME TypeInv, TagBit
  PROVE  TypeInv'
<1>1. InputTypeOK' /\ OutputTypeOK'
  <2>1. InputTypeOK'
    BY TakeBitsType DEF TagBit, caller_vars, TypeInv, DecoderTypeOK
  <2> QED
    BY <2>1 DEF TagBit, caller_vars, yield_vars, TypeInv, DecoderTypeOK, OutputTypeOK
<1>2. 0 \in 0 .. Power(WINDOW_BITS) - Power(LowBits(WINDOW_BITS))
  <2>1. WINDOW_BITS \in 3 .. 15
    BY Sizes
  <2> QED
    BY <2>1, LowPart
<1> QED
  BY <1>1, <1>2
  DEF TagBit, caller_vars, TypeInv, DecoderTypeOK, FieldsFit, DecoderStates

LEMMA YieldLiteralType ==
  ASSUME TypeInv, YieldLiteral
  PROVE  TypeInv'
<1>1. HasBits(8)
  BY DEF YieldLiteral, TakeBits
<1>2. GetBits(8) \in 0 .. Power(8) - 1
  BY <1>1, GetBitsBound DEF TypeInv, DecoderTypeOK
<1>3. GetBits(8) \in Byte
  BY <1>2, Powers DEF Byte
<1>4. InputTypeOK'
  BY TakeBitsType DEF YieldLiteral, caller_vars, TypeInv, DecoderTypeOK
<1>5. OutputTypeOK'
  BY <1>3, YieldType DEF YieldLiteral, caller_vars, TypeInv, DecoderTypeOK
<1> QED
  BY <1>4, <1>5
  DEF YieldLiteral, caller_vars, token_vars, TypeInv, DecoderTypeOK, FieldsFit, DecoderStates

LEMMA IndexMsbType ==
  ASSUME TypeInv, IndexMsb
  PROVE  TypeInv'
<1> DEFINE v == GetBits(IndexBits - 8)
<1>1. WINDOW_BITS \in 9 .. 15 /\ WINDOW_BITS \in 3 .. 15 /\ IndexBits = WINDOW_BITS
  BY Sizes DEF IndexMsb, In, TypeInv, DecoderTypeOK
<1>2. /\ WINDOW_BITS - 8 \in 1 .. 8
      /\ Power(LowBits(WINDOW_BITS)) = 256
      /\ Power(WINDOW_BITS - 8) \in Nat \ {0}
      /\ Power(WINDOW_BITS) = 256 * Power(WINDOW_BITS - 8)
  BY <1>1, LowPart
<1>3. v \in 0 .. Power(WINDOW_BITS - 8) - 1
  BY <1>1, <1>2, GetBitsBound DEF IndexMsb, TakeBits, TypeInv, DecoderTypeOK
<1>4. InputTypeOK'
  BY <1>1, <1>2, TakeBitsType DEF IndexMsb, caller_vars, TypeInv, DecoderTypeOK
<1>5. OutputTypeOK'
  BY DEF IndexMsb, caller_vars, yield_vars, TypeInv, DecoderTypeOK, OutputTypeOK
<1>6. output_index' = 256 * v
  BY DEF IndexMsb
<1> HIDE DEF v
<1>7. output_index' \in 0 .. Power(WINDOW_BITS) - Power(LowBits(WINDOW_BITS))
  BY <1>2, <1>3, <1>6
<1> QED
  BY <1>4, <1>5, <1>7
  DEF IndexMsb, caller_vars, TypeInv, DecoderTypeOK, FieldsFit, DecoderStates

LEMMA IndexLsbType ==
  ASSUME TypeInv, IndexLsb
  PROVE  TypeInv'
<1> DEFINE n == LowBits(WINDOW_BITS)
           v == GetBits(n)
<1>1. WINDOW_BITS \in 3 .. 15 /\ IndexBits = WINDOW_BITS /\ WindowSize = Power(WINDOW_BITS)
  BY Sizes
<1>2. /\ n \in 1 .. 8 /\ Power(n) \in Nat \ {0} /\ Power(WINDOW_BITS) \in Nat \ {0}
      /\ Power(n) <= Power(WINDOW_BITS)
  BY <1>1, LowPart
<1>3. v \in 0 .. Power(n) - 1
  BY <1>1, <1>2, GetBitsBound DEF IndexLsb, TakeBits, TypeInv, DecoderTypeOK
<1>4. InputTypeOK'
  BY <1>1, <1>2, TakeBitsType DEF IndexLsb, caller_vars, TypeInv, DecoderTypeOK
<1>5. OutputTypeOK'
  BY DEF IndexLsb, caller_vars, yield_vars, TypeInv, DecoderTypeOK, OutputTypeOK
<1>6. output_index' = output_index + v + 1
  BY <1>1 DEF IndexLsb
<1>7. output_index \in 0 .. Power(WINDOW_BITS) - Power(n)
  BY DEF IndexLsb, In, TypeInv, FieldsFit
<1> HIDE DEF v, n
<1>8. output_index' \in 1 .. WindowSize /\ output_index' \in Nat
  BY <1>1, <1>2, <1>3, <1>6, <1>7
<1>9. 0 \in 0 .. Power(LOOKAHEAD_BITS) - Power(LowBits(LOOKAHEAD_BITS))
  <2>1. LOOKAHEAD_BITS \in 3 .. 15
    BY Sizes
  <2> QED
    BY <2>1, LowPart
<1> QED
  BY <1>4, <1>5, <1>8, <1>9
  DEF IndexLsb, caller_vars, TypeInv, DecoderTypeOK, FieldsFit, DecoderStates

LEMMA CountMsbType ==
  ASSUME TypeInv, CountMsb
  PROVE  TypeInv'
<1> DEFINE v == GetBits(CountBits - 8)
<1>1. LOOKAHEAD_BITS \in 9 .. 15 /\ LOOKAHEAD_BITS \in 3 .. 15 /\ CountBits = LOOKAHEAD_BITS
  BY Sizes DEF CountMsb, In, TypeInv, DecoderTypeOK
<1>2. /\ LOOKAHEAD_BITS - 8 \in 1 .. 8
      /\ Power(LowBits(LOOKAHEAD_BITS)) = 256
      /\ Power(LOOKAHEAD_BITS - 8) \in Nat \ {0}
      /\ Power(LOOKAHEAD_BITS) = 256 * Power(LOOKAHEAD_BITS - 8)
  BY <1>1, LowPart
<1>3. v \in 0 .. Power(LOOKAHEAD_BITS - 8) - 1
  BY <1>1, <1>2, GetBitsBound DEF CountMsb, TakeBits, TypeInv, DecoderTypeOK
<1>4. InputTypeOK'
  BY <1>1, <1>2, TakeBitsType DEF CountMsb, caller_vars, TypeInv, DecoderTypeOK
<1>5. OutputTypeOK'
  BY DEF CountMsb, caller_vars, yield_vars, TypeInv, DecoderTypeOK, OutputTypeOK
<1>6. output_count' = 256 * v
  BY DEF CountMsb
<1> HIDE DEF v
<1>7. /\ output_count' \in 0 .. Power(LOOKAHEAD_BITS) - Power(LowBits(LOOKAHEAD_BITS))
      /\ output_count' \in Nat
  BY <1>2, <1>3, <1>6
<1> QED
  BY <1>4, <1>5, <1>7
  DEF CountMsb, In, caller_vars, TypeInv, DecoderTypeOK, FieldsFit, DecoderStates

LEMMA CountLsbType ==
  ASSUME TypeInv, CountLsb
  PROVE  TypeInv'
<1> DEFINE n == LowBits(LOOKAHEAD_BITS)
           v == GetBits(n)
<1>1. /\ LOOKAHEAD_BITS \in 3 .. 15 /\ CountBits = LOOKAHEAD_BITS
      /\ 2 ^ CountBits = Power(LOOKAHEAD_BITS)
  BY Sizes
<1>2. /\ n \in 1 .. 8 /\ Power(n) \in Nat \ {0} /\ Power(LOOKAHEAD_BITS) \in Nat \ {0}
      /\ Power(n) <= Power(LOOKAHEAD_BITS)
  BY <1>1, LowPart
<1>3. v \in 0 .. Power(n) - 1
  BY <1>1, <1>2, GetBitsBound DEF CountLsb, TakeBits, TypeInv, DecoderTypeOK
<1>4. InputTypeOK'
  BY <1>1, <1>2, TakeBitsType DEF CountLsb, caller_vars, TypeInv, DecoderTypeOK
<1>5. OutputTypeOK'
  BY DEF CountLsb, caller_vars, yield_vars, TypeInv, DecoderTypeOK, OutputTypeOK
<1>6. output_count' = output_count + v + 1
  BY <1>1 DEF CountLsb
<1>7. output_count \in 0 .. Power(LOOKAHEAD_BITS) - Power(n)
  BY DEF CountLsb, In, TypeInv, FieldsFit
<1> HIDE DEF v, n
<1>8. output_count' \in 1 .. Power(LOOKAHEAD_BITS) /\ output_count' \in Nat
  BY <1>1, <1>2, <1>3, <1>6, <1>7
<1>9. output_count' \in 1 .. 2 ^ CountBits
  BY <1>1, <1>8
<1>10. output_index \in 1 .. WindowSize /\ output_index' = output_index
  BY DEF CountLsb, In, TypeInv, FieldsFit
<1> QED
  BY <1>4, <1>5, <1>8, <1>9, <1>10
  DEF CountLsb, caller_vars, TypeInv, DecoderTypeOK, FieldsFit, DecoderStates

LEMMA YieldBackrefType ==
  ASSUME TypeInv, YieldBackref
  PROVE  TypeInv'
<1> DEFINE c == window[Mask(head_index - output_index)]
           limit == 2 ^ CountBits
<1>1. /\ output_index \in 1 .. WindowSize /\ output_count \in 1 .. limit
      /\ output_index \in Nat /\ output_count \in Nat
  BY DEF YieldBackref, In, TypeInv, DecoderTypeOK
<1>2. head_index - output_index \in Int
  BY <1>1, Wrap DEF TypeInv, DecoderTypeOK, OutputTypeOK
<1>3. c \in Byte
  BY <1>2, MaskRange DEF TypeInv, DecoderTypeOK, OutputTypeOK
<1>4. Yield(c) /\ ~BufferFull /\ buf_size' = buf_size
  BY DEF YieldBackref, caller_vars
<1>5. OutputTypeOK'
  BY <1>3, <1>4, YieldType DEF TypeInv, DecoderTypeOK
<1>6. InputTypeOK'
  BY DEF YieldBackref, caller_vars, input_vars, TypeInv, DecoderTypeOK, InputTypeOK
<1>7. limit \in Nat
  BY Sizes, Powers
<1> HIDE DEF c, limit
<1>8. /\ output_count' \in Nat /\ output_index' = output_index
      /\ state' = "yield_backref" => output_count' \in 1 .. limit
  BY <1>1, <1>7 DEF YieldBackref
<1> QED
  BY <1>1, <1>5, <1>6, <1>8
  DEF YieldBackref, caller_vars, TypeInv, DecoderTypeOK, FieldsFit, DecoderStates, limit

LEMMA PollReturnType ==
  ASSUME TypeInv, PollReturn
  PROVE  TypeInv'
<1>1. InputTypeOK' /\ OutputTypeOK'
  BY DEF PollReturn, input_vars, yield_vars, TypeInv, DecoderTypeOK, InputTypeOK, OutputTypeOK
<1> QED
  BY <1>1 DEF PollReturn, token_vars, TypeInv, DecoderTypeOK, FieldsFit

LEMMA StutterType ==
  ASSUME TypeInv, UNCHANGED decoder_vars
  PROVE  TypeInv'
<1>1. InputTypeOK' /\ OutputTypeOK'
  BY DEF decoder_vars, input_vars, TypeInv, DecoderTypeOK, InputTypeOK, OutputTypeOK
<1> QED
  BY <1>1 DEF decoder_vars, token_vars, TypeInv, DecoderTypeOK, FieldsFit

LEMMA StepType ==
  ASSUME TypeInv, [DecoderNext]_decoder_vars
  PROVE  TypeInv'
<1>1. CASE Reset
  BY <1>1, ResetType
<1>2. CASE \E n \in 1 .. SINK_MAX : Sink(n)
  BY <1>2, SinkType
<1>3. CASE \E size \in PollSizes : PollStart(size)
  BY <1>3, PollStartType
<1>4. CASE PollStep
  BY <1>4, TagBitType, YieldLiteralType, YieldBackrefType, IndexMsbType,
     IndexLsbType, CountMsbType, CountLsbType, PollReturnType DEF PollStep
<1>5. CASE UNCHANGED decoder_vars
  BY <1>5, StutterType
<1> QED
  BY <1>1, <1>2, <1>3, <1>4, <1>5 DEF DecoderNext

(***************************************************************************)
(* The decoder is well typed, and its assertions hold (heatshrink_decoder.c*)
(* :222, 244, 272): for every window and lookahead size no index leaves    *)
(* the input buffer, the window or the caller's buffer, no distance the    *)
(* window, and no field is asked for in a state it does not have.          *)
(***************************************************************************)
THEOREM TypeCorrect == DecoderSpec => []DecoderTypeOK
<1>1. DecoderInit => TypeInv
  BY InitType
<1>2. TypeInv /\ [DecoderNext]_decoder_vars => TypeInv'
  BY StepType
<1>3. TypeInv => DecoderTypeOK
  BY DEF TypeInv
<1> QED
  BY <1>1, <1>2, <1>3, PTL DEF DecoderSpec


-----------------------------------------------------------------------------
(* Going back e cells of the window, but not all of them, leads elsewhere. *)
LEMMA Elsewhere ==
  ASSUME NEW x \in Int, NEW e \in 1 .. WindowSize - 1
  PROVE  Mask(x - e) # Mask(x)
<1> DEFINE w == WindowSize
           a == x \div w
           b == (x - e) \div w
<1>1. w \in Nat \ {0}
  BY Sizes
<1>2. x - e \in Int
  OBVIOUS
<1> HIDE DEF w
<1>3. a \in Int /\ b \in Int /\ x = w * a + (x % w) /\ x - e = w * b + ((x - e) % w)
  BY <1>1, <1>2, DivMod
<1>4. e \in 1 .. w - 1
  BY DEF w
<1> SUFFICES ASSUME (x - e) % w = x % w
             PROVE  FALSE
  BY DEF Mask, w
<1> HIDE DEF a, b
<1> DEFINE m == x % w
<1>5. m \in 0 .. w - 1 /\ x = w * a + m /\ x - e = w * b + m
  BY <1>1, <1>3, DivMod
<1> HIDE DEF m
<1> DEFINE p == w * a
           q == w * b
<1>6. x = p + m /\ x - e = q + m
  BY <1>5
<1>7. p \in Int /\ q \in Int
  BY <1>1, <1>3, Z3
<1>8. q < p
  <2> HIDE DEF p, q
  <2> QED
    BY <1>4, <1>5, <1>6, <1>7
<1>9. b < a
  BY <1>1, <1>3, <1>8, ProductOrder
<1>10. q + w <= p
  BY <1>1, <1>3, <1>9, ProductGap
<1> HIDE DEF p, q
<1> QED
  BY <1>1, <1>4, <1>5, <1>6, <1>7, <1>10

(* head_index may wrap: the cell it stands for does not change by it.      *)
LEMMA WrappedMask ==
  ASSUME NEW x \in Int, NEW d \in Int
  PROVE  Mask((x % INDEX_MOD) - d) = Mask(x - d)
<1> DEFINE w == WindowSize
<1>1. PICK k \in Nat \ {0} : INDEX_MOD = k * w
  BY Wrap
<1>2. w \in Nat \ {0} /\ INDEX_MOD \in Nat \ {0}
  BY Sizes, Wrap
<1> HIDE DEF w
<1> DEFINE q == x \div INDEX_MOD
           r == x % INDEX_MOD
           a == (x - d) \div w
           m == (x - d) % w
<1>3. q \in Int /\ r \in Int /\ x = INDEX_MOD * q + r
  BY <1>2, DivMod
<1>4. x - d \in Int
  OBVIOUS
<1>5. a \in Int /\ m \in 0 .. w - 1 /\ x - d = w * a + m
  BY <1>2, <1>4, DivMod
<1> HIDE DEF q, r, a, m
<1>6. INDEX_MOD * q = w * (k * q) /\ k * q \in Int
  BY <1>1, <1>2, <1>3, Z3
<1> DEFINE j == k * q
<1>7. j \in Int /\ INDEX_MOD * q = w * j
  BY <1>6
<1> HIDE DEF j
<1>8. w * (a - j) = w * a - w * j /\ a - j \in Int
  BY <1>2, <1>5, <1>7, Z3
<1>9. w * a \in Int /\ w * j \in Int
  BY <1>2, <1>5, <1>7, Z3
<1> DEFINE p == w * a
           u == w * j
<1>10. /\ p \in Int /\ u \in Int
       /\ x - d = p + m /\ x = u + r /\ w * (a - j) = p - u
  BY <1>3, <1>5, <1>7, <1>8, <1>9
<1> HIDE DEF p, u
<1>11. r - d = w * (a - j) + m
  BY <1>3, <1>5, <1>10
<1>12. (r - d) % w = m
  BY <1>2, <1>5, <1>8, <1>11, RemainderUnique
<1> QED
  BY <1>12 DEF Mask, m, r, w

(* The byte that is yielded takes the place of the oldest one.             *)
LEMMA YieldHolds ==
  ASSUME OutputTypeOK, WindowHoldsOutput, NEW c \in Byte, Yield(c)
  PROVE  WindowHoldsOutput'
<1> DEFINE L == Len(out)
<1>1. head_index \in Int /\ head_index + 1 \in Int
  BY Wrap DEF OutputTypeOK
<1>2. WindowSize \in Nat \ {0}
  BY Sizes
<1>3. /\ out \in Seq(Byte) /\ L \in Nat
      /\ window \in [0 .. WindowSize - 1 -> Byte]
  BY LenProperties DEF OutputTypeOK
<1>4. /\ out' = Append(out, c) /\ head_index' = (head_index + 1) % INDEX_MOD
      /\ window' = [window EXCEPT ![Mask(head_index)] = c]
  BY DEF Yield
<1>5. /\ Len(out') = L + 1 /\ out'[L + 1] = c
      /\ \A i \in 1 .. L : out'[i] = out[i]
  BY <1>3, <1>4, AppendProperties
<1> SUFFICES ASSUME NEW d \in 1 .. WindowSize
             PROVE  window'[Mask(head_index' - d)]
                      = IF d <= Len(out') THEN out'[Len(out') - d + 1] ELSE 0
  BY DEF WindowHoldsOutput, WindowSize, Mask
<1> DEFINE e == d - 1
<1>6. e \in Int /\ d \in Int /\ e \in 0 .. WindowSize - 1
  BY <1>2
<1>7. Mask(head_index' - d) = Mask(head_index - e)
  <2>1. Mask(head_index' - d) = Mask(head_index + 1 - d)
    BY <1>1, <1>4, <1>6, WrappedMask
  <2>2. head_index + 1 - d = head_index - e
    BY <1>1, <1>6
  <2> QED
    BY <2>1, <2>2
<1>8. Mask(head_index) \in 0 .. WindowSize - 1 /\ Mask(head_index - e) \in 0 .. WindowSize - 1
  BY <1>1, <1>6, MaskRange
<1>9. CASE e = 0
  <2>1. head_index - e = head_index
    BY <1>1, <1>9
  <2>2. window'[Mask(head_index)] = c
    BY <1>3, <1>4, <1>8
  <2>3. d = 1
    BY <1>9
  <2>4. d <= Len(out') /\ Len(out') - d + 1 = L + 1
    BY <1>3, <1>5, <2>3
  <2> QED
    BY <1>5, <1>7, <2>1, <2>2, <2>4
<1>10. CASE e # 0
  <2>1. e \in 1 .. WindowSize - 1 /\ e \in 1 .. WindowSize
    BY <1>2, <1>6, <1>10
  <2>2. Mask(head_index - e) # Mask(head_index)
    BY <1>1, <2>1, Elsewhere
  <2>3. window'[Mask(head_index - e)] = window[Mask(head_index - e)]
    BY <1>3, <1>4, <1>8, <2>2
  <2>4. window[Mask(head_index - e)] = IF e <= L THEN out[L - e + 1] ELSE 0
    BY <2>1 DEF WindowHoldsOutput
  <2>5. CASE e <= L
    <3>1. d <= Len(out') /\ Len(out') - d + 1 = L - e + 1 /\ L - e + 1 \in 1 .. L
      BY <1>3, <1>5, <1>6, <2>1, <2>5
    <3> QED
      BY <1>5, <1>7, <2>3, <2>4, <2>5, <3>1
  <2>6. CASE ~(e <= L)
    <3>1. ~(d <= Len(out'))
      BY <1>3, <1>5, <1>6, <2>6
    <3> QED
      BY <1>7, <2>3, <2>4, <2>6, <3>1
  <2> QED
    BY <2>5, <2>6
<1> QED
  BY <1>9, <1>10

(* Before anything is yielded all of the window is zero.                   *)
LEMMA FreshHolds ==
  /\ DecoderInit => WindowHoldsOutput
  /\ Reset => WindowHoldsOutput'
<1>1. ASSUME NEW d \in 1 .. WindowSize
      PROVE  Zeros[Mask(0 - d)] = 0 /\ ~(d <= 0)
  <2>1. d \in Int /\ 0 - d \in Int
    OBVIOUS
  <2>2. Mask(0 - d) \in 0 .. WindowSize - 1
    BY <2>1, MaskRange
  <2> QED
    BY <2>2 DEF Zeros
<1>2. Len(<< >>) = 0
  OBVIOUS
<1>3. ASSUME DecoderInit
      PROVE  WindowHoldsOutput
  <2>1. head_index = 0 /\ window = Zeros /\ out = << >>
    BY <1>3 DEF DecoderInit
  <2> QED
    BY <1>1, <1>2, <2>1 DEF WindowHoldsOutput
<1>4. ASSUME Reset
      PROVE  WindowHoldsOutput'
  <2>1. head_index' = 0 /\ window' = Zeros /\ out' = << >>
    BY <1>4 DEF Reset
  <2> QED
    BY <1>1, <1>2, <2>1 DEF WindowHoldsOutput, Mask, WindowSize
<1> QED
  BY <1>3, <1>4

LEMMA StepHolds ==
  ASSUME TypeInv, WindowHoldsOutput, [DecoderNext]_decoder_vars
  PROVE  WindowHoldsOutput'
<1>1. CASE Reset
  BY <1>1, FreshHolds
<1>2. CASE YieldLiteral
  <2>1. GetBits(8) \in Byte
    <3>1. HasBits(8)
      BY <1>2 DEF YieldLiteral, TakeBits
    <3>2. GetBits(8) \in 0 .. Power(8) - 1
      BY <3>1, GetBitsBound DEF TypeInv, DecoderTypeOK
    <3> QED
      BY <3>2, Powers DEF Byte
  <2> QED
    BY <1>2, <2>1, YieldHolds DEF YieldLiteral, TypeInv, DecoderTypeOK
<1>3. CASE YieldBackref
  <2>1. window[Mask(head_index - output_index)] \in Byte
    <3>1. head_index - output_index \in Int
      BY Wrap DEF TypeInv, DecoderTypeOK, OutputTypeOK
    <3> QED
      BY <3>1, MaskRange DEF TypeInv, DecoderTypeOK, OutputTypeOK
  <2> QED
    BY <1>3, <2>1, YieldHolds DEF YieldBackref, TypeInv, DecoderTypeOK
<1>4. CASE UNCHANGED << head_index, window, out >>
  BY <1>4 DEF WindowHoldsOutput, Mask, WindowSize
<1>5. ASSUME NEW n \in 1 .. SINK_MAX, Sink(n)
      PROVE  UNCHANGED << head_index, window, out >>
  BY <1>5 DEF Sink, yield_vars
<1>6. ASSUME NEW size \in PollSizes, PollStart(size)
      PROVE  UNCHANGED << head_index, window, out >>
  BY <1>6 DEF PollStart
<1>7. CASE TagBit \/ IndexMsb \/ IndexLsb \/ CountMsb \/ CountLsb \/ PollReturn
  BY <1>4, <1>7
  DEF TagBit, IndexMsb, IndexLsb, CountMsb, CountLsb, PollReturn, yield_vars
<1>8. CASE UNCHANGED decoder_vars
  BY <1>4, <1>8 DEF decoder_vars
<1> QED
  BY <1>1, <1>2, <1>3, <1>4, <1>5, <1>6, <1>7, <1>8 DEF DecoderNext, PollStep

(***************************************************************************)
(* A back-reference reads what was yielded so many bytes ago: the window   *)
(* and the bytes yielded agree after any number of bytes, around the end   *)
(* of the window and of the range of head_index (heatshrink_decoder.c:     *)
(* 232-244 and 281-289).                                                   *)
(***************************************************************************)
THEOREM WindowIsOutput == DecoderSpec => []WindowHoldsOutput
<1>1. DecoderInit => TypeInv /\ WindowHoldsOutput
  BY InitType, FreshHolds
<1>2. TypeInv /\ WindowHoldsOutput /\ [DecoderNext]_decoder_vars
        => (TypeInv /\ WindowHoldsOutput)'
  BY StepType, StepHolds
<1> QED
  BY <1>1, <1>2, PTL DEF DecoderSpec

-----------------------------------------------------------------------------
(* The bytes waiting in the input buffer, and the last one taken from it,  *)
(* have all been sunk.                                                     *)
Waiting == input_size - input_index

SunkCovers ==
  /\ Waiting \in 0 .. sunk
  /\ current # << >> => Waiting < sunk

BitsInv == UnreadIsSuffix /\ SunkCovers

input_side == << stream, sunk, input, input_size, input_index, current >>

LEMMA FreshBits ==
  /\ DecoderInit => BitsInv
  /\ Reset => BitsInv'
BY DEF DecoderInit, Reset, BitsInv, UnreadIsSuffix, SunkCovers, Waiting

LEMMA KeptBits ==
  ASSUME BitsInv, UNCHANGED input_side
  PROVE  BitsInv'
BY DEF input_side, BitsInv, UnreadIsSuffix, SunkCovers, Waiting, Bits

(* What is sunk follows on what waits in the buffer.                       *)
LEMMA SinkBits ==
  ASSUME InputTypeOK, BitsInv, NEW n \in 1 .. SINK_MAX, Sink(n)
  PROVE  BitsInv'
<1> DEFINE k == SinkSize(n)
           w == Waiting
<1>1. /\ input_size \in 0 .. INPUT_BUFFER_SIZE /\ INPUT_BUFFER_SIZE \in Nat
      /\ input_index \in Nat /\ sunk \in Nat
      /\ DOMAIN input = 0 .. INPUT_BUFFER_SIZE - 1
  BY Sizes, BufferAssumption DEF InputTypeOK
<1>2. k \in Nat /\ k >= 1 /\ k <= INPUT_BUFFER_SIZE - input_size
  BY <1>1, BufferAssumption DEF SinkSize, SinkRoom, Sink
<1>3. w \in 0 .. sunk /\ w = input_size - input_index
  BY DEF BitsInv, SunkCovers, Waiting
<1>4. /\ stream' = stream /\ sunk' = sunk + k /\ input_size' = input_size + k
      /\ input_index' = input_index /\ current' = current
      /\ input' = [i \in DOMAIN input |->
                     IF i \in input_size .. input_size + k - 1
                     THEN stream[sunk + i - input_size + 1] ELSE input[i]]
  BY DEF Sink, SinkAt
<1> HIDE DEF k, w
<1>5. input_size' - input_index' = w + k /\ sunk' - (w + k) = sunk - w
  BY <1>1, <1>2, <1>3, <1>4
<1>6. SunkCovers'
  <2>1. w + k \in 0 .. sunk + k
    BY <1>1, <1>2, <1>3
  <2>2. current # << >> => w < sunk
    BY DEF BitsInv, SunkCovers, w
  <2>3. current # << >> => w + k < sunk + k
    BY <1>1, <1>2, <1>3, <2>2
  <2> QED
    BY <1>4, <1>5, <2>1, <2>3 DEF SunkCovers, Waiting
<1>7. ASSUME NEW i \in 0 .. (w + k) - 1
      PROVE  input'[input_index + i] = stream[sunk - w + i + 1]
  <2>1. CASE i < w
    <3>1. i \in 0 .. w - 1
      BY <1>2, <1>3, <2>1
    <3>2. input[input_index + i] = stream[sunk - w + i + 1]
      BY <1>3, <3>1 DEF BitsInv, UnreadIsSuffix
    <3>3. /\ input_index + i \in 0 .. INPUT_BUFFER_SIZE - 1
          /\ ~(input_index + i \in input_size .. input_size + k - 1)
      BY <1>1, <1>2, <1>3, <3>1
    <3> QED
      BY <1>1, <1>4, <3>2, <3>3
  <2>2. CASE ~(i < w)
    <3>1. /\ input_index + i \in 0 .. INPUT_BUFFER_SIZE - 1
          /\ input_index + i \in input_size .. input_size + k - 1
          /\ sunk + (input_index + i) - input_size + 1 = sunk - w + i + 1
      BY <1>1, <1>2, <1>3, <2>2
    <3> QED
      BY <1>1, <1>4, <3>1
  <2> QED
    BY <2>1, <2>2
<1>8. current # << >> =>
        current = SubSeq(Bits(stream[sunk - w]), 9 - Len(current), 8)
  BY <1>3 DEF BitsInv, UnreadIsSuffix
<1>9. UnreadIsSuffix'
  BY <1>4, <1>5, <1>7, <1>8 DEF UnreadIsSuffix, Bits
<1> QED
  BY <1>6, <1>9 DEF BitsInv

(* The end of the end of a byte, and of what follows on other bits.        *)
LEMMA EndOfByte ==
  ASSUME NEW b \in Seq(Bit), Len(b) = 8, NEW i \in 1 .. 8
  PROVE  /\ \A m \in 1 .. 9 - i : SubSeq(SubSeq(b, i, 8), m, 9 - i) = SubSeq(b, i + m - 1, 8)
         /\ SubSeq(b, i, 8) \in Seq(Bit)
         /\ Len(SubSeq(b, i, 8)) = 9 - i
         /\ \A k \in i .. 8 : b[k] \in Bit
<1>1. ASSUME NEW k \in i .. 8
      PROVE  b[k] \in Bit
  <2>1. k \in 1 .. Len(b)
    OBVIOUS
  <2> QED
    BY <2>1, ElementOfSeq
<1>2. SubSeq(b, i, 8) \in Seq(Bit) /\ Len(SubSeq(b, i, 8)) = 9 - i
  <2>1. i \in Int /\ 8 \in Int /\ i <= 8 /\ 8 - i + 1 = 9 - i
    OBVIOUS
  <2> QED
    BY <1>1, <2>1, SubSeqProperties
<1>3. ASSUME NEW m \in 1 .. 9 - i
      PROVE  SubSeq(SubSeq(b, i, 8), m, 9 - i) = SubSeq(b, i + m - 1, 8)
  <2>1. /\ i \in 1 .. Len(b) /\ 8 \in 1 .. Len(b)
        /\ m \in 1 .. 8 - i + 1 /\ 9 - i \in 1 .. 8 - i + 1
    OBVIOUS
  <2>2. SubSeq(SubSeq(b, i, 8), m, 9 - i) = SubSeq(b, i + m - 1, i + (9 - i) - 1)
    BY <2>1, SubSeqOfSubSeq
  <2>3. i + (9 - i) - 1 = 8
    OBVIOUS
  <2> QED
    BY <2>2, <2>3
<1> QED
  BY <1>1, <1>2, <1>3

LEMMA BeyondCurrent ==
  ASSUME NEW c \in Seq(Bit), NEW b \in Seq(Bit), Len(b) = 8, NEW k \in 1 .. 8
  PROVE  /\ Len(c \o b) = Len(c) + 8
         /\ SubSeq(c \o b, Len(c) + k, Len(c) + 8) = SubSeq(b, k, 8)
<1> DEFINE m == Len(c) + k
           l == Len(c) + 8
<1>1. Len(c) \in Nat
  BY LenProperties
<1>2. Len(c \o b) = l
  <2>1. Len(c \o b) = Len(c) + Len(b)
    BY ConcatProperties
  <2> QED
    BY <2>1
<1>3. /\ m \in Len(c) + 1 .. Len(c) + Len(b) /\ l \in Len(c) + 1 .. Len(c) + Len(b)
      /\ m - Len(c) = k /\ l - Len(c) = 8
  BY <1>1
<1> HIDE DEF m, l
<1>4. SubSeq(c \o b, m, l) = SubSeq(b, m - Len(c), l - Len(c))
  BY <1>3, SubSeqOfConcat2
<1>5. SubSeq(c \o b, m, l) = SubSeq(b, k, 8)
  BY <1>3, <1>4
<1> QED
  BY <1>2, <1>5 DEF m, l

(* Bits taken from the byte at hand leave the end of it.                   *)
LEMMA TakeFromCurrent ==
  ASSUME InputTypeOK, BitsInv, NEW count \in 1 .. 8, TakeBits(count),
         stream' = stream, sunk' = sunk, Len(current) >= count
  PROVE  BitsInv'
<1> DEFINE w == Waiting
           L == Len(current)
           b == Bits(stream[sunk - w])
<1>1. /\ input_size' = input_size /\ input_index' = input_index /\ input' = input
      /\ current' = SubSeq(current, count + 1, L)
  BY DEF TakeBits, BitsAtHand
<1>2. current \in Seq(Bit) /\ L \in 0 .. 7
  BY CurrentType
<1>3. current # << >> /\ L \in 1 .. 7 /\ count \in 1 .. L
  BY <1>2
<1>4. w \in 0 .. sunk /\ w < sunk /\ sunk \in 0 .. Len(stream)
  BY <1>3 DEF BitsInv, SunkCovers, InputTypeOK
<1>5. current = SubSeq(b, 9 - L, 8)
  BY <1>3 DEF BitsInv, UnreadIsSuffix, Waiting
<1>6. b \in Seq(Bit) /\ Len(b) = 8
  <2>1. stream \in Seq(Byte) /\ sunk - w \in 1 .. Len(stream)
    BY <1>4, BufferAssumption DEF InputTypeOK
  <2>2. stream[sunk - w] \in Byte
    BY <2>1, ElementOfSeq
  <2> QED
    BY <2>2, BitsOfByte
<1> HIDE DEF w, b
<1>7. CASE count = L
  <2>1. current' = << >>
    BY <1>1, <1>2, <1>7, SubSeqEmpty
  <2> QED
    BY <1>1, <2>1 DEF BitsInv, UnreadIsSuffix, SunkCovers, Waiting
<1>8. CASE count < L
  <2> HIDE DEF L
  <2>1. /\ 9 - L \in 1 .. 8 /\ 9 - (9 - L) = L
        /\ count + 1 \in 1 .. 9 - (9 - L)
        /\ (9 - L) + (count + 1) - 1 = 9 - (L - count)
        /\ 9 - (L - count) \in 1 .. 8 /\ 9 - (9 - (L - count)) = L - count
    BY <1>3, <1>8
  <2>2. SubSeq(SubSeq(b, 9 - L, 8), count + 1, 9 - (9 - L))
          = SubSeq(b, (9 - L) + (count + 1) - 1, 8)
    BY <1>6, <2>1, EndOfByte
  <2>3. current' = SubSeq(b, 9 - (L - count), 8)
    BY <1>1, <1>5, <2>1, <2>2
  <2>4. Len(SubSeq(b, 9 - (L - count), 8)) = 9 - (9 - (L - count))
    BY <1>6, <2>1, EndOfByte
  <2>5. Len(current') = L - count
    BY <2>1, <2>3, <2>4
  <2>6. current' = SubSeq(b, 9 - Len(current'), 8)
    BY <2>3, <2>5
  <2> QED
    BY <1>1, <1>3, <2>6 DEF BitsInv, UnreadIsSuffix, SunkCovers, Waiting, b, w, Bits
<1> QED
  BY <1>3, <1>7, <1>8

(* Bits taken beyond it leave the end of the next byte of the buffer.      *)
LEMMA TakeFromBuffer ==
  ASSUME InputTypeOK, BitsInv, NEW count \in 1 .. 8, TakeBits(count),
         stream' = stream, sunk' = sunk, ~(Len(current) >= count)
  PROVE  BitsInv'
<1> DEFINE w == Waiting
           L == Len(current)
           b == Bits(input[input_index])
<1>1. /\ input_size > 0 /\ input' = input
      /\ current' = SubSeq(current \o b, count + 1, Len(current \o b))
      /\ IF input_index + 1 = input_size
         THEN input_index' = 0 /\ input_size' = 0
         ELSE input_index' = input_index + 1 /\ input_size' = input_size
  BY DEF TakeBits, BitsAtHand, HasBits
<1>2. current \in Seq(Bit) /\ L \in 0 .. 7 /\ L < count
  BY CurrentType
<1>3. /\ input_size \in Nat /\ input_index \in Nat /\ input_index < input_size
      /\ sunk \in 0 .. Len(stream) /\ stream \in Seq(Byte)
      /\ w \in 1 .. sunk /\ w = input_size - input_index
  BY <1>1, BufferAssumption DEF InputTypeOK, BitsInv, SunkCovers, Waiting
<1>4. input[input_index] = stream[sunk - w + 1]
  <2>1. 0 \in 0 .. w - 1
    BY <1>3
  <2>2. input[input_index + 0] = stream[sunk - w + 0 + 1]
    BY <2>1, <1>3 DEF BitsInv, UnreadIsSuffix
  <2> QED
    BY <1>3, <2>2
<1>5. b \in Seq(Bit) /\ Len(b) = 8
  <2>1. sunk - w + 1 \in 1 .. Len(stream)
    BY <1>3
  <2>2. stream[sunk - w + 1] \in Byte
    BY <1>3, <2>1, ElementOfSeq
  <2> QED
    BY <1>4, <2>2, BitsOfByte
<1> HIDE DEF w
<1>6. input_size' - input_index' = w - 1
  BY <1>1, <1>3
<1>7. ASSUME NEW i \in 0 .. (w - 1) - 1
      PROVE  input'[input_index' + i] = stream[sunk - (w - 1) + i + 1]
  <2>1. input_index' + i = input_index + (i + 1) /\ i + 1 \in 0 .. w - 1
    BY <1>1, <1>3
  <2>2. input[input_index + (i + 1)] = stream[sunk - w + (i + 1) + 1]
    BY <1>3, <2>1 DEF BitsInv, UnreadIsSuffix
  <2>3. sunk - w + (i + 1) + 1 = sunk - (w - 1) + i + 1
    BY <1>3
  <2> QED
    BY <1>1, <2>1, <2>2, <2>3
<1>8. current' # << >> =>
        current' = SubSeq(Bits(stream[sunk - (w - 1)]), 9 - Len(current'), 8)
  <2>1. Len(current \o b) = L + 8
    <3> HIDE DEF b
    <3> QED
      BY <1>2, <1>5, BeyondCurrent
  <2>2. CASE count - L = 8
    <3>1. current' = << >>
      BY <1>1, <1>2, <2>1, <2>2, SubSeqEmpty
    <3> QED
      BY <3>1
  <2>3. CASE count - L # 8
    <3> DEFINE k == count + 1 - L
    <3> HIDE DEF b
    <3>1. k \in 1 .. 8 /\ L + k = count + 1
      <4> HIDE DEF L
      <4> QED
        BY <1>2, <2>3
    <3>2. SubSeq(current \o b, L + k, L + 8) = SubSeq(b, k, 8)
      <4> HIDE DEF k
      <4> QED
        BY <1>2, <1>5, <3>1, BeyondCurrent
    <3>3. current' = SubSeq(b, k, 8)
      BY <1>1, <2>1, <3>1, <3>2
    <3> HIDE DEF k
    <3>4. Len(SubSeq(b, k, 8)) = 9 - k
      BY <1>5, <3>1, EndOfByte
    <3>5. 9 - Len(current') = k
      BY <3>1, <3>3, <3>4
    <3>6. b = Bits(stream[sunk - (w - 1)])
      <4>1. sunk - (w - 1) = sunk - w + 1
        BY <1>3
      <4> QED
        BY <1>4, <4>1 DEF b
    <3> QED
      BY <3>3, <3>5, <3>6
  <2> QED
    BY <2>2, <2>3
<1>9. w - 1 \in 0 .. sunk /\ w - 1 < sunk
  BY <1>3
<1> QED
  BY <1>6, <1>7, <1>8, <1>9 DEF BitsInv, UnreadIsSuffix, SunkCovers, Waiting, Bits

LEMMA StepBits ==
  ASSUME TypeInv, BitsInv, [DecoderNext]_decoder_vars
  PROVE  BitsInv'
<1>1. InputTypeOK
  BY DEF TypeInv, DecoderTypeOK
<1>2. ASSUME NEW count \in 1 .. 8, TakeBits(count), UNCHANGED caller_vars
      PROVE  BitsInv'
  BY <1>1, <1>2, TakeFromCurrent, TakeFromBuffer DEF caller_vars
<1>3. CASE Reset
  BY <1>3, FreshBits
<1>4. CASE \E n \in 1 .. SINK_MAX : Sink(n)
  BY <1>1, <1>4, SinkBits
<1>5. CASE \E size \in PollSizes : PollStart(size)
  BY <1>5, KeptBits DEF PollStart, input_vars, input_side
<1>6. CASE TagBit
  BY <1>2, <1>6 DEF TagBit
<1>7. CASE YieldLiteral
  BY <1>2, <1>7 DEF YieldLiteral
<1>8. CASE YieldBackref
  BY <1>8, KeptBits DEF YieldBackref, caller_vars, input_vars, input_side
<1>9. CASE IndexMsb
  <2>1. IndexBits - 8 \in 1 .. 8
    BY <1>9, Sizes DEF IndexMsb, In, TypeInv, DecoderTypeOK
  <2> QED
    BY <1>2, <1>9, <2>1 DEF IndexMsb
<1>10. CASE IndexLsb
  <2>1. LowBits(IndexBits) \in 1 .. 8
    BY Sizes DEF LowBits
  <2> QED
    BY <1>2, <1>10, <2>1 DEF IndexLsb
<1>11. CASE CountMsb
  <2>1. CountBits - 8 \in 1 .. 8
    BY <1>11, Sizes DEF CountMsb, In, TypeInv, DecoderTypeOK
  <2> QED
    BY <1>2, <1>11, <2>1 DEF CountMsb
<1>12. CASE CountLsb
  <2>1. LowBits(CountBits) \in 1 .. 8
    BY Sizes DEF LowBits
  <2> QED
    BY <1>2, <1>12, <2>1 DEF CountLsb
<1>13. CASE PollReturn
  BY <1>13, KeptBits DEF PollReturn, input_vars, input_side
<1>14. CASE UNCHANGED decoder_vars
  BY <1>14, KeptBits DEF decoder_vars, input_vars, input_side
<1> QED
  BY <1>3, <1>4, <1>5, <1>6, <1>7, <1>8, <1>9, <1>10, <1>11, <1>12, <1>13, <1>14
  DEF DecoderNext, PollStep

(***************************************************************************)
(* The bits in the decoder are the last ones sunk: none is lost where one  *)
(* byte, or the input buffer, ends, and none is taken twice, for every     *)
(* size of the buffer and every way to sink (heatshrink_decoder.c:298-316).*)
(***************************************************************************)
THEOREM NoBitIsLost == DecoderSpec => []UnreadIsSuffix
<1>1. DecoderInit => TypeInv /\ BitsInv
  BY InitType, FreshBits
<1>2. TypeInv /\ BitsInv /\ [DecoderNext]_decoder_vars => (TypeInv /\ BitsInv)'
  BY StepType, StepBits
<1>3. BitsInv => UnreadIsSuffix
  BY DEF BitsInv
<1> QED
  BY <1>1, <1>2, <1>3, PTL DEF DecoderSpec

(***************************************************************************)
(* What a stream means.  A bit of a stream is a bit of one of its bytes.   *)
(***************************************************************************)
LEMMA BitOfByte ==
  ASSUME NEW s \in Seq(Byte), NEW j \in 1 .. Len(s), NEW i \in 1 .. 8
  PROVE  /\ BitAt(s, 8 * (j - 1) + i - 1) = Bits(s[j])[i]
         /\ Bits(s[j])[i] \in Bit
<1> DEFINE p == 8 * (j - 1) + i - 1
<1>0. Len(s) \in Nat
  BY LenProperties
<1>1. p < 8 * Len(s) /\ p \div 8 + 1 = j /\ 7 - (p % 8) = 8 - i
  BY <1>0
<1>2. BitAt(s, p) = (s[j] \div 2 ^ (8 - i)) % 2
  <2> HIDE DEF p
  <2> QED
    BY <1>1 DEF BitAt
<1>3. Bits(s[j])[i] = (s[j] \div 2 ^ (8 - i)) % 2
  BY DEF Bits
<1>4. Bits(s[j]) \in Seq(Bit) /\ Len(Bits(s[j])) = 8
  BY BitsOfByte, ElementOfSeq
<1>5. Bits(s[j])[i] \in Bit
  BY <1>4, ElementOfSeq
<1> QED
  BY <1>2, <1>3, <1>5

LEMMA BitType ==
  ASSUME NEW s \in Seq(Byte), NEW p \in Nat
  PROVE  BitAt(s, p) \in 0 .. 1
<1>0. Len(s) \in Nat
  BY LenProperties
<1>1. CASE p < 8 * Len(s)
  <2>1. PICK j \in 1 .. Len(s), i \in 1 .. 8 : p = 8 * (j - 1) + i - 1
    <3>1. p \div 8 + 1 \in 1 .. Len(s) /\ (p % 8) + 1 \in 1 .. 8
      BY <1>0, <1>1
    <3>2. p = 8 * ((p \div 8 + 1) - 1) + ((p % 8) + 1) - 1
      OBVIOUS
    <3> QED
      BY <3>1, <3>2
  <2>2. BitAt(s, 8 * (j - 1) + i - 1) \in Bit
    BY BitOfByte
  <2> QED
    BY <2>1, <2>2 DEF Bit
<1>2. CASE ~(p < 8 * Len(s))
  BY <1>2 DEF BitAt
<1> QED
  BY <1>1, <1>2

(***************************************************************************)
(* The recursive definition of a number, bit by bit.                       *)
(***************************************************************************)
LEMMA NumberSteps ==
  ASSUME NEW s \in Seq(Byte), NEW p \in Nat
  PROVE  /\ NumberAt(s, p, 0) = 0
         /\ \A n \in Nat : /\ NumberAt(s, p, n) \in Nat
                           /\ NumberAt(s, p, n + 1) = 2 * NumberAt(s, p, n) + BitAt(s, p + n)
<1> DEFINE Leading == CHOOSE L : L = [k \in Nat |-> IF k = 0 THEN 0 ELSE 2 * L[k - 1] + BitAt(s, p + k - 1)]
<1>1. PICK F \in [Nat -> [Nat -> Nat]] : \A n, v \in Nat : F[n][v] = 2 * v + BitAt(s, p + n)
  <2>1. ASSUME NEW n \in Nat, NEW v \in Nat
        PROVE  2 * v + BitAt(s, p + n) \in Nat
    <3>1. PICK b \in 0 .. 1 : BitAt(s, p + n) = b
      BY BitType, p + n \in Nat
    <3> QED
      BY <3>1
  <2>2. [n \in Nat |-> [v \in Nat |-> 2 * v + BitAt(s, p + n)]] \in [Nat -> [Nat -> Nat]]
    BY <2>1
  <2> QED
    BY <2>2
<1>2. PICK g \in [Nat -> Nat] : g[0] = 0 /\ \A n \in Nat : g[n + 1] = F[n][g[n]]
  <2>1. PICK g : Iterates(g, Nat, 0, F)
    BY PrimitiveRecursion, 0 \in Nat, Zenon
  <2> QED
    BY <2>1 DEF Iterates
<1>3. \A n \in Nat : g[n + 1] = 2 * g[n] + BitAt(s, p + n)
  BY <1>1, <1>2
<1>4. g = [k \in Nat |-> IF k = 0 THEN 0 ELSE 2 * g[k - 1] + BitAt(s, p + k - 1)]
  <2>1. ASSUME NEW k \in Nat
        PROVE  g[k] = IF k = 0 THEN 0 ELSE 2 * g[k - 1] + BitAt(s, p + k - 1)
    <3>1. CASE k = 0
      BY <1>2, <3>1
    <3>2. CASE k # 0
      <4>1. k - 1 \in Nat /\ (k - 1) + 1 = k /\ p + (k - 1) = p + k - 1
        BY <3>2
      <4>2. g[(k - 1) + 1] = 2 * g[k - 1] + BitAt(s, p + (k - 1))
        BY <1>3, <4>1
      <4> QED
        BY <3>2, <4>1, <4>2
    <3> QED
      BY <3>1, <3>2
  <2> QED
    BY <1>2, <2>1
<1>5. Leading = [k \in Nat |-> IF k = 0 THEN 0 ELSE 2 * Leading[k - 1] + BitAt(s, p + k - 1)]
  BY <1>4, Zenon
<1>6. \A n : NumberAt(s, p, n) = Leading[n]
  BY DEF NumberAt
<1> HIDE DEF Leading
<1>7. Leading[0] = 0 /\ \A n \in Nat : Leading[n + 1] = 2 * Leading[n] + BitAt(s, p + n)
  <2>1. ASSUME NEW n \in Nat
        PROVE  Leading[n + 1] = 2 * Leading[n] + BitAt(s, p + n)
    <3>1. n + 1 \in Nat /\ n + 1 # 0 /\ (n + 1) - 1 = n /\ p + (n + 1) - 1 = p + n
      OBVIOUS
    <3> QED
      BY <1>5, <3>1
  <2>2. Leading[0] = 0
    BY <1>5
  <2> QED
    BY <2>1, <2>2
<1>8. \A n \in Nat : Leading[n] \in Nat
  <2> DEFINE S == {n \in Nat : Leading[n] \in Nat}
  <2>1. 0 \in S
    <3>1. Leading[0] \in Nat
      BY <1>7
    <3> QED
      BY <3>1
  <2>2. ASSUME NEW n \in Nat, n \in S
        PROVE  n + 1 \in S
    <3>1. PICK b \in 0 .. 1 : BitAt(s, p + n) = b
      BY BitType, p + n \in Nat
    <3>2. PICK v \in Nat : Leading[n] = v
      BY <2>2
    <3>3. Leading[n + 1] = 2 * v + b
      BY <1>7, <3>1, <3>2
    <3>4. 2 * v + b \in Nat
      OBVIOUS
    <3>5. Leading[n + 1] \in Nat
      BY <3>3, <3>4
    <3> QED
      BY <3>5
  <2> HIDE DEF S
  <2>3. Nat \subseteq S
    BY <2>1, <2>2, Induction
  <2> QED
    BY <2>3 DEF S
<1> QED
  BY <1>6, <1>7, <1>8

(* A number of more than eight bits, in two parts.                         *)
LEMMA NumberJoins ==
  ASSUME NEW s \in Seq(Byte), NEW p \in Nat, NEW n \in Nat
  PROVE  NumberAt(s, p, n + 8) = 256 * NumberAt(s, p, n) + NumberAt(s, p + n, 8)
<1> DEFINE M(i) == NumberAt(s, p, n + i)
           K(i) == NumberAt(s, p + n, i)
<1>1. ASSUME NEW i \in Nat, NEW j \in Nat, j = i + 1, NEW c \in Nat, M(i) = c + K(i)
      PROVE  M(j) = 2 * c + K(j)
  <2>1. /\ n + i \in Nat /\ p + n \in Nat /\ p + (n + i) = (p + n) + i
        /\ n + j = (n + i) + 1
    BY <1>1
  <2>2. PICK b \in 0 .. 1 : BitAt(s, (p + n) + i) = b
    BY <2>1, BitType, (p + n) + i \in Nat
  <2>3. /\ NumberAt(s, p, n + i) \in Nat
        /\ NumberAt(s, p, (n + i) + 1) = 2 * NumberAt(s, p, n + i) + BitAt(s, p + (n + i))
    BY <2>1, NumberSteps
  <2>4. /\ NumberAt(s, p + n, i) \in Nat
        /\ NumberAt(s, p + n, i + 1) = 2 * NumberAt(s, p + n, i) + BitAt(s, (p + n) + i)
    BY <2>1, NumberSteps
  <2>5. PICK v \in Nat : v = M(i)
    BY <2>3
  <2>6. PICK w \in Nat : w = K(i)
    BY <2>4
  <2>7. M(j) = 2 * v + b
    BY <2>1, <2>2, <2>3, <2>5
  <2>8. K(j) = 2 * w + b
    BY <1>1, <2>2, <2>4, <2>6
  <2> HIDE DEF M, K
  <2>9. v = c + w
    BY <1>1, <2>5, <2>6
  <2>10. 2 * v + b = 2 * c + (2 * w + b)
    BY <2>9
  <2> QED
    BY <2>7, <2>8, <2>10
<1>2. PICK x \in Nat : x = NumberAt(s, p, n)
  BY NumberSteps
<1>3. M(0) = x + K(0)
  BY <1>2, NumberSteps, n + 0 = n, p + n \in Nat
<1> HIDE DEF M, K
<1>4. M(1) = 2 * x + K(1)
  BY <1>1, <1>3, 1 = 0 + 1
<1>5. M(2) = 4 * x + K(2)
  BY <1>1, <1>4, 2 = 1 + 1, 2 * x \in Nat, 2 * (2 * x) = 4 * x
<1>6. M(3) = 8 * x + K(3)
  BY <1>1, <1>5, 3 = 2 + 1, 4 * x \in Nat, 2 * (4 * x) = 8 * x
<1>7. M(4) = 16 * x + K(4)
  BY <1>1, <1>6, 4 = 3 + 1, 8 * x \in Nat, 2 * (8 * x) = 16 * x
<1>8. M(5) = 32 * x + K(5)
  BY <1>1, <1>7, 5 = 4 + 1, 16 * x \in Nat, 2 * (16 * x) = 32 * x
<1>9. M(6) = 64 * x + K(6)
  BY <1>1, <1>8, 6 = 5 + 1, 32 * x \in Nat, 2 * (32 * x) = 64 * x
<1>10. M(7) = 128 * x + K(7)
  BY <1>1, <1>9, 7 = 6 + 1, 64 * x \in Nat, 2 * (64 * x) = 128 * x
<1>11. M(8) = 256 * x + K(8)
  BY <1>1, <1>10, 8 = 7 + 1, 128 * x \in Nat, 2 * (128 * x) = 256 * x
<1> QED
  BY <1>2, <1>11 DEF M, K

(* At most eight bits, the way get_bits puts them together.                *)
Digit(s, p, c, i) == IF i < c THEN BitAt(s, p + c - 1 - i) ELSE 0

Digits(s, p, c) ==
  (Digit(s, p, c, 0) + 2 * Digit(s, p, c, 1) + 4 * Digit(s, p, c, 2) + 8 * Digit(s, p, c, 3))
  + 16 * (Digit(s, p, c, 4) + 2 * Digit(s, p, c, 5) + 4 * Digit(s, p, c, 6)
            + 8 * Digit(s, p, c, 7))

LEMMA NumberDigits ==
  ASSUME NEW s \in Seq(Byte), NEW p \in Nat, NEW c \in 0 .. 8
  PROVE  NumberAt(s, p, c) = Digits(s, p, c)
<1> DEFINE S == {n \in Nat : n <= 8 => NumberAt(s, p, n) = Digits(s, p, n)}
<1>1. 0 \in S
  BY NumberSteps DEF Digits, Digit
<1>2. ASSUME NEW n \in Nat, n \in S
      PROVE  n + 1 \in S
  <2>1. CASE n < 8
    <3>1. ASSUME NEW i \in Nat
          PROVE  /\ Digit(s, p, n, i) \in 0 .. 1
                 /\ Digit(s, p, n + 1, i + 1) = Digit(s, p, n, i)
      <4>1. CASE i < n
        <5>1. p + n - 1 - i \in Nat /\ p + (n + 1) - 1 - (i + 1) = p + n - 1 - i /\ i + 1 < n + 1
          BY <4>1
        <5> QED
          BY <4>1, <5>1, BitType DEF Digit
      <4>2. CASE ~(i < n)
        BY <4>2 DEF Digit
      <4> QED
        BY <4>1, <4>2
    <3>2. Digit(s, p, n, 7) = 0
      BY <2>1 DEF Digit
    <3>3. PICK b \in 0 .. 1 : b = BitAt(s, p + n)
      BY BitType, p + n \in Nat
    <3>4. Digit(s, p, n + 1, 0) = b
      BY <3>3, 0 < n + 1, p + (n + 1) - 1 - 0 = p + n DEF Digit
    <3>5. PICK d0 \in 0 .. 1, d1 \in 0 .. 1, d2 \in 0 .. 1, d3 \in 0 .. 1,
               d4 \in 0 .. 1, d5 \in 0 .. 1, d6 \in 0 .. 1 :
            /\ d0 = Digit(s, p, n, 0) /\ d1 = Digit(s, p, n, 1) /\ d2 = Digit(s, p, n, 2)
            /\ d3 = Digit(s, p, n, 3) /\ d4 = Digit(s, p, n, 4) /\ d5 = Digit(s, p, n, 5)
            /\ d6 = Digit(s, p, n, 6)
      BY <3>1
    <3>6. /\ Digit(s, p, n + 1, 1) = d0 /\ Digit(s, p, n + 1, 2) = d1
          /\ Digit(s, p, n + 1, 3) = d2 /\ Digit(s, p, n + 1, 4) = d3
          /\ Digit(s, p, n + 1, 5) = d4 /\ Digit(s, p, n + 1, 6) = d5
          /\ Digit(s, p, n + 1, 7) = d6
      BY <3>1, <3>5, 0 + 1 = 1, 1 + 1 = 2, 2 + 1 = 3, 3 + 1 = 4, 4 + 1 = 5, 5 + 1 = 6, 6 + 1 = 7
    <3>7. NumberAt(s, p, n + 1) = 2 * NumberAt(s, p, n) + b
      BY <3>3, NumberSteps
    <3>8. NumberAt(s, p, n) = Digits(s, p, n)
      BY <1>2, <2>1
    <3>9. Digits(s, p, n + 1) = 2 * Digits(s, p, n) + b
      <4>1. Digits(s, p, n + 1) = (b + 2 * d0 + 4 * d1 + 8 * d2)
               + 16 * (d3 + 2 * d4 + 4 * d5 + 8 * d6)
        BY <3>4, <3>6 DEF Digits
      <4>2. Digits(s, p, n) = (d0 + 2 * d1 + 4 * d2 + 8 * d3)
               + 16 * (d4 + 2 * d5 + 4 * d6 + 8 * 0)
        BY <3>2, <3>5 DEF Digits
      <4>3. (b + 2 * d0 + 4 * d1 + 8 * d2) + 16 * (d3 + 2 * d4 + 4 * d5 + 8 * d6)
              = 2 * ((d0 + 2 * d1 + 4 * d2 + 8 * d3) + 16 * (d4 + 2 * d5 + 4 * d6 + 8 * 0)) + b
        OBVIOUS
      <4> QED
        BY <4>1, <4>2, <4>3
    <3> QED
      BY <3>7, <3>8, <3>9
  <2>2. CASE ~(n < 8)
    BY <2>2
  <2> QED
    BY <2>1, <2>2
<1> HIDE DEF S
<1>3. Nat \subseteq S
  BY <1>1, <1>2, Induction
<1> QED
  BY <1>3 DEF S

LEMMA NumberOfBits ==
  ASSUME NEW s \in Seq(Byte), NEW p \in Nat, NEW bits \in Seq(Bit), Len(bits) \in 1 .. 8,
         \A i \in 1 .. Len(bits) : bits[i] = BitAt(s, p + i - 1)
  PROVE  Number(bits) = NumberAt(s, p, Len(bits))
<1> DEFINE c == Len(bits)
           At(i) == IF i < c THEN bits[c - i] ELSE 0
<1>1. ASSUME NEW i \in Nat
      PROVE  At(i) = Digit(s, p, c, i)
  <2>1. CASE i < c
    <3>1. c - i \in 1 .. c /\ p + (c - i) - 1 = p + c - 1 - i
      BY <2>1
    <3> QED
      BY <2>1, <3>1 DEF Digit
  <2>2. CASE ~(i < c)
    BY <2>2 DEF Digit
  <2> QED
    BY <2>1, <2>2
<1>2. Number(bits) = (At(0) + 2 * At(1) + 4 * At(2) + 8 * At(3))
                     + 16 * (At(4) + 2 * At(5) + 4 * At(6) + 8 * At(7))
  BY DEF Number
<1> HIDE DEF At
<1>3. Number(bits) = Digits(s, p, c)
  BY <1>1, <1>2 DEF Digits
<1>4. NumberAt(s, p, c) = Digits(s, p, c)
  <2>1. c \in 0 .. 8
    OBVIOUS
  <2> HIDE DEF c
  <2> QED
    BY <2>1, NumberDigits
<1> QED
  BY <1>3, <1>4

LEMMA NumberIsByte ==
  ASSUME NEW s \in Seq(Byte), NEW p \in Nat
  PROVE  NumberAt(s, p, 8) \in Byte
<1>1. ASSUME NEW i \in 0 .. 7
      PROVE  Digit(s, p, 8, i) \in 0 .. 1
  BY BitType, p + 8 - 1 - i \in Nat DEF Digit
<1>2. NumberAt(s, p, 8) = Digits(s, p, 8)
  BY NumberDigits
<1>3. PICK d0 \in 0 .. 1, d1 \in 0 .. 1, d2 \in 0 .. 1, d3 \in 0 .. 1,
           d4 \in 0 .. 1, d5 \in 0 .. 1, d6 \in 0 .. 1, d7 \in 0 .. 1 :
        /\ d0 = Digit(s, p, 8, 0) /\ d1 = Digit(s, p, 8, 1) /\ d2 = Digit(s, p, 8, 2)
        /\ d3 = Digit(s, p, 8, 3) /\ d4 = Digit(s, p, 8, 4) /\ d5 = Digit(s, p, 8, 5)
        /\ d6 = Digit(s, p, 8, 6) /\ d7 = Digit(s, p, 8, 7)
  BY <1>1
<1>4. Digits(s, p, 8) = (d0 + 2 * d1 + 4 * d2 + 8 * d3)
                        + 16 * (d4 + 2 * d5 + 4 * d6 + 8 * d7)
  BY <1>3 DEF Digits
<1>5. (d0 + 2 * d1 + 4 * d2 + 8 * d3) + 16 * (d4 + 2 * d5 + 4 * d6 + 8 * d7) \in 0 .. 255
  OBVIOUS
<1> QED
  BY <1>2, <1>4, <1>5 DEF Byte

(***************************************************************************)
(* A back-reference: the text stays, and each new byte is the one d before *)
(* it, also where that is a new one itself.                                *)
(***************************************************************************)
Extends(t, u) == Len(t) <= Len(u) /\ \A i \in 1 .. Len(t) : u[i] = t[i]

LEMMA ExtendsOn ==
  ASSUME NEW a \in Seq(Byte), NEW b \in Seq(Byte), NEW c \in Seq(Byte),
         Extends(a, b), Extends(b, c)
  PROVE  Extends(a, c)
<1>1. PICK l \in Nat, m \in Nat, n \in Nat : l = Len(a) /\ m = Len(b) /\ n = Len(c)
  BY LenProperties
<1>2. l <= m /\ m <= n
  BY <1>1 DEF Extends
<1>3. ASSUME NEW i \in 1 .. l
      PROVE  c[i] = a[i]
  <2>1. i \in 1 .. m
    BY <1>2
  <2> QED
    BY <1>1, <2>1 DEF Extends
<1>4. l <= n
  BY <1>2
<1> QED
  BY <1>1, <1>3, <1>4 DEF Extends

LEMMA RepeatedText ==
  ASSUME NEW text \in Seq(Byte), NEW d \in Nat \ {0}, NEW count \in Nat
  PROVE  /\ Repeated(text, d, count) \in Seq(Byte)
         /\ Len(Repeated(text, d, count)) = Len(text) + count
         /\ Extends(text, Repeated(text, d, count))
         /\ \A n \in Len(text) .. Len(text) + count - 1 :
              Repeated(text, d, count)[n + 1]
                = IF d <= n THEN Repeated(text, d, count)[n - d + 1] ELSE 0
<1> DEFINE L == Len(text)
           K(i) == L - d + 1 + ((i - 1) % d)
           copy == [i \in 1 .. count |-> IF K(i) >= 1 THEN text[K(i)] ELSE 0]
           r == Repeated(text, d, count)
<1>1. L \in Nat
  BY LenProperties
<1>2. ASSUME NEW i \in 1 .. count
      PROVE  K(i) \in Int /\ K(i) <= L
  <2>1. (i - 1) % d \in 0 .. d - 1
    BY DivMod
  <2> QED
    BY <1>1, <2>1
<1>3. copy \in Seq(Byte) /\ Len(copy) = count
  <2>1. ASSUME NEW i \in 1 .. count
        PROVE  (IF K(i) >= 1 THEN text[K(i)] ELSE 0) \in Byte
    <3>1. CASE K(i) >= 1
      <4> HIDE DEF K
      <4> QED
        BY <1>1, <1>2, <3>1, ElementOfSeq
    <3>2. CASE ~(K(i) >= 1)
      BY <3>2 DEF Byte
    <3> QED
      BY <3>1, <3>2
  <2> HIDE DEF K
  <2> QED
    BY <2>1
<1>4. r = text \o copy
  BY DEF Repeated
<1>5. /\ r \in Seq(Byte) /\ Len(r) = L + count
      /\ \A i \in 1 .. L + count : r[i] = IF i <= L THEN text[i] ELSE copy[i - L]
  <2> HIDE DEF copy, r
  <2> QED
    BY <1>3, <1>4, ConcatProperties
<1>6. Extends(text, r)
  <2> HIDE DEF copy, r
  <2> QED
    BY <1>1, <1>5 DEF Extends
<1>7. ASSUME NEW n \in L .. L + count - 1
      PROVE  r[n + 1] = IF d <= n THEN r[n - d + 1] ELSE 0
  <2> DEFINE i == n + 1 - L
  <2>1. /\ i \in 1 .. count /\ n + 1 \in 1 .. L + count /\ ~(n + 1 <= L)
        /\ n = L + i - 1
    BY <1>1
  <2>2. r[n + 1] = copy[i]
    <3> HIDE DEF r, copy, K
    <3> QED
      BY <1>1, <1>5, <2>1
  <2>3. copy[i] = IF K(i) >= 1 THEN text[K(i)] ELSE 0
    <3> HIDE DEF K, i
    <3> QED
      BY <2>1
  <2> HIDE DEF copy, r, i
  <2>4. CASE i <= d
    <3>1. (i - 1) % d = i - 1
      <4>1. (d * 0 + (i - 1)) % d = i - 1
        BY <2>1, <2>4, RemainderUnique, 0 \in Int, i - 1 \in 0 .. d - 1
      <4>2. d * 0 + (i - 1) = i - 1
        BY <2>1
      <4> QED
        BY <4>1, <4>2
    <3>2. K(i) = n - d + 1
      BY <1>1, <2>1, <3>1
    <3> HIDE DEF K
    <3>3. n - d + 1 <= L /\ (n - d + 1 >= 1 <=> d <= n)
      BY <1>1, <2>1, <2>4
    <3>4. ASSUME d <= n
          PROVE  r[n - d + 1] = text[n - d + 1]
      <4>1. PICK a \in Int : a = n - d + 1
        BY <1>1
      <4>2. a \in 1 .. L
        BY <1>1, <3>3, <3>4, <4>1
      <4>3. a \in 1 .. L + count /\ a <= L
        BY <1>1, <4>2
      <4> HIDE DEF L
      <4> QED
        BY <1>5, <4>1, <4>3
    <3> QED
      BY <2>2, <2>3, <3>2, <3>3, <3>4
  <2>5. CASE ~(i <= d)
    <3> DEFINE j == i - d
    <3>1. j \in 1 .. count /\ n - d + 1 = L + j /\ d <= n
      BY <1>1, <2>1, <2>5
    <3>2. (i - 1) % d = (j - 1) % d
      <4>1. PICK q \in Int, m \in 0 .. d - 1 : j - 1 = d * q + m
        BY <3>1, DivMod, j - 1 \in Int
      <4>2. i - 1 = d * (q + 1) + m
        <5>1. d * (q + 1) = d * q + d
          BY Z3
        <5> QED
          BY <2>1, <4>1, <5>1
      <4>3. (d * q + m) % d = m /\ (d * (q + 1) + m) % d = m
        BY RemainderUnique, q + 1 \in Int
      <4> QED
        BY <4>1, <4>2, <4>3
    <3>3. K(i) = K(j)
      BY <3>2
    <3>4. copy[j] = IF K(j) >= 1 THEN text[K(j)] ELSE 0
      <4> HIDE DEF K, j
      <4> QED
        BY <3>1 DEF copy
    <3>5. r[L + j] = copy[j]
      <4>1. L + j \in 1 .. L + count /\ ~(L + j <= L) /\ (L + j) - L = j
        BY <1>1, <3>1
      <4> HIDE DEF j
      <4> QED
        BY <1>5, <4>1
    <3> HIDE DEF K, j
    <3> QED
      BY <2>2, <2>3, <3>1, <3>3, <3>4, <3>5
  <2> QED
    BY <2>1, <2>4, <2>5
<1> QED
  BY <1>5, <1>6, <1>7

-----------------------------------------------------------------------------
(***************************************************************************)
(* The recursive definition of the text, token by token.                   *)
(***************************************************************************)
Reading == [pos : Nat, text : Seq(Byte)]

LEMMA TokenEnds ==
  ASSUME NEW p \in Nat
  PROVE  /\ LiteralEnd(p) = p + 9
         /\ BackrefEnd(p) = p + 1 + WINDOW_BITS + LOOKAHEAD_BITS
         /\ LiteralEnd(p) \in Nat /\ BackrefEnd(p) \in Nat
         /\ p + 8 <= LiteralEnd(p) /\ p + 8 <= BackrefEnd(p)
BY Sizes DEF LiteralEnd, BackrefEnd

LEMMA NumberIsNat ==
  ASSUME NEW s \in Seq(Byte), NEW p \in Nat, NEW n \in Nat
  PROVE  NumberAt(s, p, n) \in Nat
BY NumberSteps

LEMMA NextTokenType ==
  ASSUME NEW s \in Seq(Byte), NEW m \in Nat, NEW r \in Reading
  PROVE  NextToken(s, m, r) \in Reading /\ Extends(r.text, NextToken(s, m, r).text)
<1> DEFINE p == r.pos
           t == r.text
<1>1. p \in Nat /\ t \in Seq(Byte) /\ LiteralEnd(p) \in Nat /\ BackrefEnd(p) \in Nat
  BY TokenEnds DEF Reading
<1>2. CASE BitAt(s, p) = 1 /\ LiteralEnd(p) <= m
  <2> DEFINE c == NumberAt(s, p + 1, 8)
  <2>1. c \in Byte
    BY <1>1, NumberIsByte, p + 1 \in Nat
  <2>2. NextToken(s, m, r) = [pos |-> LiteralEnd(p), text |-> Append(t, c)]
    BY <1>2 DEF NextToken
  <2> HIDE DEF c, t, p
  <2>3. Append(t, c) \in Seq(Byte) /\ Extends(t, Append(t, c))
    BY <1>1, <2>1 DEF Extends
  <2> QED
    BY <1>1, <2>2, <2>3 DEF Reading, t
<1>3. CASE BitAt(s, p) = 0 /\ BackrefEnd(p) <= m
  <2> DEFINE d == NumberAt(s, p + 1, WINDOW_BITS)
             n == NumberAt(s, p + 1 + WINDOW_BITS, LOOKAHEAD_BITS)
  <2>1. d + 1 \in Nat \ {0} /\ n + 1 \in Nat
    <3>1. /\ p + 1 \in Nat /\ p + 1 + WINDOW_BITS \in Nat
          /\ WINDOW_BITS \in Nat /\ LOOKAHEAD_BITS \in Nat
      <4>1. PICK q \in Nat, w \in Nat, l \in Nat :
              q = p /\ w = WINDOW_BITS /\ l = LOOKAHEAD_BITS
        BY <1>1, Sizes
      <4>2. q + 1 \in Nat /\ q + 1 + w \in Nat
        OBVIOUS
      <4> QED
        BY <4>1, <4>2
    <3>2. d \in Nat /\ n \in Nat
      BY <3>1, NumberIsNat
    <3> QED
      BY <3>2
  <2>2. NextToken(s, m, r) = [pos |-> BackrefEnd(p), text |-> Repeated(t, d + 1, n + 1)]
    BY <1>3 DEF NextToken
  <2> HIDE DEF d, n, t, p
  <2>3. /\ Repeated(t, d + 1, n + 1) \in Seq(Byte)
        /\ Extends(t, Repeated(t, d + 1, n + 1))
    BY <1>1, <2>1, RepeatedText
  <2> QED
    BY <1>1, <2>2, <2>3 DEF Reading, t
<1>4. CASE /\ ~(BitAt(s, p) = 1 /\ LiteralEnd(p) <= m)
           /\ ~(BitAt(s, p) = 0 /\ BackrefEnd(p) <= m)
  <2>1. NextToken(s, m, r) = r
    BY <1>4 DEF NextToken
  <2>2. Extends(t, t)
    BY <1>1, LenProperties DEF Extends
  <2> QED
    BY <2>1, <2>2
<1> QED
  BY <1>2, <1>3, <1>4

LEMMA AfterSteps ==
  ASSUME NEW s \in Seq(Byte), NEW m \in Nat
  PROVE  /\ AfterTokens(s, m, 0) = Start
         /\ \A k \in Nat :
              /\ AfterTokens(s, m, k) \in Reading
              /\ AfterTokens(s, m, k + 1) = NextToken(s, m, AfterTokens(s, m, k))
<1> DEFINE After == CHOOSE After :
                      After = [i \in Nat |-> IF i = 0 THEN Start
                                             ELSE NextToken(s, m, After[i - 1])]
<1>1. PICK F \in [Nat -> [Reading -> Reading]] :
        \A n \in Nat, r \in Reading : F[n][r] = NextToken(s, m, r)
  <2>1. [n \in Nat |-> [r \in Reading |-> NextToken(s, m, r)]] \in [Nat -> [Reading -> Reading]]
    BY NextTokenType
  <2> QED
    BY <2>1
<1>2. Start \in Reading
  BY EmptySeq DEF Start, Reading
<1>3. PICK g : Iterates(g, Reading, Start, F)
  BY <1>2, PrimitiveRecursion, Zenon
<1>4. g \in [Nat -> Reading] /\ g[0] = Start /\ \A n \in Nat : g[n + 1] = NextToken(s, m, g[n])
  BY <1>1, <1>3 DEF Iterates
<1>5. g = [i \in Nat |-> IF i = 0 THEN Start ELSE NextToken(s, m, g[i - 1])]
  <2>1. ASSUME NEW i \in Nat
        PROVE  g[i] = IF i = 0 THEN Start ELSE NextToken(s, m, g[i - 1])
    <3>1. CASE i = 0
      BY <1>4, <3>1
    <3>2. CASE i # 0
      <4>1. i - 1 \in Nat /\ (i - 1) + 1 = i
        BY <3>2
      <4>2. g[(i - 1) + 1] = NextToken(s, m, g[i - 1])
        BY <1>4, <4>1
      <4> QED
        BY <3>2, <4>1, <4>2
    <3> QED
      BY <3>1, <3>2
  <2> QED
    BY <1>4, <2>1
<1>6. After = [i \in Nat |-> IF i = 0 THEN Start ELSE NextToken(s, m, After[i - 1])]
  BY <1>5, Zenon
<1>7. \A k : AfterTokens(s, m, k) = After[k]
  BY DEF AfterTokens
<1> HIDE DEF After
<1>8. After[0] = Start /\ \A n \in Nat : After[n + 1] = NextToken(s, m, After[n])
  <2>1. ASSUME NEW n \in Nat
        PROVE  After[n + 1] = NextToken(s, m, After[n])
    <3>1. n + 1 \in Nat /\ n + 1 # 0 /\ (n + 1) - 1 = n
      OBVIOUS
    <3> QED
      BY <1>6, <3>1
  <2>2. After[0] = Start
    BY <1>6
  <2> QED
    BY <2>1, <2>2
<1>9. \A n \in Nat : After[n] \in Reading
  <2> DEFINE S == {n \in Nat : After[n] \in Reading}
  <2>1. 0 \in S
    BY <1>2, <1>8
  <2>2. ASSUME NEW n \in Nat, n \in S
        PROVE  n + 1 \in S
    <3>1. PICK r \in Reading : r = After[n]
      BY <2>2
    <3>2. NextToken(s, m, r) \in Reading
      BY NextTokenType
    <3>3. After[n + 1] = NextToken(s, m, r)
      BY <1>8, <3>1
    <3> QED
      BY <3>2, <3>3
  <2> HIDE DEF S
  <2>3. Nat \subseteq S
    BY <2>1, <2>2, Induction
  <2> QED
    BY <2>3 DEF S
<1> QED
  BY <1>7, <1>8, <1>9

(* Reading on leaves the text read so far as it is, *)
LEMMA TextGrows ==
  ASSUME NEW s \in Seq(Byte), NEW m \in Nat, NEW k \in Nat, NEW j \in Nat, k <= j
  PROVE  Extends(AfterTokens(s, m, k).text, AfterTokens(s, m, j).text)
<1> DEFINE A(i) == AfterTokens(s, m, i).text
           S == {i \in Nat : Extends(A(k), A(k + i))}
<1>1. \A i \in Nat : A(i) \in Seq(Byte) /\ Extends(A(i), A(i + 1))
  <2>1. ASSUME NEW i \in Nat
        PROVE  A(i) \in Seq(Byte) /\ Extends(A(i), A(i + 1))
    <3>1. PICK r \in Reading : r = AfterTokens(s, m, i)
      BY AfterSteps
    <3>2. AfterTokens(s, m, i + 1) = NextToken(s, m, r)
      BY <3>1, AfterSteps
    <3>3. r.text \in Seq(Byte) /\ Extends(r.text, NextToken(s, m, r).text)
      BY NextTokenType DEF Reading
    <3> QED
      BY <3>1, <3>2, <3>3
  <2> QED
    BY <2>1
<1>2. \A i \in Nat : Len(A(i)) \in Nat
  BY <1>1, LenProperties
<1> HIDE DEF A
<1>3. 0 \in S
  BY <1>2, k + 0 = k DEF Extends
<1>4. ASSUME NEW i \in Nat, i \in S
      PROVE  i + 1 \in S
  <2>1. k + i \in Nat /\ (k + i) + 1 = k + (i + 1) /\ k + (i + 1) \in Nat
    OBVIOUS
  <2>2. Extends(A(k), A(k + i)) /\ Extends(A(k + i), A(k + (i + 1)))
    BY <1>1, <1>4, <2>1
  <2>3. Extends(A(k), A(k + (i + 1)))
    <3>1. PICK a \in Seq(Byte), b \in Seq(Byte), c \in Seq(Byte) :
            a = A(k) /\ b = A(k + i) /\ c = A(k + (i + 1))
      BY <1>1, <2>1
    <3> QED
      BY <2>2, <3>1, ExtendsOn
  <2> QED
    BY <2>3
<1> HIDE DEF S
<1>5. Nat \subseteq S
  BY <1>3, <1>4, Induction
<1>6. j - k \in S /\ k + (j - k) = j
  BY <1>5
<1> QED
  BY <1>6 DEF S, A

(* and ends where the next token is not there as a whole.                  *)
LEMMA TextEnds ==
  ASSUME NEW s \in Seq(Byte), NEW m \in Nat, NEW k \in Nat, NEW j \in Nat, k <= j,
         NextToken(s, m, AfterTokens(s, m, k)) = AfterTokens(s, m, k)
  PROVE  AfterTokens(s, m, j) = AfterTokens(s, m, k)
<1> DEFINE A(i) == AfterTokens(s, m, i)
           S == {i \in Nat : A(k + i) = A(k)}
<1>1. NextToken(s, m, A(k)) = A(k) /\ \A i \in Nat : A(i + 1) = NextToken(s, m, A(i))
  BY AfterSteps
<1> HIDE DEF A
<1>2. 0 \in S
  BY k + 0 = k
<1>3. ASSUME NEW i \in Nat, i \in S
      PROVE  i + 1 \in S
  BY <1>1, <1>3, k + i \in Nat, (k + i) + 1 = k + (i + 1)
<1> HIDE DEF S
<1>4. Nat \subseteq S
  BY <1>2, <1>3, Induction
<1>5. j - k \in S /\ k + (j - k) = j
  BY <1>4
<1> QED
  BY <1>5 DEF S, A

-----------------------------------------------------------------------------
(***************************************************************************)
(* Where the decoder is in its stream, counted in bits, and the numbers it *)
(* takes from there.                                                       *)
(***************************************************************************)
Pos == 8 * (sunk - Waiting) - Len(current)

LEMMA PosType ==
  ASSUME InputTypeOK, BitsInv
  PROVE  /\ Pos \in Nat /\ Pos <= 8 * sunk /\ sunk \in Nat
         /\ Waiting \in Nat /\ stream \in Seq(Byte) /\ Len(stream) \in Nat
         /\ sunk <= Len(stream)
<1>1. /\ stream \in Seq(Byte) /\ Len(stream) \in Nat
  BY BufferAssumption, LenProperties DEF InputTypeOK
<1>2. sunk \in 0 .. Len(stream) /\ Waiting \in 0 .. sunk
  BY DEF InputTypeOK, BitsInv, SunkCovers
<1>3. Len(current) \in 0 .. 7 /\ (current = << >> => Len(current) = 0)
  BY CurrentType
<1>4. current # << >> => Waiting < sunk
  BY DEF BitsInv, SunkCovers
<1>5. PICK n \in Nat : n = Len(stream)
  BY <1>1
<1>6. PICK s \in 0 .. n : s = sunk
  BY <1>2, <1>5
<1>7. PICK w \in 0 .. s : w = Waiting
  BY <1>2, <1>6
<1>8. PICK l \in 0 .. 7 : l = Len(current)
  BY <1>3
<1>9. l # 0 => w < s
  BY <1>3, <1>4, <1>6, <1>7, <1>8
<1>10. 8 * (s - w) - l \in Nat /\ 8 * (s - w) - l <= 8 * s
  BY <1>9
<1> QED
  BY <1>1, <1>5, <1>6, <1>7, <1>8, <1>10 DEF Pos

LEMMA BitsFromPos ==
  ASSUME InputTypeOK, BitsInv, NEW count \in 1 .. 8, HasBits(count)
  PROVE  \A i \in 1 .. Len(BitsAtHand(count)) :
           BitsAtHand(count)[i] = BitAt(stream, Pos + i - 1)
<1> DEFINE w == Waiting
           L == Len(current)
           b == BitsAtHand(count)
<1>1. /\ stream \in Seq(Byte) /\ sunk \in Nat /\ w \in Nat /\ w <= sunk
      /\ sunk <= Len(stream) /\ Len(stream) \in Nat
  BY PosType DEF BitsInv, SunkCovers
<1>2. current \in Seq(Bit) /\ L \in 0 .. 7
  BY CurrentType
<1>3. ASSUME NEW i \in 1 .. L
      PROVE  current[i] = BitAt(stream, Pos + i - 1)
  <2> DEFINE c == Bits(stream[sunk - w])
             j == 8 - L + i
  <2>1. current # << >>
    BY <1>2
  <2>2. w < sunk /\ sunk - w \in 1 .. Len(stream)
    BY <1>1, <2>1 DEF BitsInv, SunkCovers
  <2>3. current = SubSeq(c, 9 - L, 8)
    BY <2>1 DEF BitsInv, UnreadIsSuffix, Waiting
  <2>4. c \in Seq(Bit) /\ Len(c) = 8
    BY <1>1, <2>2, BitsOfByte, ElementOfSeq
  <2> HIDE DEF c, L, w
  <2>5. j \in 1 .. 8 /\ (9 - L) + i - 1 = j /\ i \in 1 .. 8 - (9 - L) + 1
    <3>1. PICK l \in 0 .. 7 : l = L
      BY <1>2
    <3>2. i \in 1 .. l
      BY <3>1
    <3>3. 8 - l + i \in 1 .. 8 /\ (9 - l) + i - 1 = 8 - l + i /\ i \in 1 .. 8 - (9 - l) + 1
      BY <3>2
    <3> QED
      BY <3>1, <3>3
  <2>6. SubSeq(c, 9 - L, 8)[i] = c[(9 - L) + i - 1]
    <3>1. PICK l \in 2 .. 9 : l = 9 - L
      BY <1>2
    <3>2. ASSUME NEW k \in l .. 8
          PROVE  c[k] \in Bit
      BY <2>4, <3>2, k \in 1 .. 8, ElementOfSeq
    <3>3. i \in 1 .. 8 - l + 1
      BY <2>5, <3>1
    <3> QED
      BY <3>1, <3>2, <3>3, SubSeqProperties
  <2>7. current[i] = c[j]
    BY <2>3, <2>5, <2>6
  <2>8. BitAt(stream, 8 * ((sunk - w) - 1) + j - 1) = c[j]
    BY <1>1, <2>2, <2>5, BitOfByte DEF c
  <2>9. 8 * ((sunk - w) - 1) + j - 1 = Pos + i - 1
    BY <1>1, <1>2 DEF Pos, L, w
  <2> QED
    BY <2>7, <2>8, <2>9
<1>4. CASE L >= count
  BY <1>3, <1>4 DEF BitsAtHand
<1>5. CASE ~(L >= count)
  <2> DEFINE n == Bits(input[input_index])
  <2>1. b = current \o n /\ input_size > 0
    BY <1>5 DEF BitsAtHand, HasBits
  <2>2. w > 0 /\ sunk - w + 1 \in 1 .. Len(stream)
    BY <1>1, <2>1 DEF InputTypeOK, Waiting
  <2>3. input[input_index] = stream[sunk - w + 1]
    <3>1. 0 \in 0 .. w - 1
      BY <1>1, <2>2
    <3>2. input[input_index + 0] = stream[sunk - w + 0 + 1]
      BY <3>1 DEF BitsInv, UnreadIsSuffix, Waiting
    <3> QED
      BY <1>1, <3>2 DEF InputTypeOK
  <2>4. n \in Seq(Bit) /\ Len(n) = 8
    BY <1>1, <2>2, <2>3, BitsOfByte, ElementOfSeq
  <2> HIDE DEF n, b, L, w
  <2>5. /\ Len(b) = L + 8
        /\ \A i \in 1 .. L + 8 : b[i] = IF i <= L THEN current[i] ELSE n[i - L]
    <3>1. PICK l \in 0 .. 7 : l = Len(current)
      BY <1>2 DEF L
    <3>2. /\ Len(current \o n) = Len(current) + Len(n)
          /\ \A i \in 1 .. Len(current) + Len(n) :
               (current \o n)[i] = IF i <= Len(current) THEN current[i]
                                  ELSE n[i - Len(current)]
      BY <1>2, <2>4, ConcatProperties
    <3>3. Len(current) + Len(n) = l + 8
      BY <2>4, <3>1
    <3> QED
      BY <2>1, <3>1, <3>2, <3>3 DEF L
  <2>6. ASSUME NEW i \in 1 .. L + 8, ~(i <= L)
        PROVE  n[i - L] = BitAt(stream, Pos + i - 1)
    <3>1. i - L \in 1 .. 8
      BY <1>2, <2>6
    <3>2. BitAt(stream, 8 * ((sunk - w + 1) - 1) + (i - L) - 1) = n[i - L]
      BY <1>1, <2>2, <2>3, <3>1, BitOfByte DEF n
    <3>3. 8 * ((sunk - w + 1) - 1) + (i - L) - 1 = Pos + i - 1
      BY <1>1, <1>2 DEF Pos, L, w
    <3> QED
      BY <3>2, <3>3
  <2>7. ASSUME NEW i \in 1 .. L + 8
        PROVE  b[i] = BitAt(stream, Pos + i - 1)
    <3>1. CASE i <= L
      BY <1>2, <1>3, <2>5, <3>1
    <3>2. CASE ~(i <= L)
      BY <2>5, <2>6, <3>2
    <3> QED
      BY <3>1, <3>2
  <2> QED
    BY <2>5, <2>7 DEF b
<1> QED
  BY <1>2, <1>4, <1>5

LEMMA GetBitsIsNumber ==
  ASSUME InputTypeOK, BitsInv, NEW count \in 1 .. 8, HasBits(count)
  PROVE  GetBits(count) = NumberAt(stream, Pos, count)
<1> DEFINE b == BitsAtHand(count)
           t == SubSeq(b, 1, count)
<1>1. b \in Seq(Bit) /\ Len(b) \in Nat /\ count <= Len(b)
  <2>1. Len(current) \in 0 .. 7
    BY CurrentType
  <2> QED
    BY <2>1, AtHand
<1>2. \A i \in 1 .. Len(b) : b[i] = BitAt(stream, Pos + i - 1)
  BY BitsFromPos
<1> HIDE DEF b
<1>3. \A i \in 1 .. count : b[i] \in Bit
  BY <1>1, ElementOfSeq
<1>4. t \in Seq(Bit) /\ Len(t) = count /\ \A i \in 1 .. count : t[i] = b[i]
  <2>1. /\ t \in Seq(Bit) /\ Len(t) = count - 1 + 1
        /\ \A i \in 1 .. count - 1 + 1 : t[i] = b[1 + i - 1]
    BY <1>3, SubSeqProperties
  <2> HIDE DEF t
  <2> QED
    BY <2>1
<1> HIDE DEF t
<1>5. \A i \in 1 .. Len(t) : t[i] = BitAt(stream, Pos + i - 1)
  BY <1>1, <1>2, <1>4
<1>6. stream \in Seq(Byte) /\ Pos \in Nat
  BY PosType
<1>7. Number(t) = NumberAt(stream, Pos, Len(t))
  BY <1>4, <1>5, <1>6, NumberOfBits
<1> QED
  BY <1>4, <1>7 DEF GetBits, t, b

LEMMA PosMoves ==
  ASSUME InputTypeOK, BitsInv, NEW count \in 1 .. 8, TakeBits(count),
         stream' = stream, sunk' = sunk
  PROVE  Pos' = Pos + count
<1> DEFINE b == BitsAtHand(count)
<1>1. HasBits(count) /\ current' = SubSeq(b, count + 1, Len(b))
  BY DEF TakeBits
<1>2. PICK L \in 0 .. 7 : Len(current) = L
  BY CurrentType
<1>3. b \in Seq(Bit) /\ Len(b) = IF L >= count THEN L ELSE L + 8
  BY <1>1, <1>2, AtHand
<1> HIDE DEF b
<1>4. PICK l \in Nat : Len(b) = l /\ count <= l
  <2>1. CASE L >= count
    BY <1>3, <2>1
  <2>2. CASE ~(L >= count)
    BY <1>3, <2>2
  <2> QED
    BY <2>1, <2>2
<1>5. Len(current') = l - count
  <2>1. \A i \in count + 1 .. l : b[i] \in Bit
    BY <1>3, <1>4, ElementOfSeq
  <2>2. Len(SubSeq(b, count + 1, l)) = IF count + 1 <= l THEN l - (count + 1) + 1 ELSE 0
    BY <2>1, <1>4, SubSeqProperties
  <2> QED
    BY <1>1, <1>4, <2>2
<1>6. PICK s \in Nat, i \in Nat, n \in Nat :
        s = sunk /\ i = input_index /\ n = input_size
  <2>1. sunk \in Nat
    BY PosType
  <2> QED
    BY <2>1 DEF InputTypeOK
<1>7. CASE L >= count
  <2>1. input_size' = n /\ input_index' = i /\ l = L
    BY <1>2, <1>3, <1>4, <1>6, <1>7 DEF TakeBits
  <2> QED
    BY <1>2, <1>5, <1>6, <2>1 DEF Pos, Waiting
<1>8. CASE ~(L >= count)
  <2>1. l = L + 8
    BY <1>3, <1>4, <1>8
  <2>2. input_size' - input_index' = n - i - 1
    BY <1>2, <1>6, <1>8 DEF TakeBits
  <2> QED
    BY <1>2, <1>5, <1>6, <2>1, <2>2 DEF Pos, Waiting
<1> QED
  BY <1>7, <1>8

-----------------------------------------------------------------------------
(***************************************************************************)
(* The invariant: the decoder is inside of the token at position p, all    *)
(* tokens before it make up text t, and what it has of this one is what    *)
(* the reference reads there.                                              *)
(***************************************************************************)
HighBits(n) == IF n > 8 THEN n - 8 ELSE 0

Taken(st) ==
  CASE st = "tag_bit" -> 0
    [] st \in {"yield_literal", "index_msb"} -> 1
    [] st = "index_lsb" -> 1 + HighBits(WINDOW_BITS)
    [] st = "count_msb" -> 1 + WINDOW_BITS
    [] st = "count_lsb" -> 1 + WINDOW_BITS + HighBits(LOOKAHEAD_BITS)
    [] st = "yield_backref" -> 1 + WINDOW_BITS + LOOKAHEAD_BITS

HighPart(s, p, n) == 256 * NumberAt(s, p, HighBits(n))
Distance(s, p) == NumberAt(s, p + 1, WINDOW_BITS) + 1
Count(s, p) == NumberAt(s, p + 1 + WINDOW_BITS, LOOKAHEAD_BITS) + 1

Reached(s, k, t, p) ==
  /\ 8 * k <= p
  /\ \A m \in Nat : p <= m => AfterTokens(s, m, k) = [pos |-> p, text |-> t]

FieldsRead(p) ==
  /\ state = "yield_literal" => BitAt(stream, p) = 1
  /\ state \notin {"tag_bit", "yield_literal"} => BitAt(stream, p) = 0
  /\ state = "index_lsb" => output_index = HighPart(stream, p + 1, WINDOW_BITS)
  /\ state \in {"count_msb", "count_lsb", "yield_backref"} => output_index = Distance(stream, p)
  /\ state = "count_lsb" => output_count = HighPart(stream, p + 1 + WINDOW_BITS, LOOKAHEAD_BITS)

Copying(p, t) ==
  /\ output_count \in 1 .. Count(stream, p)
  /\ Len(out) + output_count = Len(t) + Count(stream, p)
  /\ Extends(out, Repeated(t, Distance(stream, p), Count(stream, p)))

InToken(p, t) ==
  /\ Pos = p + Taken(state)
  /\ FieldsRead(p)
  /\ IF state = "yield_backref" THEN Copying(p, t) ELSE out = t

DecodeInv ==
  \E k \in Nat, t \in Seq(Byte), p \in Nat : Reached(stream, k, t, p) /\ InToken(p, t)

LEMMA FreshDecodes ==
  /\ DecoderInit => DecodeInv
  /\ Reset => DecodeInv'
<1>1. ASSUME NEW s \in Streams
      PROVE  Reached(s, 0, << >>, 0)
  <2>1. s \in Seq(Byte)
    BY BufferAssumption
  <2>2. \A m \in Nat : AfterTokens(s, m, 0) = Start
    BY <2>1, AfterSteps
  <2> QED
    BY <2>2 DEF Reached, Start
<1>2. << >> \in Seq(Byte) /\ 0 \in Nat
  BY EmptySeq
<1> 8 * (0 - (0 - 0)) - 0 = 0 /\ Len(<< >>) = 0 /\ 0 + 0 = 0
  OBVIOUS
<1>3. DecoderInit => stream \in Streams /\ InToken(0, << >>)
  <2> SUFFICES ASSUME DecoderInit
               PROVE  stream \in Streams /\ InToken(0, << >>)
    OBVIOUS
  <2>1. /\ stream \in Streams /\ state = "tag_bit" /\ out = << >>
        /\ sunk = 0 /\ input_size = 0 /\ input_index = 0 /\ current = << >>
    BY DEF DecoderInit
  <2>2. Pos = 0
    BY <2>1 DEF Pos, Waiting
  <2> QED
    BY <2>1, <2>2 DEF InToken, FieldsRead, Taken
<1>4. Reset => stream' \in Streams /\ InToken(0, << >>)'
  <2> SUFFICES ASSUME Reset
               PROVE  stream' \in Streams /\ InToken(0, << >>)'
    OBVIOUS
  <2>1. /\ stream' \in Streams /\ state' = "tag_bit" /\ out' = << >>
        /\ sunk' = 0 /\ input_size' = 0 /\ input_index' = 0 /\ current' = << >>
    BY DEF Reset
  <2>2. Pos' = 0
    BY <2>1 DEF Pos, Waiting
  <2> QED
    BY <2>1, <2>2 DEF InToken, FieldsRead, Taken
<1>5. DecoderInit => DecodeInv
  BY <1>1, <1>2, <1>3 DEF DecodeInv
<1>6. Reset => DecodeInv'
  BY <1>1, <1>2, <1>4 DEF DecodeInv
<1> QED
  BY <1>5, <1>6

LEMMA KeptDecoding ==
  ASSUME DecodeInv, UNCHANGED << stream, token_vars, state, out >>, Pos' = Pos
  PROVE  DecodeInv'
<1>1. PICK k \in Nat, t \in Seq(Byte), p \in Nat : Reached(stream, k, t, p) /\ InToken(p, t)
  BY DEF DecodeInv
<1>2. InToken(p, t)'
  BY <1>1 DEF InToken, FieldsRead, Copying, token_vars
<1> QED
  BY <1>1, <1>2 DEF DecodeInv

LEMMA SinkDecodes ==
  ASSUME InputTypeOK, DecodeInv, NEW n \in 1 .. SINK_MAX, Sink(n)
  PROVE  DecodeInv'
<1>1. PICK a \in Int : a = SinkSize(n)
  <2>1. n \in Int /\ INPUT_BUFFER_SIZE \in Int /\ input_size \in Int
    BY BufferAssumption DEF InputTypeOK
  <2>2. INPUT_BUFFER_SIZE - input_size \in Int
    BY <2>1
  <2> QED
    BY <2>1, <2>2 DEF SinkSize, SinkRoom
<1>2. PICK m \in Int : m = sunk
  BY BufferAssumption, LenProperties DEF InputTypeOK
<1>3. PICK i \in Int, j \in Int : i = input_size /\ j = input_index
  BY DEF InputTypeOK
<1>4. /\ sunk' = m + a /\ input_size' = i + a /\ input_index' = j
      /\ current' = current
  BY <1>1, <1>2, <1>3 DEF Sink
<1>5. (m + a) - ((i + a) - j) = m - (i - j)
  OBVIOUS
<1>6. Pos' = Pos
  BY <1>2, <1>3, <1>4, <1>5 DEF Pos, Waiting
<1> QED
  BY <1>6, KeptDecoding DEF Sink, yield_vars

(* The first fields of a token.                                            *)
LEMMA TagBitDecodes ==
  ASSUME TypeInv, BitsInv, DecodeInv, TagBit
  PROVE  DecodeInv'
<1>1. PICK k \in Nat, t \in Seq(Byte), p \in Nat : Reached(stream, k, t, p) /\ InToken(p, t)
  BY DEF DecodeInv
<1>2. /\ InputTypeOK /\ state = "tag_bit" /\ TakeBits(1) /\ HasBits(1)
      /\ stream' = stream /\ sunk' = sunk /\ out' = out
  BY DEF TypeInv, DecoderTypeOK, TagBit, In, TakeBits, caller_vars, yield_vars
<1>3. Pos = p /\ out = t
  BY <1>1, <1>2 DEF InToken, Taken
<1>4. stream \in Seq(Byte)
  BY <1>2, PosType
<1>5. Pos' = p + 1
  BY <1>2, <1>3, PosMoves
<1>6. GetBits(1) = BitAt(stream, p)
  <2>1. GetBits(1) = NumberAt(stream, p, 1)
    BY <1>2, <1>3, GetBitsIsNumber
  <2>2. NumberAt(stream, p, 0 + 1) = 2 * NumberAt(stream, p, 0) + BitAt(stream, p + 0)
    BY <1>4, NumberSteps
  <2>3. NumberAt(stream, p, 0) = 0 /\ BitAt(stream, p) \in 0 .. 1
    BY <1>4, NumberSteps, BitType
  <2> QED
    BY <2>1, <2>2, <2>3, p + 0 = p
<1>7. BitAt(stream, p) \in 0 .. 1
  BY <1>4, BitType
<1>8. CASE GetBits(1) = 1
  <2>1. state' = "yield_literal"
    BY <1>8 DEF TagBit
  <2>2. InToken(p, t)'
    BY <1>2, <1>3, <1>5, <1>6, <1>8, <2>1 DEF InToken, FieldsRead, Taken
  <2> QED
    BY <1>1, <1>2, <2>2 DEF DecodeInv
<1>9. CASE GetBits(1) # 1
  <2>1. BitAt(stream, p) = 0
    BY <1>6, <1>7, <1>9
  <2>2. CASE IndexBits > 8
    <3>1. state' = "index_msb"
      BY <1>9, <2>2 DEF TagBit
    <3>2. InToken(p, t)'
      BY <1>2, <1>3, <1>5, <2>1, <3>1 DEF InToken, FieldsRead, Taken
    <3> QED
      BY <1>1, <1>2, <3>2 DEF DecodeInv
  <2>3. CASE ~(IndexBits > 8)
    <3>1. state' = "index_lsb" /\ output_index' = 0
      BY <1>9, <2>3 DEF TagBit
    <3>2. HighBits(WINDOW_BITS) = 0
      BY <2>3, Sizes DEF HighBits
    <3>3. HighPart(stream, p + 1, WINDOW_BITS) = 0
      BY <1>4, <3>2, NumberSteps, p + 1 \in Nat DEF HighPart
    <3>4. InToken(p, t)'
      BY <1>2, <1>3, <1>5, <2>1, <3>1, <3>2, <3>3 DEF InToken, FieldsRead, Taken
    <3> QED
      BY <1>1, <1>2, <3>4 DEF DecodeInv
  <2> QED
    BY <2>2, <2>3
<1> QED
  BY <1>8, <1>9

(* A field is its high part, if it has one, and its low part.              *)
LEMMA FieldParts ==
  ASSUME NEW s \in Seq(Byte), NEW q \in Nat, NEW n \in 3 .. 15
  PROVE  /\ HighBits(n) \in Nat /\ HighBits(n) + LowBits(n) = n /\ LowBits(n) \in 1 .. 8
         /\ n > 8 => HighBits(n) = n - 8
         /\ ~(n > 8) => HighBits(n) = 0 /\ HighPart(s, q, n) = 0
         /\ HighPart(s, q, n) \in Nat
         /\ NumberAt(s, q, n) = HighPart(s, q, n) + NumberAt(s, q + HighBits(n), LowBits(n))
<1>1. CASE n > 8
  <2>1. HighBits(n) = n - 8 /\ LowBits(n) = 8 /\ n - 8 \in Nat /\ (n - 8) + 8 = n
    BY <1>1 DEF HighBits, LowBits
  <2>2. NumberAt(s, q, (n - 8) + 8) = 256 * NumberAt(s, q, n - 8) + NumberAt(s, q + (n - 8), 8)
    BY <2>1, NumberJoins
  <2>3. NumberAt(s, q, n - 8) \in Nat
    BY <2>1, NumberIsNat
  <2>4. HighPart(s, q, n) = 256 * NumberAt(s, q, n - 8) /\ 256 * NumberAt(s, q, n - 8) \in Nat
    BY <2>1, <2>3 DEF HighPart
  <2>5. NumberAt(s, q, n) = HighPart(s, q, n) + NumberAt(s, q + HighBits(n), LowBits(n))
    BY <2>1, <2>2, <2>4
  <2> QED
    BY <1>1, <2>1, <2>4, <2>5
<1>2. CASE ~(n > 8)
  <2>1. HighBits(n) = 0 /\ LowBits(n) = n /\ q + 0 = q
    BY <1>2 DEF HighBits, LowBits
  <2>2. NumberAt(s, q, 0) = 0 /\ NumberAt(s, q, n) \in Nat
    BY NumberSteps, n \in Nat
  <2>3. HighPart(s, q, n) = 0
    BY <2>1, <2>2 DEF HighPart
  <2>4. NumberAt(s, q, n) = HighPart(s, q, n) + NumberAt(s, q + HighBits(n), LowBits(n))
    BY <2>1, <2>2, <2>3
  <2>5. n \in 1 .. 8 /\ 0 + n = n
    BY <1>2
  <2> QED
    BY <1>2, <2>1, <2>3, <2>4, <2>5
<1> QED
  BY <1>1, <1>2

LEMMA FieldSizes ==
  /\ WINDOW_BITS \in 3 .. 15 /\ LOOKAHEAD_BITS \in 3 .. 15
  /\ WINDOW_BITS \in Nat /\ LOOKAHEAD_BITS \in Nat
  /\ IndexBits = WINDOW_BITS /\ CountBits = LOOKAHEAD_BITS
BY Sizes

(* Where the fields of a token at p start.                                 *)
LEMMA FieldStarts ==
  ASSUME NEW p \in Nat
  PROVE  /\ p + Taken("tag_bit") = p
         /\ p + Taken("yield_literal") = p + 1 /\ p + Taken("index_msb") = p + 1
         /\ p + Taken("index_lsb") = p + 1 + HighBits(WINDOW_BITS)
         /\ p + Taken("count_msb") = p + 1 + WINDOW_BITS
         /\ p + Taken("count_lsb") = p + 1 + WINDOW_BITS + HighBits(LOOKAHEAD_BITS)
         /\ p + Taken("yield_backref") = BackrefEnd(p)
<1>1. PICK w \in Nat, l \in Nat : w = WINDOW_BITS /\ l = LOOKAHEAD_BITS
  BY FieldSizes
<1>2. PICK h \in Nat : h = HighBits(w)
  BY DEF HighBits
<1>3. PICK g \in Nat : g = HighBits(l)
  BY DEF HighBits
<1> QED
  BY <1>1, <1>2, <1>3 DEF Taken, BackrefEnd

(* A field in two parts ends where it would end as one.                    *)
LEMMA FieldEnds ==
  ASSUME NEW p \in Nat, NEW h \in Nat, NEW n \in Nat, NEW m, h + n = m
  PROVE  (p + h) + n = p + m
OBVIOUS

LEMMA IndexMsbDecodes ==
  ASSUME TypeInv, BitsInv, DecodeInv, IndexMsb
  PROVE  DecodeInv'
<1>1. PICK k \in Nat, t \in Seq(Byte), p \in Nat : Reached(stream, k, t, p) /\ InToken(p, t)
  BY DEF DecodeInv
<1> DEFINE count == IndexBits - 8
<1>2. /\ InputTypeOK /\ state = "index_msb" /\ TakeBits(count) /\ HasBits(count)
      /\ stream' = stream /\ sunk' = sunk /\ out' = out /\ state' = "index_lsb"
      /\ output_index' = 256 * GetBits(count) /\ IndexBits > 8
  BY DEF TypeInv, DecoderTypeOK, IndexMsb, In, TakeBits, caller_vars, yield_vars
<1>3. count \in 1 .. 8 /\ count = WINDOW_BITS - 8 /\ HighBits(WINDOW_BITS) = count
  BY <1>2, Sizes DEF HighBits
<1> HIDE DEF count
<1>4. Pos = p + 1 /\ out = t /\ BitAt(stream, p) = 0
  BY <1>1, <1>2 DEF InToken, FieldsRead, Taken
<1>5. Pos' = p + 1 + count
  BY <1>2, <1>3, <1>4, PosMoves
<1>6. GetBits(count) = NumberAt(stream, p + 1, count)
  BY <1>2, <1>3, <1>4, GetBitsIsNumber
<1>7. output_index' = HighPart(stream, p + 1, WINDOW_BITS)
  BY <1>2, <1>3, <1>6 DEF HighPart
<1>8. InToken(p, t)'
  <2>1. Pos' = p + Taken("index_lsb")
    BY <1>3, <1>5, FieldStarts
  <2> QED
    BY <1>2, <1>4, <1>7, <2>1 DEF InToken, FieldsRead
<1> QED
  BY <1>1, <1>2, <1>8 DEF DecodeInv

LEMMA IndexLsbDecodes ==
  ASSUME TypeInv, BitsInv, DecodeInv, IndexLsb
  PROVE  DecodeInv'
<1>1. PICK k \in Nat, t \in Seq(Byte), p \in Nat : Reached(stream, k, t, p) /\ InToken(p, t)
  BY DEF DecodeInv
<1> DEFINE count == LowBits(IndexBits)
           h == HighBits(WINDOW_BITS)
<1>2. /\ InputTypeOK /\ state = "index_lsb" /\ TakeBits(count) /\ HasBits(count)
      /\ stream' = stream /\ sunk' = sunk /\ out' = out
      /\ state' = (IF CountBits > 8 THEN "count_msb" ELSE "count_lsb")
      /\ output_index' = output_index + GetBits(count) + 1 /\ output_count' = 0
  BY DEF TypeInv, DecoderTypeOK, IndexLsb, In, TakeBits, caller_vars, yield_vars
<1>3. stream \in Seq(Byte)
  BY <1>2, PosType
<1>4. /\ count \in 1 .. 8 /\ h \in Nat /\ h + count = WINDOW_BITS
      /\ NumberAt(stream, p + 1, WINDOW_BITS)
           = HighPart(stream, p + 1, WINDOW_BITS) + NumberAt(stream, p + 1 + h, count)
  <2>1. PICK w \in 3 .. 15 : w = WINDOW_BITS /\ w = IndexBits
    BY FieldSizes
  <2>2. PICK a \in Nat : a = p + 1
    OBVIOUS
  <2>3. /\ HighBits(w) \in Nat /\ HighBits(w) + LowBits(w) = w /\ LowBits(w) \in 1 .. 8
        /\ NumberAt(stream, a, w)
             = HighPart(stream, a, w) + NumberAt(stream, a + HighBits(w), LowBits(w))
    BY <1>3, FieldParts
  <2> QED
    BY <2>1, <2>2, <2>3
<1> HIDE DEF count, h
<1>5. Pos = p + 1 + h /\ out = t /\ BitAt(stream, p) = 0
      /\ output_index = HighPart(stream, p + 1, WINDOW_BITS)
  BY <1>1, <1>2, <1>4 DEF InToken, FieldsRead, Taken, h
<1>6. Pos' = p + 1 + WINDOW_BITS
  <2>1. Pos' = p + 1 + h + count
    BY <1>2, <1>4, <1>5, PosMoves
  <2> QED
    BY <1>4, <2>1, FieldEnds, p + 1 \in Nat
<1>7. GetBits(count) = NumberAt(stream, p + 1 + h, count)
  BY <1>2, <1>4, <1>5, GetBitsIsNumber
<1>8. output_index' = Distance(stream, p)
  BY <1>2, <1>4, <1>5, <1>7 DEF Distance
<1>9. CASE CountBits > 8
  <2>1. state' = "count_msb"
    BY <1>2, <1>9
  <2>2. InToken(p, t)'
    BY <1>2, <1>5, <1>6, <1>8, <2>1, FieldSizes DEF InToken, FieldsRead, Taken
  <2> QED
    BY <1>1, <1>2, <2>2 DEF DecodeInv
<1>10. CASE ~(CountBits > 8)
  <2>1. state' = "count_lsb"
    BY <1>2, <1>10
  <2>2. /\ HighBits(LOOKAHEAD_BITS) = 0
        /\ HighPart(stream, p + 1 + WINDOW_BITS, LOOKAHEAD_BITS) = 0
    BY <1>3, <1>10, FieldSizes, FieldParts, p + 1 + WINDOW_BITS \in Nat
  <2>3. InToken(p, t)'
    BY <1>2, <1>5, <1>6, <1>8, <2>1, <2>2, FieldSizes DEF InToken, FieldsRead, Taken
  <2> QED
    BY <1>1, <1>2, <2>3 DEF DecodeInv
<1> QED
  BY <1>9, <1>10

LEMMA CountMsbDecodes ==
  ASSUME TypeInv, BitsInv, DecodeInv, CountMsb
  PROVE  DecodeInv'
<1>1. PICK k \in Nat, t \in Seq(Byte), p \in Nat : Reached(stream, k, t, p) /\ InToken(p, t)
  BY DEF DecodeInv
<1> DEFINE count == CountBits - 8
<1>2. /\ InputTypeOK /\ state = "count_msb" /\ TakeBits(count) /\ HasBits(count)
      /\ stream' = stream /\ sunk' = sunk /\ out' = out /\ state' = "count_lsb"
      /\ output_count' = 256 * GetBits(count) /\ output_index' = output_index
      /\ CountBits > 8
  BY DEF TypeInv, DecoderTypeOK, CountMsb, In, TakeBits, caller_vars, yield_vars
<1>3. count \in 1 .. 8 /\ count = LOOKAHEAD_BITS - 8 /\ HighBits(LOOKAHEAD_BITS) = count
  BY <1>2, Sizes DEF HighBits
<1> HIDE DEF count
<1> DEFINE q == p + 1 + WINDOW_BITS
<1>4. /\ Pos = q /\ out = t /\ BitAt(stream, p) = 0
      /\ output_index = Distance(stream, p) /\ q \in Nat
  BY <1>1, <1>2, FieldSizes DEF InToken, FieldsRead, Taken
<1>5. Pos' = p + 1 + WINDOW_BITS + count
  BY <1>2, <1>3, <1>4, PosMoves
<1>6. GetBits(count) = NumberAt(stream, q, count)
  BY <1>2, <1>3, <1>4, GetBitsIsNumber
<1>7. output_count' = HighPart(stream, q, LOOKAHEAD_BITS)
  BY <1>2, <1>3, <1>6 DEF HighPart
<1>8. InToken(p, t)'
  <2>1. Pos' = p + Taken("count_lsb")
    BY <1>3, <1>5, FieldStarts
  <2> QED
    BY <1>2, <1>4, <1>7, <2>1 DEF InToken, FieldsRead
<1> QED
  BY <1>1, <1>2, <1>8 DEF DecodeInv

LEMMA CountLsbDecodes ==
  ASSUME TypeInv, BitsInv, DecodeInv, CountLsb
  PROVE  DecodeInv'
<1>1. PICK k \in Nat, t \in Seq(Byte), p \in Nat : Reached(stream, k, t, p) /\ InToken(p, t)
  BY DEF DecodeInv
<1> DEFINE count == LowBits(CountBits)
           h == HighBits(LOOKAHEAD_BITS)
           q == p + 1 + WINDOW_BITS
<1>2. /\ InputTypeOK /\ state = "count_lsb" /\ TakeBits(count) /\ HasBits(count)
      /\ stream' = stream /\ sunk' = sunk /\ out' = out /\ state' = "yield_backref"
      /\ output_count' = output_count + GetBits(count) + 1 /\ output_index' = output_index
  BY DEF TypeInv, DecoderTypeOK, CountLsb, In, TakeBits, caller_vars, yield_vars
<1>3. stream \in Seq(Byte) /\ q \in Nat
  BY <1>2, PosType, FieldSizes
<1>4. /\ count \in 1 .. 8 /\ h \in Nat /\ h + count = LOOKAHEAD_BITS
      /\ NumberAt(stream, q, LOOKAHEAD_BITS)
           = HighPart(stream, q, LOOKAHEAD_BITS) + NumberAt(stream, q + h, count)
  <2>1. PICK w \in 3 .. 15 : w = LOOKAHEAD_BITS /\ w = CountBits
    BY FieldSizes
  <2>2. PICK a \in Nat : a = q
    BY <1>3
  <2>3. /\ HighBits(w) \in Nat /\ HighBits(w) + LowBits(w) = w /\ LowBits(w) \in 1 .. 8
        /\ NumberAt(stream, a, w)
             = HighPart(stream, a, w) + NumberAt(stream, a + HighBits(w), LowBits(w))
    BY <1>3, FieldParts
  <2> HIDE DEF q
  <2> QED
    BY <2>1, <2>2, <2>3
<1> HIDE DEF count, h
<1>5. Pos = q + h /\ out = t /\ BitAt(stream, p) = 0
      /\ output_index = Distance(stream, p)
      /\ output_count = HighPart(stream, q, LOOKAHEAD_BITS)
  BY <1>1, <1>2, <1>4, FieldStarts DEF InToken, FieldsRead, h
<1>6. Pos' = p + Taken("yield_backref")
  <2>1. Pos' = q + h + count
    BY <1>2, <1>3, <1>4, <1>5, PosMoves
  <2>2. Pos' = q + LOOKAHEAD_BITS
    BY <1>3, <1>4, <2>1, FieldEnds
  <2> QED
    BY <2>2, FieldStarts DEF BackrefEnd
<1>7. GetBits(count) = NumberAt(stream, q + h, count)
  BY <1>2, <1>3, <1>4, <1>5, GetBitsIsNumber
<1> DEFINE d == Distance(stream, p)
           c == Count(stream, p)
<1>8. output_count' = c
  BY <1>2, <1>4, <1>5, <1>7 DEF Count
<1>9. d \in Nat \ {0} /\ c \in Nat \ {0}
  <2>1. NumberAt(stream, p + 1, WINDOW_BITS) \in Nat /\ NumberAt(stream, q, LOOKAHEAD_BITS) \in Nat
    BY <1>3, FieldSizes, NumberIsNat, p + 1 \in Nat
  <2> QED
    BY <2>1 DEF Distance, Count
<1> HIDE DEF d, c
<1>10. Extends(t, Repeated(t, d, c)) /\ Len(t) \in Nat
  BY <1>9, RepeatedText, LenProperties
<1>11. Copying(p, t)'
  BY <1>2, <1>5, <1>8, <1>9, <1>10 DEF Copying, d, c
<1>12. FieldsRead(p)'
  BY <1>2, <1>5 DEF FieldsRead
<1>13. InToken(p, t)'
  BY <1>2, <1>6, <1>11, <1>12 DEF InToken
<1> QED
  BY <1>1, <1>2, <1>13 DEF DecodeInv

(* The last field of a token: the text goes on behind it.                  *)
LEMMA TokenRead ==
  ASSUME NEW s \in Seq(Byte), NEW k \in Nat, NEW t \in Seq(Byte), NEW p \in Nat,
         NEW u \in Seq(Byte), NEW q \in Nat, Reached(s, k, t, p), p + 8 <= q,
         \A m \in Nat : q <= m =>
           NextToken(s, m, [pos |-> p, text |-> t]) = [pos |-> q, text |-> u]
  PROVE  Reached(s, k + 1, u, q)
<1>1. ASSUME NEW m \in Nat, q <= m
      PROVE  AfterTokens(s, m, k + 1) = [pos |-> q, text |-> u]
  <2>1. AfterTokens(s, m, k) = [pos |-> p, text |-> t]
    BY <1>1 DEF Reached
  <2>2. AfterTokens(s, m, k + 1) = NextToken(s, m, AfterTokens(s, m, k))
    BY AfterSteps
  <2> QED
    BY <1>1, <2>1, <2>2
<1>2. 8 * (k + 1) <= q
  BY DEF Reached
<1> QED
  BY <1>1, <1>2 DEF Reached

LEMMA LiteralRead ==
  ASSUME NEW s \in Seq(Byte), NEW m \in Nat, NEW p \in Nat, NEW t,
         BitAt(s, p) = 1, p + 9 <= m,
         NEW u, u = Append(t, NumberAt(s, p + 1, 8))
  PROVE  NextToken(s, m, [pos |-> p, text |-> t]) = [pos |-> p + 9, text |-> u]
BY DEF NextToken, LiteralEnd

LEMMA BackrefRead ==
  ASSUME NEW s \in Seq(Byte), NEW m \in Nat, NEW p \in Nat, NEW t,
         BitAt(s, p) = 0, BackrefEnd(p) <= m
  PROVE  NextToken(s, m, [pos |-> p, text |-> t])
           = [pos |-> BackrefEnd(p), text |-> Repeated(t, Distance(s, p), Count(s, p))]
BY DEF NextToken, Distance, Count

LEMMA FieldTypes ==
  ASSUME NEW s \in Seq(Byte), NEW p \in Nat
  PROVE  Distance(s, p) \in Nat \ {0} /\ Count(s, p) \in Nat \ {0}
<1>1. p + 1 \in Nat /\ p + 1 + WINDOW_BITS \in Nat
  BY FieldSizes
<1>2. /\ NumberAt(s, p + 1, WINDOW_BITS) \in Nat
      /\ NumberAt(s, p + 1 + WINDOW_BITS, LOOKAHEAD_BITS) \in Nat
  BY <1>1, FieldSizes, NumberIsNat
<1> QED
  BY <1>2 DEF Distance, Count

LEMMA YieldLiteralDecodes ==
  ASSUME TypeInv, BitsInv, DecodeInv, YieldLiteral
  PROVE  DecodeInv'
<1>1. PICK k \in Nat, t \in Seq(Byte), p \in Nat : Reached(stream, k, t, p) /\ InToken(p, t)
  BY DEF DecodeInv
<1>2. /\ InputTypeOK /\ state = "yield_literal" /\ TakeBits(8) /\ HasBits(8)
      /\ stream' = stream /\ sunk' = sunk /\ state' = "tag_bit"
      /\ out' = Append(out, GetBits(8))
  BY DEF TypeInv, DecoderTypeOK, YieldLiteral, In, TakeBits, caller_vars, Yield
<1>3. Pos = p + 1 /\ out = t /\ BitAt(stream, p) = 1
  BY <1>1, <1>2 DEF InToken, FieldsRead, Taken
<1>4. stream \in Seq(Byte)
  BY <1>2, PosType
<1>5. Pos' = p + 9
  BY <1>2, <1>3, PosMoves
<1> DEFINE c == NumberAt(stream, p + 1, 8)
           u == Append(t, c)
<1>6. GetBits(8) = c
  BY <1>2, <1>3, GetBitsIsNumber
<1>7. c \in Byte
  BY <1>4, NumberIsByte, p + 1 \in Nat
<1>8. \A m \in Nat : p + 9 <= m =>
        NextToken(stream, m, [pos |-> p, text |-> t]) = [pos |-> p + 9, text |-> u]
  <2>1. ASSUME NEW m \in Nat, p + 9 <= m
        PROVE  NextToken(stream, m, [pos |-> p, text |-> t]) = [pos |-> p + 9, text |-> u]
    <3>1. u = Append(t, NumberAt(stream, p + 1, 8))
      OBVIOUS
    <3> HIDE DEF u
    <3> QED
      BY <1>3, <1>4, <2>1, <3>1, LiteralRead
  <2> HIDE DEF u
  <2> QED
    BY <2>1
<1> HIDE DEF c
<1>9. u \in Seq(Byte)
  BY <1>7
<1> HIDE DEF u
<1>10. Reached(stream, k + 1, u, p + 9)
  BY <1>1, <1>4, <1>8, <1>9, TokenRead, p + 9 \in Nat
<1>11. out' = u
  BY <1>2, <1>3, <1>6 DEF u
<1>12. PICK q \in Nat : q = p + 9
  OBVIOUS
<1>13. Pos' = q + Taken("tag_bit")
  BY <1>5, <1>12, FieldStarts
<1>14. PICK v \in Seq(Byte) : v = u
  BY <1>9
<1>15. InToken(q, v)'
  BY <1>2, <1>11, <1>13, <1>14 DEF InToken, FieldsRead
<1>16. PICK i \in Nat : i = k + 1
  OBVIOUS
<1>17. Reached(stream', i, v, q)
  BY <1>2, <1>10, <1>12, <1>14, <1>16
<1> QED
  BY <1>15, <1>17 DEF DecodeInv

LEMMA YieldBackrefDecodes ==
  ASSUME TypeInv, BitsInv, WindowHoldsOutput, DecodeInv, YieldBackref
  PROVE  DecodeInv'
<1>1. PICK k \in Nat, t \in Seq(Byte), p \in Nat : Reached(stream, k, t, p) /\ InToken(p, t)
  BY DEF DecodeInv
<1> DEFINE d == Distance(stream, p)
           n == Count(stream, p)
           u == Repeated(t, d, n)
           c == window[Mask(head_index - output_index)]
           l == Len(out)
<1>2. /\ InputTypeOK /\ OutputTypeOK /\ state = "yield_backref"
      /\ stream' = stream /\ sunk' = sunk /\ output_index' = output_index
      /\ out' = Append(out, c)
      /\ output_count' = output_count - 1
      /\ state' = (IF output_count = 1 THEN "tag_bit" ELSE "yield_backref")
      /\ output_index \in 1 .. WindowSize
  BY DEF TypeInv, DecoderTypeOK, YieldBackref, In, caller_vars, Yield
<1>3. Pos' = Pos
  BY DEF YieldBackref, input_vars, caller_vars, Pos, Waiting
<1>4. stream \in Seq(Byte) /\ out \in Seq(Byte)
  BY <1>2, PosType DEF OutputTypeOK
<1>5. d \in Nat \ {0} /\ n \in Nat \ {0} /\ Len(t) \in Nat /\ l \in Nat
  BY <1>4, FieldTypes, LenProperties
<1>6. /\ Pos = BackrefEnd(p) /\ BitAt(stream, p) = 0 /\ output_index = d
      /\ output_count \in 1 .. n /\ l + output_count = Len(t) + n
      /\ Extends(out, u)
  BY <1>1, <1>2, FieldStarts DEF InToken, FieldsRead, Copying
<1>7. c = IF d <= l THEN out[l - d + 1] ELSE 0
  BY <1>2, <1>6 DEF WindowHoldsOutput
<1>8. c \in Byte
  <2>1. window \in [0 .. WindowSize - 1 -> Byte] /\ head_index - output_index \in Int
    BY <1>2, Wrap, Sizes DEF OutputTypeOK
  <2> QED
    BY <2>1, MaskRange
<1> HIDE DEF d, n, c
<1>9. /\ u \in Seq(Byte) /\ Len(u) = Len(t) + n
      /\ \A i \in Len(t) .. Len(t) + n - 1 : u[i + 1] = IF d <= i THEN u[i - d + 1] ELSE 0
  BY <1>5, RepeatedText
<1>10. u[l + 1] = c
  <2>1. l \in Len(t) .. Len(t) + n - 1
    BY <1>5, <1>6
  <2>2. d <= l => l - d + 1 \in 1 .. l
    BY <1>5
  <2>3. d <= l => u[l - d + 1] = out[l - d + 1]
    BY <1>6, <2>2 DEF Extends
  <2> HIDE DEF u, l
  <2> QED
    BY <1>7, <1>9, <2>1, <2>3
<1>11. /\ out' \in Seq(Byte) /\ Len(out') = l + 1
       /\ \A i \in 1 .. l + 1 : out'[i] = IF i = l + 1 THEN c ELSE out[i]
  BY <1>2, <1>4, <1>8
<1> HIDE DEF u, l
<1>12. Extends(out', u)
  <2>1. l + 1 <= Len(u)
    BY <1>5, <1>6, <1>9
  <2>2. ASSUME NEW i \in 1 .. l + 1
        PROVE  u[i] = out'[i]
    <3>1. CASE i = l + 1
      BY <1>10, <1>11, <3>1
    <3>2. CASE i # l + 1
      BY <1>5, <1>6, <1>11, <3>2 DEF Extends, l
    <3> QED
      BY <3>1, <3>2
  <2> QED
    BY <1>11, <2>1, <2>2 DEF Extends
<1>13. CASE output_count = 1
  <2>1. out' = u
    <3>1. Len(out') = Len(u)
      BY <1>5, <1>6, <1>9, <1>11, <1>13
    <3>2. \A i \in 1 .. Len(out') : out'[i] = u[i]
      BY <1>12 DEF Extends
    <3> QED
      BY <1>9, <1>11, <3>1, <3>2, SeqEqual
  <2>2. \A m \in Nat : BackrefEnd(p) <= m =>
          NextToken(stream, m, [pos |-> p, text |-> t]) = [pos |-> BackrefEnd(p), text |-> u]
    BY <1>4, <1>6, BackrefRead DEF u, d, n
  <2>3. BackrefEnd(p) \in Nat /\ p + 8 <= BackrefEnd(p)
    BY TokenEnds
  <2>4. Reached(stream, k + 1, u, BackrefEnd(p))
    BY <1>1, <1>4, <1>9, <2>2, <2>3, TokenRead
  <2>5. state' = "tag_bit"
    BY <1>2, <1>13
  <2>6. PICK v \in Seq(Byte), q \in Nat, i \in Nat :
          v = u /\ q = BackrefEnd(p) /\ i = k + 1
    BY <1>9, <2>3
  <2>7. Pos' = q + Taken("tag_bit")
    BY <1>3, <1>6, <2>6, FieldStarts
  <2>8. InToken(q, v)'
    BY <2>1, <2>5, <2>6, <2>7 DEF InToken, FieldsRead
  <2>9. Reached(stream', i, v, q)
    BY <1>2, <2>4, <2>6
  <2> QED
    BY <2>8, <2>9 DEF DecodeInv
<1>14. CASE output_count # 1
  <2>1. state' = "yield_backref"
    BY <1>2, <1>14
  <2>2. output_count' \in 1 .. n /\ Len(out') + output_count' = Len(t) + n
    <3>1. PICK a \in Nat : a = n
      BY <1>5
    <3>2. PICK b \in 1 .. a : b = output_count
      BY <1>6, <3>1
    <3>3. PICK e \in Nat, g \in Nat : e = l /\ g = Len(t)
      BY <1>5
    <3>4. e + b = g + a /\ b # 1
      BY <1>6, <1>14, <3>1, <3>2, <3>3
    <3>5. b - 1 \in 1 .. a /\ (e + 1) + (b - 1) = g + a
      BY <3>4
    <3> QED
      BY <1>2, <1>11, <3>1, <3>2, <3>3, <3>5
  <2>3. Copying(p, t)'
    BY <1>2, <1>12, <2>2 DEF Copying, u, d, n
  <2>4. FieldsRead(p)'
    BY <1>2, <1>6, <2>1 DEF FieldsRead, d
  <2>5. Pos' = p + Taken(state')
    BY <1>3, <1>6, <2>1, FieldStarts
  <2>6. InToken(p, t)'
    BY <2>1, <2>3, <2>4, <2>5 DEF InToken
  <2> QED
    BY <1>1, <1>2, <2>6 DEF DecodeInv
<1> QED
  BY <1>13, <1>14

LEMMA StepDecodes ==
  ASSUME TypeInv, BitsInv, WindowHoldsOutput, DecodeInv, [DecoderNext]_decoder_vars
  PROVE  DecodeInv'
<1>1. CASE Reset
  BY <1>1, FreshDecodes
<1>2. CASE \E n \in 1 .. SINK_MAX : Sink(n)
  BY <1>2, SinkDecodes DEF TypeInv, DecoderTypeOK
<1>3. CASE \E size \in PollSizes : PollStart(size)
  BY <1>3, KeptDecoding DEF PollStart, input_vars, token_vars, Pos, Waiting
<1>4. CASE PollReturn
  BY <1>4, KeptDecoding DEF PollReturn, input_vars, token_vars, yield_vars, Pos, Waiting
<1>5. CASE UNCHANGED decoder_vars
  BY <1>5, KeptDecoding DEF decoder_vars, input_vars, token_vars, Pos, Waiting
<1>6. CASE TagBit \/ IndexMsb \/ IndexLsb \/ CountMsb \/ CountLsb
  BY <1>6, TagBitDecodes, IndexMsbDecodes, IndexLsbDecodes, CountMsbDecodes, CountLsbDecodes
<1>7. CASE YieldLiteral \/ YieldBackref
  BY <1>7, YieldLiteralDecodes, YieldBackrefDecodes
<1> QED
  BY <1>1, <1>2, <1>3, <1>4, <1>5, <1>6, <1>7 DEF DecoderNext, PollStep

(* A poll that has returned was stuck, and said so.                        *)
PollEnded ==
  poll_res \in {"EMPTY", "MORE"} => Stuck /\ (poll_res = "EMPTY" <=> ~BufferFull)

LEMMA StepEnds ==
  ASSUME PollEnded, [DecoderNext]_decoder_vars
  PROVE  PollEnded'
<1>1. CASE PollReturn
  BY <1>1 DEF PollReturn, PollEnded, Stuck, BufferFull, HasBits, BitsFor,
              input_vars, yield_vars
<1>2. CASE UNCHANGED decoder_vars
  BY <1>2 DEF decoder_vars, input_vars, PollEnded, Stuck, BufferFull, HasBits, BitsFor
<1>3. CASE DecoderNext /\ ~PollReturn
  <2>1. poll_res' \notin {"EMPTY", "MORE"}
    BY <1>3 DEF DecoderNext, PollStep, Reset, Sink, PollStart, TagBit, YieldLiteral,
       YieldBackref, IndexMsb, IndexLsb, CountMsb, CountLsb, In, caller_vars
  <2> QED
    BY <2>1 DEF PollEnded
<1> QED
  BY <1>1, <1>2, <1>3

DecoderInv == TypeInv /\ BitsInv /\ WindowHoldsOutput /\ DecodeInv /\ PollEnded

LEMMA DecoderInvKept ==
  /\ DecoderInit => DecoderInv
  /\ DecoderInv /\ [DecoderNext]_decoder_vars => DecoderInv'
<1>1. DecoderInit => PollEnded
  BY DEF DecoderInit, PollEnded
<1>2. DecoderInit => DecoderInv
  BY <1>1, InitType, FreshBits, FreshHolds, FreshDecodes DEF DecoderInv
<1>3. DecoderInv /\ [DecoderNext]_decoder_vars => DecoderInv'
  BY StepType, StepBits, StepHolds, StepDecodes, StepEnds DEF DecoderInv
<1> QED
  BY <1>2, <1>3

-----------------------------------------------------------------------------
(* The reference has read all that the decoder has, and no more if the     *)
(* rest is not a whole token.                                              *)
LEMMA WholeToken ==
  ASSUME NEW k \in Nat, NEW t \in Seq(Byte), NEW p \in Nat, NEW m \in Nat,
         stream \in Seq(Byte), Reached(stream, k, t, p), p <= m
  PROVE  /\ AfterTokens(stream, m, k) = [pos |-> p, text |-> t]
         /\ \A j \in Nat : k <= j => Extends(t, AfterTokens(stream, m, j).text)
         /\ BitAt(stream, p) = 1 /\ p + 9 <= m =>
              \A j \in Nat : k + 1 <= j =>
                Extends(Append(t, NumberAt(stream, p + 1, 8)), AfterTokens(stream, m, j).text)
         /\ BitAt(stream, p) = 0 /\ BackrefEnd(p) <= m =>
              \A j \in Nat : k + 1 <= j =>
                Extends(Repeated(t, Distance(stream, p), Count(stream, p)),
                        AfterTokens(stream, m, j).text)
         /\ (BitAt(stream, p) = 1 => m < p + 9) /\ (BitAt(stream, p) = 0 => m < BackrefEnd(p)) =>
              \A j \in Nat : k <= j => AfterTokens(stream, m, j).text = t
<1> DEFINE r == [pos |-> p, text |-> t]
<1>1. AfterTokens(stream, m, k) = r
  BY DEF Reached
<1>2. AfterTokens(stream, m, k + 1) = NextToken(stream, m, r) /\ k + 1 \in Nat
  BY <1>1, AfterSteps
<1>3. ASSUME NEW j \in Nat, k <= j
      PROVE  Extends(t, AfterTokens(stream, m, j).text)
  <2>1. Extends(AfterTokens(stream, m, k).text, AfterTokens(stream, m, j).text)
    BY <1>3, TextGrows
  <2> QED
    BY <1>1, <2>1
<1>4. ASSUME BitAt(stream, p) = 1, p + 9 <= m, NEW j \in Nat, k + 1 <= j
      PROVE  Extends(Append(t, NumberAt(stream, p + 1, 8)), AfterTokens(stream, m, j).text)
  <2> DEFINE u == Append(t, NumberAt(stream, p + 1, 8))
  <2>1. AfterTokens(stream, m, k + 1) = [pos |-> p + 9, text |-> u]
    <3>1. u = Append(t, NumberAt(stream, p + 1, 8))
      OBVIOUS
    <3> HIDE DEF u
    <3>2. NextToken(stream, m, [pos |-> p, text |-> t]) = [pos |-> p + 9, text |-> u]
      <4>1. /\ stream \in Seq(Byte) /\ m \in Nat /\ p \in Nat
            /\ BitAt(stream, p) = 1 /\ p + 9 <= m
        BY <1>4
      <4> QED
        BY ONLY <3>1, <4>1 DEF NextToken, LiteralEnd
    <3> QED
      BY ONLY <1>2, <3>2 DEF r
  <2>2. Extends(AfterTokens(stream, m, k + 1).text, AfterTokens(stream, m, j).text)
    BY <1>2, <1>4, TextGrows
  <2> HIDE DEF u
  <2>3. Extends(u, AfterTokens(stream, m, j).text)
    BY <2>1, <2>2
  <2> QED
    BY <2>3 DEF u
<1>5. ASSUME BitAt(stream, p) = 0, BackrefEnd(p) <= m, NEW j \in Nat, k + 1 <= j
      PROVE  Extends(Repeated(t, Distance(stream, p), Count(stream, p)),
                     AfterTokens(stream, m, j).text)
  <2>1. AfterTokens(stream, m, k + 1)
          = [pos |-> BackrefEnd(p), text |-> Repeated(t, Distance(stream, p), Count(stream, p))]
    BY <1>2, <1>5, BackrefRead
  <2>2. Extends(AfterTokens(stream, m, k + 1).text, AfterTokens(stream, m, j).text)
    BY <1>2, <1>5, TextGrows
  <2> QED
    BY <2>1, <2>2
<1>6. ASSUME BitAt(stream, p) = 1 => m < p + 9, BitAt(stream, p) = 0 => m < BackrefEnd(p),
             NEW j \in Nat, k <= j
      PROVE  AfterTokens(stream, m, j).text = t
  <2>1. ~(BitAt(stream, p) = 1 /\ p + 9 <= m) /\ ~(BitAt(stream, p) = 0 /\ BackrefEnd(p) <= m)
    <3>1. PICK e \in Nat : e = BackrefEnd(p)
      BY TokenEnds
    <3> QED
      BY <1>6, <3>1
  <2>2. NextToken(stream, m, r) = r
    BY <2>1 DEF NextToken, LiteralEnd
  <2>3. NextToken(stream, m, AfterTokens(stream, m, k)) = AfterTokens(stream, m, k)
    BY <1>1, <2>2
  <2>4. AfterTokens(stream, m, j) = AfterTokens(stream, m, k)
    BY <1>6, <2>3, TextEnds
  <2> QED
    BY <1>1, <2>4
<1> QED
  BY <1>1, <1>3, <1>4, <1>5, <1>6

(* Short of input, the decoder is inside of a token that is not all there. *)
Short == state # "yield_backref" /\ ~HasBits(BitsFor(state))

(* A field ends inside of its token.                                       *)
LEMMA FieldFits ==
  ASSUME NEW p \in Nat, NEW st \in DecoderStates \ {"yield_backref"},
         st = "index_msb" => WINDOW_BITS > 8, st = "count_msb" => LOOKAHEAD_BITS > 8
  PROVE  /\ p + Taken(st) \in Nat /\ BitsFor(st) \in Nat
         /\ st = "yield_literal" => p + Taken(st) + BitsFor(st) = p + 9
         /\ st = "tag_bit" => p + Taken(st) + BitsFor(st) <= p + 9
         /\ st # "yield_literal" => p + Taken(st) + BitsFor(st) <= BackrefEnd(p)
<1>1. PICK w \in 3 .. 15, l \in 3 .. 15 :
        /\ w = WINDOW_BITS /\ l = LOOKAHEAD_BITS /\ w = IndexBits /\ l = CountBits
  BY FieldSizes
<1>2. BackrefEnd(p) = p + 1 + w + l
  BY <1>1 DEF BackrefEnd
<1>3. CASE st = "tag_bit"
  BY <1>2, <1>3, FieldStarts DEF BitsFor
<1>4. CASE st = "yield_literal"
  BY <1>4, FieldStarts DEF BitsFor
<1>5. CASE st = "index_msb"
  <2>1. p + Taken(st) = p + 1 /\ BitsFor(st) = w - 8 /\ w > 8
    BY <1>1, <1>5, FieldStarts DEF BitsFor
  <2> QED
    BY <1>2, <1>5, <2>1
<1>6. CASE st = "index_lsb"
  <2>1. PICK h \in Nat, n \in Nat : h = HighBits(w) /\ n = LowBits(w) /\ h + n = w
    BY DEF HighBits, LowBits
  <2>2. p + Taken(st) = p + 1 + h /\ BitsFor(st) = n
    BY <1>1, <1>6, <2>1, FieldStarts DEF BitsFor
  <2> QED
    BY <1>2, <1>6, <2>1, <2>2
<1>7. CASE st = "count_msb"
  <2>1. p + Taken(st) = p + 1 + w /\ BitsFor(st) = l - 8 /\ l > 8
    BY <1>1, <1>7, FieldStarts DEF BitsFor
  <2> QED
    BY <1>2, <1>7, <2>1
<1>8. CASE st = "count_lsb"
  <2>1. PICK h \in Nat, n \in Nat : h = HighBits(l) /\ n = LowBits(l) /\ h + n = l
    BY DEF HighBits, LowBits
  <2>2. p + Taken(st) = p + 1 + w + h /\ BitsFor(st) = n
    BY <1>1, <1>8, <2>1, FieldStarts DEF BitsFor
  <2> QED
    BY <1>2, <1>8, <2>1, <2>2
<1> QED
  BY <1>3, <1>4, <1>5, <1>6, <1>7, <1>8 DEF DecoderStates

LEMMA ShortOfInput ==
  ASSUME TypeInv, BitsInv, NEW t, NEW p \in Nat, InToken(p, t), Short
  PROVE  /\ BitAt(stream, p) = 1 => 8 * sunk < p + 9
         /\ BitAt(stream, p) = 0 => 8 * sunk < BackrefEnd(p)
<1>1. /\ InputTypeOK /\ state \in DecoderStates \ {"yield_backref"}
      /\ state = "index_msb" => WINDOW_BITS > 8
      /\ state = "count_msb" => LOOKAHEAD_BITS > 8
  BY FieldSizes DEF TypeInv, DecoderTypeOK, Short
<1>2. PICK f \in Nat, b \in Nat : f = p + Taken(state) /\ b = BitsFor(state)
  BY <1>1, FieldFits
<1>3. PICK l \in Nat : l = Len(current)
  BY CurrentType, <1>1
<1>4. input_size = 0 /\ input_index = 0 /\ l < b
  BY <1>1, <1>2, <1>3 DEF Short, HasBits, InputTypeOK
<1>5. PICK s \in Nat : s = sunk
  BY <1>1, PosType
<1>6. 8 * s < f + b
  <2>1. Pos = f
    BY <1>2 DEF InToken
  <2>2. Pos = 8 * (s - (0 - 0)) - l
    BY <1>3, <1>4, <1>5 DEF Pos, Waiting
  <2> QED
    BY <1>4, <2>1, <2>2
<1>7. PICK e \in Nat : e = BackrefEnd(p)
  BY TokenEnds
<1>8. /\ state = "yield_literal" => BitAt(stream, p) = 1
      /\ state \notin {"tag_bit", "yield_literal"} => BitAt(stream, p) = 0
  BY DEF InToken, FieldsRead
<1>9. /\ state = "yield_literal" => f + b = p + 9
      /\ state = "tag_bit" => f + b <= p + 9
      /\ state # "yield_literal" => f + b <= e
  BY <1>1, <1>2, <1>7, FieldFits
<1>10. /\ BitAt(stream, p) = 1 => f + b <= p + 9
       /\ BitAt(stream, p) = 0 => f + b <= e
  BY <1>8, <1>9
<1> QED
  BY <1>5, <1>6, <1>7, <1>10

LEMMA OutIsText ==
  ASSUME DecoderInv
  PROVE  /\ Sunk \in Seq(Byte) /\ Extends(out, Sunk)
         /\ Short => out = Sunk
         /\ state = "yield_backref" \/ (state = "yield_literal" /\ input_size > 0) =>
              Len(out) < Len(Sunk)
<1>1. PICK k \in Nat, t \in Seq(Byte), p \in Nat : Reached(stream, k, t, p) /\ InToken(p, t)
  BY DEF DecoderInv, DecodeInv
<1>2. /\ TypeInv /\ BitsInv /\ InputTypeOK /\ OutputTypeOK /\ state \in DecoderStates
  BY DEF DecoderInv, TypeInv, DecoderTypeOK
<1>3. /\ stream \in Seq(Byte) /\ sunk \in Nat /\ Pos \in Nat /\ Pos <= 8 * sunk
      /\ sunk \in 0 .. Len(stream) /\ stream \in Streams
  BY <1>2, PosType DEF InputTypeOK
<1> DEFINE m == 8 * sunk
           after == AfterTokens(stream, m, sunk).text
<1>4. Sunk = after
  BY <1>3 DEF Sunk, Decoded, Text
<1>5. m \in Nat /\ p <= m /\ k <= sunk
  <2>1. PICK a \in Nat : a = Taken(state)
    BY <1>2, FieldSizes DEF Taken, HighBits, DecoderStates
  <2>2. Pos = p + a
    BY <1>1, <2>1 DEF InToken
  <2> QED
    BY <1>1, <1>3, <2>1, <2>2 DEF Reached
<1>6. after \in Seq(Byte)
  BY <1>3, <1>5, AfterSteps DEF Reading
<1> HIDE DEF after
<1>7. Extends(t, after)
  BY <1>1, <1>3, <1>5, WholeToken DEF after
<1>8. Len(t) \in Nat /\ Len(after) \in Nat
  BY <1>6, LenProperties
<1>9. CASE state = "yield_backref"
  <2> DEFINE u == Repeated(t, Distance(stream, p), Count(stream, p))
  <2>1. /\ Pos = BackrefEnd(p) /\ BitAt(stream, p) = 0
        /\ output_count \in 1 .. Count(stream, p)
        /\ Len(out) + output_count = Len(t) + Count(stream, p)
        /\ Extends(out, u)
    BY <1>1, <1>9, FieldStarts DEF InToken, FieldsRead, Copying
  <2>2. p + 8 <= m
    <3>1. PICK e \in Nat : e = BackrefEnd(p) /\ p + 8 <= e
      BY TokenEnds
    <3>2. e <= m
      BY <1>3, <2>1, <3>1
    <3> HIDE DEF m
    <3> QED
      BY <1>5, <3>1, <3>2
  <2>3. k + 1 <= sunk /\ BackrefEnd(p) <= m
    BY <1>1, <1>3, <2>1, <2>2 DEF Reached
  <2>4. Extends(u, after)
    BY <1>1, <1>3, <1>5, <2>1, <2>3, WholeToken DEF after
  <2>5. Len(u) = Len(t) + Count(stream, p) /\ Count(stream, p) \in Nat
    BY <1>3, FieldTypes, RepeatedText
  <2>6. Len(out) \in Nat
    BY <1>2, LenProperties DEF OutputTypeOK
  <2> HIDE DEF u
  <2>7. Len(out) < Len(u) /\ Len(u) \in Nat
    BY <1>8, <2>1, <2>5, <2>6
  <2>8. Extends(out, after) /\ Len(out) < Len(after)
    BY <1>8, <2>1, <2>4, <2>6, <2>7 DEF Extends
  <2> QED
    BY <1>4, <1>6, <1>9, <2>8 DEF Short
<1>10. CASE state # "yield_backref"
  <2>1. out = t
    BY <1>1, <1>10 DEF InToken
  <2>2. ASSUME Short
        PROVE  out = after
    <3>1. /\ BitAt(stream, p) = 1 => m < p + 9
          /\ BitAt(stream, p) = 0 => m < BackrefEnd(p)
      BY <1>1, <1>2, <2>2, ShortOfInput
    <3>2. after = t
      BY <1>1, <1>3, <1>5, <3>1, WholeToken DEF after
    <3> QED
      BY <2>1, <3>2
  <2>3. ASSUME state = "yield_literal", input_size > 0
        PROVE  Len(out) < Len(after)
    <3>1. Pos = p + 1 /\ BitAt(stream, p) = 1
      BY <1>1, <2>3 DEF InToken, FieldsRead, Taken
    <3>2. Pos + 8 <= m
      <4>1. Waiting \in Nat /\ Waiting >= 1 /\ Len(current) \in 0 .. 7
        BY <1>2, <2>3, CurrentType DEF InputTypeOK, Waiting
      <4> QED
        BY <1>3, <4>1 DEF Pos
    <3>3. p + 9 <= m /\ k + 1 <= sunk
      BY <1>1, <1>3, <3>1, <3>2 DEF Reached
    <3>4. Extends(Append(t, NumberAt(stream, p + 1, 8)), after)
      BY <1>1, <1>3, <1>5, <3>1, <3>3, WholeToken DEF after
    <3>5. NumberAt(stream, p + 1, 8) \in Byte
      BY <1>3, NumberIsByte, p + 1 \in Nat
    <3>6. Len(Append(t, NumberAt(stream, p + 1, 8))) = Len(t) + 1
      BY <3>5
    <3> QED
      BY <1>8, <2>1, <3>4, <3>6 DEF Extends
  <2> QED
    BY <1>4, <1>6, <1>7, <1>10, <2>1, <2>2, <2>3
<1> QED
  BY <1>9, <1>10

LEMMA DecodesNow ==
  ASSUME DecoderInv
  PROVE  DecodesStream /\ FinishIsExact
<1>1. /\ Sunk \in Seq(Byte) /\ Extends(out, Sunk)
      /\ out \in Seq(Byte) /\ Len(out) \in Nat /\ Len(Sunk) \in Nat
  BY OutIsText, LenProperties DEF DecoderInv, TypeInv, DecoderTypeOK, OutputTypeOK
<1>2. Len(out) <= Len(Sunk) /\ out = SubSeq(Sunk, 1, Len(out))
  <2> DEFINE n == Len(out)
             v == SubSeq(Sunk, 1, n)
  <2>1. n <= Len(Sunk) /\ \A i \in 1 .. n : Sunk[i] = out[i]
    BY <1>1 DEF Extends
  <2>2. \A i \in 1 .. n : Sunk[i] \in Byte
    BY <1>1, <2>1, ElementOfSeq
  <2>3. v \in Seq(Byte) /\ Len(v) = n /\ \A i \in 1 .. n : v[i] = Sunk[i]
    <3> HIDE DEF n
    <3>1. /\ v \in Seq(Byte) /\ Len(v) = IF 1 <= n THEN n - 1 + 1 ELSE 0
          /\ \A i \in 1 .. n - 1 + 1 : v[i] = Sunk[1 + i - 1]
      BY <1>1, <2>2, SubSeqProperties DEF n
    <3> HIDE DEF v
    <3>2. n \in Nat
      BY <1>1 DEF n
    <3> QED
      BY <3>1, <3>2
  <2> HIDE DEF v
  <2> QED
    BY <1>1, <2>1, <2>3, SeqEqual DEF v
<1>3. TypeInv /\ PollEnded /\ InputTypeOK /\ state \in DecoderStates
  BY DEF DecoderInv, TypeInv, DecoderTypeOK
<1>4. poll_res = "EMPTY" => Short
  BY <1>3 DEF PollEnded, Stuck, Short
<1>5. ASSUME poll_res \in {"EMPTY", "MORE"}
      PROVE  FinishDone <=> Len(out) = Len(Sunk)
  <2>1. Stuck
    BY <1>3, <1>5 DEF PollEnded
  <2>2. ASSUME FinishDone
        PROVE  Len(out) = Len(Sunk)
    <3>1. state # "yield_backref" /\ input_size = 0
      BY <2>2 DEF FinishDone
    <3>2. CASE state = "yield_literal"
      <4>1. ~HasBits(BitsFor(state))
        <5>1. PICK l \in 0 .. 7 : l = Len(current)
          BY <1>3, CurrentType
        <5>2. BitsFor(state) = 8
          BY <3>2 DEF BitsFor
        <5> QED
          BY <3>1, <5>1, <5>2 DEF HasBits
      <4> QED
        BY <3>1, <4>1, OutIsText DEF Short
    <3>3. CASE state # "yield_literal"
      BY <2>1, <3>1, <3>3, OutIsText DEF Stuck, Short
    <3> QED
      BY <3>2, <3>3
  <2>3. ASSUME ~FinishDone
        PROVE  Len(out) < Len(Sunk)
    <3>1. CASE state = "yield_backref"
      BY <3>1, OutIsText
    <3>2. CASE state # "yield_backref"
      <4>1. input_size > 0
        BY <1>3, <2>3, <3>2 DEF FinishDone, InputTypeOK
      <4>2. state = "yield_literal"
        BY <2>1, <3>2, <4>1 DEF Stuck, HasBits
      <4> QED
        BY <4>1, <4>2, OutIsText
    <3> QED
      BY <3>1, <3>2
  <2> QED
    BY <1>1, <2>2, <2>3
<1> QED
  BY <1>1, <1>2, <1>4, <1>5, OutIsText DEF DecodesStream, FinishIsExact

(***************************************************************************)
(* Whatever is sunk and polled, in pieces of any size, the bytes yielded   *)
(* are the beginning of what the stream decompresses to, all of it when    *)
(* poll says EMPTY: for every stream, every window and lookahead, every    *)
(* input buffer (heatshrink_decoder.c:135-286).                            *)
(***************************************************************************)
THEOREM DecoderDecodes == DecoderSpec => []DecodesStream
<1>1. DecoderInv => DecodesStream
  BY DecodesNow
<1> QED
  BY <1>1, DecoderInvKept, PTL DEF DecoderSpec

(***************************************************************************)
(* After a poll, finish says DONE exactly if nothing more can be yielded   *)
(* from what has been sunk (heatshrink_decoder.c:337-361).                 *)
(***************************************************************************)
THEOREM FinishTellsEnd == DecoderSpec => []FinishIsExact
<1>1. DecoderInv => FinishIsExact
  BY DecodesNow
<1> QED
  BY <1>1, DecoderInvKept, PTL DEF DecoderSpec

=============================================================================
