------------------------- MODULE PatchReaderProofs -------------------------
(***************************************************************************)
(* What the patch reader promises the engine, for every stream, every way  *)
(* to cut it into chunks and every buffer of the engine: how it uses its   *)
(* decoder, what its answers say, and that a call, its loop and all, is    *)
(* the one step of StreamReader.                                           *)
(***************************************************************************)
EXTENDS PatchReader, HeatshrinkDecoderProofs

CallTypeOK ==
  /\ header \in Headers /\ window_known \in BOOLEAN /\ chunk_left \in Nat
  /\ call \in {"none", "loop", "poll"}
  /\ size \in Nat /\ left \in Nat
  /\ entry \in [chunk_left : Nat, window_known : BOOLEAN, sunk : Nat, taken : Nat]

(* Before the first byte is sunk, the decoder has nothing.                 *)
Untouched ==
  /\ sunk = 0 => /\ out = << >> /\ state = "tag_bit"
                 /\ input_size = 0 /\ current = << >>
  /\ ~window_known => sunk = 0 /\ call = "none"

(* What the results of poll say, and when there is one.                    *)
PollTells ==
  /\ poll_res = "EMPTY" => input_size = 0 /\ state # "yield_backref"
  /\ poll_res = "MORE" => output_size = buf_size
  /\ poll_res = "running" => call = "poll"
  /\ call = "poll" => poll_res # "none"
  /\ call = "none" /\ poll_res = "none" => sunk = 0

(* A call in progress: every byte of the chunk it has used up, and every   *)
(* byte it has got, is accounted for.                                      *)
InCall ==
  call # "none" =>
    /\ size \in 1 .. TO_BUF /\ left \in 1 .. size
    /\ entry.sunk <= sunk
    /\ entry.chunk_left = chunk_left + (sunk - entry.sunk)
                            + (IF entry.window_known THEN 0 ELSE 1)
    /\ entry.window_known \/ HeaderMatches(header)
    /\ Len(out) = entry.taken + (size - left)
                    + (IF call = "poll" THEN output_size ELSE 0)
    /\ call = "poll" => buf_size = left

CallInv == TypeInv /\ CallTypeOK /\ Untouched /\ PollTells /\ InCall

-----------------------------------------------------------------------------
(* The decoder's own types, one by one.                                    *)
LEMMA DecoderFacts ==
  ASSUME TypeInv
  PROVE  /\ stream \in Streams /\ sunk \in Nat /\ Len(stream) \in Nat
         /\ input_size \in Nat /\ buf_size \in Nat /\ output_size \in 0 .. buf_size
         /\ output_size \in Nat
         /\ out \in Seq(Byte) /\ Len(out) \in Nat
         /\ poll_res \in {"none", "running", "EMPTY", "MORE"}
<1>1. Len(stream) \in Nat
  BY BufferAssumption, LenProperties DEF TypeInv, DecoderTypeOK, InputTypeOK
<1>2. stream \in Streams /\ sunk \in Nat /\ input_size \in Nat
      /\ poll_res \in {"none", "running", "EMPTY", "MORE"}
  BY <1>1, BufferAssumption DEF TypeInv, DecoderTypeOK, InputTypeOK
<1>3. buf_size \in Nat /\ output_size \in 0 .. buf_size /\ out \in Seq(Byte)
  BY DEF TypeInv, DecoderTypeOK, OutputTypeOK
<1> QED
  BY <1>1, <1>2, <1>3, LenProperties

(* A step of poll: as many bytes are yielded as the caller's buffer takes, *)
(* and a decoder that holds nothing stays as it is.                        *)
LEMMA PollFacts ==
  ASSUME TypeInv, PollStep
  PROVE  /\ UNCHANGED << stream, sunk, buf_size >>
         /\ \/ UNCHANGED << out, output_size >>
            \/ output_size' = output_size + 1 /\ Len(out') = Len(out) + 1
         /\ poll_res' \in {"running", "EMPTY", "MORE"}
         /\ poll_res' = "EMPTY" => input_size' = 0 /\ state' # "yield_backref"
         /\ poll_res' = "MORE" => output_size' = buf_size'
         /\ state = "tag_bit" /\ input_size = 0 /\ current = << >> =>
              UNCHANGED << out, state, input_size, current >>
<1>0. /\ poll_res = "running"
      /\ input_size \in Nat /\ out \in Seq(Byte)
      /\ \A c : Yield(c) => Len(out') = Len(out) + 1 /\ output_size' = output_size + 1
  <2>1. poll_res = "running"
    BY DEF PollStep, TagBit, YieldLiteral, YieldBackref, IndexMsb, IndexLsb,
       CountMsb, CountLsb, PollReturn, In
  <2> QED
    BY <2>1, DecoderFacts DEF Yield
<1>1. CASE PollReturn
  <2>1. ~BufferFull => state # "yield_backref" /\ ~HasBits(BitsFor(state))
    BY <1>1 DEF PollReturn, Stuck
  <2>2. ~BufferFull => input_size = 0
    BY <1>0, <2>1 DEF HasBits
  <2> QED
    BY <1>1, <2>1, <2>2 DEF PollReturn, BufferFull, input_vars, yield_vars
<1>2. CASE YieldBackref
  BY <1>0, <1>2 DEF YieldBackref, Yield, In, caller_vars
<1>3. CASE TagBit \/ YieldLiteral \/ IndexMsb \/ IndexLsb \/ CountMsb \/ CountLsb
  <2>1. /\ UNCHANGED << stream, sunk, buf_size, poll_res >>
        /\ \E count \in {1, 8, IndexBits - 8, LowBits(IndexBits), CountBits - 8,
                         LowBits(CountBits)} : TakeBits(count)
    BY <1>3 DEF TagBit, YieldLiteral, IndexMsb, IndexLsb, CountMsb, CountLsb, caller_vars
  <2>2. \/ UNCHANGED << out, output_size >>
        \/ output_size' = output_size + 1 /\ Len(out') = Len(out) + 1
    BY <1>0, <1>3 DEF TagBit, YieldLiteral, IndexMsb, IndexLsb, CountMsb, CountLsb, yield_vars
  <2>3. state = "tag_bit" => TagBit
    BY <1>3 DEF YieldLiteral, IndexMsb, IndexLsb, CountMsb, CountLsb, In
  <2>4. ~(TagBit /\ input_size = 0 /\ current = << >>)
    BY DEF TagBit, TakeBits, HasBits
  <2> QED
    BY <1>0, <2>1, <2>2, <2>3, <2>4
<1> QED
  BY <1>1, <1>2, <1>3 DEF PollStep

-----------------------------------------------------------------------------
LEMMA CallInitKeeps ==
  ASSUME Init
  PROVE  CallInv
<1>1. TypeInv
  BY InitType DEF Init
<1>2. CallTypeOK
  BY DEF Init, CallTypeOK
<1>3. Untouched /\ PollTells /\ InCall
  BY DEF Init, DecoderInit, Untouched, PollTells, InCall
<1> QED
  BY <1>1, <1>2, <1>3 DEF CallInv

LEMMA InitAgainKeeps ==
  ASSUME CallInv, InitAgain
  PROVE  CallInv'
<1>1. TypeInv'
  BY ResetType DEF CallInv, InitAgain
<1>2. CallTypeOK'
  BY DEF InitAgain, call_vars, CallInv, CallTypeOK
<1>3. Untouched' /\ PollTells' /\ InCall'
  BY DEF InitAgain, Reset, Untouched, PollTells, InCall
<1> QED
  BY <1>1, <1>2, <1>3 DEF CallInv

LEMMA NewChunkKeeps ==
  ASSUME CallInv, NEW n \in 1 .. CHUNK_BUF, NewChunk(n)
  PROVE  CallInv'
<1>1. TypeInv'
  BY StutterType DEF CallInv, NewChunk
<1>2. CallTypeOK'
  <2>1. n \in Nat
    BY ChunkAssumption
  <2> QED
    BY <2>1 DEF NewChunk, call_vars, CallInv, CallTypeOK
<1>3. Untouched' /\ PollTells' /\ InCall'
  BY DEF NewChunk, decoder_vars, input_vars, call_vars, CallInv, Untouched, PollTells, InCall
<1> QED
  BY <1>1, <1>2, <1>3 DEF CallInv

LEMMA EnterKeeps ==
  ASSUME CallInv, NEW n \in 1 .. TO_BUF, Enter(n)
  PROVE  CallInv'
<1>1. UNCHANGED decoder_vars
  BY DEF Enter
<1>2. /\ UNCHANGED << sunk, out, state, input_size, current, poll_res, output_size, buf_size >>
      /\ UNCHANGED header /\ call = "none"
      /\ call' \in {"none", "loop"} /\ size' = n /\ left' = n
      /\ entry' = [chunk_left |-> chunk_left, window_known |-> window_known,
                   sunk |-> sunk, taken |-> Len(out)]
      /\ chunk_left \in Nat /\ chunk_left' \in Nat
      /\ window_known' \in BOOLEAN /\ (window_known => window_known')
      /\ chunk_left = chunk_left' + (IF window_known THEN 0 ELSE 1) \/ call' = "none"
      /\ call' # "none" => window_known' /\ (window_known \/ HeaderMatches(header))
  <2>1. chunk_left \in Nat /\ window_known \in BOOLEAN
    BY DEF CallInv, CallTypeOK
  <2>2. /\ UNCHANGED << sunk, out, state, input_size, current, poll_res, output_size, buf_size >>
        /\ UNCHANGED header /\ call = "none"
        /\ left' = n
        /\ entry' = [chunk_left |-> chunk_left, window_known |-> window_known,
                     sunk |-> sunk, taken |-> Len(out)]
    BY <1>1 DEF Enter, decoder_vars, input_vars
  <2>3. call' \in {"none", "loop"} /\ size' = n
    BY DEF Enter, Return
  <2>4. chunk_left' \in Nat /\ window_known' \in BOOLEAN /\ (window_known => window_known')
    <3>1. chunk_left' \in Nat
      BY <2>1 DEF Enter
    <3>2. (window_known' <=> window_known) \/ window_known'
      BY DEF Enter
    <3>3. window_known' = window_known \/ window_known' = TRUE
      BY DEF Enter
    <3> QED
      BY <2>1, <3>1, <3>2, <3>3
  <2>5. chunk_left = chunk_left' + (IF window_known THEN 0 ELSE 1) \/ call' = "none"
    BY <2>1 DEF Enter, Return
  <2>6. call' # "none" => window_known' /\ (window_known \/ HeaderMatches(header))
    BY DEF Enter, Return
  <2> QED
    BY <2>1, <2>2, <2>3, <2>4, <2>5, <2>6
<1>3. n \in Nat /\ sunk \in Nat /\ Len(out) \in Nat /\ window_known \in BOOLEAN
  BY ChunkAssumption, DecoderFacts DEF CallInv, CallTypeOK
<1>4. TypeInv'
  BY <1>1, StutterType DEF CallInv
<1>5. CallTypeOK'
  BY <1>2, <1>3 DEF CallInv, CallTypeOK
<1>6. Untouched' /\ PollTells'
  BY <1>2, <1>3 DEF CallInv, Untouched, PollTells
<1>7. InCall'
  <2>1. entry' = [chunk_left |-> chunk_left, window_known |-> window_known,
                  sunk |-> sunk, taken |-> Len(out)]
    BY <1>2
  <2>2. /\ entry'.chunk_left = chunk_left /\ entry'.window_known = window_known
        /\ entry'.sunk = sunk /\ entry'.taken = Len(out)
    BY <2>1
  <2>3. call' # "none" => chunk_left = chunk_left' + (IF window_known THEN 0 ELSE 1)
    BY <1>2
  <2>4. call' # "none" =>
          entry'.chunk_left = chunk_left' + (sunk' - entry'.sunk)
                                + (IF entry'.window_known THEN 0 ELSE 1)
    <3>1. sunk' - entry'.sunk = 0
      BY <1>2, <1>3, <2>2
    <3>2. chunk_left' + (sunk' - entry'.sunk) = chunk_left'
      BY <1>2, <3>1
    <3>3. entry'.window_known = window_known /\ entry'.chunk_left = chunk_left
      BY <2>2
    <3> QED
      BY <2>3, <3>2, <3>3
  <2>5. Len(out') = entry'.taken + (size' - left') + 0
    BY <1>2, <1>3, <2>2
  <2>6. call' # "none" => entry'.window_known \/ HeaderMatches(header')
    BY <1>2, <2>2
  <2> QED
    BY <1>2, <1>3, <2>2, <2>4, <2>5, <2>6 DEF InCall
<1> QED
  BY <1>4, <1>5, <1>6, <1>7 DEF CallInv

LEMMA PollKeeps ==
  ASSUME CallInv, Poll
  PROVE  CallInv'
<1>1. /\ UNCHANGED << stream, sunk, out, state, input_size, current, chunk_vars, call_vars >>
      /\ call = "loop" /\ call' = "poll" /\ poll_res' = "running"
      /\ output_size' = 0 /\ buf_size' = left
  BY DEF Poll, PollStart, Room, input_vars
<1>2. size \in 1 .. TO_BUF /\ left \in 1 .. size /\ left \in Nat
  BY <1>1 DEF CallInv, InCall, CallTypeOK
<1>3. TypeInv'
  <2>1. left \in PollSizes
    BY <1>2, ChunkAssumption, CallerAssumption
  <2> QED
    BY <2>1, PollStartType DEF Poll, Room, CallInv
<1>4. CallTypeOK' /\ Untouched' /\ PollTells'
  BY <1>1 DEF CallInv, CallTypeOK, Untouched, PollTells, chunk_vars, call_vars
<1>5. InCall'
  BY <1>1, <1>2 DEF CallInv, InCall, chunk_vars, call_vars
<1> QED
  BY <1>3, <1>4, <1>5 DEF CallInv

LEMMA PollRunsKeeps ==
  ASSUME CallInv, PollRuns
  PROVE  CallInv'
<1>1. TypeInv /\ PollStep /\ call = "poll" /\ call' = "poll"
      /\ UNCHANGED << header, chunk_left, window_known, size, left, entry >>
  BY DEF PollRuns, CallInv, chunk_vars, call_vars
<1>2. TypeInv'
  BY <1>1, TagBitType, YieldLiteralType, YieldBackrefType, IndexMsbType,
     IndexLsbType, CountMsbType, CountLsbType, PollReturnType DEF PollStep
<1>3. CallTypeOK'
  BY <1>1 DEF CallInv, CallTypeOK
<1>4. Untouched'
  BY <1>1, PollFacts DEF CallInv, Untouched
<1>5. PollTells'
  BY <1>1, PollFacts DEF CallInv, PollTells
<1>6. InCall'
  <2>1. /\ UNCHANGED << sunk, buf_size >>
        /\ \/ UNCHANGED << out, output_size >>
           \/ output_size' = output_size + 1 /\ Len(out') = Len(out) + 1
    BY <1>1, PollFacts
  <2>2. output_size \in Nat /\ Len(out) \in Nat
    BY <1>1, DecoderFacts
  <2>3. size \in Nat /\ left \in Nat /\ entry.taken \in Nat
    BY DEF CallInv, CallTypeOK
  <2> QED
    BY <1>1, <2>1, <2>2, <2>3 DEF CallInv, InCall
<1> QED
  BY <1>2, <1>3, <1>4, <1>5, <1>6 DEF CallInv

(* When poll is back and less was got than asked for, all input is used up.*)
LEMMA PolledFacts ==
  ASSUME CallInv, Polled
  PROVE  /\ left' = left - output_size /\ left' \in Nat /\ left' <= left
         /\ poll_res \in {"EMPTY", "MORE"} /\ call = "poll"
         /\ left' # 0 => poll_res = "EMPTY" /\ input_size = 0 /\ SinkRoom # 0
         /\ UNCHANGED << header, window_known, entry >>
<1>1. /\ left' = left - output_size /\ call = "poll" /\ poll_res # "running"
      /\ UNCHANGED << header, window_known, entry >>
  BY DEF Polled
<1>2. /\ output_size \in Nat /\ output_size <= buf_size /\ buf_size = left
      /\ left \in Nat /\ poll_res \in {"EMPTY", "MORE"}
  BY <1>1, DecoderFacts DEF CallInv, CallTypeOK, InCall, PollTells
<1>3. poll_res = "MORE" => left' = 0
  BY <1>1, <1>2 DEF CallInv, PollTells
<1>4. poll_res = "EMPTY" => input_size = 0
  BY DEF CallInv, PollTells
<1>5. input_size = 0 => SinkRoom # 0
  BY BufferAssumption DEF SinkRoom
<1> QED
  BY <1>1, <1>2, <1>3, <1>4, <1>5

LEMMA PolledKeeps ==
  ASSUME CallInv, Polled
  PROVE  CallInv'
<1>1. /\ left' = left - output_size /\ left' \in Nat /\ left' <= left
      /\ poll_res \in {"EMPTY", "MORE"} /\ call = "poll"
      /\ left' # 0 => poll_res = "EMPTY" /\ input_size = 0 /\ SinkRoom # 0
      /\ UNCHANGED << header, window_known, entry >>
  BY PolledFacts
<1>2. /\ chunk_left \in Nat /\ sunk \in Nat /\ output_size \in Nat /\ Len(out) \in Nat
      /\ size \in 1 .. TO_BUF /\ size \in Nat /\ left \in 1 .. size
      /\ entry.taken \in Nat /\ entry.sunk \in Nat /\ entry.chunk_left \in Nat
      /\ window_known \in BOOLEAN /\ window_known
  BY <1>1, DecoderFacts DEF CallInv, CallTypeOK, InCall, Untouched
<1>3. CASE left' = 0 \/ chunk_left = 0
  <2>1. /\ UNCHANGED decoder_vars /\ UNCHANGED chunk_left
        /\ call' = "none"
        /\ size' = size \/ size' = size - left'
    BY <1>3 DEF Polled, Return, Got
  <2>2. TypeInv'
    BY <2>1, StutterType DEF CallInv
  <2>3. CallTypeOK'
    BY <1>1, <1>2, <2>1 DEF CallInv, CallTypeOK
  <2>4. Untouched' /\ PollTells' /\ InCall'
    BY <1>1, <1>2, <2>1 DEF CallInv, Untouched, PollTells, InCall, decoder_vars, input_vars
  <2> QED
    BY <2>2, <2>3, <2>4 DEF CallInv
<1>4. CASE ~(left' = 0 \/ chunk_left = 0)
  <2>1. /\ Sink(1) /\ call' = "loop" /\ size' = size
        /\ chunk_left' = chunk_left - 1
    BY <1>1, <1>4 DEF Polled
  <2>2. SinkSize(1) = 1
    BY <1>1, <1>4, BufferAssumption DEF SinkSize, SinkRoom
  <2>3. sunk' = sunk + 1 /\ poll_res' = "none" /\ out' = out
    BY <2>1, <2>2 DEF Sink, yield_vars
  <2>4. TypeInv'
    <3>1. 1 \in 1 .. SINK_MAX
      BY BufferAssumption, CallerAssumption
    <3> QED
      BY <2>1, <3>1, SinkType DEF CallInv
  <2>5. CallTypeOK'
    BY <1>1, <1>2, <1>4, <2>1 DEF CallInv, CallTypeOK
  <2>6. Untouched' /\ PollTells'
    BY <1>1, <1>2, <2>1, <2>3 DEF Untouched, PollTells
  <2>7. InCall'
    <3>1. Len(out) = entry.taken + (size - left) + output_size
      BY <1>1 DEF CallInv, InCall
    <3>2. Len(out') = entry.taken + (size - left')
      BY <1>1, <1>2, <2>3, <3>1
    <3>3. entry.chunk_left = chunk_left' + (sunk' - entry.sunk)
                               + (IF entry.window_known THEN 0 ELSE 1)
      <4>1. entry.chunk_left = chunk_left + (sunk - entry.sunk)
                                 + (IF entry.window_known THEN 0 ELSE 1)
        BY <1>1 DEF CallInv, InCall
      <4> DEFINE read == IF entry.window_known THEN 0 ELSE 1
      <4>2. read \in Nat
        OBVIOUS
      <4> HIDE DEF read
      <4>3. entry.chunk_left = chunk_left + (sunk - entry.sunk) + read
        BY <4>1 DEF read
      <4>4. entry.chunk_left = chunk_left' + (sunk' - entry.sunk) + read
        <5>1. (chunk_left - 1) + ((sunk + 1) - entry.sunk) = chunk_left + (sunk - entry.sunk)
          <6>1. chunk_left \in Nat /\ sunk \in Nat
            BY <1>2
          <6>2. PICK before \in Nat : before = entry.sunk
            BY <1>2
          <6> QED
            BY <6>1, <6>2
        <5>2. chunk_left' = chunk_left - 1 /\ sunk' = sunk + 1
          BY <2>1, <2>3
        <5> QED
          BY <4>3, <5>1, <5>2
      <4> QED
        BY <4>4 DEF read
    <3>4. entry.sunk <= sunk'
      BY <1>1, <1>2, <2>3 DEF CallInv, InCall
    <3>5. entry.window_known \/ HeaderMatches(header)
      BY <1>1 DEF CallInv, InCall
    <3>6. left' \in 1 .. size'
      BY <1>1, <1>2, <1>4, <2>1
    <3>7. UNCHANGED << header, entry, size >> /\ call' = "loop"
      BY <1>1, <2>1
    <3>8. Len(out') = entry.taken + (size - left') + 0
      BY <1>1, <1>2, <3>2
    <3> QED
      BY <1>2, <3>3, <3>4, <3>5, <3>6, <3>7, <3>8 DEF InCall
  <2> QED
    BY <2>4, <2>5, <2>6, <2>7 DEF CallInv
<1> QED
  BY <1>3, <1>4

LEMMA CallStutter ==
  ASSUME CallInv, UNCHANGED reader_vars
  PROVE  CallInv'
<1>1. TypeInv'
  BY StutterType DEF CallInv, reader_vars
<1>2. CallTypeOK'
  BY DEF reader_vars, chunk_vars, call_vars, CallInv, CallTypeOK
<1>3. Untouched' /\ PollTells' /\ InCall'
  BY DEF reader_vars, chunk_vars, call_vars, decoder_vars, input_vars,
     CallInv, Untouched, PollTells, InCall
<1> QED
  BY <1>1, <1>2, <1>3 DEF CallInv

LEMMA CallInvariance == Spec => []CallInv
<1>1. CallInv /\ [Next]_reader_vars => CallInv'
  BY InitAgainKeeps, NewChunkKeeps, EnterKeeps, PollKeeps, PollRunsKeeps,
     PolledKeeps, CallStutter DEF Next
<1> QED
  BY <1>1, CallInitKeeps, PTL DEF Spec

-----------------------------------------------------------------------------
(***************************************************************************)
(* The reader uses the decoder as the decoder may be used: it is reset,    *)
(* sunk and polled only between polls, sunk only where there is room and   *)
(* input, and polled into what is left of the engine's buffer (detools.c:  *)
(* 102, 144-206).  All that is proved of the decoder holds inside of it.   *)
(***************************************************************************)
THEOREM UsesDecoder == Spec => DecoderSpec
<1>1. Init => DecoderInit
  BY DEF Init
<1>2. ASSUME CallInv, [Next]_reader_vars
      PROVE  [DecoderNext]_decoder_vars
  <2>1. CASE InitAgain
    BY <2>1 DEF InitAgain, DecoderNext
  <2>2. CASE (\E n \in 1 .. CHUNK_BUF : NewChunk(n)) \/ (\E n \in 1 .. TO_BUF : Enter(n))
    BY <2>2 DEF NewChunk, Enter
  <2>3. CASE Poll
    <3>1. left \in PollSizes
      <4>1. size \in 1 .. TO_BUF /\ left \in 1 .. size
        BY <1>2, <2>3 DEF Poll, CallInv, InCall
      <4> QED
        BY <4>1, ChunkAssumption, CallerAssumption
    <3> QED
      BY <2>3, <3>1 DEF Poll, Room, DecoderNext
  <2>4. CASE PollRuns
    BY <2>4 DEF PollRuns, DecoderNext
  <2>5. CASE Polled
    <3>1. 1 \in 1 .. SINK_MAX
      BY BufferAssumption, CallerAssumption
    <3>2. UNCHANGED decoder_vars \/ Sink(1)
      BY <2>5 DEF Polled
    <3> QED
      BY <3>1, <3>2 DEF DecoderNext
  <2>6. CASE UNCHANGED reader_vars
    BY <2>6 DEF reader_vars
  <2> QED
    BY <1>2, <2>1, <2>2, <2>3, <2>4, <2>5, <2>6 DEF Next
<1> QED
  BY <1>1, <1>2, CallInvariance, PTL DEF Spec, DecoderSpec

(***************************************************************************)
(* The window holds the bytes yielded last, in the reader, too.            *)
(***************************************************************************)
THEOREM WindowInReader == Spec => []WindowHoldsOutput
  BY UsesDecoder, WindowIsOutput, PTL

(* A call comes back from its loop only behind a poll.                     *)
LEMMA PolledAnswers ==
  ASSUME CallInv, Polled, call' = "none"
  PROVE  /\ UNCHANGED decoder_vars /\ UNCHANGED chunk_vars /\ UNCHANGED entry
         /\ left' \in 0 .. size /\ size \in 1 .. TO_BUF
         /\ Len(out) = entry.taken + (size - left')
         /\ left' = 0 \/ chunk_left = 0
         /\ result' = IF left' = size THEN 1 ELSE 0
         /\ size' = IF left' = size THEN size ELSE size - left'
<1>1. /\ left' = left - output_size /\ left' \in Nat /\ left' <= left
      /\ call = "poll"
      /\ left' # 0 => SinkRoom # 0
      /\ UNCHANGED << header, window_known, entry >>
  BY PolledFacts
<1>2. /\ size \in 1 .. TO_BUF /\ left \in 1 .. size /\ size \in Nat
      /\ Len(out) = entry.taken + (size - left) + output_size
      /\ entry.taken \in Nat /\ output_size \in Nat
  BY <1>1, DecoderFacts DEF CallInv, CallTypeOK, InCall
<1>3. left' = 0 \/ chunk_left = 0
  BY <1>1 DEF Polled
<1>4. /\ UNCHANGED decoder_vars /\ UNCHANGED chunk_left
      /\ IF left' = size THEN Return(1, size) ELSE Return(0, Got)
  BY <1>3 DEF Polled
<1>5. Len(out) = entry.taken + (size - left') /\ left' \in 0 .. size
  BY <1>1, <1>2
<1> QED
  BY <1>1, <1>2, <1>3, <1>4, <1>5 DEF Return, Got, chunk_vars

(***************************************************************************)
(* A call answers 1 exactly if it got nothing, else the number of bytes it *)
(* got; it gets less than it was asked for only at the end of the chunk,   *)
(* and the input buffer of the decoder is never full (detools.c:173, 193). *)
(***************************************************************************)
THEOREM AnswersAreExact == Spec => AnswerIsExact
<1>1. ASSUME CallInv, [Next]_reader_vars, call # "none", call' = "none"
      PROVE  /\ result' \in {0, 1}
             /\ Len(out) - entry.taken = IF result' = 0 THEN size' ELSE 0
             /\ size' < size => chunk_left' = 0
  <2>1. Polled
    BY <1>1 DEF Next, InitAgain, NewChunk, Enter, Poll, PollRuns, reader_vars
  <2>2. Len(out) \in Nat /\ entry.taken \in Nat /\ size \in Nat
    BY <1>1, DecoderFacts DEF CallInv, CallTypeOK
  <2> QED
    BY <1>1, <2>1, <2>2, PolledAnswers DEF chunk_vars
<1>2. CallInv /\ [Next]_reader_vars =>
        [call # "none" /\ call' = "none" =>
           /\ result' \in {0, 1}
           /\ Len(out) - entry.taken = IF result' = 0 THEN size' ELSE 0
           /\ size' < size => chunk_left' = 0]_reader_vars
  BY <1>1
<1> QED
  BY <1>2, CallInvariance, PTL DEF Spec, AnswerIsExact

-----------------------------------------------------------------------------
(***************************************************************************)
(* The reader as one step.  Of what the decoder promises (DecodesStream    *)
(* and FinishIsExact of HeatshrinkReference) only the amount of output is  *)
(* needed: how many bytes can be had of the first bytes of the stream.     *)
(***************************************************************************)
Yielded(j) == IF j = 0 THEN 0 ELSE Len(Decoded[stream][j])

(* Whenever a byte was sunk, what could be had before was too little.      *)
NotEnoughYet ==
  call # "none" =>
    \A j \in 0 .. sunk - entry.sunk - 1 : ~(Yielded(entry.sunk + j) - entry.taken >= size)

LEMMA YieldedFacts ==
  ASSUME CallInv, DecodesStream
  PROVE  /\ Yielded(sunk) \in Nat /\ Len(out) <= Yielded(sunk)
         /\ poll_res = "EMPTY" => Yielded(sunk) = Len(out)
<1>1. sunk \in Nat /\ out \in Seq(Byte) /\ Len(out) \in Nat
  BY DecoderFacts DEF CallInv
<1>2. CASE sunk = 0
  <2>1. Len(out) = 0
    BY <1>2 DEF CallInv, Untouched
  <2> QED
    BY <1>2, <2>1 DEF Yielded
<1>3. CASE sunk # 0
  <2>1. Yielded(sunk) = Len(Sunk)
    BY <1>3 DEF Yielded, Sunk
  <2>2. Len(Sunk) \in Nat /\ Len(out) <= Len(Sunk)
    BY LenProperties DEF DecodesStream
  <2>3. poll_res = "EMPTY" => Len(out) = Len(Sunk)
    BY DEF DecodesStream
  <2> QED
    BY <2>1, <2>2, <2>3
<1> QED
  BY <1>2, <1>3

LEMMA NotEnoughKept ==
  ASSUME CallInv, DecodesStream, NotEnoughYet, [Next]_reader_vars
  PROVE  NotEnoughYet'
<1>1. CASE InitAgain \/ (\E n \in 1 .. CHUNK_BUF : NewChunk(n))
  BY <1>1 DEF InitAgain, NewChunk, NotEnoughYet
<1>2. CASE \E n \in 1 .. TO_BUF : Enter(n)
  <2>1. sunk' = sunk /\ entry'.sunk = sunk /\ sunk \in Nat
    BY <1>2, DecoderFacts DEF Enter, decoder_vars, CallInv
  <2>2. 0 .. sunk' - entry'.sunk - 1 = {}
    BY <2>1
  <2> QED
    BY <2>2 DEF NotEnoughYet
<1>3. CASE Poll \/ PollRuns \/ UNCHANGED reader_vars
  <2>1. UNCHANGED << stream, sunk, entry, size >> /\ (call' # "none" => call # "none")
    BY <1>3, PollFacts DEF Poll, PollStart, PollRuns, call_vars, reader_vars, decoder_vars, CallInv
  <2> QED
    BY <2>1 DEF NotEnoughYet, Yielded
<1>4. CASE Polled
  <2>1. CASE call' = "none"
    BY <2>1 DEF NotEnoughYet
  <2>2. CASE call' # "none"
    <3>1. /\ left' = left - output_size /\ left' \in Nat /\ left' # 0
          /\ poll_res = "EMPTY" /\ UNCHANGED << entry, size >>
          /\ call = "poll" /\ Sink(1)
      <4>1. left' # 0 /\ call' = "loop"
        BY <1>4, <2>2 DEF Polled, Return
      <4>2. poll_res = "EMPTY" /\ SinkRoom # 0
        BY <1>4, <4>1, PolledFacts
      <4>3. Sink(1) /\ size' = size
        BY <1>4, <2>2, <4>1, <4>2 DEF Polled, Return
      <4> QED
        BY <1>4, <4>1, <4>2, <4>3, PolledFacts
    <3>2. sunk' = sunk + 1 /\ stream' = stream
      BY <3>1, BufferAssumption DEF Sink, SinkSize, SinkRoom, CallInv, PollTells
    <3>3. Yielded(sunk) = entry.taken + (size - left')
      <4>1. Len(out) = entry.taken + (size - left) + output_size
        BY <3>1 DEF CallInv, InCall
      <4>2. /\ entry.taken \in Nat /\ size \in Nat /\ left \in Nat /\ output_size \in Nat
        BY DecoderFacts DEF CallInv, CallTypeOK
      <4> QED
        BY <3>1, <4>1, <4>2, YieldedFacts
    <3>4. /\ sunk \in Nat /\ entry.sunk \in Nat /\ entry.taken \in Nat /\ size \in Nat
      BY DecoderFacts DEF CallInv, CallTypeOK
    <3>5. ASSUME NEW j \in 0 .. sunk - entry.sunk - 1
          PROVE  ~(Yielded(entry.sunk + j) - entry.taken >= size)
      BY <3>1 DEF NotEnoughYet
    <3>6. ~(Yielded(sunk) - entry.taken >= size)
      BY <3>1, <3>3, <3>4
    <3>7. ASSUME NEW j \in 0 .. sunk' - entry.sunk - 1
          PROVE  ~(Yielded(entry.sunk + j) - entry.taken >= size)
      <4>1. CASE j = sunk - entry.sunk
        <5>1. entry.sunk + j = sunk
          BY <3>4, <4>1
        <5> QED
          BY <3>6, <5>1
      <4>2. CASE j # sunk - entry.sunk
        <5>1. j \in 0 .. sunk - entry.sunk - 1
          BY <3>2, <3>4, <4>2
        <5> QED
          BY <3>5, <5>1
      <4> QED
        BY <4>1, <4>2
    <3> QED
      BY <3>1, <3>2, <3>7 DEF NotEnoughYet, Yielded
  <2> QED
    BY <2>1, <2>2
<1> QED
  BY <1>1, <1>2, <1>3, <1>4 DEF Next

(* The patch that StreamReader is shown.                                   *)
Shown == PatchOf[stream][header]

LEMMA ShownFacts ==
  ASSUME CallInv
  PROVE  /\ Shown.heatshrink = header /\ header \in Headers
         /\ Len(Shown.upto) = Len(stream)
         /\ Shown \in {PatchOf[s][h] : s \in Streams, h \in Headers}
         /\ \A j \in 0 .. Len(stream) : Reader!Upto(Shown, j) = Yielded(j)
<1>1. stream \in Streams /\ header \in Headers /\ Len(stream) \in Nat
  BY DecoderFacts DEF CallInv, CallTypeOK
<1>2. Shown = [type |-> 0, to_size |-> 0, head_len |-> 2, heatshrink |-> header,
               upto |-> [j \in 1 .. Len(stream) |-> Len(Decoded[stream][j])],
               plain |-> Decoded[stream][Len(stream)]]
  BY <1>1 DEF Shown, PatchOf
<1>3. Shown.heatshrink = header
  BY <1>2
<1>4. Shown \in {PatchOf[s][h] : s \in Streams, h \in Headers}
  <2>1. \E s \in Streams, h \in Headers : Shown = PatchOf[s][h]
    BY <1>1 DEF Shown
  <2> QED
    BY <2>1
<1>5. Shown.upto = [j \in 1 .. Len(stream) |-> Len(Decoded[stream][j])]
  BY <1>2
<1>6. Len(Shown.upto) = Len(stream)
  BY <1>1, <1>5
<1>7. ASSUME NEW j \in 0 .. Len(stream)
      PROVE  Reader!Upto(Shown, j) = Yielded(j)
  BY <1>1, <1>5 DEF Reader!Upto, Yielded
<1> QED
  BY <1>1, <1>6, <1>7, <1>3, <1>4

(* What StreamReader sees of the reader: during a call, what the call found.*)
Seen ==
  << Shown, Entered("chunk_left", chunk_left), Entered("window_known", window_known),
     Entered("sunk", sunk), Entered("taken", Len(out)) >>

LEMMA SeenIs == UNCHANGED Seen => UNCHANGED Reader!stream_vars
BY DEF Reader!stream_vars, Seen, Shown

LEMMA InitShown ==
  ASSUME CallInv, Init
  PROVE  Reader!ReaderInit
<1>1. /\ chunk_left = 0 /\ window_known = FALSE /\ sunk = 0 /\ Len(out) = 0 /\ call = "none"
  BY DEF Init, DecoderInit
<1>2. Shown \in {PatchOf[s][h] : s \in Streams, h \in Headers}
  BY ShownFacts
<1> QED
  BY <1>1, <1>2 DEF Reader!ReaderInit, Entered, Shown

LEMMA InitAgainShown ==
  ASSUME CallInv, CallInv', InitAgain
  PROVE  Reader!NewPatch
<1>1. /\ chunk_left' = 0 /\ window_known' = FALSE /\ sunk' = 0 /\ Len(out') = 0
      /\ call' = "none"
  BY DEF InitAgain, Reset
<1>2. (Shown \in {PatchOf[s][h] : s \in Streams, h \in Headers})'
  BY ShownFacts, PTL
<1> QED
  BY <1>1, <1>2 DEF Reader!NewPatch, Entered, Shown

LEMMA NewChunkShown ==
  ASSUME CallInv, NEW n \in 1 .. CHUNK_BUF, NewChunk(n)
  PROVE  Reader!NewChunk(n)
<1>1. /\ call = "none" /\ call' = "none" /\ chunk_left = 0 /\ chunk_left' = n
      /\ n <= Unread
      /\ UNCHANGED << stream, header, window_known, sunk, out >>
  BY DEF NewChunk, decoder_vars
<1>2. Len(Shown.upto) = Len(stream)
  BY ShownFacts
<1>3. Shown' = Shown
  BY <1>1 DEF Shown
<1> QED
  BY <1>1, <1>2, <1>3 DEF Reader!NewChunk, Reader!Unread, Unread, Entered, Shown

(* A call that goes into its loop is not seen; one that does not is over.  *)
LEMMA EnterShown ==
  ASSUME CallInv, NEW n \in 1 .. TO_BUF, Enter(n)
  PROVE  Reader!Called(n) \/ UNCHANGED Seen
<1>1. /\ call = "none" /\ UNCHANGED << stream, header, sunk, out >>
      /\ entry' = [chunk_left |-> chunk_left, window_known |-> window_known,
                   sunk |-> sunk, taken |-> Len(out)]
      /\ Shown' = Shown
  BY DEF Enter, decoder_vars, Shown
<1>2. CASE call' # "none"
  <2>1. /\ Entered("chunk_left", chunk_left)' = chunk_left
        /\ Entered("window_known", window_known)' = window_known
        /\ Entered("sunk", sunk)' = sunk /\ Entered("taken", Len(out))' = Len(out)
    BY <1>1, <1>2 DEF Entered
  <2> QED
    BY <1>1, <2>1 DEF Seen, Entered
<1>3. CASE call' = "none"
  <2>1. CASE ~window_known /\ chunk_left = 0
    <3>1. chunk_left' = chunk_left /\ window_known' = window_known
      BY <2>1 DEF Enter
    <3> QED
      BY <1>1, <1>3, <3>1 DEF Seen, Entered
  <2>2. CASE ~window_known /\ chunk_left > 0
    <3>1. /\ chunk_left' = chunk_left - 1 /\ window_known' = TRUE
          /\ ~HeaderMatches(header)
      <4>1. chunk_left # 0
        BY <2>2 DEF CallInv, CallTypeOK
      <4> QED
        BY <1>3, <2>2, <4>1 DEF Enter
    <3>2. Shown.heatshrink # Reader!HEATSHRINK_STATIC
      <4>1. Shown.heatshrink = header
        BY ShownFacts
      <4>2. HeaderMatches(68)
        BY BuildAssumption DEF HeaderMatches
      <4> QED
        BY <3>1, <4>1, <4>2 DEF Reader!HEATSHRINK_STATIC
    <3>3. /\ Entered("chunk_left", chunk_left) = chunk_left
          /\ Entered("window_known", window_known) = window_known
          /\ Entered("sunk", sunk) = sunk /\ Entered("taken", Len(out)) = Len(out)
          /\ Entered("chunk_left", chunk_left)' = chunk_left'
          /\ Entered("window_known", window_known)' = window_known'
          /\ Entered("sunk", sunk)' = sunk /\ Entered("taken", Len(out))' = Len(out)
      BY <1>1, <1>3 DEF Entered
    <3>4. Reader!Decompress(n, -Reader!DETOOLS_HEATSHRINK_HEADER, 0)
      BY <1>1, <2>2, <3>1, <3>2, <3>3 DEF Reader!Decompress, Shown
    <3>5. 0 \in 0 .. n
      BY ChunkAssumption
    <3> QED
      BY <1>1, <3>4, <3>5 DEF Reader!Called, Shown
  <2>3. CASE window_known
    BY <1>3, <2>3 DEF Enter
  <2> QED
    BY <2>1, <2>2, <2>3 DEF CallInv, CallTypeOK
<1> QED
  BY <1>2, <1>3

(* The loop is not seen until it is left.                                  *)
LEMMA LoopShown ==
  ASSUME CallInv, call # "none", call' # "none", Poll \/ PollRuns \/ Polled
  PROVE  UNCHANGED Seen
<1>1. UNCHANGED << stream, header, entry >>
  <2>1. CASE Poll
    BY <2>1 DEF Poll, PollStart, chunk_vars, call_vars
  <2>2. CASE PollRuns
    BY <2>2, PollFacts DEF PollRuns, chunk_vars, call_vars, CallInv
  <2>3. CASE Polled
    BY <2>3 DEF Polled, Sink, decoder_vars
  <2> QED
    BY <2>1, <2>2, <2>3
<1>2. UNCHANGED Shown
  BY <1>1 DEF Shown
<1> QED
  BY <1>1, <1>2 DEF Seen, Entered

(* A call that is over took from its chunk what it needed and no more.     *)
LEMMA PolledShown ==
  ASSUME CallInv, DecodesStream, NotEnoughYet, Polled, call' = "none"
  PROVE  \E n \in 1 .. TO_BUF : Reader!Called(n)
<1> DEFINE used == sunk - entry.sunk
           got == size - left'
           r == IF got > 0 THEN 0 ELSE 1
           room == IF entry.window_known THEN entry.chunk_left ELSE entry.chunk_left - 1
<1>1. /\ UNCHANGED << stream, header, sunk, out, chunk_left, window_known, entry >>
      /\ left' \in 0 .. size /\ size \in 1 .. TO_BUF
      /\ Len(out) = entry.taken + got
      /\ left' = 0 \/ chunk_left = 0
      /\ call = "poll"
  BY PolledAnswers, PolledFacts DEF decoder_vars, chunk_vars
<1>2. /\ sunk \in Nat /\ chunk_left \in Nat /\ size \in Nat /\ Len(out) \in Nat
      /\ entry.sunk \in Nat /\ entry.taken \in Nat /\ entry.chunk_left \in Nat
      /\ entry.window_known \in BOOLEAN /\ window_known
      /\ entry.sunk <= sunk /\ sunk <= Len(stream) /\ Len(stream) \in Nat
      /\ entry.window_known \/ HeaderMatches(header)
  <2>1. sunk \in 0 .. Len(stream)
    BY DEF CallInv, TypeInv, DecoderTypeOK, InputTypeOK
  <2> QED
    BY <1>1, <2>1, DecoderFacts DEF CallInv, CallTypeOK, Untouched, InCall
<1>3. room = chunk_left + used /\ used \in 0 .. room
  <2>1. entry.chunk_left = chunk_left + used + (IF entry.window_known THEN 0 ELSE 1)
    BY <1>1 DEF CallInv, InCall
  <2>2. used \in Nat /\ chunk_left \in Nat
    BY <1>2
  <2>3. room = chunk_left + used
    <3>1. CASE entry.window_known
      BY <1>2, <2>1, <2>2, <3>1
    <3>2. CASE ~entry.window_known
      BY <1>2, <2>1, <2>2, <3>2
    <3> QED
      BY <3>1, <3>2
  <2> HIDE DEF room, used
  <2> QED
    BY <2>2, <2>3
<1>4. got \in 0 .. size /\ got \in Nat /\ left' \in Nat /\ used \in Nat
       /\ (left' # 0 => got < size) /\ (left' = 0 => got = size)
  <2>1. PICK rest \in Nat : left' = rest /\ rest <= size
    BY <1>1, <1>2
  <2>2. got \in 0 .. size /\ got \in Nat
    BY <1>2, <2>1
  <2>3. used \in Nat
    BY <1>2
  <2>4. (left' # 0 => got < size) /\ (left' = 0 => got = size)
    BY <1>2, <2>1
  <2> QED
    BY <2>1, <2>2, <2>3, <2>4
<1>5. /\ \A j \in 0 .. used : Reader!Upto(Shown, entry.sunk + j) = Yielded(entry.sunk + j)
      /\ Shown' = Shown
  <2>1. ASSUME NEW j \in 0 .. used
        PROVE  entry.sunk + j \in 0 .. Len(stream)
    BY <1>2
  <2> QED
    BY <1>1, <2>1, ShownFacts DEF Shown
<1>6. /\ Entered("chunk_left", chunk_left) = entry.chunk_left
      /\ Entered("window_known", window_known) = entry.window_known
      /\ Entered("sunk", sunk) = entry.sunk /\ Entered("taken", Len(out)) = entry.taken
      /\ Entered("chunk_left", chunk_left)' = chunk_left
      /\ Entered("window_known", window_known)' = window_known
      /\ Entered("sunk", sunk)' = sunk /\ Entered("taken", Len(out))' = Len(out)
  BY <1>1 DEF Entered
<1>7. /\ Yielded(sunk) \in Nat /\ Len(out) <= Yielded(sunk)
      /\ left' # 0 => Yielded(sunk) = Len(out)
  BY YieldedFacts, PolledFacts
<1>8. /\ \A j \in 0 .. used - 1 : ~Reader!Enough(size, j)
      /\ \/ Reader!Enough(size, used) /\ got = size
         \/ ~Reader!Enough(size, used) /\ used = room /\ got = Reader!Held(used)
  <2>1. ASSUME NEW j \in 0 .. used
        PROVE  Reader!Held(j) = Yielded(entry.sunk + j) - entry.taken
    BY <1>5, <1>6 DEF Reader!Held, Shown
  <2>2. ASSUME NEW j \in 0 .. used - 1
        PROVE  ~Reader!Enough(size, j)
    <3>1. ~(Yielded(entry.sunk + j) - entry.taken >= size)
      BY <1>1 DEF NotEnoughYet
    <3>2. j \in 0 .. used
      BY <1>2
    <3> QED
      BY <2>1, <3>1, <3>2 DEF Reader!Enough
  <2>3. Reader!Held(used) = Yielded(sunk) - entry.taken
    <3>1. entry.sunk + used = sunk /\ used \in 0 .. used
      BY <1>2
    <3> QED
      BY <2>1, <3>1
  <2>4. CASE left' = 0
    <3>1. got = size /\ Yielded(sunk) - entry.taken >= size
      BY <1>1, <1>2, <1>7, <2>4
    <3> QED
      BY <2>2, <2>3, <3>1 DEF Reader!Enough
  <2>5. CASE left' # 0
    <3>1. used = room
      BY <1>1, <1>2, <1>3, <2>5
    <3>2. Yielded(sunk) - entry.taken = got /\ got < size /\ got \in Int
      <4>1. got < size /\ got \in Nat
        BY <1>4, <2>5
      <4>2. Yielded(sunk) = entry.taken + got
        BY <1>1, <1>7, <2>5
      <4> HIDE DEF got
      <4> QED
        BY <1>2, <4>1, <4>2
    <3>3. ~(Yielded(sunk) - entry.taken >= size)
      BY <1>2, <3>2
    <3> QED
      BY <2>2, <2>3, <3>1, <3>2, <3>3 DEF Reader!Enough
  <2> QED
    BY <2>4, <2>5
<1>9. r = Reader!PolledResult(got)
  BY DEF Reader!PolledResult
<1>10. Reader!Polled(size, room, r, got)
  <2>1. chunk_left = room - used /\ sunk = entry.sunk + used /\ Len(out) = entry.taken + got
    <3>1. chunk_left = room - used
      <4>1. room = chunk_left + used /\ used \in Nat
        BY <1>3, <1>4
      <4> HIDE DEF room, used
      <4> QED
        BY <1>2, <4>1
    <3>2. sunk = entry.sunk + used
      BY <1>2
    <3> QED
      BY <1>1, <3>1, <3>2
  <2> HIDE DEF used, got, r, room
  <2> QED
    BY <1>3, <1>6, <1>8, <1>9, <2>1 DEF Reader!Polled
<1>11. Reader!Decompress(size, r, got)
  <2>1. CASE entry.window_known
    <3>1. room = entry.chunk_left
      BY <2>1
    <3> HIDE DEF used, got, r, room
    <3> QED
      BY <1>2, <1>6, <1>10, <2>1, <3>1 DEF Reader!Decompress
  <2>2. CASE ~entry.window_known
    <3>1. room = entry.chunk_left - 1 /\ entry.chunk_left > 0
      BY <1>2, <1>3, <2>2
    <3>2. Shown.heatshrink = Reader!HEATSHRINK_STATIC
      <4>1. Shown.heatshrink = header /\ header \in 0 .. 255
        <5>1. Shown.heatshrink = header /\ header \in Headers
          BY ShownFacts
        <5> QED
          BY <5>1, HeaderAssumption DEF Byte
      <4>2. ((header \div 16) % 16) + 4 = 8 /\ (header % 16) + 3 = 7
        BY <1>2, <2>2, BuildAssumption DEF HeaderMatches
      <4>3. header = 68
        BY <4>1, <4>2
      <4> QED
        BY <4>1, <4>3 DEF Reader!HEATSHRINK_STATIC
    <3> HIDE DEF used, got, r, room
    <3> QED
      BY <1>2, <1>6, <1>10, <2>2, <3>1, <3>2 DEF Reader!Decompress, Shown
  <2> QED
    BY <1>2, <2>1, <2>2
<1>12. r \in {0, 1, -Reader!DETOOLS_HEATSHRINK_HEADER} /\ got \in 0 .. size
  <2>1. r \in {0, 1}
    OBVIOUS
  <2> QED
    BY <1>4, <2>1
<1> HIDE DEF used, got, r, room
<1>13. Reader!Called(size)
  BY <1>5, <1>11, <1>12 DEF Reader!Called, Shown
<1> QED
  BY <1>1, <1>13

(* Every step of the reader is one of StreamReader, or not seen there.     *)
LEMMA StepShown ==
  ASSUME CallInv, CallInv', DecodesStream, NotEnoughYet, [Next]_reader_vars
  PROVE  [Reader!ReaderNext]_(Reader!stream_vars)
<1>1. ASSUME NEW n \in 1 .. TO_BUF, Reader!Called(n)
      PROVE  Reader!ReaderNext
  BY <1>1 DEF Reader!ReaderNext
<1>2. CASE InitAgain
  BY <1>2, InitAgainShown DEF Reader!ReaderNext
<1>3. CASE \E n \in 1 .. CHUNK_BUF : NewChunk(n)
  BY <1>3, NewChunkShown DEF Reader!ReaderNext
<1>4. CASE \E n \in 1 .. TO_BUF : Enter(n)
  BY <1>1, <1>4, EnterShown, SeenIs
<1>5. CASE Poll \/ PollRuns \/ Polled
  <2>1. call # "none"
    BY <1>5 DEF Poll, PollRuns, Polled
  <2>2. CASE call' # "none"
    BY <1>5, <2>1, <2>2, LoopShown, SeenIs
  <2>3. CASE call' = "none"
    <3>1. Polled
      BY <1>5, <2>1, <2>3 DEF Poll, PollRuns
    <3> QED
      BY <1>1, <2>3, <3>1, PolledShown
  <2> QED
    BY <2>2, <2>3
<1>6. CASE UNCHANGED reader_vars
  <2>1. UNCHANGED Seen
    BY <1>6 DEF reader_vars, chunk_vars, call_vars, decoder_vars, Seen, Entered, Shown
  <2> QED
    BY <2>1, SeenIs
<1> QED
  BY <1>2, <1>3, <1>4, <1>5, <1>6 DEF Next

(***************************************************************************)
(* A call of patch_reader_heatshrink_decompress is the one step that the   *)
(* engine is written and proved against: it hands over exactly what the    *)
(* bytes seen so far can yield, and sinks no byte it does not need         *)
(* (detools.c:133-208).                                                    *)
(***************************************************************************)
THEOREM ReaderKeepsContract == Spec => ImplementsReader
<1>1. Init => NotEnoughYet
  BY DEF Init, NotEnoughYet
<1>2. CallInv /\ DecodesStream /\ NotEnoughYet /\ [Next]_reader_vars => NotEnoughYet'
  BY NotEnoughKept
<1>3. CallInv /\ Init => Reader!ReaderInit
  BY InitShown
<1>4. CallInv /\ CallInv' /\ DecodesStream /\ NotEnoughYet /\ [Next]_reader_vars
        => [Reader!ReaderNext]_(Reader!stream_vars)
  BY StepShown
<1>5. Spec => []DecodesStream
  BY UsesDecoder, DecoderDecodes, PTL
<1>6. Spec => []NotEnoughYet
  BY <1>1, <1>2, <1>5, CallInvariance, PTL DEF Spec
<1> HIDE DEF Reader!ReaderNext, Reader!stream_vars, Reader!ReaderInit
<1> QED
  BY <1>3, <1>4, <1>5, <1>6, CallInvariance, PTL DEF Spec, ImplementsReader, Reader!ReaderSpec

(***************************************************************************)
(* Destroy refuses a stream exactly if more could be had of what has been  *)
(* read of it (detools.c:210-225).                                         *)
(***************************************************************************)
THEOREM DestroyTellsLeftover == Spec => []DestroyIsExact
<1>1. ASSUME CallInv, FinishIsExact
      PROVE  DestroyIsExact
  <2> SUFFICES ASSUME call = "none"
               PROVE  FinishDone <=> Reader!Finished
    BY DEF DestroyIsExact
  <2>1. /\ sunk \in 0 .. Len(stream) /\ Len(stream) \in Nat
    BY <1>1, DecoderFacts DEF CallInv, TypeInv, DecoderTypeOK, InputTypeOK
  <2>2. Reader!Finished <=> Yielded(sunk) = Len(out)
    <3>1. Reader!Upto(Shown, sunk) = Yielded(sunk)
      BY <1>1, <2>1, ShownFacts
    <3>2. Entered("sunk", sunk) = sunk /\ Entered("taken", Len(out)) = Len(out)
      BY DEF Entered
    <3> QED
      BY <3>1, <3>2 DEF Reader!Finished, Shown
  <2>3. CASE sunk = 0
    <3>1. FinishDone /\ Len(out) = 0
      BY <1>1, <2>3 DEF CallInv, Untouched, FinishDone
    <3> QED
      BY <2>2, <2>3, <3>1 DEF Yielded
  <2>4. CASE sunk # 0
    <3>1. poll_res \in {"EMPTY", "MORE"}
      BY <1>1, <2>4, DecoderFacts DEF CallInv, PollTells
    <3>2. FinishDone <=> Len(out) = Len(Sunk)
      BY <1>1, <3>1 DEF FinishIsExact
    <3> QED
      BY <2>2, <2>4, <3>2 DEF Yielded, Sunk
  <2> QED
    BY <2>3, <2>4
<1> QED
  BY <1>1, CallInvariance, UsesDecoder, FinishTellsEnd, PTL

-----------------------------------------------------------------------------
(* With more bits at hand a token that was read is the same, and one that  *)
(* was not there as a whole may be.                                        *)
LEMMA TokenWithMore ==
  ASSUME NEW s \in Seq(Byte), NEW m \in Nat, NEW n \in Nat, m <= n, NEW r \in Reading
  PROVE  NextToken(s, m, r) = r \/ NextToken(s, m, r) = NextToken(s, n, r)
<1>1. PICK l \in Nat, b \in Nat : l = LiteralEnd(r.pos) /\ b = BackrefEnd(r.pos)
  BY TokenEnds DEF Reading
<1>2. CASE BitAt(s, r.pos) = 1 /\ l <= m
  <2>1. l <= n
    BY <1>2
  <2> QED
    BY <1>1, <1>2, <2>1 DEF NextToken
<1>3. CASE BitAt(s, r.pos) = 0 /\ b <= m
  <2>1. b <= n
    BY <1>3
  <2> QED
    BY <1>1, <1>3, <2>1 DEF NextToken
<1>4. CASE ~(BitAt(s, r.pos) = 1 /\ l <= m) /\ ~(BitAt(s, r.pos) = 0 /\ b <= m)
  BY <1>1, <1>4 DEF NextToken
<1> QED
  BY <1>2, <1>3, <1>4

(* What is read of some bits is read of more of them, after no more tokens.*)
LEMMA ReadWithMore ==
  ASSUME NEW s \in Seq(Byte), NEW m \in Nat, NEW n \in Nat, m <= n, NEW k \in Nat
  PROVE  \E i \in 0 .. k : AfterTokens(s, m, k) = AfterTokens(s, n, i)
<1> DEFINE S == {j \in Nat : \E i \in 0 .. j : AfterTokens(s, m, j) = AfterTokens(s, n, i)}
<1>1. 0 \in S
  <2>1. AfterTokens(s, m, 0) = AfterTokens(s, n, 0)
    BY AfterSteps
  <2> QED
    BY <2>1, 0 \in 0 .. 0
<1>2. ASSUME NEW j \in Nat, j \in S
      PROVE  j + 1 \in S
  <2>1. PICK i \in 0 .. j : AfterTokens(s, m, j) = AfterTokens(s, n, i)
    BY <1>2
  <2>2. i \in 0 .. j + 1 /\ i + 1 \in 0 .. j + 1 /\ j + 1 \in Nat /\ i \in Nat
    OBVIOUS
  <2>3. PICK r \in Reading : r = AfterTokens(s, m, j)
    BY AfterSteps
  <2>4. AfterTokens(s, m, j + 1) = NextToken(s, m, r)
    BY <2>3, AfterSteps
  <2>5. AfterTokens(s, n, i + 1) = NextToken(s, n, r)
    BY <2>1, <2>2, <2>3, AfterSteps
  <2>6. NextToken(s, m, r) = r \/ NextToken(s, m, r) = NextToken(s, n, r)
    BY TokenWithMore
  <2> QED
    BY <2>1, <2>2, <2>3, <2>4, <2>5, <2>6
<1> HIDE DEF S
<1>3. Nat \subseteq S
  BY <1>1, <1>2, Induction
<1> QED
  BY <1>3 DEF S

(* More input never takes output back.                                     *)
LEMMA TextWithMore ==
  ASSUME NEW s \in Seq(Byte), NEW i \in Nat, NEW j \in Nat, i <= j
  PROVE  Text(s, i) \in Seq(Byte) /\ Len(Text(s, i)) <= Len(Text(s, j))
<1>1. 8 * i \in Nat /\ 8 * j \in Nat /\ 8 * i <= 8 * j
  OBVIOUS
<1>2. PICK m \in Nat, n \in Nat : m = 8 * i /\ n = 8 * j /\ m <= n
  BY <1>1
<1>3. PICK k \in 0 .. i : AfterTokens(s, m, i) = AfterTokens(s, n, k)
  <2>1. m \in Nat /\ n \in Nat /\ m <= n
    BY <1>2
  <2>2. \E k \in 0 .. i : AfterTokens(s, m, i) = AfterTokens(s, n, k)
    BY ONLY <2>1, s \in Seq(Byte), i \in Nat, ReadWithMore
  <2> QED
    BY <2>2
<1>4. k \in Nat /\ k <= j
  OBVIOUS
<1>5. Extends(AfterTokens(s, n, k).text, AfterTokens(s, n, j).text)
  BY <1>4, TextGrows
<1>6. Text(s, i) = AfterTokens(s, n, k).text /\ Text(s, j) = AfterTokens(s, n, j).text
  BY <1>2, <1>3 DEF Text
<1>7. AfterTokens(s, n, k) \in Reading
  BY <1>4, AfterSteps
<1> QED
  BY <1>5, <1>6, <1>7 DEF Extends, Reading

(***************************************************************************)
(* The patches that StreamReader is shown are those its theorems, and the  *)
(* engine's, assume (PatchesAssumption): for every stream, the bytes the   *)
(* decoder yields only become more as more of it is sunk.                  *)
(***************************************************************************)
THEOREM StreamsArePatches == Reader!PatchesAssumption
<1> SUFFICES ASSUME NEW s \in Streams, NEW h \in Headers
             PROVE  LET p == PatchOf[s][h] IN
                    /\ p \in Reader!Patch
                    /\ \A j \in 1 .. Len(p.upto) : p.upto[j] <= Len(p.plain)
                    /\ \A i, j \in 1 .. Len(p.upto) : i <= j => p.upto[i] <= p.upto[j]
  BY DEF Reader!PatchesAssumption
<1>1. s \in Seq(Byte) /\ Len(s) \in Nat
  BY BufferAssumption, LenProperties
<1>2. PICK n \in Nat : n = Len(s)
  BY <1>1
<1>3. \A j \in 0 .. n : Decoded[s][j] = Text(s, j) /\ Text(s, j) \in Seq(Byte)
  BY <1>1, <1>2, TextWithMore DEF Decoded
<1> DEFINE upto == [j \in 1 .. n |-> Len(Decoded[s][j])]
<1>4. \A j \in 0 .. n : Len(Decoded[s][j]) \in Nat
  BY <1>3, LenProperties
<1>5. \A i, j \in 0 .. n : i <= j => Len(Decoded[s][i]) <= Len(Decoded[s][j])
  <2>1. ASSUME NEW i \in 0 .. n, NEW j \in 0 .. n, i <= j
        PROVE  Len(Text(s, i)) <= Len(Text(s, j))
    BY <1>1, <2>1, TextWithMore
  <2> QED
    BY <1>3, <2>1
<1>6. upto \in Seq(Nat) /\ Len(upto) = n
  BY <1>4
<1>7. Decoded[s][n] \in Seq(Byte)
  BY <1>3
<1> HIDE DEF upto
<1>8. PatchOf[s][h] = [type |-> 0, to_size |-> 0, head_len |-> 2, heatshrink |-> h,
                       upto |-> upto, plain |-> Decoded[s][n]]
  BY <1>2 DEF PatchOf, upto
<1>9. h \in Byte
  BY HeaderAssumption
<1>10. PatchOf[s][h] \in Reader!Patch
  BY <1>6, <1>7, <1>8, <1>9 DEF Reader!Patch, Reader!Byte, Byte
<1>11. \A j \in 1 .. n : upto[j] = Len(Decoded[s][j]) /\ upto[j] <= Len(Decoded[s][n])
  <2>1. ASSUME NEW j \in 1 .. n
        PROVE  upto[j] = Len(Decoded[s][j]) /\ upto[j] <= Len(Decoded[s][n])
    BY <1>5 DEF upto
  <2> QED
    BY <2>1
<1>12. \A i, j \in 1 .. n : i <= j => upto[i] <= upto[j]
  BY <1>5, <1>11
<1>13. PICK p : p = PatchOf[s][h]
  OBVIOUS
<1>14. p.upto = upto /\ p.plain = Decoded[s][n] /\ p \in Reader!Patch
  BY <1>8, <1>10, <1>13
<1>15. /\ \A j \in 1 .. Len(p.upto) : p.upto[j] <= Len(p.plain)
       /\ \A i, j \in 1 .. Len(p.upto) : i <= j => p.upto[i] <= p.upto[j]
  BY <1>6, <1>11, <1>12, <1>14
<1> QED
  BY <1>13, <1>14, <1>15

=============================================================================
