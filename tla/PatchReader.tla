---------------------------- MODULE PatchReader ----------------------------
(***************************************************************************)
(* The patch reader of detools.c around the heatshrink decoder: what one   *)
(* call of patch_reader_heatshrink_decompress does to its chunk and its    *)
(* decoder.  A call polls first, sinks a single byte of the chunk when it  *)
(* has got too little, and polls again; it is left when the engine's       *)
(* buffer is full or the chunk is used up.                                 *)
(*                                                                         *)
(* StreamReader says the same in one step, with the decoder reduced to     *)
(* "so many bytes out for so many bytes in"; ImplementsReader is the       *)
(* claim that this is all the engine can see.                              *)
(***************************************************************************)
EXTENDS HeatshrinkReference, Buffers

CONSTANT Headers  \* the heatshrink bytes that patches have

ASSUME HeaderAssumption == Headers \subseteq Byte

(* heatshrink_config.h: a build knows one window and one lookahead size,   *)
(* those of the heatshrink byte 68.                                        *)
ASSUME BuildAssumption == WINDOW_BITS = 8 /\ LOOKAHEAD_BITS = 7

(* The decoder is sunk single bytes and polled into up to TO_BUF.          *)
ASSUME CallerAssumption == SINK_MAX >= 1 /\ 1 .. TO_BUF \subseteq PollSizes

DETOOLS_HEATSHRINK_SINK   == 20
DETOOLS_HEATSHRINK_HEADER == 27

VARIABLES
  header,       \* heatshrink byte of the patch
  chunk_left,   \* unread bytes of the current chunk
  window_known, \* window_sz2 /= -1
  call,         \* "none", or where decompress is
  size,         \* *size_p: the bytes asked for, at the end the bytes got
  left,         \* of them, still to get
  result,       \* what decompress returned last
  entry         \* history: what the call found when it was entered

chunk_vars == << header, chunk_left, window_known >>
call_vars  == << size, left, result, entry >>
reader_vars == << decoder_vars, chunk_vars, call, call_vars >>

(* unpack_heatshrink_header: a nibble for each size.                       *)
HeaderMatches(byte) ==
  /\ ((byte \div 16) % 16) + 4 = WINDOW_BITS
  /\ (byte % 16) + 3 = LOOKAHEAD_BITS

(* patch_reader_heatshrink_init.                                           *)
Init ==
  /\ DecoderInit
  /\ header \in Headers /\ chunk_left = 0 /\ window_known = FALSE
  /\ call = "none" /\ size = 0 /\ left = 0 /\ result = 0
  /\ entry = [chunk_left |-> 0, window_known |-> FALSE, sunk |-> 0, taken |-> 0]

InitAgain ==
  /\ call = "none"
  /\ Reset
  /\ header' \in Headers /\ chunk_left' = 0 /\ window_known' = FALSE
  /\ UNCHANGED << call, call_vars >>

Unread == 1 + Len(stream) - (sunk + IF window_known THEN 1 ELSE 0)

NewChunk(n) ==
  /\ call = "none" /\ chunk_left = 0 /\ n <= Unread
  /\ chunk_left' = n
  /\ UNCHANGED << decoder_vars, header, window_known, call, call_vars >>

Return(r, n) ==
  /\ call' = "none" /\ result' = r /\ size' = n

(* The call is entered: the first byte of the stream must be read and fit. *)
Enter(n) ==
  /\ call = "none"
  /\ entry' = [chunk_left |-> chunk_left, window_known |-> window_known,
               sunk |-> sunk, taken |-> Len(out)]
  /\ left' = n
  /\ \/ /\ window_known
        /\ call' = "loop" /\ size' = n
        /\ UNCHANGED << chunk_left, window_known, result >>
     \/ /\ ~window_known /\ chunk_left = 0
        /\ Return(1, n)
        /\ UNCHANGED << chunk_left, window_known >>
     \/ /\ ~window_known /\ chunk_left > 0
        /\ chunk_left' = chunk_left - 1 /\ window_known' = TRUE
        /\ IF HeaderMatches(header)
           THEN call' = "loop" /\ size' = n /\ UNCHANGED result
           ELSE Return(-DETOOLS_HEATSHRINK_HEADER, n)
  /\ UNCHANGED << decoder_vars, header >>

(* Into what is left of the engine's buffer; the faulty form has it start  *)
(* over.                                                                   *)
Room_Again == size
Room == left

Poll ==
  /\ call = "loop"
  /\ PollStart(Room)
  /\ call' = "poll"
  /\ UNCHANGED << chunk_vars, call_vars >>

PollRuns ==
  /\ call = "poll" /\ PollStep
  /\ UNCHANGED << chunk_vars, call, call_vars >>

(* What has been got so far is kept if the chunk ends inside of the call.  *)
Got_Asked == size
Got == size - left'

Polled ==
  /\ call = "poll" /\ poll_res # "running"
  /\ left' = left - output_size
  /\ IF left' = 0 \/ chunk_left = 0
     THEN /\ IF left' = size THEN Return(1, size) ELSE Return(0, Got)
          /\ UNCHANGED << decoder_vars, chunk_left >>
     ELSE /\ chunk_left' = chunk_left - 1
          /\ IF SinkRoom = 0
             THEN Return(-DETOOLS_HEATSHRINK_SINK, size) /\ UNCHANGED decoder_vars
             ELSE Sink(1) /\ call' = "loop" /\ UNCHANGED << size, result >>
  /\ UNCHANGED << header, window_known, entry >>

Next ==
  \/ InitAgain
  \/ \E n \in 1 .. CHUNK_BUF : NewChunk(n)
  \/ \E n \in 1 .. TO_BUF : Enter(n)
  \/ Poll \/ PollRuns \/ Polled

Spec == Init /\ [][Next]_reader_vars

-----------------------------------------------------------------------------
(* The patches that StreamReader speaks of: output by input, plain stream. *)
PatchOf ==
  [s \in Streams |-> [h \in Headers |->
     [type |-> 0, to_size |-> 0, head_len |-> 2, heatshrink |-> h,
      upto |-> [j \in 1 .. Len(s) |-> Len(Decoded[s][j])],
      plain |-> Decoded[s][Len(s)]]]]

Entered(field, now) == IF call = "none" THEN now ELSE entry[field]

Reader == INSTANCE StreamReader WITH
  Patches <- {PatchOf[s][h] : s \in Streams, h \in Headers},
  patch <- PatchOf[stream][header],
  chunk_left <- Entered("chunk_left", chunk_left),
  window_known <- Entered("window_known", window_known),
  sunk <- Entered("sunk", sunk),
  taken <- Entered("taken", Len(out))

(***************************************************************************)
(* The reader keeps the contract the engine is written against: whatever   *)
(* the decoder holds back, a call hands over exactly the bytes that the    *)
(* compressed bytes seen so far can yield, sinks none it does not need,    *)
(* and stalls only when there is nothing; neither the error of a full      *)
(* input buffer nor that of poll can occur (detools.c:173, 193).           *)
(***************************************************************************)
ImplementsReader == Reader!ReaderSpec

(***************************************************************************)
(* The answer of a call is the one of the contract, in the calls that      *)
(* change nothing, too: 1 if and only if no byte was had, and never that   *)
(* the input buffer is full (detools.c:193).                               *)
(***************************************************************************)
AnswerIsExact ==
  [][call # "none" /\ call' = "none" =>
       /\ result' \in {0, 1}
       /\ Len(out) - entry.taken = IF result' = 0 THEN size' ELSE 0
       /\ size' < size => chunk_left' = 0]_reader_vars

(***************************************************************************)
(* Between calls, patch_reader_heatshrink_destroy accepts the stream if    *)
(* and only if nothing is left in the decoder (detools.c:218).             *)
(***************************************************************************)
DestroyIsExact == call = "none" => (FinishDone <=> Reader!Finished)

=============================================================================
