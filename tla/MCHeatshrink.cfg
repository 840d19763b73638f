\* Every way to sink and poll in pieces, with fields of two parts.
SPECIFICATION DecoderSpec
CONSTANTS
  Streams <- MCStreams
  WINDOW_BITS = 10
  LOOKAHEAD_BITS = 9
  INPUT_BUFFER_SIZE = 3
  INDEX_MOD = 1024
  SINK_MAX = 2
  PollSizes = {0, 1, 3}
INVARIANTS
  DecoderTypeOK
  UnreadIsSuffix
  DecodesStream
  FinishIsExact
