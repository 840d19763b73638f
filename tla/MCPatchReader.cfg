\* The build's decoder inside the reader, and a patch for another decoder.
SPECIFICATION Spec
CONSTANTS
  Streams <- BuildStreams
  Headers = {68, 183}
  WINDOW_BITS = 8
  LOOKAHEAD_BITS = 7
  INPUT_BUFFER_SIZE = 2
  INDEX_MOD = 256
  SINK_MAX = 1
  PollSizes = {1, 2}
  CHUNK_BUF = 3
  TO_BUF = 2
INVARIANTS
  WindowHoldsOutput
  DecodesStream
  DestroyIsExact
PROPERTIES
  ImplementsReader
  AnswerIsExact
