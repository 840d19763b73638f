\* Dumps between any two chunks, up to two crashes anywhere.
SPECIFICATION ResumeSpec
CONSTANTS
  Patches <- Resumable
  From <- MCFrom
  TO_BUF = 2
  CHUNK_BUF = 5
  SIZE_MOD = 268435456
  MAX_CRASHES = 2
INVARIANTS
  SuccessIsExact
  MatchesReference
PROPERTIES
  RestoredOffsetIsDue
\* The engine stops once it has returned.
CHECK_DEADLOCK FALSE
