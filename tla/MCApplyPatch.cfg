\* Every short stream and patches made by hand; callbacks may fail at any call.
SPECIFICATION FairSpec
CONSTANTS
  Patches <- AllPatches
  From <- MCFrom
  TO_BUF = 2
  CHUNK_BUF = 6
  SIZE_MOD = 268435456
INVARIANTS
  TypeOK
  SuccessIsExact
  SectionFits
  MatchesReference
PROPERTIES
  Terminates
\* The engine stops once it has returned.
CHECK_DEADLOCK FALSE
