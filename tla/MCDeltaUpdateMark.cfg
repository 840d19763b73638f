\* The mark of a patch whose application was cut off.
SPECIFICATION UpdateSpec
CONSTANTS
  MAX_IMAGE = 2
INVARIANTS
  MarkedIsApplied
