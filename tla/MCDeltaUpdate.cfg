\* The device over two updates: presses, power loss, the host, a processor
\* that runs.
SPECIFICATION FairUpdateSpec
CONSTANTS
  MAX_IMAGE = 2
INVARIANTS
  UpdateTypeOK
  TakenOnce
  PendingIsWhole
PROPERTIES
  ForwardOnly
  PressTakesPatch
