\* A press while a check is going on.
SPECIFICATION FairUpdateSpec
CONSTANTS
  MAX_IMAGE = 2
PROPERTIES
  PressIsAnswered
