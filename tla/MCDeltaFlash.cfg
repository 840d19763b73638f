\* Every sequence of write sizes over a three-page slot, with driver failures.
SPECIFICATION FlashSpec
CONSTANTS
  PAGE_SIZE = 4
  PRIMARY_OFFSET = 4
  PRIMARY_SIZE = 4
  SECONDARY_OFFSET = 8
  SECONDARY_SIZE = 12
  STORAGE_OFFSET = 24
  STORAGE_SIZE = 8
  HEADER_SIZE = 2
  FLASH_SIZE = 32
  TO_BUF = 3
  CHUNK_BUF = 3
INVARIANTS
  FlashTypeOK
  InStepIntact
PROPERTIES
  SuccessStaysInSlot
\* An update ends when a callback fails or the slot is full.
CHECK_DEADLOCK FALSE
