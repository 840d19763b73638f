\* The image an upgrade is requested for.
SPECIFICATION CheckSpec
CONSTANTS
  Patches <- MCPatches
  From <- MCFrom
  TO_BUF = 2
  CHUNK_BUF = 6
  SIZE_MOD = 268435456
  PAGE_SIZE = 4
  PRIMARY_OFFSET = 4
  PRIMARY_SIZE = 12
  SECONDARY_OFFSET = 16
  SECONDARY_SIZE = 16
  STORAGE_OFFSET = 36
  STORAGE_SIZE = 32
  HEADER_SIZE = 2
  FLASH_SIZE = 68
INVARIANTS
  BootsNewImage
CHECK_DEADLOCK FALSE
