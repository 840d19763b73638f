----------------------------- MODULE DeltaFlash -----------------------------
(***************************************************************************)
(* The flash port of delta.c: the cursors of struct flash_mem and the four *)
(* callbacks handed to detools (delta_flash_from_read, delta_flash_seek,   *)
(* delta_flash_patch_read, delta_flash_write), with delta_init, which      *)
(* prepares an update.                                                     *)
(*                                                                         *)
(* NOR flash is erased a page at a time and a byte can be programmed only  *)
(* once after an erase.  delta.c therefore erases ahead: delta_init erases *)
(* the first page of the secondary slot, and delta_flash_write erases the  *)
(* page its cursor has reached each time write_buf, the number of bytes    *)
(* handed to it since the last erase, attains PAGE_SIZE.                   *)
(*                                                                         *)
(* A cell is not modelled by its content but by what was done to it:       *)
(*   "old"     not erased since the update began (previous contents)       *)
(*   "erased"  ready to be programmed                                      *)
(*   "new"     programmed once since it was erased: reads back as written  *)
(*   "garbled" programmed without an erase: reads back as the AND of both  *)
(***************************************************************************)
EXTENDS Buffers

CONSTANTS
  PAGE_SIZE,                          \* bytes erased at once
  PRIMARY_OFFSET, PRIMARY_SIZE,       \* slot of the running image
  SECONDARY_OFFSET, SECONDARY_SIZE,   \* slot the new image is written to
  STORAGE_OFFSET, STORAGE_SIZE,       \* patch partition
  HEADER_SIZE,                        \* magic and patch size
  FLASH_SIZE                          \* bytes of the flash device

DELTA_OK                   == 0
DELTA_SLOT1_OUT_OF_MEMORY  == 28
DELTA_READING_PATCH_ERROR  == 29
DELTA_READING_SOURCE_ERROR == 30
DELTA_WRITING_ERROR        == 31
DELTA_SEEKING_ERROR        == 32
DELTA_CLEARING_ERROR       == 35

Addr == 0 .. FLASH_SIZE - 1
Slot1 == SECONDARY_OFFSET .. SECONDARY_OFFSET + SECONDARY_SIZE - 1

(***************************************************************************)
(* The flash map: the slots are made of whole pages, lie inside the flash  *)
(* in the order of the board's layout, and the patch partition is its end  *)
(* (Makefile:5-11).                                                        *)
(***************************************************************************)
ASSUME LayoutAssumption ==
  /\ PAGE_SIZE \in Nat \ {0}
  /\ HEADER_SIZE \in Nat
  /\ PRIMARY_OFFSET \in Nat /\ PRIMARY_SIZE \in Nat
  /\ SECONDARY_OFFSET \in Nat /\ SECONDARY_OFFSET % PAGE_SIZE = 0
  /\ SECONDARY_SIZE \in Nat \ {0} /\ SECONDARY_SIZE % PAGE_SIZE = 0
  /\ STORAGE_OFFSET \in Nat /\ STORAGE_SIZE \in Nat
  /\ PRIMARY_OFFSET + PRIMARY_SIZE <= SECONDARY_OFFSET
  /\ SECONDARY_OFFSET + SECONDARY_SIZE <= STORAGE_OFFSET
  /\ FLASH_SIZE = STORAGE_OFFSET + STORAGE_SIZE

(* The buffer of process_data is shorter than a page.                      *)
ASSUME PageAssumption == TO_BUF < PAGE_SIZE

VARIABLES
  cells,         \* what has been done to each byte of the flash
  patch_current, \* the cursors of struct flash_mem
  from_current,
  to_current,
  write_buf,     \* bytes written since the last erase
  active,        \* delta_init has succeeded and detools may still call
  drift          \* history: bytes by which write_buf overshot PAGE_SIZE,
                 \* summed over all erases of delta_flash_write

flash_vars == << cells, patch_current, from_current, to_current, write_buf,
                 active, drift >>

Kinds == {"old", "erased", "new", "garbled"}

patch_end == STORAGE_OFFSET + HEADER_SIZE + STORAGE_SIZE
from_end  == PRIMARY_OFFSET + PRIMARY_SIZE
to_end    == SECONDARY_OFFSET + SECONDARY_SIZE

-----------------------------------------------------------------------------
(* The flash device: what flash_erase, flash_write and flash_read do.      *)

PageStart(offset) == offset - (offset % PAGE_SIZE)
Page(offset) == PageStart(offset) .. PageStart(offset) + PAGE_SIZE - 1

InFlash(offset, size) == 0 <= offset /\ offset + size <= FLASH_SIZE

Erased(c, offset) ==
  [a \in Addr |-> IF a \in Page(offset) THEN "erased" ELSE c[a]]

Programmed(c, offset, size) ==
  [a \in Addr |-> IF a \notin offset .. offset + size - 1 THEN c[a]
                  ELSE IF c[a] = "erased" THEN "new" ELSE "garbled"]

(***************************************************************************)
(* The boot finds the slot with any mixture of erased pages and pages that *)
(* hold the previous image or the remains of an interrupted update; every  *)
(* other partition holds data.  The cursors of the k_malloc'ed flash_mem   *)
(* are unspecified until delta_init sets them; 0 stands for that.          *)
(***************************************************************************)
FlashInit ==
  /\ \E blank \in SUBSET {PageStart(a) : a \in Slot1} :
        cells = [a \in Addr |->
                   IF PageStart(a) \in blank THEN "erased" ELSE "old"]
  /\ patch_current = 0 /\ from_current = 0 /\ to_current = 0
  /\ write_buf = 0
  /\ active = FALSE
  /\ drift = 0

(***************************************************************************)
(* delta_init: set the cursors and erase the first page of the slot.       *)
(***************************************************************************)
DeltaInit(res) ==
  /\ from_current' = PRIMARY_OFFSET
  /\ to_current' = SECONDARY_OFFSET
  /\ patch_current' = STORAGE_OFFSET + HEADER_SIZE
  /\ write_buf' = 0
  /\ drift' = 0
  /\ \/ /\ res = DELTA_OK
        /\ cells' = Erased(cells, SECONDARY_OFFSET)
     \/ /\ res = -DELTA_CLEARING_ERROR
        /\ UNCHANGED cells
  /\ active' = (res = DELTA_OK)

-----------------------------------------------------------------------------
(* The callbacks.  Each may also fail because the driver does.  detools    *)
(* makes no further call once a read of the source, a seek or a write has  *)
(* returned an error; after a failed read of the patch it still finalizes, *)
(* which works off what the decoder holds.                                 *)

(* The page counter has filled a page. *)
PageDue_Never(filled) == filled >= SECONDARY_SIZE
PageDue(filled) == filled >= PAGE_SIZE

(* The address whose page is erased when a page is due: that of the next   *)
(* byte after the buffer (the faulty form erases under the buffer).        *)
EraseAhead_Behind(size) == to_current
EraseAhead(size) == to_current + size

(* What the write callback answers when it leaves its cursor at next.      *)
WriteResult_OffByOne(next) ==
  IF next > to_end THEN -DELTA_SLOT1_OUT_OF_MEMORY ELSE DELTA_OK
WriteResult(next) ==
  IF next >= to_end THEN -DELTA_SLOT1_OUT_OF_MEMORY ELSE DELTA_OK

DeltaFlashWrite(size, res) ==
  LET filled == write_buf + size
      next   == to_current + size
      due    == PageDue(filled)
      ready  == IF due THEN Erased(cells, EraseAhead(size)) ELSE cells
  IN
  /\ \/ /\ due
        /\ res = -DELTA_CLEARING_ERROR
        /\ write_buf' = filled
        /\ UNCHANGED << cells, to_current, drift >>
     \/ /\ due => InFlash(PageStart(EraseAhead(size)), PAGE_SIZE)
        /\ write_buf' = IF due THEN 0 ELSE filled
        /\ drift' = IF due THEN drift + filled - PAGE_SIZE ELSE drift
        /\ \/ /\ res = -DELTA_WRITING_ERROR
              /\ cells' = ready
              /\ UNCHANGED to_current
           \/ /\ InFlash(to_current, size)
              /\ cells' = Programmed(ready, to_current, size)
              /\ to_current' = next
              /\ res = WriteResult(next)
  /\ active' = (res = DELTA_OK)
  /\ UNCHANGED << patch_current, from_current >>

ReadResult(next) ==
  IF next >= from_end THEN -DELTA_READING_SOURCE_ERROR ELSE DELTA_OK

DeltaFlashFromRead(size, res) ==
  /\ \/ /\ res = -DELTA_READING_SOURCE_ERROR
        /\ UNCHANGED from_current
     \/ /\ InFlash(from_current, size)
        /\ from_current' = from_current + size
        /\ res = ReadResult(from_current')
  /\ active' = (res = DELTA_OK)
  /\ UNCHANGED << cells, patch_current, to_current, write_buf, drift >>

DeltaFlashPatchRead(size, res) ==
  /\ \/ /\ res = -DELTA_READING_PATCH_ERROR
        /\ UNCHANGED patch_current
     \/ /\ InFlash(patch_current, size)
        /\ patch_current' = patch_current + size
        /\ res = IF patch_current' >= patch_end
                 THEN -DELTA_READING_PATCH_ERROR ELSE DELTA_OK
  /\ UNCHANGED << cells, from_current, to_current, write_buf, active, drift >>

(* The seek moves the cursor from where it is (the faulty form takes the   *)
(* offset for a position); only its upper end is checked.                  *)
Sought_Absolute(offset) == PRIMARY_OFFSET + offset
Sought(offset) == from_current + offset

DeltaFlashSeek(offset, res) ==
  /\ from_current' = Sought(offset)
  /\ res = IF from_current' >= from_end THEN -DELTA_SEEKING_ERROR ELSE DELTA_OK
  /\ active' = (res = DELTA_OK)
  /\ UNCHANGED << cells, patch_current, to_current, write_buf, drift >>

-----------------------------------------------------------------------------
Results == {DELTA_OK} \cup
  {-e : e \in {DELTA_SLOT1_OUT_OF_MEMORY, DELTA_READING_PATCH_ERROR,
               DELTA_READING_SOURCE_ERROR, DELTA_WRITING_ERROR,
               DELTA_SEEKING_ERROR, DELTA_CLEARING_ERROR}}

(***************************************************************************)
(* The caller: one update, that is delta_init, then any callbacks until    *)
(* one fails.  detools writes and reads the source in buffers of up to     *)
(* TO_BUF bytes, and reads the patch in chunks of up to CHUNK_BUF.  Bound: *)
(* the seeks modelled end between address 0 and the end of the source.     *)
(***************************************************************************)
FlashNext ==
  \E res \in Results :
    \/ ~active /\ to_current = 0 /\ DeltaInit(res)
    \/ active /\ \E n \in 1 .. TO_BUF : DeltaFlashWrite(n, res)
    \/ active /\ \E n \in 1 .. TO_BUF : DeltaFlashFromRead(n, res)
    \/ active /\ \E n \in 1 .. CHUNK_BUF : DeltaFlashPatchRead(n, res)
    \/ active /\ \E to \in 0 .. from_end : DeltaFlashSeek(to - from_current, res)

FlashSpec == FlashInit /\ [][FlashNext]_flash_vars

-----------------------------------------------------------------------------
FlashTypeOK ==
  /\ cells \in [Addr -> Kinds]
  /\ patch_current \in Nat
  /\ from_current \in Int
  /\ to_current \in Nat
  /\ write_buf \in Nat
  /\ active \in BOOLEAN
  /\ active => write_buf < PAGE_SIZE
  /\ drift \in Nat

(***************************************************************************)
(* A callback that reports success has changed no byte outside the         *)
(* secondary slot.  delta_flash_write erases the page AFTER the buffer     *)
(* before it looks at to_end, so this rests on the answer it gives when    *)
(* the cursor reaches the end.                                             *)
(***************************************************************************)
SuccessStaysInSlot ==
  [][active' => \A a \in Addr \ Slot1 : cells'[a] = cells[a]]_flash_vars

(***************************************************************************)
(* As long as the page counter has stayed in step with the cursor (no      *)
(* buffer made it overshoot PAGE_SIZE), every byte written so far reads    *)
(* back as it was written, and the rest of the page is erased.             *)
(***************************************************************************)
InStepIntact ==
  active /\ drift = 0 =>
    /\ \A a \in SECONDARY_OFFSET .. to_current - 1 : cells[a] = "new"
    /\ \A a \in to_current .. to_current + PAGE_SIZE - write_buf - 1 :
          cells[a] = "erased"

(***************************************************************************)
(* README.md:14: an update makes use of the primary, the secondary and the *)
(* patch partition; the page behind the secondary slot is none of them.    *)
(***************************************************************************)
NothingBehindSlot ==
  \A a \in to_end .. STORAGE_OFFSET - 1 : cells[a] = "old"

=============================================================================
