-------------------------- MODULE DeltaCheckProofs --------------------------
(***************************************************************************)
(* What the flash port promises for every layout of whole pages, every     *)
(* buffer size below a page and every number of callbacks; and what a call *)
(* of delta_check_and_apply promises, whatever the patch, the layout of    *)
(* the flash and the driver: the engine and the flash port go together,    *)
(* and the call keeps its contract.                                        *)
(***************************************************************************)
EXTENDS DeltaCheck, PatchReferenceProofs

-----------------------------------------------------------------------------
(***************************************************************************)
(* The flash port on its own.                                              *)
(***************************************************************************)

(* The slot is made of whole pages.                                        *)
LEMMA SlotAligned ==
  /\ SECONDARY_OFFSET \in Nat /\ SECONDARY_OFFSET % PAGE_SIZE = 0
  /\ to_end \in Nat /\ to_end % PAGE_SIZE = 0
  /\ SECONDARY_OFFSET < to_end /\ to_end <= FLASH_SIZE
  /\ FLASH_SIZE \in Nat
  /\ Slot1 = SECONDARY_OFFSET .. to_end - 1
<1>1. /\ PAGE_SIZE \in Nat \ {0}
      /\ SECONDARY_OFFSET \in Int /\ SECONDARY_OFFSET % PAGE_SIZE = 0
      /\ SECONDARY_SIZE \in Int /\ SECONDARY_SIZE % PAGE_SIZE = 0
  BY LayoutAssumption
<1>2. (SECONDARY_OFFSET + SECONDARY_SIZE) % PAGE_SIZE = 0
  BY <1>1, AlignedSum
<1> QED
  BY <1>2, LayoutAssumption DEF to_end, Slot1

(* The page of an address of the slot lies in the slot (erase_page never   *)
(* reaches out of the slot when it is given an address inside it).         *)
LEMMA PageInSlot ==
  ASSUME NEW a \in Slot1
  PROVE  Page(a) \subseteq Slot1
<1>1. /\ PAGE_SIZE \in Nat \ {0} /\ a \in Int
      /\ SECONDARY_OFFSET <= a /\ a < to_end
  BY SlotAligned, LayoutAssumption
<1>2. a % PAGE_SIZE \in 0 .. PAGE_SIZE - 1
  BY <1>1, DivMod
<1>3. SECONDARY_OFFSET <= a - (a % PAGE_SIZE)
  BY <1>1, SlotAligned, PageAbove
<1>4. a - (a % PAGE_SIZE) + PAGE_SIZE <= to_end
  <2>1. to_end \in Int /\ to_end % PAGE_SIZE = 0
    BY SlotAligned
  <2> HIDE DEF to_end
  <2> QED
    BY <1>1, <2>1, PageBelow
<1> HIDE DEF Slot1
<1> QED
  BY <1>1, <1>2, <1>3, <1>4, SlotAligned DEF Page, PageStart

(* Erasing and programming keep every cell one of the four kinds.          *)
LEMMA FlashTyped ==
  ASSUME NEW c \in [Addr -> Kinds], NEW o, NEW n
  PROVE  Erased(c, o) \in [Addr -> Kinds] /\ Programmed(c, o, n) \in [Addr -> Kinds]
BY DEF Erased, Programmed, Kinds

(* The write callback answers DELTA_OK only when it erased the page that   *)
(* was due, programmed the buffer and is still below the end of the slot   *)
(* (delta.c:33-55).                                                        *)
LEMMA SuccessfulWrite ==
  ASSUME NEW n, NEW answer, DeltaFlashWrite(n, answer), active'
  PROVE  /\ cells' = Programmed(IF PageDue(write_buf + n)
                                THEN Erased(cells, to_current + n) ELSE cells,
                                to_current, n)
         /\ to_current' = to_current + n
         /\ ~(to_current' >= to_end)
         /\ write_buf' = IF PageDue(write_buf + n) THEN 0 ELSE write_buf + n
         /\ drift' = IF PageDue(write_buf + n)
                     THEN drift + (write_buf + n) - PAGE_SIZE ELSE drift
<1>1. answer = 0
  BY DEF DeltaFlashWrite, DELTA_OK
<1>2. answer # -DELTA_CLEARING_ERROR /\ answer # -DELTA_WRITING_ERROR
  BY <1>1 DEF DELTA_CLEARING_ERROR, DELTA_WRITING_ERROR
<1>3. ~(to_current + n >= to_end) \/ answer # WriteResult(to_current + n)
  BY <1>1 DEF WriteResult, DELTA_SLOT1_OUT_OF_MEMORY
<1> QED
  BY <1>2, <1>3 DEF DeltaFlashWrite, EraseAhead

(* delta_init sets every cursor (delta.c:141-169).                         *)
LEMMA InitTyped ==
  ASSUME FlashTypeOK, NEW answer, DeltaInit(answer)
  PROVE  FlashTypeOK'
<1>1. cells' \in [Addr -> Kinds]
  BY FlashTyped DEF DeltaInit, FlashTypeOK
<1>2. /\ patch_current' \in Nat /\ from_current' \in Int
      /\ to_current' \in Nat /\ write_buf' = 0 /\ drift' = 0
  BY LayoutAssumption DEF DeltaInit
<1>3. active' \in BOOLEAN
  BY DEF DeltaInit
<1> QED
  BY <1>1, <1>2, <1>3, LayoutAssumption DEF FlashTypeOK

(* A write keeps the page counter below a page unless it fails             *)
(* (delta.c:33-40).                                                        *)
LEMMA WriteTyped ==
  ASSUME FlashTypeOK, active, NEW n \in 1 .. TO_BUF, NEW answer,
         DeltaFlashWrite(n, answer)
  PROVE  FlashTypeOK'
<1>1. n \in Nat /\ write_buf + n \in Nat /\ to_current + n \in Nat
  BY ChunkAssumption DEF FlashTypeOK
<1>2. cells' \in [Addr -> Kinds]
  BY FlashTyped DEF DeltaFlashWrite, FlashTypeOK
<1>3. write_buf' \in Nat /\ to_current' \in Nat /\ drift' \in Nat
  BY <1>1, LayoutAssumption DEF DeltaFlashWrite, PageDue, FlashTypeOK
<1>4. active' => write_buf' < PAGE_SIZE
  BY <1>1, SuccessfulWrite, LayoutAssumption DEF PageDue
<1> QED
  BY <1>2, <1>3, <1>4 DEF DeltaFlashWrite, FlashTypeOK

(* The other callbacks only move their own cursor (delta.c:58-129).        *)
OtherCallback(answer) ==
  \/ \E n \in Nat : DeltaFlashFromRead(n, answer) \/ DeltaFlashPatchRead(n, answer)
  \/ \E o \in Int : DeltaFlashSeek(o, answer)

LEMMA CallbackTyped ==
  ASSUME FlashTypeOK, active, NEW answer, OtherCallback(answer)
  PROVE  FlashTypeOK'
<1>1. ASSUME NEW n \in Nat, DeltaFlashFromRead(n, answer)
      PROVE  FlashTypeOK'
  BY <1>1 DEF DeltaFlashFromRead, FlashTypeOK
<1>2. ASSUME NEW n \in Nat, DeltaFlashPatchRead(n, answer)
      PROVE  FlashTypeOK'
  BY <1>2 DEF DeltaFlashPatchRead, FlashTypeOK
<1>3. ASSUME NEW o \in Int, DeltaFlashSeek(o, answer)
      PROVE  FlashTypeOK'
  BY <1>3 DEF DeltaFlashSeek, Sought, FlashTypeOK
<1> QED
  BY <1>1, <1>2, <1>3 DEF OtherCallback

LEMMA BootTyped ==
  ASSUME FlashInit
  PROVE  FlashTypeOK
<1>1. cells \in [Addr -> Kinds]
  BY DEF FlashInit, Kinds
<1>2. /\ patch_current = 0 /\ from_current = 0 /\ to_current = 0
      /\ write_buf = 0 /\ active = FALSE /\ drift = 0
  BY DEF FlashInit
<1>3. active \in BOOLEAN /\ ~active
  BY <1>2
<1>4. patch_current = 0 /\ from_current = 0 /\ to_current = 0
      /\ write_buf = 0 /\ drift = 0
  BY <1>2
<1> QED
  BY <1>1, <1>3, <1>4 DEF FlashTypeOK

(* Every step is one of these.                                             *)
LEMMA FlashStep ==
  ASSUME FlashTypeOK, FlashNext
  PROVE  \E answer \in Results :
           \/ DeltaInit(answer)
           \/ active /\ \E n \in 1 .. TO_BUF : DeltaFlashWrite(n, answer)
           \/ active /\ OtherCallback(answer)
<1>1. 1 .. TO_BUF \subseteq Nat /\ 1 .. CHUNK_BUF \subseteq Nat
  BY ChunkAssumption
<1>2. \A to \in 0 .. from_end : to - from_current \in Int
  BY DEF FlashTypeOK
<1> QED
  BY <1>1, <1>2 DEF FlashNext, OtherCallback

(* The types of all variables, with the page counter below a page while    *)
(* callbacks run (delta.c:33-40).                                          *)
THEOREM FlashTypeCorrect == FlashSpec => []FlashTypeOK
<1>1. FlashInit => FlashTypeOK
  BY BootTyped
<1>2. FlashTypeOK /\ [FlashNext]_flash_vars => FlashTypeOK'
  <2>1. FlashTypeOK /\ FlashNext => FlashTypeOK'
    BY FlashStep, InitTyped, WriteTyped, CallbackTyped
  <2>2. FlashTypeOK /\ UNCHANGED flash_vars => FlashTypeOK'
    BY DEF flash_vars, FlashTypeOK
  <2> QED
    BY <2>1, <2>2
<1> QED
  BY <1>1, <1>2, PTL DEF FlashSpec
-----------------------------------------------------------------------------
(***************************************************************************)
(* The inductive invariant.  While callbacks run the cursor is inside the  *)
(* slot; and while the page counter is in step with the cursor, write_buf  *)
(* is the cursor's offset in its page.                                     *)
(***************************************************************************)
CursorInSlot == active => to_current \in Slot1

PageInStep ==
  active /\ drift = 0 =>
    /\ (to_current - write_buf) % PAGE_SIZE = 0
    /\ SECONDARY_OFFSET <= to_current - write_buf

FlashInv == FlashTypeOK /\ CursorInSlot /\ PageInStep /\ InStepIntact

(* The page of an aligned address starts at that address (delta.c:17).     *)
LEMMA AlignedPage ==
  ASSUME NEW e \in Int, e % PAGE_SIZE = 0
  PROVE  Page(e) = e .. e + PAGE_SIZE - 1
BY LayoutAssumption DEF Page, PageStart

(* Erasing the page at the cursor of an empty slot establishes the         *)
(* invariant (delta.c:155-169).                                            *)
LEMMA InitStep ==
  ASSUME FlashTypeOK, FlashTypeOK', NEW answer, DeltaInit(answer)
  PROVE  CursorInSlot' /\ PageInStep' /\ InStepIntact'
<1> SUFFICES ASSUME active'
             PROVE  CursorInSlot' /\ PageInStep' /\ InStepIntact'
  BY DEF CursorInSlot, PageInStep, InStepIntact
<1>1. /\ to_current' = SECONDARY_OFFSET /\ write_buf' = 0
      /\ cells' = Erased(cells, SECONDARY_OFFSET)
  <2>1. answer = 0
    BY DEF DeltaInit, DELTA_OK
  <2>2. answer # -DELTA_CLEARING_ERROR
    BY <2>1 DEF DELTA_CLEARING_ERROR
  <2> QED
    BY <2>2 DEF DeltaInit
<1>2. /\ SECONDARY_OFFSET \in Slot1
      /\ SECONDARY_OFFSET \in Int /\ SECONDARY_OFFSET % PAGE_SIZE = 0
  BY SlotAligned, LayoutAssumption DEF to_end
<1>3. Page(SECONDARY_OFFSET) = SECONDARY_OFFSET .. SECONDARY_OFFSET + PAGE_SIZE - 1
  BY <1>2, AlignedPage
<1>4. Page(SECONDARY_OFFSET) \subseteq Addr
  <2>1. Slot1 \subseteq Addr
    BY SlotAligned DEF Addr
  <2> QED
    BY <1>2, <2>1, PageInSlot
<1>5. CursorInSlot'
  BY <1>1, <1>2 DEF CursorInSlot, Slot1
<1>6. PageInStep'
  <2>1. SECONDARY_OFFSET - 0 = SECONDARY_OFFSET
    BY <1>2
  <2> QED
    BY <1>1, <1>2, <2>1 DEF PageInStep
<1>7. InStepIntact'
  <2>1. \A a \in SECONDARY_OFFSET .. SECONDARY_OFFSET + PAGE_SIZE - 1 :
           cells'[a] = "erased"
    BY <1>1, <1>3, <1>4 DEF Erased
  <2>2. SECONDARY_OFFSET .. SECONDARY_OFFSET - 1 = {}
    BY <1>2
  <2>3. SECONDARY_OFFSET + PAGE_SIZE - 0 - 1 = SECONDARY_OFFSET + PAGE_SIZE - 1
    BY <1>2, LayoutAssumption
  <2> QED
    BY <1>1, <2>1, <2>2, <2>3 DEF InStepIntact
<1> QED
  BY <1>5, <1>6, <1>7

(* A write that answers DELTA_OK leaves the cursor in the slot and touches *)
(* no byte outside it: the page it erases is that of the new cursor.       *)
LEMMA WriteStaysInSlot ==
  ASSUME FlashTypeOK, CursorInSlot, active, NEW n \in 1 .. TO_BUF, NEW answer,
         DeltaFlashWrite(n, answer), active'
  PROVE  /\ to_current' = to_current + n
         /\ to_current' \in Slot1
         /\ \A a \in Addr \ Slot1 : cells'[a] = cells[a]
<1>1. n \in Nat \ {0} /\ to_current \in Nat
  BY ChunkAssumption, PageAssumption, LayoutAssumption DEF FlashTypeOK
<1>2. /\ to_current' = to_current + n /\ ~(to_current' >= to_end)
      /\ cells' = Programmed(IF PageDue(write_buf + n)
                             THEN Erased(cells, to_current + n) ELSE cells,
                             to_current, n)
  BY SuccessfulWrite
<1>3. /\ to_current + n \in Slot1
      /\ to_current .. to_current + n - 1 \subseteq Slot1
  <2>1. SECONDARY_OFFSET <= to_current
    BY SlotAligned DEF CursorInSlot
  <2>2. to_current + n < to_end
    BY <1>1, <1>2, SlotAligned
  <2> HIDE DEF Slot1
  <2> QED
    BY <1>1, <2>1, <2>2, SlotAligned
<1>4. Page(to_current + n) \subseteq Slot1
  BY <1>3, PageInSlot
<1>5. ASSUME NEW a \in Addr \ Slot1
      PROVE  cells'[a] = cells[a]
  BY <1>2, <1>3, <1>4 DEF Programmed, Erased
<1> QED
  BY <1>2, <1>3, <1>5

(* A write in step: the counter reaches a page exactly, or stays below it. *)
LEMMA WriteStep ==
  ASSUME FlashInv, FlashTypeOK', active, NEW n \in 1 .. TO_BUF, NEW answer,
         DeltaFlashWrite(n, answer)
  PROVE  CursorInSlot' /\ PageInStep' /\ InStepIntact'
<1> SUFFICES ASSUME active'
             PROVE  CursorInSlot' /\ PageInStep' /\ InStepIntact'
  BY DEF CursorInSlot, PageInStep, InStepIntact
<1>1. CursorInSlot'
  BY WriteStaysInSlot DEF FlashInv, CursorInSlot, Slot1
<1> SUFFICES ASSUME drift' = 0
             PROVE  PageInStep' /\ InStepIntact'
  BY <1>1 DEF PageInStep, InStepIntact
<1> DEFINE filled == write_buf + n
           base == to_current - write_buf
           next == to_current + n
<1>2. /\ n \in Nat \ {0} /\ to_current \in Nat /\ write_buf \in Nat
      /\ drift \in Nat /\ PAGE_SIZE \in Nat \ {0} /\ SECONDARY_OFFSET \in Nat
  BY ChunkAssumption, PageAssumption, LayoutAssumption DEF FlashInv, FlashTypeOK
<1>3. /\ cells' = Programmed(IF PageDue(filled) THEN Erased(cells, next) ELSE cells,
                             to_current, n)
      /\ to_current' = next
      /\ write_buf' = IF PageDue(filled) THEN 0 ELSE filled
      /\ drift' = IF PageDue(filled) THEN drift + filled - PAGE_SIZE ELSE drift
  BY SuccessfulWrite
<1>4. drift = 0 /\ (PageDue(filled) => filled = PAGE_SIZE)
  BY <1>2, <1>3 DEF PageDue
<1>5. /\ base % PAGE_SIZE = 0 /\ SECONDARY_OFFSET <= base /\ base \in Int
      /\ \A a \in SECONDARY_OFFSET .. to_current - 1 : cells[a] = "new"
      /\ \A a \in to_current .. base + PAGE_SIZE - 1 : cells[a] = "erased"
  <2>1. base + PAGE_SIZE - 1 = to_current + PAGE_SIZE - write_buf - 1
    BY <1>2
  <2> QED
    BY <1>2, <1>4, <2>1 DEF FlashInv, PageInStep, InStepIntact
<1>6. Slot1 \subseteq Addr /\ next \in Slot1 /\ SECONDARY_OFFSET .. next \subseteq Slot1
  <2>1. next \in Slot1
    BY WriteStaysInSlot DEF FlashInv
  <2>2. \A a \in SECONDARY_OFFSET .. next : a \in Slot1
    <3>1. next \in Int /\ next < to_end
      BY <2>1, <1>2, SlotAligned
    <3> HIDE DEF next, Slot1
    <3> QED
      BY <1>2, <3>1, SlotAligned
  <2>3. Slot1 \subseteq Addr
    BY SlotAligned DEF Addr
  <2> QED
    BY <2>1, <2>2, <2>3
<1>7. CASE PageDue(filled)
  <2>1. next = base + PAGE_SIZE /\ next \in Int
    BY <1>2, <1>4, <1>7
  <2>2. next % PAGE_SIZE = 0
    <3>1. PAGE_SIZE % PAGE_SIZE = 0
      BY <1>2, RemainderUnique, PAGE_SIZE * 1 + 0 = PAGE_SIZE
    <3>2. base \in Int /\ base % PAGE_SIZE = 0 /\ PAGE_SIZE \in Int
      BY <1>2, <1>5
    <3> HIDE DEF base
    <3>3. (base + PAGE_SIZE) % PAGE_SIZE = 0
      BY <1>2, <3>1, <3>2, AlignedSum
    <3> QED
      BY <2>1, <3>3
  <2>3. Page(next) = next .. next + PAGE_SIZE - 1 /\ Page(next) \subseteq Addr
    <3> HIDE DEF next
    <3> QED
      BY <1>6, <2>1, <2>2, AlignedPage, PageInSlot
  <2>4. PageInStep'
    BY <1>2, <1>3, <1>5, <1>7, <2>1, <2>2 DEF PageInStep
  <2>5. ASSUME NEW a \in SECONDARY_OFFSET .. next - 1
        PROVE  cells'[a] = "new"
    <3>1. a \in Addr /\ a \notin Page(next) /\ a \in Int /\ a < next
      BY <1>2, <1>6, <2>3
    <3>2. a \in SECONDARY_OFFSET .. to_current - 1 \/ a \in to_current .. next - 1
      BY <1>2
    <3>3. a \in to_current .. next - 1 => cells[a] = "erased"
      <4>1. next - 1 = base + PAGE_SIZE - 1
        BY <2>1, <1>2
      <4> QED
        BY <1>5, <4>1
    <3> QED
      BY <1>3, <1>5, <1>7, <3>1, <3>2, <3>3, <1>2 DEF Programmed, Erased
  <2>6. ASSUME NEW a \in next .. next + PAGE_SIZE - 1
        PROVE  cells'[a] = "erased"
    <3>1. a \in Addr /\ a \in Page(next) /\ a \notin to_current .. next - 1
      BY <2>3, <1>2
    <3>2. Erased(cells, next)[a] = "erased"
      BY <3>1 DEF Erased
    <3>3. cells' = Programmed(Erased(cells, next), to_current, n)
      BY <1>3, <1>7
    <3>4. cells'[a] = Erased(cells, next)[a]
      BY <1>2, <3>1, <3>3 DEF Programmed
    <3> QED
      BY <3>2, <3>4
  <2>7. InStepIntact'
    <3>1. next + PAGE_SIZE - 0 - 1 = next + PAGE_SIZE - 1
      BY <2>1, <1>2
    <3> QED
      BY <1>3, <1>7, <2>5, <2>6, <3>1 DEF InStepIntact
  <2> QED
    BY <2>4, <2>7
<1>8. CASE ~PageDue(filled)
  <2>1. next - filled = base /\ write_buf' = filled
    BY <1>2, <1>3, <1>8
  <2>2. PageInStep'
    BY <1>3, <1>5, <2>1 DEF PageInStep
  <2>3. next < base + PAGE_SIZE
    BY <1>2, <1>8 DEF PageDue
  <2>4. ASSUME NEW a \in SECONDARY_OFFSET .. next - 1
        PROVE  cells'[a] = "new"
    <3>1. a \in Addr
      BY <1>2, <1>6
    <3>2. a \in SECONDARY_OFFSET .. to_current - 1 \/ a \in to_current .. next - 1
      BY <1>2
    <3>3. a \in to_current .. next - 1 => cells[a] = "erased"
      BY <1>2, <1>5, <2>3
    <3> QED
      BY <1>3, <1>5, <1>8, <3>1, <3>2, <3>3, <1>2 DEF Programmed
  <2>5. base + PAGE_SIZE <= to_end
    <3>1. to_current \in Int /\ to_current < to_end /\ to_current % PAGE_SIZE = write_buf
      <4>1. write_buf \in 0 .. PAGE_SIZE - 1
        BY <1>2 DEF FlashInv, FlashTypeOK
      <4> HIDE DEF base
      <4>2. (base + write_buf) % PAGE_SIZE = write_buf
        BY <1>2, <1>5, <4>1, OffsetInPage
      <4>3. base + write_buf = to_current
        BY <1>2 DEF base
      <4> QED
        BY <1>2, <4>2, <4>3, SlotAligned DEF FlashInv, CursorInSlot
    <3>2. to_current - (to_current % PAGE_SIZE) + PAGE_SIZE <= to_end
      <4>1. to_end \in Int /\ to_end % PAGE_SIZE = 0
        BY SlotAligned
      <4> HIDE DEF to_end
      <4> QED
        BY <1>2, <3>1, <4>1, PageBelow
    <3> QED
      BY <3>1, <3>2
  <2>6. ASSUME NEW a \in next .. base + PAGE_SIZE - 1
        PROVE  cells'[a] = "erased"
    <3>1. a \in Addr /\ a \notin to_current .. next - 1
      BY <1>2, <2>5, SlotAligned DEF Addr
    <3>2. cells[a] = "erased"
      BY <1>2, <1>5
    <3>3. cells' = Programmed(cells, to_current, n)
      BY <1>3, <1>8
    <3>4. cells'[a] = cells[a]
      BY <1>2, <3>1, <3>3 DEF Programmed
    <3> QED
      BY <3>2, <3>4
  <2>7. InStepIntact'
    <3>1. next + PAGE_SIZE - filled - 1 = base + PAGE_SIZE - 1
      BY <1>2
    <3> QED
      BY <1>3, <2>1, <2>4, <2>6, <3>1 DEF InStepIntact
  <2> QED
    BY <2>2, <2>7
<1> QED
  BY <1>7, <1>8

(* The three ways in which a step of the port keeps the invariant.         *)
LEMMA BootKeeps ==
  ASSUME FlashInit
  PROVE  FlashInv
<1>1. CursorInSlot /\ PageInStep /\ InStepIntact
  BY DEF FlashInit, CursorInSlot, PageInStep, InStepIntact
<1> QED
  BY <1>1, BootTyped DEF FlashInv

LEMMA InitKeeps ==
  ASSUME FlashInv, NEW answer, DeltaInit(answer)
  PROVE  FlashInv'
BY InitTyped, InitStep DEF FlashInv

LEMMA WriteKeeps ==
  ASSUME FlashInv, active, NEW n \in 1 .. TO_BUF, NEW answer, DeltaFlashWrite(n, answer)
  PROVE  FlashInv'
<1>1. FlashTypeOK'
  BY WriteTyped DEF FlashInv
<1> QED
  BY <1>1, WriteStep DEF FlashInv

LEMMA IdleKeeps ==
  ASSUME FlashInv, FlashTypeOK', UNCHANGED << cells, to_current, write_buf, drift >>,
         active' => active
  PROVE  FlashInv'
BY DEF FlashInv, CursorInSlot, PageInStep, InStepIntact

LEMMA CallbackKeeps ==
  ASSUME FlashInv, active, NEW answer, OtherCallback(answer)
  PROVE  FlashInv'
<1>1. FlashTypeOK'
  BY CallbackTyped DEF FlashInv
<1>2. UNCHANGED << cells, to_current, write_buf, drift >> /\ (active' => active)
  BY DEF OtherCallback, DeltaFlashFromRead, DeltaFlashPatchRead, DeltaFlashSeek
<1> QED
  BY <1>1, <1>2, IdleKeeps

LEMMA FlashStutter ==
  ASSUME FlashInv, UNCHANGED flash_vars
  PROVE  FlashInv'
<1>1. FlashTypeOK'
  BY DEF FlashInv, FlashTypeOK, flash_vars
<1> QED
  BY <1>1, IdleKeeps DEF flash_vars

(* The invariant holds throughout an update.                               *)
THEOREM FlashInvariance == FlashSpec => []FlashInv
<1>1. FlashInit => FlashInv
  BY BootKeeps
<1>2. FlashInv /\ [FlashNext]_flash_vars => FlashInv'
  <2>1. FlashInv /\ FlashNext => FlashInv'
    BY FlashStep, InitKeeps, WriteKeeps, CallbackKeeps DEF FlashInv
  <2>2. FlashInv /\ UNCHANGED flash_vars => FlashInv'
    BY FlashStutter
  <2> QED
    BY <2>1, <2>2
<1> QED
  BY <1>1, <1>2, PTL DEF FlashSpec

(* While no buffer has overshot a page, what was written reads back and    *)
(* the rest of the page is erased: erase_page and write_buf do their job   *)
(* for buffers that fill pages exactly (delta.c:33-50).                    *)
THEOREM IntactWhileInStep == FlashSpec => []InStepIntact
BY FlashInvariance, PTL DEF FlashInv

(* No callback that answers DELTA_OK has changed a byte outside the        *)
(* secondary slot (delta.c:26-56, 155-169).                                *)
THEOREM ConfinedToSlot == FlashSpec => SuccessStaysInSlot
<1>1. FlashInv /\ [FlashNext]_flash_vars
        => [active' => \A a \in Addr \ Slot1 : cells'[a] = cells[a]]_flash_vars
  <2> SUFFICES ASSUME FlashInv, FlashNext, active'
               PROVE  \A a \in Addr \ Slot1 : cells'[a] = cells[a]
    OBVIOUS
  <2>1. ASSUME NEW answer \in Results, DeltaInit(answer)
        PROVE  \A a \in Addr \ Slot1 : cells'[a] = cells[a]
    <3>1. Page(SECONDARY_OFFSET) \subseteq Slot1
      <4>1. SECONDARY_OFFSET \in Slot1
        BY SlotAligned
      <4> QED
        BY <4>1, PageInSlot
    <3> QED
      BY <2>1, <3>1 DEF DeltaInit, Erased
  <2>2. ASSUME NEW n \in 1 .. TO_BUF, NEW answer, active, DeltaFlashWrite(n, answer)
        PROVE  \A a \in Addr \ Slot1 : cells'[a] = cells[a]
    BY <2>2, WriteStaysInSlot DEF FlashInv
  <2>3. ASSUME NEW answer, OtherCallback(answer)
        PROVE  \A a \in Addr \ Slot1 : cells'[a] = cells[a]
    BY <2>3 DEF OtherCallback, DeltaFlashFromRead, DeltaFlashPatchRead, DeltaFlashSeek
  <2> QED
    BY <2>1, <2>2, <2>3, FlashStep DEF FlashInv
<1> QED
  BY <1>1, FlashInvariance, PTL DEF FlashSpec, SuccessStaysInSlot

-----------------------------------------------------------------------------
(***************************************************************************)
(* The call of delta_check_and_apply.                                      *)
(*                                                                         *)
(* The inductive invariant: that of the engine, that of the flash port,    *)
(* and how the two go together.                                            *)
(***************************************************************************)
CallTypeOK ==
  /\ header \in {"none", "NEWP", "marked"}
  /\ step \in {"header", "init", "apply", "reboot", "returned"}
  /\ result \in Int

Outside == \A a \in Addr \ Slot1 : cells[a] = "old"

(* Nothing has happened yet.                                               *)
Prepared ==
  step \in {"header", "init"} =>
    /\ pc = "read" /\ state = "init" /\ cb_res = 0
    /\ patch_offset = 0 /\ from_offset = 0 /\ to_size = 0 /\ to_current = 0
    /\ Outside

(* The source and the target stay in step until the engine fails; the      *)
(* patch only while it can be read.                                        *)
InTouch ==
  step = "apply" /\ state # "failed" =>
    /\ from_current = PRIMARY_OFFSET + from_offset
    /\ to_current = SECONDARY_OFFSET + to_offset
    /\ cb_res = 0 => patch_current = STORAGE_OFFSET + HEADER_SIZE + patch_offset

(* As long as all writes have gone well.                                   *)
AllAccepted ==
  step \in {"apply", "reboot"} /\ GoneWell =>
    /\ active
    /\ to_current = SECONDARY_OFFSET + Len(out)
    /\ Outside

(* A size is returned, and an upgrade requested, only for a finished patch.*)
Granted ==
  /\ pc = "done" /\ ret > 0 => res = -DETOOLS_ALREADY_DONE
  /\ step = "reboot" => pc = "done" /\ ret > 0

CheckInv ==
  /\ IInv /\ FlashInv /\ CallTypeOK
  /\ Prepared /\ Processing /\ FailureKnown /\ InTouch /\ AllAccepted /\ Granted

-----------------------------------------------------------------------------
(* The offsets of the layout, without its alignment.                       *)
LEMMA OffsetsTyped ==
  /\ PRIMARY_OFFSET \in Nat /\ SECONDARY_OFFSET \in Nat
  /\ STORAGE_OFFSET \in Nat /\ HEADER_SIZE \in Nat
BY LayoutAssumption

-----------------------------------------------------------------------------
(* The boot finds every byte outside of the slot as it was.                *)
LEMMA BootOutside ==
  ASSUME FlashInit
  PROVE  Outside
<1>1. PICK blank \in SUBSET {PageStart(b) : b \in Slot1} :
        cells = [a \in Addr |-> IF PageStart(a) \in blank THEN "erased" ELSE "old"]
  BY DEF FlashInit
<1>2. ASSUME NEW a \in Addr, a \notin Slot1, NEW b \in Slot1, PageStart(a) = PageStart(b)
      PROVE  FALSE
  <2>1. a \in Int /\ a % PAGE_SIZE \in 0 .. PAGE_SIZE - 1
    BY DivMod, LayoutAssumption DEF Addr
  <2>2. a \in PageStart(a) .. PageStart(a) + PAGE_SIZE - 1
    BY <2>1, LayoutAssumption DEF PageStart
  <2>3. a \in Page(b)
    BY <1>2, <2>2 DEF Page
  <2> QED
    BY <1>2, <2>3, PageInSlot
<1>3. ASSUME NEW a \in Addr \ Slot1
      PROVE  cells[a] = "old"
  BY <1>1, <1>2
<1> QED
  BY <1>3 DEF Outside

LEMMA CheckInitKeeps ==
  ASSUME CheckInit
  PROVE  CheckInv
<1>1. IInv /\ FlashInv /\ Outside
  BY InitEstablishes, BootKeeps, BootOutside DEF CheckInit
<1>2. CallTypeOK
  BY DEF CheckInit, CallTypeOK
<1>3. Prepared /\ Processing /\ FailureKnown
  BY <1>1 DEF CheckInit, Init, FlashInit, Prepared, Processing, FailureKnown
<1>4. InTouch /\ AllAccepted /\ Granted
  BY DEF CheckInit, Init, InTouch, AllAccepted, Granted
<1> QED
  BY <1>1, <1>2, <1>3, <1>4 DEF CheckInv

LEMMA ReadPatchHeaderKeeps ==
  ASSUME CheckInv, ReadPatchHeader
  PROVE  CheckInv'
<1>1. /\ UNCHANGED vars /\ UNCHANGED flash_vars
      /\ step = "header" /\ step' \in {"init", "returned"}
  BY DEF ReadPatchHeader, Return
<1>2. IInv' /\ FlashInv'
  BY <1>1, StutterStep, FlashStutter DEF CheckInv
<1>3. CallTypeOK'
  <2>1. header' \in {"none", "NEWP", "marked"}
    BY DEF ReadPatchHeader, Return, CheckInv, CallTypeOK
  <2>2. result' \in Int
    BY DEF ReadPatchHeader, Return, CheckInv, CallTypeOK, DELTA_PATCH_HEADER_ERROR
  <2> QED
    BY <1>1, <2>1, <2>2 DEF CallTypeOK
<1>4. Prepared' /\ Processing' /\ FailureKnown' /\ InTouch' /\ AllAccepted' /\ Granted'
  BY <1>1 DEF CheckInv, Prepared, Processing, FailureKnown, InTouch, AllAccepted, Granted, Outside,
     vars, flash_vars, input_vars, target_vars, source_vars
<1> QED
  BY <1>2, <1>3, <1>4 DEF CheckInv

LEMMA InitFlashKeeps ==
  ASSUME CheckInv, InitFlash
  PROVE  CheckInv'
<1>1. PICK r \in Results :
        /\ DeltaInit(r)
        /\ IF r = 0 THEN step' = "apply" /\ UNCHANGED result ELSE Return(r)
  BY DEF InitFlash
<1>2. UNCHANGED vars /\ UNCHANGED header /\ step = "init"
  BY DEF InitFlash
<1>3. IInv' /\ FlashInv'
  BY <1>1, <1>2, StutterStep, InitKeeps DEF CheckInv
<1>4. CallTypeOK'
  <2>1. r \in Int
    BY DEF Results, DELTA_OK, DELTA_SLOT1_OUT_OF_MEMORY, DELTA_READING_PATCH_ERROR,
       DELTA_READING_SOURCE_ERROR, DELTA_WRITING_ERROR, DELTA_SEEKING_ERROR,
       DELTA_CLEARING_ERROR
  <2> QED
    BY <1>1, <1>2, <2>1 DEF CheckInv, CallTypeOK, Return
<1>5. Prepared' /\ Processing' /\ FailureKnown' /\ Granted'
  BY <1>1, <1>2 DEF Return, CheckInv, Prepared, Processing, FailureKnown, Granted, vars, input_vars
<1>6. CASE r = 0
  <2>0. active'
    BY <1>1, <1>6 DEF DeltaInit, DELTA_OK
  <2>1. /\ to_current' = SECONDARY_OFFSET /\ from_current' = PRIMARY_OFFSET
        /\ patch_current' = STORAGE_OFFSET + HEADER_SIZE
        /\ cells' = Erased(cells, SECONDARY_OFFSET)
    BY <1>1, <1>6 DEF DeltaInit, DELTA_OK, DELTA_CLEARING_ERROR
  <2>2. Outside'
    <3>1. Page(SECONDARY_OFFSET) \subseteq Slot1
      <4>1. SECONDARY_OFFSET \in Slot1
        BY SlotAligned
      <4> QED
        BY <4>1, PageInSlot
    <3> QED
      BY <1>2, <2>1, <3>1 DEF CheckInv, Prepared, Outside, Erased
  <2>3. /\ state' = "init" /\ cb_res' = 0 /\ patch_offset' = 0 /\ from_offset' = 0
        /\ to_offset' = 0 /\ Len(out') = 0
    BY <1>2 DEF CheckInv, Prepared, IInv, Exact, vars, input_vars, target_vars, source_vars
  <2> QED
    BY <1>3, <1>4, <1>5, <2>0, <2>1, <2>2, <2>3, LayoutAssumption DEF CheckInv, InTouch, AllAccepted
<1>7. CASE r # 0
  <2>1. step' = "returned"
    BY <1>1, <1>7 DEF Return
  <2> QED
    BY <1>3, <1>4, <1>5, <2>1 DEF CheckInv, InTouch, AllAccepted
<1> QED
  BY <1>6, <1>7

-----------------------------------------------------------------------------
(* What the engine does between two callbacks keeps the two together.      *)
LEMMA ApplyEngineKeeps ==
  ASSUME CheckInv, ApplyEngine
  PROVE  CheckInv'
<1>1. /\ Engine /\ UNCHANGED flash_vars /\ UNCHANGED call_vars /\ step = "apply"
      /\ IInv /\ Processing /\ FailureKnown
  BY DEF ApplyEngine, CheckInv
<1>2. Quiet
  BY <1>1, EngineQuiet
<1>3. IInv' /\ FlashInv'
  BY <1>1, EngineStep, FlashStutter DEF CheckInv
<1>4. CallTypeOK' /\ step' = "apply"
  BY <1>1 DEF CheckInv, CallTypeOK, call_vars
<1>5. Prepared' /\ Processing' /\ FailureKnown' /\ InTouch'
  BY <1>1, <1>2, <1>4 DEF CheckInv, Prepared, InTouch, Quiet, flash_vars
<1>6. AllAccepted'
  BY <1>1, <1>2, <1>4 DEF CheckInv, AllAccepted, Quiet, Outside, flash_vars
<1>7. Granted'
  BY <1>1, <1>4, OnlyDoneGrants DEF Granted
<1> QED
  BY <1>3, <1>4, <1>5, <1>6, <1>7 DEF CheckInv

(* delta_flash_patch_read moves its cursor by what the engine has asked    *)
(* for, or fails; a failure ends the reading, not the update.              *)
LEMMA ApplyPatchReadKeeps ==
  ASSUME CheckInv, NEW r, ApplyPatchRead(r)
  PROVE  CheckInv'
<1>1. /\ PatchRead(r) /\ DeltaFlashPatchRead(ChunkSize, r)
      /\ UNCHANGED call_vars /\ step = "apply"
  BY DEF ApplyPatchRead
<1>2. ChunkSize \in Nat
  BY <1>1, ChunkAssumption DEF CheckInv, IInv, TypeOK, InputTypeOK, ChunkSize, PatchRead, Reading
<1>3. IInv'
  BY <1>1, PatchReadStep DEF CheckInv
<1>4. FlashInv'
  <2>1. FlashTypeOK'
    BY <1>1, <1>2 DEF CheckInv, FlashInv, FlashTypeOK, DeltaFlashPatchRead
  <2> QED
    BY <1>1, <2>1, IdleKeeps DEF CheckInv, DeltaFlashPatchRead
<1>5. CallTypeOK' /\ step' = "apply" /\ pc' # "done"
  BY <1>1 DEF CheckInv, CallTypeOK, call_vars, PatchRead
<1>6. /\ state' = state /\ UNCHANGED << to_offset, from_offset, out >>
      /\ UNCHANGED << cells, from_current, to_current, active >>
      /\ cb_res = 0 /\ pc = "read"
  BY <1>1 DEF PatchRead, Reading, DeltaFlashPatchRead, target_vars, source_vars
<1>7. \/ r = 0 /\ cb_res' = 0 /\ res' = 0 /\ patch_offset' = patch_offset + ChunkSize
      \/ r # 0 /\ cb_res' = -DETOOLS_IO_FAILED /\ res' = res /\ pc' = "read"
  BY <1>1, <1>6 DEF PatchRead
<1>8. Prepared' /\ Processing' /\ FailureKnown' /\ Granted'
  BY <1>1, <1>5, <1>6, <1>7, CallbackQuiet DEF CheckInv, Prepared, Granted, Callback
<1>9. AllAccepted'
  BY <1>1, <1>5, <1>6, <1>7 DEF CheckInv, AllAccepted, GoneWell, Outside, DETOOLS_ALREADY_DONE
<1>10. InTouch'
  <2>1. r = 0 => patch_current' = patch_current + ChunkSize
    BY <1>1 DEF DeltaFlashPatchRead, DELTA_READING_PATCH_ERROR
  <2>2. /\ patch_offset \in Nat /\ patch_current \in Nat
        /\ STORAGE_OFFSET \in Nat /\ HEADER_SIZE \in Nat
    BY OffsetsTyped DEF CheckInv, IInv, TypeOK, InputTypeOK, FlashInv, FlashTypeOK
  <2> QED
    <3> SUFFICES ASSUME state' # "failed"
                 PROVE  InTouch'
      BY DEF InTouch
    <3>1. /\ from_current' = PRIMARY_OFFSET + from_offset'
          /\ to_current' = SECONDARY_OFFSET + to_offset'
          /\ patch_current = STORAGE_OFFSET + HEADER_SIZE + patch_offset
      BY <1>1, <1>6 DEF CheckInv, InTouch
    <3>2. r = 0 => patch_current' = STORAGE_OFFSET + HEADER_SIZE + patch_offset'
      BY <1>2, <1>7, <2>1, <2>2, <3>1
    <3>3. r # 0 => cb_res' # 0
      BY <1>7 DEF DETOOLS_IO_FAILED
    <3> QED
      BY <3>1, <3>2, <3>3 DEF InTouch
<1> QED
  BY <1>3, <1>4, <1>5, <1>8, <1>9, <1>10 DEF CheckInv

(* The two callbacks of the source: delta.c:58-83, 112-129.                *)
LEMMA SourceKeeps ==
  ASSUME CheckInv, IInv', step = "apply", state # "failed", NEW r, OtherCallback(r), Callback(r),
         UNCHANGED << call_vars, to_offset, out, cb_res, patch_offset, pc >>,
         UNCHANGED << cells, to_current, patch_current >>, active' = (r = 0),
         pc # "done",
         \/ r = 0 /\ \E d \in Int : /\ from_current' = from_current + d
                                    /\ from_offset' = from_offset + d
         \/ state' = "failed" /\ res' # -DETOOLS_ALREADY_DONE
  PROVE  CheckInv'
<1>1. active
  BY DEF CheckInv, AllAccepted, GoneWell
<1>2. FlashInv'
  BY <1>1, CallbackKeeps DEF CheckInv
<1>3. CallTypeOK' /\ step' = "apply"
  BY DEF CheckInv, CallTypeOK, call_vars
<1>4. Prepared' /\ Processing' /\ FailureKnown' /\ Granted'
  BY <1>3, CallbackQuiet DEF CheckInv, Prepared, Granted
<1>5. AllAccepted'
  BY <1>3 DEF CheckInv, AllAccepted, GoneWell, Outside
<1>6. InTouch'
  <2>1. /\ from_current \in Int /\ from_offset \in Int
        /\ PRIMARY_OFFSET \in Int
    BY OffsetsTyped DEF CheckInv, IInv, TypeOK, SourceTypeOK, FlashInv, FlashTypeOK
  <2>2. CASE state' = "failed"
    BY <2>2 DEF InTouch
  <2>3. CASE state' # "failed"
    BY <1>3, <2>1, <2>3 DEF CheckInv, InTouch
  <2> QED
    BY <2>2, <2>3
<1> QED
  BY <1>2, <1>3, <1>4, <1>5, <1>6 DEF CheckInv

LEMMA ApplyFromReadKeeps ==
  ASSUME CheckInv, NEW r, ApplyFromRead(r)
  PROVE  CheckInv'
<1>1. /\ FromRead(r) /\ DeltaFlashFromRead(Len(buf), r)
      /\ UNCHANGED call_vars /\ step = "apply"
  BY DEF ApplyFromRead
<1>2. Len(buf) \in Nat /\ from_offset \in Int /\ from_current \in Int
  BY DEF CheckInv, IInv, TypeOK, SourceTypeOK, FlashInv, FlashTypeOK
<1>3. IInv' /\ OtherCallback(r) /\ Callback(r)
  BY <1>1, <1>2, FromReadStep DEF CheckInv, OtherCallback, Callback
<1>4. state # "failed" /\ pc # "done"
  BY <1>1 DEF FromRead, CheckInv, IInv, Phases
<1>5. /\ UNCHANGED << to_offset, out, cb_res, patch_offset, pc >>
      /\ UNCHANGED << cells, to_current, patch_current >>
  BY <1>1 DEF FromRead, DeltaFlashFromRead, input_vars, target_vars
<1>6. active' = (r = 0)
  BY <1>1 DEF DeltaFlashFromRead, DELTA_OK
<1>7. CASE r = 0
  <2>1. from_current' = from_current + Len(buf)
    BY <1>1, <1>7 DEF DeltaFlashFromRead, DELTA_READING_SOURCE_ERROR
  <2>2. from_offset' = from_offset + Len(buf)
    BY <1>1, <1>7 DEF FromRead
  <2>3. \E d \in Int : from_current' = from_current + d /\ from_offset' = from_offset + d
    BY <1>2, <2>1, <2>2
  <2> QED
    BY <1>1, <1>3, <1>4, <1>5, <1>6, <1>7, <2>3, SourceKeeps
<1>8. CASE r # 0
  <2>1. state' = "failed" /\ res' # -DETOOLS_ALREADY_DONE
    BY <1>1, <1>8 DEF FromRead, Failed, DETOOLS_IO_FAILED, DETOOLS_ALREADY_DONE
  <2> QED
    BY <1>1, <1>3, <1>4, <1>5, <1>6, <2>1, SourceKeeps
<1> QED
  BY <1>7, <1>8

LEMMA ApplyFromSeekKeeps ==
  ASSUME CheckInv, NEW r, ApplyFromSeek(r)
  PROVE  CheckInv'
<1>1. /\ FromSeek(r) /\ DeltaFlashSeek(seek, r)
      /\ UNCHANGED call_vars /\ step = "apply"
  BY DEF ApplyFromSeek
<1>2. seek \in Int /\ from_offset \in Int /\ from_current \in Int
  BY DEF CheckInv, IInv, TypeOK, SourceTypeOK, FlashInv, FlashTypeOK
<1>3. IInv' /\ OtherCallback(r) /\ Callback(r)
  BY <1>1, <1>2, FromSeekStep DEF CheckInv, OtherCallback, Callback
<1>4. state # "failed" /\ pc # "done"
  BY <1>1 DEF FromSeek, CheckInv, IInv, Phases
<1>5. /\ UNCHANGED << to_offset, out, cb_res, patch_offset, pc >>
      /\ UNCHANGED << cells, to_current, patch_current >>
  BY <1>1 DEF FromSeek, DeltaFlashSeek, input_vars, target_vars
<1>6. active' = (r = 0)
  BY <1>1 DEF DeltaFlashSeek, DELTA_OK
<1>7. CASE r = 0
  <2>1. from_current' = from_current + seek
    BY <1>1 DEF DeltaFlashSeek, Sought
  <2>2. from_offset' = from_offset + seek
    BY <1>1, <1>7 DEF FromSeek
  <2>3. \E d \in Int : from_current' = from_current + d /\ from_offset' = from_offset + d
    BY <1>2, <2>1, <2>2
  <2> QED
    BY <1>1, <1>3, <1>4, <1>5, <1>6, <1>7, <2>3, SourceKeeps
<1>8. CASE r # 0
  <2>1. state' = "failed" /\ res' # -DETOOLS_ALREADY_DONE
    BY <1>1, <1>8 DEF FromSeek, Failed, DETOOLS_IO_FAILED, DETOOLS_ALREADY_DONE
  <2> QED
    BY <1>1, <1>3, <1>4, <1>5, <1>6, <2>1, SourceKeeps
<1> QED
  BY <1>7, <1>8

(* A write that is accepted is one of bytes the engine counts, inside of   *)
(* the slot (delta.c:26-56, detools.c:528-538).                            *)
LEMMA ApplyToWriteKeeps ==
  ASSUME CheckInv, NEW r, ApplyToWrite(r)
  PROVE  CheckInv'
<1> DEFINE n == Len(buf)
<1>1. /\ ToWrite(r) /\ DeltaFlashWrite(n, r)
      /\ UNCHANGED call_vars /\ step = "apply"
  BY DEF ApplyToWrite
<1>2. /\ state # "failed" /\ pc # "done" /\ n \in 1 .. TO_BUF
      /\ out \in Seq(Byte) /\ buf \in Seq(Byte) /\ to_offset \in Nat
  <2>1. state # "failed" /\ pc # "done" /\ 0 < n
    BY <1>1 DEF ToWrite, CheckInv, IInv, Phases, DataStates
  <2>2. n <= TO_BUF /\ n \in Nat /\ TO_BUF \in Nat
    BY ChunkAssumption DEF CheckInv, IInv, TypeOK, SourceTypeOK
  <2>3. out \in Seq(Byte) /\ buf \in Seq(Byte) /\ to_offset \in Nat
    BY DEF CheckInv, IInv, TypeOK, SourceTypeOK, TargetTypeOK
  <2> HIDE DEF n
  <2> QED
    BY <2>1, <2>2, <2>3
<1>3. /\ active /\ Outside /\ to_current = SECONDARY_OFFSET + Len(out)
      /\ to_current = SECONDARY_OFFSET + to_offset
  BY <1>1, <1>2 DEF CheckInv, AllAccepted, GoneWell, InTouch
<1>4. IInv' /\ FlashInv'
  BY <1>1, <1>2, <1>3, ToWriteStep, WriteKeeps DEF CheckInv
<1>5. CallTypeOK' /\ step' = "apply"
  BY <1>1 DEF CheckInv, CallTypeOK, call_vars
<1>6. UNCHANGED << cb_res, patch_offset, from_offset, pc, patch_current, from_current >>
  BY <1>1 DEF ToWrite, DeltaFlashWrite, input_vars
<1>7. Prepared' /\ Processing' /\ FailureKnown' /\ Granted'
  BY <1>1, <1>2, <1>5, <1>6, CallbackQuiet DEF CheckInv, Prepared, Granted, Callback
<1>8. CASE r = 0
  <2>1. active'
    BY <1>1, <1>8 DEF DeltaFlashWrite, DELTA_OK
  <2>2. /\ to_current' = to_current + n
        /\ \A a \in Addr \ Slot1 : cells'[a] = cells[a]
    BY <1>1, <1>2, <1>3, <2>1, WriteStaysInSlot DEF CheckInv, FlashInv
  <2>3. to_offset' = to_offset + n /\ out' = out \o buf /\ state' = state
    BY <1>1, <1>8 DEF ToWrite, Goto
  <2>4. Len(out') = Len(out) + n /\ Len(out) \in Nat /\ n \in Nat
    BY <1>2, <2>3
  <2>5. Outside'
    BY <1>3, <2>2 DEF Outside
  <2>6. /\ to_current' = SECONDARY_OFFSET + Len(out')
        /\ to_current' = SECONDARY_OFFSET + to_offset'
    <3>1. \A s, l, k \in Nat : (s + l) + k = s + (l + k)
      OBVIOUS
    <3>2. to_current' = (SECONDARY_OFFSET + Len(out)) + n
      BY <1>3, <2>2
    <3>3. to_current' = (SECONDARY_OFFSET + to_offset) + n
      BY <1>3, <2>2
    <3> HIDE DEF n
    <3>4. to_current' = SECONDARY_OFFSET + (Len(out) + n)
      BY <2>4, <3>1, <3>2, OffsetsTyped
    <3>5. to_current' = SECONDARY_OFFSET + (to_offset + n)
      BY <1>2, <2>4, <3>1, <3>3, OffsetsTyped
    <3> QED
      BY <2>3, <2>4, <3>4, <3>5
  <2>7. AllAccepted'
    BY <2>1, <2>5, <2>6 DEF AllAccepted
  <2>8. InTouch'
    BY <1>1, <1>2, <1>6, <2>6 DEF CheckInv, InTouch
  <2> QED
    BY <1>4, <1>5, <1>7, <2>7, <2>8 DEF CheckInv
<1>9. CASE r # 0
  <2>1. state' = "failed" /\ res' # -DETOOLS_ALREADY_DONE
    BY <1>1, <1>9 DEF ToWrite, Failed, DETOOLS_IO_FAILED, DETOOLS_ALREADY_DONE
  <2>2. AllAccepted' /\ InTouch'
    BY <2>1 DEF AllAccepted, GoneWell, InTouch
  <2> QED
    BY <1>4, <1>5, <1>7, <2>2 DEF CheckInv
<1> QED
  BY <1>8, <1>9

(* The upgrade is requested for a size, which is that of a finished patch. *)
LEMMA RequestUpgradeKeeps ==
  ASSUME CheckInv, RequestUpgrade
  PROVE  CheckInv'
<1>1. /\ UNCHANGED vars /\ UNCHANGED flash_vars /\ header' = header
      /\ step = "apply" /\ pc = "done" /\ ret \in Int
      /\ \/ step' = "returned" /\ result' \in {ret, -1}
         \/ ret > 0 /\ step' = "reboot" /\ result' = result
  BY DEF RequestUpgrade, Return, Upgradable, CheckInv, IInv, TypeOK, InputTypeOK
<1>2. IInv' /\ FlashInv'
  BY <1>1, StutterStep, FlashStutter DEF CheckInv
<1>3. CallTypeOK'
  BY <1>1 DEF CheckInv, CallTypeOK
<1>4. Prepared' /\ Processing' /\ FailureKnown' /\ InTouch' /\ Granted'
  BY <1>1 DEF CheckInv, Prepared, Processing, FailureKnown, InTouch, Granted, vars, input_vars
<1>5. AllAccepted'
  BY <1>1 DEF CheckInv, AllAccepted, GoneWell, Outside, vars, flash_vars, target_vars
<1> QED
  BY <1>2, <1>3, <1>4, <1>5 DEF CheckInv

LEMMA CheckStutter ==
  ASSUME CheckInv, UNCHANGED check_vars
  PROVE  CheckInv'
<1>1. UNCHANGED vars /\ UNCHANGED flash_vars /\ UNCHANGED call_vars
  BY DEF check_vars
<1>2. IInv' /\ FlashInv'
  BY <1>1, StutterStep, FlashStutter DEF CheckInv
<1>3. CallTypeOK'
  BY <1>1 DEF CheckInv, CallTypeOK, call_vars
<1>4. Prepared' /\ Processing' /\ FailureKnown' /\ InTouch' /\ Granted'
  BY <1>1 DEF CheckInv, Prepared, Processing, FailureKnown, InTouch, Granted, Outside,
     vars, flash_vars, call_vars, input_vars, target_vars, source_vars
<1>5. AllAccepted'
  BY <1>1 DEF CheckInv, AllAccepted, GoneWell, Outside, vars, flash_vars, call_vars, target_vars
<1> QED
  BY <1>2, <1>3, <1>4, <1>5 DEF CheckInv

LEMMA CheckStep ==
  ASSUME CheckInv, [CheckNext]_check_vars
  PROVE  CheckInv'
BY ReadPatchHeaderKeeps, InitFlashKeeps, ApplyEngineKeeps, ApplyPatchReadKeeps,
   ApplyFromReadKeeps, ApplyFromSeekKeeps, ApplyToWriteKeeps, RequestUpgradeKeeps,
   CheckStutter DEF CheckNext

LEMMA CheckInvariance == CheckSpec => []CheckInv
BY CheckInitKeeps, CheckStep, PTL DEF CheckSpec

-----------------------------------------------------------------------------
(***************************************************************************)
(* The types of a whole call, engine and flash port included.              *)
(***************************************************************************)
THEOREM CheckTypeCorrect == CheckSpec => []CheckTypeOK
<1>1. CheckInv => CheckTypeOK
  BY DEF CheckInv, IInv, FlashInv, CallTypeOK, CheckTypeOK
<1> QED
  BY <1>1, CheckInvariance, PTL

(***************************************************************************)
(* Until the engine has failed, the cursors of source and target are where *)
(* it believes them to be, and that of the patch until it cannot be read,  *)
(* for every patch and every layout                                        *)
(* (delta.c:26-129, detools.c:489-586, 812-836).                           *)
(***************************************************************************)
THEOREM CursorsAlwaysAgree == CheckSpec => []CursorsAgree
<1>1. CheckInv => CursorsAgree
  BY DEF CheckInv, InTouch, CursorsAgree
<1> QED
  BY <1>1, CheckInvariance, PTL

(***************************************************************************)
(* When the upgrade is requested, the announced target is in the slot, and *)
(* all of it reads back as written if the page counter stayed in step      *)
(* (delta.c:189-201).                                                      *)
(***************************************************************************)
THEOREM UpgradesAreWhole == CheckSpec => []UpgradeIsWhole
<1>1. CheckInv => UpgradeIsWhole
  <2> SUFFICES ASSUME CheckInv, step = "reboot"
               PROVE  /\ Len(out) = patch.to_size /\ to_current = SECONDARY_OFFSET + Len(out)
                      /\ \A a \in Addr \ Slot1 : cells[a] = "old"
                      /\ drift = 0 => \A a \in InSlot1 : cells[a] = "new"
    BY DEF UpgradeIsWhole
  <2>1. pc = "done" /\ ret > 0 /\ GoneWell /\ IInv
    BY DEF CheckInv, Granted, GoneWell
  <2>2. active /\ to_current = SECONDARY_OFFSET + Len(out) /\ Outside
    BY <2>1 DEF CheckInv, AllAccepted
  <2>3. ret = patch.to_size /\ Len(out) = ret
    BY <2>1 DEF IInv, Exact, SuccessIsExact, TypeOK, InputTypeOK
  <2>4. drift = 0 => \A a \in SECONDARY_OFFSET .. to_current - 1 : cells[a] = "new"
    BY <2>2 DEF CheckInv, FlashInv, InStepIntact
  <2>5. InSlot1 = SECONDARY_OFFSET .. to_current - 1
    <3>1. Len(out) \in Nat
      BY DEF CheckInv, IInv, TypeOK, TargetTypeOK
    <3> QED
      BY <2>2, <3>1, OffsetsTyped DEF InSlot1
  <2> QED
    BY <2>2, <2>3, <2>4, <2>5 DEF Outside
<1> QED
  BY <1>1, CheckInvariance, PTL

-----------------------------------------------------------------------------
(* The call runs the engine as ApplyPatch has it: what is proved of the    *)
(* engine alone holds inside of the call.                                  *)

(* An error of delta.c is any error to the engine.                         *)
LEMMA AnyErrorIsOne ==
  ASSUME NEW r, Callback(r)
  PROVE  \E a \in {0, -1} : Callback(a)
<1>1. CASE r = 0
  BY <1>1
<1>2. CASE r # 0
  <2>1. -1 # 0
    OBVIOUS
  <2>2. PatchRead(r) => PatchRead(-1)
    BY <1>2, <2>1 DEF PatchRead
  <2>3. FromRead(r) => FromRead(-1)
    BY <1>2, <2>1 DEF FromRead
  <2>4. FromSeek(r) => FromSeek(-1)
    BY <1>2, <2>1 DEF FromSeek
  <2>5. ToWrite(r) => ToWrite(-1)
    BY <1>2, <2>1 DEF ToWrite
  <2> QED
    BY <2>2, <2>3, <2>4, <2>5 DEF Callback
<1> QED
  BY <1>1, <1>2

LEMMA EngineOrNothing ==
  ASSUME [CheckNext]_check_vars
  PROVE  [Next]_vars
<1>1. ASSUME NEW r \in Results,
             ApplyPatchRead(r) \/ ApplyFromRead(r) \/ ApplyFromSeek(r) \/ ApplyToWrite(r)
      PROVE  Next
  <2>1. Callback(r)
    BY <1>1 DEF ApplyPatchRead, ApplyFromRead, ApplyFromSeek, ApplyToWrite, Callback
  <2> QED
    BY <2>1, AnyErrorIsOne DEF Next
<1>2. ReadPatchHeader \/ InitFlash \/ RequestUpgrade => UNCHANGED vars
  BY DEF ReadPatchHeader, InitFlash, RequestUpgrade
<1>3. ApplyEngine => Next
  BY DEF ApplyEngine, Next
<1>4. UNCHANGED check_vars => UNCHANGED vars
  BY DEF check_vars
<1> QED
  BY <1>1, <1>2, <1>3, <1>4 DEF CheckNext

(***************************************************************************)
(* Every run of delta_check_and_apply runs the engine as its caller may:   *)
(* from its initial state, and with callbacks that answer zero or not      *)
(* (delta.c:189-194, detools.c:802-860).                                   *)
(***************************************************************************)
THEOREM CallUsesEngine == CheckSpec => Spec
<1>1. CheckInit => Init
  BY DEF CheckInit
<1>2. [CheckNext]_check_vars => [Next]_vars
  BY EngineOrNothing
<1> QED
  BY <1>1, <1>2, PTL DEF CheckSpec, Spec

(***************************************************************************)
(* When the upgrade is requested, what was written to the slot is byte for *)
(* byte what the patch means, though it was read in chunks, decompressed   *)
(* in pieces and written in buffers (delta.c:195-201).                     *)
(***************************************************************************)
THEOREM UpgradesAreMeant == CheckSpec => []UpgradeIsMeant
<1>1. CheckInv /\ MatchesReference => UpgradeIsMeant
  <2> SUFFICES ASSUME CheckInv, MatchesReference, step = "reboot"
               PROVE  LET a == Reference(patch, patch_size) IN ret = a.ret /\ out = a.out
    BY DEF UpgradeIsMeant
  <2>1. pc = "done" /\ ret > 0
    BY DEF CheckInv, Granted
  <2>2. ret # -DETOOLS_IO_FAILED
    BY <2>1 DEF DETOOLS_IO_FAILED
  <2> QED
    BY <2>1, <2>2 DEF MatchesReference
<1> QED
  BY <1>1, CheckInvariance, CallUsesEngine, AnswersMatch, PTL

-----------------------------------------------------------------------------
(* How each step of the call looks to the rest of the device.              *)
USE DEF Contract!ContractNext, Contract!contract_vars, Contract!MarkPatch,
        Contract!WriteTarget, Contract!Complete, Contract!RequestUpgrade,
        Contract!NothingToDo, Contract!ReturnError

Allowed == Contract!ContractNext \/ UNCHANGED Contract!contract_vars

LEMMA StatusOfStep ==
  ASSUME CallTypeOK
  PROVE  /\ step = "header" => StatusNow = "called"
         /\ step \in {"init", "apply"} => StatusNow = "working"
         /\ step = "reboot" => StatusNow = "requested"
         /\ step = "returned" /\ result = 0 => StatusNow = "zero"
         /\ step = "returned" /\ result # 0 => StatusNow = "error"
BY DEF CallTypeOK, StatusNow

LEMMA ReadPatchHeaderAllowed ==
  ASSUME CheckInv, CheckInv', ReadPatchHeader
  PROVE  Allowed
<1>1. SlotNow' = SlotNow /\ StatusNow = "called"
  BY StatusOfStep DEF ReadPatchHeader, SlotNow, vars, flash_vars, target_vars, CheckInv
<1>2. /\ step' = "init" => StatusNow' = "working"
      /\ step' = "returned" /\ result' = 0 => StatusNow' = "zero"
      /\ step' = "returned" /\ result' # 0 => StatusNow' = "error"
  BY DEF StatusNow
<1> QED
  BY <1>1, <1>2 DEF ReadPatchHeader, Return, Allowed, DELTA_PATCH_HEADER_ERROR

LEMMA InitFlashAllowed ==
  ASSUME CheckInv, CheckInv', InitFlash
  PROVE  Allowed
<1>1. PICK r \in Results :
        IF r = 0 THEN step' = "apply" /\ UNCHANGED result ELSE Return(r)
  BY DEF InitFlash
<1>2. header' = header /\ StatusNow = "working" /\ SlotNow = "kept"
      /\ ~(to_size' > 0)
  BY StatusOfStep DEF InitFlash, CheckInv, Prepared, SlotNow, vars, target_vars
<1>3. SlotNow' \in {"kept", "partial"}
  BY <1>2 DEF SlotNow
<1>4. StatusNow' \in {"working", "error"}
  BY <1>1 DEF StatusNow, Return
<1> QED
  BY <1>2, <1>3, <1>4 DEF Allowed

(* While the engine runs, the target only grows.                           *)
LEMMA ApplyAllowed ==
  ASSUME CheckInv, UNCHANGED call_vars, step = "apply",
         to_current' = 0 => to_current = 0
  PROVE  Allowed
<1>1. header' = header /\ StatusNow = "working" /\ StatusNow' = "working"
  BY DEF call_vars, StatusNow
<1>2. SlotNow' \in {"partial", "written"} \/ SlotNow' = SlotNow
  BY DEF SlotNow
<1> QED
  BY <1>1, <1>2 DEF Allowed

LEMMA EngineAllowed ==
  ASSUME CheckInv, NEW r,
         ApplyEngine \/ ApplyPatchRead(r) \/ ApplyFromRead(r) \/ ApplyFromSeek(r) \/ ApplyToWrite(r)
  PROVE  Allowed
<1>1. UNCHANGED call_vars /\ step = "apply"
  BY DEF ApplyEngine, ApplyPatchRead, ApplyFromRead, ApplyFromSeek, ApplyToWrite
<1>2. to_current' = to_current \/ ApplyToWrite(r)
  BY DEF ApplyEngine, ApplyPatchRead, ApplyFromRead, ApplyFromSeek,
     DeltaFlashPatchRead, DeltaFlashFromRead, DeltaFlashSeek, flash_vars
<1>3. ApplyToWrite(r) => to_current' \in {to_current, to_current + Len(buf)}
  BY DEF ApplyToWrite, DeltaFlashWrite
<1>4. to_current \in Nat /\ Len(buf) \in Nat
  BY DEF CheckInv, FlashInv, FlashTypeOK, IInv, TypeOK, SourceTypeOK
<1>5. to_current' = 0 => to_current = 0
  BY <1>2, <1>3, <1>4
<1> QED
  BY <1>1, <1>5, ApplyAllowed

(* The upgrade is requested when all of the target is in the slot.         *)
LEMMA RequestAllowed ==
  ASSUME CheckInv, RequestUpgrade
  PROVE  Allowed
<1>1. /\ SlotNow' = SlotNow /\ header' = header /\ StatusNow = "working"
      /\ pc = "done" /\ step = "apply" /\ ret \in Int
      /\ \/ step' = "returned"
         \/ step' = "reboot" /\ ret > 0
  BY StatusOfStep DEF RequestUpgrade, Return, Upgradable, SlotNow, vars, flash_vars,
     target_vars, CheckInv, IInv, TypeOK, InputTypeOK
<1>2. /\ step' = "reboot" => StatusNow' = "requested"
      /\ step' = "returned" => StatusNow' \in {"zero", "error"}
  BY DEF StatusNow
<1>3. ASSUME ret > 0
      PROVE  SlotNow = "written"
  <2>1. res = -DETOOLS_ALREADY_DONE /\ GoneWell
    BY <1>1, <1>3 DEF CheckInv, Granted, GoneWell
  <2>2. /\ to_size = patch.to_size /\ Len(out) = to_size /\ ret = patch.to_size
        /\ to_current = SECONDARY_OFFSET + Len(out)
    BY <1>1, <1>3, <2>1 DEF CheckInv, AllAccepted, IInv, Exact, SuccessIsExact
  <2>3. to_size > 0 /\ Len(out) = to_size /\ to_current # 0
    BY <1>1, <1>3, <2>2, OffsetsTyped
  <2> QED
    BY <2>3 DEF SlotNow
<1> QED
  BY <1>1, <1>2, <1>3 DEF Allowed

LEMMA StutterAllowed ==
  ASSUME UNCHANGED check_vars
  PROVE  Allowed
BY DEF Allowed, check_vars, call_vars, vars, flash_vars, target_vars, SlotNow, StatusNow

HIDE DEF Contract!ContractNext, Contract!contract_vars, Contract!MarkPatch,
         Contract!WriteTarget, Contract!Complete, Contract!RequestUpgrade,
         Contract!NothingToDo, Contract!ReturnError

(***************************************************************************)
(* The call keeps its contract: the patch is marked before the slot is     *)
(* touched, and an upgrade is requested only once all of the target has    *)
(* been written (delta.c:175-230).                                         *)
(***************************************************************************)
THEOREM CallKeepsContract == CheckSpec => ImplementsContract
<1>1. CheckInit => Contract!ContractInit
  <2> SUFFICES ASSUME CheckInit
               PROVE  Contract!ContractInit
    OBVIOUS
  <2>1. SlotNow = "kept" /\ StatusNow = "called" /\ header \in {"none", "NEWP", "marked"}
    BY DEF CheckInit, FlashInit, SlotNow, StatusNow
  <2> QED
    BY <2>1 DEF Contract!ContractInit, Contract!Headers
<1>2. CheckInv /\ CheckInv' /\ [CheckNext]_check_vars
        => [Contract!ContractNext]_(Contract!contract_vars)
  <2> SUFFICES ASSUME CheckInv, CheckInv', [CheckNext]_check_vars
               PROVE  Allowed
    BY DEF Allowed
  <2> QED
    BY ReadPatchHeaderAllowed, InitFlashAllowed, EngineAllowed, RequestAllowed,
       StutterAllowed DEF CheckNext
<1> QED
  BY <1>1, <1>2, CheckInvariance, PTL
     DEF CheckSpec, ImplementsContract, Contract!ContractSpec

=============================================================================
