---------------------------- MODULE MCDeltaCheck ----------------------------
(***************************************************************************)
(* Pages of four bytes: one of bootloader, three of primary slot, four of  *)
(* secondary slot, one behind it and eight of patch partition.  As on the  *)
(* device, a buffer divides a page, but chunks, sections and the decoder's *)
(* lag cut buffers short.                                                  *)
(***************************************************************************)
EXTENDS DeltaCheck

(* Offsets of the source are relative to the primary slot; all of the      *)
(* flash can be read.                                                      *)
MCFrom == [i \in -4 .. 63 |-> (7 * i) % 256]

Even(n) == [j \in 1 .. n |-> j]
Lagging(n) == [j \in 1 .. n |-> IF j = n THEN n ELSE 2 * (j \div 2)]
(* Some of a burst is left in the decoder when a chunk ends.               *)
Bursts(n) == [j \in 1 .. n |-> IF j = n THEN n ELSE 3 * (j \div 3)]

Patched(target, upto, plain) ==
  [type |-> 0, to_size |-> target, head_len |-> 2, heatshrink |-> 68,
   upto |-> upto, plain |-> plain]

(* Two pages in whole buffers, source unused;                              *)
Straight == << 0, 0, 8, 1, 2, 3, 4, 5, 6, 7, 8, 0 >>
(* thirteen bytes in odd sections, as bsdiff makes them;                   *)
OddSections == << 0, 1, 9, 4, 1, 2, 3, 4, 0, 1, 9, 4, 5, 6, 7, 8, 65,
                  1, 9, 2, 1, 2, 0 >>
(* a seek back, so that the source is read twice;                          *)
SeekBack == << 0, 4, 1, 2, 3, 4, 0, 66, 2, 5, 6, 0, 0 >>
(* a target that fills the slot; a source read to its last byte.           *)
FillsSlot == << 0, 0, 16, 1, 2, 3, 4, 5, 6, 7, 8, 9, 1, 2, 3, 4, 5, 6, 7, 0 >>
WholeSource == << 0, 12, 1, 2, 3, 4, 5, 6, 7, 8, 9, 1, 2, 3, 0, 0 >>

MCPatches ==
  {Patched(8, Even(12), Straight), Patched(8, Lagging(12), Straight),
   Patched(13, Even(23), OddSections), Patched(13, Lagging(23), OddSections),
   Patched(8, Bursts(12), Straight),
   Patched(6, Even(13), SeekBack), Patched(6, Bursts(13), SeekBack),
   Patched(16, Even(20), FillsSlot), Patched(12, Even(16), WholeSource),
   Patched(0, << >>, << >>)}
=============================================================================
