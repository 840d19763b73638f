---------------------------- MODULE MCDeltaFlash ----------------------------
(***************************************************************************)
(* A flash of eight 4-byte pages: one below the slots (the bootloader),    *)
(* one of primary slot, three of secondary slot, one behind it (the        *)
(* scratch area of the board's layout) and two of patch partition; two     *)
(* bytes of header.  Buffers of 1, 2 or 3 bytes stand for 1..128.          *)
(***************************************************************************)
EXTENDS DeltaFlash
=============================================================================
