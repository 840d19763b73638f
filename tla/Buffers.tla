------------------------------ MODULE Buffers ------------------------------
(***************************************************************************)
(* The two buffers detools.c keeps on its stack, which bound what one call *)
(* of a callback or of the patch reader is handed.                         *)
(***************************************************************************)
EXTENDS Integers

CONSTANTS
  CHUNK_BUF,  \* bytes of patch read at once (512)
  TO_BUF      \* bytes of the largest buffer the engine has filled (128)

ASSUME ChunkAssumption == CHUNK_BUF \in Nat \ {0} /\ TO_BUF \in Nat \ {0}

=============================================================================
