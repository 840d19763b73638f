--------------------------- MODULE MCPatchReader ---------------------------
(***************************************************************************)
(* The build's own configuration of the decoder, window 8 and lookahead 7, *)
(* on short streams, in chunks of up to three bytes.                       *)
(***************************************************************************)
EXTENDS PatchReader, MCHeatshrink

BuildStreams ==
  {Packed(<< A, B, Ref(2, 5), A >>, 0),
   Packed(<< Ref(3, 2), B, Ref(1, 4) >>, 0),
   Packed(<< A, B, B >>, 1),
   Packed(<< A, Ref(1, 127), B, Ref(129, 128), Ref(256, 4) >>, 0)}
=============================================================================
