--------------------------- MODULE MCResumePatch ---------------------------
(***************************************************************************)
(* Patches of three and more chunks, dumped and crashed anywhere.          *)
(***************************************************************************)
EXTENDS ResumePatch, MCApplyPatch

Resumable ==
  {p \in HandMade : p.plain \in {TwoRounds, LongSizes, Trailing, PastSource}
                    /\ p.type = 0 /\ p.heatshrink = 68 /\ p.head_len < 6}
=============================================================================
