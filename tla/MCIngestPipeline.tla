------------------------- MODULE MCIngestPipeline -------------------------
(* Small instances of IngestPipeline for TLC.                              *)
EXTENDS IngestPipeline, TLC

CONSTANTS b1, b2, b3, s1, s2

\* b1 and b2 are successive batches of one session, b3 belongs to another.
MCSessionOf == [b \in Batches |-> IF b = b3 THEN s2 ELSE s1]
MCSize == [b \in Batches |-> IF b = b1 THEN 2 ELSE 1]

MCSymmetry == Permutations(Workers) \cup Permutations(Retriers)
=============================================================================
