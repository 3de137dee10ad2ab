--------------------------- MODULE MCFileDeletions ---------------------------
(* FileDeletions on small instances. *)
EXTENDS FileDeletions, TLC

Symmetry == Permutations(Workers) \cup Permutations(Runs)
=============================================================================
