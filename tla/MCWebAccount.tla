---------------------------- MODULE MCWebAccount ----------------------------
(* WebAccount on small instances. *)
EXTENDS WebAccount, TLC

Symmetry == Permutations(Workers)
=============================================================================
