---------------------------- MODULE MCReworkCycle ----------------------------
(* ReworkCycle on forms of a section and a table, one of them in a bundle. *)
EXTENDS ReworkCycle, TLC

CONSTANTS s1, t1, b1

TheKind == s1 :> "section" @@ t1 :> "table"
TheForms == {s1 :> b1 @@ t1 :> Absent, s1 :> Absent @@ t1 :> b1}
=============================================================================
