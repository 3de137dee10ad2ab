--------------------------- MODULE MCNoticeImport ---------------------------
(* NoticeImport on small instances. *)
EXTENDS NoticeImport, TLC

Symmetry == Permutations(Listed)

\* Bound: a snapshot of Bizinfo has all its announcements or only this one, which is
\* too few after a full one.
Lone == CHOOSE n \in Others : TRUE
FewSnapshots == \A i \in 1..Len(raw) : raw[i].ids \in {Others, {Lone}}
=============================================================================
