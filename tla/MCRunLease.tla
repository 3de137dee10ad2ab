----------------------------- MODULE MCRunLease -----------------------------
(* RunLease on small instances; a run must find its user, so workers are not *)
(* interchangeable here: symmetry is unsound for liveness.                   *)
EXTENDS RunLease
=============================================================================
