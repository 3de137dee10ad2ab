---------------------------- MODULE AccountWork ----------------------------
(***************************************************************************)
(* What the one-run-at-a-time rule promises an account: it has at most one *)
(* piece of work.  Work begins as a start request, may become a run of the *)
(* requested project, and ends; a run never appears without its request.   *)
(* WebAccount, with its routes, workers and locks, implements this.        *)
(***************************************************************************)
CONSTANTS
  Requests,       \* start requests
  Projects,       \* projects, one run each
  ProjectOf(_),   \* the project a request is for
  NoWork

VARIABLE work     \* the start request or the run (named by its project) under way

Init == work = NoWork

\* add_start_request found nothing else under way.
Ask == work = NoWork /\ work' \in Requests

\* create_run_for_request: the request and the run change places in one save.
Begin == work \in Requests /\ work' = ProjectOf(work)

\* The request failed or was cancelled, or the run ended.
End == work # NoWork /\ work' = NoWork

Next == Ask \/ Begin \/ End

Spec == Init /\ [][Next]_work
=============================================================================
