--------------------------- MODULE StartRequests ---------------------------
(***************************************************************************)
(* The start requests of one account (table orch_start_requests), the runs *)
(* they become and the account lock, as the store of the orchestrator      *)
(* keeps them, and the worker threads that turn a request into a run       *)
(* (worker.py run_once, service.py run_start_request).  Every action of a  *)
(* worker is one transaction or one piece of work between two of them.     *)
(* The web's side of the same tables is in WebAccount.                     *)
(***************************************************************************)
EXTENDS Naturals

CONSTANTS
  Projects,     \* web projects of the account
  MaxTries,     \* bound: start requests one project may get
  Workers,      \* worker threads (lease owner host:pid:thread)
  Ghost,        \* lease owner of a process that died
  NoOne,        \* lease_owner IS NULL, and the account lock not held
  NoRequest,    \* a worker without a request
  MaxClaims,    \* MAX_START_CLAIMS
  MaxFaults     \* bound: errors, crashes and missed heartbeats

\* A request id: the n-th start request of a project.
Requests == Projects \X (1..MaxTries)

ASSUME StartRequestsAssumption ==
  /\ MaxTries \in Nat /\ MaxClaims \in Nat /\ MaxFaults \in Nat
  /\ Ghost \notin Workers /\ NoOne \notin Workers /\ Ghost # NoOne
  /\ NoRequest \notin Requests \cup Projects
  /\ Projects \cap Requests = {}

VARIABLES
  request,    \* rows of orch_start_requests
  run,        \* the run of each project, as the locks of RunLease let it be seen
  flagged,    \* projects whose run has abort_requested
  content,    \* projects whose run has stored artifacts
  guard,      \* holder of the account lock across steps (account_guard)
  rows,       \* web table projects
  worker,     \* where each worker stands, and its request
  faults

storeVars == <<request, run, flagged, content, guard, rows, worker, faults>>

Status == {"none", "queued", "taken", "done", "failed", "cancelled", "deleted"}
RequestRow == [status : Status,
               holder : Workers \cup {Ghost, NoOne},   \* lease_owner
               live   : BOOLEAN,                       \* lease_until > now
               cancel : BOOLEAN,                       \* cancel_requested
               claims : 0..(MaxClaims + 1),            \* claim_count, capped
               form   : BOOLEAN]                       \* form_json IS NOT NULL
NoRow == [status |-> "none", holder |-> NoOne, live |-> FALSE, cancel |-> FALSE,
          claims |-> 0, form |-> FALSE]

\* "open": in progress and nobody holds its lease; "locked": in progress under
\* the lease of a worker or a command; "ended": done, failed or aborted.
ActiveRun == {"open", "locked"}
Idle == [at |-> "idle", req |-> NoRequest]
WorkerState == {Idle} \cup [at : {"claimed", "read", "drain", "create", "fail", "cancel"}, req : Requests]

ProjectOf(r) == r[1]
Pending == {r \in Requests : request[r].status \in {"queued", "taken"}}
ActiveRuns == {p \in Projects : run[p] \in ActiveRun}
ActiveWork == Pending \cup ActiveRuns

\* orch_runs.project_id becomes NULL with the project's row.
RunOf(p) == IF rows[p] \in {"present", "archived"} THEN run[p] ELSE "none"

\* Mutant of LockFree: the request is added without the account lock.
NoLock == TRUE

\* No withdrawal is holding the account lock.
LockFree == guard = NoOne

Fault == faults < MaxFaults /\ faults' = faults + 1

-----------------------------------------------------------------------------
(* Rows *)

Queued == [status |-> "queued", holder |-> NoOne, live |-> FALSE, cancel |-> FALSE,
           claims |-> 0, form |-> TRUE]

\* _take_request: a claim counts only when the lease changes hands.
Taken(q, w) ==
  [status |-> "taken", holder |-> w, live |-> TRUE, cancel |-> q.cancel,
   claims |-> IF q.holder = w \/ q.claims > MaxClaims THEN q.claims ELSE q.claims + 1,
   form |-> q.form]

\* _closing: the lease and the copy of the input go with the status.
Closed(q, s) ==
  [status |-> s, holder |-> NoOne, live |-> FALSE, cancel |-> q.cancel,
   claims |-> q.claims, form |-> FALSE]

\* Mutant of Cancelled: the outcome is written where the status belongs.
OutcomeAsStatus(q) ==
  IF q.status = "queued" THEN Closed(q, "cancelled")
  ELSE IF q.status = "taken" THEN [q EXCEPT !.status = "cancel_requested"]
  ELSE q

\* cancel_start_request.
Cancelled(q) ==
  IF q.status = "queued" THEN Closed(q, "cancelled")
  ELSE IF q.status = "taken" THEN [q EXCEPT !.cancel = TRUE]
  ELSE q

\* Mutant of Claimable: a request left behind by a dead worker is never retried.
NeverRetried(q) == q.status = "queued"

\* Mutant of Claimable: a failed request is retried by itself.
FailedAgain(q) ==
  q.status \in {"queued", "failed"} \/ (q.status = "taken" /\ ~q.live)

\* _request_free: waiting, or in the hands of a worker whose lease ran out.
Claimable(q) == q.status = "queued" \/ (q.status = "taken" /\ ~q.live)

Put(r, q) == request' = [request EXCEPT ![r] = q]

-----------------------------------------------------------------------------
(* Worker threads *)

WorkerGoto(w, at, r) == worker' = [worker EXCEPT ![w] = [at |-> at, req |-> r]]
Leave(w) == worker' = [worker EXCEPT ![w] = Idle]

ClaimStartRequest(w) ==
  /\ worker[w].at = "idle"
  /\ \E r \in Requests :
       /\ Claimable(request[r])
       /\ Put(r, Taken(request[r], w))
       /\ WorkerGoto(w, "claimed", r)
  /\ UNCHANGED <<run, flagged, content, guard, rows, faults>>

\* run_start_request takes the lease it already has once more.
AcquireStartRequest(w) ==
  /\ worker[w].at = "claimed"
  /\ LET r == worker[w].req
         q == request[r]
     IN IF Claimable(q) \/ (q.status = "taken" /\ q.holder = w)
        THEN Put(r, Taken(q, w)) /\ WorkerGoto(w, "read", r)
        ELSE Leave(w) /\ UNCHANGED request
  /\ UNCHANGED <<run, flagged, content, guard, rows, faults>>

\* The row is read without a lock: a cancelled or worn-out request is closed, a
\* request without its input makes PreInput.model_validate raise.
ReadRequest(w) ==
  /\ worker[w].at = "read"
  /\ LET r == worker[w].req
         q == request[r]
     IN IF q.cancel THEN WorkerGoto(w, "cancel", r)
        ELSE IF q.claims > MaxClaims THEN WorkerGoto(w, "fail", r)
        ELSE IF q.form THEN WorkerGoto(w, "drain", r)
        ELSE Leave(w)
  /\ UNCHANGED <<request, run, flagged, content, guard, rows, faults>>

\* The preliminary segment writes nothing; it finds announcements or it does not.
DrainPreStage(w) ==
  /\ worker[w].at = "drain"
  /\ \E next \in {"create", "fail"} : WorkerGoto(w, next, worker[w].req)
  /\ UNCHANGED <<request, run, flagged, content, guard, rows, faults>>

\* finish_start_request: only the holder of a taken request closes it.
FinishStartRequest(w) ==
  /\ worker[w].at \in {"fail", "cancel"}
  /\ LET r == worker[w].req
         q == request[r]
     IN IF q.status = "taken" /\ q.holder = w
        THEN Put(r, Closed(q, IF worker[w].at = "fail" THEN "failed" ELSE "cancelled"))
        ELSE UNCHANGED request
  /\ Leave(w)
  /\ UNCHANGED <<run, flagged, content, guard, rows, faults>>

\* Mutant of Stopped: the flag was already looked at before the preliminary
\* segment, why look again.
NeverStopped(q) == FALSE

\* cancel_requested, read in the transaction that creates the run.
Stopped(q) == q.cancel

InsertRun(p) ==
  /\ run' = [run EXCEPT ![p] = "open"]
  /\ content' = content \cup {p}

\* create_run_for_request, one transaction under the account lock.  A project
\* that has a run already (ProjectRunExists) or has no row any more (foreign
\* key) makes it raise, and the request stays with its worker.
CreateRunForRequest(w) ==
  /\ worker[w].at = "create" /\ LockFree
  /\ LET r == worker[w].req
         q == request[r]
         p == ProjectOf(r)
     IN IF q.status # "taken" \/ q.holder # w
        THEN Leave(w) /\ UNCHANGED <<request, run, content>>
        ELSE IF Stopped(q)
        THEN Put(r, Closed(q, "cancelled")) /\ Leave(w) /\ UNCHANGED <<run, content>>
        ELSE IF ActiveRuns # {}
        THEN WorkerGoto(w, "fail", r) /\ UNCHANGED <<request, run, content>>
        ELSE IF RunOf(p) # "none" \/ rows[p] = "deleted"
        THEN Leave(w) /\ UNCHANGED <<request, run, content>>
        ELSE Put(r, Closed(q, "done")) /\ InsertRun(p) /\ Leave(w)
  /\ UNCHANGED <<flagged, guard, rows, faults>>

\* The wait for the account lock times out (StoreConflict).
WorkerLockTimeout(w) ==
  /\ worker[w].at = "create" /\ ~LockFree
  /\ Leave(w)
  /\ UNCHANGED <<request, run, flagged, content, guard, rows, faults>>

\* Worker._do catches whatever is raised and leaves the lease to expire.
Raise(w) ==
  /\ worker[w].at # "idle" /\ Fault
  /\ Leave(w)
  /\ UNCHANGED <<request, run, flagged, content, guard, rows>>

\* The process dies; after the restart its threads have another owner name.
CrashWorker(w) ==
  /\ worker[w].at # "idle" /\ Fault
  /\ Leave(w)
  /\ request' = [r \in Requests |->
                   IF request[r].holder = w THEN [request[r] EXCEPT !.holder = Ghost]
                                            ELSE request[r]]
  /\ UNCHANGED <<run, flagged, content, guard, rows>>

Working(r) == \E w \in Workers : request[r].holder = w /\ worker[w].req = r

\* renew_start_request: owner and status, not the expiry.
Heartbeat(r) ==
  /\ Working(r) /\ request[r].status = "taken" /\ ~request[r].live
  /\ Put(r, [request[r] EXCEPT !.live = TRUE])
  /\ UNCHANGED <<run, flagged, content, guard, rows, worker, faults>>

ExpireRequest(r) ==
  /\ request[r].status = "taken" /\ request[r].live /\ ~Working(r)
  /\ Put(r, [request[r] EXCEPT !.live = FALSE])
  /\ UNCHANGED <<run, flagged, content, guard, rows, worker, faults>>

MissRenewals(r) ==
  /\ request[r].status = "taken" /\ request[r].live /\ Working(r) /\ Fault
  /\ Put(r, [request[r] EXCEPT !.live = FALSE])
  /\ UNCHANGED <<run, flagged, content, guard, rows, worker>>

-----------------------------------------------------------------------------
(* Runs in progress, by what RunLease lets a caller see *)

\* A worker or a command takes the lease of the run.
LockRun(p) ==
  /\ run[p] = "open"
  /\ run' = [run EXCEPT ![p] = "locked"]
  /\ UNCHANGED <<request, flagged, content, guard, rows, worker, faults>>

\* It lets go at a waiting point or at the end of the run.
UnlockRun(p) ==
  /\ run[p] = "locked"
  /\ run' \in {[run EXCEPT ![p] = "open"], [run EXCEPT ![p] = "ended"]}
  /\ UNCHANGED <<request, flagged, content, guard, rows, worker, faults>>

WorkerStep(w) ==
  \/ ClaimStartRequest(w) \/ AcquireStartRequest(w) \/ ReadRequest(w) \/ DrainPreStage(w)
  \/ FinishStartRequest(w) \/ CreateRunForRequest(w) \/ WorkerLockTimeout(w)
=============================================================================
