----------------------------- MODULE WebAccount -----------------------------
(***************************************************************************)
(* One account as the web serves it: the routes that begin, look for, put  *)
(* away and delete its projects and that delete the account itself         *)
(* (routers/projects.py, routers/auth.py), each a sequence of calls of the *)
(* orchestrator (flow/service.py) and of saves of its own, interleaved     *)
(* with one another and with the workers of StartRequests.                 *)
(***************************************************************************)
EXTENDS StartRequests

CONSTANTS
  Creators,       \* requests POST /projects
  Pollers,        \* requests GET /projects/{id}/match-candidates
  Trashers,       \* requests DELETE /projects/{id}
  Deleters,       \* requests DELETE /projects/{id}/permanent
  Withdrawers,    \* requests DELETE /auth/me
  NoProject,
  SnapshotReads   \* the web's database reads from the snapshot of its transaction

Callers == Creators \cup Pollers \cup Trashers \cup Deleters \cup Withdrawers

ASSUME WebAccountAssumption ==
  /\ NoProject \notin Projects
  /\ SnapshotReads \in BOOLEAN
  /\ Callers \cap (Workers \cup {Ghost, NoOne}) = {}
  /\ \A A, B \in {Creators, Pollers, Trashers, Deleters, Withdrawers} : A = B \/ A \cap B = {}

VARIABLES
  user,     \* users.status, "gone" once the row is deleted
  call,     \* where each web request stands
  stopped   \* observer: start requests found pending by an abort that returned

vars == <<storeVars, user, call, stopped>>

Places == {"idle", "insert", "check", "load", "add", "recheck", "purge", "view",
           "list", "cancel", "abort", "flag", "after", "wipe", "clear",
           "projects", "next", "lock", "runs", "retire", "remove", "cascade"}

\* at: the next step; then: what follows the abort; found, todo: start requests
\* listed and still to cancel; runs: runs still to abort; known: runs found;
\* left: projects a withdrawal has still to clear; seen: users.status as the
\* transaction of this request saw it.
Returns == {"idle", "purge", "view", "wipe", "runs"}
CallRow == [at : Places, then : Returns, project : Projects \cup {NoProject},
            found : SUBSET Requests, todo : SUBSET Requests,
            runs : SUBSET Projects, known : SUBSET Projects, busy : BOOLEAN,
            left : SUBSET Projects, seen : {"active", "withdrawing", "gone"}]
NoCall == [at |-> "idle", then |-> "idle", project |-> NoProject,
           found |-> {}, todo |-> {}, runs |-> {}, known |-> {}, busy |-> FALSE,
           left |-> {}, seen |-> "active"]

\* The rows of user's projects the web shows.
Listed == {p \in Projects : rows[p] \in {"present", "archived"}}

Init ==
  /\ request = [r \in Requests |-> NoRow]
  /\ run = [p \in Projects |-> "none"]
  /\ flagged = {} /\ content = {} /\ guard = NoOne
  /\ rows = [p \in Projects |-> "new"]
  /\ worker = [w \in Workers |-> Idle]
  /\ faults = 0 /\ user = "active" /\ stopped = {}
  /\ call = [u \in Callers |-> NoCall]

At(u, place) == call[u].at = place
Become(u, c) == call' = [call EXCEPT ![u] = c]
Goto(u, place) == call' = [call EXCEPT ![u].at = place]
Answer(u) == call' = [call EXCEPT ![u] = NoCall]

\* Mutant of LetGo: the account lock is kept when the answer is BUSY.
KeepLock(u) == guard' = guard

\* The end of account_guard: the connection and its named lock are released.
LetGo(u) == guard' = IF guard = u THEN NoOne ELSE guard

Begin(u, place, p) == call' = [call EXCEPT ![u] = [NoCall EXCEPT !.at = place, !.project = p]]

\* Rows of orch_start_requests that are left, and a row that was deleted.
Kept == {r \in Requests : request[r].status \notin {"none", "deleted"}}
Removed == [NoRow EXCEPT !.status = "deleted"]

-----------------------------------------------------------------------------
(* Begin a project: POST /projects, and asking again while candidates are *)
(* waited for                                                             *)

\* A signed-in user; active_work is asked without a lock.
BeginCreate(u) ==
  /\ u \in Creators /\ At(u, "idle") /\ user = "active" /\ ActiveWork = {}
  /\ \E p \in Projects : rows[p] = "new" /\ Begin(u, "insert", p)
  /\ UNCHANGED <<storeVars, user, stopped>>

\* The project is committed first, so that the orchestrator can read it.
InsertProject(u) ==
  /\ At(u, "insert")
  /\ IF user = "gone" \/ rows[call[u].project] # "new"
     THEN Answer(u) /\ UNCHANGED rows
     ELSE rows' = [rows EXCEPT ![call[u].project] = "present"] /\ Goto(u, "check")
  /\ UNCHANGED <<request, run, flagged, content, guard, worker, faults, user, stopped>>

\* GET match-candidates: the last start request failed in a way worth retrying.
BeginPoll(u) ==
  /\ u \in Pollers /\ At(u, "idle") /\ user # "gone"
  /\ \E p \in Projects :
       /\ rows[p] = "present" /\ run[p] = "none"
       /\ \E n \in 1..MaxTries :
            /\ request[<<p, n>>].status = "failed"
            /\ \A m \in 1..MaxTries : m > n => request[<<p, m>>].status = "none"
       /\ Begin(u, "check", p)
  /\ UNCHANGED <<storeVars, user, stopped>>

\* _is_withdrawing before request_start; a deleted user makes it raise.
CheckUser(u) ==
  /\ At(u, "check")
  /\ IF user = "active" THEN Become(u, [call[u] EXCEPT !.at = "load", !.seen = user])
     ELSE IF user = "withdrawing" /\ u \in Creators THEN Goto(u, "purge")
     ELSE Answer(u)
  /\ UNCHANGED <<storeVars, user, stopped>>

\* request_start reads the project and its run without a lock: PROJECT_NOT_FOUND,
\* PROJECT_ALREADY_STARTED, or on to the account lock.
RequestStart(u) ==
  /\ At(u, "load")
  /\ IF rows[call[u].project] # "present" \/ RunOf(call[u].project) = "ended"
     THEN Answer(u) ELSE Goto(u, "add")
  /\ UNCHANGED <<storeVars, user, stopped>>

\* Mutant of AddStartRequest's condition: waiting requests are not counted.
NoActiveRun == ActiveRuns = {}

\* What add_start_request counts under the account lock.
NothingActive == ActiveWork = {}

AddStartRequest(u) ==
  /\ At(u, "add") /\ LockFree
  /\ IF NothingActive
     THEN /\ \E n \in 1..MaxTries :
               /\ request[<<call[u].project, n>>].status = "none"
               /\ \A m \in 1..(n - 1) : request[<<call[u].project, m>>].status # "none"
               /\ Put(<<call[u].project, n>>, Queued)
          /\ IF u \in Creators THEN Goto(u, "recheck") ELSE Answer(u)
     ELSE UNCHANGED request /\ IF u \in Creators THEN Goto(u, "purge") ELSE Answer(u)
  /\ UNCHANGED <<run, flagged, content, guard, rows, worker, faults, user, stopped>>

\* _is_withdrawing once more.  On the web's own transaction, which began before
\* the first look, a repeatable read shows the status it saw then.
RecheckUser(u) ==
  /\ At(u, "recheck")
  /\ LET s == IF SnapshotReads THEN call[u].seen ELSE user
     IN IF s = "withdrawing"
        THEN Become(u, [call[u] EXCEPT !.at = "list", !.then = "purge"])
        ELSE Answer(u)
  /\ UNCHANGED <<storeVars, user, stopped>>

\* The project's row goes, the rest of the web's rows with it.
PurgeProject(u) ==
  /\ At(u, "purge")
  /\ rows' = [rows EXCEPT ![call[u].project] = "deleted"]
  /\ Answer(u)
  /\ UNCHANGED <<request, run, flagged, content, guard, worker, faults, user, stopped>>

-----------------------------------------------------------------------------
(* abort_project, and the same steps over the whole account *)

\* A withdrawal looks at the account, everybody else at one project.
Whole(u) == call[u].then = "runs"
Scope(u) == {p \in Projects : Whole(u) \/ p = call[u].project}
Sees(u, p) == IF Whole(u) THEN run[p] ELSE RunOf(p)

\* Start requests first, so that a run created in between is found afterwards.
ListRequests(u) ==
  /\ At(u, "list")
  /\ LET rs == {r \in Pending : ProjectOf(r) \in Scope(u)}
     IN Become(u, [call[u] EXCEPT !.at = "cancel", !.found = rs, !.todo = rs, !.busy = FALSE])
  /\ UNCHANGED <<storeVars, user, stopped>>

\* cancel_start_request, one transaction each; a withdrawal waits for the
\* workers of those it could only ask.
CancelStartRequest(u) ==
  /\ At(u, "cancel")
  /\ \E r \in call[u].todo :
       /\ Put(r, Cancelled(request[r]))
       /\ Become(u, [call[u] EXCEPT
            !.todo = @ \ {r},
            !.busy = @ \/ (Whole(u) /\ request[r].status = "taken")])
  /\ UNCHANGED <<run, flagged, content, guard, rows, worker, faults, user, stopped>>

FindRuns(u) ==
  /\ At(u, "cancel") /\ call[u].todo = {}
  /\ Become(u, [call[u] EXCEPT
       !.at = "abort",
       !.known = {p \in Scope(u) : Sees(u, p) # "none"},
       !.runs = {p \in Scope(u) : Sees(u, p) \in ActiveRun}])
  /\ UNCHANGED <<storeVars, user, stopped>>

\* One of the runs still to abort.
Target(u) == CHOOSE p \in call[u].runs : TRUE

\* RunService.abort: a free run ends at once, a locked one gets the request.
AbortRun(u) ==
  /\ At(u, "abort") /\ call[u].runs # {}
  /\ IF run[Target(u)] = "locked" THEN Goto(u, "flag") /\ UNCHANGED run
     ELSE /\ run' = IF run[Target(u)] = "open" THEN [run EXCEPT ![Target(u)] = "ended"] ELSE run
          /\ Goto(u, "after")
  /\ UNCHANGED <<request, flagged, content, guard, rows, worker, faults, user, stopped>>

RequestAbort(u) ==
  /\ At(u, "flag")
  /\ flagged' = flagged \cup {Target(u)}
  /\ Goto(u, "after")
  /\ UNCHANGED <<request, run, content, guard, rows, worker, faults, user, stopped>>

\* Still active: only the request to stop was left.
LookAfterAbort(u) ==
  /\ At(u, "after")
  /\ Become(u, [call[u] EXCEPT !.at = "abort", !.runs = @ \ {Target(u)},
                               !.busy = @ \/ run[Target(u)] \in ActiveRun])
  /\ UNCHANGED <<storeVars, user, stopped>>

\* The abort returns: the caller of delete_project_data and of
\* delete_account_data answers BUSY if work goes on, and lets go of the lock.
FinishAbort(u) ==
  /\ At(u, "abort") /\ call[u].runs = {}
  /\ stopped' = stopped \cup call[u].found
  /\ IF call[u].then \in {"wipe", "runs"} /\ call[u].busy
     THEN Answer(u) /\ LetGo(u)
     ELSE Goto(u, call[u].then) /\ UNCHANGED guard
  /\ UNCHANGED <<request, run, flagged, content, rows, worker, faults, user>>

-----------------------------------------------------------------------------
(* Put a project away, delete it *)

\* DELETE /projects/{id} aborts first and decides by what is left.
BeginTrash(u) ==
  /\ u \in Trashers /\ At(u, "idle")
  /\ \E p \in Listed :
       Become(u, [NoCall EXCEPT !.at = "list", !.then = "view", !.project = p])
  /\ UNCHANGED <<storeVars, user, stopped>>

\* A project that has a run is archived, one that has none is deleted.
ViewProject(u) ==
  /\ At(u, "view")
  /\ IF RunOf(call[u].project) # "none"
     THEN rows' = [rows EXCEPT ![call[u].project] = "archived"] /\ Answer(u)
     ELSE UNCHANGED rows /\ Become(u, [call[u] EXCEPT !.at = "list", !.then = "wipe"])
  /\ UNCHANGED <<request, run, flagged, content, guard, worker, faults, user, stopped>>

BeginDelete(u) ==
  /\ u \in Deleters /\ At(u, "idle")
  /\ \E p \in Listed :
       Become(u, [NoCall EXCEPT !.at = "list", !.then = "wipe", !.project = p])
  /\ UNCHANGED <<storeVars, user, stopped>>

\* delete_artifacts of the run abort_project found.
DeleteArtifacts(u) ==
  /\ At(u, "wipe")
  /\ content' = content \ call[u].known
  /\ Goto(u, "clear")
  /\ UNCHANGED <<request, run, flagged, guard, rows, worker, faults, user, stopped>>

\* clear_start_request_forms takes whatever requests the project has by now.
ClearForms(u) ==
  /\ At(u, "clear")
  /\ request' = [r \in Requests |->
                   IF ProjectOf(r) = call[u].project THEN [request[r] EXCEPT !.form = FALSE]
                                                     ELSE request[r]]
  /\ Goto(u, IF u \in Withdrawers THEN "next" ELSE "purge")
  /\ UNCHANGED <<run, flagged, content, guard, rows, worker, faults, user, stopped>>

-----------------------------------------------------------------------------
(* Delete the account: DELETE /auth/me *)

BeginWithdraw(u) ==
  /\ u \in Withdrawers /\ At(u, "idle") /\ user # "gone"
  /\ user' = "withdrawing"
  /\ Begin(u, "projects", NoProject)
  /\ UNCHANGED <<storeVars, stopped>>

ListProjects(u) ==
  /\ At(u, "projects")
  /\ Become(u, [call[u] EXCEPT !.at = "next", !.left = Listed])
  /\ UNCHANGED <<storeVars, user, stopped>>

\* delete_project_data for each project, then delete_account_data.
NextProject(u) ==
  /\ At(u, "next")
  /\ IF call[u].left = {} THEN Goto(u, "lock")
     ELSE \E p \in call[u].left :
            Become(u, [call[u] EXCEPT !.at = "list", !.then = "wipe", !.project = p,
                                      !.left = @ \ {p}])
  /\ UNCHANGED <<storeVars, user, stopped>>

LockAccount(u) ==
  /\ At(u, "lock") /\ guard = NoOne
  /\ guard' = u
  /\ Become(u, [call[u] EXCEPT !.at = "list", !.then = "runs"])
  /\ UNCHANGED <<request, run, flagged, content, rows, worker, faults, user, stopped>>

\* The wait for the account lock times out: BUSY, or an error of the route.
LockTimeout(u) ==
  /\ call[u].at \in {"add", "lock"} /\ guard # NoOne
  /\ Answer(u)
  /\ UNCHANGED <<storeVars, user, stopped>>

\* list_runs: every run of the account, the finished ones too.
ListRuns(u) ==
  /\ At(u, "runs")
  /\ Become(u, [call[u] EXCEPT !.at = "retire", !.runs = {p \in Projects : run[p] # "none"}])
  /\ UNCHANGED <<storeVars, user, stopped>>

\* _withdraw_run, one run after the other, under its lease: retire_run.
RetireRun(u) ==
  /\ At(u, "retire") /\ call[u].runs # {}
  /\ IF run[Target(u)] \in ActiveRun
     THEN Answer(u) /\ LetGo(u) /\ UNCHANGED <<run, content>>
     ELSE /\ run' = [run EXCEPT ![Target(u)] = "none"]
          /\ content' = content \ {Target(u)}
          /\ Become(u, [call[u] EXCEPT !.runs = @ \ {Target(u)}])
          /\ UNCHANGED guard
  /\ UNCHANGED <<request, flagged, rows, worker, faults, user, stopped>>

\* The start requests go last, all of them finished.
ListAllRequests(u) ==
  /\ At(u, "retire") /\ call[u].runs = {}
  /\ IF Pending # {} THEN Answer(u) /\ LetGo(u)
     ELSE /\ Become(u, [call[u] EXCEPT !.at = "remove", !.found = Kept])
          /\ UNCHANGED guard
  /\ UNCHANGED <<request, run, flagged, content, rows, worker, faults, user, stopped>>

\* retire_start_requests, and the account lock is let go.
RetireRequests(u) ==
  /\ At(u, "remove")
  /\ request' = [r \in Requests |-> IF r \in call[u].found THEN Removed ELSE request[r]]
  /\ Goto(u, "cascade") /\ LetGo(u)
  /\ UNCHANGED <<run, flagged, content, rows, worker, faults, user, stopped>>

\* _delete_account_cascade: the web's rows and the user.
Cascade(u) ==
  /\ At(u, "cascade")
  /\ rows' = [p \in Projects |-> IF p \in Listed THEN "deleted" ELSE rows[p]]
  /\ user' = "gone"
  /\ Answer(u)
  /\ UNCHANGED <<request, run, flagged, content, guard, worker, faults, stopped>>

-----------------------------------------------------------------------------
\* The web process dies, and the database lets go of the lock of its connection.
CrashCaller(u) ==
  /\ ~At(u, "idle") /\ Fault
  /\ Answer(u) /\ LetGo(u)
  /\ UNCHANGED <<request, run, flagged, content, rows, worker, user, stopped>>

BeginCall(u) == BeginCreate(u) \/ BeginPoll(u) \/ BeginTrash(u) \/ BeginDelete(u)

CallStep(u) ==
  \/ InsertProject(u) \/ CheckUser(u) \/ RequestStart(u) \/ AddStartRequest(u)
  \/ RecheckUser(u) \/ PurgeProject(u)
  \/ ListRequests(u) \/ CancelStartRequest(u) \/ FindRuns(u) \/ AbortRun(u)
  \/ RequestAbort(u) \/ LookAfterAbort(u) \/ FinishAbort(u)
  \/ ViewProject(u) \/ DeleteArtifacts(u) \/ ClearForms(u)
  \/ ListProjects(u) \/ NextProject(u) \/ LockAccount(u) \/ LockTimeout(u)
  \/ ListRuns(u) \/ RetireRun(u) \/ ListAllRequests(u) \/ RetireRequests(u) \/ Cascade(u)

\* The orchestrator's side: workers, runs and time.
StoreStep ==
  \/ \E w \in Workers : WorkerStep(w) \/ Raise(w) \/ CrashWorker(w)
  \/ \E r \in Requests : Heartbeat(r) \/ ExpireRequest(r) \/ MissRenewals(r)
  \/ \E p \in Projects : LockRun(p) \/ UnlockRun(p)

Next ==
  \/ StoreStep /\ UNCHANGED <<user, call, stopped>>
  \/ \E u \in Callers : BeginCall(u) \/ BeginWithdraw(u) \/ CallStep(u) \/ CrashCaller(u)

Spec == Init /\ [][Next]_vars

-----------------------------------------------------------------------------
(* Fairness: the worker threads keep polling and a web request runs to its *)
(* answer; leases expire; whoever holds a run lets go of it, and a run that *)
(* was asked to stop is ended when a worker comes back to it.              *)

Aside == UNCHANGED <<user, call, stopped>>

\* A run that was asked to stop is let go for the last time.
EndFlagged(p) == p \in flagged /\ UnlockRun(p) /\ run'[p] = "ended"

Fairness ==
  /\ \A w \in Workers : WF_vars(WorkerStep(w) /\ Aside)
  /\ \A r \in Requests : WF_vars(ExpireRequest(r) /\ Aside)
  /\ \A p \in Projects : WF_vars(UnlockRun(p) /\ Aside) /\ SF_vars(EndFlagged(p) /\ Aside)
  /\ \A u \in Callers : WF_vars(CallStep(u))

\* A user who began asks again after BUSY until the account is gone.
Insistence == \A u \in Withdrawers : WF_vars(user = "withdrawing" /\ BeginWithdraw(u))

FairSpec == Spec /\ Fairness /\ Insistence

-----------------------------------------------------------------------------
(* Properties *)

TypeOK ==
  /\ request \in [Requests -> RequestRow]
  /\ run \in [Projects -> {"none", "open", "locked", "ended"}]
  /\ flagged \in SUBSET Projects /\ content \in SUBSET Projects
  /\ guard \in Callers \cup {NoOne}
  /\ rows \in [Projects -> {"new", "present", "archived", "deleted"}]
  /\ worker \in [Workers -> WorkerState]
  /\ faults \in 0..MaxFaults
  /\ user \in {"active", "withdrawing", "gone"}
  /\ call \in [Callers -> CallRow]
  /\ stopped \in SUBSET Requests

\* An account has at most one piece of work, start request or run, however its
\* web requests and the workers overlap (one run at a time, checked under the
\* account lock by add_start_request and create_run_for_request).
OneActive == \A x, y \in ActiveWork : x = y

\* The project has asked for a start since r.
AskedAgain(r) == \E n \in 1..MaxTries : n > r[2] /\ request[<<ProjectOf(r), n>>].status # "none"

\* A start request that was pending when an abort of its project returned is
\* over, or its worker will find the cancellation, or the run it became has
\* ended or was asked to stop: it never slips through as a run nobody stopped
\* (abort_project looks at requests first and at runs afterwards).  A project
\* that has asked for a start since may have the run of that later request.
CancelHolds ==
  \A r \in stopped :
    \/ rows[ProjectOf(r)] = "deleted"
    \/ request[r].status \in {"failed", "cancelled", "deleted"}
    \/ request[r].status = "taken" /\ request[r].cancel
    \/ /\ request[r].status = "done"
       /\ ProjectOf(r) \in ActiveRuns /\ ~AskedAgain(r) => ProjectOf(r) \in flagged

\* When delete_account_data returns without BUSY, nothing of the account is
\* left in the orchestrator's tables, whatever the workers and the account's
\* other web requests did during it.
WithdrawalLeavesNothing ==
  [][\A u \in Withdrawers :
       At(u, "remove") /\ call'[u].at = "cascade"
         => /\ \A r \in Requests : request'[r].status \in {"none", "deleted"}
            /\ \A p \in Projects : run'[p] = "none"
            /\ content' = {}]_vars

\* The account's work, as AccountWork counts it.
NoWork == NoRequest
Work == IF ActiveWork = {} THEN NoWork ELSE CHOOSE x \in ActiveWork : TRUE

Abstract == INSTANCE AccountWork WITH work <- Work

\* Seen from outside, an account begins, turns into a run and ends one piece
\* of work after the other.
WorkSpec == Abstract!Spec

\* A start request that can become a run does not stay where it is, even if
\* its worker dies on the way: it is claimed again once the lease has expired.
Startable(r) == /\ r \in Pending /\ request[r].form
                /\ rows[ProjectOf(r)] = "present" /\ RunOf(ProjectOf(r)) = "none"
RequestLeaves == \A r \in Requests : Startable(r) ~> ~Startable(r)

\* A user who keeps asking gets the account deleted: no worker, no dead worker
\* and no run keeps the answer at BUSY for ever.
WithdrawalEnds == user = "withdrawing" ~> user = "gone"

\* routers/projects.py, create_project - a start request that was put in while
\* a withdrawal went on is taken back, so none is left behind by it.
NoWorkAfterWithdrawal ==
  user = "gone" /\ (\A u \in Callers : At(u, "idle")) => Pending = {}
=============================================================================
