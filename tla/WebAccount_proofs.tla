-------------------------- MODULE WebAccount_proofs --------------------------
(***************************************************************************)
(* What WebAccount guarantees for any projects, workers and web requests:  *)
(* its types, one piece of work at a time, that it implements AccountWork, *)
(* that what an abort stopped stays stopped, and that a withdrawal leaves  *)
(* nothing.  The second and the third follow from one lemma, WorkMoves, on *)
(* what a step may do to the set of active things; the fourth from         *)
(* Progress, on what it may do to one request; the last from Tidy, on what *)
(* can be added while the account lock is held.                            *)
(***************************************************************************)
EXTENDS WebAccount, TLAPS

-----------------------------------------------------------------------------
(* Types *)

StoreTypes ==
  /\ request \in [Requests -> RequestRow]
  /\ run \in [Projects -> {"none", "open", "locked", "ended"}]
  /\ flagged \in SUBSET Projects /\ content \in SUBSET Projects
  /\ guard \in Callers \cup {NoOne}
  /\ rows \in [Projects -> {"new", "present", "archived", "deleted"}]
  /\ worker \in [Workers -> WorkerState]
  /\ faults \in 0..MaxFaults
WebTypes ==
  /\ user \in {"active", "withdrawing", "gone"}
  /\ call \in [Callers -> CallRow]
  /\ stopped \in SUBSET Requests

\* What an operation makes of a row of orch_start_requests is a row again.
LEMMA RowTypes ==
  /\ Queued \in RequestRow /\ NoRow \in RequestRow /\ Removed \in RequestRow
  /\ \A q \in RequestRow :
       /\ \A w \in Workers : Taken(q, w) \in RequestRow
       /\ \A s \in Status : Closed(q, s) \in RequestRow
       /\ Cancelled(q) \in RequestRow
       /\ \A b \in BOOLEAN : [q EXCEPT !.live = b] \in RequestRow
       /\ [q EXCEPT !.holder = Ghost] \in RequestRow
       /\ [q EXCEPT !.form = FALSE] \in RequestRow
<1>1. Queued \in RequestRow /\ NoRow \in RequestRow /\ Removed \in RequestRow
  <2>1. 0 \in 0..(MaxClaims + 1) BY StartRequestsAssumption DEF StartRequestsAssumption
  <2>2. Queued \in RequestRow BY <2>1 DEF Queued, RequestRow, Status
  <2>3. NoRow \in RequestRow BY <2>1 DEF NoRow, RequestRow, Status
  <2>4. Removed \in RequestRow BY <2>3 DEF Removed, RequestRow, Status
  <2> QED BY <2>2, <2>3, <2>4
<1>2. ASSUME NEW q \in RequestRow, NEW w \in Workers PROVE Taken(q, w) \in RequestRow
  BY <1>2, StartRequestsAssumption DEF StartRequestsAssumption, Taken, RequestRow, Status
<1>3. ASSUME NEW q \in RequestRow, NEW s \in Status PROVE Closed(q, s) \in RequestRow
  BY <1>3 DEF Closed, RequestRow
<1>4. ASSUME NEW q \in RequestRow PROVE Cancelled(q) \in RequestRow
  <2>1. [q EXCEPT !.cancel = TRUE] \in RequestRow BY DEF RequestRow
  <2>2. Closed(q, "cancelled") \in RequestRow BY <1>3 DEF Status
  <2> QED BY <2>1, <2>2 DEF Cancelled
<1>5. ASSUME NEW q \in RequestRow
      PROVE  /\ \A b \in BOOLEAN : [q EXCEPT !.live = b] \in RequestRow
             /\ [q EXCEPT !.holder = Ghost] \in RequestRow
             /\ [q EXCEPT !.form = FALSE] \in RequestRow
  BY DEF RequestRow
<1> QED BY <1>1, <1>2, <1>3, <1>4, <1>5

\* The ways a web request's own state moves on.
LEMMA CallRowTypes ==
  /\ NoCall \in CallRow
  /\ \A c \in CallRow : \A x \in Places :
       /\ [c EXCEPT !.at = x] \in CallRow
       /\ \A s \in {"active", "withdrawing", "gone"} : [c EXCEPT !.at = x, !.seen = s] \in CallRow
       /\ \A y \in Returns : [c EXCEPT !.at = x, !.then = y] \in CallRow
       /\ \A p \in Projects : [c EXCEPT !.at = x, !.project = p] \in CallRow
       /\ \A y \in Returns : \A p \in Projects :
            /\ [c EXCEPT !.at = x, !.then = y, !.project = p] \in CallRow
            /\ [c EXCEPT !.at = x, !.then = y, !.project = p, !.left = @ \ {p}] \in CallRow
       /\ \A S \in SUBSET Requests :
            /\ [c EXCEPT !.at = x, !.found = S, !.todo = S, !.busy = FALSE] \in CallRow
            /\ [c EXCEPT !.at = x, !.found = S] \in CallRow
       /\ \A D, F \in SUBSET Projects : [c EXCEPT !.at = x, !.known = D, !.runs = F] \in CallRow
       /\ \A D \in SUBSET Projects : /\ [c EXCEPT !.at = x, !.runs = D] \in CallRow
                                     /\ [c EXCEPT !.at = x, !.left = D] \in CallRow
<1>1. NoCall \in CallRow BY DEF NoCall, CallRow, Places, Returns
<1> SUFFICES ASSUME NEW c \in CallRow, NEW x \in Places
             PROVE  /\ [c EXCEPT !.at = x] \in CallRow
                    /\ \A s \in {"active", "withdrawing", "gone"} : [c EXCEPT !.at = x, !.seen = s] \in CallRow
                    /\ \A y \in Returns : [c EXCEPT !.at = x, !.then = y] \in CallRow
                    /\ \A p \in Projects : [c EXCEPT !.at = x, !.project = p] \in CallRow
                    /\ \A y \in Returns : \A p \in Projects :
                         /\ [c EXCEPT !.at = x, !.then = y, !.project = p] \in CallRow
                         /\ [c EXCEPT !.at = x, !.then = y, !.project = p, !.left = @ \ {p}] \in CallRow
                    /\ \A S \in SUBSET Requests :
                         /\ [c EXCEPT !.at = x, !.found = S, !.todo = S, !.busy = FALSE] \in CallRow
                         /\ [c EXCEPT !.at = x, !.found = S] \in CallRow
                    /\ \A D, F \in SUBSET Projects : [c EXCEPT !.at = x, !.known = D, !.runs = F] \in CallRow
                    /\ \A D \in SUBSET Projects : /\ [c EXCEPT !.at = x, !.runs = D] \in CallRow
                                                  /\ [c EXCEPT !.at = x, !.left = D] \in CallRow
  BY <1>1
<1>2. [c EXCEPT !.at = x] \in CallRow BY DEF CallRow
<1>3. \A s \in {"active", "withdrawing", "gone"} : [c EXCEPT !.at = x, !.seen = s] \in CallRow BY DEF CallRow
<1>4. \A y \in Returns : [c EXCEPT !.at = x, !.then = y] \in CallRow BY DEF CallRow
<1>5. \A p \in Projects : [c EXCEPT !.at = x, !.project = p] \in CallRow BY DEF CallRow
<1>6. ASSUME NEW y \in Returns, NEW p \in Projects
      PROVE  [c EXCEPT !.at = x, !.then = y, !.project = p] \in CallRow BY DEF CallRow
<1>7. ASSUME NEW y \in Returns, NEW p \in Projects
      PROVE  [c EXCEPT !.at = x, !.then = y, !.project = p, !.left = @ \ {p}] \in CallRow BY DEF CallRow
<1>8. ASSUME NEW S \in SUBSET Requests
      PROVE  [c EXCEPT !.at = x, !.found = S, !.todo = S, !.busy = FALSE] \in CallRow BY DEF CallRow
<1>9. ASSUME NEW S \in SUBSET Requests
      PROVE  [c EXCEPT !.at = x, !.found = S] \in CallRow BY DEF CallRow
<1>10. ASSUME NEW D \in SUBSET Projects, NEW F \in SUBSET Projects
       PROVE  [c EXCEPT !.at = x, !.known = D, !.runs = F] \in CallRow BY DEF CallRow
<1>11. ASSUME NEW D \in SUBSET Projects
       PROVE  /\ [c EXCEPT !.at = x, !.runs = D] \in CallRow
              /\ [c EXCEPT !.at = x, !.left = D] \in CallRow BY DEF CallRow
<1> QED BY <1>2, <1>3, <1>4, <1>5, <1>6, <1>7, <1>8, <1>9, <1>10, <1>11

\* Whatever a web request does next, its state stays a row of calls.
LEMMA CallMoves ==
  ASSUME NEW u \in Callers, call \in [Callers -> CallRow]
  PROVE  /\ \A c \in CallRow : Become(u, c) => call' \in [Callers -> CallRow]
         /\ \A x \in Places : Goto(u, x) => call' \in [Callers -> CallRow]
         /\ Answer(u) => call' \in [Callers -> CallRow]
         /\ \A x \in Places, p \in Projects \cup {NoProject} :
              Begin(u, x, p) => call' \in [Callers -> CallRow]
<1>1. \A c \in CallRow : Become(u, c) => call' \in [Callers -> CallRow] BY DEF Become
<1>2. ASSUME NEW x \in Places, Goto(u, x) PROVE call' \in [Callers -> CallRow]
  <2>1. [call[u] EXCEPT !.at = x] \in CallRow BY CallRowTypes
  <2> QED BY <1>2, <2>1 DEF Goto
<1>3. Answer(u) => call' \in [Callers -> CallRow] BY CallRowTypes DEF Answer
<1>4. ASSUME NEW x \in Places, NEW p \in Projects \cup {NoProject}, Begin(u, x, p)
      PROVE  call' \in [Callers -> CallRow]
  <2>1. [NoCall EXCEPT !.at = x, !.project = p] \in CallRow BY CallRowTypes DEF CallRow
  <2> QED BY <1>4, <2>1 DEF Begin
<1> QED BY <1>1, <1>2, <1>3, <1>4

-----------------------------------------------------------------------------

\* The empty account has the types.
LEMMA InitTypes == Init => TypeOK
<1> SUFFICES ASSUME Init PROVE TypeOK OBVIOUS
<1>1. request \in [Requests -> RequestRow] BY RowTypes DEF Init
<1>2. call \in [Callers -> CallRow] BY CallRowTypes DEF Init
<1>3. /\ run \in [Projects -> {"none", "open", "locked", "ended"}]
      /\ flagged \in SUBSET Projects /\ content \in SUBSET Projects
      /\ guard \in Callers \cup {NoOne}
      /\ rows \in [Projects -> {"new", "present", "archived", "deleted"}]
      /\ worker \in [Workers -> WorkerState]
  BY DEF Init, WorkerState
<1>4. faults \in 0..MaxFaults /\ user \in {"active", "withdrawing", "gone"} /\ stopped \in SUBSET Requests
  BY StartRequestsAssumption DEF StartRequestsAssumption, Init
<1> QED BY <1>1, <1>2, <1>3, <1>4 DEF TypeOK

\* Workers, runs and time keep the types of the store.
LEMMA StoreStepTypes == StoreTypes /\ StoreStep => StoreTypes'
<1> SUFFICES ASSUME StoreTypes, StoreStep PROVE StoreTypes' OBVIOUS
<1> USE DEF StoreTypes
<1>g. ASSUME NEW w \in Workers, NEW r \in Requests,
             NEW x \in {"claimed", "read", "drain", "create", "fail", "cancel"},
             WorkerGoto(w, x, r)
      PROVE  worker' \in [Workers -> WorkerState]
  BY <1>g DEF WorkerGoto, WorkerState
<1>l. ASSUME NEW w \in Workers, Leave(w) PROVE worker' \in [Workers -> WorkerState]
  BY <1>l DEF Leave, WorkerState
<1>r. ASSUME NEW w \in Workers, worker[w].at # "idle" PROVE worker[w].req \in Requests
  BY <1>r DEF WorkerState, Idle
<1>p. ASSUME NEW r \in Requests, NEW q \in RequestRow, Put(r, q) PROVE request' \in [Requests -> RequestRow]
  BY <1>p DEF Put
<1>f. Fault => faults' \in 0..MaxFaults
  BY StartRequestsAssumption DEF StartRequestsAssumption, Fault
<1>1. ASSUME NEW w \in Workers, ClaimStartRequest(w) PROVE StoreTypes'
  <2>1. PICK r \in Requests : Put(r, Taken(request[r], w)) /\ WorkerGoto(w, "claimed", r)
    BY <1>1 DEF ClaimStartRequest
  <2>2. request' \in [Requests -> RequestRow] BY <2>1, <1>p, RowTypes
  <2> QED BY <1>1, <2>1, <2>2, <1>g DEF ClaimStartRequest
<1>2. ASSUME NEW w \in Workers, AcquireStartRequest(w) PROVE StoreTypes'
  <2> DEFINE r == worker[w].req
  <2>1. r \in Requests BY <1>2, <1>r DEF AcquireStartRequest
  <2>2. Taken(request[r], w) \in RequestRow BY <2>1, RowTypes
  <2>3. \/ Put(r, Taken(request[r], w)) /\ WorkerGoto(w, "read", r)
        \/ Leave(w) /\ UNCHANGED request
    BY <1>2 DEF AcquireStartRequest
  <2> HIDE DEF r
  <2>4. request' \in [Requests -> RequestRow] BY <2>1, <2>2, <2>3, <1>p
  <2>5. worker' \in [Workers -> WorkerState] BY <2>1, <2>3, <1>g, <1>l
  <2> QED BY <1>2, <2>4, <2>5 DEF AcquireStartRequest
<1>3. ASSUME NEW w \in Workers, ReadRequest(w) PROVE StoreTypes'
  <2>1. worker[w].req \in Requests BY <1>3, <1>r DEF ReadRequest
  <2>2. worker' \in [Workers -> WorkerState] BY <1>3, <2>1, <1>g, <1>l DEF ReadRequest
  <2> QED BY <1>3, <2>2 DEF ReadRequest
<1>4. ASSUME NEW w \in Workers, DrainPreStage(w) PROVE StoreTypes'
  <2>1. worker[w].req \in Requests BY <1>4, <1>r DEF DrainPreStage
  <2>2. worker' \in [Workers -> WorkerState] BY <1>4, <2>1, <1>g DEF DrainPreStage
  <2> QED BY <1>4, <2>2 DEF DrainPreStage
<1>5. ASSUME NEW w \in Workers, FinishStartRequest(w) PROVE StoreTypes'
  <2>1. worker[w].req \in Requests BY <1>5, <1>r DEF FinishStartRequest
  <2>2. \A s \in {"failed", "cancelled"} : Closed(request[worker[w].req], s) \in RequestRow
    BY <2>1, RowTypes DEF Status
  <2>3. request' \in [Requests -> RequestRow] BY <1>5, <2>1, <2>2, <1>p DEF FinishStartRequest
  <2> QED BY <1>5, <2>3, <1>l DEF FinishStartRequest
<1>6. ASSUME NEW w \in Workers, CreateRunForRequest(w) PROVE StoreTypes'
  <2> DEFINE r == worker[w].req
  <2>1. r \in Requests BY <1>6, <1>r DEF CreateRunForRequest
  <2>2. \A s \in {"done", "cancelled"} : Closed(request[r], s) \in RequestRow
    BY <2>1, RowTypes DEF Status
  <2>3. \/ request' = request \/ Put(r, Closed(request[r], "done")) \/ Put(r, Closed(request[r], "cancelled"))
    BY <1>6 DEF CreateRunForRequest
  <2>4. Leave(w) \/ WorkerGoto(w, "fail", r) BY <1>6 DEF CreateRunForRequest
  <2>5. UNCHANGED <<run, content>> \/ InsertRun(ProjectOf(r)) BY <1>6 DEF CreateRunForRequest
  <2>6. ProjectOf(r) \in Projects BY <2>1 DEF Requests, ProjectOf
  <2> HIDE DEF r
  <2>7. request' \in [Requests -> RequestRow] BY <2>1, <2>2, <2>3, <1>p
  <2>8. worker' \in [Workers -> WorkerState] BY <2>1, <2>4, <1>g, <1>l
  <2>9. /\ run' \in [Projects -> {"none", "open", "locked", "ended"}]
        /\ content' \in SUBSET Projects
    BY <2>5, <2>6 DEF InsertRun
  <2> QED BY <1>6, <2>7, <2>8, <2>9 DEF CreateRunForRequest
<1>7. ASSUME NEW w \in Workers, WorkerLockTimeout(w) \/ Raise(w) PROVE StoreTypes'
  BY <1>7, <1>l, <1>f DEF WorkerLockTimeout, Raise
<1>8. ASSUME NEW w \in Workers, CrashWorker(w) PROVE StoreTypes'
  <2>1. request' \in [Requests -> RequestRow] BY <1>8, RowTypes DEF CrashWorker
  <2> QED BY <1>8, <2>1, <1>l, <1>f DEF CrashWorker
<1>9. ASSUME NEW r \in Requests, Heartbeat(r) \/ ExpireRequest(r) \/ MissRenewals(r) PROVE StoreTypes'
  <2>1. \A b \in BOOLEAN : [request[r] EXCEPT !.live = b] \in RequestRow BY RowTypes
  <2>2. request' \in [Requests -> RequestRow]
    BY <1>9, <2>1, <1>p DEF Heartbeat, ExpireRequest, MissRenewals
  <2> QED BY <1>9, <2>2, <1>f DEF Heartbeat, ExpireRequest, MissRenewals
<1>10. ASSUME NEW p \in Projects, LockRun(p) \/ UnlockRun(p) PROVE StoreTypes'
  BY <1>10 DEF LockRun, UnlockRun
<1> QED BY <1>1, <1>2, <1>3, <1>4, <1>5, <1>6, <1>7, <1>8, <1>9, <1>10 DEF StoreStep, WorkerStep

\* A web request that asks a run to stop still has that run to abort.
TargetOK == \A u \in Callers : At(u, "flag") => call[u].runs # {}

\* The steps of the web requests keep all types.
LEMMA CallStepTypes ==
  ASSUME TypeOK, TargetOK, NEW u \in Callers, BeginCall(u) \/ BeginWithdraw(u) \/ CallStep(u) \/ CrashCaller(u)
  PROVE  TypeOK'
<1> USE DEF TypeOK
<1>c. call[u] \in CallRow /\ \A p \in Projects : p \in Projects \cup {NoProject} OBVIOUS
<1>k. /\ call[u].then \in Places
      /\ call[u].found \subseteq Requests /\ call[u].todo \subseteq Requests
      /\ call[u].runs \subseteq Projects /\ call[u].known \subseteq Projects
      /\ call[u].busy \in BOOLEAN /\ call[u].left \subseteq Projects
  BY <1>c DEF CallRow, Returns, Places
<1>l. LetGo(u) => guard' \in Callers \cup {NoOne} BY DEF LetGo
<1>p. ASSUME NEW r \in Requests, NEW q \in RequestRow, Put(r, q) PROVE request' \in [Requests -> RequestRow]
  BY <1>p DEF Put
<1>pl. \A x \in {"idle", "insert", "check", "load", "add", "recheck", "purge", "view", "list", "cancel",
                 "abort", "flag", "after", "wipe", "clear", "projects", "next", "lock", "runs",
                 "retire", "remove", "cascade"} : x \in Places
  BY DEF Places
<1>re. \A y \in {"idle", "purge", "view", "wipe", "runs"} : y \in Returns BY DEF Returns
<1>1. ASSUME BeginCreate(u) \/ BeginPoll(u) PROVE TypeOK'
  <2>1. PICK p \in Projects : Begin(u, "insert", p) \/ Begin(u, "check", p)
    BY <1>1 DEF BeginCreate, BeginPoll
  <2>2. call' \in [Callers -> CallRow] BY <2>1, <1>pl, CallMoves
  <2> QED BY <1>1, <2>2 DEF BeginCreate, BeginPoll, storeVars
<1>2. ASSUME BeginTrash(u) \/ BeginDelete(u) PROVE TypeOK'
  <2>1. PICK p \in Projects, y \in {"view", "wipe"} :
          Become(u, [NoCall EXCEPT !.at = "list", !.then = y, !.project = p])
    BY <1>2 DEF BeginTrash, BeginDelete, Listed
  <2>2. [NoCall EXCEPT !.at = "list", !.then = y, !.project = p] \in CallRow
    BY <1>pl, <1>re, CallRowTypes
  <2>3. call' \in [Callers -> CallRow] BY <2>1, <2>2, CallMoves
  <2> QED BY <1>2, <2>3 DEF BeginTrash, BeginDelete, storeVars
<1>3. ASSUME BeginWithdraw(u) PROVE TypeOK'
  <2>1. call' \in [Callers -> CallRow] BY <1>3, <1>pl, CallMoves DEF BeginWithdraw
  <2> QED BY <1>3, <2>1 DEF BeginWithdraw, storeVars
<1>4. ASSUME CrashCaller(u) PROVE TypeOK'
  <2>1. call' \in [Callers -> CallRow] BY <1>4, CallMoves DEF CrashCaller
  <2>2. faults' \in 0..MaxFaults
    BY <1>4, StartRequestsAssumption DEF StartRequestsAssumption, CrashCaller, Fault
  <2> QED BY <1>4, <2>1, <2>2, <1>l DEF CrashCaller
<1>5. ASSUME InsertProject(u) PROVE TypeOK'
  <2>1. call' \in [Callers -> CallRow] BY <1>5, <1>pl, CallMoves DEF InsertProject
  <2> QED BY <1>5, <2>1 DEF InsertProject
<1>6. ASSUME CheckUser(u) PROVE TypeOK'
  <2>1. [call[u] EXCEPT !.at = "load", !.seen = user] \in CallRow BY <1>c, <1>pl, CallRowTypes
  <2>2. call' \in [Callers -> CallRow] BY <1>6, <2>1, <1>pl, CallMoves DEF CheckUser
  <2> QED BY <1>6, <2>2 DEF CheckUser, storeVars
<1>7. ASSUME RequestStart(u) PROVE TypeOK'
  <2>1. call' \in [Callers -> CallRow] BY <1>7, <1>pl, CallMoves DEF RequestStart
  <2> QED BY <1>7, <2>1 DEF RequestStart, storeVars
<1>8. ASSUME AddStartRequest(u) PROVE TypeOK'
  <2>1. call' \in [Callers -> CallRow] BY <1>8, <1>pl, CallMoves DEF AddStartRequest
  <2>2. request' \in [Requests -> RequestRow]
    <3>1. UNCHANGED request \/ \E n \in 1..MaxTries : Put(<<call[u].project, n>>, Queued)
      BY <1>8 DEF AddStartRequest
    <3> QED BY <3>1, RowTypes DEF Put
  <2> QED BY <1>8, <2>1, <2>2 DEF AddStartRequest
<1>9. ASSUME RecheckUser(u) PROVE TypeOK'
  <2>1. [call[u] EXCEPT !.at = "list", !.then = "purge"] \in CallRow BY <1>c, <1>pl, <1>re, CallRowTypes
  <2>2. call' \in [Callers -> CallRow] BY <1>9, <2>1, CallMoves DEF RecheckUser
  <2> QED BY <1>9, <2>2 DEF RecheckUser, storeVars
<1>10. ASSUME PurgeProject(u) PROVE TypeOK'
  <2>1. call' \in [Callers -> CallRow] BY <1>10, CallMoves DEF PurgeProject
  <2> QED BY <1>10, <2>1 DEF PurgeProject
<1>11. ASSUME ListRequests(u) PROVE TypeOK'
  <2> DEFINE rs == {r \in Pending : ProjectOf(r) \in Scope(u)}
  <2>1. rs \in SUBSET Requests BY DEF Pending
  <2>2. [call[u] EXCEPT !.at = "cancel", !.found = rs, !.todo = rs, !.busy = FALSE] \in CallRow
    BY <2>1, <1>c, <1>pl, CallRowTypes
  <2>3. call' \in [Callers -> CallRow] BY <1>11, <2>2, CallMoves DEF ListRequests
  <2> QED BY <1>11, <2>3 DEF ListRequests, storeVars
<1>12. ASSUME CancelStartRequest(u) PROVE TypeOK'
  <2>1. PICK r \in call[u].todo :
          /\ Put(r, Cancelled(request[r]))
          /\ Become(u, [call[u] EXCEPT !.todo = @ \ {r},
                          !.busy = @ \/ (Whole(u) /\ request[r].status = "taken")])
    BY <1>12 DEF CancelStartRequest
  <2>2. request' \in [Requests -> RequestRow] BY <2>1, <1>k, <1>p, RowTypes
  <2>3. [call[u] EXCEPT !.todo = @ \ {r},
                        !.busy = @ \/ (Whole(u) /\ request[r].status = "taken")] \in CallRow
    BY <1>c DEF CallRow
  <2>4. call' \in [Callers -> CallRow] BY <2>1, <2>3, CallMoves
  <2> QED BY <1>12, <2>2, <2>4 DEF CancelStartRequest
<1>13. ASSUME FindRuns(u) PROVE TypeOK'
  <2> DEFINE D == {p \in Scope(u) : Sees(u, p) # "none"}
             F == {p \in Scope(u) : Sees(u, p) \in ActiveRun}
  <2>1. D \in SUBSET Projects /\ F \in SUBSET Projects BY DEF Scope
  <2>2. [call[u] EXCEPT !.at = "abort", !.known = D, !.runs = F] \in CallRow
    BY <2>1, <1>c, <1>pl, CallRowTypes
  <2>3. call' \in [Callers -> CallRow] BY <1>13, <2>2, CallMoves DEF FindRuns
  <2> QED BY <1>13, <2>3 DEF FindRuns, storeVars
<1>14. ASSUME AbortRun(u) PROVE TypeOK'
  <2>1. call' \in [Callers -> CallRow] BY <1>14, <1>pl, CallMoves DEF AbortRun
  <2> QED BY <1>14, <2>1 DEF AbortRun
<1>15. ASSUME RequestAbort(u) PROVE TypeOK'
  <2>1. call' \in [Callers -> CallRow] BY <1>15, <1>pl, CallMoves DEF RequestAbort
  <2>2. Target(u) \in Projects BY <1>15, <1>k DEF RequestAbort, TargetOK, Target
  <2> QED BY <1>15, <2>1, <2>2 DEF RequestAbort
<1>16. ASSUME LookAfterAbort(u) PROVE TypeOK'
  <2>1. [call[u] EXCEPT !.at = "abort", !.runs = @ \ {Target(u)},
                        !.busy = @ \/ run[Target(u)] \in ActiveRun] \in CallRow
    BY <1>c, <1>pl DEF CallRow
  <2>2. call' \in [Callers -> CallRow] BY <1>16, <2>1, CallMoves DEF LookAfterAbort
  <2> QED BY <1>16, <2>2 DEF LookAfterAbort, storeVars
<1>17. ASSUME FinishAbort(u) PROVE TypeOK'
  <2>1. call' \in [Callers -> CallRow] BY <1>17, <1>k, CallMoves DEF FinishAbort
  <2>2. stopped' \in SUBSET Requests BY <1>17, <1>k DEF FinishAbort
  <2> QED BY <1>17, <2>1, <2>2, <1>l DEF FinishAbort
<1>18. ASSUME ViewProject(u) PROVE TypeOK'
  <2>1. [call[u] EXCEPT !.at = "list", !.then = "wipe"] \in CallRow BY <1>c, <1>pl, <1>re, CallRowTypes
  <2>2. call' \in [Callers -> CallRow] BY <1>18, <2>1, CallMoves DEF ViewProject
  <2> QED BY <1>18, <2>2 DEF ViewProject
<1>19. ASSUME DeleteArtifacts(u) PROVE TypeOK'
  <2>1. call' \in [Callers -> CallRow] BY <1>19, <1>pl, CallMoves DEF DeleteArtifacts
  <2> QED BY <1>19, <2>1 DEF DeleteArtifacts
<1>20. ASSUME ClearForms(u) PROVE TypeOK'
  <2>1. call' \in [Callers -> CallRow] BY <1>20, <1>pl, CallMoves DEF ClearForms
  <2>2. request' \in [Requests -> RequestRow] BY <1>20, RowTypes DEF ClearForms
  <2> QED BY <1>20, <2>1, <2>2 DEF ClearForms
<1>21. ASSUME ListProjects(u) PROVE TypeOK'
  <2>1. [call[u] EXCEPT !.at = "next", !.left = Listed] \in CallRow
    BY <1>c, <1>pl, CallRowTypes DEF Listed
  <2>2. call' \in [Callers -> CallRow] BY <1>21, <2>1, CallMoves DEF ListProjects
  <2> QED BY <1>21, <2>2 DEF ListProjects, storeVars
<1>22. ASSUME NextProject(u) PROVE TypeOK'
  <2>1. ASSUME NEW p \in call[u].left
        PROVE  [call[u] EXCEPT !.at = "list", !.then = "wipe", !.project = p, !.left = @ \ {p}] \in CallRow
    BY <1>c, <1>k, <1>pl, <1>re, CallRowTypes
  <2>2. call' \in [Callers -> CallRow] BY <1>22, <2>1, <1>pl, CallMoves DEF NextProject
  <2> QED BY <1>22, <2>2 DEF NextProject, storeVars
<1>23. ASSUME LockAccount(u) PROVE TypeOK'
  <2>1. [call[u] EXCEPT !.at = "list", !.then = "runs"] \in CallRow BY <1>c, <1>pl, <1>re, CallRowTypes
  <2>2. call' \in [Callers -> CallRow] BY <1>23, <2>1, CallMoves DEF LockAccount
  <2> QED BY <1>23, <2>2 DEF LockAccount
<1>24. ASSUME LockTimeout(u) PROVE TypeOK'
  <2>1. call' \in [Callers -> CallRow] BY <1>24, CallMoves DEF LockTimeout
  <2> QED BY <1>24, <2>1 DEF LockTimeout, storeVars
<1>25. ASSUME ListRuns(u) PROVE TypeOK'
  <2>1. [call[u] EXCEPT !.at = "retire", !.runs = {p \in Projects : run[p] # "none"}] \in CallRow
    BY <1>c, <1>pl, CallRowTypes
  <2>2. call' \in [Callers -> CallRow] BY <1>25, <2>1, CallMoves DEF ListRuns
  <2> QED BY <1>25, <2>2 DEF ListRuns, storeVars
<1>26. ASSUME RetireRun(u) PROVE TypeOK'
  <2>1. [call[u] EXCEPT !.runs = @ \ {Target(u)}] \in CallRow BY <1>c DEF CallRow
  <2>2. call' \in [Callers -> CallRow] BY <1>26, <2>1, CallMoves DEF RetireRun
  <2> QED BY <1>26, <2>2, <1>l DEF RetireRun
<1>27. ASSUME ListAllRequests(u) PROVE TypeOK'
  <2>1. [call[u] EXCEPT !.at = "remove", !.found = Kept] \in CallRow
    BY <1>c, <1>pl, CallRowTypes DEF Kept
  <2>2. call' \in [Callers -> CallRow] BY <1>27, <2>1, CallMoves DEF ListAllRequests
  <2> QED BY <1>27, <2>2, <1>l DEF ListAllRequests
<1>28. ASSUME RetireRequests(u) PROVE TypeOK'
  <2>1. call' \in [Callers -> CallRow] BY <1>28, <1>pl, CallMoves DEF RetireRequests
  <2>2. request' \in [Requests -> RequestRow] BY <1>28, RowTypes DEF RetireRequests
  <2> QED BY <1>28, <2>1, <2>2, <1>l DEF RetireRequests
<1>29. ASSUME Cascade(u) PROVE TypeOK'
  <2>1. call' \in [Callers -> CallRow] BY <1>29, CallMoves DEF Cascade
  <2> QED BY <1>29, <2>1 DEF Cascade
<1> QED
  BY <1>1, <1>2, <1>3, <1>4, <1>5, <1>6, <1>7, <1>8, <1>9, <1>10, <1>11, <1>12, <1>13, <1>14, <1>15,
     <1>16, <1>17, <1>18, <1>19, <1>20, <1>21, <1>22, <1>23, <1>24, <1>25, <1>26, <1>27, <1>28, <1>29
  DEF BeginCall, CallStep

\* Only AbortRun sends a web request to ask a run to stop, and it has one.
LEMMA TargetStep ==
  ASSUME TypeOK, TargetOK, [Next]_vars
  PROVE  TargetOK'
<1> SUFFICES ASSUME NEW u \in Callers, BeginCall(u) \/ BeginWithdraw(u) \/ CallStep(u) \/ CrashCaller(u)
             PROVE  TargetOK'
  BY DEF Next, vars, TargetOK, At
<1>t. call \in [Callers -> CallRow] BY DEF TypeOK
<1>a. ASSUME NEW c, c.at = "flag" => c.runs # {}, Become(u, c) PROVE TargetOK'
  BY <1>a, <1>t DEF Become, TargetOK, At
<1>b. ASSUME NEW x, x = "flag" => call[u].runs # {}, Goto(u, x) PROVE TargetOK'
  BY <1>b, <1>t DEF Goto, TargetOK, At, CallRow
<1>c. ASSUME Answer(u) PROVE TargetOK'
  BY <1>c, <1>t DEF Answer, NoCall, TargetOK, At
<1>d. ASSUME NEW x, NEW p, x # "flag", Begin(u, x, p) PROVE TargetOK'
  BY <1>d, <1>t DEF Begin, NoCall, TargetOK, At
<1>e. call[u].then # "flag" BY <1>t DEF CallRow, Returns
<1>r. call[u] \in CallRow BY <1>t
<1>1. CASE BeginCall(u) \/ BeginWithdraw(u) \/ CrashCaller(u)
  BY <1>1, <1>a, <1>c, <1>d DEF BeginCall, BeginCreate, BeginPoll, BeginTrash, BeginDelete,
       BeginWithdraw, CrashCaller, NoCall
<1>2. CASE InsertProject(u) \/ RequestStart(u) \/ AddStartRequest(u) \/ PurgeProject(u)
           \/ FinishAbort(u) \/ DeleteArtifacts(u) \/ ClearForms(u) \/ LockTimeout(u)
           \/ RetireRequests(u) \/ Cascade(u) \/ AbortRun(u) \/ RequestAbort(u)
  BY <1>2, <1>b, <1>c, <1>e DEF InsertProject, RequestStart, AddStartRequest, PurgeProject,
       FinishAbort, DeleteArtifacts, ClearForms, LockTimeout, RetireRequests, Cascade, AbortRun, RequestAbort
<1>3. CASE CheckUser(u) \/ RecheckUser(u) \/ ListRequests(u) \/ FindRuns(u) \/ LookAfterAbort(u)
  BY <1>3, <1>r, <1>a, <1>b, <1>c DEF CheckUser, RecheckUser, ListRequests, FindRuns, LookAfterAbort, CallRow
<1>4. CASE CancelStartRequest(u) \/ RetireRun(u)
  BY <1>4, <1>r, <1>a, <1>c DEF CancelStartRequest, RetireRun, At, CallRow
<1>5. CASE ViewProject(u) \/ ListProjects(u) \/ NextProject(u) \/ LockAccount(u) \/ ListRuns(u) \/ ListAllRequests(u)
  BY <1>5, <1>r, <1>a, <1>b, <1>c DEF ViewProject, ListProjects, NextProject, LockAccount, ListRuns,
       ListAllRequests, CallRow
<1> QED BY <1>1, <1>2, <1>3, <1>4, <1>5 DEF CallStep

\* The type invariant, for any number of projects, workers and web requests.
THEOREM AccountTypes == Spec => []TypeOK
<1>1. Init => TypeOK /\ TargetOK
  BY InitTypes DEF Init, NoCall, TargetOK, At
<1>2. TypeOK /\ TargetOK /\ [Next]_vars => TypeOK' /\ TargetOK'
  <2> SUFFICES ASSUME TypeOK, TargetOK, [Next]_vars PROVE TypeOK'
    BY TargetStep
  <2>1. CASE StoreStep /\ UNCHANGED <<user, call, stopped>>
    BY <2>1, StoreStepTypes DEF TypeOK, StoreTypes
  <2>2. CASE \E u \in Callers : BeginCall(u) \/ BeginWithdraw(u) \/ CallStep(u) \/ CrashCaller(u)
    BY <2>2, CallStepTypes
  <2>3. CASE UNCHANGED vars
    BY <2>3 DEF TypeOK, vars, storeVars
  <2> QED BY <2>1, <2>2, <2>3 DEF Next
<1> QED BY <1>1, <1>2, PTL DEF Spec

-----------------------------------------------------------------------------
(* One piece of work at a time *)

\* A step that leaves the status of every request and the runs alone.
Quiet == /\ \A r \in Requests : request'[r].status = request[r].status
         /\ \A p \in Projects : run'[p] = run[p]

\* Such a step leaves the active things as they were.
LEMMA QuietWork == Quiet => ActiveWork' = ActiveWork
BY DEF Quiet, ActiveWork, Pending, ActiveRuns

\* What a step may do to the active things: take some away, add a start
\* request to none, or put a run in the place of its start request.
Moves ==
  \/ ActiveWork' \subseteq ActiveWork
  \/ ActiveWork = {} /\ \E r \in Requests : ActiveWork' = {r}
  \/ \E r \in Requests : r \in ActiveWork /\ ActiveWork' = {ProjectOf(r)}

\* A request that was not pending does not become so.
LEMMA FewerRequests ==
  ASSUME UNCHANGED run, \A r \in Requests : r \in Pending' => r \in Pending
  PROVE  ActiveWork' \subseteq ActiveWork
BY DEF ActiveWork, Pending, ActiveRuns

\* A worker, a heartbeat or a run does one of the moves.
LEMMA StoreMoves ==
  ASSUME TypeOK, OneActive, StoreStep
  PROVE  Moves
<1> USE DEF TypeOK
<1>q. ASSUME NEW w \in Workers, worker[w].at # "idle" PROVE worker[w].req \in Requests
  BY <1>q DEF WorkerState, Idle
<1>1. ASSUME NEW w \in Workers, ClaimStartRequest(w) PROVE Moves
  <2>1. PICK r \in Requests : Claimable(request[r]) /\ Put(r, Taken(request[r], w)) /\ UNCHANGED run
    BY <1>1 DEF ClaimStartRequest
  <2>2. \A s \in Requests : s \in Pending' => s \in Pending
    BY <2>1 DEF Claimable, Put, Taken, Pending
  <2> QED BY <2>1, <2>2, FewerRequests DEF Moves
<1>2. ASSUME NEW w \in Workers, AcquireStartRequest(w) PROVE Moves
  <2> DEFINE r == worker[w].req
  <2>1. r \in Requests BY <1>2, <1>q DEF AcquireStartRequest
  <2>2. /\ UNCHANGED run
        /\ UNCHANGED request \/ (r \in Pending /\ Put(r, Taken(request[r], w)))
    BY <1>2, <2>1 DEF AcquireStartRequest, Claimable, Pending
  <2> HIDE DEF r
  <2>3. \A s \in Requests : s \in Pending' => s \in Pending
    BY <2>1, <2>2 DEF Put, Pending
  <2> QED BY <2>2, <2>3, FewerRequests DEF Moves
<1>3. ASSUME NEW w \in Workers, ReadRequest(w) \/ DrainPreStage(w) \/ WorkerLockTimeout(w) \/ Raise(w)
      PROVE  Moves
  BY <1>3, FewerRequests DEF ReadRequest, DrainPreStage, WorkerLockTimeout, Raise, Moves, Pending
<1>4. ASSUME NEW w \in Workers, FinishStartRequest(w) PROVE Moves
  <2> DEFINE r == worker[w].req
  <2>1. r \in Requests BY <1>4, <1>q DEF FinishStartRequest
  <2>2. /\ UNCHANGED run
        /\ \/ UNCHANGED request
           \/ \E s \in {"failed", "cancelled"} : Put(r, Closed(request[r], s))
    BY <1>4 DEF FinishStartRequest
  <2> HIDE DEF r
  <2>3. \A s \in Requests : s \in Pending' => s \in Pending
    BY <2>1, <2>2 DEF Put, Closed, Pending
  <2> QED BY <2>2, <2>3, FewerRequests DEF Moves
<1>5. ASSUME NEW w \in Workers, CreateRunForRequest(w) PROVE Moves
  <2> DEFINE r == worker[w].req
  <2>1. r \in Requests BY <1>5, <1>q DEF CreateRunForRequest
  <2>2. ProjectOf(r) \in Projects BY <2>1 DEF Requests, ProjectOf
  <2>3. \/ UNCHANGED <<request, run>>
        \/ Put(r, Closed(request[r], "cancelled")) /\ UNCHANGED run
        \/ /\ request[r].status = "taken" /\ ActiveRuns = {}
           /\ Put(r, Closed(request[r], "done")) /\ InsertRun(ProjectOf(r))
    BY <1>5 DEF CreateRunForRequest
  <2> HIDE DEF r
  <2>4. CASE UNCHANGED <<request, run>>
    BY <2>4, FewerRequests DEF Moves, Pending
  <2>5. CASE Put(r, Closed(request[r], "cancelled")) /\ UNCHANGED run
    <3>1. \A s \in Requests : s \in Pending' => s \in Pending
      BY <2>1, <2>5 DEF Put, Closed, Pending
    <3> QED BY <2>5, <3>1, FewerRequests DEF Moves
  <2>6. CASE /\ request[r].status = "taken" /\ ActiveRuns = {}
             /\ Put(r, Closed(request[r], "done")) /\ InsertRun(ProjectOf(r))
    <3>1. r \in Pending BY <2>1, <2>6 DEF Pending
    <3>2. \A s \in Pending : s = r BY <3>1 DEF OneActive, ActiveWork
    <3>3. Pending' = {}
      <4>1. request'[r].status = "done" BY <2>1, <2>6 DEF Put, Closed
      <4>2. \A s \in Requests : s # r => request'[s] = request[s] BY <2>6 DEF Put
      <4> QED BY <3>2, <4>1, <4>2 DEF Pending
    <3>4. ActiveRuns' = {ProjectOf(r)}
      BY <2>2, <2>6 DEF InsertRun, ActiveRuns, ActiveRun
    <3>5. ActiveWork' = {ProjectOf(r)} BY <3>3, <3>4 DEF ActiveWork
    <3> QED BY <2>1, <3>1, <3>5 DEF Moves, ActiveWork
  <2> QED BY <2>3, <2>4, <2>5, <2>6
<1>6. ASSUME NEW w \in Workers, CrashWorker(w) PROVE Moves
  <2>1. Quiet BY <1>6, RowTypes DEF CrashWorker, Quiet, RequestRow
  <2> QED BY <2>1, QuietWork DEF Moves
<1>7. ASSUME NEW r \in Requests, Heartbeat(r) \/ ExpireRequest(r) \/ MissRenewals(r) PROVE Moves
  <2>1. Quiet BY <1>7 DEF Heartbeat, ExpireRequest, MissRenewals, Put, Quiet, RequestRow
  <2> QED BY <2>1, QuietWork DEF Moves
<1>8. ASSUME NEW p \in Projects, LockRun(p) \/ UnlockRun(p) PROVE Moves
  <2>1. UNCHANGED request /\ \A x \in Projects : run'[x] \in ActiveRun => run[x] \in ActiveRun
    BY <1>8 DEF LockRun, UnlockRun, ActiveRun
  <2> QED BY <2>1 DEF Moves, ActiveWork, Pending, ActiveRuns
<1> QED BY <1>1, <1>2, <1>3, <1>4, <1>5, <1>6, <1>7, <1>8 DEF StoreStep, WorkerStep

\* So does each step of a web request.
LEMMA CallMovesWork ==
  ASSUME TypeOK, OneActive, NEW u \in Callers, BeginCall(u) \/ BeginWithdraw(u) \/ CallStep(u) \/ CrashCaller(u)
  PROVE  Moves
<1> USE DEF TypeOK
<1>u. ASSUME UNCHANGED <<request, run>> PROVE Moves
  BY <1>u, FewerRequests DEF Moves, Pending
<1>1. CASE BeginCall(u) \/ BeginWithdraw(u) \/ CrashCaller(u)
  BY <1>1, <1>u DEF BeginCall, BeginCreate, BeginPoll, BeginTrash, BeginDelete, BeginWithdraw,
       CrashCaller, storeVars
<1>2. CASE InsertProject(u) \/ CheckUser(u) \/ RequestStart(u) \/ RecheckUser(u) \/ PurgeProject(u)
           \/ ListRequests(u) \/ FindRuns(u) \/ RequestAbort(u) \/ LookAfterAbort(u) \/ FinishAbort(u)
  BY <1>2, <1>u DEF InsertProject, CheckUser, RequestStart, RecheckUser, PurgeProject,
       ListRequests, FindRuns, RequestAbort, LookAfterAbort, FinishAbort, storeVars
<1>3. CASE ViewProject(u) \/ DeleteArtifacts(u) \/ ListProjects(u) \/ NextProject(u) \/ LockAccount(u)
           \/ LockTimeout(u) \/ ListRuns(u) \/ ListAllRequests(u) \/ Cascade(u)
  BY <1>3, <1>u DEF ViewProject, DeleteArtifacts, ListProjects, NextProject, LockAccount,
       LockTimeout, ListRuns, ListAllRequests, Cascade, storeVars
<1>4. CASE AddStartRequest(u)
  <2>1. CASE UNCHANGED request
    BY <1>4, <2>1, <1>u DEF AddStartRequest
  <2>2. CASE NothingActive /\ \E n \in 1..MaxTries : Put(<<call[u].project, n>>, Queued)
    <3>1. PICK n \in 1..MaxTries : Put(<<call[u].project, n>>, Queued) BY <2>2
    <3> DEFINE a == <<call[u].project, n>>
    <3>2. ActiveWork = {} BY <2>2 DEF NothingActive
    <3>3. ActiveRuns' = {} BY <1>4, <3>2 DEF AddStartRequest, ActiveWork, ActiveRuns
    <3>4. \A r \in Requests : r # a => request'[r] = request[r] BY <3>1 DEF Put
    <3>5. \A r \in Requests : r # a => r \notin Pending' BY <3>2, <3>4 DEF ActiveWork, Pending
    <3>6. CASE a \in Requests
      <4>1. request'[a] = Queued BY <3>1, <3>6 DEF Put
      <4>2. Pending' = {a} BY <3>5, <3>6, <4>1 DEF Pending, Queued
      <4> QED BY <3>2, <3>3, <3>6, <4>2 DEF Moves, ActiveWork
    <3>7. CASE a \notin Requests
      <4>1. Pending' = {} BY <3>5, <3>7 DEF Pending
      <4> QED BY <3>3, <4>1 DEF Moves, ActiveWork
    <3> QED BY <3>6, <3>7
  <2> QED BY <1>4, <2>1, <2>2 DEF AddStartRequest
<1>5. CASE CancelStartRequest(u)
  <2>1. PICK r \in call[u].todo : Put(r, Cancelled(request[r])) /\ UNCHANGED run
    BY <1>5 DEF CancelStartRequest
  <2>2. r \in Requests BY DEF CallRow
  <2>3. \A s \in Requests : s \in Pending' => s \in Pending
    <3>1. request'[r] = Cancelled(request[r]) /\ request[r] \in RequestRow BY <2>1, <2>2 DEF Put
    <3>2. \A s \in Requests : s # r => request'[s] = request[s] BY <2>1 DEF Put
    <3>3. Cancelled(request[r]).status \in {"queued", "taken"} => request[r].status \in {"queued", "taken"}
      BY DEF Cancelled, Closed
    <3> QED BY <3>1, <3>2, <3>3 DEF Pending
  <2> QED BY <2>1, <2>3, FewerRequests DEF Moves
<1>6. CASE AbortRun(u) \/ RetireRun(u)
  <2>1. UNCHANGED request /\ \A x \in Projects : run'[x] \in ActiveRun => run[x] \in ActiveRun
    BY <1>6 DEF AbortRun, RetireRun, ActiveRun
  <2> QED BY <2>1 DEF Moves, ActiveWork, Pending, ActiveRuns
<1>7. CASE ClearForms(u)
  <2>1. Quiet BY <1>7 DEF ClearForms, Quiet, RequestRow
  <2> QED BY <2>1, QuietWork DEF Moves
<1>8. CASE RetireRequests(u)
  <2>1. \A s \in Requests : s \in Pending' => s \in Pending
    BY <1>8 DEF RetireRequests, Removed, NoRow, Pending
  <2> QED BY <1>8, <2>1, FewerRequests DEF RetireRequests, Moves
<1> QED BY <1>1, <1>2, <1>3, <1>4, <1>5, <1>6, <1>7, <1>8 DEF CallStep

\* Every step of the account does one of the moves or none.
LEMMA WorkMoves ==
  ASSUME TypeOK, OneActive, [Next]_vars
  PROVE  Moves
<1>1. CASE UNCHANGED vars
  BY <1>1 DEF vars, storeVars, Moves, ActiveWork, Pending, ActiveRuns
<1> QED BY <1>1, StoreMoves, CallMovesWork DEF Next

\* However the web requests of an account and the workers overlap, it has at
\* most one start request or run: OneActive is inductive, because whoever adds
\* a request has just counted none, and whoever creates a run holds the one
\* request there is (add_start_request, create_run_for_request).
THEOREM AtMostOneWork == Spec => []OneActive
<1>1. Init => OneActive
  BY DEF Init, OneActive, ActiveWork, Pending, ActiveRuns, ActiveRun, NoRow
<1>2. TypeOK /\ OneActive /\ [Next]_vars => OneActive'
  <2> SUFFICES ASSUME TypeOK, OneActive, [Next]_vars PROVE OneActive' OBVIOUS
  <2>1. Moves BY WorkMoves
  <2> QED BY <2>1 DEF Moves, OneActive
<1> QED BY <1>1, <1>2, AccountTypes, PTL DEF Spec

-----------------------------------------------------------------------------
(* The abstract account *)

\* Work is the one active thing.
LEMMA TheWork ==
  ASSUME OneActive
  PROVE  /\ ActiveWork = {} => Work = NoWork
         /\ \A x \in ActiveWork : ActiveWork = {x} /\ Work = x
BY DEF OneActive, Work

\* Seen from outside, every step begins, turns into a run or ends the one
\* piece of work of the account, or leaves it.
THEOREM ImplementsWork == Spec => WorkSpec
<1>1. Init => Abstract!Init
  BY DEF Init, Abstract!Init, Work, ActiveWork, Pending, ActiveRuns, ActiveRun, NoRow
<1>2. TypeOK /\ OneActive /\ OneActive' /\ [Next]_vars => [Abstract!Next]_Work
  <2> SUFFICES ASSUME TypeOK, OneActive, OneActive', [Next]_vars PROVE [Abstract!Next]_Work
    OBVIOUS
  <2>1. Moves BY WorkMoves
  <2>2. \A x \in ActiveWork : x # NoWork
    BY StartRequestsAssumption DEF StartRequestsAssumption, NoWork, ActiveWork, Pending, ActiveRuns
  <2>3. /\ ActiveWork' = {} => Work' = NoWork
        /\ \A x \in ActiveWork' : Work' = x
    BY DEF OneActive, Work, NoWork
  <2>4. CASE ActiveWork' \subseteq ActiveWork
    <3>1. CASE ActiveWork' = {}
      <4>1. Work' = NoWork BY <2>3, <3>1
      <4>2. CASE ActiveWork = {} BY <4>1, <4>2, TheWork
      <4>3. CASE ActiveWork # {}
        <5>1. Work # NoWork BY <2>2, <4>3, TheWork
        <5> QED BY <4>1, <5>1 DEF Abstract!Next, Abstract!End
      <4> QED BY <4>2, <4>3
    <3>2. CASE ActiveWork' # {}
      <4>1. PICK x : x \in ActiveWork' BY <3>2
      <4>2. Work' = x /\ Work = x BY <2>3, <2>4, <4>1, TheWork
      <4> QED BY <4>2
    <3> QED BY <3>1, <3>2
  <2>5. CASE ActiveWork = {} /\ \E r \in Requests : ActiveWork' = {r}
    <3>1. Work = NoWork BY <2>5, TheWork
    <3>2. Work' \in Requests BY <2>3, <2>5
    <3> QED BY <3>1, <3>2 DEF Abstract!Next, Abstract!Ask
  <2>6. CASE \E r \in Requests : r \in ActiveWork /\ ActiveWork' = {ProjectOf(r)}
    <3>1. PICK r \in Requests : r \in ActiveWork /\ ActiveWork' = {ProjectOf(r)} BY <2>6
    <3>2. Work = r /\ Work' = ProjectOf(r) BY <2>3, <3>1, TheWork
    <3> QED BY <3>1, <3>2 DEF Abstract!Next, Abstract!Begin
  <2> QED BY <2>1, <2>4, <2>5, <2>6 DEF Moves
<1>3. Spec => []OneActive BY AtMostOneWork
<1>4. Spec => []TypeOK BY AccountTypes
<1> QED BY <1>1, <1>2, <1>3, <1>4, PTL DEF Spec, WorkSpec, Abstract!Spec
-----------------------------------------------------------------------------
(* A cancelled start request stays stopped *)

\* What a step may do to the row of a start request, but for its start.
RowMoves(q, z) ==
  \/ z.status = q.status /\ (q.cancel => z.cancel)
  \/ q.status \in {"queued", "taken"} /\ z.status = "taken" /\ (q.cancel => z.cancel)
  \/ q.status \in {"queued", "taken"} /\ z.status \in {"failed", "cancelled"}
  \/ q.status # "none" /\ z.status = "deleted"

\* It becomes a run, or it is put in, the next of its project, while nothing waits.
Starts(r) ==
  /\ request[r].status = "taken" /\ ~request[r].cancel /\ rows[ProjectOf(r)] # "deleted"
  /\ request'[r].status = "done"
Asked(r) ==
  /\ request[r].status = "none" /\ request'[r].status = "queued"
  /\ rows[ProjectOf(r)] # "new" /\ Pending = {}
  /\ \A m \in 1..(r[2] - 1) : request[<<ProjectOf(r), m>>].status # "none"
  /\ \A s \in Requests : s # r => request'[s] = request[s]

\* A project's row is not made anew and does not come back, a request to stop
\* stays, and a run comes only from a start request.
ProjectsMove ==
  \A p \in Projects : /\ rows[p] = "deleted" => rows'[p] = "deleted"
                      /\ rows[p] # "new" => rows'[p] # "new"
RequestsMove == \A r \in Requests : RowMoves(request[r], request'[r]) \/ Starts(r) \/ Asked(r)
RunsMove ==
  \A p \in Projects : run'[p] \in ActiveRun =>
    run[p] \in ActiveRun \/ \E n \in 1..MaxTries : Starts(<<p, n>>)
Progress == ProjectsMove /\ RequestsMove /\ RunsMove /\ flagged \subseteq flagged'

\* A later request of a project is put in only after the earlier ones are over.
InTurn ==
  \A p \in Projects : \A m, n \in 1..MaxTries :
    m < n /\ request[<<p, n>>].status # "none" => request[<<p, m>>].status \notin {"none", "queued", "taken"}

\* Only a project with a row has start requests.
Placed ==
  /\ \A r \in Requests : request[r].status # "none" => rows[ProjectOf(r)] # "new"
  /\ \A u \in Callers : At(u, "add") /\ call[u].project \in Projects => rows[call[u].project] # "new"

\* Whatever a call has listed was in the table.
FoundThere == \A u \in Callers : \A r \in call[u].found : request[r].status # "none"

\* The cancellation has been written, or came too late.
Seen(r) ==
  \/ rows[ProjectOf(r)] = "deleted"
  \/ request[r].status \in {"failed", "cancelled", "deleted", "done"}
  \/ request[r].status = "taken" /\ request[r].cancel

\* The run it became goes on, and nobody has asked it to stop.
Loose(r) ==
  /\ request[r].status = "done" /\ rows[ProjectOf(r)] # "deleted"
  /\ ProjectOf(r) \in ActiveRuns /\ ~AskedAgain(r) /\ ProjectOf(r) \notin flagged

\* How far an abort has come with what it found.
Stopping(u) ==
  /\ call[u].at \in {"cancel", "abort", "flag", "after"} => \A r \in call[u].found : ProjectOf(r) \in Scope(u)
  /\ At(u, "cancel") => \A r \in call[u].found \ call[u].todo : Seen(r)
  /\ call[u].at \in {"abort", "flag", "after"} =>
       \A r \in call[u].found : Seen(r) /\ (Loose(r) => ProjectOf(r) \in call[u].runs)
  /\ At(u, "after") => \A r \in call[u].found : Loose(r) => ProjectOf(r) # Target(u)

\* The abort that found it has returned.
StaysStopped == \A r \in stopped : Seen(r) /\ ~Loose(r)

\* What the operations make of a row are moves of it.
LEMMA RowSteps ==
  ASSUME NEW q \in RequestRow
  PROVE  /\ RowMoves(q, q)
         /\ \A b \in BOOLEAN : RowMoves(q, [q EXCEPT !.live = b]) /\ RowMoves(q, [q EXCEPT !.form = b])
         /\ RowMoves(q, [q EXCEPT !.holder = Ghost]) /\ RowMoves(q, Cancelled(q))
         /\ q.status # "none" => RowMoves(q, Removed)
         /\ q.status \in {"queued", "taken"} =>
              /\ \A w \in Workers : RowMoves(q, Taken(q, w))
              /\ \A s \in {"failed", "cancelled"} : RowMoves(q, Closed(q, s))
<1>1. RowMoves(q, q) BY DEF RowMoves
<1>2. ASSUME NEW b \in BOOLEAN PROVE RowMoves(q, [q EXCEPT !.live = b]) /\ RowMoves(q, [q EXCEPT !.form = b])
  BY DEF RowMoves, RequestRow
<1>3. RowMoves(q, [q EXCEPT !.holder = Ghost]) BY DEF RowMoves, RequestRow
<1>4. RowMoves(q, Cancelled(q))
  <2>1. [q EXCEPT !.cancel = TRUE].status = q.status /\ [q EXCEPT !.cancel = TRUE].cancel = TRUE BY DEF RequestRow
  <2>2. Closed(q, "cancelled").status = "cancelled" BY DEF Closed
  <2> QED BY <2>1, <2>2 DEF Cancelled, RowMoves
<1>5. q.status # "none" => RowMoves(q, Removed) BY DEF RowMoves, Removed, NoRow
<1>6. q.status \in {"queued", "taken"} =>
        /\ \A w \in Workers : RowMoves(q, Taken(q, w))
        /\ \A s \in {"failed", "cancelled"} : RowMoves(q, Closed(q, s))
  BY DEF RowMoves, Taken, Closed
<1> QED BY <1>1, <1>2, <1>3, <1>4, <1>5, <1>6

\* One row is written.
LEMMA OneRowMoves ==
  ASSUME TypeOK, NEW r \in Requests, NEW z, Put(r, z), RowMoves(request[r], z) \/ Starts(r)
  PROVE  RequestsMove
<1>1. request \in [Requests -> RequestRow] BY DEF TypeOK
<1>2. request'[r] = z /\ \A s \in Requests : s # r => request'[s] = request[s] BY <1>1 DEF Put
<1>3. \A s \in Requests : RowMoves(request[s], request[s]) BY <1>1, RowSteps
<1> QED BY <1>2, <1>3 DEF RequestsMove

\* A step that leaves the requests alone.
LEMMA QuietRequests == ASSUME TypeOK, UNCHANGED request PROVE RequestsMove
BY RowSteps DEF RequestsMove, TypeOK

\* Workers, runs and time do no more than this, and write no project.
LEMMA StoreProgress == ASSUME TypeOK, StoreStep PROVE Progress /\ rows' = rows
<1> USE DEF TypeOK
<1>q. ASSUME NEW w \in Workers, worker[w].at # "idle" PROVE worker[w].req \in Requests
  BY <1>q DEF WorkerState, Idle
<1>r. ASSUME UNCHANGED <<rows, flagged, run>>, RequestsMove PROVE Progress /\ rows' = rows
  BY <1>r DEF Progress, ProjectsMove, RunsMove
<1>1. ASSUME NEW w \in Workers, ClaimStartRequest(w) PROVE Progress /\ rows' = rows
  <2>1. PICK r \in Requests : Claimable(request[r]) /\ Put(r, Taken(request[r], w))
    BY <1>1 DEF ClaimStartRequest
  <2>2. RowMoves(request[r], Taken(request[r], w)) BY <2>1, RowSteps DEF Claimable
  <2>3. RequestsMove BY <2>1, <2>2, OneRowMoves
  <2> QED BY <1>1, <1>r, <2>3 DEF ClaimStartRequest
<1>2. ASSUME NEW w \in Workers, AcquireStartRequest(w) PROVE Progress /\ rows' = rows
  <2> DEFINE r == worker[w].req
  <2>1. r \in Requests BY <1>2, <1>q DEF AcquireStartRequest
  <2>2. \/ UNCHANGED request
        \/ Put(r, Taken(request[r], w)) /\ request[r].status \in {"queued", "taken"}
    BY <1>2 DEF AcquireStartRequest, Claimable
  <2> HIDE DEF r
  <2>3. RequestsMove BY <2>1, <2>2, RowSteps, OneRowMoves, QuietRequests
  <2> QED BY <1>2, <1>r, <2>3 DEF AcquireStartRequest
<1>3. ASSUME NEW w \in Workers, ReadRequest(w) \/ DrainPreStage(w) \/ WorkerLockTimeout(w) \/ Raise(w)
      PROVE  Progress /\ rows' = rows
  BY <1>3, <1>r, QuietRequests DEF ReadRequest, DrainPreStage, WorkerLockTimeout, Raise
<1>4. ASSUME NEW w \in Workers, FinishStartRequest(w) PROVE Progress /\ rows' = rows
  <2> DEFINE r == worker[w].req
  <2>1. r \in Requests BY <1>4, <1>q DEF FinishStartRequest
  <2>2. \/ UNCHANGED request
        \/ request[r].status = "taken" /\ \E s \in {"failed", "cancelled"} : Put(r, Closed(request[r], s))
    BY <1>4 DEF FinishStartRequest
  <2> HIDE DEF r
  <2>3. RequestsMove BY <2>1, <2>2, RowSteps, OneRowMoves, QuietRequests
  <2> QED BY <1>4, <1>r, <2>3 DEF FinishStartRequest
<1>5. ASSUME NEW w \in Workers, CreateRunForRequest(w) PROVE Progress /\ rows' = rows
  <2> DEFINE r == worker[w].req
  <2>1. r \in Requests BY <1>5, <1>q DEF CreateRunForRequest
  <2>2. /\ UNCHANGED <<rows, flagged>>
        /\ \/ UNCHANGED <<request, run>>
           \/ Put(r, Closed(request[r], "cancelled")) /\ request[r].status = "taken" /\ UNCHANGED run
           \/ /\ request[r].status = "taken" /\ ~request[r].cancel /\ rows[ProjectOf(r)] # "deleted"
              /\ Put(r, Closed(request[r], "done")) /\ InsertRun(ProjectOf(r))
    BY <1>5 DEF CreateRunForRequest, Stopped
  <2> HIDE DEF r
  <2>3. CASE UNCHANGED <<request, run>> BY <1>r, <2>2, <2>3, QuietRequests
  <2>4. CASE Put(r, Closed(request[r], "cancelled")) /\ request[r].status = "taken" /\ UNCHANGED run
    BY <1>r, <2>1, <2>2, <2>4, RowSteps, OneRowMoves
  <2>5. CASE /\ request[r].status = "taken" /\ ~request[r].cancel /\ rows[ProjectOf(r)] # "deleted"
             /\ Put(r, Closed(request[r], "done")) /\ InsertRun(ProjectOf(r))
    <3>1. request'[r].status = "done" BY <2>1, <2>5 DEF Put, Closed
    <3>2. Starts(r) BY <2>5, <3>1 DEF Starts
    <3>3. RequestsMove BY <2>1, <2>5, <3>2, OneRowMoves
    <3>4. PICK p \in Projects, n \in 1..MaxTries : r = <<p, n>> BY <2>1 DEF Requests
    <3>5. ProjectOf(r) = p BY <3>4 DEF ProjectOf
    <3>6. \A x \in Projects : x # p => run'[x] = run[x] BY <2>5, <3>5 DEF InsertRun
    <3>7. RunsMove BY <3>2, <3>4, <3>6 DEF RunsMove
    <3> QED BY <2>2, <3>3, <3>7 DEF Progress, ProjectsMove
  <2> QED BY <2>2, <2>3, <2>4, <2>5
<1>6. ASSUME NEW w \in Workers, CrashWorker(w) PROVE Progress /\ rows' = rows
  <2>1. RequestsMove BY <1>6, RowSteps DEF CrashWorker, RequestsMove
  <2> QED BY <1>6, <1>r, <2>1 DEF CrashWorker
<1>7. ASSUME NEW r \in Requests, Heartbeat(r) \/ ExpireRequest(r) \/ MissRenewals(r) PROVE Progress /\ rows' = rows
  <2>1. RequestsMove
    BY <1>7, RowSteps, OneRowMoves DEF Heartbeat, ExpireRequest, MissRenewals
  <2> QED BY <1>7, <1>r, <2>1 DEF Heartbeat, ExpireRequest, MissRenewals
<1>8. ASSUME NEW p \in Projects, LockRun(p) \/ UnlockRun(p) PROVE Progress /\ rows' = rows
  <2>1. \A x \in Projects : run'[x] \in ActiveRun => run[x] \in ActiveRun
    BY <1>8 DEF LockRun, UnlockRun, ActiveRun
  <2>2. UNCHANGED <<request, rows, flagged>> BY <1>8 DEF LockRun, UnlockRun
  <2> QED BY <2>1, <2>2, QuietRequests DEF Progress, ProjectsMove, RunsMove
<1> QED BY <1>1, <1>2, <1>3, <1>4, <1>5, <1>6, <1>7, <1>8 DEF StoreStep, WorkerStep

\* Neither do the web requests.
LEMMA CallProgress ==
  ASSUME TypeOK, InTurn, Placed, FoundThere, NEW u \in Callers,
         BeginCall(u) \/ BeginWithdraw(u) \/ CallStep(u) \/ CrashCaller(u)
  PROVE  Progress
<1> USE DEF TypeOK
<1>r. ASSUME UNCHANGED <<rows, flagged, run>>, RequestsMove PROVE Progress
  BY <1>r DEF Progress, ProjectsMove, RunsMove
<1>1. CASE BeginCall(u) \/ BeginWithdraw(u) \/ CrashCaller(u)
  BY <1>1, <1>r, QuietRequests DEF BeginCall, BeginCreate, BeginPoll, BeginTrash, BeginDelete, BeginWithdraw,
       CrashCaller, storeVars
<1>2. CASE CheckUser(u) \/ RequestStart(u) \/ RecheckUser(u) \/ ListRequests(u) \/ FindRuns(u)
           \/ LookAfterAbort(u) \/ FinishAbort(u) \/ DeleteArtifacts(u) \/ ListProjects(u) \/ NextProject(u)
           \/ LockAccount(u) \/ LockTimeout(u) \/ ListRuns(u) \/ ListAllRequests(u)
  BY <1>2, <1>r, QuietRequests DEF CheckUser, RequestStart, RecheckUser, ListRequests, FindRuns,
       LookAfterAbort, FinishAbort, DeleteArtifacts, ListProjects, NextProject, LockAccount, LockTimeout,
       ListRuns, ListAllRequests, storeVars
<1>3. CASE InsertProject(u) \/ PurgeProject(u) \/ ViewProject(u) \/ Cascade(u)
  <2>1. UNCHANGED <<request, run, flagged>> BY <1>3 DEF InsertProject, PurgeProject, ViewProject, Cascade
  <2>2. ProjectsMove
    <3>1. CASE InsertProject(u) BY <3>1 DEF InsertProject, ProjectsMove
    <3>2. CASE PurgeProject(u) BY <3>2 DEF PurgeProject, ProjectsMove
    <3>3. CASE ViewProject(u) BY <3>3 DEF ViewProject, ProjectsMove, RunOf
    <3>4. CASE Cascade(u) BY <3>4 DEF Cascade, ProjectsMove
    <3> QED BY <1>3, <3>1, <3>2, <3>3, <3>4
  <2> QED BY <2>1, <2>2, QuietRequests DEF Progress, RunsMove
<1>4. CASE AddStartRequest(u)
  <2>1. CASE UNCHANGED request BY <1>4, <1>r, <2>1, QuietRequests DEF AddStartRequest
  <2>2. CASE NothingActive /\ request' # request
    <3>1. PICK n \in 1..MaxTries :
            /\ request[<<call[u].project, n>>].status = "none"
            /\ \A m \in 1..(n - 1) : request[<<call[u].project, m>>].status # "none"
            /\ Put(<<call[u].project, n>>, Queued)
      BY <1>4, <2>2 DEF AddStartRequest
    <3> DEFINE a == <<call[u].project, n>>
    <3>2. \A s \in Requests : s # a => request'[s] = request[s] BY <3>1 DEF Put
    <3>3. a \in Requests BY <2>2, <3>1 DEF Put
    <3>4. call[u].project \in Projects /\ ProjectOf(a) = call[u].project /\ a[2] = n
      BY <3>3 DEF Requests, ProjectOf
    <3>5. request'[a].status = "queued" BY <3>1, <3>3 DEF Put, Queued
    <3>6. Pending = {} BY <2>2 DEF NothingActive, ActiveWork
    <3>7. rows[call[u].project] # "new" BY <1>4, <3>4 DEF Placed, AddStartRequest
    <3> HIDE DEF a
    <3>8. Asked(a) BY <3>1, <3>2, <3>4, <3>5, <3>6, <3>7 DEF Asked, a
    <3>9. RequestsMove BY <3>2, <3>8, RowSteps DEF RequestsMove
    <3> QED BY <1>4, <1>r, <3>9 DEF AddStartRequest
  <2> QED BY <1>4, <2>1, <2>2 DEF AddStartRequest
<1>5. CASE CancelStartRequest(u)
  <2>1. PICK r \in call[u].todo : Put(r, Cancelled(request[r]))
    BY <1>5 DEF CancelStartRequest
  <2>2. r \in Requests BY DEF CallRow
  <2>3. RequestsMove BY <2>1, <2>2, RowSteps, OneRowMoves
  <2> QED BY <1>5, <1>r, <2>3 DEF CancelStartRequest
<1>6. CASE AbortRun(u) \/ RetireRun(u)
  <2>1. UNCHANGED <<request, rows, flagged>> /\ \A x \in Projects : run'[x] \in ActiveRun => run[x] \in ActiveRun
    BY <1>6 DEF AbortRun, RetireRun, ActiveRun
  <2> QED BY <2>1, QuietRequests DEF Progress, ProjectsMove, RunsMove
<1>7. CASE ClearForms(u)
  <2>1. RequestsMove BY <1>7, RowSteps DEF ClearForms, RequestsMove
  <2> QED BY <1>7, <1>r, <2>1 DEF ClearForms
<1>8. CASE RetireRequests(u)
  <2>1. RequestsMove BY <1>8, RowSteps DEF RetireRequests, RequestsMove, FoundThere
  <2> QED BY <1>8, <1>r, <2>1 DEF RetireRequests
<1>9. CASE RequestAbort(u)
  BY <1>9, QuietRequests DEF RequestAbort, Progress, ProjectsMove, RunsMove
<1> QED BY <1>1, <1>2, <1>3, <1>4, <1>5, <1>6, <1>7, <1>8, <1>9 DEF CallStep

\* Whoever takes a step of its own leaves the other calls alone; what it has
\* listed by then was in the table, and whoever may add has seen the project.
LEMMA OwnCall ==
  ASSUME TypeOK, NEW u \in Callers, BeginCall(u) \/ BeginWithdraw(u) \/ CallStep(u) \/ CrashCaller(u)
  PROVE  /\ \A v \in Callers : v # u => call'[v] = call[v]
         /\ \A r \in call'[u].found : r \in call[u].found \/ request[r].status # "none"
         /\ call'[u].at = "add" => rows[call'[u].project] # "new"
<1> DEFINE Goal == /\ \A v \in Callers : v # u => call'[v] = call[v]
                   /\ \A r \in call'[u].found : r \in call[u].found \/ request[r].status # "none"
                   /\ call'[u].at = "add" => rows[call'[u].project] # "new"
<1> SUFFICES Goal OBVIOUS
<1>t. call \in [Callers -> CallRow] BY DEF TypeOK
<1>r. call[u] \in CallRow BY <1>t
<1>a. ASSUME NEW c, c.found \subseteq call[u].found, c.at # "add", Become(u, c) PROVE Goal
  BY <1>a, <1>t DEF Become
<1>b. ASSUME NEW x, x # "add" \/ rows[call[u].project] # "new", Goto(u, x) PROVE Goal
  BY <1>b, <1>t DEF Goto, CallRow
<1>c. ASSUME Answer(u) PROVE Goal
  BY <1>c, <1>t DEF Answer, NoCall
<1>d. ASSUME NEW x, NEW p, x # "add", Begin(u, x, p) PROVE Goal
  BY <1>d, <1>t DEF Begin, NoCall
<1>e. call[u].then # "add" BY <1>r DEF CallRow, Returns
<1>f. ASSUME NEW c, \A r \in c.found : request[r].status # "none", c.at # "add", Become(u, c) PROVE Goal
  BY <1>f, <1>t DEF Become
<1> HIDE DEF Goal
<1>1. CASE BeginCall(u) \/ BeginWithdraw(u) \/ CrashCaller(u)
  <2>1. CASE BeginCreate(u) \/ BeginPoll(u) \/ BeginWithdraw(u) \/ CrashCaller(u)
    BY <2>1, <1>c, <1>d DEF BeginCreate, BeginPoll, BeginWithdraw, CrashCaller
  <2>2. CASE BeginTrash(u) \/ BeginDelete(u)
    BY <2>2, <1>a DEF BeginTrash, BeginDelete, NoCall
  <2> QED BY <1>1, <2>1, <2>2 DEF BeginCall
<1>2. CASE InsertProject(u) \/ AddStartRequest(u) \/ PurgeProject(u)
           \/ FinishAbort(u) \/ DeleteArtifacts(u) \/ ClearForms(u) \/ LockTimeout(u)
           \/ RetireRequests(u) \/ Cascade(u) \/ AbortRun(u) \/ RequestAbort(u)
  BY <1>2, <1>b, <1>c, <1>e DEF InsertProject, AddStartRequest, PurgeProject,
       FinishAbort, DeleteArtifacts, ClearForms, LockTimeout, RetireRequests, Cascade, AbortRun, RequestAbort
<1>3. CASE RequestStart(u)
  BY <1>3, <1>b, <1>c DEF RequestStart
<1>4. CASE CheckUser(u) \/ RecheckUser(u) \/ FindRuns(u) \/ LookAfterAbort(u)
  BY <1>4, <1>r, <1>a, <1>b, <1>c DEF CheckUser, RecheckUser, FindRuns, LookAfterAbort, CallRow
<1>5. CASE CancelStartRequest(u) \/ RetireRun(u)
  BY <1>5, <1>r, <1>a, <1>c DEF CancelStartRequest, RetireRun, At, CallRow
<1>6. CASE ViewProject(u) \/ ListProjects(u) \/ NextProject(u) \/ LockAccount(u) \/ ListRuns(u)
  BY <1>6, <1>r, <1>a, <1>b, <1>c DEF ViewProject, ListProjects, NextProject, LockAccount, ListRuns, CallRow
<1>7. CASE ListRequests(u) \/ ListAllRequests(u)
  <2> DEFINE rs == {r \in Pending : ProjectOf(r) \in Scope(u)}
             c == [call[u] EXCEPT !.at = "cancel", !.found = rs, !.todo = rs, !.busy = FALSE]
             d == [call[u] EXCEPT !.at = "remove", !.found = Kept]
  <2>1. Answer(u) \/ Become(u, c) \/ Become(u, d) BY <1>7 DEF ListRequests, ListAllRequests
  <2>2. c.found = rs /\ d.found = Kept /\ c.at = "cancel" /\ d.at = "remove" BY <1>r DEF CallRow
  <2>3. \A r \in rs \cup Kept : request[r].status # "none" BY DEF Pending, Kept
  <2> HIDE DEF rs, c, d
  <2>4. Become(u, c) => Goal BY <2>2, <2>3, <1>f
  <2>5. Become(u, d) => Goal BY <2>2, <2>3, <1>f
  <2> QED BY <2>1, <2>4, <2>5, <1>c
<1> QED BY <1>1, <1>2, <1>3, <1>4, <1>5, <1>6, <1>7 DEF CallStep

\* Once asked for, a start request leaves a row behind.
LEMMA RowStays ==
  ASSUME Progress, NEW r \in Requests, request[r].status # "none"
  PROVE  request'[r].status # "none"
BY DEF Progress, RequestsMove, RowMoves, Starts, Asked

\* A request is put in only while nothing waits, so the earlier ones are over.
LEMMA TurnStep == ASSUME InTurn, Progress PROVE InTurn'
<1> SUFFICES ASSUME NEW p \in Projects, NEW m \in 1..MaxTries, NEW n \in 1..MaxTries,
                    m < n, request'[<<p, n>>].status # "none"
             PROVE  request'[<<p, m>>].status \notin {"none", "queued", "taken"}
  BY DEF InTurn
<1>1. <<p, m>> \in Requests /\ <<p, n>> \in Requests BY DEF Requests
<1>2. CASE request[<<p, n>>].status # "none"
  <2>1. request[<<p, m>>].status \notin {"none", "queued", "taken"} BY <1>2 DEF InTurn
  <2> QED BY <1>1, <2>1 DEF Progress, RequestsMove, RowMoves, Starts, Asked
<1>3. CASE request[<<p, n>>].status = "none"
  <2>1. Asked(<<p, n>>) BY <1>1, <1>3 DEF Progress, RequestsMove, RowMoves, Starts
  <2>2. ProjectOf(<<p, n>>) = p /\ <<p, n>>[2] = n /\ <<p, m>> # <<p, n>> BY DEF ProjectOf
  <2>3. m \in 1..(n - 1) OBVIOUS
  <2>4. request[<<p, m>>].status # "none" /\ request'[<<p, m>>] = request[<<p, m>>]
    BY <1>1, <2>1, <2>2, <2>3 DEF Asked
  <2>5. <<p, m>> \notin Pending BY <2>1 DEF Asked
  <2> QED BY <1>1, <2>4, <2>5 DEF Pending
<1> QED BY <1>2, <1>3

\* Whoever may add a request has seen the row of the project.
LEMMA PlacedStep ==
  ASSUME TypeOK, Placed, Progress,
         \A v \in Callers : call'[v] = call[v] \/ (call'[v].at = "add" => rows[call'[v].project] # "new")
  PROVE  Placed'
<1>1. ASSUME NEW r \in Requests, request'[r].status # "none" PROVE rows'[ProjectOf(r)] # "new"
  <2>1. ProjectOf(r) \in Projects BY DEF Requests, ProjectOf
  <2>2. request[r].status # "none" \/ Asked(r)
    BY <1>1 DEF Progress, RequestsMove, RowMoves, Starts
  <2>3. rows[ProjectOf(r)] # "new" BY <2>2 DEF Placed, Asked
  <2> QED BY <2>1, <2>3 DEF Progress, ProjectsMove
<1>2. ASSUME NEW v \in Callers, call'[v].at = "add", call'[v].project \in Projects
      PROVE  rows'[call'[v].project] # "new"
  <2>1. rows[call'[v].project] # "new" BY <1>2 DEF Placed, At
  <2> QED BY <1>2, <2>1 DEF Progress, ProjectsMove
<1> QED BY <1>1, <1>2 DEF Placed, At

\* What a call lists is taken from the table.
LEMMA FoundStep ==
  ASSUME TypeOK, TypeOK', FoundThere, Progress,
         \A v \in Callers : \A r \in call'[v].found : r \in call[v].found \/ request[r].status # "none"
  PROVE  FoundThere'
<1> SUFFICES ASSUME NEW v \in Callers, NEW r \in call'[v].found PROVE request'[r].status # "none"
  BY DEF FoundThere
<1>1. r \in Requests BY DEF TypeOK, CallRow
<1>2. request[r].status # "none" BY DEF FoundThere
<1> QED BY <1>1, <1>2, RowStays

-----------------------------------------------------------------------------

\* What has been cancelled in time stays so, and what came too late goes on
\* unasked only if it did before.
LEMMA SeenStays ==
  ASSUME Progress, InTurn, NEW r \in Requests, Seen(r)
  PROVE  Seen(r)' /\ (Loose(r)' => Loose(r))
<1>0. ProjectOf(r) \in Projects /\ ProjectOf(r)' = ProjectOf(r) BY DEF Requests, ProjectOf
<1>1. RowMoves(request[r], request'[r]) \/ Starts(r) \/ Asked(r) BY DEF Progress, RequestsMove
<1>2. rows[ProjectOf(r)] = "deleted" => rows'[ProjectOf(r)] = "deleted"
  BY <1>0 DEF Progress, ProjectsMove
<1>3. Seen(r)' BY <1>0, <1>1, <1>2 DEF Seen, RowMoves, Starts, Asked
<1>4. ASSUME Loose(r)' PROVE Loose(r)
  <2>1. /\ request'[r].status = "done" /\ rows'[ProjectOf(r)] # "deleted"
        /\ run'[ProjectOf(r)] \in ActiveRun /\ ~AskedAgain(r)' /\ ProjectOf(r) \notin flagged'
    BY <1>0, <1>4 DEF Loose, ActiveRuns
  <2>2. rows[ProjectOf(r)] # "deleted" BY <1>2, <2>1
  <2>3. request[r].status = "done" BY <1>1, <2>1, <2>2 DEF Seen, RowMoves, Starts, Asked
  <2>4. ~AskedAgain(r)
    <3> SUFFICES ASSUME AskedAgain(r) PROVE AskedAgain(r)' BY <2>1
    <3>1. PICK n \in 1..MaxTries : n > r[2] /\ request[<<ProjectOf(r), n>>].status # "none" BY DEF AskedAgain
    <3>2. <<ProjectOf(r), n>> \in Requests BY <1>0 DEF Requests
    <3>3. request'[<<ProjectOf(r), n>>].status # "none" BY <3>1, <3>2, RowStays
    <3> QED BY <1>0, <3>1, <3>3 DEF AskedAgain
  <2>5. ProjectOf(r) \notin flagged BY <2>1 DEF Progress
  <2>6. run[ProjectOf(r)] \in ActiveRun
    <3> SUFFICES ASSUME NEW n \in 1..MaxTries, Starts(<<ProjectOf(r), n>>) PROVE FALSE
      BY <1>0, <2>1 DEF Progress, RunsMove
    <3>1. PICK p \in Projects, k \in 1..MaxTries : r = <<p, k>> BY DEF Requests
    <3>2. ProjectOf(r) = p /\ r[2] = k BY <3>1 DEF ProjectOf
    <3>3. request[<<p, n>>].status = "taken" BY <3>2 DEF Starts
    <3>4. n # k BY <2>3, <3>1, <3>3
    <3>5. ~(n < k) BY <2>3, <3>1, <3>3 DEF InTurn
    <3>6. n > k BY <3>4, <3>5
    <3> QED BY <2>4, <3>2, <3>3, <3>6 DEF AskedAgain
  <2> QED BY <1>0, <2>2, <2>3, <2>4, <2>5, <2>6 DEF Loose, ActiveRuns
<1> QED BY <1>3, <1>4

\* The places of an abort that Stopping speaks of.
Stops == {"cancel", "abort", "flag", "after"}
\* Somebody else moves.
Same(u) == call'[u] = call[u]

\* While others move, what an abort has found stays as it left it.
LEMMA OthersStop ==
  ASSUME TypeOK, InTurn, Progress, NEW u \in Callers, Stopping(u), Same(u)
  PROVE  Stopping(u)'
<1>1. call[u].found \subseteq Requests BY DEF TypeOK, CallRow
<1>2. \A r \in call[u].found : Seen(r) => Seen(r)' /\ (Loose(r)' => Loose(r)) BY <1>1, SeenStays
<1>3. Scope(u)' = Scope(u) /\ Target(u)' = Target(u) BY DEF Scope, Whole, Target, Same
<1>4. \A r : ProjectOf(r)' = ProjectOf(r) BY DEF ProjectOf
<1>5. call[u].at \in Stops => \A r \in call[u].found : ProjectOf(r) \in Scope(u) BY DEF Stopping, Stops
<1>6. At(u, "cancel") => \A r \in call[u].found \ call[u].todo : Seen(r)'
  BY <1>2 DEF Stopping
<1>7. call[u].at \in {"abort", "flag", "after"} =>
        \A r \in call[u].found : Seen(r)' /\ (Loose(r)' => ProjectOf(r) \in call[u].runs)
  BY <1>2 DEF Stopping
<1>8. At(u, "after") => \A r \in call[u].found : Loose(r)' => ProjectOf(r) # Target(u)
  BY <1>2 DEF Stopping, At
<1> QED BY <1>3, <1>4, <1>5, <1>6, <1>7, <1>8 DEF Stopping, Stops, Same, At

\* A call that is at no step of an abort has nothing to stop.
LEMMA NothingToStop == ASSUME NEW u \in Callers, call'[u].at \notin Stops PROVE Stopping(u)'
BY DEF Stopping, Stops, At

\* The steps that do not belong to an abort, its end among them.
LEMMA Elsewhere ==
  ASSUME TypeOK, NEW u \in Callers,
         \/ BeginCall(u) \/ BeginWithdraw(u) \/ CrashCaller(u)
         \/ InsertProject(u) \/ CheckUser(u) \/ RequestStart(u) \/ AddStartRequest(u)
         \/ RecheckUser(u) \/ PurgeProject(u) \/ FinishAbort(u)
         \/ ViewProject(u) \/ DeleteArtifacts(u) \/ ClearForms(u)
         \/ ListProjects(u) \/ NextProject(u) \/ LockAccount(u) \/ LockTimeout(u)
         \/ ListRuns(u) \/ RetireRun(u) \/ ListAllRequests(u) \/ RetireRequests(u) \/ Cascade(u)
  PROVE  call'[u].at \notin Stops
<1> DEFINE Goal == call'[u].at \notin Stops
<1> SUFFICES Goal OBVIOUS
<1>t. call \in [Callers -> CallRow] BY DEF TypeOK
<1>r. call[u] \in CallRow BY <1>t
<1>s. \A x : x \in Stops <=> x \in {"cancel", "abort", "flag", "after"} BY DEF Stops
<1>a. ASSUME NEW c, c.at \notin Stops, Become(u, c) PROVE Goal BY <1>a, <1>t DEF Become
<1>b. ASSUME NEW x, x \notin Stops, Goto(u, x) PROVE Goal BY <1>b, <1>t DEF Goto, CallRow
<1>c. ASSUME Answer(u) PROVE Goal BY <1>c, <1>t, <1>s DEF Answer, NoCall
<1>d. ASSUME NEW x, NEW p, x \notin Stops, Begin(u, x, p) PROVE Goal BY <1>d, <1>t DEF Begin, NoCall
<1>e. call[u].then \notin Stops BY <1>r, <1>s DEF CallRow, Returns
<1> HIDE DEF Goal
<1>1. CASE BeginCreate(u) \/ BeginPoll(u) \/ BeginWithdraw(u) \/ CrashCaller(u)
  BY <1>1, <1>s, <1>c, <1>d DEF BeginCreate, BeginPoll, BeginWithdraw, CrashCaller
<1>2. CASE BeginTrash(u) \/ BeginDelete(u)
  <2>1. PICK p \in Projects, y \in {"view", "wipe"} :
          Become(u, [NoCall EXCEPT !.at = "list", !.then = y, !.project = p])
    BY <1>2 DEF BeginTrash, BeginDelete, Listed
  <2>2. [NoCall EXCEPT !.at = "list", !.then = y, !.project = p].at \notin Stops BY <1>s DEF NoCall
  <2> QED BY <2>1, <2>2, <1>a
<1>3. CASE InsertProject(u) \/ RequestStart(u) \/ AddStartRequest(u) \/ PurgeProject(u)
           \/ FinishAbort(u) \/ DeleteArtifacts(u) \/ ClearForms(u) \/ LockTimeout(u)
           \/ RetireRequests(u) \/ Cascade(u)
  BY <1>3, <1>s, <1>b, <1>c, <1>e DEF InsertProject, RequestStart, AddStartRequest, PurgeProject,
       FinishAbort, DeleteArtifacts, ClearForms, LockTimeout, RetireRequests, Cascade
<1>4. CASE CheckUser(u) \/ RecheckUser(u)
  <2> DEFINE c == [call[u] EXCEPT !.at = "load", !.seen = user]
             d == [call[u] EXCEPT !.at = "list", !.then = "purge"]
  <2>1. Become(u, c) \/ Become(u, d) \/ Goto(u, "purge") \/ Answer(u)
    BY <1>4 DEF CheckUser, RecheckUser
  <2>2. c.at \notin Stops /\ d.at \notin Stops BY <1>s, <1>r DEF CallRow
  <2> HIDE DEF c, d
  <2> QED BY <2>1, <2>2, <1>s, <1>a, <1>b, <1>c
<1>5. CASE RetireRun(u)
  <2> DEFINE c == [call[u] EXCEPT !.runs = @ \ {Target(u)}]
  <2>1. Become(u, c) \/ Answer(u) BY <1>5 DEF RetireRun
  <2>2. c.at = "retire" BY <1>5, <1>r DEF RetireRun, At, CallRow
  <2> HIDE DEF c
  <2> QED BY <2>1, <2>2, <1>s, <1>a, <1>c
<1>6. CASE ViewProject(u) \/ ListProjects(u) \/ NextProject(u) \/ LockAccount(u) \/ ListRuns(u) \/ ListAllRequests(u)
  <2>1. \A x \in {"list", "next", "retire", "remove"} :
          /\ \A y : [call[u] EXCEPT !.at = x, !.then = y].at \notin Stops
          /\ \A y, p : [call[u] EXCEPT !.at = x, !.then = y, !.project = p, !.left = @ \ {p}].at \notin Stops
          /\ \A D : /\ [call[u] EXCEPT !.at = x, !.left = D].at \notin Stops
                    /\ [call[u] EXCEPT !.at = x, !.runs = D].at \notin Stops
                    /\ [call[u] EXCEPT !.at = x, !.found = D].at \notin Stops
    BY <1>s, <1>r DEF CallRow
  <2>2. CASE ViewProject(u) \/ LockAccount(u) BY <2>1, <2>2, <1>a, <1>c DEF ViewProject, LockAccount
  <2>3. CASE ListProjects(u) \/ ListRuns(u) BY <2>1, <2>3, <1>a DEF ListProjects, ListRuns
  <2>4. CASE NextProject(u)
    <3>1. \/ Goto(u, "lock")
          \/ \E p \in call[u].left :
               Become(u, [call[u] EXCEPT !.at = "list", !.then = "wipe", !.project = p, !.left = @ \ {p}])
      BY <2>4 DEF NextProject
    <3>2. "lock" \notin Stops BY <1>s
    <3>3. Goto(u, "lock") => Goal BY <3>2, <1>b
    <3>4. ASSUME NEW p \in call[u].left,
                 Become(u, [call[u] EXCEPT !.at = "list", !.then = "wipe", !.project = p, !.left = @ \ {p}])
          PROVE  Goal
      <4>1. [call[u] EXCEPT !.at = "list", !.then = "wipe", !.project = p, !.left = @ \ {p}].at \notin Stops
        BY <2>1
      <4> QED BY <3>4, <4>1, <1>a
    <3> QED BY <3>1, <3>3, <3>4
  <2>5. CASE ListAllRequests(u) BY <2>1, <2>5, <1>a, <1>c DEF ListAllRequests
  <2> QED BY <1>6, <2>2, <2>3, <2>4, <2>5
<1> QED BY <1>1, <1>2, <1>3, <1>4, <1>5, <1>6 DEF BeginCall

\* An abort's own steps: every request is cancelled before the runs are looked
\* for, and every run that is found is ended or asked to stop.
LEMMA OwnStop ==
  ASSUME TypeOK, TargetOK, InTurn, Placed, FoundThere, Progress, NEW u \in Callers, Stopping(u),
         \/ ListRequests(u) \/ CancelStartRequest(u) \/ FindRuns(u) \/ AbortRun(u)
         \/ RequestAbort(u) \/ LookAfterAbort(u)
  PROVE  Stopping(u)'
<1>t. call \in [Callers -> CallRow] /\ request \in [Requests -> RequestRow] BY DEF TypeOK
<1>r. call[u] \in CallRow BY <1>t
<1>f. call[u].found \subseteq Requests /\ call[u].todo \subseteq Requests BY <1>r DEF CallRow
<1>s. \A r \in call[u].found : Seen(r) => Seen(r)' /\ (Loose(r)' => Loose(r)) BY <1>f, SeenStays
<1>p. \A r : ProjectOf(r)' = ProjectOf(r) BY DEF ProjectOf
<1>1. CASE ListRequests(u)
  <2> DEFINE rs == {r \in Pending : ProjectOf(r) \in Scope(u)}
  <2>1. /\ call'[u].at = "cancel" /\ call'[u].found = rs /\ call'[u].todo = rs
        /\ call'[u].then = call[u].then /\ call'[u].project = call[u].project
    BY <1>1, <1>t, <1>r DEF ListRequests, Become, CallRow
  <2>2. Scope(u)' = Scope(u) BY <2>1 DEF Scope, Whole
  <2> QED BY <1>p, <2>1, <2>2 DEF Stopping, At
<1>2. CASE CancelStartRequest(u)
  <2>1. PICK r \in call[u].todo :
          /\ Put(r, Cancelled(request[r]))
          /\ call'[u] = [call[u] EXCEPT !.todo = @ \ {r}, !.busy = @ \/ (Whole(u) /\ request[r].status = "taken")]
    BY <1>2, <1>t DEF CancelStartRequest, Become
  <2>2. /\ call'[u].at = "cancel" /\ call'[u].found = call[u].found /\ call'[u].todo = call[u].todo \ {r}
        /\ call'[u].then = call[u].then /\ call'[u].project = call[u].project
    BY <1>2, <1>r, <2>1 DEF CancelStartRequest, CallRow, At
  <2>3. Scope(u)' = Scope(u) BY <2>2 DEF Scope, Whole
  <2>4. r \in Requests /\ request[r] \in RequestRow /\ request'[r] = Cancelled(request[r])
    BY <1>f, <1>t, <2>1 DEF Put
  <2>5. r \in call[u].found => Seen(r)'
    <3>1. r \in call[u].found => request[r].status # "none" BY DEF FoundThere
    <3>2. [request[r] EXCEPT !.cancel = TRUE].status = request[r].status
          /\ [request[r] EXCEPT !.cancel = TRUE].cancel = TRUE
      BY <2>4 DEF RequestRow
    <3>3. Closed(request[r], "cancelled").status = "cancelled" BY DEF Closed
    <3>4. request[r].status \in Status BY <2>4 DEF RequestRow
    <3> QED BY <2>4, <3>1, <3>2, <3>3, <3>4 DEF Seen, Cancelled, Status
  <2>6. \A x \in call[u].found \ call[u].todo : Seen(x)' BY <1>2, <1>s DEF Stopping, CancelStartRequest
  <2>7. \A x \in call'[u].found \ call'[u].todo : Seen(x)' BY <2>2, <2>5, <2>6
  <2>8. \A x \in call[u].found : ProjectOf(x) \in Scope(u)
    BY <1>2 DEF Stopping, CancelStartRequest, At
  <2> QED BY <1>p, <2>2, <2>3, <2>7, <2>8 DEF Stopping, At
<1>3. CASE FindRuns(u)
  <2>1. /\ call'[u].at = "abort" /\ call'[u].found = call[u].found
        /\ call'[u].runs = {p \in Scope(u) : Sees(u, p) \in ActiveRun}
        /\ call'[u].then = call[u].then /\ call'[u].project = call[u].project
    BY <1>3, <1>t, <1>r DEF FindRuns, Become, CallRow
  <2>2. Scope(u)' = Scope(u) BY <2>1 DEF Scope, Whole
  <2>3. \A r \in call[u].found : Seen(r) /\ ProjectOf(r) \in Scope(u)
    BY <1>3 DEF Stopping, FindRuns, At
  <2>4. ASSUME NEW r \in call[u].found, Loose(r) PROVE ProjectOf(r) \in call'[u].runs
    <3>1. r \in Requests /\ request[r].status = "done" BY <1>f, <2>4 DEF Loose
    <3>2. ProjectOf(r) \in Projects BY <3>1 DEF Requests, ProjectOf
    <3>3. rows[ProjectOf(r)] # "new" BY <3>1 DEF Placed
    <3>4. rows[ProjectOf(r)] \in {"present", "archived"} BY <2>4, <3>2, <3>3 DEF Loose, TypeOK
    <3>5. Sees(u, ProjectOf(r)) = run[ProjectOf(r)] BY <3>4 DEF Sees, RunOf
    <3>6. run[ProjectOf(r)] \in ActiveRun BY <2>4 DEF Loose, ActiveRuns
    <3> QED BY <2>1, <2>3, <3>5, <3>6
  <2>5. \A r \in call[u].found : Seen(r)' /\ (Loose(r)' => ProjectOf(r) \in call'[u].runs)
    BY <1>s, <2>3, <2>4
  <2> QED BY <1>p, <2>1, <2>2, <2>3, <2>5 DEF Stopping, At
<1>4. CASE AbortRun(u)
  <2>1. /\ call'[u].found = call[u].found /\ call'[u].runs = call[u].runs /\ call'[u].at \in {"flag", "after"}
        /\ call'[u].then = call[u].then /\ call'[u].project = call[u].project
    BY <1>4, <1>t, <1>r DEF AbortRun, Goto, CallRow
  <2>2. Scope(u)' = Scope(u) /\ Target(u)' = Target(u) BY <2>1 DEF Scope, Whole, Target
  <2>3. \A r \in call[u].found : Seen(r) /\ (Loose(r) => ProjectOf(r) \in call[u].runs) /\ ProjectOf(r) \in Scope(u)
    BY <1>4 DEF Stopping, AbortRun, At
  <2>4. call'[u].at = "after" => run'[Target(u)] \notin ActiveRun
    <3>1. call[u].runs \subseteq Projects /\ call[u].runs # {} BY <1>4, <1>r DEF CallRow, AbortRun
    <3>2. Target(u) \in Projects BY <3>1 DEF Target
    <3>3. call'[u].at = "after" => run[Target(u)] # "locked" BY <1>4, <1>t, <1>r DEF AbortRun, Goto, CallRow
    <3>4. run \in [Projects -> {"none", "open", "locked", "ended"}] BY DEF TypeOK
    <3> QED BY <1>4, <3>2, <3>3, <3>4 DEF AbortRun, ActiveRun
  <2>5. call'[u].at = "after" => \A r \in call[u].found : Loose(r)' => ProjectOf(r) # Target(u)
    BY <1>p, <2>4 DEF Loose, ActiveRuns
  <2> QED BY <1>p, <1>s, <2>1, <2>2, <2>3, <2>5 DEF Stopping, At
<1>5. CASE RequestAbort(u)
  <2>1. /\ call'[u].found = call[u].found /\ call'[u].runs = call[u].runs /\ call'[u].at = "after"
        /\ call'[u].then = call[u].then /\ call'[u].project = call[u].project
    BY <1>5, <1>t, <1>r DEF RequestAbort, Goto, CallRow
  <2>2. Scope(u)' = Scope(u) /\ Target(u)' = Target(u) BY <2>1 DEF Scope, Whole, Target
  <2>3. \A r \in call[u].found : Seen(r) /\ (Loose(r) => ProjectOf(r) \in call[u].runs) /\ ProjectOf(r) \in Scope(u)
    BY <1>5 DEF Stopping, RequestAbort, At
  <2>4. \A r \in call[u].found : Loose(r)' => ProjectOf(r) # Target(u)
    BY <1>5, <1>p DEF Loose, RequestAbort
  <2> QED BY <1>p, <1>s, <2>1, <2>2, <2>3, <2>4 DEF Stopping, At
<1>6. CASE LookAfterAbort(u)
  <2>1. /\ call'[u].found = call[u].found /\ call'[u].runs = call[u].runs \ {Target(u)} /\ call'[u].at = "abort"
        /\ call'[u].then = call[u].then /\ call'[u].project = call[u].project
    BY <1>6, <1>t, <1>r DEF LookAfterAbort, Become, CallRow
  <2>2. Scope(u)' = Scope(u) BY <2>1 DEF Scope, Whole
  <2>3. \A r \in call[u].found : /\ Seen(r) /\ ProjectOf(r) \in Scope(u)
                                 /\ Loose(r) => ProjectOf(r) \in call[u].runs /\ ProjectOf(r) # Target(u)
    BY <1>6 DEF Stopping, LookAfterAbort, At
  <2>4. \A r \in call[u].found : Seen(r)' /\ (Loose(r)' => ProjectOf(r) \in call'[u].runs)
    BY <1>s, <2>1, <2>3
  <2> QED BY <1>p, <2>1, <2>2, <2>3, <2>4 DEF Stopping, At
<1> QED BY <1>1, <1>2, <1>3, <1>4, <1>5, <1>6

\* What the proof carries along.
StopInv ==
  /\ TypeOK /\ TargetOK /\ InTurn /\ Placed /\ FoundThere
  /\ \A u \in Callers : Stopping(u)
  /\ StaysStopped

\* A request joins the stopped ones when the abort that found it has no run
\* left, and stays stopped.
LEMMA StoppedStep ==
  ASSUME StopInv, Progress,
         UNCHANGED stopped \/ \E u \in Callers : FinishAbort(u)
  PROVE  StaysStopped'
<1> USE DEF StopInv
<1>1. \A r \in stopped : Seen(r)' /\ ~Loose(r)'
  <2>1. stopped \subseteq Requests BY DEF TypeOK
  <2> QED BY <2>1, SeenStays DEF StaysStopped
<1>2. ASSUME NEW u \in Callers, FinishAbort(u) PROVE \A r \in call[u].found : Seen(r)' /\ ~Loose(r)'
  <2>1. call[u].found \subseteq Requests BY DEF TypeOK, CallRow
  <2>2. \A r \in call[u].found : Seen(r) /\ ~Loose(r) BY <1>2 DEF Stopping, FinishAbort, At
  <2> QED BY <2>1, <2>2, SeenStays
<1>3. CASE UNCHANGED stopped BY <1>1, <1>3 DEF StaysStopped
<1>4. ASSUME NEW u \in Callers, FinishAbort(u) PROVE StaysStopped'
  <2>1. stopped' = stopped \cup call[u].found BY <1>4 DEF FinishAbort
  <2> QED BY <1>1, <1>2, <1>4, <2>1 DEF StaysStopped
<1> QED BY <1>3, <1>4

\* All of it is kept by every step.
LEMMA StopStep == ASSUME StopInv, [Next]_vars PROVE StopInv'
<1> USE DEF StopInv
<1>1. TypeOK' /\ TargetOK'
  <2>1. CASE StoreStep /\ UNCHANGED <<user, call, stopped>>
    BY <2>1, StoreStepTypes, TargetStep DEF TypeOK, StoreTypes
  <2>2. CASE \E u \in Callers : BeginCall(u) \/ BeginWithdraw(u) \/ CallStep(u) \/ CrashCaller(u)
    BY <2>2, CallStepTypes, TargetStep
  <2>3. CASE UNCHANGED vars BY <2>3, TargetStep DEF TypeOK, vars, storeVars
  <2> QED BY <2>1, <2>2, <2>3 DEF Next
<1>2. ASSUME Progress, UNCHANGED <<call, stopped>> PROVE StopInv'
  <2>1. InTurn' BY <1>2, TurnStep
  <2>2. Placed' BY <1>2, PlacedStep
  <2>3. FoundThere' BY <1>1, <1>2, FoundStep
  <2>4. \A u \in Callers : Stopping(u)' BY <1>2, OthersStop DEF Same
  <2>5. StaysStopped' BY <1>2, StoppedStep
  <2> QED BY <1>1, <2>1, <2>2, <2>3, <2>4, <2>5
<1>3. CASE UNCHANGED vars
  <2>1. Progress
    BY <1>3, QuietRequests DEF vars, storeVars, Progress, ProjectsMove, RunsMove
  <2> QED BY <1>2, <1>3, <2>1 DEF vars
<1>4. CASE StoreStep /\ UNCHANGED <<user, call, stopped>> BY <1>2, <1>4, StoreProgress
<1>5. ASSUME NEW u \in Callers, BeginCall(u) \/ BeginWithdraw(u) \/ CallStep(u) \/ CrashCaller(u) PROVE StopInv'
  <2>1. Progress BY <1>5, CallProgress
  <2>2. /\ \A v \in Callers : v # u => Same(v)
        /\ \A r \in call'[u].found : r \in call[u].found \/ request[r].status # "none"
        /\ call'[u].at = "add" => rows[call'[u].project] # "new"
    BY <1>5, OwnCall DEF Same
  <2>3. InTurn' BY <2>1, TurnStep
  <2>4. Placed'
    <3>1. \A v \in Callers : call'[v] = call[v] \/ (call'[v].at = "add" => rows[call'[v].project] # "new")
      BY <2>2 DEF Same
    <3> QED BY <2>1, <3>1, PlacedStep
  <2>5. FoundThere'
    <3>1. \A v \in Callers : \A r \in call'[v].found : r \in call[v].found \/ request[r].status # "none"
      BY <2>2 DEF Same
    <3> QED BY <1>1, <2>1, <3>1, FoundStep
  <2>6. Stopping(u)'
    <3>1. CASE \/ ListRequests(u) \/ CancelStartRequest(u) \/ FindRuns(u) \/ AbortRun(u)
               \/ RequestAbort(u) \/ LookAfterAbort(u)
      BY <2>1, <3>1, OwnStop
    <3>2. CASE \/ BeginCall(u) \/ BeginWithdraw(u) \/ CrashCaller(u)
               \/ InsertProject(u) \/ CheckUser(u) \/ RequestStart(u) \/ AddStartRequest(u)
               \/ RecheckUser(u) \/ PurgeProject(u) \/ FinishAbort(u)
               \/ ViewProject(u) \/ DeleteArtifacts(u) \/ ClearForms(u)
               \/ ListProjects(u) \/ NextProject(u) \/ LockAccount(u) \/ LockTimeout(u)
               \/ ListRuns(u) \/ RetireRun(u) \/ ListAllRequests(u) \/ RetireRequests(u) \/ Cascade(u)
      BY <3>2, Elsewhere, NothingToStop
    <3> QED BY <1>5, <3>1, <3>2 DEF CallStep
  <2>7. \A v \in Callers : Stopping(v)' BY <2>1, <2>2, <2>6, OthersStop
  <2>8. UNCHANGED stopped \/ FinishAbort(u)
    BY <1>5 DEF BeginCall, BeginCreate, BeginPoll, BeginTrash, BeginDelete, BeginWithdraw, CrashCaller,
         CallStep, InsertProject, CheckUser, RequestStart, AddStartRequest, RecheckUser, PurgeProject,
         ListRequests, CancelStartRequest, FindRuns, AbortRun, RequestAbort, LookAfterAbort,
         ViewProject, DeleteArtifacts, ClearForms, ListProjects, NextProject, LockAccount, LockTimeout,
         ListRuns, RetireRun, ListAllRequests, RetireRequests, Cascade
  <2>9. StaysStopped' BY <2>1, <2>8, StoppedStep
  <2> QED BY <1>1, <2>3, <2>4, <2>5, <2>7, <2>9
<1> QED BY <1>3, <1>4, <1>5 DEF Next

\* abort_project, delete_account_data: a start request that was waiting when an
\* abort returned never slips through as a run nobody stopped.  It needs the
\* order of the two looks (the requests first), that a request is done only
\* when its run is there, and that a project's requests follow one another.
THEOREM CancelledStaysStopped == Spec => []CancelHolds
<1>1. Init => StopInv
  <2> SUFFICES ASSUME Init PROVE StopInv OBVIOUS
  <2>1. TypeOK BY InitTypes
  <2>2. /\ \A u \in Callers : call[u] = NoCall
        /\ \A r \in Requests : request[r].status = "none"
        /\ stopped = {}
    BY DEF Init, NoRow
  <2>3. TargetOK /\ FoundThere /\ \A u \in Callers : Stopping(u)
    BY <2>2 DEF NoCall, TargetOK, FoundThere, Stopping, At
  <2>4. InTurn BY <2>2 DEF InTurn, Requests
  <2>5. Placed BY <2>2 DEF Placed, At, NoCall
  <2> QED BY <2>1, <2>2, <2>3, <2>4, <2>5 DEF StopInv, StaysStopped
<1>2. StopInv /\ [Next]_vars => StopInv' BY StopStep
<1>3. StopInv => CancelHolds
  BY DEF StopInv, StaysStopped, Seen, Loose, CancelHolds
<1> QED BY <1>1, <1>2, <1>3, PTL DEF Spec

-----------------------------------------------------------------------------
(* A withdrawal leaves nothing *)

RunsLeft == {p \in Projects : run[p] # "none"}

\* Where a withdrawal has the account lock.
Holding(c) ==
  \/ c.at \in {"runs", "retire", "remove"}
  \/ c.at \in {"list", "cancel", "abort", "flag", "after"} /\ c.then = "runs"

\* What it has listed is all there is.
Clearing(c) ==
  /\ c.at = "retire" => RunsLeft \subseteq c.runs
  /\ c.at = "remove" => RunsLeft = {} /\ Kept \subseteq c.found

LeaveInv ==
  /\ content \subseteq RunsLeft
  /\ \A u \in Callers : (Holding(call[u]) => guard = u) /\ Clearing(call[u])

\* Artifacts are those of a run, and while somebody has the lock there are no new
\* requests and no new runs.
Tidy ==
  /\ content' \subseteq RunsLeft'
  /\ guard # NoOne => RunsLeft' \subseteq RunsLeft /\ Kept' \subseteq Kept

\* A request that is not there does not come.
NoneComes == \A r \in Requests : request'[r].status \notin {"none", "deleted"} => request[r].status \notin {"none", "deleted"}

LEMMA RequestsTidy ==
  ASSUME content \subseteq RunsLeft, UNCHANGED <<run, content>>, NoneComes
  PROVE  Tidy
BY DEF Tidy, RunsLeft, Kept, NoneComes

LEMMA OneRequest ==
  ASSUME TypeOK, NEW r \in Requests, NEW q, request[r].status \notin {"none", "deleted"}, Put(r, q)
  PROVE  NoneComes
<1>1. request \in [Requests -> RequestRow] BY DEF TypeOK
<1> QED BY <1>1 DEF Put, NoneComes

\* Workers, heartbeats and runs.
LEMMA StoreTidy ==
  ASSUME TypeOK, content \subseteq RunsLeft, StoreStep
  PROVE  Tidy
<1> USE DEF TypeOK
<1>q. ASSUME NEW w \in Workers, worker[w].at # "idle" PROVE worker[w].req \in Requests
  BY <1>q DEF WorkerState, Idle
<1>n. UNCHANGED request => NoneComes BY DEF NoneComes
<1>1. ASSUME NEW w \in Workers, ClaimStartRequest(w) PROVE Tidy
  <2>1. PICK r \in Requests : Claimable(request[r]) /\ Put(r, Taken(request[r], w)) /\ UNCHANGED <<run, content>>
    BY <1>1 DEF ClaimStartRequest
  <2>2. NoneComes BY <2>1, OneRequest DEF Claimable
  <2> QED BY <2>1, <2>2, RequestsTidy
<1>2. ASSUME NEW w \in Workers, AcquireStartRequest(w) PROVE Tidy
  <2>1. PICK r : r = worker[w].req OBVIOUS
  <2>2. r \in Requests BY <1>2, <1>q, <2>1 DEF AcquireStartRequest
  <2>3. /\ UNCHANGED <<run, content>>
        /\ UNCHANGED request \/ (request[r].status \in {"queued", "taken"} /\ Put(r, Taken(request[r], w)))
    BY <1>2, <2>1 DEF AcquireStartRequest, Claimable
  <2>4. NoneComes BY <1>n, <2>2, <2>3, OneRequest
  <2> QED BY <2>3, <2>4, RequestsTidy
<1>3. ASSUME NEW w \in Workers, ReadRequest(w) \/ DrainPreStage(w) \/ WorkerLockTimeout(w) \/ Raise(w) PROVE Tidy
  <2>1. UNCHANGED <<request, run, content>> BY <1>3 DEF ReadRequest, DrainPreStage, WorkerLockTimeout, Raise
  <2> QED BY <1>n, <2>1, RequestsTidy
<1>4. ASSUME NEW w \in Workers, FinishStartRequest(w) PROVE Tidy
  <2>1. PICK r : r = worker[w].req OBVIOUS
  <2>2. r \in Requests BY <1>4, <1>q, <2>1 DEF FinishStartRequest
  <2>3. /\ UNCHANGED <<run, content>>
        /\ UNCHANGED request \/ (request[r].status = "taken" /\ \E z : Put(r, z))
    BY <1>4, <2>1 DEF FinishStartRequest
  <2>4. NoneComes BY <1>n, <2>2, <2>3, OneRequest
  <2> QED BY <2>3, <2>4, RequestsTidy
<1>5. ASSUME NEW w \in Workers, CreateRunForRequest(w) PROVE Tidy
  <2>1. PICK r : r = worker[w].req OBVIOUS
  <2>2. r \in Requests BY <1>5, <1>q, <2>1 DEF CreateRunForRequest
  <2>3. /\ guard = NoOne
        /\ \/ UNCHANGED <<run, content>>
           \/ InsertRun(ProjectOf(r))
    BY <1>5, <2>1 DEF CreateRunForRequest, LockFree
  <2>4. ProjectOf(r) \in Projects BY <2>2 DEF Requests, ProjectOf
  <2>5. content' \subseteq RunsLeft' BY <2>3, <2>4 DEF InsertRun, RunsLeft
  <2> QED BY <2>3, <2>5 DEF Tidy
<1>6. ASSUME NEW w \in Workers, CrashWorker(w) PROVE Tidy
  <2>1. \A r \in Requests : request'[r].status = request[r].status BY <1>6, RowTypes DEF CrashWorker, RequestRow
  <2>2. UNCHANGED <<run, content>> BY <1>6 DEF CrashWorker
  <2> QED BY <2>1, <2>2, RequestsTidy DEF NoneComes
<1>7. ASSUME NEW r \in Requests, Heartbeat(r) \/ ExpireRequest(r) \/ MissRenewals(r) PROVE Tidy
  <2>1. request[r].status = "taken" /\ UNCHANGED <<run, content>> /\ \E z : Put(r, z)
    BY <1>7 DEF Heartbeat, ExpireRequest, MissRenewals
  <2>2. NoneComes BY <2>1, OneRequest
  <2> QED BY <2>1, <2>2, RequestsTidy
<1>8. ASSUME NEW p \in Projects, LockRun(p) \/ UnlockRun(p) PROVE Tidy
  <2>1. UNCHANGED <<request, content>> /\ RunsLeft' = RunsLeft BY <1>8 DEF LockRun, UnlockRun, RunsLeft
  <2> QED BY <2>1 DEF Tidy, Kept
<1> QED BY <1>1, <1>2, <1>3, <1>4, <1>5, <1>6, <1>7, <1>8 DEF StoreStep, WorkerStep

\* The web requests: only the lock keeps them from adding one.
LEMMA CallTidy ==
  ASSUME TypeOK, content \subseteq RunsLeft, NEW u \in Callers,
         BeginCall(u) \/ BeginWithdraw(u) \/ CallStep(u) \/ CrashCaller(u)
  PROVE  Tidy
<1> USE DEF TypeOK
<1>u. ASSUME UNCHANGED <<request, run, content>> PROVE Tidy BY <1>u, RequestsTidy DEF NoneComes
<1>1. CASE BeginCall(u) \/ BeginWithdraw(u) \/ CrashCaller(u)
  BY <1>1, <1>u DEF BeginCall, BeginCreate, BeginPoll, BeginTrash, BeginDelete, BeginWithdraw, CrashCaller, storeVars
<1>2. CASE InsertProject(u) \/ CheckUser(u) \/ RequestStart(u) \/ RecheckUser(u) \/ PurgeProject(u)
           \/ ListRequests(u) \/ FindRuns(u) \/ RequestAbort(u) \/ LookAfterAbort(u) \/ FinishAbort(u)
  BY <1>2, <1>u DEF InsertProject, CheckUser, RequestStart, RecheckUser, PurgeProject,
       ListRequests, FindRuns, RequestAbort, LookAfterAbort, FinishAbort, storeVars
<1>3. CASE ViewProject(u) \/ ListProjects(u) \/ NextProject(u) \/ LockAccount(u)
           \/ LockTimeout(u) \/ ListRuns(u) \/ ListAllRequests(u) \/ Cascade(u)
  BY <1>3, <1>u DEF ViewProject, ListProjects, NextProject, LockAccount, LockTimeout, ListRuns, ListAllRequests,
       Cascade, storeVars
<1>4. CASE AddStartRequest(u)
  BY <1>4 DEF AddStartRequest, LockFree, Tidy, RunsLeft
<1>5. CASE CancelStartRequest(u)
  <2>1. PICK r \in call[u].todo : Put(r, Cancelled(request[r])) /\ UNCHANGED <<run, content>>
    BY <1>5 DEF CancelStartRequest
  <2>2. r \in Requests BY DEF CallRow
  <2>3. request[r].status \in {"none", "deleted"} => Cancelled(request[r]) = request[r] BY DEF Cancelled
  <2>4. NoneComes
    <3>1. request'[r] = Cancelled(request[r]) /\ \A s \in Requests : s # r => request'[s] = request[s]
      BY <2>1, <2>2 DEF Put
    <3> QED BY <2>2, <2>3, <3>1 DEF NoneComes
  <2> QED BY <2>1, <2>4, RequestsTidy
<1>6. CASE AbortRun(u)
  <2>1. UNCHANGED <<request, content>> /\ RunsLeft' = RunsLeft BY <1>6 DEF AbortRun, RunsLeft
  <2> QED BY <2>1 DEF Tidy, Kept
<1>7. CASE RetireRun(u)
  <2>1. PICK p : p = Target(u) OBVIOUS
  <2>2. /\ UNCHANGED request
        /\ \/ UNCHANGED <<run, content>>
           \/ run' = [run EXCEPT ![p] = "none"] /\ content' = content \ {p}
    BY <1>7, <2>1 DEF RetireRun
  <2>3. RunsLeft' \subseteq RunsLeft /\ content' \subseteq RunsLeft' BY <2>2 DEF RunsLeft
  <2> QED BY <2>2, <2>3 DEF Tidy, Kept
<1>8. CASE ClearForms(u)
  <2>1. \A r \in Requests : request'[r].status = request[r].status BY <1>8 DEF ClearForms, RequestRow
  <2>2. UNCHANGED <<run, content>> BY <1>8 DEF ClearForms
  <2> QED BY <2>1, <2>2, RequestsTidy DEF NoneComes
<1>9. CASE RetireRequests(u)
  <2>1. NoneComes BY <1>9 DEF RetireRequests, NoneComes, Removed, NoRow
  <2> QED BY <1>9, <2>1, RequestsTidy DEF RetireRequests
<1>10. CASE DeleteArtifacts(u)
  <2>1. UNCHANGED <<request, run>> /\ content' \subseteq content BY <1>10 DEF DeleteArtifacts
  <2> QED BY <2>1 DEF Tidy, RunsLeft, Kept
<1> QED BY <1>1, <1>2, <1>3, <1>4, <1>5, <1>6, <1>7, <1>8, <1>9, <1>10 DEF CallStep

\* A step of a web request: it has the lock where it must, what it lists then is all
\* there is, and the lock of another stays where it is.
LEMMA OwnLeave ==
  ASSUME TypeOK, LeaveInv, NEW u \in Callers, BeginCall(u) \/ BeginWithdraw(u) \/ CallStep(u) \/ CrashCaller(u)
  PROVE  /\ Holding(call'[u]) => guard' = u
         /\ call'[u].at = "retire" => RunsLeft' \subseteq call'[u].runs
         /\ call'[u].at = "remove" => RunsLeft' = {} /\ Kept' \subseteq call'[u].found
<1> DEFINE Goal == /\ Holding(call'[u]) => guard' = u
                   /\ call'[u].at = "retire" => RunsLeft' \subseteq call'[u].runs
                   /\ call'[u].at = "remove" => RunsLeft' = {} /\ Kept' \subseteq call'[u].found
           Held == {"runs", "retire", "remove", "list", "cancel", "abort", "flag", "after"}
<1> SUFFICES Goal OBVIOUS
<1>t. call \in [Callers -> CallRow] /\ call[u] \in CallRow BY DEF TypeOK
<1>h. (Holding(call[u]) => guard = u) /\ Clearing(call[u]) BY DEF LeaveInv
<1>c. ASSUME NEW c, c.at \notin Held, Become(u, c) PROVE Goal BY <1>c, <1>t DEF Become, Holding
<1>a. ASSUME Answer(u) PROVE Goal BY <1>a, <1>t DEF Answer, Holding, NoCall
<1>b. ASSUME NEW x, x \notin Held, Goto(u, x) PROVE Goal BY <1>b, <1>t DEF Goto, Holding, CallRow
<1>d. ASSUME NEW c, c.at \in {"runs", "list", "cancel", "abort", "flag", "after"}, Holding(c) => Holding(call[u]),
             Become(u, c), UNCHANGED guard
      PROVE  Goal
  <2>1. call'[u] = c BY <1>d, <1>t DEF Become
  <2> QED BY <1>d, <1>h, <2>1
<1>e. ASSUME NEW x \in {"list", "cancel", "abort", "flag", "after"},
             call[u].at \in {"list", "cancel", "abort", "flag", "after"}, Goto(u, x), UNCHANGED guard
      PROVE  Goal
  <2> DEFINE c == [call[u] EXCEPT !.at = x]
  <2>1. c.at = x /\ c.then = call[u].then BY <1>t DEF CallRow
  <2>2. Become(u, c) BY <1>e DEF Goto, Become
  <2>3. Holding(c) => Holding(call[u]) BY <1>e, <2>1 DEF Holding
  <2> HIDE DEF c
  <2> QED BY <1>d, <1>e, <2>1, <2>2, <2>3
<1> HIDE DEF Goal
<1>1. CASE BeginCall(u) \/ BeginWithdraw(u)
  <2>1. ASSUME NEW x, NEW p, x \notin Held, Begin(u, x, p) PROVE Goal
    <3> DEFINE c == [NoCall EXCEPT !.at = x, !.project = p]
    <3>1. c.at = x BY DEF NoCall
    <3>2. Become(u, c) BY <2>1 DEF Begin, Become
    <3> HIDE DEF c
    <3> QED BY <1>c, <2>1, <3>1, <3>2
  <2>2. CASE BeginCreate(u) \/ BeginPoll(u) \/ BeginWithdraw(u) BY <2>1, <2>2 DEF BeginCreate, BeginPoll, BeginWithdraw
  <2>3. CASE BeginTrash(u) \/ BeginDelete(u)
    <3>0. UNCHANGED guard BY <2>3 DEF BeginTrash, BeginDelete, storeVars
    <3>1. ASSUME NEW x \in {"view", "wipe"}, NEW p,
                 Become(u, [NoCall EXCEPT !.at = "list", !.then = x, !.project = p])
          PROVE  Goal
      <4> DEFINE c == [NoCall EXCEPT !.at = "list", !.then = x, !.project = p]
      <4>1. c.at = "list" /\ c.then = x BY DEF NoCall
      <4>2. ~Holding(c) BY <4>1 DEF Holding
      <4>3. Become(u, c) BY <3>1
      <4> HIDE DEF c
      <4> QED BY <1>d, <3>0, <4>1, <4>2, <4>3
    <3>2. CASE BeginTrash(u)
      <4>1. PICK p : Become(u, [NoCall EXCEPT !.at = "list", !.then = "view", !.project = p])
        BY <3>2 DEF BeginTrash
      <4> QED BY <3>1, <4>1
    <3>3. CASE BeginDelete(u)
      <4>1. PICK p : Become(u, [NoCall EXCEPT !.at = "list", !.then = "wipe", !.project = p])
        BY <3>3 DEF BeginDelete
      <4> QED BY <3>1, <4>1
    <3> QED BY <2>3, <3>2, <3>3
  <2> QED BY <1>1, <2>2, <2>3 DEF BeginCall
<1>2. CASE InsertProject(u) \/ RequestStart(u) \/ PurgeProject(u) \/ LockTimeout(u) \/ Cascade(u) \/ CrashCaller(u)
  <2>1. Answer(u) \/ Goto(u, "check") \/ Goto(u, "add")
    BY <1>2 DEF InsertProject, RequestStart, PurgeProject, LockTimeout, Cascade, CrashCaller
  <2> QED BY <1>a, <1>b, <2>1
<1>3. CASE CheckUser(u)
  <2> DEFINE c == [call[u] EXCEPT !.at = "load", !.seen = user]
  <2>1. Answer(u) \/ Goto(u, "purge") \/ Become(u, c) BY <1>3 DEF CheckUser
  <2>2. c.at = "load" BY <1>t DEF CallRow
  <2> HIDE DEF c
  <2> QED BY <1>a, <1>b, <1>c, <2>1, <2>2
<1>4. CASE RecheckUser(u) \/ ViewProject(u) \/ NextProject(u) \/ AddStartRequest(u)
  <2>1. UNCHANGED guard BY <1>4 DEF RecheckUser, ViewProject, NextProject, AddStartRequest, storeVars
  <2>2. CASE Answer(u) \/ Goto(u, "lock") \/ Goto(u, "recheck") \/ Goto(u, "purge") BY <1>a, <1>b, <2>2
  <2>3. CASE \E x \in {"purge", "wipe"} :
               \/ Become(u, [call[u] EXCEPT !.at = "list", !.then = x])
               \/ \E p, l : Become(u, [call[u] EXCEPT !.at = "list", !.then = x, !.project = p, !.left = l])
    <3>1. PICK x \in {"purge", "wipe"} :
            \/ Become(u, [call[u] EXCEPT !.at = "list", !.then = x])
            \/ \E p, l : Become(u, [call[u] EXCEPT !.at = "list", !.then = x, !.project = p, !.left = l])
      BY <2>3
    <3> DEFINE d == [call[u] EXCEPT !.at = "list", !.then = x]
               e(p, l) == [call[u] EXCEPT !.at = "list", !.then = x, !.project = p, !.left = l]
    <3>d. d.at = "list" /\ d.then = x BY <1>t DEF CallRow
    <3>e. \A p, l : e(p, l).at = "list" /\ e(p, l).then = x BY <1>t DEF CallRow
    <3>f. Become(u, d) \/ \E p, l : Become(u, e(p, l)) BY <3>1
    <3> HIDE DEF d, e
    <3>2. PICK c : Become(u, c) /\ c.at = "list" /\ c.then = x BY <3>d, <3>e, <3>f
    <3>3. ~Holding(c) BY <3>2 DEF Holding
    <3> QED BY <1>d, <2>1, <3>2, <3>3
  <2>4. CASE RecheckUser(u) BY <2>2, <2>3, <2>4 DEF RecheckUser
  <2>5. CASE ViewProject(u) BY <2>2, <2>3, <2>5 DEF ViewProject
  <2>6. CASE NextProject(u) BY <2>2, <2>3, <2>6 DEF NextProject
  <2>7. CASE AddStartRequest(u) BY <2>2, <2>7 DEF AddStartRequest
  <2> QED BY <1>4, <2>4, <2>5, <2>6, <2>7
<1>5. CASE DeleteArtifacts(u) \/ ClearForms(u)
  <2>1. Goto(u, "clear") \/ Goto(u, "next") \/ Goto(u, "purge") BY <1>5 DEF DeleteArtifacts, ClearForms
  <2> QED BY <1>b, <2>1
<1>6. CASE ListProjects(u)
  <2> DEFINE c == [call[u] EXCEPT !.at = "next", !.left = Listed]
  <2>1. c.at = "next" BY <1>t DEF CallRow
  <2>2. Become(u, c) BY <1>6 DEF ListProjects
  <2> HIDE DEF c
  <2> QED BY <1>c, <2>1, <2>2
\* The abort keeps the lock it has.
<1>7. CASE ListRequests(u) \/ CancelStartRequest(u) \/ FindRuns(u) \/ LookAfterAbort(u)
  <2>1. UNCHANGED guard /\ call[u].at \in {"list", "cancel", "after"}
    BY <1>7 DEF ListRequests, CancelStartRequest, FindRuns, LookAfterAbort, storeVars, At
  <2>2. PICK c : Become(u, c) /\ c.at \in {"cancel", "abort"} /\ c.then = call[u].then
    <3>1. CASE ListRequests(u)
      <4>1. PICK f : Become(u, [call[u] EXCEPT !.at = "cancel", !.found = f, !.todo = f, !.busy = FALSE])
        BY <3>1 DEF ListRequests
      <4> DEFINE e == [call[u] EXCEPT !.at = "cancel", !.found = f, !.todo = f, !.busy = FALSE]
      <4>2. e.at = "cancel" /\ e.then = call[u].then BY <1>t DEF CallRow
      <4>3. Become(u, e) BY <4>1
      <4> HIDE DEF e
      <4> QED BY <4>2, <4>3
    <3>2. CASE CancelStartRequest(u)
      <4>0. call[u].at = "cancel" BY <3>2 DEF CancelStartRequest, At
      <4>1. PICK d, b : Become(u, [call[u] EXCEPT !.todo = d, !.busy = b])
        BY <3>2 DEF CancelStartRequest
      <4> DEFINE e == [call[u] EXCEPT !.todo = d, !.busy = b]
      <4>2. e.at = "cancel" /\ e.then = call[u].then BY <1>t, <4>0 DEF CallRow
      <4>3. Become(u, e) BY <4>1
      <4> HIDE DEF e
      <4> QED BY <4>2, <4>3
    <3>3. CASE FindRuns(u)
      <4>1. PICK d, b : Become(u, [call[u] EXCEPT !.at = "abort", !.known = d, !.runs = b])
        BY <3>3 DEF FindRuns
      <4> DEFINE e == [call[u] EXCEPT !.at = "abort", !.known = d, !.runs = b]
      <4>2. e.at = "abort" /\ e.then = call[u].then BY <1>t DEF CallRow
      <4>3. Become(u, e) BY <4>1
      <4> HIDE DEF e
      <4> QED BY <4>2, <4>3
    <3>4. CASE LookAfterAbort(u)
      <4>1. PICK d, b : Become(u, [call[u] EXCEPT !.at = "abort", !.runs = d, !.busy = b])
        BY <3>4 DEF LookAfterAbort
      <4> DEFINE e == [call[u] EXCEPT !.at = "abort", !.runs = d, !.busy = b]
      <4>2. e.at = "abort" /\ e.then = call[u].then BY <1>t DEF CallRow
      <4>3. Become(u, e) BY <4>1
      <4> HIDE DEF e
      <4> QED BY <4>2, <4>3
    <3> QED BY <1>7, <3>1, <3>2, <3>3, <3>4
  <2>3. Holding(c) => Holding(call[u]) BY <2>1, <2>2 DEF Holding
  <2> QED BY <1>d, <2>1, <2>2, <2>3
<1>8. CASE AbortRun(u) \/ RequestAbort(u)
  <2>1. UNCHANGED guard /\ call[u].at \in {"abort", "flag"} /\ (Goto(u, "flag") \/ Goto(u, "after"))
    BY <1>8 DEF AbortRun, RequestAbort, At
  <2> QED BY <1>e, <2>1
<1>9. CASE FinishAbort(u)
  <2>1. call[u].at = "abort" /\ (Answer(u) \/ (Goto(u, call[u].then) /\ UNCHANGED guard)) BY <1>9 DEF FinishAbort, At
  <2>2. CASE Goto(u, call[u].then) /\ UNCHANGED guard
    <3>1. CASE call[u].then = "runs"
      <4> DEFINE c == [call[u] EXCEPT !.at = "runs"]
      <4>1. c.at = "runs" BY <1>t DEF CallRow
      <4>2. Become(u, c) BY <2>2, <3>1 DEF Goto, Become
      <4>3. Holding(call[u]) BY <2>1, <3>1 DEF Holding
      <4> HIDE DEF c
      <4> QED BY <1>d, <2>2, <4>1, <4>2, <4>3
    <3>2. CASE call[u].then # "runs"
      <4>1. call[u].then \notin Held BY <1>t, <3>2 DEF CallRow, Returns
      <4> QED BY <1>b, <2>2, <4>1
    <3> QED BY <3>1, <3>2
  <2> QED BY <1>a, <2>1, <2>2
<1>10. CASE LockAccount(u)
  <2> DEFINE c == [call[u] EXCEPT !.at = "list", !.then = "runs"]
  <2>1. c.at = "list" BY <1>t DEF CallRow
  <2>2. call'[u] = c /\ guard' = u BY <1>10, <1>t DEF LockAccount, Become
  <2> HIDE DEF c
  <2> QED BY <2>1, <2>2 DEF Goal
\* All runs are listed, and only what has been moved leaves the list.
<1>11. CASE ListRuns(u)
  <2>1. PICK d : d = RunsLeft OBVIOUS
  <2> DEFINE c == [call[u] EXCEPT !.at = "retire", !.runs = d]
  <2>2. Become(u, c) /\ UNCHANGED <<run, guard>> /\ call[u].at = "runs"
    BY <1>11, <2>1 DEF ListRuns, RunsLeft, storeVars, At
  <2>3. c.at = "retire" /\ c.runs = d BY <1>t DEF CallRow
  <2>4. call'[u] = c BY <1>t, <2>2 DEF Become
  <2>5. guard' = u /\ RunsLeft' = d BY <1>h, <2>1, <2>2 DEF Holding, RunsLeft
  <2> HIDE DEF c
  <2> QED BY <2>3, <2>4, <2>5 DEF Goal
<1>12. CASE RetireRun(u)
  <2>1. PICK p : p = Target(u) OBVIOUS
  <2> DEFINE c == [call[u] EXCEPT !.runs = @ \ {p}]
  <2>2. CASE Answer(u) BY <1>a, <2>2
  <2>3. CASE ~Answer(u)
    <3>1. Become(u, c) /\ run' = [run EXCEPT ![p] = "none"] /\ UNCHANGED guard /\ call[u].at = "retire"
      BY <1>12, <2>1, <2>3 DEF RetireRun, At
    <3>2. c.at = "retire" /\ c.runs = call[u].runs \ {p} BY <1>t, <3>1 DEF CallRow
    <3>3. call'[u] = c BY <1>t, <3>1 DEF Become
    <3>4. guard' = u /\ RunsLeft \subseteq call[u].runs BY <1>h, <3>1 DEF Holding, Clearing
    <3>5. RunsLeft' \subseteq RunsLeft \ {p}
      <4>1. run \in [Projects -> {"none", "open", "locked", "ended"}] BY DEF TypeOK
      <4> QED BY <3>1, <4>1 DEF RunsLeft
    <3> HIDE DEF c
    <3> QED BY <3>2, <3>3, <3>4, <3>5 DEF Goal
  <2> QED BY <2>2, <2>3
<1>13. CASE ListAllRequests(u)
  <2>1. PICK k : k = Kept OBVIOUS
  <2> DEFINE c == [call[u] EXCEPT !.at = "remove", !.found = k]
  <2>2. CASE Answer(u) BY <1>a, <2>2
  <2>3. CASE ~Answer(u)
    <3>1. Become(u, c) /\ UNCHANGED <<request, run, guard>> /\ call[u].at = "retire" /\ call[u].runs = {}
      BY <1>13, <2>1, <2>3 DEF ListAllRequests, At
    <3>2. c.at = "remove" /\ c.found = k BY <1>t DEF CallRow
    <3>3. call'[u] = c BY <1>t, <3>1 DEF Become
    <3>4. guard' = u /\ RunsLeft = {} BY <1>h, <3>1 DEF Holding, Clearing
    <3>5. RunsLeft' = {} /\ Kept' = k BY <2>1, <3>1, <3>4 DEF RunsLeft, Kept
    <3> HIDE DEF c
    <3> QED BY <3>2, <3>3, <3>4, <3>5 DEF Goal
  <2> QED BY <2>2, <2>3
<1>14. CASE RetireRequests(u)
  <2>1. Goto(u, "cascade") BY <1>14 DEF RetireRequests
  <2> QED BY <1>b, <2>1
<1> QED BY <1>1, <1>2, <1>3, <1>4, <1>5, <1>6, <1>7, <1>8, <1>9, <1>10, <1>11, <1>12, <1>13, <1>14 DEF CallStep

\* Only the holder gives the lock back, and only a free one is taken.
LEMMA LockMoves ==
  ASSUME NEW u \in Callers, BeginCall(u) \/ BeginWithdraw(u) \/ CallStep(u) \/ CrashCaller(u)
  PROVE  guard' = guard \/ guard \in {u, NoOne}
<1>1. CASE BeginCall(u) \/ BeginWithdraw(u) \/ CrashCaller(u)
  BY <1>1 DEF BeginCall, BeginCreate, BeginPoll, BeginTrash, BeginDelete, BeginWithdraw, CrashCaller, storeVars, LetGo
<1>2. CASE CallStep(u)
  BY <1>2 DEF CallStep, InsertProject, CheckUser, RequestStart, AddStartRequest, RecheckUser, PurgeProject, ListRequests,
     CancelStartRequest, FindRuns, AbortRun, RequestAbort, LookAfterAbort, FinishAbort, ViewProject, DeleteArtifacts,
     ClearForms, ListProjects, NextProject, LockAccount, LockTimeout, ListRuns, RetireRun, ListAllRequests,
     RetireRequests, Cascade, storeVars, LetGo
<1> QED BY <1>1, <1>2

\* A call that does not move keeps its lock, and there is no more to clear than before.
LEMMA OthersLeave ==
  ASSUME LeaveInv, Tidy, NEW v \in Callers, call'[v] = call[v], guard = v => guard' = v
  PROVE  (Holding(call[v]) => guard = v)' /\ Clearing(call[v])'
<1>1. (Holding(call[v]) => guard = v) /\ Clearing(call[v]) /\ v # NoOne
  BY WebAccountAssumption DEF LeaveInv, WebAccountAssumption
<1>2. Holding(call'[v]) => guard' = v BY <1>1
<1>3. call'[v].at \in {"retire", "remove"} => RunsLeft' \subseteq RunsLeft /\ Kept' \subseteq Kept
  BY <1>1 DEF Tidy, Holding
<1> QED BY <1>1, <1>2, <1>3 DEF Holding, Clearing

LEMMA LeaveStep == TypeOK /\ LeaveInv /\ [Next]_vars => LeaveInv'
<1> SUFFICES ASSUME TypeOK, LeaveInv, [Next]_vars PROVE LeaveInv' OBVIOUS
<1>c. content \subseteq RunsLeft BY DEF LeaveInv
<1>1. CASE StoreStep /\ UNCHANGED <<user, call, stopped>>
  <2>1. Tidy BY <1>1, <1>c, StoreTidy
  <2>2. UNCHANGED guard
    BY <1>1 DEF StoreStep, WorkerStep, ClaimStartRequest, AcquireStartRequest, ReadRequest, DrainPreStage,
       FinishStartRequest, CreateRunForRequest, WorkerLockTimeout, Raise, CrashWorker, Heartbeat, ExpireRequest,
       MissRenewals, LockRun, UnlockRun
  <2>3. \A v \in Callers : (Holding(call[v]) => guard = v)' /\ Clearing(call[v])' BY <1>1, <2>1, <2>2, OthersLeave
  <2> QED BY <2>1, <2>3 DEF LeaveInv, Tidy
<1>2. ASSUME NEW u \in Callers, BeginCall(u) \/ BeginWithdraw(u) \/ CallStep(u) \/ CrashCaller(u) PROVE LeaveInv'
  <2>1. Tidy BY <1>2, <1>c, CallTidy
  <2>2. \A v \in Callers : v # u => call'[v] = call[v] BY <1>2, OwnCall
  <2>3. guard' = guard \/ guard \in {u, NoOne} BY <1>2, LockMoves
  <2>4. \A v \in Callers : v # u => (guard = v => guard' = v)
    BY <2>3, WebAccountAssumption DEF WebAccountAssumption
  <2>5. \A v \in Callers : v # u => (Holding(call[v]) => guard = v)' /\ Clearing(call[v])' BY <2>1, <2>2, <2>4, OthersLeave
  <2>6. (Holding(call[u]) => guard = u)' /\ Clearing(call[u])' BY <1>2, OwnLeave DEF Holding, Clearing
  <2>7. \A v \in Callers : (Holding(call[v]) => guard = v)' /\ Clearing(call[v])' BY <2>5, <2>6
  <2> QED BY <2>1, <2>7 DEF LeaveInv, Tidy
<1>3. CASE UNCHANGED vars
  <2>1. UNCHANGED <<request, run, content, guard, call>> BY <1>3 DEF vars, storeVars
  <2>2. Tidy BY <1>c, <2>1, RequestsTidy DEF NoneComes
  <2>3. \A v \in Callers : (Holding(call[v]) => guard = v)' /\ Clearing(call[v])' BY <2>1, <2>2, OthersLeave
  <2> QED BY <2>2, <2>3 DEF LeaveInv, Tidy
<1> QED BY <1>1, <1>2, <1>3 DEF Next

\* When delete_account_data returns without BUSY, the orchestrator has no request, run or
\* artifact of the account: it held the account lock from the abort to the last row, and
\* nobody adds a request or creates a run without that lock.
THEOREM NothingRemains == Spec => WithdrawalLeavesNothing
<1> DEFINE Empty == \A u \in Withdrawers :
             At(u, "remove") /\ call'[u].at = "cascade"
               => /\ \A r \in Requests : request'[r].status \in {"none", "deleted"}
                  /\ \A p \in Projects : run'[p] = "none"
                  /\ content' = {}
<1>1. TypeOK /\ LeaveInv /\ [Next]_vars => [Empty]_vars
  <2> SUFFICES ASSUME TypeOK, LeaveInv, Next, NEW u \in Withdrawers, At(u, "remove"), call'[u].at = "cascade"
               PROVE  /\ \A r \in Requests : request'[r].status \in {"none", "deleted"}
                      /\ \A p \in Projects : run'[p] = "none"
                      /\ content' = {}
    OBVIOUS
  <2>u. u \in Callers /\ call[u].at = "remove" BY DEF Callers, At
  <2>1. ~(StoreStep /\ UNCHANGED <<user, call, stopped>>) BY <2>u
  <2>2. PICK v \in Callers : BeginCall(v) \/ BeginWithdraw(v) \/ CallStep(v) \/ CrashCaller(v) BY <2>1 DEF Next
  <2>3. v = u BY <2>2, <2>u, OwnCall
  <2>4. RetireRequests(u)
    <3>1. ~CrashCaller(u)
      <4>1. CrashCaller(u) => call'[u] = NoCall BY <2>u DEF CrashCaller, Answer, TypeOK
      <4> QED BY <4>1 DEF NoCall
    <3> QED BY <2>2, <2>3, <2>u, <3>1 DEF BeginCall, BeginCreate, BeginPoll, BeginTrash, BeginDelete, BeginWithdraw, At,
         CallStep, InsertProject, CheckUser, RequestStart, AddStartRequest, RecheckUser, PurgeProject,
         ListRequests, CancelStartRequest, FindRuns, AbortRun, RequestAbort, LookAfterAbort, FinishAbort,
         ViewProject, DeleteArtifacts, ClearForms, ListProjects, NextProject, LockAccount, LockTimeout,
         ListRuns, RetireRun, ListAllRequests, Cascade
  <2>5. RunsLeft = {} /\ Kept \subseteq call[u].found /\ content = {} BY <2>u DEF LeaveInv, Clearing
  <2>6. request' = [r \in Requests |-> IF r \in call[u].found THEN Removed ELSE request[r]] /\ UNCHANGED <<run, content>>
    BY <2>4 DEF RetireRequests
  <2>7. ASSUME NEW r \in Requests PROVE request'[r].status \in {"none", "deleted"}
    <3>1. CASE r \in call[u].found BY <2>6, <3>1 DEF Removed, NoRow
    <3>2. CASE r \notin call[u].found BY <2>5, <2>6, <3>2 DEF Kept
    <3> QED BY <3>1, <3>2
  <2> QED BY <2>5, <2>6, <2>7 DEF RunsLeft
<1>2. Init => LeaveInv BY DEF Init, LeaveInv, NoCall, Holding, Clearing
<1>3. TypeOK /\ LeaveInv /\ [Next]_vars => LeaveInv' BY LeaveStep
<1>4. Spec => []TypeOK BY AccountTypes
<1> QED BY <1>1, <1>2, <1>3, <1>4, PTL DEF Spec, WithdrawalLeavesNothing
=============================================================================
