------------------------------ MODULE RunLease ------------------------------
(***************************************************************************)
(* One run worked on by several worker threads and web commands at once.   *)
(* The only thing that orders them is the lease of the run's row           *)
(* (lease_owner, lease_until): an actor takes it with a conditional        *)
(* UPDATE, loads the row into memory, and every later save is refused      *)
(* (StoreConflict) unless the row still names it.  Each action is one      *)
(* transaction of the store together with the code around it.              *)
(*                                                                         *)
(* Workers are the threads of worker.py (run_once, _do) inside engine.py   *)
(* advance, resume and drain.  Web requests run service.py _command,       *)
(* _request_rework or abort, each call under an owner name of its own.     *)
(***************************************************************************)
EXTENDS RunModel

CONSTANTS
  Workers,     \* worker threads (lease owner host:pid:thread)
  Deciders,    \* web requests that end in _command (lease owner cmd-<id>)
  Reworkers,   \* web requests that end in _request_rework
  Aborters,    \* web requests that end in abort
  NoOwner,     \* lease_owner IS NULL
  NoCopy,      \* no RunContext in memory
  MaxFaults    \* bound: errors, crashes, missed heartbeats and shutdowns

Commands == Deciders \cup Reworkers \cup Aborters
Actors == Workers \cup Commands

ASSUME RunLeaseAssumption ==
  /\ Workers \cap Commands = {}
  /\ Deciders \cap (Reworkers \cup Aborters) = {}
  /\ Reworkers \cap Aborters = {}
  /\ NoOwner \notin Actors
  /\ NoCopy \notin Row
  /\ MaxFaults \in Nat

VARIABLES
  run,              \* the committed row
  abortRequested,   \* column abort_requested, written without the lease
  windowOpen,       \* now < cycle.collect_until
  owner,            \* column lease_owner
  live,             \* lease_until > now
  pc,               \* where each actor stands
  copy,             \* RunContext.run: the row as the actor loaded or last saved it
  faults,           \* faults so far
  late              \* observer: steps saved after the abort request (2 = two or more)

vars == <<run, abortRequested, windowOpen, owner, live, pc, copy, faults, late>>

Life == INSTANCE RunLife

WorkerPC == {"idle", "claimed", "claimedResume", "load", "loadResume", "resume", "loop",
             "step", "segEnd", "abort", "release", "raised", "retake"}
CommandPC == {"idle", "acquire", "load", "save", "release", "flag"}

\* Actors that loaded the row and still mean to save it.
Holding == {"resume", "loop", "step", "segEnd", "abort", "save"}

\* From taking the lease to the end of the call.  A lease whose owner is not
\* working was left behind, and only time frees it.
Working(a) == IF a \in Workers THEN pc[a] # "idle" ELSE pc[a] \in {"load", "save", "release"}

Collecting == Life!Collecting(run, windowOpen)

\* Mutant of Free: a lease left behind is never taken over.
FreeWhenReleased == owner = NoOwner

Free == owner = NoOwner \/ ~live

Goto(a, p) == pc' = [pc EXCEPT ![a] = p]
Forget(a) == copy' = [copy EXCEPT ![a] = NoCopy]
TakeLease(a) == owner' = a /\ live' = TRUE
Fault == faults < MaxFaults /\ faults' = faults + 1

Init ==
  /\ run = NewRow /\ abortRequested = FALSE /\ windowOpen = FALSE
  /\ owner = NoOwner /\ live = FALSE
  /\ pc = [a \in Actors |-> "idle"]
  /\ copy = [a \in Actors |-> NoCopy]
  /\ faults = 0 /\ late = 0

-----------------------------------------------------------------------------
(* The store's part *)

\* SqlStore.acquire: one conditional UPDATE.
Acquire(a, won, lost) ==
  /\ IF Free \/ owner = a THEN TakeLease(a) /\ Goto(a, won)
                          ELSE UNCHANGED <<owner, live>> /\ Goto(a, lost)
  /\ UNCHANGED <<run, abortRequested, windowOpen, copy, faults, late>>

\* Mutant of Commit: checks that the lease still runs, and not whose it is.
CommitWhileLive(a, rows, saved, refused) ==
  IF live
  THEN /\ run' \in rows
       /\ copy' = [copy EXCEPT ![a] = run']
       /\ live' = TRUE
       /\ Goto(a, saved)
  ELSE Forget(a) /\ Goto(a, refused) /\ UNCHANGED <<run, live>>

\* Mutant of Commit: the row is written whatever it says about its owner.
CommitUnchecked(a, rows, saved, refused) ==
  /\ run' \in rows
  /\ copy' = [copy EXCEPT ![a] = run']
  /\ live' = live
  /\ Goto(a, saved)

\* SqlStore.commit: write the row and extend the lease, or StoreConflict.
\* It compares the owner and not the expiry.
Commit(a, rows, saved, refused) ==
  IF owner = a
  THEN /\ run' \in rows
       /\ copy' = [copy EXCEPT ![a] = run']
       /\ live' = TRUE
       /\ Goto(a, saved)
  ELSE Forget(a) /\ Goto(a, refused) /\ UNCHANGED <<run, live>>

\* SqlStore.release: nothing happens when the row names somebody else.
Release(a, next) ==
  /\ IF owner = a THEN owner' = NoOwner /\ live' = FALSE ELSE UNCHANGED <<owner, live>>
  /\ Forget(a) /\ Goto(a, next)
  /\ UNCHANGED <<run, abortRequested, windowOpen, faults, late>>

\* SqlStore._claim_run, for runs in progress and for timed resumes.
Claim(w, next) ==
  /\ pc[w] = "idle" /\ Free
  /\ TakeLease(w) /\ Goto(w, next)
  /\ UNCHANGED <<run, abortRequested, windowOpen, copy, faults, late>>

ClaimReadyRun(w) == run.progress = "run" /\ ~Collecting /\ Claim(w, "claimed")
ClaimDueResume(w) == run.progress = "resume_wait" /\ Claim(w, "claimedResume")

-----------------------------------------------------------------------------
(* Worker threads *)

AcquireToAdvance(w) == pc[w] = "claimed" /\ Acquire(w, "load", "idle")
AcquireToResume(w) == pc[w] = "claimedResume" /\ Acquire(w, "loadResume", "idle")

\* load_run: the state is checked again under the lease.
Load(w, from, ready, next) ==
  /\ pc[w] = from
  /\ IF ready THEN copy' = [copy EXCEPT ![w] = run] /\ Goto(w, next)
              ELSE UNCHANGED copy /\ Goto(w, "release")
  /\ UNCHANGED <<run, abortRequested, windowOpen, owner, live, faults, late>>

\* Mutant of LoadToAdvance: trusts the check of the claim.
LoadWithoutCheck(w) == Load(w, "load", TRUE, "loop")

LoadToAdvance(w) == Load(w, "load", run.progress = "run" /\ ~Collecting, "loop")
LoadToResume(w) == Load(w, "loadResume", run.progress = "resume_wait", "resume")

\* Mutant of DrainTop: the abort request is looked at between segments only.
DrainTopLate(w) ==
  /\ pc[w] = "loop"
  /\ Goto(w, IF copy[w].progress # "run" THEN "release"
             ELSE IF copy[w].left > 0 THEN "step"
             ELSE IF abortRequested THEN "abort" ELSE "segEnd")
  /\ UNCHANGED <<run, abortRequested, windowOpen, owner, live, copy, faults, late>>

\* Top of Engine.drain: leave, honour an abort request, close the segment or
\* begin the next step.
DrainTop(w) ==
  /\ pc[w] = "loop"
  /\ Goto(w, IF copy[w].progress # "run" THEN "release"
             ELSE IF abortRequested THEN "abort"
             ELSE IF copy[w].left = 0 THEN "segEnd" ELSE "step")
  /\ UNCHANGED <<run, abortRequested, windowOpen, owner, live, copy, faults, late>>

SaveFrom(w, from, rows, saved) ==
  /\ pc[w] = from
  /\ Commit(w, rows, saved, "raised")
  /\ UNCHANGED <<abortRequested, windowOpen, owner, faults>>

SaveResume(w) == SaveFrom(w, "resume", {AfterResume(copy[w])}, "loop") /\ UNCHANGED late
SaveAbort(w) == SaveFrom(w, "abort", {AfterAbort(copy[w])}, "release") /\ UNCHANGED late
SaveSegmentEnd(w) == SaveFrom(w, "segEnd", AfterQueueEmpty(copy[w]), "loop") /\ UNCHANGED late

\* A self-check redo inside run_step: saved, and the same step runs again.
SaveRedo(w) == SaveFrom(w, "step", {copy[w]}, "step") /\ UNCHANGED late

SaveStep(w) ==
  /\ SaveFrom(w, "step", AfterStep(copy[w]), "loop")
  /\ late' = IF owner = w /\ abortRequested /\ late < 2 THEN late + 1 ELSE late

ReleaseRun(w) == pc[w] = "release" /\ Release(w, "idle")

\* An exception left advance or resume: the finally clause released the run,
\* then Worker._do takes the lease again and leaves it to expire.
ReleaseRaised(w) == pc[w] = "raised" /\ Release(w, "retake")
Retake(w) == pc[w] = "retake" /\ Acquire(w, "idle", "idle")

\* A database error or an error outside a step.
Raise(w) ==
  /\ pc[w] # "idle" /\ Fault
  /\ Goto(w, CASE pc[w] \in Holding \cup {"load", "loadResume"} -> "raised"
               [] pc[w] \in {"claimed", "claimedResume", "release", "raised"} -> "retake"
               [] OTHER -> "idle")
  /\ Forget(w)
  /\ UNCHANGED <<run, abortRequested, windowOpen, owner, live, late>>

\* SIGTERM: the engine leaves between two steps and releases the run.
StopBetweenSteps(w) ==
  /\ pc[w] = "loop" /\ copy[w].progress = "run" /\ ~abortRequested /\ Fault
  /\ Goto(w, "release")
  /\ UNCHANGED <<run, abortRequested, windowOpen, owner, live, copy, late>>

\* Worker.heartbeat: renew compares the owner and not the expiry.
Heartbeat(w) ==
  /\ Working(w) /\ owner = w /\ ~live
  /\ live' = TRUE
  /\ UNCHANGED <<run, abortRequested, windowOpen, owner, pc, copy, faults, late>>

-----------------------------------------------------------------------------
(* Web requests *)

\* _check_waiting and _rework_screen before the lease is asked for.
StartDecide(c) == c \in Deciders /\ run.progress = "user_wait" /\ Goto(c, "acquire")
StartRework(c) ==
  c \in Reworkers /\ (run.progress = "user_wait" \/ Collecting) /\ Goto(c, "acquire")

\* abort: is_locked first, and a locked run only gets the request.
StartAbort(c) == c \in Aborters /\ Goto(c, IF live THEN "flag" ELSE "acquire")

StartCommand(c) ==
  /\ pc[c] = "idle"
  /\ StartDecide(c) \/ StartRework(c) \/ StartAbort(c)
  /\ UNCHANGED <<run, abortRequested, windowOpen, owner, live, copy, faults, late>>

\* Each call has an owner name of its own, so only a free row can be taken.
\* The loser answers BUSY or INVALID_STATE, or leaves an abort request.
CommandAcquire(c) ==
  /\ pc[c] = "acquire"
  /\ IF Free THEN TakeLease(c) /\ Goto(c, "load")
     ELSE UNCHANGED <<owner, live>> /\ Goto(c, IF c \in Aborters THEN "flag" ELSE "idle")
  /\ UNCHANGED <<run, abortRequested, windowOpen, copy, faults, late>>

\* Mutant of Accepts: the command trusts the check it made without the lease.
AcceptsAny(c) == TRUE

\* The state is checked again on the row loaded under the lease.
Accepts(c) == \/ c \in Deciders /\ run.progress = "user_wait"
              \/ c \in Reworkers /\ (run.progress = "user_wait" \/ Collecting)
              \/ c \in Aborters /\ run.progress \in ActiveProgress

CommandLoad(c) ==
  /\ pc[c] = "load"
  /\ IF Accepts(c) THEN copy' = [copy EXCEPT ![c] = run] /\ Goto(c, "save")
                   ELSE UNCHANGED copy /\ Goto(c, "release")
  /\ UNCHANGED <<run, abortRequested, windowOpen, owner, live, faults, late>>

Rows(c) == IF c \in Deciders THEN AfterCommand(copy[c])
           ELSE IF c \in Reworkers THEN AfterRework(copy[c])
           ELSE {AfterAbort(copy[c])}

\* A cycle opened at a waiting point starts its collecting window.
CommandSave(c) ==
  /\ pc[c] = "save"
  /\ Commit(c, Rows(c), "release", "release")
  /\ IF owner = c /\ c \in Reworkers /\ copy[c].progress = "user_wait"
     THEN windowOpen' \in BOOLEAN ELSE UNCHANGED windowOpen
  /\ UNCHANGED <<abortRequested, owner, faults, late>>

\* MORE_LIMIT, ANNOUNCEMENT_BLOCKED, E-G2-LIMIT and the like: nothing is saved.
CommandReject(c) ==
  /\ pc[c] = "save" /\ c \notin Aborters
  /\ Forget(c) /\ Goto(c, "release")
  /\ UNCHANGED <<run, abortRequested, windowOpen, owner, live, faults, late>>

CommandRelease(c) == pc[c] = "release" /\ Release(c, "idle")

RequestAbort(c) ==
  /\ pc[c] = "flag"
  /\ abortRequested' = TRUE
  /\ Goto(c, "idle")
  /\ UNCHANGED <<run, windowOpen, owner, live, copy, faults, late>>

-----------------------------------------------------------------------------
(* Time and crashes *)

\* collect_until passes.
CloseWindow ==
  /\ windowOpen /\ windowOpen' = FALSE
  /\ UNCHANGED <<run, abortRequested, owner, live, pc, copy, faults, late>>

\* lease_until of a lease left behind passes.
Expire ==
  /\ owner # NoOwner /\ live /\ ~Working(owner)
  /\ live' = FALSE
  /\ UNCHANGED <<run, abortRequested, windowOpen, owner, pc, copy, faults, late>>

\* While its owner works the heartbeat renews the lease in time (a command is
\* far shorter than its lease), unless heartbeats fail or the process stalls.
MissRenewals ==
  /\ owner # NoOwner /\ live /\ Working(owner) /\ Fault
  /\ live' = FALSE
  /\ UNCHANGED <<run, abortRequested, windowOpen, owner, pc, copy, late>>

\* The process dies; its lease stays in the row.
Crash(a) ==
  /\ pc[a] # "idle" /\ Fault
  /\ Forget(a) /\ Goto(a, "idle")
  /\ UNCHANGED <<run, abortRequested, windowOpen, owner, live, late>>

-----------------------------------------------------------------------------
WorkerStep(w) ==
  \/ ClaimReadyRun(w) \/ ClaimDueResume(w)
  \/ AcquireToAdvance(w) \/ AcquireToResume(w) \/ LoadToAdvance(w) \/ LoadToResume(w)
  \/ DrainTop(w)
  \/ SaveResume(w) \/ SaveAbort(w) \/ SaveSegmentEnd(w) \/ SaveStep(w)
  \/ ReleaseRun(w) \/ ReleaseRaised(w) \/ Retake(w)

CommandStep(c) ==
  \/ CommandAcquire(c) \/ CommandLoad(c) \/ CommandSave(c) \/ CommandReject(c)
  \/ CommandRelease(c) \/ RequestAbort(c)

Next ==
  \/ \E w \in Workers : WorkerStep(w) \/ SaveRedo(w) \/ Raise(w) \/ StopBetweenSteps(w)
                          \/ Heartbeat(w)
  \/ \E c \in Commands : StartCommand(c) \/ CommandStep(c)
  \/ \E a \in Actors : Crash(a)
  \/ CloseWindow \/ Expire \/ MissRenewals

Spec == Init /\ [][Next]_vars

\* A worker that polls finds the run, a thread inside a call goes on, a web
\* request that began ends, and the clock moves.  Nothing makes a user act,
\* and nothing forces a redo, a heartbeat or a fault.
Fairness ==
  /\ \A w \in Workers : WF_vars(WorkerStep(w))
  /\ \A c \in Commands : WF_vars(CommandStep(c))
  /\ WF_vars(CloseWindow) /\ WF_vars(Expire)

FairSpec == Spec /\ Fairness

-----------------------------------------------------------------------------
(* Properties *)

TypeOK ==
  /\ run \in Row /\ abortRequested \in BOOLEAN /\ windowOpen \in BOOLEAN
  /\ owner \in Actors \cup {NoOwner} /\ live \in BOOLEAN
  /\ pc \in [Actors -> WorkerPC \cup CommandPC]
  /\ copy \in [Actors -> Row \cup {NoCopy}]
  /\ faults \in 0..MaxFaults /\ late \in 0..2

\* Whoever the row names and is about to save holds exactly the committed
\* row: whatever the lease went through (expiry, renewal after expiry,
\* takeover, crash, retake after an error), nobody can save over a change
\* it has not seen (commit's owner check, store_sql/store.py).
CopyIsCurrent == \A a \in Actors : owner = a /\ pc[a] \in Holding => copy[a] = run

\* After a stop request at most the one step already running is still saved
\* (schema.py abort_requested: "reflected between steps"), whichever worker
\* takes the run over in between.
AtMostOneLateStep == late <= 1

\* A step of a rework cycle is never saved while requests may still join the
\* cycle, so no bundle is added to a cycle whose work began
\* (Engine.extend_cycle: "only before the first step runs").
NoWorkWhileCollecting ==
  [][run.cycle # "none" /\ run'.cycle = "worked" => ~Collecting]_vars

\* A finished run stays as it is: no worker that lost its lease, no late
\* command and no resume brings it back.
FinalStays == [][run.progress \in FinalProgress => run' = run]_vars

\* Every change of the row is one handler applied to the latest row: the
\* concurrent system implements the sequential life of a run.
LifeSpec == Life!Spec

\* Work does not get stuck: with finitely many faults, a run that is in
\* progress or waits for a timed resume comes to its user or to an end.
WorkSettles ==
  run.progress \in {"run", "resume_wait"} ~> run.progress \in {"user_wait"} \cup FinalProgress
=============================================================================
