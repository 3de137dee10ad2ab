---------------------------- MODULE FileDeletions ----------------------------
(***************************************************************************)
(* Deleting what a run has produced: its artifacts in the database at      *)
(* once, its files in the object store later, by way of a queue            *)
(* (orch_file_deletions, orchestrator/file_deletion.py).  A worker that is *)
(* in a step of the run may still write.                                   *)
(*                                                                         *)
(* A claim of a row of the queue is the value of next_at that it wrote.    *)
(* No value of a row comes twice (each is the present time, or that and a  *)
(* delay), so row[r].stamp counts the values and row[r].due says that the  *)
(* present one has passed.                                                 *)
(***************************************************************************)
EXTENDS Naturals, FiniteSets

CONSTANTS
  Runs, Workers,
  MaxAttempts,   \* file_deletion.MAX_ATTEMPTS
  BatchSize,     \* file_deletion.BATCH_SIZE
  PutsEnd,       \* a write of a file ends within FIRST_DELAY_SEC
  MaxDeletes,    \* bound: deletions asked for, over all runs
  MaxRetries,    \* bound: administrators' retries
  MaxFaults,     \* bound: leases lost, deletions that outlast their claim, crashes
  NoRun, Nobody

ASSUME FileDeletionsAssumption ==
  /\ MaxAttempts \in Nat \ {0} /\ BatchSize \in Nat \ {0}
  /\ PutsEnd \in BOOLEAN
  /\ MaxDeletes \in Nat /\ MaxRetries \in Nat /\ MaxFaults \in Nat
  /\ NoRun \notin Runs /\ Nobody \notin Workers

VARIABLES
  progress,   \* orch_runs: "active", "ended" (finished, failed, aborted), "gone" (no row)
  owner,      \* whoever holds the lease of the run
  artifacts,  \* runs with rows in the artifact tables
  files,      \* runs with files under their prefix
  deleted,    \* observer: runs whose artifacts have been deleted
  row,        \* the queue, one row per run (uq_orch_file_deletions_run)
  worker,     \* where each worker thread stands, and the rows it has claimed
  deletes, retries, faults

vars == <<progress, owner, artifacts, files, deleted, row, worker, deletes, retries, faults>>
runVars == <<progress, owner, artifacts, deleted, deletes>>

QueueRow == [status : {"none", "waiting", "given_up"}, attempts : 0..MaxAttempts,
             due : BOOLEAN, first : BOOLEAN, stamp : Nat]
Thread == [at : {"idle", "step", "putting", "batch", "deleting", "deleted", "failed"},
           run : Runs \cup {NoRun}, claim : [Runs -> Nat]]
Idle == [at |-> "idle", run |-> NoRun, claim |-> [r \in Runs |-> 0]]

Init ==
  /\ progress = [r \in Runs |-> "active"] /\ owner = [r \in Runs |-> Nobody]
  /\ artifacts = Runs /\ files = {} /\ deleted = {}
  /\ row = [r \in Runs |-> [status |-> "none", attempts |-> 0, due |-> FALSE,
                            first |-> FALSE, stamp |-> 0]]
  /\ worker = [w \in Workers |-> Idle]
  /\ deletes = 0 /\ retries = 0 /\ faults = 0

At(w, x) == worker[w].at = x
Move(w, x) == worker' = [worker EXCEPT ![w].at = x]
Fault == faults < MaxFaults /\ faults' = faults + 1

-----------------------------------------------------------------------------
(* Workers in a step of a run *)

BeginStep(w, r) ==
  /\ At(w, "idle") /\ progress[r] = "active" /\ owner[r] = Nobody
  /\ owner' = [owner EXCEPT ![r] = w]
  /\ worker' = [worker EXCEPT ![w] = [Idle EXCEPT !.at = "step", !.run = r]]
  /\ UNCHANGED <<progress, artifacts, files, deleted, row, deletes, retries, faults>>

\* Mutant of Put: it trusts the progress the step has in memory.
PutUnchecked(w) ==
  At(w, "step") /\ Move(w, "putting") /\ UNCHANGED <<runVars, files, row, retries, faults>>

\* FileTool.put looks at the stored progress of the run before it writes;
\* FileRejected ends the step.
Put(w) ==
  /\ At(w, "step")
  /\ IF progress[worker[w].run] = "active"
     THEN Move(w, "putting")
     ELSE worker' = [worker EXCEPT ![w] = Idle]
  /\ UNCHANGED <<runVars, files, row, retries, faults>>

\* The write, repeated by Tools._call on failures, succeeds or is given up.
EndPut(w) ==
  /\ At(w, "putting")
  /\ files' \in {files, files \cup {worker[w].run}}
  /\ Move(w, "step")
  /\ UNCHANGED <<runVars, row, retries, faults>>

\* The step's artifacts are saved by whoever still owns the lease; the run goes
\* on later or has ended, by itself or by the request to abort it.
EndStep(w) ==
  /\ At(w, "step")
  /\ LET r == worker[w].run IN
     IF owner[r] = w
     THEN /\ artifacts' = artifacts \cup {r}
          /\ progress' \in {progress, [progress EXCEPT ![r] = "ended"]}
          /\ owner' = [owner EXCEPT ![r] = Nobody]
     ELSE UNCHANGED <<progress, owner, artifacts>>
  /\ worker' = [worker EXCEPT ![w] = Idle]
  /\ UNCHANGED <<files, deleted, row, deletes, retries, faults>>

\* Renewals fail and the lease runs out while its owner is in the step.
LoseLease(r) ==
  /\ owner[r] # Nobody /\ Fault
  /\ owner' = [owner EXCEPT ![r] = Nobody]
  /\ UNCHANGED <<progress, artifacts, files, deleted, row, worker, deletes, retries>>

\* RunService.abort on a run nobody works on.
Abort(r) ==
  /\ progress[r] = "active" /\ owner[r] = Nobody
  /\ progress' = [progress EXCEPT ![r] = "ended"]
  /\ UNCHANGED <<owner, artifacts, files, deleted, row, worker, deletes, retries, faults>>

-----------------------------------------------------------------------------
(* Asking for a deletion *)

\* _enqueue_file_deletion: a new row, or one that was given up starts again;
\* a waiting row stays as it is.
Enqueued(q) ==
  IF q.status = "waiting" THEN q
  ELSE [status |-> "waiting", attempts |-> 0, due |-> FALSE, first |-> TRUE, stamp |-> q.stamp + 1]

Drop(r) ==
  /\ artifacts' = artifacts \ {r} /\ deleted' = deleted \cup {r}
  /\ row' = [row EXCEPT ![r] = Enqueued(@)]

\* Mutant of DeleteArtifacts: it does not wait for a step that goes on.
DeleteArtifactsNow(r) ==
  /\ deletes < MaxDeletes /\ progress[r] # "gone"
  /\ Drop(r) /\ deletes' = deletes + 1
  /\ UNCHANGED <<progress, owner, files, worker, retries, faults>>

\* RunService.delete_project_data: BUSY while the run is in progress, else
\* SqlStore.delete_artifacts, without the lease of the run.
DeleteArtifacts(r) ==
  /\ deletes < MaxDeletes /\ progress[r] = "ended"
  /\ Drop(r) /\ deletes' = deletes + 1
  /\ UNCHANGED <<progress, owner, files, worker, retries, faults>>

\* SqlStore.retire_run(delete_run=True), by a withdrawal or after 12 months:
\* under the lease, for a run that is not in progress.
RetireRun(r) ==
  /\ progress[r] = "ended" /\ owner[r] = Nobody
  /\ Drop(r) /\ progress' = [progress EXCEPT ![r] = "gone"]
  /\ UNCHANGED <<owner, files, worker, deletes, retries, faults>>

\* SqlStore.retry_file_deletion, an administrator's.
RetryDeletion(r) ==
  /\ retries < MaxRetries /\ retries' = retries + 1
  /\ row[r].status = "given_up"
  /\ row' = [row EXCEPT ![r] = [status |-> "waiting", attempts |-> 0, due |-> TRUE,
                                first |-> FALSE, stamp |-> @.stamp + 1]]
  /\ UNCHANGED <<runVars, files, worker, faults>>

-----------------------------------------------------------------------------
(* The queue *)

\* Mutant of Holds: only the status is looked at.
HoldsWaiting(w, r) == worker[w].claim[r] # 0 /\ row[r].status = "waiting"

\* _held_deletion: the row still has the next_at of this worker's claim.
Holds(w, r) == worker[w].claim[r] # 0 /\ row[r].status = "waiting" /\ row[r].stamp = worker[w].claim[r]

\* next_at passes.  When it is the first delay of a row, the writes begun before
\* are over if PutsEnd; when it is a claim's and the worker is still at it, the
\* deletion took longer than RETRY_SEC.
Pass(r) ==
  /\ row[r].status = "waiting" /\ ~row[r].due
  /\ row[r].first /\ PutsEnd => \A w \in Workers : ~(At(w, "putting") /\ worker[w].run = r)
  /\ IF \E w \in Workers : Holds(w, r) THEN Fault ELSE UNCHANGED faults
  /\ row' = [row EXCEPT ![r].due = TRUE]
  /\ UNCHANGED <<runVars, files, worker, retries>>

\* Mutant of DueRows: a row that has failed is not taken up again.
FreshRows == {r \in Runs : row[r].status = "waiting" /\ row[r].due /\ row[r].attempts = 0}

DueRows == {r \in Runs : row[r].status = "waiting" /\ row[r].due}

\* claim_file_deletions: next_at moves RETRY_SEC on.
Claimed(q) == [q EXCEPT !.due = FALSE, !.first = FALSE, !.stamp = @ + 1]

Claim(w) ==
  /\ At(w, "idle")
  /\ \E S \in SUBSET DueRows :
       /\ S # {} /\ Cardinality(S) <= BatchSize
       /\ S = DueRows \/ Cardinality(S) = BatchSize
       /\ row' = [r \in Runs |-> IF r \in S THEN Claimed(row[r]) ELSE row[r]]
       /\ worker' = [worker EXCEPT ![w] =
            [at |-> "batch", run |-> NoRun, claim |-> [r \in Runs |-> IF r \in S THEN Claimed(row[r]).stamp ELSE 0]]]
  /\ UNCHANGED <<runVars, files, retries, faults>>

\* process_file_deletions takes up the next row of its batch.
NextRow(w) ==
  /\ At(w, "batch")
  /\ \E r \in Runs : worker[w].claim[r] # 0 /\ worker' = [worker EXCEPT ![w].at = "deleting", ![w].run = r]
  /\ UNCHANGED <<runVars, files, row, retries, faults>>

\* FileStore.delete_prefix returns, or raises.
DeletePrefix(w) ==
  /\ At(w, "deleting")
  /\ \/ files' = files \ {worker[w].run} /\ Move(w, "deleted")
     \/ files' = files /\ Move(w, "failed")
  /\ UNCHANGED <<runVars, row, retries, faults>>

\* The row is done with; after the last one the worker is idle.
LeaveRow(w) ==
  LET left == [worker[w].claim EXCEPT ![worker[w].run] = 0]
  IN worker' = [worker EXCEPT ![w] =
       IF \A r \in Runs : left[r] = 0 THEN Idle
       ELSE [at |-> "batch", run |-> NoRun, claim |-> left]]

FinishDeletion(w) ==
  /\ At(w, "deleted")
  /\ LET r == worker[w].run IN
     IF Holds(w, r)
     THEN row' = [row EXCEPT ![r] = [@ EXCEPT !.status = "none", !.due = FALSE, !.first = FALSE]]
     ELSE UNCHANGED row
  /\ LeaveRow(w)
  /\ UNCHANGED <<runVars, files, retries, faults>>

\* Mutant of Failed: given up after one attempt more.
FailedOnceMore(q) ==
  IF q.attempts >= MaxAttempts
  THEN [q EXCEPT !.status = "given_up", !.attempts = @ + 1]
  ELSE [q EXCEPT !.attempts = @ + 1, !.due = FALSE, !.first = FALSE, !.stamp = @ + 1]

\* fail_file_deletion
Failed(q) ==
  IF q.attempts + 1 >= MaxAttempts
  THEN [q EXCEPT !.status = "given_up", !.attempts = @ + 1]
  ELSE [q EXCEPT !.attempts = @ + 1, !.due = FALSE, !.first = FALSE, !.stamp = @ + 1]

FailDeletion(w) ==
  /\ At(w, "failed")
  /\ LET r == worker[w].run
     IN IF Holds(w, r) THEN row' = [row EXCEPT ![r] = Failed(@)] ELSE UNCHANGED row
  /\ LeaveRow(w)
  /\ UNCHANGED <<runVars, files, retries, faults>>

\* The process dies, or stops before the next row: its leases and its claims run out.
Crash(w) ==
  /\ ~At(w, "idle") /\ Fault
  /\ worker' = [worker EXCEPT ![w] = Idle]
  /\ owner' = [r \in Runs |-> IF owner[r] = w THEN Nobody ELSE owner[r]]
  /\ UNCHANGED <<progress, artifacts, files, deleted, row, deletes, retries>>

-----------------------------------------------------------------------------

InStep(w) == Put(w) \/ EndPut(w) \/ EndStep(w)
InQueue(w) == NextRow(w) \/ DeletePrefix(w) \/ FinishDeletion(w) \/ FailDeletion(w)

Next ==
  \/ \E w \in Workers : InStep(w) \/ Claim(w) \/ InQueue(w) \/ Crash(w)
                        \/ \E r \in Runs : BeginStep(w, r)
  \/ \E r \in Runs : LoseLease(r) \/ Abort(r) \/ DeleteArtifacts(r) \/ RetireRun(r)
                     \/ RetryDeletion(r) \/ Pass(r)

Spec == Init /\ [][Next]_vars

\* A step writes finitely many files and ends; in each of its rounds a worker
\* looks at the queue when that is due (Worker.run_once); time passes.
Fairness ==
  /\ \A w \in Workers : WF_vars(EndPut(w)) /\ SF_vars(EndStep(w)) /\ SF_vars(Claim(w)) /\ WF_vars(InQueue(w))
  /\ \A r \in Runs : WF_vars(Pass(r))

FairSpec == Spec /\ Fairness

-----------------------------------------------------------------------------
(* Properties *)

\* Every variable has its type; the failures of a row never exceed MaxAttempts
\* (fail_file_deletion).
TypeOK ==
  /\ progress \in [Runs -> {"active", "ended", "gone"}]
  /\ owner \in [Runs -> Workers \cup {Nobody}]
  /\ artifacts \subseteq Runs /\ files \subseteq Runs /\ deleted \subseteq Runs
  /\ row \in [Runs -> QueueRow]
  /\ worker \in [Workers -> Thread]
  /\ deletes \in 0..MaxDeletes /\ retries \in 0..MaxRetries /\ faults \in 0..MaxFaults

\* What was deleted stays deleted: no step that was under way brings artifacts
\* back (delete_project_data waits for it, commit asks for the lease).
DeletedStays == deleted \cap artifacts = {}

\* Once the artifacts of a run are deleted and its row has left the queue, no
\* file of it is left either, however late a step wrote (FileTool.put,
\* FIRST_DELAY_SEC, process_file_deletions).
NothingLeft == \A r \in deleted : row[r].status = "none" => r \notin files

\* At most one worker can finish or fail a row of the queue, however many have
\* claimed it one after the other (_held_deletion).
OneHolder == \A r \in Runs, v, w \in Workers : Holds(v, r) /\ Holds(w, r) => v = w

\* A row does not wait for ever: its files are deleted or it is given up for an
\* administrator to see (process_file_deletions).
DeletionSettles == \A r \in Runs : row[r].status = "waiting" ~> row[r].status # "waiting"
=============================================================================
