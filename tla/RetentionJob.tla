---------------------------- MODULE RetentionJob ----------------------------
(***************************************************************************)
(* The records of runs and start requests without activity for twelve      *)
(* months become anonymous statistics (flow/retention.py).  One worker at  *)
(* a time does it, once a day, under the lease of the job; it takes the    *)
(* lease of each run, which nothing renews, reads, and then moves the      *)
(* records in one transaction.  In the meantime others take runs whose     *)
(* lease has expired, drop artifacts without a lease, or withdraw the      *)
(* account, which moves the same records by the same functions.            *)
(*                                                                         *)
(* A mover is a worker's thread in the job or a withdrawal.  Its lease on  *)
(* a run is in its own name (RUN_OWNER_SUFFIX, "withdraw-").               *)
(***************************************************************************)
EXTENDS Naturals, Sequences, FiniteSets

CONSTANTS
  Runs, Requests,       \* runs, and old start requests that have ended
  Workers, Withdrawals, \* worker threads; withdrawals of the account
  Users,                \* whoever else works on a run: a command, a step
  Nobody, NoRun,
  BatchSize,            \* retention.BATCH_SIZE
  MaxVisits,            \* bound: visits of users, withdrawals begun
  MaxFaults             \* bound: crashes, stops, errors, missed renewals

Movers == Workers \cup Withdrawals
Owners == Movers \cup Users

ASSUME RetentionAssumption ==
  /\ BatchSize \in Nat \ {0} /\ MaxVisits \in Nat /\ MaxFaults \in Nat
  /\ Workers \cap Withdrawals = {} /\ Users \cap Movers = {} /\ Nobody \notin Owners
  /\ NoRun \notin Runs
  /\ IsFiniteSet(Runs) /\ IsFiniteSet(Requests)

VARIABLES
  present,   \* runs with a row in orch_runs
  busy,      \* runs whose progress is in BUSY_PROGRESS
  aged,      \* runs whose updated_at is more than twelve months ago
  pointers,  \* runs with artifact pointers
  records,   \* how many lines the six tables hold of a run
  parts,     \* Run.stats_parts
  lease,     \* lease_owner of each run
  live,      \* runs with lease_until in the future
  lines,     \* orch_log_stats: the parts of the lines written for a run
  moved,     \* how many records those lines count
  written,   \* observer: records ever written for a run
  requests,  \* start requests in their table
  counted,   \* how often a start request is in a statistics line
  job,       \* orch_jobs: owner, live, due (last_finished_at at least a day ago)
  mover,     \* where each mover stands
  visitor,   \* the run each user is in
  visits, faults

rowVars == <<present, busy, aged, pointers, records, parts, lines, moved, written>>
leaseVars == <<lease, live>>
requestVars == <<requests, counted>>
bounds == <<visits, faults>>
vars == <<rowVars, leaseVars, requestVars, job, mover, visitor, bounds>>

Thread == [at : {"idle", "batch", "run", "load", "look", "gather", "retire", "release",
                 "requests", "count", "finish"},
           run : Runs \cup {NoRun}, queue : SUBSET Runs, seen : SUBSET Runs,
           skipped : SUBSET Runs, old : SUBSET Runs, gone : BOOLEAN, count : Nat, part : Nat,
           asked : SUBSET Requests, failed : SUBSET Requests, owed : SUBSET Runs]
Idle == [at |-> "idle", run |-> NoRun, queue |-> {}, seen |-> {}, skipped |-> {}, old |-> {},
         gone |-> FALSE, count |-> 0, part |-> 0, asked |-> {}, failed |-> {}, owed |-> {}]

Init ==
  /\ present \in SUBSET Runs /\ busy \in SUBSET present /\ aged = {} /\ pointers = present
  /\ records = [r \in Runs |-> IF r \in present THEN 1 ELSE 0] /\ written = records
  /\ parts = [r \in Runs |-> 0] /\ lines = [r \in Runs |-> <<>>] /\ moved = [r \in Runs |-> 0]
  /\ lease = [r \in Runs |-> Nobody] /\ live = {}
  /\ requests = Requests /\ counted = [q \in Requests |-> 0]
  /\ job = [owner |-> Nobody, live |-> FALSE, due |-> TRUE]
  /\ mover = [m \in Movers |-> Idle] /\ visitor = [u \in Users |-> NoRun]
  /\ visits = 0 /\ faults = 0

At(m, x) == mover[m].at = x
Move(m, x) == mover' = [mover EXCEPT ![m].at = x]
Fault == faults < MaxFaults /\ faults' = faults + 1 /\ UNCHANGED visits
\* Mutant of FreeFor: a lease that has expired is not taken over.
FreeOrMine(m, r) == r \in present /\ lease[r] \in {Nobody, m}

FreeFor(m, r) == r \in present /\ (lease[r] \in {Nobody, m} \/ r \notin live)

-----------------------------------------------------------------------------
(* Targets and the parts of a move *)

\* Runs that retention_run_targets finds for a cutoff the runs in old lie before.
Targets(old) ==
  {r \in (present \cap old) \ busy :
     (lease[r] = Nobody \/ r \notin live) /\ (records[r] > 0 \/ r \notin pointers)}

\* The first n of a set, in an order that does not matter here.
Firsts(S, n) == IF Cardinality(S) <= n THEN {S} ELSE {T \in SUBSET S : Cardinality(T) = n}

\* Mutant of Page: it does not make up for the runs that are skipped.
PagePlain(skipped) == BatchSize

Page(skipped) == BatchSize + Cardinality(skipped)

\* Mutant of Holds: the transaction trusts the lease the mover took.
HoldsOnce(m, r) == r \in present

\* SELECT ... FOR UPDATE in retire_run.
Holds(m, r) == r \in present /\ lease[r] = m

\* The records become a line of the statistics, if there are any.
MoveRecords(r, n, part) ==
  /\ lines' = IF n > 0 THEN [lines EXCEPT ![r] = Append(@, part)] ELSE lines
  /\ moved' = [moved EXCEPT ![r] = @ + n]
  /\ records' = [records EXCEPT ![r] = 0]

\* Mutant of DeleteRow: the pointers stay.
RowOnly(r) ==
  /\ present' = present \ {r} /\ busy' = busy \ {r}
  /\ lease' = [lease EXCEPT ![r] = Nobody] /\ live' = live \ {r}
  /\ UNCHANGED <<pointers, parts>>

DeleteRow(r) ==
  /\ present' = present \ {r} /\ pointers' = pointers \ {r} /\ busy' = busy \ {r}
  /\ lease' = [lease EXCEPT ![r] = Nobody] /\ live' = live \ {r}
  /\ UNCHANGED parts

\* bump_parts: only if a line was written.
Bump(r, n) ==
  /\ parts' = IF n > 0 THEN [parts EXCEPT ![r] = @ + 1] ELSE parts
  /\ UNCHANGED <<present, pointers, busy, leaseVars>>

\* retire_run, one transaction.
RetireRun(m, r) ==
  LET t == mover[m] IN
  /\ MoveRecords(r, t.count, t.part)
  /\ IF t.gone THEN DeleteRow(r) ELSE Bump(r, t.count)
  /\ UNCHANGED <<aged, written>>

\* retire_start_requests refuses a list of which one is no longer there.
AllThere(asked) == asked \subseteq requests

CountRequests(asked) ==
  /\ requests' = requests \ asked
  /\ counted' = [q \in Requests |-> IF q \in asked THEN counted[q] + 1 ELSE counted[q]]

ReleaseRun(m, r) ==
  IF lease[r] = m THEN lease' = [lease EXCEPT ![r] = Nobody] /\ live' = live \ {r}
                  ELSE UNCHANGED leaseVars

-----------------------------------------------------------------------------
(* The job *)

Due == job.due /\ (job.owner = Nobody \/ ~job.live)

\* try_start_job.  The runs owed are those the job must not leave behind.
StartJob(w) ==
  /\ At(w, "idle") /\ Due
  /\ job' = [job EXCEPT !.owner = w, !.live = TRUE]
  /\ mover' = [mover EXCEPT ![w] = [Idle EXCEPT !.at = "batch", !.old = aged, !.owed = Targets(aged)]]
  /\ UNCHANGED <<rowVars, leaseVars, requestVars, visitor, bounds>>

\* The heartbeat extends the lease of the job, never that of a run.
RenewJob(w) ==
  /\ job.owner = w /\ ~At(w, "idle") /\ ~job.live
  /\ job' = [job EXCEPT !.live = TRUE]
  /\ UNCHANGED <<rowVars, leaseVars, requestVars, mover, visitor, bounds>>

\* A page of targets: what has been seen is left out.
NextBatch(w) ==
  /\ At(w, "batch") /\ job.owner = w
  /\ \E page \in Firsts(Targets(mover[w].old), Page(mover[w].skipped)) :
       LET new == page \ mover[w].seen IN
       IF new = {} THEN Move(w, "requests")
       ELSE \E q \in Firsts(new, BatchSize) :
              mover' = [mover EXCEPT ![w].at = "run", ![w].queue = q]
  /\ UNCHANGED <<rowVars, leaseVars, requestVars, job, visitor, bounds>>

\* Another worker has the job: this one leaves it alone (_job_held, _halt).
JobLost(w) ==
  /\ At(w, "batch") \/ At(w, "requests")
  /\ job.owner # w
  /\ mover' = [mover EXCEPT ![w] = Idle]
  /\ UNCHANGED <<rowVars, leaseVars, requestVars, job, visitor, bounds>>

EndBatch(w) ==
  /\ At(w, "run") /\ mover[w].queue = {} /\ w \in Workers
  /\ Move(w, "batch")
  /\ UNCHANGED <<rowVars, leaseVars, requestVars, job, visitor, bounds>>

\* A job owes no run that another mover has taken from under it.
Takes(m, t, r) ==
  [n \in Movers |-> IF n = m THEN t ELSE [mover[n] EXCEPT !.owed = @ \ {r}]]

AcquireRun(w) ==
  /\ At(w, "run") /\ w \in Workers
  /\ \E r \in mover[w].queue :
       LET t == [mover[w] EXCEPT !.queue = @ \ {r}, !.seen = @ \cup {r}] IN
       IF FreeFor(w, r)
       THEN /\ lease' = [lease EXCEPT ![r] = w] /\ live' = live \cup {r}
            /\ mover' = Takes(w, [t EXCEPT !.at = "load", !.run = r], r)
       ELSE mover' = [mover EXCEPT ![w] = [t EXCEPT !.skipped = @ \cup {r}]] /\ UNCHANGED leaseVars
  /\ UNCHANGED <<rowVars, requestVars, job, visitor, bounds>>

\* Leaving a run without moving it.
Skip(m) == mover' = [mover EXCEPT ![m].at = "release", ![m].skipped = @ \cup {mover[m].run}]

\* The look after the lease has been taken.
Rests(m, r) == r \in mover[m].old /\ r \notin busy

LoadRun(w) ==
  LET r == mover[w].run IN
  /\ At(w, "load") /\ w \in Workers
  /\ IF r \in present /\ Rests(w, r)
     THEN mover' = [mover EXCEPT ![w].at = "look", ![w].part = parts[r] + 1]
     ELSE Skip(w)
  /\ UNCHANGED <<rowVars, leaseVars, requestVars, job, visitor, bounds>>

\* has_pointers: a run without any has been deleted for ever.
LookAtPointers(w) ==
  /\ At(w, "look")
  /\ mover' = [mover EXCEPT ![w].at = "gather", ![w].gone = mover[w].run \notin pointers]
  /\ UNCHANGED <<rowVars, leaseVars, requestVars, job, visitor, bounds>>

\* gather_run_stats reads the records one transaction before they are deleted.
Gather(m) ==
  LET r == mover[m].run IN
  /\ At(m, "gather")
  /\ IF records[r] = 0 /\ ~mover[m].gone THEN Skip(m)
     ELSE mover' = [mover EXCEPT ![m].at = "retire", ![m].count = records[r]]
  /\ UNCHANGED <<rowVars, leaseVars, requestVars, job, visitor, bounds>>

Retire(w) ==
  LET r == mover[w].run IN
  /\ At(w, "retire") /\ w \in Workers
  /\ IF Holds(w, r) THEN RetireRun(w, r) /\ mover' = Takes(w, [mover[w] EXCEPT !.at = "release"], r)
                    ELSE Skip(w) /\ UNCHANGED <<rowVars, leaseVars>>
  /\ UNCHANGED <<requestVars, job, visitor, bounds>>

Release(w) ==
  /\ At(w, "release") /\ w \in Workers
  /\ ReleaseRun(w, mover[w].run)
  /\ mover' = [mover EXCEPT ![w].at = "run", ![w].run = NoRun, ![w].count = 0, ![w].part = 0, ![w].gone = FALSE]
  /\ UNCHANGED <<rowVars, requestVars, job, visitor, bounds>>

\* Requests are moved by pages, too; a page that fails is not asked again.
NextRequests(w) ==
  /\ At(w, "requests") /\ job.owner = w
  /\ \E page \in Firsts(requests, BatchSize + Cardinality(mover[w].failed)) :
       IF page \subseteq mover[w].failed THEN Move(w, "finish")
       ELSE \E q \in Firsts(page \ mover[w].failed, BatchSize) :
              mover' = [mover EXCEPT ![w].at = "count", ![w].asked = q]
  /\ UNCHANGED <<rowVars, leaseVars, requestVars, job, visitor, bounds>>

RetireRequests(w) ==
  LET q == mover[w].asked IN
  /\ At(w, "count") /\ w \in Workers
  /\ IF AllThere(q)
     THEN CountRequests(q) /\ mover' = [mover EXCEPT ![w].at = "requests", ![w].asked = {}]
     ELSE /\ mover' = [mover EXCEPT ![w].at = "requests", ![w].asked = {}, ![w].failed = @ \cup q]
          /\ UNCHANGED requestVars
  /\ UNCHANGED <<rowVars, leaseVars, job, visitor, bounds>>

\* Mutant of StillMine: the end of the job is written by whoever gets there.
AnyoneEnds(w) == TRUE

StillMine(w) == job.owner = w

FinishJob(w) ==
  /\ At(w, "finish")
  /\ job' = IF StillMine(w) THEN [owner |-> Nobody, live |-> FALSE, due |-> FALSE] ELSE job
  /\ mover' = [mover EXCEPT ![w] = Idle]
  /\ UNCHANGED <<rowVars, leaseVars, requestVars, visitor, bounds>>

\* release_job, at a stop between two runs or at an error outside a run.
ReleaseJob(w) ==
  /\ At(w, "batch") \/ At(w, "run") \/ At(w, "requests") \/ At(w, "finish")
  /\ w \in Workers /\ Fault
  /\ job' = IF job.owner = w THEN [job EXCEPT !.owner = Nobody, !.live = FALSE] ELSE job
  /\ mover' = [mover EXCEPT ![w] = Idle]
  /\ UNCHANGED <<rowVars, leaseVars, requestVars, visitor>>

\* An error in a run: it is skipped, and let go of.
FailRun(w) ==
  /\ At(w, "load") \/ At(w, "look") \/ At(w, "gather") \/ At(w, "retire")
  /\ w \in Workers /\ Fault /\ Skip(w)
  /\ UNCHANGED <<rowVars, leaseVars, requestVars, job, visitor>>

\* The process of a worker or of a web server dies.
Crash(m) ==
  /\ ~At(m, "idle") /\ Fault
  /\ mover' = [mover EXCEPT ![m] = Idle]
  /\ UNCHANGED <<rowVars, leaseVars, requestVars, job, visitor>>

\* Renewals of a worker at work are missed; of a dead one there are none.
ExpireJob ==
  /\ job.live
  /\ IF \E w \in Workers : job.owner = w /\ ~At(w, "idle") THEN Fault ELSE UNCHANGED bounds
  /\ job' = [job EXCEPT !.live = FALSE]
  /\ UNCHANGED <<rowVars, leaseVars, requestVars, mover, visitor>>

-----------------------------------------------------------------------------
(* Time, users and withdrawals *)

NextDay ==
  /\ ~job.due
  /\ job' = [job EXCEPT !.due = TRUE]
  /\ UNCHANGED <<rowVars, leaseVars, requestVars, mover, visitor, bounds>>

Age(r) ==
  /\ r \in present \ aged
  /\ aged' = aged \cup {r}
  /\ UNCHANGED <<present, busy, pointers, records, parts, lines, moved, written, leaseVars, requestVars,
                 job, mover, visitor, bounds>>

\* The lease of a run that no one renews: of a mover, a command, a dead worker.
ExpireRun(r) ==
  /\ r \in live
  /\ live' = live \ {r}
  /\ UNCHANGED <<rowVars, lease, requestVars, job, mover, visitor, bounds>>

Visit(u, r) ==
  /\ visitor[u] = NoRun /\ visits < MaxVisits /\ FreeFor(u, r)
  /\ lease' = [lease EXCEPT ![r] = u] /\ live' = live \cup {r}
  /\ visitor' = [visitor EXCEPT ![u] = r] /\ visits' = visits + 1
  /\ mover' = [m \in Movers |-> [mover[m] EXCEPT !.owed = @ \ {r}]]
  /\ UNCHANGED <<rowVars, requestVars, job, faults>>

\* A commit of a command or a step: records, perhaps a pointer, and updated_at.
Save(u) ==
  LET r == visitor[u] IN
  /\ r # NoRun
  /\ IF Holds(u, r)
     THEN /\ records' = [records EXCEPT ![r] = @ + 1] /\ written' = [written EXCEPT ![r] = @ + 1]
          /\ busy' \in {busy \ {r}, busy \cup {r}} /\ pointers' \in {pointers, pointers \cup {r}}
          /\ aged' = aged \ {r}
          /\ mover' = [m \in Movers |-> [mover[m] EXCEPT !.old = @ \ {r}, !.owed = @ \ {r}]]
          /\ UNCHANGED <<present, parts, lines, moved>>
     ELSE UNCHANGED <<rowVars, mover>>
  /\ ReleaseRun(u, r)
  /\ visitor' = [visitor EXCEPT ![u] = NoRun]
  /\ UNCHANGED <<requestVars, job, bounds>>

\* delete_artifacts takes no lease and leaves updated_at alone.  A run that a job
\* has moved becomes a target again, and takes the place of another in its page.
DeleteArtifacts(r) ==
  /\ r \in pointers \ busy
  /\ pointers' = pointers \ {r}
  /\ mover' = [m \in Movers |-> IF r \in mover[m].seen THEN [mover[m] EXCEPT !.owed = {}] ELSE mover[m]]
  /\ UNCHANGED <<present, busy, aged, records, parts, lines, moved, written, leaseVars, requestVars,
                 job, visitor, bounds>>

BeginWithdrawal(x) ==
  /\ At(x, "idle") /\ visits < MaxVisits /\ visits' = visits + 1
  /\ mover' = [mover EXCEPT ![x] = [Idle EXCEPT !.at = "run", !.queue = present, !.gone = TRUE]]
  /\ UNCHANGED <<rowVars, leaseVars, requestVars, job, visitor, faults>>

\* _withdraw_run: a run that is not there any more is passed over, BUSY ends the call.
WithdrawRun(x) ==
  /\ At(x, "run") /\ x \in Withdrawals
  /\ \E r \in mover[x].queue :
       LET t == [mover[x] EXCEPT !.queue = @ \ {r}] IN
       IF FreeFor(x, r)
       THEN /\ lease' = [lease EXCEPT ![r] = x] /\ live' = live \cup {r}
            /\ mover' = Takes(x, [t EXCEPT !.at = "load", !.run = r], r)
       ELSE /\ mover' = [mover EXCEPT ![x] = IF r \in present THEN Idle ELSE t]
            /\ UNCHANGED leaseVars
  /\ UNCHANGED <<rowVars, requestVars, job, visitor, bounds>>

WithdrawLoad(x) ==
  LET r == mover[x].run IN
  /\ At(x, "load") /\ x \in Withdrawals
  /\ \/ /\ r \in present \ busy
        /\ mover' = [mover EXCEPT ![x].at = "gather", ![x].part = parts[r] + 1]
        /\ UNCHANGED leaseVars
     \/ /\ r \notin present
        /\ mover' = [mover EXCEPT ![x].at = "run", ![x].run = NoRun]
        /\ UNCHANGED leaseVars
     \/ /\ r \in busy
        /\ ReleaseRun(x, r)
        /\ mover' = [mover EXCEPT ![x] = Idle]
  /\ UNCHANGED <<rowVars, requestVars, job, visitor, bounds>>

WithdrawRetire(x) ==
  LET r == mover[x].run IN
  /\ At(x, "retire") /\ x \in Withdrawals
  /\ IF Holds(x, r)
     THEN RetireRun(x, r) /\ mover' = Takes(x, [mover[x] EXCEPT !.at = "run", !.run = NoRun], r)
     ELSE mover' = [mover EXCEPT ![x] = Idle] /\ UNCHANGED <<rowVars, leaseVars>>
  /\ UNCHANGED <<requestVars, job, visitor, bounds>>

WithdrawRequests(x) ==
  /\ At(x, "run") /\ x \in Withdrawals /\ mover[x].queue = {}
  /\ mover' = [mover EXCEPT ![x].at = "count", ![x].asked = requests]
  /\ UNCHANGED <<rowVars, leaseVars, requestVars, job, visitor, bounds>>

WithdrawCount(x) ==
  LET q == mover[x].asked IN
  /\ At(x, "count") /\ x \in Withdrawals
  /\ IF AllThere(q) THEN CountRequests(q) ELSE UNCHANGED requestVars
  /\ mover' = [mover EXCEPT ![x] = Idle]
  /\ UNCHANGED <<rowVars, leaseVars, job, visitor, bounds>>

-----------------------------------------------------------------------------
JobStep(w) ==
  \/ NextBatch(w) \/ JobLost(w) \/ EndBatch(w) \/ AcquireRun(w) \/ LoadRun(w)
  \/ LookAtPointers(w) \/ Gather(w) \/ Retire(w) \/ Release(w)
  \/ NextRequests(w) \/ RetireRequests(w) \/ FinishJob(w)

WithdrawalStep(x) ==
  \/ WithdrawRun(x) \/ WithdrawLoad(x) \/ Gather(x) \/ WithdrawRetire(x)
  \/ WithdrawRequests(x) \/ WithdrawCount(x)

Next ==
  \/ \E w \in Workers : StartJob(w) \/ RenewJob(w) \/ JobStep(w) \/ ReleaseJob(w) \/ FailRun(w)
  \/ \E x \in Withdrawals : BeginWithdrawal(x) \/ WithdrawalStep(x)
  \/ \E m \in Movers : Crash(m)
  \/ \E u \in Users : Save(u) \/ \E r \in Runs : Visit(u, r)
  \/ \E r \in Runs : Age(r) \/ ExpireRun(r) \/ DeleteArtifacts(r)
  \/ ExpireJob \/ NextDay

Spec == Init /\ [][Next]_vars

\* Worker threads poll, leases run out, days pass, and what a caller has begun it ends.
EnvironmentFairness ==
  /\ \A x \in Withdrawals : WF_vars(WithdrawalStep(x))
  /\ \A u \in Users : WF_vars(Save(u))
  /\ \A r \in Runs : WF_vars(ExpireRun(r))
  /\ WF_vars(NextDay)
  /\ WF_vars(ExpireJob)

FairSpec ==
  /\ Spec /\ EnvironmentFairness
  /\ \A w \in Workers : WF_vars(StartJob(w)) /\ WF_vars(JobStep(w))

-----------------------------------------------------------------------------
(* Properties *)

TypeOK ==
  /\ present \subseteq Runs /\ busy \subseteq present /\ aged \subseteq Runs /\ pointers \subseteq present
  /\ records \in [Runs -> Nat] /\ written \in [Runs -> Nat] /\ parts \in [Runs -> Nat]
  /\ lines \in [Runs -> Seq(Nat)] /\ moved \in [Runs -> Nat]
  /\ lease \in [Runs -> Owners \cup {Nobody}] /\ live \subseteq present
  /\ requests \subseteq Requests /\ counted \in [Requests -> Nat]
  /\ job \in [owner : Workers \cup {Nobody}, live : BOOLEAN, due : BOOLEAN]
  /\ mover \in [Movers -> Thread] /\ visitor \in [Users -> Runs \cup {NoRun}]
  /\ visits \in 0..MaxVisits /\ faults \in 0..MaxFaults

\* Every record ever written for a run is either still there or counted by one
\* statistics line: a lease lost between reading and deleting, another mover in the
\* same run or a record written meanwhile neither loses one nor counts it twice.  So
\* it is with start requests, which a withdrawal may be moving at the same time.
RecordsCountedOnce ==
  /\ \A r \in Runs : written[r] = records[r] + moved[r] /\ (r \notin present => records[r] = 0)
  /\ \A q \in Requests : counted[q] = IF q \in requests THEN 0 ELSE 1

\* A job that is written down as finished has left nothing: each run that was a
\* target when it began is moved, unless it was skipped or another had it.  (Nothing is
\* asked any more once a run that was moved becomes a target again and takes a place.)
FinishedJobIsComplete ==
  [][\A w \in Workers :
       FinishJob(w) /\ ~job'.due =>
         \A r \in mover[w].owed \ mover[w].skipped :
           records[r] = 0 /\ (r \in present => r \in pointers)]_vars

\* The job is finished once a day by the worker that holds it; one that has lost
\* its lease to another neither finishes the other's job nor frees it.
JobHasOneEnd ==
  [][\A w \in Workers :
       job.owner = w /\ job'.owner # w =>
         \/ mover'[w] = Idle /\ mover[w] # Idle
         \/ ~job.live /\ job'.live]_vars

\* There is something to move of a resting run.
Movable(r) == r \in (present \cap aged) \ busy /\ (records[r] > 0 \/ r \notin pointers)

\* The records of a run that rests for twelve months move in the end, and the row
\* of a deleted one goes, whatever a crash, a stop or an error has interrupted.
OldRecordsLeave == \A r \in Runs : Movable(r) ~> ~Movable(r)
=============================================================================
