------------------------ MODULE FileDeletions_proofs ------------------------
(***************************************************************************)
(* What FileDeletions guarantees for any runs and workers, any batch size  *)
(* and any number of failures, crashes and lost leases.                    *)
(***************************************************************************)
EXTENDS FileDeletions, TLAPS

-----------------------------------------------------------------------------
(* Types *)

\* A waiting row has an attempt left, and a worker that is in a step or at a
\* row of the queue has a run.
Typed ==
  /\ TypeOK
  /\ \A r \in Runs : row[r].status = "waiting" => row[r].attempts < MaxAttempts
  /\ \A w \in Workers : worker[w].at \notin {"idle", "batch"} => worker[w].run \in Runs

\* What happens to a row of the queue leaves a row of the queue.
LEMMA RowTypes ==
  \A q \in QueueRow :
    /\ Enqueued(q) \in QueueRow /\ Claimed(q) \in QueueRow
    /\ [status |-> "waiting", attempts |-> 0, due |-> TRUE, first |-> FALSE, stamp |-> q.stamp + 1] \in QueueRow
    /\ [q EXCEPT !.due = TRUE] \in QueueRow
    /\ [q EXCEPT !.status = "none", !.due = FALSE, !.first = FALSE] \in QueueRow
    /\ q.attempts < MaxAttempts => Failed(q) \in QueueRow
<1> SUFFICES ASSUME NEW q \in QueueRow
             PROVE  /\ Enqueued(q) \in QueueRow /\ Claimed(q) \in QueueRow
                    /\ [status |-> "waiting", attempts |-> 0, due |-> TRUE, first |-> FALSE, stamp |-> q.stamp + 1] \in QueueRow
                    /\ [q EXCEPT !.due = TRUE] \in QueueRow
                    /\ [q EXCEPT !.status = "none", !.due = FALSE, !.first = FALSE] \in QueueRow
                    /\ q.attempts < MaxAttempts => Failed(q) \in QueueRow
  OBVIOUS
<1> USE FileDeletionsAssumption DEF FileDeletionsAssumption, QueueRow
<1>1. Enqueued(q) \in QueueRow BY DEF Enqueued
<1>2. Claimed(q) \in QueueRow
  <2> DEFINE p == [q EXCEPT !.due = FALSE, !.first = FALSE]
  <2>1. p \in QueueRow /\ p.stamp = q.stamp OBVIOUS
  <2>2. \A o \in QueueRow : [o EXCEPT !.stamp = @ + 1] \in QueueRow OBVIOUS
  <2>3. Claimed(q) = [p EXCEPT !.stamp = q.stamp + 1] BY DEF Claimed
  <2> HIDE DEF p, QueueRow
  <2> QED BY <2>1, <2>2, <2>3
<1>3. [status |-> "waiting", attempts |-> 0, due |-> TRUE, first |-> FALSE, stamp |-> q.stamp + 1] \in QueueRow OBVIOUS
<1>4. [q EXCEPT !.due = TRUE] \in QueueRow OBVIOUS
<1>5. [q EXCEPT !.status = "none", !.due = FALSE, !.first = FALSE] \in QueueRow OBVIOUS
<1>6. q.attempts < MaxAttempts => Failed(q) \in QueueRow
  <2> SUFFICES ASSUME q.attempts < MaxAttempts PROVE Failed(q) \in QueueRow OBVIOUS
  <2>1. q.attempts + 1 \in 0..MaxAttempts OBVIOUS
  <2>2. CASE q.attempts + 1 >= MaxAttempts
    <3>1. Failed(q) = [status |-> "given_up", attempts |-> q.attempts + 1, due |-> q.due,
                       first |-> q.first, stamp |-> q.stamp]
      BY <2>2 DEF Failed
    <3> QED BY <2>1, <3>1
  <2>3. CASE ~(q.attempts + 1 >= MaxAttempts)
    <3>1. Failed(q) = [status |-> q.status, attempts |-> q.attempts + 1, due |-> FALSE,
                       first |-> FALSE, stamp |-> q.stamp + 1]
      BY <2>3 DEF Failed
    <3> QED BY <2>1, <3>1
  <2> QED BY <2>2, <2>3
<1> QED BY <1>1, <1>2, <1>3, <1>4, <1>5, <1>6

\* The ways a worker moves on leave a worker, and give it a run where it needs one.
LEMMA ThreadTypes ==
  ASSUME Typed, NEW w \in Workers
  PROVE  /\ Idle \in Thread
         /\ worker[w] \in Thread
         /\ \A x \in {"step", "putting", "deleting", "deleted", "failed"}, r \in Runs :
              /\ [worker[w] EXCEPT !.at = x, !.run = r] \in Thread
              /\ [Idle EXCEPT !.at = x, !.run = r] \in Thread
         /\ \A x \in {"step", "putting", "deleting", "deleted", "failed"} : [worker[w] EXCEPT !.at = x] \in Thread
         /\ \A c \in [Runs -> Nat] : [at |-> "batch", run |-> NoRun, claim |-> c] \in Thread
<1>1. Idle \in Thread BY DEF Idle, Thread
<1>2. worker[w] \in Thread BY DEF Typed, TypeOK
<1>3. ASSUME NEW x \in {"step", "putting", "deleting", "deleted", "failed"}, NEW r \in Runs
      PROVE  [worker[w] EXCEPT !.at = x, !.run = r] \in Thread /\ [Idle EXCEPT !.at = x, !.run = r] \in Thread
  BY <1>1, <1>2 DEF Thread
<1>4. ASSUME NEW x \in {"step", "putting", "deleting", "deleted", "failed"}
      PROVE  [worker[w] EXCEPT !.at = x] \in Thread
  BY <1>2 DEF Thread
<1>5. \A c \in [Runs -> Nat] : [at |-> "batch", run |-> NoRun, claim |-> c] \in Thread BY DEF Thread
<1> QED BY <1>1, <1>2, <1>3, <1>4, <1>5

\* LeaveRow leaves a worker that is idle or at the rest of its batch.
LEMMA LeaveRowTypes ==
  ASSUME Typed, NEW w \in Workers, LeaveRow(w)
  PROVE  \E t \in Thread : t.at \in {"idle", "batch"} /\ worker' = [worker EXCEPT ![w] = t]
<1> DEFINE left == [worker[w].claim EXCEPT ![worker[w].run] = 0]
           t == IF \A r \in Runs : left[r] = 0 THEN Idle ELSE [at |-> "batch", run |-> NoRun, claim |-> left]
<1>1. left \in [Runs -> Nat] BY DEF Typed, TypeOK, Thread
<1>2. t \in Thread BY <1>1, ThreadTypes
<1>3. t.at \in {"idle", "batch"} BY DEF Idle
<1>4. worker' = [worker EXCEPT ![w] = t] BY DEF LeaveRow
<1> QED BY <1>2, <1>3, <1>4

\* The queue's side of a step: rows and workers stay typed.
LEMMA NextTyped == Typed /\ [Next]_vars => Typed'
<1> SUFFICES ASSUME Typed, [Next]_vars PROVE Typed' OBVIOUS
<1> USE DEF Typed
<1>t. ASSUME NEW w \in Workers, NEW t \in Thread, t.at \notin {"idle", "batch"} => t.run \in Runs,
             worker' = [worker EXCEPT ![w] = t]
      PROVE  /\ worker' \in [Workers -> Thread]
             /\ \A v \in Workers : worker'[v].at \notin {"idle", "batch"} => worker'[v].run \in Runs
  BY <1>t DEF TypeOK
<1>m. ASSUME NEW w \in Workers, NEW x \in {"step", "putting", "deleting", "deleted", "failed"}, Move(w, x),
             worker[w].run \in Runs
      PROVE  /\ worker' \in [Workers -> Thread]
             /\ \A v \in Workers : worker'[v].at \notin {"idle", "batch"} => worker'[v].run \in Runs
  <2> DEFINE t == [worker[w] EXCEPT !.at = x]
  <2>1. t \in Thread BY ThreadTypes
  <2>b. worker[w] \in Thread BY ThreadTypes
  <2>a. t.run = worker[w].run BY <2>b DEF Thread
  <2>2. worker' = [worker EXCEPT ![w] = t] BY <1>m DEF Move
  <2> QED BY <1>m, <1>t, <2>1, <2>a, <2>2
<1>i. ASSUME NEW w \in Workers, worker' = [worker EXCEPT ![w] = Idle]
      PROVE  /\ worker' \in [Workers -> Thread]
             /\ \A v \in Workers : worker'[v].at \notin {"idle", "batch"} => worker'[v].run \in Runs
  BY <1>i, <1>t, ThreadTypes DEF Idle
<1>l. ASSUME NEW w \in Workers, LeaveRow(w)
      PROVE  /\ worker' \in [Workers -> Thread]
             /\ \A v \in Workers : worker'[v].at \notin {"idle", "batch"} => worker'[v].run \in Runs
  BY <1>l, <1>t, LeaveRowTypes
<1>r. ASSUME NEW r \in Runs, NEW q \in QueueRow, q.status = "waiting" => q.attempts < MaxAttempts,
             row' = [row EXCEPT ![r] = q]
      PROVE  /\ row' \in [Runs -> QueueRow]
             /\ \A s \in Runs : row'[s].status = "waiting" => row'[s].attempts < MaxAttempts
  BY <1>r DEF TypeOK
<1>f. Fault => faults' \in 0..MaxFaults BY FileDeletionsAssumption DEF FileDeletionsAssumption, Fault, TypeOK
<1>d. ASSUME NEW r \in Runs, Drop(r)
      PROVE  /\ artifacts' \subseteq Runs /\ deleted' \subseteq Runs
             /\ row' \in [Runs -> QueueRow]
             /\ \A s \in Runs : row'[s].status = "waiting" => row'[s].attempts < MaxAttempts
  <2>1. Enqueued(row[r]) \in QueueRow BY RowTypes DEF TypeOK
  <2>2. Enqueued(row[r]).attempts < MaxAttempts
    BY FileDeletionsAssumption DEF FileDeletionsAssumption, Enqueued
  <2>3. row' = [row EXCEPT ![r] = Enqueued(row[r])] BY <1>d DEF Drop, TypeOK
  <2> QED BY <1>d, <1>r, <2>1, <2>2, <2>3 DEF Drop, TypeOK
<1> USE DEF TypeOK, runVars, At
<1>1. ASSUME NEW w \in Workers, NEW r \in Runs, BeginStep(w, r) PROVE Typed'
  <2> DEFINE t == [Idle EXCEPT !.at = "step", !.run = r]
  <2>1. t \in Thread /\ t.run = r BY ThreadTypes DEF Idle
  <2> QED BY <1>1, <1>t, <2>1 DEF BeginStep
<1>2. ASSUME NEW w \in Workers, Put(w) PROVE Typed'
  BY <1>2, <1>m, <1>i DEF Put
<1>3. ASSUME NEW w \in Workers, EndPut(w) PROVE Typed'
  BY <1>3, <1>m DEF EndPut
<1>4. ASSUME NEW w \in Workers, EndStep(w) PROVE Typed'
  <2>1. /\ worker' \in [Workers -> Thread]
        /\ \A v \in Workers : worker'[v].at \notin {"idle", "batch"} => worker'[v].run \in Runs
    BY <1>4, <1>i DEF EndStep
  <2>2. worker[w].run \in Runs BY <1>4 DEF EndStep
  <2>3. /\ progress' \in [Runs -> {"active", "ended", "gone"}] /\ artifacts' \subseteq Runs
        /\ owner' \in [Runs -> Workers \cup {Nobody}]
    BY <1>4, <2>2 DEF EndStep
  <2> QED BY <1>4, <2>1, <2>3 DEF EndStep
<1>5. ASSUME NEW w \in Workers, Claim(w) PROVE Typed'
  <2>1. PICK S \in SUBSET DueRows :
          /\ row' = [r \in Runs |-> IF r \in S THEN Claimed(row[r]) ELSE row[r]]
          /\ worker' = [worker EXCEPT ![w] =
               [at |-> "batch", run |-> NoRun,
                claim |-> [r \in Runs |-> IF r \in S THEN Claimed(row[r]).stamp ELSE 0]]]
    BY <1>5 DEF Claim
  <2>2. \A r \in Runs : row[r] \in QueueRow /\ Claimed(row[r]) \in QueueRow BY RowTypes
  <2>3. row' \in [Runs -> QueueRow] BY <2>1, <2>2
  <2>4. \A r \in Runs : row'[r].status = row[r].status /\ row'[r].attempts = row[r].attempts
    <3> SUFFICES ASSUME NEW r \in Runs
                 PROVE  row'[r].status = row[r].status /\ row'[r].attempts = row[r].attempts
      OBVIOUS
    <3>1. row'[r] = row[r] \/ row'[r] = Claimed(row[r]) BY <2>1
    <3>2. Claimed(row[r]).status = row[r].status /\ Claimed(row[r]).attempts = row[r].attempts
      <4> DEFINE q == row[r]
      <4>1. q \in QueueRow OBVIOUS
      <4> HIDE DEF q
      <4>2. Claimed(q).status = q.status /\ Claimed(q).attempts = q.attempts BY <4>1 DEF Claimed, QueueRow
      <4> QED BY <4>2 DEF q
    <3> QED BY <3>1, <3>2
  <2>5. [r \in Runs |-> IF r \in S THEN Claimed(row[r]).stamp ELSE 0] \in [Runs -> Nat]
    BY <2>2 DEF QueueRow
  <2>6. [at |-> "batch", run |-> NoRun,
         claim |-> [r \in Runs |-> IF r \in S THEN Claimed(row[r]).stamp ELSE 0]] \in Thread
    BY <2>5, ThreadTypes
  <2> QED BY <1>5, <1>t, <2>1, <2>3, <2>4, <2>6 DEF Claim
<1>6. ASSUME NEW w \in Workers, NextRow(w) PROVE Typed'
  <2>1. PICK r \in Runs : worker' = [worker EXCEPT ![w].at = "deleting", ![w].run = r]
    BY <1>6 DEF NextRow
  <2> DEFINE t == [worker[w] EXCEPT !.at = "deleting", !.run = r]
  <2>2. t \in Thread /\ t.run = r
    <3>1. t \in Thread BY ThreadTypes
    <3>2. worker[w] \in Thread OBVIOUS
    <3>3. t.run = r BY <3>2 DEF Thread
    <3> QED BY <3>1, <3>3
  <2>3. worker' = [worker EXCEPT ![w] = t] BY <2>1
  <2> QED BY <1>6, <1>t, <2>2, <2>3 DEF NextRow
<1>7. ASSUME NEW w \in Workers, DeletePrefix(w) PROVE Typed'
  BY <1>7, <1>m DEF DeletePrefix
<1>8. ASSUME NEW w \in Workers, FinishDeletion(w) PROVE Typed'
  <2> DEFINE r == worker[w].run
  <2>1. r \in Runs BY <1>8 DEF FinishDeletion
  <2>2. [row[r] EXCEPT !.status = "none", !.due = FALSE, !.first = FALSE] \in QueueRow BY <2>1, RowTypes
  <2>3. \/ UNCHANGED row
        \/ row' = [row EXCEPT ![r] = [row[r] EXCEPT !.status = "none", !.due = FALSE, !.first = FALSE]]
    BY <1>8 DEF FinishDeletion
  <2>4. row' \in [Runs -> QueueRow] /\ \A s \in Runs : row'[s].status = "waiting" => row'[s].attempts < MaxAttempts
    BY <2>1, <2>2, <2>3, <1>r DEF QueueRow
  <2> QED BY <1>8, <1>l, <2>4 DEF FinishDeletion
<1>9. ASSUME NEW w \in Workers, FailDeletion(w) PROVE Typed'
  <2> DEFINE r == worker[w].run
  <2>1. r \in Runs BY <1>9 DEF FailDeletion
  <2>2. \/ UNCHANGED row
        \/ row[r].status = "waiting" /\ row' = [row EXCEPT ![r] = Failed(row[r])]
    BY <1>9 DEF FailDeletion, Holds
  <2>3. row[r].status = "waiting" => Failed(row[r]) \in QueueRow BY <2>1, RowTypes
  <2>4. row[r].status = "waiting" /\ Failed(row[r]).status = "waiting" => Failed(row[r]).attempts < MaxAttempts
    BY <2>1, FileDeletionsAssumption DEF FileDeletionsAssumption, Failed, QueueRow
  <2> HIDE DEF r
  <2>5. row' \in [Runs -> QueueRow] /\ \A s \in Runs : row'[s].status = "waiting" => row'[s].attempts < MaxAttempts
    BY <2>1, <2>2, <2>3, <2>4, <1>r
  <2> QED BY <1>9, <1>l, <2>5 DEF FailDeletion
<1>10. ASSUME NEW w \in Workers, Crash(w) PROVE Typed'
  BY <1>10, <1>i, <1>f DEF Crash
<1>11. ASSUME NEW r \in Runs, LoseLease(r) \/ Abort(r) PROVE Typed'
  BY <1>11, <1>f DEF LoseLease, Abort
<1>12. ASSUME NEW r \in Runs, DeleteArtifacts(r) \/ RetireRun(r) PROVE Typed'
  BY <1>12, <1>d, FileDeletionsAssumption DEF FileDeletionsAssumption, DeleteArtifacts, RetireRun
<1>13. ASSUME NEW r \in Runs, RetryDeletion(r) PROVE Typed'
  <2> DEFINE q == [status |-> "waiting", attempts |-> 0, due |-> TRUE, first |-> FALSE, stamp |-> row[r].stamp + 1]
  <2>1. q \in QueueRow BY RowTypes
  <2>2. q.attempts < MaxAttempts BY FileDeletionsAssumption DEF FileDeletionsAssumption
  <2>3. row' = [row EXCEPT ![r] = q] BY <1>13 DEF RetryDeletion
  <2>4. retries' \in 0..MaxRetries BY <1>13, FileDeletionsAssumption DEF FileDeletionsAssumption, RetryDeletion
  <2> HIDE DEF q
  <2> QED BY <1>13, <1>r, <2>1, <2>2, <2>3, <2>4 DEF RetryDeletion
<1>14. ASSUME NEW r \in Runs, Pass(r) PROVE Typed'
  <2> DEFINE q == [row[r] EXCEPT !.due = TRUE]
  <2>1. q \in QueueRow BY RowTypes
  <2>a. row[r] \in QueueRow OBVIOUS
  <2>b. q.attempts = row[r].attempts /\ q.status = row[r].status BY <2>a DEF QueueRow
  <2>2. row' = [row EXCEPT ![r] = q] BY <1>14 DEF Pass
  <2> HIDE DEF q
  <2> QED BY <1>14, <1>r, <1>f, <2>1, <2>b, <2>2 DEF Pass
<1>15. CASE UNCHANGED vars BY <1>15 DEF vars
<1> QED BY <1>1, <1>2, <1>3, <1>4, <1>5, <1>6, <1>7, <1>8, <1>9, <1>10, <1>11, <1>12, <1>13, <1>14, <1>15
        DEF Next, InStep, InQueue

\* The first state is typed.
LEMMA InitTyped == Init => Typed
<1> SUFFICES ASSUME Init PROVE Typed OBVIOUS
<1>1. Idle \in Thread /\ Idle.at = "idle" BY DEF Idle, Thread
<1>2. [status |-> "none", attempts |-> 0, due |-> FALSE, first |-> FALSE, stamp |-> 0] \in QueueRow
  BY FileDeletionsAssumption DEF FileDeletionsAssumption, QueueRow
<1>3. row \in [Runs -> QueueRow] /\ \A r \in Runs : row[r].status = "none" BY <1>2 DEF Init
<1>4. worker \in [Workers -> Thread] /\ \A w \in Workers : worker[w].at = "idle" BY <1>1 DEF Init
<1>5. /\ progress \in [Runs -> {"active", "ended", "gone"}] /\ owner \in [Runs -> Workers \cup {Nobody}]
      /\ artifacts \subseteq Runs /\ files \subseteq Runs /\ deleted \subseteq Runs
      /\ deletes \in 0..MaxDeletes /\ retries \in 0..MaxRetries /\ faults \in 0..MaxFaults
  BY FileDeletionsAssumption DEF FileDeletionsAssumption, Init
<1> QED BY <1>3, <1>4, <1>5 DEF Typed, TypeOK

\* Every variable has its type, and no row is tried more than MaxAttempts times.
THEOREM QueueTypes == Spec => []TypeOK
<1>1. Typed => TypeOK BY DEF Typed
<1> QED BY <1>1, InitTyped, NextTyped, PTL DEF Spec

-----------------------------------------------------------------------------
(* What was deleted stays deleted *)

\* A run that is over has no owner, and what was deleted is over and has no artifacts.
Kept ==
  /\ \A r \in Runs : progress[r] # "active" => owner[r] = Nobody
  /\ \A r \in deleted : progress[r] # "active" /\ r \notin artifacts

\* Every step keeps the runs that are over without an owner, and the deleted ones without artifacts.
LEMMA NextKept == Typed /\ Kept /\ [Next]_vars => Kept'
<1> SUFFICES ASSUME Typed, Kept, [Next]_vars PROVE Kept' OBVIOUS
<1> USE DEF Kept, Typed, TypeOK, runVars, At
<1>1. ASSUME NEW w \in Workers, NEW r \in Runs, BeginStep(w, r) PROVE Kept' BY <1>1 DEF BeginStep
<1>2. ASSUME NEW w \in Workers,
             Put(w) \/ EndPut(w) \/ Claim(w) \/ NextRow(w) \/ DeletePrefix(w) \/ FinishDeletion(w) \/ FailDeletion(w)
      PROVE  Kept'
  BY <1>2 DEF Put, EndPut, Claim, NextRow, DeletePrefix, FinishDeletion, FailDeletion
<1>3. ASSUME NEW w \in Workers, EndStep(w) PROVE Kept'
  <2> DEFINE r == worker[w].run
  <2>1. r \in Runs BY <1>3 DEF EndStep
  <2>2. CASE owner[r] = w
    <3>1. progress[r] = "active" /\ r \notin deleted BY <2>1, <2>2, FileDeletionsAssumption DEF FileDeletionsAssumption
    <3> QED BY <1>3, <2>1, <2>2, <3>1 DEF EndStep
  <2>3. CASE owner[r] # w BY <1>3, <2>3 DEF EndStep
  <2> QED BY <2>2, <2>3
<1>4. ASSUME NEW w \in Workers, Crash(w) PROVE Kept' BY <1>4 DEF Crash
<1>5. ASSUME NEW r \in Runs, LoseLease(r) \/ Abort(r) \/ RetryDeletion(r) \/ Pass(r) PROVE Kept'
  BY <1>5 DEF LoseLease, Abort, RetryDeletion, Pass
<1>6. ASSUME NEW r \in Runs, DeleteArtifacts(r) \/ RetireRun(r) PROVE Kept'
  BY <1>6 DEF DeleteArtifacts, RetireRun, Drop
<1>7. CASE UNCHANGED vars BY <1>7 DEF vars
<1> QED BY <1>1, <1>2, <1>3, <1>4, <1>5, <1>6, <1>7 DEF Next, InStep, InQueue

\* What a request to delete took away is never there again, whatever a worker
\* still had in memory: the run is over, and the step that would save has lost
\* the lease.
THEOREM DeletedForGood == Spec => []DeletedStays
<1>1. Init => Typed /\ Kept
  BY InitTyped DEF Init, Kept
<1>2. Typed /\ Kept /\ [Next]_vars => (Typed /\ Kept)' BY NextTyped, NextKept
<1>3. Typed /\ Kept => DeletedStays BY DEF Kept, DeletedStays
<1> QED BY <1>1, <1>2, <1>3, PTL DEF Spec

-----------------------------------------------------------------------------
(* One worker holds a row *)

\* A claim is one of the values that next_at has had.
Claims == \A w \in Workers, r \in Runs : worker[w].claim[r] <= row[r].stamp

\* A step that is not a claim leaves a row's next_at, and then the row does not
\* begin to wait, or gives it a new value; claims are kept or dropped.
RowGoesOn(r) ==
  \/ row'[r].stamp = row[r].stamp + 1
  \/ /\ row'[r].stamp = row[r].stamp
     /\ row'[r].status = "waiting" => row[r].status = "waiting"
     /\ row'[r].first => row[r].first
ClaimGoesOn(w, r) == worker'[w].claim[r] \in {0, worker[w].claim[r]}

\* A claim of a batch: the rows taken are due, and get a value of their own.
LEMMA ClaimStep ==
  ASSUME Typed, NEW w \in Workers, Claim(w)
  PROVE  /\ worker'[w].at = "batch" /\ \A v \in Workers \ {w} : worker'[v] = worker[v]
         /\ \A r \in Runs :
              \/ row'[r] = row[r] /\ worker'[w].claim[r] = 0
              \/ /\ row[r].status = "waiting" /\ row[r].due
                 /\ row'[r].status = "waiting" /\ ~row'[r].first /\ row'[r].stamp = row[r].stamp + 1
                 /\ worker'[w].claim[r] = row'[r].stamp
<1>1. PICK S \in SUBSET DueRows :
        /\ row' = [r \in Runs |-> IF r \in S THEN Claimed(row[r]) ELSE row[r]]
        /\ worker' = [worker EXCEPT ![w] =
             [at |-> "batch", run |-> NoRun,
              claim |-> [r \in Runs |-> IF r \in S THEN Claimed(row[r]).stamp ELSE 0]]]
  BY DEF Claim
<1>2. worker'[w].at = "batch" /\ \A v \in Workers \ {w} : worker'[v] = worker[v]
  BY <1>1 DEF Typed, TypeOK
<1>3. ASSUME NEW r \in Runs, r \notin S PROVE row'[r] = row[r] /\ worker'[w].claim[r] = 0
  BY <1>1, <1>3 DEF Typed, TypeOK
<1>4. ASSUME NEW r \in Runs, r \in S
      PROVE  /\ row[r].status = "waiting" /\ row[r].due
             /\ row'[r].status = "waiting" /\ ~row'[r].first /\ row'[r].stamp = row[r].stamp + 1
             /\ worker'[w].claim[r] = row'[r].stamp
  <2>1. row[r].status = "waiting" /\ row[r].due BY <1>4 DEF DueRows
  <2>2. row'[r] = Claimed(row[r]) BY <1>1, <1>4
  <2>3. worker'[w].claim[r] = Claimed(row[r]).stamp BY <1>1, <1>4 DEF Typed, TypeOK
  <2>4. row[r] \in QueueRow BY DEF Typed, TypeOK
  <2>5. \A q \in QueueRow : /\ Claimed(q).status = q.status /\ ~Claimed(q).first
                            /\ Claimed(q).stamp = q.stamp + 1
    BY DEF Claimed, QueueRow
  <2> QED BY <2>1, <2>2, <2>3, <2>4, <2>5
<1> QED BY <1>2, <1>3, <1>4

\* Every step but a claim.
OtherStep ==
  \/ \E w \in Workers : InStep(w) \/ InQueue(w) \/ Crash(w) \/ \E r \in Runs : BeginStep(w, r)
  \/ \E r \in Runs : LoseLease(r) \/ Abort(r) \/ DeleteArtifacts(r) \/ RetireRun(r)
                     \/ RetryDeletion(r) \/ Pass(r)
  \/ UNCHANGED vars

\* What the operations on a row do to its next_at.
LEMMA RowSteps ==
  \A q \in QueueRow :
    /\ Enqueued(q) = q \/ Enqueued(q).stamp = q.stamp + 1
    /\ \/ Failed(q).stamp = q.stamp + 1
       \/ Failed(q).stamp = q.stamp /\ Failed(q).status = "given_up" /\ Failed(q).first = q.first
    /\ LET f == [q EXCEPT !.status = "none", !.due = FALSE, !.first = FALSE]
       IN f.stamp = q.stamp /\ f.status = "none" /\ ~f.first
    /\ LET p == [q EXCEPT !.due = TRUE]
       IN p.stamp = q.stamp /\ p.status = q.status /\ p.first = q.first
<1> SUFFICES ASSUME NEW q \in QueueRow
             PROVE
    /\ Enqueued(q) = q \/ Enqueued(q).stamp = q.stamp + 1
    /\ \/ Failed(q).stamp = q.stamp + 1
       \/ Failed(q).stamp = q.stamp /\ Failed(q).status = "given_up" /\ Failed(q).first = q.first
    /\ LET f == [q EXCEPT !.status = "none", !.due = FALSE, !.first = FALSE]
       IN f.stamp = q.stamp /\ f.status = "none" /\ ~f.first
    /\ LET p == [q EXCEPT !.due = TRUE]
       IN p.stamp = q.stamp /\ p.status = q.status /\ p.first = q.first
  OBVIOUS
<1> USE DEF QueueRow
<1>1. Enqueued(q) = q \/ Enqueued(q).stamp = q.stamp + 1 BY DEF Enqueued
<1>2. \/ Failed(q).stamp = q.stamp + 1
      \/ Failed(q).stamp = q.stamp /\ Failed(q).status = "given_up" /\ Failed(q).first = q.first
  <2>1. CASE q.attempts + 1 >= MaxAttempts BY <2>1 DEF Failed
  <2>2. CASE ~(q.attempts + 1 >= MaxAttempts) BY <2>2 DEF Failed
  <2> QED BY <2>1, <2>2
<1>4. LET f == [q EXCEPT !.status = "none", !.due = FALSE, !.first = FALSE]
      IN f.stamp = q.stamp /\ f.status = "none" /\ ~f.first
  OBVIOUS
<1>5. LET p == [q EXCEPT !.due = TRUE]
      IN p.stamp = q.stamp /\ p.status = q.status /\ p.first = q.first
  OBVIOUS
<1> QED BY <1>1, <1>2, <1>4, <1>5

\* Every step but a claim lets rows and claims go on.
LEMMA RowsGoOn ==
  ASSUME Typed, OtherStep
  PROVE  \A r \in Runs : RowGoesOn(r) /\ \A w \in Workers : ClaimGoesOn(w, r)
<1> USE DEF Typed, TypeOK, runVars, At
<1>q. \A r \in Runs : row[r] \in QueueRow OBVIOUS
<1>s. ASSUME NEW s \in Runs, NEW q \in QueueRow, row' = [row EXCEPT ![s] = q],
             \/ q = row[s] \/ q.stamp = row[s].stamp + 1
             \/ /\ q.stamp = row[s].stamp /\ (q.status = "waiting" => row[s].status = "waiting")
                /\ (q.first => row[s].first)
      PROVE  \A r \in Runs : RowGoesOn(r)
  BY <1>s DEF RowGoesOn
<1>k. ASSUME UNCHANGED row PROVE \A r \in Runs : RowGoesOn(r) BY <1>k DEF RowGoesOn
<1>c. ASSUME NEW w \in Workers, NEW t \in Thread,
             worker' = [worker EXCEPT ![w] = t],
             \A r \in Runs : t.claim[r] \in {0, worker[w].claim[r]}
      PROVE  \A r \in Runs, v \in Workers : ClaimGoesOn(v, r)
  BY <1>c DEF ClaimGoesOn
<1>u. ASSUME UNCHANGED worker PROVE \A r \in Runs, v \in Workers : ClaimGoesOn(v, r)
  BY <1>u DEF ClaimGoesOn
<1>i. ASSUME NEW w \in Workers, worker' = [worker EXCEPT ![w] = Idle]
      PROVE  \A r \in Runs, v \in Workers : ClaimGoesOn(v, r)
  BY <1>i, <1>c, ThreadTypes DEF Idle
<1>m. ASSUME NEW w \in Workers, NEW x \in {"step", "putting", "deleting", "deleted", "failed"}, Move(w, x)
      PROVE  \A r \in Runs, v \in Workers : ClaimGoesOn(v, r)
  <2> DEFINE t == [worker[w] EXCEPT !.at = x]
  <2>1. t \in Thread BY ThreadTypes
  <2>2. worker[w] \in Thread OBVIOUS
  <2>3. t.claim = worker[w].claim BY <2>2 DEF Thread
  <2>4. worker' = [worker EXCEPT ![w] = t] BY <1>m DEF Move
  <2> HIDE DEF t
  <2> QED BY <1>c, <2>1, <2>3, <2>4
<1>l. ASSUME NEW w \in Workers, LeaveRow(w)
      PROVE  \A r \in Runs, v \in Workers : ClaimGoesOn(v, r)
  <2> DEFINE left == [worker[w].claim EXCEPT ![worker[w].run] = 0]
             t == IF \A r \in Runs : left[r] = 0 THEN Idle ELSE [at |-> "batch", run |-> NoRun, claim |-> left]
  <2>1. worker[w].claim \in [Runs -> Nat] BY DEF Thread
  <2>2. left \in [Runs -> Nat] /\ \A r \in Runs : left[r] \in {0, worker[w].claim[r]} BY <2>1
  <2> HIDE DEF left
  <2>3. t \in Thread BY <2>2, ThreadTypes
  <2>4. \A r \in Runs : t.claim[r] \in {0, worker[w].claim[r]} BY <2>2 DEF Idle
  <2>5. worker' = [worker EXCEPT ![w] = t] BY <1>l DEF LeaveRow, left
  <2> HIDE DEF t
  <2> QED BY <1>c, <2>3, <2>4, <2>5
<1>d. ASSUME NEW r \in Runs, Drop(r) PROVE \A s \in Runs : RowGoesOn(s)
  <2> DEFINE q == Enqueued(row[r])
  <2>1. q \in QueueRow /\ (q = row[r] \/ q.stamp = row[r].stamp + 1) BY <1>q, RowTypes, RowSteps
  <2>2. row' = [row EXCEPT ![r] = q] BY <1>d DEF Drop
  <2> HIDE DEF q
  <2> QED BY <1>s, <2>1, <2>2
<1>1. ASSUME NEW w \in Workers, NEW r \in Runs, BeginStep(w, r)
      PROVE  \A s \in Runs : RowGoesOn(s) /\ \A v \in Workers : ClaimGoesOn(v, s)
  <2> DEFINE t == [Idle EXCEPT !.at = "step", !.run = r]
  <2>1. t \in Thread BY ThreadTypes
  <2>3. \A s \in Runs : t.claim[s] \in {0, worker[w].claim[s]} BY DEF Idle
  <2>2. worker' = [worker EXCEPT ![w] = t] /\ UNCHANGED row BY <1>1 DEF BeginStep
  <2> HIDE DEF t
  <2>4. \A s \in Runs, v \in Workers : ClaimGoesOn(v, s) BY <1>c, <2>1, <2>2, <2>3
  <2>5. \A s \in Runs : RowGoesOn(s) BY <1>k, <2>2
  <2> QED BY <2>4, <2>5
<1>2. ASSUME NEW w \in Workers, Put(w) \/ EndPut(w) \/ EndStep(w) \/ DeletePrefix(w) \/ Crash(w)
      PROVE  \A s \in Runs : RowGoesOn(s) /\ \A v \in Workers : ClaimGoesOn(v, s)
  <2>1. UNCHANGED row BY <1>2 DEF Put, EndPut, EndStep, DeletePrefix, Crash
  <2>2. \/ worker' = [worker EXCEPT ![w] = Idle]
        \/ \E x \in {"step", "putting", "deleting", "deleted", "failed"} : Move(w, x)
    BY <1>2 DEF Put, EndPut, EndStep, DeletePrefix, Crash
  <2> QED BY <1>k, <1>i, <1>m, <2>1, <2>2
<1>3. ASSUME NEW w \in Workers, NextRow(w)
      PROVE  \A s \in Runs : RowGoesOn(s) /\ \A v \in Workers : ClaimGoesOn(v, s)
  <2>1. PICK r \in Runs : worker' = [worker EXCEPT ![w].at = "deleting", ![w].run = r]
    BY <1>3 DEF NextRow
  <2> DEFINE t == [worker[w] EXCEPT !.at = "deleting", !.run = r]
  <2>2. t \in Thread BY ThreadTypes
  <2>3. worker[w] \in Thread OBVIOUS
  <2>4. t.claim = worker[w].claim BY <2>3 DEF Thread
  <2>5. worker' = [worker EXCEPT ![w] = t] BY <2>1
  <2>6. UNCHANGED row BY <1>3 DEF NextRow
  <2> HIDE DEF t
  <2> QED BY <1>c, <1>k, <2>2, <2>4, <2>5, <2>6
<1>4. ASSUME NEW w \in Workers, FinishDeletion(w)
      PROVE  \A s \in Runs : RowGoesOn(s) /\ \A v \in Workers : ClaimGoesOn(v, s)
  <2> DEFINE r == worker[w].run
             q == [row[r] EXCEPT !.status = "none", !.due = FALSE, !.first = FALSE]
  <2>1. r \in Runs BY <1>4 DEF FinishDeletion
  <2>2. q \in QueueRow /\ q.stamp = row[r].stamp /\ q.status = "none" /\ ~q.first
    BY <1>q, <2>1, RowTypes, RowSteps
  <2>3. UNCHANGED row \/ row' = [row EXCEPT ![r] = q] BY <1>4 DEF FinishDeletion
  <2> HIDE DEF q, r
  <2>4. \A s \in Runs : RowGoesOn(s) BY <1>s, <1>k, <2>1, <2>2, <2>3
  <2> QED BY <1>4, <1>l, <2>4 DEF FinishDeletion
<1>5. ASSUME NEW w \in Workers, FailDeletion(w)
      PROVE  \A s \in Runs : RowGoesOn(s) /\ \A v \in Workers : ClaimGoesOn(v, s)
  <2> DEFINE r == worker[w].run
             q == Failed(row[r])
  <2>1. r \in Runs BY <1>5 DEF FailDeletion
  <2>2. \/ UNCHANGED row
        \/ row[r].status = "waiting" /\ row' = [row EXCEPT ![r] = q]
    <3>1. CASE Holds(w, r)
      <4>1. row[r].status = "waiting" BY <3>1 DEF Holds
      <4>2. row' = [row EXCEPT ![r] = Failed(row[r])] BY <1>5, <3>1 DEF FailDeletion
      <4> QED BY <4>1, <4>2
    <3>2. CASE ~Holds(w, r) BY <1>5, <3>2 DEF FailDeletion
    <3> QED BY <3>1, <3>2
  <2>3. row[r].status = "waiting" => q \in QueueRow BY <1>q, <2>1, RowTypes
  <2>4. \/ q.stamp = row[r].stamp + 1
        \/ q.stamp = row[r].stamp /\ q.status = "given_up" /\ q.first = row[r].first
    BY <1>q, <2>1, RowSteps
  <2> HIDE DEF q, r
  <2>5. \A s \in Runs : RowGoesOn(s) BY <1>s, <1>k, <2>1, <2>2, <2>3, <2>4
  <2> QED BY <1>5, <1>l, <2>5 DEF FailDeletion
<1>6. ASSUME NEW r \in Runs, LoseLease(r) \/ Abort(r)
      PROVE  \A s \in Runs : RowGoesOn(s) /\ \A v \in Workers : ClaimGoesOn(v, s)
  BY <1>6, <1>k, <1>u DEF LoseLease, Abort
<1>7. ASSUME NEW r \in Runs, DeleteArtifacts(r) \/ RetireRun(r)
      PROVE  \A s \in Runs : RowGoesOn(s) /\ \A v \in Workers : ClaimGoesOn(v, s)
  BY <1>7, <1>d, <1>u DEF DeleteArtifacts, RetireRun
<1>8. ASSUME NEW r \in Runs, RetryDeletion(r)
      PROVE  \A s \in Runs : RowGoesOn(s) /\ \A v \in Workers : ClaimGoesOn(v, s)
  <2> DEFINE q == [status |-> "waiting", attempts |-> 0, due |-> TRUE, first |-> FALSE, stamp |-> row[r].stamp + 1]
  <2>1. q \in QueueRow BY <1>q, RowTypes
  <2>2. q.stamp = row[r].stamp + 1 OBVIOUS
  <2>3. row' = [row EXCEPT ![r] = q] /\ UNCHANGED worker BY <1>8 DEF RetryDeletion
  <2> HIDE DEF q
  <2> QED BY <1>s, <1>u, <2>1, <2>2, <2>3
<1>9. ASSUME NEW r \in Runs, Pass(r)
      PROVE  \A s \in Runs : RowGoesOn(s) /\ \A v \in Workers : ClaimGoesOn(v, s)
  <2> DEFINE q == [row[r] EXCEPT !.due = TRUE]
  <2>1. q \in QueueRow /\ q.stamp = row[r].stamp /\ q.status = row[r].status /\ q.first = row[r].first
    BY <1>q, RowTypes, RowSteps
  <2>2. row' = [row EXCEPT ![r] = q] /\ UNCHANGED worker BY <1>9 DEF Pass
  <2> HIDE DEF q
  <2> QED BY <1>s, <1>u, <2>1, <2>2
<1>10. CASE UNCHANGED vars BY <1>10, <1>k, <1>u DEF vars
<1> QED BY <1>1, <1>2, <1>3, <1>4, <1>5, <1>6, <1>7, <1>8, <1>9, <1>10 DEF OtherStep, InStep, InQueue

\* Nobody comes to hold a row but by a claim.
LEMMA HoldsBefore ==
  ASSUME Typed, Claims, OtherStep, NEW w \in Workers, NEW r \in Runs, Holds(w, r)'
  PROVE  /\ Holds(w, r) /\ worker'[w].claim[r] = worker[w].claim[r]
         /\ row'[r].stamp = row[r].stamp
<1>1. worker[w].claim[r] \in Nat /\ row[r].stamp \in Nat BY DEF Typed, TypeOK, Thread, QueueRow
<1>2. worker[w].claim[r] <= row[r].stamp BY DEF Claims
<1>3. worker'[w].claim[r] # 0 /\ row'[r].status = "waiting" /\ row'[r].stamp = worker'[w].claim[r]
  BY DEF Holds
<1>4. worker'[w].claim[r] = worker[w].claim[r] BY <1>3, RowsGoOn DEF ClaimGoesOn
<1>5. row'[r].stamp # row[r].stamp + 1 BY <1>1, <1>2, <1>3, <1>4
<1>6. row'[r].stamp = row[r].stamp /\ row[r].status = "waiting" BY <1>3, <1>5, RowsGoOn DEF RowGoesOn
<1> QED BY <1>3, <1>4, <1>6 DEF Holds

\* Whoever holds a row after a claim is the claimant at one of its rows, or
\* another worker at a row that was not taken.
LEMMA HoldsAfterClaim ==
  ASSUME Typed, Claims, NEW w \in Workers, Claim(w), NEW v \in Workers, NEW r \in Runs, Holds(v, r)'
  PROVE  \/ v = w /\ row'[r].stamp = row[r].stamp + 1 /\ ~row'[r].first
         \/ v # w /\ row'[r] = row[r] /\ worker'[v] = worker[v] /\ Holds(v, r)
<1>1. worker[v].claim[r] \in Nat /\ row[r].stamp \in Nat BY DEF Typed, TypeOK, Thread, QueueRow
<1>2. worker[v].claim[r] <= row[r].stamp BY DEF Claims
<1>3. worker'[v].claim[r] # 0 /\ row'[r].status = "waiting" /\ row'[r].stamp = worker'[v].claim[r]
  BY DEF Holds
<1>4. CASE v = w BY <1>3, <1>4, ClaimStep
<1>5. CASE v # w
  <2>1. worker'[v] = worker[v] BY <1>5, ClaimStep
  <2>2. row'[r].stamp # row[r].stamp + 1 BY <1>1, <1>2, <1>3, <2>1
  <2>3. row'[r] = row[r] BY <2>2, ClaimStep
  <2> QED BY <1>3, <1>5, <2>1, <2>3 DEF Holds
<1> QED BY <1>4, <1>5

\* Next is a claim or one of the other steps.
LEMMA NextSplit == [Next]_vars => OtherStep \/ \E w \in Workers : Claim(w)
BY DEF Next, OtherStep

\* No claim gets ahead of the row's next_at.
LEMMA NextClaims == Typed /\ Claims /\ [Next]_vars => Claims'
<1> SUFFICES ASSUME Typed, Claims, [Next]_vars, NEW v \in Workers, NEW r \in Runs
             PROVE  worker'[v].claim[r] <= row'[r].stamp
  BY DEF Claims
<1>1. worker[v].claim[r] \in Nat /\ row[r].stamp \in Nat BY DEF Typed, TypeOK, Thread, QueueRow
<1>2. worker[v].claim[r] <= row[r].stamp BY DEF Claims
<1>3. CASE OtherStep
  <2>1. worker'[v].claim[r] \in {0, worker[v].claim[r]} BY <1>3, RowsGoOn DEF ClaimGoesOn
  <2>2. row'[r].stamp \in {row[r].stamp, row[r].stamp + 1} BY <1>3, RowsGoOn DEF RowGoesOn
  <2> QED BY <1>1, <1>2, <2>1, <2>2
<1>4. ASSUME NEW w \in Workers, Claim(w) PROVE worker'[v].claim[r] <= row'[r].stamp
  <2>1. row'[r].stamp \in {row[r].stamp, row[r].stamp + 1} BY <1>4, ClaimStep
  <2>2. worker'[v].claim[r] \in {0, worker[v].claim[r], row'[r].stamp} BY <1>4, ClaimStep
  <2> QED BY <1>1, <1>2, <2>1, <2>2
<1> QED BY <1>3, <1>4, NextSplit

\* A step gives a row a second holder only if it takes the first one's claim away.
LEMMA NextOneHolder == Typed /\ Claims /\ OneHolder /\ [Next]_vars => OneHolder'
<1> SUFFICES ASSUME Typed, Claims, OneHolder, [Next]_vars, NEW r \in Runs, NEW u \in Workers, NEW v \in Workers,
                    Holds(u, r)', Holds(v, r)'
             PROVE  u = v
  BY DEF OneHolder
<1>1. CASE OtherStep
  <2>1. Holds(u, r) /\ Holds(v, r) BY <1>1, HoldsBefore
  <2> QED BY <2>1 DEF OneHolder
<1>2. ASSUME NEW w \in Workers, Claim(w) PROVE u = v
  <2>1. row[r].stamp \in Nat BY DEF Typed, TypeOK, QueueRow
  <2>2. \/ u = w /\ row'[r].stamp = row[r].stamp + 1
        \/ u # w /\ row'[r] = row[r] /\ Holds(u, r)
    BY <1>2, HoldsAfterClaim
  <2>3. \/ v = w /\ row'[r].stamp = row[r].stamp + 1
        \/ v # w /\ row'[r] = row[r] /\ Holds(v, r)
    BY <1>2, HoldsAfterClaim
  <2> QED BY <2>1, <2>2, <2>3 DEF OneHolder
<1> QED BY <1>1, <1>2, NextSplit

\* At the start there are no claims.
LEMMA InitClaims == Init => Claims /\ \A w \in Workers, r \in Runs : ~Holds(w, r)
BY DEF Init, Idle, Claims, Holds

\* Two workers never both have the say over a row, however often it is claimed,
\* given up, enqueued and retried in between: each claim has a next_at of its own.
THEOREM OneHasTheSay == Spec => []OneHolder
<1>1. Init => Typed /\ Claims /\ OneHolder BY InitTyped, InitClaims DEF OneHolder
<1>2. Typed /\ Claims /\ OneHolder /\ [Next]_vars => (Typed /\ Claims /\ OneHolder)'
  BY NextTyped, NextClaims, NextOneHolder
<1> QED BY <1>1, <1>2, PTL DEF Spec

-----------------------------------------------------------------------------
(* Nothing is left *)

\* Only what was deleted is in the queue; a write that is still under way for it
\* began before, so that its row has its first delay before it; nobody has
\* claimed a row in its first delay; and who has deleted the files of a row it
\* holds has left none.
Queued == \A r \in Runs : row[r].status # "none" => r \in deleted
LatePuts == \A w \in Workers, r \in deleted :
  worker[w].at = "putting" /\ worker[w].run = r => row[r].status = "waiting" /\ row[r].first /\ ~row[r].due
HeldLater == \A w \in Workers, r \in Runs : Holds(w, r) => ~row[r].first
Cleared == \A w \in Workers, r \in Runs :
  worker[w].at = "deleted" /\ worker[w].run = r /\ Holds(w, r) => r \notin files
Emptied == Queued /\ LatePuts /\ HeldLater /\ Cleared /\ NothingLeft

\* Whoever comes to hold a row has ended its first delay.
LEMMA NextHeldLater == Typed /\ Claims /\ HeldLater /\ [Next]_vars => HeldLater'
<1> SUFFICES ASSUME Typed, Claims, HeldLater, [Next]_vars, NEW v \in Workers, NEW r \in Runs, Holds(v, r)'
             PROVE  ~row'[r].first
  BY DEF HeldLater
<1>1. CASE OtherStep
  <2>1. Holds(v, r) /\ row'[r].stamp = row[r].stamp BY <1>1, HoldsBefore
  <2>2. row[r].stamp \in Nat BY DEF Typed, TypeOK, QueueRow
  <2>3. row'[r].first => row[r].first BY <1>1, <2>1, <2>2, RowsGoOn DEF RowGoesOn
  <2> QED BY <2>1, <2>3 DEF HeldLater
<1>2. ASSUME NEW w \in Workers, Claim(w) PROVE ~row'[r].first
  BY <1>2, HoldsAfterClaim DEF HeldLater
<1> QED BY <1>1, <1>2, NextSplit

\* When writes end in time, every step keeps deleted runs empty once they leave the queue.
LEMMA NextEmptied == PutsEnd /\ Typed /\ Kept /\ Claims /\ Emptied /\ [Next]_vars => Emptied'
<1> SUFFICES ASSUME PutsEnd, Typed, Kept, Claims, Emptied, [Next]_vars PROVE Emptied' OBVIOUS
<1>h. HeldLater' BY NextHeldLater DEF Emptied
<1>b. ASSUME OtherStep PROVE \A v \in Workers, r \in Runs : Holds(v, r)' => Holds(v, r)
  BY <1>b, HoldsBefore
<1> USE DEF Typed, TypeOK, runVars, At
\* A step that changes neither the queue nor what is deleted, adds no file, and
\* takes no worker to "putting" or "deleted".
<1>s. ASSUME OtherStep, UNCHANGED <<row, deleted>>, files' \subseteq files,
             \A v \in Workers : worker'[v] = worker[v] \/ worker'[v].at \notin {"putting", "deleted"}
      PROVE  Emptied'
  <2>1. Queued' BY <1>s DEF Emptied, Queued
  <2>2. LatePuts' BY <1>s DEF Emptied, LatePuts
  <2>3. Cleared' BY <1>s, <1>b DEF Emptied, Cleared
  <2>4. NothingLeft' BY <1>s DEF Emptied, NothingLeft
  <2> QED BY <1>h, <2>1, <2>2, <2>3, <2>4 DEF Emptied
\* A step that changes only one row of the queue, which no write is under way for.
<1>r. ASSUME OtherStep, NEW r \in Runs, NEW q \in QueueRow,
             row' = [row EXCEPT ![r] = q], q.status # "none" => r \in deleted,
             q.status = "none" => r \notin files,
             \A v \in Workers : ~(worker[v].at = "putting" /\ worker[v].run = r),
             UNCHANGED <<deleted, files>>,
             \A v \in Workers : worker'[v] = worker[v] \/ worker'[v].at \notin {"putting", "deleted"}
      PROVE  Emptied'
  <2>1. Queued' BY <1>r DEF Emptied, Queued
  <2>2. LatePuts' BY <1>r DEF Emptied, LatePuts
  <2>3. Cleared' BY <1>r, <1>b DEF Emptied, Cleared
  <2>4. NothingLeft' BY <1>r DEF Emptied, NothingLeft
  <2> QED BY <1>h, <2>1, <2>2, <2>3, <2>4 DEF Emptied
<1>d. ASSUME OtherStep, NEW r \in Runs, Drop(r), UNCHANGED <<files, worker>> PROVE Emptied'
  <2>1. row' = [row EXCEPT ![r] = Enqueued(row[r])] /\ deleted' = deleted \cup {r} BY <1>d DEF Drop
  <2>2. Enqueued(row[r]).status = "waiting" BY DEF Enqueued
  <2>3. Queued' BY <2>1, <2>2 DEF Emptied, Queued
  <2>4. LatePuts'
    <3> SUFFICES ASSUME NEW w \in Workers, NEW s \in deleted', worker'[w].at = "putting", worker'[w].run = s
                 PROVE  row'[s].status = "waiting" /\ row'[s].first /\ ~row'[s].due
      BY DEF LatePuts
    <3>1. CASE s # r BY <1>d, <2>1, <3>1 DEF Emptied, LatePuts
    <3>2. CASE s = r /\ row[r].status = "waiting"
      <4>1. Enqueued(row[r]) = row[r] BY <3>2 DEF Enqueued
      <4>2. r \in deleted BY <3>2 DEF Emptied, Queued
      <4> QED BY <1>d, <2>1, <3>2, <4>1, <4>2 DEF Emptied, LatePuts
    <3>3. CASE s = r /\ row[r].status # "waiting"
      <4>1. Enqueued(row[r]).first /\ ~Enqueued(row[r]).due BY <3>3 DEF Enqueued
      <4> QED BY <2>1, <2>2, <3>3, <4>1
    <3> QED BY <3>1, <3>2, <3>3
  <2>5. Cleared' BY <1>d, <1>b DEF Emptied, Cleared
  <2>6. NothingLeft' BY <1>d, <2>1, <2>2 DEF Emptied, NothingLeft
  <2> QED BY <1>h, <2>3, <2>4, <2>5, <2>6 DEF Emptied
<1>1. ASSUME NEW w \in Workers, NEW r \in Runs, BeginStep(w, r) PROVE Emptied'
  <2>1. worker' = [worker EXCEPT ![w] = [Idle EXCEPT !.at = "step", !.run = r]] /\ OtherStep
    BY <1>1 DEF BeginStep, OtherStep
  <2>2. [Idle EXCEPT !.at = "step", !.run = r].at = "step" BY DEF Idle
  <2>3. \A v \in Workers : worker'[v] = worker[v] \/ worker'[v].at \notin {"putting", "deleted"}
    BY <2>1, <2>2
  <2> QED BY <1>1, <1>s, <2>1, <2>3 DEF BeginStep
<1>2. ASSUME NEW w \in Workers, Put(w) PROVE Emptied'
  <2>1. OtherStep BY <1>2 DEF OtherStep, InStep
  <2>2. CASE progress[worker[w].run] # "active"
    <3>1. \A v \in Workers : worker'[v] = worker[v] \/ worker'[v].at \notin {"putting", "deleted"}
      BY <1>2, <2>2 DEF Put, Idle
    <3> QED BY <1>2, <1>s, <2>1, <3>1 DEF Put
  <2>3. CASE progress[worker[w].run] = "active"
    <3>1. worker[w].run \notin deleted BY <2>3 DEF Kept
    <3>2. worker' = [worker EXCEPT ![w].at = "putting"] /\ UNCHANGED <<row, deleted, files>>
      BY <1>2, <2>3 DEF Put, Move
    <3>3. worker'[w].run = worker[w].run /\ worker'[w].at = "putting" BY <3>2 DEF Thread
    <3>4. \A v \in Workers \ {w} : worker'[v] = worker[v] BY <3>2
    <3>5. Queued' BY <3>2 DEF Emptied, Queued
    <3>6. LatePuts' BY <3>1, <3>2, <3>3, <3>4 DEF Emptied, LatePuts
    <3>7. Cleared' BY <1>b, <2>1, <3>2, <3>3, <3>4 DEF Emptied, Cleared
    <3>8. NothingLeft' BY <3>2 DEF Emptied, NothingLeft
    <3> QED BY <1>h, <3>5, <3>6, <3>7, <3>8 DEF Emptied
  <2> QED BY <2>2, <2>3
<1>3. ASSUME NEW w \in Workers, EndPut(w) PROVE Emptied'
  <2> DEFINE r == worker[w].run
  <2>1. OtherStep BY <1>3 DEF OtherStep, InStep
  <2>2. /\ worker' = [worker EXCEPT ![w].at = "step"] /\ UNCHANGED <<row, deleted>>
        /\ files' \subseteq files \cup {r} /\ worker[w].at = "putting" /\ r \in Runs
    BY <1>3 DEF EndPut, Move
  <2>3. worker'[w].at = "step" /\ \A v \in Workers \ {w} : worker'[v] = worker[v] BY <2>2 DEF Thread
  <2>4. r \in deleted => row[r].status = "waiting" /\ row[r].first BY <2>2 DEF Emptied, LatePuts
  <2>5. \A v \in Workers : ~Holds(v, r)
    <3>1. r \notin deleted => row[r].status = "none" BY <2>2 DEF Emptied, Queued
    <3> QED BY <2>2, <2>4, <3>1 DEF Emptied, HeldLater, Holds
  <2> HIDE DEF r
  <2>6. Queued' BY <2>2 DEF Emptied, Queued
  <2>7. LatePuts' BY <2>2, <2>3 DEF Emptied, LatePuts
  <2>8. Cleared' BY <1>b, <2>1, <2>2, <2>3, <2>5 DEF Emptied, Cleared
  <2>9. NothingLeft' BY <2>2, <2>4 DEF Emptied, NothingLeft
  <2> QED BY <1>h, <2>6, <2>7, <2>8, <2>9 DEF Emptied
<1>4. ASSUME NEW w \in Workers, EndStep(w) PROVE Emptied'
  <2>1. OtherStep /\ UNCHANGED <<row, deleted, files>> /\ worker' = [worker EXCEPT ![w] = Idle]
    BY <1>4 DEF EndStep, OtherStep, InStep
  <2>2. \A v \in Workers : worker'[v] = worker[v] \/ worker'[v].at \notin {"putting", "deleted"}
    BY <2>1 DEF Idle
  <2> QED BY <1>s, <2>1, <2>2
<1>5. ASSUME NEW w \in Workers, NextRow(w) PROVE Emptied'
  <2>1. PICK r \in Runs : worker' = [worker EXCEPT ![w].at = "deleting", ![w].run = r]
    BY <1>5 DEF NextRow
  <2>2. OtherStep /\ UNCHANGED <<row, deleted, files>> BY <1>5 DEF NextRow, OtherStep, InQueue
  <2>3. worker'[w].at = "deleting" /\ \A v \in Workers \ {w} : worker'[v] = worker[v]
    BY <2>1 DEF Thread
  <2> QED BY <1>s, <2>2, <2>3
<1>6. ASSUME NEW w \in Workers, DeletePrefix(w) PROVE Emptied'
  <2>1. OtherStep /\ UNCHANGED <<row, deleted>> BY <1>6 DEF DeletePrefix, OtherStep, InQueue
  <2>2. CASE files' = files /\ Move(w, "failed")
    <3>1. worker'[w].at = "failed" /\ \A v \in Workers \ {w} : worker'[v] = worker[v]
      BY <2>2 DEF Move, Thread
    <3> QED BY <1>s, <2>1, <2>2, <3>1
  <2>3. CASE files' = files \ {worker[w].run} /\ Move(w, "deleted")
    <3>1. /\ worker'[w].at = "deleted" /\ worker'[w].run = worker[w].run
          /\ \A v \in Workers \ {w} : worker'[v] = worker[v]
      BY <2>3 DEF Move, Thread
    <3>2. Queued' BY <2>1 DEF Emptied, Queued
    <3>3. LatePuts' BY <2>1, <3>1 DEF Emptied, LatePuts
    <3>4. Cleared' BY <1>b, <2>1, <2>3, <3>1 DEF Emptied, Cleared
    <3>5. NothingLeft' BY <2>1, <2>3 DEF Emptied, NothingLeft
    <3> QED BY <1>h, <3>2, <3>3, <3>4, <3>5 DEF Emptied
  <2> QED BY <1>6, <2>2, <2>3 DEF DeletePrefix
\* A worker that leaves a row is in no step and has deleted nothing.
<1>l. ASSUME NEW w \in Workers, LeaveRow(w)
      PROVE  \A v \in Workers : worker'[v] = worker[v] \/ worker'[v].at \notin {"putting", "deleted"}
  <2>1. PICK t \in Thread : t.at \in {"idle", "batch"} /\ worker' = [worker EXCEPT ![w] = t]
    BY <1>l, LeaveRowTypes
  <2> QED BY <2>1
\* No write is under way for a row that somebody holds.
<1>n. ASSUME NEW w \in Workers, NEW r \in Runs, Holds(w, r)
      PROVE  r \in deleted /\ \A v \in Workers : ~(worker[v].at = "putting" /\ worker[v].run = r)
  <2>1. row[r].status = "waiting" /\ ~row[r].first BY <1>n DEF Emptied, HeldLater, Holds
  <2>2. r \in deleted BY <2>1 DEF Emptied, Queued
  <2> QED BY <2>1, <2>2 DEF Emptied, LatePuts
<1>7. ASSUME NEW w \in Workers, FinishDeletion(w) PROVE Emptied'
  <2> DEFINE r == worker[w].run
             q == [row[r] EXCEPT !.status = "none", !.due = FALSE, !.first = FALSE]
  <2>1. OtherStep /\ LeaveRow(w) /\ UNCHANGED <<files, deleted>> /\ r \in Runs /\ worker[w].at = "deleted"
    BY <1>7 DEF FinishDeletion, OtherStep, InQueue
  <2>2. CASE Holds(w, r)
    <3>1. row' = [row EXCEPT ![r] = q] BY <1>7, <2>2 DEF FinishDeletion
    <3>2. q \in QueueRow /\ q.status = "none" BY <2>1, RowTypes, RowSteps
    <3>3. r \notin files BY <2>1, <2>2 DEF Emptied, Cleared
    <3> HIDE DEF q, r
    <3> QED BY <1>l, <1>n, <1>r, <2>1, <2>2, <3>1, <3>2, <3>3
  <2>3. CASE ~Holds(w, r)
    <3>1. UNCHANGED row BY <1>7, <2>3 DEF FinishDeletion
    <3> QED BY <1>l, <1>s, <2>1, <3>1
  <2> QED BY <2>2, <2>3
<1>8. ASSUME NEW w \in Workers, FailDeletion(w) PROVE Emptied'
  <2> DEFINE r == worker[w].run
             q == Failed(row[r])
  <2>1. OtherStep /\ LeaveRow(w) /\ UNCHANGED <<files, deleted>> /\ r \in Runs
    BY <1>8 DEF FailDeletion, OtherStep, InQueue
  <2>2. CASE Holds(w, r)
    <3>1. row' = [row EXCEPT ![r] = q] BY <1>8, <2>2 DEF FailDeletion
    <3>2. row[r].status = "waiting" BY <2>2 DEF Holds
    <3>3. q \in QueueRow BY <2>1, <3>2, RowTypes
    <3>4. q.status # "none" BY <2>1, <3>2 DEF Failed, QueueRow
    <3> HIDE DEF q, r
    <3> QED BY <1>l, <1>n, <1>r, <2>1, <2>2, <3>1, <3>3, <3>4
  <2>3. CASE ~Holds(w, r)
    <3>1. UNCHANGED row BY <1>8, <2>3 DEF FailDeletion
    <3> QED BY <1>l, <1>s, <2>1, <3>1
  <2> QED BY <2>2, <2>3
<1>9. ASSUME NEW w \in Workers, Crash(w) PROVE Emptied'
  <2>1. OtherStep /\ UNCHANGED <<row, deleted, files>> /\ worker' = [worker EXCEPT ![w] = Idle]
    BY <1>9 DEF Crash, OtherStep
  <2>2. \A v \in Workers : worker'[v] = worker[v] \/ worker'[v].at \notin {"putting", "deleted"}
    BY <2>1 DEF Idle
  <2> QED BY <1>s, <2>1, <2>2
<1>10. ASSUME NEW r \in Runs, LoseLease(r) \/ Abort(r) PROVE Emptied'
  <2>1. OtherStep /\ UNCHANGED <<row, deleted, files, worker>> BY <1>10 DEF LoseLease, Abort, OtherStep
  <2> QED BY <1>s, <2>1
<1>11. ASSUME NEW r \in Runs, DeleteArtifacts(r) \/ RetireRun(r) PROVE Emptied'
  BY <1>11, <1>d DEF DeleteArtifacts, RetireRun, OtherStep
<1>12. ASSUME NEW r \in Runs, RetryDeletion(r) PROVE Emptied'
  <2> DEFINE q == [status |-> "waiting", attempts |-> 0, due |-> TRUE, first |-> FALSE, stamp |-> row[r].stamp + 1]
  <2>1. /\ OtherStep /\ UNCHANGED <<deleted, files, worker>> /\ row[r].status = "given_up"
        /\ row' = [row EXCEPT ![r] = q]
    BY <1>12 DEF RetryDeletion, OtherStep
  <2>2. q \in QueueRow /\ q.status # "none" BY RowTypes
  <2>3. r \in deleted BY <2>1 DEF Emptied, Queued
  <2>4. \A v \in Workers : ~(worker[v].at = "putting" /\ worker[v].run = r)
    BY <2>1, <2>3 DEF Emptied, LatePuts
  <2> HIDE DEF q
  <2> QED BY <1>r, <2>1, <2>2, <2>3, <2>4
<1>13. ASSUME NEW r \in Runs, Pass(r) PROVE Emptied'
  <2> DEFINE q == [row[r] EXCEPT !.due = TRUE]
  <2>1. /\ OtherStep /\ UNCHANGED <<deleted, files, worker>> /\ row[r].status = "waiting"
        /\ row' = [row EXCEPT ![r] = q]
    BY <1>13 DEF Pass, OtherStep
  <2>2. q \in QueueRow /\ q.status = "waiting" BY <2>1, RowTypes, RowSteps
  <2>3. r \in deleted BY <2>1 DEF Emptied, Queued
  <2>4. \A v \in Workers : ~(worker[v].at = "putting" /\ worker[v].run = r)
    <3>1. CASE row[r].first BY <1>13, <3>1 DEF Pass
    <3>2. CASE ~row[r].first BY <2>3, <3>2 DEF Emptied, LatePuts
    <3> QED BY <3>1, <3>2
  <2> HIDE DEF q
  <2> QED BY <1>r, <2>1, <2>2, <2>3, <2>4
<1>14. ASSUME NEW w \in Workers, Claim(w) PROVE Emptied'
  <2>1. UNCHANGED <<deleted, files>> BY <1>14 DEF Claim
  <2>2. worker'[w].at = "batch" /\ \A v \in Workers \ {w} : worker'[v] = worker[v] BY <1>14, ClaimStep
  <2>3. \A r \in Runs : \/ row'[r] = row[r]
                        \/ row[r].status = "waiting" /\ row[r].due /\ row'[r].status = "waiting"
    BY <1>14, ClaimStep
  <2>4. Queued' BY <2>1, <2>3 DEF Emptied, Queued
  <2>5. LatePuts' BY <2>1, <2>2, <2>3 DEF Emptied, LatePuts
  <2>6. Cleared'
    <3> SUFFICES ASSUME NEW v \in Workers, NEW r \in Runs, worker'[v].at = "deleted", worker'[v].run = r, Holds(v, r)'
                 PROVE  r \notin files'
      BY DEF Cleared
    <3>1. worker'[v] = worker[v] /\ Holds(v, r) BY <1>14, <2>2, HoldsAfterClaim
    <3> QED BY <2>1, <3>1 DEF Emptied, Cleared
  <2>7. NothingLeft' BY <2>1, <2>3 DEF Emptied, NothingLeft
  <2> QED BY <1>h, <2>4, <2>5, <2>6, <2>7 DEF Emptied
<1>15. CASE UNCHANGED vars
  <2>1. OtherStep /\ UNCHANGED <<row, deleted, files, worker>> BY <1>15 DEF vars, OtherStep
  <2> QED BY <1>s, <2>1
<1> QED BY <1>1, <1>2, <1>3, <1>4, <1>5, <1>6, <1>7, <1>8, <1>9, <1>10, <1>11, <1>12, <1>13, <1>14, <1>15
        DEF Next, InStep, InQueue

\* When the write of a file ends within the first delay, a deleted run whose row
\* has left the queue has no files: not those of a step that went on when the
\* deletion was asked for, and not those of a deletion done twice or by halves.
THEOREM NoFileLeft == PutsEnd => (Spec => []NothingLeft)
<1> SUFFICES ASSUME PutsEnd PROVE Spec => []NothingLeft OBVIOUS
<1>1. Init => Typed /\ Kept /\ Claims /\ Emptied
  <2> SUFFICES ASSUME Init PROVE Typed /\ Kept /\ Claims /\ Emptied OBVIOUS
  <2>1. Typed /\ Claims /\ \A w \in Workers, r \in Runs : ~Holds(w, r) BY InitTyped, InitClaims
  <2>2. Kept BY DEF Init, Kept
  <2>3. \A r \in Runs : row[r].status = "none" BY DEF Init
  <2> QED BY <2>1, <2>2, <2>3 DEF Init, Emptied, Queued, LatePuts, HeldLater, Cleared, NothingLeft
<1>2. Typed /\ Kept /\ Claims /\ Emptied /\ [Next]_vars => (Typed /\ Kept /\ Claims /\ Emptied)'
  BY NextTyped, NextKept, NextClaims, NextEmptied
<1>3. Emptied => NothingLeft BY DEF Emptied
<1> QED BY <1>1, <1>2, <1>3, PTL DEF Spec
=============================================================================
