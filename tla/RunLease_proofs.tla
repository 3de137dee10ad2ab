--------------------------- MODULE RunLease_proofs ---------------------------
(***************************************************************************)
(* What RunLease guarantees for any number of workers and commands, any    *)
(* bound on steps, resumes, redos and faults.  One inductive invariant     *)
(* carries everything: besides types it says where a lease owner may stand *)
(* given the committed row, which is what the checks under the lease buy.  *)
(***************************************************************************)
EXTENDS RunLease, TLAPS

\* Where each kind of actor can stand.
PlacesOK ==
  /\ \A w \in Workers : pc[w] \in WorkerPC
  /\ \A c \in Commands : pc[c] \in CommandPC

\* Facts about the committed row alone: outside of work there is no cycle,
\* a timed resume belongs to a step that ran, and a cycle whose work began
\* collects no more.
Sound(r, open) ==
  /\ r.progress \notin {"run", "resume_wait"} => r.cycle = "none"
  /\ r.progress = "resume_wait" => r.cycle # "fresh"
  /\ r.cycle = "worked" => ~open
RowOK == Sound(run, windowOpen)

\* What the owner of the lease checked is still true of the committed row.
WorkerReady(w) ==
  /\ pc[w] = "resume" => run.progress = "resume_wait"
  /\ pc[w] = "loop" => ~Collecting
  /\ pc[w] = "step" => run.progress = "run" /\ run.left > 0 /\ ~Collecting
  /\ pc[w] = "segEnd" => run.progress = "run" /\ run.left = 0
  /\ pc[w] = "abort" => run.progress = "run" /\ abortRequested

CommandReady(c) ==
  pc[c] = "save" =>
    /\ c \in Deciders => run.progress = "user_wait"
    /\ c \in Reworkers => \/ run.progress = "user_wait"
                          \/ run.progress = "run" /\ run.cycle = "fresh"
    /\ c \in Aborters => run.progress \in ActiveProgress

OwnerReady ==
  /\ \A w \in Workers : owner = w => WorkerReady(w)
  /\ \A c \in Commands : owner = c => CommandReady(c)

\* The step that runs when the abort is asked for is the only late one.
LateOK ==
  /\ ~abortRequested => late = 0
  /\ late <= 1
  /\ late = 1 => \A w \in Workers : owner = w => pc[w] # "step"

IInv == TypeOK /\ PlacesOK /\ RowOK /\ CopyIsCurrent /\ OwnerReady /\ LateOK
-----------------------------------------------------------------------------
(* What the handlers make of a row *)

\* Type of the handlers that always leave one row.
LEMMA RowHandlers ==
  ASSUME NEW r \in Row
  PROVE  /\ Waiting(r) \in Row /\ AfterFail(r) \in Row
         /\ AfterResume(r) \in Row /\ AfterAbort(r) \in Row
         /\ AfterQueueEmpty(r) \subseteq Row /\ AfterCommand(r) \subseteq Row
         /\ AfterRework(r) \subseteq Row
<1>1. Waiting(r) \in Row /\ AfterFail(r) \in Row
  BY RunModelAssumption DEF RunModelAssumption, Row, Progress, NewRow, Waiting, Ended, AfterFail
<1>2. AfterResume(r) \in Row /\ AfterAbort(r) \in Row
  BY RunModelAssumption DEF RunModelAssumption, Row, Progress, AfterResume, AfterAbort, Ended
<1>3. AfterQueueEmpty(r) \subseteq Row
  BY <1>1, RunModelAssumption DEF RunModelAssumption, Row, Progress, AfterQueueEmpty, Ended
<1>4. ASSUME NEW n \in 1..MaxLeft, NEW c \in {"none", "fresh"}
      PROVE  Enqueued(r, n, c) \in Row
  BY RunModelAssumption DEF RunModelAssumption, Row, Progress, Enqueued
<1>5. AfterCommand(r) \subseteq Row
  BY <1>4 DEF AfterCommand
<1>6. AfterRework(r) \subseteq Row
  BY <1>4 DEF AfterRework
<1> QED BY <1>1, <1>2, <1>3, <1>5, <1>6

\* The save of a step whose queue was not empty, outside the collecting
\* window: the cycle it leaves is over or at work.
LEMMA StepHandler ==
  ASSUME NEW r \in Row, NEW open, Sound(r, open), r.progress = "run", r.left > 0,
         ~Life!Collecting(r, open), NEW q \in AfterStep(r)
  PROVE  q \in Row /\ Sound(q, open) /\ ~Life!Collecting(q, open)
<1>1. CASE q \in AfterOk(r)
  BY <1>1, RunModelAssumption DEF RunModelAssumption, AfterOk, Stepped, Row, Progress, Worked,
       Sound, Life!Collecting
<1>2. CASE q \in AfterExhausted(r)
  BY <1>2, RunModelAssumption DEF RunModelAssumption, AfterExhausted, Row, Progress, Worked,
       Sound, Life!Collecting
<1>3. CASE q = AfterFail(r)
  BY <1>3, RunModelAssumption DEF RunModelAssumption, AfterFail, Ended, NewRow, Row, Progress,
       Sound, Life!Collecting
<1>4. CASE q \in AfterRescue(r)
  BY <1>4, RunModelAssumption DEF RunModelAssumption, AfterRescue, Waiting, NewRow, Row,
       Progress, Sound, Life!Collecting
<1> QED BY <1>1, <1>2, <1>3, <1>4 DEF AfterStep

\* The other saves of a worker leave no cycle, or keep the one at work.
LEMMA WorkerHandlers ==
  ASSUME NEW r \in Row, NEW open, Sound(r, open)
  PROVE  /\ \A q \in AfterQueueEmpty(r) : Sound(q, open) /\ ~Life!Collecting(q, open)
         /\ Sound(AfterAbort(r), open)
         /\ r.progress = "resume_wait" =>
              Sound(AfterResume(r), open) /\ ~Life!Collecting(AfterResume(r), open)
<1>1. \A q \in AfterQueueEmpty(r) : Sound(q, open) /\ ~Life!Collecting(q, open)
  BY DEF AfterQueueEmpty, Waiting, NewRow, Ended, Sound, Life!Collecting
<1>2. Sound(AfterAbort(r), open)
  BY DEF AfterAbort, Ended, Sound
<1>3. ASSUME r.progress = "resume_wait"
      PROVE  Sound(AfterResume(r), open) /\ ~Life!Collecting(AfterResume(r), open)
  BY <1>3 DEF AfterResume, Row, Sound, Life!Collecting
<1> QED BY <1>1, <1>2, <1>3

\* A command leaves a row in which no cycle has begun to work.
LEMMA CommandHandlers ==
  ASSUME NEW r \in Row, NEW open, Sound(r, open)
  PROVE  /\ r.progress = "user_wait" => \A q \in AfterCommand(r) : q.cycle = "none"
         /\ r.progress = "user_wait" \/ (r.progress = "run" /\ r.cycle = "fresh") =>
              \A q \in AfterRework(r) : q.progress = "run" /\ q.cycle = "fresh"
BY DEF AfterCommand, AfterRework, Enqueued, Sound

-----------------------------------------------------------------------------
(* The invariant *)

\* The constants, as the proofs below use them.
LEMMA Constants ==
  /\ NoCopy \notin Row /\ NoOwner \notin Actors
  /\ Workers \subseteq Actors /\ Commands \subseteq Actors
  /\ Workers \cap Commands = {}
  /\ Deciders \subseteq Commands /\ Reworkers \subseteq Commands /\ Aborters \subseteq Commands
  /\ \A c \in Commands : c \in Deciders \/ c \in Reworkers \/ c \in Aborters
  /\ \A c \in Reworkers : c \notin Deciders /\ c \notin Aborters
  /\ \A c \in Aborters : c \notin Deciders
  /\ MaxFaults \in Nat
BY RunLeaseAssumption DEF RunLeaseAssumption, Actors, Commands

LEMMA InitInvariant == Init => IInv
<1> SUFFICES ASSUME Init PROVE IInv
  OBVIOUS
<1> USE DEF Init
<1>1. TypeOK
  <2>1. run \in Row
    BY RunModelAssumption DEF RunModelAssumption, NewRow, Row, Progress
  <2>2. pc \in [Actors -> WorkerPC \cup CommandPC]
    BY DEF WorkerPC
  <2>3. copy \in [Actors -> Row \cup {NoCopy}]
    OBVIOUS
  <2>4. faults \in 0..MaxFaults /\ late \in 0..2
    BY Constants
  <2> QED BY <2>1, <2>2, <2>3, <2>4 DEF TypeOK
<1>2. PlacesOK
  BY Constants DEF PlacesOK, WorkerPC, CommandPC
<1>3. RowOK
  BY DEF RowOK, Sound, NewRow
<1>4. CopyIsCurrent
  BY DEF CopyIsCurrent, Holding
<1>5. OwnerReady
  BY Constants DEF OwnerReady, WorkerReady, CommandReady
<1>6. LateOK
  BY DEF LateOK
<1> QED BY <1>1, <1>2, <1>3, <1>4, <1>5, <1>6 DEF IInv
\* What a worker that still owns the lease writes: every save starts from
\* the committed row, in the state the worker checked.
LEMMA WorkerSaves ==
  ASSUME IInv, NEW w \in Workers, owner = w
  PROVE  /\ SaveResume(w) => run.progress = "resume_wait" /\ run' = AfterResume(run)
         /\ SaveAbort(w) => run.progress = "run" /\ run' = AfterAbort(run)
         /\ SaveSegmentEnd(w) => /\ run.progress = "run" /\ run.left = 0
                                 /\ run' \in AfterQueueEmpty(run)
         /\ SaveStep(w) => /\ run.progress = "run" /\ run.left > 0 /\ ~Collecting
                           /\ run' \in AfterStep(run)
         /\ SaveRedo(w) => /\ run.progress = "run" /\ run.left > 0 /\ ~Collecting
                           /\ run' = run
<1>1. w \in Actors /\ WorkerReady(w)
  BY Constants DEF IInv, OwnerReady
<1>2. pc[w] \in Holding => copy[w] = run
  BY <1>1 DEF IInv, CopyIsCurrent
<1> USE <1>1, <1>2 DEF SaveFrom, Commit, Holding, WorkerReady
<1>3. SaveResume(w) => run.progress = "resume_wait" /\ run' = AfterResume(run)
  BY DEF SaveResume
<1>4. SaveAbort(w) => run.progress = "run" /\ run' = AfterAbort(run)
  BY DEF SaveAbort
<1>5. SaveSegmentEnd(w) => /\ run.progress = "run" /\ run.left = 0
                           /\ run' \in AfterQueueEmpty(run)
  BY DEF SaveSegmentEnd
<1>6. SaveStep(w) => /\ run.progress = "run" /\ run.left > 0 /\ ~Collecting
                     /\ run' \in AfterStep(run)
  BY DEF SaveStep
<1>7. SaveRedo(w) => /\ run.progress = "run" /\ run.left > 0 /\ ~Collecting
                     /\ run' = run
  BY DEF SaveRedo
<1> QED BY <1>3, <1>4, <1>5, <1>6, <1>7

\* The same for a command.
LEMMA CommandSaves ==
  ASSUME IInv, NEW c \in Commands, owner = c, CommandSave(c)
  PROVE  /\ copy[c] = run
         /\ c \in Deciders =>
              run.progress = "user_wait" /\ run' \in AfterCommand(run)
         /\ c \in Reworkers =>
              /\ \/ run.progress = "user_wait" 
                 \/ run.progress = "run" /\ run.cycle = "fresh" /\ UNCHANGED windowOpen
              /\ run' \in AfterRework(run)
         /\ c \in Aborters =>
              run.progress \in ActiveProgress /\ run' = AfterAbort(run)
<1>1. c \in Actors /\ CommandReady(c)
  BY Constants DEF IInv, OwnerReady
<1>2. pc[c] = "save" /\ run' \in Rows(c)
  BY DEF CommandSave, Commit
<1>3. copy[c] = run
  BY <1>1, <1>2 DEF IInv, CopyIsCurrent, Holding
<1>4. CASE c \in Deciders
  BY <1>1, <1>2, <1>3, <1>4, Constants DEF CommandReady, Rows
<1>5. CASE c \in Reworkers
  BY <1>1, <1>2, <1>3, <1>5, Constants DEF CommandReady, Rows, CommandSave
<1>6. CASE c \in Aborters
  BY <1>1, <1>2, <1>3, <1>6, Constants DEF CommandReady, Rows
<1> QED BY <1>3, <1>4, <1>5, <1>6, Constants

\* Every step keeps the invariant: one step per action, and for an action
\* that saves the row, first what the owner of the lease writes.
LEMMA StepInvariant == IInv /\ [Next]_vars => IInv'
<1> SUFFICES ASSUME IInv, [Next]_vars PROVE IInv'
  OBVIOUS
<1> USE Constants DEF Goto, Forget, TakeLease, Fault, Free, Holding, WorkerPC, CommandPC
<1>1. ASSUME NEW w \in Workers, ClaimReadyRun(w) PROVE IInv'
  BY <1>1 DEF ClaimReadyRun, Claim, IInv, TypeOK, PlacesOK, RowOK, CopyIsCurrent, OwnerReady, WorkerReady, CommandReady, LateOK, Collecting, Life!Collecting
<1>2. ASSUME NEW w \in Workers, ClaimDueResume(w) PROVE IInv'
  BY <1>2 DEF ClaimDueResume, Claim, IInv, TypeOK, PlacesOK, RowOK, CopyIsCurrent, OwnerReady, WorkerReady, CommandReady, LateOK, Collecting, Life!Collecting
<1>3. ASSUME NEW w \in Workers, AcquireToAdvance(w) PROVE IInv'
  <2>1. TypeOK'
    BY <1>3 DEF AcquireToAdvance, Acquire, IInv, TypeOK, PlacesOK
  <2>2. PlacesOK'
    BY <1>3 DEF AcquireToAdvance, Acquire, IInv, TypeOK, PlacesOK
  <2>3. RowOK'
    BY <1>3 DEF AcquireToAdvance, Acquire, IInv, TypeOK, RowOK, Sound
  <2>4. CopyIsCurrent'
    BY <1>3 DEF AcquireToAdvance, Acquire, IInv, TypeOK, PlacesOK, CopyIsCurrent
  <2>5. OwnerReady'
    BY <1>3 DEF AcquireToAdvance, Acquire, IInv, TypeOK, PlacesOK, OwnerReady, WorkerReady, CommandReady, CopyIsCurrent, Collecting, Life!Collecting
  <2>6. LateOK'
    BY <1>3 DEF AcquireToAdvance, Acquire, IInv, TypeOK, PlacesOK, LateOK
  <2> QED BY <2>1, <2>2, <2>3, <2>4, <2>5, <2>6 DEF IInv
<1>4. ASSUME NEW w \in Workers, AcquireToResume(w) PROVE IInv'
  <2>1. TypeOK'
    BY <1>4 DEF AcquireToResume, Acquire, IInv, TypeOK, PlacesOK
  <2>2. PlacesOK'
    BY <1>4 DEF AcquireToResume, Acquire, IInv, TypeOK, PlacesOK
  <2>3. RowOK'
    BY <1>4 DEF AcquireToResume, Acquire, IInv, TypeOK, RowOK, Sound
  <2>4. CopyIsCurrent'
    BY <1>4 DEF AcquireToResume, Acquire, IInv, TypeOK, PlacesOK, CopyIsCurrent
  <2>5. OwnerReady'
    BY <1>4 DEF AcquireToResume, Acquire, IInv, TypeOK, PlacesOK, OwnerReady, WorkerReady, CommandReady, CopyIsCurrent, Collecting, Life!Collecting
  <2>6. LateOK'
    BY <1>4 DEF AcquireToResume, Acquire, IInv, TypeOK, PlacesOK, LateOK
  <2> QED BY <2>1, <2>2, <2>3, <2>4, <2>5, <2>6 DEF IInv
<1>5. ASSUME NEW w \in Workers, LoadToAdvance(w) PROVE IInv'
  <2>1. TypeOK'
    BY <1>5 DEF LoadToAdvance, Load, IInv, TypeOK, PlacesOK
  <2>2. PlacesOK'
    BY <1>5 DEF LoadToAdvance, Load, IInv, TypeOK, PlacesOK
  <2>3. RowOK'
    BY <1>5 DEF LoadToAdvance, Load, IInv, TypeOK, RowOK, Sound
  <2>4. CopyIsCurrent'
    BY <1>5 DEF LoadToAdvance, Load, IInv, TypeOK, PlacesOK, CopyIsCurrent
  <2>5. OwnerReady'
    BY <1>5 DEF LoadToAdvance, Load, IInv, TypeOK, PlacesOK, OwnerReady, WorkerReady, CommandReady, CopyIsCurrent, Collecting, Life!Collecting
  <2>6. LateOK'
    BY <1>5 DEF LoadToAdvance, Load, IInv, TypeOK, PlacesOK, LateOK
  <2> QED BY <2>1, <2>2, <2>3, <2>4, <2>5, <2>6 DEF IInv
<1>6. ASSUME NEW w \in Workers, LoadToResume(w) PROVE IInv'
  <2>1. TypeOK'
    BY <1>6 DEF LoadToResume, Load, IInv, TypeOK, PlacesOK
  <2>2. PlacesOK'
    BY <1>6 DEF LoadToResume, Load, IInv, TypeOK, PlacesOK
  <2>3. RowOK'
    BY <1>6 DEF LoadToResume, Load, IInv, TypeOK, RowOK, Sound
  <2>4. CopyIsCurrent'
    BY <1>6 DEF LoadToResume, Load, IInv, TypeOK, PlacesOK, CopyIsCurrent
  <2>5. OwnerReady'
    BY <1>6 DEF LoadToResume, Load, IInv, TypeOK, PlacesOK, OwnerReady, WorkerReady, CommandReady, CopyIsCurrent, Collecting, Life!Collecting
  <2>6. LateOK'
    BY <1>6 DEF LoadToResume, Load, IInv, TypeOK, PlacesOK, LateOK
  <2> QED BY <2>1, <2>2, <2>3, <2>4, <2>5, <2>6 DEF IInv
<1>7. ASSUME NEW w \in Workers, DrainTop(w) PROVE IInv'
  <2>1. TypeOK'
    BY <1>7 DEF DrainTop, IInv, TypeOK, PlacesOK
  <2>2. PlacesOK'
    BY <1>7 DEF DrainTop, IInv, TypeOK, PlacesOK
  <2>3. RowOK'
    BY <1>7 DEF DrainTop, IInv, TypeOK, RowOK, Sound
  <2>4. CopyIsCurrent'
    BY <1>7 DEF DrainTop, IInv, TypeOK, PlacesOK, CopyIsCurrent
  <2>5. OwnerReady'
    <3>1. ASSUME NEW v \in Workers, owner = v PROVE WorkerReady(v)'
      <4>1. CASE v = w
        <5>1. copy[w] = run /\ ~Collecting
          BY <1>7, <3>1, <4>1 DEF DrainTop, IInv, CopyIsCurrent, OwnerReady, WorkerReady
        <5>2. run.left > 0 \/ run.left = 0
          BY DEF IInv, TypeOK, Row
        <5> QED BY <1>7, <3>1, <4>1, <5>1, <5>2 DEF DrainTop, IInv, TypeOK, WorkerReady, Collecting
      <4>2. CASE v # w
        BY <1>7, <3>1, <4>2 DEF DrainTop, IInv, TypeOK, OwnerReady, WorkerReady, Collecting
      <4> QED BY <4>1, <4>2
    <3>2. ASSUME NEW d \in Commands, owner = d PROVE CommandReady(d)'
      BY <1>7, <3>2 DEF DrainTop, IInv, TypeOK, PlacesOK, OwnerReady, WorkerReady, CommandReady, CopyIsCurrent, Collecting, Life!Collecting
    <3> QED BY <1>7, <3>1, <3>2 DEF DrainTop, OwnerReady
  <2>6. LateOK'
    BY <1>7 DEF DrainTop, IInv, TypeOK, PlacesOK, LateOK
  <2> QED BY <2>1, <2>2, <2>3, <2>4, <2>5, <2>6 DEF IInv
<1>8. ASSUME NEW w \in Workers, SaveResume(w) PROVE IInv'
  <2>0. ASSUME owner = w
        PROVE  run' \in Row /\ Sound(run', windowOpen) /\ ~Life!Collecting(run', windowOpen)
    BY <1>8, <2>0, WorkerSaves, RowHandlers, WorkerHandlers DEF IInv, TypeOK, RowOK, Collecting
  <2>1. TypeOK'
    <3>1. CASE owner = w
      BY <2>0, <1>8, <3>1 DEF SaveResume, SaveFrom, Commit, IInv, TypeOK, PlacesOK
    <3>2. CASE owner # w
      BY <1>8, <3>2 DEF SaveResume, SaveFrom, Commit, IInv, TypeOK, PlacesOK
    <3> QED BY <3>1, <3>2
  <2>2. PlacesOK'
    BY <2>0, <1>8 DEF SaveResume, SaveFrom, Commit, IInv, TypeOK, PlacesOK
  <2>3. RowOK'
    BY <2>0, <1>8 DEF SaveResume, SaveFrom, Commit, IInv, RowOK
  <2>4. CopyIsCurrent'
    BY <2>0, <1>8 DEF SaveResume, SaveFrom, Commit, IInv, TypeOK, PlacesOK, CopyIsCurrent
  <2>5. OwnerReady'
    BY <2>0, <1>8 DEF SaveResume, SaveFrom, Commit, IInv, TypeOK, PlacesOK, OwnerReady, WorkerReady, CommandReady, CopyIsCurrent, Collecting, Life!Collecting
  <2>6. LateOK'
    BY <2>0, <1>8 DEF SaveResume, SaveFrom, Commit, IInv, TypeOK, PlacesOK, LateOK
  <2> QED BY <2>1, <2>2, <2>3, <2>4, <2>5, <2>6 DEF IInv
<1>9. ASSUME NEW w \in Workers, SaveAbort(w) PROVE IInv'
  <2>0. ASSUME owner = w
        PROVE  run' \in Row /\ Sound(run', windowOpen)
    BY <1>9, <2>0, WorkerSaves, RowHandlers, WorkerHandlers DEF IInv, TypeOK, RowOK, Collecting
  <2>1. TypeOK'
    <3>1. CASE owner = w
      BY <2>0, <1>9, <3>1 DEF SaveAbort, SaveFrom, Commit, IInv, TypeOK, PlacesOK
    <3>2. CASE owner # w
      BY <1>9, <3>2 DEF SaveAbort, SaveFrom, Commit, IInv, TypeOK, PlacesOK
    <3> QED BY <3>1, <3>2
  <2>2. PlacesOK'
    BY <2>0, <1>9 DEF SaveAbort, SaveFrom, Commit, IInv, TypeOK, PlacesOK
  <2>3. RowOK'
    BY <2>0, <1>9 DEF SaveAbort, SaveFrom, Commit, IInv, RowOK
  <2>4. CopyIsCurrent'
    BY <2>0, <1>9 DEF SaveAbort, SaveFrom, Commit, IInv, TypeOK, PlacesOK, CopyIsCurrent
  <2>5. OwnerReady'
    BY <2>0, <1>9 DEF SaveAbort, SaveFrom, Commit, IInv, TypeOK, PlacesOK, OwnerReady, WorkerReady, CommandReady, CopyIsCurrent, Collecting, Life!Collecting
  <2>6. LateOK'
    BY <2>0, <1>9 DEF SaveAbort, SaveFrom, Commit, IInv, TypeOK, PlacesOK, LateOK
  <2> QED BY <2>1, <2>2, <2>3, <2>4, <2>5, <2>6 DEF IInv
<1>10. ASSUME NEW w \in Workers, SaveSegmentEnd(w) PROVE IInv'
  <2>0. ASSUME owner = w
        PROVE  run' \in Row /\ Sound(run', windowOpen) /\ ~Life!Collecting(run', windowOpen)
    BY <1>10, <2>0, WorkerSaves, RowHandlers, WorkerHandlers DEF IInv, TypeOK, RowOK, Collecting
  <2>1. TypeOK'
    <3>1. CASE owner = w
      BY <2>0, <1>10, <3>1 DEF SaveSegmentEnd, SaveFrom, Commit, IInv, TypeOK, PlacesOK
    <3>2. CASE owner # w
      BY <1>10, <3>2 DEF SaveSegmentEnd, SaveFrom, Commit, IInv, TypeOK, PlacesOK
    <3> QED BY <3>1, <3>2
  <2>2. PlacesOK'
    BY <2>0, <1>10 DEF SaveSegmentEnd, SaveFrom, Commit, IInv, TypeOK, PlacesOK
  <2>3. RowOK'
    BY <2>0, <1>10 DEF SaveSegmentEnd, SaveFrom, Commit, IInv, RowOK
  <2>4. CopyIsCurrent'
    BY <2>0, <1>10 DEF SaveSegmentEnd, SaveFrom, Commit, IInv, TypeOK, PlacesOK, CopyIsCurrent
  <2>5. OwnerReady'
    BY <2>0, <1>10 DEF SaveSegmentEnd, SaveFrom, Commit, IInv, TypeOK, PlacesOK, OwnerReady, WorkerReady, CommandReady, CopyIsCurrent, Collecting, Life!Collecting
  <2>6. LateOK'
    BY <2>0, <1>10 DEF SaveSegmentEnd, SaveFrom, Commit, IInv, TypeOK, PlacesOK, LateOK
  <2> QED BY <2>1, <2>2, <2>3, <2>4, <2>5, <2>6 DEF IInv
<1>11. ASSUME NEW w \in Workers, SaveStep(w) PROVE IInv'
  <2>0. ASSUME owner = w
        PROVE  run' \in Row /\ Sound(run', windowOpen) /\ ~Life!Collecting(run', windowOpen)
    BY <1>11, <2>0, WorkerSaves, StepHandler DEF IInv, TypeOK, RowOK, Collecting
  <2>1. TypeOK'
    <3>1. CASE owner = w
      BY <2>0, <1>11, <3>1 DEF SaveStep, SaveFrom, Commit, IInv, TypeOK, PlacesOK
    <3>2. CASE owner # w
      BY <1>11, <3>2 DEF SaveStep, SaveFrom, Commit, IInv, TypeOK, PlacesOK
    <3> QED BY <3>1, <3>2
  <2>2. PlacesOK'
    BY <2>0, <1>11 DEF SaveStep, SaveFrom, Commit, IInv, TypeOK, PlacesOK
  <2>3. RowOK'
    BY <2>0, <1>11 DEF SaveStep, SaveFrom, Commit, IInv, RowOK
  <2>4. CopyIsCurrent'
    BY <2>0, <1>11 DEF SaveStep, SaveFrom, Commit, IInv, TypeOK, PlacesOK, CopyIsCurrent
  <2>5. OwnerReady'
    BY <2>0, <1>11 DEF SaveStep, SaveFrom, Commit, IInv, TypeOK, PlacesOK, OwnerReady, WorkerReady, CommandReady, CopyIsCurrent, Collecting, Life!Collecting
  <2>6. LateOK'
    BY <2>0, <1>11 DEF SaveStep, SaveFrom, Commit, IInv, TypeOK, PlacesOK, LateOK
  <2> QED BY <2>1, <2>2, <2>3, <2>4, <2>5, <2>6 DEF IInv
<1>12. ASSUME NEW w \in Workers, SaveRedo(w) PROVE IInv'
  <2>0. ASSUME owner = w
        PROVE  run' \in Row /\ Sound(run', windowOpen) /\ ~Life!Collecting(run', windowOpen)
    BY <1>12, <2>0, WorkerSaves DEF IInv, TypeOK, RowOK, Collecting
  <2>1. TypeOK'
    <3>1. CASE owner = w
      BY <2>0, <1>12, <3>1 DEF SaveRedo, SaveFrom, Commit, IInv, TypeOK, PlacesOK
    <3>2. CASE owner # w
      BY <1>12, <3>2 DEF SaveRedo, SaveFrom, Commit, IInv, TypeOK, PlacesOK
    <3> QED BY <3>1, <3>2
  <2>2. PlacesOK'
    BY <2>0, <1>12 DEF SaveRedo, SaveFrom, Commit, IInv, TypeOK, PlacesOK
  <2>3. RowOK'
    BY <2>0, <1>12 DEF SaveRedo, SaveFrom, Commit, IInv, RowOK
  <2>4. CopyIsCurrent'
    BY <2>0, <1>12 DEF SaveRedo, SaveFrom, Commit, IInv, TypeOK, PlacesOK, CopyIsCurrent
  <2>5. OwnerReady'
    BY <2>0, <1>12 DEF SaveRedo, SaveFrom, Commit, IInv, TypeOK, PlacesOK, OwnerReady, WorkerReady, CommandReady, CopyIsCurrent, Collecting, Life!Collecting
  <2>6. LateOK'
    BY <2>0, <1>12 DEF SaveRedo, SaveFrom, Commit, IInv, TypeOK, PlacesOK, LateOK
  <2> QED BY <2>1, <2>2, <2>3, <2>4, <2>5, <2>6 DEF IInv
<1>13. ASSUME NEW w \in Workers, ReleaseRun(w) PROVE IInv'
  <2>1. TypeOK'
    BY <1>13 DEF ReleaseRun, Release, IInv, TypeOK, PlacesOK
  <2>2. PlacesOK'
    BY <1>13 DEF ReleaseRun, Release, IInv, TypeOK, PlacesOK
  <2>3. RowOK'
    BY <1>13 DEF ReleaseRun, Release, IInv, TypeOK, RowOK, Sound
  <2>4. CopyIsCurrent'
    BY <1>13 DEF ReleaseRun, Release, IInv, TypeOK, PlacesOK, CopyIsCurrent
  <2>5. OwnerReady'
    BY <1>13 DEF ReleaseRun, Release, IInv, TypeOK, PlacesOK, OwnerReady, WorkerReady, CommandReady, CopyIsCurrent, Collecting, Life!Collecting
  <2>6. LateOK'
    BY <1>13 DEF ReleaseRun, Release, IInv, TypeOK, PlacesOK, LateOK
  <2> QED BY <2>1, <2>2, <2>3, <2>4, <2>5, <2>6 DEF IInv
<1>14. ASSUME NEW w \in Workers, ReleaseRaised(w) PROVE IInv'
  <2>1. TypeOK'
    BY <1>14 DEF ReleaseRaised, Release, IInv, TypeOK, PlacesOK
  <2>2. PlacesOK'
    BY <1>14 DEF ReleaseRaised, Release, IInv, TypeOK, PlacesOK
  <2>3. RowOK'
    BY <1>14 DEF ReleaseRaised, Release, IInv, TypeOK, RowOK, Sound
  <2>4. CopyIsCurrent'
    BY <1>14 DEF ReleaseRaised, Release, IInv, TypeOK, PlacesOK, CopyIsCurrent
  <2>5. OwnerReady'
    BY <1>14 DEF ReleaseRaised, Release, IInv, TypeOK, PlacesOK, OwnerReady, WorkerReady, CommandReady, CopyIsCurrent, Collecting, Life!Collecting
  <2>6. LateOK'
    BY <1>14 DEF ReleaseRaised, Release, IInv, TypeOK, PlacesOK, LateOK
  <2> QED BY <2>1, <2>2, <2>3, <2>4, <2>5, <2>6 DEF IInv
<1>15. ASSUME NEW w \in Workers, Retake(w) PROVE IInv'
  <2>1. TypeOK'
    BY <1>15 DEF Retake, Acquire, IInv, TypeOK, PlacesOK
  <2>2. PlacesOK'
    BY <1>15 DEF Retake, Acquire, IInv, TypeOK, PlacesOK
  <2>3. RowOK'
    BY <1>15 DEF Retake, Acquire, IInv, TypeOK, RowOK, Sound
  <2>4. CopyIsCurrent'
    BY <1>15 DEF Retake, Acquire, IInv, TypeOK, PlacesOK, CopyIsCurrent
  <2>5. OwnerReady'
    BY <1>15 DEF Retake, Acquire, IInv, TypeOK, PlacesOK, OwnerReady, WorkerReady, CommandReady, CopyIsCurrent, Collecting, Life!Collecting
  <2>6. LateOK'
    BY <1>15 DEF Retake, Acquire, IInv, TypeOK, PlacesOK, LateOK
  <2> QED BY <2>1, <2>2, <2>3, <2>4, <2>5, <2>6 DEF IInv
<1>16. ASSUME NEW w \in Workers, Raise(w) PROVE IInv'
  <2>1. TypeOK'
    BY <1>16 DEF Raise, IInv, TypeOK, PlacesOK
  <2>2. PlacesOK'
    BY <1>16 DEF Raise, IInv, TypeOK, PlacesOK
  <2>3. RowOK'
    BY <1>16 DEF Raise, IInv, TypeOK, RowOK, Sound
  <2>4. CopyIsCurrent'
    BY <1>16 DEF Raise, IInv, TypeOK, PlacesOK, CopyIsCurrent
  <2>5. OwnerReady'
    BY <1>16 DEF Raise, IInv, TypeOK, PlacesOK, OwnerReady, WorkerReady, CommandReady, CopyIsCurrent, Collecting, Life!Collecting
  <2>6. LateOK'
    BY <1>16 DEF Raise, IInv, TypeOK, PlacesOK, LateOK
  <2> QED BY <2>1, <2>2, <2>3, <2>4, <2>5, <2>6 DEF IInv
<1>17. ASSUME NEW w \in Workers, StopBetweenSteps(w) PROVE IInv'
  <2>1. TypeOK'
    BY <1>17 DEF StopBetweenSteps, IInv, TypeOK, PlacesOK
  <2>2. PlacesOK'
    BY <1>17 DEF StopBetweenSteps, IInv, TypeOK, PlacesOK
  <2>3. RowOK'
    BY <1>17 DEF StopBetweenSteps, IInv, TypeOK, RowOK, Sound
  <2>4. CopyIsCurrent'
    BY <1>17 DEF StopBetweenSteps, IInv, TypeOK, PlacesOK, CopyIsCurrent
  <2>5. OwnerReady'
    BY <1>17 DEF StopBetweenSteps, IInv, TypeOK, PlacesOK, OwnerReady, WorkerReady, CommandReady, CopyIsCurrent, Collecting, Life!Collecting
  <2>6. LateOK'
    BY <1>17 DEF StopBetweenSteps, IInv, TypeOK, PlacesOK, LateOK
  <2> QED BY <2>1, <2>2, <2>3, <2>4, <2>5, <2>6 DEF IInv
<1>18. ASSUME NEW w \in Workers, Heartbeat(w) PROVE IInv'
  BY <1>18 DEF Heartbeat, Working, IInv, TypeOK, PlacesOK, RowOK, CopyIsCurrent, OwnerReady, WorkerReady, CommandReady, LateOK, Collecting, Life!Collecting
<1>19. ASSUME NEW c \in Commands, StartCommand(c) PROVE IInv'
  BY <1>19 DEF StartCommand, StartDecide, StartRework, StartAbort, IInv, TypeOK, PlacesOK, RowOK, CopyIsCurrent, OwnerReady, WorkerReady, CommandReady, LateOK, Collecting, Life!Collecting
<1>20. ASSUME NEW c \in Commands, CommandAcquire(c) PROVE IInv'
  <2>1. TypeOK'
    BY <1>20 DEF CommandAcquire, IInv, TypeOK, PlacesOK
  <2>2. PlacesOK'
    BY <1>20 DEF CommandAcquire, IInv, TypeOK, PlacesOK
  <2>3. RowOK'
    BY <1>20 DEF CommandAcquire, IInv, TypeOK, RowOK, Sound
  <2>4. CopyIsCurrent'
    BY <1>20 DEF CommandAcquire, IInv, TypeOK, PlacesOK, CopyIsCurrent
  <2>5. OwnerReady'
    BY <1>20 DEF CommandAcquire, IInv, TypeOK, PlacesOK, OwnerReady, WorkerReady, CommandReady, CopyIsCurrent, Collecting, Life!Collecting
  <2>6. LateOK'
    BY <1>20 DEF CommandAcquire, IInv, TypeOK, PlacesOK, LateOK
  <2> QED BY <2>1, <2>2, <2>3, <2>4, <2>5, <2>6 DEF IInv
<1>21. ASSUME NEW c \in Commands, CommandLoad(c) PROVE IInv'
  <2>1. TypeOK'
    BY <1>21 DEF CommandLoad, Accepts, IInv, TypeOK, PlacesOK
  <2>2. PlacesOK'
    BY <1>21 DEF CommandLoad, Accepts, IInv, TypeOK, PlacesOK
  <2>3. RowOK'
    BY <1>21 DEF CommandLoad, Accepts, IInv, TypeOK, RowOK, Sound
  <2>4. CopyIsCurrent'
    BY <1>21 DEF CommandLoad, Accepts, IInv, TypeOK, PlacesOK, CopyIsCurrent
  <2>5. OwnerReady'
    <3>1. ASSUME NEW v \in Workers, owner = v PROVE WorkerReady(v)'
      BY <1>21, <3>1 DEF CommandLoad, Accepts, IInv, TypeOK, PlacesOK, OwnerReady, WorkerReady, CommandReady, CopyIsCurrent, Collecting, Life!Collecting
    <3>2. ASSUME NEW d \in Commands, owner = d PROVE CommandReady(d)'
      <4>1. Collecting => run.progress = "run" /\ run.cycle = "fresh"
        BY DEF IInv, TypeOK, Row, RowOK, Sound, Collecting, Life!Collecting
      <4> QED BY <1>21, <3>2, <4>1 DEF CommandLoad, Accepts, IInv, TypeOK, PlacesOK,
                OwnerReady, CommandReady
    <3> QED BY <1>21, <3>1, <3>2 DEF CommandLoad, OwnerReady
  <2>6. LateOK'
    BY <1>21 DEF CommandLoad, Accepts, IInv, TypeOK, PlacesOK, LateOK
  <2> QED BY <2>1, <2>2, <2>3, <2>4, <2>5, <2>6 DEF IInv
<1>22. ASSUME NEW c \in Commands, CommandSave(c) PROVE IInv'
  <2>0. ASSUME owner = c PROVE run' \in Row /\ Sound(run', windowOpen')
    <3>1. CASE c \in Deciders
      BY <1>22, <2>0, <3>1, CommandSaves, RowHandlers, CommandHandlers
         DEF IInv, TypeOK, RowOK, Sound
    <3>2. CASE c \in Reworkers
      BY <1>22, <2>0, <3>2, CommandSaves, RowHandlers, CommandHandlers
         DEF IInv, TypeOK, RowOK, Sound
    <3>3. CASE c \in Aborters
      <4>1. windowOpen' = windowOpen
        BY <1>22, <3>3 DEF CommandSave
      <4> QED BY <1>22, <2>0, <3>3, <4>1, CommandSaves, RowHandlers, WorkerHandlers
            DEF IInv, TypeOK, RowOK
    <3> QED BY <3>1, <3>2, <3>3
  <2>1. TypeOK'
    <3>1. CASE owner = c
      BY <2>0, <1>22, <3>1 DEF CommandSave, Commit, Rows, IInv, TypeOK, PlacesOK
    <3>2. CASE owner # c
      BY <1>22, <3>2 DEF CommandSave, Commit, Rows, IInv, TypeOK, PlacesOK
    <3> QED BY <3>1, <3>2
  <2>2. PlacesOK'
    BY <2>0, <1>22 DEF CommandSave, Commit, Rows, IInv, TypeOK, PlacesOK
  <2>3. RowOK'
    BY <2>0, <1>22 DEF CommandSave, Commit, Rows, IInv, RowOK
  <2>4. CopyIsCurrent'
    BY <2>0, <1>22 DEF CommandSave, Commit, Rows, IInv, TypeOK, PlacesOK, CopyIsCurrent
  <2>5. OwnerReady'
    BY <2>0, <1>22 DEF CommandSave, Commit, Rows, IInv, TypeOK, PlacesOK, OwnerReady, WorkerReady, CommandReady, CopyIsCurrent, Collecting, Life!Collecting
  <2>6. LateOK'
    BY <2>0, <1>22 DEF CommandSave, Commit, Rows, IInv, TypeOK, PlacesOK, LateOK
  <2> QED BY <2>1, <2>2, <2>3, <2>4, <2>5, <2>6 DEF IInv
<1>23. ASSUME NEW c \in Commands, CommandReject(c) PROVE IInv'
  <2>1. TypeOK'
    BY <1>23 DEF CommandReject, IInv, TypeOK, PlacesOK
  <2>2. PlacesOK'
    BY <1>23 DEF CommandReject, IInv, TypeOK, PlacesOK
  <2>3. RowOK'
    BY <1>23 DEF CommandReject, IInv, TypeOK, RowOK, Sound
  <2>4. CopyIsCurrent'
    BY <1>23 DEF CommandReject, IInv, TypeOK, PlacesOK, CopyIsCurrent
  <2>5. OwnerReady'
    BY <1>23 DEF CommandReject, IInv, TypeOK, PlacesOK, OwnerReady, WorkerReady, CommandReady, CopyIsCurrent, Collecting, Life!Collecting
  <2>6. LateOK'
    BY <1>23 DEF CommandReject, IInv, TypeOK, PlacesOK, LateOK
  <2> QED BY <2>1, <2>2, <2>3, <2>4, <2>5, <2>6 DEF IInv
<1>24. ASSUME NEW c \in Commands, CommandRelease(c) PROVE IInv'
  <2>1. TypeOK'
    BY <1>24 DEF CommandRelease, Release, IInv, TypeOK, PlacesOK
  <2>2. PlacesOK'
    BY <1>24 DEF CommandRelease, Release, IInv, TypeOK, PlacesOK
  <2>3. RowOK'
    BY <1>24 DEF CommandRelease, Release, IInv, TypeOK, RowOK, Sound
  <2>4. CopyIsCurrent'
    BY <1>24 DEF CommandRelease, Release, IInv, TypeOK, PlacesOK, CopyIsCurrent
  <2>5. OwnerReady'
    BY <1>24 DEF CommandRelease, Release, IInv, TypeOK, PlacesOK, OwnerReady, WorkerReady, CommandReady, CopyIsCurrent, Collecting, Life!Collecting
  <2>6. LateOK'
    BY <1>24 DEF CommandRelease, Release, IInv, TypeOK, PlacesOK, LateOK
  <2> QED BY <2>1, <2>2, <2>3, <2>4, <2>5, <2>6 DEF IInv
<1>25. ASSUME NEW c \in Commands, RequestAbort(c) PROVE IInv'
  BY <1>25 DEF RequestAbort, IInv, TypeOK, PlacesOK, RowOK, CopyIsCurrent, OwnerReady, WorkerReady, CommandReady, LateOK, Collecting, Life!Collecting
<1>26. ASSUME NEW a \in Actors, Crash(a) PROVE IInv'
  BY <1>26 DEF Crash, IInv, TypeOK, PlacesOK, RowOK, CopyIsCurrent, OwnerReady, WorkerReady, CommandReady, LateOK, Collecting, Life!Collecting
<1>27. CASE CloseWindow
  <2>1. TypeOK' /\ PlacesOK' /\ CopyIsCurrent' /\ LateOK'
    BY <1>27 DEF CloseWindow, IInv, TypeOK, PlacesOK, CopyIsCurrent, LateOK
  <2>2. RowOK'
    BY <1>27 DEF CloseWindow, IInv, RowOK, Sound
  <2>3. OwnerReady'
    BY <1>27 DEF CloseWindow, IInv, OwnerReady, WorkerReady, CommandReady, Collecting,
         Life!Collecting
  <2> QED BY <2>1, <2>2, <2>3 DEF IInv
<1>28. CASE Expire
  BY <1>28 DEF Expire, IInv, TypeOK, PlacesOK, RowOK, CopyIsCurrent, OwnerReady, WorkerReady, CommandReady, LateOK, Collecting, Life!Collecting
<1>29. CASE MissRenewals
  <2>1. TypeOK'
    <3>1. faults' \in 0..MaxFaults
      BY <1>29 DEF MissRenewals, IInv, TypeOK
    <3> QED BY <1>29, <3>1 DEF MissRenewals, IInv, TypeOK
  <2>2. PlacesOK'
    BY <1>29 DEF MissRenewals, IInv, TypeOK, PlacesOK
  <2>3. RowOK'
    BY <1>29 DEF MissRenewals, IInv, TypeOK, RowOK, Sound
  <2>4. CopyIsCurrent'
    BY <1>29 DEF MissRenewals, IInv, TypeOK, PlacesOK, CopyIsCurrent
  <2>5. OwnerReady'
    BY <1>29 DEF MissRenewals, IInv, TypeOK, PlacesOK, OwnerReady, WorkerReady, CommandReady, CopyIsCurrent, Collecting, Life!Collecting
  <2>6. LateOK'
    BY <1>29 DEF MissRenewals, IInv, TypeOK, PlacesOK, LateOK
  <2> QED BY <2>1, <2>2, <2>3, <2>4, <2>5, <2>6 DEF IInv
<1>30. CASE UNCHANGED vars
  BY <1>30 DEF vars, IInv, TypeOK, PlacesOK, RowOK, CopyIsCurrent, OwnerReady, WorkerReady, CommandReady, LateOK, Collecting
<1> QED BY <1>1, <1>2, <1>3, <1>4, <1>5, <1>6, <1>7, <1>8, <1>9, <1>10, <1>11, <1>12, <1>13, <1>14, <1>15, <1>16, <1>17, <1>18, <1>19, <1>20, <1>21, <1>22, <1>23, <1>24, <1>25, <1>26, <1>27, <1>28, <1>29, <1>30 DEF Next, WorkerStep, CommandStep
LEMMA Invariant == Spec => []IInv
BY InitInvariant, StepInvariant, PTL DEF Spec

-----------------------------------------------------------------------------
(* The theorems *)

\* Type correctness of the run, the lease, the actors and the observer.
THEOREM TypeCorrect == Spec => []TypeOK
<1>1. IInv => TypeOK
  BY DEF IInv
<1> QED BY <1>1, Invariant, PTL

\* Whoever the row names saves over exactly what it loaded: commit's owner
\* check is enough, without comparing the expiry.
THEOREM CopyCurrent == Spec => []CopyIsCurrent
<1>1. IInv => CopyIsCurrent
  BY DEF IInv
<1> QED BY <1>1, Invariant, PTL

\* At most one step is saved after the abort was requested.
THEOREM LateStep == Spec => []AtMostOneLateStep
<1>1. IInv => AtMostOneLateStep
  BY DEF IInv, LateOK, AtMostOneLateStep
<1> QED BY <1>1, Invariant, PTL
\* RunLife and RunLease share the handlers of RunModel.
LEMMA SameHandlers ==
  ASSUME NEW r
  PROVE  /\ Life!ActiveProgress = ActiveProgress
         /\ Life!AfterStep(r) = AfterStep(r) /\ Life!AfterQueueEmpty(r) = AfterQueueEmpty(r)
         /\ Life!AfterResume(r) = AfterResume(r) /\ Life!AfterAbort(r) = AfterAbort(r)
         /\ Life!AfterCommand(r) = AfterCommand(r) /\ Life!AfterRework(r) = AfterRework(r)
<1>1. Life!ActiveProgress = ActiveProgress
  BY DEF Life!ActiveProgress, ActiveProgress
<1>2. Life!AfterResume(r) = AfterResume(r)
  BY DEF Life!AfterResume, AfterResume
<1>3. Life!AfterAbort(r) = AfterAbort(r)
  BY DEF Life!AfterAbort, AfterAbort, Life!Ended, Ended
<1>4. Life!AfterQueueEmpty(r) = AfterQueueEmpty(r)
  BY DEF Life!AfterQueueEmpty, AfterQueueEmpty, Life!Waiting, Waiting, Life!NewRow, NewRow,
         Life!Ended, Ended
<1>5. Life!AfterCommand(r) = AfterCommand(r) /\ Life!AfterRework(r) = AfterRework(r)
  BY DEF Life!AfterCommand, AfterCommand, Life!AfterRework, AfterRework, Life!Enqueued, Enqueued
<1>6. Life!AfterStep(r) = AfterStep(r)
  <2>1. Life!AfterOk(r) = AfterOk(r)
    BY DEF Life!AfterOk, AfterOk, Life!Stepped, Stepped, Life!Worked, Worked
  <2>2. Life!AfterExhausted(r) = AfterExhausted(r)
    BY DEF Life!AfterExhausted, AfterExhausted, Life!Worked, Worked
  <2>3. Life!AfterFail(r) = AfterFail(r)
    BY DEF Life!AfterFail, AfterFail, Life!Ended, Ended, Life!NewRow, NewRow
  <2>4. Life!AfterRescue(r) = AfterRescue(r)
    BY DEF Life!AfterRescue, AfterRescue, Life!Waiting, Waiting, Life!NewRow, NewRow
  <2> QED BY <2>1, <2>2, <2>3, <2>4 DEF Life!AfterStep, AfterStep
<1> QED BY <1>1, <1>2, <1>3, <1>4, <1>5, <1>6

\* Each step of the concurrent system is a step of the sequential life of
\* the run, or leaves the row, the abort request and the window alone.
LEMMA StepRefines == IInv /\ [Next]_vars => [Life!Next]_Life!lifeVars
<1> SUFFICES ASSUME IInv, Next PROVE Life!Next \/ UNCHANGED Life!lifeVars
  BY DEF vars, Life!lifeVars
<1> DEFINE Quiet == UNCHANGED Life!lifeVars
<1> USE DEF Life!lifeVars
<1>1. ASSUME NEW w \in Workers, WorkerStep(w) \/ SaveRedo(w) \/ Raise(w)
                                  \/ StopBetweenSteps(w) \/ Heartbeat(w)
      PROVE  Life!Next \/ Quiet
  <2>1. ASSUME SaveResume(w) PROVE Life!Resume \/ Quiet
    <3>1. CASE owner = w
      BY <2>1, <3>1, WorkerSaves, SameHandlers DEF SaveResume, SaveFrom, Life!Resume, Collecting, ActiveProgress
    <3>2. CASE owner # w
      BY <2>1, <3>2 DEF SaveResume, SaveFrom, Commit
    <3> QED BY <3>1, <3>2
  <2>2. ASSUME SaveAbort(w) PROVE Life!Abort \/ Quiet
    <3>1. CASE owner = w
      BY <2>2, <3>1, WorkerSaves, SameHandlers DEF SaveAbort, SaveFrom, Life!Abort, Collecting, ActiveProgress
    <3>2. CASE owner # w
      BY <2>2, <3>2 DEF SaveAbort, SaveFrom, Commit
    <3> QED BY <3>1, <3>2
  <2>3. ASSUME SaveSegmentEnd(w) PROVE Life!QueueEmpty \/ Quiet
    <3>1. CASE owner = w
      BY <2>3, <3>1, WorkerSaves, SameHandlers DEF SaveSegmentEnd, SaveFrom, Life!QueueEmpty, Collecting, ActiveProgress
    <3>2. CASE owner # w
      BY <2>3, <3>2 DEF SaveSegmentEnd, SaveFrom, Commit
    <3> QED BY <3>1, <3>2
  <2>4. ASSUME SaveStep(w) PROVE Life!Step \/ Quiet
    <3>1. CASE owner = w
      BY <2>4, <3>1, WorkerSaves, SameHandlers DEF SaveStep, SaveFrom, Life!Step, Collecting, ActiveProgress
    <3>2. CASE owner # w
      BY <2>4, <3>2 DEF SaveStep, SaveFrom, Commit
    <3> QED BY <3>1, <3>2
  <2>5. ASSUME SaveRedo(w) PROVE Quiet
    <3>1. CASE owner = w
      BY <2>5, <3>1, WorkerSaves DEF SaveRedo, SaveFrom
    <3>2. CASE owner # w
      BY <2>5, <3>2 DEF SaveRedo, SaveFrom, Commit
    <3> QED BY <3>1, <3>2
  <2>6. ASSUME \/ ClaimReadyRun(w) \/ ClaimDueResume(w) \/ AcquireToAdvance(w)
               \/ AcquireToResume(w) \/ Retake(w)
        PROVE  Quiet
    BY <2>6 DEF ClaimReadyRun, ClaimDueResume, Claim, AcquireToAdvance, AcquireToResume, Retake,
                Acquire
  <2>7. ASSUME \/ LoadToAdvance(w) \/ LoadToResume(w) \/ DrainTop(w) \/ ReleaseRun(w)
               \/ ReleaseRaised(w) \/ Raise(w) \/ StopBetweenSteps(w) \/ Heartbeat(w)
        PROVE  Quiet
    BY <2>7 DEF LoadToAdvance, LoadToResume, Load, DrainTop, ReleaseRun, ReleaseRaised, Release,
                Raise, StopBetweenSteps, Heartbeat
  <2> QED BY <1>1, <2>1, <2>2, <2>3, <2>4, <2>5, <2>6, <2>7 DEF WorkerStep, Life!Next
<1>2. ASSUME NEW c \in Commands, StartCommand(c) \/ CommandStep(c)
      PROVE  Life!Next \/ Quiet
  <2>1. ASSUME CommandSave(c) PROVE Life!Next \/ Quiet
    <3>1. CASE owner # c
      BY <2>1, <3>1 DEF CommandSave, Commit
    <3>2. CASE owner = c /\ c \in Deciders
      <4>1. UNCHANGED <<abortRequested, windowOpen>>
        <5>1. c \notin Reworkers
          BY <3>2, Constants
        <5> QED BY <2>1, <5>1 DEF CommandSave
      <4> QED BY <2>1, <3>2, <4>1, CommandSaves, SameHandlers DEF Life!Command, Life!Next
    <3>3. CASE owner = c /\ c \in Reworkers
      <4>1. UNCHANGED abortRequested
        BY <2>1 DEF CommandSave
      <4>2. copy[c] = run
        BY <2>1, <3>3, CommandSaves
      <4>3. run.progress = "user_wait" => windowOpen' \in BOOLEAN
        BY <2>1, <3>3, <4>2 DEF CommandSave
      <4> QED BY <2>1, <3>3, <4>1, <4>3, CommandSaves, SameHandlers DEF Life!Rework, Life!Next
    <3>4. CASE owner = c /\ c \in Aborters
      <4>1. UNCHANGED <<abortRequested, windowOpen>>
        <5>1. c \notin Reworkers
          BY <3>4, Constants
        <5> QED BY <2>1, <5>1 DEF CommandSave
      <4> QED BY <2>1, <3>4, <4>1, CommandSaves, SameHandlers DEF Life!Abort, Life!Next
    <3> QED BY <3>1, <3>2, <3>3, <3>4, Constants
  <2>2. ASSUME RequestAbort(c) PROVE Life!RequestAbort
    BY <2>2 DEF RequestAbort, Life!RequestAbort
  <2>3. ASSUME \/ StartCommand(c) \/ CommandAcquire(c) \/ CommandLoad(c) \/ CommandReject(c)
               \/ CommandRelease(c)
        PROVE  Quiet
    BY <2>3 DEF StartCommand, CommandAcquire, CommandLoad, CommandReject, CommandRelease, Release
  <2> QED BY <1>2, <2>1, <2>2, <2>3 DEF CommandStep, Life!Next
<1>3. ASSUME NEW a \in Actors, Crash(a) PROVE Quiet
  BY <1>3 DEF Crash
<1>4. CASE CloseWindow
  BY <1>4 DEF CloseWindow, Life!CloseWindow, Life!Next
<1>5. CASE Expire \/ MissRenewals
  BY <1>5 DEF Expire, MissRenewals
<1> QED BY <1>1, <1>2, <1>3, <1>4, <1>5 DEF Next

\* The concurrent system implements the sequential life of a run: whatever
\* the interleaving, each saved row is one handler applied to the last one.
THEOREM ImplementsLife == Spec => LifeSpec
<1>1. Init => Life!Init
  BY DEF Init, Life!Init, NewRow, Life!NewRow
<1> QED BY <1>1, Invariant, StepRefines, PTL DEF Spec, LifeSpec, Life!Spec

\* No actor brings a finished run back or changes it.
THEOREM FinalRunStays == Spec => FinalStays
<1>1. Life!Next /\ run.progress \in FinalProgress => run' = run
  BY DEF Life!Next, Life!Step, Life!QueueEmpty, Life!Resume, Life!Abort, Life!RequestAbort,
         Life!Command, Life!Rework, Life!CloseWindow, Life!ActiveProgress, FinalProgress,
         ActiveProgress, Progress
<1>2. IInv /\ [Next]_vars => [run.progress \in FinalProgress => run' = run]_vars
  BY <1>1, StepRefines DEF vars, Life!lifeVars
<1> QED BY <1>2, Invariant, PTL DEF Spec, FinalStays

\* No step of a rework cycle is saved while requests may still join it.
THEOREM NoEarlyWork == Spec => NoWorkWhileCollecting
<1> DEFINE Quiet == run.cycle # "none" /\ run'.cycle = "worked" => ~Collecting
<1>1. ASSUME IInv, Life!Next PROVE Quiet
  <2>1. Sound(run, windowOpen) /\ run \in Row
    BY <1>1 DEF IInv, TypeOK, RowOK
  <2>2. CASE Life!Step
    BY <2>2 DEF Life!Step, Collecting
  <2>3. CASE Life!Rework
    <3>1. run.progress = "user_wait" \/ (run.progress = "run" /\ run.cycle = "fresh")
      BY <2>3 DEF Life!Rework
    <3>2. run' \in AfterRework(run)
      BY <2>3, SameHandlers DEF Life!Rework
    <3> QED BY <2>1, <3>1, <3>2, CommandHandlers
  <2>4. CASE Life!RequestAbort \/ Life!CloseWindow
    BY <2>1, <2>4 DEF Life!RequestAbort, Life!CloseWindow, Sound, Collecting, Life!Collecting
  <2>5. CASE Life!QueueEmpty
    <3>1. ~Life!Collecting(run, windowOpen) \/ run'.cycle = "none"
      BY <2>5, SameHandlers DEF Life!QueueEmpty, AfterQueueEmpty, Waiting, NewRow, Ended
    <3> QED BY <3>1 DEF Collecting
  <2>6. CASE Life!Resume \/ Life!Command
    BY <2>6 DEF Life!Resume, Life!Command, Collecting, Life!Collecting
  <2>7. CASE Life!Abort
    BY <2>7, SameHandlers DEF Life!Abort, AfterAbort, Ended
  <2> QED BY <1>1, <2>2, <2>3, <2>4, <2>5, <2>6, <2>7 DEF Life!Next
<1>2. IInv /\ UNCHANGED Life!lifeVars => Quiet
  BY DEF IInv, RowOK, Sound, Life!lifeVars, Collecting, Life!Collecting
<1>3. IInv /\ [Next]_vars => [Quiet]_vars
  BY <1>1, <1>2, StepRefines
<1> QED BY <1>3, Invariant, PTL DEF Spec, NoWorkWhileCollecting
=============================================================================
