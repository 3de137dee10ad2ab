------------------------ MODULE RetentionJob_proofs ------------------------
(***************************************************************************)
(* What RetentionJob guarantees for any runs, workers, withdrawals and     *)
(* users, any page size and any number of visits and faults.               *)
(***************************************************************************)
EXTENDS RetentionJob, FiniteSetTheorems, TLAPS

-----------------------------------------------------------------------------
(* Types *)

\* A mover in a run has one.
Sound(t) == t \in Thread /\ (t.at \in {"load", "look", "gather", "retire"} => t.run \in Runs)

MoversSound == DOMAIN mover = Movers /\ mover = [m \in Movers |-> mover[m]] /\ \A m \in Movers : Sound(mover[m])

Typed == TypeOK /\ MoversSound

\* The changes a step makes to what a mover remembers leave it sound.
LEMMA ThreadTypes ==
  ASSUME NEW t, Sound(t)
  PROVE  /\ \A x \in {"batch", "run", "release", "requests", "finish"} : Sound([t EXCEPT !.at = x])
         /\ \A q \in SUBSET Runs : Sound([t EXCEPT !.at = "run", !.queue = q])
         /\ \A r \in Runs : Sound([t EXCEPT !.owed = @ \ {r}]) /\ Sound([t EXCEPT !.old = @ \ {r}, !.owed = @ \ {r}])
         /\ Sound([t EXCEPT !.owed = {}])
<1>1. \A x \in {"batch", "run", "release", "requests", "finish"} : Sound([t EXCEPT !.at = x]) BY DEF Sound, Thread
<1>2. \A q \in SUBSET Runs : Sound([t EXCEPT !.at = "run", !.queue = q]) BY DEF Sound, Thread
<1>3. \A r \in Runs : Sound([t EXCEPT !.owed = @ \ {r}]) BY DEF Sound, Thread
<1>4. \A r \in Runs : Sound([t EXCEPT !.old = @ \ {r}, !.owed = @ \ {r}]) BY DEF Sound, Thread
<1>5. Sound([t EXCEPT !.owed = {}]) BY DEF Sound, Thread
<1> QED BY <1>1, <1>2, <1>3, <1>4, <1>5

\* So do the steps of a run and of the requests.
LEMMA StepTypes ==
  ASSUME NEW t, Sound(t)
  PROVE  /\ t.run \in Runs =>
              /\ \A x \in {"look", "gather"}, p \in Nat : Sound([t EXCEPT !.at = x, !.part = p])
              /\ \A g \in BOOLEAN : Sound([t EXCEPT !.at = "gather", !.gone = g])
              /\ \A c \in Nat : Sound([t EXCEPT !.at = "retire", !.count = c])
              /\ Sound([t EXCEPT !.at = "release", !.skipped = @ \cup {t.run}])
         /\ Sound([t EXCEPT !.at = "run", !.run = NoRun])
         /\ Sound([t EXCEPT !.at = "run", !.run = NoRun, !.count = 0, !.part = 0, !.gone = FALSE])
         /\ \A q \in SUBSET Requests : Sound([t EXCEPT !.at = "count", !.asked = q])
         /\ Sound([t EXCEPT !.at = "requests", !.asked = {}])
         /\ Sound([t EXCEPT !.at = "requests", !.asked = {}, !.failed = @ \cup t.asked])
<1>1. ASSUME t.run \in Runs
      PROVE  /\ \A x \in {"look", "gather"}, p \in Nat : Sound([t EXCEPT !.at = x, !.part = p])
             /\ \A g \in BOOLEAN : Sound([t EXCEPT !.at = "gather", !.gone = g])
             /\ \A c \in Nat : Sound([t EXCEPT !.at = "retire", !.count = c])
             /\ Sound([t EXCEPT !.at = "release", !.skipped = @ \cup {t.run}])
  <2>1. \A x \in {"look", "gather"}, p \in Nat : Sound([t EXCEPT !.at = x, !.part = p]) BY <1>1 DEF Sound, Thread
  <2>2. \A g \in BOOLEAN : Sound([t EXCEPT !.at = "gather", !.gone = g]) BY <1>1 DEF Sound, Thread
  <2>3. \A c \in Nat : Sound([t EXCEPT !.at = "retire", !.count = c]) BY <1>1 DEF Sound, Thread
  <2>4. Sound([t EXCEPT !.at = "release", !.skipped = @ \cup {t.run}]) BY <1>1 DEF Sound, Thread
  <2> QED BY <2>1, <2>2, <2>3, <2>4
<1>2. Sound([t EXCEPT !.at = "run", !.run = NoRun]) BY DEF Sound, Thread
<1>3. Sound([t EXCEPT !.at = "run", !.run = NoRun, !.count = 0, !.part = 0, !.gone = FALSE]) BY DEF Sound, Thread
<1>4. \A q \in SUBSET Requests : Sound([t EXCEPT !.at = "count", !.asked = q]) BY DEF Sound, Thread
<1>5. Sound([t EXCEPT !.at = "requests", !.asked = {}]) BY DEF Sound, Thread
<1>6. Sound([t EXCEPT !.at = "requests", !.asked = {}, !.failed = @ \cup t.asked]) BY DEF Sound, Thread
<1> QED BY <1>1, <1>2, <1>3, <1>4, <1>5, <1>6

\* A run that is taken from the queue.
LEMMA TakenTypes ==
  ASSUME NEW t, Sound(t), t.at = "run", NEW r \in Runs
  PROVE  /\ LET u == [t EXCEPT !.queue = @ \ {r}, !.seen = @ \cup {r}]
            IN  Sound([u EXCEPT !.at = "load", !.run = r]) /\ Sound([u EXCEPT !.skipped = @ \cup {r}])
         /\ LET u == [t EXCEPT !.queue = @ \ {r}]
            IN  Sound([u EXCEPT !.at = "load", !.run = r]) /\ Sound(u)
<1> DEFINE u == [t EXCEPT !.queue = @ \ {r}, !.seen = @ \cup {r}]
           v == [t EXCEPT !.queue = @ \ {r}]
<1>1. u \in Thread /\ u.at = "run" /\ v \in Thread /\ v.at = "run" BY DEF Sound, Thread
<1> HIDE DEF u, v
<1>2. Sound([u EXCEPT !.at = "load", !.run = r]) BY <1>1 DEF Sound, Thread
<1>3. Sound([u EXCEPT !.skipped = @ \cup {r}]) BY <1>1 DEF Sound, Thread
<1>4. Sound([v EXCEPT !.at = "load", !.run = r]) BY <1>1 DEF Sound, Thread
<1>5. Sound(v) BY <1>1 DEF Sound
<1> QED BY <1>2, <1>3, <1>4, <1>5 DEF u, v

LEMMA IdleSound == Sound(Idle)
BY DEF Sound, Idle, Thread

LEMMA FirstsInside ==
  ASSUME NEW S, NEW n, NEW T \in Firsts(S, n) PROVE T \subseteq S
BY DEF Firsts

\* Movers stay sound when one of them changes, or when all of them forget a run.
LEMMA OneMoves ==
  ASSUME MoversSound, NEW m \in Movers, NEW t, Sound(t), mover' = [mover EXCEPT ![m] = t]
  PROVE  MoversSound'
BY DEF MoversSound

LEMMA OneTakes ==
  ASSUME MoversSound, NEW m \in Movers, NEW t, Sound(t), NEW r \in Runs, mover' = Takes(m, t, r)
  PROVE  MoversSound'
<1>1. \A n \in Movers : Sound([mover[n] EXCEPT !.owed = @ \ {r}]) BY ThreadTypes DEF MoversSound
<1>2. mover' = [n \in Movers |-> IF n = m THEN t ELSE [mover[n] EXCEPT !.owed = @ \ {r}]] BY DEF Takes
<1> HIDE DEF Takes
<1> QED BY <1>1, <1>2 DEF MoversSound

\* Every step keeps the movers sound.
LEMMA NextMovers == Typed /\ [Next]_vars => MoversSound'
<1> SUFFICES ASSUME Typed, [Next]_vars PROVE MoversSound' OBVIOUS
<1>m. MoversSound /\ \A m \in Movers : Sound(mover[m]) /\ mover[m] \in Thread BY DEF Typed, MoversSound, Sound
<1>w. Workers \subseteq Movers /\ Withdrawals \subseteq Movers BY DEF Movers
<1>u. ASSUME UNCHANGED mover PROVE MoversSound' BY <1>m, <1>u DEF MoversSound
<1>i. ASSUME NEW m \in Movers, mover' = [mover EXCEPT ![m] = Idle] PROVE MoversSound'
  BY <1>m, <1>i, OneMoves, IdleSound
<1>a. ASSUME NEW m \in Movers, NEW x \in {"batch", "run", "release", "requests", "finish"}, Move(m, x)
      PROVE  MoversSound'
  <2>1. Sound([mover[m] EXCEPT !.at = x]) BY <1>m, ThreadTypes
  <2>2. mover' = [mover EXCEPT ![m] = [mover[m] EXCEPT !.at = x]] BY <1>a DEF Move
  <2> QED BY <1>m, <2>1, <2>2, OneMoves
<1>s. ASSUME NEW m \in Movers, mover[m].at \in {"load", "look", "gather", "retire"}, Skip(m) PROVE MoversSound'
  <2> DEFINE t == [mover[m] EXCEPT !.at = "release", !.skipped = @ \cup {mover[m].run}]
  <2>1. mover' = [mover EXCEPT ![m] = t] BY <1>s DEF Skip
  <2>2. Sound(t)
    <3>1. mover[m].run \in Runs BY <1>m, <1>s DEF Sound
    <3> QED BY <1>m, <3>1, StepTypes
  <2> QED BY <1>m, <2>1, <2>2, OneMoves
<1>1. ASSUME NEW w \in Workers, StartJob(w) PROVE MoversSound'
  <2> DEFINE t == [Idle EXCEPT !.at = "batch", !.old = aged, !.owed = Targets(aged)]
  <2>1. aged \subseteq Runs /\ Targets(aged) \subseteq Runs BY DEF Typed, TypeOK, Targets
  <2>2. Sound(t) BY <2>1 DEF Sound, Idle, Thread
  <2>3. mover' = [mover EXCEPT ![w] = t] BY <1>1 DEF StartJob
  <2> QED BY <1>m, <1>w, <2>2, <2>3, OneMoves
<1>2. ASSUME NEW w \in Workers, NextBatch(w) PROVE MoversSound'
  <2>1. PICK page \in Firsts(Targets(mover[w].old), Page(mover[w].skipped)) :
          LET new == page \ mover[w].seen IN
          IF new = {} THEN Move(w, "requests")
          ELSE \E q \in Firsts(new, BatchSize) : mover' = [mover EXCEPT ![w].at = "run", ![w].queue = q]
    BY <1>2 DEF NextBatch
  <2>2. CASE page \ mover[w].seen = {} BY <1>a, <1>w, <2>1, <2>2
  <2>3. CASE page \ mover[w].seen # {}
    <3>1. PICK q \in Firsts(page \ mover[w].seen, BatchSize) : mover' = [mover EXCEPT ![w].at = "run", ![w].queue = q]
      BY <2>1, <2>3
    <3>2. q \in SUBSET Runs BY <2>1, <3>1, FirstsInside DEF Targets, Typed, TypeOK
    <3> DEFINE t == [mover[w] EXCEPT !.at = "run", !.queue = q]
    <3>3. Sound(t) BY <1>m, <1>w, <3>2, ThreadTypes
    <3>4. mover' = [mover EXCEPT ![w] = t] BY <3>1
    <3> QED BY <1>m, <1>w, <3>3, <3>4, OneMoves
  <2> QED BY <2>2, <2>3
<1>3. ASSUME NEW w \in Workers, AcquireRun(w) PROVE MoversSound'
  <2>1. PICK r \in mover[w].queue :
          LET t == [mover[w] EXCEPT !.queue = @ \ {r}, !.seen = @ \cup {r}] IN
          IF FreeFor(w, r) THEN mover' = Takes(w, [t EXCEPT !.at = "load", !.run = r], r)
          ELSE mover' = [mover EXCEPT ![w] = [t EXCEPT !.skipped = @ \cup {r}]]
    BY <1>3 DEF AcquireRun
  <2> DEFINE t == [mover[w] EXCEPT !.queue = @ \ {r}, !.seen = @ \cup {r}]
  <2>2. r \in Runs BY <1>m, <1>w, <2>1 DEF Thread
  <2>3. w \in Movers /\ mover[w].at = "run" BY <1>w, <1>3 DEF AcquireRun, At
  <2>4. Sound([t EXCEPT !.at = "load", !.run = r]) BY <1>m, <2>2, <2>3, TakenTypes
  <2>5. Sound([t EXCEPT !.skipped = @ \cup {r}]) BY <1>m, <2>2, <2>3, TakenTypes
  <2>6. CASE FreeFor(w, r) BY <1>m, <1>w, <2>1, <2>2, <2>4, <2>6, OneTakes
  <2>7. CASE ~FreeFor(w, r) BY <1>m, <1>w, <2>1, <2>5, <2>7, OneMoves
  <2> QED BY <2>6, <2>7
<1>4. ASSUME NEW w \in Workers, LoadRun(w) PROVE MoversSound'
  <2> DEFINE r == mover[w].run
             t == [mover[w] EXCEPT !.at = "look", !.part = parts[r] + 1]
  <2>1. CASE r \in present /\ Rests(w, r)
    <3>1. r \in Runs /\ parts[r] + 1 \in Nat BY <2>1 DEF Typed, TypeOK
    <3>0. w \in Movers /\ Sound(mover[w]) BY <1>m, <1>w
    <3>4. mover[w].run \in Runs BY <3>1
    <3>2. Sound(t) BY <3>0, <3>1, <3>4, StepTypes
    <3>3. mover' = [mover EXCEPT ![w] = t] BY <1>4, <2>1 DEF LoadRun
    <3> QED BY <1>m, <1>w, <3>2, <3>3, OneMoves
  <2>2. CASE ~(r \in present /\ Rests(w, r)) BY <1>4, <1>s, <1>w, <2>2 DEF LoadRun, At
  <2> QED BY <2>1, <2>2
<1>5. ASSUME NEW w \in Workers, LookAtPointers(w) PROVE MoversSound'
  <2> DEFINE t == [mover[w] EXCEPT !.at = "gather", !.gone = mover[w].run \notin pointers]
  <2>0. mover[w].run \in Runs BY <1>m, <1>w, <1>5 DEF Sound, LookAtPointers, At
  <2>1. Sound(t) BY <1>m, <1>w, <2>0, StepTypes
  <2>2. mover' = [mover EXCEPT ![w] = t] BY <1>5 DEF LookAtPointers
  <2> QED BY <1>m, <1>w, <2>1, <2>2, OneMoves
<1>6. ASSUME NEW m \in Movers, Gather(m) PROVE MoversSound'
  <2> DEFINE t == [mover[m] EXCEPT !.at = "retire", !.count = records[mover[m].run]]
  <2>1. mover[m].run \in Runs /\ mover[m].at = "gather" BY <1>m, <1>6 DEF Gather, At, Sound
  <2>2. records[mover[m].run] \in Nat BY <2>1 DEF Typed, TypeOK
  <2>3. Sound(t) BY <1>m, <2>1, <2>2, StepTypes
  <2>4. CASE mover' = [mover EXCEPT ![m] = t] BY <1>m, <2>3, <2>4, OneMoves
  <2>5. CASE Skip(m) BY <1>s, <2>1, <2>5
  <2> QED BY <1>6, <2>4, <2>5 DEF Gather
<1>7. ASSUME NEW w \in Workers, Retire(w) PROVE MoversSound'
  <2> DEFINE r == mover[w].run
             t == [mover[w] EXCEPT !.at = "release"]
  <2>1. r \in Runs /\ mover[w].at = "retire" BY <1>m, <1>w, <1>7 DEF Retire, At, Sound
  <2>2. Sound(t) BY <1>m, <1>w, ThreadTypes
  <2>3. CASE mover' = Takes(w, t, r) BY <1>m, <1>w, <2>1, <2>2, <2>3, OneTakes
  <2>4. CASE Skip(w) BY <1>s, <1>w, <2>1, <2>4
  <2> QED BY <1>7, <2>3, <2>4 DEF Retire
<1>8. ASSUME NEW w \in Workers, Release(w) PROVE MoversSound'
  <2> DEFINE t == [mover[w] EXCEPT !.at = "run", !.run = NoRun, !.count = 0, !.part = 0, !.gone = FALSE]
  <2>1. Sound(t) BY <1>m, <1>w, StepTypes
  <2>2. mover' = [mover EXCEPT ![w] = t] BY <1>8 DEF Release
  <2> QED BY <1>m, <1>w, <2>1, <2>2, OneMoves
<1>9. ASSUME NEW w \in Workers, NextRequests(w) PROVE MoversSound'
  <2>1. PICK page \in Firsts(requests, BatchSize + Cardinality(mover[w].failed)) :
          IF page \subseteq mover[w].failed THEN Move(w, "finish")
          ELSE \E q \in Firsts(page \ mover[w].failed, BatchSize) : mover' = [mover EXCEPT ![w].at = "count", ![w].asked = q]
    BY <1>9 DEF NextRequests
  <2>2. CASE page \subseteq mover[w].failed BY <1>a, <1>w, <2>1, <2>2
  <2>3. CASE ~(page \subseteq mover[w].failed)
    <3>1. PICK q \in Firsts(page \ mover[w].failed, BatchSize) : mover' = [mover EXCEPT ![w].at = "count", ![w].asked = q]
      BY <2>1, <2>3
    <3>2. q \in SUBSET Requests BY <2>1, <3>1, FirstsInside DEF Typed, TypeOK
    <3> DEFINE t == [mover[w] EXCEPT !.at = "count", !.asked = q]
    <3>3. Sound(t) BY <1>m, <1>w, <3>2, StepTypes
    <3>4. mover' = [mover EXCEPT ![w] = t] BY <3>1
    <3> QED BY <1>m, <1>w, <3>3, <3>4, OneMoves
  <2> QED BY <2>2, <2>3
<1>10. ASSUME NEW w \in Workers, RetireRequests(w) PROVE MoversSound'
  <2> DEFINE q == mover[w].asked
             t == [mover[w] EXCEPT !.at = "requests", !.asked = {}]
             u == [mover[w] EXCEPT !.at = "requests", !.asked = {}, !.failed = @ \cup q]
  <2>2. Sound(t) BY <1>m, <1>w, StepTypes
  <2>3. Sound(u) BY <1>m, <1>w, StepTypes
  <2>4. mover' = [mover EXCEPT ![w] = t] \/ mover' = [mover EXCEPT ![w] = u] BY <1>10 DEF RetireRequests
  <2> QED BY <1>m, <1>w, <2>2, <2>3, <2>4, OneMoves
<1>11. ASSUME NEW u \in Users, NEW r \in Runs, Visit(u, r) PROVE MoversSound'
  <2>1. \A n \in Movers : Sound([mover[n] EXCEPT !.owed = @ \ {r}]) BY <1>m, ThreadTypes
  <2> QED BY <1>11, <2>1 DEF Visit, MoversSound
<1>12. ASSUME NEW u \in Users, Save(u) PROVE MoversSound'
  <2> DEFINE r == visitor[u]
  <2>1. CASE Holds(u, r)
    <3>1. r \in Runs BY <2>1 DEF Holds, Typed, TypeOK
    <3>2. \A n \in Movers : Sound([mover[n] EXCEPT !.old = @ \ {r}, !.owed = @ \ {r}]) BY <1>m, <3>1, ThreadTypes
    <3>3. mover' = [n \in Movers |-> [mover[n] EXCEPT !.old = @ \ {r}, !.owed = @ \ {r}]] BY <1>12, <2>1 DEF Save
    <3> QED BY <3>2, <3>3 DEF MoversSound
  <2>2. CASE ~Holds(u, r) BY <1>12, <1>u, <2>2 DEF Save
  <2> QED BY <2>1, <2>2
<1>13. ASSUME NEW r \in Runs, DeleteArtifacts(r) PROVE MoversSound'
  <2>1. \A n \in Movers : Sound([mover[n] EXCEPT !.owed = {}]) BY <1>m, ThreadTypes
  <2> QED BY <1>m, <1>13, <2>1 DEF DeleteArtifacts, MoversSound
<1>14. ASSUME NEW x \in Withdrawals, BeginWithdrawal(x) PROVE MoversSound'
  <2> DEFINE t == [Idle EXCEPT !.at = "run", !.queue = present, !.gone = TRUE]
  <2>1. Sound(t) BY DEF Sound, Idle, Thread, Typed, TypeOK
  <2>2. mover' = [mover EXCEPT ![x] = t] BY <1>14 DEF BeginWithdrawal
  <2> QED BY <1>m, <1>w, <2>1, <2>2, OneMoves
<1>15. ASSUME NEW x \in Withdrawals, WithdrawRun(x) PROVE MoversSound'
  <2>1. PICK r \in mover[x].queue :
          LET t == [mover[x] EXCEPT !.queue = @ \ {r}] IN
          IF FreeFor(x, r) THEN mover' = Takes(x, [t EXCEPT !.at = "load", !.run = r], r)
          ELSE mover' = [mover EXCEPT ![x] = IF r \in present THEN Idle ELSE t]
    BY <1>15 DEF WithdrawRun
  <2> DEFINE t == [mover[x] EXCEPT !.queue = @ \ {r}]
  <2>2. r \in Runs BY <1>m, <1>w, <2>1 DEF Thread
  <2>3. x \in Movers /\ mover[x].at = "run" BY <1>w, <1>15 DEF WithdrawRun, At
  <2>4. Sound([t EXCEPT !.at = "load", !.run = r]) BY <1>m, <2>2, <2>3, TakenTypes
  <2>5. Sound(t) BY <1>m, <2>2, <2>3, TakenTypes
  <2>6. CASE FreeFor(x, r) BY <1>m, <1>w, <2>1, <2>2, <2>4, <2>6, OneTakes
  <2>7. CASE ~FreeFor(x, r) BY <1>m, <1>w, <2>1, <2>5, <2>7, OneMoves, IdleSound
  <2> QED BY <2>6, <2>7
<1>16. ASSUME NEW x \in Withdrawals, WithdrawLoad(x) PROVE MoversSound'
  <2> DEFINE r == mover[x].run
             t == [mover[x] EXCEPT !.at = "gather", !.part = parts[r] + 1]
             u == [mover[x] EXCEPT !.at = "run", !.run = NoRun]
  <2>1. r \in Runs /\ parts[r] + 1 \in Nat
    <3>1. r \in Runs BY <1>m, <1>w, <1>16 DEF WithdrawLoad, At, Sound
    <3> QED BY <3>1 DEF Typed, TypeOK
  <2>2. Sound(t) BY <1>m, <1>w, <2>1, StepTypes
  <2>3. Sound(u) BY <1>m, <1>w, StepTypes
  <2>4. mover' = [mover EXCEPT ![x] = t] \/ mover' = [mover EXCEPT ![x] = u] \/ mover' = [mover EXCEPT ![x] = Idle]
    BY <1>16 DEF WithdrawLoad
  <2> QED BY <1>m, <1>w, <2>2, <2>3, <2>4, OneMoves, IdleSound
<1>17. ASSUME NEW x \in Withdrawals, WithdrawRetire(x) PROVE MoversSound'
  <2> DEFINE r == mover[x].run
             t == [mover[x] EXCEPT !.at = "run", !.run = NoRun]
  <2>1. r \in Runs BY <1>m, <1>w, <1>17 DEF WithdrawRetire, At, Sound
  <2>2. Sound(t) BY <1>m, <1>w, StepTypes
  <2>3. mover' = Takes(x, t, r) \/ mover' = [mover EXCEPT ![x] = Idle] BY <1>17 DEF WithdrawRetire
  <2> QED BY <1>m, <1>w, <1>i, <2>1, <2>2, <2>3, OneTakes
<1>18. ASSUME NEW x \in Withdrawals, WithdrawRequests(x) PROVE MoversSound'
  <2> DEFINE t == [mover[x] EXCEPT !.at = "count", !.asked = requests]
  <2>1. requests \in SUBSET Requests BY DEF Typed, TypeOK
  <2>2. Sound(t) BY <1>m, <1>w, <2>1, StepTypes
  <2>3. mover' = [mover EXCEPT ![x] = t] BY <1>18 DEF WithdrawRequests
  <2> QED BY <1>m, <1>w, <2>2, <2>3, OneMoves
<1>19. ASSUME NEW w \in Workers, JobLost(w) \/ FinishJob(w) \/ ReleaseJob(w) PROVE MoversSound'
  BY <1>19, <1>i, <1>w DEF JobLost, FinishJob, ReleaseJob
<1>20. ASSUME NEW m \in Movers, Crash(m) \/ WithdrawCount(m) PROVE MoversSound'
  BY <1>20, <1>i DEF Crash, WithdrawCount
<1>21. ASSUME NEW w \in Workers, EndBatch(w) PROVE MoversSound' BY <1>21, <1>a, <1>w DEF EndBatch
<1>22. ASSUME NEW w \in Workers, FailRun(w) PROVE MoversSound' BY <1>22, <1>s, <1>w DEF FailRun, At
<1>23. ASSUME NEW w \in Workers, RenewJob(w) PROVE MoversSound' BY <1>23, <1>u DEF RenewJob
<1>24. ASSUME NEW r \in Runs, Age(r) \/ ExpireRun(r) PROVE MoversSound' BY <1>24, <1>u DEF Age, ExpireRun
<1>25. CASE ExpireJob \/ NextDay \/ UNCHANGED vars BY <1>25, <1>u DEF ExpireJob, NextDay, vars
<1> QED BY <1>1, <1>2, <1>3, <1>4, <1>5, <1>6, <1>7, <1>8, <1>9, <1>10, <1>11, <1>12, <1>13, <1>14, <1>15, <1>16,
           <1>17, <1>18, <1>19, <1>20, <1>21, <1>22, <1>23, <1>24, <1>25, <1>w
        DEF Next, JobStep, WithdrawalStep

\* The database and the job keep their types.
RowsTyped ==
  /\ present \subseteq Runs /\ busy \subseteq present /\ aged \subseteq Runs /\ pointers \subseteq present
  /\ records \in [Runs -> Nat] /\ written \in [Runs -> Nat] /\ parts \in [Runs -> Nat]
  /\ lines \in [Runs -> Seq(Nat)] /\ moved \in [Runs -> Nat]
RestTyped ==
  /\ requests \subseteq Requests /\ counted \in [Requests -> Nat]
  /\ job \in [owner : Workers \cup {Nobody}, live : BOOLEAN, due : BOOLEAN]
  /\ visitor \in [Users -> Runs \cup {NoRun}]
  /\ visits \in 0..MaxVisits /\ faults \in 0..MaxFaults
LeasesTyped == lease \in [Runs -> Owners \cup {Nobody}] /\ live \subseteq present

LEMMA RetireTypes ==
  ASSUME Typed, NEW m \in Movers, NEW r \in Runs, RetireRun(m, r)
  PROVE  RowsTyped' /\ LeasesTyped'
<1> DEFINE t == mover[m]
<1>1. t.count \in Nat /\ t.part \in Nat /\ t.gone \in BOOLEAN BY DEF Typed, TypeOK, Thread
<1>2. RowsTyped /\ LeasesTyped BY DEF Typed, TypeOK, RowsTyped, LeasesTyped
<1>3. records' \in [Runs -> Nat] /\ moved' \in [Runs -> Nat]
  <2>1. records' = [records EXCEPT ![r] = 0] /\ moved' = [moved EXCEPT ![r] = @ + t.count] BY DEF RetireRun, MoveRecords
  <2>2. moved[r] + t.count \in Nat BY <1>1, <1>2 DEF RowsTyped
  <2> QED BY <1>2, <2>1, <2>2 DEF RowsTyped
<1>4. lines' \in [Runs -> Seq(Nat)]
  <2>1. Append(lines[r], t.part) \in Seq(Nat) BY <1>1, <1>2 DEF RowsTyped
  <2> QED BY <1>2, <2>1 DEF RetireRun, MoveRecords, RowsTyped
<1>5. CASE t.gone BY <1>2, <1>3, <1>4, <1>5 DEF RetireRun, DeleteRow, RowsTyped, LeasesTyped
<1>6. CASE ~t.gone
  <2>1. Bump(r, t.count) /\ UNCHANGED <<aged, written>> BY <1>6 DEF RetireRun
  <2>2. parts' \in [Runs -> Nat] BY <1>2, <2>1 DEF Bump, RowsTyped
  <2>3. UNCHANGED <<present, pointers, busy, lease, live>> BY <2>1 DEF Bump, leaseVars
  <2> QED BY <1>2, <1>3, <1>4, <2>1, <2>2, <2>3 DEF RowsTyped, LeasesTyped
<1> QED BY <1>5, <1>6

LEMMA NextRows == Typed /\ [Next]_vars => RowsTyped' /\ LeasesTyped' /\ RestTyped'
<1> SUFFICES ASSUME Typed, [Next]_vars PROVE RowsTyped' /\ LeasesTyped' /\ RestTyped' OBVIOUS
<1>t. RowsTyped /\ LeasesTyped /\ RestTyped BY DEF Typed, TypeOK, RowsTyped, LeasesTyped, RestTyped
<1>m. \A m \in Movers : Sound(mover[m]) /\ mover[m] \in Thread BY DEF Typed, MoversSound, Sound
<1>w. Workers \subseteq Movers /\ Withdrawals \subseteq Movers /\ Movers \subseteq Owners /\ Users \subseteq Owners
  BY DEF Movers, Owners
<1>r. UNCHANGED rowVars => RowsTyped' BY <1>t DEF RowsTyped, rowVars
<1>l. UNCHANGED <<rowVars, leaseVars>> => LeasesTyped' BY <1>t DEF LeasesTyped, rowVars, leaseVars
<1>q. UNCHANGED <<requestVars, job, visitor, bounds>> => RestTyped' BY <1>t DEF RestTyped, requestVars, bounds
<1>f. Fault => visits' \in 0..MaxVisits /\ faults' \in 0..MaxFaults
  BY <1>t, RetentionAssumption DEF Fault, RestTyped, RetentionAssumption
<1>c. ASSUME NEW m \in Owners, NEW r \in Runs, ReleaseRun(m, r), UNCHANGED present PROVE LeasesTyped'
  BY <1>t, <1>c DEF ReleaseRun, LeasesTyped, leaseVars
<1>a. ASSUME NEW m \in Owners, NEW r, FreeFor(m, r), lease' = [lease EXCEPT ![r] = m], live' = live \cup {r},
             UNCHANGED present
      PROVE  LeasesTyped'
  BY <1>t, <1>a DEF FreeFor, LeasesTyped
<1>1. ASSUME NEW w \in Workers, StartJob(w) \/ RenewJob(w) \/ FinishJob(w)
      PROVE  RowsTyped' /\ LeasesTyped' /\ RestTyped'
  <2>1. UNCHANGED <<rowVars, leaseVars, requestVars, visitor, bounds>> BY <1>1 DEF StartJob, RenewJob, FinishJob
  <2>2. job' \in [owner : Workers \cup {Nobody}, live : BOOLEAN, due : BOOLEAN]
    <3>1. job \in [owner : Workers \cup {Nobody}, live : BOOLEAN, due : BOOLEAN] BY <1>t DEF RestTyped
    <3>2. [job EXCEPT !.owner = w, !.live = TRUE] \in [owner : Workers \cup {Nobody}, live : BOOLEAN, due : BOOLEAN]
      BY <3>1
    <3>3. [job EXCEPT !.live = TRUE] \in [owner : Workers \cup {Nobody}, live : BOOLEAN, due : BOOLEAN] BY <3>1
    <3>4. [owner |-> Nobody, live |-> FALSE, due |-> FALSE] \in [owner : Workers \cup {Nobody}, live : BOOLEAN, due : BOOLEAN]
      OBVIOUS
    <3>5. \/ job' = [job EXCEPT !.owner = w, !.live = TRUE] \/ job' = [job EXCEPT !.live = TRUE]
          \/ job' = [owner |-> Nobody, live |-> FALSE, due |-> FALSE] \/ job' = job
      BY <1>1 DEF StartJob, RenewJob, FinishJob
    <3> QED BY <3>1, <3>2, <3>3, <3>4, <3>5
  <2>3. RowsTyped' /\ LeasesTyped' BY <1>r, <1>l, <2>1
  <2>4. UNCHANGED <<requests, counted, visitor, visits, faults>> BY <2>1 DEF requestVars, bounds
  <2> QED BY <1>t, <2>2, <2>3, <2>4 DEF RestTyped
<1>2. ASSUME NEW w \in Workers, NextBatch(w) \/ JobLost(w) \/ EndBatch(w) \/ LoadRun(w) \/ LookAtPointers(w) \/ NextRequests(w)
      PROVE  RowsTyped' /\ LeasesTyped' /\ RestTyped'
  BY <1>2, <1>r, <1>l, <1>q DEF NextBatch, JobLost, EndBatch, LoadRun, LookAtPointers, NextRequests
<1>3. ASSUME NEW m \in Movers, Gather(m) PROVE RowsTyped' /\ LeasesTyped' /\ RestTyped'
  BY <1>3, <1>r, <1>l, <1>q DEF Gather
<1>4. ASSUME NEW w \in Workers, AcquireRun(w) PROVE RowsTyped' /\ LeasesTyped' /\ RestTyped'
  <2>1. RowsTyped' /\ RestTyped' BY <1>4, <1>r, <1>q DEF AcquireRun
  <2>2. UNCHANGED present BY <1>4 DEF AcquireRun, rowVars
  <2>3. LeasesTyped' BY <1>4, <1>a, <1>l, <1>w, <2>2 DEF AcquireRun
  <2> QED BY <2>1, <2>3
<1>5. ASSUME NEW w \in Workers, Retire(w) PROVE RowsTyped' /\ LeasesTyped' /\ RestTyped'
  <2>1. mover[w].run \in Runs BY <1>5, <1>m, <1>w DEF Retire, At, Sound
  <2>2. RestTyped' BY <1>5, <1>q DEF Retire
  <2>3. RowsTyped' /\ LeasesTyped' BY <1>5, <1>r, <1>l, <1>w, <2>1, RetireTypes DEF Retire
  <2> QED BY <2>2, <2>3
<1>6. ASSUME NEW w \in Workers, Release(w) PROVE RowsTyped' /\ LeasesTyped' /\ RestTyped'
  <2>1. RowsTyped' /\ RestTyped' /\ UNCHANGED present BY <1>6, <1>r, <1>q DEF Release, rowVars
  <2>2. CASE mover[w].run \in Runs BY <1>6, <1>c, <1>w, <2>1, <2>2 DEF Release
  <2>3. CASE mover[w].run \notin Runs
    <3>1. lease' = lease \/ lease' = [lease EXCEPT ![mover[w].run] = Nobody] BY <1>6 DEF Release, ReleaseRun, leaseVars
    <3>2. lease' \in [Runs -> Owners \cup {Nobody}] BY <1>t, <2>3, <3>1 DEF LeasesTyped
    <3>3. live' \subseteq live BY <1>6 DEF Release, ReleaseRun, leaseVars
    <3> QED BY <1>t, <2>1, <3>2, <3>3 DEF LeasesTyped
  <2> QED BY <2>1, <2>2, <2>3
<1>7. ASSUME NEW m \in Movers, RetireRequests(m) \/ WithdrawCount(m) PROVE RowsTyped' /\ LeasesTyped' /\ RestTyped'
  <2>1. RowsTyped' /\ LeasesTyped' BY <1>7, <1>r, <1>l DEF RetireRequests, WithdrawCount
  <2>2. UNCHANGED requestVars \/ CountRequests(mover[m].asked) BY <1>7 DEF RetireRequests, WithdrawCount
  <2>3. requests' \subseteq Requests /\ counted' \in [Requests -> Nat]
    BY <1>t, <2>2 DEF CountRequests, requestVars, RestTyped
  <2> QED BY <1>7, <1>t, <2>1, <2>3 DEF RetireRequests, WithdrawCount, RestTyped, bounds
<1>8. ASSUME NEW w \in Workers, ReleaseJob(w) \/ FailRun(w) PROVE RowsTyped' /\ LeasesTyped' /\ RestTyped'
  BY <1>8, <1>t, <1>r, <1>l, <1>f DEF ReleaseJob, FailRun, RestTyped, requestVars
<1>9. ASSUME NEW m \in Movers, Crash(m) PROVE RowsTyped' /\ LeasesTyped' /\ RestTyped'
  BY <1>9, <1>t, <1>r, <1>l, <1>f DEF Crash, RestTyped, requestVars
<1>10. CASE ExpireJob
  BY <1>10, <1>t, <1>r, <1>l, <1>f DEF ExpireJob, RestTyped, requestVars, bounds
<1>11. CASE NextDay
  BY <1>11, <1>t, <1>r, <1>l DEF NextDay, RestTyped, requestVars, bounds
<1>12. ASSUME NEW r \in Runs, Age(r) \/ ExpireRun(r) \/ DeleteArtifacts(r) PROVE RowsTyped' /\ LeasesTyped' /\ RestTyped'
  BY <1>12, <1>t, <1>q DEF Age, ExpireRun, DeleteArtifacts, RowsTyped, LeasesTyped, rowVars, leaseVars
<1>13. ASSUME NEW u \in Users, NEW r \in Runs, Visit(u, r) PROVE RowsTyped' /\ LeasesTyped' /\ RestTyped'
  <2>1. RowsTyped' /\ UNCHANGED present BY <1>13, <1>r DEF Visit, rowVars
  <2>2. LeasesTyped' BY <1>13, <1>a, <1>w, <2>1 DEF Visit
  <2>3. RestTyped' BY <1>13, <1>t, RetentionAssumption DEF Visit, RestTyped, requestVars, RetentionAssumption
  <2> QED BY <2>1, <2>2, <2>3
<1>14. ASSUME NEW u \in Users, Save(u) PROVE RowsTyped' /\ LeasesTyped' /\ RestTyped'
  <2> DEFINE r == visitor[u]
  <2>1. r \in Runs /\ UNCHANGED present BY <1>14, <1>t DEF Save, RestTyped, rowVars
  <2>2. LeasesTyped' BY <1>14, <1>c, <1>w, <2>1 DEF Save
  <2>3. RestTyped' BY <1>14, <1>t DEF Save, RestTyped, requestVars, bounds
  <2>4. CASE ~Holds(u, r) BY <1>14, <1>r, <2>2, <2>3, <2>4 DEF Save
  <2>5. CASE Holds(u, r)
    <3>1. r \in present BY <2>5 DEF Holds
    <3>2. /\ records' = [records EXCEPT ![r] = @ + 1] /\ written' = [written EXCEPT ![r] = @ + 1]
          /\ busy' \in {busy \ {r}, busy \cup {r}} /\ pointers' \in {pointers, pointers \cup {r}}
          /\ aged' = aged \ {r} /\ UNCHANGED <<present, parts, lines, moved>>
      BY <1>14, <2>5 DEF Save
    <3>3. records' \in [Runs -> Nat] /\ written' \in [Runs -> Nat] BY <1>t, <2>1, <3>2 DEF RowsTyped
    <3>4. busy' \subseteq present' /\ pointers' \subseteq present' /\ aged' \subseteq Runs
      BY <1>t, <3>1, <3>2 DEF RowsTyped
    <3> QED BY <1>t, <2>2, <2>3, <3>2, <3>3, <3>4 DEF RowsTyped
  <2> QED BY <2>4, <2>5
<1>15. ASSUME NEW x \in Withdrawals, BeginWithdrawal(x) PROVE RowsTyped' /\ LeasesTyped' /\ RestTyped'
  BY <1>15, <1>t, <1>r, <1>l, RetentionAssumption DEF BeginWithdrawal, RestTyped, requestVars, RetentionAssumption
<1>16. ASSUME NEW x \in Withdrawals, WithdrawRun(x) PROVE RowsTyped' /\ LeasesTyped' /\ RestTyped'
  <2>1. RowsTyped' /\ RestTyped' BY <1>16, <1>r, <1>q DEF WithdrawRun
  <2>2. UNCHANGED present BY <1>16 DEF WithdrawRun, rowVars
  <2>3. LeasesTyped' BY <1>16, <1>a, <1>l, <1>w, <2>2 DEF WithdrawRun
  <2> QED BY <2>1, <2>3
<1>17. ASSUME NEW x \in Withdrawals, WithdrawLoad(x) PROVE RowsTyped' /\ LeasesTyped' /\ RestTyped'
  <2>1. RowsTyped' /\ RestTyped' /\ UNCHANGED present BY <1>17, <1>r, <1>q DEF WithdrawLoad, rowVars
  <2>2. mover[x].run \in Runs BY <1>17, <1>m, <1>w DEF WithdrawLoad, At, Sound
  <2>3. LeasesTyped' BY <1>17, <1>c, <1>l, <1>w, <2>1, <2>2 DEF WithdrawLoad
  <2> QED BY <2>1, <2>3
<1>18. ASSUME NEW x \in Withdrawals, WithdrawRetire(x) PROVE RowsTyped' /\ LeasesTyped' /\ RestTyped'
  <2>1. mover[x].run \in Runs BY <1>18, <1>m, <1>w DEF WithdrawRetire, At, Sound
  <2>2. RestTyped' BY <1>18, <1>q DEF WithdrawRetire
  <2>3. RowsTyped' /\ LeasesTyped' BY <1>18, <1>r, <1>l, <1>w, <2>1, RetireTypes DEF WithdrawRetire
  <2> QED BY <2>2, <2>3
<1>19. ASSUME NEW x \in Withdrawals, WithdrawRequests(x) PROVE RowsTyped' /\ LeasesTyped' /\ RestTyped'
  BY <1>19, <1>r, <1>l, <1>q DEF WithdrawRequests
<1>20. CASE UNCHANGED vars BY <1>20, <1>r, <1>l, <1>q DEF vars
<1> QED BY <1>1, <1>2, <1>3, <1>4, <1>5, <1>6, <1>7, <1>8, <1>9, <1>10, <1>11, <1>12, <1>13, <1>14, <1>15, <1>16,
           <1>17, <1>18, <1>19, <1>20, <1>w
        DEF Next, JobStep, WithdrawalStep

LEMMA InitTyped == Init => Typed
<1> SUFFICES ASSUME Init PROVE Typed OBVIOUS
<1>1. RowsTyped /\ LeasesTyped BY DEF Init, RowsTyped, LeasesTyped
<1>2. RestTyped BY RetentionAssumption DEF Init, RestTyped, RetentionAssumption
<1>3. MoversSound BY IdleSound DEF Init, MoversSound
<1> QED BY <1>1, <1>2, <1>3 DEF Typed, TypeOK, RowsTyped, LeasesTyped, RestTyped, MoversSound, Sound

LEMMA NextTyped == Typed /\ [Next]_vars => Typed'
<1> SUFFICES ASSUME Typed, [Next]_vars PROVE Typed' OBVIOUS
<1>1. RowsTyped' /\ LeasesTyped' /\ RestTyped' BY NextRows
<1>2. MoversSound' BY NextMovers
<1> QED BY <1>1, <1>2 DEF Typed, TypeOK, RowsTyped, LeasesTyped, RestTyped, MoversSound, Sound

\* Every variable keeps its type, and who is in a run has one (models/run.py, flow/retention.py).
THEOREM TypeCorrect == Spec => []TypeOK
<1>1. Init => Typed BY InitTyped
<1>2. Typed /\ [Next]_vars => Typed' BY NextTyped
<1>3. Typed => TypeOK BY DEF Typed
<1> QED BY <1>1, <1>2, <1>3, PTL DEF Spec

-----------------------------------------------------------------------------
(* Every record is counted once *)

\* What a mover that still has its lease has read is what there is: nobody adds or
\* takes a record without the lease.
Fresh == \A m \in Movers : At(m, "retire") /\ lease[mover[m].run] = m => mover[m].count = records[mover[m].run]

CountInv == Typed /\ Fresh /\ RecordsCountedOnce

\* A transaction that moves the records of a run keeps the account of them.
LEMMA RetireCounts ==
  ASSUME CountInv, NEW m \in Movers, At(m, "retire"), Holds(m, mover[m].run), RetireRun(m, mover[m].run),
         UNCHANGED requestVars
  PROVE  RecordsCountedOnce'
<1> DEFINE r == mover[m].run
           n == mover[m].count
<1>1. r \in Runs /\ n = records[r] /\ n \in Nat
  <2>1. Sound(mover[m]) BY DEF CountInv, Typed, MoversSound
  <2> QED BY <2>1 DEF CountInv, Sound, Thread, At, Fresh, Holds
<1>2. records \in [Runs -> Nat] /\ moved \in [Runs -> Nat] /\ written \in [Runs -> Nat] BY DEF CountInv, Typed, TypeOK
<1>3. moved' = [moved EXCEPT ![r] = @ + n] /\ records' = [records EXCEPT ![r] = 0] /\ UNCHANGED written
  BY DEF RetireRun, MoveRecords
<1>4. present' \subseteq present /\ (present \ present') \subseteq {r} BY DEF RetireRun, DeleteRow, Bump
<1>5. \A s \in Runs : written'[s] = records'[s] + moved'[s] /\ (s \notin present' => records'[s] = 0)
  <2> SUFFICES ASSUME NEW s \in Runs PROVE written'[s] = records'[s] + moved'[s] /\ (s \notin present' => records'[s] = 0)
    OBVIOUS
  <2>1. written[s] = records[s] + moved[s] /\ (s \notin present => records[s] = 0) BY DEF CountInv, RecordsCountedOnce
  <2>2. CASE s = r BY <1>1, <1>2, <1>3, <2>1, <2>2
  <2>3. CASE s # r BY <1>2, <1>3, <1>4, <2>1, <2>3
  <2> QED BY <2>2, <2>3
<1> QED BY <1>5 DEF CountInv, RecordsCountedOnce, requestVars

\* A step of m after which m moves no records, and in which the others stay where they are.
Stays(m) ==
  /\ \A n \in Movers : mover'[n].at = "retire" =>
       n # m /\ mover[n].at = "retire" /\ mover'[n].run = mover[n].run /\ mover'[n].count = mover[n].count

LEMMA SetStays ==
  ASSUME Typed, NEW m \in Movers, NEW t, t.at # "retire", mover' = [mover EXCEPT ![m] = t]
  PROVE  Stays(m)
BY DEF Stays, Typed, MoversSound

LEMMA TakesStays ==
  ASSUME Typed, NEW m \in Movers, NEW t, t.at # "retire", NEW r \in Runs, mover' = Takes(m, t, r)
  PROVE  Stays(m)
<1>1. \A n \in Movers \ {m} : mover'[n] = [mover[n] EXCEPT !.owed = @ \ {r}] BY DEF Takes
<1>2. \A n \in Movers : mover[n] \in Thread BY DEF Typed, MoversSound, Sound
<1>3. \A n \in Movers \ {m} : mover'[n].at = mover[n].at /\ mover'[n].run = mover[n].run /\ mover'[n].count = mover[n].count
  BY <1>1, <1>2 DEF Thread
<1>4. mover'[m].at # "retire" BY DEF Takes
<1> QED BY <1>3, <1>4 DEF Stays

LEMMA FreshKept ==
  ASSUME CountInv, NEW m, Stays(m),
         \A n \in Movers, r \in Runs : n # m /\ lease'[r] = n => lease[r] = n /\ records'[r] = records[r]
  PROVE  Fresh'
<1>1. \A n \in Movers : Sound(mover[n]) BY DEF CountInv, Typed, MoversSound
<1> QED BY <1>1 DEF Fresh, Stays, Sound, At, CountInv

\* Every step that only moves one mover on, and neither takes a lease from another nor
\* touches records.
LEMMA PlainStays ==
  ASSUME Typed, NEW m \in Movers,
         \/ StartJob(m) \/ NextBatch(m) \/ JobLost(m) \/ EndBatch(m) \/ LoadRun(m) \/ LookAtPointers(m)
         \/ Release(m) \/ NextRequests(m) \/ RetireRequests(m) \/ FinishJob(m) \/ ReleaseJob(m)
         \/ FailRun(m) \/ Crash(m) \/ BeginWithdrawal(m) \/ WithdrawLoad(m) \/ WithdrawRequests(m) \/ WithdrawCount(m)
  PROVE  Stays(m)
<1>t. mover[m] \in Thread /\ Idle.at = "idle" BY DEF Typed, MoversSound, Sound, Idle
<1>m. \A x \in {"batch", "run", "requests", "finish"} : Move(m, x) => Stays(m)
  <2>1. \A x \in {"batch", "run", "requests", "finish"} : [mover[m] EXCEPT !.at = x].at # "retire" BY <1>t DEF Thread
  <2> QED BY <2>1, SetStays DEF Move
<1>i. mover' = [mover EXCEPT ![m] = Idle] => Stays(m) BY <1>t, SetStays
<1>s. Skip(m) => Stays(m)
  <2> DEFINE t == [mover[m] EXCEPT !.at = "release", !.skipped = @ \cup {mover[m].run}]
  <2>1. t.at # "retire" BY <1>t DEF Thread
  <2>2. Skip(m) => mover' = [mover EXCEPT ![m] = t] BY DEF Skip
  <2> QED BY <2>1, <2>2, SetStays
<1>1. CASE StartJob(m)
  <2> DEFINE t == [Idle EXCEPT !.at = "batch", !.old = aged, !.owed = Targets(aged)]
  <2>1. t.at # "retire" BY DEF Idle
  <2>2. mover' = [mover EXCEPT ![m] = t] BY <1>1 DEF StartJob
  <2> QED BY <2>1, <2>2, SetStays
<1>2. CASE NextBatch(m)
  <2>1. ASSUME NEW q, mover' = [mover EXCEPT ![m].at = "run", ![m].queue = q] PROVE Stays(m)
    <3> DEFINE t == [mover[m] EXCEPT !.at = "run", !.queue = q]
    <3>1. t.at # "retire" BY <1>t DEF Thread
    <3>2. mover' = [mover EXCEPT ![m] = t] BY <2>1
    <3> QED BY <3>1, <3>2, SetStays
  <2>2. \/ Move(m, "requests") \/ \E q : mover' = [mover EXCEPT ![m].at = "run", ![m].queue = q]
    BY <1>2 DEF NextBatch
  <2> QED BY <1>m, <2>1, <2>2
<1>3. CASE LoadRun(m)
  <2> DEFINE t == [mover[m] EXCEPT !.at = "look", !.part = parts[mover[m].run] + 1]
  <2>1. t.at # "retire" BY <1>t DEF Thread
  <2>2. Skip(m) \/ mover' = [mover EXCEPT ![m] = t] BY <1>3 DEF LoadRun
  <2> QED BY <1>s, <2>1, <2>2, SetStays
<1>4. CASE LookAtPointers(m)
  <2> DEFINE t == [mover[m] EXCEPT !.at = "gather", !.gone = mover[m].run \notin pointers]
  <2>1. t.at # "retire" BY <1>t DEF Thread
  <2>2. mover' = [mover EXCEPT ![m] = t] BY <1>4 DEF LookAtPointers
  <2> QED BY <2>1, <2>2, SetStays
<1>5. CASE Release(m)
  <2> DEFINE t == [mover[m] EXCEPT !.at = "run", !.run = NoRun, !.count = 0, !.part = 0, !.gone = FALSE]
  <2>1. t.at # "retire" BY <1>t DEF Thread
  <2>2. mover' = [mover EXCEPT ![m] = t] BY <1>5 DEF Release
  <2> QED BY <2>1, <2>2, SetStays
<1>6. CASE NextRequests(m)
  <2>1. ASSUME NEW q, mover' = [mover EXCEPT ![m].at = "count", ![m].asked = q] PROVE Stays(m)
    <3> DEFINE t == [mover[m] EXCEPT !.at = "count", !.asked = q]
    <3>1. t.at # "retire" BY <1>t DEF Thread
    <3>2. mover' = [mover EXCEPT ![m] = t] BY <2>1
    <3> QED BY <3>1, <3>2, SetStays
  <2>2. \/ Move(m, "finish") \/ \E q : mover' = [mover EXCEPT ![m].at = "count", ![m].asked = q]
    BY <1>6 DEF NextRequests
  <2> QED BY <1>m, <2>1, <2>2
<1>7. CASE RetireRequests(m)
  <2> DEFINE t == [mover[m] EXCEPT !.at = "requests", !.asked = {}]
             u == [mover[m] EXCEPT !.at = "requests", !.asked = {}, !.failed = @ \cup mover[m].asked]
  <2>1. t.at # "retire" /\ u.at # "retire" BY <1>t DEF Thread
  <2>2. mover' = [mover EXCEPT ![m] = t] \/ mover' = [mover EXCEPT ![m] = u] BY <1>7 DEF RetireRequests
  <2> QED BY <2>1, <2>2, SetStays
<1>8. CASE BeginWithdrawal(m)
  <2> DEFINE t == [Idle EXCEPT !.at = "run", !.queue = present, !.gone = TRUE]
  <2>1. t.at # "retire" BY DEF Idle
  <2>2. mover' = [mover EXCEPT ![m] = t] BY <1>8 DEF BeginWithdrawal
  <2> QED BY <2>1, <2>2, SetStays
<1>9. CASE WithdrawLoad(m)
  <2> DEFINE t == [mover[m] EXCEPT !.at = "gather", !.part = parts[mover[m].run] + 1]
             u == [mover[m] EXCEPT !.at = "run", !.run = NoRun]
  <2>1. t.at # "retire" /\ u.at # "retire" BY <1>t DEF Thread
  <2>2. mover' = [mover EXCEPT ![m] = t] \/ mover' = [mover EXCEPT ![m] = u] \/ mover' = [mover EXCEPT ![m] = Idle]
    BY <1>9 DEF WithdrawLoad
  <2> QED BY <1>i, <2>1, <2>2, SetStays
<1>10. CASE WithdrawRequests(m)
  <2> DEFINE t == [mover[m] EXCEPT !.at = "count", !.asked = requests]
  <2>1. t.at # "retire" BY <1>t DEF Thread
  <2>2. mover' = [mover EXCEPT ![m] = t] BY <1>10 DEF WithdrawRequests
  <2> QED BY <2>1, <2>2, SetStays
<1>11. CASE JobLost(m) \/ FinishJob(m) \/ ReleaseJob(m) \/ Crash(m) \/ WithdrawCount(m)
  BY <1>11, <1>i DEF JobLost, FinishJob, ReleaseJob, Crash, WithdrawCount
<1>12. CASE EndBatch(m) \/ FailRun(m) BY <1>12, <1>m, <1>s DEF EndBatch, FailRun
<1> QED BY <1>1, <1>2, <1>3, <1>4, <1>5, <1>6, <1>7, <1>8, <1>9, <1>10, <1>11, <1>12

\* Leases and records in a step of m that moves no records.
LEMMA PlainLeases ==
  ASSUME Typed, NEW m \in Movers,
         \/ StartJob(m) \/ NextBatch(m) \/ JobLost(m) \/ EndBatch(m) \/ LoadRun(m) \/ LookAtPointers(m)
         \/ Release(m) \/ NextRequests(m) \/ RetireRequests(m) \/ FinishJob(m) \/ ReleaseJob(m)
         \/ FailRun(m) \/ Crash(m) \/ BeginWithdrawal(m) \/ WithdrawLoad(m) \/ WithdrawRequests(m) \/ WithdrawCount(m)
  PROVE  UNCHANGED rowVars /\ (UNCHANGED lease \/ \E r : lease' = [lease EXCEPT ![r] = Nobody])
<1>1. CASE Release(m) \/ WithdrawLoad(m)
  <2>1. UNCHANGED rowVars /\ (UNCHANGED leaseVars \/ ReleaseRun(m, mover[m].run)) BY <1>1 DEF Release, WithdrawLoad
  <2> QED BY <2>1 DEF ReleaseRun, leaseVars
<1>2. CASE \/ StartJob(m) \/ NextBatch(m) \/ JobLost(m) \/ EndBatch(m) \/ LoadRun(m) \/ LookAtPointers(m)
           \/ NextRequests(m) \/ RetireRequests(m) \/ FinishJob(m) \/ ReleaseJob(m)
           \/ FailRun(m) \/ Crash(m) \/ BeginWithdrawal(m) \/ WithdrawRequests(m) \/ WithdrawCount(m)
  BY <1>2 DEF StartJob, NextBatch, JobLost, EndBatch, LoadRun, LookAtPointers, NextRequests, RetireRequests, FinishJob,
              ReleaseJob, FailRun, Crash, BeginWithdrawal, WithdrawRequests, WithdrawCount, leaseVars
<1> QED BY <1>1, <1>2

LEMMA PlainFresh ==
  ASSUME CountInv, NEW m \in Movers, Stays(m), UNCHANGED rowVars,
         UNCHANGED lease \/ \E r : lease' = [lease EXCEPT ![r] = Nobody]
  PROVE  Fresh'
<1>1. Nobody \notin Movers BY RetentionAssumption DEF RetentionAssumption, Owners
<1>2. lease \in [Runs -> Owners \cup {Nobody}] BY DEF CountInv, Typed, TypeOK
<1>3. \A n \in Movers, r \in Runs : n # m /\ lease'[r] = n => lease[r] = n BY <1>1, <1>2
<1> QED BY <1>3, FreshKept DEF rowVars

\* A step of nobody's: no mover changes but for what it owes or finds old.
LEMMA OthersFresh ==
  ASSUME CountInv,
         \A n \in Movers : mover'[n].at = mover[n].at /\ mover'[n].run = mover[n].run /\ mover'[n].count = mover[n].count,
         \A n \in Movers, r \in Runs : lease'[r] = n => lease[r] = n /\ records'[r] = records[r]
  PROVE  Fresh'
<1>1. \A n \in Movers : Sound(mover[n]) BY DEF CountInv, Typed, MoversSound
<1> QED BY <1>1 DEF Fresh, Sound, At, CountInv

LEMMA RetireFresh ==
  ASSUME CountInv, NEW m \in Movers, Holds(m, mover[m].run), RetireRun(m, mover[m].run), Stays(m)
  PROVE  Fresh'
<1> DEFINE r == mover[m].run
<1>1. Nobody \notin Movers BY RetentionAssumption DEF RetentionAssumption, Owners
<1>2. lease \in [Runs -> Owners \cup {Nobody}] /\ records \in [Runs -> Nat] BY DEF CountInv, Typed, TypeOK
<1>3. UNCHANGED lease \/ lease' = [lease EXCEPT ![r] = Nobody] BY DEF RetireRun, DeleteRow, Bump, leaseVars
<1>4. records' = [records EXCEPT ![r] = 0] BY DEF RetireRun, MoveRecords
<1>5. lease[r] = m BY DEF Holds
<1>6. \A n \in Movers, s \in Runs : n # m /\ lease'[s] = n => lease[s] = n /\ records'[s] = records[s]
  BY <1>1, <1>2, <1>3, <1>4, <1>5
<1> QED BY <1>6, FreshKept

LEMMA NextFresh == CountInv /\ [Next]_vars => Fresh'
<1> SUFFICES ASSUME CountInv, [Next]_vars PROVE Fresh' OBVIOUS
<1>t. Typed BY DEF CountInv
<1>m. \A m \in Movers : Sound(mover[m]) /\ mover[m] \in Thread BY <1>t DEF Typed, MoversSound, Sound
<1>w. Workers \subseteq Movers /\ Withdrawals \subseteq Movers /\ Nobody \notin Movers /\ Users \cap Movers = {}
  BY RetentionAssumption DEF Movers, Owners, RetentionAssumption
<1>l. lease \in [Runs -> Owners \cup {Nobody}] /\ records \in [Runs -> Nat] BY <1>t DEF Typed, TypeOK
<1>p. ASSUME NEW m \in Movers,
             \/ StartJob(m) \/ NextBatch(m) \/ JobLost(m) \/ EndBatch(m) \/ LoadRun(m) \/ LookAtPointers(m)
             \/ Release(m) \/ NextRequests(m) \/ RetireRequests(m) \/ FinishJob(m) \/ ReleaseJob(m)
             \/ FailRun(m) \/ Crash(m) \/ BeginWithdrawal(m) \/ WithdrawLoad(m) \/ WithdrawRequests(m) \/ WithdrawCount(m)
      PROVE  Fresh'
  <2>1. Stays(m) BY <1>p, <1>t, PlainStays
  <2>2. UNCHANGED rowVars /\ (UNCHANGED lease \/ \E r : lease' = [lease EXCEPT ![r] = Nobody]) BY <1>p, <1>t, PlainLeases
  <2> QED BY <2>1, <2>2, PlainFresh
<1>a. ASSUME NEW m \in Movers, NEW r \in Runs, NEW t, t.at # "retire", lease' = [lease EXCEPT ![r] = m],
             mover' = Takes(m, t, r), UNCHANGED rowVars
      PROVE  Fresh'
  <2>1. Stays(m) BY <1>a, <1>t, TakesStays
  <2>2. \A n \in Movers, s \in Runs : n # m /\ lease'[s] = n => lease[s] = n BY <1>a, <1>l
  <2> QED BY <1>a, <2>1, <2>2, FreshKept DEF rowVars
<1>1. ASSUME NEW w \in Workers, AcquireRun(w) PROVE Fresh'
  <2>1. PICK r \in mover[w].queue :
          LET t == [mover[w] EXCEPT !.queue = @ \ {r}, !.seen = @ \cup {r}] IN
          IF FreeFor(w, r)
          THEN lease' = [lease EXCEPT ![r] = w] /\ mover' = Takes(w, [t EXCEPT !.at = "load", !.run = r], r)
          ELSE mover' = [mover EXCEPT ![w] = [t EXCEPT !.skipped = @ \cup {r}]] /\ UNCHANGED leaseVars
    BY <1>1 DEF AcquireRun
  <2> DEFINE t == [mover[w] EXCEPT !.queue = @ \ {r}, !.seen = @ \cup {r}]
             a == [t EXCEPT !.at = "load", !.run = r]
             b == [t EXCEPT !.skipped = @ \cup {r}]
  <2>2. r \in Runs BY <1>m, <1>w, <2>1 DEF Thread
  <2>3. a.at # "retire" /\ b.at # "retire"
    <3>1. mover[w] \in Thread /\ mover[w].at = "run" BY <1>m, <1>w, <1>1 DEF AcquireRun, At
    <3> QED BY <3>1 DEF Thread
  <2>4. UNCHANGED rowVars BY <1>1 DEF AcquireRun
  <2>5. CASE FreeFor(w, r)
    <3>1. lease' = [lease EXCEPT ![r] = w] /\ mover' = Takes(w, a, r) BY <2>1, <2>5
    <3> QED BY <1>a, <1>w, <2>2, <2>3, <2>4, <3>1
  <2>6. CASE ~FreeFor(w, r)
    <3>1. mover' = [mover EXCEPT ![w] = b] /\ UNCHANGED lease BY <2>1, <2>6 DEF leaseVars
    <3>2. Stays(w) BY <1>t, <1>w, <2>3, <3>1, SetStays
    <3> QED BY <1>w, <2>4, <3>1, <3>2, PlainFresh
  <2> QED BY <2>5, <2>6
<1>2. ASSUME NEW x \in Withdrawals, WithdrawRun(x) PROVE Fresh'
  <2>1. PICK r \in mover[x].queue :
          LET t == [mover[x] EXCEPT !.queue = @ \ {r}] IN
          IF FreeFor(x, r)
          THEN lease' = [lease EXCEPT ![r] = x] /\ mover' = Takes(x, [t EXCEPT !.at = "load", !.run = r], r)
          ELSE mover' = [mover EXCEPT ![x] = IF r \in present THEN Idle ELSE t] /\ UNCHANGED leaseVars
    BY <1>2 DEF WithdrawRun
  <2> DEFINE t == [mover[x] EXCEPT !.queue = @ \ {r}]
             a == [t EXCEPT !.at = "load", !.run = r]
             b == IF r \in present THEN Idle ELSE t
  <2>2. r \in Runs BY <1>m, <1>w, <2>1 DEF Thread
  <2>3. a.at # "retire" /\ b.at # "retire"
    <3>1. mover[x] \in Thread /\ mover[x].at = "run" BY <1>m, <1>w, <1>2 DEF WithdrawRun, At
    <3> QED BY <3>1 DEF Thread, Idle
  <2>4. UNCHANGED rowVars BY <1>2 DEF WithdrawRun
  <2>5. CASE FreeFor(x, r)
    <3>1. lease' = [lease EXCEPT ![r] = x] /\ mover' = Takes(x, a, r) BY <2>1, <2>5
    <3> QED BY <1>a, <1>w, <2>2, <2>3, <2>4, <3>1
  <2>6. CASE ~FreeFor(x, r)
    <3>1. mover' = [mover EXCEPT ![x] = b] /\ UNCHANGED lease BY <2>1, <2>6 DEF leaseVars
    <3>2. Stays(x) BY <1>t, <1>w, <2>3, <3>1, SetStays
    <3> QED BY <1>w, <2>4, <3>1, <3>2, PlainFresh
  <2> QED BY <2>5, <2>6
<1>3. ASSUME NEW m \in Movers, Gather(m) PROVE Fresh'
  <2> DEFINE t == [mover[m] EXCEPT !.at = "retire", !.count = records[mover[m].run]]
             u == [mover[m] EXCEPT !.at = "release", !.skipped = @ \cup {mover[m].run}]
  <2>1. UNCHANGED <<rowVars, lease>> BY <1>3 DEF Gather, leaseVars
  <2>2. CASE mover' = [mover EXCEPT ![m] = t]
    <3>1. t.count = records[t.run] BY <1>m DEF Thread
    <3>2. \A n \in Movers : mover'[n] = IF n = m THEN t ELSE mover[n] BY <1>t, <2>2 DEF Typed, MoversSound
    <3> QED BY <2>1, <3>1, <3>2 DEF CountInv, Fresh, At, rowVars
  <2>3. CASE mover' = [mover EXCEPT ![m] = u]
    <3>1. u.at # "retire" BY <1>m DEF Thread
    <3>2. Stays(m) BY <1>t, <2>3, <3>1, SetStays
    <3> QED BY <2>1, <3>2, PlainFresh
  <2> QED BY <1>3, <2>2, <2>3 DEF Gather, Skip
<1>4. ASSUME NEW w \in Workers, Retire(w) PROVE Fresh'
  <2> DEFINE r == mover[w].run
             t == [mover[w] EXCEPT !.at = "release"]
             u == [mover[w] EXCEPT !.at = "release", !.skipped = @ \cup {mover[w].run}]
  <2>1. r \in Runs BY <1>m, <1>w, <1>4 DEF Retire, At, Sound
  <2>2. t.at # "retire" /\ u.at # "retire" BY <1>m, <1>w DEF Thread
  <2>3. CASE Holds(w, r)
    <3>1. RetireRun(w, r) /\ mover' = Takes(w, t, r) BY <1>4, <2>3 DEF Retire
    <3>2. Stays(w) BY <1>t, <1>w, <2>1, <2>2, <3>1, TakesStays
    <3> QED BY <1>w, <2>3, <3>1, <3>2, RetireFresh
  <2>4. CASE ~Holds(w, r)
    <3>1. mover' = [mover EXCEPT ![w] = u] /\ UNCHANGED <<rowVars, lease>> BY <1>4, <2>4 DEF Retire, Skip, leaseVars
    <3>2. Stays(w) BY <1>t, <1>w, <2>2, <3>1, SetStays
    <3> QED BY <1>w, <3>1, <3>2, PlainFresh
  <2> QED BY <2>3, <2>4
<1>5. ASSUME NEW x \in Withdrawals, WithdrawRetire(x) PROVE Fresh'
  <2> DEFINE r == mover[x].run
             t == [mover[x] EXCEPT !.at = "run", !.run = NoRun]
  <2>1. r \in Runs BY <1>m, <1>w, <1>5 DEF WithdrawRetire, At, Sound
  <2>2. t.at # "retire" /\ Idle.at # "retire" BY <1>m, <1>w DEF Thread, Idle
  <2>3. CASE Holds(x, r)
    <3>1. RetireRun(x, r) /\ mover' = Takes(x, t, r) BY <1>5, <2>3 DEF WithdrawRetire
    <3>2. Stays(x) BY <1>t, <1>w, <2>1, <2>2, <3>1, TakesStays
    <3> QED BY <1>w, <2>3, <3>1, <3>2, RetireFresh
  <2>4. CASE ~Holds(x, r)
    <3>1. mover' = [mover EXCEPT ![x] = Idle] /\ UNCHANGED <<rowVars, lease>> BY <1>5, <2>4 DEF WithdrawRetire, leaseVars
    <3>2. Stays(x) BY <1>t, <1>w, <2>2, <3>1, SetStays
    <3> QED BY <1>w, <3>1, <3>2, PlainFresh
  <2> QED BY <2>3, <2>4
<1>6. ASSUME NEW u \in Users, NEW r \in Runs, Visit(u, r) PROVE Fresh'
  <2>1. \A n \in Movers : mover'[n] = [mover[n] EXCEPT !.owed = @ \ {r}] BY <1>6 DEF Visit
  <2>2. \A n \in Movers : mover'[n].at = mover[n].at /\ mover'[n].run = mover[n].run /\ mover'[n].count = mover[n].count
    BY <1>m, <2>1 DEF Thread
  <2>3. lease' = [lease EXCEPT ![r] = u] /\ UNCHANGED records BY <1>6 DEF Visit, rowVars
  <2>4. \A n \in Movers, s \in Runs : lease'[s] = n => lease[s] = n BY <1>l, <1>w, <2>3
  <2> QED BY <2>2, <2>3, <2>4, OthersFresh
<1>7. ASSUME NEW u \in Users, Save(u) PROVE Fresh'
  <2> DEFINE r == visitor[u]
  <2>1. UNCHANGED lease \/ lease' = [lease EXCEPT ![r] = Nobody] BY <1>7 DEF Save, ReleaseRun, leaseVars
  <2>2. \A n \in Movers, s \in Runs : lease'[s] = n => lease[s] = n BY <1>l, <1>w, <2>1
  <2>3. CASE Holds(u, r)
    <3>1. /\ mover' = [m \in Movers |-> [mover[m] EXCEPT !.old = @ \ {r}, !.owed = @ \ {r}]]
          /\ records' = [records EXCEPT ![r] = @ + 1]
      BY <1>7, <2>3 DEF Save
    <3>2. \A n \in Movers : mover'[n].at = mover[n].at /\ mover'[n].run = mover[n].run /\ mover'[n].count = mover[n].count
      BY <1>m, <3>1 DEF Thread
    <3>3. \A n \in Movers : lease[r] # n BY <1>w, <2>3 DEF Holds
    <3>4. \A n \in Movers, s \in Runs : lease'[s] = n => lease[s] = n /\ records'[s] = records[s]
      BY <1>l, <2>2, <3>1, <3>3
    <3> QED BY <3>2, <3>4, OthersFresh
  <2>4. CASE ~Holds(u, r)
    <3>1. UNCHANGED <<rowVars, mover>> BY <1>7, <2>4 DEF Save
    <3> QED BY <2>2, <3>1, OthersFresh DEF rowVars
  <2> QED BY <2>3, <2>4
<1>8. ASSUME NEW r \in Runs, DeleteArtifacts(r) PROVE Fresh'
  <2>1. \A n \in Movers : mover'[n] = mover[n] \/ mover'[n] = [mover[n] EXCEPT !.owed = {}] BY <1>8 DEF DeleteArtifacts
  <2>2. \A n \in Movers : mover'[n].at = mover[n].at /\ mover'[n].run = mover[n].run /\ mover'[n].count = mover[n].count
    BY <1>m, <2>1 DEF Thread
  <2>3. UNCHANGED <<lease, records>> BY <1>8 DEF DeleteArtifacts, leaseVars
  <2> QED BY <2>2, <2>3, OthersFresh
<1>9. ASSUME UNCHANGED <<mover, lease, records>> PROVE Fresh' BY <1>9, OthersFresh
<1>10. ASSUME NEW w \in Workers, RenewJob(w) PROVE Fresh' BY <1>9, <1>10 DEF RenewJob, rowVars, leaseVars
<1>11. ASSUME NEW r \in Runs, Age(r) \/ ExpireRun(r) PROVE Fresh' BY <1>9, <1>11 DEF Age, ExpireRun, rowVars, leaseVars
<1>12. CASE ExpireJob \/ NextDay \/ UNCHANGED vars BY <1>9, <1>12 DEF ExpireJob, NextDay, vars, rowVars, leaseVars
<1> QED BY <1>p, <1>1, <1>2, <1>3, <1>4, <1>5, <1>6, <1>7, <1>8, <1>10, <1>11, <1>12, <1>w
        DEF Next, JobStep, WithdrawalStep

\* Start requests are counted in the transaction that deletes them.
LEMMA CountKeeps ==
  ASSUME CountInv, NEW asked, AllThere(asked), CountRequests(asked), UNCHANGED rowVars
  PROVE  RecordsCountedOnce'
<1>1. counted \in [Requests -> Nat] /\ requests \subseteq Requests BY DEF CountInv, Typed, TypeOK
<1>2. \A q \in Requests : counted'[q] = IF q \in requests' THEN 0 ELSE 1
  <2> SUFFICES ASSUME NEW q \in Requests PROVE counted'[q] = IF q \in requests' THEN 0 ELSE 1 OBVIOUS
  <2>1. counted[q] = IF q \in requests THEN 0 ELSE 1 BY DEF CountInv, RecordsCountedOnce
  <2>2. counted'[q] = IF q \in asked THEN counted[q] + 1 ELSE counted[q] BY DEF CountRequests
  <2>3. asked \subseteq requests /\ requests' = requests \ asked BY DEF AllThere, CountRequests
  <2> QED BY <2>1, <2>2, <2>3
<1>3. \A r \in Runs : written'[r] = records'[r] + moved'[r] /\ (r \notin present' => records'[r] = 0)
  BY DEF CountInv, RecordsCountedOnce, rowVars
<1> QED BY <1>2, <1>3 DEF RecordsCountedOnce

LEMMA NextCounts == CountInv /\ [Next]_vars => RecordsCountedOnce'
<1> SUFFICES ASSUME CountInv, [Next]_vars PROVE RecordsCountedOnce' OBVIOUS
<1>u. UNCHANGED <<present, records, moved, written, requestVars>> => RecordsCountedOnce'
  BY DEF CountInv, RecordsCountedOnce, requestVars
<1>v. UNCHANGED <<rowVars, requestVars>> => RecordsCountedOnce' BY <1>u DEF rowVars
<1>w. Workers \subseteq Movers /\ Withdrawals \subseteq Movers BY DEF Movers
<1>1. ASSUME NEW w \in Workers, Retire(w) PROVE RecordsCountedOnce'
  BY <1>1, <1>v, <1>w, RetireCounts DEF Retire
<1>2. ASSUME NEW x \in Withdrawals, WithdrawRetire(x) PROVE RecordsCountedOnce'
  BY <1>2, <1>v, <1>w, RetireCounts DEF WithdrawRetire
<1>3. ASSUME NEW w \in Workers, RetireRequests(w) PROVE RecordsCountedOnce'
  BY <1>3, <1>v, CountKeeps DEF RetireRequests
<1>4. ASSUME NEW x \in Withdrawals, WithdrawCount(x) PROVE RecordsCountedOnce'
  BY <1>4, <1>v, CountKeeps DEF WithdrawCount
<1>5. ASSUME NEW u \in Users, Save(u) PROVE RecordsCountedOnce'
  <2> DEFINE r == visitor[u]
  <2>1. CASE ~Holds(u, r) BY <1>5, <1>v, <2>1 DEF Save
  <2>2. CASE Holds(u, r)
    <3>1. /\ records' = [records EXCEPT ![r] = @ + 1] /\ written' = [written EXCEPT ![r] = @ + 1]
          /\ UNCHANGED <<present, moved, requestVars>>
      BY <1>5, <2>2 DEF Save
    <3>2. r \in present BY <2>2 DEF Holds
    <3>3. records \in [Runs -> Nat] /\ moved \in [Runs -> Nat] /\ written \in [Runs -> Nat] BY DEF CountInv, Typed, TypeOK
    <3>4. \A s \in Runs : written'[s] = records'[s] + moved'[s] /\ (s \notin present' => records'[s] = 0)
      BY <3>1, <3>2, <3>3 DEF CountInv, RecordsCountedOnce
    <3> QED BY <3>1, <3>4 DEF CountInv, RecordsCountedOnce, requestVars
  <2> QED BY <2>1, <2>2
<1>6. ASSUME NEW m \in Movers,
             \/ StartJob(m) \/ NextBatch(m) \/ JobLost(m) \/ EndBatch(m) \/ LoadRun(m) \/ LookAtPointers(m)
             \/ Release(m) \/ NextRequests(m) \/ FinishJob(m) \/ ReleaseJob(m) \/ RenewJob(m) \/ Gather(m) \/ AcquireRun(m)
             \/ FailRun(m) \/ Crash(m) \/ BeginWithdrawal(m) \/ WithdrawRun(m) \/ WithdrawLoad(m) \/ WithdrawRequests(m)
      PROVE  RecordsCountedOnce'
  BY <1>6, <1>v DEF StartJob, NextBatch, JobLost, EndBatch, LoadRun, LookAtPointers, Release, NextRequests, FinishJob,
     ReleaseJob, RenewJob, Gather, AcquireRun, FailRun, Crash, BeginWithdrawal, WithdrawRun, WithdrawLoad, WithdrawRequests
<1>7. ASSUME NEW r \in Runs, Age(r) \/ ExpireRun(r) \/ DeleteArtifacts(r) \/ \E u \in Users : Visit(u, r)
      PROVE  RecordsCountedOnce'
  BY <1>7, <1>u DEF Age, ExpireRun, DeleteArtifacts, Visit, rowVars
<1>8. CASE ExpireJob \/ NextDay \/ UNCHANGED vars BY <1>8, <1>v DEF ExpireJob, NextDay, vars
<1> QED BY <1>1, <1>2, <1>3, <1>4, <1>5, <1>6, <1>7, <1>8, <1>w DEF Next, JobStep, WithdrawalStep

\* No record and no start request is lost or counted twice, whatever leases expire
\* and whoever moves the same run at the same time (retire_run, retire_start_requests).
THEOREM CountedOnce == Spec => []RecordsCountedOnce
<1>1. Init => CountInv
  <2> SUFFICES ASSUME Init PROVE CountInv OBVIOUS
  <2>1. Typed BY InitTyped
  <2>2. Fresh BY DEF Init, Fresh, At, Idle
  <2>3. RecordsCountedOnce BY DEF Init, RecordsCountedOnce
  <2> QED BY <2>1, <2>2, <2>3 DEF CountInv
<1>2. CountInv /\ [Next]_vars => CountInv' BY NextTyped, NextFresh, NextCounts DEF CountInv
<1>3. CountInv => RecordsCountedOnce BY DEF CountInv
<1> QED BY <1>1, <1>2, <1>3, PTL DEF Spec

-----------------------------------------------------------------------------
(* One end of the job *)

\* The job leaves its worker when that worker ends, or for one that finds the lease
\* expired (try_start_job, finish_job, release_job).
THEOREM OneEnd == Spec => JobHasOneEnd
<1> DEFINE Leaves == \A w \in Workers :
             job.owner = w /\ job'.owner # w =>
               \/ mover'[w] = Idle /\ mover[w] # Idle
               \/ ~job.live /\ job'.live
<1>1. Typed /\ [Next]_vars => [Leaves]_vars
  <2> SUFFICES ASSUME Typed, Next, NEW w \in Workers, job.owner = w, job'.owner # w
               PROVE  \/ mover'[w] = Idle /\ mover[w] # Idle
                      \/ ~job.live /\ job'.live
    OBVIOUS
  <2>m. mover = [m \in Movers |-> mover[m]] /\ w \in Movers /\ Nobody \notin Movers
    BY RetentionAssumption DEF Typed, MoversSound, Movers, Owners, RetentionAssumption
  <2>j. job \in [owner : Workers \cup {Nobody}, live : BOOLEAN, due : BOOLEAN] BY DEF Typed, TypeOK
  <2>1. ASSUME NEW v \in Workers, StartJob(v) PROVE ~job.live /\ job'.live
    BY <2>1, <2>j, <2>m DEF StartJob, Due
  <2>2. ASSUME NEW v \in Workers, FinishJob(v) PROVE mover'[w] = Idle /\ mover[w] # Idle
    <3>1. job.owner = v BY <2>2, <2>j DEF FinishJob, StillMine
    <3> QED BY <2>2, <2>m, <3>1 DEF FinishJob, At, Idle
  <2>3. ASSUME NEW v \in Workers, ReleaseJob(v) PROVE mover'[w] = Idle /\ mover[w] # Idle
    <3>1. job.owner = v BY <2>3, <2>j DEF ReleaseJob
    <3> QED BY <2>3, <2>m, <3>1 DEF ReleaseJob, At, Idle
  <2>4. ASSUME NEW v \in Workers, RenewJob(v) PROVE FALSE BY <2>4, <2>j DEF RenewJob
  <2>5. CASE ExpireJob \/ NextDay BY <2>5, <2>j DEF ExpireJob, NextDay
  <2>6. CASE UNCHANGED job BY <2>6
  <2>7. ASSUME NEW m \in Movers,
               \/ NextBatch(m) \/ JobLost(m) \/ EndBatch(m) \/ LoadRun(m) \/ LookAtPointers(m)
               \/ Release(m) \/ NextRequests(m) \/ RetireRequests(m) \/ Gather(m) \/ AcquireRun(m) \/ Retire(m)
               \/ FailRun(m) \/ Crash(m) \/ BeginWithdrawal(m) \/ WithdrawRun(m) \/ WithdrawLoad(m)
               \/ WithdrawRequests(m) \/ WithdrawRetire(m) \/ WithdrawCount(m)
        PROVE  UNCHANGED job
    BY <2>7 DEF NextBatch, JobLost, EndBatch, LoadRun, LookAtPointers, Release, NextRequests, RetireRequests, Gather,
       AcquireRun, Retire, FailRun, Crash, BeginWithdrawal, WithdrawRun, WithdrawLoad, WithdrawRequests, WithdrawRetire,
       WithdrawCount
  <2>8. ASSUME NEW r \in Runs, Age(r) \/ ExpireRun(r) \/ DeleteArtifacts(r) \/ \E u \in Users : Visit(u, r)
        PROVE  UNCHANGED job
    BY <2>8 DEF Age, ExpireRun, DeleteArtifacts, Visit
  <2>9. ASSUME NEW u \in Users, Save(u) PROVE UNCHANGED job BY <2>9 DEF Save
  <2> QED BY <2>1, <2>2, <2>3, <2>4, <2>5, <2>6, <2>7, <2>8, <2>9 DEF Next, JobStep, WithdrawalStep, Movers
<1>2. Init => Typed BY InitTyped
<1>3. Typed /\ [Next]_vars => Typed' BY NextTyped
<1> QED BY <1>1, <1>2, <1>3, PTL DEF Spec, JobHasOneEnd

-----------------------------------------------------------------------------
(* A job that is finished has left nothing *)

Working == {"load", "look", "gather", "retire"}

\* A target but for the cutoff; a run that is not a deleted one; one with nothing to move.
Wanted(r) == r \in present \ busy /\ (lease[r] = Nobody \/ r \notin live) /\ (records[r] > 0 \/ r \notin pointers)
Shown(r) == r \in present => r \in pointers
Clear(r) == records[r] = 0 /\ Shown(r)

\* What a worker owes: an old run is a target as long as the job has not come to it,
\* has nothing to move once the job is through with it, and none is left when the job
\* turns to the requests.
Owes(t) ==
  /\ t.skipped \subseteq t.seen /\ t.owed \subseteq t.old
  /\ t.at \in Working => t.run \in t.seen
  /\ t.at \in {"requests", "count", "finish"} => t.owed \subseteq t.seen
  /\ \A r \in t.owed \ t.seen : Wanted(r)
  /\ t.owed # {} => \A r \in (t.seen \ t.skipped) \cap t.old : Clear(r) \/ (r = t.run /\ t.at \in Working)
  /\ t.owed # {} /\ t.at \in {"gather", "retire"} /\ ~t.gone => Shown(t.run)

DutyInv == Typed /\ \A w \in Workers : Owes(mover[w])

\* Steps after which the runs of S are still targets, and runs with nothing to move
\* still have nothing.
StayWanted(S) == \A r \in S : Wanted(r) => Wanted(r)'
StayClear == \A r \in Runs : (Clear(r) => Clear(r)') /\ (Shown(r) => Shown(r)')

LEMMA TargetsWanted == \A old : \A r \in Targets(old) : r \in old /\ Wanted(r)
BY DEF Targets, Wanted

LEMMA OwesNow ==
  ASSUME NEW w, NEW t, t = mover[w], Owes(t) PROVE Owes(mover[w])
BY DEF Owes

LEMMA OwesLater ==
  ASSUME NEW w, NEW s, s = mover'[w], Owes(s)' PROVE Owes(mover[w])'
BY DEF Owes, Wanted, Shown, Clear

\* A worker that others have taken runs from owes the rest.
LEMMA OwesLess ==
  ASSUME NEW t, NEW s, t \in Thread, Owes(t),
         s.at = t.at, s.run = t.run, s.seen = t.seen, s.skipped = t.skipped, s.gone = t.gone,
         s.owed \subseteq t.owed, s.old \subseteq t.old, s.owed \subseteq s.old,
         \A r \in s.owed \ t.seen : Wanted(r) => Wanted(r)',
         s.owed # {} => \A r \in t.seen : (r \in s.old /\ Clear(r) => Clear(r)') /\ (Shown(r) => Shown(r)')
  PROVE  Owes(s)'
<1> HIDE DEF Wanted, Shown, Clear
<1>1. s.skipped \subseteq s.seen /\ s.owed \subseteq s.old /\ (s.at \in Working => s.run \in s.seen) BY DEF Owes
<1>2. s.at \in {"requests", "count", "finish"} => s.owed \subseteq s.seen BY DEF Owes
<1>3. \A r \in s.owed \ s.seen : Wanted(r)' BY DEF Owes
<1>4. s.owed # {} => \A r \in (s.seen \ s.skipped) \cap s.old : Clear(r)' \/ (r = s.run /\ s.at \in Working) BY DEF Owes
<1>5. s.owed # {} /\ s.at \in {"gather", "retire"} /\ ~s.gone => Shown(s.run)'
  <2> SUFFICES ASSUME s.owed # {}, s.at \in {"gather", "retire"}, ~s.gone PROVE Shown(s.run)' OBVIOUS
  <2>1. t.run \in t.seen /\ Shown(t.run) /\ t.owed # {} BY DEF Owes, Working
  <2> QED BY <2>1
<1> QED BY <1>1, <1>2, <1>3, <1>4, <1>5 DEF Owes

LEMMA OthersOwe ==
  ASSUME DutyInv, NEW w \in Workers, NEW r0 \in Runs, mover'[w] = [mover[w] EXCEPT !.owed = @ \ {r0}],
         StayWanted(Runs \ {r0}), StayClear
  PROVE  Owes(mover[w])'
<1>1. PICK t : t = mover[w] OBVIOUS
<1>2. t \in Thread /\ Owes(t)
  <2>1. w \in Movers BY DEF Movers
  <2>2. Owes(mover[w]) BY DEF DutyInv
  <2>3. Owes(t) BY <1>1, <2>2 DEF Owes
  <2> QED BY <1>1, <2>1, <2>3 DEF DutyInv, Typed, MoversSound, Sound
<1> DEFINE s == [t EXCEPT !.owed = @ \ {r0}]
<1>3. /\ s.at = t.at /\ s.run = t.run /\ s.seen = t.seen /\ s.skipped = t.skipped
      /\ s.owed = t.owed \ {r0} /\ s.old = t.old /\ t.owed \subseteq t.old /\ t.owed \subseteq Runs /\ t.seen \subseteq Runs
  BY <1>2 DEF Thread, Owes
<1>g. s.gone = t.gone BY <1>2 DEF Thread
<1>4. s = mover'[w] BY <1>1
<1> HIDE DEF s, Wanted, Shown, Clear, Owes
<1>5. \A r \in s.owed \ t.seen : Wanted(r) => Wanted(r)' BY <1>3 DEF StayWanted
<1>6. \A r \in t.seen : (r \in s.old /\ Clear(r) => Clear(r)') /\ (Shown(r) => Shown(r)') BY <1>3 DEF StayClear
<1>7. Owes(s)' BY <1>2, <1>3, <1>g, <1>5, <1>6, OwesLess
<1> QED BY <1>4, <1>7, OwesLater

LEMMA SameOwe ==
  ASSUME DutyInv, NEW w \in Workers, mover'[w] = mover[w], StayWanted(Runs), StayClear
  PROVE  Owes(mover[w])'
<1>1. PICK t : t = mover[w] OBVIOUS
<1>2. t \in Thread /\ Owes(t)
  <2>1. w \in Movers BY DEF Movers
  <2>2. Owes(mover[w]) BY DEF DutyInv
  <2>3. Owes(t) BY <1>1, <2>2 DEF Owes
  <2> QED BY <1>1, <2>1, <2>3 DEF DutyInv, Typed, MoversSound, Sound
<1>3. t.owed \subseteq t.old /\ t.owed \subseteq Runs /\ t.seen \subseteq Runs BY <1>2 DEF Thread, Owes
<1> HIDE DEF Wanted, Shown, Clear, Owes
<1>5. \A r \in t.owed \ t.seen : Wanted(r) => Wanted(r)' BY <1>3 DEF StayWanted
<1>6. \A r \in t.seen : (r \in t.old /\ Clear(r) => Clear(r)') /\ (Shown(r) => Shown(r)') BY <1>3 DEF StayClear
<1>7. Owes(t)' BY <1>2, <1>3, <1>5, <1>6, OwesLess
<1> QED BY <1>1, <1>7, OwesLater

\* What the steps do to the rows and the leases of other runs.
LEMMA SameRows ==
  ASSUME UNCHANGED <<rowVars, leaseVars>> PROVE StayWanted(Runs) /\ StayClear
BY DEF rowVars, leaseVars, StayWanted, StayClear, Wanted, Shown, Clear

LEMMA AcquireRows ==
  ASSUME Typed, NEW r0 \in Runs, NEW o, UNCHANGED rowVars, lease' = [lease EXCEPT ![r0] = o], live' = live \cup {r0}
  PROVE  StayWanted(Runs \ {r0}) /\ StayClear
BY DEF rowVars, StayWanted, StayClear, Wanted, Shown, Clear, Typed, TypeOK

LEMMA FreeRows ==
  ASSUME Typed, NEW m, NEW r0, UNCHANGED rowVars, ReleaseRun(m, r0) \/ UNCHANGED leaseVars
  PROVE  StayWanted(Runs) /\ StayClear
<1>1. lease \in [Runs -> Owners \cup {Nobody}] BY DEF Typed, TypeOK
<1>2. \A r \in Runs : (lease'[r] = lease[r] \/ lease'[r] = Nobody) /\ (r \in live' => r \in live)
  BY <1>1 DEF ReleaseRun, leaseVars
<1> QED BY <1>2 DEF rowVars, StayWanted, StayClear, Wanted, Shown, Clear

LEMMA RetireRows ==
  ASSUME Typed, NEW m \in Movers, NEW r0 \in Runs, RetireRun(m, r0)
  PROVE  /\ StayWanted(Runs \ {r0}) /\ StayClear
         /\ mover[m].gone \/ Shown(r0) => Clear(r0)'
<1>1. /\ lease \in [Runs -> Owners \cup {Nobody}] /\ records \in [Runs -> Nat]
      /\ pointers \subseteq present /\ busy \subseteq present
  BY DEF Typed, TypeOK
<1>2. records' = [records EXCEPT ![r0] = 0] BY DEF RetireRun, MoveRecords
<1>3. CASE mover[m].gone
  <2>1. DeleteRow(r0) BY <1>3 DEF RetireRun
  <2> QED BY <1>1, <1>2, <1>3, <2>1 DEF DeleteRow, StayWanted, StayClear, Wanted, Shown, Clear
<1>4. CASE ~mover[m].gone
  <2>1. UNCHANGED <<present, pointers, busy, lease, live>> BY <1>4 DEF RetireRun, Bump, leaseVars
  <2> QED BY <1>1, <1>2, <1>4, <2>1 DEF StayWanted, StayClear, Wanted, Shown, Clear
<1> QED BY <1>3, <1>4

\* A page with no new run on it shows that every run owed has been seen: it holds all
\* the targets, or more of them than were skipped.
LEMMA NothingLeft ==
  ASSUME NEW t, t \in Thread, Owes(t), t.at = "batch",
         NEW page \in Firsts(Targets(t.old), Page(t.skipped)), page \subseteq t.seen
  PROVE  t.owed \subseteq t.seen
<1> SUFFICES ASSUME NEW r \in t.owed, r \notin t.seen PROVE FALSE OBVIOUS
<1>1. r \in Targets(t.old)
  <2>1. r \in t.old /\ Wanted(r) BY DEF Owes
  <2> QED BY <2>1 DEF Wanted, Targets
<1>2. Cardinality(page) = Page(t.skipped)
  <2>1. page # Targets(t.old) BY <1>1
  <2> QED BY <2>1 DEF Firsts
<1>3. page \subseteq t.skipped
  <2> SUFFICES ASSUME NEW p \in page, p \notin t.skipped PROVE FALSE OBVIOUS
  <2>1. p \in t.old /\ Wanted(p) BY FirstsInside, TargetsWanted
  <2>2. ~Clear(p)
    <3>1. p \in present /\ (records[p] > 0 \/ p \notin pointers) BY <2>1 DEF Wanted
    <3> QED BY <3>1 DEF Clear, Shown
  <2>3. p \in (t.seen \ t.skipped) \cap t.old /\ t.owed # {} BY <2>1
  <2>4. t.at \notin Working BY DEF Working
  <2> QED BY <2>2, <2>3, <2>4 DEF Owes
<1>4. IsFiniteSet(t.skipped) /\ Cardinality(t.skipped) \in Nat
  <2>1. t.skipped \in SUBSET Runs BY DEF Thread
  <2>2. IsFiniteSet(t.skipped) BY <2>1, RetentionAssumption, FS_Subset DEF RetentionAssumption
  <2> QED BY <2>2, FS_CardinalityType
<1>5. Cardinality(page) <= Cardinality(t.skipped) BY <1>3, <1>4, FS_Subset
<1> QED BY <1>2, <1>4, <1>5, RetentionAssumption DEF Page, RetentionAssumption

\* The steps of the worker itself.
LEMMA OwnDuty ==
  ASSUME DutyInv, NEW w \in Workers,
         \/ StartJob(w) \/ JobStep(w) \/ ReleaseJob(w) \/ FailRun(w) \/ Crash(w)
  PROVE  Owes(mover[w])'
<1>w. w \in Movers /\ w \notin Withdrawals BY RetentionAssumption DEF Movers, RetentionAssumption
<1>0. PICK t : t = mover[w] OBVIOUS
<1>m. Typed /\ t \in Thread /\ Sound(t) /\ Owes(t)
  <2>1. Owes(mover[w]) BY DEF DutyInv
  <2>2. Owes(t) BY <1>0, <2>1 DEF Owes
  <2> QED BY <1>0, <1>w, <2>2 DEF DutyInv, Typed, MoversSound, Sound
<1>e. \A s : mover' = [mover EXCEPT ![w] = s] => s = mover'[w] BY <1>w, <1>m DEF Typed, MoversSound
<1>f. \A s : (mover' = [mover EXCEPT ![w] = s] /\ Owes(s)') => Owes(mover[w])'
  <2> SUFFICES ASSUME NEW s, mover' = [mover EXCEPT ![w] = s], Owes(s)' PROVE Owes(mover[w])' OBVIOUS
  <2> QED BY <1>e, OwesLater
<1>i. mover' = [mover EXCEPT ![w] = Idle] => Owes(mover[w])'
  <2>1. Owes(Idle)' BY DEF Owes, Idle, Working
  <2> QED BY <1>f, <2>1
<1>b. t.owed \subseteq Runs /\ t.seen \subseteq Runs /\ (t.at \in Working => t.run \in Runs) BY <1>m DEF Thread, Sound, Working
\* A step that only moves on keeps what is owed, except at the turn to the requests.
<1>p. ASSUME NEW s, mover' = [mover EXCEPT ![w] = s], StayWanted(Runs), StayClear,
             s.seen = t.seen, s.skipped = t.skipped, s.old = t.old, s.owed = t.owed, s.run = t.run, s.gone = t.gone,
             t.at \notin Working, s.at \notin Working,
             s.at \in {"requests", "count", "finish"} => t.owed \subseteq t.seen
      PROVE  Owes(mover[w])'
  <2>1. Owes(s)' BY <1>m, <1>b, <1>p DEF Owes, StayWanted, StayClear, Working
  <2> QED BY <1>f, <1>p, <2>1
<1>s. ASSUME t.at \in Working, Skip(w), UNCHANGED <<rowVars, leaseVars>> PROVE Owes(mover[w])'
  <2> DEFINE s == [t EXCEPT !.at = "release", !.skipped = @ \cup {t.run}]
  <2>1. mover' = [mover EXCEPT ![w] = s] BY <1>0, <1>s DEF Skip
  <2>2. s.at = "release" /\ s.seen = t.seen /\ s.skipped = t.skipped \cup {t.run} /\ s.old = t.old /\ s.owed = t.owed
    BY <1>m DEF Thread
  <2>3. StayWanted(Runs) /\ StayClear BY <1>s, SameRows
  <2> HIDE DEF s
  <2>4. Owes(s)' BY <1>m, <1>b, <1>s, <2>2, <2>3 DEF Owes, StayWanted, StayClear, Working
  <2> QED BY <1>f, <2>1, <2>4
<1>1. CASE StartJob(w)
  <2>1. PICK a, o : a = aged /\ o = Targets(aged) OBVIOUS
  <2> DEFINE s == [Idle EXCEPT !.at = "batch", !.old = a, !.owed = o]
  <2>2. mover' = [mover EXCEPT ![w] = s] /\ UNCHANGED <<rowVars, leaseVars>> BY <1>1, <2>1 DEF StartJob
  <2>3. \A r \in o : r \in a /\ Wanted(r) /\ r \in Runs
    <3>1. aged \subseteq Runs BY <1>m DEF Typed, TypeOK
    <3> QED BY <2>1, <3>1, TargetsWanted
  <2>4. StayWanted(Runs) BY <2>2, SameRows
  <2>5. s.at = "batch" /\ s.seen = {} /\ s.skipped = {} /\ s.old = a /\ s.owed = o BY DEF Idle
  <2> HIDE DEF s
  <2>6. Owes(s)' BY <2>3, <2>4, <2>5 DEF Owes, StayWanted, Working
  <2> QED BY <1>f, <2>2, <2>6
<1>2. CASE NextBatch(w)
  <2>1. PICK page \in Firsts(Targets(t.old), Page(t.skipped)) :
          LET new == page \ t.seen IN
          IF new = {} THEN Move(w, "requests")
          ELSE \E q \in Firsts(new, BatchSize) : mover' = [mover EXCEPT ![w].at = "run", ![w].queue = q]
    BY <1>0, <1>2 DEF NextBatch
  <2>2. t.at = "batch" /\ StayWanted(Runs) /\ StayClear BY <1>0, <1>2, SameRows DEF NextBatch, At
  <2>3. CASE page \ t.seen = {}
    <3> DEFINE s == [t EXCEPT !.at = "requests"]
    <3>1. mover' = [mover EXCEPT ![w] = s] BY <1>0, <2>1, <2>3 DEF Move
    <3>2. t.owed \subseteq t.seen BY <1>m, <2>1, <2>2, <2>3, NothingLeft
    <3>3. /\ s.at = "requests" /\ s.seen = t.seen /\ s.skipped = t.skipped /\ s.old = t.old /\ s.owed = t.owed
          /\ s.run = t.run
      BY <1>m DEF Thread
    <3>4. s.gone = t.gone BY <1>m DEF Thread
    <3> QED BY <1>p, <2>2, <3>1, <3>2, <3>3, <3>4 DEF Working
  <2>4. CASE page \ t.seen # {}
    <3>0. PICK q : mover' = [mover EXCEPT ![w].at = "run", ![w].queue = q] BY <2>1, <2>4
    <3> DEFINE s == [t EXCEPT !.at = "run", !.queue = q]
    <3>1. mover' = [mover EXCEPT ![w] = s] BY <1>0, <3>0
    <3>3. s.at = "run" /\ s.seen = t.seen /\ s.skipped = t.skipped /\ s.old = t.old /\ s.owed = t.owed /\ s.run = t.run
      BY <1>m DEF Thread
    <3>4. s.gone = t.gone BY <1>m DEF Thread
    <3> QED BY <1>p, <2>2, <3>1, <3>3, <3>4 DEF Working
  <2> QED BY <2>3, <2>4
<1>3. CASE AcquireRun(w)
  <2>1. PICK r \in t.queue :
          LET u == [t EXCEPT !.queue = @ \ {r}, !.seen = @ \cup {r}] IN
          IF FreeFor(w, r)
          THEN /\ lease' = [lease EXCEPT ![r] = w] /\ live' = live \cup {r}
               /\ mover' = Takes(w, [u EXCEPT !.at = "load", !.run = r], r)
          ELSE mover' = [mover EXCEPT ![w] = [u EXCEPT !.skipped = @ \cup {r}]] /\ UNCHANGED leaseVars
    BY <1>0, <1>3 DEF AcquireRun
  <2>2. t.at = "run" /\ r \in Runs /\ UNCHANGED rowVars BY <1>0, <1>3, <1>m, <2>1 DEF AcquireRun, At, Thread
  <2>3. CASE FreeFor(w, r)
    <3> DEFINE s == [t EXCEPT !.queue = @ \ {r}, !.seen = @ \cup {r}, !.at = "load", !.run = r]
    <3>1. s = mover'[w] BY <1>w, <2>1, <2>3 DEF Takes
    <3>2. StayWanted(Runs \ {r}) /\ StayClear BY <1>m, <2>1, <2>2, <2>3, AcquireRows
    <3>3. /\ s.at = "load" /\ s.seen = t.seen \cup {r} /\ s.skipped = t.skipped /\ s.old = t.old /\ s.owed = t.owed
          /\ s.run = r
      BY <1>m DEF Thread
    <3> HIDE DEF s
    <3>4. Owes(s)' BY <1>m, <1>b, <2>2, <3>2, <3>3 DEF Owes, StayWanted, StayClear, Working
    <3> QED BY <3>1, <3>4, OwesLater
  <2>4. CASE ~FreeFor(w, r)
    <3> DEFINE s == [t EXCEPT !.queue = @ \ {r}, !.seen = @ \cup {r}, !.skipped = @ \cup {r}]
    <3>1. mover' = [mover EXCEPT ![w] = s] /\ UNCHANGED leaseVars BY <2>1, <2>4
    <3>2. StayWanted(Runs) /\ StayClear BY <2>2, <3>1, SameRows
    <3>3. /\ s.at = "run" /\ s.seen = t.seen \cup {r} /\ s.skipped = t.skipped \cup {r} /\ s.old = t.old /\ s.owed = t.owed
      BY <1>m, <2>2 DEF Thread
    <3> HIDE DEF s
    <3>4. Owes(s)' BY <1>m, <1>b, <2>2, <3>2, <3>3 DEF Owes, StayWanted, StayClear, Working
    <3> QED BY <1>f, <3>1, <3>4
  <2> QED BY <2>3, <2>4
<1>4. CASE LoadRun(w)
  <2>1. t.at = "load" /\ UNCHANGED <<rowVars, leaseVars>> BY <1>0, <1>4 DEF LoadRun, At
  <2>2. CASE Skip(w) BY <1>s, <2>1, <2>2 DEF Working
  <2>3. CASE ~Skip(w)
    <3>0. PICK n : mover' = [mover EXCEPT ![w].at = "look", ![w].part = n] BY <1>4, <2>3 DEF LoadRun
    <3> DEFINE s == [t EXCEPT !.at = "look", !.part = n]
    <3>1. mover' = [mover EXCEPT ![w] = s] BY <1>0, <3>0
    <3>2. StayWanted(Runs) /\ StayClear BY <2>1, SameRows
    <3>3. s.at = "look" /\ s.seen = t.seen /\ s.skipped = t.skipped /\ s.old = t.old /\ s.owed = t.owed /\ s.run = t.run
      BY <1>m DEF Thread
    <3> HIDE DEF s
    <3>4. Owes(s)' BY <1>m, <1>b, <2>1, <3>2, <3>3 DEF Owes, StayWanted, StayClear, Working
    <3> QED BY <1>f, <3>1, <3>4
  <2> QED BY <2>2, <2>3
<1>5. CASE LookAtPointers(w)
  <2>1. t.at = "look" /\ UNCHANGED <<rowVars, leaseVars>> BY <1>0, <1>5 DEF LookAtPointers, At
  <2>2. PICK g : g = (t.run \notin pointers) OBVIOUS
  <2> DEFINE s == [t EXCEPT !.at = "gather", !.gone = g]
  <2>3. mover' = [mover EXCEPT ![w] = s] BY <1>0, <1>5, <2>2 DEF LookAtPointers
  <2>4. StayWanted(Runs) /\ StayClear BY <2>1, SameRows
  <2>5. s.at = "gather" /\ s.seen = t.seen /\ s.skipped = t.skipped /\ s.old = t.old /\ s.owed = t.owed /\ s.run = t.run
    BY <1>m DEF Thread
  <2>6. s.gone = g BY <1>m DEF Thread
  <2>7. ~s.gone => Shown(t.run) BY <2>2, <2>6 DEF Shown
  <2> HIDE DEF s
  <2>8. Owes(s)' BY <1>m, <1>b, <2>1, <2>4, <2>5, <2>7 DEF Owes, StayWanted, StayClear, Working
  <2> QED BY <1>f, <2>3, <2>8
<1>6. CASE Gather(w)
  <2>1. t.at = "gather" /\ UNCHANGED <<rowVars, leaseVars>> BY <1>0, <1>6 DEF Gather, At
  <2>2. CASE Skip(w) BY <1>s, <2>1, <2>2 DEF Working
  <2>3. CASE ~Skip(w)
    <3>0. PICK n : mover' = [mover EXCEPT ![w].at = "retire", ![w].count = n] BY <1>6, <2>3 DEF Gather
    <3> DEFINE s == [t EXCEPT !.at = "retire", !.count = n]
    <3>1. mover' = [mover EXCEPT ![w] = s] BY <1>0, <3>0
    <3>2. StayWanted(Runs) /\ StayClear BY <2>1, SameRows
    <3>3. s.at = "retire" /\ s.seen = t.seen /\ s.skipped = t.skipped /\ s.old = t.old /\ s.owed = t.owed /\ s.run = t.run
      BY <1>m DEF Thread
    <3>g. s.gone = t.gone BY <1>m DEF Thread
    <3> HIDE DEF s
    <3>5. ~s.gone => ~t.gone BY <3>g
    <3>4. Owes(s)' BY <1>m, <1>b, <2>1, <3>2, <3>3, <3>5 DEF Owes, StayWanted, StayClear, Working
    <3> QED BY <1>f, <3>1, <3>4
  <2> QED BY <2>2, <2>3
<1>7. CASE Retire(w)
  <2>1. t.at = "retire" /\ t.run \in Runs BY <1>0, <1>7, <1>b DEF Retire, At, Working
  <2>2. CASE Holds(w, t.run)
    <3> DEFINE s == [t EXCEPT !.at = "release"]
    <3>1. RetireRun(w, t.run) /\ mover' = Takes(w, s, t.run) BY <1>0, <1>7, <2>2 DEF Retire
    <3>2. s = mover'[w] BY <1>w, <3>1 DEF Takes
    <3>3. s.at = "release" /\ s.seen = t.seen /\ s.skipped = t.skipped /\ s.old = t.old /\ s.owed = t.owed BY <1>m DEF Thread
    <3>4. StayWanted(Runs \ {t.run}) /\ StayClear BY <1>m, <1>w, <2>1, <3>1, RetireRows
    <3>5. t.owed # {} => Clear(t.run)'
      <4>1. mover[w].gone \/ Shown(t.run) => Clear(t.run)' BY <1>m, <1>w, <2>1, <3>1, RetireRows
      <4>2. t.owed # {} => mover[w].gone \/ Shown(t.run) BY <1>m, <1>0, <2>1 DEF Owes
      <4> QED BY <4>1, <4>2
    <3>6. t.run \in t.seen BY <1>m, <2>1 DEF Owes, Working
    <3> HIDE DEF s
    <3>7. Owes(s)' BY <1>m, <1>b, <2>1, <3>3, <3>4, <3>5, <3>6 DEF Owes, StayWanted, StayClear, Working
    <3> QED BY <3>2, <3>7, OwesLater
  <2>3. CASE ~Holds(w, t.run)
    <3>1. Skip(w) /\ UNCHANGED <<rowVars, leaseVars>> BY <1>0, <1>7, <2>3 DEF Retire
    <3> QED BY <1>s, <2>1, <3>1 DEF Working
  <2> QED BY <2>2, <2>3
<1>8. CASE Release(w)
  <2>1. t.at = "release" /\ UNCHANGED rowVars /\ ReleaseRun(w, t.run) BY <1>0, <1>8 DEF Release, At
  <2> DEFINE s == [t EXCEPT !.at = "run", !.run = NoRun, !.count = 0, !.part = 0, !.gone = FALSE]
  <2>2. mover' = [mover EXCEPT ![w] = s] BY <1>0, <1>8 DEF Release
  <2>3. StayWanted(Runs) /\ StayClear BY <1>m, <2>1, FreeRows
  <2>4. s.at = "run" /\ s.seen = t.seen /\ s.skipped = t.skipped /\ s.old = t.old /\ s.owed = t.owed BY <1>m DEF Thread
  <2> HIDE DEF s
  <2>5. Owes(s)' BY <1>m, <1>b, <2>1, <2>3, <2>4 DEF Owes, StayWanted, StayClear, Working
  <2> QED BY <1>f, <2>2, <2>5
<1>9. CASE NextRequests(w)
  <2>1. t.at = "requests" /\ StayWanted(Runs) /\ StayClear BY <1>0, <1>9, SameRows DEF NextRequests, At
  <2>2. t.owed \subseteq t.seen BY <1>m, <2>1 DEF Owes
  <2>3. Move(w, "finish") \/ \E q : mover' = [mover EXCEPT ![w].at = "count", ![w].asked = q] BY <1>9 DEF NextRequests
  <2>4. CASE Move(w, "finish")
    <3> DEFINE s == [t EXCEPT !.at = "finish"]
    <3>1. mover' = [mover EXCEPT ![w] = s] BY <1>0, <2>4 DEF Move
    <3>3. s.at = "finish" /\ s.seen = t.seen /\ s.skipped = t.skipped /\ s.old = t.old /\ s.owed = t.owed /\ s.run = t.run
      BY <1>m DEF Thread
    <3>4. s.gone = t.gone BY <1>m DEF Thread
    <3> QED BY <1>p, <2>1, <2>2, <3>1, <3>3, <3>4 DEF Working
  <2>5. CASE ~Move(w, "finish")
    <3>0. PICK q : mover' = [mover EXCEPT ![w].at = "count", ![w].asked = q] BY <2>3, <2>5
    <3> DEFINE s == [t EXCEPT !.at = "count", !.asked = q]
    <3>1. mover' = [mover EXCEPT ![w] = s] BY <1>0, <3>0
    <3>3. s.at = "count" /\ s.seen = t.seen /\ s.skipped = t.skipped /\ s.old = t.old /\ s.owed = t.owed /\ s.run = t.run
      BY <1>m DEF Thread
    <3>4. s.gone = t.gone BY <1>m DEF Thread
    <3> QED BY <1>p, <2>1, <2>2, <3>1, <3>3, <3>4 DEF Working
  <2> QED BY <2>4, <2>5
<1>10. CASE RetireRequests(w)
  <2>1. t.at = "count" /\ StayWanted(Runs) /\ StayClear BY <1>0, <1>10, SameRows DEF RetireRequests, At
  <2>2. t.owed \subseteq t.seen BY <1>m, <2>1 DEF Owes
  <2>3. PICK f : mover' = [mover EXCEPT ![w] = [t EXCEPT !.at = "requests", !.asked = {}, !.failed = f]]
    <3>1. \/ mover' = [mover EXCEPT ![w] = [t EXCEPT !.at = "requests", !.asked = {}]]
          \/ mover' = [mover EXCEPT ![w] = [t EXCEPT !.at = "requests", !.asked = {}, !.failed = @ \cup t.asked]]
      BY <1>0, <1>10 DEF RetireRequests
    <3>2. [t EXCEPT !.at = "requests", !.asked = {}] = [t EXCEPT !.at = "requests", !.asked = {}, !.failed = t.failed]
      BY <1>m DEF Thread
    <3>3. [t EXCEPT !.at = "requests", !.asked = {}, !.failed = @ \cup t.asked]
          = [t EXCEPT !.at = "requests", !.asked = {}, !.failed = t.failed \cup t.asked]
      BY <1>m DEF Thread
    <3> QED BY <3>1, <3>2, <3>3
  <2> DEFINE s == [t EXCEPT !.at = "requests", !.asked = {}, !.failed = f]
  <2>4. s.at = "requests" /\ s.seen = t.seen /\ s.skipped = t.skipped /\ s.old = t.old /\ s.owed = t.owed /\ s.run = t.run
    BY <1>m DEF Thread
  <2>5. s.gone = t.gone BY <1>m DEF Thread
  <2> QED BY <1>p, <2>1, <2>2, <2>3, <2>4, <2>5 DEF Working
<1>11. CASE EndBatch(w)
  <2>1. t.at = "run" /\ StayWanted(Runs) /\ StayClear BY <1>0, <1>11, SameRows DEF EndBatch, At
  <2> DEFINE s == [t EXCEPT !.at = "batch"]
  <2>2. mover' = [mover EXCEPT ![w] = s] BY <1>0, <1>11 DEF EndBatch, Move
  <2>3. s.at = "batch" /\ s.seen = t.seen /\ s.skipped = t.skipped /\ s.old = t.old /\ s.owed = t.owed /\ s.run = t.run
    BY <1>m DEF Thread
  <2>4. s.gone = t.gone BY <1>m DEF Thread
  <2> QED BY <1>p, <2>1, <2>2, <2>3, <2>4 DEF Working
<1>12. CASE FailRun(w) BY <1>0, <1>12, <1>s DEF FailRun, At, Working
<1>13. CASE JobLost(w) \/ FinishJob(w) \/ ReleaseJob(w) \/ Crash(w)
  BY <1>13, <1>i DEF JobLost, FinishJob, ReleaseJob, Crash
<1> QED BY <1>1, <1>2, <1>3, <1>4, <1>5, <1>6, <1>7, <1>8, <1>9, <1>10, <1>11, <1>12, <1>13 DEF JobStep

\* Every step keeps what the workers owe.
LEMMA NextDuty == DutyInv /\ [Next]_vars => \A w \in Workers : Owes(mover[w])'
<1> SUFFICES ASSUME DutyInv, [Next]_vars, NEW w \in Workers PROVE Owes(mover[w])' OBVIOUS
<1>m. Typed /\ mover = [m \in Movers |-> mover[m]] /\ (\A m \in Movers : Sound(mover[m]) /\ mover[m] \in Thread)
  BY DEF DutyInv, Typed, MoversSound, Sound
<1>w. w \in Movers /\ w \notin Withdrawals /\ Workers \subseteq Movers /\ Withdrawals \subseteq Movers
  BY RetentionAssumption DEF Movers, RetentionAssumption
<1>u. ASSUME UNCHANGED <<rowVars, leaseVars>>, mover'[w] = mover[w] PROVE Owes(mover[w])' BY <1>u, SameRows, SameOwe
<1>t. ASSUME NEW m \in Movers \ {w}, NEW r \in Runs, NEW s, mover' = Takes(m, s, r),
             StayWanted(Runs \ {r}), StayClear
      PROVE  Owes(mover[w])'
  <2>1. mover'[w] = [mover[w] EXCEPT !.owed = @ \ {r}] BY <1>t, <1>w DEF Takes
  <2> QED BY <1>t, <2>1, OthersOwe
<1>1. ASSUME NEW m \in Movers \ {w},
             \/ StartJob(m) \/ NextBatch(m) \/ JobLost(m) \/ EndBatch(m) \/ LoadRun(m) \/ LookAtPointers(m)
             \/ NextRequests(m) \/ RetireRequests(m) \/ FinishJob(m) \/ ReleaseJob(m) \/ Gather(m)
             \/ FailRun(m) \/ Crash(m) \/ BeginWithdrawal(m) \/ WithdrawRequests(m) \/ WithdrawCount(m)
      PROVE  Owes(mover[w])'
  <2>1. UNCHANGED <<rowVars, leaseVars>>
    BY <1>1 DEF StartJob, NextBatch, JobLost, EndBatch, LoadRun, LookAtPointers, NextRequests, RetireRequests, FinishJob,
       ReleaseJob, Gather, FailRun, Crash, BeginWithdrawal, WithdrawRequests, WithdrawCount
  <2>2. mover'[w] = mover[w]
    BY <1>1, <1>m, <1>w DEF StartJob, NextBatch, JobLost, EndBatch, LoadRun, LookAtPointers, NextRequests, RetireRequests,
       FinishJob, ReleaseJob, Gather, FailRun, Crash, BeginWithdrawal, WithdrawRequests, WithdrawCount, Move, Skip
  <2> QED BY <1>u, <2>1, <2>2
<1>2. ASSUME NEW m \in Movers \ {w}, Release(m) \/ WithdrawLoad(m) PROVE Owes(mover[w])'
  <2>1. UNCHANGED rowVars /\ (ReleaseRun(m, mover[m].run) \/ UNCHANGED leaseVars) BY <1>2 DEF Release, WithdrawLoad
  <2>2. mover'[w] = mover[w] BY <1>2, <1>m, <1>w DEF Release, WithdrawLoad
  <2> QED BY <1>m, <2>1, <2>2, FreeRows, SameOwe
<1>3. ASSUME NEW m \in Movers \ {w}, AcquireRun(m) PROVE Owes(mover[w])'
  <2>1. PICK r \in mover[m].queue :
          LET t == [mover[m] EXCEPT !.queue = @ \ {r}, !.seen = @ \cup {r}] IN
          IF FreeFor(m, r)
          THEN /\ lease' = [lease EXCEPT ![r] = m] /\ live' = live \cup {r}
               /\ mover' = Takes(m, [t EXCEPT !.at = "load", !.run = r], r)
          ELSE mover' = [mover EXCEPT ![m] = [t EXCEPT !.skipped = @ \cup {r}]] /\ UNCHANGED leaseVars
    BY <1>3 DEF AcquireRun
  <2>2. r \in Runs /\ UNCHANGED rowVars BY <1>3, <1>m, <2>1 DEF AcquireRun, Thread
  <2>3. CASE FreeFor(m, r) BY <1>m, <1>t, <2>1, <2>2, <2>3, AcquireRows
  <2>4. CASE ~FreeFor(m, r)
    <3>1. UNCHANGED <<rowVars, leaseVars>> /\ mover'[w] = mover[w] BY <1>m, <1>w, <2>1, <2>2, <2>4
    <3> QED BY <1>u, <3>1
  <2> QED BY <2>3, <2>4
<1>4. ASSUME NEW m \in Movers \ {w}, WithdrawRun(m) PROVE Owes(mover[w])'
  <2>1. PICK r \in mover[m].queue :
          LET t == [mover[m] EXCEPT !.queue = @ \ {r}] IN
          IF FreeFor(m, r)
          THEN /\ lease' = [lease EXCEPT ![r] = m] /\ live' = live \cup {r}
               /\ mover' = Takes(m, [t EXCEPT !.at = "load", !.run = r], r)
          ELSE mover' = [mover EXCEPT ![m] = IF r \in present THEN Idle ELSE t] /\ UNCHANGED leaseVars
    BY <1>4 DEF WithdrawRun
  <2>2. r \in Runs /\ UNCHANGED rowVars BY <1>4, <1>m, <2>1 DEF WithdrawRun, Thread
  <2>3. CASE FreeFor(m, r) BY <1>m, <1>t, <2>1, <2>2, <2>3, AcquireRows
  <2>4. CASE ~FreeFor(m, r)
    <3>1. UNCHANGED <<rowVars, leaseVars>> /\ mover'[w] = mover[w] BY <1>m, <1>w, <2>1, <2>2, <2>4
    <3> QED BY <1>u, <3>1
  <2> QED BY <2>3, <2>4
<1>5. ASSUME NEW m \in Movers \ {w}, Retire(m) \/ WithdrawRetire(m) PROVE Owes(mover[w])'
  <2>1. mover[m].run \in Runs BY <1>5, <1>m DEF Retire, WithdrawRetire, At, Sound
  <2>2. CASE Holds(m, mover[m].run)
    <3>1. RetireRun(m, mover[m].run) BY <1>5, <2>2 DEF Retire, WithdrawRetire
    <3>2. PICK s : mover' = Takes(m, s, mover[m].run) BY <1>5, <2>2 DEF Retire, WithdrawRetire
    <3>3. StayWanted(Runs \ {mover[m].run}) /\ StayClear BY <1>m, <2>1, <3>1, RetireRows
    <3>4. PICK r : r = mover[m].run OBVIOUS
    <3>5. r \in Runs /\ mover' = Takes(m, s, r) /\ StayWanted(Runs \ {r}) BY <2>1, <3>2, <3>3, <3>4
    <3> QED BY <1>t, <3>3, <3>5
  <2>3. CASE ~Holds(m, mover[m].run)
    <3>1. UNCHANGED <<rowVars, leaseVars>> /\ mover'[w] = mover[w]
      BY <1>5, <1>m, <1>w, <2>3 DEF Retire, WithdrawRetire, Skip
    <3> QED BY <1>u, <3>1
  <2> QED BY <2>2, <2>3
<1>6. ASSUME NEW v \in Workers, RenewJob(v) PROVE Owes(mover[w])' BY <1>6, <1>u DEF RenewJob
<1>7. ASSUME NEW u \in Users, NEW r \in Runs, Visit(u, r) PROVE Owes(mover[w])'
  <2>1. mover'[w] = [mover[w] EXCEPT !.owed = @ \ {r}] BY <1>7, <1>w DEF Visit
  <2>2. UNCHANGED rowVars /\ lease' = [lease EXCEPT ![r] = u] /\ live' = live \cup {r} BY <1>7 DEF Visit
  <2> QED BY <1>m, <2>1, <2>2, AcquireRows, OthersOwe
<1>8. ASSUME NEW u \in Users, Save(u) PROVE Owes(mover[w])'
  <2>1. PICK r : r = visitor[u] OBVIOUS
  <2>2. ReleaseRun(u, r) BY <1>8, <2>1 DEF Save
  <2>3. CASE ~Holds(u, r)
    <3>1. UNCHANGED rowVars /\ mover'[w] = mover[w] BY <1>8, <2>1, <2>3 DEF Save
    <3> QED BY <1>m, <2>2, <3>1, FreeRows, SameOwe
  <2>4. CASE Holds(u, r)
    <3>1. /\ records' = [records EXCEPT ![r] = @ + 1] /\ UNCHANGED present
          /\ busy' \in {busy \ {r}, busy \cup {r}} /\ pointers' \in {pointers, pointers \cup {r}}
          /\ mover' = [m \in Movers |-> [mover[m] EXCEPT !.old = @ \ {r}, !.owed = @ \ {r}]]
      BY <1>8, <2>1, <2>4 DEF Save
    <3>2. /\ lease \in [Runs -> Owners \cup {Nobody}] /\ records \in [Runs -> Nat]
          /\ pointers \subseteq present /\ present \subseteq Runs
      BY <1>m DEF Typed, TypeOK
    <3>3. \A q \in Runs \ {r} : lease'[q] = lease[q] /\ (q \in live' <=> q \in live)
      BY <2>2, <3>2 DEF ReleaseRun, leaseVars
    <3>4. StayWanted(Runs \ {r}) BY <3>1, <3>2, <3>3 DEF StayWanted, Wanted
    <3>5. \A q \in Runs : Shown(q) => Shown(q)' BY <3>1 DEF Shown
    <3>6. \A q \in Runs \ {r} : Clear(q) => Clear(q)' BY <3>1, <3>2, <3>5 DEF Clear
    <3>7. PICK t : t = mover[w] OBVIOUS
    <3>8. t \in Thread /\ Owes(t)
      <4>1. Owes(mover[w]) BY DEF DutyInv
      <4> QED BY <1>m, <1>w, <3>7, <4>1 DEF Owes
    <3> DEFINE s == [t EXCEPT !.old = @ \ {r}, !.owed = @ \ {r}]
    <3>9. s = mover'[w] BY <1>w, <3>1, <3>7
    <3>10. /\ s.at = t.at /\ s.run = t.run /\ s.seen = t.seen /\ s.skipped = t.skipped
           /\ s.owed = t.owed \ {r} /\ s.old = t.old \ {r}
      BY <3>8 DEF Thread
    <3>11. s.gone = t.gone BY <3>8 DEF Thread
    <3>12. t.owed \subseteq t.old /\ t.owed \subseteq Runs /\ t.seen \subseteq Runs BY <3>8 DEF Owes, Thread
    <3> HIDE DEF s, Wanted, Clear, Shown, Owes
    <3>13. \A q \in s.owed \ t.seen : Wanted(q) => Wanted(q)' BY <3>4, <3>10, <3>12 DEF StayWanted
    <3>14. \A q \in t.seen : (q \in s.old /\ Clear(q) => Clear(q)') /\ (Shown(q) => Shown(q)')
      BY <3>5, <3>6, <3>10, <3>12
    <3>15. s.owed \subseteq t.owed /\ s.old \subseteq t.old /\ s.owed \subseteq s.old BY <3>10, <3>12
    <3>16. Owes(s)' BY <3>8, <3>10, <3>11, <3>13, <3>14, <3>15, OwesLess
    <3> QED BY <3>9, <3>16, OwesLater
  <2> QED BY <2>3, <2>4
<1>9. ASSUME NEW r \in Runs, DeleteArtifacts(r) PROVE Owes(mover[w])'
  <2>1. /\ pointers' = pointers \ {r}
        /\ mover'[w] = IF r \in mover[w].seen THEN [mover[w] EXCEPT !.owed = {}] ELSE mover[w]
        /\ UNCHANGED <<present, busy, records, lease, live>>
    BY <1>9, <1>w DEF DeleteArtifacts, leaseVars
  <2>2. PICK t : t = mover[w] OBVIOUS
  <2>3. t \in Thread /\ Owes(t)
    <3>1. Owes(mover[w]) BY DEF DutyInv
    <3> QED BY <1>m, <1>w, <2>2, <3>1 DEF Owes
  <2>4. \A q : Wanted(q) => Wanted(q)' BY <2>1 DEF Wanted
  <2>5. \A q : q # r => (Clear(q) => Clear(q)') /\ (Shown(q) => Shown(q)') BY <2>1 DEF Clear, Shown
  <2>6. t.owed \subseteq t.old BY <2>3 DEF Owes
  <2> HIDE DEF Wanted, Clear, Shown, Owes
  <2>7. CASE r \in t.seen
    <3> DEFINE s == [t EXCEPT !.owed = {}]
    <3>1. s = mover'[w] BY <2>1, <2>2, <2>7
    <3>2. s.at = t.at /\ s.run = t.run /\ s.seen = t.seen /\ s.skipped = t.skipped /\ s.owed = {} /\ s.old = t.old
      BY <2>3 DEF Thread
    <3>3. s.gone = t.gone BY <2>3 DEF Thread
    <3> HIDE DEF s
    <3>4. Owes(s)' BY <2>3, <3>2, <3>3, OwesLess
    <3> QED BY <3>1, <3>4, OwesLater
  <2>8. CASE r \notin t.seen
    <3>1. t = mover'[w] BY <2>1, <2>2, <2>8
    <3>2. \A q \in t.seen : (q \in t.old /\ Clear(q) => Clear(q)') /\ (Shown(q) => Shown(q)') BY <2>5, <2>8
    <3>3. Owes(t)' BY <2>3, <2>4, <2>6, <3>2, OwesLess
    <3> QED BY <3>1, <3>3, OwesLater
  <2> QED BY <2>7, <2>8
<1>10. ASSUME NEW r \in Runs, Age(r) PROVE Owes(mover[w])'
  <2>1. UNCHANGED <<present, busy, pointers, records, leaseVars, mover>> BY <1>10 DEF Age
  <2>2. StayWanted(Runs) /\ StayClear BY <2>1 DEF leaseVars, StayWanted, StayClear, Wanted, Clear, Shown
  <2> QED BY <2>1, <2>2, SameOwe
<1>11. ASSUME NEW r \in Runs, ExpireRun(r) PROVE Owes(mover[w])'
  <2>1. live' = live \ {r} /\ UNCHANGED <<rowVars, lease, mover>> BY <1>11 DEF ExpireRun
  <2>2. StayWanted(Runs) /\ StayClear BY <2>1 DEF rowVars, StayWanted, StayClear, Wanted, Clear, Shown
  <2> QED BY <2>1, <2>2, SameOwe
<1>12. CASE ExpireJob \/ NextDay \/ UNCHANGED vars BY <1>12, <1>u DEF ExpireJob, NextDay, vars
<1>13. ASSUME NEW v \in Workers, StartJob(v) \/ JobStep(v) \/ ReleaseJob(v) \/ FailRun(v) PROVE Owes(mover[w])'
  <2>1. CASE v = w BY <1>13, <2>1, OwnDuty
  <2>2. CASE v # w
    <3>1. v \in Movers \ {w} BY <1>w, <2>2
    <3> QED BY <1>1, <1>2, <1>3, <1>5, <1>13, <3>1 DEF JobStep
  <2> QED BY <2>1, <2>2
<1>14. ASSUME NEW m \in Movers, Crash(m) PROVE Owes(mover[w])'
  <2>1. CASE m = w BY <1>14, <2>1, OwnDuty
  <2>2. CASE m # w BY <1>1, <1>14, <2>2
  <2> QED BY <2>1, <2>2
<1>15. ASSUME NEW x \in Withdrawals, BeginWithdrawal(x) \/ WithdrawalStep(x) PROVE Owes(mover[w])'
  <2>1. x \in Movers \ {w} BY <1>w
  <2> QED BY <1>1, <1>2, <1>4, <1>5, <1>15, <2>1 DEF WithdrawalStep
<1> QED BY <1>6, <1>7, <1>8, <1>9, <1>10, <1>11, <1>12, <1>13, <1>14, <1>15 DEF Next

\* A job that is written down as finished has moved every run that was a target when it
\* began, but for those it skipped and those another had, although the pages it reads
\* are no snapshot and the runs it skips stay on them (run_retention, retention_run_targets).
THEOREM NothingLeftBehind == Spec => FinishedJobIsComplete
<1> DEFINE Complete == \A w \in Workers :
             FinishJob(w) /\ ~job'.due =>
               \A r \in mover[w].owed \ mover[w].skipped : records[r] = 0 /\ (r \in present => r \in pointers)
<1>1. DutyInv /\ [Next]_vars => [Complete]_vars
  <2> SUFFICES ASSUME DutyInv, NEW w \in Workers, FinishJob(w), NEW r \in mover[w].owed \ mover[w].skipped
               PROVE  records[r] = 0 /\ (r \in present => r \in pointers)
    OBVIOUS
  <2>1. Owes(mover[w]) /\ mover[w].at = "finish" BY DEF DutyInv, FinishJob, At
  <2>2. mover[w].owed \subseteq mover[w].seen /\ mover[w].owed \subseteq mover[w].old BY <2>1 DEF Owes
  <2>3. r \in (mover[w].seen \ mover[w].skipped) \cap mover[w].old /\ mover[w].owed # {} BY <2>2
  <2>4. mover[w].at \notin Working BY <2>1 DEF Working
  <2>5. Clear(r) BY <2>1, <2>3, <2>4 DEF Owes
  <2> QED BY <2>5 DEF Clear, Shown
<1>2. Init => DutyInv
  <2> SUFFICES ASSUME Init PROVE DutyInv OBVIOUS
  <2>1. \A w \in Workers : mover[w] = Idle BY DEF Init, Movers
  <2>2. Owes(Idle) BY DEF Owes, Idle, Working
  <2>3. \A w \in Workers : Owes(mover[w]) BY <2>1, <2>2 DEF Owes
  <2> QED BY <2>3, InitTyped DEF DutyInv
<1>3. DutyInv /\ [Next]_vars => DutyInv'
  <2> SUFFICES ASSUME DutyInv, [Next]_vars PROVE DutyInv' OBVIOUS
  <2>1. Typed' BY NextTyped DEF DutyInv
  <2>2. \A w \in Workers : Owes(mover[w])' BY NextDuty
  <2> QED BY <2>1, <2>2 DEF DutyInv
<1> QED BY <1>1, <1>2, <1>3, PTL DEF Spec, FinishedJobIsComplete
=============================================================================
