------------------------- MODULE ReworkCycle_proofs -------------------------
(***************************************************************************)
(* What ReworkCycle guarantees for any form, any bundles and any chances:  *)
(* the types, that the plan and the product a user looks at are the ones   *)
(* that were verified, that a rework makes nothing else than was chosen,   *)
(* that a mark of verify-1 always has its step, that a segment runs out of *)
(* steps, and that a rework is all or nothing (ReworkPromise).             *)
(*                                                                         *)
(* All of it follows from one invariant, IInv.  Its core is QueueInv: a    *)
(* queue is in the order of its ranks, and with a task it has every task   *)
(* that puts together, judges or compares what that task changes.          *)
(***************************************************************************)
EXTENDS ReworkCycle, TLAPS

-----------------------------------------------------------------------------
(* The queue *)

\* The place of a task in every queue.
Rank(t) ==
  CASE t = "T-W1" -> 1 [] t = "T-W2" -> 2 [] t = "T-W3" -> 3 [] t = "M-1" -> 4 [] t = "T-V1" -> 5
    [] t = "T-B1" -> 6 [] t = "T-B2" -> 7 [] t = "M-2" -> 8 [] t = "G-04" -> 9 [] t = "M-3" -> 10
    [] t = "T-V2" -> 11 [] t = "CYCLE-END" -> 12 [] t = "G-02a" -> 13 [] t = "G-02b" -> 14
    [] t = "T-C4" -> 15 [] OTHER -> 16

Ordered(q) == \A i, j \in 1..Len(q) : i < j => Rank(q[i]) < Rank(q[j])
In(t, q) == \E i \in 1..Len(q) : q[i] = t
Due(t) == In(t, queue)

Writers == {"T-W1", "T-W2", "T-W3"}
DocTasks == Writers \cup {"M-1", "T-V1"}
FirstPlaces == {"write", "screen6"}
ProductPlaces == {"build", "screen8", "screen9"}

\* The tasks a queue can have.
Possible ==
  (IF place \in FirstPlaces THEN DocTasks \cup {"CYCLE-END", "G-02a"}
   ELSE IF place \in ProductPlaces
   THEN Tasks \ ({"G-02a", "T-C4"} \cup (IF category = "onepage" THEN {"T-B1"} ELSE {"M-2"}))
   ELSE {"T-C4"})
     \ (IF cycle = NoCycle THEN {"CYCLE-END"} ELSE {})

\* What a task changes is put together, judged and compared by later ones.
Brings(t) ==
  (IF t \in Writers THEN {"M-1"} ELSE {})
    \cup (IF t \in {"T-W1", "T-W2"} THEN {"T-V1"} ELSE {})
    \cup (IF place \in FirstPlaces /\ t # "G-02a" THEN {"G-02a"} ELSE {})
    \cup (IF place \in ProductPlaces /\ t # "G-02b" THEN {"G-02b"} ELSE {})
    \cup (IF place \in ProductPlaces /\ Rank(t) < Rank("T-V2") THEN {"T-V2"} ELSE {})
    \cup (IF place \in ProductPlaces /\ t \in DocTasks
          THEN IF category = "onepage" THEN {"T-B2", "M-2"} ELSE {"T-B1"} ELSE {})
    \cup (IF place \in ProductPlaces /\ t = "T-B2" /\ category = "onepage" THEN {"M-2"} ELSE {})
    \cup (IF cycle # NoCycle /\ Rank(t) < Rank("CYCLE-END") THEN {"CYCLE-END"} ELSE {})

\* What a step of the flow finds in the queue.
QueueInv ==
  /\ Ordered(queue)
  /\ progress # "run" => queue = <<>>
  /\ \A t \in Tasks : Due(t) => t \in Possible /\ \A u \in Brings(t) : Due(u)
  /\ Due("T-W3") => Due("T-V1") \/ Phase = "replace"

\* The rework under way, and what verify-1 has sent back.
CycleInv ==
  /\ progress = "run" /\ cycle = NoCycle => place \in {"write", "build", "result"}
  /\ cycle # NoCycle => /\ progress = "run" /\ place = cycle.screen
                        /\ cycle.bundles # {} /\ \A b \in cycle.bundles : remaining[b] < PerBundle
                        /\ cycle.open => shown = cycle.snapshot /\ verify1.phase = "none"
MarkInv ==
  /\ verify1.phase = "none" <=> verify1.pending = {}
  /\ verify1.phase # "none" =>
       /\ progress = "run" /\ verify1.key = Key
       /\ verify1.phase = "redo" => Due("T-V1")
       /\ verify1.phase = "replace" => Due("M-1")
       /\ cycle # NoCycle => /\ verify1.pending \subseteq ItemsIn(cycle.bundles)
                             /\ verify1.phase = "redo" => verify1.made \subseteq ItemsIn(cycle.bundles)

-----------------------------------------------------------------------------
(* The artifacts *)

Live == progress \in {"run", "user_wait"}
Begun == Live /\ (progress = "run" \/ place # "write")

Sections == {i \in Items : Kind[i] = "section"}

\* The plan has the newest sections from the first writing on.
SectionsInPlan == \A i \in Sections : PlanBody[i] = shown.text[i]

Merged(s) == s.plan = [body |-> s.text, merged |-> TRUE]
ScoredAsWritten(s) ==
  s.docScore # Absent /\ \A i \in Items \ s.replaced : s.docScore.body[i] = s.text[i]
Built(s) ==
  IF category = "onepage" THEN s.infographic # Absent /\ s.infographic.body = s.plan.body
                          ELSE s.infographic # Absent
Wrapped(s) ==
  /\ s.prototype # Absent
  /\ s.prototype.body = (IF category = "onepage" THEN s.infographic.body ELSE s.plan.body)
  /\ category = "onepage" => s.prototype.made = s.infographic.made
ScoredAsBuilt(s) ==
  /\ s.artifactScore # Absent
  /\ s.artifactScore.prototype = s.prototype /\ s.artifactScore.infographic = s.infographic
Reported(s) == s.report = [doc |-> s.docScore, artifact |-> s.artifactScore]

\* Each part of what is shown holds once the step that sees to it is done.
DocInv ==
  Begun =>
    /\ ~Due("M-1") => Merged(shown)
    /\ ~Due("T-V1") => ScoredAsWritten(shown)
    /\ place \in FirstPlaces /\ ~Due("G-02a") => shown.docReport = shown.docScore
    /\ place \notin FirstPlaces => shown.docReport # Absent
ProductInv ==
  Live /\ place \in ProductPlaces =>
    /\ ~Due("T-B2") => Built(shown)
    /\ ~Due("T-B1") /\ ~Due("M-2") => Wrapped(shown)
    /\ Due("M-2") /\ ~Due("T-B2") => shown.infographic.made = Key
    /\ ~Due("T-V2") => ScoredAsBuilt(shown)
    /\ ~Due("G-02b") => Reported(shown)

\* What the user saw when the rework was opened.
Whole(s, screen) ==
  /\ Merged(s) /\ ScoredAsWritten(s) /\ s.docReport # Absent
  /\ screen = "screen6" => s.docReport = s.docScore
  /\ screen # "screen6" => Built(s) /\ Wrapped(s) /\ ScoredAsBuilt(s) /\ Reported(s)

ProductKeys == {"prototype", "infographic", "artifactScore", "report"}
Layers == {"docScore", "artifactScore"}
Total(s) == LayerTotal(s.docScore) + LayerTotal(s.artifactScore)

\* What a rework may have done by now.
SnapshotInv ==
  cycle # NoCycle =>
    /\ Whole(cycle.snapshot, cycle.screen)
    /\ cycle.screen = "screen6" => \A k \in ProductKeys : shown[k] = cycle.snapshot[k]
    /\ \A k \in Layers : Changed(k) \/ shown[k] = cycle.snapshot[k]
    /\ ~Due("CYCLE-END") => Total(shown) >= Total(cycle.snapshot)
    /\ \A i \in Items \ ItemsIn(cycle.bundles) : shown.text[i] = cycle.snapshot.text[i]

IInv == TypeOK /\ QueueInv /\ CycleInv /\ MarkInv /\ SectionsInPlan /\ DocInv /\ ProductInv /\ SnapshotInv

-----------------------------------------------------------------------------
(* Queues *)

\* Every task has a rank of its own.
LEMMA RankIsPlace ==
  /\ \A t \in Tasks : Rank(t) \in 1..15
  /\ \A t, u \in Tasks : Rank(t) = Rank(u) => t = u
<1>1. \A t \in Tasks : Rank(t) \in 1..15 BY DEF Tasks, Rank
<1>2. \A t, u \in Tasks : Rank(t) = Rank(u) => t = u BY DEF Tasks, Rank
<1> QED BY <1>1, <1>2

\* A queue of tasks, in order.
Queue(q) == q \in Seq(Tasks) /\ Ordered(q)

\* Two queues, one before the other, make one.
LEMMA Joined ==
  ASSUME NEW a, NEW b, Queue(a), Queue(b),
         \A i \in 1..Len(a), j \in 1..Len(b) : Rank(a[i]) < Rank(b[j])
  PROVE  Queue(a \o b) /\ \A u : In(u, a \o b) <=> In(u, a) \/ In(u, b)
<1> DEFINE c == a \o b
<1>1. /\ a \in Seq(Tasks) /\ b \in Seq(Tasks) /\ c \in Seq(Tasks)
      /\ Len(a) \in Nat /\ Len(b) \in Nat /\ Len(c) = Len(a) + Len(b)
  BY DEF Queue
<1>2. \A i \in 1..Len(c) : c[i] = IF i <= Len(a) THEN a[i] ELSE b[i - Len(a)]
  BY <1>1
<1> HIDE DEF c
<1>3. Ordered(c)
  <2> SUFFICES ASSUME NEW i \in 1..Len(c), NEW j \in 1..Len(c), i < j
               PROVE  Rank(c[i]) < Rank(c[j])
    BY DEF Ordered
  <2>1. CASE j <= Len(a)
    <3>1. i \in 1..Len(a) /\ j \in 1..Len(a) BY <1>1, <2>1
    <3>2. c[i] = a[i] /\ c[j] = a[j] BY <1>1, <1>2, <2>1
    <3> QED BY <3>1, <3>2 DEF Queue, Ordered
  <2>2. CASE i <= Len(a) /\ ~(j <= Len(a))
    <3>1. i \in 1..Len(a) /\ j - Len(a) \in 1..Len(b) BY <1>1, <2>2
    <3>2. c[i] = a[i] /\ c[j] = b[j - Len(a)] BY <1>1, <1>2, <2>2
    <3> QED BY <3>1, <3>2
  <2>3. CASE ~(i <= Len(a))
    <3>1. i - Len(a) \in 1..Len(b) /\ j - Len(a) \in 1..Len(b) /\ i - Len(a) < j - Len(a)
      BY <1>1, <2>3
    <3>2. c[i] = b[i - Len(a)] /\ c[j] = b[j - Len(a)] BY <1>1, <1>2, <2>3
    <3> QED BY <3>1, <3>2 DEF Queue, Ordered
  <2> QED BY <1>1, <2>1, <2>2, <2>3
<1>4. ASSUME NEW u PROVE In(u, c) <=> In(u, a) \/ In(u, b)
  <2>1. ASSUME In(u, c) PROVE In(u, a) \/ In(u, b)
    <3>1. PICK i \in 1..Len(c) : c[i] = u BY <2>1 DEF In
    <3>2. CASE i <= Len(a) BY <1>1, <1>2, <3>1, <3>2 DEF In
    <3>3. CASE ~(i <= Len(a))
      <4>1. i - Len(a) \in 1..Len(b) BY <1>1, <3>1, <3>3
      <4>2. b[i - Len(a)] = u BY <1>2, <3>1, <3>3
      <4> QED BY <4>1, <4>2 DEF In
    <3> QED BY <3>2, <3>3
  <2>2. ASSUME In(u, a) PROVE In(u, c)
    <3>1. PICK i \in 1..Len(a) : a[i] = u BY <2>2 DEF In
    <3> QED BY <1>1, <1>2, <3>1 DEF In
  <2>3. ASSUME In(u, b) PROVE In(u, c)
    <3>1. PICK i \in 1..Len(b) : b[i] = u BY <2>3 DEF In
    <3>2. i + Len(a) \in 1..Len(c) /\ ~(i + Len(a) <= Len(a)) /\ i + Len(a) - Len(a) = i
      BY <1>1, <3>1
    <3>3. c[i + Len(a)] = u BY <1>2, <3>1, <3>2
    <3> QED BY <3>2, <3>3 DEF In
  <2> QED BY <2>1, <2>2, <2>3
<1> QED BY <1>1, <1>3, <1>4 DEF Queue, c

\* A queue of one task, or of none.
LEMMA Alone ==
  ASSUME NEW tasks, NEW t \in Tasks, NEW p, p = IF t \in tasks THEN <<t>> ELSE <<>>
  PROVE  /\ Queue(p) /\ Len(p) \in {0, 1} /\ \A i \in 1..Len(p) : p[i] = t
         /\ \A u : In(u, p) <=> u = t /\ t \in tasks
<1>1. CASE t \in tasks
  <2>1. p \in Seq(Tasks) /\ Len(p) = 1 /\ p[1] = t BY <1>1
  <2> QED BY <1>1, <2>1 DEF Queue, Ordered, In
<1>2. CASE t \notin tasks
  <2>1. p \in Seq(Tasks) /\ Len(p) = 0 BY <1>2
  <2> QED BY <1>2, <2>1 DEF Queue, Ordered, In
<1> QED BY <1>1, <1>2

\* The tasks of the set up to a rank, in order.
Sorted(q, tasks, k) ==
  /\ Queue(q)
  /\ \A i \in 1..Len(q) : Rank(q[i]) <= k
  /\ \A u \in Tasks : In(u, q) <=> u \in tasks /\ Rank(u) <= k

\* InOrder goes on by the task of the next rank.
LEMMA SortedOn ==
  ASSUME NEW q, NEW tasks, NEW k \in Nat, Sorted(q, tasks, k), NEW t \in Tasks, Rank(t) = k + 1
  PROVE  Sorted(q \o (IF t \in tasks THEN <<t>> ELSE <<>>), tasks, k + 1)
<1> DEFINE p == IF t \in tasks THEN <<t>> ELSE <<>>
<1>1. /\ Queue(p) /\ \A i \in 1..Len(p) : p[i] = t
      /\ \A u : In(u, p) <=> u = t /\ t \in tasks
  BY Alone
<1> HIDE DEF p
<1>3. \A i \in 1..Len(q) : Rank(q[i]) \in Nat /\ Rank(q[i]) <= k
  BY RankIsPlace DEF Sorted, Queue
<1>4. \A i \in 1..Len(q), j \in 1..Len(p) : Rank(q[i]) < Rank(p[j]) BY <1>1, <1>3
<1>5. Queue(q) BY DEF Sorted
<1>6. Queue(q \o p) /\ \A u : In(u, q \o p) <=> In(u, q) \/ In(u, p) BY <1>1, <1>4, <1>5, Joined
<1>7. \A u : In(u, p) <=> u = t /\ t \in tasks BY <1>1
<1>8. \A i \in 1..Len(q \o p) : Rank((q \o p)[i]) <= k + 1
  <2> TAKE i \in 1..Len(q \o p)
  <2>1. In((q \o p)[i], q \o p) BY DEF In
  <2>2. In((q \o p)[i], q) \/ In((q \o p)[i], p) BY <1>6, <2>1
  <2>3. CASE In((q \o p)[i], q) BY <1>3, <2>3 DEF In
  <2>4. CASE In((q \o p)[i], p) BY <1>7, <2>4
  <2> QED BY <2>2, <2>3, <2>4
<1>9. ASSUME NEW u \in Tasks PROVE In(u, q \o p) <=> u \in tasks /\ Rank(u) <= k + 1
  <2>1. Rank(u) \in Nat /\ (Rank(u) = Rank(t) => u = t) BY RankIsPlace
  <2>2. In(u, q) <=> u \in tasks /\ Rank(u) <= k BY DEF Sorted
  <2> QED BY <1>6, <1>7, <2>1, <2>2
<1> QED BY <1>6, <1>8, <1>9 DEF Sorted, p

\* InOrder makes a queue of exactly the tasks it is given.
LEMMA InOrderSorts ==
  ASSUME NEW tasks \in SUBSET Tasks
  PROVE  Queue(InOrder(tasks)) /\ \A u \in Tasks : In(u, InOrder(tasks)) <=> u \in tasks
<1> DEFINE If(t) == IF t \in tasks THEN <<t>> ELSE <<>>
           q1 == If("T-W1")
           q2 == q1 \o If("T-W2")
           q3 == q2 \o If("T-W3")
           q4 == q3 \o If("M-1")
           q5 == q4 \o If("T-V1")
           q6 == q5 \o If("T-B1")
           q7 == q6 \o If("T-B2")
           q8 == q7 \o If("M-2")
           q9 == q8 \o If("G-04")
           q10 == q9 \o If("M-3")
           q11 == q10 \o If("T-V2")
           q12 == q11 \o If("CYCLE-END")
           q13 == q12 \o If("G-02a")
           q14 == q13 \o If("G-02b")
           q15 == q14 \o If("T-C4")
<1>0. InOrder(tasks) = q15 BY DEF InOrder
<1>1. Sorted(q1, tasks, 1)
  <2>1. "T-W1" \in Tasks /\ Rank("T-W1") = 1 BY DEF Rank, Tasks
  <2>2. /\ Queue(q1) /\ \A i \in 1..Len(q1) : q1[i] = "T-W1"
        /\ \A u : In(u, q1) <=> u = "T-W1" /\ "T-W1" \in tasks
    BY <2>1, Alone
  <2> HIDE DEF q1
  <2>3. ASSUME NEW u \in Tasks PROVE In(u, q1) <=> u \in tasks /\ Rank(u) <= 1
    <3>1. Rank(u) \in 1..15 /\ (Rank(u) = 1 => u = "T-W1") BY <2>1, RankIsPlace
    <3> QED BY <2>1, <2>2, <3>1
  <2> QED BY <2>1, <2>2, <2>3 DEF Sorted
<1> HIDE DEF q1, q2, q3, q4, q5, q6, q7, q8, q9, q10, q11, q12, q13, q14, q15
<1>r. /\ Rank("T-W2") = 2 /\ Rank("T-W3") = 3 /\ Rank("M-1") = 4 /\ Rank("T-V1") = 5
      /\ Rank("T-B1") = 6 /\ Rank("T-B2") = 7 /\ Rank("M-2") = 8 /\ Rank("G-04") = 9
      /\ Rank("M-3") = 10 /\ Rank("T-V2") = 11 /\ Rank("CYCLE-END") = 12 /\ Rank("G-02a") = 13
      /\ Rank("G-02b") = 14 /\ Rank("T-C4") = 15
  BY DEF Rank
<1>t. {"T-W2", "T-W3", "M-1", "T-V1", "T-B1", "T-B2", "M-2", "G-04", "M-3", "T-V2",
       "CYCLE-END", "G-02a", "G-02b", "T-C4"} \subseteq Tasks
  BY DEF Tasks
<1>2. Sorted(q2, tasks, 2) BY <1>1, <1>r, <1>t, SortedOn DEF q2
<1>3. Sorted(q3, tasks, 3) BY <1>2, <1>r, <1>t, SortedOn DEF q3
<1>4. Sorted(q4, tasks, 4) BY <1>3, <1>r, <1>t, SortedOn DEF q4
<1>5. Sorted(q5, tasks, 5) BY <1>4, <1>r, <1>t, SortedOn DEF q5
<1>6. Sorted(q6, tasks, 6) BY <1>5, <1>r, <1>t, SortedOn DEF q6
<1>7. Sorted(q7, tasks, 7) BY <1>6, <1>r, <1>t, SortedOn DEF q7
<1>8. Sorted(q8, tasks, 8) BY <1>7, <1>r, <1>t, SortedOn DEF q8
<1>9. Sorted(q9, tasks, 9) BY <1>8, <1>r, <1>t, SortedOn DEF q9
<1>10. Sorted(q10, tasks, 10) BY <1>9, <1>r, <1>t, SortedOn DEF q10
<1>11. Sorted(q11, tasks, 11) BY <1>10, <1>r, <1>t, SortedOn DEF q11
<1>12. Sorted(q12, tasks, 12) BY <1>11, <1>r, <1>t, SortedOn DEF q12
<1>13. Sorted(q13, tasks, 13) BY <1>12, <1>r, <1>t, SortedOn DEF q13
<1>14. Sorted(q14, tasks, 14) BY <1>13, <1>r, <1>t, SortedOn DEF q14
<1>15. Sorted(q15, tasks, 15) BY <1>14, <1>r, <1>t, SortedOn DEF q15
<1> QED BY <1>0, <1>15, RankIsPlace DEF Sorted

\* What is left of a queue when its head is done.
LEMMA Shortened ==
  ASSUME NEW q, Queue(q), q # <<>>
  PROVE  /\ Head(q) \in Tasks /\ In(Head(q), q)
         /\ Queue(Tail(q)) /\ Len(Tail(q)) = Len(q) - 1 /\ Len(q) \in Nat
         /\ \A u : In(u, Tail(q)) <=> In(u, q) /\ u # Head(q)
         /\ \A u : In(u, Tail(q)) => Rank(u) > Rank(Head(q))
<1>1. /\ q \in Seq(Tasks) /\ Len(q) \in Nat /\ Len(q) > 0 /\ Head(q) = q[1]
      /\ Tail(q) \in Seq(Tasks) /\ Len(Tail(q)) = Len(q) - 1
      /\ \A i \in 1..Len(Tail(q)) : Tail(q)[i] = q[i + 1]
  BY DEF Queue
<1> DEFINE r == Tail(q)
<1>2. Ordered(r)
  <2> SUFFICES ASSUME NEW i \in 1..Len(r), NEW j \in 1..Len(r), i < j PROVE Rank(r[i]) < Rank(r[j])
    BY DEF Ordered
  <2> HIDE DEF r
  <2>1. i + 1 \in 1..Len(q) /\ j + 1 \in 1..Len(q) /\ i + 1 < j + 1 BY <1>1 DEF r
  <2>2. r[i] = q[i + 1] /\ r[j] = q[j + 1] BY <1>1 DEF r
  <2> QED BY <2>1, <2>2 DEF Queue, Ordered
<1>3. \A i \in 1..Len(q) : i # 1 => Rank(q[i]) > Rank(q[1]) /\ q[i] # q[1]
  <2> TAKE i \in 1..Len(q)
  <2> HAVE i # 1
  <2>1. 1 \in 1..Len(q) /\ 1 < i BY <1>1
  <2>2. Rank(q[1]) < Rank(q[i]) BY <2>1 DEF Queue, Ordered
  <2>3. Rank(q[1]) \in 1..15 /\ Rank(q[i]) \in 1..15 BY <1>1, <2>1, RankIsPlace
  <2> QED BY <2>2, <2>3
<1>4. ASSUME NEW u, In(u, r) PROVE In(u, q) /\ u # q[1] /\ Rank(u) > Rank(q[1])
  <2>1. PICK i \in 1..Len(r) : r[i] = u BY <1>4 DEF In
  <2>2. i + 1 \in 1..Len(q) /\ i + 1 # 1 /\ q[i + 1] = u BY <1>1, <2>1
  <2> QED BY <1>3, <2>2 DEF In
<1>5. ASSUME NEW u, In(u, q), u # q[1] PROVE In(u, r)
  <2>1. PICK i \in 1..Len(q) : q[i] = u BY <1>5 DEF In
  <2>2. i - 1 \in 1..Len(r) /\ (i - 1) + 1 = i BY <1>1, <1>5, <2>1
  <2>3. r[i - 1] = u BY <1>1, <2>1, <2>2
  <2> QED BY <2>2, <2>3 DEF In
<1>6. In(q[1], q) /\ q[1] \in Tasks BY <1>1 DEF In
<1> QED BY <1>1, <1>2, <1>4, <1>5, <1>6 DEF Queue

\* What verify-1 puts in front of the rest of the queue.
LEMMA Inserted ==
  ASSUME NEW q, Queue(q), q # <<>>, Head(q) = "T-V1", NEW tasks \in SUBSET DocTasks
  PROVE  /\ Queue(InOrder(tasks) \o Tail(q))
         /\ \A u \in Tasks : In(u, InOrder(tasks) \o Tail(q)) <=> u \in tasks \/ In(u, Tail(q))
<1>1. tasks \in SUBSET Tasks BY DEF DocTasks, Writers, Tasks
<1>2. Queue(InOrder(tasks)) /\ \A u \in Tasks : In(u, InOrder(tasks)) <=> u \in tasks
  BY <1>1, InOrderSorts
<1>3. Queue(Tail(q)) /\ \A u : In(u, Tail(q)) => Rank(u) > 5
  <2>1. Rank("T-V1") = 5 BY DEF Rank
  <2> QED BY <2>1, Shortened
<1> DEFINE a == InOrder(tasks)  b == Tail(q)
<1> HIDE DEF a, b
<1>4. ASSUME NEW i \in 1..Len(a), NEW j \in 1..Len(b) PROVE Rank(a[i]) < Rank(b[j])
  <2>1. In(a[i], a) /\ In(b[j], b) BY DEF In
  <2>2. a[i] \in Tasks BY <1>2 DEF Queue, a
  <2>3. a[i] \in DocTasks BY <1>2, <2>1, <2>2 DEF a
  <2>4. Rank(a[i]) \in 1..5 BY <2>3 DEF DocTasks, Writers, Rank
  <2>5. b[j] \in Tasks /\ Rank(b[j]) > 5 BY <1>3, <2>1 DEF Queue, b
  <2>6. Rank(b[j]) \in 1..15 BY <2>5, RankIsPlace
  <2> QED BY <2>4, <2>5, <2>6
<1>5. Queue(a \o b) /\ \A u : In(u, a \o b) <=> In(u, a) \/ In(u, b)
  BY <1>2, <1>3, <1>4, Joined DEF a, b
<1> QED BY <1>2, <1>5 DEF a, b

-----------------------------------------------------------------------------
(* What the queue says *)

\* Phase, written for a mark that follows MarkInv.
LEMMA PhaseIsMarks ==
  ASSUME IInv
  PROVE  /\ Phase = verify1.phase
         /\ Key \in Nat /\ (cycle # NoCycle => Key = cycle.id /\ cycle \in Cycle)
<1>1. verify1.phase # "none" => verify1.key = Key /\ verify1.pending # {} BY DEF IInv, MarkInv
<1>2. verify1.phase = "none" => verify1.pending = {} BY DEF IInv, MarkInv
<1>3. Phase = verify1.phase BY <1>1, <1>2 DEF Phase
<1>4. cycle # NoCycle => cycle \in Cycle BY DEF IInv, TypeOK
<1>5. cycle # NoCycle => cycle.id \in 1..MaxCycles BY <1>4 DEF Cycle
<1> QED BY <1>3, <1>4, <1>5 DEF Key

\* What a task brings comes after it.
LEMMA BringsLater ==
  ASSUME NEW t \in Possible, NEW u \in Brings(t)
  PROVE  t \in Tasks /\ u \in Tasks /\ Rank(u) > Rank(t)
<1>1. t \in Tasks BY DEF Possible, DocTasks, Writers, Tasks
<1>2. u \in Tasks BY DEF Brings, Tasks
<1>3. CASE place \in FirstPlaces
  <2>1. place \notin ProductPlaces BY <1>3 DEF FirstPlaces, ProductPlaces
  <2>2. t \in DocTasks \cup {"CYCLE-END", "G-02a"} BY <1>3 DEF Possible
  <2>3. \/ t \in Writers /\ u = "M-1"
        \/ t \in {"T-W1", "T-W2"} /\ u = "T-V1"
        \/ t # "G-02a" /\ u = "G-02a"
        \/ Rank(t) < Rank("CYCLE-END") /\ u = "CYCLE-END"
    BY <1>3, <2>1 DEF Brings
  <2>4. CASE t # "G-02a" /\ u = "G-02a" BY <1>1, <1>2, <2>2, <2>4 DEF DocTasks, Writers, Rank
  <2>5. CASE t \in Writers /\ u = "M-1" BY <1>1, <1>2, <2>5 DEF Writers, Rank
  <2>6. CASE t \in {"T-W1", "T-W2"} /\ u = "T-V1" BY <1>1, <1>2, <2>6 DEF Rank
  <2>7. CASE Rank(t) < Rank("CYCLE-END") /\ u = "CYCLE-END" BY <2>7, <1>1, RankIsPlace DEF Tasks
  <2> QED BY <2>3, <2>4, <2>5, <2>6, <2>7
<1>4. CASE place \in ProductPlaces
  BY <1>1, <1>4 DEF Possible, Brings, DocTasks, Writers, FirstPlaces, ProductPlaces, Rank, Tasks
<1>5. CASE place \notin FirstPlaces \cup ProductPlaces
  BY <1>1, <1>5 DEF Possible, Brings, DocTasks, Writers, FirstPlaces, ProductPlaces, Rank
<1> QED BY <1>1, <1>2, <1>3, <1>4, <1>5

\* The head of the queue is due with all it brings, and what is due besides
\* comes after it.
LEMMA AtHead ==
  ASSUME IInv, NEW task, Step(task)
  PROVE  /\ task \in Tasks /\ Due(task) /\ task \in Possible
         /\ \A u \in Brings(task) : Due(u)
         /\ \A u \in Tasks : Due(u) => u = task \/ Rank(u) > Rank(task)
         /\ \A u \in Tasks : In(u, Tail(queue)) <=> Due(u) /\ u # task
         /\ Queue(Tail(queue)) /\ Queue(queue) /\ queue # <<>> /\ Head(queue) = task
         /\ progress = "run" /\ ~Collecting
<1>1. Queue(queue) /\ queue # <<>> /\ Head(queue) = task /\ progress = "run" /\ ~Collecting
  BY DEF IInv, TypeOK, QueueInv, Queue, Step, Working
<1>2. /\ task \in Tasks /\ Due(task)
      /\ Queue(Tail(queue))
      /\ \A u : In(u, Tail(queue)) <=> Due(u) /\ u # task
      /\ \A u : In(u, Tail(queue)) => Rank(u) > Rank(task)
  BY <1>1, Shortened DEF Due
<1>3. task \in Possible /\ \A u \in Brings(task) : Due(u) BY <1>2 DEF IInv, QueueInv
<1> QED BY <1>1, <1>2, <1>3

\* A step that takes the head away leaves what is due besides.
LEMMA Popped ==
  ASSUME IInv, NEW task, Step(task), Pop, Stay,
         task = "T-V1" \/ Phase' = Phase \/ task = "M-1"
  PROVE  /\ QueueInv' /\ CycleInv'
         /\ queue' \in Seq(Tasks)
         /\ \A u \in Tasks : In(u, queue') <=> In(u, queue) /\ u # task
         /\ Key' = Key
<1>1. /\ task \in Tasks /\ Due(task) /\ task \in Possible
      /\ \A u \in Tasks : Due(u) => u = task \/ Rank(u) > Rank(task)
      /\ \A u \in Tasks : In(u, queue') <=> Due(u) /\ u # task
      /\ Queue(queue') /\ progress = "run" /\ ~Collecting
  BY AtHead DEF Pop
<1>2. /\ progress' = progress /\ place' = place /\ cycle' = cycle /\ category' = category
      /\ remaining' = remaining
  BY DEF Stay, Keep
<1>3. Possible' = Possible /\ (\A t : Brings(t)' = Brings(t)) /\ Key' = Key
  BY <1>2 DEF Possible, Brings, Key
<1>4. ASSUME NEW t \in Tasks, In(t, queue'), NEW u \in Brings(t) PROVE In(u, queue')
  <2>1. Due(t) /\ t # task /\ t \in Possible /\ Due(u) BY <1>1, <1>4 DEF IInv, QueueInv
  <2>2. u \in Tasks /\ Rank(u) > Rank(t) BY <2>1, BringsLater
  <2>3. Rank(t) > Rank(task) BY <1>1, <2>1
  <2>4. Rank(u) \in 1..15 /\ Rank(t) \in 1..15 /\ Rank(task) \in 1..15 BY <1>1, <2>2, RankIsPlace
  <2>5. u # task BY <2>2, <2>3, <2>4
  <2> QED BY <1>1, <2>1, <2>2, <2>5
<1>5. \A t \in Tasks : In(t, queue') => t \in Possible BY <1>1 DEF IInv, QueueInv
<1>6. In("T-W3", queue') => In("T-V1", queue') \/ Phase' = "replace"
  <2> SUFFICES ASSUME In("T-W3", queue') PROVE In("T-V1", queue') \/ Phase' = "replace"
    OBVIOUS
  <2>1. "T-W3" \in Tasks /\ "T-V1" \in Tasks /\ Rank("T-W3") = 3 /\ Rank("T-V1") = 5 /\ Rank("M-1") = 4
    BY DEF Tasks, Rank
  <2>2. Due("T-W3") /\ Rank("T-W3") > Rank(task) BY <1>1, <2>1
  <2>3. task # "T-V1" /\ task # "M-1" BY <2>1, <2>2
  <2>4. Due("T-V1") \/ Phase = "replace" BY <2>2 DEF IInv, QueueInv
  <2> QED BY <1>1, <2>1, <2>3, <2>4
<1>7. QueueInv'
  <2>1. Ordered(queue') BY <1>1 DEF Queue
  <2>2. progress' = "run" BY <1>1, <1>2
  <2>3. \A t \in Tasks : In(t, queue') => t \in Possible' /\ \A u \in Brings(t)' : In(u, queue')
    BY <1>3, <1>4, <1>5
  <2> QED BY <1>6, <2>1, <2>2, <2>3 DEF QueueInv, Due
<1>8. CycleInv' BY <1>1, <1>2 DEF IInv, CycleInv, Collecting
<1> QED BY <1>1, <1>3, <1>7, <1>8 DEF Queue, Due

\* A mark that is left alone still has its step.
LEMMA MarkLeftAlone ==
  ASSUME IInv, NEW task, Step(task), Pop, Stay, UNCHANGED verify1, task \notin {"T-V1", "M-1"}
  PROVE  /\ QueueInv' /\ CycleInv' /\ MarkInv'
         /\ queue' \in Seq(Tasks)
         /\ \A u \in Tasks : In(u, queue') <=> In(u, queue) /\ u # task
         /\ Key' = Key
<1>1. cycle' = cycle /\ form' = form /\ progress' = progress BY DEF Stay, Keep
<1>2. Key' = Key /\ Phase' = Phase BY <1>1 DEF Key, Phase
<1>3. /\ QueueInv' /\ CycleInv' /\ queue' \in Seq(Tasks)
      /\ \A u \in Tasks : In(u, queue') <=> In(u, queue) /\ u # task
  BY <1>2, Popped
<1>4. "T-V1" \in Tasks /\ "M-1" \in Tasks BY DEF Tasks
<1>5. /\ In("T-V1", queue) => In("T-V1", queue')
      /\ In("M-1", queue) => In("M-1", queue')
  BY <1>3, <1>4
<1>6. \A b : ItemsIn(b)' = ItemsIn(b) BY <1>1 DEF ItemsIn
<1>7. ItemsIn(cycle.bundles)' = ItemsIn(cycle.bundles) BY <1>1 DEF ItemsIn
<1>8. MarkInv' BY <1>1, <1>2, <1>5, <1>7 DEF IInv, MarkInv, Due
<1> QED BY <1>2, <1>3, <1>8

-----------------------------------------------------------------------------
(* Items and pointers *)

\* The items of the writers.
LEMMA WritersOf ==
  /\ ItemsOf("T-W1") = Sections
  /\ ItemsOf("T-W2") \cap Sections = {} /\ ItemsOf("T-W3") \cap Sections = {}
  /\ \A S \in SUBSET Items : TasksOf(S) \subseteq Writers
<1>1. \A i \in Items : Kind[i] \in {"section", "image", "table"}
  BY ReworkAssumption DEF ReworkAssumption
<1>2. /\ DocumentTask["section"] = "T-W1" /\ DocumentTask["image"] = "T-W2"
      /\ DocumentTask["table"] = "T-W3"
  BY DEF DocumentTask
<1>3. \A i \in Items : /\ DocumentTask[Kind[i]] = "T-W1" <=> Kind[i] = "section"
                       /\ DocumentTask[Kind[i]] \in Writers
  <2> TAKE i \in Items
  <2>1. CASE Kind[i] = "section" BY <1>2, <2>1 DEF Writers
  <2>2. CASE Kind[i] = "image" BY <1>2, <2>2 DEF Writers
  <2>3. CASE Kind[i] = "table" BY <1>2, <2>3 DEF Writers
  <2> QED BY <1>1, <2>1, <2>2, <2>3
<1>4. /\ ItemsOf("T-W1") = Sections
      /\ ItemsOf("T-W2") \cap Sections = {} /\ ItemsOf("T-W3") \cap Sections = {}
  BY <1>3 DEF ItemsOf, Sections
<1>5. \A S \in SUBSET Items : TasksOf(S) \subseteq Writers BY <1>3 DEF TasksOf
<1> QED BY <1>4, <1>5

\* A writer makes its own items, and in a rework only chosen ones.
LEMMA TargetsChosen ==
  ASSUME IInv, NEW task
  PROVE  /\ Targets(task) \subseteq ItemsOf(task) /\ Targets(task) \subseteq Items
         /\ cycle # NoCycle => Targets(task) \subseteq ItemsIn(cycle.bundles)
<1>1. ItemsOf(task) \subseteq Items BY DEF ItemsOf
<1>2. Targets(task) \subseteq ItemsOf(task) BY DEF Targets
<1>3. Phase = verify1.phase BY PhaseIsMarks
<1>4. ASSUME cycle # NoCycle PROVE Targets(task) \subseteq ItemsIn(cycle.bundles)
  <2>1. CASE Phase = (IF task = "T-W3" THEN "replace" ELSE "redo")
    <3>1. verify1.phase # "none" BY <1>3, <2>1
    <3>2. verify1.pending \subseteq ItemsIn(cycle.bundles) BY <1>4, <3>1 DEF IInv, MarkInv
    <3> QED BY <2>1, <3>2 DEF Targets
  <2>2. CASE Phase # (IF task = "T-W3" THEN "replace" ELSE "redo")
    BY <1>4, <2>2 DEF Targets
  <2> QED BY <2>1, <2>2
<1> QED BY <1>1, <1>2, <1>4

\* The items that are not made keep their version.
LEMMA RemadeOnly ==
  ASSUME IInv, NEW items \in SUBSET Items
  PROVE  Remade(items) \in Text /\ \A i \in Items \ items : Remade(items)[i] = shown.text[i]
<1>1. Key \in Nat BY PhaseIsMarks
<1>2. \A i \in Items : shown.text[i] \in Nat \X Nat BY DEF IInv, TypeOK, Artifacts, Text
<1>3. ASSUME NEW i \in Items
      PROVE  (IF i \notin items THEN shown.text[i]
              ELSE IF shown.text[i][1] = Key THEN <<Key, shown.text[i][2] + 1>>
              ELSE <<Key, 1>>) \in Nat \X Nat
  BY <1>1, <1>2
<1>4. Remade(items) \in Text BY <1>3 DEF Remade, Text
<1>5. \A i \in Items \ items : Remade(items)[i] = shown.text[i] BY DEF Remade
<1> QED BY <1>4, <1>5

\* What a pointer may point at.
LEMMA PointerTypes ==
  ASSUME NEW s \in Artifacts
  PROVE  /\ s.text \in Text /\ s.replaced \in SUBSET Items
         /\ s.plan # Absent => s.plan \in Plan
         /\ s.docScore # Absent => s.docScore \in DocScore
         /\ s.docReport # Absent => s.docReport \in DocScore
         /\ s.prototype # Absent => s.prototype \in Prototype
         /\ s.infographic # Absent => s.infographic \in Infographic
         /\ s.readme \in Maybe(Readme)
         /\ s.artifactScore # Absent => s.artifactScore \in ArtifactScore
         /\ s.report # Absent => s.report \in Report
BY DEF Artifacts, Maybe

\* The body of the plan is a text.
LEMMA PlanBodyType ==
  ASSUME shown \in Artifacts
  PROVE  PlanBody \in Text /\ Unwritten \in Text
<1>1. Unwritten \in Text BY DEF Unwritten, Text
<1>2. shown.plan # Absent => shown.plan.body \in Text BY PointerTypes DEF Plan
<1> QED BY <1>1, <1>2 DEF PlanBody

\* The other pointers stay where one is moved.
Others(key) ==
  \A k \in {"text", "replaced", "plan", "docScore", "docReport", "prototype", "infographic", "readme",
            "artifactScore", "report"} \ {key} : shown'[k] = shown[k]

\* A pointer moved to what it may point at.
LEMMA PutTypes ==
  ASSUME shown \in Artifacts, NEW v
  PROVE  /\ v \in Text /\ Put("text", v) => shown' \in Artifacts /\ shown'.text = v /\ Others("text")
         /\ v \in Plan /\ Put("plan", v) => shown' \in Artifacts /\ shown'.plan = v /\ Others("plan")
         /\ v \in DocScore /\ Put("docScore", v)
              => shown' \in Artifacts /\ shown'.docScore = v /\ Others("docScore")
         /\ v \in Maybe(DocScore) /\ Put("docReport", v)
              => shown' \in Artifacts /\ shown'.docReport = v /\ Others("docReport")
         /\ v \in Prototype /\ Put("prototype", v)
              => shown' \in Artifacts /\ shown'.prototype = v /\ Others("prototype")
         /\ v \in Infographic /\ Put("infographic", v)
              => shown' \in Artifacts /\ shown'.infographic = v /\ Others("infographic")
         /\ v \in Readme /\ Put("readme", v)
              => shown' \in Artifacts /\ shown'.readme = v /\ Others("readme")
         /\ v \in ArtifactScore /\ Put("artifactScore", v)
              => shown' \in Artifacts /\ shown'.artifactScore = v /\ Others("artifactScore")
         /\ v \in Report /\ Put("report", v)
              => shown' \in Artifacts /\ shown'.report = v /\ Others("report")
<1>1. ASSUME v \in Text, Put("text", v)
      PROVE  shown' \in Artifacts /\ shown'.text = v /\ Others("text")
  BY <1>1 DEF Put, Artifacts, Others, Maybe
<1>2. ASSUME v \in Plan, Put("plan", v)
      PROVE  shown' \in Artifacts /\ shown'.plan = v /\ Others("plan")
  BY <1>2 DEF Put, Artifacts, Others, Maybe
<1>3. ASSUME v \in DocScore, Put("docScore", v)
      PROVE  shown' \in Artifacts /\ shown'.docScore = v /\ Others("docScore")
  BY <1>3 DEF Put, Artifacts, Others, Maybe
<1>4. ASSUME v \in Maybe(DocScore), Put("docReport", v)
      PROVE  shown' \in Artifacts /\ shown'.docReport = v /\ Others("docReport")
  BY <1>4 DEF Put, Artifacts, Others, Maybe
<1>5. ASSUME v \in Prototype, Put("prototype", v)
      PROVE  shown' \in Artifacts /\ shown'.prototype = v /\ Others("prototype")
  BY <1>5 DEF Put, Artifacts, Others, Maybe
<1>6. ASSUME v \in Infographic, Put("infographic", v)
      PROVE  shown' \in Artifacts /\ shown'.infographic = v /\ Others("infographic")
  BY <1>6 DEF Put, Artifacts, Others, Maybe
<1>7. ASSUME v \in Readme, Put("readme", v)
      PROVE  shown' \in Artifacts /\ shown'.readme = v /\ Others("readme")
  BY <1>7 DEF Put, Artifacts, Others, Maybe
<1>8. ASSUME v \in ArtifactScore, Put("artifactScore", v)
      PROVE  shown' \in Artifacts /\ shown'.artifactScore = v /\ Others("artifactScore")
  BY <1>8 DEF Put, Artifacts, Others, Maybe
<1>9. ASSUME v \in Report, Put("report", v)
      PROVE  shown' \in Artifacts /\ shown'.report = v /\ Others("report")
  BY <1>9 DEF Put, Artifacts, Others, Maybe
<1> QED BY <1>1, <1>2, <1>3, <1>4, <1>5, <1>6, <1>7, <1>8, <1>9

-----------------------------------------------------------------------------
(* The steps that work on the plan *)

\* What a rework may have done: it makes only chosen items, a layer it scores
\* again is scored in its cycle, and it is compared before its end.
LEMMA SnapshotStays ==
  ASSUME IInv, UNCHANGED <<cycle, category, form>>,
         cycle # NoCycle =>
           /\ \A i \in Items \ ItemsIn(cycle.bundles) : shown'.text[i] = shown.text[i]
           /\ cycle.screen = "screen6" => \A k \in ProductKeys : shown'[k] = shown[k]
           /\ \A k \in Layers : shown'[k] = shown[k] \/ (shown'[k] # Absent /\ shown'[k].made = cycle.id)
           /\ In("CYCLE-END", queue') \/ (~In("CYCLE-END", queue) /\ \A k \in Layers : shown'[k] = shown[k])
  PROVE  SnapshotInv'
<1> SUFFICES ASSUME cycle # NoCycle PROVE SnapshotInv' BY DEF SnapshotInv
<1>1. Whole(cycle.snapshot, cycle.screen)'
  <2>1. Whole(cycle.snapshot, cycle.screen) BY DEF IInv, SnapshotInv
  <2> QED BY <2>1 DEF Whole, Merged, ScoredAsWritten, Built, Wrapped, ScoredAsBuilt, Reported
<1>2. cycle.screen = "screen6" => \A k \in ProductKeys : shown'[k] = cycle.snapshot[k]
  BY DEF IInv, SnapshotInv
<1>3. ASSUME NEW k \in Layers PROVE Changed(k)' \/ shown'[k] = cycle.snapshot[k]
  <2>1. Changed(k) \/ shown[k] = cycle.snapshot[k] BY DEF IInv, SnapshotInv
  <2> QED BY <2>1 DEF Changed
<1>4. ~In("CYCLE-END", queue') => Total(shown') >= Total(cycle.snapshot)
  <2> SUFFICES ASSUME ~In("CYCLE-END", queue') PROVE Total(shown') >= Total(cycle.snapshot)
    OBVIOUS
  <2>1. shown'["docScore"] = shown["docScore"] /\ shown'["artifactScore"] = shown["artifactScore"]
    BY DEF Layers
  <2>2. Total(shown') = Total(shown) BY <2>1 DEF Total, LayerTotal
  <2>3. Total(shown) >= Total(cycle.snapshot) BY DEF IInv, SnapshotInv, Due
  <2> QED BY <2>2, <2>3
<1>5. \A i \in Items \ ItemsIn(cycle.bundles) : shown'.text[i] = cycle.snapshot.text[i]
  BY DEF IInv, SnapshotInv
<1>6. ItemsIn(cycle.bundles)' = ItemsIn(cycle.bundles) BY DEF ItemsIn
<1>7. \A k \in Layers : Changed(k)' \/ shown'[k] = cycle.snapshot[k] BY <1>3
<1>8. Total(shown)' = Total(shown') /\ Total(cycle.snapshot)' = Total(cycle.snapshot)
  BY DEF Total, LayerTotal
<1> QED BY <1>1, <1>2, <1>4, <1>5, <1>6, <1>7, <1>8 DEF SnapshotInv, Due

\* A step on the plan leaves the product to later steps, and the comparison of
\* a rework to its end.
LEMMA ProductComesLater ==
  ASSUME IInv, NEW task \in DocTasks, Step(task), Stay,
         \A u \in Tasks : In(u, queue) /\ u # task => In(u, queue'),
         \A u \in Tasks : In(u, queue') => In(u, queue) \/ u \in DocTasks,
         \A k \in ProductKeys : shown'[k] = shown[k],
         shown'.docScore = shown.docScore \/ (shown'.docScore # Absent /\ shown'.docScore.made = Key),
         cycle # NoCycle =>
           \A i \in Items \ ItemsIn(cycle.bundles) : shown'.text[i] = shown.text[i]
  PROVE  ProductInv' /\ SnapshotInv'
<1>1. /\ progress' = progress /\ place' = place /\ cycle' = cycle /\ category' = category /\ form' = form
  BY DEF Stay, Keep
<1>2. \A u \in Brings(task) : Due(u) BY AtHead
<1>3. task \in Tasks /\ Rank(task) \in 1..5 BY DEF DocTasks, Writers, Tasks, Rank
<1>4. /\ {"T-B1", "T-B2", "M-2", "T-V2", "G-02b", "CYCLE-END"} \subseteq Tasks
      /\ {"T-B1", "T-B2", "M-2", "T-V2", "G-02b", "CYCLE-END"} \cap DocTasks = {}
      /\ Rank("T-V2") = 11 /\ Rank("CYCLE-END") = 12
  BY DEF Tasks, Rank, DocTasks, Writers
<1>5. ProductInv'
  <2> SUFFICES ASSUME place \in ProductPlaces, Live PROVE ProductInv'
    BY <1>1 DEF ProductInv, Live
  <2>1. In("T-V2", queue') /\ In("G-02b", queue')
    BY <1>2, <1>3, <1>4 DEF Brings, Due
  <2>2. CASE category = "onepage"
    <3>1. In("T-B2", queue') /\ In("M-2", queue') BY <1>2, <1>4, <2>2 DEF Brings, Due
    <3> QED BY <2>1, <3>1 DEF ProductInv, Due
  <2>3. CASE category # "onepage"
    <3>1. In("T-B1", queue') BY <1>2, <1>4, <2>3 DEF Brings, Due
    <3>2. ~In("M-2", queue')
      <4>1. "M-2" \notin Possible BY <2>3 DEF Possible, ProductPlaces, FirstPlaces
      <4> QED BY <1>4, <4>1 DEF IInv, QueueInv, Due
    <3>3. ~In("T-B2", queue') => Built(shown)
      BY <1>4 DEF IInv, ProductInv, Due, DocTasks, Writers
    <3>4. shown'.infographic = shown.infographic BY DEF ProductKeys
    <3>5. ~In("T-B2", queue') => Built(shown)' BY <1>1, <2>3, <3>3, <3>4 DEF Built
    <3> QED BY <2>1, <3>1, <3>2, <3>5 DEF ProductInv, Due
  <2> QED BY <2>2, <2>3
<1>6. SnapshotInv'
  <2>1. cycle # NoCycle => In("CYCLE-END", queue') BY <1>2, <1>3, <1>4 DEF Brings, Due
  <2>2. shown'["artifactScore"] = shown["artifactScore"] BY DEF ProductKeys
  <2>3. cycle # NoCycle => Key = cycle.id BY DEF Key
  <2>4. cycle # NoCycle =>
          \A k \in Layers : shown'[k] = shown[k] \/ (shown'[k] # Absent /\ shown'[k].made = cycle.id)
    BY <2>2, <2>3 DEF Layers
  <2> QED BY <1>1, <2>1, <2>4, SnapshotStays
<1> QED BY <1>5, <1>6

\* The types that a step of the plan leaves alone.
LEMMA StayTypes ==
  ASSUME IInv, Stay, queue' \in Seq(Tasks), shown' \in Artifacts, verify1' \in Verify1
  PROVE  TypeOK'
BY DEF IInv, TypeOK, Stay, Keep

LEMMA WriteSectionsKeeps == ASSUME IInv, WriteSections PROVE IInv'
<1> DEFINE text == Remade(Targets("T-W1"))
           plan == [body |-> [i \in Items |-> IF Kind[i] = "section" THEN text[i] ELSE PlanBody[i]],
                    merged |-> FALSE]
<1>1. Step("T-W1") /\ Pop /\ Stay /\ UNCHANGED verify1 BY DEF WriteSections
<1>2. shown' = [shown EXCEPT !.text = text, !.plan = plan] BY DEF WriteSections
<1>3. /\ QueueInv' /\ CycleInv' /\ MarkInv' /\ queue' \in Seq(Tasks)
      /\ \A u \in Tasks : In(u, queue') <=> In(u, queue) /\ u # "T-W1"
  BY <1>1, MarkLeftAlone
<1>4. shown \in Artifacts /\ verify1 \in Verify1 BY DEF IInv, TypeOK
<1>5. /\ text \in Text
      /\ Targets("T-W1") \subseteq Items
      /\ \A i \in Items \ Targets("T-W1") : text[i] = shown.text[i]
      /\ cycle # NoCycle => Targets("T-W1") \subseteq ItemsIn(cycle.bundles)
  BY TargetsChosen, RemadeOnly
<1> HIDE DEF text
<1>6. plan \in Plan BY <1>4, <1>5, PlanBodyType DEF Plan, Text
<1>7. /\ shown' \in Artifacts /\ shown'.text = text /\ shown'.plan = plan
      /\ shown'.docScore = shown.docScore /\ shown'.docReport = shown.docReport
      /\ \A k \in ProductKeys : shown'[k] = shown[k]
  BY <1>2, <1>4, <1>5, <1>6 DEF Artifacts, Maybe, ProductKeys
<1>8. TypeOK' BY <1>1, <1>3, <1>4, <1>7, StayTypes
<1>9. SectionsInPlan'
  <2>1. PlanBody' = plan.body BY <1>6, <1>7, ReworkAssumption DEF PlanBody, ReworkAssumption
  <2> QED BY <1>7, <2>1 DEF SectionsInPlan, Sections
<1>10. ProductInv' /\ SnapshotInv'
  <2>1. "T-W1" \in DocTasks BY DEF DocTasks, Writers
  <2> QED BY <1>1, <1>3, <1>5, <1>7, <2>1, ProductComesLater
<1>11. DocInv'
  <2>1. \A u \in Brings("T-W1") : Due(u) BY <1>1, AtHead
  <2>2. In("M-1", queue') /\ In("T-V1", queue')
    BY <1>3, <2>1 DEF Brings, Writers, Due, Tasks
  <2>3. place \in FirstPlaces => In("G-02a", queue')
    BY <1>3, <2>1 DEF Brings, Due, Tasks
  <2>4. place' = place /\ progress' = progress /\ progress = "run"
    BY <1>1, AtHead DEF Stay
  <2>5. place \notin FirstPlaces => shown'.docReport # Absent
    BY <1>7, <2>4 DEF IInv, DocInv, Begun, Live
  <2> QED BY <2>2, <2>3, <2>4, <2>5 DEF DocInv, Due
<1> QED BY <1>3, <1>8, <1>9, <1>10, <1>11 DEF IInv

LEMMA DrawImagesKeeps == ASSUME IInv, DrawImages PROVE IInv'
<1> DEFINE text == Remade(Targets("T-W2"))
<1>1. Step("T-W2") /\ Pop /\ Stay /\ UNCHANGED verify1 /\ Put("text", text) BY DEF DrawImages
<1>3. /\ QueueInv' /\ CycleInv' /\ MarkInv' /\ queue' \in Seq(Tasks)
      /\ \A u \in Tasks : In(u, queue') <=> In(u, queue) /\ u # "T-W2"
  BY <1>1, MarkLeftAlone
<1>4. shown \in Artifacts /\ verify1 \in Verify1 BY DEF IInv, TypeOK
<1>5. /\ text \in Text
      /\ Targets("T-W2") \subseteq Items /\ Targets("T-W2") \cap Sections = {}
      /\ \A i \in Items \ Targets("T-W2") : text[i] = shown.text[i]
      /\ cycle # NoCycle => Targets("T-W2") \subseteq ItemsIn(cycle.bundles)
  BY TargetsChosen, RemadeOnly, WritersOf
<1> HIDE DEF text
<1>6. shown' \in Artifacts /\ shown'.text = text /\ Others("text") BY <1>1, <1>4, <1>5, PutTypes
<1>7. /\ shown'.plan = shown.plan
      /\ shown'.docScore = shown.docScore /\ shown'.docReport = shown.docReport
      /\ \A k \in ProductKeys : shown'[k] = shown[k]
  BY <1>6 DEF Others, ProductKeys
<1>8. TypeOK' BY <1>1, <1>3, <1>4, <1>6, StayTypes
<1>9. SectionsInPlan'
  <2>1. PlanBody' = PlanBody BY <1>7 DEF PlanBody, Unwritten
  <2>2. \A i \in Sections : shown'.text[i] = shown.text[i] BY <1>5, <1>6 DEF Sections
  <2> QED BY <2>1, <2>2 DEF IInv, SectionsInPlan, Sections
<1>10. ProductInv' /\ SnapshotInv'
  <2>1. "T-W2" \in DocTasks BY DEF DocTasks, Writers
  <2> QED BY <1>1, <1>3, <1>5, <1>6, <1>7, <2>1, ProductComesLater
<1>11. DocInv'
  <2>1. \A u \in Brings("T-W2") : Due(u) BY <1>1, AtHead
  <2>2. In("M-1", queue') /\ In("T-V1", queue')
    BY <1>3, <2>1 DEF Brings, Writers, Due, Tasks
  <2>3. place \in FirstPlaces => In("G-02a", queue')
    BY <1>3, <2>1 DEF Brings, Due, Tasks
  <2>4. place' = place /\ progress' = progress /\ progress = "run"
    BY <1>1, AtHead DEF Stay
  <2>5. place \notin FirstPlaces => shown'.docReport # Absent
    BY <1>7, <2>4 DEF IInv, DocInv, Begun, Live
  <2> QED BY <2>2, <2>3, <2>4, <2>5 DEF DocInv, Due
<1> QED BY <1>3, <1>8, <1>9, <1>10, <1>11 DEF IInv

LEMMA MakeTablesKeeps == ASSUME IInv, MakeTables PROVE IInv'
<1> DEFINE made == Targets("T-W3")
           text == Remade(made)
<1>1. Step("T-W3") /\ Pop /\ Stay /\ UNCHANGED verify1 BY DEF MakeTables
<1>2. PICK own \in SUBSET made :
        /\ Phase = "replace" => own = made
        /\ shown' = [shown EXCEPT !.text = text, !.replaced = (@ \ made) \cup own]
  BY DEF MakeTables
<1>3. /\ QueueInv' /\ CycleInv' /\ MarkInv' /\ queue' \in Seq(Tasks)
      /\ \A u \in Tasks : In(u, queue') <=> In(u, queue) /\ u # "T-W3"
  BY <1>1, MarkLeftAlone
<1>4. shown \in Artifacts /\ verify1 \in Verify1 BY DEF IInv, TypeOK
<1>5. /\ text \in Text
      /\ made \subseteq Items /\ made \cap Sections = {}
      /\ \A i \in Items \ made : text[i] = shown.text[i]
      /\ cycle # NoCycle => made \subseteq ItemsIn(cycle.bundles)
  BY TargetsChosen, RemadeOnly, WritersOf
<1> HIDE DEF text, made
<1>6. /\ shown' \in Artifacts /\ shown'.text = text /\ shown'.replaced = (shown.replaced \ made) \cup own
      /\ shown'.plan = shown.plan
      /\ shown'.docScore = shown.docScore /\ shown'.docReport = shown.docReport
      /\ \A k \in ProductKeys : shown'[k] = shown[k]
  BY <1>2, <1>4, <1>5 DEF Artifacts, Maybe, ProductKeys
<1>8. TypeOK' BY <1>1, <1>3, <1>4, <1>6, StayTypes
<1>9. SectionsInPlan'
  <2>1. PlanBody' = PlanBody BY <1>6 DEF PlanBody, Unwritten
  <2>2. \A i \in Sections : shown'.text[i] = shown.text[i] BY <1>5, <1>6 DEF Sections
  <2> QED BY <2>1, <2>2 DEF IInv, SectionsInPlan, Sections
<1>10. ProductInv' /\ SnapshotInv'
  <2>1. "T-W3" \in DocTasks BY DEF DocTasks, Writers
  <2> QED BY <1>1, <1>3, <1>5, <1>6, <2>1, ProductComesLater
<1>11. DocInv'
  <2>1. \A u \in Brings("T-W3") : Due(u) BY <1>1, AtHead
  <2>2. In("M-1", queue') BY <1>3, <2>1 DEF Brings, Writers, Due, Tasks
  <2>3. place \in FirstPlaces => In("G-02a", queue')
    BY <1>3, <2>1 DEF Brings, Due, Tasks
  <2>4. place' = place /\ progress' = progress /\ progress = "run"
    BY <1>1, AtHead DEF Stay
  <2>5. place \notin FirstPlaces => shown'.docReport # Absent
    BY <1>6, <2>4 DEF IInv, DocInv, Begun, Live
  <2>6. ~In("T-V1", queue') => ScoredAsWritten(shown')
    <3> SUFFICES ASSUME ~In("T-V1", queue') PROVE ScoredAsWritten(shown')
      OBVIOUS
    <3>1. ~Due("T-V1") /\ Due("T-W3") BY <1>1, <1>3, AtHead DEF Due, Tasks
    <3>2. Phase = "replace" BY <3>1 DEF IInv, QueueInv
    <3>3. ScoredAsWritten(shown) BY <2>4, <3>1 DEF IInv, DocInv, Begun, Live
    <3>4. \A i \in Items \ shown'.replaced : i \in Items \ shown.replaced /\ i \notin made
      BY <1>2, <1>6, <3>2
    <3> QED BY <1>5, <1>6, <3>3, <3>4 DEF ScoredAsWritten
  <2>7. ScoredAsWritten(shown)' = ScoredAsWritten(shown') BY DEF ScoredAsWritten
  <2> QED BY <2>2, <2>3, <2>4, <2>5, <2>6, <2>7 DEF DocInv, Due
<1> QED BY <1>3, <1>8, <1>9, <1>10, <1>11 DEF IInv

\* A mark that is cleared.
LEMMA ClearedMark ==
  ASSUME NEW v \in Verify1
  PROVE  /\ Cleared(v) \in Verify1 /\ Cleared(v).phase = "none" /\ Cleared(v).pending = {}
         /\ Cleared(v).key = v.key /\ Cleared(v).counts = v.counts
BY DEF Cleared, Verify1

LEMMA MergePlanKeeps == ASSUME IInv, MergePlan PROVE IInv'
<1> DEFINE body == [i \in Items |-> IF Kind[i] = "section" THEN PlanBody[i] ELSE shown.text[i]]
           plan == [body |-> body, merged |-> TRUE]
<1>1. /\ Step("M-1") /\ Pop /\ Stay /\ Put("plan", plan)
      /\ verify1' = MarkAfterMerge
  BY DEF MergePlan
<1>2. /\ QueueInv' /\ CycleInv' /\ queue' \in Seq(Tasks)
      /\ \A u \in Tasks : In(u, queue') <=> In(u, queue) /\ u # "M-1"
      /\ Key' = Key
  BY <1>1, Popped
<1>3. shown \in Artifacts /\ verify1 \in Verify1 BY DEF IInv, TypeOK
<1>4. shown.text \in Text /\ PlanBody \in Text BY <1>3, PlanBodyType, PointerTypes
<1>5. body = shown.text
  <2>1. \A i \in Items : body[i] = shown.text[i] BY DEF IInv, SectionsInPlan, Sections
  <2> QED BY <1>4, <2>1 DEF Text
<1> HIDE DEF body
<1>6. plan \in Plan BY <1>4, <1>5 DEF Plan
<1>7. /\ shown' \in Artifacts /\ shown'.plan = [body |-> shown.text, merged |-> TRUE]
      /\ shown'.text = shown.text /\ shown'.replaced = shown.replaced
      /\ shown'.docScore = shown.docScore /\ shown'.docReport = shown.docReport
      /\ \A k \in ProductKeys : shown'[k] = shown[k]
  BY <1>1, <1>3, <1>5, <1>6, PutTypes DEF Others, ProductKeys
<1>8. TypeOK'
  <2>1. verify1' \in Verify1 BY <1>1, <1>3, ClearedMark DEF MarkAfterMerge
  <2> QED BY <1>1, <1>2, <1>7, <2>1, StayTypes
<1>9. MarkInv'
  <2>1. CASE verify1.phase = "replace"
    <3>1. verify1'.phase = "none" /\ verify1'.pending = {}
      BY <1>1, <1>3, <2>1, ClearedMark DEF MarkAfterMerge
    <3> QED BY <3>1 DEF MarkInv
  <2>2. CASE verify1.phase # "replace"
    <3>1. verify1' = verify1 BY <1>1, <2>2 DEF MarkAfterMerge
    <3>2. In("T-V1", queue) => In("T-V1", queue') BY <1>2 DEF Tasks
    <3>3. cycle' = cycle /\ form' = form /\ progress' = progress BY <1>1 DEF Stay, Keep
    <3>4. ItemsIn(cycle.bundles)' = ItemsIn(cycle.bundles) BY <3>3 DEF ItemsIn
    <3> QED BY <1>2, <2>2, <3>1, <3>2, <3>3, <3>4 DEF IInv, MarkInv, Due
  <2> QED BY <2>1, <2>2
<1>10. SectionsInPlan'
  <2>1. shown'.plan \in Plan BY <1>5, <1>6, <1>7
  <2>2. Absent \notin Plan BY ReworkAssumption DEF ReworkAssumption
  <2>3. shown'.plan # Absent BY <2>1, <2>2
  <2>4. shown'.plan.body = shown.text BY <1>7
  <2>5. PlanBody' = shown.text BY <2>3, <2>4 DEF PlanBody
  <2> QED BY <1>7, <2>5 DEF SectionsInPlan
<1>11. ProductInv' /\ SnapshotInv'
  <2>1. "M-1" \in DocTasks BY DEF DocTasks, Writers
  <2> QED BY <1>1, <1>2, <1>7, <2>1, ProductComesLater
<1>12. DocInv'
  <2>1. place' = place /\ progress' = progress /\ progress = "run"
    BY <1>1, AtHead DEF Stay
  <2>2. Merged(shown)' BY <1>7 DEF Merged
  <2>3. \A u \in Brings("M-1") : Due(u) BY <1>1, AtHead
  <2>4. place \in FirstPlaces => In("G-02a", queue')
    BY <1>2, <2>3 DEF Brings, Due, Tasks
  <2>5. place \notin FirstPlaces => shown'.docReport # Absent
    BY <1>7, <2>1 DEF IInv, DocInv, Begun, Live
  <2>6. ~In("T-V1", queue') => ScoredAsWritten(shown)'
    <3>1. ~In("T-V1", queue') => ScoredAsWritten(shown)
      BY <1>2, <2>1 DEF IInv, DocInv, Begun, Live, Due, Tasks
    <3> QED BY <1>7, <3>1 DEF ScoredAsWritten
  <2> QED BY <2>1, <2>2, <2>4, <2>5, <2>6 DEF DocInv, Due
<1> QED BY <1>2, <1>8, <1>9, <1>10, <1>11, <1>12 DEF IInv

-----------------------------------------------------------------------------
(* verify-1 *)

\* The mark verify-1 works on.
LEMMA CurrentMark ==
  ASSUME IInv
  PROVE  CurrentVerify1 \in Verify1 /\ CurrentVerify1.key = Key
<1>1. Key \in Nat /\ verify1 \in Verify1 BY PhaseIsMarks DEF IInv, TypeOK
<1>2. RedoLimit \in Nat BY ReworkAssumption DEF ReworkAssumption
<1>3. FreshVerify1(Key) \in Verify1 /\ FreshVerify1(Key).key = Key
  BY <1>1, <1>2 DEF FreshVerify1, Verify1
<1> QED BY <1>1, <1>3 DEF CurrentVerify1

\* It judges and sends back items of the form, and in a rework only chosen ones.
LEMMA MadeChosen ==
  ASSUME IInv
  PROVE  /\ Judged \in SUBSET Items /\ Made \in SUBSET Items
         /\ cycle # NoCycle => Made \subseteq ItemsIn(cycle.bundles)
<1>1. verify1.pending \subseteq Items /\ verify1.made \subseteq Items BY DEF IInv, TypeOK, Verify1
<1>2. \A b : ItemsIn(b) \subseteq Items BY DEF ItemsIn
<1>3. Judged \in SUBSET Items /\ Made \in SUBSET Items BY <1>1, <1>2 DEF Judged, Made
<1>4. Phase = verify1.phase BY PhaseIsMarks
<1>5. ASSUME cycle # NoCycle PROVE Made \subseteq ItemsIn(cycle.bundles)
  <2>1. CASE Phase = "redo" BY <1>4, <1>5, <2>1 DEF Made, IInv, MarkInv
  <2>2. CASE Phase # "redo" BY <1>5, <2>2 DEF Made, Judged
  <2> QED BY <2>1, <2>2
<1> QED BY <1>3, <1>5

\* Steps put in front of the queue bring no more than verify-1 does, and are
\* themselves followed by what puts together and judges.
LEMMA InsertKeeps ==
  ASSUME IInv, Step("T-V1"), Stay, NEW tasks \in SUBSET DocTasks, Insert(InOrder(tasks)),
         \A t \in tasks \cap Writers : "M-1" \in tasks,
         \A t \in tasks \cap {"T-W1", "T-W2"} : "T-V1" \in tasks,
         "T-W3" \in tasks => "T-V1" \in tasks \/ Phase' = "replace"
  PROVE  /\ QueueInv' /\ CycleInv' /\ queue' \in Seq(Tasks) /\ Key' = Key
         /\ \A u \in Tasks : In(u, queue') <=> u \in tasks \/ (In(u, queue) /\ u # "T-V1")
<1>1. /\ Due("T-V1") /\ "T-V1" \in Possible
      /\ \A u \in Brings("T-V1") : Due(u)
      /\ \A u \in Tasks : Due(u) => u = "T-V1" \/ Rank(u) > Rank("T-V1")
      /\ \A u \in Tasks : In(u, Tail(queue)) <=> Due(u) /\ u # "T-V1"
      /\ Queue(queue) /\ queue # <<>> /\ Head(queue) = "T-V1" /\ progress = "run" /\ ~Collecting
  BY AtHead
<1>2. Queue(queue') /\ \A u \in Tasks : In(u, queue') <=> u \in tasks \/ In(u, Tail(queue))
  BY <1>1, Inserted DEF Insert
<1>3. /\ progress' = progress /\ place' = place /\ cycle' = cycle /\ category' = category
      /\ remaining' = remaining
  BY DEF Stay, Keep
<1>4. Possible' = Possible /\ (\A t : Brings(t)' = Brings(t)) /\ Key' = Key
  BY <1>3 DEF Possible, Brings, Key
<1>5. \A u \in Tasks : In(u, queue') <=> u \in tasks \/ (In(u, queue) /\ u # "T-V1")
  BY <1>1, <1>2 DEF Due
<1>6. ASSUME NEW t \in Tasks, In(t, queue') PROVE t \in Possible /\ \A u \in Brings(t) : In(u, queue')
  <2>1. CASE In(t, queue) /\ t # "T-V1"
    <3>1. t \in Possible /\ (\A u \in Brings(t) : In(u, queue)) /\ Rank(t) > Rank("T-V1")
      BY <1>1, <2>1 DEF IInv, QueueInv, Due
    <3>2. ASSUME NEW u \in Brings(t) PROVE In(u, queue')
      <4>1. u \in Tasks /\ Rank(u) > Rank(t) BY <3>1, BringsLater
      <4>2. Rank(u) \in 1..15 /\ Rank(t) \in 1..15 /\ Rank("T-V1") \in 1..15
        BY <4>1, RankIsPlace DEF Tasks
      <4>3. u # "T-V1" BY <3>1, <4>1, <4>2
      <4> QED BY <1>5, <3>1, <4>1, <4>3
    <3> QED BY <3>1, <3>2
  <2>2. CASE t \in tasks
    <3>1. DocTasks \subseteq Possible
      <4>1. place \in FirstPlaces \cup ProductPlaces BY <1>1 DEF Possible
      <4> QED BY <4>1 DEF Possible, DocTasks, Writers, Tasks
    <3>2. t \in DocTasks BY <2>2
    <3>3. "M-1" \in Tasks /\ "T-V1" \in Tasks BY DEF Tasks
    <3>4. ASSUME NEW u \in Brings(t) PROVE In(u, queue')
      <4>1. CASE t \in Writers /\ u = "M-1" BY <1>5, <2>2, <3>3, <4>1
      <4>2. CASE t \in {"T-W1", "T-W2"} /\ u = "T-V1" BY <1>5, <2>2, <3>3, <4>2
      <4>3. CASE ~(t \in Writers /\ u = "M-1") /\ ~(t \in {"T-W1", "T-W2"} /\ u = "T-V1")
        <5>1. /\ Rank(t) \in 1..5 /\ Rank("T-V1") = 5 /\ Rank("T-V2") = 11 /\ Rank("CYCLE-END") = 12
              /\ t # "G-02a" /\ t # "G-02b" /\ t # "T-B2"
              /\ "T-V1" \in DocTasks /\ "T-V1" \notin Writers
          BY <3>2 DEF DocTasks, Writers, Rank
        <5>2. u \in Brings("T-V1") BY <3>2, <4>3, <5>1 DEF Brings
        <5>3. In(u, queue) BY <1>1, <5>2 DEF Due
        <5>4. u \in Tasks /\ Rank(u) > Rank("T-V1") BY <1>1, <5>2, BringsLater
        <5>5. u # "T-V1" BY <5>1, <5>4
        <5> QED BY <1>5, <5>3, <5>4, <5>5
      <4> QED BY <4>1, <4>2, <4>3
    <3> QED BY <3>1, <3>2, <3>4
  <2> QED BY <1>5, <1>6, <2>1, <2>2
<1>7. In("T-W3", queue') => In("T-V1", queue') \/ Phase' = "replace"
  <2>1. "T-W3" \in Tasks /\ "T-V1" \in Tasks /\ Rank("T-W3") = 3 /\ Rank("T-V1") = 5
    BY DEF Tasks, Rank
  <2>2. ~In("T-W3", queue) BY <1>1, <2>1 DEF Due
  <2> QED BY <1>5, <2>1, <2>2
<1>8. QueueInv'
  <2>1. Ordered(queue') BY <1>2 DEF Queue
  <2>2. \A t \in Tasks : In(t, queue') => t \in Possible' /\ \A u \in Brings(t)' : In(u, queue')
    BY <1>4, <1>6
  <2> QED BY <1>1, <1>3, <1>7, <2>1, <2>2 DEF QueueInv, Due
<1>9. CycleInv' BY <1>1, <1>3 DEF IInv, CycleInv, Collecting
<1> QED BY <1>2, <1>4, <1>5, <1>8, <1>9 DEF Queue

\* What verify-1 makes of the mark and of the queue.
LEMMA AfterVerify1Keeps ==
  ASSUME IInv, Step("T-V1"), Stay, NEW failing \in SUBSET Items, AfterVerify1(failing)
  PROVE  /\ QueueInv' /\ CycleInv' /\ MarkInv' /\ queue' \in Seq(Tasks) /\ verify1' \in Verify1
         /\ \A u \in Tasks : In(u, queue) /\ u # "T-V1" => In(u, queue')
         /\ \A u \in Tasks : In(u, queue') => In(u, queue) \/ u \in DocTasks
<1> DEFINE back == SentBack(failing)
           redo == {i \in back : CurrentVerify1.counts[i] < RedoLimit}
           tables == {i \in back : Kind[i] = "table"}
           writers == TasksOf(redo) \ {"T-W3"}
           again == writers \cup (IF writers # {} THEN {"M-1"} ELSE {}) \cup {"T-V1"}
           v == [CurrentVerify1 EXCEPT !.made = Made]
           counts == [i \in Items |-> CurrentVerify1.counts[i] + (IF i \in redo THEN 1 ELSE 0)]
<1>1. CurrentVerify1 \in Verify1 /\ CurrentVerify1.key = Key BY CurrentMark
<1>2. /\ Made \in SUBSET Items
      /\ cycle # NoCycle => Made \subseteq ItemsIn(cycle.bundles)
  BY MadeChosen
<1>3. back \subseteq Made BY DEF SentBack
<1>4. v \in Verify1 /\ v.key = Key /\ v.made = Made /\ v.counts = CurrentVerify1.counts
  BY <1>1, <1>2 DEF Verify1
<1>5. /\ progress' = progress /\ cycle' = cycle /\ form' = form /\ progress = "run"
  BY AtHead DEF Stay, Keep
<1>6. Key' = Key /\ ItemsIn(cycle.bundles)' = ItemsIn(cycle.bundles) BY <1>5 DEF Key, ItemsIn
<1>7. /\ writers \subseteq {"T-W1", "T-W2"} /\ again \in SUBSET DocTasks
      /\ {"T-W3", "M-1"} \in SUBSET DocTasks /\ DocTasks \subseteq Tasks
      /\ "T-V1" \in Tasks /\ "M-1" \in Tasks /\ "T-W3" \in Tasks
  <2>1. redo \subseteq Items BY <1>2, <1>3
  <2>2. TasksOf(redo) \subseteq Writers BY <2>1, WritersOf
  <2> QED BY <2>2 DEF DocTasks, Writers, Tasks
<1>8. CASE redo # {}
  <2>1. /\ verify1' = [v EXCEPT !.phase = "redo", !.pending = redo,
                                !.counts = [i \in Items |-> @[i] + (IF i \in redo THEN 1 ELSE 0)]]
        /\ Insert(InOrder(again))
    BY <1>8 DEF AfterVerify1
  <2>2. counts \in [Items -> 0..RedoLimit]
    <3>1. \A i \in Items : CurrentVerify1.counts[i] \in 0..RedoLimit BY <1>1 DEF Verify1
    <3>2. RedoLimit \in Nat BY ReworkAssumption DEF ReworkAssumption
    <3> QED BY <3>1, <3>2
  <2> HIDE DEF v, redo, back
  <2>3. verify1' = [v EXCEPT !.phase = "redo", !.pending = redo, !.counts = counts]
    BY <1>4, <2>1
  <2> HIDE DEF counts
  <2>4. redo \subseteq Made BY <1>3 DEF redo
  <2>5. /\ verify1' \in Verify1 /\ verify1'.key = Key /\ verify1'.phase = "redo"
        /\ verify1'.pending = redo /\ verify1'.made = Made
    BY <1>2, <1>4, <2>2, <2>3, <2>4 DEF Verify1
  <2> HIDE DEF writers
  <2>6. /\ \A t \in again \cap Writers : "M-1" \in again
        /\ "T-V1" \in again
    BY <1>7 DEF Writers
  <2> HIDE DEF again
  <2>7. /\ QueueInv' /\ CycleInv' /\ queue' \in Seq(Tasks)
        /\ \A u \in Tasks : In(u, queue') <=> u \in again \/ (In(u, queue) /\ u # "T-V1")
    BY <1>7, <2>1, <2>6, InsertKeeps
  <2>8. MarkInv'
    <3>1. In("T-V1", queue') BY <1>7, <2>6, <2>7
    <3> QED BY <1>2, <1>5, <1>6, <1>8, <2>4, <2>5, <3>1 DEF MarkInv, Due
  <2> QED BY <1>7, <2>5, <2>7, <2>8
<1>9. CASE redo = {} /\ tables # {}
  <2>1. /\ verify1' = [v EXCEPT !.phase = "replace", !.pending = tables]
        /\ Insert(InOrder({"T-W3", "M-1"}))
    BY <1>9 DEF AfterVerify1
  <2>2. tables \subseteq Made BY <1>3
  <2> HIDE DEF v, redo, tables, back
  <2>3. /\ verify1' \in Verify1 /\ verify1'.key = Key /\ verify1'.phase = "replace"
        /\ verify1'.pending = tables
    BY <1>2, <1>4, <2>1, <2>2 DEF Verify1
  <2>4. Phase' = "replace" BY <1>6, <1>9, <2>3 DEF Phase
  <2>5. /\ QueueInv' /\ CycleInv' /\ queue' \in Seq(Tasks)
        /\ \A u \in Tasks : In(u, queue') <=> u \in {"T-W3", "M-1"} \/ (In(u, queue) /\ u # "T-V1")
    BY <1>7, <2>1, <2>4, InsertKeeps
  <2>6. MarkInv'
    <3>1. In("M-1", queue') BY <1>7, <2>5
    <3> QED BY <1>2, <1>5, <1>6, <1>9, <2>2, <2>3, <3>1 DEF MarkInv, Due
  <2> QED BY <1>7, <2>3, <2>5, <2>6
<1>10. CASE redo = {} /\ tables = {}
  <2>1. verify1' = Cleared(v) /\ Pop BY <1>10 DEF AfterVerify1
  <2>2. verify1' \in Verify1 /\ verify1'.phase = "none" /\ verify1'.pending = {}
    BY <1>4, <2>1, ClearedMark
  <2>3. /\ QueueInv' /\ CycleInv' /\ queue' \in Seq(Tasks)
        /\ \A u \in Tasks : In(u, queue') <=> In(u, queue) /\ u # "T-V1"
    BY <2>1, Popped
  <2>4. MarkInv' BY <2>2 DEF MarkInv
  <2> QED BY <1>7, <2>2, <2>3, <2>4
<1> QED BY <1>8, <1>9, <1>10

LEMMA VerifyPlanKeeps == ASSUME IInv, VerifyPlan PROVE IInv'
<1>1. Step("T-V1") /\ Stay BY DEF VerifyPlan
<1> DEFINE before == IF shown.docScore = Absent THEN {} ELSE shown.docScore.failing
<1>2. PICK found \in SUBSET Judged, total \in 0..MaxScore :
        LET failing == (before \ Judged) \cup found
        IN /\ Put("docScore", [made |-> Key, body |-> shown.plan.body, total |-> total,
                               failing |-> failing])
           /\ AfterVerify1(failing)
  BY DEF VerifyPlan
<1> DEFINE failing == (before \ Judged) \cup found
           score == [made |-> Key, body |-> shown.plan.body, total |-> total, failing |-> failing]
<1>3. shown \in Artifacts BY DEF IInv, TypeOK
<1>4. failing \in SUBSET Items
  <2>1. Judged \in SUBSET Items BY MadeChosen
  <2>2. shown.docScore # Absent => shown.docScore.failing \in SUBSET Items
    BY <1>3, PointerTypes DEF DocScore
  <2> QED BY <2>1, <2>2
<1>5. Put("docScore", score) /\ AfterVerify1(failing) BY <1>2
<1> HIDE DEF failing, before
<1>6. /\ QueueInv' /\ CycleInv' /\ MarkInv' /\ queue' \in Seq(Tasks) /\ verify1' \in Verify1
      /\ \A u \in Tasks : In(u, queue) /\ u # "T-V1" => In(u, queue')
      /\ \A u \in Tasks : In(u, queue') => In(u, queue) \/ u \in DocTasks
  BY <1>1, <1>4, <1>5, AfterVerify1Keeps
<1>7. Merged(shown) /\ progress = "run" /\ progress' = progress /\ place' = place
  <2>1. \A u \in Tasks : Due(u) => u = "T-V1" \/ Rank(u) > Rank("T-V1") BY <1>1, AtHead
  <2>2. "M-1" \in Tasks /\ Rank("M-1") = 4 /\ Rank("T-V1") = 5 BY DEF Tasks, Rank
  <2>3. ~Due("M-1") BY <2>1, <2>2
  <2>4. progress = "run" BY <1>1, AtHead
  <2> QED BY <1>1, <2>3, <2>4 DEF IInv, DocInv, Begun, Live, Stay
<1>8. shown.plan.body = shown.text /\ shown.text \in Text
  BY <1>3, <1>7, PointerTypes DEF Merged
<1>9. score \in DocScore BY <1>4, <1>8, PhaseIsMarks DEF DocScore
<1>10. shown' \in Artifacts /\ shown'.docScore = score /\ Others("docScore")
  BY <1>3, <1>5, <1>9, PutTypes
<1>11. /\ shown'.text = shown.text /\ shown'.plan = shown.plan /\ shown'.docReport = shown.docReport
       /\ \A k \in ProductKeys : shown'[k] = shown[k]
  BY <1>10 DEF Others, ProductKeys
<1>12. TypeOK' BY <1>1, <1>6, <1>10, StayTypes
<1>13. SectionsInPlan'
  <2>1. PlanBody' = PlanBody BY <1>11 DEF PlanBody, Unwritten
  <2> QED BY <1>11, <2>1 DEF IInv, SectionsInPlan, Sections
<1>14. shown'.docScore # Absent /\ shown'.docScore.made = Key
  BY <1>9, <1>10, ReworkAssumption DEF ReworkAssumption
<1>15. ProductInv' /\ SnapshotInv'
  <2>1. "T-V1" \in DocTasks BY DEF DocTasks
  <2> QED BY <1>1, <1>6, <1>11, <1>14, <2>1, ProductComesLater
<1>16. DocInv'
  <2>1. Merged(shown)' BY <1>7, <1>11 DEF Merged
  <2>2. ScoredAsWritten(shown)'
    <3>1. shown'.docScore.body = shown.text BY <1>8, <1>10
    <3> QED BY <1>11, <1>14, <3>1 DEF ScoredAsWritten
  <2>3. \A u \in Brings("T-V1") : Due(u) BY <1>1, AtHead
  <2>4. place \in FirstPlaces => In("G-02a", queue')
    BY <1>6, <2>3 DEF Brings, Due, Tasks
  <2>5. place \notin FirstPlaces => shown'.docReport # Absent
    BY <1>7, <1>11 DEF IInv, DocInv, Begun, Live
  <2> QED BY <1>7, <2>1, <2>2, <2>4, <2>5 DEF DocInv, Due
<1> QED BY <1>6, <1>12, <1>13, <1>15, <1>16 DEF IInv

-----------------------------------------------------------------------------
(* The steps that work on the product *)

\* The plan is as it was after a step that does not work on it.
LEMMA DocStays ==
  ASSUME IInv, NEW task, Step(task), Pop, Stay, task \notin DocTasks,
         shown'.text = shown.text, shown'.replaced = shown.replaced, shown'.plan = shown.plan,
         shown'.docScore = shown.docScore,
         \/ task # "G-02a" /\ shown'.docReport = shown.docReport
         \/ task = "G-02a" /\ shown'.docReport = shown.docScore,
         \A u \in Tasks : In(u, queue') <=> In(u, queue) /\ u # task
  PROVE  SectionsInPlan' /\ DocInv'
<1>1. PlanBody' = PlanBody BY DEF PlanBody, Unwritten
<1>2. SectionsInPlan' BY <1>1 DEF IInv, SectionsInPlan, Sections
<1>3. place' = place /\ progress' = progress /\ progress = "run" /\ task \in Possible
  BY AtHead DEF Stay
<1>4. /\ ~Due("M-1") => Merged(shown)
      /\ ~Due("T-V1") => ScoredAsWritten(shown)
      /\ place \in FirstPlaces /\ ~Due("G-02a") => shown.docReport = shown.docScore
      /\ place \notin FirstPlaces => shown.docReport # Absent
  BY <1>3 DEF IInv, DocInv, Begun, Live
<1>5. /\ In("M-1", queue') <=> Due("M-1")
      /\ In("T-V1", queue') <=> Due("T-V1")
  BY DEF Due, DocTasks, Tasks
<1>6. Merged(shown)' <=> Merged(shown) BY DEF Merged
<1>7. ScoredAsWritten(shown)' <=> ScoredAsWritten(shown) BY DEF ScoredAsWritten
<1>8. place \in FirstPlaces /\ ~In("G-02a", queue') => shown'.docReport = shown'.docScore
  <2>1. CASE task = "G-02a" BY <2>1
  <2>2. CASE task # "G-02a"
    <3>1. In("G-02a", queue') <=> Due("G-02a") BY <2>2 DEF Due, Tasks
    <3> QED BY <1>4, <2>2, <3>1
  <2> QED BY <2>1, <2>2
<1>9. place \notin FirstPlaces => shown'.docReport # Absent
  <2>1. task = "G-02a" => place \in FirstPlaces
    BY <1>3 DEF Possible
  <2> QED BY <1>4, <2>1
<1>10. DocInv' BY <1>3, <1>4, <1>5, <1>6, <1>7, <1>8, <1>9 DEF DocInv, Due
<1> QED BY <1>2, <1>10

LEMMA JudgePlanKeeps == ASSUME IInv, JudgePlan PROVE IInv'
<1>1. /\ Step("G-02a") /\ Pop /\ Stay /\ UNCHANGED verify1
      /\ Put("docReport", shown.docScore)
  BY DEF JudgePlan
<1>2. shown \in Artifacts /\ verify1 \in Verify1 BY DEF IInv, TypeOK
<1>3. shown.docScore \in Maybe(DocScore) BY <1>2 DEF Artifacts
<1>4. shown' \in Artifacts /\ shown'.docReport = shown.docScore /\ Others("docReport")
  BY <1>1, <1>2, <1>3, PutTypes
<1>5. /\ shown'.text = shown.text /\ shown'.plan = shown.plan /\ shown'.docScore = shown.docScore
      /\ shown'.replaced = shown.replaced
      /\ \A k \in ProductKeys : shown'[k] = shown[k]
      /\ \A k \in Layers : shown'[k] = shown[k]
  BY <1>4 DEF Others, ProductKeys, Layers
<1>6. /\ QueueInv' /\ CycleInv' /\ MarkInv' /\ queue' \in Seq(Tasks)
      /\ \A u \in Tasks : In(u, queue') <=> In(u, queue) /\ u # "G-02a"
  BY <1>1, MarkLeftAlone
<1>7. TypeOK' BY <1>1, <1>2, <1>4, <1>6, StayTypes
<1>8. "G-02a" \notin DocTasks /\ "G-02a" # "CYCLE-END" /\ "CYCLE-END" \in Tasks
  BY DEF DocTasks, Writers, Tasks
<1>9. SectionsInPlan' /\ DocInv' BY <1>1, <1>4, <1>5, <1>6, <1>8, DocStays
<1>10. ProductInv'
  <2>1. "G-02a" \in Possible BY <1>1, AtHead
  <2>2. place \notin ProductPlaces BY <2>1 DEF Possible, FirstPlaces, ProductPlaces
  <2> QED BY <1>1, <2>2 DEF ProductInv, Stay
<1>11. SnapshotInv'
  <2>1. UNCHANGED <<cycle, category, form>> BY <1>1 DEF Stay, Keep
  <2>2. In("CYCLE-END", queue') \/ ~In("CYCLE-END", queue) BY <1>6, <1>8
  <2>3. cycle # NoCycle =>
           \A i \in Items \ ItemsIn(cycle.bundles) : shown'.text[i] = shown.text[i]
    BY <1>5
  <2> QED BY <1>5, <2>1, <2>2, <2>3, SnapshotStays
<1> QED BY <1>6, <1>7, <1>9, <1>10, <1>11 DEF IInv

BuildTasks == {"T-B1", "T-B2", "M-2", "G-04", "M-3", "T-V2"}

\* What a step on the product finds.
LEMMA BuildFinds ==
  ASSUME IInv, NEW task \in BuildTasks, Step(task)
  PROVE  /\ place \in ProductPlaces /\ progress = "run"
         /\ Merged(shown) /\ shown.plan.body \in Text
         /\ Key \in Nat
         /\ Rank(task) > Rank("T-B2") => Built(shown)
         /\ Rank(task) > Rank("M-2") => Wrapped(shown)
<1>1. /\ task \in Possible /\ progress = "run"
      /\ \A u \in Tasks : Due(u) => u = task \/ Rank(u) > Rank(task)
  BY AtHead
<1>2. place \in ProductPlaces
  BY <1>1 DEF Possible, BuildTasks, DocTasks, Writers
<1>3. /\ Rank("M-1") = 4 /\ Rank("T-B1") = 6 /\ Rank("T-B2") = 7 /\ Rank("M-2") = 8
      /\ Rank(task) \in 6..11 /\ {"M-1", "T-B1", "T-B2", "M-2"} \subseteq Tasks
  BY DEF Rank, BuildTasks, Tasks
<1>4. ~Due("M-1") BY <1>1, <1>3
<1>5. Merged(shown) BY <1>1, <1>4 DEF IInv, DocInv, Begun, Live
<1>6. shown.text \in Text BY DEF IInv, TypeOK, Artifacts
<1>7. Rank(task) > Rank("T-B2") => Built(shown)
  <2>1. Rank(task) > Rank("T-B2") => ~Due("T-B2") BY <1>1, <1>3
  <2> QED BY <1>1, <1>2, <2>1 DEF IInv, ProductInv, Live
<1>8. Rank(task) > Rank("M-2") => Wrapped(shown)
  <2>1. Rank(task) > Rank("M-2") => ~Due("T-B1") /\ ~Due("M-2") BY <1>1, <1>3
  <2> QED BY <1>1, <1>2, <2>1 DEF IInv, ProductInv, Live
<1> QED BY <1>1, <1>2, <1>5, <1>6, <1>7, <1>8, PhaseIsMarks DEF Merged

\* What a step on the product leaves to the product itself to show.
LEMMA BuildLeaves ==
  ASSUME IInv, NEW task \in BuildTasks, Step(task), Pop, Stay, UNCHANGED verify1,
         shown' \in Artifacts,
         shown'.text = shown.text, shown'.replaced = shown.replaced, shown'.plan = shown.plan,
         shown'.docScore = shown.docScore, shown'.docReport = shown.docReport,
         \/ shown'.artifactScore = shown.artifactScore
         \/ shown'.artifactScore # Absent /\ shown'.artifactScore.made = Key,
         ProductInv'
  PROVE  IInv'
<1>1. task \notin DocTasks /\ task # "G-02a" /\ task # "CYCLE-END" /\ "CYCLE-END" \in Tasks
  BY DEF BuildTasks, DocTasks, Writers, Tasks
<1>2. /\ QueueInv' /\ CycleInv' /\ MarkInv' /\ queue' \in Seq(Tasks)
      /\ \A u \in Tasks : In(u, queue') <=> In(u, queue) /\ u # task
  BY <1>1, MarkLeftAlone DEF DocTasks
<1>3. verify1' \in Verify1 BY DEF IInv, TypeOK
<1>4. TypeOK' BY <1>2, <1>3, StayTypes
<1>5. SectionsInPlan' /\ DocInv' BY <1>1, <1>2, DocStays
<1>6. SnapshotInv'
  <2>1. UNCHANGED <<cycle, category, form>> BY DEF Stay, Keep
  <2>2. ASSUME cycle # NoCycle PROVE In("CYCLE-END", queue') /\ cycle.screen # "screen6"
    <3>1. place \in ProductPlaces /\ place = cycle.screen BY <2>2, BuildFinds DEF IInv, CycleInv
    <3>2. Rank(task) < Rank("CYCLE-END") BY DEF Rank, BuildTasks
    <3>3. Due("CYCLE-END") BY <2>2, <3>2, AtHead DEF Brings
    <3> QED BY <1>1, <1>2, <3>1, <3>3 DEF Due, ProductPlaces
  <2>3. cycle # NoCycle => Key = cycle.id BY DEF Key
  <2>4. cycle # NoCycle =>
           \A k \in Layers : shown'[k] = shown[k] \/ (shown'[k] # Absent /\ shown'[k].made = cycle.id)
    BY <2>3 DEF Layers
  <2>5. cycle # NoCycle =>
           \A i \in Items \ ItemsIn(cycle.bundles) : shown'.text[i] = shown.text[i]
    OBVIOUS
  <2> QED BY <2>1, <2>2, <2>4, <2>5, SnapshotStays
<1> QED BY <1>2, <1>4, <1>5, <1>6 DEF IInv

\* The queue and the place after a step on the product.
LEMMA BuildQueue ==
  ASSUME IInv, NEW task \in BuildTasks \cup {"G-02b"}, Step(task), Pop, Stay, UNCHANGED verify1
  PROVE  /\ \A u \in Tasks : In(u, queue') <=> Due(u) /\ u # task
         /\ place' = place /\ progress' = progress /\ category' = category /\ Key' = Key
         /\ task # "G-02b" => In("G-02b", queue')
         /\ task \notin {"G-02b", "T-V2"} => In("T-V2", queue')
<1>1. task \notin {"T-V1", "M-1"} BY DEF BuildTasks
<1>2. (\A u \in Tasks : In(u, queue') <=> In(u, queue) /\ u # task) /\ Key' = Key
  BY <1>1, MarkLeftAlone
<1>3. place' = place /\ progress' = progress /\ category' = category BY DEF Stay, Keep
<1>4. ASSUME task # "G-02b" PROVE In("G-02b", queue') /\ (task # "T-V2" => In("T-V2", queue'))
  <2>1. task \in BuildTasks BY <1>4
  <2>2. place \in ProductPlaces BY <2>1, BuildFinds
  <2>3. task # "T-V2" => Rank(task) < Rank("T-V2") BY <2>1 DEF BuildTasks, Rank
  <2>4. Due("G-02b") /\ (task # "T-V2" => Due("T-V2"))
    BY <1>4, <2>2, <2>3, AtHead DEF Brings
  <2> QED BY <1>2, <1>4, <2>4 DEF Due, Tasks
<1> QED BY <1>2, <1>3, <1>4 DEF Due

LEMMA BuildHtmlKeeps == ASSUME IInv, BuildHtml PROVE IInv'
<1> DEFINE new == [made |-> Key, body |-> shown.plan.body, readme |-> Absent]
<1>1. Step("T-B1") /\ Pop /\ Stay /\ UNCHANGED verify1 /\ Put("prototype", new) BY DEF BuildHtml
<1>2. "T-B1" \in BuildTasks BY DEF BuildTasks
<1>3. place \in ProductPlaces /\ shown.plan.body \in Text /\ Key \in Nat
  BY <1>1, <1>2, BuildFinds
<1>4. new \in Prototype BY <1>3 DEF Prototype, Maybe
<1>5. new # Absent BY <1>4, ReworkAssumption DEF ReworkAssumption
<1>6. shown \in Artifacts BY DEF IInv, TypeOK
<1>7. shown' \in Artifacts /\ shown'.prototype = new /\ Others("prototype")
  BY <1>1, <1>4, <1>6, PutTypes
<1>8. /\ shown'.text = shown.text /\ shown'.replaced = shown.replaced /\ shown'.plan = shown.plan
      /\ shown'.docScore = shown.docScore /\ shown'.docReport = shown.docReport
      /\ shown'.artifactScore = shown.artifactScore /\ shown'.infographic = shown.infographic
  BY <1>7 DEF Others
<1>9. ProductInv'
  <2>1. category # "onepage"
    <3>1. "T-B1" \in Possible BY <1>1, AtHead
    <3> QED BY <1>3, <3>1 DEF Possible, ProductPlaces, FirstPlaces
  <2>2. /\ \A u \in Tasks : In(u, queue') <=> Due(u) /\ u # "T-B1"
        /\ place' = place /\ progress' = progress /\ category' = category
        /\ In("G-02b", queue') /\ In("T-V2", queue')
    BY <1>1, <1>2, BuildQueue
  <2>3. ~In("T-B2", queue') => Built(shown)'
    <3>1. ~In("T-B2", queue') => ~Due("T-B2") BY <2>2 DEF Tasks
    <3>2. ~In("T-B2", queue') => Built(shown)
      BY <1>1, <1>3, <3>1, AtHead DEF IInv, ProductInv, Live
    <3> QED BY <1>8, <2>1, <2>2, <3>2 DEF Built
  <2>4. Wrapped(shown)' BY <1>5, <1>7, <1>8, <2>1, <2>2 DEF Wrapped
  <2>5. ~In("M-2", queue')
    <3>1. "M-2" \notin Possible BY <1>3, <2>1 DEF Possible, ProductPlaces, FirstPlaces
    <3> QED BY <2>2, <3>1 DEF IInv, QueueInv, Tasks
  <2> QED BY <2>2, <2>3, <2>4, <2>5 DEF ProductInv, Due
<1> QED BY <1>1, <1>2, <1>7, <1>8, <1>9, BuildLeaves

LEMMA BuildInfographicKeeps == ASSUME IInv, BuildInfographic PROVE IInv'
<1> DEFINE new == [made |-> Key, body |-> shown.plan.body]
<1>1. Step("T-B2") /\ Pop /\ Stay /\ UNCHANGED verify1 /\ Put("infographic", new)
  BY DEF BuildInfographic
<1>2. "T-B2" \in BuildTasks BY DEF BuildTasks
<1>3. place \in ProductPlaces /\ shown.plan.body \in Text /\ Key \in Nat
  BY <1>1, <1>2, BuildFinds
<1>4. new \in Infographic BY <1>3 DEF Infographic
<1>5. new # Absent BY <1>4, ReworkAssumption DEF ReworkAssumption
<1>6. shown \in Artifacts BY DEF IInv, TypeOK
<1>7. shown' \in Artifacts /\ shown'.infographic = new /\ Others("infographic")
  BY <1>1, <1>4, <1>6, PutTypes
<1>8. /\ shown'.text = shown.text /\ shown'.replaced = shown.replaced /\ shown'.plan = shown.plan
      /\ shown'.docScore = shown.docScore /\ shown'.docReport = shown.docReport
      /\ shown'.artifactScore = shown.artifactScore /\ shown'.prototype = shown.prototype
  BY <1>7 DEF Others
<1>9. ProductInv'
  <2>1. /\ \A u \in Tasks : In(u, queue') <=> Due(u) /\ u # "T-B2"
        /\ place' = place /\ progress' = progress /\ category' = category /\ Key' = Key
        /\ In("G-02b", queue') /\ In("T-V2", queue')
    BY <1>1, <1>2, BuildQueue
  <2>2. Built(shown)' BY <1>5, <1>7, <1>8 DEF Built
  <2>3. In("M-2", queue') => shown'.infographic.made = Key' BY <1>7, <2>1
  <2>4. ~In("T-B1", queue') /\ ~In("M-2", queue') => Wrapped(shown)'
    <3>1. CASE category = "onepage"
      <4>1. Due("M-2") BY <1>1, <1>3, <3>1, AtHead DEF Brings
      <4> QED BY <2>1, <4>1 DEF Tasks
    <3>2. CASE category # "onepage"
      <4>1. ~In("T-B1", queue') /\ ~In("M-2", queue') => Wrapped(shown)
        BY <1>1, <1>3, <2>1, AtHead DEF IInv, ProductInv, Live, Tasks
      <4> QED BY <1>8, <2>1, <3>2, <4>1 DEF Wrapped
    <3> QED BY <3>1, <3>2
  <2> QED BY <2>1, <2>2, <2>3, <2>4 DEF ProductInv, Due
<1> QED BY <1>1, <1>2, <1>7, <1>8, <1>9, BuildLeaves

LEMMA WrapInfographicKeeps == ASSUME IInv, WrapInfographic PROVE IInv'
<1> DEFINE new == [made |-> Key, body |-> shown.infographic.body, readme |-> Absent]
<1>1. Step("M-2") /\ Pop /\ Stay /\ UNCHANGED verify1 /\ Put("prototype", new)
  BY DEF WrapInfographic
<1>2. "M-2" \in BuildTasks BY DEF BuildTasks
<1>3. /\ place \in ProductPlaces /\ Key \in Nat /\ Built(shown)
      /\ category = "onepage" /\ shown.infographic.made = Key
  <2>1. Rank("M-2") > Rank("T-B2") BY DEF Rank
  <2>2. place \in ProductPlaces /\ Key \in Nat /\ Built(shown) BY <1>1, <1>2, <2>1, BuildFinds
  <2>3. "M-2" \in Possible /\ Due("M-2") /\ ~Due("T-B2") /\ progress = "run"
    <3>1. "T-B2" \in Tasks /\ Rank("T-B2") = 7 /\ Rank("M-2") = 8 BY DEF Tasks, Rank
    <3> QED BY <1>1, <3>1, AtHead
  <2>4. category = "onepage" BY <2>2, <2>3 DEF Possible, ProductPlaces, FirstPlaces
  <2> QED BY <2>2, <2>3, <2>4 DEF IInv, ProductInv, Live
<1>4. shown \in Artifacts BY DEF IInv, TypeOK
<1>5. new \in Prototype
  <2>1. shown.infographic \in Infographic BY <1>3, <1>4, PointerTypes DEF Built
  <2> QED BY <1>3, <2>1 DEF Prototype, Infographic, Maybe
<1>6. new # Absent BY <1>5, ReworkAssumption DEF ReworkAssumption
<1>7. shown' \in Artifacts /\ shown'.prototype = new /\ Others("prototype")
  BY <1>1, <1>4, <1>5, PutTypes
<1>8. /\ shown'.text = shown.text /\ shown'.replaced = shown.replaced /\ shown'.plan = shown.plan
      /\ shown'.docScore = shown.docScore /\ shown'.docReport = shown.docReport
      /\ shown'.artifactScore = shown.artifactScore /\ shown'.infographic = shown.infographic
  BY <1>7 DEF Others
<1>9. ProductInv'
  <2>1. /\ \A u \in Tasks : In(u, queue') <=> Due(u) /\ u # "M-2"
        /\ place' = place /\ progress' = progress /\ category' = category
        /\ In("G-02b", queue') /\ In("T-V2", queue')
    BY <1>1, <1>2, BuildQueue
  <2>2. Built(shown)' BY <1>3, <1>8, <2>1 DEF Built
  <2>3. Wrapped(shown)' BY <1>3, <1>6, <1>7, <1>8, <2>1 DEF Wrapped
  <2>4. ~In("M-2", queue') BY <2>1 DEF Tasks
  <2> QED BY <2>1, <2>2, <2>3, <2>4 DEF ProductInv, Due
<1> QED BY <1>1, <1>2, <1>7, <1>8, <1>9, BuildLeaves

\* A product that is built stays so while its readme is written.
LEMMA ReadmeLeaves ==
  ASSUME IInv, NEW task \in {"G-04", "M-3"}, Step(task), Pop, Stay, UNCHANGED verify1,
         shown'.plan = shown.plan, shown'.infographic = shown.infographic,
         shown'.prototype # Absent,
         shown'.prototype.body = shown.prototype.body, shown'.prototype.made = shown.prototype.made
  PROVE  ProductInv'
<1>1. task \in BuildTasks /\ task \in Tasks BY DEF BuildTasks, Tasks
<1>2. /\ Rank("T-B2") = 7 /\ Rank("M-2") = 8 /\ Rank(task) \in {9, 10} /\ "M-2" \in Tasks
  BY DEF Rank, Tasks
<1>3. Built(shown) /\ Wrapped(shown) BY <1>1, <1>2, BuildFinds
<1>4. /\ \A u \in Tasks : In(u, queue') <=> Due(u) /\ u # task
      /\ place' = place /\ progress' = progress /\ category' = category
      /\ In("G-02b", queue') /\ In("T-V2", queue')
  BY <1>1, BuildQueue
<1>5. Built(shown)' BY <1>3, <1>4 DEF Built
<1>6. Wrapped(shown)' BY <1>3, <1>4 DEF Wrapped
<1>7. ~In("M-2", queue') BY <1>2, <1>4, AtHead
<1> QED BY <1>4, <1>5, <1>6, <1>7 DEF ProductInv, Due

LEMMA WriteReadmeKeeps == ASSUME IInv, WriteReadme PROVE IInv'
<1> DEFINE new == [prototype |-> shown.prototype.made, infographic |-> shown.infographic.made]
<1>1. /\ Step("G-04") /\ Pop /\ Stay /\ UNCHANGED verify1
      /\ Put("readme", new) \/ UNCHANGED shown
  BY DEF WriteReadme
<1>2. "G-04" \in BuildTasks BY DEF BuildTasks
<1>3. Built(shown) /\ Wrapped(shown)
  <2>1. Rank("G-04") = 9 /\ Rank("T-B2") = 7 /\ Rank("M-2") = 8 BY DEF Rank
  <2> QED BY <1>1, <1>2, <2>1, BuildFinds
<1>4. shown \in Artifacts BY DEF IInv, TypeOK
<1>5. new \in Readme
  <2>1. shown.prototype \in Prototype /\ shown.infographic \in Infographic
    BY <1>3, <1>4, PointerTypes DEF Built, Wrapped
  <2> QED BY <2>1 DEF Prototype, Infographic, Readme
<1>6. /\ shown' \in Artifacts
      /\ shown'.text = shown.text /\ shown'.replaced = shown.replaced /\ shown'.plan = shown.plan
      /\ shown'.docScore = shown.docScore /\ shown'.docReport = shown.docReport
      /\ shown'.artifactScore = shown.artifactScore /\ shown'.infographic = shown.infographic
      /\ shown'.prototype = shown.prototype
  <2>1. CASE Put("readme", new)
    <3>1. shown' \in Artifacts /\ Others("readme") BY <1>4, <1>5, <2>1, PutTypes
    <3> QED BY <3>1 DEF Others
  <2>2. CASE UNCHANGED shown BY <1>4, <2>2
  <2> QED BY <1>1, <2>1, <2>2
<1>7. ProductInv' BY <1>1, <1>3, <1>6, ReadmeLeaves DEF Wrapped
<1> QED BY <1>1, <1>2, <1>6, <1>7, BuildLeaves

LEMMA AttachReadmeKeeps == ASSUME IInv, AttachReadme PROVE IInv'
<1> DEFINE new == [shown.prototype EXCEPT !.readme = shown.readme]
<1>1. Step("M-3") /\ Pop /\ Stay /\ UNCHANGED verify1 /\ Put("prototype", new) BY DEF AttachReadme
<1>2. "M-3" \in BuildTasks BY DEF BuildTasks
<1>3. Wrapped(shown)
  <2>1. Rank("M-3") = 10 /\ Rank("M-2") = 8 BY DEF Rank
  <2> QED BY <1>1, <1>2, <2>1, BuildFinds
<1>4. shown \in Artifacts BY DEF IInv, TypeOK
<1>5. /\ new \in Prototype
      /\ new.body = shown.prototype.body /\ new.made = shown.prototype.made
  <2>1. shown.prototype \in Prototype /\ shown.readme \in Maybe(Readme)
    BY <1>3, <1>4, PointerTypes DEF Wrapped
  <2> QED BY <2>1 DEF Prototype
<1> HIDE DEF new
<1>6. new # Absent BY <1>5, ReworkAssumption DEF ReworkAssumption
<1>7. shown' \in Artifacts /\ shown'.prototype = new /\ Others("prototype")
  BY <1>1, <1>4, <1>5, PutTypes
<1>8. /\ shown'.text = shown.text /\ shown'.replaced = shown.replaced /\ shown'.plan = shown.plan
      /\ shown'.docScore = shown.docScore /\ shown'.docReport = shown.docReport
      /\ shown'.artifactScore = shown.artifactScore /\ shown'.infographic = shown.infographic
  BY <1>7 DEF Others
<1>9. ProductInv' BY <1>1, <1>5, <1>6, <1>7, <1>8, ReadmeLeaves
<1> QED BY <1>1, <1>2, <1>7, <1>8, <1>9, BuildLeaves

LEMMA VerifyProductKeeps == ASSUME IInv, VerifyProduct PROVE IInv'
<1>1. Step("T-V2") /\ Pop /\ Stay /\ UNCHANGED verify1 BY DEF VerifyProduct
<1>2. PICK total \in 0..MaxScore :
        Put("artifactScore", [made |-> Key, total |-> total,
                              prototype |-> shown.prototype, infographic |-> shown.infographic])
  BY DEF VerifyProduct
<1> DEFINE new == [made |-> Key, total |-> total,
                   prototype |-> shown.prototype, infographic |-> shown.infographic]
<1>3. "T-V2" \in BuildTasks BY DEF BuildTasks
<1>4. Built(shown) /\ Wrapped(shown) /\ Key \in Nat
  <2>1. Rank("T-V2") = 11 /\ Rank("T-B2") = 7 /\ Rank("M-2") = 8 BY DEF Rank
  <2> QED BY <1>1, <1>3, <2>1, BuildFinds
<1>5. shown \in Artifacts BY DEF IInv, TypeOK
<1>6. new \in ArtifactScore
  <2>1. shown.prototype \in Prototype /\ shown.infographic \in Infographic
    BY <1>4, <1>5, PointerTypes DEF Built, Wrapped
  <2> QED BY <1>4, <2>1 DEF ArtifactScore
<1>7. new # Absent BY <1>6, ReworkAssumption DEF ReworkAssumption
<1>8. shown' \in Artifacts /\ shown'.artifactScore = new /\ Others("artifactScore")
  BY <1>2, <1>5, <1>6, PutTypes
<1>9. /\ shown'.text = shown.text /\ shown'.replaced = shown.replaced /\ shown'.plan = shown.plan
      /\ shown'.docScore = shown.docScore /\ shown'.docReport = shown.docReport
      /\ shown'.prototype = shown.prototype /\ shown'.infographic = shown.infographic
  BY <1>8 DEF Others
<1>10. ProductInv'
  <2>1. /\ \A u \in Tasks : In(u, queue') <=> Due(u) /\ u # "T-V2"
        /\ place' = place /\ progress' = progress /\ category' = category
        /\ In("G-02b", queue')
    BY <1>1, <1>3, BuildQueue
  <2>2. Built(shown)' BY <1>4, <1>9, <2>1 DEF Built
  <2>3. Wrapped(shown)' BY <1>4, <1>9, <2>1 DEF Wrapped
  <2>4. ~In("M-2", queue')
    <3>1. "M-2" \in Tasks /\ Rank("M-2") = 8 /\ Rank("T-V2") = 11 BY DEF Tasks, Rank
    <3> QED BY <1>1, <2>1, <3>1, AtHead
  <2>5. ScoredAsBuilt(shown)' BY <1>7, <1>8, <1>9 DEF ScoredAsBuilt
  <2> QED BY <2>1, <2>2, <2>3, <2>4, <2>5 DEF ProductInv, Due
<1>11. shown'.artifactScore # Absent /\ shown'.artifactScore.made = Key BY <1>7, <1>8
<1> QED BY <1>1, <1>3, <1>8, <1>9, <1>10, <1>11, BuildLeaves

LEMMA JudgeAllKeeps == ASSUME IInv, JudgeAll PROVE IInv'
<1> DEFINE new == [doc |-> shown.docScore, artifact |-> shown.artifactScore]
<1>1. Step("G-02b") /\ Pop /\ Stay /\ UNCHANGED verify1 /\ Put("report", new) BY DEF JudgeAll
<1>2. /\ "G-02b" \notin DocTasks /\ "G-02b" # "CYCLE-END" /\ "CYCLE-END" \in Tasks
      /\ "G-02b" # "G-02a"
  BY DEF DocTasks, Writers, Tasks
<1>3. /\ place \in ProductPlaces /\ progress = "run"
      /\ \A u \in {"T-V1", "T-B1", "T-B2", "M-2", "T-V2"} : ~Due(u)
  <2>1. /\ "G-02b" \in Possible /\ progress = "run"
        /\ \A u \in Tasks : Due(u) => u = "G-02b" \/ Rank(u) > Rank("G-02b")
    BY <1>1, AtHead
  <2>2. place \in ProductPlaces BY <2>1 DEF Possible, DocTasks, Writers
  <2>3. /\ Rank("T-V1") = 5 /\ Rank("T-B1") = 6 /\ Rank("T-B2") = 7 /\ Rank("M-2") = 8
        /\ Rank("T-V2") = 11 /\ Rank("G-02b") = 14
    BY DEF Rank
  <2>4. {"T-V1", "T-B1", "T-B2", "M-2", "T-V2"} \subseteq Tasks BY DEF Tasks
  <2> QED BY <2>1, <2>2, <2>3, <2>4
<1>4. ScoredAsWritten(shown) /\ Built(shown) /\ Wrapped(shown) /\ ScoredAsBuilt(shown)
  BY <1>3 DEF IInv, DocInv, ProductInv, Begun, Live
<1>5. shown \in Artifacts /\ verify1 \in Verify1 BY DEF IInv, TypeOK
<1>6. new \in Report
  <2>1. shown.docScore \in DocScore /\ shown.artifactScore \in ArtifactScore
    BY <1>4, <1>5, PointerTypes DEF ScoredAsWritten, ScoredAsBuilt
  <2> QED BY <2>1 DEF Report
<1>7. shown' \in Artifacts /\ shown'.report = new /\ Others("report") BY <1>1, <1>5, <1>6, PutTypes
<1>8. /\ shown'.text = shown.text /\ shown'.replaced = shown.replaced /\ shown'.plan = shown.plan
      /\ shown'.docScore = shown.docScore /\ shown'.docReport = shown.docReport
      /\ shown'.prototype = shown.prototype /\ shown'.infographic = shown.infographic
      /\ shown'.artifactScore = shown.artifactScore
      /\ \A k \in Layers : shown'[k] = shown[k]
  BY <1>7 DEF Others, Layers
<1>9. /\ QueueInv' /\ CycleInv' /\ MarkInv' /\ queue' \in Seq(Tasks)
      /\ \A u \in Tasks : In(u, queue') <=> In(u, queue) /\ u # "G-02b"
  BY <1>1, MarkLeftAlone
<1>10. TypeOK' BY <1>1, <1>5, <1>7, <1>9, StayTypes
<1>11. SectionsInPlan' /\ DocInv' BY <1>1, <1>2, <1>8, <1>9, DocStays
<1>12. place' = place /\ category' = category /\ cycle' = cycle /\ form' = form BY <1>1 DEF Stay, Keep
<1>13. ProductInv'
  <2>1. Built(shown)' /\ Wrapped(shown)' /\ ScoredAsBuilt(shown)'
    BY <1>4, <1>8, <1>12 DEF Built, Wrapped, ScoredAsBuilt
  <2>2. Reported(shown)' BY <1>7, <1>8 DEF Reported
  <2>3. ~In("M-2", queue') BY <1>3, <1>9 DEF Due, Tasks
  <2> QED BY <2>1, <2>2, <2>3 DEF ProductInv, Due
<1>14. SnapshotInv'
  <2>1. In("CYCLE-END", queue') \/ ~In("CYCLE-END", queue) BY <1>2, <1>9
  <2>2. cycle # NoCycle => cycle.screen # "screen6" BY <1>3 DEF IInv, CycleInv, ProductPlaces
  <2>3. cycle # NoCycle =>
           \A i \in Items \ ItemsIn(cycle.bundles) : shown'.text[i] = shown.text[i]
    BY <1>8
  <2> QED BY <1>8, <1>12, <2>1, <2>2, <2>3, SnapshotStays
<1> QED BY <1>9, <1>10, <1>11, <1>13, <1>14 DEF IInv

LEMMA DeliverKeeps == ASSUME IInv, Deliver PROVE IInv'
<1>1. Step("T-C4") /\ Pop /\ Stay /\ UNCHANGED <<shown, verify1>> BY DEF Deliver
<1>2. /\ "T-C4" \notin DocTasks /\ "T-C4" # "CYCLE-END" /\ "CYCLE-END" \in Tasks
      /\ "T-C4" # "G-02a"
  BY DEF DocTasks, Writers, Tasks
<1>3. /\ QueueInv' /\ CycleInv' /\ MarkInv' /\ queue' \in Seq(Tasks)
      /\ \A u \in Tasks : In(u, queue') <=> In(u, queue) /\ u # "T-C4"
  BY <1>1, MarkLeftAlone DEF DocTasks
<1>4. shown \in Artifacts /\ verify1 \in Verify1 BY DEF IInv, TypeOK
<1>5. TypeOK' BY <1>1, <1>3, <1>4, StayTypes
<1>6. SectionsInPlan' /\ DocInv' BY <1>1, <1>2, <1>3, DocStays
<1>7. place' = place /\ category' = category /\ cycle' = cycle /\ form' = form BY <1>1 DEF Stay, Keep
<1>8. ProductInv'
  <2>1. "T-C4" \in Possible BY <1>1, AtHead
  <2>2. place \notin ProductPlaces
    BY <2>1 DEF Possible, ProductPlaces, FirstPlaces, DocTasks, Writers
  <2> QED BY <1>7, <2>2 DEF ProductInv
<1>9. SnapshotInv'
  <2>1. In("CYCLE-END", queue') \/ ~In("CYCLE-END", queue) BY <1>2, <1>3
  <2> QED BY <1>1, <1>7, <2>1, SnapshotStays
<1> QED BY <1>3, <1>5, <1>6, <1>8, <1>9 DEF IInv

-----------------------------------------------------------------------------
(* The end of a rework *)

\* The pointers that are moved back are those of the snapshot, but for a
\* readme where there was none.
LEMMA MovedBackWhole ==
  ASSUME IInv, cycle # NoCycle, NEW m, m = MovedBack(shown, cycle.snapshot)
  PROVE  /\ m \in Artifacts
         /\ m.text = cycle.snapshot.text /\ m.replaced = cycle.snapshot.replaced
         /\ m.plan = cycle.snapshot.plan /\ m.docScore = cycle.snapshot.docScore
         /\ m.docReport = cycle.snapshot.docReport
         /\ m.prototype = cycle.snapshot.prototype /\ m.infographic = cycle.snapshot.infographic
         /\ m.artifactScore = cycle.snapshot.artifactScore /\ m.report = cycle.snapshot.report
         /\ Whole(m, cycle.screen)
<1> DEFINE before == cycle.snapshot
<1>1. shown \in Artifacts /\ before \in Artifacts BY PhaseIsMarks DEF IInv, TypeOK, Cycle
<1>2. /\ Whole(before, cycle.screen)
      /\ cycle.screen = "screen6" => \A k \in ProductKeys : shown[k] = before[k]
  BY DEF IInv, SnapshotInv
<1> HIDE DEF before
<1>3. /\ DOMAIN shown = {"text", "replaced", "plan", "docScore", "docReport", "prototype", "infographic",
                         "readme", "artifactScore", "report"}
      /\ m = [k \in DOMAIN shown |-> IF before[k] = Absent THEN shown[k] ELSE before[k]]
  BY <1>1 DEF Artifacts, MovedBack, before
<1>4. /\ before.text # Absent /\ before.replaced # Absent /\ before.plan # Absent
      /\ before.docScore # Absent /\ before.docReport # Absent
  <2>1. before.text # Absent /\ before.replaced # Absent
    BY <1>1, PointerTypes, ReworkAssumption DEF ReworkAssumption
  <2>2. before.docScore # Absent /\ before.docReport # Absent
    BY <1>2 DEF Whole, ScoredAsWritten
  <2>3. before.plan # Absent
    <3>1. before.plan = [body |-> before.text, merged |-> TRUE] BY <1>2 DEF Whole, Merged
    <3>2. before.plan \in Plan BY <1>1, <3>1, PointerTypes DEF Plan
    <3> QED BY <3>2, ReworkAssumption DEF ReworkAssumption
  <2> QED BY <2>1, <2>2, <2>3
<1>5. cycle.screen # "screen6" =>
        /\ before.prototype # Absent /\ before.infographic # Absent
        /\ before.artifactScore # Absent /\ before.report # Absent
  <2> SUFFICES ASSUME cycle.screen # "screen6"
               PROVE  /\ before.prototype # Absent /\ before.infographic # Absent
                      /\ before.artifactScore # Absent /\ before.report # Absent
    OBVIOUS
  <2>1. before.prototype # Absent /\ before.infographic # Absent /\ before.artifactScore # Absent
    BY <1>2 DEF Whole, Built, Wrapped, ScoredAsBuilt
  <2>2. before.report \in Report
    <3>1. before.report = [doc |-> before.docScore, artifact |-> before.artifactScore]
      BY <1>2 DEF Whole, Reported
    <3>2. before.docScore \in DocScore /\ before.artifactScore \in ArtifactScore
      BY <1>1, <1>4, <2>1, PointerTypes
    <3> QED BY <3>1, <3>2 DEF Report
  <2> QED BY <2>1, <2>2, ReworkAssumption DEF ReworkAssumption
<1>6. /\ m.text = before.text /\ m.replaced = before.replaced
      /\ m.plan = before.plan /\ m.docScore = before.docScore
      /\ m.docReport = before.docReport
  BY <1>3, <1>4
<1>7. /\ m.prototype = before.prototype /\ m.infographic = before.infographic
      /\ m.artifactScore = before.artifactScore /\ m.report = before.report
  <2>1. CASE cycle.screen = "screen6"
    <3>1. /\ shown.prototype = before.prototype /\ shown.infographic = before.infographic
          /\ shown.artifactScore = before.artifactScore /\ shown.report = before.report
      BY <1>2, <2>1 DEF ProductKeys
    <3> QED BY <1>3, <3>1
  <2>2. CASE cycle.screen # "screen6" BY <1>3, <1>5, <2>2
  <2> QED BY <2>1, <2>2
<1>8. m.readme \in Maybe(Readme) BY <1>1, <1>3, PointerTypes
<1>9. m \in Artifacts
  <2>1. \A k \in DOMAIN m : m[k] = before[k] \/ m[k] = shown[k] BY <1>3
  <2> QED BY <1>1, <1>3, <1>6, <1>7, <1>8 DEF Artifacts
<1>10. Whole(m, cycle.screen)
  BY <1>2, <1>6, <1>7 DEF Whole, Merged, ScoredAsWritten, Built, Wrapped, ScoredAsBuilt, Reported
<1> QED BY <1>6, <1>7, <1>9, <1>10 DEF before

\* The scores of the layers add up.
LEMMA TotalType ==
  ASSUME NEW s \in Artifacts
  PROVE  LayerTotal(s.docScore) \in Nat /\ LayerTotal(s.artifactScore) \in Nat /\ Total(s) \in Nat
<1>1. MaxScore \in Nat BY ReworkAssumption DEF ReworkAssumption
<1>2. s.docScore # Absent => s.docScore.total \in Nat BY <1>1, PointerTypes DEF DocScore
<1>3. s.artifactScore # Absent => s.artifactScore.total \in Nat
  BY <1>1, PointerTypes DEF ArtifactScore
<1> QED BY <1>2, <1>3 DEF LayerTotal, Total

\* On equal scores the new result stays: what is shown is worth no less.
LEMMA KeptIsWorth ==
  ASSUME IInv, cycle # NoCycle, KeepNew(Basis(cycle.snapshot), Basis(shown))
  PROVE  Total(shown) >= Total(cycle.snapshot)
<1>1. shown \in Artifacts /\ cycle.snapshot \in Artifacts BY PhaseIsMarks DEF IInv, TypeOK, Cycle
<1>3. /\ Changed("docScore") \/ shown["docScore"] = cycle.snapshot["docScore"]
      /\ Changed("artifactScore") \/ shown["artifactScore"] = cycle.snapshot["artifactScore"]
  BY DEF IInv, SnapshotInv, Layers
<1> DEFINE d == LayerTotal(shown.docScore)  a == LayerTotal(shown.artifactScore)
           d0 == LayerTotal(cycle.snapshot.docScore)  a0 == LayerTotal(cycle.snapshot.artifactScore)
<1>4. d \in Nat /\ a \in Nat /\ d0 \in Nat /\ a0 \in Nat BY <1>1, TotalType
<1>5. (Changed("docScore") \/ d = d0) /\ (Changed("artifactScore") \/ a = a0) BY <1>3
<1>6. (IF Changed("docScore") THEN d ELSE 0) + (IF Changed("artifactScore") THEN a ELSE 0)
        >= (IF Changed("docScore") THEN d0 ELSE 0) + (IF Changed("artifactScore") THEN a0 ELSE 0)
  BY DEF KeepNew, Basis
<1>7. Total(shown) = d + a /\ Total(cycle.snapshot) = d0 + a0 BY DEF Total
<1> HIDE DEF d, a, d0, a0
<1>8. d + a >= d0 + a0
  <2>1. CASE Changed("docScore") /\ Changed("artifactScore") BY <1>4, <1>6, <2>1
  <2>2. CASE Changed("docScore") /\ ~Changed("artifactScore") BY <1>4, <1>5, <1>6, <2>2
  <2>3. CASE ~Changed("docScore") /\ Changed("artifactScore") BY <1>4, <1>5, <1>6, <2>3
  <2>4. CASE ~Changed("docScore") /\ ~Changed("artifactScore") BY <1>4, <1>5, <2>4
  <2> QED BY <2>1, <2>2, <2>3, <2>4
<1> QED BY <1>7, <1>8

LEMMA CycleEndKeeps == ASSUME IInv, CycleEnd PROVE IInv'
<1>1. /\ Step("CYCLE-END") /\ Pop /\ Stay /\ UNCHANGED verify1
      /\ shown' = IF KeepNew(Basis(cycle.snapshot), Basis(shown))
                  THEN shown ELSE MovedBack(shown, cycle.snapshot)
  BY DEF CycleEnd
<1>2. /\ progress = "run" /\ "CYCLE-END" \in Possible
      /\ \A u \in Brings("CYCLE-END") : Due(u)
      /\ \A u \in Tasks : Due(u) => u = "CYCLE-END" \/ Rank(u) > Rank("CYCLE-END")
  BY <1>1, AtHead
<1>3. cycle # NoCycle /\ place = cycle.screen
  BY <1>2 DEF Possible, IInv, CycleInv
<1>4. /\ "CYCLE-END" \notin DocTasks /\ "CYCLE-END" \in Tasks /\ "CYCLE-END" # "G-02a"
  BY DEF DocTasks, Writers, Tasks
<1>5. /\ QueueInv' /\ CycleInv' /\ MarkInv' /\ queue' \in Seq(Tasks)
      /\ \A u \in Tasks : In(u, queue') <=> In(u, queue) /\ u # "CYCLE-END"
  BY <1>1, <1>4, MarkLeftAlone DEF DocTasks
<1>6. \A u \in {"M-1", "T-V1", "T-B1", "T-B2", "M-2", "T-V2"} : ~In(u, queue) /\ ~In(u, queue')
  <2>1. /\ Rank("M-1") = 4 /\ Rank("T-V1") = 5 /\ Rank("T-B1") = 6 /\ Rank("T-B2") = 7
        /\ Rank("M-2") = 8 /\ Rank("T-V2") = 11 /\ Rank("CYCLE-END") = 12
    BY DEF Rank
  <2>2. {"M-1", "T-V1", "T-B1", "T-B2", "M-2", "T-V2"} \subseteq Tasks BY DEF Tasks
  <2> QED BY <1>2, <1>5, <2>1, <2>2 DEF Due
<1>7. /\ place \in FirstPlaces => In("G-02a", queue')
      /\ place \in ProductPlaces => In("G-02b", queue')
  BY <1>2, <1>5 DEF Brings, Due, Tasks
<1>8. /\ shown \in Artifacts /\ verify1 \in Verify1
      /\ place' = place /\ category' = category /\ cycle' = cycle /\ form' = form
      /\ progress' = progress
  BY <1>1 DEF IInv, TypeOK, Stay, Keep
<1>9. /\ cycle.screen = "screen6" => \A k \in ProductKeys : shown[k] = cycle.snapshot[k]
      /\ \A k \in Layers : Changed(k) \/ shown[k] = cycle.snapshot[k]
      /\ \A i \in Items \ ItemsIn(cycle.bundles) : shown.text[i] = cycle.snapshot.text[i]
      /\ Whole(cycle.snapshot, cycle.screen)
  BY <1>3 DEF IInv, SnapshotInv
<1>10. CASE KeepNew(Basis(cycle.snapshot), Basis(shown))
  <2>1. shown' = shown BY <1>1, <1>10
  <2>2. TypeOK' BY <1>1, <1>5, <1>8, <2>1, StayTypes
  <2>3. SectionsInPlan' /\ DocInv' BY <1>1, <1>4, <1>5, <2>1, DocStays
  <2>4. ProductInv'
    <3>1. Live /\ place \in ProductPlaces => Built(shown) /\ Wrapped(shown) /\ ScoredAsBuilt(shown)
      BY <1>6 DEF IInv, ProductInv, Due
    <3>2. Live /\ place \in ProductPlaces => Built(shown)' /\ Wrapped(shown)' /\ ScoredAsBuilt(shown)'
      BY <1>8, <2>1, <3>1 DEF Built, Wrapped, ScoredAsBuilt
    <3> QED BY <1>6, <1>7, <1>8, <3>2 DEF ProductInv, Due, Live
  <2>5. SnapshotInv'
    <3>1. Total(shown) >= Total(cycle.snapshot) BY <1>3, <1>10, KeptIsWorth
    <3>2. (Total(shown) >= Total(cycle.snapshot))' BY <1>8, <2>1, <3>1 DEF Total, LayerTotal
    <3>3. Whole(cycle.snapshot, cycle.screen)'
      BY <1>8, <1>9 DEF Whole, Merged, ScoredAsWritten, Built, Wrapped, ScoredAsBuilt, Reported
    <3>4. ItemsIn(cycle.bundles)' = ItemsIn(cycle.bundles) BY <1>8 DEF ItemsIn
    <3>5. \A k : Changed(k)' <=> Changed(k) BY <1>8, <2>1 DEF Changed
    <3> QED BY <1>8, <1>9, <2>1, <3>2, <3>3, <3>4, <3>5 DEF SnapshotInv
  <2> QED BY <1>5, <2>2, <2>3, <2>4, <2>5 DEF IInv
<1>11. CASE ~KeepNew(Basis(cycle.snapshot), Basis(shown))
  <2>1. shown' = MovedBack(shown, cycle.snapshot) BY <1>1, <1>11
  <2>2. /\ shown' \in Artifacts
        /\ shown'.text = cycle.snapshot.text /\ shown'.docScore = cycle.snapshot.docScore
        /\ shown'.prototype = cycle.snapshot.prototype /\ shown'.infographic = cycle.snapshot.infographic
        /\ shown'.artifactScore = cycle.snapshot.artifactScore /\ shown'.report = cycle.snapshot.report
        /\ Whole(shown', cycle.screen)
    BY <1>3, <2>1, MovedBackWhole
  <2>3. TypeOK' BY <1>1, <1>5, <1>8, <2>2, StayTypes
  <2>4. Merged(shown') /\ ScoredAsWritten(shown') /\ shown'.docReport # Absent
    BY <2>2 DEF Whole
  <2>5. Merged(shown)' /\ ScoredAsWritten(shown)' BY <2>4 DEF Merged, ScoredAsWritten
  <2>6. SectionsInPlan'
    <3>1. shown'.plan.body = shown'.text BY <2>4 DEF Merged
    <3>2. shown'.plan # Absent
      <4>1. shown'.plan \in Plan BY <2>2, <2>4, PointerTypes DEF Merged, Plan
      <4> QED BY <4>1, ReworkAssumption DEF ReworkAssumption
    <3>3. PlanBody' = shown'.text BY <3>1, <3>2 DEF PlanBody
    <3> QED BY <3>3 DEF SectionsInPlan
  <2>7. DocInv' BY <1>7, <1>8, <2>4, <2>5 DEF DocInv, Due
  <2>8. ProductInv'
    <3>1. place \in ProductPlaces => Built(shown') /\ Wrapped(shown') /\ ScoredAsBuilt(shown')
      BY <1>3, <2>2 DEF Whole, ProductPlaces
    <3>2. place \in ProductPlaces => Built(shown)' /\ Wrapped(shown)' /\ ScoredAsBuilt(shown)'
      BY <1>8, <3>1 DEF Built, Wrapped, ScoredAsBuilt
    <3> QED BY <1>6, <1>7, <1>8, <3>2 DEF ProductInv, Due
  <2>9. SnapshotInv'
    <3>1. \A k \in Layers \cup ProductKeys : shown'[k] = cycle.snapshot[k]
      BY <2>2 DEF Layers, ProductKeys
    <3>2. (Total(shown) >= Total(cycle.snapshot))'
      <4>1. Total(shown)' = Total(cycle.snapshot)' BY <1>8, <2>2 DEF Total, LayerTotal
      <4>2. Total(shown') \in Nat BY <2>2, TotalType
      <4>3. Total(shown)' = Total(shown') BY DEF Total, LayerTotal
      <4> QED BY <4>1, <4>2, <4>3
    <3>3. Whole(cycle.snapshot, cycle.screen)'
      BY <1>8, <1>9 DEF Whole, Merged, ScoredAsWritten, Built, Wrapped, ScoredAsBuilt, Reported
    <3>4. \A i \in Items : shown'.text[i] = cycle.snapshot.text[i] BY <2>2
    <3> QED BY <1>8, <3>1, <3>2, <3>3, <3>4 DEF SnapshotInv
  <2> QED BY <1>5, <2>3, <2>6, <2>7, <2>8, <2>9 DEF IInv
<1> QED BY <1>10, <1>11

-----------------------------------------------------------------------------
(* Where the run waits or ends *)

\* A queue that is empty leaves no mark.
LEMMA NothingDue ==
  ASSUME IInv, queue = <<>>
  PROVE  (\A u : ~Due(u)) /\ verify1.phase = "none" /\ verify1.pending = {}
<1>1. \A u : ~Due(u) BY DEF Due, In
<1>2. verify1.phase \in {"none", "redo", "replace"} BY DEF IInv, TypeOK, Verify1
<1> QED BY <1>1, <1>2 DEF IInv, MarkInv

\* With nothing due, what is shown is whole.
LEMMA RestIsWhole ==
  ASSUME IInv, Begun, queue = <<>>
  PROVE  /\ place \in FirstPlaces => Whole(shown, "screen6")
         /\ place \in ProductPlaces => Whole(shown, "screen8") /\ Whole(shown, "screen9")
<1>1. \A u : ~Due(u) BY NothingDue
<1>2. /\ Merged(shown) /\ ScoredAsWritten(shown)
      /\ place \in FirstPlaces => shown.docReport = shown.docScore
      /\ place \notin FirstPlaces => shown.docReport # Absent
  BY <1>1 DEF IInv, DocInv
<1>3. place \in ProductPlaces =>
        Built(shown) /\ Wrapped(shown) /\ ScoredAsBuilt(shown) /\ Reported(shown)
  BY <1>1 DEF IInv, ProductInv, Begun
<1>4. place \in FirstPlaces => shown.docReport # Absent BY <1>2 DEF ScoredAsWritten
<1> QED BY <1>2, <1>3, <1>4 DEF Whole, FirstPlaces, ProductPlaces

\* What is whole may be shown at its screen, and worked on from there.
LEMMA WholeIsShown ==
  ASSUME shown' \in Artifacts, place' \in Screens, category' = category,
         Whole(shown', place'),
         In("M-2", queue') => In("T-B2", queue')
  PROVE  SectionsInPlan' /\ DocInv' /\ ProductInv'
<1>1. /\ Merged(shown') /\ ScoredAsWritten(shown') /\ shown'.docReport # Absent
      /\ place' = "screen6" => shown'.docReport = shown'.docScore
      /\ place' # "screen6" =>
           Built(shown') /\ Wrapped(shown') /\ ScoredAsBuilt(shown') /\ Reported(shown')
  BY DEF Whole
<1>2. SectionsInPlan'
  <2>1. shown'.plan.body = shown'.text BY <1>1 DEF Merged
  <2>2. shown'.plan # Absent
    <3>1. shown'.text \in Text BY PointerTypes
    <3>2. shown'.plan \in Plan BY <1>1, <3>1 DEF Merged, Plan
    <3> QED BY <3>2, ReworkAssumption DEF ReworkAssumption
  <2>3. PlanBody' = shown'.text BY <2>1, <2>2 DEF PlanBody
  <2> QED BY <2>3 DEF SectionsInPlan
<1>3. DocInv'
  <2>1. Merged(shown)' /\ ScoredAsWritten(shown)' BY <1>1 DEF Merged, ScoredAsWritten
  <2>2. place' \in FirstPlaces => place' = "screen6" BY DEF FirstPlaces, Screens
  <2> QED BY <1>1, <2>1, <2>2 DEF DocInv
<1>4. ProductInv'
  <2>1. place' \in ProductPlaces => place' # "screen6" BY DEF ProductPlaces
  <2>2. place' # "screen6" =>
          Built(shown)' /\ Wrapped(shown)' /\ ScoredAsBuilt(shown)' /\ Reported(shown)'
    BY <1>1 DEF Built, Wrapped, ScoredAsBuilt, Reported
  <2> QED BY <2>1, <2>2 DEF ProductInv, Due
<1> QED BY <1>2, <1>3, <1>4

\* A run without a queue, a rework and a mark.
LEMMA NothingUnderWay ==
  ASSUME queue' = <<>>, cycle' = NoCycle, progress' # "run",
         verify1'.phase = "none", verify1'.pending = {}
  PROVE  QueueInv' /\ CycleInv' /\ MarkInv' /\ SnapshotInv' /\ \A u : ~In(u, queue')
<1>1. \A u : ~In(u, queue') BY DEF In
<1>2. Ordered(queue') BY DEF Ordered
<1>3. QueueInv' BY <1>1, <1>2 DEF QueueInv, Due
<1> QED BY <1>1, <1>3 DEF CycleInv, MarkInv, SnapshotInv

\* The types that the end of a segment leaves alone.
LEMMA EndTypes ==
  ASSUME IInv, UNCHANGED <<form, category, cycles>>, queue' = <<>>, cycle' = NoCycle,
         progress' \in {"user_wait", "done", "failed", "aborted"},
         place' = place \/ place' \in Screens,
         remaining' \in [Bundles -> 0..PerBundle],
         shown' \in Artifacts, verify1' = verify1 \/ verify1' = Cleared(verify1)
  PROVE  TypeOK'
<1>1. verify1' \in Verify1 BY ClearedMark DEF IInv, TypeOK
<1>2. queue' \in Seq(Tasks) OBVIOUS
<1> QED BY <1>1, <1>2 DEF IInv, TypeOK

LEMMA SegmentEndsKeeps == ASSUME IInv, SegmentEnds PROVE IInv'
<1>1. /\ progress = "run" /\ queue = <<>> /\ Keep /\ UNCHANGED shown
      /\ \/ /\ cycle # NoCycle
            /\ Wait(cycle.screen) /\ cycle' = NoCycle /\ verify1' = Cleared(verify1)
         \/ /\ cycle = NoCycle /\ place = "write"
            /\ Wait("screen6") /\ verify1' = Cleared(verify1) /\ UNCHANGED cycle
         \/ /\ cycle = NoCycle /\ place = "build"
            /\ Wait("screen8") /\ UNCHANGED <<cycle, verify1>>
         \/ /\ cycle = NoCycle /\ place = "result"
            /\ progress' = "done" /\ UNCHANGED <<place, queue, cycle, verify1>>
  BY DEF SegmentEnds, Working
<1>2. /\ shown \in Artifacts /\ shown' = shown /\ remaining' \in [Bundles -> 0..PerBundle]
      /\ UNCHANGED <<form, category, cycles>> /\ Begun
      /\ verify1 \in Verify1
  BY <1>1 DEF IInv, TypeOK, Keep, Begun, Live
<1>3. verify1'.phase = "none" /\ verify1'.pending = {}
  <2>1. verify1' = verify1 \/ verify1' = Cleared(verify1) BY <1>1
  <2> QED BY <1>1, <1>2, <2>1, NothingDue, ClearedMark
<1>4. cycle' = NoCycle /\ queue' = <<>> /\ progress' \in {"user_wait", "done"} BY <1>1 DEF Wait
<1>5. QueueInv' /\ CycleInv' /\ MarkInv' /\ SnapshotInv' /\ ~In("M-2", queue')
  BY <1>3, <1>4, NothingUnderWay
<1>6. cycle # NoCycle => place = cycle.screen /\ place \in Screens
  BY PhaseIsMarks DEF IInv, CycleInv, Cycle
<1>7. TypeOK'
  <2>1. place' = place \/ place' \in Screens BY <1>1, <1>6 DEF Wait, Screens
  <2>2. verify1' = verify1 \/ verify1' = Cleared(verify1) BY <1>1
  <2> QED BY <1>2, <1>4, <2>1, <2>2, EndTypes
<1>8. SectionsInPlan' /\ DocInv' /\ ProductInv'
  <2>1. CASE progress' = "done"
    <3>1. SectionsInPlan' BY <1>2 DEF IInv, SectionsInPlan, PlanBody, Unwritten
    <3> QED BY <2>1, <3>1 DEF DocInv, ProductInv, Begun, Live
  <2>2. CASE progress' # "done"
    <3>1. /\ place \in FirstPlaces => Whole(shown, "screen6")
          /\ place \in ProductPlaces => Whole(shown, "screen8") /\ Whole(shown, "screen9")
      BY <1>1, <1>2, RestIsWhole
    <3>2. \/ cycle # NoCycle /\ place' = cycle.screen
          \/ place = "write" /\ place' = "screen6"
          \/ place = "build" /\ place' = "screen8"
      BY <1>1, <2>2 DEF Wait
    <3>3. Whole(shown, place') /\ place' \in Screens
      BY <1>6, <3>1, <3>2 DEF FirstPlaces, ProductPlaces, Screens
    <3> QED BY <1>2, <1>5, <3>3, WholeIsShown
  <2> QED BY <2>1, <2>2
<1> QED BY <1>5, <1>7, <1>8 DEF IInv

\* Every bundle of a rework has a chance to get back.
LEMMA RefundTypes ==
  ASSUME IInv, cycle # NoCycle
  PROVE  Refunded(cycle.bundles) \in [Bundles -> 0..PerBundle]
<1>1. remaining \in [Bundles -> 0..PerBundle] /\ PerBundle \in Nat
  BY ReworkAssumption DEF IInv, TypeOK, ReworkAssumption
<1>2. \A b \in cycle.bundles : remaining[b] < PerBundle BY DEF IInv, CycleInv
<1>3. \A b \in Bundles : remaining[b] + (IF b \in cycle.bundles THEN 1 ELSE 0) \in 0..PerBundle
  BY <1>1, <1>2
<1> QED BY <1>3 DEF Refunded

LEMMA ReworkFailsKeeps == ASSUME IInv, ReworkFails PROVE IInv'
<1>1. /\ cycle # NoCycle
      /\ shown' = MovedBack(shown, cycle.snapshot)
      /\ remaining' = Refunded(cycle.bundles)
      /\ progress' = "user_wait" /\ place' = cycle.screen /\ queue' = <<>>
      /\ cycle' = NoCycle /\ verify1' = Cleared(verify1)
      /\ UNCHANGED <<form, category, cycles>>
  BY DEF ReworkFails, Wait
<1>2. shown' \in Artifacts /\ Whole(shown', cycle.screen) BY <1>1, MovedBackWhole
<1>3. cycle.screen \in Screens BY <1>1, PhaseIsMarks DEF Cycle
<1>4. remaining' \in [Bundles -> 0..PerBundle] BY <1>1, RefundTypes
<1>5. verify1'.phase = "none" /\ verify1'.pending = {} BY <1>1, ClearedMark DEF IInv, TypeOK
<1>6. QueueInv' /\ CycleInv' /\ MarkInv' /\ SnapshotInv' /\ ~In("M-2", queue')
  BY <1>1, <1>5, NothingUnderWay
<1>7. TypeOK' BY <1>1, <1>2, <1>3, <1>4, EndTypes
<1>8. SectionsInPlan' /\ DocInv' /\ ProductInv' BY <1>1, <1>2, <1>3, <1>6, WholeIsShown
<1> QED BY <1>6, <1>7, <1>8 DEF IInv

LEMMA StopKeeps == ASSUME IInv, RunFails \/ Abort PROVE IInv'
<1>1. /\ progress' \in {"failed", "aborted"} /\ queue' = <<>> /\ cycle' = NoCycle
      /\ verify1' = Cleared(verify1) /\ Keep /\ UNCHANGED <<place, shown>>
  BY DEF RunFails, Abort
<1>2. verify1'.phase = "none" /\ verify1'.pending = {} BY <1>1, ClearedMark DEF IInv, TypeOK
<1>3. QueueInv' /\ CycleInv' /\ MarkInv' /\ SnapshotInv' BY <1>1, <1>2, NothingUnderWay
<1>4. TypeOK'
  <2>1. /\ UNCHANGED <<form, category, cycles>> /\ shown' \in Artifacts
        /\ remaining' \in [Bundles -> 0..PerBundle]
    BY <1>1 DEF Keep, IInv, TypeOK
  <2> QED BY <1>1, <2>1, EndTypes
<1>5. SectionsInPlan' BY <1>1 DEF IInv, SectionsInPlan, PlanBody, Unwritten
<1>6. DocInv' /\ ProductInv' BY <1>1 DEF DocInv, ProductInv, Begun, Live
<1> QED BY <1>3, <1>4, <1>5, <1>6 DEF IInv

-----------------------------------------------------------------------------
(* The commands of the user *)

\* A new queue has with each task what the task brings.
LEMMA NewQueue ==
  ASSUME NEW tasks \in SUBSET Tasks, Queue(queue'), \A u \in Tasks : In(u, queue') <=> u \in tasks,
         progress' = "run",
         \A t \in tasks : t \in Possible' /\ Brings(t)' \subseteq tasks,
         "T-W3" \in tasks => "T-V1" \in tasks
  PROVE  QueueInv' /\ queue' \in Seq(Tasks)
<1>1. ASSUME NEW t \in Tasks, In(t, queue') PROVE t \in Possible' /\ \A u \in Brings(t)' : In(u, queue')
  <2>1. t \in tasks BY <1>1
  <2> QED BY <2>1
<1>2. In("T-W3", queue') => In("T-V1", queue') BY DEF Tasks
<1>3. Ordered(queue') BY DEF Queue
<1> QED BY <1>1, <1>2, <1>3 DEF QueueInv, Due, Queue

LEMMA StartWritingKeeps == ASSUME IInv, StartWriting PROVE IInv'
<1> DEFINE tasks == {"T-W1", "T-W2", "T-W3", "M-1", "T-V1", "G-02a"}
<1>1. /\ progress = "user_wait" /\ place = "write"
      /\ progress' = "run" /\ place' = "write" /\ queue' = InOrder(tasks)
      /\ Keep /\ UNCHANGED <<shown, cycle, verify1>>
  BY DEF StartWriting, Enqueue, Untouched, WriteQueue
<1>2. cycle = NoCycle /\ cycle' = NoCycle BY <1>1 DEF IInv, CycleInv
<1>3. queue = <<>> BY <1>1 DEF IInv, QueueInv
<1>4. tasks \in SUBSET Tasks BY DEF Tasks
<1>5. Queue(queue') /\ \A u \in Tasks : In(u, queue') <=> u \in tasks BY <1>1, <1>4, InOrderSorts
<1>6. ASSUME NEW t \in tasks PROVE t \in Possible' /\ Brings(t)' \subseteq tasks
  <2>1. place' \in FirstPlaces /\ place' \notin ProductPlaces BY <1>1 DEF FirstPlaces, ProductPlaces
  <2>2. t \in Possible' BY <1>2, <2>1 DEF Possible, DocTasks, Writers
  <2>3. Brings(t)' \subseteq {"M-1", "T-V1", "G-02a"} BY <1>2, <2>1 DEF Brings
  <2> QED BY <2>2, <2>3
<1>7. QueueInv' /\ queue' \in Seq(Tasks) BY <1>1, <1>4, <1>5, <1>6, NewQueue
<1>8. TypeOK'
  <2>1. place' = place BY <1>1
  <2> QED BY <1>1, <1>7, <2>1 DEF IInv, TypeOK, Keep
<1>9. CycleInv' BY <1>1, <1>2 DEF CycleInv
<1>10. MarkInv' BY <1>1, <1>3, NothingDue DEF MarkInv
<1>11. SectionsInPlan' BY <1>1 DEF IInv, SectionsInPlan, PlanBody, Unwritten
<1>12. DocInv'
  <2>1. In("M-1", queue') /\ In("T-V1", queue') /\ In("G-02a", queue') BY <1>5 DEF Tasks
  <2>2. place' \in FirstPlaces BY <1>1 DEF FirstPlaces
  <2> QED BY <2>1, <2>2 DEF DocInv, Due
<1>13. ProductInv' BY <1>1 DEF ProductInv, ProductPlaces
<1>14. SnapshotInv' BY <1>2 DEF SnapshotInv
<1> QED BY <1>7, <1>8, <1>9, <1>10, <1>11, <1>12, <1>13, <1>14 DEF IInv

LEMMA ProceedKeeps == ASSUME IInv, Proceed PROVE IInv'
<1>1. /\ progress = "user_wait"
      /\ \/ place = "screen6" /\ Enqueue("build", ProtoQueue)
         \/ place = "screen8" /\ place' = "screen9" /\ UNCHANGED <<progress, queue>>
         \/ place = "screen9" /\ Enqueue("result", <<"T-C4">>)
      /\ Keep /\ UNCHANGED <<shown, cycle, verify1>>
  BY DEF Proceed, Untouched
<1>2. cycle = NoCycle /\ cycle' = NoCycle BY <1>1 DEF IInv, CycleInv
<1>3. queue = <<>> BY <1>1 DEF IInv, QueueInv
<1>4. \A u : ~Due(u) BY <1>3, NothingDue
<1>5. MarkInv' BY <1>1, <1>3, NothingDue DEF MarkInv
<1>6. SectionsInPlan' BY <1>1 DEF IInv, SectionsInPlan, PlanBody, Unwritten
<1>7. SnapshotInv' BY <1>2 DEF SnapshotInv
<1>8. category' = category /\ category \in {"web", "onepage"}
  BY <1>1, ReworkAssumption DEF Keep, IInv, TypeOK, ReworkAssumption
<1>9. Begun /\ place \in Screens BY <1>1 DEF Begun, Live, Screens
<1>10. Merged(shown) /\ ScoredAsWritten(shown) /\ shown.docReport # Absent
  BY <1>3, <1>9, RestIsWhole DEF Whole, FirstPlaces, ProductPlaces, Screens
<1>11. Merged(shown)' /\ ScoredAsWritten(shown)' BY <1>1, <1>10 DEF Merged, ScoredAsWritten
<1>12. CASE place = "screen6" /\ Enqueue("build", ProtoQueue)
  <2> DEFINE tasks == {"T-B2", "G-04", "M-3", "T-V2", "G-02b"}
                        \cup (IF category = "onepage" THEN {"M-2"} ELSE {"T-B1"})
  <2>1. progress' = "run" /\ place' = "build" /\ queue' = InOrder(tasks)
    BY <1>12 DEF Enqueue, ProtoQueue
  <2>2. tasks \in SUBSET Tasks BY DEF Tasks
  <2>3. Queue(queue') /\ \A u \in Tasks : In(u, queue') <=> u \in tasks BY <2>1, <2>2, InOrderSorts
  <2>4. place' \in ProductPlaces /\ place' \notin FirstPlaces BY <2>1 DEF FirstPlaces, ProductPlaces
  <2>5. ASSUME NEW t \in tasks PROVE t \in Possible' /\ Brings(t)' \subseteq tasks
    <3>1. t \in Tasks /\ t \notin DocTasks /\ t \notin Writers /\ t \notin {"G-02a", "T-C4", "CYCLE-END"}
      BY DEF Tasks, DocTasks, Writers
    <3>2. t \in Possible' BY <1>8, <2>4, <3>1 DEF Possible
    <3>3. Brings(t)' \subseteq {"G-02b", "T-V2"} \cup (IF category = "onepage" THEN {"M-2"} ELSE {})
      BY <1>2, <1>8, <2>4, <3>1 DEF Brings
    <3> QED BY <3>2, <3>3
  <2>6. QueueInv' /\ queue' \in Seq(Tasks) BY <2>1, <2>2, <2>3, <2>5, NewQueue
  <2>7. TypeOK' BY <1>1, <2>1, <2>6 DEF IInv, TypeOK, Keep
  <2>8. CycleInv' BY <1>2, <2>1 DEF CycleInv
  <2>9. DocInv' BY <1>1, <1>10, <1>11, <2>4 DEF DocInv
  <2>10. ProductInv'
    <3>1. In("T-B2", queue') /\ In("T-V2", queue') /\ In("G-02b", queue') BY <2>3 DEF Tasks
    <3>2. In("T-B1", queue') \/ In("M-2", queue') BY <2>3 DEF Tasks
    <3> QED BY <3>1, <3>2 DEF ProductInv, Due
  <2> QED BY <1>5, <1>6, <1>7, <2>6, <2>7, <2>8, <2>9, <2>10 DEF IInv
<1>13. CASE place = "screen8" /\ place' = "screen9" /\ UNCHANGED <<progress, queue>>
  <2>1. queue' = <<>> /\ progress' = "user_wait" /\ place' \in Screens BY <1>1, <1>3, <1>13 DEF Screens
  <2>2. verify1'.phase = "none" /\ verify1'.pending = {} BY <1>1, <1>3, NothingDue
  <2>3. QueueInv' /\ CycleInv' /\ ~In("M-2", queue') BY <1>2, <2>1, <2>2, NothingUnderWay
  <2>4. TypeOK' BY <1>1, <1>13, <2>1 DEF IInv, TypeOK, Keep
  <2>5. Whole(shown', place')
    BY <1>1, <1>3, <1>9, <1>13, RestIsWhole DEF ProductPlaces
  <2>6. shown' \in Artifacts BY <1>1 DEF IInv, TypeOK
  <2>7. DocInv' /\ ProductInv' BY <1>8, <2>1, <2>3, <2>5, <2>6, WholeIsShown
  <2> QED BY <1>5, <1>6, <1>7, <2>3, <2>4, <2>7 DEF IInv
<1>14. CASE place = "screen9" /\ Enqueue("result", <<"T-C4">>)
  <2>1. progress' = "run" /\ place' = "result" /\ queue' = <<"T-C4">> BY <1>14 DEF Enqueue
  <2>2. {"T-C4"} \in SUBSET Tasks /\ "T-C4" \in Tasks BY DEF Tasks
  <2>3. Queue(queue') /\ \A u : In(u, queue') <=> u = "T-C4"
    <3>1. queue' = IF "T-C4" \in {"T-C4"} THEN <<"T-C4">> ELSE <<>> BY <2>1
    <3> QED BY <2>2, <3>1, Alone
  <2>4. place' \notin ProductPlaces /\ place' \notin FirstPlaces BY <2>1 DEF FirstPlaces, ProductPlaces
  <2>5. "T-C4" \in Possible' /\ Brings("T-C4")' = {}
    BY <1>2, <2>4 DEF Possible, Brings, Writers
  <2>6. QueueInv' /\ queue' \in Seq(Tasks)
    <3>1. \A u \in Tasks : In(u, queue') <=> u \in {"T-C4"} BY <2>3
    <3>2. \A t \in {"T-C4"} : t \in Possible' /\ Brings(t)' \subseteq {"T-C4"} BY <2>5
    <3>3. "T-W3" \notin {"T-C4"} OBVIOUS
    <3> QED BY <2>1, <2>2, <2>3, <3>1, <3>2, <3>3, NewQueue
  <2>7. TypeOK' BY <1>1, <2>1, <2>6 DEF IInv, TypeOK, Keep
  <2>8. CycleInv' BY <1>2, <2>1 DEF CycleInv
  <2>9. DocInv' BY <1>1, <1>10, <1>11, <2>4 DEF DocInv
  <2>10. ProductInv' BY <2>4 DEF ProductInv
  <2> QED BY <1>5, <1>6, <1>7, <2>6, <2>7, <2>8, <2>9, <2>10 DEF IInv
<1> QED BY <1>1, <1>12, <1>13, <1>14

\* The queue of a rework: what the bundles order, what that brings, and the
\* end of the rework.
LEMMA ReworkQueueIs ==
  ASSUME IInv, NEW bundles, NEW screen \in Screens,
         queue' = ReworkQueue(screen, bundles), progress' = "run", place' = screen,
         category' = category, cycle' # NoCycle
  PROVE  /\ QueueInv' /\ queue' \in Seq(Tasks)
         /\ In("CYCLE-END", queue')
         /\ In("M-2", queue') => In("T-B2", queue')
<1> DEFINE ordered == OrderedTasks(bundles)
           doc == HasDocument(bundles)
           onepage == category = "onepage"
           html == IF ~onepage /\ (doc \/ "T-B1" \in ordered) THEN {"T-B1"} ELSE {}
           picture == IF "T-B2" \in ordered \/ (onepage /\ doc)
                      THEN {"T-B2"} \cup (IF onepage THEN {"M-2"} ELSE {}) ELSE {}
           made == TasksOf(ItemsIn(bundles))
           written == IF doc THEN made \cup {"M-1", "T-V1"} ELSE {}
           first == written \cup {"CYCLE-END", "G-02a"}
           later == written \cup html \cup picture \cup {"G-04", "M-3", "T-V2", "CYCLE-END", "G-02b"}
<1>1. queue' = IF screen = "screen6" THEN InOrder(first) ELSE InOrder(later) BY DEF ReworkQueue
<1>2. made \subseteq Writers
  <2>1. ItemsIn(bundles) \in SUBSET Items BY DEF ItemsIn
  <2> QED BY <2>1, WritersOf
<1>3. /\ html \subseteq {"T-B1"} /\ (html # {} => ~onepage)
      /\ picture \subseteq {"T-B2", "M-2"} /\ ("M-2" \in picture => onepage /\ "T-B2" \in picture)
      /\ onepage /\ "T-B2" \in picture => "M-2" \in picture
      /\ doc => IF onepage THEN {"T-B2", "M-2"} \subseteq picture ELSE "T-B1" \in html
  OBVIOUS
<1> HIDE DEF ordered, doc, html, picture, made
<1>4. written \subseteq DocTasks /\ (written # {} => doc /\ {"M-1", "T-V1"} \subseteq written)
  BY <1>2 DEF DocTasks, Writers
<1> HIDE DEF written
<1>5. CASE screen = "screen6"
  <2>1. first \in SUBSET Tasks BY <1>4 DEF DocTasks, Writers, Tasks
  <2>2. place' \in FirstPlaces /\ place' \notin ProductPlaces BY <1>5 DEF FirstPlaces, ProductPlaces
  <2>3. Queue(queue') /\ \A u \in Tasks : In(u, queue') <=> u \in first
    BY <1>1, <1>5, <2>1, InOrderSorts
  <2>4. ASSUME NEW t \in first PROVE t \in Possible' /\ Brings(t)' \subseteq first
    <3>1. t \in Possible' BY <1>4, <2>2 DEF Possible
    <3>2. Brings(t)' \subseteq (IF t \in Writers THEN {"M-1", "T-V1"} ELSE {}) \cup {"G-02a", "CYCLE-END"}
      BY <2>2 DEF Brings, Writers
    <3>3. t \in Writers => t \in written BY DEF Writers
    <3>4. t \in Writers => {"M-1", "T-V1"} \subseteq first BY <1>4, <3>3
    <3> QED BY <3>1, <3>2, <3>4
  <2>5. "T-W3" \in first => "T-V1" \in first BY <1>4
  <2>6. QueueInv' /\ queue' \in Seq(Tasks) BY <2>1, <2>3, <2>4, <2>5, NewQueue
  <2>7. "M-2" \in Tasks /\ "CYCLE-END" \in Tasks /\ "M-2" \notin first
    BY <1>4 DEF Tasks, DocTasks, Writers
  <2> QED BY <2>3, <2>6, <2>7
<1>6. CASE screen # "screen6"
  <2>1. later \in SUBSET Tasks BY <1>3, <1>4 DEF DocTasks, Writers, Tasks
  <2>2. place' \in ProductPlaces /\ place' \notin FirstPlaces
    BY <1>6 DEF FirstPlaces, ProductPlaces, Screens
  <2>3. Queue(queue') /\ \A u \in Tasks : In(u, queue') <=> u \in later
    BY <1>1, <1>6, <2>1, InOrderSorts
  <2>4. ASSUME NEW t \in later PROVE t \in Possible' /\ Brings(t)' \subseteq later
    <3>1. t \in Tasks /\ t \notin {"G-02a", "T-C4"} BY <1>3, <1>4 DEF DocTasks, Writers, Tasks
    <3>2. "T-B1" \in later => ~onepage BY <1>3, <1>4 DEF DocTasks, Writers
    <3>3. "M-2" \in later => onepage BY <1>3, <1>4 DEF DocTasks, Writers
    <3>4. t \in Possible' BY <2>2, <3>1, <3>2, <3>3 DEF Possible
    <3>5. t \in DocTasks => t \in written BY <1>3 DEF DocTasks, Writers
    <3>6. Brings(t)' \subseteq
            (IF t \in DocTasks
             THEN {"M-1", "T-V1"} \cup (IF onepage THEN {"T-B2", "M-2"} ELSE {"T-B1"}) ELSE {})
              \cup {"G-02b", "T-V2", "CYCLE-END"}
              \cup (IF t = "T-B2" /\ onepage THEN {"M-2"} ELSE {})
      BY <2>2 DEF Brings, Writers, DocTasks
    <3>7. t \in DocTasks => {"M-1", "T-V1"} \subseteq later
                              /\ (IF onepage THEN {"T-B2", "M-2"} ELSE {"T-B1"}) \subseteq later
      BY <1>3, <1>4, <3>5
    <3>8. t = "T-B2" /\ onepage => "M-2" \in later BY <1>3, <1>4 DEF DocTasks, Writers
    <3> QED BY <3>4, <3>6, <3>7, <3>8
  <2>5. "T-W3" \in later => "T-V1" \in later
    <3>1. "T-W3" \in later => "T-W3" \in written BY <1>3
    <3> QED BY <1>4, <3>1
  <2>6. QueueInv' /\ queue' \in Seq(Tasks) BY <2>1, <2>3, <2>4, <2>5, NewQueue
  <2>7. "M-2" \in later => "T-B2" \in later BY <1>3, <1>4 DEF DocTasks, Writers
  <2>8. "M-2" \in Tasks /\ "CYCLE-END" \in Tasks /\ "T-B2" \in Tasks BY DEF Tasks
  <2> QED BY <2>3, <2>6, <2>7, <2>8
<1> QED BY <1>5, <1>6

\* The rework that is opened or joined is seen from its snapshot.
LEMMA Collected ==
  ASSUME IInv, cycle' \in Cycle, cycle' # NoCycle, UNCHANGED <<form, category>>,
         cycle'.snapshot = shown', shown' \in Artifacts, Whole(shown', cycle'.screen),
         progress' = "run", place' = cycle'.screen,
         queue' = ReworkQueue(cycle'.screen, cycle'.bundles),
         verify1'.phase = "none", verify1'.pending = {},
         cycle'.bundles # {}, \A b \in cycle'.bundles : remaining'[b] < PerBundle
  PROVE  /\ QueueInv' /\ CycleInv' /\ MarkInv' /\ SectionsInPlan' /\ DocInv' /\ ProductInv' /\ SnapshotInv'
         /\ queue' \in Seq(Tasks)
<1>1. cycle'.screen \in Screens BY DEF Cycle
<1>2. /\ QueueInv' /\ queue' \in Seq(Tasks)
      /\ In("CYCLE-END", queue')
      /\ In("M-2", queue') => In("T-B2", queue')
  BY <1>1, ReworkQueueIs
<1>3. SectionsInPlan' /\ DocInv' /\ ProductInv' BY <1>1, <1>2, WholeIsShown
<1>4. CycleInv' BY DEF CycleInv
<1>5. MarkInv' BY DEF MarkInv
<1>6. SnapshotInv'
  <2>1. Whole(cycle.snapshot, cycle.screen)'
    BY DEF Whole, Merged, ScoredAsWritten, Built, Wrapped, ScoredAsBuilt, Reported
  <2>2. \A k : shown'[k] = cycle'.snapshot[k] OBVIOUS
  <2>3. \A i \in Items : shown'.text[i] = cycle'.snapshot.text[i] OBVIOUS
  <2> QED BY <1>2, <2>1, <2>2, <2>3 DEF SnapshotInv, Due
<1> QED BY <1>2, <1>3, <1>4, <1>5, <1>6

\* A chance that is spent.
LEMMA SpentTypes ==
  ASSUME IInv, NEW b \in Bundles, remaining[b] > 0, NEW bundles, remaining' = Spent(bundles, b)
  PROVE  /\ remaining' \in [Bundles -> 0..PerBundle] /\ remaining'[b] < PerBundle
         /\ \A x \in Bundles \ {b} : remaining'[x] = remaining[x]
<1>1. remaining \in [Bundles -> 0..PerBundle] /\ PerBundle \in Nat
  BY ReworkAssumption DEF IInv, TypeOK, ReworkAssumption
<1>2. remaining' = [remaining EXCEPT ![b] = @ - 1] BY DEF Spent
<1>3. remaining[b] - 1 \in 0..PerBundle /\ remaining[b] - 1 < PerBundle BY <1>1
<1> QED BY <1>1, <1>2, <1>3

\* The rework that is opened.
LEMMA OpenedCycle ==
  ASSUME IInv, NEW b \in Bundles, OpenCycle(b)
  PROVE  cycle' \in Cycle /\ cycle' # NoCycle /\ cycles' \in 0..MaxCycles
<1>1. /\ place \in Screens /\ cycles < MaxCycles /\ cycles' = cycles + 1
      /\ cycle' = [id |-> cycles + 1, screen |-> place, snapshot |-> shown, bundles |-> {b}, open |-> TRUE]
  BY DEF OpenCycle
<1>2. shown \in Artifacts /\ cycles \in 0..MaxCycles /\ MaxCycles \in Nat
  BY ReworkAssumption DEF IInv, TypeOK, ReworkAssumption
<1>3. cycles + 1 \in 1..MaxCycles /\ cycles' \in 0..MaxCycles BY <1>1, <1>2
<1>4. cycle' \in Cycle BY <1>1, <1>2, <1>3 DEF Cycle
<1>5. cycle' # NoCycle BY <1>4, ReworkAssumption DEF ReworkAssumption
<1> QED BY <1>3, <1>4, <1>5

LEMMA OpenCycleKeeps == ASSUME IInv, NEW b \in Bundles, OpenCycle(b) PROVE IInv'
<1>1. /\ progress = "user_wait" /\ place \in Screens
      /\ remaining[b] > 0 /\ cycles < MaxCycles
      /\ cycle' = [id |-> cycles + 1, screen |-> place, snapshot |-> shown, bundles |-> {b}, open |-> TRUE]
      /\ cycles' = cycles + 1
      /\ remaining' = Spent({}, b)
      /\ progress' = "run" /\ place' = place /\ queue' = ReworkQueue(place, {b})
      /\ UNCHANGED <<form, category, shown, verify1>>
  BY DEF OpenCycle, Enqueue
<1>2. shown \in Artifacts /\ form \in Forms /\ category \in Categories /\ verify1 \in Verify1
  BY DEF IInv, TypeOK
<1>3. cycle' \in Cycle /\ cycle' # NoCycle /\ cycles' \in 0..MaxCycles BY OpenedCycle
<1>6. /\ cycle'.snapshot = shown /\ cycle'.screen = place /\ cycle'.bundles = {b}
      /\ cycle'.id = cycles'
  BY <1>1
<1>7. queue = <<>> BY <1>1 DEF IInv, QueueInv
<1>8. verify1'.phase = "none" /\ verify1'.pending = {} BY <1>1, <1>7, NothingDue
<1>9. Whole(shown, place)
  <2>1. Begun BY <1>1 DEF Begun, Live, Screens
  <2> QED BY <1>1, <1>7, <2>1, RestIsWhole DEF FirstPlaces, ProductPlaces, Screens
<1>10. remaining' \in [Bundles -> 0..PerBundle] /\ remaining'[b] < PerBundle BY <1>1, SpentTypes
<1>11. /\ QueueInv' /\ CycleInv' /\ MarkInv' /\ SectionsInPlan' /\ DocInv' /\ ProductInv' /\ SnapshotInv'
       /\ queue' \in Seq(Tasks)
  <2>1. shown' = shown /\ UNCHANGED <<form, category>> /\ progress' = "run" /\ place' = place
    BY <1>1
  <2>2. queue' = ReworkQueue(cycle'.screen, cycle'.bundles) BY <1>1, <1>6
  <2> QED BY <1>2, <1>3, <1>6, <1>8, <1>9, <1>10, <2>1, <2>2, Collected
<1>12. TypeOK'
  <2>1. place' \in Screens BY <1>1
  <2> QED BY <1>1, <1>2, <1>3, <1>6, <1>10, <1>11, <2>1 DEF TypeOK
<1> QED BY <1>11, <1>12 DEF IInv

LEMMA ExtendCycleKeeps == ASSUME IInv, NEW b \in Bundles, ExtendCycle(b) PROVE IInv'
<1>1. /\ cycle # NoCycle /\ cycle.open /\ progress = "run"
      /\ remaining[b] > 0
      /\ cycle' = [cycle EXCEPT !.bundles = @ \cup {b}]
      /\ remaining' = Spent(cycle.bundles, b)
      /\ progress' = "run" /\ place' = cycle.screen
      /\ queue' = ReworkQueue(cycle.screen, cycle.bundles \cup {b})
      /\ UNCHANGED <<form, category, shown, cycles, verify1>>
  BY DEF ExtendCycle, Enqueue, Collecting
<1>2. /\ shown \in Artifacts /\ cycle \in Cycle /\ cycle.id = cycles
      /\ form \in Forms /\ category \in Categories /\ verify1 \in Verify1 /\ cycles \in 0..MaxCycles
  BY <1>1 DEF IInv, TypeOK
<1>3. /\ cycle' \in Cycle /\ cycle'.bundles = cycle.bundles \cup {b} /\ cycle'.screen = cycle.screen
      /\ cycle'.snapshot = cycle.snapshot /\ cycle'.id = cycle.id
  BY <1>1, <1>2 DEF Cycle
<1>4. cycle' # NoCycle BY <1>3, ReworkAssumption DEF ReworkAssumption
<1>5. /\ shown = cycle.snapshot /\ verify1.phase = "none" /\ verify1.pending = {}
      /\ place = cycle.screen /\ cycle.screen \in Screens
      /\ \A x \in cycle.bundles : remaining[x] < PerBundle
  BY <1>1, <1>2 DEF IInv, CycleInv, MarkInv, Cycle
<1>6. Whole(shown, cycle.screen) BY <1>1, <1>5 DEF IInv, SnapshotInv
<1>7. /\ remaining' \in [Bundles -> 0..PerBundle] /\ remaining'[b] < PerBundle
      /\ \A x \in Bundles \ {b} : remaining'[x] = remaining[x]
  BY <1>1, SpentTypes
<1>8. \A x \in cycle'.bundles : remaining'[x] < PerBundle
  <2>1. cycle.bundles \subseteq Bundles BY <1>2 DEF Cycle
  <2> QED BY <1>3, <1>5, <1>7, <2>1
<1>9. /\ QueueInv' /\ CycleInv' /\ MarkInv' /\ SectionsInPlan' /\ DocInv' /\ ProductInv' /\ SnapshotInv'
      /\ queue' \in Seq(Tasks)
  <2>1. shown' = shown /\ UNCHANGED <<form, category>> /\ progress' = "run" /\ verify1' = verify1
    BY <1>1
  <2>2. queue' = ReworkQueue(cycle'.screen, cycle'.bundles) /\ place' = cycle'.screen BY <1>1, <1>3
  <2>3. cycle'.snapshot = shown' /\ Whole(shown', cycle'.screen) BY <1>3, <1>5, <1>6, <2>1
  <2>4. cycle'.bundles # {} BY <1>3
  <2> QED BY <1>2, <1>3, <1>4, <1>5, <1>8, <2>1, <2>2, <2>3, <2>4, Collected
<1>10. TypeOK'
  <2>1. place' \in Screens BY <1>1, <1>5
  <2> QED BY <1>1, <1>2, <1>3, <1>7, <1>9, <2>1 DEF TypeOK
<1> QED BY <1>9, <1>10 DEF IInv

LEMMA CollectEndsKeeps == ASSUME IInv, CollectEnds PROVE IInv'
<1>1. /\ cycle # NoCycle /\ cycle' = [cycle EXCEPT !.open = FALSE]
      /\ UNCHANGED <<form, category, progress, place, queue, shown, cycles, remaining, verify1>>
  BY DEF CollectEnds, Collecting
<1>2. cycle \in Cycle BY <1>1, PhaseIsMarks
<1>3. /\ cycle' \in Cycle /\ cycle'.bundles = cycle.bundles /\ cycle'.screen = cycle.screen
      /\ cycle'.snapshot = cycle.snapshot /\ cycle'.id = cycle.id /\ ~cycle'.open
  BY <1>1, <1>2 DEF Cycle
<1>4. cycle' # NoCycle BY <1>3, ReworkAssumption DEF ReworkAssumption
<1>5. /\ Key' = Key /\ Possible' = Possible /\ (\A t : Brings(t)' = Brings(t))
      /\ \A t : Due(t)' <=> Due(t)
  BY <1>1, <1>3, <1>4 DEF Key, Possible, Brings, Due
<1>6. Phase' = Phase BY <1>1, <1>5 DEF Phase
<1>7. QueueInv'
  <2>1. \A t \in Tasks : In(t, queue') => t \in Possible' /\ \A u \in Brings(t)' : In(u, queue')
    BY <1>1, <1>5 DEF IInv, QueueInv, Due
  <2>2. Ordered(queue') /\ (progress' # "run" => queue' = <<>>) BY <1>1 DEF IInv, QueueInv
  <2>3. In("T-W3", queue') => In("T-V1", queue') \/ Phase' = "replace"
    BY <1>1, <1>6 DEF IInv, QueueInv, Due
  <2> QED BY <2>1, <2>2, <2>3 DEF QueueInv, Due
<1>8. CycleInv' BY <1>1, <1>3, <1>4 DEF IInv, CycleInv
<1>9. ItemsIn(cycle.bundles)' = ItemsIn(cycle.bundles) BY <1>1, <1>3 DEF ItemsIn
<1>10. MarkInv' BY <1>1, <1>4, <1>5, <1>9 DEF IInv, MarkInv, Due
<1>11. SectionsInPlan' BY <1>1 DEF IInv, SectionsInPlan, PlanBody, Unwritten
<1>12. DocInv' BY <1>1 DEF IInv, DocInv, Due, Merged, ScoredAsWritten, Begun, Live
<1>13. ProductInv'
  BY <1>1, <1>5 DEF IInv, ProductInv, Due, Live, Built, Wrapped, ScoredAsBuilt, Reported
<1>14. SnapshotInv'
  <2>1. Whole(cycle.snapshot, cycle.screen)'
    BY <1>1, <1>3
    DEF IInv, SnapshotInv, Whole, Merged, ScoredAsWritten, Built, Wrapped, ScoredAsBuilt, Reported
  <2>2. \A k : Changed(k)' <=> Changed(k) BY <1>1, <1>3 DEF Changed
  <2>3. Total(shown)' = Total(shown) /\ Total(cycle.snapshot)' = Total(cycle.snapshot)
    BY <1>1, <1>3 DEF Total, LayerTotal
  <2> QED BY <1>1, <1>3, <1>9, <2>1, <2>2, <2>3 DEF IInv, SnapshotInv, Due
<1>15. TypeOK' BY <1>1, <1>3 DEF IInv, TypeOK
<1> QED BY <1>7, <1>8, <1>10, <1>11, <1>12, <1>13, <1>14, <1>15 DEF IInv

-----------------------------------------------------------------------------
(* The invariant, and what follows from it *)

LEMMA InitInv == ASSUME Init PROVE IInv
<1>1. /\ form \in Forms /\ category \in Categories
      /\ progress = "user_wait" /\ place = "write"
      /\ queue = <<>> /\ shown = NoArtifacts
      /\ cycle = NoCycle /\ cycles = 0
      /\ remaining = [b \in Bundles |-> PerBundle]
      /\ verify1 = FreshVerify1(0)
  BY DEF Init
<1>2. PerBundle \in Nat /\ RedoLimit \in Nat /\ MaxCycles \in Nat
  BY ReworkAssumption DEF ReworkAssumption
<1>3. shown \in Artifacts
  <2>1. Unwritten \in Text BY DEF Unwritten, Text
  <2> QED BY <1>1, <2>1 DEF NoArtifacts, Artifacts, Maybe
<1>4. verify1 \in Verify1 /\ verify1.phase = "none" /\ verify1.pending = {}
  BY <1>1, <1>2 DEF FreshVerify1, Verify1
<1>5. TypeOK
  <2>1. queue \in Seq(Tasks) BY <1>1
  <2>2. remaining \in [Bundles -> 0..PerBundle] BY <1>1, <1>2
  <2> QED BY <1>1, <1>2, <1>3, <1>4, <2>1, <2>2 DEF TypeOK
<1>6. QueueInv BY <1>1 DEF QueueInv, Ordered, Due, In
<1>7. CycleInv /\ MarkInv /\ SnapshotInv BY <1>1, <1>4 DEF CycleInv, MarkInv, SnapshotInv
<1>8. SectionsInPlan BY <1>1 DEF SectionsInPlan, PlanBody, NoArtifacts
<1>9. DocInv /\ ProductInv BY <1>1 DEF DocInv, ProductInv, Begun, ProductPlaces
<1> QED BY <1>5, <1>6, <1>7, <1>8, <1>9 DEF IInv

LEMMA StutterKeeps == ASSUME IInv, UNCHANGED vars PROVE IInv'
<1>1. UNCHANGED <<form, category, progress, place, queue, shown, cycle, cycles, remaining, verify1>>
  BY DEF vars
<1>2. TypeOK' BY <1>1 DEF IInv, TypeOK
<1>3. QueueInv' BY <1>1 DEF IInv, QueueInv, Due, Possible, Brings, Phase, Key
<1>4. CycleInv' BY <1>1 DEF IInv, CycleInv
<1>5. MarkInv' BY <1>1 DEF IInv, MarkInv, Due, Key, ItemsIn
<1>6. SectionsInPlan' BY <1>1 DEF IInv, SectionsInPlan, PlanBody, Unwritten
<1>7. DocInv' BY <1>1 DEF IInv, DocInv, Due, Merged, ScoredAsWritten, Begun, Live
<1>8. ProductInv'
  BY <1>1 DEF IInv, ProductInv, Due, Live, Built, Wrapped, ScoredAsBuilt, Reported, Key
<1>9. SnapshotInv'
  <2>1. Whole(cycle.snapshot, cycle.screen)' <=> Whole(cycle.snapshot, cycle.screen)
    BY <1>1 DEF Whole, Merged, ScoredAsWritten, Built, Wrapped, ScoredAsBuilt, Reported
  <2>2. \A k : Changed(k)' <=> Changed(k) BY <1>1 DEF Changed
  <2>3. Total(shown)' = Total(shown) /\ Total(cycle.snapshot)' = Total(cycle.snapshot)
    BY <1>1 DEF Total, LayerTotal
  <2>4. ItemsIn(cycle.bundles)' = ItemsIn(cycle.bundles) BY <1>1 DEF ItemsIn
  <2> QED BY <1>1, <2>1, <2>2, <2>3, <2>4 DEF IInv, SnapshotInv, Due
<1> QED BY <1>2, <1>3, <1>4, <1>5, <1>6, <1>7, <1>8, <1>9 DEF IInv

LEMMA NextKeeps == ASSUME IInv, [Next]_vars PROVE IInv'
<1>1. CASE Write
  BY <1>1, WriteSectionsKeeps, DrawImagesKeeps, MakeTablesKeeps, MergePlanKeeps, VerifyPlanKeeps,
     JudgePlanKeeps DEF Write
<1>2. CASE Build
  BY <1>2, BuildHtmlKeeps, BuildInfographicKeeps, WrapInfographicKeeps, WriteReadmeKeeps,
     AttachReadmeKeeps, VerifyProductKeeps, JudgeAllKeeps DEF Build
<1>3. CASE CycleEnd \/ Deliver \/ SegmentEnds \/ ReworkFails \/ RunFails
  BY <1>3, CycleEndKeeps, DeliverKeeps, SegmentEndsKeeps, ReworkFailsKeeps, StopKeeps
<1>4. CASE Command
  BY <1>4, StartWritingKeeps, ProceedKeeps, StopKeeps, OpenCycleKeeps, ExtendCycleKeeps DEF Command
<1>5. CASE CollectEnds BY <1>5, CollectEndsKeeps
<1>6. CASE UNCHANGED vars BY <1>6, StutterKeeps
<1> QED BY <1>1, <1>2, <1>3, <1>4, <1>5, <1>6 DEF Next, Work

\* The invariant of the whole module.
THEOREM Invariant == Spec => []IInv
BY InitInv, NextKeeps, PTL DEF Spec

\* The types of the run's row, for any form, bundles and number of reworks.
THEOREM TypeCorrect == Spec => []TypeOK
<1>1. IInv => TypeOK BY DEF IInv
<1> QED BY <1>1, Invariant, PTL

\* The run waits at a screen with an empty queue: everything is whole.
LEMMA AtScreenWhole ==
  ASSUME IInv, AtScreen
  PROVE  Whole(shown, place) /\ place \in Screens
<1>1. Begun /\ queue = <<>> /\ place \in Screens
  BY DEF AtScreen, Begun, Live, Screens, IInv, QueueInv
<1>2. /\ place \in FirstPlaces => Whole(shown, "screen6")
      /\ place \in ProductPlaces => Whole(shown, "screen8") /\ Whole(shown, "screen9")
  BY <1>1, RestIsWhole
<1> QED BY <1>1, <1>2 DEF Screens, FirstPlaces, ProductPlaces

\* The plan the user looks at is the merge of the newest items and the one
\* that was scored and judged, whatever was reworked, redone, moved back or
\* failed before (_after_tv1, compare_and_keep, rollback_cycle).
THEOREM PlanIsVerified == Spec => []PlanIsTheVerifiedOne
<1>1. ASSUME IInv PROVE PlanIsTheVerifiedOne
  <2> SUFFICES ASSUME AtScreen
               PROVE  /\ shown.plan = [body |-> shown.text, merged |-> TRUE]
                      /\ \A i \in Items \ shown.replaced : shown.docScore.body[i] = shown.text[i]
                      /\ place = "screen6" => shown.docReport = shown.docScore
    BY DEF PlanIsTheVerifiedOne
  <2>1. Whole(shown, place) BY <1>1, AtScreenWhole
  <2>2. Merged(shown) /\ ScoredAsWritten(shown) /\ (place = "screen6" => shown.docReport = shown.docScore)
    BY <2>1 DEF Whole
  <2> QED BY <2>2 DEF Merged, ScoredAsWritten
<1> QED BY <1>1, Invariant, PTL

\* The product the user looks at was made from the plan beside it, and its
\* score and the report are about these very artifacts (rework_queue,
\* compare_and_keep, rollback_cycle).
THEOREM ProductIsVerified == Spec => []ProductIsTheVerifiedOne
<1>1. ASSUME IInv PROVE ProductIsTheVerifiedOne
  <2> SUFFICES ASSUME AtScreen, place # "screen6"
               PROVE  /\ shown.prototype.body = shown.plan.body
                      /\ category = "onepage" => shown.prototype.made = shown.infographic.made
                      /\ shown.artifactScore.prototype = shown.prototype
                      /\ shown.artifactScore.infographic = shown.infographic
                      /\ shown.report = [doc |-> shown.docScore, artifact |-> shown.artifactScore]
    BY DEF ProductIsTheVerifiedOne
  <2>1. Whole(shown, place) BY <1>1, AtScreenWhole
  <2>2. Built(shown) /\ Wrapped(shown) /\ ScoredAsBuilt(shown) /\ Reported(shown) BY <2>1 DEF Whole
  <2>3. shown.prototype.body = shown.plan.body BY <2>2 DEF Built, Wrapped
  <2> QED BY <2>2, <2>3 DEF Wrapped, ScoredAsBuilt, Reported
<1> QED BY <1>1, Invariant, PTL

\* A rework makes only items of the bundles that were chosen, also when
\* verify-1 sends items back (madeItems of _after_tv1).
THEOREM OnlyChosenChange == Spec => []OnlyChosenItemsChange
<1>1. IInv => OnlyChosenItemsChange BY DEF IInv, SnapshotInv, OnlyChosenItemsChange
<1> QED BY <1>1, Invariant, PTL

\* What is due is in the range of the queue.
LEMMA DueIsRange == \A t, q : In(t, q) /\ q \in Seq(Tasks) <=> t \in Range(q) /\ q \in Seq(Tasks)
BY DEF In, Range

\* A mark of verify-1 has its step still to come, and leaves none behind when
\* the run waits or ends (clear_verify1).
THEOREM MarkHasStep == Spec => []MarkHasItsStep
<1>1. ASSUME IInv PROVE MarkHasItsStep
  <2>1. Phase = verify1.phase BY <1>1, PhaseIsMarks
  <2>2. /\ verify1.phase = "redo" => progress = "run" /\ Due("T-V1")
        /\ verify1.phase = "replace" => progress = "run" /\ Due("M-1")
        /\ progress # "run" => verify1.phase = "none"
    BY <1>1 DEF IInv, MarkInv
  <2>3. queue \in Seq(Tasks) BY <1>1 DEF IInv, TypeOK
  <2>4. /\ Due("T-V1") => "T-V1" \in Range(queue)
        /\ Due("M-1") => "M-1" \in Range(queue)
    BY <2>3, DueIsRange DEF Due
  <2> QED BY <2>1, <2>2, <2>4 DEF MarkHasItsStep
<1> QED BY <1>1, Invariant, PTL

-----------------------------------------------------------------------------
(* A segment runs out of steps *)

\* What a step that leaves the segment under way uses up.
UsesUp ==
  \/ Len(queue') < Len(queue)
  \/ \E i \in Items : CurrentVerify1'.counts[i] > CurrentVerify1.counts[i]
  \/ Phase' = "replace" /\ "T-V1" \notin Range(queue')

\* Most steps make the queue shorter.
LEMMA PopShortens == ASSUME IInv, NEW task, Step(task), Pop PROVE Len(queue') < Len(queue)
<1>1. Queue(queue) /\ queue # <<>> BY AtHead
<1>2. Len(Tail(queue)) = Len(queue) - 1 /\ Len(queue) \in Nat BY <1>1, Shortened
<1> QED BY <1>2 DEF Pop

LEMMA VerifyUsesUp == ASSUME IInv, VerifyPlan PROVE UsesUp
<1>1. Step("T-V1") /\ Stay BY DEF VerifyPlan
<1>2. PICK failing : AfterVerify1(failing) BY DEF VerifyPlan
<1> DEFINE back == SentBack(failing)
           redo == {i \in back : CurrentVerify1.counts[i] < RedoLimit}
           tables == {i \in back : Kind[i] = "table"}
           v == [CurrentVerify1 EXCEPT !.made = Made]
<1>3. CurrentVerify1 \in Verify1 /\ CurrentVerify1.key = Key BY CurrentMark
<1>4. v \in Verify1 /\ v.key = Key /\ v.counts = CurrentVerify1.counts
  BY <1>3, MadeChosen DEF Verify1
<1>5. Key' = Key BY <1>1 DEF Key, Stay
<1>6. back \subseteq Items BY MadeChosen DEF SentBack
<1>7. CASE redo # {}
  <2>1. verify1' = [v EXCEPT !.phase = "redo", !.pending = redo,
                             !.counts = [i \in Items |-> @[i] + (IF i \in redo THEN 1 ELSE 0)]]
    BY <1>2, <1>7 DEF AfterVerify1
  <2>2. PICK i \in redo : i \in Items BY <1>6, <1>7
  <2> HIDE DEF v, redo
  <2>3. verify1'.key = Key /\ verify1'.counts[i] = CurrentVerify1.counts[i] + 1
    BY <1>4, <2>1, <2>2 DEF Verify1
  <2>4. CurrentVerify1' = verify1' BY <1>5, <2>3 DEF CurrentVerify1
  <2>5. CurrentVerify1.counts[i] \in 0..RedoLimit /\ RedoLimit \in Nat
    BY <1>3, <2>2, ReworkAssumption DEF Verify1, ReworkAssumption
  <2>6. CurrentVerify1'.counts[i] > CurrentVerify1.counts[i] BY <2>3, <2>4, <2>5
  <2> QED BY <2>2, <2>6 DEF UsesUp
<1>8. CASE redo = {} /\ tables # {}
  <2>1. /\ verify1' = [v EXCEPT !.phase = "replace", !.pending = tables]
        /\ Insert(InOrder({"T-W3", "M-1"}))
    BY <1>2, <1>8 DEF AfterVerify1
  <2> HIDE DEF v, redo, tables
  <2>2. verify1'.key = Key /\ verify1'.phase = "replace" /\ verify1'.pending = tables
    BY <1>4, <2>1 DEF Verify1
  <2>3. Phase' = "replace" BY <1>5, <1>8, <2>2 DEF Phase
  <2>4. {"T-W3", "M-1"} \in SUBSET DocTasks /\ "T-V1" \in Tasks BY DEF DocTasks, Writers, Tasks
  <2>5. queue' \in Seq(Tasks) /\ ~In("T-V1", queue')
    BY <1>1, <2>1, <2>3, <2>4, InsertKeeps
  <2> QED BY <2>3, <2>5, DueIsRange DEF UsesUp
<1>9. CASE redo = {} /\ tables = {}
  <2>1. Pop BY <1>2, <1>9 DEF AfterVerify1
  <2> QED BY <1>1, <2>1, PopShortens DEF UsesUp
<1> QED BY <1>7, <1>8, <1>9

\* No segment goes on for ever: whatever verify-1 sends back, each step uses
\* up the queue, a bounded count or the one table replacement (_after_tv1).
THEOREM SegmentRunsOut == Spec => RedoRunsOut
<1>1. ASSUME IInv, Work, progress' = "run" PROVE UsesUp
  <2>1. CASE VerifyPlan BY <1>1, <2>1, VerifyUsesUp
  <2>2. CASE \/ WriteSections \/ DrawImages \/ MakeTables \/ MergePlan \/ JudgePlan
             \/ Build \/ CycleEnd \/ Deliver
    <3>1. \E task : Step(task) /\ Pop
      BY <2>2 DEF WriteSections, DrawImages, MakeTables, MergePlan, JudgePlan, Build, BuildHtml,
                  BuildInfographic, WrapInfographic, WriteReadme, AttachReadme, VerifyProduct,
                  JudgeAll, CycleEnd, Deliver
    <3> QED BY <1>1, <3>1, PopShortens DEF UsesUp
  <2>3. CASE SegmentEnds \/ ReworkFails \/ RunFails
    BY <1>1, <2>3 DEF SegmentEnds, ReworkFails, RunFails, Wait
  <2> QED BY <1>1, <2>1, <2>2, <2>3 DEF Work, Write
<1>2. IInv /\ [Next]_vars => [Work /\ progress' = "run" => UsesUp]_vars BY <1>1
<1> QED BY <1>2, Invariant, PTL DEF Spec, RedoRunsOut, UsesUp

-----------------------------------------------------------------------------
(* The promise of a rework *)

\* What ReworkPromise sees of the run.
Asked == IF cycle = NoCycle THEN {} ELSE cycle.bundles
Result == [k \in DOMAIN Seen \ {"readme"} |-> Seen[k]]
Worth == LayerTotal(Seen.docScore) + LayerTotal(Seen.artifactScore)
Making == progress = "run" /\ cycle = NoCycle
Over == progress \in {"done", "failed", "aborted"}

\* A step of the promise, or one it does not see.
PromiseStep ==
  \/ \E b \in Bundles \ Asked :
       /\ ~Making /\ ~Over /\ remaining[b] > 0
       /\ Asked' = Asked \cup {b} /\ remaining' = [remaining EXCEPT ![b] = @ - 1]
       /\ UNCHANGED <<Result, Worth, Making, Over>>
  \/ Asked # {} /\ Asked' = {} /\ Worth' >= Worth /\ UNCHANGED <<remaining, Making, Over>>
  \/ /\ Asked # {} /\ Asked' = {}
     /\ remaining' = [b \in Bundles |-> remaining[b] + (IF b \in Asked THEN 1 ELSE 0)]
     /\ UNCHANGED <<Result, Worth, Making, Over>>
  \/ ~Over /\ Over' /\ Asked' = {} /\ ~Making' /\ UNCHANGED remaining
  \/ ~Making /\ ~Over /\ Asked = {} /\ Making' /\ UNCHANGED <<remaining, Asked, Result, Worth, Over>>
  \/ Making /\ UNCHANGED <<remaining, Asked>>
  \/ UNCHANGED <<remaining, Asked, Result, Worth, Making, Over>>

\* The steps above are those of ReworkPromise.
LEMMA PromiseSteps == PromiseStep => [Promise!Next]_(Promise!promiseVars)
BY DEF PromiseStep, Promise!Next, Promise!Ask, Promise!Replace, Promise!GiveBack, Promise!Stop,
       Promise!Begin, Promise!Make, Promise!promiseVars, Asked, Result, Worth, Making, Over

\* What the user sees is not what a rework works on.
LEMMA SameSeen ==
  ASSUME Seen' = Seen
  PROVE  UNCHANGED <<Result, Worth>>
BY DEF Result, Worth, LayerTotal

\* A run that is neither being made nor over, before and after a step.
LEMMA SameFlags ==
  ASSUME ~Making, ~Making', ~Over, ~Over'
  PROVE  UNCHANGED <<Making, Over>>
BY DEF Making, Over

\* The same of a run that stays not over.
LEMMA SameOver == ASSUME ~Over, ~Over' PROVE UNCHANGED Over
BY DEF Over

\* A rework has asked for something.
LEMMA AskedIs ==
  ASSUME IInv, cycle # NoCycle
  PROVE  Asked = cycle.bundles /\ Asked # {} /\ Seen = cycle.snapshot /\ ~Making /\ ~Over /\ progress = "run"
BY DEF IInv, CycleInv, Asked, Seen, Making, Over

\* The work of a segment is not seen before its end.
LEMMA WorkIsHidden == ASSUME IInv, Stay, progress = "run" PROVE PromiseStep
<1>1. UNCHANGED <<progress, cycle, remaining>> BY DEF Stay, Keep
<1>2. CASE cycle = NoCycle
  <2>1. Making /\ UNCHANGED <<remaining, Asked>> BY <1>1, <1>2 DEF Making, Asked
  <2> QED BY <2>1 DEF PromiseStep
<1>3. CASE cycle # NoCycle
  <2>1. Seen' = Seen BY <1>1, <1>3 DEF Seen
  <2>2. UNCHANGED <<Asked, Making, Over>> BY <1>1 DEF Asked, Making, Over
  <2> QED BY <1>1, <2>1, <2>2, SameSeen DEF PromiseStep
<1> QED BY <1>2, <1>3

LEMMA SegmentEndsReplaces == ASSUME IInv, SegmentEnds PROVE PromiseStep
<1>1. progress = "run" /\ queue = <<>> /\ UNCHANGED <<shown, remaining>>
  BY DEF SegmentEnds, Working, Keep
<1>2. CASE cycle = NoCycle
  <2>1. cycle' = NoCycle BY <1>2 DEF SegmentEnds
  <2>2. Making /\ UNCHANGED <<remaining, Asked>> BY <1>1, <1>2, <2>1 DEF Making, Asked
  <2> QED BY <2>2 DEF PromiseStep
<1>3. CASE cycle # NoCycle
  <2>1. cycle' = NoCycle /\ progress' = "user_wait" BY <1>3 DEF SegmentEnds, Wait
  <2>2. Asked # {} /\ Asked' = {} /\ ~Making /\ ~Over /\ ~Making' /\ ~Over'
    BY <1>3, <2>1, AskedIs DEF Asked, Making, Over
  <2>3. ~Due("CYCLE-END") BY <1>1, NothingDue
  <2>4. Total(shown) >= Total(cycle.snapshot) BY <1>3, <2>3 DEF IInv, SnapshotInv
  <2>5. Worth' = Total(shown) /\ Worth = Total(cycle.snapshot)
    BY <1>1, <1>3, <2>1 DEF Worth, Seen, Total, LayerTotal
  <2>6. Worth' >= Worth BY <2>4, <2>5
  <2>7. UNCHANGED <<remaining, Making, Over>> BY <1>1, <2>2, SameFlags
  <2> QED BY <2>2, <2>6, <2>7 DEF PromiseStep
<1> QED BY <1>2, <1>3

LEMMA ReworkFailsGivesBack == ASSUME IInv, ReworkFails PROVE PromiseStep
<1>1. /\ cycle # NoCycle /\ shown' = MovedBack(shown, cycle.snapshot)
      /\ remaining' = Refunded(cycle.bundles)
      /\ progress' = "user_wait" /\ cycle' = NoCycle
  BY DEF ReworkFails, Wait
<1>2. Asked = cycle.bundles /\ Asked # {} /\ Seen = cycle.snapshot /\ ~Making /\ ~Over
  BY <1>1, AskedIs
<1>3. Asked' = {} /\ Seen' = shown' /\ ~Making' /\ ~Over'
  BY <1>1 DEF Asked, Seen, Making, Over
<1>4. remaining' = [b \in Bundles |-> remaining[b] + (IF b \in Asked THEN 1 ELSE 0)]
  BY <1>1, <1>2 DEF Refunded
<1>5. /\ shown' \in Artifacts
      /\ shown'.text = cycle.snapshot.text /\ shown'.replaced = cycle.snapshot.replaced
      /\ shown'.plan = cycle.snapshot.plan /\ shown'.docScore = cycle.snapshot.docScore
      /\ shown'.docReport = cycle.snapshot.docReport
      /\ shown'.prototype = cycle.snapshot.prototype /\ shown'.infographic = cycle.snapshot.infographic
      /\ shown'.artifactScore = cycle.snapshot.artifactScore /\ shown'.report = cycle.snapshot.report
  BY <1>1, MovedBackWhole
<1>6. cycle.snapshot \in Artifacts BY <1>1, PhaseIsMarks DEF Cycle
<1>7. DOMAIN Seen' = DOMAIN Seen /\ \A k \in DOMAIN Seen \ {"readme"} : Seen'[k] = Seen[k]
  BY <1>2, <1>3, <1>5, <1>6 DEF Artifacts
<1>8. Result' = Result BY <1>7 DEF Result
<1>9. Worth' = Worth BY <1>2, <1>3, <1>5 DEF Worth, LayerTotal
<1>10. UNCHANGED <<Making, Over>> BY <1>2, <1>3, SameFlags
<1> QED BY <1>2, <1>3, <1>4, <1>8, <1>9, <1>10 DEF PromiseStep

LEMMA StopIsSeen == ASSUME IInv, RunFails \/ Abort PROVE PromiseStep
<1>1. CASE RunFails
  <2>1. progress = "run" /\ cycle = NoCycle /\ UNCHANGED <<cycle, remaining>>
    BY <1>1 DEF RunFails, Working, Keep
  <2>2. Making /\ UNCHANGED <<remaining, Asked>> BY <2>1 DEF Making, Asked
  <2> QED BY <2>2 DEF PromiseStep
<1>2. CASE Abort
  <2>1. progress \in {"run", "user_wait"} /\ progress' = "aborted" /\ cycle' = NoCycle /\ UNCHANGED remaining
    BY <1>2 DEF Abort, Keep
  <2>2. ~Over /\ Over' /\ Asked' = {} /\ ~Making' BY <2>1 DEF Over, Asked, Making
  <2> QED BY <2>1, <2>2 DEF PromiseStep
<1> QED BY <1>1, <1>2

LEMMA BeginIsSeen == ASSUME IInv, StartWriting \/ Proceed PROVE PromiseStep
<1>1. progress = "user_wait" /\ UNCHANGED <<shown, cycle, remaining>>
  BY DEF StartWriting, Proceed, Untouched, Keep
<1>2. cycle = NoCycle /\ cycle' = NoCycle BY <1>1 DEF IInv, CycleInv
<1>3. UNCHANGED <<Asked, Result, Worth>>
  <2>1. Seen' = Seen BY <1>1, <1>2 DEF Seen
  <2> QED BY <1>2, <2>1, SameSeen DEF Asked
<1>4. ~Making /\ ~Over /\ Asked = {} BY <1>1, <1>2 DEF Making, Over, Asked
<1>5. progress' \in {"run", "user_wait"} BY <1>1 DEF StartWriting, Proceed, Enqueue
<1>6. ~Over' BY <1>5 DEF Over
<1>7. CASE progress' = "run"
  <2>1. Making' BY <1>2, <1>7 DEF Making
  <2>2. UNCHANGED Over BY <1>4, <1>6, SameOver
  <2> QED BY <1>1, <1>3, <1>4, <2>1, <2>2 DEF PromiseStep
<1>8. CASE progress' = "user_wait"
  <2>1. ~Making' BY <1>8 DEF Making
  <2>2. UNCHANGED <<Making, Over>> BY <1>4, <1>6, <2>1, SameFlags
  <2> QED BY <1>1, <1>3, <2>2 DEF PromiseStep
<1> QED BY <1>5, <1>7, <1>8

LEMMA AskIsSeen == ASSUME IInv, NEW b \in Bundles, OpenCycle(b) \/ ExtendCycle(b) PROVE PromiseStep
<1>1. CASE OpenCycle(b)
  <2>1. /\ progress = "user_wait" /\ progress' = "run" /\ remaining[b] > 0 /\ cycles < MaxCycles
        /\ cycle' = [id |-> cycles + 1, screen |-> place, snapshot |-> shown, bundles |-> {b}, open |-> TRUE]
        /\ remaining' = [remaining EXCEPT ![b] = @ - 1]
    BY <1>1 DEF OpenCycle, Enqueue, Spent
  <2>2. cycle = NoCycle BY <2>1 DEF IInv, CycleInv
  <2>3. cycle' # NoCycle BY <1>1, OpenedCycle
  <2>4. Asked = {} /\ Asked' = {b} /\ Seen' = Seen BY <2>1, <2>2, <2>3 DEF Asked, Seen
  <2>5. ~Making /\ ~Over /\ ~Making' /\ ~Over' BY <2>1, <2>3 DEF Making, Over
  <2>6. b \in Bundles \ Asked /\ Asked' = Asked \cup {b} BY <2>4
  <2>7. UNCHANGED <<Result, Worth>> BY <2>4, SameSeen
  <2>8. UNCHANGED <<Making, Over>> BY <2>5, SameFlags
  <2> QED BY <2>1, <2>5, <2>6, <2>7, <2>8 DEF PromiseStep
<1>2. CASE ExtendCycle(b)
  <2>1. /\ cycle # NoCycle /\ progress' = "run" /\ remaining[b] > 0 /\ b \notin cycle.bundles
        /\ cycle' = [cycle EXCEPT !.bundles = @ \cup {b}]
        /\ remaining' = [remaining EXCEPT ![b] = @ - 1]
    BY <1>2 DEF ExtendCycle, Enqueue, Spent, Collecting
  <2>2. cycle \in Cycle BY <2>1, PhaseIsMarks
  <2>3. cycle' \in Cycle /\ cycle'.bundles = cycle.bundles \cup {b} /\ cycle'.snapshot = cycle.snapshot
    BY <2>1, <2>2 DEF Cycle
  <2>4. cycle' # NoCycle BY <2>3, ReworkAssumption DEF ReworkAssumption
  <2>5. Asked = cycle.bundles /\ Seen = cycle.snapshot /\ ~Making /\ ~Over BY <2>1, AskedIs
  <2>6. Asked' = Asked \cup {b} /\ Seen' = Seen BY <2>3, <2>4, <2>5 DEF Asked, Seen
  <2>7. ~Making' /\ ~Over' BY <2>1, <2>4 DEF Making, Over
  <2>8. b \in Bundles \ Asked BY <2>1, <2>5
  <2>9. UNCHANGED <<Result, Worth>> BY <2>6, SameSeen
  <2>10. UNCHANGED <<Making, Over>> BY <2>5, <2>7, SameFlags
  <2> QED BY <2>1, <2>5, <2>6, <2>8, <2>9, <2>10 DEF PromiseStep
<1> QED BY <1>1, <1>2

LEMMA CollectEndsHidden == ASSUME IInv, CollectEnds PROVE PromiseStep
<1>1. /\ cycle # NoCycle /\ cycle' = [cycle EXCEPT !.open = FALSE]
      /\ UNCHANGED <<progress, shown, remaining>>
  BY DEF CollectEnds, Collecting
<1>2. cycle \in Cycle BY <1>1, PhaseIsMarks
<1>3. cycle' \in Cycle /\ cycle'.bundles = cycle.bundles /\ cycle'.snapshot = cycle.snapshot
  BY <1>1, <1>2 DEF Cycle
<1>4. cycle' # NoCycle BY <1>3, ReworkAssumption DEF ReworkAssumption
<1>5. Seen' = Seen /\ UNCHANGED <<Asked, Making, Over>>
  BY <1>1, <1>3, <1>4 DEF Seen, Asked, Making, Over
<1> QED BY <1>1, <1>5, SameSeen DEF PromiseStep

\* A rework is all or nothing: the user sees the old result until it is over,
\* then the whole new one when it is worth no less, or the old one again with
\* every chance given back (compare_and_keep, rollback_cycle, _use_bundles).
THEOREM ImplementsPromise == Spec => ReworkIsAllOrNothing
<1>1. ASSUME Init PROVE Promise!Init
  BY <1>1 DEF Init, Promise!Init
<1>2. ASSUME IInv, [Next]_vars PROVE PromiseStep
  <2>1. CASE Write \/ Build \/ CycleEnd \/ Deliver
    <3>1. Stay /\ progress = "run"
      BY <2>1 DEF Write, WriteSections, DrawImages, MakeTables, MergePlan, VerifyPlan, JudgePlan,
                  Build, BuildHtml, BuildInfographic, WrapInfographic, WriteReadme, AttachReadme,
                  VerifyProduct, JudgeAll, CycleEnd, Deliver, Step, Working
    <3> QED BY <1>2, <3>1, WorkIsHidden
  <2>2. CASE SegmentEnds BY <1>2, <2>2, SegmentEndsReplaces
  <2>3. CASE ReworkFails BY <1>2, <2>3, ReworkFailsGivesBack
  <2>4. CASE RunFails BY <1>2, <2>4, StopIsSeen
  <2>5. CASE Command BY <1>2, <2>5, StopIsSeen, BeginIsSeen, AskIsSeen DEF Command
  <2>6. CASE CollectEnds BY <1>2, <2>6, CollectEndsHidden
  <2>7. CASE UNCHANGED vars
    BY <2>7 DEF vars, PromiseStep, Asked, Result, Worth, Making, Over, Seen, LayerTotal
  <2> QED BY <1>2, <2>1, <2>2, <2>3, <2>4, <2>5, <2>6, <2>7 DEF Next, Work
<1>3. IInv /\ [Next]_vars => [Promise!Next]_(Promise!promiseVars) BY <1>2, PromiseSteps
<1> QED BY <1>1, <1>3, Invariant, PTL DEF Spec, ReworkIsAllOrNothing, Promise!Spec
=============================================================================
