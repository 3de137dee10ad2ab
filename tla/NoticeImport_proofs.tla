------------------------ MODULE NoticeImport_proofs ------------------------
(***************************************************************************)
(* What NoticeImport guarantees for any number of announcements, any page  *)
(* size and any number of runs.  Typed is the invariant all of it rests    *)
(* on; Fresh orders the files by age; Counted says what the rows of a list *)
(* that moves between its pages can be at all, Whole what they can be if   *)
(* the server is orderly, and Listing what the run makes of both.          *)
(***************************************************************************)
EXTENDS NoticeImport, SequenceTheorems, FiniteSetTheorems, TLAPS

-----------------------------------------------------------------------------
(* The list: a sequence in which an announcement is at most once *)

Once(s) == \A i, j \in 1..Len(s) : s[i] = s[j] => i = j

LEMMA RemoveFacts ==
  ASSUME NEW S, NEW s \in Seq(S), NEW i \in 1..Len(s)
  PROVE  /\ Without(s, i) \in Seq(S) /\ Len(Without(s, i)) = Len(s) - 1
         /\ \A j \in 1..(Len(s) - 1) : Without(s, i)[j] = IF j < i THEN s[j] ELSE s[j + 1]
<1> DEFINE a == SubSeq(s, 1, i - 1)
           b == SubSeq(s, i + 1, Len(s))
<1>0. Len(s) \in Nat /\ \A k \in 1..Len(s) : s[k] \in S BY ElementOfSeq
<1>1. a \in Seq(S) /\ Len(a) = i - 1 /\ \A j \in 1..(i - 1) : a[j] = s[j]
  <2>1. \A k \in 1..(i - 1) : s[k] \in S BY <1>0
  <2>2. /\ a \in Seq(S) /\ Len(a) = (IF 1 <= i - 1 THEN i - 1 - 1 + 1 ELSE 0)
        /\ \A j \in 1..(i - 1 - 1 + 1) : a[j] = s[1 + j - 1]
    BY <1>0, <2>1, SubSeqProperties
  <2> QED BY <1>0, <2>2
<1>2. b \in Seq(S) /\ Len(b) = Len(s) - i /\ \A j \in 1..(Len(s) - i) : b[j] = s[i + j]
  <2>1. \A k \in (i + 1)..Len(s) : s[k] \in S BY <1>0
  <2>2. /\ b \in Seq(S) /\ Len(b) = (IF i + 1 <= Len(s) THEN Len(s) - (i + 1) + 1 ELSE 0)
        /\ \A j \in 1..(Len(s) - (i + 1) + 1) : b[j] = s[i + 1 + j - 1]
    BY <1>0, <2>1, SubSeqProperties
  <2> QED BY <1>0, <2>2
<1> HIDE DEF a, b
<1>3. /\ a \o b \in Seq(S) /\ Len(a \o b) = Len(a) + Len(b)
      /\ \A j \in 1..(Len(a) + Len(b)) : (a \o b)[j] = IF j <= Len(a) THEN a[j] ELSE b[j - Len(a)]
  BY <1>1, <1>2, ConcatProperties
<1>4. Without(s, i) = a \o b BY DEF Without, a, b
<1>5. Len(a) + Len(b) = Len(s) - 1 BY <1>0, <1>1, <1>2
<1>6. ASSUME NEW j \in 1..(Len(s) - 1) PROVE (a \o b)[j] = IF j < i THEN s[j] ELSE s[j + 1]
  <2>1. CASE j < i BY <1>0, <1>1, <1>3, <1>5, <2>1
  <2>2. CASE j >= i
    <3>1. j - Len(a) \in 1..(Len(s) - i) /\ i + (j - Len(a)) = j + 1 /\ ~(j <= Len(a)) BY <1>0, <1>1, <2>2
    <3>2. (a \o b)[j] = b[j - Len(a)] BY <1>3, <1>5, <3>1
    <3>3. ~(j < i) BY <1>0, <2>2
    <3>4. b[j - Len(a)] = s[i + (j - Len(a))] BY <1>2, <3>1
    <3> QED BY <3>1, <3>2, <3>3, <3>4
  <2>3. j < i \/ j >= i BY <1>0
  <2> QED BY <2>1, <2>2, <2>3
<1> QED BY <1>3, <1>4, <1>5, <1>6

LEMMA PrependFacts ==
  ASSUME NEW S, NEW s \in Seq(S), NEW e \in S
  PROVE  /\ <<e>> \o s \in Seq(S) /\ Len(<<e>> \o s) = Len(s) + 1
         /\ \A j \in 1..(Len(s) + 1) : (<<e>> \o s)[j] = IF j = 1 THEN e ELSE s[j - 1]
<1>1. <<e>> \in Seq(S) /\ Len(<<e>>) = 1 /\ <<e>>[1] = e OBVIOUS
<1>2. Len(s) \in Nat OBVIOUS
<1>3. /\ <<e>> \o s \in Seq(S) /\ Len(<<e>> \o s) = 1 + Len(s)
      /\ \A j \in 1..(1 + Len(s)) : (<<e>> \o s)[j] = IF j <= 1 THEN <<e>>[j] ELSE s[j - 1]
  BY <1>1, ConcatProperties
<1> QED BY <1>1, <1>2, <1>3

LEMMA InsertFacts ==
  ASSUME NEW S, NEW s \in Seq(S), NEW i \in 0..Len(s), NEW e \in S
  PROVE  /\ With(s, i, e) \in Seq(S) /\ Len(With(s, i, e)) = Len(s) + 1
         /\ \A j \in 1..(Len(s) + 1) :
              With(s, i, e)[j] = IF j <= i THEN s[j] ELSE IF j = i + 1 THEN e ELSE s[j - 1]
<1> DEFINE a == SubSeq(s, 1, i)
           b == SubSeq(s, i + 1, Len(s))
<1>0. Len(s) \in Nat /\ \A k \in 1..Len(s) : s[k] \in S BY ElementOfSeq
<1>1. a \in Seq(S) /\ Len(a) = i /\ \A j \in 1..i : a[j] = s[j]
  <2>1. \A k \in 1..i : s[k] \in S BY <1>0
  <2>2. /\ a \in Seq(S) /\ Len(a) = (IF 1 <= i THEN i - 1 + 1 ELSE 0)
        /\ \A j \in 1..(i - 1 + 1) : a[j] = s[1 + j - 1]
    BY <1>0, <2>1, SubSeqProperties
  <2> QED BY <1>0, <2>2
<1>2. b \in Seq(S) /\ Len(b) = Len(s) - i /\ \A j \in 1..(Len(s) - i) : b[j] = s[i + j]
  <2>1. \A k \in (i + 1)..Len(s) : s[k] \in S BY <1>0
  <2>2. /\ b \in Seq(S) /\ Len(b) = (IF i + 1 <= Len(s) THEN Len(s) - (i + 1) + 1 ELSE 0)
        /\ \A j \in 1..(Len(s) - (i + 1) + 1) : b[j] = s[i + 1 + j - 1]
    BY <1>0, <2>1, SubSeqProperties
  <2> QED BY <1>0, <2>2
<1>3. <<e>> \o b \in Seq(S) /\ Len(<<e>> \o b) = Len(b) + 1
      /\ \A j \in 1..(Len(b) + 1) : (<<e>> \o b)[j] = IF j = 1 THEN e ELSE b[j - 1]
  BY <1>2, PrependFacts
<1> DEFINE c == <<e>> \o b
<1> HIDE DEF a, b, c
<1>4. c \in Seq(S) /\ Len(c) = Len(b) + 1 /\ \A j \in 1..(Len(b) + 1) : c[j] = IF j = 1 THEN e ELSE b[j - 1]
  BY <1>3 DEF c
<1>5. /\ a \o c \in Seq(S) /\ Len(a \o c) = Len(a) + Len(c)
      /\ \A j \in 1..(Len(a) + Len(c)) : (a \o c)[j] = IF j <= Len(a) THEN a[j] ELSE c[j - Len(a)]
  BY <1>1, <1>4, ConcatProperties
<1>6. With(s, i, e) = a \o c
  <2>1. With(s, i, e) = (a \o <<e>>) \o b BY DEF With, a, b
  <2>2. <<e>> \in Seq(S) OBVIOUS
  <2> QED BY <1>1, <1>2, <2>1, <2>2, ConcatAssociative DEF c
<1>7. Len(a) + Len(c) = Len(s) + 1 BY <1>0, <1>1, <1>2, <1>4
<1>8. ASSUME NEW j \in 1..(Len(s) + 1)
      PROVE  (a \o c)[j] = IF j <= i THEN s[j] ELSE IF j = i + 1 THEN e ELSE s[j - 1]
  <2>0. (a \o c)[j] = IF j <= i THEN a[j] ELSE c[j - i] BY <1>1, <1>5, <1>7
  <2>1. CASE j <= i BY <1>0, <1>1, <2>0, <2>1
  <2>2. CASE j = i + 1
    <3>1. ~(j <= i) /\ j - i = 1 /\ 1 \in 1..(Len(b) + 1) BY <1>0, <1>2, <2>2
    <3> QED BY <1>4, <2>0, <2>2, <3>1
  <2>3. CASE j > i + 1
    <3>1. /\ ~(j <= i) /\ j # i + 1 /\ j - i \in 1..(Len(b) + 1) /\ j - i # 1
          /\ (j - i) - 1 \in 1..(Len(s) - i) /\ i + ((j - i) - 1) = j - 1
      BY <1>0, <1>2, <2>3
    <3>2. c[j - i] = b[(j - i) - 1] BY <1>4, <3>1
    <3>3. b[(j - i) - 1] = s[j - 1] BY <1>2, <3>1
    <3> QED BY <2>0, <3>1, <3>2, <3>3
  <2>4. j <= i \/ j = i + 1 \/ j > i + 1 BY <1>0
  <2> QED BY <2>1, <2>2, <2>3, <2>4
<1> QED BY <1>5, <1>6, <1>7, <1>8

LEMMA WithFront == ASSUME NEW S, NEW s \in Seq(S), NEW e \in S PROVE With(s, 0, e) = <<e>> \o s
<1>1. SubSeq(s, 1, 0) = <<>> /\ SubSeq(s, 0 + 1, Len(s)) = s OBVIOUS
<1>2. <<>> \o <<e>> = <<e>> OBVIOUS
<1> QED BY <1>1, <1>2 DEF With

LEMMA IdsOfSeq ==
  ASSUME NEW s \in Seq(Listed) PROVE IdsOf(s) \subseteq Listed /\ Len(s) \in Nat
BY ElementOfSeq DEF IdsOf

LEMMA OnceKept ==
  ASSUME NEW s \in Seq(Listed), Once(s)
  PROVE  /\ \A n \in Listed \ IdsOf(s) : \A i \in 0..Len(s) : Once(With(s, i, n))
         /\ \A i \in 1..Len(s) : Once(Without(s, i)) /\ IdsOf(Without(s, i)) = IdsOf(s) \ {s[i]}
<1>0. Len(s) \in Nat OBVIOUS
<1>1. ASSUME NEW n \in Listed \ IdsOf(s), NEW k \in 0..Len(s) PROVE Once(With(s, k, n))
  <2> DEFINE t == With(s, k, n)
  <2>1. /\ Len(t) = Len(s) + 1
        /\ \A j \in 1..(Len(s) + 1) : t[j] = IF j <= k THEN s[j] ELSE IF j = k + 1 THEN n ELSE s[j - 1]
    BY InsertFacts
  <2> HIDE DEF t
  <2>2. \A j \in 1..Len(s) : s[j] # n BY DEF IdsOf
  <2>3. ASSUME NEW i \in 1..(Len(s) + 1), NEW j \in 1..(Len(s) + 1), t[i] = t[j], i < j PROVE FALSE
    <3> DEFINE p == IF i <= k THEN i ELSE i - 1
               q == IF j <= k THEN j ELSE j - 1
    <3>1. i # k + 1 => p \in 1..Len(s) /\ t[i] = s[p] BY <1>0, <2>1
    <3>2. j # k + 1 => q \in 1..Len(s) /\ t[j] = s[q] BY <1>0, <2>1
    <3>3. i = k + 1 => t[i] = n BY <1>0, <2>1
    <3>4. j = k + 1 => t[j] = n BY <1>0, <2>1
    <3>5. i # k + 1 /\ j # k + 1 => p # q BY <1>0, <2>3
    <3>6. i # j BY <1>0, <2>3
    <3> HIDE DEF p, q
    <3>7. CASE i = k + 1 \/ j = k + 1 BY <2>2, <2>3, <3>1, <3>2, <3>3, <3>4, <3>6, <3>7
    <3>8. CASE i # k + 1 /\ j # k + 1 BY <2>3, <3>1, <3>2, <3>5, <3>8 DEF Once
    <3> QED BY <3>7, <3>8
  <2>4. \A i, j \in 1..(Len(s) + 1) : i < j \/ j < i \/ i = j BY <1>0
  <2> QED BY <2>1, <2>3, <2>4 DEF Once, t
<1>2. ASSUME NEW i \in 1..Len(s)
      PROVE  Once(Without(s, i)) /\ IdsOf(Without(s, i)) = IdsOf(s) \ {s[i]}
  <2> DEFINE t == Without(s, i)
  <2>1. Len(t) = Len(s) - 1 /\ \A j \in 1..(Len(s) - 1) : t[j] = IF j < i THEN s[j] ELSE s[j + 1]
    BY RemoveFacts
  <2> HIDE DEF t
  <2>2. Once(t) BY <1>0, <2>1 DEF Once
  <2>3. ASSUME NEW j \in 1..Len(t) PROVE t[j] \in IdsOf(s) \ {s[i]}
    <3>1. CASE j < i
      <4>1. j \in 1..Len(s) /\ j # i /\ t[j] = s[j] BY <1>0, <2>1, <3>1
      <4> QED BY <4>1 DEF Once, IdsOf
    <3>2. CASE ~(j < i)
      <4>1. j + 1 \in 1..Len(s) /\ j + 1 # i /\ t[j] = s[j + 1] BY <1>0, <2>1, <3>2
      <4> QED BY <4>1 DEF Once, IdsOf
    <3> QED BY <3>1, <3>2
  <2>4. ASSUME NEW k \in 1..Len(s), s[k] # s[i] PROVE s[k] \in IdsOf(t)
    <3>1. CASE k < i
      <4>1. k \in 1..Len(t) /\ t[k] = s[k] BY <1>0, <2>1, <3>1
      <4> QED BY <4>1 DEF IdsOf
    <3>2. CASE k > i
      <4>1. k - 1 \in 1..Len(t) /\ ~(k - 1 < i) /\ (k - 1) + 1 = k BY <1>0, <2>1, <3>2
      <4>2. t[k - 1] = s[k] BY <2>1, <4>1
      <4> QED BY <4>1, <4>2 DEF IdsOf
    <3>3. k < i \/ k > i BY <1>0, <2>4
    <3> QED BY <3>1, <3>2, <3>3
  <2>5. IdsOf(t) \subseteq IdsOf(s) \ {s[i]} BY <2>3 DEF IdsOf
  <2>6. IdsOf(s) \ {s[i]} \subseteq IdsOf(t) BY <2>4 DEF IdsOf
  <2> QED BY <2>2, <2>5, <2>6 DEF t
<1> QED BY <1>1, <1>2

LEMMA ListedFinite == \A S \in SUBSET Listed : IsFiniteSet(S) /\ Cardinality(S) \in Nat
<1>1. IsFiniteSet(Listed) BY ImportAssumption, FS_Subset DEF ImportAssumption, Notices
<1> QED BY <1>1, FS_Subset, FS_CardinalityType

\* As many announcements as rows: none of them twice.
LEMMA OnceIffFull ==
  ASSUME NEW s \in Seq(Listed)
  PROVE  Once(s) <=> Cardinality(IdsOf(s)) = Len(s)
<1>0. Len(s) \in Nat /\ s \in [1..Len(s) -> IdsOf(s)] BY LenProperties DEF IdsOf
<1>1. s \in Surjection(1..Len(s), IdsOf(s)) BY <1>0 DEF Surjection, IdsOf
<1>2. IsFiniteSet(1..Len(s)) /\ Cardinality(1..Len(s)) = Len(s) BY <1>0, FS_Interval
<1>3. Cardinality(IdsOf(s)) = Len(s) <=> s \in Injection(1..Len(s), IdsOf(s)) BY <1>1, <1>2, FS_Surjection
<1>4. s \in Injection(1..Len(s), IdsOf(s)) <=> Once(s) BY <1>0 DEF Injection, IsInjective, Once
<1> QED BY <1>3, <1>4

-----------------------------------------------------------------------------
(* Types *)

Snapshot == [ids : SUBSET Others, bad : BOOLEAN, fetch : 1..MaxRuns]

ListOK ==
  /\ list \in Seq(Listed) /\ Once(list)
  /\ steady \subseteq first /\ first \subseteq Listed /\ absent \subseteq Listed \ first
  /\ drift \in Nat /\ inFront \in BOOLEAN

\* No snapshot is of a later run, and the run at work has one place for its own.
RawOK ==
  /\ raw \in Seq(Snapshot) /\ \A i \in 1..Len(raw) : raw[i].fetch <= runs
  /\ Len(raw) <= runs /\ (At("paging") \/ At("bizinfo") => Len(raw) < runs)

OutOK ==
  out \in [ids : SUBSET Listed, count : Nat, whole : BOOLEAN, fetch : 0..MaxRuns] /\ out.fetch <= runs

\* A run has one file, made by Normalize, with the list it leaves to Store.
FilesOK ==
  /\ \A f \in files :
       /\ f.stamp \in 1..MaxRuns /\ f.stamp <= runs
       /\ DOMAIN f.fetch \subseteq Notices /\ \A n \in DOMAIN f.fetch : f.fetch[n] \in 0..MaxRuns
       /\ At("paging") \/ At("bizinfo") \/ At("normalize") => f.stamp < runs
       /\ At("store") /\ f.stamp = runs => DOMAIN f.fetch \cap Listed = out.ids
  /\ \A f, g \in files : f.stamp = g.stamp => f = g

\* A row that is open comes from a file that has it.
RowsOK ==
  /\ row \in [Notices -> Row]
  /\ \A n \in Notices :
       /\ row[n].stamp <= runs /\ (row[n].status = "none" => row[n].stamp = 0)
       /\ row[n].status = "open" => \E f \in files : f.stamp = row[n].stamp /\ n \in DOMAIN f.fetch

PipeOK ==
  /\ pipe \in Pipeline
  /\ At("paging") => pipe.page >= 2
  /\ ~At("idle") => runs \in 1..MaxRuns
  /\ At("normalize") => pipe.input <= Len(raw)
  /\ At("store") => pipe.stamp = runs /\ \E f \in files : f.stamp = pipe.stamp

BoundsOK == runs \in 0..MaxRuns /\ changes \in 0..MaxChanges /\ faults \in 0..MaxFaults

Typed == ListOK /\ RawOK /\ OutOK /\ FilesOK /\ RowsOK /\ PipeOK /\ BoundsOK

LEMMA TypedTypes == Typed => TypeOK
<1> SUFFICES ASSUME Typed PROVE TypeOK OBVIOUS
<1>1. IdsOf(list) \subseteq Listed BY IdsOfSeq DEF Typed, ListOK
<1>2. \A i \in 1..Len(raw) : raw[i] \in Snapshot BY ElementOfSeq DEF Typed, RawOK
<1> QED BY <1>1, <1>2 DEF Typed, TypeOK, ListOK, RawOK, OutOK, FilesOK, RowsOK, PipeOK, BoundsOK, Snapshot

LEMMA IdleTypes == Idle \in Pipeline /\ Idle.at = "idle"
BY ImportAssumption DEF Idle, Pipeline, ImportAssumption

LEMMA InitTyped == Init => Typed
<1> SUFFICES ASSUME Init PROVE Typed OBVIOUS
<1> USE ImportAssumption DEF ImportAssumption, Init
<1>1. ListOK
  <2>1. PICK m \in 0..Cardinality(Listed) : list \in [1..m -> Listed] /\ IsInjective(list) BY ListedFinite
  <2>2. m \in Nat BY ListedFinite
  <2>3. list \in Seq(Listed) /\ Len(list) = m BY <2>1, <2>2
  <2> QED BY <2>1, <2>3 DEF ListOK, Once, IsInjective
<1>2. RawOK BY IdleTypes DEF RawOK, At
<1>3. OutOK BY DEF OutOK, Nothing
<1>4. FilesOK BY DEF FilesOK
<1>5. RowsOK BY DEF RowsOK, Row
<1>6. PipeOK BY IdleTypes DEF PipeOK, At
<1>7. BoundsOK BY DEF BoundsOK
<1> QED BY <1>1, <1>2, <1>3, <1>4, <1>5, <1>6, <1>7 DEF Typed

\* A page holds the list from one place on.
Start(k) == (k - 1) * PageSize

LEMMA PageFacts ==
  ASSUME list \in Seq(Listed), NEW k \in Nat \ {0}
  PROVE  /\ Page(k) \in Seq(Listed) /\ Start(k) \in Nat
         /\ \A j \in 1..Len(Page(k)) :
              Start(k) + j \in 1..Len(list) /\ j <= PageSize /\ Page(k)[j] = list[Start(k) + j]
         /\ \A j \in 1..PageSize : Start(k) + j <= Len(list) => j <= Len(Page(k))
<1> DEFINE n == IF k * PageSize < Len(list) THEN k * PageSize ELSE Len(list)
<1>0. Len(list) \in Nat /\ PageSize \in Nat \ {0} BY ImportAssumption DEF ImportAssumption
<1>1. Start(k) \in Nat /\ k * PageSize = Start(k) + PageSize
  <2>1. k - 1 \in Nat OBVIOUS
  <2>2. \A a, b \in Nat : a * b \in Nat OBVIOUS
  <2>3. \A a, b \in Int : a * b = (a - 1) * b + b OBVIOUS
  <2> QED BY <1>0, <2>1, <2>2, <2>3 DEF Start
<1>2. n \in Nat /\ n <= Len(list) /\ n <= Start(k) + PageSize BY <1>0, <1>1
<1>3. Page(k) = SubSeq(list, Start(k) + 1, n) BY DEF Page, Start
<1>4. \A i \in (Start(k) + 1)..n : list[i] \in Listed
  <2>1. \A i \in (Start(k) + 1)..n : i \in 1..Len(list) BY <1>0, <1>1, <1>2
  <2> QED BY <2>1, ElementOfSeq
<1>5. Start(k) + 1 \in Int /\ n \in Int BY <1>1, <1>2
<1> HIDE DEF n
<1>6. /\ Page(k) \in Seq(Listed)
      /\ Len(Page(k)) = IF Start(k) + 1 <= n THEN n - (Start(k) + 1) + 1 ELSE 0
      /\ \A i \in 1..(n - (Start(k) + 1) + 1) : Page(k)[i] = list[Start(k) + 1 + i - 1]
  BY <1>3, <1>4, <1>5, SubSeqProperties
<1>7. /\ \A j \in 1..Len(Page(k)) : j \in 1..(n - (Start(k) + 1) + 1) /\ Start(k) + 1 + j - 1 = Start(k) + j
      /\ \A j \in 1..Len(Page(k)) : Start(k) + j \in 1..Len(list) /\ j <= PageSize
  <2> SUFFICES ASSUME NEW j \in 1..Len(Page(k))
               PROVE  /\ j \in 1..(n - (Start(k) + 1) + 1) /\ Start(k) + 1 + j - 1 = Start(k) + j
                      /\ Start(k) + j \in 1..Len(list) /\ j <= PageSize
    OBVIOUS
  <2>1. Start(k) + 1 <= n /\ Len(Page(k)) = n - Start(k) BY <1>1, <1>2, <1>6
  <2>2. \A a, b, l, z, i \in Nat : i \in 1..(a - b) /\ a <= l /\ a <= b + z =>
          /\ i \in 1..(a - (b + 1) + 1) /\ b + 1 + i - 1 = b + i
          /\ b + i \in 1..l /\ i <= z
    OBVIOUS
  <2>3. n \in Nat /\ Start(k) \in Nat /\ Len(list) \in Nat /\ PageSize \in Nat BY <1>0, <1>1, <1>2
  <2>4. j \in 1..(n - Start(k)) BY <2>1
  <2>5. j \in Nat BY <2>3, <2>4
  <2> QED BY <1>2, <2>2, <2>3, <2>4, <2>5
<1>8. \A j \in 1..PageSize : Start(k) + j <= Len(list) => Start(k) + j <= n BY <1>0, <1>1 DEF n
<1>9. \A j \in 1..PageSize : Start(k) + j <= Len(list) => j <= Len(Page(k)) BY <1>0, <1>1, <1>2, <1>6, <1>8
<1> QED BY <1>1, <1>6, <1>7, <1>9

\* What an action that leaves the files and rows alone keeps of them.
LEMMA DataKept ==
  ASSUME FilesOK, RowsOK, UNCHANGED <<files, row>>, runs <= runs', runs \in Nat, runs' \in Nat,
         At("paging")' \/ At("bizinfo")' \/ At("normalize")' =>
           runs < runs' \/ At("paging") \/ At("bizinfo") \/ At("normalize"),
         At("store")' => runs' = runs /\ out' = out /\ At("store")
  PROVE  FilesOK' /\ RowsOK'
<1>1. FilesOK' BY ImportAssumption DEF FilesOK, ImportAssumption
<1>2. RowsOK'
  <2>1. \A n \in Notices : row[n].stamp \in Nat /\ row'[n] = row[n]
    BY ImportAssumption DEF RowsOK, Row, ImportAssumption
  <2> QED BY <2>1 DEF RowsOK
<1> QED BY <1>1, <1>2

\* What may happen at the server: the list changes, and in front only if inFront stays.
Server ==
  \/ \E n \in Listed, i \in 0..Len(list) : Announce(n, i)
  \/ \E i \in 1..Len(list) : Close(i)
  \/ \E i \in 1..Len(list), j \in 0..(Len(list) - 1) : Move(i, j)

InFront(l) == (\E n \in Listed : l = <<n>> \o list) \/ (\E i \in 1..Len(list) : l = Without(list, i))

LEMMA ServerSteps ==
  ASSUME Typed, Server
  PROVE  \E l \in Seq(Listed) :
           /\ Once(l) /\ Changed(l) /\ inFront' \in BOOLEAN
           /\ At("paging") /\ inFront' => inFront /\ InFront(l)
<1>0. list \in Seq(Listed) /\ Once(list) /\ Len(list) \in Nat /\ inFront \in BOOLEAN BY DEF Typed, ListOK
<1>1. ASSUME NEW n \in Listed, NEW i \in 0..Len(list), Announce(n, i)
      PROVE  \E l \in Seq(Listed) :
               /\ Once(l) /\ Changed(l) /\ inFront' \in BOOLEAN
               /\ At("paging") /\ inFront' => inFront /\ InFront(l)
  <2>1. n \in Listed \ IdsOf(list) /\ Changed(With(list, i, n)) BY <1>1 DEF Announce
  <2>2. inFront' = (inFront /\ (At("paging") => i = 0)) BY <1>1 DEF Announce
  <2>3. With(list, i, n) \in Seq(Listed) /\ Once(With(list, i, n)) BY <1>0, <2>1, InsertFacts, OnceKept
  <2>4. i = 0 => InFront(With(list, i, n)) BY <1>0, WithFront DEF InFront
  <2> QED BY <1>0, <2>1, <2>2, <2>3, <2>4
<1>2. ASSUME NEW i \in 1..Len(list), Close(i)
      PROVE  \E l \in Seq(Listed) :
               /\ Once(l) /\ Changed(l) /\ inFront' \in BOOLEAN
               /\ At("paging") /\ inFront' => inFront /\ InFront(l)
  <2>1. Without(list, i) \in Seq(Listed) /\ Once(Without(list, i)) BY <1>0, RemoveFacts, OnceKept
  <2> QED BY <1>0, <1>2, <2>1 DEF Close, InFront
<1>3. ASSUME NEW i \in 1..Len(list), NEW j \in 0..(Len(list) - 1), Move(i, j)
      PROVE  \E l \in Seq(Listed) :
               /\ Once(l) /\ Changed(l) /\ inFront' \in BOOLEAN
               /\ At("paging") /\ inFront' => inFront /\ InFront(l)
  <2> DEFINE t == Without(list, i)
  <2>1. t \in Seq(Listed) /\ Once(t) /\ Len(t) = Len(list) - 1 /\ IdsOf(t) = IdsOf(list) \ {list[i]}
    BY <1>0, RemoveFacts, OnceKept
  <2>2. list[i] \in Listed \ IdsOf(t) BY <1>0, <2>1, ElementOfSeq
  <2>3. Changed(With(t, j, list[i])) /\ inFront' = (inFront /\ ~At("paging")) BY <1>3 DEF Move
  <2> HIDE DEF t
  <2>4. With(t, j, list[i]) \in Seq(Listed) /\ Once(With(t, j, list[i]))
    BY <1>0, <2>1, <2>2, InsertFacts, OnceKept
  <2> QED BY <1>0, <2>3, <2>4
<1> QED BY <1>1, <1>2, <1>3 DEF Server

LEMMA ServerTyped == ASSUME Typed, Server PROVE Typed'
<1> USE ImportAssumption DEF ImportAssumption
<1>0. PICK l \in Seq(Listed) : Once(l) /\ Changed(l) /\ inFront' \in BOOLEAN BY ServerSteps
<1>1. UNCHANGED pipe BY <1>0 DEF Changed
<1>2. ListOK' BY <1>0 DEF Typed, ListOK, Changed
<1>3. RawOK' /\ OutOK' BY <1>0, <1>1 DEF Typed, RawOK, OutOK, Changed, fetched, At
<1>4. PipeOK' BY <1>0, <1>1 DEF Typed, PipeOK, Changed, At, fetched
<1>5. BoundsOK' BY <1>0 DEF Typed, BoundsOK, Changed
<1>6. FilesOK' /\ RowsOK' BY <1>0, <1>1, DataKept DEF Typed, BoundsOK, Changed, At, fetched
<1> QED BY <1>2, <1>3, <1>4, <1>5, <1>6 DEF Typed

LEMMA RunsNat == MaxRuns \in Nat /\ (Typed => runs \in 0..MaxRuns /\ runs \in Nat)
BY ImportAssumption DEF Typed, BoundsOK, ImportAssumption

\* What the actions write into the record of the run.
LEMMA PipeTypes ==
  /\ \A g \in Seq(Listed), t \in Nat :
       [Idle EXCEPT !.at = "paging", !.got = g, !.total = t, !.page = 2] \in Pipeline
  /\ \A b \in BOOLEAN : [Idle EXCEPT !.at = "bizinfo", !.whole = b] \in Pipeline
  /\ [Idle EXCEPT !.at = "bizinfo"] \in Pipeline
  /\ \A p \in Pipeline, g \in Seq(Listed) : [p EXCEPT !.got = g, !.page = @ + 1] \in Pipeline
  /\ \A p \in Pipeline, i \in 0..MaxRuns : [p EXCEPT !.at = "normalize", !.input = i] \in Pipeline
  /\ \A p \in Pipeline, i \in 0..MaxRuns : [p EXCEPT !.at = "store", !.stamp = i] \in Pipeline
<1>1. ASSUME NEW g \in Seq(Listed), NEW t \in Nat
      PROVE  [Idle EXCEPT !.at = "paging", !.got = g, !.total = t, !.page = 2] \in Pipeline
  BY IdleTypes, RunsNat DEF Idle, Pipeline
<1>2. ASSUME NEW b \in BOOLEAN PROVE [Idle EXCEPT !.at = "bizinfo", !.whole = b] \in Pipeline
  BY IdleTypes, RunsNat DEF Idle, Pipeline
<1>3. [Idle EXCEPT !.at = "bizinfo"] \in Pipeline BY IdleTypes, RunsNat DEF Idle, Pipeline
<1>4. ASSUME NEW p \in Pipeline, NEW g \in Seq(Listed) PROVE [p EXCEPT !.got = g, !.page = @ + 1] \in Pipeline
  <2>1. p.page + 1 \in Nat BY DEF Pipeline
  <2> QED BY <2>1 DEF Pipeline
<1>5. ASSUME NEW p \in Pipeline, NEW i \in 0..MaxRuns
      PROVE  /\ [p EXCEPT !.at = "normalize", !.input = i] \in Pipeline
             /\ [p EXCEPT !.at = "store", !.stamp = i] \in Pipeline
  BY DEF Pipeline
<1> QED BY <1>1, <1>2, <1>3, <1>4, <1>5

\* A run begins.
LEMMA FirstPageTyped == ASSUME Typed, FirstPage PROVE Typed'
<1>1. list \in Seq(Listed) /\ runs \in Nat /\ runs' = runs + 1 /\ runs' \in 1..MaxRuns
  BY ImportAssumption DEF Typed, ListOK, BoundsOK, FirstPage, ImportAssumption
<1>2. Page(1) \in Seq(Listed) /\ Len(list) \in Nat BY <1>1, PageFacts
<1>3. pipe' \in Pipeline /\ pipe.at' = "paging" /\ pipe.page' = 2
  BY <1>2, PipeTypes DEF FirstPage, Idle
<1>4. ListOK' BY IdsOfSeq DEF Typed, ListOK, FirstPage
<1>5. RawOK'
  <2>1. Len(raw) \in Nat /\ Len(raw) <= runs /\ \A i \in 1..Len(raw) : raw[i] \in Snapshot /\ raw[i].fetch <= runs
    BY ElementOfSeq DEF Typed, RawOK
  <2>2. \A i \in 1..Len(raw) : raw[i].fetch \in Nat BY <2>1, RunsNat DEF Snapshot
  <2>3. Len(raw) <= runs + 1 /\ Len(raw) < runs + 1 /\ \A i \in 1..Len(raw) : raw[i].fetch <= runs + 1
    BY <1>1, <2>1, <2>2
  <2> QED BY <1>1, <2>3 DEF Typed, RawOK, FirstPage, fetched
<1>o. OutOK' BY <1>1, RunsNat DEF Typed, OutOK, FirstPage, fetched
<1>6. PipeOK' BY <1>1, <1>3 DEF PipeOK, At
<1>7. BoundsOK' BY <1>1 DEF Typed, BoundsOK, FirstPage
<1>8. FilesOK' /\ RowsOK' BY <1>1, <1>3, DataKept DEF Typed, FirstPage, At
<1> QED BY <1>4, <1>5, <1>o, <1>6, <1>7, <1>8 DEF Typed

\* A run goes on or ends; it fetches no snapshot, makes no file and changes no row.
LEMMA PipeMoves ==
  ASSUME Typed, UNCHANGED <<list, observers, raw, files, row, runs, changes>>, OutOK',
         faults' \in 0..MaxFaults, pipe' \in Pipeline, ~At("idle"),
         ~At("store")', At("paging")' => At("paging") /\ pipe.page' >= 2, At("bizinfo")' => At("paging"),
         At("normalize")' => (At("bizinfo") /\ pipe.input' <= Len(raw))
  PROVE  Typed'
<1>1. ListOK' BY DEF Typed, ListOK, observers
<1>2. RawOK' BY DEF Typed, RawOK
<1>3. PipeOK' BY DEF Typed, PipeOK, At
<1>4. BoundsOK' BY DEF Typed, BoundsOK
<1>5. runs \in Nat BY ImportAssumption DEF Typed, BoundsOK, ImportAssumption
<1>6. FilesOK' /\ RowsOK' BY <1>5, DataKept DEF Typed
<1> QED BY <1>1, <1>2, <1>3, <1>4, <1>6 DEF Typed

LEMMA FaultTyped == ASSUME Typed PROVE (Fault => faults' \in 0..MaxFaults) /\ faults \in 0..MaxFaults
BY ImportAssumption DEF Typed, BoundsOK, Fault, ImportAssumption

LEMMA NextPageTyped == ASSUME Typed, NextPage PROVE Typed'
<1>1. list \in Seq(Listed) /\ pipe \in Pipeline /\ At("paging")
  BY DEF Typed, ListOK, PipeOK, NextPage
<1>2. pipe.got \in Seq(Listed) /\ pipe.page \in Nat /\ pipe.page >= 2 BY <1>1 DEF Typed, PipeOK, Pipeline
<1>3. Page(pipe.page) \in Seq(Listed) BY <1>1, <1>2, PageFacts
<1>4. pipe.got \o Page(pipe.page) \in Seq(Listed) BY <1>2, <1>3, ConcatProperties
<1>5. pipe' \in Pipeline /\ pipe.at' = "paging" /\ pipe.page' >= 2
  <2>1. pipe' = [pipe EXCEPT !.got = pipe.got \o Page(pipe.page), !.page = @ + 1] BY DEF NextPage
  <2>2. pipe' \in Pipeline BY <1>1, <1>4, <2>1, PipeTypes
  <2>3. pipe.at' = pipe.at /\ pipe.page' = pipe.page + 1 BY <1>1, <2>1 DEF Pipeline
  <2> QED BY <1>1, <1>2, <2>2, <2>3 DEF At
<1>6. OutOK' BY DEF Typed, OutOK, NextPage, fetched
<1> QED BY <1>1, <1>5, <1>6, FaultTyped, PipeMoves DEF NextPage, At, fetched

LEMMA FetchTyped == ASSUME Typed, Accept \/ AcceptForced \/ Refuse \/ FetchFails PROVE Typed'
<1> USE IdleTypes
<1>0. At("paging") /\ runs \in 1..MaxRuns /\ pipe.got \in Seq(Listed)
  BY DEF Typed, PipeOK, Pipeline, Accept, AcceptForced, Refuse, FetchFails, At
<1>1. IdsOf(pipe.got) \subseteq Listed /\ Len(pipe.got) \in Nat BY <1>0, IdsOfSeq
<1>2. IsComplete(pipe.got, pipe.total) \in BOOLEAN BY DEF IsComplete
<1>3. OutOK'
  BY <1>0, <1>1, <1>2, ImportAssumption
  DEF Typed, OutOK, Accept, AcceptForced, Refuse, FetchFails, fetched, ImportAssumption
<1>4. pipe' \in Pipeline /\ pipe.at' = "bizinfo"
  BY <1>2, PipeTypes DEF Accept, AcceptForced, Refuse, FetchFails, Idle
<1>5. faults' \in 0..MaxFaults
  BY FaultTyped DEF Accept, AcceptForced, Refuse, FetchFails, Fetched, NoFault
<1>6. UNCHANGED <<list, observers, raw, files, row, runs, changes>>
  BY DEF Accept, AcceptForced, Refuse, FetchFails, fetched
<1> QED BY <1>0, <1>3, <1>4, <1>5, <1>6, PipeMoves DEF At

LEMMA StopTyped == ASSUME Typed, Crash \/ StoreRefused \/ StoreFails PROVE Typed'
<1>1. pipe' = Idle /\ ~At("idle") /\ UNCHANGED <<list, observers, raw, files, row, runs, changes>> /\ UNCHANGED out
  BY DEF Crash, StoreRefused, StoreFails, fetched, At
<1>2. faults' \in 0..MaxFaults BY FaultTyped DEF Crash, StoreRefused, StoreFails
<1>3. OutOK' BY <1>1 DEF Typed, OutOK
<1> QED BY <1>1, <1>2, <1>3, IdleTypes, PipeMoves DEF At

LEMMA BizinfoTyped == ASSUME Typed, FetchBizinfo \/ BizinfoFails PROVE Typed'
<1>0. At("bizinfo") /\ runs \in 1..MaxRuns /\ pipe \in Pipeline /\ raw \in Seq(Snapshot)
      /\ Len(raw) \in Nat /\ Len(raw) < runs /\ runs \in Nat /\ MaxRuns \in Nat /\ runs <= MaxRuns
  <2>1. At("bizinfo") BY DEF FetchBizinfo, BizinfoFails
  <2>2. raw \in Seq(Snapshot) /\ Len(raw) < runs /\ pipe \in Pipeline BY <2>1 DEF Typed, RawOK, PipeOK
  <2>3. runs \in Nat /\ MaxRuns \in Nat /\ runs <= MaxRuns BY RunsNat
  <2> QED BY <2>1, <2>2, <2>3
<1>1. CASE BizinfoFails
  <2>1. pipe' \in Pipeline /\ pipe.at' = "normalize" /\ pipe.input' = Len(raw)
    <3>1. pipe' = [pipe EXCEPT !.at = "normalize", !.input = Len(raw)] /\ Len(raw) \in 0..MaxRuns
      BY <1>0, <1>1 DEF BizinfoFails
    <3>2. pipe' \in Pipeline BY <1>0, <3>1, PipeTypes
    <3>3. pipe.at' = "normalize" /\ pipe.input' = Len(raw) BY <1>0, <3>1 DEF Pipeline
    <3> QED BY <3>2, <3>3 DEF Typed, PipeOK
  <2>2. OutOK' BY <1>1 DEF Typed, OutOK, BizinfoFails, fetched
  <2> QED BY <1>0, <1>1, <2>1, <2>2, FaultTyped, PipeMoves DEF BizinfoFails, At, fetched
<1>2. CASE FetchBizinfo
  <2>1. PICK S \in SUBSET Others \ {{}}, bad \in BOOLEAN :
          /\ IF bad THEN Fault ELSE NoFault
          /\ raw' = Append(raw, [ids |-> S, bad |-> bad, fetch |-> runs])
          /\ \E used \in {Len(raw), Len(raw) + 1} : pipe' = [pipe EXCEPT !.at = "normalize", !.input = used]
    BY <1>2 DEF FetchBizinfo
  <2> DEFINE new == [ids |-> S, bad |-> bad, fetch |-> runs]
  <2>2. new \in Snapshot /\ new.fetch = runs BY <1>0 DEF Snapshot
  <2>3. /\ raw' \in Seq(Snapshot) /\ Len(raw') = Len(raw) + 1
        /\ \A i \in 1..Len(raw') : raw'[i] = IF i <= Len(raw) THEN raw[i] ELSE new
    <3> HIDE DEF new
    <3> QED BY <1>0, <2>1, <2>2 DEF new
  <2>4. UNCHANGED <<list, out, files, row, observers, runs, changes>> BY <1>2 DEF FetchBizinfo
  <2>5. pipe' \in Pipeline /\ pipe.at' = "normalize" /\ pipe.input' <= Len(raw')
    <3>1. PICK used \in {Len(raw), Len(raw) + 1} : pipe' = [pipe EXCEPT !.at = "normalize", !.input = used]
      BY <2>1
    <3>2. used \in 0..MaxRuns /\ used <= Len(raw') BY <1>0, <2>3
    <3>3. pipe' \in Pipeline BY <1>0, <3>1, <3>2, PipeTypes
    <3>4. pipe.at' = "normalize" /\ pipe.input' = used BY <1>0, <3>1 DEF Pipeline
    <3> QED BY <3>2, <3>3, <3>4
  <2>6. ListOK' /\ OutOK' BY <2>4 DEF Typed, ListOK, OutOK, observers
  <2>7. RawOK'
    <3>1. \A i \in 1..Len(raw) : raw[i].fetch <= runs BY DEF Typed, RawOK
    <3>2. \A i \in 1..Len(raw') : raw'[i].fetch <= runs BY <1>0, <2>2, <2>3, <3>1
    <3> QED BY <1>0, <2>3, <2>4, <2>5, <3>2 DEF RawOK, At
  <2>8. PipeOK' BY <1>0, <2>4, <2>5 DEF Typed, PipeOK, At
  <2>9. BoundsOK' BY <2>1, <2>4, FaultTyped DEF Typed, BoundsOK, NoFault
  <2>10. FilesOK' /\ RowsOK' BY <1>0, <2>4, <2>5, DataKept DEF Typed, At
  <2> QED BY <2>6, <2>7, <2>8, <2>9, <2>10 DEF Typed
<1> QED BY <1>1, <1>2

\* When the snapshot used was fetched.
InputFetch == IF pipe.input = 0 THEN 0 ELSE raw[pipe.input].fetch

LEMMA NormalizedFacts ==
  ASSUME Typed, At("normalize"), NEW f, f = Normalized(pipe.input)
  PROVE  /\ f.stamp = runs /\ DOMAIN f.fetch \subseteq Notices /\ DOMAIN f.fetch \cap Listed = out.ids
         /\ \A n \in DOMAIN f.fetch : f.fetch[n] = IF n \in Listed THEN out.fetch ELSE InputFetch
         /\ out.fetch \in 0..MaxRuns /\ InputFetch \in 0..MaxRuns /\ out.fetch <= runs /\ InputFetch <= runs
<1>1. out.ids \subseteq Listed /\ out.fetch \in 0..MaxRuns /\ out.fetch <= runs BY DEF Typed, OutOK
<1>2. pipe.input \in Nat /\ pipe.input <= Len(raw) /\ Len(raw) \in Nat /\ raw \in Seq(Snapshot)
  BY RunsNat DEF Typed, PipeOK, Pipeline, RawOK
<1>3. CASE pipe.input = 0
  <2>1. f = [stamp |-> runs, bad |-> FALSE,
             fetch |-> [n \in out.ids \cup {} |-> IF n \in Listed THEN out.fetch ELSE 0]]
    BY <1>3 DEF Normalized
  <2> QED BY <1>1, <1>3, <2>1, RunsNat DEF InputFetch, Notices
<1>4. CASE pipe.input # 0
  <2> DEFINE b == raw[pipe.input]
  <2>1. pipe.input \in 1..Len(raw) BY <1>2, <1>4
  <2>2. b \in Snapshot /\ b.fetch <= runs BY <1>2, <2>1, ElementOfSeq DEF Typed, RawOK
  <2>3. b.ids \subseteq Others /\ b.fetch \in 0..MaxRuns BY <2>2, RunsNat DEF Snapshot
  <2>4. f = [stamp |-> runs, bad |-> b.bad,
             fetch |-> [n \in out.ids \cup b.ids |-> IF n \in Listed THEN out.fetch ELSE b.fetch]]
    BY <1>4 DEF Normalized
  <2>5. InputFetch = b.fetch BY <1>4 DEF InputFetch
  <2>6. Listed \cap Others = {} BY ImportAssumption DEF ImportAssumption
  <2> HIDE DEF b
  <2> QED BY <1>1, <2>2, <2>3, <2>4, <2>5, <2>6 DEF Notices
<1> QED BY <1>3, <1>4

LEMMA NormalizeTyped == ASSUME Typed, Normalize PROVE Typed'
<1>0. At("normalize") /\ UNCHANGED <<list, fetched, row, observers, runs, changes, faults>> BY DEF Normalize
<1>1. CASE out.fetch = 0 /\ pipe.input = 0
  <2>1. pipe' = Idle /\ UNCHANGED files BY <1>1 DEF Normalize
  <2>2. OutOK' BY <1>0 DEF Typed, OutOK, fetched
  <2> QED BY <1>0, <2>1, <2>2, IdleTypes, FaultTyped, PipeMoves DEF At, fetched
<1>2. CASE ~(out.fetch = 0 /\ pipe.input = 0)
  <2> DEFINE f == Normalized(pipe.input)
  <2>1. files' = files \cup {f} /\ pipe' = [pipe EXCEPT !.at = "store", !.stamp = runs]
    BY <1>2 DEF Normalize
  <2>2. /\ f.stamp = runs /\ DOMAIN f.fetch \subseteq Notices /\ DOMAIN f.fetch \cap Listed = out.ids
        /\ \A n \in DOMAIN f.fetch : f.fetch[n] \in 0..MaxRuns
    BY <1>0, NormalizedFacts
  <2> HIDE DEF f
  <2>3. runs \in 1..MaxRuns /\ runs \in Nat /\ pipe \in Pipeline BY <1>0, RunsNat DEF Typed, PipeOK, At
  <2>4. pipe' \in Pipeline
    <3>1. runs \in 0..MaxRuns BY RunsNat
    <3> QED BY <2>1, <2>3, <3>1, PipeTypes
  <2>5. pipe.at' = "store" /\ pipe.stamp' = runs BY <2>1, <2>3 DEF Pipeline
  <2>6. ListOK' /\ RawOK' /\ OutOK' BY <1>0, <2>5 DEF Typed, ListOK, RawOK, OutOK, observers, fetched, At
  <2>7. PipeOK' BY <1>0, <2>1, <2>2, <2>3, <2>4, <2>5 DEF Typed, PipeOK, At
  <2>8. BoundsOK' BY <1>0 DEF Typed, BoundsOK
  <2>9. FilesOK'
    <3>1. \A g \in files : g.stamp < runs /\ g.stamp # runs
      BY <1>0, <2>3 DEF Typed, FilesOK
    <3>2. out' = out /\ runs' = runs BY <1>0 DEF fetched
    <3>3. \A g \in files' : g \in files \/ g = f BY <2>1
    <3>4. ASSUME NEW g \in files'
          PROVE /\ g.stamp \in 1..MaxRuns /\ g.stamp <= runs
                /\ DOMAIN g.fetch \subseteq Notices /\ \A n \in DOMAIN g.fetch : g.fetch[n] \in 0..MaxRuns
                /\ g.stamp = runs => DOMAIN g.fetch \cap Listed = out.ids
      <4>1. CASE g \in files BY <3>1, <4>1 DEF Typed, FilesOK
      <4>2. CASE g = f BY <2>2, <2>3, <4>2
      <4> QED BY <3>3, <4>1, <4>2
    <3>5. \A g, h \in files' : g.stamp = h.stamp => g = h BY <2>2, <3>1, <3>3 DEF Typed, FilesOK
    <3>6. ~At("paging")' /\ ~At("bizinfo")' /\ ~At("normalize")' BY <2>5 DEF At
    <3> QED BY <3>2, <3>4, <3>5, <3>6 DEF FilesOK
  <2>10. RowsOK'
    <3>1. row' = row /\ runs' = runs /\ files \subseteq files' BY <1>0, <2>1
    <3> QED BY <3>1 DEF Typed, RowsOK
  <2> QED BY <2>6, <2>7, <2>8, <2>9, <2>10 DEF Typed
<1> QED BY <1>1, <1>2

\* What a file leaves in the table: each row is the old one or the file's.
LEMMA UpsertedFacts ==
  ASSUME Typed, NEW f \in files
  PROVE  /\ Upserted(f) \in [Notices -> Row]
         /\ \A n \in Notices :
              \/ Upserted(f)[n] = row[n] /\ (n \notin DOMAIN f.fetch \/ row[n].stamp > f.stamp)
              \/ /\ Upserted(f)[n] = [status |-> IF n \in Listed THEN "open" ELSE "unknown",
                                     stamp |-> f.stamp, fetch |-> f.fetch[n]]
                 /\ n \in DOMAIN f.fetch /\ row[n].stamp <= f.stamp
<1>0. /\ row \in [Notices -> Row] /\ \A n \in Notices : row[n].status = "none" => row[n].stamp = 0
      /\ f.stamp \in Nat /\ f.stamp \in 0..MaxRuns /\ \A n \in DOMAIN f.fetch : f.fetch[n] \in 0..MaxRuns
  BY RunsNat DEF Typed, RowsOK, FilesOK
<1>1. \A n \in Notices : row[n].stamp \in Nat BY <1>0, RunsNat DEF Row
<1>2. \A n \in Notices : Outdated(row[n], f) <=> row[n].stamp > f.stamp BY <1>0, <1>1 DEF Outdated
<1>3. \A n \in Notices : Upserted(f)[n] =
        IF n \notin DOMAIN f.fetch \/ Outdated(row[n], f) THEN row[n]
        ELSE [status |-> IF n \in Listed THEN "open" ELSE "unknown", stamp |-> f.stamp, fetch |-> f.fetch[n]]
  BY DEF Upserted
<1>4. ASSUME NEW n \in Notices PROVE Upserted(f)[n] \in Row
  <2>1. CASE n \notin DOMAIN f.fetch \/ Outdated(row[n], f) BY <1>0, <1>3, <2>1
  <2>2. CASE ~(n \notin DOMAIN f.fetch \/ Outdated(row[n], f))
    <3>1. Upserted(f)[n] = [status |-> IF n \in Listed THEN "open" ELSE "unknown",
                            stamp |-> f.stamp, fetch |-> f.fetch[n]]
      BY <1>3, <2>2
    <3>2. f.fetch[n] \in 0..MaxRuns BY <1>0, <2>2
    <3> QED BY <1>0, <3>1, <3>2 DEF Row
  <2> QED BY <2>1, <2>2
<1>5. Upserted(f) = [n \in Notices |-> Upserted(f)[n]] BY <1>3 DEF Upserted
<1> QED BY <1>0, <1>1, <1>2, <1>3, <1>4, <1>5

LEMMA UpsertedTyped ==
  ASSUME Typed, NEW f \in files, NEW n \in Notices
  PROVE  /\ Upserted(f)[n].stamp <= runs /\ (Upserted(f)[n].status = "none" => Upserted(f)[n].stamp = 0)
         /\ Upserted(f)[n].status = "open" =>
              \E g \in files : g.stamp = Upserted(f)[n].stamp /\ n \in DOMAIN g.fetch
<1>1. CASE Upserted(f)[n] = row[n] BY <1>1 DEF Typed, RowsOK
<1>2. CASE /\ Upserted(f)[n] = [status |-> IF n \in Listed THEN "open" ELSE "unknown",
                                 stamp |-> f.stamp, fetch |-> f.fetch[n]]
           /\ n \in DOMAIN f.fetch
  BY <1>2 DEF Typed, FilesOK
<1> QED BY <1>1, <1>2, UpsertedFacts

LEMMA StoreByHandTyped == ASSUME Typed, NEW f \in files, StoreByHand(f) PROVE Typed'
<1>0. row' = Upserted(f) /\ UNCHANGED <<list, fetched, files, pipe, observers, runs, changes, faults>>
  BY DEF StoreByHand
<1>1. RowsOK'
  <2>1. \A n \in Notices :
          /\ row'[n].stamp <= runs /\ (row'[n].status = "none" => row'[n].stamp = 0)
          /\ row'[n].status = "open" => \E g \in files : g.stamp = row'[n].stamp /\ n \in DOMAIN g.fetch
    BY <1>0, UpsertedTyped
  <2>2. runs' = runs /\ files' = files BY <1>0
  <2> QED BY <1>0, <2>1, <2>2, UpsertedFacts DEF RowsOK
<1> QED BY <1>0, <1>1 DEF Typed, ListOK, RawOK, OutOK, FilesOK, PipeOK, BoundsOK, observers, fetched, At

\* The file of the run that stores.
LEMMA ThisFileFacts ==
  ASSUME Typed, At("store")
  PROVE  /\ ThisFile \in files /\ ThisFile.stamp = runs /\ DOMAIN ThisFile.fetch \cap Listed = out.ids
         /\ \A g \in files : g.stamp >= runs => g = ThisFile
<1>1. \E f \in files : f.stamp = pipe.stamp BY DEF Typed, PipeOK
<1>2. ThisFile \in files /\ ThisFile.stamp = pipe.stamp BY <1>1 DEF ThisFile
<1>3. pipe.stamp = runs BY DEF Typed, PipeOK
<1>4. \A g \in files : g.stamp \in Nat /\ g.stamp <= runs BY RunsNat DEF Typed, FilesOK
<1>5. \A g \in files : g.stamp >= runs => g.stamp = ThisFile.stamp BY <1>2, <1>3, <1>4, RunsNat
<1> QED BY <1>2, <1>3, <1>5 DEF Typed, FilesOK

\* What Store leaves in a row: what the file leaves, or a row that is closed.
LEMMA StoreFacts ==
  ASSUME Typed, Store
  PROVE  /\ row' \in [Notices -> Row]
         /\ \A n \in Notices :
              \/ row'[n] = Upserted(ThisFile)[n]
              \/ /\ row'[n] = [status |-> "closed", stamp |-> runs, fetch |-> out.fetch]
                 /\ n \in Listed /\ ListedIds # {} /\ n \notin ListedIds
                 /\ Upserted(ThisFile)[n].status = "open" /\ Upserted(ThisFile)[n].stamp < runs
         /\ \A n \in Listed : ListedIds # {} /\ n \notin ListedIds /\ Upserted(ThisFile)[n].status = "open" =>
              Upserted(ThisFile)[n].stamp >= runs \/ row'[n].status = "closed"
<1> DEFINE f == ThisFile
           u == Upserted(f)
<1>0. At("store") /\ row' = CloseMissing(u, ListedIds, f) BY DEF Store
<1>1. f \in files /\ f.stamp = runs BY <1>0, ThisFileFacts
<1>2. u \in [Notices -> Row] BY <1>1, UpsertedFacts
<1>3. [status |-> "closed", stamp |-> runs, fetch |-> out.fetch] \in Row
  BY RunsNat DEF Row, Typed, OutOK
<1>4. Listed \subseteq Notices /\ runs \in Nat BY RunsNat DEF Notices
<1> HIDE DEF u, f
<1>5. row' = [n \in Notices |->
         IF n \in Listed /\ ListedIds # {} /\ n \notin ListedIds /\ u[n].status = "open" /\ u[n].stamp < runs
         THEN [status |-> "closed", stamp |-> runs, fetch |-> out.fetch] ELSE u[n]]
  BY <1>0, <1>1 DEF CloseMissing
<1>6. row' \in [Notices -> Row] BY <1>2, <1>3, <1>5
<1>7. \A n \in Notices :
        \/ row'[n] = u[n]
        \/ /\ row'[n] = [status |-> "closed", stamp |-> runs, fetch |-> out.fetch]
           /\ n \in Listed /\ ListedIds # {} /\ n \notin ListedIds
           /\ u[n].status = "open" /\ u[n].stamp < runs
  BY <1>5
<1>8. ASSUME NEW n \in Listed, ListedIds # {}, n \notin ListedIds, u[n].status = "open", ~(u[n].stamp >= runs)
      PROVE  row'[n].status = "closed"
  <2>1. n \in Notices /\ u[n].stamp \in Nat BY <1>2, <1>4, RunsNat DEF Row
  <2>2. u[n].stamp < runs BY <1>4, <1>8, <2>1
  <2> QED BY <1>5, <1>8, <2>1, <2>2
<1> QED BY <1>6, <1>7, <1>8 DEF u, f

LEMMA StoreTyped == ASSUME Typed, Store PROVE Typed'
<1>0. /\ At("store") /\ pipe' = Idle
      /\ UNCHANGED <<list, fetched, files, observers, runs, changes, faults>>
  BY DEF Store
<1>1. ThisFile \in files BY <1>0, ThisFileFacts
<1>2. RowsOK'
  <2>1. ASSUME NEW n \in Notices
        PROVE  /\ row'[n].stamp <= runs /\ (row'[n].status = "none" => row'[n].stamp = 0)
               /\ row'[n].status = "open" => \E g \in files : g.stamp = row'[n].stamp /\ n \in DOMAIN g.fetch
    <3>1. CASE row'[n] = Upserted(ThisFile)[n] BY <1>1, <3>1, UpsertedTyped
    <3>2. CASE row'[n] = [status |-> "closed", stamp |-> runs, fetch |-> out.fetch] BY <3>2, RunsNat
    <3> QED BY <3>1, <3>2, StoreFacts
  <2>2. runs' = runs /\ files' = files BY <1>0
  <2> QED BY <2>1, <2>2, StoreFacts DEF RowsOK
<1>3. FilesOK' BY <1>0, IdleTypes DEF Typed, FilesOK, At, fetched
<1>4. PipeOK' BY <1>0, IdleTypes DEF PipeOK, At
<1> QED BY <1>0, <1>2, <1>3, <1>4, IdleTypes DEF Typed, ListOK, RawOK, OutOK, BoundsOK, observers, fetched, At

LEMMA NextTyped == Typed /\ [Next]_vars => Typed'
<1> SUFFICES ASSUME Typed, [Next]_vars PROVE Typed' OBVIOUS
<1>1. CASE UNCHANGED vars
  BY <1>1 DEF vars, fetched, observers, Typed, ListOK, RawOK, OutOK, FilesOK, RowsOK, PipeOK, BoundsOK, At
<1>2. CASE Next
  BY <1>2, ServerTyped, FirstPageTyped, NextPageTyped, FetchTyped, BizinfoTyped, NormalizeTyped, StoreTyped,
     StopTyped, StoreByHandTyped
  DEF Next, Server
<1> QED BY <1>1, <1>2

\* Every variable of the import keeps its type.
THEOREM TypeCorrect == Spec => []TypeOK
BY InitTyped, NextTyped, TypedTypes, PTL DEF Spec
-----------------------------------------------------------------------------
(* The rows follow the newest list *)

LastFetch == IF raw = <<>> THEN 0 ELSE raw[Len(raw)].fetch

\* The newest list of an announcement's source that a file can have.
Top(n) == IF n \in Listed THEN out.fetch ELSE IF At("normalize") THEN InputFetch ELSE LastFetch

\* Snapshots and files get newer with their place, and no row is ahead of what comes.
SnapshotsRise == \A i, j \in 1..Len(raw) : i <= j => raw[i].fetch <= raw[j].fetch
InputIsLate == At("normalize") => InputFetch <= LastFetch
FilesRise ==
  \A f, g \in files : f.stamp <= g.stamp =>
    \A n \in DOMAIN f.fetch \cap DOMAIN g.fetch : f.fetch[n] <= g.fetch[n]
FilesBelow == \A f \in files : \A n \in DOMAIN f.fetch : f.fetch[n] <= Top(n)
RowsBelow == \A n \in Notices : row[n].fetch <= Top(n)
RowsBehind ==
  \A n \in Notices : \A g \in files :
    n \in DOMAIN g.fetch /\ g.stamp >= row[n].stamp => g.fetch[n] >= row[n].fetch

Fresh == SnapshotsRise /\ InputIsLate /\ FilesRise /\ FilesBelow /\ RowsBelow /\ RowsBehind

LEMMA FetchNats ==
  ASSUME Typed
  PROVE  /\ out.fetch \in Nat /\ LastFetch \in Nat /\ runs \in Nat /\ LastFetch <= runs
         /\ At("normalize") => InputFetch \in Nat
         /\ Len(raw) \in Nat /\ raw \in Seq(Snapshot)
         /\ \A i \in 1..Len(raw) : raw[i] \in Snapshot /\ raw[i].fetch \in Nat /\ raw[i].fetch <= runs
         /\ \A n : Top(n) \in Nat
         /\ \A f \in files : f.stamp \in Nat /\ \A n \in DOMAIN f.fetch : n \in Notices /\ f.fetch[n] \in Nat
         /\ \A n \in Notices : row[n].fetch \in Nat /\ row[n].stamp \in Nat
<1>1. out.fetch \in Nat /\ runs \in Nat BY RunsNat DEF Typed, OutOK
<1>2. /\ Len(raw) \in Nat /\ raw \in Seq(Snapshot)
      /\ \A i \in 1..Len(raw) : raw[i] \in Snapshot /\ raw[i].fetch \in Nat /\ raw[i].fetch <= runs
  <2>1. raw \in Seq(Snapshot) /\ \A i \in 1..Len(raw) : raw[i].fetch <= runs BY DEF Typed, RawOK
  <2>2. \A i \in 1..Len(raw) : raw[i] \in Snapshot BY <2>1, ElementOfSeq
  <2> QED BY <2>1, <2>2, RunsNat DEF Snapshot
<1>3. LastFetch \in Nat /\ LastFetch <= runs
  <2>1. CASE raw = <<>> BY <1>1, <2>1 DEF LastFetch
  <2>2. CASE raw # <<>>
    <3>1. Len(raw) \in 1..Len(raw) BY <1>2, <2>2, EmptySeq
    <3> QED BY <1>2, <2>2, <3>1 DEF LastFetch
  <2> QED BY <2>1, <2>2
<1>4. At("normalize") => InputFetch \in Nat
  <2> SUFFICES ASSUME At("normalize") PROVE InputFetch \in Nat OBVIOUS
  <2>1. pipe.input \in Nat /\ pipe.input <= Len(raw) BY RunsNat DEF Typed, PipeOK, Pipeline
  <2>2. pipe.input = 0 \/ pipe.input \in 1..Len(raw) BY <1>2, <2>1
  <2> QED BY <1>2, <2>2 DEF InputFetch
<1>5. \A n : Top(n) \in Nat BY <1>1, <1>3, <1>4 DEF Top
<1>6. \A f \in files : f.stamp \in Nat /\ \A n \in DOMAIN f.fetch : n \in Notices /\ f.fetch[n] \in Nat
  BY RunsNat DEF Typed, FilesOK
<1>7. \A n \in Notices : row[n].fetch \in Nat /\ row[n].stamp \in Nat BY RunsNat DEF Typed, RowsOK, Row
<1> QED BY <1>1, <1>2, <1>3, <1>4, <1>5, <1>6, <1>7

TopNat == \A n : Top(n) \in Nat

LEMMA TopNats == (Typed => TopNat) /\ (Typed' => TopNat')
<1>1. Typed => TopNat BY FetchNats DEF TopNat
<1> QED BY <1>1, PTL

LEMMA InitFresh == Init => Fresh
<1> SUFFICES ASSUME Init PROVE Fresh OBVIOUS
<1>1. raw = <<>> /\ files = {} /\ ~At("normalize") /\ out.fetch = 0 BY IdleTypes DEF Init, At, Nothing
<1>2. \A n \in Notices : row[n].fetch = 0 BY DEF Init
<1>3. SnapshotsRise BY <1>1 DEF SnapshotsRise
<1>4. InputIsLate /\ FilesRise /\ FilesBelow /\ RowsBehind
  BY <1>1 DEF InputIsLate, FilesRise, FilesBelow, RowsBehind
<1>5. RowsBelow BY <1>1, <1>2 DEF RowsBelow, Top, LastFetch
<1> QED BY <1>3, <1>4, <1>5 DEF Fresh

\* Files and rows stay, and what comes gets no older.
LEMMA FreshKept ==
  ASSUME Typed, Typed', Fresh, UNCHANGED <<files, row>>, SnapshotsRise', InputIsLate',
         \A n \in Notices : Top(n) <= Top(n)'
  PROVE  Fresh'
<1>1. FilesRise' BY DEF Fresh, FilesRise
<1>2. FilesBelow'
  <2>1. \A f \in files : \A n \in DOMAIN f.fetch :
          n \in Notices /\ f.fetch[n] \in Nat /\ Top(n) \in Nat /\ Top(n)' \in Nat
    BY FetchNats, TopNats DEF TopNat
  <2>2. \A f \in files : \A n \in DOMAIN f.fetch : f.fetch[n] <= Top(n)' BY <2>1 DEF Fresh, FilesBelow
  <2>3. files' = files OBVIOUS
  <2> QED BY <2>2, <2>3 DEF FilesBelow
<1>3. RowsBelow'
  <2>1. \A n \in Notices : row[n].fetch \in Nat /\ Top(n) \in Nat /\ Top(n)' \in Nat
    BY FetchNats, TopNats DEF TopNat
  <2>2. \A n \in Notices : row[n].fetch <= Top(n)' BY <2>1 DEF Fresh, RowsBelow
  <2>3. row' = row OBVIOUS
  <2> QED BY <2>2, <2>3 DEF RowsBelow
<1>4. RowsBehind' BY DEF Fresh, RowsBehind
<1> QED BY <1>1, <1>2, <1>3, <1>4 DEF Fresh

\* A step that fetches nothing and does not normalise.
LEMMA FreshIfQuiet ==
  ASSUME Typed, Typed', Fresh, UNCHANGED <<raw, files, row>>, ~At("normalize")',
         UNCHANGED out \/ out.fetch' = runs
  PROVE  Fresh'
<1>1. out.fetch <= out.fetch' BY FetchNats DEF Typed, OutOK
<1>2. LastFetch' = LastFetch BY DEF LastFetch
<1>3. \A n \in Notices : Top(n) <= Top(n)'
  <2> SUFFICES ASSUME NEW n \in Notices PROVE Top(n) <= Top(n)' OBVIOUS
  <2>1. CASE n \in Listed BY <1>1, <2>1 DEF Top
  <2>2. CASE n \notin Listed
    <3>1. Top(n)' = LastFetch BY <1>2, <2>2 DEF Top
    <3>2. Top(n) = LastFetch \/ (At("normalize") /\ Top(n) = InputFetch) BY <2>2 DEF Top
    <3> QED BY <3>1, <3>2, FetchNats DEF Fresh, InputIsLate
  <2> QED BY <2>1, <2>2
<1>4. SnapshotsRise' BY DEF Fresh, SnapshotsRise
<1>5. InputIsLate' BY DEF InputIsLate
<1> QED BY <1>3, <1>4, <1>5, FreshKept

LEMMA BizinfoFresh == ASSUME Typed, Typed', Fresh, FetchBizinfo \/ BizinfoFails PROVE Fresh'
<1>0. At("bizinfo") /\ UNCHANGED <<out, files, row, runs>> BY DEF FetchBizinfo, BizinfoFails, fetched
<1>1. Len(raw) \in Nat /\ raw \in Seq(Snapshot) /\ pipe \in Pipeline BY FetchNats DEF Typed, PipeOK
<1>2. raw = <<>> <=> Len(raw) = 0 BY <1>1, EmptySeq
<1>3. /\ pipe.at' = "normalize" /\ pipe.input' \in Nat
      /\ SnapshotsRise' /\ LastFetch <= InputFetch' /\ InputFetch' <= LastFetch'
  <2>1. CASE BizinfoFails
    <3>1. raw' = raw /\ pipe' = [pipe EXCEPT !.at = "normalize", !.input = Len(raw)]
      BY <2>1 DEF BizinfoFails, fetched
    <3>2. pipe.at' = "normalize" /\ pipe.input' = Len(raw) BY <1>1, <3>1 DEF Pipeline
    <3>3. InputFetch' = LastFetch /\ LastFetch' = LastFetch
      BY <1>1, <1>2, <3>1, <3>2 DEF InputFetch, LastFetch
    <3>4. SnapshotsRise' BY <3>1 DEF Fresh, SnapshotsRise
    <3> QED BY <1>1, <3>2, <3>3, <3>4, FetchNats
  <2>2. CASE FetchBizinfo
    <3>1. PICK S \in SUBSET Others \ {{}}, bad \in BOOLEAN :
            LET before == IF raw = <<>> THEN 0 ELSE Cardinality(raw[Len(raw)].ids)
                used == IF TooFew(Cardinality(S), before) THEN Len(raw) ELSE Len(raw) + 1 IN
            /\ raw' = Append(raw, [ids |-> S, bad |-> bad, fetch |-> runs])
            /\ pipe' = [pipe EXCEPT !.at = "normalize", !.input = used]
      BY <2>2 DEF FetchBizinfo
    <3> DEFINE new == [ids |-> S, bad |-> bad, fetch |-> runs]
    <3>2. new \in Snapshot /\ new.fetch = runs
      BY <1>0, RunsNat DEF Snapshot, Typed, PipeOK, At
    <3>3. /\ Len(raw') = Len(raw) + 1
          /\ \A i \in 1..Len(raw') : raw'[i] = IF i <= Len(raw) THEN raw[i] ELSE new
      <4>1. raw' = Append(raw, new) BY <3>1
      <4> HIDE DEF new
      <4> QED BY <1>1, <3>2, <4>1
    <3>4. PICK used \in {Len(raw), Len(raw) + 1} : pipe' = [pipe EXCEPT !.at = "normalize", !.input = used]
      BY <3>1
    <3>5. pipe.at' = "normalize" /\ pipe.input' = used /\ used \in Nat BY <1>1, <3>4 DEF Pipeline
    <3>6. raw' # <<>> /\ Len(raw') \in 1..Len(raw') /\ raw'[Len(raw')] = new
      <4>1. Len(raw') = Len(raw) + 1 /\ Len(raw) + 1 \in 1..Len(raw') /\ ~(Len(raw) + 1 <= Len(raw)) BY <1>1, <3>3
      <4>2. raw'[Len(raw) + 1] = new BY <3>3, <4>1
      <4>3. raw' # <<>> BY <1>1, <4>1
      <4> QED BY <4>1, <4>2, <4>3
    <3>7. LastFetch' = runs BY <3>2, <3>6 DEF LastFetch
    <3>8. \A i \in 1..Len(raw) : raw'[i] = raw[i] BY <1>1, <3>3
    <3> HIDE DEF new
    <3>9. SnapshotsRise'
      <4> SUFFICES ASSUME NEW i \in 1..Len(raw'), NEW j \in 1..Len(raw'), i <= j
                   PROVE raw'[i].fetch <= raw'[j].fetch
        BY DEF SnapshotsRise
      <4>1. CASE j <= Len(raw)
        <5>1. i \in 1..Len(raw) /\ j \in 1..Len(raw) BY <1>1, <3>3, <4>1
        <5> QED BY <3>8, <5>1 DEF Fresh, SnapshotsRise
      <4>2. CASE ~(j <= Len(raw))
        <5>1. raw'[j].fetch = runs BY <3>2, <3>3, <4>2
        <5>2. raw'[i].fetch <= runs BY <1>0 DEF Typed, RawOK
        <5> QED BY <5>1, <5>2
      <4> QED BY <4>1, <4>2
    <3>10. LastFetch <= InputFetch' /\ InputFetch' <= runs
      <4>1. CASE used = Len(raw)
        <5>1. CASE Len(raw) = 0 BY <1>2, <3>5, <4>1, <5>1, FetchNats DEF InputFetch, LastFetch
        <5>2. CASE Len(raw) # 0
          <6>1. Len(raw) \in 1..Len(raw) BY <1>1, <5>2
          <6>2. InputFetch' = raw[Len(raw)].fetch BY <3>5, <3>8, <4>1, <5>2, <6>1 DEF InputFetch
          <6>3. LastFetch = raw[Len(raw)].fetch BY <1>2, <5>2 DEF LastFetch
          <6> QED BY <6>2, <6>3, FetchNats
        <5> QED BY <5>1, <5>2
      <4>2. CASE used = Len(raw) + 1
        <5>1. used # 0 /\ used = Len(raw') BY <1>1, <3>3, <4>2
        <5>2. InputFetch' = new.fetch BY <3>5, <3>6, <5>1 DEF InputFetch
        <5> QED BY <3>2, <5>2, FetchNats
      <4> QED BY <4>1, <4>2
    <3> QED BY <3>5, <3>7, <3>9, <3>10
  <2> QED BY <1>0, <2>1, <2>2 DEF FetchBizinfo, BizinfoFails
<1>4. \A n \in Notices : Top(n) <= Top(n)'
  <2> SUFFICES ASSUME NEW n \in Notices PROVE Top(n) <= Top(n)' OBVIOUS
  <2>1. CASE n \in Listed BY <1>0, <2>1, FetchNats DEF Top
  <2>2. CASE n \notin Listed BY <1>0, <1>3, <2>2 DEF Top, At
  <2> QED BY <2>1, <2>2
<1>5. InputIsLate' BY <1>3 DEF InputIsLate
<1> QED BY <1>0, <1>3, <1>4, <1>5, FreshKept

\* The file of a run has nothing older than the files before and the rows.
LEMMA NormalizeFresh == ASSUME Typed, Typed', Fresh, Normalize PROVE Fresh'
<1>0. At("normalize") /\ UNCHANGED <<list, fetched, row, observers, runs, changes, faults>> BY DEF Normalize
<1>1. raw' = raw /\ out' = out /\ row' = row /\ pipe \in Pipeline BY <1>0 DEF fetched, Typed, PipeOK
<1>2. CASE out.fetch = 0 /\ pipe.input = 0
  <2>1. pipe' = Idle /\ UNCHANGED files BY <1>2 DEF Normalize
  <2>2. ~At("normalize")' BY <2>1, IdleTypes DEF At
  <2> QED BY <1>1, <2>1, <2>2, FreshIfQuiet
<1>3. CASE ~(out.fetch = 0 /\ pipe.input = 0)
  <2> DEFINE f == Normalized(pipe.input)
  <2>1. files' = files \cup {f} /\ pipe' = [pipe EXCEPT !.at = "store", !.stamp = runs]
    BY <1>3 DEF Normalize
  <2>2. ~At("normalize")' BY <1>1, <2>1 DEF At, Pipeline
  <2>3. /\ f.stamp = runs /\ DOMAIN f.fetch \subseteq Notices
        /\ \A n \in DOMAIN f.fetch : f.fetch[n] = Top(n) /\ Top(n) \in Nat
    BY <1>0, NormalizedFacts, FetchNats DEF Top
  <2> HIDE DEF f
  <2>4. \A g \in files : g.stamp < runs BY <1>0 DEF Typed, FilesOK
  <2>5. \A n \in Notices : Top(n) \in Nat /\ Top(n)' \in Nat /\ Top(n) <= Top(n)'
    <3> SUFFICES ASSUME NEW n \in Notices PROVE Top(n) <= Top(n)' BY TopNats DEF TopNat
    <3>1. CASE n \in Listed BY <1>1, <3>1, FetchNats DEF Top
    <3>2. CASE n \notin Listed
      <4>1. Top(n) = InputFetch /\ Top(n)' = LastFetch BY <1>0, <1>1, <2>2, <3>2 DEF Top, LastFetch
      <4> QED BY <1>0, <4>1 DEF Fresh, InputIsLate
    <3> QED BY <3>1, <3>2
  <2>6. FilesRise'
    <3> SUFFICES ASSUME NEW g \in files', NEW h \in files', g.stamp <= h.stamp,
                        NEW n \in DOMAIN g.fetch \cap DOMAIN h.fetch
                 PROVE  g.fetch[n] <= h.fetch[n]
      BY DEF FilesRise
    <3>1. CASE g \in files /\ h \in files BY <3>1 DEF Fresh, FilesRise
    <3>2. CASE g \in files /\ h = f BY <2>3, <3>2 DEF Fresh, FilesBelow
    <3>3. CASE g = f /\ h \in files BY <2>3, <2>4, <3>3, FetchNats
    <3>4. CASE g = f /\ h = f BY <2>3, <3>4
    <3> QED BY <2>1, <3>1, <3>2, <3>3, <3>4
  <2>7. FilesBelow'
    <3> SUFFICES ASSUME NEW g \in files', NEW n \in DOMAIN g.fetch PROVE g.fetch[n] <= Top(n)'
      BY DEF FilesBelow
    <3>1. CASE g \in files
      <4>1. n \in Notices /\ g.fetch[n] \in Nat BY <3>1, FetchNats
      <4>2. g.fetch[n] <= Top(n) BY <3>1 DEF Fresh, FilesBelow
      <4> QED BY <2>5, <4>1, <4>2
    <3>2. CASE g = f BY <2>3, <2>5, <3>2
    <3> QED BY <2>1, <3>1, <3>2
  <2>8. RowsBelow'
    <3>1. \A n \in Notices : row[n].fetch \in Nat BY FetchNats
    <3>2. \A n \in Notices : row[n].fetch <= Top(n)' BY <2>5, <3>1 DEF Fresh, RowsBelow
    <3> QED BY <1>1, <3>2 DEF RowsBelow
  <2>9. RowsBehind'
    <3> SUFFICES ASSUME NEW n \in Notices, NEW g \in files', n \in DOMAIN g.fetch, g.stamp >= row[n].stamp
                 PROVE  g.fetch[n] >= row[n].fetch
      BY <1>1 DEF RowsBehind
    <3>1. CASE g \in files BY <3>1 DEF Fresh, RowsBehind
    <3>2. CASE g = f BY <2>3, <3>2, FetchNats DEF Fresh, RowsBelow
    <3> QED BY <2>1, <3>1, <3>2
  <2>10. SnapshotsRise' /\ InputIsLate' BY <1>1, <2>2 DEF Fresh, SnapshotsRise, InputIsLate
  <2> QED BY <2>6, <2>7, <2>8, <2>9, <2>10 DEF Fresh
<1> QED BY <1>2, <1>3

\* What storing a file does to the age of a row.
LEMMA UpsertedFresh ==
  ASSUME Typed, Fresh, NEW f \in files, NEW n \in Notices, NEW r, r = Upserted(f)[n]
  PROVE  /\ r.fetch \in Nat /\ r.stamp \in Nat /\ r.fetch >= row[n].fetch /\ r.fetch <= Top(n)
         /\ \A g \in files : n \in DOMAIN g.fetch /\ g.stamp >= r.stamp => g.fetch[n] >= r.fetch
<1>1. CASE r = row[n] BY <1>1, FetchNats DEF Fresh, RowsBelow, RowsBehind
<1>2. CASE /\ r = [status |-> IF n \in Listed THEN "open" ELSE "unknown", stamp |-> f.stamp, fetch |-> f.fetch[n]]
           /\ n \in DOMAIN f.fetch /\ row[n].stamp <= f.stamp
  <2>1. r.stamp = f.stamp /\ r.fetch = f.fetch[n] /\ r.stamp \in Nat /\ r.fetch \in Nat BY <1>2, FetchNats
  <2>2. f.stamp >= row[n].stamp BY <1>2, FetchNats
  <2>3. r.fetch >= row[n].fetch BY <1>2, <2>1, <2>2 DEF Fresh, RowsBehind
  <2>4. r.fetch <= Top(n) BY <1>2, <2>1 DEF Fresh, FilesBelow
  <2>5. ASSUME NEW g \in files, n \in DOMAIN g.fetch, g.stamp >= r.stamp PROVE g.fetch[n] >= r.fetch
    <3>1. f.stamp <= g.stamp BY <2>1, <2>5, FetchNats
    <3>2. f.fetch[n] <= g.fetch[n] BY <1>2, <2>5, <3>1 DEF Fresh, FilesRise
    <3> QED BY <2>1, <2>5, <3>2, FetchNats
  <2> QED BY <2>1, <2>3, <2>4, <2>5
<1> QED BY <1>1, <1>2, UpsertedFacts

\* The rows change; what they come from stays.
LEMMA RowsFresh ==
  ASSUME Typed, Fresh, UNCHANGED <<raw, out, files>>, (~At("normalize")' /\ ~At("normalize")) \/ UNCHANGED pipe,
         \A n \in Notices :
           /\ row'[n].fetch <= Top(n)
           /\ \A g \in files : n \in DOMAIN g.fetch /\ g.stamp >= row'[n].stamp => g.fetch[n] >= row'[n].fetch
  PROVE  Fresh'
<1>1. \A n : Top(n)' = Top(n) BY DEF Top, LastFetch, InputFetch, At
<1>2. SnapshotsRise' BY DEF Fresh, SnapshotsRise
<1>3. InputIsLate' BY DEF Fresh, InputIsLate, At, InputFetch, LastFetch
<1>4. FilesRise' BY DEF Fresh, FilesRise
<1>5. FilesBelow' BY <1>1 DEF Fresh, FilesBelow
<1>6. RowsBelow' BY <1>1 DEF RowsBelow
<1>7. RowsBehind' BY DEF RowsBehind
<1> QED BY <1>2, <1>3, <1>4, <1>5, <1>6, <1>7 DEF Fresh

LEMMA StoreByHandFresh ==
  ASSUME Typed, Fresh, NEW f \in files, StoreByHand(f)
  PROVE  Fresh' /\ \A n \in Notices : row'[n].fetch >= row[n].fetch
<1>1. row' = Upserted(f) /\ UNCHANGED <<raw, out, files, pipe>> BY DEF StoreByHand, fetched
<1>2. ASSUME NEW n \in Notices
      PROVE  /\ row'[n].fetch <= Top(n) /\ row'[n].fetch >= row[n].fetch
             /\ \A g \in files : n \in DOMAIN g.fetch /\ g.stamp >= row'[n].stamp => g.fetch[n] >= row'[n].fetch
  BY <1>1, UpsertedFresh
<1> QED BY <1>1, <1>2, RowsFresh

\* A row that is closed has the time of the list it is not on.
LEMMA StoreFresh ==
  ASSUME Typed, Fresh, Store
  PROVE  Fresh' /\ \A n \in Notices : row'[n].fetch >= row[n].fetch
<1>0. At("store") /\ pipe' = Idle /\ UNCHANGED <<raw, out, files>> BY DEF Store, fetched
<1>1. ThisFile \in files /\ DOMAIN ThisFile.fetch \cap Listed = out.ids
      /\ \A g \in files : g.stamp >= runs => g = ThisFile
  BY <1>0, ThisFileFacts
<1>2. ASSUME NEW n \in Notices
      PROVE  /\ row'[n].fetch <= Top(n) /\ row'[n].fetch >= row[n].fetch
             /\ \A g \in files : n \in DOMAIN g.fetch /\ g.stamp >= row'[n].stamp => g.fetch[n] >= row'[n].fetch
  <2> DEFINE u == Upserted(ThisFile)[n]
  <2>1. /\ u.fetch \in Nat /\ u.fetch >= row[n].fetch /\ u.fetch <= Top(n)
        /\ \A g \in files : n \in DOMAIN g.fetch /\ g.stamp >= u.stamp => g.fetch[n] >= u.fetch
    BY <1>1, UpsertedFresh
  <2> HIDE DEF u
  <2>2. CASE row'[n] = u BY <2>1, <2>2
  <2>3. CASE /\ row'[n] = [status |-> "closed", stamp |-> runs, fetch |-> out.fetch]
             /\ n \in Listed /\ ListedIds # {} /\ n \notin ListedIds
    <3>1. row'[n].fetch = out.fetch /\ row'[n].stamp = runs /\ Top(n) = out.fetch /\ out.fetch \in Nat
      BY <2>3, FetchNats DEF Top
    <3>2. n \notin out.ids BY <2>3 DEF ListedIds
    <3>3. \A g \in files : g.stamp >= runs => n \notin DOMAIN g.fetch BY <1>1, <2>3, <3>2
    <3> QED BY <2>1, <3>1, <3>3, FetchNats
  <2> QED BY <2>2, <2>3, StoreFacts DEF u
<1>3. ~At("normalize") /\ ~At("normalize")' BY <1>0, IdleTypes DEF At
<1> QED BY <1>0, <1>2, <1>3, RowsFresh

LEMMA NextFresh ==
  ASSUME Typed, Typed', Fresh, [Next]_vars
  PROVE  Fresh' /\ \A n \in Notices : row'[n].fetch >= row[n].fetch
<1>0. UNCHANGED row => \A n \in Notices : row'[n].fetch >= row[n].fetch BY FetchNats
<1>1. CASE UNCHANGED vars
  <2>1. UNCHANGED <<raw, out, files, row, pipe>> BY <1>1 DEF vars, fetched
  <2>2. Fresh'
    BY <2>1 DEF Fresh, SnapshotsRise, InputIsLate, FilesRise, FilesBelow, RowsBelow, RowsBehind, Top, LastFetch,
                InputFetch, At
  <2> QED BY <1>0, <2>1, <2>2
<1>2. CASE Server
  <2>1. PICK l : Changed(l) BY <1>2, ServerSteps
  <2>2. UNCHANGED <<raw, out, files, row, pipe>> BY <2>1 DEF Changed, fetched
  <2>3. Fresh'
    BY <2>2 DEF Fresh, SnapshotsRise, InputIsLate, FilesRise, FilesBelow, RowsBelow, RowsBehind, Top,
                LastFetch, InputFetch, At
  <2> QED BY <1>0, <2>2, <2>3
<1>3. CASE FirstPage \/ NextPage
  <2>1. UNCHANGED <<raw, out, files, row>> BY <1>3 DEF FirstPage, NextPage, fetched
  <2>2. pipe.at' = "paging"
    <3>1. CASE FirstPage BY <3>1 DEF FirstPage, Idle
    <3>2. CASE NextPage
      <4>1. pipe.at = "paging" /\ pipe \in Pipeline BY <3>2 DEF NextPage, At, Typed, PipeOK
      <4>2. pipe' = [pipe EXCEPT !.got = pipe.got \o Page(pipe.page), !.page = @ + 1] BY <3>2 DEF NextPage
      <4> QED BY <4>1, <4>2 DEF Pipeline
    <3> QED BY <1>3, <3>1, <3>2
  <2> QED BY <1>0, <2>1, <2>2, FreshIfQuiet DEF At
<1>4. CASE Accept \/ AcceptForced \/ Refuse \/ FetchFails
  <2>1. UNCHANGED <<raw, files, row>> /\ (UNCHANGED out \/ out.fetch' = runs)
    BY <1>4 DEF Accept, AcceptForced, Refuse, FetchFails, fetched
  <2>2. pipe.at' = "bizinfo" BY <1>4 DEF Accept, AcceptForced, Refuse, FetchFails, Idle
  <2> QED BY <1>0, <2>1, <2>2, FreshIfQuiet DEF At
<1>5. CASE FetchBizinfo \/ BizinfoFails
  <2>1. UNCHANGED row BY <1>5 DEF FetchBizinfo, BizinfoFails
  <2> QED BY <1>0, <1>5, <2>1, BizinfoFresh
<1>6. CASE Normalize
  <2>1. UNCHANGED row BY <1>6 DEF Normalize
  <2> QED BY <1>0, <1>6, <2>1, NormalizeFresh
<1>7. CASE Store BY <1>7, StoreFresh
<1>8. CASE StoreRefused \/ StoreFails \/ Crash
  <2>1. UNCHANGED <<raw, out, files, row>> /\ pipe' = Idle BY <1>8 DEF StoreRefused, StoreFails, Crash, fetched
  <2>2. ~At("normalize")' BY <2>1, IdleTypes DEF At
  <2> QED BY <1>0, <2>1, <2>2, FreshIfQuiet
<1>9. CASE \E f \in files : StoreByHand(f) BY <1>9, StoreByHandFresh
<1> QED BY <1>1, <1>2, <1>3, <1>4, <1>5, <1>6, <1>7, <1>8, <1>9 DEF Next, Server

\* A row never goes back to an older list, whichever file is stored and when.
THEOREM NewestListStays == Spec => RowFollowsNewestList
<1>1. Typed /\ Typed' /\ Fresh /\ [Next]_vars =>
        Fresh' /\ [\A n \in Notices : row'[n].fetch >= row[n].fetch]_vars
  BY NextFresh
<1>2. Init => Fresh BY InitFresh
<1> QED BY <1>1, <1>2, InitTyped, NextTyped, PTL DEF Spec, RowFollowsNewestList

-----------------------------------------------------------------------------
(* What a list that is read page by page can be *)

\* It has as many announcements as it is to have, and none that was never listed.
Counted ==
  /\ IdsOf(list) \cap absent = {}
  /\ At("paging") => Cardinality(first) = pipe.total /\ IdsOf(pipe.got) \cap absent = {}

\* An orderly server: after d changes the first m places are announcements new to Old,
\* and the k that follow were read with the pages before.
Shift(Old, l, got, d, m, k) ==
  /\ m + k <= Len(l) /\ k <= PageSize /\ m + PageSize <= d + k
  /\ \A i \in (m + 1)..Len(l) : l[i] \in Old
  /\ \A i \in (m + 1)..(m + k) : l[i] \in IdsOf(got)

WholeOf ==
  /\ IdsOf(pipe.got) \subseteq first \/ ~Once(pipe.got)
  /\ Len(pipe.got) < pipe.total => \E m, k \in Nat : Shift(first, list, pipe.got, drift, m, k)

Whole == At("paging") /\ Orderly => WholeOf

\* A list that counts as whole.
Listing ==
  (At("bizinfo") \/ At("normalize") \/ At("store")) /\ pipe.whole =>
    /\ absent \cap out.ids = {} /\ Cardinality(out.ids) = Cardinality(first)
    /\ Orderly => steady \subseteq out.ids

LEMMA ShiftByAnnounce ==
  ASSUME list \in Seq(Listed), NEW n \in Listed, NEW Old, NEW got, NEW d \in Nat, NEW m \in Nat, NEW s \in Nat,
         Shift(Old, list, got, d, m, s)
  PROVE  Shift(Old, <<n>> \o list, got, d + 1, m + 1, s)
<1> DEFINE l == <<n>> \o list
<1>0. Len(list) \in Nat /\ PageSize \in Nat BY ImportAssumption DEF ImportAssumption
<1>1. Len(l) = Len(list) + 1 /\ \A j \in 1..(Len(list) + 1) : l[j] = IF j = 1 THEN n ELSE list[j - 1]
  BY PrependFacts
<1> HIDE DEF l
<1>2. ASSUME NEW i \in ((m + 1) + 1)..Len(l) PROVE l[i] = list[i - 1] /\ i - 1 \in (m + 1)..Len(list)
  <2>1. i \in 1..(Len(list) + 1) /\ i # 1 /\ i - 1 \in (m + 1)..Len(list) BY <1>0, <1>1
  <2> QED BY <1>1, <2>1
<1>3. \A i \in ((m + 1) + 1)..((m + 1) + s) : i \in ((m + 1) + 1)..Len(l) /\ i - 1 \in (m + 1)..(m + s)
  BY <1>0, <1>1 DEF Shift
<1>4. (m + 1) + s <= Len(l) /\ (m + 1) + PageSize <= (d + 1) + s BY <1>0, <1>1 DEF Shift
<1> QED BY <1>2, <1>3, <1>4 DEF Shift, l

LEMMA ShiftByClose ==
  ASSUME list \in Seq(Listed), NEW k \in 1..Len(list), NEW Old, NEW got, NEW d \in Nat,
         NEW m \in Nat, NEW s \in Nat, Shift(Old, list, got, d, m, s)
  PROVE  \E m2, s2 \in Nat : Shift(Old, Without(list, k), got, d + 1, m2, s2)
<1> DEFINE l == Without(list, k)
<1>0. Len(list) \in Nat /\ PageSize \in Nat BY ImportAssumption DEF ImportAssumption
<1>1. Len(l) = Len(list) - 1 /\ \A j \in 1..(Len(list) - 1) : l[j] = IF j < k THEN list[j] ELSE list[j + 1]
  BY RemoveFacts
<1> HIDE DEF l
<1>2. /\ m + s <= Len(list) /\ s <= PageSize /\ m + PageSize <= d + s
      /\ \A i \in (m + 1)..Len(list) : list[i] \in Old
      /\ \A i \in (m + 1)..(m + s) : list[i] \in IdsOf(got)
  BY DEF Shift
<1>3. CASE k <= m
  <2>1. m - 1 \in Nat /\ (m - 1) + s <= Len(l) /\ (m - 1) + PageSize <= (d + 1) + s BY <1>0, <1>1, <1>2, <1>3
  <2>2. ASSUME NEW i \in ((m - 1) + 1)..Len(l) PROVE l[i] = list[i + 1] /\ i + 1 \in (m + 1)..Len(list)
    <3>1. i \in 1..(Len(list) - 1) /\ ~(i < k) /\ i + 1 \in (m + 1)..Len(list) BY <1>0, <1>1, <1>3
    <3> QED BY <1>1, <3>1
  <2>3. \A i \in ((m - 1) + 1)..((m - 1) + s) : i \in ((m - 1) + 1)..Len(l) /\ i + 1 \in (m + 1)..(m + s)
    BY <1>0, <1>1, <1>2
  <2>4. Shift(Old, l, got, d + 1, m - 1, s) BY <1>2, <2>1, <2>2, <2>3 DEF Shift
  <2> QED BY <2>1, <2>4 DEF l
<1>4. CASE k > m
  <2>1. ASSUME NEW i \in (m + 1)..Len(l)
        PROVE  (i < k /\ l[i] = list[i] /\ i \in (m + 1)..Len(list)) \/ (l[i] = list[i + 1] /\ i + 1 \in (m + 1)..Len(list))
    <3>1. i \in 1..(Len(list) - 1) /\ i + 1 \in (m + 1)..Len(list) /\ i \in (m + 1)..Len(list) BY <1>0, <1>1
    <3> QED BY <1>1, <3>1
  <2>2. \A i \in (m + 1)..Len(l) : l[i] \in Old BY <1>2, <2>1
  <2>3. CASE k <= m + s
    <3>1. s - 1 \in Nat /\ m + (s - 1) <= Len(l) /\ s - 1 <= PageSize /\ m + PageSize <= (d + 1) + (s - 1)
      BY <1>0, <1>1, <1>2, <1>4, <2>3
    <3>2. \A i \in (m + 1)..(m + (s - 1)) :
             i \in (m + 1)..Len(l) /\ i \in (m + 1)..(m + s) /\ i + 1 \in (m + 1)..(m + s)
      BY <3>1, <1>0, <1>1
    <3>3. \A i \in (m + 1)..(m + (s - 1)) : l[i] \in IdsOf(got) BY <1>2, <2>1, <3>2
    <3>4. Shift(Old, l, got, d + 1, m, s - 1) BY <2>2, <3>1, <3>3 DEF Shift
    <3> QED BY <3>1, <3>4 DEF l
  <2>4. CASE k > m + s
    <3>1. m + s <= Len(l) /\ m + PageSize <= (d + 1) + s BY <1>0, <1>1, <1>2, <2>4
    <3>2. \A i \in (m + 1)..(m + s) : i < k /\ i \in 1..(Len(list) - 1) BY <1>0, <1>1, <2>4, <3>1
    <3>3. \A i \in (m + 1)..(m + s) : l[i] \in IdsOf(got) BY <1>1, <1>2, <3>2
    <3>4. Shift(Old, l, got, d + 1, m, s) BY <1>2, <2>2, <3>1, <3>3 DEF Shift
    <3> QED BY <3>4 DEF l
  <2> QED BY <1>0, <2>3, <2>4
<1> QED BY <1>0, <1>3, <1>4

\* One more row: what is read twice stays so, and a page is new or known.
LEMMA AppendFacts ==
  ASSUME NEW a \in Seq(Listed), NEW b \in Seq(Listed)
  PROVE  /\ a \o b \in Seq(Listed) /\ Len(a \o b) = Len(a) + Len(b)
         /\ IdsOf(a \o b) = IdsOf(a) \cup IdsOf(b)
         /\ ~Once(a) => ~Once(a \o b)
         /\ (\E j \in 1..Len(b) : b[j] \in IdsOf(a)) => ~Once(a \o b)
<1> DEFINE c == a \o b
<1>0. Len(a) \in Nat /\ Len(b) \in Nat OBVIOUS
<1>1. /\ c \in Seq(Listed) /\ Len(c) = Len(a) + Len(b)
      /\ \A j \in 1..(Len(a) + Len(b)) : c[j] = IF j <= Len(a) THEN a[j] ELSE b[j - Len(a)]
  BY <1>0, ConcatProperties
<1> HIDE DEF c
<1>2. \A j \in 1..Len(a) : j \in 1..Len(c) /\ c[j] = a[j] BY <1>0, <1>1
<1>3. ASSUME NEW j \in 1..Len(b) PROVE Len(a) + j \in 1..Len(c) /\ c[Len(a) + j] = b[j]
  <2>1. Len(a) + j \in 1..(Len(a) + Len(b)) /\ ~(Len(a) + j <= Len(a)) /\ (Len(a) + j) - Len(a) = j BY <1>0
  <2> QED BY <1>1, <2>1
<1>4. ASSUME NEW j \in 1..Len(c)
      PROVE (j \in 1..Len(a) /\ c[j] = a[j]) \/ (j - Len(a) \in 1..Len(b) /\ c[j] = b[j - Len(a)])
  <2>1. j <= Len(a) \/ j - Len(a) \in 1..Len(b) BY <1>0, <1>1
  <2> QED BY <1>0, <1>1, <2>1
<1>5. IdsOf(c) = IdsOf(a) \cup IdsOf(b)
  <2>1. IdsOf(c) \subseteq IdsOf(a) \cup IdsOf(b) BY <1>4 DEF IdsOf
  <2>2. IdsOf(a) \cup IdsOf(b) \subseteq IdsOf(c) BY <1>2, <1>3 DEF IdsOf
  <2> QED BY <2>1, <2>2
<1>6. ~Once(a) => ~Once(c) BY <1>2 DEF Once
<1>7. ASSUME NEW j \in 1..Len(b), b[j] \in IdsOf(a) PROVE ~Once(c)
  <2>1. PICK i \in 1..Len(a) : a[i] = b[j] BY <1>7 DEF IdsOf
  <2>2. c[i] = c[Len(a) + j] /\ i \in 1..Len(c) /\ Len(a) + j \in 1..Len(c) BY <1>2, <1>3, <2>1
  <2>3. i # Len(a) + j BY <1>0
  <2> QED BY <2>2, <2>3 DEF Once
<1> QED BY <1>1, <1>5, <1>6, <1>7 DEF c

\* A page that shows something new shows the last of the rows it pushed down again.
LEMMA PageOldOrTwice ==
  ASSUME list \in Seq(Listed), NEW k \in Nat, k >= 2, NEW Old, NEW got, NEW d \in Nat, d < 2 * PageSize,
         NEW m \in Nat, NEW s \in Nat, Shift(Old, list, got, d, m, s)
  PROVE  IdsOf(Page(k)) \subseteq Old \/ \E j \in 1..Len(Page(k)) : Page(k)[j] \in IdsOf(got)
<1>0. Len(list) \in Nat /\ PageSize \in Nat \ {0} /\ d <= 2 * PageSize - 1
  BY ImportAssumption DEF ImportAssumption
<1>1. /\ m + s <= Len(list) /\ s <= PageSize /\ m + PageSize <= d + s
      /\ \A i \in (m + 1)..Len(list) : list[i] \in Old
      /\ \A i \in (m + 1)..(m + s) : list[i] \in IdsOf(got)
  BY DEF Shift
<1>2. /\ Page(k) \in Seq(Listed) /\ Start(k) \in Nat
      /\ \A j \in 1..Len(Page(k)) :
           Start(k) + j \in 1..Len(list) /\ j <= PageSize /\ Page(k)[j] = list[Start(k) + j]
      /\ \A j \in 1..PageSize : Start(k) + j <= Len(list) => j <= Len(Page(k))
  <2>1. k \in Nat \ {0} OBVIOUS
  <2> QED BY <2>1, PageFacts
<1>3. Start(k) >= PageSize
  <2>1. \A a, b \in Nat : a * b >= 0 OBVIOUS
  <2>2. k - 2 \in Nat OBVIOUS
  <2>3. (k - 2) * PageSize >= 0 BY <1>0, <2>1, <2>2
  <2>4. \A a, b \in Int : (a - 1) * b = (a - 2) * b + b OBVIOUS
  <2>5. Start(k) = (k - 2) * PageSize + PageSize BY <1>0, <2>4 DEF Start
  <2>6. (k - 2) * PageSize \in Int BY <1>0, <2>2
  <2> QED BY <1>0, <2>3, <2>5, <2>6
<1>4. CASE \E j \in 1..Len(Page(k)) : Start(k) + j <= m
  <2>1. PICK j \in 1..Len(Page(k)) : Start(k) + j <= m BY <1>4
  <2>2. j \in Nat /\ j >= 1 /\ j <= PageSize BY <1>2, <2>1
  <2> DEFINE q == m + 1 - Start(k)
  <2>3. q \in 1..PageSize /\ Start(k) + q = m + 1 /\ s >= 1 BY <1>0, <1>1, <1>2, <1>3, <2>1, <2>2
  <2>4. Start(k) + q <= Len(list) /\ m + 1 \in (m + 1)..(m + s) BY <1>0, <1>1, <2>3
  <2>5. q <= Len(Page(k)) BY <1>2, <2>3, <2>4
  <2>6. q \in 1..Len(Page(k)) BY <1>2, <2>3, <2>5
  <2> HIDE DEF q
  <2>7. Page(k)[q] = list[m + 1] BY <1>2, <2>3, <2>6
  <2>8. list[m + 1] \in IdsOf(got) BY <1>1, <2>4
  <2> QED BY <2>6, <2>7, <2>8
<1>5. CASE ~\E j \in 1..Len(Page(k)) : Start(k) + j <= m
  <2>1. \A j \in 1..Len(Page(k)) : Start(k) + j \in (m + 1)..Len(list) BY <1>0, <1>2, <1>5
  <2> QED BY <1>1, <1>2, <2>1 DEF IdsOf
<1> QED BY <1>4, <1>5

\* What the steps of the run need of the server's side.
LEMMA ReadTypes ==
  ASSUME Typed
  PROVE  /\ list \in Seq(Listed) /\ Once(list) /\ Len(list) \in Nat /\ IdsOf(list) \subseteq Listed
         /\ pipe \in Pipeline /\ pipe.got \in Seq(Listed) /\ Len(pipe.got) \in Nat /\ pipe.total \in Nat
         /\ drift \in Nat /\ pipe.page \in Nat /\ (At("paging") => pipe.page >= 2)
         /\ PageSize \in Nat \ {0} /\ steady \subseteq first /\ first \subseteq Listed
<1>1. list \in Seq(Listed) /\ Once(list) /\ pipe \in Pipeline BY DEF Typed, ListOK, PipeOK
<1>2. pipe.got \in Seq(Listed) /\ pipe.total \in Nat /\ pipe.page \in Nat BY <1>1 DEF Pipeline
<1> QED BY <1>1, <1>2, IdsOfSeq, ImportAssumption DEF Typed, ListOK, PipeOK, ImportAssumption

LEMMA FirstPageWhole == ASSUME Typed, FirstPage PROVE Whole' /\ Counted'
<1>o. PICK Old \in SUBSET Listed : Old = IdsOf(list) BY ReadTypes
<1>0. /\ pipe' = [Idle EXCEPT !.at = "paging", !.got = Page(1), !.total = Len(list), !.page = 2]
      /\ first' = Old /\ absent' = Listed \ Old /\ list' = list /\ drift' = 0
  BY <1>o DEF FirstPage
<1>1. pipe.got' = Page(1) /\ pipe.total' = Len(list) BY <1>0 DEF Idle
<1>2. Old \in SUBSET Listed /\ Cardinality(Old) = Len(list) BY <1>o, ReadTypes, OnceIffFull
<1>3. /\ Page(1) \in Seq(Listed) /\ Start(1) = 0
      /\ \A j \in 1..Len(Page(1)) : j \in 1..Len(list) /\ j <= PageSize /\ Page(1)[j] = list[j]
      /\ \A j \in 1..PageSize : j <= Len(list) => j <= Len(Page(1))
  <2>1. Start(1) = 0 BY ReadTypes DEF Start
  <2>2. /\ Page(1) \in Seq(Listed)
        /\ \A j \in 1..Len(Page(1)) :
             Start(1) + j \in 1..Len(list) /\ j <= PageSize /\ Page(1)[j] = list[Start(1) + j]
        /\ \A j \in 1..PageSize : Start(1) + j <= Len(list) => j <= Len(Page(1))
    BY ReadTypes, PageFacts
  <2>3. \A j \in Nat : 0 + j = j OBVIOUS
  <2>4. Len(Page(1)) \in Nat /\ PageSize \in Nat BY <2>2, ReadTypes
  <2>5. \A j \in 1..Len(Page(1)) : Start(1) + j = j BY <2>1, <2>3, <2>4
  <2>6. \A j \in 1..PageSize : Start(1) + j = j BY <2>1, <2>3, <2>4
  <2>7. \A j \in 1..Len(Page(1)) : j \in 1..Len(list) /\ j <= PageSize /\ Page(1)[j] = list[j]
    <3> SUFFICES ASSUME NEW j \in 1..Len(Page(1))
                 PROVE j \in 1..Len(list) /\ j <= PageSize /\ Page(1)[j] = list[j]
      OBVIOUS
    <3>1. Start(1) + j = j BY <2>5
    <3> QED BY <2>2, <3>1
  <2>8. \A j \in 1..PageSize : j <= Len(list) => j <= Len(Page(1))
    <3> SUFFICES ASSUME NEW j \in 1..PageSize, j <= Len(list) PROVE j <= Len(Page(1)) OBVIOUS
    <3>1. Start(1) + j = j BY <2>6
    <3>2. Start(1) + j <= Len(list) BY <3>1
    <3>3. Start(1) + j <= Len(list) => j <= Len(Page(1)) BY <2>2
    <3> QED BY <3>2, <3>3
  <2> QED BY <2>1, <2>2, <2>7, <2>8
<1>4. IdsOf(Page(1)) \subseteq Old BY <1>o, <1>3 DEF IdsOf
<1>5. Len(Page(1)) < Len(list) => Shift(Old, list, Page(1), 0, 0, PageSize)
  <2> SUFFICES ASSUME Len(Page(1)) < Len(list) PROVE Shift(Old, list, Page(1), 0, 0, PageSize) OBVIOUS
  <2>0. Len(Page(1)) \in Nat /\ PageSize \in Nat \ {0} /\ Len(list) \in Nat BY <1>3, ReadTypes
  <2>1. PageSize <= Len(Page(1))
    <3>1. CASE PageSize <= Len(list) BY <1>3, <2>0, <3>1
    <3>2. CASE ~(PageSize <= Len(list))
      <4>1. Len(list) \in 1..PageSize BY <2>0, <3>2
      <4> QED BY <1>3, <2>0, <4>1
    <3> QED BY <3>1, <3>2
  <2>2. \A j \in 1..PageSize : j \in 1..Len(Page(1)) /\ list[j] = Page(1)[j] BY <1>3, <2>0, <2>1
  <2>3. \A i \in (0 + 1)..(0 + PageSize) : list[i] \in IdsOf(Page(1)) BY <2>0, <2>2 DEF IdsOf
  <2>4. \A i \in (0 + 1)..Len(list) : list[i] \in Old BY <1>o, <2>0 DEF IdsOf
  <2>5. 0 + PageSize <= Len(list) /\ 0 + PageSize <= 0 + PageSize BY <2>0, <2>1
  <2> QED BY <2>0, <2>3, <2>4, <2>5 DEF Shift
<1>6. WholeOf'
  <2>1. Len(Page(1)) < Len(list) => \E m, k \in Nat : Shift(Old, list, Page(1), 0, m, k) BY <1>5, ReadTypes
  <2>2. Len(pipe.got') < pipe.total' => \E m, k \in Nat : Shift(first', list', pipe.got', drift', m, k)
    BY <1>0, <1>1, <2>1
  <2> QED BY <1>0, <1>1, <1>4, <2>2 DEF WholeOf, Shift
<1>7. Counted'
  <2>1. IdsOf(list') \cap absent' = {} BY <1>0, <1>o
  <2>2. Cardinality(first') = pipe.total' /\ IdsOf(pipe.got') \cap absent' = {} BY <1>0, <1>1, <1>2, <1>4
  <2> QED BY <2>1, <2>2 DEF Counted
<1> QED BY <1>6, <1>7 DEF Whole

LEMMA NextPageWhole == ASSUME Typed, Counted, Whole, NextPage PROVE Whole' /\ Counted'
<1> DEFINE a == pipe.got
           b == Page(pipe.page)
<1>0. /\ At("paging") /\ Len(a) < pipe.total
      /\ pipe' = [pipe EXCEPT !.got = a \o b, !.page = @ + 1]
      /\ UNCHANGED <<list, absent, first, drift, inFront>>
  BY DEF NextPage, observers
<1>1. pipe.got' = a \o b /\ pipe.total' = pipe.total BY <1>0, ReadTypes DEF Pipeline
<1>2. b \in Seq(Listed) /\ a \in Seq(Listed) /\ IdsOf(b) \subseteq IdsOf(list)
  <2>1. pipe.page \in Nat \ {0} BY <1>0, ReadTypes
  <2>2. /\ b \in Seq(Listed)
        /\ \A j \in 1..Len(b) : Start(pipe.page) + j \in 1..Len(list) /\ b[j] = list[Start(pipe.page) + j]
    BY <2>1, ReadTypes, PageFacts
  <2> HIDE DEF b
  <2> QED BY <2>2, ReadTypes DEF IdsOf
<1>3. ASSUME Orderly
      PROVE  \E m, k \in Nat :
               /\ Shift(first, list, a, drift, m, k)
               /\ IdsOf(b) \subseteq first \/ \E j \in 1..Len(b) : b[j] \in IdsOf(a)
  <2>1. PICK m \in Nat, k \in Nat : Shift(first, list, a, drift, m, k) BY <1>0, <1>3 DEF Whole, WholeOf
  <2>2. drift < 2 * PageSize BY <1>3 DEF Orderly
  <2> QED BY <1>0, <2>1, <2>2, ReadTypes, PageOldOrTwice
<1> HIDE DEF a, b
<1>4. IdsOf(a \o b) = IdsOf(a) \cup IdsOf(b) /\ (~Once(a) => ~Once(a \o b))
      /\ ((\E j \in 1..Len(b) : b[j] \in IdsOf(a)) => ~Once(a \o b))
  BY <1>2, AppendFacts
<1>5. ASSUME Orderly PROVE WholeOf'
  <2>1. PICK m \in Nat, k \in Nat :
          /\ Shift(first, list, a, drift, m, k)
          /\ IdsOf(b) \subseteq first \/ \E j \in 1..Len(b) : b[j] \in IdsOf(a)
    BY <1>3, <1>5
  <2>2. IdsOf(a \o b) \subseteq first \/ ~Once(a \o b) BY <1>0, <1>4, <1>5, <2>1 DEF Whole, WholeOf, a
  <2>3. Shift(first, list, a \o b, drift, m, k) BY <1>4, <2>1 DEF Shift
  <2> QED BY <1>0, <1>1, <2>2, <2>3 DEF WholeOf
<1>6. Whole' BY <1>0, <1>5 DEF Whole, Orderly
<1>7. Counted'
  <2>1. IdsOf(a \o b) \cap absent = {} BY <1>0, <1>2, <1>4 DEF Counted, a
  <2> QED BY <1>0, <1>1, <2>1 DEF Counted
<1> QED BY <1>6, <1>7

\* A run that has read its pages stays as orderly as it was.
LEMMA OrderKept == ASSUME Server, ~At("paging"), inFront' PROVE inFront
BY DEF Server, Announce, Close, Move

LEMMA ServerWhole == ASSUME Typed, Counted, Whole, Server PROVE Whole' /\ Counted'
<1>1. PICK l \in Seq(Listed) : Changed(l) /\ (At("paging") /\ inFront' => inFront /\ InFront(l))
  BY ServerSteps
<1>2. UNCHANGED <<pipe, first>> /\ list' = l /\ absent' = absent \ IdsOf(l) BY <1>1 DEF Changed
<1>3. Counted' BY <1>2 DEF Counted, At
<1>4. ASSUME At("paging"), Orderly' PROVE WholeOf'
  <2>1. drift' = drift + 1 /\ inFront' /\ drift + 1 < 2 * PageSize BY <1>1, <1>4 DEF Changed, Orderly
  <2>2. Orderly /\ InFront(l) BY <1>1, <1>4, <2>1, ReadTypes DEF Orderly
  <2>3. WholeOf BY <1>4, <2>2 DEF Whole
  <2>4. ASSUME Len(pipe.got) < pipe.total
        PROVE  \E m, k \in Nat : Shift(first, l, pipe.got, drift + 1, m, k)
    <3>1. PICK m \in Nat, k \in Nat : Shift(first, list, pipe.got, drift, m, k) BY <2>3, <2>4 DEF WholeOf
    <3>2. ASSUME NEW n \in Listed, l = <<n>> \o list
          PROVE  \E m2, k2 \in Nat : Shift(first, l, pipe.got, drift + 1, m2, k2)
      <4>1. Shift(first, l, pipe.got, drift + 1, m + 1, k) BY <3>1, <3>2, ReadTypes, ShiftByAnnounce
      <4>2. m + 1 \in Nat OBVIOUS
      <4> QED BY <4>1, <4>2
    <3>3. ASSUME NEW i \in 1..Len(list), l = Without(list, i)
          PROVE  \E m2, k2 \in Nat : Shift(first, l, pipe.got, drift + 1, m2, k2)
      BY <3>1, <3>3, ReadTypes, ShiftByClose
    <3> QED BY <2>2, <3>2, <3>3 DEF InFront
  <2>5. Len(pipe.got') < pipe.total' => \E m, k \in Nat : Shift(first', list', pipe.got', drift', m, k)
    BY <1>2, <2>1, <2>4
  <2> QED BY <1>2, <2>3, <2>5 DEF WholeOf
<1> QED BY <1>2, <1>3, <1>4 DEF Whole, At

\* A list that is complete has as many announcements as the first page promised; if the
\* server was orderly it is the list of that moment.
LEMMA CompleteIsFirst ==
  ASSUME Typed, Counted, Whole, At("paging"), IsComplete(pipe.got, pipe.total)
  PROVE  /\ absent \cap IdsOf(pipe.got) = {} /\ Cardinality(IdsOf(pipe.got)) = Cardinality(first)
         /\ Orderly => steady \subseteq IdsOf(pipe.got)
<1>1. Once(pipe.got) /\ Cardinality(IdsOf(pipe.got)) = pipe.total BY ReadTypes, OnceIffFull DEF IsComplete
<1>2. Cardinality(first) = pipe.total /\ IdsOf(pipe.got) \cap absent = {} BY DEF Counted
<1>3. ASSUME Orderly PROVE steady \subseteq IdsOf(pipe.got)
  <2>1. IdsOf(pipe.got) \subseteq first BY <1>1, <1>3 DEF Whole, WholeOf
  <2>2. IsFiniteSet(first) BY ListedFinite, ReadTypes
  <2>3. IdsOf(pipe.got) = first BY <1>1, <1>2, <2>1, <2>2, FS_Subset
  <2> QED BY <2>3, ReadTypes
<1> QED BY <1>1, <1>2, <1>3

LEMMA AcceptListing ==
  ASSUME Typed, Counted, Whole, Accept \/ AcceptForced
  PROVE  Listing' /\ Whole' /\ Counted'
<1>1. /\ At("paging") /\ out.ids' = IdsOf(pipe.got) /\ UNCHANGED <<list, steady, absent, first, drift, inFront>>
      /\ pipe' = [Idle EXCEPT !.at = "bizinfo", !.whole = IsComplete(pipe.got, pipe.total)]
  BY DEF Accept, AcceptForced, observers
<1>2. pipe.whole' = IsComplete(pipe.got, pipe.total) /\ ~At("paging")' BY <1>1 DEF Idle, At
<1>3. Whole' /\ Counted' BY <1>1, <1>2 DEF Whole, Counted
<1>4. pipe.whole' => /\ absent' \cap out.ids' = {} /\ Cardinality(out.ids') = Cardinality(first')
                     /\ Orderly => steady' \subseteq out.ids'
  BY <1>1, <1>2, CompleteIsFirst
<1>5. Orderly' => Orderly BY <1>1 DEF Orderly
<1> QED BY <1>3, <1>4, <1>5 DEF Listing

LEMMA NextWhole ==
  ASSUME Typed, Counted, Whole, Listing, [Next]_vars
  PROVE  Counted' /\ Whole' /\ Listing'
<1> USE DEF fetched, observers
<1>0. ASSUME UNCHANGED <<list, first, absent, drift, inFront>>
      PROVE  (Orderly' => Orderly) /\ (~At("paging")' => Counted' /\ Whole')
  BY <1>0 DEF Orderly, Counted, Whole
<1>1. CASE UNCHANGED vars BY <1>1 DEF vars, Counted, Whole, WholeOf, Shift, Listing, Orderly, At
<1>2. CASE Server
  <2>1. PICK l \in Seq(Listed) : Changed(l) BY <1>2, ServerSteps
  <2>2. steady' \subseteq steady /\ absent' \subseteq absent /\ UNCHANGED <<out, pipe, first>>
    BY <2>1 DEF Changed
  <2>3. ~At("paging") => drift' = drift BY <2>1 DEF Changed
  <2>4. ~At("paging") /\ inFront' => inFront BY <1>2, OrderKept
  <2>5. Listing'
    <3> SUFFICES ASSUME (At("bizinfo") \/ At("normalize") \/ At("store"))', pipe.whole'
                 PROVE  /\ absent' \cap out.ids' = {} /\ Cardinality(out.ids') = Cardinality(first')
                        /\ Orderly' => steady' \subseteq out.ids'
      BY DEF Listing
    <3>1. (At("bizinfo") \/ At("normalize") \/ At("store")) /\ pipe.whole /\ ~At("paging") BY <2>2 DEF At
    <3>2. Orderly' => Orderly BY <2>3, <2>4, <3>1 DEF Orderly
    <3> QED BY <2>2, <3>1, <3>2 DEF Listing
  <2> QED BY <1>2, <2>5, ServerWhole
<1>3. CASE FirstPage
  <2>1. pipe.at' = "paging" BY <1>3 DEF FirstPage, Idle
  <2> QED BY <1>3, <2>1, FirstPageWhole DEF Listing, At
<1>4. CASE NextPage
  <2>1. pipe' = [pipe EXCEPT !.got = pipe.got \o Page(pipe.page), !.page = @ + 1] /\ pipe.at = "paging"
    BY <1>4 DEF NextPage, At
  <2>2. pipe.at' = "paging" BY <2>1, ReadTypes DEF Pipeline
  <2> QED BY <1>4, <2>2, NextPageWhole DEF Listing, At
<1>5. CASE Accept \/ AcceptForced BY <1>5, AcceptListing
<1>6. CASE Refuse \/ FetchFails
  <2>1. pipe.at' = "bizinfo" /\ ~pipe.whole' BY <1>6 DEF Refuse, FetchFails, Idle
  <2>2. UNCHANGED <<list, first, absent, drift, inFront>> BY <1>6 DEF Refuse, FetchFails
  <2> QED BY <1>0, <2>1, <2>2 DEF Listing, At
<1>7. CASE FetchBizinfo \/ BizinfoFails \/ (Normalize /\ pipe' # Idle)
  <2>1. /\ UNCHANGED <<list, out, observers>> /\ pipe.at \in {"bizinfo", "normalize"}
        /\ \/ \E i : pipe' = [pipe EXCEPT !.at = "normalize", !.input = i]
           \/ \E i : pipe' = [pipe EXCEPT !.at = "store", !.stamp = i]
    BY <1>7 DEF FetchBizinfo, BizinfoFails, Normalize, At
  <2>2. pipe.at' \in {"normalize", "store"} /\ pipe.whole' = pipe.whole BY <2>1, ReadTypes DEF Pipeline
  <2> QED BY <1>0, <2>1, <2>2 DEF Listing, At
<1>8. CASE pipe' = Idle /\ UNCHANGED <<list, observers>>
  <2>1. pipe.at' = "idle" BY <1>8, IdleTypes
  <2> QED BY <1>0, <1>8, <2>1 DEF Listing, At
<1>9. CASE \E f \in files : StoreByHand(f)
  <2>1. UNCHANGED <<list, out, pipe, observers>> BY <1>9 DEF StoreByHand
  <2> QED BY <2>1 DEF Counted, Whole, WholeOf, Shift, Listing, Orderly, At
<1>10. /\ Store \/ StoreRefused \/ StoreFails \/ Crash => pipe' = Idle /\ UNCHANGED <<list, observers>>
       /\ Normalize => UNCHANGED <<list, observers>>
  BY DEF Store, StoreRefused, StoreFails, Crash, Normalize
<1> QED BY <1>1, <1>2, <1>3, <1>4, <1>5, <1>6, <1>7, <1>8, <1>9, <1>10 DEF Next, Server

LEMMA InitWhole == Init => Counted /\ Whole /\ Listing
BY IdleTypes DEF Init, Counted, Whole, Listing, At

-----------------------------------------------------------------------------
(* What that means for the table *)

LEMMA ListedNow ==
  ASSUME Typed, Listing, Store, ListedIds # {}
  PROVE  /\ ListedIds = out.ids /\ absent \cap out.ids = {} /\ Cardinality(out.ids) = Cardinality(first)
         /\ Orderly => steady \subseteq out.ids
BY DEF ListedIds, Listing, Store

LEMMA ClosedIsGone ==
  ASSUME Typed, Listing, [Next]_vars, Orderly
  PROVE  \A n \in Listed : row[n].status = "open" /\ row'[n].status = "closed" => n \notin steady
<1> SUFFICES ASSUME NEW n \in Listed, row[n].status = "open", row'[n].status = "closed" PROVE n \notin steady
  OBVIOUS
<1>0. n \in Notices /\ row'[n] # row[n] BY DEF Notices
<1>1. ASSUME NEW f \in files PROVE Upserted(f)[n].status # "closed"
  <2>1. CASE Upserted(f)[n] = row[n] BY <2>1
  <2>2. CASE Upserted(f)[n] = [status |-> IF n \in Listed THEN "open" ELSE "unknown",
                               stamp |-> f.stamp, fetch |-> f.fetch[n]]
    BY <2>2
  <2> QED BY <1>0, <2>1, <2>2, UpsertedFacts
<1>2. CASE Store
  <2>1. ThisFile \in files BY <1>2, ThisFileFacts DEF Store
  <2>2. ListedIds # {} /\ n \notin ListedIds BY <1>0, <1>1, <1>2, <2>1, StoreFacts
  <2> QED BY <1>2, <2>2, ListedNow
<1>3. CASE \E f \in files : StoreByHand(f) BY <1>1, <1>3 DEF StoreByHand
<1>4. CASE UNCHANGED row BY <1>0, <1>4
<1>5. \/ UNCHANGED row \/ Store \/ \E f \in files : StoreByHand(f)
  BY DEF Next, vars, Announce, Close, Move, Changed, FirstPage, NextPage, Accept, AcceptForced, Refuse, FetchFails,
         FetchBizinfo, BizinfoFails, Normalize, StoreRefused, StoreFails, Crash
<1> QED BY <1>2, <1>3, <1>4, <1>5

\* Two finite sets of one size lack as many of each other's elements.
LEMMA AsManyMissing ==
  ASSUME NEW S, NEW T, IsFiniteSet(S), IsFiniteSet(T), Cardinality(S) = Cardinality(T)
  PROVE  Cardinality(S \ T) = Cardinality(T \ S)
<1>1. Cardinality(S \ T) = Cardinality(S) - Cardinality(S \cap T) BY FS_Difference
<1>2. Cardinality(T \ S) = Cardinality(T) - Cardinality(T \cap S) BY FS_Difference
<1>3. S \cap T = T \cap S OBVIOUS
<1> QED BY <1>1, <1>2, <1>3

LEMMA StoreMirrors ==
  ASSUME Typed, Listing, Store, ListedIds # {}, NEW missed, missed = {n \in steady : row'[n].status # "open"}
  PROVE  /\ \A n \in absent : row'[n].status # "open"
         /\ Cardinality(missed) <= Cardinality(out.ids \ first)
         /\ Orderly => missed = {}
<1>0. /\ ThisFile \in files /\ ThisFile.stamp = runs /\ DOMAIN ThisFile.fetch \cap Listed = out.ids
      /\ \A g \in files : g.stamp >= runs => g = ThisFile
  BY ThisFileFacts DEF Store
<1>1. /\ ListedIds = out.ids /\ absent \cap out.ids = {} /\ Cardinality(out.ids) = Cardinality(first)
      /\ Orderly => steady \subseteq out.ids
  BY ListedNow
<1>2. /\ steady \subseteq first /\ first \subseteq Listed /\ absent \subseteq Listed /\ Listed \subseteq Notices
      /\ out.ids \subseteq Listed
  BY DEF Typed, ListOK, OutOK, Notices
<1>3. \A n \in Notices : row[n].stamp \in Nat /\ row[n].stamp <= runs /\ runs \in Nat
  BY FetchNats DEF Typed, RowsOK
<1>4. ASSUME NEW n \in steady, n \in out.ids PROVE row'[n].status = "open"
  <2>1. n \in Listed /\ n \in Notices BY <1>2
  <2>2. n \in DOMAIN ThisFile.fetch /\ ~(row[n].stamp > ThisFile.stamp) BY <1>0, <1>3, <1>4, <2>1
  <2>3. Upserted(ThisFile)[n] = [status |-> IF n \in Listed THEN "open" ELSE "unknown",
                                stamp |-> ThisFile.stamp, fetch |-> ThisFile.fetch[n]]
    BY <1>0, <2>1, <2>2, UpsertedFacts
  <2>4. Upserted(ThisFile)[n].status = "open" BY <2>1, <2>3
  <2>5. row'[n] = Upserted(ThisFile)[n] BY <1>1, <1>4, <2>1, StoreFacts
  <2> QED BY <2>4, <2>5
<1>5. ASSUME NEW n \in absent, row'[n].status = "open" PROVE FALSE
  <2>1. n \in Listed /\ n \in Notices /\ n \notin out.ids /\ n \notin DOMAIN ThisFile.fetch BY <1>0, <1>1, <1>2
  <2>2. row'[n] = Upserted(ThisFile)[n] BY <1>5, <2>1, StoreFacts
  <2>3. Upserted(ThisFile)[n] = row[n] BY <1>0, <2>1, UpsertedFacts
  <2>4. PICK g \in files : g.stamp = row[n].stamp /\ n \in DOMAIN g.fetch
    BY <1>5, <2>1, <2>2, <2>3 DEF Typed, RowsOK
  <2>5. ~(row[n].stamp >= runs) BY <1>0, <2>1, <2>4
  <2>6. row'[n].status = "closed" BY <1>1, <1>5, <2>1, <2>2, <2>3, <2>5, StoreFacts
  <2> QED BY <1>5, <2>6
<1>6. missed \subseteq first \ out.ids BY <1>2, <1>4
<1>7. Cardinality(missed) <= Cardinality(out.ids \ first)
  <2>1. IsFiniteSet(first) /\ IsFiniteSet(out.ids) BY <1>2, ListedFinite
  <2>2. Cardinality(first \ out.ids) = Cardinality(out.ids \ first) BY <1>1, <2>1, AsManyMissing
  <2>3. IsFiniteSet(first \ out.ids) BY <2>1, FS_Difference
  <2> QED BY <1>6, <2>2, <2>3, FS_Subset
<1>8. Orderly => missed = {} BY <1>1, <1>4
<1> QED BY <1>5, <1>7, <1>8

LEMMA WholeInvariant == Spec => [](Typed /\ Counted /\ Whole /\ Listing)
BY InitTyped, NextTyped, InitWhole, NextWhole, PTL DEF Spec

\* An announcement that was listed all through the fetch is never closed, as long as
\* what entered the list meanwhile came in front and fewer than two pages changed.
THEOREM OnlyGoneIsClosed == Spec => ClosedOnlyIfGone
<1>1. Typed /\ Listing /\ [Next]_vars =>
        [Orderly =>
           \A n \in Listed : row[n].status = "open" /\ row'[n].status = "closed" => n \notin steady]_vars
  BY ClosedIsGone
<1> QED BY <1>1, WholeInvariant, PTL DEF Spec, ClosedOnlyIfGone

\* A run that has a list that counts as whole leaves open nothing that was not listed,
\* and misses at most as many as entered and were read, whatever the server's order.
THEOREM TableMirrorsServer == Spec => RunMirrorsServer
<1>1. Typed /\ Listing /\ [Next]_vars =>
        [Store /\ ListedIds # {} =>
           LET missed == {n \in steady : row'[n].status # "open"} IN
           /\ \A n \in absent : row'[n].status # "open"
           /\ Cardinality(missed) <= Cardinality(out.ids \ first)
           /\ Orderly => missed = {}]_vars
  <2>1. ASSUME Typed, Listing, Store, ListedIds # {}
        PROVE  LET missed == {n \in steady : row'[n].status # "open"} IN
               /\ \A n \in absent : row'[n].status # "open"
               /\ Cardinality(missed) <= Cardinality(out.ids \ first)
               /\ Orderly => missed = {}
    BY <2>1, StoreMirrors
  <2> QED BY <2>1
<1> QED BY <1>1, WholeInvariant, PTL DEF Spec, RunMirrorsServer
=============================================================================
