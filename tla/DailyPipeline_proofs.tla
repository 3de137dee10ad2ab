------------------------ MODULE DailyPipeline_proofs ------------------------
(***************************************************************************)
(* What the stages of the day guarantee for any notices, versions and      *)
(* faults, and for any limits.                                             *)
(***************************************************************************)
EXTENDS DailyPipeline, FiniteSetTheorems, TLAPS

-----------------------------------------------------------------------------
(* Files in the database *)

\* No file that a crash has left half written gets into the database: the upload
\* compares the bytes with the name (collect/upload_attachments.py).
THEOREM WholeFiles == Spec => []UploadedFilesAreWhole
<1>1. Init => UploadedFilesAreWhole BY DEF Init, TextsInit, UploadedFilesAreWhole
<1>2. UploadedFilesAreWhole /\ [Next]_vars => UploadedFilesAreWhole'
  <2> SUFFICES ASSUME UploadedFilesAreWhole, [Next]_vars PROVE UploadedFilesAreWhole' OBVIOUS
  <2>u. UNCHANGED remote => UploadedFilesAreWhole' BY DEF UploadedFilesAreWhole
  <2>1. ASSUME NEW some \in SUBSET Uploadable, UploadFiles(some) PROVE UploadedFilesAreWhole'
    BY <2>1 DEF UploadFiles, Uploadable, Intact, UploadedFilesAreWhole
  <2>2. CASE PlanTexts \/ PlanRaises \/ SaveLine \/ FinishTexts \/ AttachFails
    BY <2>2, <2>u DEF PlanTexts, PlanRaises, SaveLine, FinishTexts, AttachFails, textVars
  <2>3. ASSUME NEW t \in pending, (\E outcome \in Outcomes : Download(t, outcome)) \/ CrashDownloading(t)
        PROVE  UploadedFilesAreWhole'
    BY <2>3, <2>u DEF Download, CrashDownloading
  <2>4. CASE Attach BY <2>1, <2>2, <2>3, <2>4 DEF Attach, TextsStep
  <2>5. CASE \/ StartRun \/ Vectorise \/ Judge \/ Crash \/ NextDay \/ UNCHANGED vars
             \/ \E n \in Notices : ImportNotice(n)
    BY <2>5, <2>u DEF StartRun, Vectorise, Judge, Crash, TextsStopped, NextDay, ImportNotice, textVars, vars
  <2> QED BY <2>4, <2>5 DEF Next
<1> QED BY <1>1, <1>2, PTL DEF Spec

-----------------------------------------------------------------------------
(* The limit of a day *)

\* What a run has counted before its calls covers what was spent today; a run that goes
\* on after midnight has spent nothing of the new day.
Counted ==
  /\ ask.todo \subseteq Notices
  /\ ask.attempted \in Nat /\ ask.attempted <= DailyLimit
  /\ state.attempted \in Nat /\ state.attempted <= DailyLimit
  /\ spent \in Nat /\ spent <= AttemptedToday(state)
  /\ ask.at # "off" /\ ask.today => ask.attempted = AttemptedToday(state)
  /\ ask.at # "off" /\ ~ask.today => spent = 0
  /\ ask.at = "count" => ask.attempted + Cardinality(ask.todo) <= DailyLimit
  /\ ask.at = "call" /\ ask.today => spent + Cardinality(ask.todo) <= ask.attempted

\* The records of a run and of the state file have their fields.
Shape == ask \in Asks /\ state \in State

LEMMA TodoCount == ASSUME NEW T \in SUBSET Notices PROVE Cardinality(T) \in Nat
<1>1. IsFiniteSet(T) BY StagesAssumption, FS_Subset DEF StagesAssumption
<1> QED BY <1>1, FS_CardinalityType

LEMMA OffCounted ==
  ASSUME Counted, ask' = Off, UNCHANGED <<state, spent>> PROVE Counted'
<1>1. Off.at = "off" /\ Off.todo = {} /\ Off.attempted = 0 BY DEF Off
<1>2. AttemptedToday(state)' = AttemptedToday(state) BY DEF AttemptedToday
<1> QED BY <1>1, <1>2, JudgmentsAssumption DEF Counted, JudgmentsAssumption

LEMMA LoadCounted ==
  ASSUME Counted, Shape, ask.at = "off", NEW owner \in Owners, Load(owner), UNCHANGED <<state, spent>>
  PROVE  Counted'
<1> DEFINE a == AttemptedToday(state)
           k == IF a < DailyLimit THEN DailyLimit - a ELSE 0
           existing == Existing(checkpoint)
           want == {n \in Notices : existing[n] # Document(n) /\ ~GaveUp(n, state.failures)}
<1>1. a \in Nat /\ a <= DailyLimit /\ DailyLimit \in Nat
  BY JudgmentsAssumption DEF Counted, AttemptedToday, JudgmentsAssumption
<1>2. k \in Nat /\ a + k <= DailyLimit BY <1>1
<1>3. PICK todo \in FirstOf(want, k) :
        ask' = [Off EXCEPT !.at = IF todo = {} THEN "save" ELSE "count", !.owner = owner, !.today = TRUE,
                           !.docs = [n \in Notices |-> Document(n)], !.existing = existing, !.todo = todo,
                           !.attempted = a, !.failures = state.failures]
  BY DEF Load
<1>4. /\ ask'.at = (IF todo = {} THEN "save" ELSE "count") /\ ask'.todo = todo
      /\ ask'.attempted = a /\ ask'.today = TRUE
  BY <1>3 DEF Off
<1>5. todo \subseteq Notices /\ Cardinality(todo) <= k /\ Cardinality(todo) \in Nat BY <1>3, TodoCount DEF FirstOf
<1>6. AttemptedToday(state)' = a BY DEF AttemptedToday
<1> HIDE DEF a, k
<1>7. a + Cardinality(todo) <= DailyLimit BY <1>1, <1>2, <1>5
<1> QED BY <1>1, <1>4, <1>5, <1>6, <1>7 DEF Counted, a

LEMMA NextCounted == Counted /\ Shape /\ [Next]_vars => Counted'
<1> SUFFICES ASSUME Counted, Shape, [Next]_vars PROVE Counted' OBVIOUS
<1>t. AttemptedToday(state) \in Nat BY DEF Counted, AttemptedToday
<1>k. UNCHANGED state => AttemptedToday(state)' = AttemptedToday(state) BY DEF AttemptedToday
<1>u. UNCHANGED <<ask, state, spent>> => Counted' BY <1>k DEF Counted
<1>1. ASSUME StageRuns \/ OperatorRuns PROVE Counted'
  BY <1>1, LoadCounted DEF StageRuns, OperatorRuns, Unasked, Owners
<1>2. ASSUME CountCalls PROVE Counted'
  <2> DEFINE c == Cardinality(ask.todo)
  <2>1. c \in Nat BY TodoCount DEF Counted
  <2>2. ask' = [ask EXCEPT !.at = "call", !.attempted = @ + c] /\ UNCHANGED spent /\ ask.at = "count" BY <1>2 DEF CountCalls
  <2>3. ask'.at = "call" /\ ask'.todo = ask.todo /\ ask'.attempted = ask.attempted + c /\ ask'.today = ask.today
    BY <2>2 DEF Shape, Asks
  <2>4. state'.today = ask.today /\ state'.attempted = ask.attempted + c BY <1>2 DEF CountCalls, SavedState
  <2>5. AttemptedToday(state)' = IF ask.today THEN ask.attempted + c ELSE 0 BY <2>4 DEF AttemptedToday
  <2>6. Cardinality(ask.todo)' = c BY <2>3
  <2> HIDE DEF c
  <2>7. ask.attempted + c <= DailyLimit BY <2>2 DEF Counted, c
  <2>8. CASE ask.today BY <2>1, <2>2, <2>3, <2>4, <2>5, <2>6, <2>7, <2>8 DEF Counted
  <2>9. CASE ~ask.today BY <2>1, <2>2, <2>3, <2>4, <2>5, <2>6, <2>7, <2>9 DEF Counted
  <2> QED BY <2>8, <2>9
<1>3. ASSUME Call PROVE Counted'
  <2> DEFINE c == Cardinality(ask.todo)
  <2>1. c \in Nat BY TodoCount DEF Counted
  <2>2. ask' = [ask EXCEPT !.at = "answers"] /\ UNCHANGED state /\ ask.at = "call" BY <1>3 DEF Call
  <2>3. ask'.at = "answers" /\ ask'.todo = ask.todo /\ ask'.attempted = ask.attempted /\ ask'.today = ask.today
    BY <2>2 DEF Shape, Asks
  <2>4. spent' = IF ask.today THEN spent + c ELSE spent BY <1>3 DEF Call
  <2> HIDE DEF c
  <2>5. CASE ask.today
    <3>1. spent + c <= ask.attempted /\ ask.attempted = AttemptedToday(state) BY <2>2, <2>5 DEF Counted, c
    <3> QED BY <1>k, <2>1, <2>2, <2>3, <2>4, <2>5, <3>1 DEF Counted
  <2>6. CASE ~ask.today BY <1>k, <2>2, <2>3, <2>4, <2>6 DEF Counted
  <2> QED BY <2>5, <2>6
<1>4. ASSUME NEW n \in ask.todo, Answer(n) \/ NoAnswer(n) PROVE Counted'
  <2>1. /\ ask'.at \in {"save", "answers"} /\ ask'.todo = ask.todo \ {n} /\ ask'.attempted = ask.attempted
        /\ ask'.today = ask.today
    BY <1>4 DEF Answer, NoAnswer, Shape, Asks, After, Rest
  <2>2. UNCHANGED <<state, spent>> /\ ask.at # "off" BY <1>4 DEF Answer, NoAnswer
  <2> QED BY <1>k, <2>1, <2>2 DEF Counted
<1>5. ASSUME SaveState PROVE Counted'
  <2>1. ask'.at = "write" /\ ask'.todo = ask.todo /\ ask'.attempted = ask.attempted /\ ask'.today = ask.today
    BY <1>5 DEF SaveState, Shape, Asks
  <2>2. UNCHANGED spent /\ ask.at = "save" /\ state'.today = ask.today /\ state'.attempted = ask.attempted
    BY <1>5 DEF SaveState, SavedState
  <2>3. AttemptedToday(state)' = IF ask.today THEN ask.attempted ELSE 0 BY <2>2 DEF AttemptedToday
  <2> QED BY <2>1, <2>2, <2>3 DEF Counted
<1>6. ASSUME WriteResults PROVE Counted'
  <2>1. ask'.at = "drop" /\ ask'.todo = ask.todo /\ ask'.attempted = ask.attempted /\ ask'.today = ask.today
    BY <1>6 DEF WriteResults, Shape, Asks
  <2>2. UNCHANGED <<state, spent>> /\ ask.at # "off" BY <1>6 DEF WriteResults
  <2> QED BY <1>k, <2>1, <2>2 DEF Counted
<1>7. ASSUME DropCheckpoint \/ OperatorCrash PROVE Counted'
  BY <1>7, OffCounted DEF DropCheckpoint, OperatorCrash, AskCut
<1>8. ASSUME StageSkipped \/ \E some \in SUBSET ToJudge : UploadJudgments(some) PROVE Counted'
  BY <1>8, <1>u DEF StageSkipped, UploadJudgments, Unasked
<1>9. CASE Judge BY <1>1, <1>2, <1>3, <1>4, <1>5, <1>6, <1>7, <1>8, <1>9 DEF Judge, JudgmentsStep, RunStep
<1>10. CASE Crash BY <1>10, <1>u, OffCounted DEF Crash, AskCut, judgeVars
<1>11. CASE NextDay
  <2>1. /\ ask'.at = ask.at /\ ask'.todo = ask.todo /\ ask'.attempted = ask.attempted /\ ask'.today = FALSE
        /\ state'.attempted = state.attempted /\ state'.today = FALSE /\ spent' = 0
    BY <1>11 DEF NextDay, NextDate, Shape, Asks, State
  <2>2. AttemptedToday(state)' = 0 BY <2>1 DEF AttemptedToday
  <2> QED BY <2>1, <2>2 DEF Counted
<1>12. CASE StartRun \/ Attach \/ Vectorise \/ UNCHANGED vars \/ \E n \in Notices : ImportNotice(n)
  BY <1>12, <1>u DEF StartRun, Attach, Vectorise, ImportNotice, judgeVars, vars
<1> QED BY <1>9, <1>10, <1>11, <1>12 DEF Next

-----------------------------------------------------------------------------
(* Types *)

\* What the types rest on: a run of failures that ends the downloads has not been reached
\* while there are some to make, and lines are stored from the first; a document that is
\* asked about has not been given up.
Typed ==
  /\ TypeOK
  /\ pending # {} => streak < GiveUp
  /\ stage = "texts" => next # 0
  /\ \A n \in ask.todo : ask.failures[n].doc = ask.docs[n] => ask.failures[n].count < MaxFailures

\* The files that grow line by line.
LEMMA LineTypes ==
  ASSUME NEW R, NEW file \in Seq(Line(R)), NEW r \in R
  PROVE  /\ Written(file, r) \in Seq(Line(R)) /\ Len(Written(file, r)) >= Len(file)
         /\ \A f \in Cut(file, r) : f \in Seq(Line(R)) /\ Len(f) >= Len(file)
<1> DEFINE line(row, open, bad) == [row |-> row, open |-> open, bad |-> bad]
<1>1. \A row \in {{}, {r}}, open \in BOOLEAN, bad \in BOOLEAN : line(row, open, bad) \in Line(R) BY DEF Line
<1>2. ASSUME Open(file), NEW l \in Line(R)
      PROVE  [file EXCEPT ![Len(file)] = l] \in Seq(Line(R)) /\ Len([file EXCEPT ![Len(file)] = l]) = Len(file)
  <2>1. Len(file) \in 1..Len(file) BY <1>2 DEF Open
  <2> QED BY <2>1
<1>3. ASSUME NEW l \in Line(R)
      PROVE  Append(file, l) \in Seq(Line(R)) /\ Len(Append(file, l)) >= Len(file)
  OBVIOUS
<1>4. Open(file) => file[Len(file)].bad \in BOOLEAN
  <2> SUFFICES ASSUME Open(file) PROVE file[Len(file)].bad \in BOOLEAN OBVIOUS
  <2>1. Len(file) \in 1..Len(file) BY DEF Open
  <2>2. file[Len(file)] \in Line(R) BY <2>1
  <2> QED BY <2>2 DEF Line
<1>5. Len(file) >= Len(file) OBVIOUS
<1>6. Written(file, r) \in Seq(Line(R)) /\ Len(Written(file, r)) >= Len(file)
  <2>1. CASE Open(file)
    <3> DEFINE l == line({}, FALSE, file[Len(file)].bad)
    <3>1. Written(file, r) = [file EXCEPT ![Len(file)] = l] BY <2>1 DEF Written
    <3>2. l \in Line(R) BY <1>1, <1>4, <2>1
    <3> HIDE DEF l
    <3> QED BY <1>2, <1>5, <2>1, <3>1, <3>2
  <2>2. CASE ~Open(file)
    <3> DEFINE l == line({r}, FALSE, FALSE)
    <3>1. Written(file, r) = Append(file, l) BY <2>2 DEF Written
    <3>2. l \in Line(R) BY <1>1
    <3> HIDE DEF l
    <3> QED BY <1>3, <3>1, <3>2
  <2> QED BY <2>1, <2>2
<1>7. ASSUME NEW f \in Cut(file, r) PROVE f \in Seq(Line(R)) /\ Len(f) >= Len(file)
  <2>1. CASE Open(file) /\ f # file
    <3>1. PICK b \in BOOLEAN : f = [file EXCEPT ![Len(file)] = line({}, TRUE, b \/ file[Len(file)].bad)]
      BY <1>7, <2>1 DEF Cut
    <3> DEFINE l == line({}, TRUE, b \/ file[Len(file)].bad)
    <3>2. l \in Line(R)
      <4>1. (b \/ file[Len(file)].bad) \in BOOLEAN OBVIOUS
      <4> QED BY <1>1, <4>1
    <3>3. f = [file EXCEPT ![Len(file)] = l] BY <3>1
    <3> HIDE DEF l
    <3> QED BY <1>2, <1>5, <2>1, <3>2, <3>3
  <2>2. CASE ~Open(file) /\ f # file
    <3>1. PICK l \in {line({}, TRUE, b) : b \in BOOLEAN} \cup {line({r}, TRUE, FALSE)} : f = Append(file, l)
      BY <1>7, <2>2 DEF Cut
    <3>2. l \in Line(R) BY <1>1
    <3> QED BY <1>3, <3>1, <3>2
  <2>3. CASE f = file BY <1>5, <2>3
  <2> QED BY <2>1, <2>2, <2>3
<1> QED BY <1>6, <1>7

TextsTyped == TextsOK /\ (pending # {} => streak < GiveUp) /\ (stage = "texts" => next # 0)
JudgmentsTyped ==
  JudgmentsOK /\ \A n \in ask.todo : ask.failures[n].doc = ask.docs[n] => ask.failures[n].count < MaxFailures

LEMMA TypedParts == Typed <=> SharedOK /\ TextsTyped /\ VectorsOK /\ JudgmentsTyped
BY DEF Typed, TypeOK, TextsTyped, VectorsOK, JudgmentsTyped

\* What a download leaves: a result about the attachment it was for.
LEMMA ResultTypes ==
  ASSUME SharedOK, TextsOK, NEW t \in pending, NEW outcome \in Outcomes
  PROVE  Result(t, outcome) \in Results
<1>1. t \in [n : Notices, src : 1..MaxVersion] BY DEF TextsOK
<1>2. served[t.n] \in 1..MaxVersion BY <1>1 DEF SharedOK
<1>3. (IF outcome = "ok" THEN served[t.n] ELSE 0) \in 0..MaxVersion BY <1>2, StagesAssumption DEF StagesAssumption
<1>4. (IF Fails(outcome) THEN "fail" ELSE outcome) \in {"ok", "fail", "final"} BY DEF Outcomes, Fails
<1> QED BY <1>1, <1>3, <1>4 DEF Result, Results

LEMMA TextsStepTyped ==
  ASSUME SharedOK, TextsTyped, TextsStep
  PROVE  SharedOK' /\ TextsTyped'
<1> USE DEF TextsTyped
<1>g. GiveUp \in Nat \ {0} /\ MaxVersion \in Nat \ {0} /\ MaxFaults \in Nat
  BY GiveUpAssumption, StagesAssumption DEF GiveUpAssumption, StagesAssumption
<1>f. faults \in 0..MaxFaults /\ (Fault => faults' \in 0..MaxFaults) BY <1>g DEF SharedOK, Fault
<1>v. UNCHANGED imported /\ stage' \in Stages => (faults' \in 0..MaxFaults => SharedOK') BY DEF SharedOK, imported
<1>1. CASE PlanTexts
  <2>1. SharedOK' BY <1>1, <1>f, <1>v DEF PlanTexts, Go, Stages
  <2> DEFINE new == {[n |-> n, src |-> source[n]] : n \in {m \in Notices \ Seen : Target(m)}}
  <2>2. new \subseteq [n : Notices, src : 1..MaxVersion] BY DEF SharedOK
  <2>3. \/ pending' = pending /\ stage = "attach" /\ stage' = "embed"
        \/ pending' = new /\ stage' = "download"
    BY <1>1 DEF PlanTexts, Go
  <2>4. streak' = 0 /\ UNCHANGED <<text, lines, next, disk, remote>> BY <1>1 DEF PlanTexts
  <2> HIDE DEF new
  <2> QED BY <1>g, <2>1, <2>2, <2>3, <2>4 DEF TextsOK
<1>2. CASE PlanRaises
  <2>1. SharedOK' BY <1>2, <1>f, <1>v DEF PlanRaises, Go, Stages
  <2> QED BY <1>2, <2>1 DEF PlanRaises, Go, textVars, TextsOK
<1>3. ASSUME NEW t \in pending, NEW outcome \in Outcomes, Download(t, outcome) PROVE SharedOK' /\ TextsTyped'
  <2>1. SharedOK' BY <1>3, <1>f, <1>v DEF Download, SharedOK, imported, Stages
  <2>2. lines' \in Seq(Line(Results)) /\ Len(lines') >= Len(lines)
    <3>1. Result(t, outcome) \in Results BY ResultTypes
    <3>2. lines \in Seq(Line(Results)) BY DEF TextsOK
    <3>3. Written(lines, Result(t, outcome)) \in Seq(Line(Results)) /\ Len(Written(lines, Result(t, outcome))) >= Len(lines)
      BY <3>1, <3>2, LineTypes
    <3>4. lines' = Written(lines, Result(t, outcome)) BY <1>3 DEF Download
    <3> QED BY <3>3, <3>4
  <2>3. streak' \in 0..GiveUp
    <3>1. streak < GiveUp /\ streak \in Nat BY <1>g DEF TextsOK
    <3>2. streak' = streak + 1 \/ streak' = 0 BY <1>3 DEF Download
    <3> QED BY <1>g, <3>1, <3>2
  <2>4. disk' \in [Files -> FileStates]
    <3>1. disk' = disk \/ disk' = Kept(<<t.n, served[t.n]>>, "whole") BY <1>3 DEF Download
    <3>2. disk \in [Files -> FileStates] BY DEF TextsOK
    <3> QED BY <3>1, <3>2 DEF Kept, FileStates
  <2>5. pending' \subseteq pending /\ (pending' # {} => streak' < GiveUp /\ stage' = "download")
    <3>1. /\ pending' = IF streak' >= GiveUp THEN {} ELSE pending \ {t}
          /\ pending' # {} => UNCHANGED stage
          /\ stage = "download"
      BY <1>3 DEF Download
    <3> QED BY <1>g, <2>3, <3>1
  <2>6. next' \in 0..Len(lines') + 1
    <3>1. next' = 1 \/ next' = next BY <1>3 DEF Download
    <3>2. next \in 0..Len(lines) + 1 /\ Len(lines) \in Nat /\ Len(lines') \in Nat BY <2>2 DEF TextsOK
    <3> QED BY <2>2, <3>1, <3>2
  <2>7. UNCHANGED <<text, remote>> BY <1>3 DEF Download
  <2>8. stage' = "texts" => next' # 0 BY <1>3 DEF Download
  <2> QED BY <2>1, <2>2, <2>3, <2>4, <2>5, <2>6, <2>7, <2>8 DEF TextsOK
<1>4. CASE SaveLine
  <2>1. UNCHANGED <<shared, lines, pending, streak, disk, remote>> /\ next' = next + 1 /\ next <= Len(lines) BY <1>4 DEF SaveLine
  <2>2. SharedOK' BY <2>1 DEF SharedOK, shared, imported
  <2>3. next' \in 0..Len(lines) + 1
    <3>1. Len(lines) \in Nat /\ next \in 0..Len(lines) + 1 BY DEF TextsOK
    <3> QED BY <2>1, <3>1
  <2> DEFINE T == [status : {"none", "ok", "fail", "final"}, src : 0..MaxVersion, body : 0..MaxVersion, due : BOOLEAN]
  <2>4. text \in [Notices -> T] BY DEF TextsOK
  <2>5. ASSUME NEW r \in Results PROVE Saved(r) \in [Notices -> T]
    <3>1. r.n \in Notices /\ r.src \in 0..MaxVersion /\ r.body \in 0..MaxVersion /\ r.status \in {"ok", "fail", "final"}
      BY <1>g DEF Results
    <3>2. text[r.n].body \in 0..MaxVersion BY <2>4, <3>1
    <3> DEFINE x == [status |-> r.status, src |-> r.src, due |-> FALSE,
                     body |-> IF r.status = "ok" THEN r.body ELSE text[r.n].body]
    <3>3. x \in T BY <3>1, <3>2
    <3>4. Saved(r) = [text EXCEPT ![r.n] = x] BY DEF Saved
    <3> HIDE DEF T, x
    <3> QED BY <2>4, <3>1, <3>3, <3>4
  <2>6. text' \in [Notices -> T]
    <3>1. CASE \E r \in lines[next].row : Current(r)
      <4> DEFINE c == CHOOSE r \in lines[next].row : TRUE
      <4>1. text' = Saved(c) BY <1>4, <3>1 DEF SaveLine
      <4>2. c \in lines[next].row BY <3>1
      <4>3. c \in Results
        <5>1. next # 0 BY <1>4 DEF SaveLine
        <5>2. next \in 1..Len(lines) BY <2>1, <5>1 DEF TextsOK
        <5>3. lines[next] \in Line(Results) BY <5>2 DEF TextsOK
        <5> QED BY <4>2, <5>3 DEF Line
      <4> QED BY <2>5, <4>1, <4>3
    <3>2. CASE ~\E r \in lines[next].row : Current(r) BY <1>4, <2>4, <3>2 DEF SaveLine
    <3> QED BY <3>1, <3>2
  <2>7. next' # 0 BY <2>1 DEF TextsOK
  <2> QED BY <2>1, <2>2, <2>3, <2>6, <2>7 DEF TextsOK, shared
<1>5. CASE FinishTexts
  <2>1. SharedOK' BY <1>5, <1>f, <1>v DEF FinishTexts, Go, Stages
  <2>2. lines' \in Seq(Line(Results)) /\ next' = 0 BY <1>5 DEF FinishTexts, Stored, TextsOK
  <2>3. next' \in 0..Len(lines') + 1 BY <2>2
  <2> QED BY <1>5, <2>1, <2>2, <2>3 DEF FinishTexts, Go, TextsOK
<1>6. CASE AttachFails
  <2>1. SharedOK' BY <1>6, <1>f, <1>v DEF AttachFails, Stages
  <2> QED BY <1>6, <2>1 DEF AttachFails, TextsOK
<1>7. ASSUME NEW t \in pending, CrashDownloading(t) PROVE SharedOK' /\ TextsTyped'
  <2>1. SharedOK' BY <1>7, <1>f, <1>v DEF CrashDownloading, Stages
  <2>2. disk' \in [Files -> FileStates]
    <3>1. disk' = disk \/ \E as \in {"part", "whole"} : disk' = Kept(<<t.n, served[t.n]>>, as)
      BY <1>7 DEF CrashDownloading
    <3>2. disk \in [Files -> FileStates] BY DEF TextsOK
    <3> QED BY <3>1, <3>2 DEF Kept, FileStates
  <2>3. lines' \in Seq(Line(Results)) /\ Len(lines') >= Len(lines)
    <3>1. lines \in Seq(Line(Results)) BY DEF TextsOK
    <3>2. CASE lines' = lines BY <3>1, <3>2
    <3>3. ASSUME NEW outcome \in Outcomes, lines' \in Cut(lines, Result(t, outcome))
          PROVE  lines' \in Seq(Line(Results)) /\ Len(lines') >= Len(lines)
      <4>1. Result(t, outcome) \in Results BY ResultTypes
      <4> QED BY <3>1, <3>3, <4>1, LineTypes
    <3> QED BY <1>7, <3>2, <3>3 DEF CrashDownloading
  <2>4. next' \in 0..Len(lines') + 1
    <3>1. next \in 0..Len(lines) + 1 /\ Len(lines) \in Nat /\ Len(lines') \in Nat BY <2>3 DEF TextsOK
    <3>2. next' = next BY <1>7 DEF CrashDownloading
    <3> QED BY <2>3, <3>1, <3>2
  <2>5. pending' = {} /\ stage' = "idle" /\ UNCHANGED <<text, streak, remote>> BY <1>7 DEF CrashDownloading
  <2> QED BY <2>1, <2>2, <2>3, <2>4, <2>5 DEF TextsOK
<1>8. ASSUME NEW some \in SUBSET Uploadable, UploadFiles(some) PROVE SharedOK' /\ TextsTyped'
  <2>1. SharedOK'
    <3>1. faults' \in 0..MaxFaults BY <1>8, <1>f DEF UploadFiles
    <3> QED BY <1>8, <1>v, <3>1 DEF UploadFiles, Go, Stages
  <2>2. remote' \in [Files -> FileStates] BY <1>8 DEF UploadFiles, TextsOK
  <2> QED BY <1>8, <2>1, <2>2 DEF UploadFiles, Go, TextsOK
<1> QED BY <1>1, <1>2, <1>3, <1>4, <1>5, <1>6, <1>7, <1>8 DEF TextsStep

LEMMA VectorsStepTyped ==
  ASSUME SharedOK, VectorsOK, VectorsStep
  PROVE  SharedOK' /\ VectorsOK'
<1> USE DEF VectorsOK, Vectors
<1>f. faults \in 0..MaxFaults /\ (Fault => faults' \in 0..MaxFaults) BY StagesAssumption DEF SharedOK, Fault, StagesAssumption
<1>n. NoVectors \in Vectors BY StagesAssumption DEF NoVectors, StagesAssumption
<1>v. version \in [Notices -> 1..MaxVersion] /\ MaxVersion \in Nat BY StagesAssumption DEF SharedOK, StagesAssumption
<1>1. CASE ReadNotices
  <2>1. SharedOK' BY <1>1, <1>f DEF ReadNotices, Go, Stages, SharedOK, imported
  <2>2. \/ stage' = "index" /\ changed' \subseteq Notices /\ UNCHANGED read
        \/ stage' = "encode" /\ read' = version /\ UNCHANGED changed
    BY <1>1 DEF ReadNotices, Go
  <2>3. UNCHANGED <<npz, index, vector>> BY <1>1 DEF ReadNotices
  <2> QED BY <1>v, <2>1, <2>2, <2>3
<1>2. CASE WriteVectors
  <2>1. SharedOK' BY <1>2, <1>f DEF WriteVectors, Go, Stages, SharedOK, imported
  <2>2. /\ npz' = read /\ changed' \subseteq Notices /\ read' = NoVectors
        /\ UNCHANGED <<index, vector>> /\ stage = "encode" /\ stage' = "index"
    BY <1>2 DEF WriteVectors, Go
  <2>3. \A n \in Notices : npz'[n] # 0 BY <2>2
  <2> QED BY <1>n, <2>1, <2>2, <2>3
<1>3. CASE EmbedFails
  <2>1. SharedOK' BY <1>3, <1>f DEF EmbedFails, Stages, SharedOK, imported
  <2> QED BY <1>3, <1>n, <2>1 DEF EmbedFails
<1>4. ASSUME NEW some \in SUBSET changed, SyncIndex(some) PROVE SharedOK' /\ VectorsOK'
  <2>1. SharedOK'
    <3>1. faults' \in 0..MaxFaults BY <1>4, <1>f DEF SyncIndex
    <3> QED BY <1>4, <3>1 DEF SyncIndex, Go, Stages, SharedOK, imported
  <2>2. /\ index' = [n \in Notices |-> IF n \in some THEN npz[n] ELSE index[n]] /\ changed' = {}
        /\ UNCHANGED <<npz, vector, read>> /\ stage' = "vectors"
    BY <1>4 DEF SyncIndex, Go
  <2> QED BY <2>1, <2>2
<1>5. ASSUME NEW some \in SUBSET ToUpload, UploadVectors(some) PROVE SharedOK' /\ VectorsOK'
  <2>1. SharedOK'
    <3>1. faults' \in 0..MaxFaults BY <1>5, <1>f DEF UploadVectors
    <3> QED BY <1>5, <3>1 DEF UploadVectors, Go, Stages, SharedOK, imported
  <2>2. /\ vector' = [n \in Notices |-> IF n \in some THEN npz[n] ELSE vector[n]]
        /\ UNCHANGED <<npz, index, read, changed>> /\ stage' = "files"
    BY <1>5 DEF UploadVectors, Go
  <2> QED BY <2>1, <2>2
<1> QED BY <1>1, <1>2, <1>3, <1>4, <1>5 DEF VectorsStep

LEMMA DocumentTypes ==
  ASSUME SharedOK, TextsOK, NEW n \in Notices PROVE Document(n) \in Documents
<1>1. version[n] \in 0..MaxVersion BY StagesAssumption DEF SharedOK, StagesAssumption
<1>2. (IF text[n].status = "ok" THEN text[n].body ELSE 0) \in 0..MaxVersion
  BY StagesAssumption DEF TextsOK, StagesAssumption
<1> QED BY <1>1, <1>2 DEF Document, Documents

LEMMA OffTypes == Off \in Asks /\ NoAnswers \in [Notices -> Documents] /\ NoFailures \in Failures
<1>1. 0 \in 0..MaxVersion /\ 0 \in 0..MaxFailures
  BY StagesAssumption, JudgmentsAssumption DEF StagesAssumption, JudgmentsAssumption
<1>2. NoDocument \in Documents BY <1>1 DEF NoDocument, Documents
<1>3. NoAnswers \in [Notices -> Documents] BY <1>2 DEF NoAnswers
<1>4. NoFailures \in Failures BY <1>1, <1>2 DEF NoFailures, Failures
<1> HIDE DEF NoAnswers, NoFailures
<1> QED BY <1>3, <1>4 DEF Off, Asks, Owners

\* A run begins with documents that have not been given up.
LEMMA LoadTypes ==
  ASSUME SharedOK, TextsOK, JudgmentsTyped, NEW owner \in Owners, Load(owner)
  PROVE  /\ ask' \in Asks /\ ask'.at # "off" /\ ask'.owner = owner
         /\ \A n \in ask'.todo : ask'.failures[n].doc = ask'.docs[n] => ask'.failures[n].count < MaxFailures
<1> DEFINE a == AttemptedToday(state)
           existing == Existing(checkpoint)
           docs == [n \in Notices |-> Document(n)]
           want == {n \in Notices : existing[n] # Document(n) /\ ~GaveUp(n, state.failures)}
           k == IF a < DailyLimit THEN DailyLimit - a ELSE 0
<1>1. PICK todo \in FirstOf(want, k) :
        ask' = [Off EXCEPT !.at = IF todo = {} THEN "save" ELSE "count", !.owner = owner, !.today = TRUE,
                           !.docs = docs, !.existing = existing, !.todo = todo,
                           !.attempted = a, !.failures = state.failures]
  BY DEF Load
<1>2. /\ ask' = [at |-> IF todo = {} THEN "save" ELSE "count", owner |-> owner, today |-> TRUE,
                 docs |-> docs, existing |-> existing, todo |-> todo, attempted |-> a,
                 failures |-> state.failures, failed |-> FALSE]
  BY <1>1 DEF Off
<1>3. todo \subseteq want BY DEF FirstOf
<1>4. docs \in [Notices -> Documents] BY DocumentTypes
<1>5. existing \in [Notices -> Documents]
  <2>1. results \in [Notices -> Documents] BY DEF JudgmentsTyped, JudgmentsOK
  <2> QED BY <2>1, DocumentTypes DEF Existing
<1>6. a \in Nat /\ state.failures \in Failures BY DEF AttemptedToday, JudgmentsTyped, JudgmentsOK, State
<1>7. \A n \in todo : state.failures[n].doc = docs[n] => state.failures[n].count < MaxFailures
  <2> SUFFICES ASSUME NEW n \in todo, state.failures[n].doc = docs[n] PROVE state.failures[n].count < MaxFailures
    OBVIOUS
  <2>1. n \in Notices /\ ~GaveUp(n, state.failures) BY <1>3
  <2>2. ~(state.failures[n].count >= MaxFailures) BY <2>1 DEF GaveUp
  <2>3. state.failures[n].count \in 0..MaxFailures BY <1>6, <2>1 DEF Failures
  <2> QED BY <2>2, <2>3, JudgmentsAssumption DEF JudgmentsAssumption
<1>8. todo \subseteq Notices BY <1>3
<1> HIDE DEF a, existing, docs, want, k
<1>9. ask' \in Asks BY <1>2, <1>4, <1>5, <1>6, <1>8 DEF Asks
<1> QED BY <1>2, <1>7, <1>9

LEMMA JudgmentsStepTyped ==
  ASSUME SharedOK, TextsOK, JudgmentsTyped, JudgmentsStep
  PROVE  SharedOK' /\ JudgmentsTyped'
<1> DEFINE Fresh(r) == \A n \in r.todo : r.failures[n].doc = r.docs[n] => r.failures[n].count < MaxFailures
           Owned(r, s) == /\ (r.at = "off") = (r.owner = "nobody")
                          /\ (s = "asking") = (r.owner = "pipeline")
<1>f. faults \in 0..MaxFaults /\ (Fault => faults' \in 0..MaxFaults) BY StagesAssumption DEF SharedOK, Fault, StagesAssumption
<1>s. UNCHANGED imported /\ stage' \in Stages /\ faults' \in 0..MaxFaults => SharedOK' BY DEF SharedOK, imported
<1>a. ask \in Asks /\ Fresh(ask) /\ Owned(ask, stage) BY DEF JudgmentsTyped, JudgmentsOK
<1>r. /\ results \in [Notices -> Documents] /\ judged \in [Notices -> Documents]
      /\ checkpoint \in Seq(Line(Answers)) /\ state \in State /\ spent \in Nat /\ answered \subseteq Answers
  BY DEF JudgmentsTyped, JudgmentsOK
<1>j. /\ results' \in [Notices -> Documents] /\ judged' \in [Notices -> Documents]
      /\ checkpoint' \in Seq(Line(Answers)) /\ state' \in State /\ spent' \in Nat /\ answered' \subseteq Answers
      /\ ask' \in Asks /\ Fresh(ask') /\ Owned(ask', stage')
      => JudgmentsTyped'
  BY DEF JudgmentsTyped, JudgmentsOK
<1>d. ASSUME NEW n \in ask.todo PROVE AnswerOf(n) \in Answers BY <1>a DEF Asks, AnswerOf, Answers
<1>c. Cardinality(ask.todo) \in Nat BY <1>a, TodoCount DEF Asks
<1>o. Off \in Asks /\ Fresh(Off) /\ Off.at = "off" /\ Off.owner = "nobody" BY OffTypes DEF Off
<1>v. SavedState \in State BY <1>a DEF SavedState, State, Asks
<1> HIDE DEF Fresh, Owned
<1>1. ASSUME NEW owner \in {"pipeline", "operator"}, Load(owner), ask.at = "off", Unasked, SharedOK',
             (stage' = "asking") = (owner = "pipeline")
      PROVE  JudgmentsTyped'
  <2>1. ask' \in Asks /\ ask'.at # "off" /\ ask'.owner = owner /\ Fresh(ask') BY <1>1, LoadTypes DEF Fresh, Owners
  <2>2. Owned(ask', stage') BY <1>1, <2>1 DEF Owned
  <2>3. answered' \subseteq Answers BY <1>1, <1>r DEF Load
  <2> QED BY <1>1, <1>j, <1>r, <2>1, <2>2, <2>3 DEF Unasked
<1>2. CASE StageRuns
  <2>1. SharedOK' BY <1>2, <1>f, <1>s DEF StageRuns, Go, Stages
  <2> QED BY <1>1, <1>2, <2>1 DEF StageRuns, Go
<1>3. CASE OperatorRuns
  <2>1. SharedOK' BY <1>3, <1>f, <1>s DEF OperatorRuns, shared, imported, SharedOK
  <2>2. stage # "asking" BY <1>3, <1>a DEF OperatorRuns, Owned
  <2> QED BY <1>1, <1>3, <2>1, <2>2 DEF OperatorRuns, shared
<1>4. CASE StageSkipped
  <2>1. SharedOK' BY <1>4, <1>f, <1>s DEF StageSkipped, Go, Stages
  <2>2. UNCHANGED <<ask, results, checkpoint, state, judged, spent, answered>> BY <1>4 DEF StageSkipped, Unasked
  <2>3. stage = "types" /\ stage' = "judge" BY <1>4 DEF StageSkipped, Go
  <2>4. Owned(ask', stage') BY <1>a, <2>2, <2>3 DEF Owned
  <2> QED BY <1>a, <1>j, <1>r, <2>1, <2>2, <2>4
<1>5. CASE CountCalls
  <2>1. SharedOK' BY <1>5 DEF CountCalls, shared, imported, SharedOK
  <2> DEFINE c == Cardinality(ask.todo)
  <2>2. ask' = [ask EXCEPT !.at = "call", !.attempted = @ + c] /\ ask.at = "count" /\ UNCHANGED stage BY <1>5 DEF CountCalls, shared
  <2>3. state' = [SavedState EXCEPT !.attempted = @ + c] BY <1>5 DEF CountCalls
  <2>4. UNCHANGED <<results, checkpoint, judged, spent, answered>> BY <1>5 DEF CountCalls
  <2> HIDE DEF c
  <2>5. c \in Nat BY <1>c DEF c
  <2>6. ask' \in Asks
    <3> DEFINE made == ask.attempted + c
    <3>1. made \in Nat BY <1>a, <2>5 DEF Asks
    <3>2. ask' = [ask EXCEPT !.at = "call", !.attempted = made] BY <1>a, <2>2 DEF Asks
    <3> HIDE DEF made
    <3> QED BY <1>a, <3>1, <3>2 DEF Asks
  <2>7. state' \in State BY <1>v, <2>3, <2>5 DEF State
  <2>8. Fresh(ask') BY <1>a, <2>2 DEF Fresh, Asks
  <2>9. Owned(ask', stage') BY <1>a, <2>2 DEF Owned, Asks
  <2> QED BY <1>j, <1>r, <2>1, <2>4, <2>6, <2>7, <2>8, <2>9
<1>6. CASE Call
  <2>1. SharedOK' BY <1>6 DEF Call, shared, imported, SharedOK
  <2>2. ask' = [ask EXCEPT !.at = "answers"] /\ ask.at = "call" /\ UNCHANGED stage BY <1>6 DEF Call, shared
  <2>3. spent' \in Nat
    <3>1. spent' = spent + Cardinality(ask.todo) \/ spent' = spent BY <1>6 DEF Call
    <3> QED BY <1>c, <1>r, <3>1
  <2>4. UNCHANGED <<results, checkpoint, state, judged, answered>> BY <1>6 DEF Call
  <2>5. ask' \in Asks BY <1>a, <2>2 DEF Asks
  <2>6. Fresh(ask') BY <1>a, <2>2 DEF Fresh, Asks
  <2>7. Owned(ask', stage') BY <1>a, <2>2 DEF Owned, Asks
  <2> QED BY <1>j, <1>r, <2>1, <2>3, <2>4, <2>5, <2>6, <2>7
<1>7. ASSUME NEW n \in ask.todo, Answer(n) PROVE SharedOK' /\ JudgmentsTyped'
  <2>1. SharedOK' BY <1>7 DEF Answer, shared, imported, SharedOK
  <2>2. UNCHANGED <<stage, results, state, judged, spent>> /\ ask.at = "answers" BY <1>7 DEF Answer, shared
  <2>3. checkpoint' \in Seq(Line(Answers))
    <3>1. checkpoint' = Written(checkpoint, AnswerOf(n)) /\ AnswerOf(n) \in Answers BY <1>7, <1>d DEF Answer
    <3> QED BY <1>r, <3>1, LineTypes
  <2>4. answered' \subseteq Answers BY <1>7, <1>d, <1>r DEF Answer
  <2> DEFINE e == [ask.existing EXCEPT ![n] = ask.docs[n]]
             f == [ask.failures EXCEPT ![n] = NoFailures[n]]
  <2>5. ask' = [ask EXCEPT !.at = After(n), !.todo = Rest(n), !.existing = e, !.failures = f]
    BY <1>7, <1>a DEF Answer, Asks
  <2>6. n \in Notices BY <1>a DEF Asks
  <2>7. e \in [Notices -> Documents] BY <1>a, <2>6 DEF Asks
  <2>8. f \in Failures
    <3>1. ask.failures \in Failures BY <1>a DEF Asks
    <3>2. NoFailures \in Failures BY OffTypes
    <3> HIDE DEF NoFailures
    <3> QED BY <2>6, <3>1, <3>2 DEF Failures
  <2>9. \A m \in ask.todo \ {n} : f[m] = ask.failures[m] BY <1>a DEF Asks, Failures
  <2> HIDE DEF e, f
  <2>10. After(n) \in {"save", "answers"} /\ Rest(n) = ask.todo \ {n} BY DEF After, Rest
  <2>11. ask' \in Asks BY <1>a, <2>5, <2>7, <2>8, <2>10 DEF Asks
  <2>12. Fresh(ask') BY <1>a, <2>5, <2>9, <2>10 DEF Fresh, Asks
  <2>13. Owned(ask', stage') BY <1>a, <2>2, <2>5, <2>10 DEF Owned, Asks
  <2> QED BY <1>j, <1>r, <2>1, <2>2, <2>3, <2>4, <2>11, <2>12, <2>13
<1>8. ASSUME NEW n \in ask.todo, NoAnswer(n) PROVE SharedOK' /\ JudgmentsTyped'
  <2>1. SharedOK' BY <1>8 DEF NoAnswer, shared, imported, SharedOK
  <2>2. UNCHANGED <<stage, results, checkpoint, state, judged, spent, answered>> /\ ask.at = "answers" BY <1>8 DEF NoAnswer, shared
  <2> DEFINE c == Count(ask.failures[n], ask.docs[n])
             f == [ask.failures EXCEPT ![n] = [doc |-> ask.docs[n], count |-> c]]
  <2>3. ask' = [ask EXCEPT !.at = After(n), !.todo = Rest(n), !.failed = TRUE, !.failures = f]
    BY <1>8, <1>a DEF NoAnswer, Asks
  <2>4. n \in Notices BY <1>a DEF Asks
  <2>5. ask.failures \in Failures /\ ask.docs \in [Notices -> Documents] BY <1>a DEF Asks
  <2>6. c \in 0..MaxFailures
    <3>1. ask.failures[n].count \in 0..MaxFailures BY <2>4, <2>5 DEF Failures
    <3>2. ask.failures[n].doc = ask.docs[n] => ask.failures[n].count < MaxFailures BY <1>a DEF Fresh
    <3> QED BY <3>1, <3>2, JudgmentsAssumption DEF Count, JudgmentsAssumption
  <2> HIDE DEF c
  <2>7. f \in Failures BY <2>4, <2>5, <2>6 DEF Failures
  <2>8. \A m \in ask.todo \ {n} : f[m] = ask.failures[m] BY <2>5 DEF Failures
  <2> HIDE DEF f
  <2>9. After(n) \in {"save", "answers"} /\ Rest(n) = ask.todo \ {n} BY DEF After, Rest
  <2>10. ask' \in Asks BY <1>a, <2>3, <2>7, <2>9 DEF Asks
  <2>11. Fresh(ask') BY <1>a, <2>3, <2>8, <2>9 DEF Fresh, Asks
  <2>12. Owned(ask', stage') BY <1>a, <2>2, <2>3, <2>9 DEF Owned, Asks
  <2> QED BY <1>j, <1>r, <2>1, <2>2, <2>10, <2>11, <2>12
<1>9. CASE SaveState \/ WriteResults
  <2>1. SharedOK' BY <1>9 DEF SaveState, WriteResults, shared, imported, SharedOK
  <2>2. PICK at \in {"write", "drop"} : ask' = [ask EXCEPT !.at = at] BY <1>9 DEF SaveState, WriteResults
  <2>3. ask.at # "off" /\ UNCHANGED <<stage, checkpoint, judged, spent, answered>> BY <1>9 DEF SaveState, WriteResults, shared
  <2>4. state' \in State BY <1>9, <1>r, <1>v DEF SaveState, WriteResults
  <2>5. results' \in [Notices -> Documents] BY <1>9, <1>a, <1>r DEF SaveState, WriteResults, Asks
  <2>6. ask' \in Asks BY <1>a, <2>2 DEF Asks
  <2>7. Fresh(ask') BY <1>a, <2>2 DEF Fresh, Asks
  <2>8. Owned(ask', stage') BY <1>a, <2>2, <2>3 DEF Owned, Asks
  <2> QED BY <1>j, <1>r, <2>1, <2>3, <2>4, <2>5, <2>6, <2>7, <2>8
<1>10. CASE DropCheckpoint
  <2>1. SharedOK' BY <1>10, <1>f, <1>s DEF DropCheckpoint, Stages, SharedOK, imported
  <2>2. ask' = Off /\ UNCHANGED <<results, state, judged, spent, answered>> BY <1>10 DEF DropCheckpoint
  <2>3. checkpoint' \in Seq(Line(Answers)) BY <1>10, <1>r DEF DropCheckpoint
  <2>4. stage' # "asking" BY <1>10, <1>a DEF DropCheckpoint, Owned
  <2>5. Owned(ask', stage') BY <1>o, <2>2, <2>4 DEF Owned
  <2> HIDE DEF Off
  <2> QED BY <1>j, <1>o, <1>r, <2>1, <2>2, <2>3, <2>5
<1>11. CASE OperatorCrash
  <2>1. SharedOK' BY <1>11, <1>f, <1>s DEF OperatorCrash, AskCut, SharedOK, imported
  <2>2. ask' = Off /\ UNCHANGED <<stage, results, state, judged, spent, answered>> /\ ask.owner = "operator"
    BY <1>11 DEF OperatorCrash, AskCut
  <2>3. checkpoint' \in Seq(Line(Answers)) BY <1>11, <1>d, <1>r, LineTypes DEF OperatorCrash, AskCut
  <2>4. Owned(ask', stage') BY <1>a, <1>o, <2>2 DEF Owned
  <2> QED BY <1>j, <1>o, <1>r, <2>1, <2>2, <2>3, <2>4
<1>12. ASSUME NEW some \in SUBSET ToJudge, UploadJudgments(some) PROVE SharedOK' /\ JudgmentsTyped'
  <2>1. SharedOK'
    <3>1. faults' \in 0..MaxFaults BY <1>12, <1>f DEF UploadJudgments
    <3> QED BY <1>12, <1>s, <3>1 DEF UploadJudgments, Go, Stages
  <2>2. UNCHANGED <<results, checkpoint, state, ask, spent, answered>> /\ stage = "judge" /\ stage' = "idle"
    BY <1>12 DEF UploadJudgments, Go
  <2>3. judged' \in [Notices -> Documents] BY <1>12, <1>r DEF UploadJudgments
  <2>4. Owned(ask', stage') BY <1>a, <2>2 DEF Owned
  <2> QED BY <1>a, <1>j, <1>r, <2>1, <2>2, <2>3, <2>4
<1> QED BY <1>2, <1>3, <1>4, <1>5, <1>6, <1>7, <1>8, <1>9, <1>10, <1>11, <1>12 DEF JudgmentsStep, RunStep

LEMMA NextTyped == Typed /\ [Next]_vars => Typed'
<1> SUFFICES ASSUME SharedOK, TextsTyped, VectorsOK, JudgmentsTyped, [Next]_vars
             PROVE  SharedOK' /\ TextsTyped' /\ VectorsOK' /\ JudgmentsTyped'
  BY TypedParts DEF Typed, TypeOK, TextsTyped, VectorsOK, JudgmentsTyped
<1>f. faults \in 0..MaxFaults /\ (Fault => faults' \in 0..MaxFaults) BY StagesAssumption DEF SharedOK, Fault, StagesAssumption
<1>s. UNCHANGED imported /\ stage' \in Stages /\ faults' \in 0..MaxFaults => SharedOK' BY DEF SharedOK, imported
<1>t. UNCHANGED textVars /\ (stage' = "texts" => stage = "texts") /\ (stage = "download" => stage' = "download")
      => TextsTyped'
  BY DEF textVars, TextsTyped, TextsOK
<1>v. UNCHANGED vectorVars /\ (stage' = "encode" => stage = "encode") => VectorsOK'
  BY DEF vectorVars, VectorsOK
<1>j. UNCHANGED judgeVars /\ (stage' = "asking") = (stage = "asking") => JudgmentsTyped'
  BY DEF judgeVars, JudgmentsTyped, JudgmentsOK
<1>u. CASE UNCHANGED vars BY <1>t, <1>v, <1>j, <1>u DEF vars, shared, imported, SharedOK
<1>1. CASE StartRun
  <2>1. SharedOK' BY <1>1, <1>f, <1>s DEF StartRun, Go, Stages
  <2> QED BY <1>1, <1>t, <1>v, <1>j, <2>1 DEF StartRun, Go
<1>2. CASE Attach
  <2>1. SharedOK' /\ TextsTyped' BY <1>2, TextsStepTyped DEF Attach
  <2>2. UNCHANGED <<judgeVars, vectorVars>> /\ stage # "asking" /\ stage' \notin {"asking", "encode"}
    BY <1>2 DEF Attach, TextsStep, PlanTexts, PlanRaises, SaveLine, FinishTexts, AttachFails, Download,
                CrashDownloading, UploadFiles, Go, shared
  <2> QED BY <1>v, <1>j, <2>1, <2>2
<1>3. CASE Vectorise
  <2>1. SharedOK' /\ VectorsOK' BY <1>3, VectorsStepTyped DEF Vectorise
  <2>2. /\ UNCHANGED <<textVars, judgeVars>>
        /\ stage \notin {"asking", "download"} /\ stage' \notin {"asking", "texts"}
    BY <1>3 DEF Vectorise, VectorsStep, ReadNotices, WriteVectors, EmbedFails, SyncIndex, UploadVectors, Go
  <2> QED BY <1>t, <1>j, <2>1, <2>2
<1>4. CASE Judge
  <2>1. SharedOK' /\ JudgmentsTyped' BY <1>4, JudgmentsStepTyped DEF Judge, TextsTyped
  <2>2. UNCHANGED <<textVars, vectorVars>> BY <1>4 DEF Judge
  <2>3. stage' = stage \/ (stage # "download" /\ stage' \notin {"texts", "encode"})
    BY <1>4 DEF Judge, JudgmentsStep, StageRuns, StageSkipped, OperatorRuns, RunStep, CountCalls, Call, Answer,
                NoAnswer, SaveState, WriteResults, DropCheckpoint, OperatorCrash, UploadJudgments, shared, Go,
                JudgmentsTyped, JudgmentsOK
  <2> QED BY <1>t, <1>v, <2>1, <2>2, <2>3
<1>5. CASE Crash
  <2>1. SharedOK'
    <3>1. faults' \in 0..MaxFaults BY <1>5, <1>f DEF Crash, AskCut
    <3> QED BY <1>5, <1>s, <3>1 DEF Crash, Stages
  <2>2. stage' = "idle" /\ pending' = {} /\ next' = 0 /\ UNCHANGED <<text, lines, streak, disk, remote>>
    BY <1>5 DEF Crash, TextsStopped
  <2>3. TextsTyped' BY <2>2 DEF TextsTyped, TextsOK
  <2>4. VectorsOK'
    <3>1. read' = NoVectors /\ changed' = {} /\ UNCHANGED <<npz, index, vector>> BY <1>5 DEF Crash, VectorsStopped
    <3>2. NoVectors \in Vectors BY StagesAssumption DEF NoVectors, Vectors, StagesAssumption
    <3> QED BY <2>2, <3>1, <3>2 DEF VectorsOK
  <2>5. JudgmentsTyped'
    <3>1. CASE ask.owner # "pipeline" BY <1>5, <1>j, <2>2, <3>1 DEF Crash, JudgmentsTyped, JudgmentsOK
    <3>2. CASE ask.owner = "pipeline"
      <4>1. ask' = Off /\ UNCHANGED <<results, state, judged, spent, answered>> BY <1>5, <3>2 DEF Crash, AskCut
      <4>2. checkpoint' \in Seq(Line(Answers))
        <5>1. \A n \in ask.todo : AnswerOf(n) \in Answers BY DEF AnswerOf, Answers, JudgmentsTyped, JudgmentsOK, Asks
        <5>2. checkpoint \in Seq(Line(Answers)) BY DEF JudgmentsTyped, JudgmentsOK
        <5> QED BY <1>5, <3>2, <5>1, <5>2, LineTypes DEF Crash, AskCut
      <4>3. Off \in Asks /\ Off.at = "off" /\ Off.owner = "nobody" /\ Off.todo = {} BY OffTypes DEF Off
      <4> HIDE DEF Off
      <4> QED BY <2>2, <4>1, <4>2, <4>3 DEF JudgmentsTyped, JudgmentsOK
    <3> QED BY <3>1, <3>2
  <2> QED BY <2>1, <2>3, <2>4, <2>5
<1>6. CASE NextDay
  <2>1. UNCHANGED <<shared, lines, pending, next, streak, disk, remote, vectorVars>> BY <1>6 DEF NextDay
  <2>2. TextsTyped' BY <1>6, <2>1 DEF NextDay, TextsDue, TextsTyped, TextsOK, shared
  <2>3. /\ state' = [state EXCEPT !.today = FALSE] /\ ask' = [ask EXCEPT !.today = FALSE] /\ spent' = 0
        /\ UNCHANGED <<results, checkpoint, judged, answered>>
    BY <1>6 DEF NextDay, NextDate
  <2>4. state' \in State BY <2>3 DEF JudgmentsTyped, JudgmentsOK, State
  <2>5. ask' \in Asks BY <2>3 DEF JudgmentsTyped, JudgmentsOK, Asks
  <2>6. /\ ask'.at = ask.at /\ ask'.owner = ask.owner /\ ask'.todo = ask.todo
        /\ ask'.failures = ask.failures /\ ask'.docs = ask.docs
    BY <2>3 DEF JudgmentsTyped, JudgmentsOK, Asks
  <2>7. JudgmentsTyped' BY <2>1, <2>3, <2>4, <2>5, <2>6 DEF JudgmentsTyped, JudgmentsOK, shared
  <2> QED BY <1>v, <2>1, <2>2, <2>7 DEF shared, imported, SharedOK
<1>7. ASSUME NEW n \in Notices, ImportNotice(n) PROVE SharedOK' /\ TextsTyped' /\ VectorsOK' /\ JudgmentsTyped'
  <2>1. UNCHANGED <<stage, faults, textVars, judgeVars, vectorVars>> BY <1>7 DEF ImportNotice, Import
  <2>2. {version', source', served'} \subseteq [Notices -> 1..MaxVersion] BY <1>7 DEF ImportNotice, Import, SharedOK
  <2>3. SharedOK' BY <2>1, <2>2 DEF SharedOK
  <2> QED BY <1>t, <1>v, <1>j, <2>1, <2>3
<1> QED BY <1>u, <1>1, <1>2, <1>3, <1>4, <1>5, <1>6, <1>7 DEF Next

LEMMA InitTyped == Init => Typed
<1> SUFFICES ASSUME Init PROVE Typed OBVIOUS
<1>g. MaxVersion \in Nat \ {0} /\ MaxFaults \in Nat /\ GiveUp \in Nat \ {0} /\ MaxFailures \in Nat \ {0}
  BY StagesAssumption, GiveUpAssumption, JudgmentsAssumption
  DEF StagesAssumption, GiveUpAssumption, JudgmentsAssumption
<1>1. SharedOK BY <1>g DEF Init, SharedInit, SharedOK, Stages
<1>2. TextsTyped
  <2>1. Len(lines) = 0 /\ lines \in Seq(Line(Results)) BY DEF Init, TextsInit
  <2> QED BY <1>g, <2>1 DEF Init, SharedInit, TextsInit, TextsTyped, TextsOK, FileStates
<1>3. VectorsOK
  BY <1>g DEF Init, SharedInit, VectorsInit, VectorsOK, Vectors, NoVectors
<1>4. JudgmentsTyped
  <2>1. Off \in Asks /\ NoAnswers \in [Notices -> Documents] /\ NoFailures \in Failures BY OffTypes
  <2>2. Off.at = "off" /\ Off.owner = "nobody" /\ Off.todo = {} BY DEF Off
  <2> HIDE DEF Off, NoAnswers, NoFailures
  <2> QED BY <2>1, <2>2 DEF Init, SharedInit, JudgmentsInit, JudgmentsTyped, JudgmentsOK, State
<1> QED BY <1>1, <1>2, <1>3, <1>4, TypedParts

\* Every table, file and variable of the stages has its type; among them: a vector
\* in the index or in the database is one of a notice in embeddings_v1.npz, nothing is downloaded but by its stage, run.lock has one owner,
\* and a document is not counted as failed more often than it takes to give it up.
THEOREM TypeCorrect == Spec => []TypeOK
<1>1. Typed => TypeOK BY DEF Typed
<1> QED BY InitTyped, NextTyped, <1>1, PTL DEF Spec

\* The calls of a day stay within its limit: they are counted in the state file before
\* they are made (collect/applicant_type_daily.py), so no crash and no second run of the
\* day spends them again.
THEOREM LimitHolds == Spec => []CallsWithinLimit
<1>1. Init => Counted
  <2>1. Off.at = "off" /\ Off.todo = {} /\ Off.attempted = 0 BY DEF Off
  <2> HIDE DEF Off
  <2> QED BY <2>1, JudgmentsAssumption
          DEF Init, JudgmentsInit, Counted, AttemptedToday, JudgmentsAssumption
<1>2. Typed => Shape BY DEF Typed, TypeOK, JudgmentsOK, Shape
<1>3. Counted => CallsWithinLimit
  BY JudgmentsAssumption DEF Counted, AttemptedToday, CallsWithinLimit, JudgmentsAssumption
<1> QED BY InitTyped, NextTyped, NextCounted, <1>1, <1>2, <1>3, PTL DEF Spec

-----------------------------------------------------------------------------
(* No document is paid for twice *)

\* Where an answer can be found: in the results or, unless a crash has broken it, in the
\* checkpoint.
Found(a) == Broken(checkpoint) \/ a \in Rows(checkpoint) \/ results[a.n] = a.doc

\* Every answer can be found, and the run that holds run.lock has it for the document it
\* has loaded; what a run is about to ask has no answer.
Paid ==
  /\ \A a \in answered :
       Found(a) /\ (ask.at # "off" => ask.docs[a.n] = a.doc /\ ask.existing[a.n] = a.doc)
  /\ ask.at \in {"count", "call"} => \A n \in ask.todo : AnswerOf(n) \notin answered
  /\ ask.at = "drop" => results = ask.existing

\* What is left of a file by writing a row, whole or cut off: a broken file stays broken,
\* and one that is not keeps its rows.
LEMMA LineAdded ==
  ASSUME NEW R, NEW file \in Seq(Line(R)), NEW r \in R,
         NEW f, f = Written(file, r) \/ f \in Cut(file, r)
  PROVE  /\ \A i \in 1..Len(f) : f[i].row \subseteq {r} \/ (i \in 1..Len(file) /\ f[i] = file[i])
         /\ Broken(file) => Broken(f)
         /\ Broken(f) \/ Rows(file) \subseteq Rows(f)
         /\ f = Written(file, r) => Broken(f) \/ r \in Rows(f)
<1>0. Len(file) \in Nat OBVIOUS
<1>1. ASSUME Open(file), NEW l, l.row = {}, f = [file EXCEPT ![Len(file)] = l]
      PROVE  Broken(f) /\ \A i \in 1..Len(f) : f[i].row = {} \/ (i \in 1..Len(file) /\ f[i] = file[i])
  <2>1. Len(file) \in 1..Len(file) BY <1>1 DEF Open
  <2>2. Len(f) = Len(file) /\ \A i \in 1..Len(file) : f[i] = IF i = Len(file) THEN l ELSE file[i] BY <1>1
  <2> QED BY <1>1, <2>1, <2>2 DEF Broken
<1>2. ASSUME NEW l, l.row \in {{}, {r}}, f = Append(file, l)
      PROVE  /\ Len(f) = Len(file) + 1 /\ f[Len(f)] = l
             /\ \A i \in 1..Len(file) : f[i] = file[i]
             /\ \A i \in 1..Len(f) : f[i].row \subseteq {r} \/ (i \in 1..Len(file) /\ f[i] = file[i])
             /\ Broken(file) => Broken(f)
             /\ Rows(file) \subseteq Rows(f)
             /\ l.row = {r} => r \in Rows(f)
  <2>1. /\ Len(f) = Len(file) + 1 /\ f[Len(f)] = l
        /\ \A i \in 1..Len(file) : f[i] = file[i]
    BY <1>2
  <2>2. \A i \in 1..Len(f) : i = Len(f) \/ i \in 1..Len(file) BY <1>0, <2>1
  <2>3. 1..Len(file) \subseteq 1..Len(f) /\ Len(f) \in 1..Len(f) BY <1>0, <2>1
  <2>4. \A i \in 1..Len(f) : f[i].row \subseteq {r} \/ (i \in 1..Len(file) /\ f[i] = file[i])
    BY <1>2, <2>1, <2>2
  <2>5. Broken(file) => Broken(f) BY <2>1, <2>3 DEF Broken
  <2>6. Rows(file) \subseteq Rows(f) BY <2>1, <2>3 DEF Rows
  <2>7. l.row = {r} => r \in Rows(f) BY <2>1, <2>3 DEF Rows
  <2> QED BY <2>1, <2>4, <2>5, <2>6, <2>7
<1>3. CASE f = file /\ f # Written(file, r) BY <1>3
<1>4. CASE Open(file) /\ (f # file \/ f = Written(file, r))
  <2>1. \E l : l.row = {} /\ f = [file EXCEPT ![Len(file)] = l]
    <3>1. CASE f = Written(file, r)
      <4> DEFINE l == [row |-> {}, open |-> FALSE, bad |-> file[Len(file)].bad]
      <4>1. f = [file EXCEPT ![Len(file)] = l] BY <1>4, <3>1 DEF Written
      <4>2. l.row = {} OBVIOUS
      <4> HIDE DEF l
      <4> QED BY <4>1, <4>2
    <3>2. CASE f # Written(file, r)
      <4>1. PICK b \in BOOLEAN :
              f = [file EXCEPT ![Len(file)] = [row |-> {}, open |-> TRUE, bad |-> b \/ file[Len(file)].bad]]
        BY <1>4, <3>2 DEF Cut
      <4> DEFINE l == [row |-> {}, open |-> TRUE, bad |-> b \/ file[Len(file)].bad]
      <4>2. f = [file EXCEPT ![Len(file)] = l] BY <4>1
      <4>3. l.row = {} OBVIOUS
      <4> HIDE DEF l
      <4> QED BY <4>2, <4>3
    <3> QED BY <3>1, <3>2
  <2> QED BY <1>1, <1>4, <2>1
<1>5. CASE ~Open(file) /\ (f # file \/ f = Written(file, r))
  <2>1. CASE f = Written(file, r)
    <3> DEFINE l == [row |-> {r}, open |-> FALSE, bad |-> FALSE]
    <3>1. f = Append(file, l) BY <1>5, <2>1 DEF Written
    <3>2. l.row = {r} OBVIOUS
    <3> HIDE DEF l
    <3> QED BY <1>2, <3>1, <3>2
  <2>2. CASE f # Written(file, r)
    <3>1. PICK l \in {[row |-> {}, open |-> TRUE, bad |-> b] : b \in BOOLEAN}
                       \cup {[row |-> {r}, open |-> TRUE, bad |-> FALSE]} : f = Append(file, l)
      BY <1>5, <2>2 DEF Cut
    <3>2. l.row \in {{}, {r}} OBVIOUS
    <3> QED BY <1>2, <2>2, <3>1, <3>2
  <2> QED BY <2>1, <2>2
<1> QED BY <1>3, <1>4, <1>5

\* An answer, and the documents it is compared with.
LEMMA AnswerTypes ==
  ASSUME Typed
  PROVE  /\ \A a \in answered : a \in Answers /\ a.n \in Notices /\ a.doc \in Documents
         /\ \A n \in Notices : Document(n) \in Documents
         /\ ask \in Asks /\ ask.docs \in [Notices -> Documents] /\ ask.existing \in [Notices -> Documents]
         /\ ask.todo \subseteq Notices
         /\ \A n \in ask.todo : AnswerOf(n) \in Answers
         /\ results \in [Notices -> Documents] /\ checkpoint \in Seq(Line(Answers))
<1>1. answered \subseteq Answers /\ ask \in Asks /\ results \in [Notices -> Documents]
      /\ checkpoint \in Seq(Line(Answers))
  BY DEF Typed, TypeOK, JudgmentsOK
<1>2. \A n \in Notices : Document(n) \in Documents BY DocumentTypes DEF Typed, TypeOK
<1>3. /\ ask.docs \in [Notices -> Documents] /\ ask.existing \in [Notices -> Documents]
      /\ ask.todo \subseteq Notices
  BY <1>1 DEF Asks
<1>4. \A n \in ask.todo : AnswerOf(n) \in Answers BY <1>3 DEF AnswerOf, Answers
<1> QED BY <1>1, <1>2, <1>3, <1>4 DEF Answers

\* What the others do leaves the answers and the run alone.
LEMMA PaidStays ==
  ASSUME Paid, UNCHANGED <<results, checkpoint, answered>>,
         ask'.at = ask.at, ask'.docs = ask.docs, ask'.existing = ask.existing, ask'.todo = ask.todo
  PROVE  Paid'
BY DEF Paid, Found, AnswerOf

\* A run that stops, or is over, leaves what is answered where it can be found.
LEMMA PaidOff ==
  ASSUME ask' = Off, UNCHANGED <<answered, results>>,
         \A a \in answered : Broken(checkpoint') \/ a \in Rows(checkpoint') \/ results[a.n] = a.doc
  PROVE  Paid'
<1>1. Off.at = "off" BY DEF Off
<1> QED BY <1>1 DEF Paid, Found

\* A run begins with the documents of now, and with every answer to one of them. It asks
\* for nothing that has an answer.
LEMMA LoadPaid ==
  ASSUME Typed, Paid, ~Broken(checkpoint), NEW owner \in Owners, Load(owner),
         UNCHANGED <<results, checkpoint>>
  PROVE  Paid'
<1> DEFINE existing == Existing(checkpoint)
           docs == [n \in Notices |-> Document(n)]
           want == {n \in Notices : existing[n] # Document(n) /\ ~GaveUp(n, state.failures)}
           a0 == AttemptedToday(state)
           k == IF a0 < DailyLimit THEN DailyLimit - a0 ELSE 0
<1>1. PICK todo \in FirstOf(want, k) :
        /\ ask' = [Off EXCEPT !.at = IF todo = {} THEN "save" ELSE "count", !.owner = owner, !.today = TRUE,
                              !.docs = docs, !.existing = existing, !.todo = todo,
                              !.attempted = a0, !.failures = state.failures]
        /\ answered' = {a \in answered : a.doc = Document(a.n)}
  BY DEF Load
<1>2. /\ ask'.at \in {"save", "count"} /\ ask'.docs = docs /\ ask'.existing = existing /\ ask'.todo = todo
  BY <1>1 DEF Off
<1>3. todo \subseteq want BY DEF FirstOf
<1>4. \A n \in Notices : docs[n] = Document(n) OBVIOUS
<1>5. ASSUME NEW a \in answered' PROVE a \in answered /\ docs[a.n] = a.doc /\ existing[a.n] = a.doc
  <2>1. a \in answered /\ a.doc = Document(a.n) BY <1>1
  <2>2. a \in Answers /\ a.n \in Notices BY <2>1, AnswerTypes
  <2>3. a = [n |-> a.n, doc |-> Document(a.n)] BY <2>1, <2>2 DEF Answers
  <2>4. a \in Rows(checkpoint) \/ results[a.n] = a.doc BY <2>1 DEF Paid, Found
  <2>5. existing[a.n] = IF [n |-> a.n, doc |-> Document(a.n)] \in Rows(checkpoint)
                        THEN Document(a.n) ELSE results[a.n]
    BY <2>2 DEF Existing
  <2> HIDE DEF existing, docs
  <2> QED BY <1>4, <2>1, <2>2, <2>3, <2>4, <2>5
<1>6. ASSUME NEW n \in todo PROVE AnswerOf(n)' \notin answered'
  <2> SUFFICES ASSUME AnswerOf(n)' \in answered' PROVE FALSE OBVIOUS
  <2>1. n \in Notices /\ existing[n] # Document(n) BY <1>3
  <2>2. AnswerOf(n)' = [n |-> n, doc |-> Document(n)] BY <1>2, <1>4, <2>1 DEF AnswerOf
  <2>3. AnswerOf(n)'.n = n /\ AnswerOf(n)'.doc = Document(n) BY <2>2
  <2> HIDE DEF existing, docs
  <2> QED BY <1>5, <2>1, <2>3
<1> HIDE DEF existing, docs
<1>7. \A a \in answered' : Found(a)' BY <1>5 DEF Paid, Found
<1> QED BY <1>2, <1>5, <1>6, <1>7 DEF Paid

\* An answer is put down and kept by the run, and replaces none that can still be found.
LEMMA AnswerPaid ==
  ASSUME Typed, Paid, NEW n \in ask.todo, NEW x, x = AnswerOf(n), Answer(n)
  PROVE  Paid'
<1>1. /\ ask.at = "answers" /\ checkpoint' = Written(checkpoint, x)
      /\ answered' = answered \cup {x} /\ UNCHANGED results
  BY DEF Answer
<1>2. /\ ask'.at \in {"save", "answers"} /\ ask'.docs = ask.docs
      /\ ask'.existing = [ask.existing EXCEPT ![n] = ask.docs[n]]
  BY AnswerTypes DEF Answer, Asks, After
<1>3. n \in Notices /\ x \in Answers /\ x.n = n /\ x.doc = ask.docs[n] BY AnswerTypes DEF AnswerOf
<1>4. /\ Broken(checkpoint) => Broken(checkpoint')
      /\ Broken(checkpoint') \/ Rows(checkpoint) \subseteq Rows(checkpoint')
      /\ Broken(checkpoint') \/ x \in Rows(checkpoint')
  <2>1. checkpoint \in Seq(Line(Answers)) BY AnswerTypes
  <2> QED BY <1>1, <1>3, <2>1, LineAdded
<1>5. ask'.existing[n] = ask.docs[n] /\ \A m \in Notices \ {n} : ask'.existing[m] = ask.existing[m]
  BY <1>2, <1>3, AnswerTypes
<1>6. ASSUME NEW a \in answered
      PROVE  Found(a)' /\ ask'.docs[a.n] = a.doc /\ ask'.existing[a.n] = a.doc
  <2>1. a.n \in Notices BY AnswerTypes
  <2>2. Found(a) /\ ask.docs[a.n] = a.doc /\ ask.existing[a.n] = a.doc BY <1>1 DEF Paid
  <2>3. ask'.existing[a.n] = a.doc BY <1>5, <2>1, <2>2
  <2> QED BY <1>1, <1>2, <1>4, <2>2, <2>3 DEF Found
<1>7. Found(x)' /\ ask'.docs[x.n] = x.doc /\ ask'.existing[x.n] = x.doc BY <1>2, <1>3, <1>4, <1>5 DEF Found
<1> QED BY <1>1, <1>2, <1>6, <1>7 DEF Paid

\* The other steps of a run.
LEMMA RunPaid == ASSUME Typed, Paid, RunStep PROVE Paid'
<1>a. ask \in Asks BY AnswerTypes
<1>1. CASE CountCalls
  <2>1. /\ ask'.at = "call" /\ ask'.docs = ask.docs /\ ask'.existing = ask.existing /\ ask'.todo = ask.todo
        /\ ask.at = "count" /\ UNCHANGED <<results, checkpoint, answered>>
    BY <1>1, <1>a DEF CountCalls, Asks
  <2> QED BY <2>1 DEF Paid, Found, AnswerOf
<1>2. CASE Call
  <2>1. /\ ask'.at = "answers" /\ ask'.docs = ask.docs /\ ask'.existing = ask.existing
        /\ ask.at = "call" /\ UNCHANGED <<results, checkpoint, answered>>
    BY <1>2, <1>a DEF Call, Asks
  <2> QED BY <2>1 DEF Paid, Found
<1>3. ASSUME NEW n \in ask.todo, Answer(n) PROVE Paid' BY <1>3, AnswerPaid
<1>4. ASSUME NEW n \in ask.todo, NoAnswer(n) PROVE Paid'
  <2>1. /\ ask'.at \in {"save", "answers"} /\ ask'.docs = ask.docs /\ ask'.existing = ask.existing
        /\ ask.at = "answers" /\ UNCHANGED <<results, checkpoint, answered>>
    BY <1>4, <1>a DEF NoAnswer, Asks, After
  <2> QED BY <2>1 DEF Paid, Found
<1>5. CASE SaveState
  <2>1. /\ ask'.at = "write" /\ ask'.docs = ask.docs /\ ask'.existing = ask.existing
        /\ ask.at = "save" /\ UNCHANGED <<results, checkpoint, answered>>
    BY <1>5, <1>a DEF SaveState, Asks
  <2> QED BY <2>1 DEF Paid, Found
<1>6. CASE WriteResults
  <2>1. /\ ask'.at = "drop" /\ ask'.docs = ask.docs /\ ask'.existing = ask.existing
        /\ ask.at = "write" /\ results' = ask.existing /\ UNCHANGED <<checkpoint, answered>>
    BY <1>6, <1>a DEF WriteResults, Asks
  <2> QED BY <2>1 DEF Paid, Found
<1>7. CASE DropCheckpoint
  <2>1. ask' = Off /\ ask.at = "drop" /\ UNCHANGED <<answered, results>> BY <1>7 DEF DropCheckpoint
  <2>2. \A a \in answered : results[a.n] = a.doc BY <2>1 DEF Paid
  <2> QED BY <2>1, <2>2, PaidOff
<1> QED BY <1>1, <1>2, <1>3, <1>4, <1>5, <1>6, <1>7 DEF RunStep

\* A run that is cut off, perhaps while it puts an answer down.
LEMMA CutPaid == ASSUME Typed, Paid, NEW cut \in BOOLEAN, AskCut(cut) PROVE Paid'
<1>1. ask' = Off /\ UNCHANGED <<results, answered>> BY DEF AskCut
<1>2. (Broken(checkpoint) => Broken(checkpoint')) /\ (Broken(checkpoint') \/ Rows(checkpoint) \subseteq Rows(checkpoint'))
  <2>1. CASE checkpoint' = checkpoint BY <2>1
  <2>2. ASSUME NEW n \in ask.todo, checkpoint' \in Cut(checkpoint, AnswerOf(n))
        PROVE  /\ Broken(checkpoint) => Broken(checkpoint')
               /\ Broken(checkpoint') \/ Rows(checkpoint) \subseteq Rows(checkpoint')
    <3>1. checkpoint \in Seq(Line(Answers)) /\ AnswerOf(n) \in Answers BY AnswerTypes
    <3> QED BY <2>2, <3>1, LineAdded
  <2> QED BY <2>1, <2>2 DEF AskCut
<1>3. \A a \in answered : Broken(checkpoint') \/ a \in Rows(checkpoint') \/ results[a.n] = a.doc
  BY <1>2 DEF Paid, Found
<1> QED BY <1>1, <1>3, PaidOff

\* No step of anybody loses an answer to a document that is loaded again and again.
LEMMA NextPaid == Typed /\ Paid /\ [Next]_vars => Paid'
<1> SUFFICES ASSUME Typed, Paid, [Next]_vars PROVE Paid' OBVIOUS
<1>u. UNCHANGED judgeVars => Paid' BY PaidStays DEF judgeVars
<1>1. CASE StartRun \/ Attach \/ Vectorise \/ UNCHANGED vars
  BY <1>1, <1>u DEF StartRun, Attach, Vectorise, vars
<1>2. CASE Judge
  <2>1. CASE StageRuns \/ OperatorRuns
    <3>1. PICK owner \in Owners : Load(owner) BY <2>1 DEF StageRuns, OperatorRuns, Owners
    <3>2. ~Broken(checkpoint) /\ UNCHANGED <<results, checkpoint>>
      BY <2>1 DEF StageRuns, OperatorRuns, Unasked
    <3> QED BY <3>1, <3>2, LoadPaid
  <2>2. CASE RunStep BY <2>2, RunPaid
  <2>3. CASE OperatorCrash
    <3>1. AskCut(TRUE) BY <2>3 DEF OperatorCrash, AskCut
    <3> QED BY <3>1, CutPaid
  <2>4. CASE StageSkipped \/ \E some \in SUBSET ToJudge : UploadJudgments(some)
    <3>1. UNCHANGED <<results, checkpoint, answered, ask>>
      BY <2>4 DEF StageSkipped, UploadJudgments, Unasked
    <3> QED BY <3>1, PaidStays
  <2> QED BY <1>2, <2>1, <2>2, <2>3, <2>4 DEF Judge, JudgmentsStep
<1>3. CASE Crash
  <2>1. CASE ask.owner # "pipeline" BY <1>3, <1>u, <2>1 DEF Crash
  <2>2. CASE ask.owner = "pipeline"
    <3>1. AskCut(TRUE) BY <1>3, <2>2 DEF Crash, AskCut
    <3> QED BY <3>1, CutPaid
  <2> QED BY <2>1, <2>2
<1>4. CASE NextDay
  <2>1. ask' = [ask EXCEPT !.today = FALSE] /\ UNCHANGED <<results, checkpoint, answered>>
    BY <1>4 DEF NextDay, NextDate
  <2>2. ask'.at = ask.at /\ ask'.docs = ask.docs /\ ask'.existing = ask.existing /\ ask'.todo = ask.todo
    BY <2>1, AnswerTypes DEF Asks
  <2> QED BY <2>1, <2>2, PaidStays
<1>5. ASSUME NEW n \in Notices, ImportNotice(n) PROVE Paid' BY <1>5, <1>u DEF ImportNotice
<1> QED BY <1>1, <1>2, <1>3, <1>4, <1>5 DEF Next

\* A document is not asked about again as long as every run has loaded its notice with it:
\* its answer is in the checkpoint before the next one, in the results before the
\* checkpoint is dropped, and a checkpoint that a crash has broken lets nobody ask
\* (collect/applicant_type_daily.py).
THEOREM PaidOnce == Spec => NothingPaidTwice
<1>1. Init => Paid
  <2>1. Off.at = "off" BY DEF Off
  <2> QED BY <2>1 DEF Init, JudgmentsInit, Paid
<1>2. Paid /\ [Next]_vars => [Call => \A n \in ask.todo : AnswerOf(n) \notin answered]_vars
  BY DEF Paid, Call
<1> QED BY InitTyped, NextTyped, NextPaid, <1>1, <1>2, PTL DEF Spec, NothingPaidTwice
=============================================================================
