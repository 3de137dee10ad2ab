-------------------------- MODULE NoticeJudgments --------------------------
(***************************************************************************)
(* Stages 11 and 13: a model is asked what kinds of applicants a notice    *)
(* admits (collect/applicant_type_daily.py) and the answers are uploaded   *)
(* (collect/upload_judgments.py).  Calls cost money: there is a limit for  *)
(* a day, an answer is put down at once, and a document that keeps failing *)
(* is given up.  The stage can also be run by hand; run.lock lets one run  *)
(* at a time.  A document is the notice's fields and the text of its       *)
(* attachment while the last attempt to read that went well: one that has  *)
(* been replaced may come back.  An answer is known by its document.       *)
(***************************************************************************)
EXTENDS AttachmentTexts

CONSTANTS
  DailyLimit,  \* DAILY_LIMIT
  MaxFailures  \* MAX_FAILURES

ASSUME JudgmentsAssumption == DailyLimit \in Nat /\ MaxFailures \in Nat \ {0}

VARIABLES
  results,     \* results.jsonl
  checkpoint,  \* checkpoint.jsonl
  state,       \* daily_state.json; today: its date is the date of today
  ask,         \* the run that holds run.lock
  judged,      \* table notice_applicant_types
  spent,       \* observer: calls of the runs of today
  answered     \* observer: the answers that were put down and whose notice no run has
               \* loaded with another document since

judgeVars == <<results, checkpoint, state, ask, judged, spent, answered>>

Documents == (0..MaxVersion) \X (0..MaxVersion)
NoDocument == <<0, 0>>

\* load_population takes a text only if the last attempt to read one went well.
Document(n) == <<version[n], IF text[n].status = "ok" THEN text[n].body ELSE 0>>

Failures == [Notices -> [doc : Documents, count : 0..MaxFailures]]
NoFailures == [n \in Notices |-> [doc |-> NoDocument, count |-> 0]]
NoAnswers == [n \in Notices |-> NoDocument]
Answers == [n : Notices, doc : Documents]
State == [today : BOOLEAN, attempted : Nat, failures : Failures]

Owners == {"nobody", "pipeline", "operator"}
Off == [at |-> "off", owner |-> "nobody", today |-> FALSE, docs |-> NoAnswers, existing |-> NoAnswers,
        todo |-> {}, attempted |-> 0, failures |-> NoFailures, failed |-> FALSE]

Asks == [at : {"off", "count", "call", "answers", "save", "write", "drop"}, owner : Owners, today : BOOLEAN,
         docs : [Notices -> Documents], existing : [Notices -> Documents], todo : SUBSET Notices,
         attempted : Nat, failures : Failures, failed : BOOLEAN]

JudgmentsOK ==
  /\ results \in [Notices -> Documents] /\ judged \in [Notices -> Documents]
  /\ checkpoint \in Seq(Line(Answers))
  /\ state \in State
  /\ ask \in Asks
  /\ (ask.at = "off") = (ask.owner = "nobody")
  /\ (stage = "asking") = (ask.owner = "pipeline")
  /\ spent \in Nat /\ answered \subseteq Answers

JudgmentsInit ==
  /\ results = NoAnswers /\ checkpoint = <<>> /\ judged = NoAnswers
  /\ state = [today |-> FALSE, attempted |-> 0, failures |-> NoFailures]
  /\ ask = Off /\ spent = 0 /\ answered = {}

-----------------------------------------------------------------------------
\* Mutant of AttemptedToday: every run has the whole limit.
AttemptedByRun(s) == 0

\* load_state: another date, another limit.
AttemptedToday(s) == IF s.today THEN s.attempted ELSE 0

\* Mutant of Existing: the checkpoint of a run that was cut off is not read.
ResultsOnly(file) == results

\* The answers of a run that was cut off, if the document is still the same.
Existing(file) ==
  [n \in Notices |-> IF [n |-> n, doc |-> Document(n)] \in Rows(file) THEN Document(n) ELSE results[n]]

\* gave_up
GaveUp(n, failures) == failures[n].doc = Document(n) /\ failures[n].count >= MaxFailures

\* plan: at most k, the smallest numbers first (a set of one set).
FirstOf(S, k) ==
  {T \in SUBSET S : /\ Cardinality(T) <= k /\ (T = S \/ Cardinality(T) = k)
                    /\ \A n \in T, m \in S \ T : n < m}

\* run_batch, up to the calls.
Load(owner) ==
  LET attempted == AttemptedToday(state)
      existing == Existing(checkpoint)
      want == {n \in Notices : existing[n] # Document(n) /\ ~GaveUp(n, state.failures)} IN
  \E todo \in FirstOf(want, IF attempted < DailyLimit THEN DailyLimit - attempted ELSE 0) :
    /\ ask' = [Off EXCEPT !.at = IF todo = {} THEN "save" ELSE "count", !.owner = owner, !.today = TRUE,
                          !.docs = [n \in Notices |-> Document(n)], !.existing = existing, !.todo = todo,
                          !.attempted = attempted, !.failures = state.failures]
    /\ answered' = {a \in answered : a.doc = Document(a.n)}

Unasked == UNCHANGED <<results, checkpoint, state, judged, spent>>

StageRuns ==
  /\ ask.at = "off" /\ ~Broken(checkpoint)
  /\ Go("types", "asking") /\ Load("pipeline")
  /\ UNCHANGED <<imported, faults>> /\ Unasked

\* Another run has run.lock, or the checkpoint cannot be read.
StageSkipped ==
  /\ ask.at # "off" \/ Broken(checkpoint)
  /\ Go("types", "judge")
  /\ UNCHANGED <<imported, faults, ask, answered>> /\ Unasked

OperatorRuns ==
  /\ ask.at = "off" /\ ~Broken(checkpoint)
  /\ Load("operator")
  /\ UNCHANGED shared /\ Unasked

SavedState == [today |-> ask.today, attempted |-> ask.attempted, failures |-> ask.failures]

\* The calls are counted before they are made.
CountCalls ==
  /\ ask.at = "count"
  /\ ask' = [ask EXCEPT !.at = "call", !.attempted = @ + Cardinality(ask.todo)]
  /\ state' = [SavedState EXCEPT !.attempted = @ + Cardinality(ask.todo)]
  /\ UNCHANGED <<shared, results, checkpoint, judged, spent, answered>>

Call ==
  /\ ask.at = "call"
  /\ ask' = [ask EXCEPT !.at = "answers"]
  /\ spent' = IF ask.today THEN spent + Cardinality(ask.todo) ELSE spent
  /\ UNCHANGED <<shared, results, checkpoint, state, judged, answered>>

AnswerOf(n) == [n |-> n, doc |-> ask.docs[n]]
Rest(n) == ask.todo \ {n}
After(n) == IF Rest(n) = {} THEN "save" ELSE "answers"

Answer(n) ==
  /\ ask.at = "answers"
  /\ checkpoint' = Written(checkpoint, AnswerOf(n))
  /\ ask' = [ask EXCEPT !.at = After(n), !.todo = Rest(n), !.existing[n] = ask.docs[n],
                        !.failures[n] = NoFailures[n]]
  /\ answered' = answered \cup {AnswerOf(n)}
  /\ UNCHANGED <<shared, results, state, judged, spent>>

\* Mutant of Count: it goes on for another document.
CountOn(f, doc) == f.count + 1

\* A failure counts for the document it was about.
Count(f, doc) == IF f.doc = doc THEN f.count + 1 ELSE 1

NoAnswer(n) ==
  /\ ask.at = "answers"
  /\ ask' = [ask EXCEPT !.at = After(n), !.todo = Rest(n), !.failed = TRUE,
                        !.failures[n] = [doc |-> ask.docs[n], count |-> Count(@, ask.docs[n])]]
  /\ UNCHANGED <<shared, results, checkpoint, state, judged, spent, answered>>

SaveState ==
  /\ ask.at = "save"
  /\ ask' = [ask EXCEPT !.at = "write"]
  /\ state' = SavedState
  /\ UNCHANGED <<shared, results, checkpoint, judged, spent, answered>>

WriteResults ==
  /\ ask.at = "write"
  /\ ask' = [ask EXCEPT !.at = "drop"]
  /\ results' = ask.existing
  /\ UNCHANGED <<shared, checkpoint, state, judged, spent, answered>>

\* The checkpoint stays if a call failed.
DropCheckpoint ==
  /\ ask.at = "drop"
  /\ checkpoint' = IF ask.failed THEN checkpoint ELSE <<>>
  /\ ask' = Off
  /\ stage' = IF ask.owner = "pipeline" THEN "judge" ELSE stage
  /\ UNCHANGED <<imported, faults, results, state, judged, spent, answered>>

\* The process of the run stops, perhaps while an answer is put down.
AskCut(cut) ==
  /\ ask' = Off
  /\ \/ UNCHANGED checkpoint
     \/ ask.at = "answers" /\ \E n \in ask.todo : checkpoint' \in Cut(checkpoint, AnswerOf(n))
  /\ cut /\ UNCHANGED <<results, state, judged, spent, answered>>

OperatorCrash ==
  /\ ask.owner = "operator"
  /\ AskCut(Fault)
  /\ UNCHANGED <<imported, stage>>

\* Only what differs is uploaded; an error may leave a part.
ToJudge == {n \in Notices : results[n] # NoDocument /\ results[n] # judged[n]}

UploadJudgments(some) ==
  /\ Go("judge", "idle")
  /\ IF some = ToJudge THEN UNCHANGED faults ELSE Fault
  /\ judged' = [n \in Notices |-> IF n \in some THEN results[n] ELSE judged[n]]
  /\ UNCHANGED <<imported, results, checkpoint, state, ask, spent, answered>>

\* Midnight: a run goes on with the date it began with.
NextDate ==
  /\ state' = [state EXCEPT !.today = FALSE]
  /\ ask' = [ask EXCEPT !.today = FALSE]
  /\ spent' = 0
  /\ UNCHANGED <<results, checkpoint, judged, answered>>

RunStep == CountCalls \/ Call \/ (\E n \in ask.todo : Answer(n) \/ NoAnswer(n))
           \/ SaveState \/ WriteResults \/ DropCheckpoint

JudgmentsStep ==
  \/ StageRuns \/ StageSkipped \/ OperatorRuns \/ RunStep \/ OperatorCrash
  \/ \E some \in SUBSET ToJudge : UploadJudgments(some)
=============================================================================
