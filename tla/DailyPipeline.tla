--------------------------- MODULE DailyPipeline ---------------------------
(***************************************************************************)
(* Stages 5 to 13 of the daily batch together, day after day, while        *)
(* imports change the notices, calls fail and the machine stops.  Every    *)
(* stage finds what it has to do by comparing what it made with what it is *)
(* made of, so what one run leaves undone is done by a later one.          *)
(***************************************************************************)
EXTENDS NoticeJudgments, NoticeVectors

vars == <<shared, textVars, judgeVars, vectorVars>>

Init == SharedInit /\ TextsInit /\ JudgmentsInit /\ VectorsInit

\* The schedule, or an operator: stage 4 has stored the notices.
StartRun ==
  /\ Go("idle", "attach")
  /\ UNCHANGED <<imported, faults, textVars, judgeVars, vectorVars>>

ImportNotice(n) == Import(n) /\ UNCHANGED <<textVars, judgeVars, vectorVars>>

Attach == TextsStep /\ UNCHANGED <<judgeVars, vectorVars>>
Vectorise == VectorsStep /\ UNCHANGED <<textVars, judgeVars>>
Judge == JudgmentsStep /\ UNCHANGED <<textVars, vectorVars>>

Crash ==
  /\ stage # "idle" /\ stage' = "idle"
  /\ IF ask.owner = "pipeline" THEN AskCut(Fault) ELSE Fault /\ UNCHANGED judgeVars
  /\ TextsStopped /\ VectorsStopped
  /\ UNCHANGED imported

NextDay ==
  /\ TextsDue /\ NextDate
  /\ <<text', state', ask', spent'>> # <<text, state, ask, spent>>
  /\ UNCHANGED <<shared, lines, pending, next, streak, disk, remote, vectorVars>>

Next ==
  \/ StartRun \/ Attach \/ Vectorise \/ Judge \/ Crash \/ NextDay
  \/ \E n \in Notices : ImportNotice(n)

Spec == Init /\ [][Next]_vars

\* The schedule starts a run again and again; a run goes on unless it crashes, and so does
\* one by hand once it has begun; nobody has to begin one.
StageGoesOn == StageRuns \/ StageSkipped \/ \E some \in SUBSET ToJudge : UploadJudgments(some)
Fairness ==
  /\ WF_vars(StartRun) /\ WF_vars(Attach) /\ WF_vars(Vectorise) /\ WF_vars(NextDay)
  /\ WF_vars(StageGoesOn /\ UNCHANGED <<textVars, vectorVars>>)
  /\ WF_vars(RunStep /\ UNCHANGED <<textVars, vectorVars>>)
FairSpec == Spec /\ Fairness

-----------------------------------------------------------------------------
(* Properties *)

TypeOK == SharedOK /\ TextsOK /\ JudgmentsOK /\ VectorsOK

\* A file in the database has the bytes its name promises, although a crash may have
\* left a part of it on the disk under that name.
UploadedFilesAreWhole == \A f \in Files : remote[f] # "part"

\* The runs of a day, by the schedule and by hand, cut off or not, make no more calls
\* together than the limit.  (A run by hand has the default limit; --limit is left out.)
CallsWithinLimit == spent <= DailyLimit

\* An answer that was put down is not paid for again, whatever happened to the run between
\* the answer and the results, as long as every run since has loaded its notice with that
\* document.  (A document that was another in between and came back is paid for again.)
NothingPaidTwice == [][Call => \A n \in ask.todo : AnswerOf(n) \notin answered]_vars

\* What the day's work is to reach for a notice.
TextDone(n) == text[n].status \in {"ok", "final"} /\ text[n].src = source[n]
VectorDone(n) == vector[n] = version[n] /\ index[n] # 0
JudgmentDone(n) == judged[n] = Document(n) \/ GaveUp(n, state.failures)
AllDone == \A n \in Notices : TextDone(n) /\ VectorDone(n) /\ JudgmentDone(n)

\* When imports and faults end, the stages catch up with the newest notices, except
\* where a crash has left a results file or a broken checkpoint.  Of the index this asks
\* only that the notice is there: sync does not look for vectors that are old.
DailyCatchesUp == <>[]AllDone \/ <>[](lines # <<>>) \/ <>[]Broken(checkpoint)

\* "Cut off in between, it goes on when it is run again" (attachment_pipeline.py:9).
TextsGoOn == \A n \in Notices : []<>TextDone(n)
=============================================================================
