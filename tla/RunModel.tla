------------------------------ MODULE RunModel ------------------------------
(***************************************************************************)
(* The stored row of one run (models/run.py, table orch_runs) reduced to   *)
(* what its life depends on, and what each handler of the engine, the flow *)
(* and the service may turn it into.  The operators are shared by the      *)
(* abstract life of a run (RunLife) and by the concurrent system that      *)
(* implements it (RunLease).                                               *)
(***************************************************************************)
EXTENDS Naturals

CONSTANTS
  MaxLeft,     \* longest queue of steps of a segment
  MaxResume,   \* settings.resume.max_count
  MaxRedo      \* verify-1 insertions into one segment (redo.verify1_redo_count)

ASSUME RunModelAssumption ==
  /\ MaxLeft \in Nat \ {0}
  /\ MaxResume \in Nat
  /\ MaxRedo \in Nat

\* RunState.progress: run = in progress, resume_wait = waiting for a timed
\* retry, user_wait = waiting for a command; the others are final.
Progress == {"run", "resume_wait", "user_wait", "done", "failed", "aborted"}
ActiveProgress == {"run", "resume_wait", "user_wait"}
FinalProgress == Progress \ ActiveProgress

\* cycle: no rework cycle, a cycle no step of which was saved, a cycle at work.
Row == [progress : Progress,
        left     : 0..MaxLeft,      \* Len(Run.queue)
        cycle    : {"none", "fresh", "worked"},
        resumes  : 0..MaxResume,    \* Run.resume_count
        redos    : 0..MaxRedo]      \* insertions verify-1 may still make

\* The row create_run_for_request inserts: the preliminary segment is over
\* and the run waits for the choice of an announcement.
NewRow == [progress |-> "user_wait", left |-> 0, cycle |-> "none",
           resumes |-> 0, redos |-> 0]

\* SBrainFlow._wait: a place where the run waits for its user.  The resume
\* episode is not touched.
Waiting(r) == [NewRow EXCEPT !.resumes = r.resumes]

\* RunService._enqueue and the rework queue: a segment of n steps to run.
Enqueued(r, n, c) == [progress |-> "run", left |-> n, cycle |-> c,
                      resumes |-> r.resumes, redos |-> MaxRedo]

Worked(r) == IF r.cycle = "none" THEN "none" ELSE "worked"

-----------------------------------------------------------------------------
\* A step that succeeded: pop(0), after_step, the resume episode is reset.
\* T-V1 may put steps back at the head of the queue while its budget lasts.
Stepped(r, n, d) == [progress |-> "run", left |-> n, cycle |-> Worked(r),
                     resumes |-> 0, redos |-> d]
AfterOk(r) == {Stepped(r, r.left - 1, r.redos)}
                \cup {Stepped(r, n, r.redos - 1) : n \in {m \in r.left..MaxLeft : r.redos > 0}}

\* Mutant of AfterExhausted: the bound is compared with <=, one resume too many.
ExhaustedOnceMore(r) ==
  IF r.resumes <= MaxResume
  THEN {[progress |-> "resume_wait", left |-> r.left, cycle |-> Worked(r),
         resumes |-> r.resumes + 1, redos |-> r.redos]}
  ELSE {}

\* Engine.schedule_resume: a transient error with resumes left.
AfterExhausted(r) ==
  IF r.resumes < MaxResume
  THEN {[progress |-> "resume_wait", left |-> r.left, cycle |-> Worked(r),
         resumes |-> r.resumes + 1, redos |-> r.redos]}
  ELSE {}

\* A run that has ended; no step is left and no cycle is open.
Ended(r, p) == [progress |-> p, left |-> 0, cycle |-> "none",
                resumes |-> r.resumes, redos |-> 0]

\* Engine.fail: a rework cycle is rolled back to its waiting point and its
\* resume episode reset, a run without a cycle fails for good.
AfterFail(r) == IF r.cycle = "none" THEN Ended(r, "failed") ELSE NewRow

\* SBrainFlow.on_rescue and _more_failed: a failed lookup goes back to the
\* choice of an announcement (never inside a rework cycle).
AfterRescue(r) == IF r.cycle = "none" THEN {Waiting(r)} ELSE {}

\* What the save at the end of one run of a step may write.
AfterStep(r) == AfterOk(r) \cup AfterExhausted(r) \cup {AfterFail(r)} \cup AfterRescue(r)

\* SBrainFlow.on_queue_empty: the segment ends at a waiting point, or the
\* result segment ends the run.
AfterQueueEmpty(r) ==
  {Waiting(r)} \cup (IF r.cycle = "none" THEN {Ended(r, "done")} ELSE {})

\* Engine.resume.
AfterResume(r) == [r EXCEPT !.progress = "run"]

\* SBrainFlow.on_abort.
AfterAbort(r) == Ended(r, "aborted")

\* The waiting-point commands: a new segment, or no segment at all (screen 8
\* moves to screen 9, and screen 9 may ask for a confirmation first).
AfterCommand(r) == {r} \cup {Enqueued(r, n, "none") : n \in 1..MaxLeft}

\* _accept_rework: opens a cycle at a waiting point or joins the one that is
\* still collecting; a bundle already collected changes nothing.
AfterRework(r) == {Enqueued(r, n, "fresh") : n \in 1..MaxLeft}
                    \cup (IF r.progress = "run" THEN {r} ELSE {})
=============================================================================
