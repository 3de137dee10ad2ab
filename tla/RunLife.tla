------------------------------- MODULE RunLife -------------------------------
(***************************************************************************)
(* What a stored run promises to the outside: its row changes one handler  *)
(* at a time, each handler starting from the row the one before it left.   *)
(* There are no workers, leases or copies here; RunLease is shown to       *)
(* implement this machine.                                                 *)
(***************************************************************************)
EXTENDS RunModel

VARIABLES
  run,              \* the row of the run
  abortRequested,   \* column abort_requested
  windowOpen        \* now < cycle.collect_until

lifeVars == <<run, abortRequested, windowOpen>>

\* models.run.collecting: the cycle still accepts bundles.
Collecting(r, open) == r.progress = "run" /\ r.cycle # "none" /\ open

Init == run = NewRow /\ abortRequested = FALSE /\ windowOpen = FALSE

\* One step of the queue, saved once, never while the cycle is collecting.
Step ==
  /\ run.progress = "run" /\ run.left > 0
  /\ ~Collecting(run, windowOpen)
  /\ run' \in AfterStep(run)
  /\ UNCHANGED <<abortRequested, windowOpen>>

QueueEmpty ==
  /\ run.progress = "run" /\ run.left = 0
  /\ run' \in AfterQueueEmpty(run)
  /\ UNCHANGED <<abortRequested, windowOpen>>

Resume ==
  /\ run.progress = "resume_wait"
  /\ run' = AfterResume(run)
  /\ UNCHANGED <<abortRequested, windowOpen>>

\* A worker between two steps, or the user while nobody works on the run.
Abort ==
  /\ run.progress \in ActiveProgress
  /\ run' = AfterAbort(run)
  /\ UNCHANGED <<abortRequested, windowOpen>>

RequestAbort == abortRequested' = TRUE /\ UNCHANGED <<run, windowOpen>>

Command ==
  /\ run.progress = "user_wait"
  /\ run' \in AfterCommand(run)
  /\ UNCHANGED <<abortRequested, windowOpen>>

\* A rework request opens a cycle, or joins one before its first step.
Rework ==
  /\ \/ run.progress = "user_wait" /\ windowOpen' \in BOOLEAN
     \/ run.progress = "run" /\ run.cycle = "fresh" /\ UNCHANGED windowOpen
  /\ run' \in AfterRework(run)
  /\ UNCHANGED abortRequested

CloseWindow == windowOpen /\ windowOpen' = FALSE /\ UNCHANGED <<run, abortRequested>>

Next == Step \/ QueueEmpty \/ Resume \/ Abort \/ RequestAbort \/ Command \/ Rework
          \/ CloseWindow

Spec == Init /\ [][Next]_lifeVars
=============================================================================
