--------------------------- MODULE MCRetentionJob ---------------------------
(* RetentionJob with a choice of casts: one run that two workers, a user and a *)
(* withdrawal want at once, or all runs for one worker, page by page, with a  *)
(* fault and artifacts being deleted.                                          *)
EXTENDS RetentionJob

Born == {r \in Runs : written[r] > 0}
FirstRun == CHOOSE r \in Runs : TRUE
FirstWorker == CHOOSE w \in Workers : TRUE
Cast == Cardinality(Born) > 1 => visits = 0 /\ \A m \in Movers \ {FirstWorker} : At(m, "idle")

MCSpec ==
  /\ Init /\ Born \in {{FirstRun}, Runs}
  /\ [][Next /\ Cast']_vars
  /\ \A w \in Workers : WF_vars(StartJob(w) /\ Cast') /\ WF_vars(JobStep(w))
  /\ EnvironmentFairness
=============================================================================
