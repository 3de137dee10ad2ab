-------------------------- MODULE MCDailyPipeline --------------------------
(* DailyPipeline on small instances: either the first notice is imported   *)
(* again, as a whole or (once its text is there) with another date alone,  *)
(* or an operator runs a stage by hand, once.  The second notice competes  *)
(* with it for the limit.                                                  *)
EXTENDS DailyPipeline, TLC

VARIABLE cast
MCInit == Init /\ cast \in {"imports", "operator"}

OtherDate == source' = [source EXCEPT ![1] = 2]
DateAlone == OtherDate /\ <<version', served'>> = <<version, served>> /\ text[1].status = "ok"
AllNew == OtherDate /\ version' = source' /\ served' = source'

ImportedOnce == imported' # imported => cast = "imports" /\ (DateAlone \/ AllNew)

\* The downloads and the calls about the second notice go well.
SecondGoesWell ==
  /\ \A r \in Rows(lines') : r.n = 2 => r.status = "ok"
  /\ ask'.failures[2] = NoFailures[2]

OperatorBegins == ask.owner # "operator" /\ ask'.owner = "operator"

MCNext ==
  /\ Next
  /\ ImportedOnce /\ SecondGoesWell
  /\ OperatorBegins => cast = "operator"
  /\ cast' = IF imported' # imported \/ OperatorBegins THEN "nobody" ELSE cast
MCSpec == MCInit /\ [][MCNext]_<<vars, cast>> /\ Fairness
=============================================================================
