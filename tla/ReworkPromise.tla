---------------------------- MODULE ReworkPromise ----------------------------
(***************************************************************************)
(* What a rework promises the user of a run: a chance of a bundle is spent *)
(* by asking, the result stays as it was until the rework is over, then it *)
(* is replaced as a whole by one that is worth no less, or it stays and    *)
(* every chance comes back.                                                *)
(***************************************************************************)
EXTENDS Integers

CONSTANTS Bundles, PerBundle

VARIABLES
  remaining,  \* chances left of every bundle
  asked,      \* the bundles of the rework under way
  result,     \* what the user sees, or will see again
  worth,      \* its score
  making,     \* the run is making its first plan, prototype or final result
  over        \* the run has ended; a run that was stopped shows no result

promiseVars == <<remaining, asked, result, worth, making, over>>

Init == /\ remaining = [b \in Bundles |-> PerBundle]
        /\ asked = {}
        /\ ~making /\ ~over

Ask == \E b \in Bundles \ asked :
          /\ ~making /\ ~over /\ remaining[b] > 0
          /\ asked' = asked \cup {b}
          /\ remaining' = [remaining EXCEPT ![b] = @ - 1]
          /\ UNCHANGED <<result, worth, making, over>>

Replace == /\ asked # {} /\ asked' = {}
           /\ worth' >= worth
           /\ UNCHANGED <<remaining, making, over>>

GiveBack == /\ asked # {} /\ asked' = {}
            /\ remaining' = [b \in Bundles |-> remaining[b] + (IF b \in asked THEN 1 ELSE 0)]
            /\ UNCHANGED <<result, worth, making, over>>

\* The user stops the run: the chances of a rework under way are lost.
Stop == /\ ~over /\ over' /\ asked' = {} /\ ~making'
        /\ UNCHANGED remaining

Begin == /\ ~making /\ ~over /\ asked = {} /\ making'
         /\ UNCHANGED <<remaining, asked, result, worth, over>>

Make == /\ making
        /\ UNCHANGED <<remaining, asked>>

Next == Ask \/ Replace \/ GiveBack \/ Stop \/ Begin \/ Make

Spec == Init /\ [][Next]_promiseVars
=============================================================================
