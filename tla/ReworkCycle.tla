----------------------------- MODULE ReworkCycle -----------------------------
(***************************************************************************)
(* The plan, the prototype and their reworks in the life of one run: the   *)
(* queues of the segments WRITE, PROTO and REWORK, the redo that verify-1  *)
(* inserts, the pointers to the current artifacts, and the rework cycle    *)
(* that moves them back (engine.py, sbrain_flow.py, service.py).           *)
(*                                                                         *)
(* One process is enough: RunLease shows that only the holder of the lease *)
(* works on a run.  A step stands for its last attempt; retries and timed  *)
(* resumes are RunLease's.  An artifact is the cycle it was made in and    *)
(* what it was made from; 0 is the first writing and the prototype.        *)
(***************************************************************************)
EXTENDS Integers, Sequences, Functions, FiniteSets

CONSTANTS
  Items,        \* the items of a form
  Kind,         \* item -> "section", "image" or "table"
  Forms,        \* the forms T-C3 may choose: item -> document bundle, Absent if none
  DocBundles,   \* the bundles of the document layer
  Categories,   \* subset of {"web", "onepage"}
  PerBundle,    \* settings.rework.per_bundle
  RedoLimit,    \* settings.redo.verify1_redo_count
  MaxScore,     \* bound: scores of a layer are 0..MaxScore
  MaxCycles,    \* bound: rework cycles of a run
  Absent, NoCycle

ArtifactBundles == {"executable", "infographic"}
Bundles == DocBundles \cup ArtifactBundles
Screens == {"screen6", "screen8", "screen9"}

\* What the pointers point at, and a rework cycle.
Maybe(S) == S \cup {Absent}
Text == [Items -> Nat \X Nat]
Plan == [body : Text, merged : BOOLEAN]
DocScore == [made : Nat, body : Text, total : 0..MaxScore, failing : SUBSET Items]
Readme == [prototype : Nat, infographic : Nat]
Prototype == [made : Nat, body : Text, readme : Maybe(Readme)]
Infographic == [made : Nat, body : Text]
ArtifactScore == [made : Nat, total : 0..MaxScore, prototype : Prototype, infographic : Infographic]
Report == [doc : DocScore, artifact : ArtifactScore]
Artifacts == [text : Text, replaced : SUBSET Items, plan : Maybe(Plan), docScore : Maybe(DocScore),
              docReport : Maybe(DocScore), prototype : Maybe(Prototype), infographic : Maybe(Infographic),
              readme : Maybe(Readme), artifactScore : Maybe(ArtifactScore), report : Maybe(Report)]
Cycle == [id : 1..MaxCycles, screen : Screens, snapshot : Artifacts, bundles : SUBSET Bundles,
          open : BOOLEAN]

ASSUME ReworkAssumption ==
  /\ IsFiniteSet(Items) /\ Items # {}
  /\ Kind \in [Items -> {"section", "image", "table"}]
  /\ Forms \subseteq [Items -> DocBundles \cup {Absent}]
  /\ DocBundles \cap ArtifactBundles = {}
  /\ Categories \subseteq {"web", "onepage"}
  /\ PerBundle \in Nat /\ RedoLimit \in Nat /\ MaxScore \in Nat /\ MaxCycles \in Nat
  /\ Absent \notin Text /\ (\A S \in SUBSET Items : Absent # S) /\ Absent \notin Plan /\ Absent \notin DocScore
  /\ Absent \notin Readme /\ Absent \notin Prototype /\ Absent \notin Infographic
  /\ Absent \notin ArtifactScore /\ Absent \notin Report
  /\ NoCycle \notin Cycle

VARIABLES
  form,       \* the form of the announcement (formSpec)
  category,   \* what T-C1 found the product to be
  progress,   \* "user_wait", "run", "done", "failed" or "aborted"
  place,      \* Run.state.step
  queue,      \* Run.queue
  shown,      \* the current version pointers, as the artifacts they point at
  cycle,      \* Run.cycle
  cycles,     \* rework cycles opened so far
  remaining,  \* Run.rework_usage: chances left of every bundle
  verify1     \* Run.verify1

vars == <<form, category, progress, place, queue, shown, cycle, cycles, remaining, verify1>>

Tasks == {"T-W1", "T-W2", "T-W3", "M-1", "T-V1", "T-B1", "T-B2", "M-2", "G-04", "M-3", "T-V2",
          "CYCLE-END", "G-02a", "G-02b", "T-C4"}
InOrder(tasks) ==
  LET If(t) == IF t \in tasks THEN <<t>> ELSE <<>>
  IN If("T-W1") \o If("T-W2") \o If("T-W3") \o If("M-1") \o If("T-V1")
       \o If("T-B1") \o If("T-B2") \o If("M-2") \o If("G-04") \o If("M-3") \o If("T-V2")
       \o If("CYCLE-END") \o If("G-02a") \o If("G-02b") \o If("T-C4")

DocumentTask == [section |-> "T-W1", image |-> "T-W2", table |-> "T-W3"]
TasksOf(items) == {DocumentTask[Kind[i]] : i \in items}
ItemsOf(task) == {i \in Items : DocumentTask[Kind[i]] = task}
ItemsIn(bundles) == {i \in Items : form[i] \in bundles}
HasDocument(bundles) == bundles \cap DocBundles # {}

\* bundle_orders: the tasks that are ordered to work on the bundles again.
OrderedTasks(bundles) ==
  TasksOf(ItemsIn(bundles))
    \cup (IF "executable" \in bundles THEN {"T-B1"} ELSE {})
    \cup (IF "infographic" \in bundles THEN {"T-B2"} ELSE {})

-----------------------------------------------------------------------------
\* The queues of the segments.
WriteQueue == InOrder({"T-W1", "T-W2", "T-W3", "M-1", "T-V1", "G-02a"})
ProtoQueue ==
  InOrder({"T-B2", "G-04", "M-3", "T-V2", "G-02b"}
            \cup (IF category = "onepage" THEN {"M-2"} ELSE {"T-B1"}))

ReworkQueue(screen, bundles) ==
  LET tasks == OrderedTasks(bundles)
      doc == HasDocument(bundles)
      onepage == category = "onepage"
      html == IF ~onepage /\ (doc \/ "T-B1" \in tasks) THEN {"T-B1"} ELSE {}
      picture == IF "T-B2" \in tasks \/ (onepage /\ doc)
                 THEN {"T-B2"} \cup (IF onepage THEN {"M-2"} ELSE {}) ELSE {}
      written == IF doc THEN TasksOf(ItemsIn(bundles)) \cup {"M-1", "T-V1"} ELSE {}
  IN IF screen = "screen6"
     THEN InOrder(written \cup {"CYCLE-END", "G-02a"})
     ELSE InOrder(written \cup html \cup picture \cup {"G-04", "M-3", "T-V2", "CYCLE-END", "G-02b"})

\* Run.verify1 and the cycle it belongs to (_cycle_key, _verify1).
Key == IF cycle = NoCycle THEN 0 ELSE cycle.id
FreshVerify1(key) == [key |-> key, made |-> {}, counts |-> [i \in Items |-> 0],
                      phase |-> "none", pending |-> {}]

\* Mutant of CurrentVerify1: it is begun anew at every look.
StartedAnew == FreshVerify1(Key)

CurrentVerify1 == IF verify1.key = Key THEN verify1 ELSE FreshVerify1(Key)

Cleared(v) == [v EXCEPT !.phase = "none", !.pending = {}]
Phase == IF verify1.key = Key /\ verify1.pending # {} THEN verify1.phase ELSE "none"

\* engine.changed_since_snapshot and move_pointer: a key goes back to the
\* version it had; a key that had none keeps its new one.
MovedBack(now, before) == [k \in DOMAIN now |-> IF before[k] = Absent THEN now[k] ELSE before[k]]

Unwritten == [i \in Items |-> <<0, 0>>]
NoArtifacts == [text |-> Unwritten, replaced |-> {}, plan |-> Absent, docScore |-> Absent,
                docReport |-> Absent, prototype |-> Absent, infographic |-> Absent,
                readme |-> Absent, artifactScore |-> Absent, report |-> Absent]

Init == /\ form \in Forms /\ category \in Categories
        /\ progress = "user_wait" /\ place = "write"
        /\ queue = <<>> /\ shown = NoArtifacts
        /\ cycle = NoCycle /\ cycles = 0
        /\ remaining = [b \in Bundles |-> PerBundle]
        /\ verify1 = FreshVerify1(0)

-----------------------------------------------------------------------------
(* Engine.drain runs the first step of the queue, once the requests of a   *)
(* rework are no longer being collected.                                   *)
Collecting == cycle # NoCycle /\ cycle.open
Working == progress = "run" /\ ~Collecting
Step(task) == Working /\ queue # <<>> /\ Head(queue) = task

Keep == UNCHANGED <<form, category, cycles, remaining>>
Stay == UNCHANGED <<progress, place, cycle>> /\ Keep
Pop == queue' = Tail(queue)
Put(key, value) == shown' = [shown EXCEPT ![key] = value]

\* The items a writer makes: those that verify-1 sent back, those of the
\* bundles that were chosen, or all of them (initial_redo_state).
Targets(task) ==
  IF Phase = (IF task = "T-W3" THEN "replace" ELSE "redo") THEN verify1.pending \cap ItemsOf(task)
  ELSE IF cycle # NoCycle THEN ItemsIn(cycle.bundles) \cap ItemsOf(task)
  ELSE ItemsOf(task)

\* A new version of the items: the cycle it is made in, and its number there.
Remade(items) ==
  [i \in Items |-> IF i \notin items THEN shown.text[i]
                   ELSE IF shown.text[i][1] = Key THEN <<Key, shown.text[i][2] + 1>>
                   ELSE <<Key, 1>>]

PlanBody == IF shown.plan = Absent THEN Unwritten ELSE shown.plan.body

\* T-W1 makes a plan of its sections, without the charts and the tables.
WriteSections ==
  /\ Step("T-W1")
  /\ LET text == Remade(Targets("T-W1"))
         body == [i \in Items |-> IF Kind[i] = "section" THEN text[i] ELSE PlanBody[i]]
     IN shown' = [shown EXCEPT !.text = text, !.plan = [body |-> body, merged |-> FALSE]]
  /\ Pop /\ Stay /\ UNCHANGED verify1

DrawImages ==
  /\ Step("T-W2")
  /\ Put("text", Remade(Targets("T-W2")))
  /\ Pop /\ Stay /\ UNCHANGED verify1

\* T-W3 writes a table as text when it cannot make it, and always the ones
\* that kept failing.
MakeTables ==
  /\ Step("T-W3")
  /\ \E own \in SUBSET Targets("T-W3") :
       /\ Phase = "replace" => own = Targets("T-W3")
       /\ shown' = [shown EXCEPT !.text = Remade(Targets("T-W3")),
                                 !.replaced = (@ \ Targets("T-W3")) \cup own]
  /\ Pop /\ Stay /\ UNCHANGED verify1

\* Mutant of MarkAfterMerge: the mark of the table replacement is left standing.
MarkKept == verify1

\* The end of a table replacement: its tables are not verified again.
MarkAfterMerge == IF verify1.phase = "replace" THEN Cleared(verify1) ELSE verify1

MergePlan ==
  /\ Step("M-1")
  /\ Put("plan", [body |-> [i \in Items |-> IF Kind[i] = "section" THEN PlanBody[i] ELSE shown.text[i]],
                  merged |-> TRUE])
  /\ verify1' = MarkAfterMerge
  /\ Pop /\ Stay

-----------------------------------------------------------------------------
\* The items T-V1 judges; the others keep the judgement they had.
Judged == IF Phase = "redo" THEN verify1.pending
          ELSE IF cycle # NoCycle THEN ItemsIn(cycle.bundles) ELSE Items

\* The items made in this cycle, written down before its first T-V1.
Made == IF Phase = "redo" THEN verify1.made ELSE Judged

\* Mutant of SentBack: any item that fails is made again.
SentBackAny(failing) == failing \ shown.replaced

\* The failing items that verify-1 may send back.
SentBack(failing) == (failing \cap Made) \ shown.replaced

\* Mutant of Insert: the steps are put at the end of the queue.
InsertLast(steps) == queue' = Tail(queue) \o steps

Insert(steps) == queue' = steps \o Tail(queue)

\* _after_tv1: what failed is made and judged again while its count lasts,
\* then the tables that still fail are replaced by text.
AfterVerify1(failing) ==
  LET back == SentBack(failing)
      redo == {i \in back : CurrentVerify1.counts[i] < RedoLimit}
      tables == {i \in back : Kind[i] = "table"}
      writers == TasksOf(redo) \ {"T-W3"}
      v == [CurrentVerify1 EXCEPT !.made = Made]
  IN IF redo # {}
     THEN /\ verify1' = [v EXCEPT !.phase = "redo", !.pending = redo,
                                  !.counts = [i \in Items |-> @[i] + (IF i \in redo THEN 1 ELSE 0)]]
          /\ Insert(InOrder(writers \cup (IF writers # {} THEN {"M-1"} ELSE {}) \cup {"T-V1"}))
     ELSE IF tables # {}
     THEN /\ verify1' = [v EXCEPT !.phase = "replace", !.pending = tables]
          /\ Insert(InOrder({"T-W3", "M-1"}))
     ELSE verify1' = Cleared(v) /\ Pop

VerifyPlan ==
  /\ Step("T-V1")
  /\ \E found \in SUBSET Judged, total \in 0..MaxScore :
       LET before == IF shown.docScore = Absent THEN {} ELSE shown.docScore.failing
           failing == (before \ Judged) \cup found
       IN /\ Put("docScore", [made |-> Key, body |-> shown.plan.body, total |-> total, failing |-> failing])
          /\ AfterVerify1(failing)
  /\ Stay

JudgePlan == /\ Step("G-02a")
             /\ Put("docReport", shown.docScore)
             /\ Pop /\ Stay /\ UNCHANGED verify1

-----------------------------------------------------------------------------
\* T-B1 makes the HTML from the plan, T-B2 the picture, and on one page the
\* picture is the prototype (M-2).
BuildHtml ==
  /\ Step("T-B1")
  /\ Put("prototype", [made |-> Key, body |-> shown.plan.body, readme |-> Absent])
  /\ Pop /\ Stay /\ UNCHANGED verify1

BuildInfographic ==
  /\ Step("T-B2")
  /\ Put("infographic", [made |-> Key, body |-> shown.plan.body])
  /\ Pop /\ Stay /\ UNCHANGED verify1

WrapInfographic ==
  /\ Step("M-2")
  /\ Put("prototype", [made |-> Key, body |-> shown.infographic.body, readme |-> Absent])
  /\ Pop /\ Stay /\ UNCHANGED verify1

\* G-04 writes the guide of the prototype; an error of its own is passed over.
WriteReadme ==
  /\ Step("G-04")
  /\ \/ Put("readme", [prototype |-> shown.prototype.made, infographic |-> shown.infographic.made])
     \/ UNCHANGED shown
  /\ Pop /\ Stay /\ UNCHANGED verify1

AttachReadme ==
  /\ Step("M-3")
  /\ Put("prototype", [shown.prototype EXCEPT !.readme = shown.readme])
  /\ Pop /\ Stay /\ UNCHANGED verify1

VerifyProduct ==
  /\ Step("T-V2")
  /\ \E total \in 0..MaxScore :
       Put("artifactScore", [made |-> Key, total |-> total,
                             prototype |-> shown.prototype, infographic |-> shown.infographic])
  /\ Pop /\ Stay /\ UNCHANGED verify1

JudgeAll ==
  /\ Step("G-02b")
  /\ Put("report", [doc |-> shown.docScore, artifact |-> shown.artifactScore])
  /\ Pop /\ Stay /\ UNCHANGED verify1

\* T-C4 puts the result together; it makes no new version of what is shown.
Deliver == Step("T-C4") /\ Pop /\ Stay /\ UNCHANGED <<shown, verify1>>

-----------------------------------------------------------------------------
LayerTotal(score) == IF score = Absent THEN 0 ELSE score.total

Changed(key) == shown[key] # Absent /\ shown[key].made = cycle.id

\* Mutant of KeepNew: the comparison is turned around.
KeepOld(before, after) == after <= before

\* compare_and_keep: on equal scores the new version stays.
KeepNew(before, after) == after >= before

\* Mutant of Basis: a rework of both layers is compared by its plan.
BasisPlanOnly(pointers) ==
  IF Changed("docScore") THEN LayerTotal(pointers.docScore)
  ELSE IF Changed("artifactScore") THEN LayerTotal(pointers.artifactScore) ELSE 0

\* _cycle_end compares by the layers that were scored again.
Basis(pointers) ==
  (IF Changed("docScore") THEN LayerTotal(pointers.docScore) ELSE 0)
    + (IF Changed("artifactScore") THEN LayerTotal(pointers.artifactScore) ELSE 0)

CycleEnd ==
  /\ Step("CYCLE-END")
  /\ shown' = IF KeepNew(Basis(cycle.snapshot), Basis(shown))
              THEN shown ELSE MovedBack(shown, cycle.snapshot)
  /\ Pop /\ Stay /\ UNCHANGED verify1

-----------------------------------------------------------------------------
\* on_queue_empty: the segment ends at a place where the run waits.
Wait(where) == progress' = "user_wait" /\ place' = where /\ queue' = <<>>

SegmentEnds ==
  /\ Working /\ queue = <<>>
  /\ \/ /\ cycle # NoCycle
        /\ Wait(cycle.screen) /\ cycle' = NoCycle /\ verify1' = Cleared(verify1)
     \/ /\ cycle = NoCycle /\ place = "write"
        /\ Wait("screen6") /\ verify1' = Cleared(verify1) /\ UNCHANGED cycle
     \/ /\ cycle = NoCycle /\ place = "build"
        /\ Wait("screen8") /\ UNCHANGED <<cycle, verify1>>
     \/ /\ cycle = NoCycle /\ place = "result"
        /\ progress' = "done" /\ UNCHANGED <<place, queue, cycle, verify1>>
  /\ Keep /\ UNCHANGED shown

\* Mutant of Refunded: only one bundle of the rework gets its chance back.
RefundedOne(bundles) ==
  [remaining EXCEPT ![CHOOSE b \in bundles : TRUE] = @ + 1]

\* rollback_cycle gives every bundle of the rework its chance back.
Refunded(bundles) == [b \in Bundles |-> remaining[b] + (IF b \in bundles THEN 1 ELSE 0)]

\* Engine.fail of a step out of retries or with an error of its own: the
\* rework is undone, or the run without a rework ends.
ReworkFails ==
  /\ Working /\ queue # <<>> /\ Head(queue) # "CYCLE-END" /\ cycle # NoCycle
  /\ shown' = MovedBack(shown, cycle.snapshot)
  /\ remaining' = Refunded(cycle.bundles)
  /\ Wait(cycle.screen) /\ cycle' = NoCycle /\ verify1' = Cleared(verify1)
  /\ UNCHANGED <<form, category, cycles>>

RunFails ==
  /\ Working /\ queue # <<>> /\ cycle = NoCycle
  /\ progress' = "failed" /\ queue' = <<>> /\ verify1' = Cleared(verify1)
  /\ Keep /\ UNCHANGED <<place, cycle, shown>>

\* on_abort, between two steps or at a place where the run waits.
Abort ==
  /\ progress \in {"run", "user_wait"}
  /\ progress' = "aborted" /\ queue' = <<>> /\ cycle' = NoCycle /\ verify1' = Cleared(verify1)
  /\ Keep /\ UNCHANGED <<place, shown>>

-----------------------------------------------------------------------------
\* The commands of the user, at the places where the run waits.
Enqueue(where, tasks) == progress' = "run" /\ place' = where /\ queue' = tasks
Untouched == Keep /\ UNCHANGED <<shown, cycle, verify1>>

StartWriting == /\ progress = "user_wait" /\ place = "write"
                /\ Enqueue("write", WriteQueue) /\ Untouched

Proceed ==
  /\ progress = "user_wait"
  /\ \/ place = "screen6" /\ Enqueue("build", ProtoQueue)
     \/ place = "screen8" /\ place' = "screen9" /\ UNCHANGED <<progress, queue>>
     \/ place = "screen9" /\ Enqueue("result", <<"T-C4">>)
  /\ Untouched

\* The screens that take a bundle, by its layer.
Taken(b, screen) ==
  /\ b \in DocBundles => screen \in {"screen6", "screen9"}
  /\ b \in ArtifactBundles => screen \in {"screen8", "screen9"}
  /\ ~(category = "onepage" /\ b = "executable")

\* Mutant of Spent: joining a rework spends the chances of all its bundles again.
SpentAgain(bundles, b) == [x \in Bundles |-> remaining[x] - (IF x \in bundles \cup {b} THEN 1 ELSE 0)]

\* _use_bundles: only the bundle that is new to the rework spends a chance.
Spent(bundles, b) == [remaining EXCEPT ![b] = @ - 1]

\* _accept_rework opens a cycle with a snapshot of the pointers, or adds the
\* bundle to the cycle that is still collecting; a bundle that is in it
\* already changes nothing.
OpenCycle(b) ==
  /\ progress = "user_wait" /\ place \in Screens
  /\ Taken(b, place) /\ remaining[b] > 0 /\ cycles < MaxCycles
  /\ cycle' = [id |-> cycles + 1, screen |-> place, snapshot |-> shown, bundles |-> {b}, open |-> TRUE]
  /\ cycles' = cycles + 1
  /\ remaining' = Spent({}, b)
  /\ Enqueue(place, ReworkQueue(place, {b}))
  /\ UNCHANGED <<form, category, shown, verify1>>

ExtendCycle(b) ==
  /\ progress = "run" /\ Collecting
  /\ b \notin cycle.bundles /\ Taken(b, cycle.screen) /\ remaining[b] > 0
  /\ cycle' = [cycle EXCEPT !.bundles = @ \cup {b}]
  /\ remaining' = Spent(cycle.bundles, b)
  /\ Enqueue(cycle.screen, ReworkQueue(cycle.screen, cycle.bundles \cup {b}))
  /\ UNCHANGED <<form, category, shown, cycles, verify1>>

\* The collecting time is over and a worker may take the run.
CollectEnds == /\ progress = "run" /\ Collecting
               /\ cycle' = [cycle EXCEPT !.open = FALSE]
               /\ UNCHANGED <<form, category, progress, place, queue, shown, cycles, remaining, verify1>>

Write == WriteSections \/ DrawImages \/ MakeTables \/ MergePlan \/ VerifyPlan \/ JudgePlan
Build == \/ BuildHtml \/ BuildInfographic \/ WrapInfographic
         \/ WriteReadme \/ AttachReadme \/ VerifyProduct \/ JudgeAll
Work == Write \/ Build \/ CycleEnd \/ Deliver \/ SegmentEnds \/ ReworkFails \/ RunFails
Command == \/ StartWriting \/ Proceed \/ Abort
           \/ \E b \in Bundles : OpenCycle(b) \/ ExtendCycle(b)
Next == Work \/ Command \/ CollectEnds

Spec == Init /\ [][Next]_vars

-----------------------------------------------------------------------------
Verify1 == [key : Nat, made : SUBSET Items, counts : [Items -> 0..RedoLimit],
            phase : {"none", "redo", "replace"}, pending : SUBSET Items]

\* The types of the row, and of what its pointers point at.
TypeOK ==
  /\ form \in Forms /\ category \in Categories
  /\ progress \in {"user_wait", "run", "done", "failed", "aborted"}
  /\ place \in Screens \cup {"write", "build", "result"}
  /\ queue \in Seq(Tasks)
  /\ shown \in Artifacts
  /\ cycles \in 0..MaxCycles
  /\ remaining \in [Bundles -> 0..PerBundle]
  /\ verify1 \in Verify1
  /\ cycle \in Cycle \cup {NoCycle} /\ (cycle # NoCycle => cycle.id = cycles)

AtScreen == progress = "user_wait" /\ place \in Screens

\* Where the user looks at the plan, it is the merge of the newest items, the
\* score was given to those very items (a table replaced by text excepted),
\* and screen 6 shows the judgement of that score (_after_tv1, compare_and_keep,
\* rollback_cycle move them together or not at all).
PlanIsTheVerifiedOne ==
  AtScreen =>
    /\ shown.plan = [body |-> shown.text, merged |-> TRUE]
    /\ \A i \in Items \ shown.replaced : shown.docScore.body[i] = shown.text[i]
    /\ place = "screen6" => shown.docReport = shown.docScore

\* Where the user looks at the product, it was made from the plan that is
\* shown, its score was given to it and to the picture beside it, and the
\* report was made from the two scores shown (rework_queue, rollback_cycle).
ProductIsTheVerifiedOne ==
  AtScreen /\ place # "screen6" =>
    /\ shown.prototype.body = shown.plan.body
    /\ category = "onepage" => shown.prototype.made = shown.infographic.made
    /\ shown.artifactScore.prototype = shown.prototype
    /\ shown.artifactScore.infographic = shown.infographic
    /\ shown.report = [doc |-> shown.docScore, artifact |-> shown.artifactScore]

\* A rework makes no item but those of the bundles that were chosen, however
\* often verify-1 sends steps back (madeItems of _after_tv1).
OnlyChosenItemsChange ==
  cycle # NoCycle =>
    \A i \in Items \ ItemsIn(cycle.bundles) : shown.text[i] = cycle.snapshot.text[i]

\* While verify-1 has sent items back, the step that judges or merges them is
\* still to come; elsewhere no mark is standing that a later step could take
\* for its own (clear_verify1).
MarkHasItsStep ==
  /\ Phase = "redo" => progress = "run" /\ "T-V1" \in Range(queue)
  /\ Phase = "replace" => progress = "run" /\ "M-1" \in Range(queue)
  /\ progress # "run" => verify1.phase = "none"

\* The promise of a rework (rework budget, all or nothing, never worth less):
\* the user sees the snapshot until the cycle is over.
Seen == IF cycle = NoCycle THEN shown ELSE cycle.snapshot
Promise == INSTANCE ReworkPromise WITH
  asked <- IF cycle = NoCycle THEN {} ELSE cycle.bundles,
  result <- [k \in DOMAIN Seen \ {"readme"} |-> Seen[k]],
  worth <- LayerTotal(Seen.docScore) + LayerTotal(Seen.artifactScore),
  making <- progress = "run" /\ cycle = NoCycle,
  over <- progress \in {"done", "failed", "aborted"}
ReworkIsAllOrNothing == Promise!Spec

\* A segment runs out of steps: each one shortens the queue, or uses up one of
\* the bounded counts of verify-1, or begins the table replacement after which
\* nothing is verified again (_after_tv1 against its own insertions).
RedoRunsOut ==
  [][Work /\ progress' = "run" =>
       \/ Len(queue') < Len(queue)
       \/ \E i \in Items : CurrentVerify1'.counts[i] > CurrentVerify1.counts[i]
       \/ Phase' = "replace" /\ "T-V1" \notin Range(queue')]_vars
=============================================================================
