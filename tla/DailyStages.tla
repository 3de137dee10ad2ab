---------------------------- MODULE DailyStages ----------------------------
(***************************************************************************)
(* What stages 5 to 13 of collect/daily_pipeline.py share: the notices in  *)
(* the database, the stage the one pipeline is in (collection.lock), and   *)
(* the files that grow line by line and survive a crash.                   *)
(*                                                                         *)
(* Contents and dates are numbers that can only be told apart: each part   *)
(* of a notice may change alone, and what it was before may come back.     *)
(***************************************************************************)
EXTENDS Naturals, Sequences, FiniteSets

CONSTANTS
  Notices,     \* numbers: the stages work in the order of notice_id
  MaxVersion,  \* bound: contents and dates of a notice there can be
  MaxFaults    \* bound: crashes, failed calls, failed downloads

ASSUME StagesAssumption ==
  Notices \subseteq Nat /\ IsFiniteSet(Notices) /\ MaxVersion \in Nat \ {0} /\ MaxFaults \in Nat

VARIABLES
  version,  \* table notices: the fields
  source,   \* table notices: source_updated_at
  served,   \* environment: the content the address of the attachment serves
  stage,    \* of the pipeline that holds collection.lock
  faults

imported == <<version, source, served>>
shared == <<imported, stage, faults>>

Stages == {"idle", "attach", "download", "texts", "embed", "encode", "index", "vectors", "files",
           "types", "asking", "judge"}

SharedOK ==
  {version, source, served} \subseteq [Notices -> 1..MaxVersion] /\ stage \in Stages /\ faults \in 0..MaxFaults

SharedInit ==
  version = [n \in Notices |-> 1] /\ source = version /\ served = version /\ stage = "idle" /\ faults = 0

Fault == faults < MaxFaults /\ faults' = faults + 1
Go(from, to) == stage = from /\ stage' = to

\* store_payload, by the pipeline (stage 4) or by hand; the attachment is another by then.
Import(n) ==
  /\ \E v, s, a \in 1..MaxVersion :
       /\ version' = [version EXCEPT ![n] = v]
       /\ source' = [source EXCEPT ![n] = s]
       /\ served' = [served EXCEPT ![n] = a]
  /\ imported' # imported
  /\ UNCHANGED <<stage, faults>>

-----------------------------------------------------------------------------
(* A file of JSON lines.  row is empty where a line is no JSON; open says   *)
(* that the line has no end, bad that it is cut within a character.         *)

Line(R) == [row : {{}} \cup {{r} : r \in R}, open : BOOLEAN, bad : BOOLEAN]

Open(file) == file # <<>> /\ file[Len(file)].open

\* Text that is added to an open line makes that line unreadable.
Written(file, r) ==
  IF Open(file)
  THEN [file EXCEPT ![Len(file)] = [row |-> {}, open |-> FALSE, bad |-> @.bad]]
  ELSE Append(file, [row |-> {r}, open |-> FALSE, bad |-> FALSE])

\* What a crash during the write can leave.
Cut(file, r) ==
  {file} \cup
  IF Open(file)
  THEN {[file EXCEPT ![Len(file)] = [row |-> {}, open |-> TRUE, bad |-> b \/ @.bad]] : b \in BOOLEAN}
  ELSE {Append(file, [row |-> {}, open |-> TRUE, bad |-> b]) : b \in BOOLEAN}
       \cup {Append(file, [row |-> {r}, open |-> TRUE, bad |-> FALSE])}

Rows(file) == UNION {file[i].row : i \in 1..Len(file)}
Broken(file) == \E i \in 1..Len(file) : file[i].row = {}
Undecodable(file) == \E i \in 1..Len(file) : file[i].bad
=============================================================================
