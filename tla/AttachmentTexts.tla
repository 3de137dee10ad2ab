-------------------------- MODULE AttachmentTexts --------------------------
(***************************************************************************)
(* Stages 5 and 9: the attachment of every notice is downloaded, its text  *)
(* read and stored (collect/attachment_pipeline.py, attachment_store.py),  *)
(* its file uploaded (collect/upload_attachments.py).  One attachment per  *)
(* notice, always at one address; a file is named by its content.          *)
(***************************************************************************)
EXTENDS DailyStages

CONSTANT GiveUp  \* GIVE_UP: failures in a row that end a run
ASSUME GiveUpAssumption == GiveUp \in Nat \ {0}

VARIABLES
  text,    \* table attachment_texts
  lines,   \* attachment_results.jsonl
  pending,    \* the attachments of this run
  next,    \* the line that is stored next
  streak,  \* downloads that failed in a row
  disk,    \* data/attachments
  remote   \* table attachment_files

textVars == <<text, lines, pending, next, streak, disk, remote>>

Results == [n : Notices, src : 1..MaxVersion, status : {"ok", "fail", "final"}, body : 0..MaxVersion]
Files == Notices \X (1..MaxVersion)
FileStates == {"none", "part", "whole"}

TextsOK ==
  /\ text \in [Notices -> [status : {"none", "ok", "fail", "final"}, src : 0..MaxVersion,
                           body : 0..MaxVersion, due : BOOLEAN]]
  /\ lines \in Seq(Line(Results))
  /\ pending \subseteq [n : Notices, src : 1..MaxVersion]
  /\ pending # {} => stage = "download"
  /\ next \in 0..Len(lines) + 1 /\ streak \in 0..GiveUp
  /\ disk \in [Files -> FileStates] /\ remote \in [Files -> FileStates]

TextsInit ==
  /\ text = [n \in Notices |-> [status |-> "none", src |-> 0, body |-> 0, due |-> FALSE]]
  /\ lines = <<>> /\ pending = {} /\ next = 0 /\ streak = 0
  /\ disk = [f \in Files |-> "none"] /\ remote = disk

-----------------------------------------------------------------------------
\* TARGET_SQL
Target(n) ==
  \/ text[n].status = "none"
  \/ text[n].src # source[n]
  \/ text[n].status = "fail" /\ text[n].due

\* done_already
Seen == {r.n : r \in Rows(lines)}

\* run: without anything to do, daily does not store either.
PlanTexts ==
  /\ ~Undecodable(lines)
  /\ LET new == {[n |-> n, src |-> source[n]] : n \in {m \in Notices \ Seen : Target(m)}} IN
     IF new = {} THEN Go("attach", "embed") /\ UNCHANGED pending
                 ELSE Go("attach", "download") /\ pending' = new
  /\ streak' = 0
  /\ UNCHANGED <<imported, faults, text, lines, next, disk, remote>>

\* done_already cannot even decode the file; store is not reached.
PlanRaises ==
  /\ Undecodable(lines) /\ Go("attach", "embed")
  /\ UNCHANGED <<imported, faults, textVars>>

\* download_fail has no file; parse_error has one; both are tried again.  No text is in a
\* file of images or in an empty one, and no later run finds one.
Outcomes == {"ok", "missing", "unreadable", "final"}
Fails(outcome) == outcome \in {"missing", "unreadable"}

Result(t, outcome) ==
  [n |-> t.n, src |-> t.src, status |-> IF Fails(outcome) THEN "fail" ELSE outcome,
   body |-> IF outcome = "ok" THEN served[t.n] ELSE 0]

\* store_file: what has this name is not written again.
Kept(f, as) == [disk EXCEPT ![f] = IF @ = "none" THEN as ELSE @]

\* Only a download that fails counts to give_up.
Download(t, outcome) ==
  /\ stage = "download"
  /\ lines' = Written(lines, Result(t, outcome))
  /\ IF Fails(outcome) THEN Fault ELSE UNCHANGED faults
  /\ IF outcome = "missing"
     THEN streak' = streak + 1 /\ UNCHANGED disk
     ELSE streak' = 0 /\ disk' = Kept(<<t.n, served[t.n]>>, "whole")
  /\ pending' = IF streak' >= GiveUp THEN {} ELSE pending \ {t}
  /\ IF pending' = {} THEN stage' = "texts" /\ next' = 1 ELSE UNCHANGED <<stage, next>>
  /\ UNCHANGED <<imported, text, remote>>

\* save_attachment_result: otherwise skipped_source_changed.
Current(r) == source[r.n] = r.src

\* A failure keeps the text there is.
Saved(r) ==
  [text EXCEPT ![r.n] = [status |-> r.status, src |-> r.src, due |-> FALSE,
                         body |-> IF r.status = "ok" THEN r.body ELSE @.body]]

SaveLine ==
  /\ stage = "texts" /\ next <= Len(lines)
  /\ text' = IF \E r \in lines[next].row : Current(r)
             THEN Saved(CHOOSE r \in lines[next].row : TRUE) ELSE text
  /\ next' = next + 1
  /\ UNCHANGED <<shared, lines, pending, streak, disk, remote>>

\* store: a line that was refused keeps the whole file.
Stored(file) == IF Broken(file) THEN file ELSE <<>>

FinishTexts ==
  /\ Go("texts", "embed") /\ next > Len(lines)
  /\ lines' = Stored(lines) /\ next' = 0
  /\ UNCHANGED <<imported, faults, text, pending, streak, disk, remote>>

\* The database or the disk fails: daily_pipeline goes on with the next stage.
AttachFails ==
  /\ stage \in {"attach", "download", "texts"} /\ Fault
  /\ stage' = "embed" /\ pending' = {} /\ next' = 0
  /\ UNCHANGED <<imported, text, lines, streak, disk, remote>>

\* The machine stops while an attachment or its result is written.
CrashDownloading(t) ==
  /\ stage = "download" /\ Fault
  /\ \/ disk' = Kept(<<t.n, served[t.n]>>, "part") /\ UNCHANGED lines
     \/ \E outcome \in Outcomes :
          /\ lines' \in Cut(lines, Result(t, outcome))
          /\ disk' = IF outcome = "missing" THEN disk ELSE Kept(<<t.n, served[t.n]>>, "whole")
  /\ stage' = "idle" /\ pending' = {}
  /\ UNCHANGED <<imported, text, next, streak, remote>>

\* Mutant of Intact: what is on the disk goes to the server.
OnDisk(f) == disk[f] # "none"

\* upload_attachments: the bytes must have the hash the file is named by.
Intact(f) == disk[f] = "whole"

\* Files go one by one; an error ends the stage.
Uploadable == {f \in Files : remote[f] = "none" /\ Intact(f)}

UploadFiles(some) ==
  /\ Go("files", "types")
  /\ IF some = Uploadable THEN UNCHANGED faults ELSE Fault
  /\ remote' = [f \in Files |-> IF f \in some THEN disk[f] ELSE remote[f]]
  /\ UNCHANGED <<imported, text, lines, pending, next, streak, disk>>

\* A day later a failure may be tried again (retry_after_hours).
TextsDue == text' = [n \in Notices |-> [text[n] EXCEPT !.due = @ \/ text[n].status = "fail"]]

TextsStopped == pending' = {} /\ next' = 0 /\ UNCHANGED <<text, lines, streak, disk, remote>>

TextsStep ==
  \/ PlanTexts \/ PlanRaises \/ SaveLine \/ FinishTexts \/ AttachFails
  \/ \E t \in pending : (\E outcome \in Outcomes : Download(t, outcome)) \/ CrashDownloading(t)
  \/ \E some \in SUBSET Uploadable : UploadFiles(some)
=============================================================================
