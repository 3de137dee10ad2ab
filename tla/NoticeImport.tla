---------------------------- MODULE NoticeImport ----------------------------
(***************************************************************************)
(* Announcements on their way into the notices table: stages 1 to 4 of     *)
(* collect/daily_pipeline.py, shared/store_mysql.py.  The list of          *)
(* K-Startup comes page by page while it changes; it is the only word on   *)
(* which announcements have ended, so only a list that counts as whole     *)
(* closes the others.  Bizinfo comes as one snapshot and has no such list. *)
(*                                                                         *)
(* Nothing in the code asks the server for an order: an announcement may   *)
(* enter the list anywhere and move in it.  What holds for some orders     *)
(* only says so by the observers.                                          *)
(*                                                                         *)
(* One pipeline runs at a time on the one host (job_lock).  Its number     *)
(* stands for the time of what it fetches and normalises: snapshot_at of a *)
(* row and generated_at of a file.  An operator may store any normalised   *)
(* file by hand (store_mysql.main).                                        *)
(***************************************************************************)
EXTENDS Naturals, Sequences, FiniteSets, Functions

CONSTANTS
  Listed,      \* announcements of K-Startup
  Others,      \* announcements of Bizinfo
  PageSize,    \* perPage of fetch_page
  MaxRuns,     \* bound: runs of the pipeline
  MaxChanges,  \* bound: changes of the list in all
  MaxFaults    \* bound: crashes, failed calls, refused lists that are forced

Notices == Listed \cup Others

ASSUME ImportAssumption ==
  /\ PageSize \in Nat \ {0} /\ MaxRuns \in Nat /\ MaxChanges \in Nat /\ MaxFaults \in Nat
  /\ Listed \cap Others = {} /\ IsFiniteSet(Notices)

VARIABLES
  list,     \* K-Startup's open announcements, in the order of its pages
  out,      \* data/notices.json: the list fetched last that was accepted
  raw,      \* data/raw: the snapshots of Bizinfo, the newest last
  files,    \* data/normalized
  row,      \* table notices
  pipe,     \* the pipeline that is running
  steady,   \* observer: listed at all times since the run's first page
  absent,   \* observer: listed at no time since
  first,    \* observer: listed at the run's first page
  drift,    \* observer: changes of the list while the run read its pages
  inFront,  \* observer: what entered meanwhile came in front, and nothing moved
  runs, changes, faults

fetched == <<out, raw>>
observers == <<steady, absent, first, drift, inFront>>
vars == <<list, out, raw, files, row, pipe, observers, runs, changes, faults>>

IdsOf(seq) == {seq[i] : i \in 1..Len(seq)}

Nothing == [ids |-> {}, count |-> 0, whole |-> FALSE, fetch |-> 0]
Row == [status : {"none", "open", "closed", "unknown"}, stamp : 0..MaxRuns, fetch : 0..MaxRuns]
Pipeline == [at : {"idle", "paging", "bizinfo", "normalize", "store"}, got : Seq(Listed), total : Nat,
             page : Nat, whole : BOOLEAN, input : 0..MaxRuns, stamp : 0..MaxRuns]
Idle == [at |-> "idle", got |-> <<>>, total |-> 0, page |-> 0, whole |-> FALSE,
         input |-> 0, stamp |-> 0]

Init ==
  /\ \E m \in 0..Cardinality(Listed) : list \in {l \in [1..m -> Listed] : IsInjective(l)}
  /\ out = Nothing /\ raw = <<>> /\ files = {}
  /\ row = [n \in Notices |-> [status |-> "none", stamp |-> 0, fetch |-> 0]]
  /\ pipe = Idle
  /\ steady = {} /\ absent = {} /\ first = {} /\ drift = 0 /\ inFront = TRUE
  /\ runs = 0 /\ changes = 0 /\ faults = 0

At(x) == pipe.at = x
Fault == faults < MaxFaults /\ faults' = faults + 1
NoFault == UNCHANGED faults

-----------------------------------------------------------------------------
(* The server: its list changes by one announcement at a time *)

With(seq, i, n) == SubSeq(seq, 1, i) \o <<n>> \o SubSeq(seq, i + 1, Len(seq))
Without(seq, i) == SubSeq(seq, 1, i - 1) \o SubSeq(seq, i + 1, Len(seq))

Changed(l) ==
  /\ changes < MaxChanges /\ changes' = changes + 1
  /\ list' = l
  /\ steady' = steady \cap IdsOf(l) /\ absent' = absent \ IdsOf(l)
  /\ drift' = IF At("paging") THEN drift + 1 ELSE drift
  /\ UNCHANGED <<fetched, files, row, pipe, first, runs, faults>>

Announce(n, i) ==
  /\ n \notin IdsOf(list) /\ Changed(With(list, i, n))
  /\ inFront' = (inFront /\ (At("paging") => i = 0))
Close(i) == Changed(Without(list, i)) /\ UNCHANGED inFront
Move(i, j) ==
  /\ i # j + 1 /\ Changed(With(Without(list, i), j, list[i]))
  /\ inFront' = (inFront /\ ~At("paging"))

-----------------------------------------------------------------------------
(* 1. K-Startup, page by page *)

Page(k) == SubSeq(list, (k - 1) * PageSize + 1,
                  IF k * PageSize < Len(list) THEN k * PageSize ELSE Len(list))

\* fetch_all: the first page says how many there are.
FirstPage ==
  /\ At("idle") /\ runs < MaxRuns
  /\ runs' = runs + 1
  /\ pipe' = [Idle EXCEPT !.at = "paging", !.got = Page(1), !.total = Len(list), !.page = 2]
  /\ first' = IdsOf(list) /\ steady' = first' /\ absent' = Listed \ first'
  /\ drift' = 0 /\ inFront' = TRUE
  /\ UNCHANGED <<list, fetched, files, row, changes, faults>>

NextPage ==
  /\ At("paging") /\ Len(pipe.got) < pipe.total
  /\ Page(pipe.page) # <<>>
  /\ pipe' = [pipe EXCEPT !.got = @ \o Page(pipe.page), !.page = @ + 1]
  /\ UNCHANGED <<list, fetched, files, row, observers, runs, changes, faults>>

\* The fetch ends when it has enough rows, or at a page without any.
Fetched ==
  \/ Len(pipe.got) >= pipe.total /\ NoFault
  \/ Len(pipe.got) < pipe.total /\ Page(pipe.page) = <<>> /\ NoFault
  \/ Len(pipe.got) < pipe.total /\ Page(pipe.page) # <<>> /\ Fault

\* Mutant of IsComplete: it counts rows, not announcements.
EnoughRows(got, total) == total > 0 /\ Len(got) = total

IsComplete(got, total) == total > 0 /\ Len(got) = total /\ Cardinality(IdsOf(got)) = total

TooFew(count, before) == 2 * count < before

\* validate, archive and the replacement of notices.json.
Accept ==
  /\ At("paging") /\ Fetched
  /\ LET whole == IsComplete(pipe.got, pipe.total) IN
     /\ pipe.got # <<>> /\ ~TooFew(Len(pipe.got), out.count)
     /\ out' = [ids |-> IdsOf(pipe.got), count |-> Len(pipe.got), whole |-> whole, fetch |-> runs]
     /\ pipe' = [Idle EXCEPT !.at = "bizinfo", !.whole = whole]
  /\ UNCHANGED <<list, raw, files, row, observers, runs, changes>>

\* --force accepts a list that has shrunk too much.
AcceptForced ==
  /\ At("paging") /\ Len(pipe.got) >= pipe.total /\ Fault
  /\ pipe.got # <<>> /\ TooFew(Len(pipe.got), out.count)
  /\ LET whole == IsComplete(pipe.got, pipe.total) IN
     /\ out' = [ids |-> IdsOf(pipe.got), count |-> Len(pipe.got), whole |-> whole, fetch |-> runs]
     /\ pipe' = [Idle EXCEPT !.at = "bizinfo", !.whole = whole]
  /\ UNCHANGED <<list, raw, files, row, observers, runs, changes>>

\* The pipeline goes on with the list it accepted last.
Refuse ==
  /\ At("paging") /\ Fetched
  /\ pipe.got = <<>> \/ TooFew(Len(pipe.got), out.count)
  /\ pipe' = [Idle EXCEPT !.at = "bizinfo"]
  /\ UNCHANGED <<list, fetched, files, row, observers, runs, changes>>

FetchFails ==
  /\ At("paging") /\ Fault
  /\ pipe' = [Idle EXCEPT !.at = "bizinfo"]
  /\ UNCHANGED <<list, fetched, files, row, observers, runs, changes>>

-----------------------------------------------------------------------------
(* 2. Bizinfo *)

\* collect_bizinfo: a snapshot that is too small is kept, but the one before is used.
\* bad: a row of it has no title or no number.
FetchBizinfo ==
  /\ At("bizinfo")
  /\ \E S \in SUBSET Others \ {{}}, bad \in BOOLEAN :
       LET before == IF raw = <<>> THEN 0 ELSE Cardinality(raw[Len(raw)].ids)
           used == IF TooFew(Cardinality(S), before) THEN Len(raw) ELSE Len(raw) + 1 IN
       /\ IF bad THEN Fault ELSE NoFault
       /\ raw' = Append(raw, [ids |-> S, bad |-> bad, fetch |-> runs])
       /\ pipe' = [pipe EXCEPT !.at = "normalize", !.input = used]
  /\ UNCHANGED <<list, out, files, row, observers, runs, changes>>

BizinfoFails ==
  /\ At("bizinfo") /\ Fault
  /\ pipe' = [pipe EXCEPT !.at = "normalize", !.input = Len(raw)]
  /\ UNCHANGED <<list, fetched, files, row, observers, runs, changes>>

-----------------------------------------------------------------------------
(* 3. and 4. One file, one transaction *)

\* Mutant of Normalized: the file has the time of the list, not its own.
StampOfList(input) ==
  [stamp |-> out.fetch, bad |-> input # 0 /\ raw[input].bad,
   fetch |-> [n \in out.ids \cup (IF input = 0 THEN {} ELSE raw[input].ids) |->
                IF n \in Listed THEN out.fetch ELSE raw[input].fetch]]

\* build_normalized: what is at hand gets the time of this run.
Normalized(input) ==
  LET biz == IF input = 0 THEN [ids |-> {}, bad |-> FALSE, fetch |-> 0] ELSE raw[input] IN
  [stamp |-> runs, bad |-> biz.bad,
   fetch |-> [n \in out.ids \cup biz.ids |-> IF n \in Listed THEN out.fetch ELSE biz.fetch]]

Normalize ==
  /\ At("normalize")
  /\ IF out.fetch = 0 /\ pipe.input = 0
     THEN pipe' = Idle /\ UNCHANGED files
     ELSE /\ files' = files \cup {Normalized(pipe.input)}
          /\ pipe' = [pipe EXCEPT !.at = "store", !.stamp = runs]
  /\ UNCHANGED <<list, fetched, row, observers, runs, changes, faults>>

\* Mutant of Outdated: the file wins over what is stored.
NeverOutdated(r, f) == FALSE

\* The row comes from a later file: skipped_older.
Outdated(r, f) == r.status # "none" /\ r.stamp > f.stamp

Upserted(f) ==
  [n \in Notices |->
     IF n \notin DOMAIN f.fetch \/ Outdated(row[n], f) THEN row[n]
     ELSE [status |-> IF n \in Listed THEN "open" ELSE "unknown", stamp |-> f.stamp, fetch |-> f.fetch[n]]]

\* Mutant of CloseMissing: nothing is ever closed.
CloseNone(rows, ids, f) == rows

\* close_missing: an empty list closes nothing.
CloseMissing(rows, ids, f) ==
  [n \in Notices |->
     IF n \in Listed /\ ids # {} /\ n \notin ids /\ rows[n].status = "open" /\ rows[n].stamp < f.stamp
     THEN [status |-> "closed", stamp |-> f.stamp, fetch |-> out.fetch]
     ELSE rows[n]]

\* kstartup_listed
ListedIds == IF pipe.whole /\ out.whole THEN out.ids ELSE {}

ThisFile == CHOOSE f \in files : f.stamp = pipe.stamp

\* validate_payload refuses a file with a rejected row.
Store ==
  /\ At("store") /\ ~ThisFile.bad
  /\ row' = CloseMissing(Upserted(ThisFile), ListedIds, ThisFile)
  /\ pipe' = Idle
  /\ UNCHANGED <<list, fetched, files, observers, runs, changes, faults>>

StoreRefused ==
  /\ At("store") /\ ThisFile.bad
  /\ pipe' = Idle
  /\ UNCHANGED <<list, fetched, files, row, observers, runs, changes, faults>>

StoreFails ==
  /\ At("store") /\ Fault
  /\ pipe' = Idle
  /\ UNCHANGED <<list, fetched, files, row, observers, runs, changes>>

\* The command line stores a file without a list of what is open.
StoreByHand(f) ==
  /\ ~f.bad
  /\ row' = Upserted(f)
  /\ row' # row
  /\ UNCHANGED <<list, fetched, files, pipe, observers, runs, changes, faults>>

Crash ==
  /\ ~At("idle") /\ Fault
  /\ pipe' = Idle
  /\ UNCHANGED <<list, fetched, files, row, observers, runs, changes>>

-----------------------------------------------------------------------------
Next ==
  \/ \E n \in Listed, i \in 0..Len(list) : Announce(n, i)
  \/ \E i \in 1..Len(list) : Close(i)
  \/ \E i \in 1..Len(list), j \in 0..(Len(list) - 1) : Move(i, j)
  \/ FirstPage \/ NextPage \/ Accept \/ AcceptForced \/ Refuse \/ FetchFails
  \/ FetchBizinfo \/ BizinfoFails \/ Normalize \/ Store \/ StoreRefused \/ StoreFails
  \/ \E f \in files : StoreByHand(f)
  \/ Crash

Spec == Init /\ [][Next]_vars

-----------------------------------------------------------------------------
(* Properties *)

TypeOK ==
  /\ IdsOf(list) \subseteq Listed
  /\ out \in [ids : SUBSET Listed, count : Nat, whole : BOOLEAN, fetch : 0..MaxRuns]
  /\ \A i \in 1..Len(raw) : raw[i] \in [ids : SUBSET Others, bad : BOOLEAN, fetch : 1..MaxRuns]
  /\ \A f \in files : f.stamp \in 1..MaxRuns /\ DOMAIN f.fetch \subseteq Notices
  /\ row \in [Notices -> Row]
  /\ pipe \in Pipeline /\ (At("store") => \E f \in files : f.stamp = pipe.stamp)
  /\ steady \subseteq first /\ first \subseteq Listed /\ absent \subseteq Listed \ first
  /\ drift \in Nat /\ inFront \in BOOLEAN
  /\ runs \in 0..MaxRuns /\ changes \in 0..MaxChanges /\ faults \in 0..MaxFaults

\* A row never goes back to an older list: neither the file of an earlier run that is
\* stored late, nor the old list a run falls back on, replaces or reopens what a
\* later one has said.
RowFollowsNewestList == [][\A n \in Notices : row'[n].fetch >= row[n].fetch]_vars

\* An assumption on the server, which fetch_page does not ask it to keep: while the
\* pages are read what enters comes in front, and fewer than two pages of changes.
Orderly == inFront /\ drift < 2 * PageSize

\* As long as the server is orderly, a row is closed only if its announcement left
\* the list, although the pages were read at different times while the list moved.
ClosedOnlyIfGone ==
  [][Orderly =>
       \A n \in Listed : row[n].status = "open" /\ row'[n].status = "closed" => n \notin steady]_vars

\* After a run with a list that counts as whole the table shows what the server shows.
\* Whatever its order: nothing is open that was not listed, and what was listed all the
\* time but is not open is outnumbered by what entered and was read (is_complete counts
\* announcements, and these hide one each).  An orderly server hides none.
RunMirrorsServer ==
  [][Store /\ ListedIds # {} =>
       LET missed == {n \in steady : row'[n].status # "open"} IN
       /\ \A n \in absent : row'[n].status # "open"
       /\ Cardinality(missed) <= Cardinality(out.ids \ first)
       /\ Orderly => missed = {}]_vars
=============================================================================
