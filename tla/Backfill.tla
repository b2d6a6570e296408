------------------------------ MODULE Backfill ------------------------------
(***************************************************************************)
(* Backfill jobs of the report-worker.  POST /reports/backfill runs in a    *)
(* thread: it looks for an active job, creates a row and leaves the work to *)
(* a background task on the event loop, which fetches pages of records,     *)
(* merges them into one file per day and notes its cursor in the row.       *)
(*                                                                         *)
(* A record is the time at which it happened.  A file is written in place:  *)
(* a write that is cut short leaves one that cannot be read.                *)
(***************************************************************************)
EXTENDS Integers, FiniteSets, FiniteSetsExt

CONSTANTS
  Clients,      \* threads that serve requests
  Jobs,         \* ids of jobs
  Ranges,       \* ranges a client may ask for: [start, end]
  Feed,         \* times of the records the provider has
  PageSize,
  DayLength,
  MaxJobFaults  \* bound: crashes and failed calls

ASSUME BackfillAssumption ==
  /\ IsFiniteSet(Clients)
  /\ Feed \subseteq Nat
  /\ Ranges \subseteq [start : Nat, end : Nat]
  /\ PageSize \in Nat /\ PageSize > 1
  /\ DayLength \in Nat \ {0}
  /\ MaxJobFaults \in Nat

VARIABLES
  client,   \* [Clients -> "idle", or "free" when it saw no active job]
  rows,     \* [Jobs -> row of backfill_jobs], status "none" before it
  task,     \* [Jobs -> the background task: at, cursor, page, written]
  files,    \* [days -> [readable, times]]
  jobFaults, \* faults so far
  torn      \* history: days a write of which was cut short

jobVars == <<client, rows, task, files, jobFaults, torn>>

DayOf(t) == t \div DayLength
Days     == {DayOf(t) : t \in Feed}
Statuses == {"none", "pending", "running", "completed", "failed"}

Row  == [status : Statuses, start : Nat, end : Nat, cursor : Nat, written : Nat]
Task == [at : {"none", "queued", "fetch", "write", "progress", "complete", "gone"},
         cursor : Nat, page : SUBSET Feed, written : Nat]
File == [readable : BOOLEAN, times : SUBSET Feed]

TypeOK ==
  /\ client \in [Clients -> {"idle", "free"}]
  /\ rows \in [Jobs -> Row]
  /\ task \in [Jobs -> Task]
  /\ files \in [Days -> File]
  /\ jobFaults \in 0..MaxJobFaults
  /\ torn \subseteq Days

NoTask == [at |-> "none", cursor |-> 0, page |-> {}, written |-> 0]
Gone   == [at |-> "gone", cursor |-> 0, page |-> {}, written |-> 0]

JobsInit ==
  /\ client = [c \in Clients |-> "idle"]
  /\ rows = [j \in Jobs |-> [status |-> "none", start |-> 0, end |-> 0,
                             cursor |-> 0, written |-> 0]]
  /\ task = [j \in Jobs |-> NoTask]
  /\ files = [d \in Days |-> [readable |-> TRUE, times |-> {}]]
  /\ jobFaults = 0
  /\ torn = {}

-----------------------------------------------------------------------------
(* start_backfill *)

Active(j) == rows[j].status \in {"pending", "running"}

(* get_running found none; with one the answer is 409. *)
CheckRunning(c) ==
  /\ client[c] = "idle"
  /\ \A j \in Jobs : ~Active(j)
  /\ client' = [client EXCEPT ![c] = "free"]
  /\ UNCHANGED <<rows, task, files, jobFaults, torn>>

CreateJob(c, j, r) ==
  /\ client[c] = "free"
  /\ rows[j].status = "none"
  /\ rows' = [rows EXCEPT ![j] = [status |-> "pending", start |-> r.start, end |-> r.end,
                                  cursor |-> r.start, written |-> 0]]
  /\ task' = [task EXCEPT ![j].at = "queued"]
  /\ client' = [client EXCEPT ![c] = "idle"]
  /\ UNCHANGED <<files, jobFaults, torn>>

-----------------------------------------------------------------------------
(* The background task *)

(* Variant with an error: the last second of the range is left out. *)
LoopAtEarly(cursor, end) == IF cursor + 1 < end THEN "fetch" ELSE "complete"

LoopAt(cursor, end) == IF cursor < end THEN "fetch" ELSE "complete"

(* A row whose cursor is past its start is resumed there. *)
StartTask(j) ==
  /\ task[j].at = "queued"
  /\ rows' = [rows EXCEPT ![j].status = "running"]
  /\ task' = [task EXCEPT ![j].at = LoopAt(rows[j].cursor, rows[j].end),
                          ![j].cursor = rows[j].cursor]
  /\ UNCHANGED <<client, files, jobFaults, torn>>

(* The provider answers with the first records from the cursor on. *)
Page(cursor, end) ==
  LET left == {t \in Feed : cursor <= t /\ t <= end}
  IN  {t \in left : Cardinality({u \in left : u <= t}) <= PageSize}

(* Variant with an error: an empty page is asked for again. *)
FetchPageAgain(j) ==
  LET page == Page(task[j].cursor, rows[j].end)
  IN  /\ task[j].at = "fetch"
      /\ task' = [task EXCEPT ![j].at = IF page = {} THEN "fetch" ELSE "write",
                              ![j].page = page]
      /\ UNCHANGED <<client, rows, files, jobFaults, torn>>

FetchPage(j) ==
  LET page == Page(task[j].cursor, rows[j].end)
  IN  /\ task[j].at = "fetch"
      /\ task' = [task EXCEPT ![j].at = IF page = {} THEN "complete" ELSE "write",
                              ![j].page = page]
      /\ UNCHANGED <<client, rows, files, jobFaults, torn>>

(* Variant with an error: the day's file is replaced. *)
Replaced(file, times) == [readable |-> TRUE, times |-> times]

(* _write_or_merge: a file that cannot be read is replaced. *)
Merged(file, times) ==
  [readable |-> TRUE, times |-> IF file.readable THEN file.times \cup times ELSE times]

PageDays(page) == {DayOf(t) : t \in page}
OnDay(page, d) == {t \in page : DayOf(t) = d}

(* Variant with an error: the next page begins with the last record. *)
AppendFromLast(j) ==
  LET last == Max(task[j].page)
  IN  /\ task[j].at = "write"
      /\ files' = [d \in Days |->
                     IF d \in PageDays(task[j].page)
                       THEN Merged(files[d], OnDay(task[j].page, d)) ELSE files[d]]
      /\ task' = [task EXCEPT
                    ![j].at = IF last <= task[j].cursor THEN "complete" ELSE "progress",
                    ![j].cursor = IF last <= task[j].cursor THEN @ ELSE last,
                    ![j].page = {},
                    ![j].written = @ + Cardinality(task[j].page)]
      /\ UNCHANGED <<client, rows, jobFaults, torn>>

(* append_records, without leaving the event loop; a page that does not go  *)
(* past the cursor is the last.                                             *)
AppendPage(j) ==
  LET last == Max(task[j].page)
  IN  /\ task[j].at = "write"
      /\ files' = [d \in Days |->
                     IF d \in PageDays(task[j].page)
                       THEN Merged(files[d], OnDay(task[j].page, d)) ELSE files[d]]
      /\ task' = [task EXCEPT
                    ![j].at = IF last <= task[j].cursor THEN "complete" ELSE "progress",
                    ![j].cursor = IF last <= task[j].cursor THEN @ ELSE last + 1,
                    ![j].page = {},
                    ![j].written = @ + Cardinality(task[j].page)]
      /\ UNCHANGED <<client, rows, jobFaults, torn>>

(* update_progress *)
Progress(j) ==
  /\ task[j].at = "progress"
  /\ rows' = [rows EXCEPT ![j].cursor = task[j].cursor, ![j].written = task[j].written]
  /\ task' = [task EXCEPT ![j].at = LoopAt(task[j].cursor, rows[j].end)]
  /\ UNCHANGED <<client, files, jobFaults, torn>>

Complete(j) ==
  /\ task[j].at = "complete"
  /\ rows' = [rows EXCEPT ![j].status = "completed"]
  /\ task' = [task EXCEPT ![j] = Gone]
  /\ UNCHANGED <<client, files, jobFaults, torn>>

-----------------------------------------------------------------------------
(* Faults *)

JobFault == jobFaults < MaxJobFaults /\ jobFaults' = jobFaults + 1

(* The provider or the file sink cannot be set up: the error is logged. *)
SetUpFails(j) ==
  /\ JobFault
  /\ task[j].at = "queued"
  /\ task' = [task EXCEPT ![j] = Gone]
  /\ UNCHANGED <<client, rows, files, torn>>

FetchFails(j) ==
  /\ JobFault
  /\ task[j].at = "fetch"
  /\ rows' = [rows EXCEPT ![j].status = "failed"]
  /\ task' = [task EXCEPT ![j] = Gone]
  /\ UNCHANGED <<client, files, torn>>

(* The database fails; it may fail for the status "failed" too. *)
DatabaseFails(j) ==
  /\ JobFault
  /\ task[j].at \in {"progress", "complete"}
  /\ rows' \in {rows, [rows EXCEPT ![j].status = "failed"]}
  /\ task' = [task EXCEPT ![j] = Gone]
  /\ UNCHANGED <<client, files, torn>>

(* Files are written by day: those before d are, d's is cut short. *)
CutShort(page, d) ==
  /\ files' = [e \in Days |->
                 IF e = d THEN [readable |-> FALSE, times |-> {}]
                 ELSE IF e \in PageDays(page) /\ e < d THEN Merged(files[e], OnDay(page, e))
                 ELSE files[e]]
  /\ torn' = torn \cup {d}

WriteFails(j) ==
  /\ JobFault
  /\ task[j].at = "write"
  /\ \E d \in PageDays(task[j].page) : CutShort(task[j].page, d)
  /\ rows' = [rows EXCEPT ![j].status = "failed"]
  /\ task' = [task EXCEPT ![j] = Gone]
  /\ UNCHANGED client

(* The process stops, maybe while it writes; it starts again without tasks. *)
ServerCrashes ==
  /\ JobFault
  /\ \/ UNCHANGED <<files, torn>>
     \/ \E j \in Jobs : /\ task[j].at = "write"
                        /\ \E d \in PageDays(task[j].page) : CutShort(task[j].page, d)
  /\ client' = [c \in Clients |-> "idle"]
  /\ task' = [j \in Jobs |-> IF task[j].at = "none" THEN NoTask ELSE Gone]
  /\ UNCHANGED rows

-----------------------------------------------------------------------------
Request ==
  \E c \in Clients : CheckRunning(c) \/ \E j \in Jobs, r \in Ranges : CreateJob(c, j, r)

Run(j) == StartTask(j) \/ FetchPage(j) \/ AppendPage(j) \/ Progress(j) \/ Complete(j)

Faults ==
  \/ ServerCrashes
  \/ \E j \in Jobs : SetUpFails(j) \/ FetchFails(j) \/ DatabaseFails(j) \/ WriteFails(j)

Running == \E j \in Jobs : Run(j)

JobsNext == Request \/ Running \/ Faults

JobsSpec == JobsInit /\ [][JobsNext]_jobVars

(* The event loop goes on with one of its tasks: a provider's call returns. *)
JobsFairness == WF_jobVars(Running)
-----------------------------------------------------------------------------
(* Properties *)

(* README.md:502, "409 if one running": with one thread there is one active *)
(* job; threads that look at the same time may create one each, and no more. *)
OnePerClient == Cardinality({j \in Jobs : Active(j)}) <= Cardinality(Clients)

(* The file of its day holds the record, unless a write of it was cut short. *)
Kept(t) == t \in files[DayOf(t)].times \/ DayOf(t) \in torn

Behind(j, cursor) == {t \in Feed : rows[j].start <= t /\ t < cursor}

(* What a job's row says is behind its cursor is in the files, with other   *)
(* jobs writing to the same days, and is counted right; only a day whose    *)
(* write was cut short lost records.                                        *)
CursorCovers ==
  \A j \in Jobs :
    LET behind == Behind(j, rows[j].cursor)
    IN  /\ \A t \in behind : Kept(t)
        /\ rows[j].written = Cardinality(behind)

(* A completed job has left none of its range out.                          *)
CompletedIsWhole ==
  \A j \in Jobs : rows[j].status = "completed" =>
    \A t \in Behind(j, rows[j].end) : Kept(t)

(* A file loses no record while the days' writes are not cut short.         *)
FilesKeepRecords ==
  [][\A d \in Days \ torn' : files[d].times \subseteq files'[d].times]_files

(* No job runs: a row that says so has lost its task. *)
NoneRuns == \A j \in Jobs : Active(j) => task[j].at = "gone"
=============================================================================
