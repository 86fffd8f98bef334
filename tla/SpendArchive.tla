---------------------------- MODULE SpendArchive ---------------------------
(***************************************************************************)
(* The daily job that moves old spend logs from the gateway's database to  *)
(* the object store.  A run takes a file lock, lists the days that are     *)
(* over and past the retention, and per day counts the rows, exports them  *)
(* into one blob, uploads the blob under the key of the day and deletes    *)
(* the rows.  Each of these is a statement of its own: while the job runs  *)
(* the gateway keeps writing rows (LiteLLM writes the row of a request     *)
(* when the request ends, which may be days after it started), a run may   *)
(* fail or be killed between any two of them, and a statement already sent *)
(* to the database server may take effect after the run that sent it died: *)
(* the job talks to it through `docker exec', whose process in the         *)
(* container outlives its client.                                          *)
(***************************************************************************)
EXTENDS Integers, FiniteSets

CONSTANTS
  Request,      \* the requests that get a row in LiteLLM_SpendLogs
  StartDay,     \* the day of each row's startTime
  Runner,       \* processes that may run the job: launchd's, a manual kick
  NoRunner,
  KeepDays,     \* --keep-days
  Limit,        \* values of --limit-days
  Lateness,     \* assumption: days between startTime and the write of the row
  MaxDay,       \* bound of the model: days
  MaxFaults     \* bound of the model: failures

Day == 0..MaxDay

ASSUME ArchiveAssumption ==
  /\ MaxDay \in Nat /\ StartDay \in [Request -> Day]
  /\ KeepDays \in Nat /\ Lateness \in Nat /\ MaxFaults \in Nat
  /\ Limit \subseteq Nat /\ Limit # {}
  /\ NoRunner \notin Runner

VARIABLES
  today,    \* the UTC date
  table,    \* LiteLLM_SpendLogs
  index,    \* LiteLLM_SpendLogToolIndex: the requests with an entry
  object,   \* the object of each day, {} when there is none
  pending,  \* days whose DELETE the database server has yet to execute
  flock,    \* who holds the lock file
  stage, todo, day, blob, attempt, worked, \* per runner: its position and locals
  written,  \* history: every row ever written
  skipped,  \* history: days with the warning "tool-index cleanup skipped"
  raced,    \* history: days deleted for a dead run between the count and the
            \* export of another
  faults    \* history: failures so far

stores == <<table, index, object, pending>>
locals == <<todo, day, blob, attempt, worked>>
archiveVars == <<today, stores, flock, stage, locals, written, skipped, raced, faults>>

Stage == {"idle", "list", "next", "export", "upload", "index", "delete", "deleting"}

TypeOK ==
  /\ today \in Day
  /\ table \subseteq Request /\ index \subseteq Request
  /\ object \in [Day -> SUBSET Request]
  /\ pending \subseteq Day
  /\ flock \in Runner \cup {NoRunner}
  /\ stage \in [Runner -> Stage]
  /\ todo \in [Runner -> SUBSET Day]
  /\ day \in [Runner -> Day]
  /\ blob \in [Runner -> SUBSET Request]
  /\ attempt \in [Runner -> 1..3]
  /\ worked \in [Runner -> BOOLEAN]
  /\ written \subseteq Request /\ skipped \subseteq Day /\ raced \subseteq Day
  /\ faults \in 0..MaxFaults

ArchiveInit ==
  /\ today = 0
  /\ table = {} /\ index = {} /\ pending = {}
  /\ object = [d \in Day |-> {}]
  /\ flock = NoRunner
  /\ stage = [p \in Runner |-> "idle"]
  /\ todo = [p \in Runner |-> {}]
  /\ day = [p \in Runner |-> 0]
  /\ blob = [p \in Runner |-> {}]
  /\ attempt = [p \in Runner |-> 1]
  /\ worked = [p \in Runner |-> FALSE]
  /\ written = {} /\ skipped = {} /\ raced = {} /\ faults = 0

\* mutant: the end of the window is taken with <=: it holds the first row of the next day
RowsOfTwo(d) == {r \in table : StartDay[r] \in {d, d + 1}}

\* The rows that the window predicate of a day selects.
RowsOf(d) == {r \in table : StartDay[r] = d}

Proceed(p, at) == stage' = [stage EXCEPT ![p] = at]

\* The process ends: the kernel drops its lock, the temporary directory goes.
Exit(p) ==
  /\ Proceed(p, "idle")
  /\ flock' = NoRunner
  /\ todo' = [todo EXCEPT ![p] = {}]
  /\ day' = [day EXCEPT ![p] = 0]
  /\ blob' = [blob EXCEPT ![p] = {}]
  /\ attempt' = [attempt EXCEPT ![p] = 1]
  /\ worked' = [worked EXCEPT ![p] = FALSE]

----------------------------------------------------------------------------
(* The surroundings *)

NextDayDawns ==
  /\ today < MaxDay
  /\ today' = today + 1
  /\ UNCHANGED <<stores, flock, stage, locals, written, skipped, raced, faults>>

\* LiteLLM writes the row of a request, and its index entry if it used tools.
Insert(r) ==
  /\ r \notin written
  /\ StartDay[r] <= today /\ today <= StartDay[r] + Lateness
  /\ table' = table \cup {r}
  /\ written' = written \cup {r}
  /\ index' \in {index, index \cup {r}}
  /\ UNCHANGED <<today, object, pending, flock, stage, locals, skipped, raced, faults>>

\* The database server executes a DELETE it has received.  Its sender may be
\* dead, and the run that follows may have counted the rows for its own export.
ExecuteDelete(d) ==
  /\ d \in pending
  /\ table' = table \ RowsOf(d)
  /\ pending' = pending \ {d}
  /\ raced' = IF \E p \in Runner : stage[p] = "export" /\ day[p] = d
                THEN raced \cup {d} ELSE raced
  /\ UNCHANGED <<today, index, object, flock, stage, locals, written, skipped, faults>>

----------------------------------------------------------------------------
(* A run *)

\* main: a runner that finds the lock taken exits at once and changes nothing.
LockFree(p) == flock = NoRunner

Launch(p) ==
  /\ stage[p] = "idle"
  /\ LockFree(p)
  /\ flock' = p
  /\ Proceed(p, "list")
  /\ UNCHANGED <<today, stores, locals, written, skipped, raced, faults>>


\* Days with rows that ended more than KeepDays days ago.
Eligible == {d \in Day : RowsOf(d) # {} /\ d < today - KeepDays}

Earliest(days, n) ==
  IF n = 0 THEN days ELSE {d \in days : Cardinality({e \in days : e < d}) < n}

CandidateDays(p, limit) ==
  /\ stage[p] = "list"
  /\ todo' = [todo EXCEPT ![p] = Earliest(Eligible, limit)]
  /\ Proceed(p, "next")
  /\ UNCHANGED <<today, stores, flock, day, blob, attempt, worked, written, skipped, raced, faults>>

\* The loop takes the days in order and skips one that has no rows (any more).
CountDay(p, d) ==
  /\ stage[p] = "next"
  /\ d \in todo[p] /\ \A e \in todo[p] : d <= e
  /\ todo' = [todo EXCEPT ![p] = @ \ {d}]
  /\ day' = [day EXCEPT ![p] = d]
  /\ worked' = [worked EXCEPT ![p] = TRUE]
  /\ Proceed(p, IF RowsOf(d) = {} THEN "next" ELSE "export")
  /\ UNCHANGED <<today, stores, flock, blob, attempt, written, skipped, raced, faults>>

\* No day is left, or an hour has passed since the loop began.
Finish(p) ==
  /\ stage[p] = "next"
  /\ todo[p] = {} \/ worked[p]
  /\ Exit(p)
  /\ UNCHANGED <<today, stores, written, skipped, raced, faults>>

\* mutant: the exit status of the export is not looked at: part of the rows go up
ExportDayUnchecked(p) ==
  /\ stage[p] = "export"
  /\ \E rows \in SUBSET RowsOf(day[p]) : blob' = [blob EXCEPT ![p] = rows]
  /\ attempt' = [attempt EXCEPT ![p] = 1]
  /\ Proceed(p, "upload")
  /\ UNCHANGED <<today, stores, flock, todo, day, worked, written, skipped, raced, faults>>

ExportDay(p) ==
  /\ stage[p] = "export"
  /\ blob' = [blob EXCEPT ![p] = RowsOf(day[p])]
  /\ attempt' = [attempt EXCEPT ![p] = 1]
  /\ Proceed(p, "upload")
  /\ UNCHANGED <<today, stores, flock, todo, day, worked, written, skipped, raced, faults>>

\* mutant: the index cleanup is forgotten
UploadThenDelete(p) ==
  /\ stage[p] = "upload"
  /\ object' = [object EXCEPT ![day[p]] = blob[p]]
  /\ Proceed(p, "delete")
  /\ UNCHANGED <<today, table, index, pending, flock, locals, written, skipped, raced, faults>>

UploadSucceeds(p) ==
  /\ stage[p] = "upload"
  /\ object' = [object EXCEPT ![day[p]] = blob[p]]
  /\ Proceed(p, "index")
  /\ UNCHANGED <<today, table, index, pending, flock, locals, written, skipped, raced, faults>>

\* An attempt fails, whether or not the object got there; the third one raises.
UploadFails(p) ==
  /\ stage[p] = "upload"
  /\ faults < MaxFaults /\ faults' = faults + 1
  /\ object' \in {object, [object EXCEPT ![day[p]] = blob[p]]}
  /\ \/ /\ attempt[p] < 3
        /\ attempt' = [attempt EXCEPT ![p] = @ + 1]
        /\ UNCHANGED <<stage, flock, todo, day, blob, worked>>
     \/ attempt[p] = 3 /\ Exit(p)
  /\ UNCHANGED <<today, table, index, pending, written, skipped, raced>>

\* delete_day: the index entries go first, found through the rows.
CleanIndex(p) ==
  /\ stage[p] = "index"
  /\ index' = index \ RowsOf(day[p])
  /\ Proceed(p, "delete")
  /\ UNCHANGED <<today, table, object, pending, flock, locals, written, skipped, raced, faults>>

\* An exception of the index cleanup is logged and swallowed.
SkipIndex(p) ==
  /\ stage[p] = "index"
  /\ faults < MaxFaults /\ faults' = faults + 1
  /\ skipped' = skipped \cup {day[p]}
  /\ Proceed(p, "delete")
  /\ UNCHANGED <<today, stores, flock, locals, written, raced>>

SendDelete(p) ==
  /\ stage[p] = "delete"
  /\ pending' = pending \cup {day[p]}
  /\ Proceed(p, "deleting")
  /\ UNCHANGED <<today, table, index, object, flock, locals, written, skipped, raced, faults>>

DeleteReturns(p) ==
  /\ stage[p] = "deleting" /\ day[p] \notin pending
  /\ Proceed(p, "next")
  /\ UNCHANGED <<today, stores, flock, locals, written, skipped, raced, faults>>

\* A call raises (a psql error, a timeout) and main returns 1, or the process
\* is killed.  A DELETE on its way is rolled back, or goes on without its sender.
Abort(p) ==
  /\ stage[p] # "idle"
  /\ faults < MaxFaults /\ faults' = faults + 1
  /\ pending' \in {pending, IF stage[p] = "deleting" THEN pending \ {day[p]} ELSE pending}
  /\ Exit(p)
  /\ UNCHANGED <<today, table, index, object, written, skipped, raced>>

RunnerStep(p) ==
  \/ \E limit \in Limit : CandidateDays(p, limit)
  \/ \E d \in Day : CountDay(p, d)
  \/ Finish(p) \/ ExportDay(p) \/ UploadSucceeds(p)
  \/ CleanIndex(p) \/ SendDelete(p) \/ DeleteReturns(p)

Fault(p) == UploadFails(p) \/ SkipIndex(p) \/ Abort(p)

ArchiveNext ==
  \/ NextDayDawns
  \/ \E r \in Request : Insert(r)
  \/ \E d \in Day : ExecuteDelete(d)
  \/ \E p \in Runner : Launch(p) \/ RunnerStep(p) \/ Fault(p)

ArchiveSpec == ArchiveInit /\ [][ArchiveNext]_archiveVars

\* launchd starts the job every day, a run that nothing stops goes on, and the
\* database server executes what it was sent.
ArchiveFairness ==
  /\ WF_archiveVars(\E p \in Runner : Launch(p))
  /\ WF_archiveVars(\E p \in Runner : RunnerStep(p))
  /\ WF_archiveVars(\E d \in Day : ExecuteDelete(d))

FairArchiveSpec == ArchiveSpec /\ ArchiveFairness

----------------------------------------------------------------------------
(* Properties *)

\* "Idempotent + crash-safe" (archive-litellm-spend-logs.py:8): a spend row that
\* was ever written is in the database or in the object of its day, whatever
\* fails in between, but for one window: a run that died left a DELETE behind,
\* and it takes effect after the next run has counted the rows of that day and
\* before it exports them.  The empty export then replaces the full object.
NoRowLost ==
  \A r \in written :
    r \in table \/ r \in object[StartDay[r]] \/ StartDay[r] \in raced

\* A re-upload under the same key never replaces an object by one that lacks
\* rows of it, but for a day whose rows went in that window.
ArchiveOnlyGrows ==
  [][\A d \in Day : d \in raced \/ object[d] \subseteq object'[d]]_archiveVars

\* Only rows past the retention leave the database, and then only when the
\* object store has them.
RetentionKept ==
  [][\A r \in table \ table' :
       StartDay[r] < today - KeepDays /\ r \in object[StartDay[r]]]_archiveVars

\* An index entry whose row is gone is one the run has warned about.
IndexFollowsRows == \A r \in index : r \in table \/ StartDay[r] \in skipped

============================================================================
