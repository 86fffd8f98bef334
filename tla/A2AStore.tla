------------------------------ MODULE A2AStore ------------------------------
(***************************************************************************)
(* SQLAlchemyA2ATaskStore on PostgreSQL: the task table, the database      *)
(* clock, and the transactions of concurrent connections.                  *)
(*                                                                         *)
(* claim, heartbeat, _terminal_update, acknowledge_cancellation and        *)
(* run_active are transactions of two steps: _lock_task takes the row lock *)
(* and then reads the clock; the statement that follows reads the clock    *)
(* again for its fence, and computes the new deadline from the first       *)
(* reading.  The row lock is held in between, so no other writer comes     *)
(* between the steps, but time does pass.  cancel takes no lock first: it  *)
(* is two UPDATE statements of one READ COMMITTED transaction, each seeing *)
(* what has been committed before it starts.  The sweep (expire_leases)    *)
(* and reserve are single statements.                                      *)
(*                                                                         *)
(* Callers are arbitrary: any holder of a run id that claim returned may   *)
(* call any fenced operation at any time, however late.                    *)
(***************************************************************************)
EXTENDS TaskRow

CONSTANTS
  Task,          \* message ids; the UNIQUE constraint makes one row of each
  Session,       \* concurrent database connections
  LeaseSeconds,  \* lease_seconds of claim and heartbeat
  MaxClock       \* bound of the model: the last instant the clock reaches

ASSUME StoreAssumption ==
  /\ LeaseSeconds \in Nat \ {0}
  /\ MaxClock \in Nat
  /\ NULL \notin Task

VARIABLES
  row,      \* the table
  clock,    \* clock_timestamp()
  txn,      \* the open transaction of each connection
  granted   \* history: the <<task, owner, run>> that claim returned

vars == <<row, clock, txn, granted>>

FencedOp == {"heartbeat", "complete", "fail", "acknowledge", "run_active"}

LockingOp == FencedOp \cup {"claim"}

NoTxn == [op |-> "idle", task |-> NULL, owner |-> NULL, run |-> NULL, now |-> 0]

Txn == [op    : LockingOp \cup {"cancel", "idle"},
        task  : Task \cup {NULL},
        owner : Owner \cup {NULL},
        run   : Run \cup {NULL},
        now   : Nat]

\* Some connection holds the row lock of t.
Locked(t) == \E s \in Session : txn[s].op \in LockingOp /\ txn[s].task = t

\* uuid4 run ids: never one that is stored or about to be.
FreshRun(run) ==
  /\ \A t \in Task : row[t].run_id # run
  /\ \A s \in Session : txn[s].run # run
  /\ \A t \in Task, o \in Owner : <<t, o, run>> \notin granted

Init ==
  /\ row = [t \in Task |-> NoRow]
  /\ clock = 0
  /\ txn = [s \in Session |-> NoTxn]
  /\ granted = {}

---------------------------------------------------------------------------

Tick ==
  /\ clock < MaxClock
  /\ clock' = clock + 1
  /\ UNCHANGED <<row, txn, granted>>

\* reserve; on a conflict the statement changes nothing.
Reserve(t, c) ==
  /\ Insertable(row[t])
  /\ row' = [row EXCEPT ![t] = Inserted(c)]
  /\ UNCHANGED <<clock, txn, granted>>

\* Mutant: the clock is read without waiting for the row.
LockTaskEarly(s, op, t, o, run) ==
  /\ txn[s].op = "idle"
  /\ row[t].state # "absent"
  /\ IF op = "claim" THEN FreshRun(run) ELSE <<t, o, run>> \in granted
  /\ txn' = [txn EXCEPT ![s] =
               [op |-> op, task |-> t, owner |-> o, run |-> run, now |-> clock]]
  /\ UNCHANGED <<row, clock, granted>>

\* _lock_task: wait for the row lock, then read the clock.
LockTask(s, op, t, o, run) ==
  /\ txn[s].op = "idle"
  /\ row[t].state # "absent"
  /\ ~Locked(t)
  /\ IF op = "claim" THEN FreshRun(run) ELSE <<t, o, run>> \in granted
  /\ txn' = [txn EXCEPT ![s] =
               [op |-> op, task |-> t, owner |-> o, run |-> run, now |-> clock]]
  /\ UNCHANGED <<row, clock, granted>>

\* The statement of transaction s and its commit, which drops the row lock:
\* the row becomes new when the WHERE clause holds of it.
Commit(s, op, where, new) ==
  /\ txn[s].op = op
  /\ row' = IF where THEN [row EXCEPT ![txn[s].task] = new] ELSE row
  /\ txn' = [txn EXCEPT ![s] = NoTxn]
  /\ clock' = clock

Claim(s) ==
  LET x == txn[s]
      r == row[x.task]
      wins == Claimable(r)
  IN /\ Commit(s, "claim", wins,
               Claimed(r, x.owner, x.run, x.now + LeaseSeconds))
     /\ granted' = IF wins THEN granted \cup {<<x.task, x.owner, x.run>>}
                           ELSE granted

Heartbeat(s) ==
  LET x == txn[s]
      r == row[x.task]
  IN /\ Commit(s, "heartbeat", Fenced(r, x.owner, x.run, clock),
               Renewed(r, x.now + LeaseSeconds))
     /\ granted' = granted

Complete(s) ==
  LET x == txn[s]
      r == row[x.task]
  IN /\ Commit(s, "complete", Active(r, x.owner, x.run, clock),
               Completed(r, x.run))
     /\ granted' = granted

Fail(s) ==
  LET x == txn[s]
      r == row[x.task]
  IN /\ Commit(s, "fail", Active(r, x.owner, x.run, clock), Failed(r))
     /\ granted' = granted

Acknowledge(s) ==
  LET x == txn[s]
      r == row[x.task]
  IN /\ Commit(s, "acknowledge", Acknowledgeable(r, x.owner, x.run, clock),
               Canceled(r))
     /\ granted' = granted

\* run_active only reads: its answer matters to the service, not to the table.
RunActive(s) ==
  /\ Commit(s, "run_active", FALSE, NoRow)
  /\ granted' = granted

\* Mutant: the first statement skips a locked row instead of waiting for it.
CancelSubmittedSkipLocked(s, t) ==
  /\ txn[s].op = "idle"
  /\ row[t].state # "absent"
  /\ IF CancelableAtOnce(row[t]) /\ ~Locked(t)
       THEN /\ row' = [row EXCEPT ![t] = Canceled(row[t])]
            /\ txn' = txn
       ELSE /\ row' = row
            /\ txn' = [txn EXCEPT ![s] = [NoTxn EXCEPT !.op = "cancel",
                                                       !.task = t]]
  /\ UNCHANGED <<clock, granted>>

\* First statement of cancel.  When it matches, it holds the row until the
\* commit and the second statement cannot match: that is the whole
\* transaction.  When it does not, the transaction goes on unlocked.
CancelSubmitted(s, t) ==
  /\ txn[s].op = "idle"
  /\ row[t].state # "absent"
  /\ IF CancelableAtOnce(row[t])
       THEN /\ ~Locked(t)
            /\ row' = [row EXCEPT ![t] = Canceled(row[t])]
            /\ txn' = txn
       ELSE /\ row' = row
            /\ txn' = [txn EXCEPT ![s] = [NoTxn EXCEPT !.op = "cancel",
                                                       !.task = t]]
  /\ UNCHANGED <<clock, granted>>

\* Second statement of cancel, and its commit.
CancelWorking(s) ==
  LET t == txn[s].task
      r == row[t]
  IN /\ txn[s].op = "cancel"
     /\ CancelFlaggable(r) => ~Locked(t)
     /\ Commit(s, "cancel", CancelFlaggable(r), CancelFlagged(r))
     /\ granted' = granted

\* expire_leases, for one of the rows its single statement updates.
ExpireLease(t) ==
  /\ Expired(row[t], clock)
  /\ ~Locked(t)
  /\ row' = [row EXCEPT ![t] = Expire(row[t])]
  /\ UNCHANGED <<clock, txn, granted>>

\* The connection is lost before the commit.
Rollback(s) ==
  /\ txn[s].op # "idle"
  /\ txn' = [txn EXCEPT ![s] = NoTxn]
  /\ UNCHANGED <<row, clock, granted>>

Next ==
  \/ Tick
  \/ \E t \in Task : \/ \E c \in Commitment : Reserve(t, c)
                     \/ ExpireLease(t)
  \/ \E s \in Session :
       \/ \E op \in LockingOp, t \in Task, o \in Owner, run \in Run :
            LockTask(s, op, t, o, run)
       \/ Claim(s)
       \/ Heartbeat(s)
       \/ Complete(s)
       \/ Fail(s)
       \/ Acknowledge(s)
       \/ RunActive(s)
       \/ \E t \in Task : CancelSubmitted(s, t)
       \/ CancelWorking(s)
       \/ Rollback(s)

Spec == Init /\ [][Next]_vars

---------------------------------------------------------------------------
(* Properties.                                                             *)

\* Every row, transaction and grant has the shape the columns and the calls
\* give it.
TypeOK ==
  /\ row \in [Task -> Row]
  /\ clock \in Nat
  /\ txn \in [Session -> Txn]
  /\ granted \subseteq Task \X Owner \X Run

\* Claiming is exclusive for ever: over the whole life of a row at most one
\* caller is given a run of it, whatever number of processes, wakeups and
\* retries call claim, and that run is the one the row keeps and the only
\* one whose artifact it can hold.
OneRunPerTask ==
  \A g \in granted :
    /\ row[g[1]].run_id = g[3]
    /\ row[g[1]].state = "working" => row[g[1]].lease_owner = g[2]
    /\ row[g[1]].run_count = 1
    /\ row[g[1]].artifact \in {g[3], NULL}

\* A row that was ever asked to cancel while working never holds an
\* artifact, and only a completed row holds one: complete is fenced on
\* cancel_requested inside the transaction that writes the artifact.
NoArtifactAfterCancel ==
  \A t \in Task :
    /\ row[t].artifact # NULL <=> row[t].state = "completed"
    /\ row[t].cancel_requested => row[t].state \in {"working", "failed", "canceled"}

\* A lease exists exactly while the row is working: a working row can always
\* be expired, and a finished row can never be renewed or finished again.
LeasedExactlyWhileWorking ==
  \A t \in Task :
    /\ row[t].state = "working" <=> row[t].lease_expires_at # NULL
    /\ row[t].state = "working" <=> row[t].lease_owner # NULL
    /\ row[t].state \in {"absent", "submitted"} => row[t].run_id = NULL
    /\ row[t].state \in {"working", "completed", "failed"} => row[t].run_id # NULL

\* Fail closed: once the deadline of a working row has passed, the row keeps
\* that deadline and its next state is failed, never completed or canceled,
\* even if the call that loses had taken the row lock before the deadline.
ExpiredFailsClosed ==
  [][\A t \in Task : Expired(row[t], clock) =>
       \/ /\ row'[t].state = "working"
          /\ row'[t].lease_expires_at = row[t].lease_expires_at
       \/ /\ row'[t].state = "failed"
          /\ row'[t].artifact = NULL]_vars

\* A heartbeat never brings a deadline nearer, although it computes the new
\* deadline from a clock reading older than the statement that stores it.
DeadlineNeverShortened ==
  [][\A t \in Task :
       /\ row[t].state = "working"
       /\ row'[t].state = "working"
       => row'[t].lease_expires_at >= row[t].lease_expires_at]_vars

\* A cancellation is never lost between its two statements, whatever commits
\* in between: when the second one commits, the task has ended or carries
\* the request.
CancelIsRecorded ==
  [][\A s \in Session :
       /\ txn[s].op = "cancel"
       /\ CancelWorking(s)
       => LET r == row'[txn[s].task]
          IN r.state \in Terminal \/ r.cancel_requested]_vars

\* The two fences of the terminal update: a canceled run publishes nothing,
\* and an expired one cannot end its task but by failing.
FailsClosed == []NoArtifactAfterCancel /\ ExpiredFailsClosed

\* No statement of one call takes back what another has written: neither the
\* deadline a heartbeat renewed nor a request to cancel.
WritesAreKept == DeadlineNeverShortened /\ CancelIsRecorded

\* The lifecycle a client relies on, read off the table.
Lifecycle == INSTANCE TaskLifecycle WITH task <- [t \in Task |-> Visible(row[t])]

\* Every transaction of the store is a step of the lifecycle or changes
\* nothing a client can read.
ImplementsLifecycle == Lifecycle!Spec

=============================================================================
