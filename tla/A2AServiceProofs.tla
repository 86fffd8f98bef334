-------------------------- MODULE A2AServiceProofs --------------------------
(***************************************************************************)
(* Proofs about A2AService, for any sets of tasks, processes, runs and     *)
(* calls, any lease and any number of store calls that raise.              *)
(*                                                                         *)
(* What a step may do to a row (RowChange, StepRows) and to a worker       *)
(* (Moves, StepWork) is shown once for all actions; the conjuncts of the   *)
(* invariant follow from these two.  They say who executes a task: its     *)
(* only claimant (ExecSound, RunUnique), before whose claim research was   *)
(* not started (StartSound), whose run once inactive stays so (LateSound), *)
(* and who has nothing in flight when a cancellation is acknowledged       *)
(* (FlightSound).                                                          *)
(***************************************************************************)
EXTENDS A2AService, FiniteSetTheorems, SequenceTheorems, TLAPS

PC == {"idle", "claim", "get", "load", "checkpoint", "op", "in_op", "complete",
       "except", "fail", "acknowledge", "timeout", "settle", "retry"}

\* The positions between a claim and the end of the try statement of execute.
Executing == {"load", "checkpoint", "op", "in_op", "complete", "except", "fail",
              "acknowledge", "timeout"}

\* Those at which no operation of the run is left in a thread.
Clean == Executing \ {"in_op", "timeout"}

CallState == [pc         : {"unused", "submit", "select", "cancel", "done"},
              op         : {"submit", "cancel", NULL},
              at         : Owner \cup {NULL},
              task       : Task \cup {NULL},
              commitment : Commitment \cup {NULL},
              reply      : State \cup {"conflict", "error", "lost", NULL}]

TypeOK ==
  /\ row \in [Task -> Row]
  /\ proc \in [Owner -> {"new", "starting", "up", "dead"}]
  /\ queue \in [Owner -> Seq(Task)]
  /\ work \in [Owner -> [pc : PC, task : Task \cup {NULL}, run : Run \cup {NULL}]]
  /\ beating \subseteq Owner /\ healthy \subseteq Owner
  /\ call \in [Call -> CallState]
  /\ faults \in Nat
  /\ inflight \subseteq Owner \X Task
  /\ started \in [Task -> Nat]
  /\ late \in [Task -> Nat]
  /\ raised \subseteq Task

\* Workers and calls at work name a task, and are those of a process that runs.
PlaceSound ==
  /\ \A o \in Owner : work[o].pc # "idle" => work[o].task \in Task /\ o \in Running
  /\ \A o \in Owner : queue[o] # <<>> => o \in Running
  /\ \A h \in Call :
       /\ IF call[h].pc = "unused" THEN call[h].at \notin Owner ELSE call[h].task \in Task
       /\ call[h].pc \in {"submit", "select", "cancel"} => proc[call[h].at] = "up" /\ call[h].at \in Owner
       /\ call[h].pc \in {"submit", "select"} => call[h].commitment \in Commitment
       /\ call[h].pc \in {"submit", "select", "cancel"} => call[h].reply = NULL
       /\ call[h].pc = "cancel" => call[h].op = "cancel"

\* A worker that executes a task has the run of its row, which is not canceled;
\* while the row is working it is leased to that process.
ExecSound ==
  \A o \in Owner : work[o].pc \in Executing =>
    /\ work[o].task \in Task /\ work[o].run \in Run
    /\ row[work[o].task].run_id = work[o].run
    /\ row[work[o].task].state \in {"working", "completed", "failed"}
    /\ row[work[o].task].state = "working" => row[work[o].task].lease_owner = o

\* No two of them have the same run.
RunUnique ==
  \A o, p \in Owner :
    work[o].pc \in Executing /\ work[p].pc \in Executing /\ work[o].run = work[p].run => o = p

Unclaimed(t) == row[t].state \in {"absent", "submitted"}

\* Research starts after the claim, once.
StartSound ==
  /\ \A t \in Task : started[t] <= 1 /\ (Unclaimed(t) => started[t] = 0)
  /\ \A o \in Owner : work[o].pc = "load" => started[work[o].task] = 0

\* After an operation that began too late no other one can begin.
LateSound ==
  \A t \in Task : late[t] <= 1 /\ (late[t] # 0 =>
    /\ ~Unclaimed(t)
    /\ \A o \in Owner : work[o].pc \in Executing /\ work[o].task = t =>
         work[o].pc # "op" /\ ~Active(row[t], o, work[o].run, 0))

\* An operation in flight is one of the claimant, who is in it, has timed out
\* or has left execute.
FlightSound ==
  \A o \in Owner, t \in Task : <<o, t>> \in inflight =>
    /\ row[t].state \in {"working", "completed", "failed"}
    /\ row[t].state = "working" => row[t].lease_owner = o
    /\ ~(work[o].task = t /\ work[o].pc \in Clean)

\* The table has finitely many rows.
RowsFinite == IsFiniteSet({t \in Task : row[t].state # "absent"})

\* A message id without a row has nothing, and nothing is published before the
\* end of the run.
RowSound ==
  \A t \in Task :
    /\ row[t].state = "absent" => row[t] = NoRow
    /\ row[t].state \in {"submitted", "working"} => row[t].artifact = NULL

\* The deployment keeps to its number of processes.
RunningBound == IsFiniteSet(Running) /\ Cardinality(Running) <= Replicas

\* The reply "submitted" is given for a row of the table.
ReplySound ==
  \A h \in Call : call[h].op = "submit" /\ call[h].reply = "submitted" =>
    call[h].pc = "done" /\ row[call[h].task].state # "absent"

IInv ==
  /\ TypeOK
  /\ RowsFinite
  /\ PlaceSound
  /\ ExecSound
  /\ RunUnique
  /\ StartSound
  /\ LateSound
  /\ FlightSound
  /\ RowSound
  /\ RunningBound
  /\ ReplySound

\* What a step may make of a row, apart from a claim and an acknowledgement: a
\* deadline that has not passed moves, the run ends, a cancellation is
\* requested or carried out before the claim, or the lease expires.
RowChange(r, n) ==
  \/ n = r
  \/ Insertable(r) /\ \E c \in Commitment : n = Inserted(c)
  \/ r.lease_expires_at \in Nat \ {0} /\ \E d \in Nat : n = Renewed(r, d)
  \/ \E o \in Owner, run \in Run : Active(r, o, run, 0) /\ n \in {Completed(r, run), Failed(r)}
  \/ CancelableAtOnce(r) /\ n = Canceled(r)
  \/ CancelFlaggable(r) /\ n = CancelFlagged(r)
  \/ Expired(r, 0) /\ n = Expire(r)

Claims(o, t) ==
  /\ work[o].pc = "claim" /\ work[o].task = t
  /\ Claimable(row[t])
  /\ \E run \in Run : FreshRun(run) /\ row'[t] = Claimed(row[t], o, run, LeaseTicks)

Acknowledges(o, t) ==
  /\ work[o].pc = "acknowledge" /\ work[o].task = t
  /\ Acknowledgeable(row[t], o, work[o].run, 0)
  /\ row'[t] = Canceled(row[t])
  /\ work'[o].pc \notin Executing

\* What a step may make of a worker: it leaves execute, or goes on with the same
\* run, to an operation only if the run is active, or it has claimed a task.
Moves(o) ==
  \/ work'[o] = work[o]
  \/ work'[o].pc \notin Executing
  \/ /\ work[o].pc \in Executing /\ work'[o].pc \in Executing \ {"load"}
     /\ work'[o].task = work[o].task /\ work'[o].run = work[o].run
     /\ work'[o].pc = "op" => Active(row[work[o].task], o, work[o].run, 0)
     /\ work'[o].pc \in Clean => work[o].pc \in Clean \/ <<o, work[o].task>> \notin inflight'
  \/ /\ work'[o].pc = "load" /\ Claims(o, work[o].task)
     /\ work'[o].task = work[o].task /\ work'[o].run \in Run
     /\ FreshRun(work'[o].run)
     /\ row'[work[o].task] = Claimed(row[work[o].task], o, work'[o].run, LeaseTicks)

---------------------------------------------------------------------------
(* Rows                                                                    *)

LEMMA NoRowTyped == NoRow \in Row /\ NoRow.state = "absent"
  BY DEF NoRow, Row, State

\* A changed row is again a row of the table.
LEMMA ChangeTyped ==
  ASSUME NEW r \in Row, NEW n, RowChange(r, n)
  PROVE  n \in Row
<1>1. ASSUME NEW c \in Commitment, n = Inserted(c)
      PROVE  n \in Row
  BY <1>1, NoRowTyped DEF Row, State, Inserted
<1>2. ASSUME NEW d \in Nat, n = Renewed(r, d)
      PROVE  n \in Row
  BY <1>2 DEF Row, Renewed
<1>3. ASSUME NEW run \in Run, n \in {Completed(r, run), Failed(r)}
      PROVE  n \in Row
  BY <1>3 DEF Row, State, ErrorText, Completed, Failed, Finished, Unleased
<1>4. CASE n = Canceled(r)
  BY <1>4 DEF Row, State, Canceled, Unleased
<1>5. CASE n = CancelFlagged(r)
  BY <1>5 DEF Row, CancelFlagged
<1>6. CASE n = Expire(r)
  BY <1>6 DEF Row, State, ErrorText, Expire, Unleased
<1> QED
  BY <1>1, <1>2, <1>3, <1>4, <1>5, <1>6 DEF RowChange

LEMMA ClaimTyped ==
  ASSUME NEW r \in Row, NEW o \in Owner, NEW run \in Run
  PROVE  Claimed(r, o, run, LeaseTicks) \in Row
<1>1. r.run_count + 1 \in Nat /\ LeaseTicks \in Nat
  BY ServiceAssumption DEF Row
<1> QED
  BY <1>1 DEF Row, State, Claimed

LEMMA CanceledTyped ==
  ASSUME NEW r \in Row
  PROVE  Canceled(r) \in Row /\ Canceled(r).state = "canceled"
  BY DEF Row, State, Canceled, Unleased

\* A row that was claimed keeps its run; it is leased to the same owner as long
\* as it is working, is not canceled, and a run that is inactive stays so.
LEMMA ChangeKeeps ==
  ASSUME NEW r \in Row, NEW n, RowChange(r, n), r.state \notin {"absent", "submitted"}
  PROVE  /\ n.run_id = r.run_id
         /\ n.state \notin {"absent", "submitted"}
         /\ n.state = "canceled" => r.state = "canceled"
         /\ n.state = "working" => r.state = "working" /\ n.lease_owner = r.lease_owner
         /\ \A o, run : Active(n, o, run, 0) => Active(r, o, run, 0)
<1> USE DEF Row
<1>1. CASE r.lease_expires_at \in Nat \ {0} /\ \E d \in Nat : n = Renewed(r, d)
  BY <1>1, NullAssumption DEF Renewed, Active, Fenced
<1>2. ASSUME NEW run \in Run, n \in {Completed(r, run), Failed(r)}
      PROVE  n.state \in {"completed", "failed"} /\ n.run_id = r.run_id
  BY <1>2 DEF Completed, Failed, Finished, Unleased
<1>3. CASE n = CancelFlagged(r)
  BY <1>3 DEF CancelFlagged, Active, Fenced
<1>4. CASE n = Expire(r)
  BY <1>4 DEF Expire, Unleased, Active, Fenced
<1>5. CASE \E run \in Run : n \in {Completed(r, run), Failed(r)}
  BY <1>2, <1>5 DEF Active, Fenced
<1> QED
  BY <1>1, <1>3, <1>4, <1>5 DEF RowChange, Insertable, CancelableAtOnce

\* Nor does a change claim a row.
LEMMA ChangeUnclaimed ==
  ASSUME NEW r \in Row, NEW n, RowChange(r, n), n.state \in {"absent", "submitted"}
  PROVE  /\ r.state \in {"absent", "submitted"}
         /\ n.state = "absent" => r.state = "absent"
<1> USE DEF Row
<1>1. CASE \E d \in Nat : n = Renewed(r, d)
  BY <1>1 DEF Renewed
<1>2. ASSUME NEW run \in Run, n \in {Completed(r, run), Failed(r)}
      PROVE  FALSE
  BY <1>2 DEF Completed, Failed, Finished, Unleased
<1>3. CASE n = CancelFlagged(r)
  BY <1>3 DEF CancelFlagged
<1>4. CASE n = Expire(r) \/ n = Canceled(r)
  BY <1>4 DEF Expire, Canceled, Unleased
<1>5. ASSUME NEW c \in Commitment, n = Inserted(c)
      PROVE  n.state = "submitted"
  BY <1>5 DEF Inserted, NoRow
<1> QED
  BY <1>1, <1>2, <1>3, <1>4, <1>5 DEF RowChange, Insertable

---------------------------------------------------------------------------
(* Steps                                                                   *)

\* A statement with its WHERE clause changes one row, or none.
LEMMA UpdateRow ==
  ASSUME row \in [Task -> Row], NEW s \in Task, NEW where, NEW new, Update(s, where, new)
  PROVE  \A t \in Task : row'[t] = row[t] \/ (t = s /\ where /\ row'[t] = new)
  BY DEF Update

LEMMA SweptRows ==
  ASSUME row' = Swept
  PROVE  \A t \in Task : RowChange(row[t], row'[t])
  BY DEF Swept, RowChange

\* What a worker's own statements do.
LEMMA WorkerRows ==
  ASSUME TypeOK, PlaceSound, ExecSound, NEW o \in Owner, NEW t \in Task,
         ClaimTask(o) \/ CompleteTask(o) \/ FailTask(o) \/ AcknowledgeCancellation(o)
  PROVE  RowChange(row[t], row'[t]) \/ Claims(o, t) \/ Acknowledges(o, t)
<1> DEFINE s == work[o].task
<1>1. row \in [Task -> Row] /\ work \in [Owner -> [pc : PC, task : Task \cup {NULL}, run : Run \cup {NULL}]]
  BY DEF TypeOK
<1>2. CASE ClaimTask(o)
  <2>1. s \in Task
    BY <1>2 DEF ClaimTask, PlaceSound
  <2>2. CASE row' = row
    BY <2>2 DEF RowChange
  <2>3. ASSUME Claimable(row[s]), NEW run \in Run, FreshRun(run),
               row' = [row EXCEPT ![s] = Claimed(row[s], o, run, LeaseTicks)]
        PROVE  RowChange(row[t], row'[t]) \/ Claims(o, t)
    BY <1>1, <1>2, <2>1, <2>3 DEF ClaimTask, RowChange, Claims
  <2> QED
    BY <1>2, <2>2, <2>3 DEF ClaimTask
<1>3. CASE CompleteTask(o) \/ FailTask(o)
  <2>1. s \in Task /\ work[o].run \in Run
    BY <1>3 DEF CompleteTask, FailTask, ExecSound, Executing
  <2>2. \/ row' = row
        \/ /\ Active(row[s], o, work[o].run, 0)
           /\ \/ row' = [row EXCEPT ![s] = Completed(row[s], work[o].run)]
              \/ row' = [row EXCEPT ![s] = Failed(row[s])]
    BY <1>3 DEF CompleteTask, FailTask
  <2> QED
    BY <1>1, <2>1, <2>2 DEF RowChange
<1>4. CASE AcknowledgeCancellation(o)
  <2>1. s \in Task
    BY <1>4 DEF AcknowledgeCancellation, ExecSound, Executing
  <2>2. work'[o].pc \notin Executing
    BY <1>1, <1>4 DEF AcknowledgeCancellation, EndExecute, Unwound, Goto, Return, Idle, Executing
  <2>3. Update(s, Acknowledgeable(row[s], o, work[o].run, 0), Canceled(row[s]))
    BY <1>4 DEF AcknowledgeCancellation
  <2>4. row'[t] = row[t] \/ (t = s /\ Acknowledgeable(row[s], o, work[o].run, 0) /\ row'[t] = Canceled(row[s]))
    BY <1>1, <2>1, <2>3, UpdateRow
  <2> QED
    BY <1>4, <2>2, <2>4 DEF AcknowledgeCancellation, Acknowledges, RowChange
<1> QED
  BY <1>2, <1>3, <1>4

\* What they do if the store raises: the same, or nothing.
LEMMA RaisedRows ==
  ASSUME TypeOK, PlaceSound, ExecSound, NEW o \in Owner, NEW t \in Task, WorkerRaises(o)
  PROVE  RowChange(row[t], row'[t]) \/ Claims(o, t) \/ Acknowledges(o, t)
<1> DEFINE s == work[o].task
<1>1. row \in [Task -> Row] /\ work \in [Owner -> [pc : PC, task : Task \cup {NULL}, run : Run \cup {NULL}]]
  BY DEF TypeOK
<1>2. s \in Task
  BY DEF WorkerRaises, PlaceSound
<1>3. \/ row' = row
      \/ row' = Swept
      \/ work[o].pc = "claim" /\ \E new \in Run : FreshRun(new) /\ Update(s, Claimable(row[s]), Claimed(row[s], o, new, LeaseTicks))
      \/ work[o].pc = "complete" /\ Update(s, Active(row[s], o, work[o].run, 0), Completed(row[s], work[o].run))
      \/ work[o].pc = "fail" /\ Update(s, Active(row[s], o, work[o].run, 0), Failed(row[s]))
      \/ /\ work[o].pc = "acknowledge"
         /\ Update(s, Acknowledgeable(row[s], o, work[o].run, 0), Canceled(row[s]))
         /\ Unwound(o, "retry")
  BY DEF WorkerRaises
<1>4. CASE row' = row
  BY <1>4 DEF RowChange
<1>5. CASE row' = Swept
  BY <1>5, SweptRows
<1>6. ASSUME work[o].pc = "claim", NEW new \in Run, FreshRun(new), Update(s, Claimable(row[s]), Claimed(row[s], o, new, LeaseTicks))
      PROVE  RowChange(row[t], row'[t]) \/ Claims(o, t)
  <2>1. row'[t] = row[t] \/ (t = s /\ Claimable(row[s]) /\ row'[t] = Claimed(row[s], o, new, LeaseTicks))
    BY <1>1, <1>2, <1>6, UpdateRow
  <2> QED
    BY <1>6, <2>1 DEF RowChange, Claims
<1>7. ASSUME work[o].pc \in {"complete", "fail"}, NEW new \in {Completed(row[s], work[o].run), Failed(row[s])},
             Update(s, Active(row[s], o, work[o].run, 0), new)
      PROVE  RowChange(row[t], row'[t])
  <2>1. row'[t] = row[t] \/ (t = s /\ Active(row[s], o, work[o].run, 0) /\ row'[t] = new)
    BY <1>1, <1>2, <1>7, UpdateRow
  <2>2. work[o].run \in Run
    BY <1>7 DEF ExecSound, Executing
  <2> QED
    BY <1>7, <2>1, <2>2 DEF RowChange
<1>8. ASSUME work[o].pc = "acknowledge", Unwound(o, "retry"),
             Update(s, Acknowledgeable(row[s], o, work[o].run, 0), Canceled(row[s]))
      PROVE  RowChange(row[t], row'[t]) \/ Acknowledges(o, t)
  <2>1. row'[t] = row[t] \/ (t = s /\ Acknowledgeable(row[s], o, work[o].run, 0) /\ row'[t] = Canceled(row[s]))
    BY <1>1, <1>2, <1>8, UpdateRow
  <2>2. work'[o].pc \notin Executing
    BY <1>1, <1>8 DEF Unwound, Goto, Executing
  <2> QED
    BY <1>8, <2>1, <2>2 DEF RowChange, Acknowledges
<1> QED
  BY <1>3, <1>4, <1>5, <1>6, <1>7, <1>8

\* What requests, heartbeats, sweeps and the clock do.
LEMMA OtherRows ==
  ASSUME TypeOK, PlaceSound, NEW t \in Task,
         \/ Tick
         \/ \E o \in Owner : RecoverPending(o) \/ Sweep(o) \/ Settle(o) \/ Heartbeat(o) \/ HeartbeatRaises(o)
         \/ \E h \in Call : SubmitReserve(h) \/ CancelTask(h) \/ RequestRaises(h)
  PROVE  RowChange(row[t], row'[t])
<1>1. row \in [Task -> Row] /\ LeaseTicks \in Nat
  BY ServiceAssumption DEF TypeOK
<1>2. CASE Tick
  <2>1. row[t].lease_expires_at \in Nat \cup {NULL}
    BY <1>1 DEF Row
  <2>2. row'[t] = IF row[t].lease_expires_at \in {NULL, 0} THEN row[t]
                  ELSE Renewed(row[t], row[t].lease_expires_at - 1)
    BY <1>2 DEF Tick
  <2> QED
    BY <2>1, <2>2 DEF RowChange
<1>3. ASSUME NEW o \in Owner, RecoverPending(o) \/ Sweep(o) \/ Settle(o)
      PROVE  RowChange(row[t], row'[t])
  BY <1>3, SweptRows DEF RecoverPending, Sweep, Settle
<1>4. ASSUME NEW o \in Owner, Heartbeat(o) \/ HeartbeatRaises(o)
      PROVE  RowChange(row[t], row'[t])
  <2> DEFINE s == work[o].task
  <2>1. row' = row \/ Update(s, Fenced(row[s], o, work[o].run, 0), Renewed(row[s], LeaseTicks))
    BY <1>4 DEF Heartbeat, HeartbeatRaises
  <2>2. row'[t] = row[t] \/ (Fenced(row[t], o, work[o].run, 0) /\ row'[t] = Renewed(row[t], LeaseTicks))
    BY <1>1, <2>1 DEF Update
  <2>3. row[t].lease_expires_at \in Nat \cup {NULL}
    BY <1>1 DEF Row
  <2> QED
    BY <1>1, <2>2, <2>3 DEF RowChange, Fenced
<1>5. ASSUME NEW h \in Call, SubmitReserve(h) \/ CancelTask(h) \/ RequestRaises(h)
      PROVE  RowChange(row[t], row'[t])
  <2> DEFINE s == call[h].task
  <2>1. s \in Task
    BY <1>5 DEF PlaceSound, SubmitReserve, CancelTask, RequestRaises
  <2>2. \/ row' = row
        \/ call[h].pc = "submit" /\ Update(s, Insertable(row[s]), Inserted(call[h].commitment))
        \/ row' = [row EXCEPT ![s] = CancelOutcome(row[s])]
    BY <1>5 DEF SubmitReserve, CancelTask, RequestRaises
  <2>3. CASE call[h].pc = "submit" /\ Update(s, Insertable(row[s]), Inserted(call[h].commitment))
    <3>1. row'[t] = row[t] \/ (t = s /\ Insertable(row[s]) /\ row'[t] = Inserted(call[h].commitment))
      BY <1>1, <2>1, <2>3, UpdateRow
    <3>2. call[h].commitment \in Commitment
      BY <2>3 DEF PlaceSound
    <3> QED
      BY <3>1, <3>2 DEF RowChange
  <2>4. CASE row' = [row EXCEPT ![s] = CancelOutcome(row[s])]
    BY <1>1, <2>1, <2>4 DEF RowChange, CancelOutcome
  <2> QED
    BY <2>2, <2>3, <2>4 DEF RowChange
<1> QED
  BY <1>2, <1>3, <1>4, <1>5

\* Every step changes a row by one of these, by a claim or by an acknowledgement.
LEMMA StepRows ==
  ASSUME TypeOK, PlaceSound, ExecSound, Next, NEW t \in Task
  PROVE  \/ RowChange(row[t], row'[t])
         \/ \E o \in Owner : Claims(o, t) \/ Acknowledges(o, t)
<1>1. CASE row' = row
  BY <1>1 DEF RowChange
<1> QED
  BY <1>1, WorkerRows, RaisedRows, OtherRows
     DEF Next, ProcessNext, CallNext, CallStep, WorkerStep, ResearchStep, Start, Crash,
         EndResearch, OperationSettles, Request, SubmitSelect, Dequeue, GetUnclaimed,
         LoadSubmission, Checkpoint, BeginOperation, EndOperation, HandleException,
         HandleTimeout, Requeue

\* A step of one worker leaves the others where they are.
LEMMA OtherWorkers ==
  ASSUME TypeOK, NEW o \in Owner, NEW w, work' = [work EXCEPT ![o] = w]
  PROVE  work'[o] = w /\ \A p \in Owner \ {o} : work'[p] = work[p]
  BY DEF TypeOK

LEMMA GotoWork ==
  ASSUME TypeOK, NEW o \in Owner, NEW pc, Goto(o, pc)
  PROVE  /\ work'[o] = [work[o] EXCEPT !.pc = pc]
         /\ work'[o].pc = pc /\ work'[o].task = work[o].task /\ work'[o].run = work[o].run
         /\ \A p \in Owner \ {o} : work'[p] = work[p]
  BY DEF TypeOK, Goto

\* Positions outside execute.
LEMMA LeavesExecute ==
  ASSUME TypeOK, NEW o \in Owner,
         \/ work' = [work EXCEPT ![o] = Idle]
         \/ \E t : work' = [work EXCEPT ![o] = [pc |-> "claim", task |-> t, run |-> NULL]]
         \/ \E pc \in PC \ Executing : Goto(o, pc)
  PROVE  \A p \in Owner : Moves(p)
<1>1. ASSUME NEW w, work' = [work EXCEPT ![o] = w], w.pc \notin Executing
      PROVE  \A p \in Owner : Moves(p)
  BY <1>1, OtherWorkers DEF Moves
<1>2. ASSUME NEW pc \in PC \ Executing, Goto(o, pc)
      PROVE  \A p \in Owner : Moves(p)
  <2>1. work'[o].pc \notin Executing /\ \A p \in Owner \ {o} : work'[p] = work[p]
    BY <1>2, GotoWork, Zenon
  <2> QED
    BY <2>1 DEF Moves
<1>3. ASSUME NEW t, work' = [work EXCEPT ![o] = [pc |-> "claim", task |-> t, run |-> NULL]]
      PROVE  \A p \in Owner : Moves(p)
  BY <1>1, <1>3 DEF Executing
<1>4. CASE work' = [work EXCEPT ![o] = Idle]
  BY <1>1, <1>4 DEF Executing, Idle
<1> QED
  BY <1>2, <1>3, <1>4

\* Positions inside execute: a step of research, or of a handler after it.
LEMMA StaysInExecute ==
  ASSUME TypeOK, NEW o \in Owner, NEW pc \in Executing \ {"load"}, Goto(o, pc),
         work[o].pc \in Executing,
         pc = "op" => Active(row[work[o].task], o, work[o].run, 0),
         pc \in Clean => work[o].pc \in Clean \/ <<o, work[o].task>> \notin inflight'
  PROVE  \A p \in Owner : Moves(p)
<1>1. /\ work'[o].pc = pc /\ work'[o].task = work[o].task /\ work'[o].run = work[o].run
      /\ \A p \in Owner \ {o} : work'[p] = work[p]
  BY GotoWork, Zenon
<1> QED
  BY <1>1 DEF Moves

LEMMA ClaimMoves ==
  ASSUME TypeOK, PlaceSound, NEW o \in Owner, ClaimTask(o)
  PROVE  \A p \in Owner : Moves(p)
<1> DEFINE t == work[o].task
<1>1. CASE Goto(o, "get")
  BY <1>1, LeavesExecute DEF PC, Executing
<1>2. ASSUME NEW run \in Run, Claimable(row[t]), FreshRun(run),
             row' = [row EXCEPT ![t] = Claimed(row[t], o, run, LeaseTicks)],
             work' = [work EXCEPT ![o].pc = "load", ![o].run = run]
      PROVE  \A p \in Owner : Moves(p)
  <2>1. /\ work'[o].pc = "load" /\ work'[o].run = run /\ work'[o].task = t
        /\ \A p \in Owner \ {o} : work'[p] = work[p]
    BY <1>2 DEF TypeOK
  <2>2. row'[t] = Claimed(row[t], o, run, LeaseTicks)
    BY <1>2 DEF ClaimTask, PlaceSound, TypeOK
  <2>3. Claims(o, t)
    BY <1>2, <2>2 DEF Claims, ClaimTask
  <2> QED
    BY <1>2, <2>1, <2>2, <2>3 DEF Moves
<1> QED
  BY <1>1, <1>2 DEF ClaimTask

LEMMA ResearchMoves ==
  ASSUME TypeOK, NEW o \in Owner,
         LoadSubmission(o) \/ ResearchStep(o) \/ EndResearch(o) \/ HandleException(o)
  PROVE  \A p \in Owner : Moves(p)
<1> USE DEF Executing, Clean
<1>1. CASE LoadSubmission(o)
  BY <1>1, StaysInExecute DEF LoadSubmission
<1>6. CASE HandleException(o)
  <2>1. work[o].pc = "except" /\ \E pc \in {"acknowledge", "fail"} : Goto(o, pc)
    BY <1>6 DEF HandleException
  <2> QED
    BY <2>1, StaysInExecute
<1>2. CASE Checkpoint(o)
  BY <1>2, StaysInExecute DEF Checkpoint
<1>3. CASE BeginOperation(o)
  BY <1>3, StaysInExecute DEF BeginOperation
<1>4. CASE EndOperation(o)
  BY <1>4, StaysInExecute DEF EndOperation
<1>5. CASE EndResearch(o)
  <2>1. \/ work[o].pc = "checkpoint" /\ Goto(o, "complete")
        \/ /\ work[o].pc \in InResearch /\ Goto(o, "except")
           /\ inflight' = inflight \ {<<o, work[o].task>>}
        \/ work[o].pc \in InResearch /\ Goto(o, "timeout")
    BY <1>5 DEF EndResearch, ResearchEnds, RunTimeout
  <2>2. CASE work[o].pc = "checkpoint" /\ Goto(o, "complete")
    BY <2>2, StaysInExecute
  <2>3. CASE work[o].pc \in InResearch /\ Goto(o, "timeout")
    BY <2>3, StaysInExecute DEF InResearch
  <2>4. CASE work[o].pc \in InResearch /\ Goto(o, "except") /\ inflight' = inflight \ {<<o, work[o].task>>}
    BY <2>4, StaysInExecute DEF InResearch
  <2> QED
    BY <2>1, <2>2, <2>3, <2>4
<1> QED
  BY <1>1, <1>2, <1>3, <1>4, <1>5, <1>6 DEF ResearchStep

LEMMA EndMoves ==
  ASSUME TypeOK, NEW o \in Owner, NEW r, EndExecute(o, r) \/ Return(o)
  PROVE  \A p \in Owner : Moves(p)
<1>1. Goto(o, "settle") \/ work' = [work EXCEPT ![o] = Idle]
  BY DEF EndExecute, Unwound, Return
<1> QED
  BY <1>1, LeavesExecute DEF PC, Executing

LEMMA WorkerMoves ==
  ASSUME TypeOK, NEW o \in Owner,
         \/ Dequeue(o) \/ GetUnclaimed(o) \/ CompleteTask(o) \/ FailTask(o)
         \/ AcknowledgeCancellation(o) \/ HandleTimeout(o) \/ Settle(o) \/ Requeue(o) \/ Crash(o)
  PROVE  \A p \in Owner : Moves(p)
<1>1. CASE Dequeue(o) \/ Requeue(o) \/ Crash(o)
  BY <1>1, LeavesExecute DEF Dequeue, Requeue, Crash
<1>2. CASE GetUnclaimed(o) \/ Settle(o) \/ AcknowledgeCancellation(o) \/ HandleTimeout(o)
  BY <1>2, EndMoves DEF GetUnclaimed, Settle, AcknowledgeCancellation, HandleTimeout
<1>3. CASE CompleteTask(o) \/ FailTask(o)
  <2>1. Return(o) \/ (work[o].pc \in {"complete", "fail"} /\ Goto(o, "acknowledge"))
    BY <1>3 DEF CompleteTask, FailTask
  <2> QED
    BY <2>1, EndMoves, StaysInExecute DEF Executing, Clean
<1> QED
  BY <1>1, <1>2, <1>3

LEMMA RaisedMoves ==
  ASSUME TypeOK, NEW o \in Owner, WorkerRaises(o)
  PROVE  \A p \in Owner : Moves(p)
<1>1. \/ Goto(o, "retry")
      \/ work[o].pc \in {"load", "checkpoint", "complete"} /\ \E h \in {"except", "timeout"} : Goto(o, h)
  BY DEF WorkerRaises, Unwound
<1> QED
  BY <1>1, LeavesExecute, StaysInExecute DEF PC, Executing, Clean

\* Every step takes every worker along one of these ways.
LEMMA StepWork ==
  ASSUME TypeOK, PlaceSound, Next
  PROVE  \A o \in Owner : Moves(o)
<1>1. CASE work' = work
  BY <1>1 DEF Moves
<1> QED
  BY <1>1, ClaimMoves, ResearchMoves, WorkerMoves, RaisedMoves
     DEF Next, ProcessNext, CallNext, CallStep, WorkerStep, Tick, Start, RecoverPending, Sweep,
         Heartbeat, HeartbeatRaises, OperationSettles, Request, SubmitReserve, SubmitSelect,
         CancelTask, RequestRaises

---------------------------------------------------------------------------
(* Type correctness                                                        *)

\* A step writes one row, or sweeps or ages the whole table.
LEMMA OneRow ==
  ASSUME TypeOK, PlaceSound, ExecSound, Next
  PROVE  \/ row' = row
         \/ row' = Swept
         \/ Tick
         \/ \E s \in Task : \E n : row' = [row EXCEPT ![s] = n]
<1>1. ASSUME NEW s \in Task, NEW where, NEW new, Update(s, where, new)
      PROVE  row' = row \/ \E n : row' = [row EXCEPT ![s] = n]
  BY <1>1 DEF Update
<1>2. ASSUME NEW o \in Owner, ClaimTask(o) \/ CompleteTask(o) \/ FailTask(o)
      PROVE  row' = row \/ \E s \in Task : \E n : row' = [row EXCEPT ![s] = n]
  <2>1. work[o].task \in Task
    BY <1>2 DEF ClaimTask, CompleteTask, FailTask, PlaceSound
  <2> QED
    BY <1>2, <2>1 DEF ClaimTask, CompleteTask, FailTask
<1>3. ASSUME NEW o \in Owner, AcknowledgeCancellation(o)
      PROVE  row' = row \/ \E s \in Task : \E n : row' = [row EXCEPT ![s] = n]
  <2>1. work[o].task \in Task
    BY <1>3 DEF AcknowledgeCancellation, PlaceSound
  <2> QED
    BY <1>1, <1>3, <2>1 DEF AcknowledgeCancellation
<1>4. ASSUME NEW o \in Owner, WorkerRaises(o)
      PROVE  row' = row \/ row' = Swept \/ \E s \in Task : \E n : row' = [row EXCEPT ![s] = n]
  <2> DEFINE s == work[o].task
  <2>1. s \in Task
    BY <1>4 DEF WorkerRaises, PlaceSound
  <2>2. row' = row \/ row' = Swept \/ \E where, new : Update(s, where, new)
    BY <1>4 DEF WorkerRaises
  <2> QED
    BY <1>1, <2>1, <2>2
<1>5. ASSUME NEW o \in Owner, Heartbeat(o) \/ HeartbeatRaises(o)
      PROVE  row' = row \/ row' = [row EXCEPT ![work[o].task] = Renewed(row[work[o].task], LeaseTicks)]
  BY <1>5 DEF Heartbeat, HeartbeatRaises, Update
<1>6. ASSUME NEW h \in Call, SubmitReserve(h) \/ CancelTask(h) \/ RequestRaises(h)
      PROVE  row' = row \/ \E s \in Task : \E n : row' = [row EXCEPT ![s] = n]
  <2> DEFINE s == call[h].task
  <2>1. s \in Task
    BY <1>6 DEF PlaceSound, SubmitReserve, CancelTask, RequestRaises
  <2>2. \/ row' = row
        \/ Update(s, Insertable(row[s]), Inserted(call[h].commitment))
        \/ row' = [row EXCEPT ![s] = CancelOutcome(row[s])]
    BY <1>6 DEF SubmitReserve, CancelTask, RequestRaises
  <2> QED
    BY <1>1, <2>1, <2>2
<1>7. ASSUME NEW o \in Owner, RecoverPending(o) \/ Sweep(o) \/ Settle(o)
      PROVE  row' = Swept
  BY <1>7 DEF RecoverPending, Sweep, Settle
<1>8. ASSUME NEW o \in Owner, Heartbeat(o) \/ HeartbeatRaises(o)
      PROVE  row' = row \/ \E s \in Task : \E n : row' = [row EXCEPT ![s] = n]
  <2> DEFINE s == work[o].task
  <2>1. CASE s \in Task
    BY <1>5, <1>8, <2>1
  <2>2. CASE s \notin Task
    BY <1>5, <1>8, <2>2 DEF TypeOK
  <2> QED
    BY <2>1, <2>2
<1> QED
  BY <1>2, <1>3, <1>4, <1>6, <1>7, <1>8
     DEF Next, ProcessNext, CallNext, CallStep, WorkerStep, ResearchStep, Start, Crash,
         EndResearch, OperationSettles, Request, SubmitSelect, Dequeue, GetUnclaimed,
         LoadSubmission, Checkpoint, BeginOperation, EndOperation, HandleException,
         HandleTimeout, Requeue

LEMMA RowsTyped ==
  ASSUME TypeOK, PlaceSound, ExecSound, Next
  PROVE  row' \in [Task -> Row]
<1>1. row \in [Task -> Row]
  BY DEF TypeOK
<1>2. ASSUME NEW t \in Task PROVE row'[t] \in Row
  <2>1. CASE RowChange(row[t], row'[t])
    BY <1>1, <2>1, ChangeTyped
  <2>2. ASSUME NEW o \in Owner, Claims(o, t) PROVE row'[t] \in Row
    BY <1>1, <2>2, ClaimTyped DEF Claims
  <2>3. ASSUME NEW o \in Owner, Acknowledges(o, t) PROVE row'[t] \in Row
    BY <1>1, <2>3, CanceledTyped DEF Acknowledges
  <2> QED
    BY <2>1, <2>2, <2>3, StepRows
<1>3. row' = [t \in Task |-> row'[t]]
  BY <1>1, OneRow DEF Swept, Tick
<1> QED
  BY <1>2, <1>3

WorkRecord == [pc : PC, task : Task \cup {NULL}, run : Run \cup {NULL}]

LEMMA GotoTyped ==
  ASSUME TypeOK, NEW o \in Owner, NEW pc \in PC, Goto(o, pc)
  PROVE  work' \in [Owner -> WorkRecord]
  BY DEF TypeOK, Goto, WorkRecord

LEMMA IdleTyped ==
  ASSUME TypeOK, NEW o \in Owner, work' = [work EXCEPT ![o] = Idle]
  PROVE  work' \in [Owner -> WorkRecord]
<1>1. Idle \in WorkRecord
  BY DEF Idle, WorkRecord, PC
<1> QED
  BY <1>1 DEF TypeOK, WorkRecord

\* What a worker's step leaves in its record.
LEMMA WorkTyped ==
  ASSUME TypeOK, PlaceSound, ExecSound, Next
  PROVE  work' \in [Owner -> WorkRecord]
<1> USE DEF PC
<1>1. CASE work' = work
  BY <1>1 DEF TypeOK, WorkRecord
<1>2. ASSUME NEW o \in Owner,
             \/ GetUnclaimed(o) \/ CompleteTask(o) \/ FailTask(o) \/ AcknowledgeCancellation(o)
             \/ HandleTimeout(o) \/ Settle(o) \/ Requeue(o) \/ Crash(o) \/ WorkerRaises(o)
             \/ LoadSubmission(o) \/ HandleException(o) \/ ResearchStep(o) \/ EndResearch(o)
      PROVE  work' \in [Owner -> WorkRecord]
  <2>1. work' = [work EXCEPT ![o] = Idle] \/ \E pc \in PC : Goto(o, pc)
    BY <1>2 DEF GetUnclaimed, CompleteTask, FailTask, AcknowledgeCancellation, EndExecute, Unwound,
                Return, HandleTimeout, Settle, Requeue, Crash, WorkerRaises, LoadSubmission,
                HandleException, ResearchStep, Checkpoint, BeginOperation, EndOperation,
                EndResearch, ResearchEnds, RunTimeout
  <2> QED
    BY <2>1, IdleTyped, GotoTyped
<1>3. ASSUME NEW o \in Owner, Dequeue(o)
      PROVE  work' \in [Owner -> WorkRecord]
  <2>1. Head(queue[o]) \in Task
    BY <1>3 DEF TypeOK, Dequeue
  <2>2. [pc |-> "claim", task |-> Head(queue[o]), run |-> NULL] \in WorkRecord
    BY <2>1 DEF WorkRecord
  <2> QED
    BY <1>3, <2>2 DEF TypeOK, Dequeue, WorkRecord
<1>4. ASSUME NEW o \in Owner, ClaimTask(o)
      PROVE  work' \in [Owner -> WorkRecord]
  <2>1. ASSUME NEW run \in Run, work' = [work EXCEPT ![o].pc = "load", ![o].run = run]
        PROVE  work' \in [Owner -> WorkRecord]
    BY <2>1 DEF TypeOK, WorkRecord
  <2> QED
    BY <1>4, <2>1, GotoTyped DEF ClaimTask
<1> QED
  BY <1>1, <1>2, <1>3, <1>4
     DEF Next, ProcessNext, CallNext, CallStep, WorkerStep, Tick, Start, RecoverPending, Sweep,
         Heartbeat, HeartbeatRaises, OperationSettles, Request, SubmitReserve, SubmitSelect,
         CancelTask, RequestRaises

\* recoverable() lists every submitted task: the sequence has all of them.
LEMMA PendingIds ==
  ASSUME RowsFinite, NEW ids \in SetToSeqs({t \in Task : row[t].state = "submitted"})
  PROVE  /\ ids \in Seq(Task)
         /\ \A t \in Task : row[t].state = "submitted" => t \in Range(ids)
<1> DEFINE S == {t \in Task : row[t].state = "submitted"}
           n == Cardinality(S)
<1>1. S \subseteq Task /\ S \subseteq {t \in Task : row[t].state # "absent"}
  OBVIOUS
<1>2. IsFiniteSet(S) /\ n \in Nat
  BY <1>1, FS_Subset, FS_CardinalityType DEF RowsFinite
<1> HIDE DEF S
<1>3. ids \in [1..n -> S] /\ \A i, j \in 1..n : i # j => ids[i] # ids[j]
  BY Zenon DEF SetToSeqs, S
<1> HIDE DEF n
<1>4. ids \in Seq(Task)
  <2>1. ids \in [1..n -> Task]
    BY <1>1, <1>3
  <2> QED
    BY <1>2, <2>1, SeqDef
<1>5. ids \in Injection(1..n, S)
  BY <1>3 DEF Injection, IsInjective
<1>6. Cardinality(1..n) = Cardinality(S)
  BY <1>2, FS_Interval DEF n
<1>7. ids \in Surjection(1..n, S)
  BY <1>2, <1>5, <1>6, FS_Injection
<1>8. ASSUME NEW t \in S PROVE t \in Range(ids)
  BY <1>3, <1>7 DEF Surjection, Range
<1> QED
  BY <1>4, <1>8 DEF S

\* The queue of a process holds tasks.
LEMMA QueueTyped ==
  ASSUME TypeOK, RowsFinite, PlaceSound, Next
  PROVE  queue' \in [Owner -> Seq(Task)]
<1>a. queue \in [Owner -> Seq(Task)]
  BY DEF TypeOK
<1>1. CASE queue' = queue
  BY <1>a, <1>1
<1>2. ASSUME NEW o \in Owner, NEW q \in Seq(Task), queue' = [queue EXCEPT ![o] = q]
      PROVE  queue' \in [Owner -> Seq(Task)]
  BY <1>a, <1>2
<1>3. ASSUME NEW o \in Owner, RecoverPending(o)
      PROVE  queue' \in [Owner -> Seq(Task)]
  <2>1. PICK ids \in SetToSeqs({t \in Task : row[t].state = "submitted"}) :
                 queue' = [queue EXCEPT ![o] = queue[o] \o ids]
    BY <1>3 DEF RecoverPending
  <2>2. queue[o] \o ids \in Seq(Task)
    BY <1>a, PendingIds, ConcatProperties
  <2> QED
    BY <1>2, <2>1, <2>2
<1>4. ASSUME NEW o \in Owner, Dequeue(o)
      PROVE  queue' \in [Owner -> Seq(Task)]
  <2>1. Tail(queue[o]) \in Seq(Task)
    BY <1>a, <1>4, HeadTailProperties DEF Dequeue
  <2> QED
    BY <1>2, <1>4, <2>1 DEF Dequeue
<1>5. ASSUME NEW o \in Owner, NEW t \in Task, queue' = [queue EXCEPT ![o] = Append(@, t)]
      PROVE  queue' \in [Owner -> Seq(Task)]
  <2>1. Append(queue[o], t) \in Seq(Task)
    BY <1>a, AppendProperties
  <2> QED
    BY <1>2, <1>5, <2>1
<1>6. ASSUME NEW o \in Owner, Requeue(o)
      PROVE  queue' \in [Owner -> Seq(Task)]
  BY <1>5, <1>6 DEF Requeue, PlaceSound
<1>7. ASSUME NEW o \in Owner, Crash(o)
      PROVE  queue' \in [Owner -> Seq(Task)]
  BY <1>2, <1>7, EmptySeq DEF Crash
<1>8. ASSUME NEW h \in Call, SubmitSelect(h)
      PROVE  queue' \in [Owner -> Seq(Task)]
  <2>1. call[h].task \in Task /\ call[h].at \in Owner
    BY <1>8 DEF SubmitSelect, PlaceSound
  <2>2. queue' = queue \/ queue' = [queue EXCEPT ![call[h].at] = Append(@, call[h].task)]
    BY <1>8 DEF SubmitSelect
  <2> QED
    BY <1>1, <1>5, <2>1, <2>2
<1> QED
  BY <1>1, <1>3, <1>4, <1>6, <1>7, <1>8
     DEF Next, ProcessNext, CallNext, CallStep, WorkerStep, ResearchStep, Tick, Start, Sweep,
         Heartbeat, HeartbeatRaises, OperationSettles, Request, SubmitReserve, CancelTask,
         RequestRaises, ClaimTask, GetUnclaimed, LoadSubmission, Checkpoint, BeginOperation,
         EndOperation, EndResearch, CompleteTask, HandleException, FailTask,
         AcknowledgeCancellation, HandleTimeout, Settle, WorkerRaises

LEMMA CallsTyped ==
  ASSUME TypeOK, PlaceSound, ExecSound, Next
  PROVE  call' \in [Call -> CallState]
<1>1. CASE call' = call
  BY <1>1 DEF TypeOK
<1>2. ASSUME NEW h \in Call, NEW r \in CallState, call' = [call EXCEPT ![h] = r]
      PROVE  call' \in [Call -> CallState]
  BY <1>2 DEF TypeOK
<1>3. ASSUME NEW h \in Call, NEW reply \in State \cup {"conflict", "error"}, Reply(h, reply)
      PROVE  call' \in [Call -> CallState]
  <2>1. [call[h] EXCEPT !.pc = "done", !.reply = reply] \in CallState
    BY DEF TypeOK, CallState
  <2>2. call' = [call EXCEPT ![h] = [call[h] EXCEPT !.pc = "done", !.reply = reply]]
    BY <1>3 DEF Reply, TypeOK, CallState
  <2> QED
    BY <1>2, <2>1, <2>2
<1>4. ASSUME NEW h \in Call, NEW o \in Owner, NEW t \in Task, NEW c \in Commitment \cup {NULL},
             NEW op \in {"submit", "cancel"}, Request(h, o, op, t, c)
      PROVE  call' \in [Call -> CallState]
  <2> DEFINE r == [pc |-> op, op |-> op, at |-> o, task |-> t, commitment |-> c, reply |-> NULL]
  <2>1. r \in CallState
    BY DEF CallState
  <2> QED
    BY <1>2, <1>4, <2>1 DEF Request
<1>5. ASSUME NEW h \in Call, CallStep(h)
      PROVE  call' \in [Call -> CallState]
  <2>1. CASE SubmitReserve(h)
    <3>1. [call[h] EXCEPT !.pc = "select"] \in CallState
      BY DEF TypeOK, CallState
    <3>2. call' = [call EXCEPT ![h] = [call[h] EXCEPT !.pc = "select"]]
      BY <2>1 DEF SubmitReserve, TypeOK, CallState
    <3> QED
      BY <1>2, <3>1, <3>2
  <2>2. CASE SubmitSelect(h)
    <3>1. row[call[h].task].state \in State
      BY <2>2 DEF TypeOK, PlaceSound, SubmitSelect, Row
    <3> QED
      BY <1>3, <2>2, <3>1 DEF SubmitSelect
  <2>3. CASE CancelTask(h)
    <3>1. row'[call[h].task].state \in State
      BY <2>3, RowsTyped DEF PlaceSound, CancelTask, Row
    <3> QED
      BY <1>3, <2>3, <3>1 DEF CancelTask
  <2> QED
    BY <1>5, <2>1, <2>2, <2>3 DEF CallStep
<1>6. ASSUME NEW h \in Call, RequestRaises(h)
      PROVE  call' \in [Call -> CallState]
  BY <1>3, <1>6 DEF RequestRaises
<1>7. ASSUME NEW o \in Owner, Crash(o)
      PROVE  call' \in [Call -> CallState]
  <2>1. \A h \in Call : [call[h] EXCEPT !.pc = "done", !.reply = "lost"] \in CallState
    BY DEF TypeOK, CallState
  <2>2. \A h \in Call : call[h] \in CallState
    BY DEF TypeOK
  <2> QED
    BY <1>7, <2>1, <2>2 DEF Crash
<1> QED
  BY <1>1, <1>4, <1>5, <1>6, <1>7
     DEF Next, ProcessNext, CallNext, WorkerStep, ResearchStep, Tick, Start, RecoverPending, Sweep,
         Heartbeat, HeartbeatRaises, OperationSettles, ClaimTask, GetUnclaimed, LoadSubmission,
         Checkpoint, BeginOperation, EndOperation, EndResearch, CompleteTask, HandleException,
         FailTask, AcknowledgeCancellation, HandleTimeout, Settle, WorkerRaises, Dequeue, Requeue

\* The processes, and what is counted.
LEMMA ProcTyped ==
  ASSUME TypeOK, Next
  PROVE  /\ proc' \in [Owner -> {"new", "starting", "up", "dead"}]
         /\ beating' \subseteq Owner /\ healthy' \subseteq Owner
         /\ faults' \in Nat
<1>1. proc' \in [Owner -> {"new", "starting", "up", "dead"}]
  <2>1. \/ proc' = proc
        \/ \E o \in Owner, p \in {"starting", "up", "dead"} : proc' = [proc EXCEPT ![o] = p]
    BY DEF Next, ProcessNext, CallNext, CallStep, WorkerStep, ResearchStep, Tick, Start,
         RecoverPending, Crash, Sweep, Heartbeat, HeartbeatRaises, OperationSettles, Request,
         SubmitReserve, SubmitSelect, CancelTask, RequestRaises, ClaimTask, GetUnclaimed,
         LoadSubmission, Checkpoint, BeginOperation, EndOperation, EndResearch, CompleteTask,
         HandleException, FailTask, AcknowledgeCancellation, HandleTimeout, Settle, WorkerRaises,
         Dequeue, Requeue
  <2> QED
    BY <2>1 DEF TypeOK
<1>2. ASSUME NEW o \in Owner, NEW r, EndExecute(o, r) \/ Return(o)
      PROVE  beating' \subseteq Owner /\ healthy' \subseteq Owner
  BY <1>2 DEF TypeOK, EndExecute, Return, Unwound
<1>3. beating' \subseteq Owner /\ healthy' \subseteq Owner
  <2>1. ASSUME NEW o \in Owner,
               \/ CompleteTask(o) \/ FailTask(o) \/ AcknowledgeCancellation(o) \/ HandleTimeout(o)
               \/ GetUnclaimed(o) \/ Settle(o)
        PROVE  beating' \subseteq Owner /\ healthy' \subseteq Owner
    BY <1>2, <2>1 DEF TypeOK, CompleteTask, FailTask, AcknowledgeCancellation, HandleTimeout,
                      GetUnclaimed, Settle
  <2> QED
    BY <2>1 DEF TypeOK, Next, ProcessNext, CallNext, CallStep, WorkerStep, ResearchStep, Tick, Start,
         RecoverPending, Crash, Sweep, Heartbeat, HeartbeatRaises, OperationSettles, Request,
         SubmitReserve, SubmitSelect, CancelTask, RequestRaises, ClaimTask,
         LoadSubmission, Checkpoint, BeginOperation, EndOperation, EndResearch,
         HandleException, WorkerRaises, Unwound, Dequeue, Requeue
<1>4. faults' = faults \/ faults' = faults + 1
  BY DEF Next, ProcessNext, CallNext, CallStep, WorkerStep, ResearchStep, Tick, Start,
         RecoverPending, Crash, Sweep, Heartbeat, HeartbeatRaises, OperationSettles, Request,
         SubmitReserve, SubmitSelect, CancelTask, RequestRaises, ClaimTask, GetUnclaimed,
         LoadSubmission, Checkpoint, BeginOperation, EndOperation, EndResearch, CompleteTask,
         HandleException, FailTask, AcknowledgeCancellation, HandleTimeout, Settle, WorkerRaises,
         Dequeue, Requeue
<1> QED
  BY <1>1, <1>3, <1>4 DEF TypeOK

\* The steps that write the history.
LEMMA HistoryStep ==
  ASSUME Next
  PROVE  \/ UNCHANGED history
         \/ \E o \in Owner :
              \/ LoadSubmission(o) \/ BeginOperation(o) \/ EndOperation(o) \/ EndResearch(o)
              \/ \E t \in Task : OperationSettles(o, t)
  BY DEF Next, ProcessNext, CallNext, CallStep, WorkerStep, ResearchStep, Tick, Start,
         RecoverPending, Crash, Sweep, Heartbeat, HeartbeatRaises, Request,
         SubmitReserve, SubmitSelect, CancelTask, RequestRaises, ClaimTask, GetUnclaimed,
         Checkpoint, CompleteTask, HandleException, FailTask, AcknowledgeCancellation,
         HandleTimeout, Settle, WorkerRaises, Dequeue, Requeue

LEMMA HistoryTyped ==
  ASSUME TypeOK, PlaceSound, Next
  PROVE  /\ inflight' \subseteq Owner \X Task
         /\ started' \in [Task -> Nat]
         /\ late' \in [Task -> Nat]
         /\ raised' \subseteq Task
<1>1. CASE UNCHANGED history
  BY <1>1 DEF TypeOK, history
<1>2. ASSUME NEW o \in Owner, LoadSubmission(o) \/ BeginOperation(o) \/ EndOperation(o) \/ EndResearch(o)
      PROVE  work[o].task \in Task
  BY <1>2 DEF PlaceSound, LoadSubmission, BeginOperation, EndOperation, EndResearch, ResearchEnds,
              RunTimeout, InResearch
<1>3. ASSUME NEW o \in Owner, LoadSubmission(o)
      PROVE  /\ started' \in [Task -> Nat]
             /\ UNCHANGED <<inflight, late, raised>>
  <2>1. started[work[o].task] + 1 \in Nat
    BY <1>2, <1>3 DEF TypeOK
  <2> QED
    BY <1>3, <2>1 DEF TypeOK, LoadSubmission
<1>4. ASSUME NEW o \in Owner, BeginOperation(o)
      PROVE  /\ inflight' \subseteq Owner \X Task
             /\ late' \in [Task -> Nat]
             /\ UNCHANGED <<started, raised>>
  <2>1. work[o].task \in Task /\ late[work[o].task] + 1 \in Nat
    BY <1>2, <1>4 DEF TypeOK
  <2>2. late' = late \/ late' = [late EXCEPT ![work[o].task] = late[work[o].task] + 1]
    BY <1>4 DEF BeginOperation
  <2>3. late' \in [Task -> Nat]
    BY <2>1, <2>2 DEF TypeOK
  <2> QED
    BY <1>4, <2>1, <2>3 DEF TypeOK, BeginOperation
<1>5. ASSUME NEW o \in Owner, EndOperation(o) \/ EndResearch(o)
      PROVE  /\ inflight' \subseteq Owner \X Task
             /\ raised' \subseteq Task
             /\ UNCHANGED <<started, late>>
  BY <1>2, <1>5 DEF TypeOK, EndOperation, EndResearch, ResearchEnds, RunTimeout
<1>6. ASSUME NEW o \in Owner, NEW t \in Task, OperationSettles(o, t)
      PROVE  /\ inflight' \subseteq Owner \X Task
             /\ UNCHANGED <<started, late, raised>>
  BY <1>6 DEF TypeOK, OperationSettles
<1> QED
  BY <1>1, <1>3, <1>4, <1>5, <1>6, HistoryStep DEF TypeOK

LEMMA TypeStep ==
  ASSUME TypeOK, RowsFinite, PlaceSound, ExecSound, Next
  PROVE  TypeOK'
  BY RowsTyped, ProcTyped, QueueTyped, WorkTyped, CallsTyped, HistoryTyped DEF TypeOK, WorkRecord

\* A step inserts at most one row.
LEMMA FiniteStep ==
  ASSUME TypeOK, RowsFinite, PlaceSound, ExecSound, Next
  PROVE  RowsFinite'
<1> DEFINE S == {t \in Task : row[t].state # "absent"}
<1>1. row \in [Task -> Row]
  BY DEF TypeOK
<1>2. \E s : S' \subseteq S \cup {s}
  <2>1. CASE row' = row
    BY <2>1
  <2>2. CASE row' = Swept
    BY <1>1, <2>2 DEF Swept, Expired
  <2>3. CASE Tick
    BY <1>1, <2>3 DEF Tick, Renewed, Row
  <2>4. ASSUME NEW s \in Task, NEW n, row' = [row EXCEPT ![s] = n]
        PROVE  S' \subseteq S \cup {s}
    BY <1>1, <2>4
  <2> QED
    BY <2>1, <2>2, <2>3, <2>4, OneRow
<1> QED
  BY <1>2, FS_AddElement, FS_Subset DEF RowsFinite

---------------------------------------------------------------------------
(* Who holds what                                                          *)

\* A process that runs goes on running, unless it crashes.
LEMMA RunningStep ==
  ASSUME TypeOK, Next, NEW o \in Owner
  PROVE  \/ Crash(o)
         \/ /\ o \in Running => o \in Running'
            /\ proc[o] = "up" => proc'[o] = "up"
<1>1. ASSUME NEW p \in Owner, Start(p) \/ RecoverPending(p)
      PROVE  /\ o \in Running => o \in Running'
             /\ proc[o] = "up" => proc'[o] = "up"
  BY <1>1 DEF Start, RecoverPending, Running, TypeOK
<1>2. ASSUME NEW p \in Owner, Crash(p), p # o
      PROVE  /\ o \in Running => o \in Running'
             /\ proc[o] = "up" => proc'[o] = "up"
  BY <1>2 DEF Crash, Running, TypeOK
<1>3. CASE proc' = proc
  BY <1>3 DEF Running
<1> QED
  BY <1>1, <1>2, <1>3
     DEF Next, ProcessNext, CallNext, CallStep, WorkerStep, ResearchStep, Tick,
         Sweep, Heartbeat, HeartbeatRaises, OperationSettles, Request,
         SubmitReserve, SubmitSelect, CancelTask, RequestRaises, ClaimTask, GetUnclaimed,
         LoadSubmission, Checkpoint, BeginOperation, EndOperation, EndResearch, CompleteTask,
         HandleException, FailTask, AcknowledgeCancellation, HandleTimeout, Settle, WorkerRaises,
         Dequeue, Requeue

\* A worker takes its task from the queue and keeps it until it is idle.
LEMMA WorkFrame ==
  ASSUME TypeOK, Next, NEW o \in Owner
  PROVE  \/ work'[o] = work[o] \/ work'[o] = Idle
         \/ Dequeue(o) /\ work'[o].task = Head(queue[o])
         \/ work[o].pc # "idle" /\ work'[o].task = work[o].task
<1> DEFINE A(p) == \/ work'[p] = work[p] \/ work'[p] = Idle
                   \/ Dequeue(p) /\ work'[p].task = Head(queue[p])
                   \/ work[p].pc # "idle" /\ work'[p].task = work[p].task
<1>1. CASE work' = work
  BY <1>1
<1>2. ASSUME NEW p \in Owner,
             \/ GetUnclaimed(p) \/ CompleteTask(p) \/ FailTask(p) \/ AcknowledgeCancellation(p)
             \/ HandleTimeout(p) \/ Settle(p) \/ Requeue(p) \/ Crash(p) \/ WorkerRaises(p)
             \/ LoadSubmission(p) \/ HandleException(p) \/ ResearchStep(p) \/ EndResearch(p)
      PROVE  A(o)
  <2>1. work' = [work EXCEPT ![p] = Idle] \/ (work[p].pc # "idle" /\ \E pc : Goto(p, pc))
    BY <1>2 DEF GetUnclaimed, CompleteTask, FailTask, AcknowledgeCancellation, EndExecute, Unwound,
                Return, HandleTimeout, Settle, Requeue, Crash, WorkerRaises, LoadSubmission,
                HandleException, ResearchStep, Checkpoint, BeginOperation, EndOperation,
                EndResearch, ResearchEnds, RunTimeout, InResearch
  <2>2. CASE work' = [work EXCEPT ![p] = Idle]
    BY <2>2, OtherWorkers
  <2>3. ASSUME work[p].pc # "idle", NEW pc, Goto(p, pc) PROVE A(o)
    <3>1. work'[p].task = work[p].task /\ \A q \in Owner \ {p} : work'[q] = work[q]
      BY <2>3, GotoWork, Zenon
    <3> QED
      BY <2>3, <3>1
  <2> QED
    BY <2>1, <2>2, <2>3
<1>3. ASSUME NEW p \in Owner, Dequeue(p)
      PROVE  A(o)
  BY <1>3 DEF TypeOK, Dequeue
<1>4. ASSUME NEW p \in Owner, ClaimTask(p)
      PROVE  A(o)
  <2>1. ASSUME NEW run \in Run, work' = [work EXCEPT ![p].pc = "load", ![p].run = run]
        PROVE  work'[p].task = work[p].task /\ \A q \in Owner \ {p} : work'[q] = work[q]
    BY <2>1 DEF TypeOK
  <2>2. work'[p].task = work[p].task /\ \A q \in Owner \ {p} : work'[q] = work[q]
    BY <1>4, <2>1, GotoWork, Zenon DEF ClaimTask
  <2> QED
    BY <1>4, <2>2 DEF ClaimTask
<1> QED
  BY <1>1, <1>2, <1>3, <1>4
     DEF Next, ProcessNext, CallNext, CallStep, WorkerStep, Tick, Start, RecoverPending, Sweep,
         Heartbeat, HeartbeatRaises, OperationSettles, Request, SubmitReserve, SubmitSelect,
         CancelTask, RequestRaises

\* A queue is filled only while its process runs.
LEMMA QueueFrame ==
  ASSUME TypeOK, PlaceSound, Next, NEW o \in Owner
  PROVE  queue'[o] = queue[o] \/ (Crash(o) /\ queue'[o] = <<>>) \/ (o \in Running /\ o \in Running')
<1>1. CASE queue' = queue
  BY <1>1
<1>2. ASSUME NEW p \in Owner, p \in Running, proc' = proc \/ RecoverPending(p),
             NEW q, queue' = [queue EXCEPT ![p] = q]
      PROVE  queue'[o] = queue[o] \/ (o \in Running /\ o \in Running')
  BY <1>2 DEF TypeOK, Running, RecoverPending
<1>3. ASSUME NEW p \in Owner, Crash(p)
      PROVE  queue'[o] = queue[o] \/ (Crash(o) /\ queue'[o] = <<>>)
  BY <1>3 DEF Crash, TypeOK
<1>4. ASSUME NEW p \in Owner, RecoverPending(p) \/ Dequeue(p) \/ Requeue(p)
      PROVE  queue'[o] = queue[o] \/ (o \in Running /\ o \in Running')
  <2>1. p \in Running
    BY <1>4 DEF RecoverPending, Running, Dequeue, Requeue, PlaceSound
  <2>2. \E q : queue' = [queue EXCEPT ![p] = q]
    BY <1>4 DEF RecoverPending, Dequeue, Requeue
  <2>3. proc' = proc \/ RecoverPending(p)
    BY <1>4 DEF Dequeue, Requeue
  <2> QED
    BY <1>2, <2>1, <2>2, <2>3
<1>5. ASSUME NEW h \in Call, SubmitSelect(h)
      PROVE  queue'[o] = queue[o] \/ (o \in Running /\ o \in Running')
  <2>1. call[h].at \in Owner /\ call[h].at \in Running
    BY <1>5 DEF SubmitSelect, PlaceSound, Running
  <2>2. queue' = queue \/ \E q : queue' = [queue EXCEPT ![call[h].at] = q]
    BY <1>5 DEF SubmitSelect
  <2> QED
    BY <1>2, <1>5, <2>1, <2>2 DEF SubmitSelect
<1> QED
  BY <1>1, <1>3, <1>4, <1>5
     DEF Next, ProcessNext, CallNext, CallStep, WorkerStep, ResearchStep, Tick, Start, Sweep,
         Heartbeat, HeartbeatRaises, OperationSettles, Request, SubmitReserve, CancelTask,
         RequestRaises, ClaimTask, GetUnclaimed, LoadSubmission, Checkpoint, BeginOperation,
         EndOperation, EndResearch, CompleteTask, HandleException, FailTask,
         AcknowledgeCancellation, HandleTimeout, Settle, WorkerRaises

\* What a step makes of a call.
CallMoves(h) ==
  \/ call'[h] = call[h]
  \/ Crash(call[h].at) /\ call[h].at \in Owner /\ call'[h] = [call[h] EXCEPT !.pc = "done", !.reply = "lost"]
  \/ \E o \in Owner, t \in Task, c \in Commitment \cup {NULL}, op \in {"submit", "cancel"} :
       Request(h, o, op, t, c)
  \/ CallStep(h)
  \/ RequestRaises(h)

LEMMA CallFrame ==
  ASSUME TypeOK, Next, NEW h \in Call
  PROVE  CallMoves(h)
<1>1. CASE call' = call
  BY <1>1 DEF CallMoves
<1>2. ASSUME NEW g \in Call, CallNext(g)
      PROVE  CallMoves(h)
  <2>1. CASE g = h
    BY <1>2, <2>1, Zenon DEF CallMoves, CallNext
  <2>2. CASE g # h
    <3>1. call' = [call EXCEPT ![g].pc = "select"] \/ \E r : call' = [call EXCEPT ![g] = r] \/ Reply(g, r)
      BY <1>2 DEF CallNext, CallStep, Request, SubmitReserve, SubmitSelect, CancelTask, RequestRaises
    <3>2. call'[h] = call[h]
      BY <2>2, <3>1 DEF TypeOK, Reply
    <3> QED
      BY <3>2 DEF CallMoves
  <2> QED
    BY <2>1, <2>2
<1>3. ASSUME NEW o \in Owner, Crash(o)
      PROVE  CallMoves(h)
  BY <1>3 DEF CallMoves, Crash
<1> QED
  BY <1>1, <1>2, <1>3
     DEF Next, ProcessNext, WorkerStep, ResearchStep, Tick, Start, RecoverPending, Sweep,
         Heartbeat, HeartbeatRaises, OperationSettles, ClaimTask, GetUnclaimed, LoadSubmission,
         Checkpoint, BeginOperation, EndOperation, EndResearch, CompleteTask, HandleException,
         FailTask, AcknowledgeCancellation, HandleTimeout, Settle, WorkerRaises, Dequeue, Requeue

\* Idle workers, waiting queues and finished calls aside, everything at work is
\* of a process that runs.
LEMMA PlaceStep ==
  ASSUME TypeOK, PlaceSound, Next
  PROVE  PlaceSound'
<1>1. ASSUME NEW o \in Owner, work'[o].pc # "idle"
      PROVE  work'[o].task \in Task /\ o \in Running'
  <2>1. CASE work'[o] = Idle
    BY <1>1, <2>1 DEF Idle
  <2>2. CASE Crash(o)
    <3>1. work'[o] = Idle
      BY <2>2 DEF Crash, TypeOK
    <3> QED
      BY <2>1, <3>1
  <2>3. CASE Dequeue(o) /\ work'[o].task = Head(queue[o])
    <3>1. queue[o] \in Seq(Task) /\ queue[o] # <<>> /\ o \in Running
      BY <2>3 DEF Dequeue, TypeOK
    <3>2. o \in Running'
      BY <2>3, <3>1 DEF Dequeue, Running
    <3> QED
      BY <2>3, <3>1, <3>2, HeadTailProperties
  <2>4. CASE work[o].pc # "idle" /\ work'[o].task = work[o].task /\ ~Crash(o)
    BY <2>4, RunningStep DEF PlaceSound
  <2> QED
    BY <1>1, <2>1, <2>2, <2>3, <2>4, WorkFrame
<1>2. ASSUME NEW o \in Owner, queue'[o] # <<>>
      PROVE  o \in Running'
  <2>1. CASE Crash(o)
    BY <1>2, <2>1 DEF Crash, TypeOK
  <2> QED
    BY <1>2, <2>1, QueueFrame, RunningStep DEF PlaceSound
<1>3. ASSUME NEW h \in Call
      PROVE  /\ IF call'[h].pc = "unused" THEN call'[h].at \notin Owner ELSE call'[h].task \in Task
             /\ call'[h].pc \in {"submit", "select", "cancel"} =>
                  proc'[call'[h].at] = "up" /\ call'[h].at \in Owner
             /\ call'[h].pc \in {"submit", "select"} => call'[h].commitment \in Commitment
             /\ call'[h].pc \in {"submit", "select", "cancel"} => call'[h].reply = NULL
             /\ call'[h].pc = "cancel" => call'[h].op = "cancel"
  <2>a. call[h] \in CallState
    BY DEF TypeOK
  <2>1. CASE call'[h] = call[h]
    <3>1. CASE Crash(call[h].at) /\ call[h].at \in Owner
      <4>1. call[h].pc = "done" \/ call'[h].pc = "done"
        BY <2>a, <3>1 DEF Crash, TypeOK, CallState
      <4> QED
        BY <2>1, <4>1 DEF PlaceSound
    <3>2. CASE ~(Crash(call[h].at) /\ call[h].at \in Owner)
      BY <2>1, <3>2, RunningStep DEF PlaceSound
    <3> QED
      BY <3>1, <3>2
  <2>2. CASE /\ call'[h] = [call[h] EXCEPT !.pc = "done", !.reply = "lost"]
             /\ Crash(call[h].at) /\ call[h].at \in Owner
    <3>1. call'[h].pc = "done" /\ call'[h].task = call[h].task /\ call[h].pc # "unused"
      BY <2>a, <2>2 DEF CallState, PlaceSound
    <3> QED
      BY <3>1 DEF PlaceSound
  <2>3. ASSUME NEW o \in Owner, NEW t \in Task, NEW c \in Commitment \cup {NULL}, NEW op \in {"submit", "cancel"},
               Request(h, o, op, t, c)
        PROVE  /\ call'[h].pc = op /\ call'[h].op = op /\ call'[h].at = o /\ call'[h].task = t
               /\ call'[h].commitment = c /\ call'[h].reply = NULL
               /\ proc'[o] = "up" /\ (op = "submit" => c \in Commitment)
    BY <2>3 DEF Request, TypeOK
  <2>4. CASE SubmitReserve(h)
    <3>1. call'[h] = [call[h] EXCEPT !.pc = "select"] /\ proc' = proc /\ call[h].pc = "submit"
      BY <2>4 DEF SubmitReserve, TypeOK, CallState
    <3> QED
      BY <2>a, <3>1 DEF PlaceSound, CallState
  <2>5. CASE SubmitSelect(h) \/ CancelTask(h) \/ RequestRaises(h)
    <3>1. call'[h].pc = "done" /\ call'[h].task = call[h].task /\ call[h].pc # "unused"
      BY <2>5 DEF SubmitSelect, CancelTask, RequestRaises, Reply, TypeOK, CallState
    <3> QED
      BY <3>1 DEF PlaceSound
  <2>6. CASE \E o \in Owner, t \in Task, c \in Commitment \cup {NULL}, op \in {"submit", "cancel"} :
               Request(h, o, op, t, c)
    BY <2>3, <2>6
  <2> QED
    BY <2>1, <2>2, <2>4, <2>5, <2>6, CallFrame DEF CallMoves, CallStep
<1> QED
  BY <1>1, <1>2, <1>3 DEF PlaceSound

\* One worker moves at a time.
LEMMA OneWorker ==
  ASSUME TypeOK, Next
  PROVE  work' = work \/ \E o \in Owner : \A p \in Owner \ {o} : work'[p] = work[p]
<1>1. ASSUME NEW o \in Owner,
             \/ GetUnclaimed(o) \/ CompleteTask(o) \/ FailTask(o) \/ AcknowledgeCancellation(o)
             \/ HandleTimeout(o) \/ Settle(o) \/ Requeue(o) \/ Crash(o) \/ WorkerRaises(o)
             \/ LoadSubmission(o) \/ HandleException(o) \/ ResearchStep(o) \/ EndResearch(o)
             \/ Dequeue(o) \/ ClaimTask(o)
      PROVE  \A p \in Owner \ {o} : work'[p] = work[p]
  <2>1. \/ \E w : work' = [work EXCEPT ![o] = w]
        \/ \E pc : Goto(o, pc)
        \/ \E run : work' = [work EXCEPT ![o].pc = "load", ![o].run = run]
    BY <1>1 DEF GetUnclaimed, CompleteTask, FailTask, AcknowledgeCancellation, EndExecute, Unwound,
                Return, HandleTimeout, Settle, Requeue, Crash, WorkerRaises, LoadSubmission,
                HandleException, ResearchStep, Checkpoint, BeginOperation, EndOperation,
                EndResearch, ResearchEnds, RunTimeout, InResearch, Dequeue, ClaimTask
  <2>2. ASSUME NEW run, work' = [work EXCEPT ![o].pc = "load", ![o].run = run]
        PROVE  \A p \in Owner \ {o} : work'[p] = work[p]
    BY <2>2 DEF TypeOK
  <2> QED
    BY <2>1, <2>2, OtherWorkers, GotoWork, Zenon
<1> QED
  BY <1>1
     DEF Next, ProcessNext, CallNext, CallStep, WorkerStep, Tick, Start, RecoverPending, Sweep,
         Heartbeat, HeartbeatRaises, OperationSettles, Request, SubmitReserve, SubmitSelect,
         CancelTask, RequestRaises

---------------------------------------------------------------------------
(* Who executes a task                                                     *)

\* Two that execute the same task are one.
LEMMA SameTask ==
  ASSUME ExecSound, RunUnique, NEW o \in Owner, NEW p \in Owner,
         work[o].pc \in Executing, work[p].pc \in Executing, work[o].task = work[p].task
  PROVE  o = p
  BY DEF ExecSound, RunUnique

\* A step leaves a claimed row claimed, by the same run, unless the worker that
\* has the lease acknowledges its cancellation.
LEMMA ClaimedRow ==
  ASSUME TypeOK, PlaceSound, ExecSound, Next, NEW t \in Task, ~Unclaimed(t)
  PROVE  /\ ~Unclaimed(t)'
         /\ row'[t].run_id = row[t].run_id
         /\ \A o, run : Active(row'[t], o, run, 0) => Active(row[t], o, run, 0)
         /\ \/ /\ row'[t].state = "canceled" => row[t].state = "canceled"
               /\ row'[t].state = "working" => row[t].state = "working" /\ row'[t].lease_owner = row[t].lease_owner
            \/ \E o \in Owner : Acknowledges(o, t) /\ row[t].state = "working" /\ row[t].lease_owner = o
<1>1. row[t] \in Row
  BY DEF TypeOK
<1>2. CASE RowChange(row[t], row'[t])
  BY <1>1, <1>2, ChangeKeeps DEF Unclaimed
<1>3. ASSUME NEW o \in Owner, Claims(o, t) PROVE FALSE
  BY <1>3 DEF Claims, Claimable, Unclaimed
<1>4. ASSUME NEW o \in Owner, Acknowledges(o, t)
      PROVE  /\ row'[t].state = "canceled" /\ row'[t].run_id = row[t].run_id
             /\ row[t].state = "working" /\ row[t].lease_owner = o
  BY <1>1, <1>4 DEF Acknowledges, Acknowledgeable, Fenced, Canceled, Unleased, Row
<1>5. CASE \E o \in Owner : Acknowledges(o, t)
  BY <1>4, <1>5 DEF Unclaimed, Active, Fenced
<1> QED
  BY <1>2, <1>3, <1>5, StepRows

\* A row that is not claimed was not claimed before.
LEMMA UnclaimedRow ==
  ASSUME TypeOK, PlaceSound, ExecSound, Next, NEW t \in Task, Unclaimed(t)'
  PROVE  /\ Unclaimed(t)
         /\ row'[t].state = "absent" => row[t].state = "absent"
<1>1. row[t] \in Row
  BY DEF TypeOK
<1>2. CASE RowChange(row[t], row'[t])
  BY <1>1, <1>2, ChangeUnclaimed DEF Unclaimed
<1>3. ASSUME NEW o \in Owner, Claims(o, t) \/ Acknowledges(o, t) PROVE FALSE
  <2>1. row'[t].state \in {"working", "canceled"}
    BY <1>1, <1>3, CanceledTyped DEF Claims, Claimed, Row, Acknowledges
  <2> QED
    BY <2>1 DEF Unclaimed
<1> QED
  BY <1>2, <1>3, StepRows

LEMMA ExecStep ==
  ASSUME TypeOK, PlaceSound, ExecSound, Next
  PROVE  ExecSound'
<1> SUFFICES ASSUME NEW o \in Owner, work'[o].pc \in Executing
             PROVE  /\ work'[o].task \in Task /\ work'[o].run \in Run
                    /\ row'[work'[o].task].run_id = work'[o].run
                    /\ row'[work'[o].task].state \in {"working", "completed", "failed"}
                    /\ row'[work'[o].task].state = "working" => row'[work'[o].task].lease_owner = o
  BY DEF ExecSound
<1> DEFINE t == work[o].task
<1>1. CASE work[o].pc \in Executing /\ work'[o].task = t /\ work'[o].run = work[o].run
  <2>1. /\ t \in Task /\ work[o].run \in Run /\ row[t].run_id = work[o].run
        /\ row[t].state \in {"working", "completed", "failed"}
        /\ row[t].state = "working" => row[t].lease_owner = o
    BY <1>1 DEF ExecSound
  <2>2. ~Unclaimed(t)
    BY <2>1 DEF Unclaimed
  <2>3. row'[t].state \in State
    BY <2>1, RowsTyped DEF Row
  <2>4. ~\E p \in Owner : Acknowledges(p, t) /\ row[t].state = "working" /\ row[t].lease_owner = p
    BY <2>1 DEF Acknowledges
  <2> QED
    BY <1>1, <2>1, <2>2, <2>3, <2>4, ClaimedRow DEF Unclaimed, State
<1>2. CASE /\ work'[o].pc = "load" /\ Claims(o, t)
           /\ work'[o].task = t /\ work'[o].run \in Run
           /\ row'[t] = Claimed(row[t], o, work'[o].run, LeaseTicks)
  <2>1. t \in Task /\ row[t] \in Row
    BY <1>2 DEF Claims, PlaceSound, TypeOK
  <2> QED
    BY <1>2, <2>1 DEF Claimed, Row
<1> QED
  BY <1>1, <1>2, StepWork DEF Moves

LEMMA UniqueStep ==
  ASSUME TypeOK, PlaceSound, ExecSound, RunUnique, Next
  PROVE  RunUnique'
<1> SUFFICES ASSUME NEW o \in Owner, NEW p \in Owner, o # p,
                    work'[o].pc \in Executing, work'[p].pc \in Executing, work'[o].run = work'[p].run
             PROVE  FALSE
  BY DEF RunUnique
<1> DEFINE Stays(q) == work[q].pc \in Executing /\ work'[q].run = work[q].run
           Enters(q) == work[q].pc = "claim" /\ work'[q].pc = "load" /\ FreshRun(work'[q].run)
<1>1. \A q \in {o, p} : Stays(q) \/ Enters(q)
  BY StepWork DEF Moves, Claims
<1>2. ~(Stays(o) /\ Stays(p))
  BY DEF RunUnique
<1>3. ~(Stays(o) /\ Enters(p)) /\ ~(Enters(o) /\ Stays(p))
  BY DEF FreshRun
<1>4. ~(Enters(o) /\ Enters(p))
  BY OneWorker
<1> QED
  BY <1>1, <1>2, <1>3, <1>4

---------------------------------------------------------------------------
(* What is done for a task                                                 *)

\* What else changes when an operation begins, or research is started.
LEMMA StartedStep ==
  ASSUME TypeOK, Next
  PROVE  \/ started' = started
         \/ \E o \in Owner : LoadSubmission(o)
  BY HistoryStep DEF history, BeginOperation, EndOperation, EndResearch, OperationSettles

LEMMA LateStep ==
  ASSUME TypeOK, Next
  PROVE  \/ late' = late
         \/ \E o \in Owner : BeginOperation(o)
  BY HistoryStep DEF history, LoadSubmission, EndOperation, EndResearch, OperationSettles

LEMMA InflightStep ==
  ASSUME TypeOK, Next
  PROVE  \/ inflight' \subseteq inflight
         \/ \E o \in Owner : BeginOperation(o)
  BY HistoryStep DEF history, LoadSubmission, EndOperation, EndResearch, ResearchEnds, RunTimeout,
                     OperationSettles

\* Before its claim research was not started for a task.
LEMMA StartStep ==
  ASSUME TypeOK, PlaceSound, ExecSound, RunUnique, StartSound, Next
  PROVE  StartSound'
<1>1. CASE started' = started
  <2>1. ASSUME NEW t \in Task
        PROVE  started'[t] <= 1 /\ (Unclaimed(t)' => started'[t] = 0)
    BY <1>1, UnclaimedRow DEF StartSound
  <2>2. ASSUME NEW o \in Owner, work'[o].pc = "load"
        PROVE  started'[work'[o].task] = 0
    <3>1. CASE work'[o] = work[o]
      BY <1>1, <2>2, <3>1 DEF StartSound
    <3>2. CASE Claims(o, work[o].task) /\ work'[o].task = work[o].task
      BY <1>1, <3>2 DEF StartSound, Claims, Claimable, Unclaimed, PlaceSound
    <3> QED
      BY <2>2, <3>1, <3>2, StepWork DEF Moves, Executing
  <2> QED
    BY <2>1, <2>2 DEF StartSound
<1>2. ASSUME NEW o \in Owner, LoadSubmission(o)
      PROVE  StartSound'
  <2> DEFINE s == work[o].task
  <2>1. s \in Task /\ work[o].pc = "load" /\ started[s] = 0 /\ ~Unclaimed(s)
    BY <1>2 DEF LoadSubmission, ExecSound, Executing, StartSound, Unclaimed
  <2>2. started' = [started EXCEPT ![s] = started[s] + 1] /\ row' = row
    BY <1>2 DEF LoadSubmission
  <2>3. work'[o].pc = "checkpoint" /\ \A p \in Owner \ {o} : work'[p] = work[p]
    BY <1>2, GotoWork, Zenon DEF LoadSubmission
  <2>4. ASSUME NEW t \in Task
        PROVE  started'[t] <= 1 /\ (Unclaimed(t)' => started'[t] = 0)
    BY <2>1, <2>2 DEF StartSound, Unclaimed, TypeOK
  <2>5. ASSUME NEW p \in Owner, work'[p].pc = "load"
        PROVE  started'[work'[p].task] = 0
    <3>1. p # o /\ work'[p] = work[p]
      BY <2>3, <2>5
    <3>2. work[p].task \in Task /\ work[p].task # s
      BY <2>1, <2>5, <3>1, SameTask DEF Executing, ExecSound
    <3> QED
      BY <2>2, <2>5, <3>1, <3>2 DEF StartSound, TypeOK
  <2> QED
    BY <2>4, <2>5 DEF StartSound
<1> QED
  BY <1>1, <1>2, StartedStep

\* Once an operation has begun too late, no other begins.
LEMMA TooLateStep ==
  ASSUME TypeOK, PlaceSound, ExecSound, RunUnique, LateSound, Next
  PROVE  LateSound'
<1>1. ASSUME late' = late, NEW t \in Task
      PROVE  late'[t] <= 1 /\ (late'[t] # 0 =>
               /\ ~Unclaimed(t)'
               /\ \A o \in Owner : work'[o].pc \in Executing /\ work'[o].task = t =>
                    work'[o].pc # "op" /\ ~Active(row'[t], o, work'[o].run, 0))
  <2>1. late'[t] <= 1
    BY <1>1 DEF LateSound
  <2> SUFFICES ASSUME late[t] # 0
               PROVE  /\ ~Unclaimed(t)'
                      /\ \A o \in Owner : work'[o].pc \in Executing /\ work'[o].task = t =>
                           work'[o].pc # "op" /\ ~Active(row'[t], o, work'[o].run, 0)
    BY <1>1, <2>1
  <2>2. ~Unclaimed(t)
    BY DEF LateSound
  <2>3. ASSUME NEW o \in Owner, work'[o].pc \in Executing, work'[o].task = t
        PROVE  work'[o].pc # "op" /\ ~Active(row'[t], o, work'[o].run, 0)
    <3>1. ~Claims(o, t)
      BY <2>2 DEF Claims, Claimable, Unclaimed
    <3>2. work[o].pc \in Executing /\ work[o].task = t /\ work'[o].run = work[o].run
      BY <2>3, <3>1, StepWork DEF Moves
    <3>3. work[o].pc # "op" /\ ~Active(row[t], o, work[o].run, 0)
      BY <3>2 DEF LateSound
    <3>4. work'[o].pc # "op"
      BY <2>3, <3>1, <3>2, <3>3, StepWork DEF Moves
    <3> QED
      BY <2>2, <3>2, <3>3, <3>4, ClaimedRow
  <2> QED
    BY <2>2, <2>3, ClaimedRow
<1>2. ASSUME NEW o \in Owner, BeginOperation(o)
      PROVE  LateSound'
  <2> DEFINE s == work[o].task
  <2>1. s \in Task /\ work[o].pc = "op" /\ ~Unclaimed(s)
    BY <1>2 DEF BeginOperation, ExecSound, Executing, Unclaimed
  <2>2. late[s] = 0
    BY <2>1 DEF LateSound, Executing, TypeOK
  <2>3. row' = row
    BY <1>2 DEF BeginOperation
  <2>4. /\ work'[o].pc = "in_op" /\ work'[o].task = s /\ work'[o].run = work[o].run
        /\ \A p \in Owner \ {o} : work'[p] = work[p]
    BY <1>2, GotoWork, Zenon DEF BeginOperation
  <2>5. CASE late' = late
    BY <2>5, <1>1 DEF LateSound
  <2>6. CASE late' = [late EXCEPT ![s] = late[s] + 1] /\ ~Active(row[s], o, work[o].run, 0)
    <3>1. ASSUME NEW t \in Task \ {s}
          PROVE  late'[t] <= 1 /\ (late'[t] # 0 =>
                   /\ ~Unclaimed(t)'
                   /\ \A p \in Owner : work'[p].pc \in Executing /\ work'[p].task = t =>
                        work'[p].pc # "op" /\ ~Active(row'[t], p, work'[p].run, 0))
      <4>1. late'[t] = late[t]
        BY <2>6 DEF TypeOK
      <4> QED
        BY <2>3, <2>4, <4>1 DEF LateSound, Unclaimed
    <3>2. late'[s] = 1 /\ row'[s].state \notin {"absent", "submitted"}
      <4>1. late'[s] = late[s] + 1
        BY <2>1, <2>6 DEF TypeOK
      <4>2. row'[s].state \notin {"absent", "submitted"}
        BY <2>1, <2>3 DEF Unclaimed
      <4> QED
        BY <2>2, <4>1, <4>2
    <3>3. ASSUME NEW p \in Owner, work'[p].pc \in Executing, work'[p].task = s
          PROVE  p = o
      BY <2>1, <2>4, <3>3, SameTask DEF Executing
    <3> QED
      BY <2>3, <2>4, <2>6, <3>1, <3>2, <3>3 DEF LateSound, Unclaimed
  <2> QED
    BY <1>2, <2>5, <2>6 DEF BeginOperation
<1> QED
  BY <1>1, <1>2, LateStep DEF LateSound

\* No operation is in flight when a cancellation is acknowledged.
LEMMA FlightStep ==
  ASSUME TypeOK, PlaceSound, ExecSound, RunUnique, FlightSound, Next
  PROVE  FlightSound'
<1> SUFFICES ASSUME NEW o \in Owner, NEW t \in Task, <<o, t>> \in inflight'
             PROVE  /\ row'[t].state \in {"working", "completed", "failed"}
                    /\ row'[t].state = "working" => row'[t].lease_owner = o
                    /\ ~(work'[o].task = t /\ work'[o].pc \in Clean)
  BY DEF FlightSound
<1>1. CASE <<o, t>> \in inflight
  <2>1. /\ row[t].state \in {"working", "completed", "failed"}
        /\ row[t].state = "working" => row[t].lease_owner = o
        /\ ~(work[o].task = t /\ work[o].pc \in Clean)
    BY <1>1 DEF FlightSound
  <2>2. ~Unclaimed(t)
    BY <2>1 DEF Unclaimed
  <2>3. ~\E p \in Owner : Acknowledges(p, t) /\ row[t].state = "working" /\ row[t].lease_owner = p
    BY <2>1 DEF Acknowledges, Clean, Executing
  <2>4. row'[t].state \in State
    BY RowsTyped DEF Row
  <2>5. ~Claims(o, t)
    BY <2>2 DEF Claims, Claimable, Unclaimed
  <2>6. ~(work'[o].task = t /\ work'[o].pc \in Clean)
    BY <2>1, <2>5, StepWork DEF Moves, Clean
  <2> QED
    BY <2>1, <2>2, <2>3, <2>4, <2>6, ClaimedRow DEF Unclaimed, State
<1>2. CASE <<o, t>> \notin inflight
  <2>1. PICK p \in Owner : BeginOperation(p)
    BY <1>2, InflightStep
  <2>2. p = o /\ t = work[o].task /\ work[o].pc = "op" /\ row' = row
    BY <1>2, <2>1 DEF BeginOperation
  <2>3. work'[o].pc = "in_op"
    BY <2>1, <2>2, GotoWork, Zenon DEF BeginOperation
  <2> QED
    BY <2>2, <2>3 DEF ExecSound, Executing, Clean
<1> QED
  BY <1>1, <1>2

---------------------------------------------------------------------------
(* The table and the replies                                               *)

LEMMA RowSoundStep ==
  ASSUME TypeOK, PlaceSound, ExecSound, RowSound, Next
  PROVE  RowSound'
<1> SUFFICES ASSUME NEW t \in Task
             PROVE  /\ row'[t].state = "absent" => row'[t] = NoRow
                    /\ row'[t].state \in {"submitted", "working"} => row'[t].artifact = NULL
  BY DEF RowSound
<1> DEFINE r == row[t]
           n == row'[t]
           Goal == /\ n.state = "absent" => n = NoRow
                   /\ n.state \in {"submitted", "working"} => n.artifact = NULL
<1>1. /\ r \in Row
      /\ r.state = "absent" => r = NoRow
      /\ r.state \in {"submitted", "working"} => r.artifact = NULL
  BY DEF TypeOK, RowSound
<1>2. ASSUME NEW o \in Owner, Claims(o, t) PROVE Goal
  BY <1>1, <1>2 DEF Claims, Claimable, Claimed, Row
<1>3. ASSUME NEW o \in Owner, Acknowledges(o, t) PROVE Goal
  BY <1>1, <1>3, CanceledTyped DEF Acknowledges
<1>4. CASE RowChange(r, n)
  <2>1. ASSUME NEW c \in Commitment, n = Inserted(c) PROVE Goal
    BY <2>1 DEF Inserted, NoRow
  <2>2. ASSUME r.lease_expires_at \in Nat, NEW d \in Nat, n = Renewed(r, d) PROVE Goal
    BY <1>1, <2>2, NullAssumption DEF Renewed, NoRow, Row
  <2>3. ASSUME NEW run \in Run, n \in {Completed(r, run), Failed(r), Canceled(r), Expire(r)} PROVE Goal
    BY <1>1, <2>3 DEF Completed, Failed, Canceled, Expire, Finished, Unleased, Row
  <2>4. CASE n \in {Canceled(r), Expire(r)}
    BY <1>1, <2>4 DEF Canceled, Expire, Unleased, Row
  <2>5. CASE CancelFlaggable(r) /\ n = CancelFlagged(r)
    BY <1>1, <2>5 DEF CancelFlagged, CancelFlaggable, Row
  <2> QED
    BY <1>1, <1>4, <2>1, <2>2, <2>3, <2>4, <2>5 DEF RowChange
<1> QED
  BY <1>2, <1>3, <1>4, StepRows

\* What a step makes of the set of running processes.
LEMMA RunningSet ==
  ASSUME TypeOK, Next
  PROVE  \/ Running' = Running
         \/ \E o \in Owner : Start(o) /\ Cardinality(Running) < Replicas /\ Running' = Running \cup {o} /\ o \notin Running
         \/ \E o \in Owner : Crash(o) /\ o \in Running /\ Running' = Running \ {o}
<1>1. ASSUME NEW o \in Owner, Start(o)
      PROVE  Cardinality(Running) < Replicas /\ Running' = Running \cup {o} /\ o \notin Running
  BY <1>1 DEF Start, Running, TypeOK
<1>2. ASSUME NEW o \in Owner, Crash(o)
      PROVE  o \in Running /\ Running' = Running \ {o}
  BY <1>2 DEF Crash, Running, TypeOK
<1>3. ASSUME NEW o \in Owner, RecoverPending(o)
      PROVE  Running' = Running
  BY <1>3 DEF RecoverPending, Running, TypeOK
<1>4. CASE proc' = proc
  BY <1>4 DEF Running
<1> QED
  BY <1>1, <1>2, <1>3, <1>4
     DEF Next, ProcessNext, CallNext, CallStep, WorkerStep, ResearchStep, Tick,
         Sweep, Heartbeat, HeartbeatRaises, OperationSettles, Request,
         SubmitReserve, SubmitSelect, CancelTask, RequestRaises, ClaimTask, GetUnclaimed,
         LoadSubmission, Checkpoint, BeginOperation, EndOperation, EndResearch, CompleteTask,
         HandleException, FailTask, AcknowledgeCancellation, HandleTimeout, Settle, WorkerRaises,
         Dequeue, Requeue

LEMMA BoundStep ==
  ASSUME TypeOK, RunningBound, Next
  PROVE  /\ RunningBound'
         /\ \A o \in Owner : Crash(o) => Cardinality(Running') < Replicas
<1>1. IsFiniteSet(Running) /\ Cardinality(Running) \in Nat /\ Cardinality(Running) <= Replicas
  BY FS_CardinalityType DEF RunningBound
<1>2. ASSUME NEW o \in Owner, Cardinality(Running) < Replicas, Running' = Running \cup {o}, o \notin Running
      PROVE  RunningBound'
  <2>1. IsFiniteSet(Running') /\ Cardinality(Running') = Cardinality(Running) + 1
    BY <1>1, <1>2, FS_AddElement
  <2> QED
    BY <1>1, <1>2, <2>1, ServiceAssumption DEF RunningBound
<1>3. ASSUME NEW o \in Owner, o \in Running, Running' = Running \ {o}
      PROVE  RunningBound' /\ Cardinality(Running') < Replicas
  <2>1. IsFiniteSet(Running') /\ Cardinality(Running') = Cardinality(Running) - 1
    BY <1>1, <1>3, FS_RemoveElement
  <2> QED
    BY <1>1, <2>1, ServiceAssumption DEF RunningBound
<1>4. ASSUME NEW o \in Owner, Crash(o)
      PROVE  o \in Running /\ Running' = Running \ {o}
  BY <1>4 DEF Crash, Running, TypeOK
<1>5. ASSUME Running' = Running PROVE RunningBound'
  BY <1>5 DEF RunningBound
<1>6. RunningBound'
  BY <1>2, <1>3, <1>5, RunningSet
<1>7. \A o \in Owner : Crash(o) => Cardinality(Running') < Replicas
  BY <1>3, <1>4
<1> QED
  BY <1>6, <1>7

\* A call is told "submitted" by its own process, which then queues the task.
LEMMA ToldStep ==
  ASSUME TypeOK, PlaceSound, ExecSound, ReplySound, Next, NEW h \in Call,
         call'[h].op = "submit", call'[h].reply = "submitted"
  PROVE  \/ call'[h] = call[h]
         \/ /\ SubmitSelect(h) /\ row[call[h].task].state = "submitted"
            /\ queue' = [queue EXCEPT ![call[h].at] = Append(@, call[h].task)]
            /\ call'[h].pc = "done" /\ call'[h].task = call[h].task
<1>1. call[h] \in CallState /\ NULL # "submitted"
  BY ServiceAssumption DEF TypeOK, State
<1>2. ASSUME call'[h] = [call[h] EXCEPT !.pc = "done", !.reply = "lost"] PROVE FALSE
  BY <1>1, <1>2 DEF CallState
<1>3. ASSUME NEW o \in Owner, NEW t \in Task, NEW c, NEW op, Request(h, o, op, t, c) PROVE FALSE
  BY <1>1, <1>3 DEF Request, TypeOK
<1>4. ASSUME SubmitReserve(h) PROVE FALSE
  <2>1. call[h].pc = "submit" /\ call'[h].reply = call[h].reply
    BY <1>1, <1>4 DEF SubmitReserve, TypeOK, CallState
  <2> QED
    BY <1>1, <2>1 DEF PlaceSound
<1>5. ASSUME NEW reply, Reply(h, reply)
      PROVE  reply = "submitted" /\ call'[h].pc = "done" /\ call'[h].task = call[h].task /\ call'[h].op = call[h].op
  BY <1>5 DEF Reply, TypeOK, CallState
<1>6. CASE SubmitSelect(h)
  <2>1. row[call[h].task].commitment = call[h].commitment /\ Reply(h, row[call[h].task].state)
    BY <1>5, <1>6 DEF SubmitSelect
  <2>2. row[call[h].task].state = "submitted"
    BY <1>5, <2>1
  <2> QED
    BY <1>5, <1>6, <2>1, <2>2 DEF SubmitSelect
<1>7. ASSUME CancelTask(h) PROVE FALSE
  BY <1>5, <1>7 DEF CancelTask, PlaceSound
<1>8. ASSUME RequestRaises(h) PROVE FALSE
  BY <1>5, <1>8 DEF RequestRaises
<1> QED
  BY <1>2, <1>3, <1>4, <1>6, <1>7, <1>8, CallFrame DEF CallMoves, CallStep

LEMMA ReplyStep ==
  ASSUME TypeOK, PlaceSound, ExecSound, ReplySound, Next
  PROVE  ReplySound'
<1> SUFFICES ASSUME NEW h \in Call, call'[h].op = "submit", call'[h].reply = "submitted"
             PROVE  call'[h].pc = "done" /\ row'[call'[h].task].state # "absent"
  BY DEF ReplySound
<1> DEFINE t == call'[h].task
<1>1. t \in Task /\ call'[h].pc = "done" /\ row[t].state # "absent"
  <2>1. CASE call'[h] = call[h]
    BY <2>1 DEF ReplySound, PlaceSound
  <2>2. CASE SubmitSelect(h) /\ row[call[h].task].state = "submitted" /\ call'[h].pc = "done" /\ call'[h].task = call[h].task
    BY <2>2 DEF SubmitSelect, PlaceSound
  <2> QED
    BY <2>1, <2>2, ToldStep
<1> HIDE DEF t
<1>2. row'[t].state = "absent" => row[t].state = "absent"
  BY <1>1, UnclaimedRow DEF Unclaimed
<1> QED
  BY <1>1, <1>2 DEF t

---------------------------------------------------------------------------
(* The theorems                                                            *)

LEMMA InitIInv == Init => IInv
<1> SUFFICES ASSUME Init PROVE IInv
  OBVIOUS
<1>1. TypeOK
  <2>1. row \in [Task -> Row]
    BY NoRowTyped DEF Init
  <2>2. queue \in [Owner -> Seq(Task)]
    BY EmptySeq DEF Init
  <2>3. work \in [Owner -> [pc : PC, task : Task \cup {NULL}, run : Run \cup {NULL}]]
    BY DEF Init, Idle, PC
  <2>4. call \in [Call -> CallState]
    BY DEF Init, NoCall, CallState
  <2> QED
    BY <2>1, <2>2, <2>3, <2>4 DEF Init, TypeOK
<1>2. RowsFinite
  <2>1. {t \in Task : row[t].state # "absent"} = {}
    BY NoRowTyped DEF Init
  <2> QED
    BY <2>1, FS_EmptySet DEF RowsFinite
<1>3. PlaceSound
  BY NullAssumption DEF PlaceSound, Init, Idle, NoCall
<1>4. ExecSound /\ RunUnique
  BY DEF ExecSound, RunUnique, Init, Idle, Executing
<1>5. StartSound /\ LateSound /\ FlightSound
  BY DEF StartSound, LateSound, FlightSound, Init, Idle
<1>6. RowSound
  BY NoRowTyped DEF RowSound, Init
<1>7. RunningBound
  <2>1. Running = {}
    BY DEF Running, Init
  <2> QED
    BY <2>1, FS_EmptySet, ServiceAssumption DEF RunningBound
<1>8. ReplySound
  BY ServiceAssumption DEF ReplySound, Init, NoCall, State
<1> QED
  BY <1>1, <1>2, <1>3, <1>4, <1>5, <1>6, <1>7, <1>8 DEF IInv

LEMMA NextIInv == IInv /\ [Next]_vars => IInv'
<1> SUFFICES ASSUME IInv, [Next]_vars PROVE IInv'
  OBVIOUS
<1>1. CASE Next
  BY <1>1, TypeStep, FiniteStep, PlaceStep, ExecStep, UniqueStep, StartStep, TooLateStep, FlightStep,
     RowSoundStep, BoundStep, ReplyStep DEF IInv
<1>2. CASE UNCHANGED vars
  BY <1>2 DEF vars, IInv, TypeOK, RowsFinite, PlaceSound, ExecSound, RunUnique, StartSound, LateSound,
              FlightSound, RowSound, RunningBound, ReplySound, Running, Unclaimed
<1> QED
  BY <1>1, <1>2

\* Every reachable state has types, and satisfies the strengthening above.
THEOREM Invariance == Spec => []IInv
  BY InitIInv, NextIInv, PTL DEF Spec

\* Research is started at most once for a task: a run is started only by the
\* one claim of its row, whatever wakeups, crashes and store errors surround it.
THEOREM RunsOnceCorrect == Spec => []RunsOnce
<1>1. IInv => RunsOnce
  BY DEF IInv, StartSound, RunsOnce
<1> QED
  BY Invariance, <1>1, PTL

\* Once a run is inactive at most one more operation begins, and a canceled task
\* has nothing in flight and nothing to come.
THEOREM QuietCorrect == Spec => []QuietAfterEnd
<1>1. IInv => BoundedOvershoot
  BY DEF IInv, LateSound, BoundedOvershoot
<1>2. IInv => CanceledMeansQuiet
  BY DEF IInv, FlightSound, ExecSound, Executing, CanceledMeansQuiet
<1> QED
  BY Invariance, <1>1, <1>2, PTL DEF QuietAfterEnd

---------------------------------------------------------------------------
(* The service implements the lifecycle                                    *)

\* What a client can read of a row.
View == [phase     : State,
         wanted    : BOOLEAN,
         bound     : Commitment \cup {NULL},
         runner    : Run \cup {NULL},
         published : Run \cup {NULL}]

LEMMA VisibleFields ==
  ASSUME NEW r \in Row
  PROVE  /\ Visible(r) \in View
         /\ Visible(r).phase = r.state /\ Visible(r).wanted = r.cancel_requested
         /\ Visible(r).bound = r.commitment /\ Visible(r).runner = r.run_id
         /\ Visible(r).published = r.artifact
  BY DEF Visible, View, Row

\* A row goes on to a visible step of its lifecycle, or to nothing visible.
LEMMA RowIsLifecycleStep ==
  ASSUME TypeOK, PlaceSound, ExecSound, RowSound, Next, NEW t \in Task
  PROVE  Visible(row'[t]) = Visible(row[t]) \/ Lifecycle!Step(Visible(row[t]), Visible(row'[t]))
<1> DEFINE r == row[t]
           n == row'[t]
           v == Visible(r)
           w == Visible(n)
<1>a. /\ r \in Row /\ n \in Row
      /\ r.state = "absent" => r = NoRow
      /\ r.state \in {"submitted", "working"} => r.artifact = NULL
  BY RowsTyped DEF TypeOK, RowSound
<1>b. /\ v \in View /\ w \in View
      /\ v.phase = r.state /\ v.wanted = r.cancel_requested /\ v.bound = r.commitment
      /\ v.runner = r.run_id /\ v.published = r.artifact
      /\ w.phase = n.state /\ w.wanted = n.cancel_requested /\ w.bound = n.commitment
      /\ w.runner = n.run_id /\ w.published = n.artifact
  BY <1>a, VisibleFields, Zenon
<1> HIDE DEF v, w
<1>1. ASSUME NEW c \in Commitment, Insertable(r), n = Inserted(c)
      PROVE  Lifecycle!Submit(v, w)
  <2>1. /\ n.state = "submitted" /\ n.commitment = c /\ n.run_id = r.run_id
        /\ n.cancel_requested = r.cancel_requested /\ n.artifact = r.artifact
    BY <1>1, <1>a DEF Inserted, NoRow, Insertable
  <2>2. w = [v EXCEPT !.phase = "submitted", !.bound = c]
    BY <1>b, <2>1, Zenon DEF View
  <2> QED
    BY <1>1, <1>b, <2>2 DEF Insertable, Lifecycle!Submit
<1>2. ASSUME NEW o \in Owner, Claims(o, t)
      PROVE  Lifecycle!Start(v, w)
  <2>1. PICK run \in Run : n = Claimed(r, o, run, LeaseTicks)
    BY <1>2 DEF Claims
  <2>2. /\ n.state = "working" /\ n.run_id = run /\ n.commitment = r.commitment
        /\ n.cancel_requested = r.cancel_requested /\ n.artifact = r.artifact
    BY <1>a, <2>1 DEF Claimed, Row
  <2>3. w = [v EXCEPT !.phase = "working", !.runner = run]
    BY <1>b, <2>2, Zenon DEF View
  <2> QED
    BY <1>2, <1>b, <2>3 DEF Claims, Claimable, Lifecycle!Start
<1>3. ASSUME NEW d \in Nat, n = Renewed(r, d)
      PROVE  v = w
  BY <1>3, <1>a DEF Renewed, Row, Visible, v, w
<1>4. ASSUME NEW o \in Owner, NEW run \in Run, Active(r, o, run, 0), n = Completed(r, run)
      PROVE  Lifecycle!Complete(v, w)
  <2>1. r.state = "working" /\ r.run_id = run /\ ~r.cancel_requested
    BY <1>4 DEF Active, Fenced
  <2>2. /\ n.state = "completed" /\ n.artifact = r.run_id /\ n.commitment = r.commitment
        /\ n.cancel_requested = r.cancel_requested /\ n.run_id = r.run_id
    BY <1>4, <1>a, <2>1 DEF Completed, Finished, Unleased, Row
  <2>3. w = [v EXCEPT !.phase = "completed", !.published = v.runner]
    BY <1>b, <2>2, Zenon DEF View
  <2> QED
    BY <1>b, <2>1, <2>3 DEF Lifecycle!Complete
<1>5. ASSUME n = Failed(r) \/ n = Expire(r), r.state = "working"
      PROVE  Lifecycle!Fail(v, w)
  <2>1. /\ n.state = "failed" /\ n.artifact = r.artifact /\ n.commitment = r.commitment
        /\ n.cancel_requested = r.cancel_requested /\ n.run_id = r.run_id
    BY <1>5, <1>a DEF Failed, Finished, Expire, Unleased, Row
  <2>2. w = [v EXCEPT !.phase = "failed"]
    BY <1>b, <2>1, Zenon DEF View
  <2> QED
    BY <1>5, <1>b, <2>2 DEF Lifecycle!Fail
<1>6. ASSUME n = Canceled(r), r.state \in {"submitted", "working"}, r.state = "submitted" \/ r.cancel_requested
      PROVE  Lifecycle!Cancel(v, w)
  <2>1. /\ n.state = "canceled" /\ n.artifact = r.artifact /\ n.commitment = r.commitment
        /\ n.cancel_requested = r.cancel_requested /\ n.run_id = r.run_id
    BY <1>6, <1>a DEF Canceled, Unleased, Row
  <2>2. w = [v EXCEPT !.phase = "canceled"]
    BY <1>b, <2>1, Zenon DEF View
  <2> QED
    BY <1>6, <1>b, <2>2 DEF Lifecycle!Cancel
<1>7. ASSUME CancelFlaggable(r), n = CancelFlagged(r)
      PROVE  Lifecycle!RequestCancel(v, w)
  <2>1. /\ n.cancel_requested = TRUE /\ n.state = r.state /\ n.commitment = r.commitment
        /\ n.run_id = r.run_id /\ n.artifact = r.artifact
    BY <1>7, <1>a DEF CancelFlagged, Row
  <2>2. w = [v EXCEPT !.wanted = TRUE]
    BY <1>b, <2>1, Zenon DEF View
  <2> QED
    BY <1>7, <1>b, <2>2 DEF CancelFlaggable, Lifecycle!RequestCancel
<1>8. ASSUME NEW o \in Owner, Acknowledges(o, t)
      PROVE  Lifecycle!Cancel(v, w)
  BY <1>6, <1>8 DEF Acknowledges, Acknowledgeable, Fenced
<1>9. ASSUME RowChange(r, n)
      PROVE  w = v \/ Lifecycle!Step(v, w)
  <2>1. CASE \E o \in Owner, run \in Run : Active(r, o, run, 0) /\ n \in {Completed(r, run), Failed(r)}
    BY <2>1, <1>4, <1>5 DEF Active, Fenced, Lifecycle!Step
  <2>2. CASE n = r
    BY <2>2 DEF v, w
  <2>3. CASE Expired(r, 0) /\ n = Expire(r)
    BY <2>3, <1>5 DEF Expired, Lifecycle!Step
  <2>4. CASE CancelableAtOnce(r) /\ n = Canceled(r)
    BY <2>4, <1>6 DEF CancelableAtOnce, Lifecycle!Step
  <2> QED
    BY <1>1, <1>3, <1>7, <1>9, <2>1, <2>2, <2>3, <2>4 DEF RowChange, Lifecycle!Step
<1>10. w = v \/ Lifecycle!Step(v, w)
  BY <1>2, <1>8, <1>9, StepRows DEF Lifecycle!Step
<1> QED
  BY <1>10 DEF v, w

\* Workers, handlers, sweeps, restarts and store errors together implement the
\* lifecycle of every task.
THEOREM ServiceRefinement == Spec => ImplementsLifecycle
<1> DEFINE task == [t \in Task |-> Visible(row[t])]
<1>1. Init => Lifecycle!Init
  BY DEF Init, Lifecycle!Init, Lifecycle!Nothing, Visible, NoRow
<1>2. IInv /\ [Next]_vars => [Lifecycle!Next]_task
  <2> SUFFICES ASSUME IInv, [Next]_vars
               PROVE  Lifecycle!Next
    OBVIOUS
  <2>1. ASSUME NEW t \in Task
        PROVE  \/ Visible(row'[t]) = Visible(row[t])
               \/ Lifecycle!Step(Visible(row[t]), Visible(row'[t]))
    <3>1. CASE Next
      BY <3>1, RowIsLifecycleStep DEF IInv
    <3>2. CASE UNCHANGED vars
      BY <3>2 DEF vars
    <3> QED
      BY <3>1, <3>2
  <2> QED
    BY <2>1 DEF Lifecycle!Next
<1> QED
  BY Invariance, <1>1, <1>2, PTL DEF Spec, ImplementsLifecycle, Lifecycle!Spec

---------------------------------------------------------------------------
(* No task is forgotten                                                    *)

LEMMA ProcStep ==
  ASSUME TypeOK, Next, NEW o \in Owner
  PROVE  proc'[o] = proc[o] \/ Start(o) \/ RecoverPending(o) \/ Crash(o)
<1>1. ASSUME NEW p \in Owner, Start(p) \/ RecoverPending(p) \/ Crash(p)
      PROVE  proc'[o] = proc[o] \/ Start(o) \/ RecoverPending(o) \/ Crash(o)
  <2>1. CASE p = o
    BY <1>1, <2>1
  <2>2. CASE p # o
    <3>1. \E x : proc' = [proc EXCEPT ![p] = x]
      BY <1>1 DEF Start, RecoverPending, Crash
    <3> QED
      BY <2>2, <3>1 DEF TypeOK
  <2> QED
    BY <2>1, <2>2
<1>2. CASE proc' = proc
  BY <1>2
<1> QED
  BY <1>1, <1>2
     DEF Next, ProcessNext, CallNext, CallStep, WorkerStep, ResearchStep, Tick,
         Sweep, Heartbeat, HeartbeatRaises, OperationSettles, Request,
         SubmitReserve, SubmitSelect, CancelTask, RequestRaises, ClaimTask, GetUnclaimed,
         LoadSubmission, Checkpoint, BeginOperation, EndOperation, EndResearch, CompleteTask,
         HandleException, FailTask, AcknowledgeCancellation, HandleTimeout, Settle, WorkerRaises,
         Dequeue, Requeue

\* Appending keeps what is queued.
LEMMA AppendKeeps ==
  ASSUME TypeOK, NEW o \in Owner, NEW s \in Task, queue' = [queue EXCEPT ![o] = Append(@, s)]
  PROVE  /\ s \in Range(queue'[o])
         /\ \A p \in Owner : Range(queue[p]) \subseteq Range(queue'[p])
<1>1. queue[o] \in Seq(Task)
  BY DEF TypeOK
<1>2. queue'[o] = Append(queue[o], s) /\ \A p \in Owner \ {o} : queue'[p] = queue[p]
  BY DEF TypeOK
<1>3. queue'[o] = queue[o] \o <<s>> /\ <<s>> \in Seq(Task) /\ s \in Range(<<s>>)
  <2>1. 1 \in DOMAIN <<s>> /\ <<s>>[1] = s
    OBVIOUS
  <2> QED
    BY <1>1, <1>2, <2>1, AppendIsConcat DEF Range
<1>4. Range(queue'[o]) = Range(queue[o]) \cup Range(<<s>>)
  BY <1>1, <1>3, RangeConcatenation
<1> QED
  BY <1>2, <1>3, <1>4

\* A queued task stays queued until its process dies or its worker takes it.
LEMMA QueuedStep ==
  ASSUME TypeOK, RowsFinite, PlaceSound, Next, NEW o \in Owner, NEW t \in Range(queue[o])
  PROVE  t \in Range(queue'[o]) \/ Crash(o) \/ (work'[o].pc = "claim" /\ work'[o].task = t)
<1> DEFINE Goal == t \in Range(queue'[o]) \/ Crash(o) \/ (work'[o].pc = "claim" /\ work'[o].task = t)
<1>0. queue[o] \in Seq(Task)
  BY DEF TypeOK
<1>1. ASSUME NEW p \in Owner, Crash(p) PROVE Goal
  BY <1>1 DEF Crash, TypeOK
<1>2. ASSUME NEW p \in Owner, p # o, \E q : queue' = [queue EXCEPT ![p] = q] PROVE Goal
  BY <1>2 DEF TypeOK
<1>3. ASSUME Dequeue(o) PROVE Goal
  <2>1. queue[o] # <<>> /\ queue'[o] = Tail(queue[o]) /\ work'[o].pc = "claim" /\ work'[o].task = Head(queue[o])
    BY <1>3 DEF Dequeue, TypeOK
  <2>2. Len(queue[o]) \in Nat \ {0}
    BY <1>0, <2>1, EmptySeq
  <2>3. PICK i \in 1..Len(queue[o]) : t = queue[o][i]
    BY <1>0, RangeEquality
  <2>4. CASE i = 1
    BY <1>0, <2>1, <2>3, <2>4
  <2>5. CASE i # 1
    <3>1. i - 1 \in 1..Len(Tail(queue[o])) /\ Tail(queue[o])[i - 1] = queue[o][i]
      BY <1>0, <2>1, <2>2, <2>5, HeadTailProperties
    <3>2. Tail(queue[o]) \in Seq(Task)
      BY <1>0, <2>1, HeadTailProperties
    <3> QED
      BY <2>1, <2>3, <3>1, <3>2, RangeEquality
  <2> QED
    BY <2>4, <2>5
<1>4. ASSUME RecoverPending(o) PROVE Goal
  <2>1. PICK ids \in SetToSeqs({s \in Task : row[s].state = "submitted"}) :
                 queue' = [queue EXCEPT ![o] = queue[o] \o ids]
    BY <1>4 DEF RecoverPending
  <2>2. queue'[o] = queue[o] \o ids /\ ids \in Seq(Task)
    BY <2>1, PendingIds DEF TypeOK
  <2> QED
    BY <1>0, <2>2, RangeConcatenation
<1>5. ASSUME NEW p \in Owner, NEW s \in Task, queue' = [queue EXCEPT ![p] = Append(@, s)] PROVE Goal
  BY <1>5, AppendKeeps
<1>6. ASSUME NEW p \in Owner, Dequeue(p) \/ RecoverPending(p) PROVE Goal
  BY <1>2, <1>3, <1>4, <1>6 DEF Dequeue, RecoverPending
<1>7. ASSUME NEW p \in Owner, Requeue(p) PROVE Goal
  BY <1>5, <1>7 DEF Requeue, PlaceSound
<1>8. ASSUME NEW h \in Call, SubmitSelect(h), queue' # queue PROVE Goal
  <2>1. call[h].task \in Task /\ call[h].at \in Owner
    BY <1>8 DEF SubmitSelect, PlaceSound
  <2> QED
    BY <1>5, <1>8, <2>1 DEF SubmitSelect
<1>9. ASSUME queue' = queue PROVE Goal
  BY <1>9
<1> QED
  BY <1>1, <1>6, <1>7, <1>8, <1>9
     DEF Next, ProcessNext, CallNext, CallStep, WorkerStep, ResearchStep, Tick, Start, Sweep,
         Heartbeat, HeartbeatRaises, OperationSettles, Request, SubmitReserve, CancelTask,
         RequestRaises, ClaimTask, GetUnclaimed, LoadSubmission, Checkpoint, BeginOperation,
         EndOperation, EndResearch, CompleteTask, HandleException, FailTask,
         AcknowledgeCancellation, HandleTimeout, Settle, WorkerRaises

\* A worker about to claim a submitted task, or to put it back, does not lose it.
LEMMA ClaimerStep ==
  ASSUME TypeOK, PlaceSound, Next, NEW o \in Owner, work[o].pc \in {"claim", "retry"},
         row'[work[o].task].state = "submitted", row[work[o].task].state = "submitted"
  PROVE  \/ Crash(o)
         \/ work[o].task \in Range(queue'[o])
         \/ work'[o].task = work[o].task /\ work'[o].pc \in {"claim", "retry"}
<1> DEFINE t == work[o].task
           Goal == \/ Crash(o)
                   \/ t \in Range(queue'[o])
                   \/ work'[o].task = t /\ work'[o].pc \in {"claim", "retry"}
<1>0. t \in Task /\ row[t] \in Row
  BY DEF PlaceSound, TypeOK
<1>1. ASSUME work'[o] = work[o] PROVE Goal
  BY <1>1
<1>2. ASSUME Requeue(o) PROVE Goal
  <2>1. queue' = [queue EXCEPT ![o] = Append(@, t)]
    BY <1>2 DEF Requeue
  <2> QED
    BY <1>0, <2>1, AppendKeeps
<1>3. ASSUME ClaimTask(o) PROVE FALSE
  <2>1. PICK run \in Run : row' = [row EXCEPT ![t] = Claimed(row[t], o, run, LeaseTicks)]
    BY <1>3 DEF ClaimTask, Claimable
  <2> QED
    BY <1>0, <2>1 DEF Claimed, Row, TypeOK
<1>4. ASSUME WorkerRaises(o) PROVE Goal
  <2>1. Goto(o, "retry")
    BY <1>4 DEF WorkerRaises, Unwound
  <2> QED
    BY <2>1, GotoWork, Zenon
<1>5. ASSUME NEW p \in Owner,
             \/ GetUnclaimed(p) \/ CompleteTask(p) \/ FailTask(p) \/ AcknowledgeCancellation(p)
             \/ HandleTimeout(p) \/ Settle(p) \/ Dequeue(p)
             \/ LoadSubmission(p) \/ HandleException(p) \/ ResearchStep(p) \/ EndResearch(p)
      PROVE  work'[o] = work[o]
  <2>1. p # o
    BY <1>5 DEF GetUnclaimed, CompleteTask, FailTask, AcknowledgeCancellation, HandleTimeout, Settle,
                Dequeue, LoadSubmission, HandleException, ResearchStep, Checkpoint, BeginOperation,
                EndOperation, EndResearch, ResearchEnds, RunTimeout, InResearch
  <2>2. (\E w : work' = [work EXCEPT ![p] = w]) \/ \E pc : Goto(p, pc)
    BY <1>5 DEF GetUnclaimed, CompleteTask, FailTask, AcknowledgeCancellation, HandleTimeout, Settle,
                Dequeue, LoadSubmission, HandleException, ResearchStep, Checkpoint, BeginOperation,
                EndOperation, EndResearch, ResearchEnds, RunTimeout, EndExecute, Unwound, Return
  <2> QED
    BY <2>1, <2>2, OtherWorkers, GotoWork, Zenon
<1>6. ASSUME NEW p \in Owner, p # o, ClaimTask(p) \/ Requeue(p) \/ Crash(p) \/ WorkerRaises(p)
      PROVE  work'[o] = work[o]
  <2>1. ASSUME NEW run, work' = [work EXCEPT ![p].pc = "load", ![p].run = run]
        PROVE  work'[o] = work[o]
    BY <1>6, <2>1 DEF TypeOK
  <2>2. \/ \E w : work' = [work EXCEPT ![p] = w]
        \/ \E pc : Goto(p, pc)
        \/ \E run : work' = [work EXCEPT ![p].pc = "load", ![p].run = run]
    BY <1>6 DEF ClaimTask, Requeue, Crash, WorkerRaises, Unwound
  <2> QED
    BY <1>6, <2>1, <2>2, OtherWorkers, GotoWork, Zenon
<1>7. ASSUME work' = work PROVE Goal
  BY <1>7
<1>8. ASSUME NEW p \in Owner, ClaimTask(p) \/ Requeue(p) \/ Crash(p) \/ WorkerRaises(p)
      PROVE  Goal
  BY <1>1, <1>2, <1>3, <1>4, <1>6, <1>8
<1> QED
  BY <1>1, <1>5, <1>7, <1>8
     DEF Next, ProcessNext, CallNext, CallStep, WorkerStep, Tick, Start, RecoverPending, Sweep,
         Heartbeat, HeartbeatRaises, OperationSettles, Request, SubmitReserve, SubmitSelect,
         CancelTask, RequestRaises

\* Whoever attends to a submitted task goes on, hands it on, or is missing.
LEMMA AttendedStep ==
  ASSUME TypeOK, RowsFinite, PlaceSound, RunningBound, Next, NEW t \in Task,
         row[t].state = "submitted", row'[t].state = "submitted", Attended(t)
  PROVE  \/ Cardinality(Running') < Replicas
         \/ \E o \in Running' : \/ proc'[o] = "starting"
                                \/ t \in Range(queue'[o])
                                \/ work'[o].task = t /\ work'[o].pc \in {"claim", "retry"}
<1> DEFINE Holds(o) == \/ proc'[o] = "starting"
                       \/ t \in Range(queue'[o])
                       \/ work'[o].task = t /\ work'[o].pc \in {"claim", "retry"}
           Goal == Cardinality(Running') < Replicas \/ \E o \in Running' : Holds(o)
<1>1. ASSUME NEW o \in Owner, Crash(o) PROVE Goal
  BY <1>1, BoundStep
<1>2. ASSUME Cardinality(Running) < Replicas PROVE Goal
  <2>1. ASSUME NEW o \in Owner, Start(o) PROVE o \in Running' /\ Holds(o)
    BY <2>1 DEF Start, Running, TypeOK
  <2>2. ASSUME Running' = Running PROVE Goal
    BY <1>2, <2>2
  <2> QED
    BY <1>1, <2>1, <2>2, RunningSet
<1>3. ASSUME NEW o \in Running, ~Crash(o),
             \/ proc[o] = "starting"
             \/ t \in Range(queue[o])
             \/ work[o].task = t /\ work[o].pc \in {"claim", "retry"}
      PROVE  Goal
  <2>1. o \in Owner /\ o \in Running'
    BY <1>3, RunningStep DEF Running
  <2>2. ASSUME t \in Range(queue[o]) PROVE Holds(o)
    BY <1>3, <2>1, <2>2, QueuedStep
  <2>3. ASSUME work[o].task = t, work[o].pc \in {"claim", "retry"} PROVE Holds(o)
    BY <1>3, <2>1, <2>3, ClaimerStep
  <2>4. ASSUME RecoverPending(o) PROVE Holds(o)
    <3>1. PICK ids \in SetToSeqs({s \in Task : row[s].state = "submitted"}) :
                   queue' = [queue EXCEPT ![o] = queue[o] \o ids]
      BY <2>4 DEF RecoverPending
    <3>2. queue[o] \in Seq(Task) /\ queue'[o] = queue[o] \o ids
      BY <2>1, <3>1 DEF TypeOK
    <3>3. ids \in Seq(Task) /\ t \in Range(ids)
      BY PendingIds
    <3> QED
      BY <3>2, <3>3, RangeConcatenation
  <2>5. ASSUME proc[o] = "starting" PROVE Holds(o)
    BY <1>3, <2>1, <2>4, <2>5, ProcStep DEF Start
  <2> QED
    BY <1>3, <2>1, <2>2, <2>3, <2>5
<1>4. ASSUME NEW o \in Running, Crash(o) PROVE Goal
  BY <1>1, <1>4 DEF Running
<1> QED
  BY <1>2, <1>3, <1>4 DEF Attended

\* A client that was told "submitted" is never forgotten: its task stays in a
\* queue, with a worker or with a process still to start, however often
\* processes crash.
THEOREM WakeupCorrect == Spec => []NoLostWakeup
<1>1. Init => NoLostWakeup
  BY ServiceAssumption DEF Init, NoCall, NoLostWakeup, State
<1>2. IInv /\ NoLostWakeup /\ [Next]_vars => NoLostWakeup'
  <2> SUFFICES ASSUME IInv, NoLostWakeup, [Next]_vars
               PROVE  NoLostWakeup'
    OBVIOUS
  <2>1. CASE UNCHANGED vars
    BY <2>1 DEF vars, NoLostWakeup, Attended, Running
  <2>2. CASE Next
    <3> SUFFICES ASSUME NEW h \in Call, call'[h].op = "submit", call'[h].reply = "submitted",
                        NEW t, t = call'[h].task, row'[t].state = "submitted"
                 PROVE  \/ Cardinality(Running') < Replicas
                        \/ \E o \in Running' : \/ proc'[o] = "starting"
                                               \/ t \in Range(queue'[o])
                                               \/ work'[o].task = t /\ work'[o].pc \in {"claim", "retry"}
      BY DEF NoLostWakeup, Attended
    <3>1. CASE call'[h] = call[h]
      <4>1. t \in Task /\ row[t].state # "absent"
        BY <3>1 DEF IInv, ReplySound, PlaceSound
      <4>2. row[t].state = "submitted"
        BY <2>2, <4>1, UnclaimedRow DEF IInv, Unclaimed
      <4>3. Attended(t)
        BY <3>1, <4>2 DEF NoLostWakeup
      <4> QED
        BY <2>2, <4>1, <4>2, <4>3, AttendedStep DEF IInv
    <3>2. CASE /\ SubmitSelect(h) /\ call'[h].task = call[h].task
               /\ queue' = [queue EXCEPT ![call[h].at] = Append(@, call[h].task)]
      <4>1. call[h].at \in Owner /\ t \in Task /\ proc'[call[h].at] = "up"
        BY <3>2 DEF IInv, PlaceSound, SubmitSelect
      <4>2. call[h].at \in Running'
        BY <4>1 DEF Running
      <4>3. t \in Range(queue'[call[h].at])
        BY <3>2, <4>1, AppendKeeps DEF IInv
      <4> QED
        BY <4>2, <4>3
    <3> QED
      BY <2>2, <3>1, <3>2, ToldStep DEF IInv
  <2> QED
    BY <2>1, <2>2
<1> QED
  BY Invariance, <1>1, <1>2, PTL DEF Spec
=============================================================================
