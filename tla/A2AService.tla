----------------------------- MODULE A2AService -----------------------------
(***************************************************************************)
(* DurableA2AService: the processes of the research agent over the task    *)
(* table.  Each process has one worker fed by an in-memory queue, a        *)
(* heartbeat while its worker executes a run, a lease sweeper, and request *)
(* handlers for SendMessage and CancelTask.  Processes crash and are       *)
(* started again as new ones (owner_id is a fresh uuid), calls to the      *)
(* store may raise, with or without having been committed, and a research  *)
(* operation that was interrupted may go on in its thread.                 *)
(*                                                                         *)
(* The transactions of the store are atomic here; A2AStore shows what      *)
(* their row locks and two clock readings guarantee.  Time is relative:    *)
(* the clock always reads 0 and Tick moves every deadline one unit nearer, *)
(* so that a deadline is the time that is left.                            *)
(***************************************************************************)
EXTENDS TaskRow, SequencesExt

CONSTANTS
  Task,        \* message ids
  Call,        \* client calls: each is made at most once
  LeaseTicks,  \* lease_seconds, in ticks of the relative clock
  Replicas,    \* processes the deployment keeps running
  MaxFaults    \* bound of the model: store calls that raise

ASSUME ServiceAssumption ==
  /\ LeaseTicks \in Nat \ {0}
  /\ Replicas \in Nat \ {0}
  /\ MaxFaults \in Nat
  /\ NULL \notin State

VARIABLES
  row,       \* the table
  proc,      \* each process: new, starting, up or dead
  queue,     \* asyncio.Queue of each process
  work,      \* its worker: where execute stands, for which task and run
  beating,   \* the processes whose heartbeat task is alive
  healthy,   \* the processes whose worker_healthy is set
  call,      \* client calls
  faults,    \* store calls that have raised
  inflight,  \* history: <<owner, task>> of research operations not yet over
  started,   \* history: how often research was started for a task
  late,      \* history: operations begun when the run was no longer active
  raised     \* history: tasks whose research itself raised an exception

history == <<inflight, started, late, raised>>

vars == <<row, proc, queue, work, beating, healthy, call, faults,
          inflight, started, late, raised>>

\* research_cluster runs between "load" and the handlers.
InResearch == {"checkpoint", "op", "in_op"}

Idle == [pc |-> "idle", task |-> NULL, run |-> NULL]

NoCall == [pc |-> "unused", op |-> NULL, at |-> NULL, task |-> NULL,
           commitment |-> NULL, reply |-> NULL]

Init ==
  /\ row = [t \in Task |-> NoRow]
  /\ proc = [o \in Owner |-> "new"]
  /\ queue = [o \in Owner |-> <<>>]
  /\ work = [o \in Owner |-> Idle]
  /\ beating = {}
  /\ healthy = Owner
  /\ call = [h \in Call |-> NoCall]
  /\ faults = 0
  /\ inflight = {}
  /\ started = [t \in Task |-> 0]
  /\ late = [t \in Task |-> 0]
  /\ raised = {}

Running == {o \in Owner : proc[o] \in {"starting", "up"}}

\* The row after a statement: changed when its WHERE clause holds.
Update(t, where, new) == row' = IF where THEN [row EXCEPT ![t] = new] ELSE row

Goto(o, pc) == work' = [work EXCEPT ![o].pc = pc]

\* Leaving the try statement of execute: finally cancels the heartbeat.
Unwound(o, pc) == Goto(o, pc) /\ beating' = beating \ {o}

FreshRun(run) ==
  /\ \A t \in Task : row[t].run_id # run
  /\ \A o \in Owner : work[o].run # run

\* expire_leases over the whole table.
Swept == [t \in Task |-> IF Expired(row[t], 0) THEN Expire(row[t]) ELSE row[t]]

---------------------------------------------------------------------------
(* Time and the leases.                                                    *)

Tick ==
  /\ \E t \in Task : row[t].lease_expires_at \notin {NULL, 0}
  /\ row' = [t \in Task |->
               IF row[t].lease_expires_at \in {NULL, 0} THEN row[t]
               ELSE Renewed(row[t], row[t].lease_expires_at - 1)]
  /\ UNCHANGED <<proc, queue, work, beating, healthy, call, faults, history>>

\* Mutant: a process sweeps only the leases it owns.
SweepOwn(o) ==
  /\ proc[o] = "up"
  /\ \E t \in Task : Expired(row[t], 0) /\ row[t].lease_owner = o
  /\ row' = [t \in Task |-> IF row[t].lease_owner = o THEN Swept[t] ELSE row[t]]
  /\ UNCHANGED <<proc, queue, work, beating, healthy, call, faults, history>>

\* sweep_expired_leases of a process that serves; a sweep that raises is
\* logged and the next one runs 30 seconds later.
Sweep(o) ==
  /\ proc[o] = "up"
  /\ \E t \in Task : Expired(row[t], 0)
  /\ row' = Swept
  /\ UNCHANGED <<proc, queue, work, beating, healthy, call, faults, history>>

\* _heartbeat: it stops for good when the store says the lease is gone.
Heartbeat(o) ==
  /\ o \in beating
  /\ LET t == work[o].task
         held == Fenced(row[t], o, work[o].run, 0)
     IN /\ Update(t, held, Renewed(row[t], LeaseTicks))
        /\ beating' = IF held THEN beating ELSE beating \ {o}
  /\ UNCHANGED <<proc, queue, work, healthy, call, faults, history>>

\* An exception of store.heartbeat ends the heartbeat task; nobody awaits it
\* before the run is over.
HeartbeatRaises(o) ==
  /\ o \in beating
  /\ faults < MaxFaults
  /\ faults' = faults + 1
  /\ beating' = beating \ {o}
  /\ LET t == work[o].task IN
       \/ row' = row
       \/ Update(t, Fenced(row[t], o, work[o].run, 0), Renewed(row[t], LeaseTicks))
  /\ UNCHANGED <<proc, queue, work, healthy, call, history>>

---------------------------------------------------------------------------
(* Processes.                                                              *)

\* The container is (re)started: runtime_lifespan creates the worker.
Start(o) ==
  /\ proc[o] = "new"
  /\ Cardinality(Running) < Replicas
  /\ proc' = [proc EXCEPT ![o] = "starting"]
  /\ UNCHANGED <<row, queue, work, beating, healthy, call, faults, history>>

\* recover_pending, before the first request is served.
RecoverPending(o) ==
  /\ proc[o] = "starting"
  /\ row' = Swept
  /\ \E ids \in SetToSeqs({t \in Task : row[t].state = "submitted"}) :
       queue' = [queue EXCEPT ![o] = @ \o ids]
  /\ proc' = [proc EXCEPT ![o] = "up"]
  /\ UNCHANGED <<work, beating, healthy, call, faults, history>>

\* The process ends, by a crash or a shutdown whose CancelledError unwinds
\* execute without a word to the store.  The table stays; an operation in
\* flight stays in flight; clients get no reply.
Crash(o) ==
  /\ o \in Running
  /\ \E n \in Owner : proc[n] = "new"
  /\ proc' = [proc EXCEPT ![o] = "dead"]
  /\ queue' = [queue EXCEPT ![o] = <<>>]
  /\ work' = [work EXCEPT ![o] = Idle]
  /\ beating' = beating \ {o}
  /\ call' = [h \in Call |->
                IF call[h].at = o /\ call[h].pc # "done"
                  THEN [call[h] EXCEPT !.pc = "done", !.reply = "lost"]
                  ELSE call[h]]
  /\ UNCHANGED <<row, healthy, faults, history>>

\* An interrupted operation comes to its end.
OperationSettles(o, t) ==
  /\ <<o, t>> \in inflight
  /\ ~(work[o].task = t /\ work[o].pc = "in_op")
  /\ inflight' = inflight \ {<<o, t>>}
  /\ UNCHANGED <<row, proc, queue, work, beating, healthy, call, faults,
                 started, late, raised>>

---------------------------------------------------------------------------
(* Requests: SendMessage is submit, CancelTask is cancel.  GetTask reads.  *)

\* A client calls some process that serves.
Request(h, o, op, t, c) ==
  /\ call[h].pc = "unused"
  /\ proc[o] = "up"
  /\ op = "cancel" => row[t].state # "absent" /\ c = NULL
  /\ op = "submit" => c # NULL
  /\ call' = [call EXCEPT ![h] = [pc |-> op, op |-> op, at |-> o, task |-> t,
                                  commitment |-> c, reply |-> NULL]]
  /\ UNCHANGED <<row, proc, queue, work, beating, healthy, faults, history>>

Reply(h, reply) ==
  call' = [call EXCEPT ![h].pc = "done", ![h].reply = reply]

\* submit, first part: the reservation becomes durable.
SubmitReserve(h) ==
  /\ call[h].pc = "submit"
  /\ LET t == call[h].task
     IN Update(t, Insertable(row[t]), Inserted(call[h].commitment))
  /\ call' = [call EXCEPT ![h].pc = "select"]
  /\ UNCHANGED <<proc, queue, work, beating, healthy, faults, history>>

\* submit, second part: read the row back, check the commitment, and wake the
\* worker when the row is (still) submitted.
SubmitSelect(h) ==
  /\ call[h].pc = "select"
  /\ LET t == call[h].task
         o == call[h].at
     IN IF row[t].commitment # call[h].commitment
          THEN Reply(h, "conflict") /\ queue' = queue
          ELSE /\ Reply(h, row[t].state)
               /\ queue' = IF row[t].state = "submitted"
                             THEN [queue EXCEPT ![o] = Append(@, t)]
                             ELSE queue
  /\ UNCHANGED <<row, proc, work, beating, healthy, faults, history>>

\* Mutant: a working task is canceled by force.
CancelByForce(r) == IF r.state \in {"submitted", "working"} THEN Canceled(r) ELSE r

\* The row after both statements of store.cancel.
CancelOutcome(r) ==
  IF CancelableAtOnce(r) THEN Canceled(r)
  ELSE IF CancelFlaggable(r) THEN CancelFlagged(r) ELSE r

CancelTask(h) ==
  /\ call[h].pc = "cancel"
  /\ LET t == call[h].task
     IN /\ row' = [row EXCEPT ![t] = CancelOutcome(row[t])]
        /\ Reply(h, row'[t].state)
  /\ UNCHANGED <<proc, queue, work, beating, healthy, faults, history>>

\* The store raises in a handler: the statement was committed or was not.
RequestRaises(h) ==
  /\ call[h].pc \in {"submit", "select", "cancel"}
  /\ faults < MaxFaults
  /\ faults' = faults + 1
  /\ LET t == call[h].task IN
       \/ row' = row
       \/ /\ call[h].pc = "submit"
          /\ Update(t, Insertable(row[t]), Inserted(call[h].commitment))
       \/ /\ call[h].pc = "cancel"
          /\ row' = [row EXCEPT ![t] = CancelOutcome(row[t])]
  /\ Reply(h, "error")
  /\ UNCHANGED <<proc, queue, work, beating, healthy, history>>

---------------------------------------------------------------------------
(* The worker: run_worker and execute.                                     *)

Dequeue(o) ==
  /\ o \in Running
  /\ work[o].pc = "idle"
  /\ queue[o] # <<>>
  /\ work' = [work EXCEPT ![o] = [pc |-> "claim", task |-> Head(queue[o]), run |-> NULL]]
  /\ queue' = [queue EXCEPT ![o] = Tail(@)]
  /\ UNCHANGED <<row, proc, beating, healthy, call, faults, history>>

\* Mutant: worker_healthy is not set again.
ReturnUnhealthy(o) ==
  /\ work' = [work EXCEPT ![o] = Idle]
  /\ beating' = beating \ {o}
  /\ healthy' = healthy

\* execute has returned: the worker is healthy and takes the next task.
Return(o) ==
  /\ work' = [work EXCEPT ![o] = Idle]
  /\ beating' = beating \ {o}
  /\ healthy' = healthy \cup {o}

ClaimTask(o) ==
  /\ work[o].pc = "claim"
  /\ LET t == work[o].task IN
       \/ /\ Claimable(row[t])
          /\ \E run \in Run :
               /\ FreshRun(run)
               /\ row' = [row EXCEPT ![t] = Claimed(row[t], o, run, LeaseTicks)]
               /\ work' = [work EXCEPT ![o].pc = "load", ![o].run = run]
          /\ beating' = beating \cup {o}
       \/ /\ ~Claimable(row[t])
          /\ Goto(o, "get")
          /\ UNCHANGED <<row, beating>>
  /\ UNCHANGED <<proc, queue, healthy, call, faults, history>>

\* Nothing to run: execute answers with the stored row.
GetUnclaimed(o) ==
  /\ work[o].pc = "get"
  /\ Return(o)
  /\ UNCHANGED <<row, proc, queue, call, faults, history>>

LoadSubmission(o) ==
  /\ work[o].pc = "load"
  /\ Goto(o, "checkpoint")
  /\ started' = [started EXCEPT ![work[o].task] = @ + 1]
  /\ UNCHANGED <<row, proc, queue, beating, healthy, call, faults, inflight, late,
                 raised>>

\* checkpoint: _RunStopped unless run_active.
Checkpoint(o) ==
  /\ work[o].pc = "checkpoint"
  /\ Goto(o, IF Active(row[work[o].task], o, work[o].run, 0)
               THEN "op" ELSE "acknowledge")
  /\ UNCHANGED <<row, proc, queue, beating, healthy, call, faults, history>>

\* A model, search, fetch or archive operation.
BeginOperation(o) ==
  /\ work[o].pc = "op"
  /\ Goto(o, "in_op")
  /\ LET t == work[o].task IN
       /\ inflight' = inflight \cup {<<o, t>>}
       /\ late' = IF Active(row[t], o, work[o].run, 0) THEN late
                  ELSE [late EXCEPT ![t] = @ + 1]
  /\ UNCHANGED <<row, proc, queue, beating, healthy, call, faults, started,
                 raised>>

\* Mutant: two operations follow one checkpoint.
EndOperationUnchecked(o) ==
  /\ work[o].pc = "in_op"
  /\ work' = [work EXCEPT ![o].pc = "op"]
  /\ inflight' = inflight \ {<<o, work[o].task>>}
  /\ UNCHANGED <<row, proc, queue, beating, healthy, call, faults, started, late,
                 raised>>

EndOperation(o) ==
  /\ work[o].pc = "in_op"
  /\ Goto(o, "checkpoint")
  /\ inflight' = inflight \ {<<o, work[o].task>>}
  /\ UNCHANGED <<row, proc, queue, beating, healthy, call, faults, started, late,
                 raised>>

\* research_cluster returns a run, or raises between or in its operations.
ResearchEnds(o) ==
  \/ /\ work[o].pc = "checkpoint"
     /\ Goto(o, "complete")
     /\ UNCHANGED <<inflight, raised>>
  \/ /\ work[o].pc \in InResearch
     /\ Goto(o, "except")
     /\ inflight' = inflight \ {<<o, work[o].task>>}
     /\ raised' = raised \cup {work[o].task}

\* asyncio.timeout(run_timeout_seconds) strikes: the await ends, the thread
\* of an operation does not.
RunTimeout(o) ==
  /\ work[o].pc \in InResearch
  /\ Goto(o, "timeout")
  /\ UNCHANGED <<inflight, raised>>

EndResearch(o) ==
  /\ ResearchEnds(o) \/ RunTimeout(o)
  /\ UNCHANGED <<row, proc, queue, beating, healthy, call, faults, started, late>>

CompleteTask(o) ==
  /\ work[o].pc = "complete"
  /\ LET t == work[o].task
         r == row[t]
         run == work[o].run
     IN IF Active(r, o, run, 0)
          THEN /\ row' = [row EXCEPT ![t] = Completed(r, run)]
               /\ Return(o)
          ELSE /\ Goto(o, "acknowledge")
               /\ UNCHANGED <<row, beating, healthy>>
  /\ UNCHANGED <<proc, queue, call, faults, history>>

\* except Exception: the durable row decides how the run ends.
HandleException(o) ==
  /\ work[o].pc = "except"
  /\ Goto(o, IF row[work[o].task].cancel_requested THEN "acknowledge" ELSE "fail")
  /\ UNCHANGED <<row, proc, queue, beating, healthy, call, faults, history>>

FailTask(o) ==
  /\ work[o].pc = "fail"
  /\ LET t == work[o].task
         r == row[t]
     IN IF Active(r, o, work[o].run, 0)
          THEN /\ row' = [row EXCEPT ![t] = Failed(r)]
               /\ Return(o)
          ELSE /\ Goto(o, "acknowledge")
               /\ UNCHANGED <<row, beating, healthy>>
  /\ UNCHANGED <<proc, queue, call, faults, history>>

\* execute ends with a snapshot of r: a row that is still working is handed
\* to the reconciliation by lease expiry.
EndExecute(o, r) ==
  IF r.state = "working" THEN Unwound(o, "settle") /\ healthy' = healthy
                         ELSE Return(o)

AcknowledgeCancellation(o) ==
  /\ work[o].pc = "acknowledge"
  /\ LET t == work[o].task
         r == row[t]
     IN /\ Update(t, Acknowledgeable(r, o, work[o].run, 0), Canceled(r))
        /\ EndExecute(o, row'[t])
  /\ UNCHANGED <<proc, queue, call, faults, history>>

\* Mutant: the run's deadline acknowledges the cancellation.
HandleTimeoutByAcknowledging(o) ==
  /\ work[o].pc = "timeout"
  /\ Goto(o, "acknowledge")
  /\ UNCHANGED <<row, proc, queue, beating, healthy, call, faults, history>>

\* except TimeoutError: only read the row.
HandleTimeout(o) ==
  /\ work[o].pc = "timeout"
  /\ EndExecute(o, row[work[o].task])
  /\ UNCHANGED <<row, proc, queue, call, faults, history>>

\* The recoverable() call at the end of execute, for its expire_leases.
Settle(o) ==
  /\ work[o].pc = "settle"
  /\ row' = Swept
  /\ Return(o)
  /\ UNCHANGED <<proc, queue, call, faults, history>>

\* A store call of execute raises.  Inside the try statement it is handled
\* like an exception of the research (or, when it is a TimeoutError, like
\* the run's deadline); elsewhere it leaves execute.
WorkerRaises(o) ==
  /\ faults < MaxFaults
  /\ faults' = faults + 1
  /\ LET t == work[o].task
         r == row[t]
         run == work[o].run
         pc == work[o].pc
     IN \/ /\ pc \in {"load", "checkpoint", "complete"}
           /\ \E handler \in {"except", "timeout"} : Goto(o, handler)
           /\ \/ row' = row
              \/ /\ pc = "complete"
                 /\ Update(t, Active(r, o, run, 0), Completed(r, run))
           /\ UNCHANGED <<beating, healthy>>
        \/ /\ pc \in {"claim", "get", "except", "fail", "acknowledge", "timeout", "settle"}
           /\ Unwound(o, "retry")
           /\ healthy' = healthy \ {o}
           /\ \/ row' = row
              \/ /\ pc = "claim"
                 /\ \E new \in Run : FreshRun(new)
                      /\ Update(t, Claimable(r), Claimed(r, o, new, LeaseTicks))
              \/ /\ pc = "fail"
                 /\ Update(t, Active(r, o, run, 0), Failed(r))
              \/ /\ pc = "acknowledge"
                 /\ Update(t, Acknowledgeable(r, o, run, 0), Canceled(r))
              \/ /\ pc = "settle"
                 /\ row' = Swept
  /\ UNCHANGED <<proc, queue, call, history>>

\* Mutant: the task that failed is not put back.
RequeueForgets(o) ==
  /\ work[o].pc = "retry"
  /\ work' = [work EXCEPT ![o] = Idle]
  /\ UNCHANGED <<row, proc, queue, beating, healthy, call, faults, history>>

\* run_worker puts the task back after retry_delay.
Requeue(o) ==
  /\ work[o].pc = "retry"
  /\ queue' = [queue EXCEPT ![o] = Append(@, work[o].task)]
  /\ work' = [work EXCEPT ![o] = Idle]
  /\ UNCHANGED <<row, proc, beating, healthy, call, faults, history>>

---------------------------------------------------------------------------

\* The steps of a worker that its event loop takes sooner or later.
WorkerStep(o) ==
  \/ Dequeue(o)
  \/ ClaimTask(o)
  \/ GetUnclaimed(o)
  \/ LoadSubmission(o)
  \/ CompleteTask(o)
  \/ HandleException(o)
  \/ FailTask(o)
  \/ AcknowledgeCancellation(o)
  \/ HandleTimeout(o)
  \/ Settle(o)
  \/ Requeue(o)

ResearchStep(o) == Checkpoint(o) \/ BeginOperation(o) \/ EndOperation(o)

CallStep(h) == SubmitReserve(h) \/ SubmitSelect(h) \/ CancelTask(h)

ProcessNext(o) ==
  \/ Start(o)
  \/ RecoverPending(o)
  \/ Crash(o)
  \/ Sweep(o)
  \/ Heartbeat(o)
  \/ HeartbeatRaises(o)
  \/ WorkerStep(o)
  \/ ResearchStep(o)
  \/ EndResearch(o)
  \/ WorkerRaises(o)
  \/ \E t \in Task : OperationSettles(o, t)

CallNext(h) ==
  \/ \E o \in Owner, t \in Task, c \in Commitment \cup {NULL} :
       Request(h, o, "submit", t, c) \/ Request(h, o, "cancel", t, c)
  \/ CallStep(h)
  \/ RequestRaises(h)

Next == Tick \/ (\E o \in Owner : ProcessNext(o)) \/ (\E h \in Call : CallNext(h))

Spec == Init /\ [][Next]_vars

\* Docker restarts the container (restart: unless-stopped), the event loop
\* runs what is ready, time passes, every serving process sweeps, and
\* asyncio.timeout ends research.  Clients, crashes, faults, heartbeats and
\* interrupted threads owe nothing.
Fairness ==
  /\ WF_vars(Tick)
  /\ \A o \in Owner : /\ WF_vars(Start(o) \/ RecoverPending(o))
                      /\ WF_vars(Sweep(o))
                      /\ WF_vars(WorkerStep(o))
                      /\ WF_vars(EndResearch(o))
  /\ \A h \in Call : WF_vars(CallStep(h))

FairSpec == Spec /\ Fairness

---------------------------------------------------------------------------
(* Properties.                                                             *)

\* Research is started at most once for a task, over redundant wakeups of
\* several processes, crashes and restarts, and store calls that raise after
\* their transaction was committed: external calls are never repeated by a
\* second run.
RunsOnce == \A t \in Task : started[t] <= 1

\* Once the run is no longer active (a cancellation was requested, or the
\* lease has passed) at most one more external operation begins: the one the
\* last successful checkpoint let through.
BoundedOvershoot == \A t \in Task : late[t] <= 1

\* A canceled task is quiet: no operation of its run is in flight or still to
\* come, not even one that an interrupted await left behind in a thread.  The
\* run's deadline and a crash leave such threads; the code answers with lease
\* expiry, never with an acknowledgement.
CanceledMeansQuiet ==
  \A t \in Task : row[t].state = "canceled" =>
    \A o \in Owner :
      /\ <<o, t>> \notin inflight
      /\ ~(work[o].task = t /\ work[o].pc \in {"op", "in_op", "complete"})

\* Work stops when the task no longer wants it.
QuietAfterEnd == BoundedOvershoot /\ CanceledMeansQuiet

\* Some process still has to claim t, or is about to recover it at its start,
\* or is missing and will be started.
Attended(t) ==
  \/ Cardinality(Running) < Replicas
  \/ \E o \in Running :
       \/ proc[o] = "starting"
       \/ t \in Range(queue[o])
       \/ work[o].task = t /\ work[o].pc \in {"claim", "retry"}

\* A client that was told "submitted" is never forgotten, although the queue
\* is in memory only and its process may crash at any step.
NoLostWakeup ==
  \A h \in Call :
    LET t == call[h].task IN
      call[h].op = "submit" /\ call[h].reply = "submitted"
        /\ row[t].state = "submitted" => Attended(t)

\* The lifecycle a client relies on, read off the table.
Lifecycle == INSTANCE TaskLifecycle WITH task <- [t \in Task |-> Visible(row[t])]

\* Workers, handlers, sweeps, restarts and faults together never take a task
\* off the lifecycle its clients rely on.
ImplementsLifecycle == Lifecycle!Spec

\* Submission is a promise: a task a client was told is submitted ends, with
\* any finite number of crashes and store faults on the way; and so does one
\* that is being worked on, whether its worker returns, raises, runs out of
\* time, loses its heartbeat or dies with its process.
TasksEnd ==
  \A t \in Task :
    \/ row[t].state = "working"
    \/ \E h \in Call :
         call[h].task = t /\ call[h].op = "submit" /\ call[h].reply = "submitted"
    ~> row[t].state \in Terminal

\* An unhealthy worker recovers: /healthz answers 503 only until the task
\* that failed has been taken up again, unless the process ends.
HealthReturns ==
  \A o \in Owner : o \notin healthy ~> (o \in healthy \/ proc[o] = "dead")

\* docs/ARCHITECTURE.md: "A transient worker/store failure is retried against
\* the durable task row".  Read strictly: a task is reported as failed
\* research only when the research itself raised.
StoreFailureIsRetried ==
  \A t \in Task : row[t].error = "research execution failed" => t \in raised

=============================================================================
