--------------------------- MODULE TaskLifecycle ---------------------------
(***************************************************************************)
(* What the durable research service promises about a task, without        *)
(* leases, clocks, processes or transactions: a message id is bound to one *)
(* submission, the submission is run at most once, and what a client reads *)
(* moves along                                                             *)
(*                                                                         *)
(*   absent -> submitted -> working -> completed | failed | canceled       *)
(*                    \-> canceled                                         *)
(*                                                                         *)
(* A cancellation of a running task is first a request; after it no        *)
(* artifact is ever published, and the task is canceled only in answer to  *)
(* a request.  A terminal task never changes.                              *)
(***************************************************************************)
CONSTANTS Task, Commitment, Run, NULL

VARIABLE task  \* what each message id stands for

\* phase     the state a client reads with GetTask
\* wanted    whether a cancellation was requested while working
\* bound     the submission the message id is bound to
\* runner    the run that was started for the task
\* published the run whose artifact is published
Nothing == [phase     |-> "absent",
            wanted    |-> FALSE,
            bound     |-> NULL,
            runner    |-> NULL,
            published |-> NULL]

Init == task = [t \in Task |-> Nothing]

---------------------------------------------------------------------------
(* The steps of one task, from a to b.                                     *)

Submit(a, b) ==
  /\ a.phase = "absent"
  /\ \E c \in Commitment : b = [a EXCEPT !.phase = "submitted", !.bound = c]

Start(a, b) ==
  /\ a.phase = "submitted"
  /\ \E r \in Run : b = [a EXCEPT !.phase = "working", !.runner = r]

RequestCancel(a, b) ==
  /\ a.phase = "working"
  /\ b = [a EXCEPT !.wanted = TRUE]

Complete(a, b) ==
  /\ a.phase = "working"
  /\ ~a.wanted
  /\ b = [a EXCEPT !.phase = "completed", !.published = a.runner]

Fail(a, b) ==
  /\ a.phase = "working"
  /\ b = [a EXCEPT !.phase = "failed"]

Cancel(a, b) ==
  /\ a.phase = "submitted" \/ (a.phase = "working" /\ a.wanted)
  /\ b = [a EXCEPT !.phase = "canceled"]

Step(a, b) ==
  \/ Submit(a, b)
  \/ Start(a, b)
  \/ RequestCancel(a, b)
  \/ Complete(a, b)
  \/ Fail(a, b)
  \/ Cancel(a, b)

\* A sweep ends several tasks at once, so several may step together.
Next ==
  /\ task' = [t \in Task |-> task'[t]]
  /\ \A t \in Task : task'[t] = task[t] \/ Step(task[t], task'[t])

Spec == Init /\ [][Next]_task

=============================================================================
