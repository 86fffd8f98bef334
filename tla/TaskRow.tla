------------------------------ MODULE TaskRow ------------------------------
(***************************************************************************)
(* One row of research_a2a_tasks and the SQL statements that               *)
(* research_agent/a2a_store.py runs against it.  A statement is a pair:    *)
(* the WHERE clause (a predicate on the row) and the VALUES it sets (the   *)
(* row afterwards).  Instants are natural numbers read from the database   *)
(* clock.  SQL NULL is the constant NULL; a comparison with it is not      *)
(* true, so every deadline test below also asks for a non-NULL deadline.   *)
(***************************************************************************)
EXTENDS Naturals

CONSTANTS
  Owner,       \* service processes; owner_id is a fresh uuid per process
  Run,         \* run ids, a fresh uuid4 per claim call
  Commitment,  \* SHA-256 digests of canonical submissions
  NULL         \* SQL NULL

ASSUME NullAssumption ==
  /\ NULL \notin Owner
  /\ NULL \notin Run
  /\ NULL \notin Commitment
  /\ NULL \notin Nat

\* "absent" stands for: the table has no row with this message_id.
State == {"absent", "submitted", "working", "completed", "failed", "canceled"}

Terminal == {"completed", "failed", "canceled"}

ErrorText == {"research execution failed", "research worker lease expired"}

\* The submission payload and the timestamps created_at and updated_at are
\* left out: no statement reads them.  The artifact is named by the run that
\* produced it.
Row == [state            : State,
        cancel_requested : BOOLEAN,
        commitment       : Commitment \cup {NULL},
        artifact         : Run \cup {NULL},
        error            : ErrorText \cup {NULL},
        run_count        : Nat,
        run_id           : Run \cup {NULL},
        lease_owner      : Owner \cup {NULL},
        lease_expires_at : Nat \cup {NULL}]

NoRow == [state            |-> "absent",
          cancel_requested |-> FALSE,
          commitment       |-> NULL,
          artifact         |-> NULL,
          error            |-> NULL,
          run_count        |-> 0,
          run_id           |-> NULL,
          lease_owner      |-> NULL,
          lease_expires_at |-> NULL]

---------------------------------------------------------------------------
(* reserve: INSERT ... ON CONFLICT (message_id) DO NOTHING.                *)

Insertable(r) == r.state = "absent"

Inserted(c) == [NoRow EXCEPT !.state = "submitted", !.commitment = c]

(* claim: the only statement that starts a run.                            *)

\* Mutant: a working row can be claimed again, as if by takeover.
ClaimableTakeover(r) == r.state \in {"submitted", "working"}

Claimable(r) == r.state = "submitted"

Claimed(r, o, run, deadline) ==
  [r EXCEPT !.state            = "working",
            !.run_count        = @ + 1,
            !.run_id           = run,
            !.lease_owner      = o,
            !.lease_expires_at = deadline]

(* The fence shared by heartbeat, _terminal_update, run_active and         *)
(* acknowledge_cancellation: the row is still this owner's and this run's, *)
(* and its deadline is still ahead of the clock.                           *)

\* Mutant: the fence without its deadline.
FencedNoDeadline(r, o, run, now) ==
  /\ r.state = "working"
  /\ r.lease_owner = o
  /\ r.run_id = run

Fenced(r, o, run, now) ==
  /\ r.state = "working"
  /\ r.lease_owner = o
  /\ r.run_id = run
  /\ r.lease_expires_at # NULL
  /\ r.lease_expires_at > now

Renewed(r, deadline) == [r EXCEPT !.lease_expires_at = deadline]

(* run_active and _terminal_update add: no cancellation was requested.     *)

\* Mutant: cancel_requested is not part of the terminal update's WHERE.
ActiveThoughCanceled(r, o, run, now) == Fenced(r, o, run, now)

Active(r, o, run, now) == Fenced(r, o, run, now) /\ ~r.cancel_requested

Unleased(r) == [r EXCEPT !.lease_owner = NULL, !.lease_expires_at = NULL]

Finished(r, state, artifact, error) ==
  [Unleased(r) EXCEPT !.state    = state,
                      !.artifact = artifact,
                      !.error    = error]

Completed(r, artifact) == Finished(r, "completed", artifact, NULL)

Failed(r) == Finished(r, "failed", NULL, "research execution failed")

(* acknowledge_cancellation: the fence, and a requested cancellation.      *)

\* Mutant: a run that was not asked to cancel can be acknowledged.
AcknowledgeableUnasked(r, o, run, now) == Fenced(r, o, run, now)

Acknowledgeable(r, o, run, now) == Fenced(r, o, run, now) /\ r.cancel_requested

Canceled(r) == [Unleased(r) EXCEPT !.state = "canceled", !.artifact = NULL]

(* The two statements of cancel.                                           *)

CancelableAtOnce(r) == r.state = "submitted"

CancelFlaggable(r) == r.state = "working"

CancelFlagged(r) == [r EXCEPT !.cancel_requested = TRUE]

(* expire_leases: an expired run fails, whoever owned it.                  *)

Expired(r, now) ==
  /\ r.state = "working"
  /\ r.lease_expires_at # NULL
  /\ r.lease_expires_at <= now

Expire(r) == [Unleased(r) EXCEPT !.state = "failed",
                                 !.error = "research worker lease expired"]

---------------------------------------------------------------------------
\* What a client can read of a row, in the terms of TaskLifecycle.
Visible(r) == [phase     |-> r.state,
               wanted    |-> r.cancel_requested,
               bound     |-> r.commitment,
               runner    |-> r.run_id,
               published |-> r.artifact]

=============================================================================
