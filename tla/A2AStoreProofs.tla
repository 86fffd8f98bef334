--------------------------- MODULE A2AStoreProofs ---------------------------
(***************************************************************************)
(* Proofs about A2AStore, for any sets of tasks, owners, runs and          *)
(* connections, any lease length and any clock bound.                      *)
(*                                                                         *)
(* The inductive invariant IInv joins what the columns of one row say      *)
(* together (Coherent), what a granted run id still means (GrantSound),    *)
(* and what the row lock protects: one writer at a time (LockExclusive)    *)
(* and a deadline that no renewal in progress would shorten                *)
(* (DeadlineWithinReach).                                                  *)
(***************************************************************************)
EXTENDS A2AStore, TLAPS

\* What the columns of one row say together.
Coherent(r) ==
  /\ r.state = "working" <=> r.lease_expires_at # NULL
  /\ r.state = "working" <=> r.lease_owner # NULL
  /\ r.artifact # NULL <=> r.state = "completed"
  /\ r.artifact # NULL => r.artifact = r.run_id
  /\ r.cancel_requested => r.state \in {"working", "failed", "canceled"}
  /\ r.state \in {"absent", "submitted"} => r.run_id = NULL
  /\ r.state \in {"working", "completed", "failed"} => r.run_id # NULL
  /\ r.run_count = IF r.run_id = NULL THEN 0 ELSE 1
  /\ r.state = "absent" => r = NoRow

\* A granted run is the run of its row, held by the owner it was granted to.
GrantSound ==
  \A g \in granted :
    /\ row[g[1]].run_id = g[3]
    /\ row[g[1]].state = "working" => row[g[1]].lease_owner = g[2]

Holds(s, t) == txn[s].op \in LockingOp /\ txn[s].task = t

LockExclusive ==
  \A s1, s2 \in Session, t \in Task : Holds(s1, t) /\ Holds(s2, t) => s1 = s2

\* No deadline is further away than a lease, counted from now or from the
\* reading of a connection that holds the row.
DeadlineWithinReach ==
  \A t \in Task : row[t].lease_expires_at # NULL =>
    /\ row[t].lease_expires_at <= clock + LeaseSeconds
    /\ \A s \in Session :
         Holds(s, t) => row[t].lease_expires_at <= txn[s].now + LeaseSeconds

\* A reading is in the past, and an open transaction names a real caller.
TxnSound ==
  \A s \in Session :
    /\ txn[s].now <= clock
    /\ txn[s].op # "idle" => txn[s].task \in Task
    /\ txn[s].op \in LockingOp => txn[s].owner \in Owner /\ txn[s].run \in Run

\* Between the two statements of cancel the task has left "submitted" for good.
CancelSound ==
  \A s \in Session :
    txn[s].op = "cancel" => row[txn[s].task].state \in Terminal \cup {"working"}

IInv ==
  /\ TypeOK
  /\ \A t \in Task : Coherent(row[t])
  /\ GrantSound
  /\ LockExclusive
  /\ DeadlineWithinReach
  /\ TxnSound
  /\ CancelSound

\* The ways a statement changes a row from r to n, at instant now.
RowChange(r, n, now) ==
  \/ Insertable(r) /\ \E c \in Commitment : n = Inserted(c)
  \/ /\ Claimable(r)
     /\ \E o \in Owner, run \in Run, d \in Nat : n = Claimed(r, o, run, d)
  \/ /\ \E o \in Owner, run \in Run : Fenced(r, o, run, now)
     /\ \E d \in Nat : d >= r.lease_expires_at /\ n = Renewed(r, d)
  \/ \E o \in Owner, run \in Run : Active(r, o, run, now) /\ n = Completed(r, run)
  \/ (\E o \in Owner, run \in Run : Active(r, o, run, now)) /\ n = Failed(r)
  \/ /\ \E o \in Owner, run \in Run : Acknowledgeable(r, o, run, now)
     /\ n = Canceled(r)
  \/ CancelableAtOnce(r) /\ n = Canceled(r)
  \/ CancelFlaggable(r) /\ n = CancelFlagged(r)
  \/ Expired(r, now) /\ n = Expire(r)

---------------------------------------------------------------------------
(* The statements, one row at a time.                                      *)

\* A changed row is again a row of the table.
LEMMA ChangeTyped ==
  ASSUME NEW r \in Row, NEW n, NEW now \in Nat, RowChange(r, n, now)
  PROVE  n \in Row
<1>1. CASE Insertable(r) /\ \E c \in Commitment : n = Inserted(c)
  <2>1. PICK c \in Commitment : n = Inserted(c)
    BY <1>1
  <2>2. NoRow \in Row
    BY DEF NoRow, Row, State
  <2> QED
    BY <2>1, <2>2 DEF Row, State, Inserted
<1>2. CASE /\ Claimable(r)
           /\ \E o \in Owner, run \in Run, d \in Nat : n = Claimed(r, o, run, d)
  <2>1. PICK o \in Owner, run \in Run, d \in Nat : n = Claimed(r, o, run, d)
    BY <1>2
  <2>2. r.run_count + 1 \in Nat
    BY DEF Row
  <2> QED
    BY <2>1, <2>2 DEF Row, State, Claimed
<1>3. CASE \E d \in Nat : d >= r.lease_expires_at /\ n = Renewed(r, d)
  BY <1>3 DEF Row, Renewed
<1>4. CASE \E o \in Owner, run \in Run :
             Active(r, o, run, now) /\ n = Completed(r, run)
  BY <1>4 DEF Row, State, Completed, Finished, Unleased
<1>5. CASE n = Failed(r)
  BY <1>5 DEF Row, State, ErrorText, Failed, Finished, Unleased
<1>6. CASE n = Canceled(r)
  BY <1>6 DEF Row, State, Canceled, Unleased
<1>7. CASE n = CancelFlagged(r)
  BY <1>7 DEF Row, CancelFlagged
<1>8. CASE n = Expire(r)
  BY <1>8 DEF Row, State, ErrorText, Expire, Unleased
<1> QED
  BY <1>1, <1>2, <1>3, <1>4, <1>5, <1>6, <1>7, <1>8 DEF RowChange

\* No statement takes a row out of coherence.
LEMMA ChangeCoherent ==
  ASSUME NEW r \in Row, NEW n, NEW now \in Nat, RowChange(r, n, now), Coherent(r)
  PROVE  Coherent(n)
<1> USE NullAssumption DEF Coherent, Row, Unleased
<1>1. CASE Insertable(r) /\ \E c \in Commitment : n = Inserted(c)
  BY <1>1 DEF Inserted, NoRow
<1>2. CASE /\ Claimable(r)
           /\ \E o \in Owner, run \in Run, d \in Nat : n = Claimed(r, o, run, d)
  BY <1>2 DEF Claimable, Claimed
<1>3. CASE /\ \E o \in Owner, run \in Run : Fenced(r, o, run, now)
           /\ \E d \in Nat : d >= r.lease_expires_at /\ n = Renewed(r, d)
  BY <1>3 DEF Fenced, Renewed
<1>4. CASE \E o \in Owner, run \in Run :
             Active(r, o, run, now) /\ n = Completed(r, run)
  BY <1>4 DEF Active, Fenced, Completed, Finished
<1>5. CASE (\E o \in Owner, run \in Run : Active(r, o, run, now)) /\ n = Failed(r)
  BY <1>5 DEF Active, Fenced, Failed, Finished
<1>6. CASE /\ \E o \in Owner, run \in Run : Acknowledgeable(r, o, run, now)
           /\ n = Canceled(r)
  BY <1>6 DEF Acknowledgeable, Fenced, Canceled
<1>7. CASE CancelableAtOnce(r) /\ n = Canceled(r)
  BY <1>7 DEF CancelableAtOnce, Canceled
<1>8. CASE CancelFlaggable(r) /\ n = CancelFlagged(r)
  BY <1>8 DEF CancelFlaggable, CancelFlagged
<1>9. CASE Expired(r, now) /\ n = Expire(r)
  BY <1>9 DEF Expired, Expire
<1> QED
  BY <1>1, <1>2, <1>3, <1>4, <1>5, <1>6, <1>7, <1>8, <1>9 DEF RowChange

\* A row keeps its run for ever, and its holder while it is working.
LEMMA ChangeKeepsRun ==
  ASSUME NEW r \in Row, NEW n, NEW now \in Nat, RowChange(r, n, now), Coherent(r),
         r.run_id # NULL
  PROVE  /\ n.run_id = r.run_id
         /\ n.state = "working" => /\ r.state = "working"
                                   /\ n.lease_owner = r.lease_owner
<1> USE NullAssumption DEF Row, Unleased
<1>1. ~Insertable(r) /\ ~Claimable(r) /\ ~CancelableAtOnce(r)
  BY DEF Coherent, Insertable, Claimable, CancelableAtOnce
<1>2. CASE /\ \E o \in Owner, run \in Run : Fenced(r, o, run, now)
           /\ \E d \in Nat : d >= r.lease_expires_at /\ n = Renewed(r, d)
  BY <1>2 DEF Fenced, Renewed
<1>3. CASE \E o \in Owner, run \in Run :
             Active(r, o, run, now) /\ n = Completed(r, run)
  BY <1>3 DEF Completed, Finished
<1>4. CASE n = Failed(r)
  BY <1>4 DEF Failed, Finished
<1>5. CASE n = Canceled(r)
  BY <1>5 DEF Canceled
<1>6. CASE CancelFlaggable(r) /\ n = CancelFlagged(r)
  BY <1>6 DEF CancelFlaggable, CancelFlagged
<1>7. CASE n = Expire(r)
  BY <1>7 DEF Expire
<1> QED
  BY <1>1, <1>2, <1>3, <1>4, <1>5, <1>6, <1>7 DEF RowChange

---------------------------------------------------------------------------
(* The transactions.                                                       *)

\* A step of the store changes the table by statements on single rows.
LEMMA StepChanges ==
  ASSUME IInv, [Next]_vars
  PROVE  /\ row' = [t \in Task |-> row'[t]]
         /\ \A t \in Task :
              row'[t] = row[t] \/ RowChange(row[t], row'[t], clock)
<1> USE DEF IInv, TypeOK
<1>a. \A s \in Session, t \in Task :
        Holds(s, t) => /\ txn[s].owner \in Owner
                       /\ txn[s].run \in Run
                       /\ txn[s].now \in Nat
                       /\ row[t] \in Row
                       /\ row[t].lease_expires_at # NULL =>
                            row[t].lease_expires_at <= txn[s].now + LeaseSeconds
  BY DEF Holds, TxnSound, DeadlineWithinReach, Txn
<1>b. \A s \in Session : txn[s].op \in LockingOp => Holds(s, txn[s].task)
                                                     /\ txn[s].task \in Task
  BY DEF Holds, TxnSound, LockingOp, FencedOp
<1>1. CASE UNCHANGED row
  BY <1>1
<1>2. ASSUME NEW t \in Task, NEW c \in Commitment, Reserve(t, c)
      PROVE  /\ row' = [u \in Task |-> row'[u]]
             /\ \A u \in Task : row'[u] = row[u] \/ RowChange(row[u], row'[u], clock)
  BY <1>2 DEF Reserve, RowChange
<1>3. ASSUME NEW t \in Task, ExpireLease(t)
      PROVE  /\ row' = [u \in Task |-> row'[u]]
             /\ \A u \in Task : row'[u] = row[u] \/ RowChange(row[u], row'[u], clock)
  BY <1>3 DEF ExpireLease, RowChange
<1>4. ASSUME NEW s \in Session, NEW t \in Task, CancelSubmitted(s, t)
      PROVE  /\ row' = [u \in Task |-> row'[u]]
             /\ \A u \in Task : row'[u] = row[u] \/ RowChange(row[u], row'[u], clock)
  BY <1>4 DEF CancelSubmitted, RowChange
<1>5. ASSUME NEW s \in Session, CancelWorking(s)
      PROVE  /\ row' = [u \in Task |-> row'[u]]
             /\ \A u \in Task : row'[u] = row[u] \/ RowChange(row[u], row'[u], clock)
  BY <1>5 DEF CancelWorking, Commit, RowChange, TxnSound
<1>6. ASSUME NEW s \in Session, Claim(s)
      PROVE  /\ row' = [u \in Task |-> row'[u]]
             /\ \A u \in Task : row'[u] = row[u] \/ RowChange(row[u], row'[u], clock)
  <2>1. txn[s].now + LeaseSeconds \in Nat
    BY StoreAssumption, <1>6, <1>a, <1>b DEF Claim, Commit, LockingOp
  <2> QED
    BY <2>1, <1>6, <1>a, <1>b DEF Claim, Commit, RowChange, LockingOp
<1>7. ASSUME NEW s \in Session, Heartbeat(s)
      PROVE  /\ row' = [u \in Task |-> row'[u]]
             /\ \A u \in Task : row'[u] = row[u] \/ RowChange(row[u], row'[u], clock)
  <2> DEFINE r == row[txn[s].task]
             d == txn[s].now + LeaseSeconds
  <2>1. /\ Holds(s, txn[s].task)
        /\ txn[s].task \in Task
    BY <1>7, <1>b DEF Heartbeat, Commit, LockingOp, FencedOp
  <2>2. d \in Nat
    BY StoreAssumption, <2>1, <1>a
  <2>3. CASE Fenced(r, txn[s].owner, txn[s].run, clock)
    <3>1. d >= r.lease_expires_at
      BY <2>1, <2>2, <2>3, <1>a DEF Fenced, Row
    <3>2. row' = [row EXCEPT ![txn[s].task] = Renewed(r, d)]
      BY <1>7, <2>3 DEF Heartbeat, Commit
    <3>3. RowChange(r, Renewed(r, d), clock)
      BY <2>1, <2>2, <2>3, <3>1, <1>a DEF RowChange
    <3> HIDE DEF r, d
    <3> QED
      BY <2>1, <3>2, <3>3 DEF r
  <2>4. CASE ~Fenced(r, txn[s].owner, txn[s].run, clock)
    BY <1>7, <2>4 DEF Heartbeat, Commit
  <2> QED
    BY <2>3, <2>4
<1>8. ASSUME NEW s \in Session, Complete(s)
      PROVE  /\ row' = [u \in Task |-> row'[u]]
             /\ \A u \in Task : row'[u] = row[u] \/ RowChange(row[u], row'[u], clock)
  BY <1>8, <1>a, <1>b DEF Complete, Commit, RowChange, LockingOp, FencedOp
<1>9. ASSUME NEW s \in Session, Fail(s)
      PROVE  /\ row' = [u \in Task |-> row'[u]]
             /\ \A u \in Task : row'[u] = row[u] \/ RowChange(row[u], row'[u], clock)
  BY <1>9, <1>a, <1>b DEF Fail, Commit, RowChange, LockingOp, FencedOp
<1>10. ASSUME NEW s \in Session, Acknowledge(s)
       PROVE  /\ row' = [u \in Task |-> row'[u]]
              /\ \A u \in Task : row'[u] = row[u] \/ RowChange(row[u], row'[u], clock)
  BY <1>10, <1>a, <1>b DEF Acknowledge, Commit, RowChange, LockingOp, FencedOp
<1>11. ASSUME NEW s \in Session, RunActive(s)
       PROVE  UNCHANGED row
  BY <1>11 DEF RunActive, Commit
<1> QED
  BY <1>1, <1>2, <1>3, <1>4, <1>5, <1>6, <1>7, <1>8, <1>9, <1>10, <1>11
     DEF Next, vars, Tick, LockTask, Rollback

---------------------------------------------------------------------------
(* The invariant is inductive: one lemma per conjunct.                     *)

\* An empty table satisfies the invariant.
LEMMA InitIInv == Init => IInv
<1> SUFFICES ASSUME Init PROVE IInv
  OBVIOUS
<1> USE NullAssumption DEF Init
<1>1. NoRow \in Row /\ Coherent(NoRow)
  BY DEF NoRow, Row, State, Coherent
<1>2. NoTxn \in Txn
  BY DEF NoTxn, Txn
<1>3. TypeOK
  BY <1>1, <1>2 DEF TypeOK
<1>4. \A s \in Session, t \in Task : ~Holds(s, t)
  BY DEF Holds, NoTxn, LockingOp, FencedOp
<1>5. TxnSound
  BY DEF TxnSound, NoTxn, LockingOp, FencedOp
<1>6. DeadlineWithinReach
  BY DEF DeadlineWithinReach, NoRow
<1>7. CancelSound
  BY DEF CancelSound, NoTxn
<1> QED
  BY <1>1, <1>3, <1>4, <1>5, <1>6, <1>7 DEF IInv, GrantSound, LockExclusive

\* The clock moves alone, and a step opens or closes one transaction.
LEMMA TxnChanges ==
  ASSUME [Next]_vars
  PROVE  \/ clock' = clock + 1 /\ UNCHANGED <<row, txn, granted>>
         \/ /\ clock' = clock
            /\ \/ txn' = txn
               \/ \E s \in Session : txn' = [txn EXCEPT ![s] = NoTxn]
               \/ \E s \in Session, op \in LockingOp, t \in Task, o \in Owner,
                     run \in Run :
                    LockTask(s, op, t, o, run)
               \/ /\ row' = row
                  /\ \E s \in Session, t \in Task :
                       txn' = [txn EXCEPT ![s] = [NoTxn EXCEPT !.op = "cancel",
                                                               !.task = t]]
<1>1. CASE Tick
  BY <1>1 DEF Tick
<1>2. ASSUME NEW s \in Session,
             \/ Claim(s) \/ Heartbeat(s) \/ Complete(s) \/ Fail(s)
             \/ Acknowledge(s) \/ RunActive(s) \/ CancelWorking(s) \/ Rollback(s)
      PROVE  clock' = clock /\ txn' = [txn EXCEPT ![s] = NoTxn]
  BY <1>2 DEF Claim, Heartbeat, Complete, Fail, Acknowledge, RunActive,
              CancelWorking, Rollback, Commit
<1>3. ASSUME NEW t \in Task,
             (\E c \in Commitment : Reserve(t, c)) \/ ExpireLease(t)
      PROVE  clock' = clock /\ txn' = txn
  BY <1>3 DEF Reserve, ExpireLease
<1>4. ASSUME NEW s \in Session, NEW t \in Task, CancelSubmitted(s, t)
      PROVE  /\ clock' = clock
             /\ \/ txn' = txn
                \/ /\ row' = row
                   /\ txn' = [txn EXCEPT ![s] = [NoTxn EXCEPT !.op = "cancel",
                                                              !.task = t]]
  BY <1>4 DEF CancelSubmitted
<1>5. ASSUME NEW s \in Session, NEW op \in LockingOp, NEW t \in Task,
             NEW o \in Owner, NEW run \in Run, LockTask(s, op, t, o, run)
      PROVE  clock' = clock
  BY <1>5 DEF LockTask
<1>6. CASE UNCHANGED vars
  BY <1>6 DEF vars
<1> QED
  BY <1>1, <1>2, <1>3, <1>4, <1>5, <1>6 DEF Next

\* A step keeps every variable in its type.
LEMMA TypeStep ==
  ASSUME IInv, [Next]_vars
  PROVE  TypeOK'
<1> USE DEF IInv, TypeOK
<1>1. row' \in [Task -> Row]
  BY StepChanges, ChangeTyped
<1>2. clock' \in Nat
  <2>1. clock' = clock + 1 \/ clock' = clock
    BY TxnChanges, Zenon
  <2> QED
    BY <2>1
<1>3. txn' \in [Session -> Txn]
  <2>1. NoTxn \in Txn
    BY DEF NoTxn, Txn
  <2>2. ASSUME NEW s \in Session, txn' = [txn EXCEPT ![s] = NoTxn]
        PROVE  txn' \in [Session -> Txn]
    BY <2>1, <2>2
  <2>3. ASSUME NEW s \in Session, NEW op \in LockingOp, NEW t \in Task,
               NEW o \in Owner, NEW run \in Run, LockTask(s, op, t, o, run)
        PROVE  txn' \in [Session -> Txn]
    BY <2>3 DEF LockTask, Txn
  <2>4. \A t \in Task : [NoTxn EXCEPT !.op = "cancel", !.task = t] \in Txn
    BY <2>1 DEF Txn
  <2> QED
    BY <2>2, <2>3, <2>4, TxnChanges
<1>4. granted' \subseteq Task \X Owner \X Run
  <2>1. ASSUME NEW s \in Session, Claim(s)
        PROVE  granted' \subseteq Task \X Owner \X Run
    BY <2>1 DEF Claim, Commit, TxnSound, LockingOp
  <2> QED
    BY <2>1 DEF Next, vars, Tick, Reserve, LockTask, Heartbeat, Complete,
         Fail, Acknowledge, RunActive, CancelSubmitted, CancelWorking, ExpireLease,
         Rollback
<1> QED
  BY <1>1, <1>2, <1>3, <1>4

\* A step keeps every row coherent.
LEMMA CoherentStep ==
  ASSUME IInv, [Next]_vars
  PROVE  \A t \in Task : Coherent(row'[t])
BY StepChanges, ChangeCoherent DEF IInv, TypeOK

\* A step keeps every grant bound to its row, and claim adds a sound one.
LEMMA GrantStep ==
  ASSUME IInv, [Next]_vars
  PROVE  GrantSound'
<1> USE NullAssumption DEF IInv, TypeOK
<1>1. \A g \in granted : /\ g[1] \in Task
                         /\ g[2] \in Owner
                         /\ g[3] \in Run
  OBVIOUS
<1>2. ASSUME NEW g \in granted
      PROVE  /\ row'[g[1]].run_id = g[3]
             /\ row'[g[1]].state = "working" => row'[g[1]].lease_owner = g[2]
  <2>1. /\ row[g[1]].run_id = g[3]
        /\ row[g[1]].state = "working" => row[g[1]].lease_owner = g[2]
        /\ row[g[1]].run_id # NULL
    BY <1>1 DEF GrantSound
  <2>2. CASE row'[g[1]] = row[g[1]]
    BY <2>1, <2>2
  <2>3. CASE RowChange(row[g[1]], row'[g[1]], clock)
    BY <1>1, <2>1, <2>3, ChangeKeepsRun
  <2> QED
    BY <1>1, <2>2, <2>3, StepChanges
<1>3. ASSUME NEW s \in Session, Claim(s)
      PROVE  GrantSound'
  <2> DEFINE x == txn[s]
             r == row[x.task]
  <2>1. x.task \in Task /\ x.owner \in Owner /\ x.run \in Run
    BY <1>3 DEF Claim, Commit, TxnSound, LockingOp
  <2>2. CASE Claimable(r)
    <3>1. /\ granted' = granted \cup {<<x.task, x.owner, x.run>>}
          /\ row'[x.task] = Claimed(r, x.owner, x.run, x.now + LeaseSeconds)
      BY <1>3, <2>1, <2>2 DEF Claim, Commit
    <3>2. /\ row'[x.task].run_id = x.run
          /\ row'[x.task].lease_owner = x.owner
      BY <2>1, <3>1 DEF Claimed, Row
    <3> QED
      BY <1>2, <3>1, <3>2 DEF GrantSound
  <2>3. CASE ~Claimable(r)
    BY <1>2, <1>3, <2>3 DEF Claim, GrantSound
  <2> QED
    BY <2>2, <2>3
<1>4. CASE granted' = granted
  BY <1>2, <1>4 DEF GrantSound
<1> QED
  BY <1>3, <1>4
     DEF Next, vars, Tick, Reserve, LockTask, Heartbeat, Complete, Fail, Acknowledge,
         RunActive, CancelSubmitted, CancelWorking, ExpireLease, Rollback

\* A row lock is either held on, or taken now, from nobody, with a fresh
\* reading of the clock and before anything is written.
LEMMA LockTaken ==
  ASSUME IInv, [Next]_vars, NEW s \in Session, NEW t \in Task, Holds(s, t)'
  PROVE  \/ Holds(s, t) /\ txn'[s] = txn[s]
         \/ /\ ~Locked(t)
            /\ row' = row
            /\ clock' = clock
            /\ txn'[s].now = clock
            /\ txn'[s].owner \in Owner
            /\ txn'[s].run \in Run
            /\ \A u \in Session : u # s => txn'[u] = txn[u]
<1> USE DEF IInv, TypeOK
<1>0. /\ \A k \in LockingOp : k # "idle" /\ k # "cancel"
      /\ NoTxn.op = "idle"
  BY DEF LockingOp, FencedOp, NoTxn
<1>1. CASE txn' = txn
  BY <1>1 DEF Holds
<1>2. ASSUME NEW u \in Session, txn' = [txn EXCEPT ![u] = NoTxn]
      PROVE  Holds(s, t) /\ txn'[s] = txn[s]
  <2>1. s # u
    BY <1>0, <1>2 DEF Holds
  <2> QED
    BY <1>2, <2>1 DEF Holds
<1>3. ASSUME NEW u \in Session, NEW op \in LockingOp, NEW v \in Task,
             NEW o \in Owner, NEW run \in Run, LockTask(u, op, v, o, run)
      PROVE  \/ Holds(s, t) /\ txn'[s] = txn[s]
             \/ /\ ~Locked(t)
                /\ row' = row
                /\ clock' = clock
                /\ txn'[s].now = clock
                /\ txn'[s].owner \in Owner
                /\ txn'[s].run \in Run
                /\ \A w \in Session : w # s => txn'[w] = txn[w]
  <2>1. CASE s = u
    <3>1. txn'[s] = [op |-> op, task |-> v, owner |-> o, run |-> run, now |-> clock]
      BY <1>3, <2>1 DEF LockTask
    <3>2. v = t
      BY <3>1 DEF Holds
    <3> QED
      BY <1>3, <2>1, <3>1, <3>2 DEF LockTask
  <2>2. CASE s # u
    BY <1>3, <2>2 DEF LockTask, Holds
  <2> QED
    BY <2>1, <2>2
<1>4. ASSUME NEW u \in Session, NEW v \in Task,
             txn' = [txn EXCEPT ![u] = [NoTxn EXCEPT !.op = "cancel", !.task = v]]
      PROVE  Holds(s, t) /\ txn'[s] = txn[s]
  <2>1. [NoTxn EXCEPT !.op = "cancel", !.task = v].op = "cancel"
    BY DEF NoTxn
  <2>2. s # u
    BY <1>0, <1>4, <2>1 DEF Holds
  <2> QED
    BY <1>4, <2>2 DEF Holds
<1> QED
  BY <1>1, <1>2, <1>3, <1>4, TxnChanges

\* A step never gives one row lock to two connections.
LEMMA LockStep ==
  ASSUME IInv, [Next]_vars
  PROVE  LockExclusive'
<1> SUFFICES ASSUME NEW s1 \in Session, NEW s2 \in Session, NEW t \in Task,
                    Holds(s1, t)', Holds(s2, t)', s1 # s2
             PROVE  FALSE
  BY DEF LockExclusive
<1>1. CASE Holds(s1, t) /\ Holds(s2, t)
  BY <1>1 DEF IInv, LockExclusive
<1>2. CASE ~Holds(s1, t)
  <2>1. ~Locked(t) /\ txn'[s2] = txn[s2]
    BY <1>2, LockTaken
  <2> QED
    BY <2>1 DEF Holds, Locked
<1>3. CASE ~Holds(s2, t)
  <2>1. ~Locked(t) /\ txn'[s1] = txn[s1]
    BY <1>3, LockTaken
  <2> QED
    BY <2>1 DEF Holds, Locked
<1> QED
  BY <1>1, <1>2, <1>3

\* A step leaves every reading in the past and every caller real.
LEMMA TxnStep ==
  ASSUME IInv, [Next]_vars
  PROVE  TxnSound'
<1> USE DEF IInv, TypeOK
<1>1. clock' \in Nat /\ clock' >= clock
  <2>1. clock' = clock + 1 \/ clock' = clock
    BY TxnChanges, Zenon
  <2> QED
    BY <2>1
<1>2. ASSUME NEW s \in Session
      PROVE  /\ txn'[s].now <= clock'
             /\ txn'[s].op # "idle" => txn'[s].task \in Task
             /\ txn'[s].op \in LockingOp => /\ txn'[s].owner \in Owner
                                            /\ txn'[s].run \in Run
  <2>1. CASE txn'[s] = txn[s]
    BY <1>1, <2>1 DEF TxnSound, Txn
  <2>2. CASE txn'[s] = NoTxn
    BY <1>1, <2>2 DEF NoTxn, LockingOp, FencedOp
  <2>3. CASE \E t \in Task : txn'[s] = [NoTxn EXCEPT !.op = "cancel", !.task = t]
    BY <1>1, <2>3 DEF NoTxn, LockingOp, FencedOp
  <2>4. ASSUME NEW op \in LockingOp, NEW t \in Task, NEW o \in Owner, NEW run \in Run,
               LockTask(s, op, t, o, run)
        PROVE  /\ txn'[s].now <= clock'
               /\ txn'[s].op # "idle" => txn'[s].task \in Task
               /\ txn'[s].op \in LockingOp => /\ txn'[s].owner \in Owner
                                              /\ txn'[s].run \in Run
    BY <2>4 DEF LockTask
  <2>5. ASSUME NEW u \in Session, NEW op \in LockingOp, NEW t \in Task,
               NEW o \in Owner, NEW run \in Run, LockTask(u, op, t, o, run), u # s
        PROVE  txn'[s] = txn[s]
    BY <2>5 DEF LockTask
  <2> QED
    BY <2>1, <2>2, <2>3, <2>4, <2>5, TxnChanges
<1> QED
  BY <1>2 DEF TxnSound

\* Only the connection that holds the row sets a deadline: its own reading of
\* the clock plus a lease.
LEMMA DeadlineChanges ==
  ASSUME IInv, [Next]_vars, NEW t \in Task
  PROVE  \/ row'[t].lease_expires_at \in {row[t].lease_expires_at, NULL}
         \/ /\ clock' = clock
            /\ \E u \in Session :
                 /\ Holds(u, t)
                 /\ txn'[u] = NoTxn
                 /\ row'[t].lease_expires_at = txn[u].now + LeaseSeconds
<1> USE DEF IInv, TypeOK
<1>0. row[t] \in Row
  OBVIOUS
<1>1. ASSUME NEW u \in Session, NEW op \in {"claim", "heartbeat"}, NEW where, NEW new,
             Commit(u, op, where, new),
             where /\ txn[u].task = t =>
               new.lease_expires_at = txn[u].now + LeaseSeconds
      PROVE  \/ row'[t].lease_expires_at = row[t].lease_expires_at
             \/ /\ clock' = clock
                /\ \E v \in Session :
                     /\ Holds(v, t)
                     /\ txn'[v] = NoTxn
                     /\ row'[t].lease_expires_at = txn[v].now + LeaseSeconds
  <2>1. CASE row'[t] = row[t]
    BY <2>1
  <2>2. CASE row'[t] # row[t]
    <3>1. where /\ txn[u].task = t /\ row'[t] = new
      BY <1>1, <2>2 DEF Commit
    <3>2. Holds(u, t) /\ txn'[u] = NoTxn /\ clock' = clock
      BY <1>1, <3>1 DEF Holds, Commit, LockingOp, FencedOp
    <3> QED
      BY <1>1, <3>1, <3>2
  <2> QED
    BY <2>1, <2>2
<1>2. ASSUME NEW u \in Session, Claim(u)
      PROVE  \/ row'[t].lease_expires_at = row[t].lease_expires_at
             \/ /\ clock' = clock
                /\ \E v \in Session :
                     /\ Holds(v, t)
                     /\ txn'[v] = NoTxn
                     /\ row'[t].lease_expires_at = txn[v].now + LeaseSeconds
  <2> DEFINE new == Claimed(row[txn[u].task], txn[u].owner, txn[u].run,
                            txn[u].now + LeaseSeconds)
  <2>1. Commit(u, "claim", Claimable(row[txn[u].task]), new)
    BY <1>2 DEF Claim
  <2>2. txn[u].task = t => new.lease_expires_at = txn[u].now + LeaseSeconds
    BY <1>0 DEF Claimed, Row
  <2> QED
    BY <1>1, <2>1, <2>2
<1>3. ASSUME NEW u \in Session, Heartbeat(u)
      PROVE  \/ row'[t].lease_expires_at = row[t].lease_expires_at
             \/ /\ clock' = clock
                /\ \E v \in Session :
                     /\ Holds(v, t)
                     /\ txn'[v] = NoTxn
                     /\ row'[t].lease_expires_at = txn[v].now + LeaseSeconds
  <2> DEFINE new == Renewed(row[txn[u].task], txn[u].now + LeaseSeconds)
  <2>1. Commit(u, "heartbeat",
               Fenced(row[txn[u].task], txn[u].owner, txn[u].run, clock), new)
    BY <1>3 DEF Heartbeat
  <2>2. txn[u].task = t => new.lease_expires_at = txn[u].now + LeaseSeconds
    BY <1>0 DEF Renewed, Row
  <2> QED
    BY <1>1, <2>1, <2>2
<1>4. ASSUME NEW u \in Session, Complete(u) \/ Fail(u) \/ Acknowledge(u)
      PROVE  row'[t].lease_expires_at \in {row[t].lease_expires_at, NULL}
  <2>1. CASE Complete(u)
    BY <1>0, <2>1 DEF Complete, Commit, Completed, Finished, Unleased, Row
  <2>2. CASE Fail(u)
    BY <1>0, <2>2 DEF Fail, Commit, Failed, Finished, Unleased, Row
  <2>3. CASE Acknowledge(u)
    BY <1>0, <2>3 DEF Acknowledge, Commit, Canceled, Unleased, Row
  <2> QED
    BY <1>4, <2>1, <2>2, <2>3
<1>5. ASSUME NEW u \in Session, CancelWorking(u)
      PROVE  row'[t].lease_expires_at = row[t].lease_expires_at
  BY <1>0, <1>5 DEF CancelWorking, Commit, CancelFlagged, Row
<1>6. ASSUME NEW u \in Session, NEW v \in Task, CancelSubmitted(u, v)
      PROVE  row'[t].lease_expires_at \in {row[t].lease_expires_at, NULL}
  BY <1>0, <1>6 DEF CancelSubmitted, Canceled, Unleased, Row
<1>7. ASSUME NEW v \in Task, (\E c \in Commitment : Reserve(v, c)) \/ ExpireLease(v)
      PROVE  row'[t].lease_expires_at \in {row[t].lease_expires_at, NULL}
  BY <1>0, <1>7 DEF Reserve, Inserted, NoRow, ExpireLease, Expire, Unleased, Row
<1>8. CASE UNCHANGED row
  BY <1>8
<1>9. ASSUME NEW u \in Session, RunActive(u)
      PROVE  UNCHANGED row
  BY <1>9 DEF RunActive, Commit
<1> QED
  BY <1>2, <1>3, <1>4, <1>5, <1>6, <1>7, <1>8, <1>9
     DEF Next, vars, Tick, LockTask, Rollback

\* A step keeps every deadline within a lease of now and of its lock holder.
LEMMA DeadlineStep ==
  ASSUME IInv, [Next]_vars
  PROVE  DeadlineWithinReach'
<1> USE NullAssumption, StoreAssumption DEF IInv, TypeOK
<1>1. /\ clock \in Nat
      /\ clock' = clock + 1 \/ clock' = clock
      /\ \A s \in Session : txn[s].now \in Nat /\ txn[s].now <= clock
      /\ \A t \in Task : row[t].lease_expires_at \in Nat \cup {NULL}
  <2>1. clock' = clock + 1 \/ clock' = clock
    BY TxnChanges, Zenon
  <2> QED
    BY <2>1 DEF TxnSound, Txn, Row
<1> SUFFICES ASSUME NEW t \in Task, row'[t].lease_expires_at # NULL
             PROVE  /\ row'[t].lease_expires_at <= clock' + LeaseSeconds
                    /\ \A s \in Session : Holds(s, t)' =>
                         row'[t].lease_expires_at <= txn'[s].now + LeaseSeconds
  BY DEF DeadlineWithinReach
<1>2. CASE row'[t].lease_expires_at = row[t].lease_expires_at
  <2>1. /\ row[t].lease_expires_at <= clock + LeaseSeconds
        /\ \A s \in Session : Holds(s, t) =>
             row[t].lease_expires_at <= txn[s].now + LeaseSeconds
    BY <1>2 DEF DeadlineWithinReach
  <2>2. row[t].lease_expires_at <= clock' + LeaseSeconds
    BY <1>1, <1>2, <2>1
  <2>3. ASSUME NEW s \in Session, Holds(s, t)'
        PROVE  row[t].lease_expires_at <= txn'[s].now + LeaseSeconds
    BY <2>1, <2>3, LockTaken
  <2> QED
    BY <1>2, <2>2, <2>3
<1>3. CASE /\ clock' = clock
           /\ \E u \in Session :
                /\ Holds(u, t)
                /\ txn'[u] = NoTxn
                /\ row'[t].lease_expires_at = txn[u].now + LeaseSeconds
  <2>1. PICK u \in Session :
               /\ Holds(u, t)
               /\ txn'[u] = NoTxn
               /\ row'[t].lease_expires_at = txn[u].now + LeaseSeconds
    BY <1>3
  <2>2. row'[t].lease_expires_at <= clock' + LeaseSeconds
    BY <1>1, <1>3, <2>1
  <2>3. \A s \in Session : ~Holds(s, t)'
    <3> SUFFICES ASSUME NEW s \in Session, Holds(s, t)'
                 PROVE  FALSE
      OBVIOUS
    <3>1. s # u
      BY <2>1 DEF Holds, NoTxn, LockingOp, FencedOp
    <3>2. ~Holds(s, t)
      BY <2>1, <3>1 DEF LockExclusive
    <3>3. ~Locked(t)
      BY <3>2, LockTaken
    <3> QED
      BY <2>1, <3>3 DEF Holds, Locked
  <2> QED
    BY <2>2, <2>3
<1> QED
  BY <1>2, <1>3, DeadlineChanges

\* A row that has left "submitted" never comes back to it.
LEMMA ChangeNeverBack ==
  ASSUME NEW r \in Row, NEW n, NEW now \in Nat, RowChange(r, n, now),
         r.state \in Terminal \cup {"working"}
  PROVE  n.state \in Terminal \cup {"working"}
<1> USE DEF Row, Unleased, Terminal
<1>1. ~Insertable(r) /\ ~Claimable(r) /\ ~CancelableAtOnce(r)
  BY DEF Insertable, Claimable, CancelableAtOnce
<1>2. CASE \E d \in Nat : n = Renewed(r, d)
  BY <1>2 DEF Renewed
<1>3. CASE \E run \in Run : n = Completed(r, run)
  BY <1>3 DEF Completed, Finished
<1>4. CASE n = Failed(r)
  BY <1>4 DEF Failed, Finished
<1>5. CASE n = Canceled(r)
  BY <1>5 DEF Canceled
<1>6. CASE n = CancelFlagged(r)
  BY <1>6 DEF CancelFlagged
<1>7. CASE n = Expire(r)
  BY <1>7 DEF Expire
<1> QED
  BY <1>1, <1>2, <1>3, <1>4, <1>5, <1>6, <1>7 DEF RowChange

\* A step never takes a half-canceled task back to submitted.
LEMMA CancelStep ==
  ASSUME IInv, [Next]_vars
  PROVE  CancelSound'
<1> USE DEF IInv, TypeOK
<1> SUFFICES ASSUME NEW s \in Session, txn'[s].op = "cancel"
             PROVE  row'[txn'[s].task].state \in Terminal \cup {"working"}
  BY DEF CancelSound
<1>1. CASE txn'[s] = txn[s]
  <2>1. /\ txn[s].task \in Task
        /\ row[txn[s].task].state \in Terminal \cup {"working"}
    BY <1>1 DEF CancelSound, TxnSound
  <2> QED
    BY <1>1, <2>1, StepChanges, ChangeNeverBack
<1>2. ASSUME NEW t \in Task, CancelSubmitted(s, t)
      PROVE  row'[txn'[s].task].state \in Terminal \cup {"working"}
  <2>1. row[t].state \notin {"absent", "submitted"} /\ row' = row /\ txn'[s].task = t
    BY <1>2 DEF CancelSubmitted, CancelableAtOnce, NoTxn, Txn
  <2>2. row[t] \in Row
    OBVIOUS
  <2> QED
    BY <2>1, <2>2 DEF Row, State, Terminal
<1>3. ASSUME NEW u \in Session, NEW t \in Task, CancelSubmitted(u, t), u # s
      PROVE  txn'[s] = txn[s]
  BY <1>3 DEF CancelSubmitted
<1>4. ASSUME NEW u \in Session, txn' = [txn EXCEPT ![u] = NoTxn]
      PROVE  txn'[s] = txn[s]
  BY <1>4 DEF NoTxn
<1>5. ASSUME NEW u \in Session, NEW op \in LockingOp, NEW t \in Task,
             NEW o \in Owner, NEW run \in Run, LockTask(u, op, t, o, run)
      PROVE  txn'[s] = txn[s]
  BY <1>5 DEF LockTask, LockingOp, FencedOp
<1>6. ASSUME NEW u \in Session,
             \/ Claim(u) \/ Heartbeat(u) \/ Complete(u) \/ Fail(u)
             \/ Acknowledge(u) \/ RunActive(u) \/ CancelWorking(u) \/ Rollback(u)
      PROVE  txn'[s] = txn[s]
  <2>1. txn' = [txn EXCEPT ![u] = NoTxn]
    BY <1>6 DEF Claim, Heartbeat, Complete, Fail, Acknowledge, RunActive,
                CancelWorking, Rollback, Commit
  <2> QED
    BY <1>4, <2>1
<1>7. ASSUME NEW t \in Task,
             (\E c \in Commitment : Reserve(t, c)) \/ ExpireLease(t)
      PROVE  txn'[s] = txn[s]
  BY <1>7 DEF Reserve, ExpireLease
<1>8. Tick \/ UNCHANGED vars => txn'[s] = txn[s]
  BY DEF Tick, vars
<1> QED
  BY <1>1, <1>2, <1>3, <1>5, <1>6, <1>7, <1>8 DEF Next

\* The invariant is inductive.
LEMMA NextIInv == IInv /\ [Next]_vars => IInv'
BY TypeStep, CoherentStep, GrantStep, LockStep, DeadlineStep, TxnStep, CancelStep
   DEF IInv

\* The inductive invariant holds in every reachable state.
THEOREM Invariance == Spec => []IInv
<1>1. IInv /\ [Next]_vars => IInv'
  BY NextIInv
<1> QED
  BY InitIInv, <1>1, PTL DEF Spec

---------------------------------------------------------------------------
(* The safety invariants.                                                  *)

\* The columns, transactions and grants always have their types.
THEOREM TypeCorrect == Spec => []TypeOK
<1>1. IInv => TypeOK
  BY DEF IInv
<1> QED
  BY Invariance, <1>1, PTL

\* claim gives out at most one run of a task, and only that run can ever
\* store its artifact.
THEOREM OneRunCorrect == Spec => []OneRunPerTask
<1>1. IInv => OneRunPerTask
  <2> SUFFICES ASSUME IInv, NEW g \in granted
               PROVE  /\ row[g[1]].run_id = g[3]
                      /\ row[g[1]].state = "working" => row[g[1]].lease_owner = g[2]
                      /\ row[g[1]].run_count = 1
                      /\ row[g[1]].artifact \in {g[3], NULL}
    BY DEF OneRunPerTask
  <2>1. g[1] \in Task /\ g[3] # NULL
    BY NullAssumption DEF IInv, TypeOK
  <2>2. /\ row[g[1]].run_id = g[3]
        /\ row[g[1]].state = "working" => row[g[1]].lease_owner = g[2]
        /\ Coherent(row[g[1]])
    BY <2>1 DEF IInv, GrantSound
  <2> QED
    BY <2>1, <2>2 DEF Coherent
<1> QED
  BY Invariance, <1>1, PTL

\* A canceled, failed or cancel-requested row holds no artifact.
THEOREM NoArtifactCorrect == Spec => []NoArtifactAfterCancel
<1>1. IInv => NoArtifactAfterCancel
  BY DEF IInv, Coherent, NoArtifactAfterCancel
<1> QED
  BY Invariance, <1>1, PTL

\* A row is leased exactly while it is working.
THEOREM LeaseCorrect == Spec => []LeasedExactlyWhileWorking
<1>1. IInv => LeasedExactlyWhileWorking
  BY DEF IInv, Coherent, LeasedExactlyWhileWorking
<1> QED
  BY Invariance, <1>1, PTL

---------------------------------------------------------------------------
(* The action properties.                                                  *)

\* Once a deadline has passed, no call of the run that held it succeeds: the
\* row keeps the deadline until it fails.
THEOREM ExpiryCorrect == Spec => ExpiredFailsClosed
<1> DEFINE A == \A t \in Task : Expired(row[t], clock) =>
                  \/ /\ row'[t].state = "working"
                     /\ row'[t].lease_expires_at = row[t].lease_expires_at
                  \/ /\ row'[t].state = "failed"
                     /\ row'[t].artifact = NULL
<1>1. ASSUME NEW r \in Row, NEW n, NEW now \in Nat, RowChange(r, n, now),
             Coherent(r), Expired(r, now)
      PROVE  \/ n.state = "working" /\ n.lease_expires_at = r.lease_expires_at
             \/ n.state = "failed" /\ n.artifact = NULL
  <2>1. ~Insertable(r) /\ ~Claimable(r) /\ ~CancelableAtOnce(r)
    BY <1>1 DEF Expired, Insertable, Claimable, CancelableAtOnce
  <2>2. \A o \in Owner, run \in Run : ~Fenced(r, o, run, now)
    BY <1>1 DEF Expired, Fenced, Row
  <2>3. CASE CancelFlaggable(r) /\ n = CancelFlagged(r)
    BY <2>3 DEF CancelFlaggable, CancelFlagged, Row
  <2>4. CASE Expired(r, now) /\ n = Expire(r)
    BY <1>1, <2>4 DEF Expired, Expire, Unleased, Coherent, Row
  <2> QED
    BY <1>1, <2>1, <2>2, <2>3, <2>4 DEF RowChange, Active, Acknowledgeable
<1>2. IInv /\ [Next]_vars => [A]_vars
  <2> SUFFICES ASSUME IInv, [Next]_vars, NEW t \in Task, Expired(row[t], clock)
               PROVE  \/ /\ row'[t].state = "working"
                         /\ row'[t].lease_expires_at = row[t].lease_expires_at
                      \/ /\ row'[t].state = "failed"
                         /\ row'[t].artifact = NULL
    BY Zenon
  <2>1. row[t] \in Row /\ clock \in Nat /\ Coherent(row[t])
    BY DEF IInv, TypeOK
  <2>2. CASE row'[t] = row[t]
    BY <2>2 DEF Expired
  <2>3. CASE RowChange(row[t], row'[t], clock)
    BY <1>1, <2>1, <2>3
  <2> QED
    BY <2>2, <2>3, StepChanges
<1> QED
  BY Invariance, <1>2, PTL DEF Spec, ExpiredFailsClosed

\* No step brings the deadline of a working row nearer.
THEOREM DeadlineCorrect == Spec => DeadlineNeverShortened
<1> DEFINE A == \A t \in Task :
                  /\ row[t].state = "working"
                  /\ row'[t].state = "working"
                  => row'[t].lease_expires_at >= row[t].lease_expires_at
<1>1. ASSUME NEW r \in Row, NEW n, NEW now \in Nat, RowChange(r, n, now),
             Coherent(r), r.state = "working", n.state = "working"
      PROVE  n.lease_expires_at >= r.lease_expires_at
  <2> USE DEF Row, Unleased
  <2>1. ~Insertable(r) /\ ~Claimable(r) /\ ~CancelableAtOnce(r)
    BY <1>1 DEF Insertable, Claimable, CancelableAtOnce
  <2>2. r.lease_expires_at \in Nat
    BY <1>1 DEF Coherent
  <2>3. CASE \E d \in Nat : d >= r.lease_expires_at /\ n = Renewed(r, d)
    BY <2>3 DEF Renewed
  <2>4. CASE n = CancelFlagged(r)
    BY <2>2, <2>4 DEF CancelFlagged
  <2>5. \A run \in Run : n # Completed(r, run)
    BY <1>1 DEF Completed, Finished
  <2>6. n # Failed(r) /\ n # Canceled(r) /\ n # Expire(r)
    BY <1>1 DEF Failed, Finished, Canceled, Expire
  <2> QED
    BY <1>1, <2>1, <2>3, <2>4, <2>5, <2>6 DEF RowChange
<1>2. IInv /\ [Next]_vars => [A]_vars
  <2> SUFFICES ASSUME IInv, [Next]_vars, NEW t \in Task,
                      row[t].state = "working", row'[t].state = "working"
               PROVE  row'[t].lease_expires_at >= row[t].lease_expires_at
    BY Zenon
  <2>1. row[t] \in Row /\ clock \in Nat /\ Coherent(row[t])
    BY DEF IInv, TypeOK
  <2>2. CASE row'[t] = row[t]
    <3>1. row[t].lease_expires_at \in Nat
      BY <2>1 DEF Coherent, Row
    <3> QED
      BY <2>2, <3>1
  <2>3. CASE RowChange(row[t], row'[t], clock)
    BY <1>1, <2>1, <2>3
  <2> QED
    BY <2>2, <2>3, StepChanges
<1> QED
  BY Invariance, <1>2, PTL DEF Spec, DeadlineNeverShortened

\* When the second statement of cancel commits, the request is on record.
THEOREM CancelCorrect == Spec => CancelIsRecorded
<1> DEFINE A == \A s \in Session :
                  /\ txn[s].op = "cancel"
                  /\ CancelWorking(s)
                  => LET r == row'[txn[s].task]
                     IN r.state \in Terminal \/ r.cancel_requested
<1>1. IInv /\ [Next]_vars => [A]_vars
  <2> SUFFICES ASSUME IInv, NEW s \in Session, txn[s].op = "cancel", CancelWorking(s)
               PROVE  \/ row'[txn[s].task].state \in Terminal
                      \/ row'[txn[s].task].cancel_requested
    BY Zenon
  <2> DEFINE t == txn[s].task
  <2>1. /\ t \in Task
        /\ row \in [Task -> Row]
        /\ row[t].state \in Terminal \cup {"working"}
    BY DEF IInv, TypeOK, TxnSound, CancelSound
  <2>2. row' = IF CancelFlaggable(row[t])
                 THEN [row EXCEPT ![t] = CancelFlagged(row[t])] ELSE row
    BY DEF CancelWorking, Commit
  <2>3. CASE row[t].state = "working"
    BY <2>1, <2>2, <2>3 DEF CancelFlaggable, CancelFlagged, Row
  <2>4. CASE row[t].state \in Terminal
    BY <2>1, <2>2, <2>4 DEF CancelFlaggable, Terminal
  <2> QED
    BY <2>1, <2>3, <2>4
<1> QED
  BY Invariance, <1>1, PTL DEF Spec, CancelIsRecorded

---------------------------------------------------------------------------
(* The table implements the lifecycle.                                     *)

\* What a client can read of a row.
View == [phase     : State,
         wanted    : BOOLEAN,
         bound     : Commitment \cup {NULL},
         runner    : Run \cup {NULL},
         published : Run \cup {NULL}]

\* A statement on a row is a step of the lifecycle, or invisible.
LEMMA ChangeIsLifecycleStep ==
  ASSUME NEW r \in Row, NEW n, NEW now \in Nat, RowChange(r, n, now), Coherent(r)
  PROVE  Visible(n) = Visible(r) \/ Lifecycle!Step(Visible(r), Visible(n))
<1> DEFINE v == Visible(r)
           w == Visible(n)
<1>a. v \in View /\ w \in View
  BY ChangeTyped DEF View, Row, Visible
<1>b. /\ v.phase = r.state
      /\ v.wanted = r.cancel_requested
      /\ v.bound = r.commitment
      /\ v.runner = r.run_id
      /\ v.published = r.artifact
  BY DEF Visible
<1>c. /\ w.phase = n.state
      /\ w.wanted = n.cancel_requested
      /\ w.bound = n.commitment
      /\ w.runner = n.run_id
      /\ w.published = n.artifact
  BY DEF Visible
<1> HIDE DEF v, w
<1>1. ASSUME NEW c \in Commitment, Insertable(r), n = Inserted(c)
      PROVE  Lifecycle!Submit(v, w)
  <2>1. r = NoRow
    BY <1>1 DEF Insertable, Coherent
  <2>2. /\ n.state = "submitted" /\ n.commitment = c /\ n.run_id = r.run_id
        /\ n.cancel_requested = r.cancel_requested /\ n.artifact = r.artifact
    BY <1>1, <2>1 DEF Inserted, NoRow
  <2>3. w = [v EXCEPT !.phase = "submitted", !.bound = c]
    BY <1>a, <1>b, <1>c, <2>2, Zenon DEF View
  <2> QED
    BY <1>1, <1>b, <2>3 DEF Insertable, Lifecycle!Submit
<1>2. ASSUME NEW o \in Owner, NEW run \in Run, NEW d \in Nat,
             Claimable(r), n = Claimed(r, o, run, d)
      PROVE  Lifecycle!Start(v, w)
  <2>1. /\ n.state = "working" /\ n.run_id = run /\ n.commitment = r.commitment
        /\ n.cancel_requested = r.cancel_requested /\ n.artifact = r.artifact
    BY <1>2 DEF Claimed, Row
  <2>2. w = [v EXCEPT !.phase = "working", !.runner = run]
    BY <1>a, <1>b, <1>c, <2>1, Zenon DEF View
  <2> QED
    BY <1>2, <1>b, <2>2 DEF Claimable, Lifecycle!Start
<1>3. ASSUME NEW d \in Nat, n = Renewed(r, d)
      PROVE  v = w
  BY <1>3 DEF Renewed, Row, Visible, v, w
<1>4. ASSUME NEW o \in Owner, NEW run \in Run, Active(r, o, run, now),
             n = Completed(r, run)
      PROVE  Lifecycle!Complete(v, w)
  <2>1. r.state = "working" /\ r.run_id = run /\ ~r.cancel_requested
    BY <1>4 DEF Active, Fenced
  <2>2. /\ n.state = "completed" /\ n.artifact = r.run_id
        /\ n.cancel_requested = r.cancel_requested
        /\ n.commitment = r.commitment /\ n.run_id = r.run_id
    BY <1>4, <2>1 DEF Completed, Finished, Unleased, Row
  <2>3. w = [v EXCEPT !.phase = "completed", !.published = v.runner]
    BY <1>a, <1>b, <1>c, <2>2, Zenon DEF View
  <2> QED
    BY <1>b, <2>1, <2>3 DEF Lifecycle!Complete
<1>5. ASSUME n = Failed(r) \/ n = Expire(r), r.state = "working"
      PROVE  Lifecycle!Fail(v, w)
  <2>1. r.artifact = NULL
    BY <1>5 DEF Coherent
  <2>2. /\ n.state = "failed" /\ n.artifact = r.artifact
        /\ n.cancel_requested = r.cancel_requested
        /\ n.commitment = r.commitment /\ n.run_id = r.run_id
    BY <1>5, <2>1 DEF Failed, Finished, Expire, Unleased, Row
  <2>3. w = [v EXCEPT !.phase = "failed"]
    BY <1>a, <1>b, <1>c, <2>2, Zenon DEF View
  <2> QED
    BY <1>5, <1>b, <2>3 DEF Lifecycle!Fail
<1>6. ASSUME n = Canceled(r), r.state \in {"submitted", "working"},
             r.state = "submitted" \/ r.cancel_requested
      PROVE  Lifecycle!Cancel(v, w)
  <2>1. r.artifact = NULL
    BY <1>6 DEF Coherent
  <2>2. /\ n.state = "canceled" /\ n.artifact = r.artifact
        /\ n.cancel_requested = r.cancel_requested
        /\ n.commitment = r.commitment /\ n.run_id = r.run_id
    BY <1>6, <2>1 DEF Canceled, Unleased, Row
  <2>3. w = [v EXCEPT !.phase = "canceled"]
    BY <1>a, <1>b, <1>c, <2>2, Zenon DEF View
  <2> QED
    BY <1>6, <1>b, <2>3 DEF Lifecycle!Cancel
<1>7. ASSUME CancelFlaggable(r), n = CancelFlagged(r)
      PROVE  Lifecycle!RequestCancel(v, w)
  <2>1. /\ n.cancel_requested = TRUE /\ n.state = r.state
        /\ n.commitment = r.commitment /\ n.run_id = r.run_id
        /\ n.artifact = r.artifact
    BY <1>7 DEF CancelFlagged, Row
  <2>2. w = [v EXCEPT !.wanted = TRUE]
    BY <1>a, <1>b, <1>c, <2>1, Zenon DEF View
  <2> QED
    BY <1>7, <1>b, <2>2 DEF CancelFlaggable, Lifecycle!RequestCancel
<1>8. w = v \/ Lifecycle!Step(v, w)
  BY <1>1, <1>2, <1>3, <1>4, <1>5, <1>6, <1>7
     DEF RowChange, Active, Acknowledgeable, Fenced, CancelableAtOnce, Expired,
         Lifecycle!Step
<1> QED
  BY <1>8 DEF v, w

\* No artifact is stored on a row that was asked to cancel, and a run whose
\* deadline is over can only fail: the two fences of a terminal update.
THEOREM FailsClosedCorrect == Spec => FailsClosed
  BY NoArtifactCorrect, ExpiryCorrect, PTL DEF FailsClosed

\* What heartbeat and cancel write is kept: no renewal shortens a deadline, and
\* a cancellation that commits is on the row unless the task is over.
THEOREM WritesAreKeptCorrect == Spec => WritesAreKept
  BY DeadlineCorrect, CancelCorrect DEF WritesAreKept

\* The transactions of the store implement the lifecycle of a task.
THEOREM Refinement == Spec => ImplementsLifecycle
<1> DEFINE task == [t \in Task |-> Visible(row[t])]
<1>1. Init => Lifecycle!Init
  BY DEF Init, Lifecycle!Init, Lifecycle!Nothing, Visible, NoRow
<1>2. IInv /\ [Next]_vars => [Lifecycle!Next]_task
  <2> SUFFICES ASSUME IInv, [Next]_vars
               PROVE  Lifecycle!Next
    OBVIOUS
  <2>1. ASSUME NEW t \in Task
        PROVE  \/ Visible(row'[t]) = Visible(row[t])
               \/ Lifecycle!Step(Visible(row[t]), Visible(row'[t]))
    <3>1. row[t] \in Row /\ clock \in Nat /\ Coherent(row[t])
      BY DEF IInv, TypeOK
    <3> QED
      BY <3>1, StepChanges, ChangeIsLifecycleStep
  <2> QED
    BY <2>1 DEF Lifecycle!Next
<1> QED
  BY Invariance, <1>1, <1>2, PTL DEF Spec, ImplementsLifecycle, Lifecycle!Spec

=============================================================================
