--------------------------- MODULE DeliveryProofs ---------------------------
(***************************************************************************)
(* What holds of Delivery for every set of messages and threads, every     *)
(* retry limit, batch size and concurrency, and without the two bounds     *)
(* that keep TLC's instances finite mattering: types, ownership, the       *)
(* budget, what counts and outcomes go back to, the audit trail, and that  *)
(* Delivery implements WorkQueue.                                          *)
(***************************************************************************)
EXTENDS DeliveryRefinement, FiniteSetTheorems, TLAPS

-----------------------------------------------------------------------------
(* Type correctness: inductive as it stands.                               *)

\* An UPDATE keeps the type of the column it writes.
LEMMA PutType ==
    ASSUME NEW T, NEW f \in [Messages -> T], NEW S, NEW v \in T
    PROVE  Put(f, S, v) \in [Messages -> T]
BY DEF Put

\* Each handler keeps the types.
LEMMA HandlerType ==
    ASSUME TypeOK, NEW t \in Threads, Handler(t)
    PROVE  TypeOK'
<1>1. CASE CancelRead(t)
  BY <1>1 DEF CancelRead, Cancellable, Read, TypeOK, Requests, NoRequest, db, loop, history
<1>2. CASE CancelCommit(t)
  BY <1>2 DEF CancelCommit, Finish, Put, Flushed, TypeOK, Requests, NoRequest, Statuses, loop, history
<1>3. CASE RetryRead(t)
  BY <1>3 DEF RetryRead, Retryable, Read, TypeOK, Requests, NoRequest, db, loop, history
<1>4. CASE RetryCommit(t)
  <2>1. status' \in [Messages -> Statuses] /\ due' \in [Messages -> BOOLEAN]
    BY <1>4, PutType DEF RetryCommit, TypeOK, Statuses
  <2>2. retried' \in [Messages -> Nat]
    BY <1>4 DEF RetryCommit, TypeOK
  <2> QED
    BY <1>4, <2>1, <2>2 DEF RetryCommit, Finish, TypeOK, Requests, NoRequest, loop
<1>5. CASE DeleteRead(t)
  BY <1>5 DEF DeleteRead, Deletable, Read, TypeOK, Requests, NoRequest, db, loop, history
<1>6. CASE DeleteCommit(t)
  BY <1>6 DEF DeleteCommit, Finish, Put, Flushed, TypeOK, Requests, NoRequest, Statuses, loop, history
<1> QED
  BY <1>1, <1>2, <1>3, <1>4, <1>5, <1>6 DEF Handler

\* Each step of the poll loop keeps the types.
LEMMA PollLoopType ==
    ASSUME TypeOK, PollLoop
    PROVE  TypeOK'
<1>1. CASE Select
  BY <1>1 DEF Select, Due, TypeOK, db, history
<1>2. CASE Sleep
  BY <1>2 DEF Sleep, TypeOK, vars, db, loop, history
<1>3. CASE Claim
  BY <1>3 DEF Claim, Claimable, Put, TypeOK, Statuses, history
<1>4. CASE Load
  BY <1>4 DEF Load, Claimed, Put, TypeOK, db, history
<1>5. CASE EndBatch
  BY <1>5 DEF EndBatch, TypeOK, db, history
<1> QED
  BY <1>1, <1>2, <1>3, <1>4, <1>5 DEF PollLoop

\* The writes shared by several outcomes keep the types.
LEMMA OutcomeType ==
    ASSUME TypeOK, NEW m \in Messages
    PROVE  /\ Counted(m) \in Nat
           /\ Reschedule(m) => /\ status' \in [Messages -> Statuses]
                               /\ due' \in [Messages -> BOOLEAN]
           /\ \A reason \in {"inactive", "error"} :
                Bury(m, reason) => /\ status' \in [Messages -> Statuses]
                                   /\ attempts' \in [Messages -> Nat]
                                   /\ deadLetters' \subseteq Letters
<1>1. Counted(m) \in Nat
  BY DEF Counted, TypeOK
<1>2. Reschedule(m) => status' \in [Messages -> Statuses] /\ due' \in [Messages -> BOOLEAN]
  <2>1. Reschedule(m) => status' \in [Messages -> Statuses]
    BY DEF Reschedule, Put, TypeOK, Statuses
  <2>2. Reschedule(m) => due' \in [Messages -> BOOLEAN]
    BY DEF Reschedule, Put, TypeOK
  <2> QED
    BY <2>1, <2>2
<1>3. ASSUME NEW reason \in {"inactive", "error"}, Bury(m, reason)
      PROVE  /\ status' \in [Messages -> Statuses]
             /\ attempts' \in [Messages -> Nat]
             /\ deadLetters' \subseteq Letters
  <2>1. status' \in [Messages -> Statuses] /\ attempts' \in [Messages -> Nat]
    BY <1>1, <1>3, PutType DEF Bury, TypeOK, Statuses
  <2>2. deadLetters' \subseteq Letters
    BY <1>1, <1>3 DEF Bury, TypeOK, Letters
  <2> QED
    BY <2>1, <2>2
<1> QED
  BY <1>1, <1>2, <1>3

\* Each step of a delivery task keeps the types.
LEMMA TaskType ==
    ASSUME TypeOK, NEW m \in Messages, Task(m)
    PROVE  TypeOK'
<1>1. CASE RefuseCircuit(m)
  BY <1>1, OutcomeType DEF RefuseCircuit, Ends, TypeOK, Entries, Outcomes, history
<1>2. CASE RefuseRate(m)
  BY <1>2, OutcomeType DEF RefuseRate, Ends, TypeOK, history
<1>3. CASE EndpointGone(m)
  BY <1>3, OutcomeType DEF EndpointGone, Ends, TypeOK, history
<1>4. CASE Send(m)
  BY <1>4 DEF Send, TypeOK, db
<1>5. CASE MarkDelivered(m)
  <2>1. status' \in [Messages -> Statuses] /\ attempts' \in [Messages -> Nat]
    BY <1>5 DEF MarkDelivered, Put, TypeOK, Statuses
  <2>2. unwritten' \subseteq Entries
    BY <1>5, OutcomeType DEF MarkDelivered, Entries, Outcomes
  <2> QED
    BY <1>5, <2>1, <2>2 DEF MarkDelivered, Ends, TypeOK, history
<1>6. CASE FailRetry(m)
  <2>1. attempts' \in [Messages -> Nat]
    BY <1>6, PutType, OutcomeType DEF FailRetry, TypeOK
  <2>2. unwritten' \subseteq Entries
    BY <1>6, OutcomeType DEF FailRetry, Entries, Outcomes
  <2>3. status' \in [Messages -> Statuses] /\ due' \in [Messages -> BOOLEAN]
    BY <1>6, OutcomeType DEF FailRetry
  <2> QED
    BY <1>6, <2>1, <2>2, <2>3 DEF FailRetry, Ends, TypeOK, history
<1>7. CASE FailDead(m)
  BY <1>7, OutcomeType DEF FailDead, Ends, TypeOK, Entries, Outcomes, history
<1>8. CASE Raise(m)
  BY <1>8 DEF Raise, Ends, TypeOK, db, history
<1> QED
  BY <1>1, <1>2, <1>3, <1>4, <1>5, <1>6, <1>7, <1>8 DEF Task, Begin, Answer

\* The types of Delivery's variables, for all constants.
THEOREM TypeCorrect == Spec => []TypeOK
<1>1. Init => TypeOK
  BY DEF Init, TypeOK, Statuses, Requests, NoRequest, Letters, Entries
<1>2. ASSUME TypeOK, [Next]_vars PROVE TypeOK'
  <2>1. ASSUME NEW m \in Messages, Ingest(m) PROVE TypeOK'
    BY <1>2, <2>1 DEF Ingest, TypeOK, Statuses, loop, history
  <2>2. ASSUME NEW m \in Messages, BecomeDue(m) PROVE TypeOK'
    BY <1>2, <2>2 DEF BecomeDue, TypeOK, loop, history
  <2>3. ASSUME NEW m \in Messages, ReceiverAccepts(m) PROVE TypeOK'
    BY <1>2, <2>3 DEF ReceiverAccepts, TypeOK, db
  <2>4. CASE Log
    BY <1>2, <2>4 DEF Log, WriteLog, LoseLog, TypeOK, db, history
  <2>5. CASE Crash
    BY <1>2, <2>5 DEF Crash, TypeOK, Requests, NoRequest, db
  <2>6. CASE Start
    BY <1>2, <2>6 DEF Start, InFlight, Put, TypeOK, Statuses, history
  <2>7. CASE UNCHANGED vars
    BY <1>2, <2>7 DEF vars, db, loop, history, TypeOK
  <2> QED
    BY <1>2, <2>1, <2>2, <2>3, <2>4, <2>5, <2>6, <2>7,
       HandlerType, PollLoopType, TaskType DEF Next
<1> QED
  BY <1>1, <1>2, PTL DEF Spec

-----------------------------------------------------------------------------
(* A row in flight is owned: with the types, inductive as it stands.       *)

\* A claim makes owned rows, the end of a task leaves no row in flight, and
\* nothing else touches either side.
THEOREM InFlightIsOwned == Spec => []InFlightOwned
<1>1. Init => InFlightOwned
  BY DEF Init, InFlightOwned, Up
<1>2. ASSUME TypeOK, InFlightOwned, [Next]_vars
      PROVE  InFlightOwned'
  <2> SUFFICES ASSUME NEW n \in Messages \ MayRaise, Up', status'[n] = "in_flight"
               PROVE  (poll = "claimed" /\ n \in candidates)' \/ (n \in Active)'
    BY DEF InFlightOwned
  <2>1. ASSUME NEW m \in Messages, Ingest(m) \/ BecomeDue(m)
        PROVE  (poll = "claimed" /\ n \in candidates)' \/ (n \in Active)'
    BY <1>2, <2>1 DEF Ingest, BecomeDue, InFlightOwned, Up, Active, TypeOK, loop
  <2>2. ASSUME NEW m \in Messages, Begin(m) \/ Answer(m)
        PROVE  (poll = "claimed" /\ n \in candidates)' \/ (n \in Active)'
    <3>1. CASE Send(m)
      BY <1>2, <3>1 DEF Send, InFlightOwned, Up, Active, TypeOK, db
    <3>2. CASE ~Send(m)
      <4>1. Ends(m) /\ \E s \in {"pending", "dead", "delivered"} : status' = Put(status, Row(m), s)
        BY <2>2, <3>2 DEF Begin, Answer, RefuseCircuit, RefuseRate, EndpointGone,
                          MarkDelivered, FailRetry, FailDead, Reschedule, Bury
      <4>2. n # m /\ status[n] = "in_flight"
        BY <1>2, <4>1 DEF Put, Row, Rows, TypeOK
      <4> QED
        BY <1>2, <4>1, <4>2 DEF Ends, InFlightOwned, Up, Active, TypeOK
    <3> QED
      BY <3>1, <3>2
  <2>3. ASSUME NEW m \in Messages, Raise(m) \/ ReceiverAccepts(m)
        PROVE  (poll = "claimed" /\ n \in candidates)' \/ (n \in Active)'
    BY <1>2, <2>3 DEF Raise, ReceiverAccepts, Ends, InFlightOwned, Up, Active, TypeOK, db
  <2>4. ASSUME NEW t \in Threads, Handler(t)
        PROVE  (poll = "claimed" /\ n \in candidates)' \/ (n \in Active)'
    <3>1. UNCHANGED loop /\ (status' = status \/ \E s \in {"dead", "pending", "deleted"} :
                                                    status' = Put(status, Flushed(t), s))
      BY <2>4 DEF Handler, CancelRead, RetryRead, DeleteRead, Read, db,
                  CancelCommit, RetryCommit, DeleteCommit
    <3>2. status[n] = "in_flight"
      BY <1>2, <3>1 DEF Put, TypeOK
    <3> QED
      BY <1>2, <3>1, <3>2 DEF InFlightOwned, Up, Active, loop
  <2>5. CASE PollLoop
    <3>1. CASE Claim
      BY <1>2, <3>1 DEF Claim, Claimable, Put, InFlightOwned, Up, Active, TypeOK
    <3>2. CASE Load
      BY <1>2, <3>2 DEF Load, Claimed, Put, InFlightOwned, Up, Active, TypeOK, db
    <3>3. CASE Select \/ Sleep \/ EndBatch
      BY <1>2, <3>3 DEF Select, Sleep, EndBatch, InFlightOwned, Up, Active, TypeOK, vars, db, loop
    <3> QED
      BY <2>5, <3>1, <3>2, <3>3 DEF PollLoop
  <2>6. CASE Log
    BY <1>2, <2>6 DEF Log, WriteLog, LoseLog, InFlightOwned, Up, Active, db
  <2>7. CASE Crash
    BY <2>7 DEF Crash, Up
  <2>8. CASE Start
    BY <1>2, <2>8 DEF Start, InFlight, Put, TypeOK
  <2>9. CASE UNCHANGED vars
    BY <1>2, <2>9 DEF InFlightOwned, Up, Active, vars, db, loop
  <2> QED
    BY <1>2, <2>1, <2>2, <2>3, <2>4, <2>5, <2>6, <2>7, <2>8, <2>9 DEF Next, Task
<1> QED
  BY <1>1, <1>2, TypeCorrect, PTL DEF Spec

-----------------------------------------------------------------------------
(* The retry budget.  BudgetInv and SnapshotFresh are inductive together:  *)
(* an attempt ends by writing the snapshot plus one, which the budget      *)
(* allows because the snapshot is the row's attempt_count, and the         *)
(* snapshot stays fresh because only the task that holds it counts.        *)

\* All that the budget of n depends on.
Ledger(n) == <<status[n], attempts[n], task[n], snap[n], sent[n], retried[n], crashes, poll>>

Fresh(n) == n \in Active /\ n \in Rows => snap[n] = attempts[n]

\* A batch is loaded only when the tasks of the one before have ended.
Batched(n) == n \in Active => poll = "running"

Kept(n) == WithinBudget(n) /\ Fresh(n) /\ Batched(n)

LEMMA SameLedger ==
    ASSUME NEW n \in Messages, Kept(n), UNCHANGED Ledger(n)
    PROVE  Kept(n)'
BY DEF Ledger, Kept, WithinBudget, Fresh, Batched, Posted, Active, Holding, Rows

\* A step for another message leaves n's ledger alone.
LEMMA OtherMessage ==
    ASSUME TypeOK, NEW n \in Messages, NEW m \in Messages \ {n},
           Ingest(m) \/ BecomeDue(m) \/ Task(m) \/ ReceiverAccepts(m)
    PROVE  UNCHANGED Ledger(n)
<1>1. CASE Ingest(m) \/ BecomeDue(m) \/ ReceiverAccepts(m) \/ Send(m)
  BY <1>1 DEF Ingest, BecomeDue, ReceiverAccepts, Send, Ledger, TypeOK, db, loop, history
<1>2. CASE RefuseCircuit(m) \/ RefuseRate(m) \/ Raise(m)
  BY <1>2 DEF RefuseCircuit, RefuseRate, Raise, Reschedule, Row, Put, Ends, Ledger,
              TypeOK, db, history
<1>3. CASE EndpointGone(m) \/ FailDead(m)
  BY <1>3 DEF EndpointGone, FailDead, Bury, Row, Put, Ends, Ledger, TypeOK, history
<1>4. CASE MarkDelivered(m) \/ FailRetry(m)
  BY <1>4 DEF MarkDelivered, FailRetry, Reschedule, Row, Put, Ends, Ledger, TypeOK, history
<1> QED
  BY <1>1, <1>2, <1>3, <1>4 DEF Task, Begin, Answer

\* A step for n itself keeps its budget.
LEMMA OwnStep ==
    ASSUME TypeOK, NEW n \in Messages, Kept(n),
           Ingest(n) \/ BecomeDue(n) \/ Task(n) \/ ReceiverAccepts(n)
    PROVE  Kept(n)'
<1> USE DEF Kept, WithinBudget, Fresh, Batched, Posted, Active, Holding, Rows
<1>1. CASE Ingest(n) \/ BecomeDue(n)
  BY <1>1 DEF Ingest, BecomeDue, TypeOK, loop, history
<1>2. CASE ReceiverAccepts(n) \/ Send(n)
  BY <1>2, MaxRetriesAssumption DEF ReceiverAccepts, Send, Enters, TypeOK, db
<1>3. CASE RefuseCircuit(n) \/ RefuseRate(n)
  <2>1. /\ task[n] = "queued" /\ task' = [task EXCEPT ![n] = "idle"]
        /\ status' = Put(status, Row(n), "pending")
        /\ UNCHANGED <<attempts, sent, retried, crashes>>
    BY <1>3 DEF RefuseCircuit, RefuseRate, Enters, Reschedule, Ends, history
  <2>2. CASE n \in Rows
    BY <2>1, <2>2, MaxRetriesAssumption DEF Row, Put, TypeOK
  <2>3. CASE n \notin Rows
    BY <2>1, <2>3, MaxRetriesAssumption DEF Row, Put, TypeOK
  <2> QED
    BY <2>2, <2>3
<1>4. CASE EndpointGone(n)
  BY <1>4, MaxRetriesAssumption
     DEF EndpointGone, Enters, Bury, Counted, Row, Put, Ends, TypeOK, history
<1>5. CASE FailDead(n)
  BY <1>5, MaxRetriesAssumption
     DEF FailDead, Resumes, Bury, Counted, Row, Put, Ends, TypeOK, history
<1>6. CASE MarkDelivered(n)
  BY <1>6, MaxRetriesAssumption
     DEF MarkDelivered, Resumes, Row, Put, Ends, TypeOK, history
<1>7. CASE FailRetry(n)
  BY <1>7, MaxRetriesAssumption
     DEF FailRetry, Resumes, Exhausted, Reschedule, Counted, Row, Put, Ends, TypeOK, history
<1>8. CASE Raise(n)
  BY <1>8, MaxRetriesAssumption DEF Raise, Ends, TypeOK, db, history
<1> QED
  BY <1>1, <1>2, <1>3, <1>4, <1>5, <1>6, <1>7, <1>8 DEF Task, Begin, Answer

\* A handler writes no count; a committed retry gives one more attempt.
LEMMA HandlerKept ==
    ASSUME TypeOK, NEW n \in Messages, Kept(n), NEW t \in Threads, Handler(t)
    PROVE  Kept(n)'
<1> USE DEF Kept, WithinBudget, Fresh, Batched, Posted, Active, Holding, Rows
<1>1. CASE CancelRead(t) \/ RetryRead(t) \/ DeleteRead(t)
  BY <1>1 DEF CancelRead, RetryRead, DeleteRead, Read, db, loop, history
<1>2. CASE CancelCommit(t)
  BY <1>2 DEF CancelCommit, Put, Flushed, TypeOK, loop, history
<1>3. CASE RetryCommit(t)
  BY <1>3, MaxRetriesAssumption DEF RetryCommit, Put, Flushed, TypeOK, loop
<1>4. CASE DeleteCommit(t)
  BY <1>4 DEF DeleteCommit, Put, Flushed, TypeOK, loop, history
<1> QED
  BY <1>1, <1>2, <1>3, <1>4 DEF Handler

\* The poll loop makes tasks only for rows in flight, with fresh snapshots.
LEMMA PollLoopKept ==
    ASSUME TypeOK, NEW n \in Messages, Kept(n), PollLoop
    PROVE  Kept(n)'
<1> USE DEF Kept, WithinBudget, Fresh, Batched, Posted, Active, Holding, Rows
<1>1. CASE Select \/ Sleep \/ EndBatch
  BY <1>1 DEF Select, Sleep, EndBatch, BatchEnded, vars, db, loop, history
<1>2. CASE Claim
  BY <1>2 DEF Claim, Claimable, Put, TypeOK, history
<1>3. CASE Load
  <2>1. UNCHANGED <<status, attempts, sent, retried, crashes>> /\ n \notin Active
    BY <1>3 DEF Load, db, history
  <2>2. CASE n \in Claimed
    <3>1. /\ status[n] = "in_flight"
          /\ task'[n] = "queued"
          /\ snap'[n] = attempts[n]
          /\ poll' = "running"
      BY <1>3, <2>2 DEF Load, Claimed, Put
    <3> QED
      BY <2>1, <3>1, MaxRetriesAssumption DEF TypeOK
  <2>3. CASE n \notin Claimed
    <3>1. task'[n] = task[n] /\ snap'[n] = snap[n]
      BY <1>3, <2>3 DEF Load, Put
    <3> QED
      BY <2>1, <3>1
  <2> QED
    BY <2>2, <2>3
<1> QED
  BY <1>1, <1>2, <1>3 DEF PollLoop

\* Every step keeps the budget of every message.
LEMMA BudgetStep ==
    ASSUME TypeOK, [Next]_vars, NEW n \in Messages, Kept(n)
    PROVE  Kept(n)'
<1>1. ASSUME NEW m \in Messages, Ingest(m) \/ BecomeDue(m) \/ Task(m) \/ ReceiverAccepts(m)
      PROVE  Kept(n)'
  BY <1>1, OtherMessage, OwnStep, SameLedger
<1>2. ASSUME NEW t \in Threads, Handler(t) PROVE Kept(n)'
  BY <1>2, HandlerKept
<1>3. CASE PollLoop
  BY <1>3, PollLoopKept
<1>4. CASE Log \/ UNCHANGED vars
  <2>1. UNCHANGED Ledger(n)
    BY <1>4 DEF Log, WriteLog, LoseLog, Ledger, vars, db, loop, history
  <2> QED
    BY <2>1, SameLedger
<1>5. CASE Crash
  BY <1>5 DEF Crash, Kept, WithinBudget, Fresh, Batched, Posted, Active, Holding, Rows, TypeOK, db
<1>6. CASE Start
  BY <1>6 DEF Start, InFlight, Put, Kept, WithinBudget, Fresh, Batched, Posted, Active, Holding,
              Rows, TypeOK, history
<1> QED
  BY <1>1, <1>2, <1>3, <1>4, <1>5, <1>6 DEF Next

AllKept == \A n \in Messages : Kept(n)

\* The ledger of every message is kept for ever.
THEOREM BudgetIsKept == Spec => []AllKept
<1>1. Init => AllKept
  BY MaxRetriesAssumption DEF Init, AllKept, Kept, WithinBudget, Fresh, Batched, Posted, Active, Holding, Rows
<1>2. ASSUME TypeOK, AllKept, [Next]_vars
      PROVE  AllKept'
  BY <1>2, BudgetStep DEF AllKept
<1> QED
  BY <1>1, <1>2, TypeCorrect, PTL DEF Spec

\* A task's snapshot agrees with its row as long as the row exists.
THEOREM SnapshotIsFresh == Spec => []SnapshotFresh
<1>1. AllKept => SnapshotFresh
  BY DEF AllKept, Kept, Fresh, SnapshotFresh, Active
<1> QED
  BY <1>1, BudgetIsKept, PTL

\* No message is posted more often than its retries, the retry calls and the
\* stops of the process allow.
THEOREM RetryBudgetHolds == Spec => []RetryBudget
<1>1. TypeOK /\ AllKept => RetryBudget
  <2> SUFFICES ASSUME TypeOK, NEW n \in Messages \ MayRaise, Kept(n)
               PROVE  sent[n] <= MaxRetries + 1 + retried[n] + crashes
    BY DEF RetryBudget, AllKept
  <2>1. CASE Posted(n)
    BY <2>1, MaxRetriesAssumption DEF Kept, WithinBudget, Posted, Holding, Active, TypeOK
  <2>2. CASE ~Posted(n)
    BY <2>2, MaxRetriesAssumption DEF Kept, WithinBudget, TypeOK
  <2> QED
    BY <2>1, <2>2
<1> QED
  BY <1>1, TypeCorrect, BudgetIsKept, PTL

-----------------------------------------------------------------------------
(* Counts never go down.                                                   *)

\* attempt_count grows or stays in every step, because what an attempt
\* writes is a fresh snapshot plus one.
LEMMA AttemptStep ==
    ASSUME TypeOK, AllKept, Next, NEW n \in Messages
    PROVE  attempts'[n] >= attempts[n]
<1>1. ASSUME NEW m \in Messages, Task(m)
      PROVE  attempts'[n] >= attempts[n]
  <2>1. m \in Active /\ m \in Rows => Counted(m) = attempts[m] + 1
    BY DEF AllKept, Kept, Fresh, Counted
  <2>2. CASE EndpointGone(m) \/ FailRetry(m) \/ FailDead(m)
    <3>1. m \in Active /\ attempts' = Put(attempts, Row(m), Counted(m))
      BY <2>2 DEF EndpointGone, FailRetry, FailDead, Bury, Enters, Resumes, Active, Holding
    <3> QED
      BY <2>1, <3>1 DEF Put, Row, TypeOK
  <2>3. CASE MarkDelivered(m)
    BY <2>3 DEF MarkDelivered, Put, Row, TypeOK
  <2>4. CASE RefuseCircuit(m) \/ RefuseRate(m) \/ Send(m) \/ Raise(m)
    BY <2>4 DEF RefuseCircuit, RefuseRate, Send, Raise, TypeOK, db
  <2> QED
    BY <1>1, <2>2, <2>3, <2>4 DEF Task, Begin, Answer
<1>2. ASSUME NEW m \in Messages, Ingest(m) \/ BecomeDue(m) \/ ReceiverAccepts(m)
      PROVE  attempts'[n] >= attempts[n]
  BY <1>2 DEF Ingest, BecomeDue, ReceiverAccepts, TypeOK, db
<1>3. ASSUME NEW t \in Threads, Handler(t)
      PROVE  attempts'[n] >= attempts[n]
  <2>1. UNCHANGED attempts
    BY <1>3 DEF Handler, CancelRead, RetryRead, DeleteRead, Read, CancelCommit, RetryCommit,
                DeleteCommit, db
  <2> QED
    BY <2>1 DEF TypeOK
<1>4. CASE PollLoop \/ Log \/ Crash \/ Start
  <2>1. CASE PollLoop
    <3>1. UNCHANGED attempts
      BY <2>1 DEF PollLoop, Select, Sleep, Claim, Load, EndBatch, vars, db
    <3> QED
      BY <3>1 DEF TypeOK
  <2>2. CASE Log \/ Crash \/ Start
    <3>1. UNCHANGED attempts
      BY <2>2 DEF Log, WriteLog, LoseLog, Crash, Start, db
    <3> QED
      BY <3>1 DEF TypeOK
  <2> QED
    BY <1>4, <2>1, <2>2
<1> QED
  BY <1>1, <1>2, <1>3, <1>4 DEF Next

THEOREM AttemptsGrow == Spec => AttemptsNeverDecrease
<1>1. TypeOK /\ AllKept /\ [Next]_vars =>
        [\A m \in Messages : attempts'[m] >= attempts[m]]_vars
  BY AttemptStep
<1> QED
  BY <1>1, TypeCorrect, BudgetIsKept, PTL DEF Spec, AttemptsNeverDecrease

-----------------------------------------------------------------------------
(* Evidence: a delivery was accepted, an exhaustion left its dead letter.  *)

Acceptance(n) ==
    n \notin acked =>
        /\ task[n] # "answered"
        /\ status[n] # "delivered"
        /\ \A k \in Nat : <<n, k, "success">> \notin logs \cup unwritten

Burial(n) ==
    n \notin acked =>
        \A k \in Nat : MaxRetries < k /\ k <= attempts[n] =>
            \E reason \in {"inactive", "error"} : <<n, k, reason>> \in deadLetters

Evidence(n) == Acceptance(n) /\ Burial(n)

AllEvidence == \A n \in Messages : Evidence(n)

\* A task's step keeps the evidence of every message: only an answer lets it
\* mark a row delivered, and only a dead letter lets it go over the budget.
LEMMA TaskEvidence ==
    ASSUME TypeOK, NEW n \in Messages, Evidence(n), NEW m \in Messages, Kept(m), Task(m)
    PROVE  Evidence(n)'
<1> USE DEF Evidence, Acceptance, Burial
<1>1. CASE Send(m) \/ Raise(m)
  BY <1>1 DEF Send, Raise, Ends, TypeOK, db, history
<1>2. CASE RefuseCircuit(m) \/ RefuseRate(m)
  BY <1>2 DEF RefuseCircuit, RefuseRate, Ends, Reschedule, Put, TypeOK, history
<1>3. CASE MarkDelivered(m)
  <2>1. CASE n = m
    BY <1>3, <2>1 DEF MarkDelivered, HasAnswer, history
  <2>2. CASE n # m
    BY <1>3, <2>2 DEF MarkDelivered, Ends, Row, Put, TypeOK, history
  <2> QED
    BY <2>1, <2>2
<1>4. CASE FailRetry(m)
  <2>1. ~(MaxRetries < Counted(m))
    BY <1>4, MaxRetriesAssumption DEF FailRetry, Exhausted, Counted, TypeOK
  <2>2. Acceptance(n)'
    BY <1>4 DEF FailRetry, Ends, Reschedule, Put, TypeOK, history
  <2>3. Burial(n)'
    BY <1>4, <2>1, MaxRetriesAssumption DEF FailRetry, Counted, Put, TypeOK, history
  <2> QED
    BY <2>2, <2>3
<1>5. CASE EndpointGone(m) \/ FailDead(m)
  <2>1. PICK reason \in {"inactive", "error"} : Bury(m, reason)
    BY <1>5 DEF EndpointGone, FailDead
  <2>2. m \in Rows => Counted(m) = attempts[m] + 1
    BY <1>5 DEF EndpointGone, FailDead, Enters, Resumes, Active, Holding, Kept, Fresh, Counted
  <2>3. Acceptance(n)'
    BY <1>5, <2>1 DEF EndpointGone, FailDead, Ends, Bury, Put, TypeOK, history
  <2>4. Burial(n)'
    <3>1. deadLetters \subseteq deadLetters' /\ <<m, Counted(m), reason>> \in deadLetters'
      BY <2>1 DEF Bury
    <3>2. UNCHANGED acked
      BY <1>5 DEF EndpointGone, FailDead, history
    <3>3. \/ attempts'[n] = attempts[n]
          \/ n = m /\ attempts'[n] = attempts[n] + 1 /\ Counted(m) = attempts[n] + 1
      BY <2>1, <2>2 DEF Bury, Put, Row, TypeOK
    <3>4. attempts[n] \in Nat
      BY DEF TypeOK
    <3> QED
      BY <3>1, <3>2, <3>3, <3>4, MaxRetriesAssumption
  <2> QED
    BY <2>3, <2>4
<1> QED
  BY <1>1, <1>2, <1>3, <1>4, <1>5 DEF Task, Begin, Answer

\* Every step keeps the evidence of every message.
LEMMA EvidenceStep ==
    ASSUME TypeOK, AllKept, AllEvidence, [Next]_vars, NEW n \in Messages
    PROVE  Evidence(n)'
<1>0. Evidence(n)
  BY DEF AllEvidence
<1> USE DEF Evidence, Acceptance, Burial
<1>1. ASSUME NEW m \in Messages, Task(m) PROVE Evidence(n)'
  BY <1>0, <1>1, TaskEvidence DEF AllKept
<1>2. ASSUME NEW m \in Messages, Ingest(m) \/ BecomeDue(m) \/ ReceiverAccepts(m)
      PROVE  Evidence(n)'
  BY <1>0, <1>2 DEF Ingest, BecomeDue, ReceiverAccepts, TypeOK, db, loop, history
<1>3. ASSUME NEW t \in Threads, Handler(t) PROVE Evidence(n)'
  <2>1. /\ UNCHANGED <<attempts, deadLetters, logs, unwritten, task, acked>>
        /\ status' = status \/ \E s \in {"dead", "pending", "deleted"} :
                                    status' = Put(status, Flushed(t), s)
    BY <1>3 DEF Handler, CancelRead, RetryRead, DeleteRead, Read, CancelCommit, RetryCommit,
                DeleteCommit, db, loop, history
  <2> QED
    BY <1>0, <2>1 DEF Put
<1>4. CASE PollLoop
  <2>1. /\ UNCHANGED <<attempts, deadLetters, logs, unwritten, acked>>
        /\ status' = status \/ status' = Put(status, Claimable, "in_flight")
        /\ task' = task \/ task' = Put(task, Claimed, "queued")
    BY <1>4 DEF PollLoop, Select, Sleep, Claim, Load, EndBatch, vars, db, loop, history
  <2> QED
    BY <1>0, <2>1 DEF Put
<1>5. CASE Log \/ Crash \/ UNCHANGED vars
  BY <1>0, <1>5 DEF Log, WriteLog, LoseLog, Crash, vars, db, loop, history
<1>6. CASE Start
  BY <1>0, <1>6 DEF Start, Put, history
<1> QED
  BY <1>1, <1>2, <1>3, <1>4, <1>5, <1>6 DEF Next

THEOREM EvidenceIsKept == Spec => []AllEvidence
<1>1. Init => AllEvidence
  BY MaxRetriesAssumption DEF Init, AllEvidence, Evidence, Acceptance, Burial
<1>2. ASSUME TypeOK, AllKept, AllEvidence, [Next]_vars
      PROVE  AllEvidence'
  BY <1>2, EvidenceStep DEF AllEvidence
<1> QED
  BY <1>1, <1>2, TypeCorrect, BudgetIsKept, PTL DEF Spec

\* A delivered row, and a logged success, stand for a message that was
\* accepted.
THEOREM DeliveryWasAccepted == Spec => []DeliveredMeansAccepted
<1>1. TypeOK /\ AllEvidence => DeliveredMeansAccepted
  BY DEF AllEvidence, Evidence, Acceptance, DeliveredMeansAccepted, TypeOK
<1> QED
  BY <1>1, TypeCorrect, EvidenceIsKept, PTL

\* A message beyond its budget was accepted or is in the dead letters, once
\* for each attempt beyond.
THEOREM ExhaustionIsAccounted == Spec => []ExhaustedAccounted
<1>1. TypeOK /\ AllEvidence => ExhaustedAccounted
  <2> SUFFICES ASSUME TypeOK, NEW n \in Messages, Burial(n), n \notin acked,
                      NEW k \in MaxRetries + 1 .. attempts[n]
               PROVE  \E reason \in {"inactive", "error"} : <<n, k, reason>> \in deadLetters
    BY DEF AllEvidence, Evidence, ExhaustedAccounted
  <2>1. k \in Nat /\ MaxRetries < k /\ k <= attempts[n]
    BY MaxRetriesAssumption DEF TypeOK
  <2> QED
    BY <2>1 DEF Burial
<1> QED
  BY <1>1, TypeCorrect, EvidenceIsKept, PTL

-----------------------------------------------------------------------------
(* Terminal rows are quiet.                                                *)

\* A handler changes the status of the rows it read, when it commits.
LEMMA HandlerQuiet ==
    ASSUME TypeOK, NEW n \in Messages, NEW t \in Threads, Handler(t)
    PROVE  /\ UNCHANGED task
           /\ status'[n] = status[n] \/ CommitOf(n)
<1>1. CASE CancelRead(t) \/ RetryRead(t) \/ DeleteRead(t)
  BY <1>1 DEF CancelRead, RetryRead, DeleteRead, Read, db, loop
<1>2. CASE CancelCommit(t) \/ RetryCommit(t) \/ DeleteCommit(t)
  <2>1. /\ UNCHANGED task
        /\ req'[t] = NoRequest
        /\ \E s \in {"dead", "pending", "deleted"} : status' = Put(status, Flushed(t), s)
    BY <1>2 DEF CancelCommit, RetryCommit, DeleteCommit, Finish, TypeOK, loop
  <2>2. Flushed(t) \subseteq req[t].rows
    BY DEF Flushed
  <2> QED
    BY <2>1, <2>2 DEF Put, CommitOf
<1> QED
  BY <1>1, <1>2 DEF Handler

\* No step but a handler's commit moves a dead or delivered row that no task
\* works on, and no step makes a task for it.
THEOREM TerminalStaysQuiet == Spec => TerminalIsQuiet
<1>1. ASSUME TypeOK, Next, NEW n \in Messages,
             status[n] \in {"dead", "delivered"}, task[n] = "idle"
      PROVE  task'[n] = "idle" /\ (status'[n] = status[n] \/ CommitOf(n))
  <2>1. ASSUME NEW m \in Messages, Ingest(m) \/ BecomeDue(m) \/ Task(m) \/ ReceiverAccepts(m)
        PROVE  task'[n] = "idle" /\ status'[n] = status[n]
    <3>1. CASE n = m
      BY <1>1, <2>1, <3>1 DEF Ingest, BecomeDue, ReceiverAccepts, Task, Begin, Answer,
           RefuseCircuit, RefuseRate, EndpointGone, Send, MarkDelivered, FailRetry, FailDead,
           Raise, Enters, Resumes, Holding, TypeOK, loop
    <3>2. CASE n # m
      BY <1>1, <2>1, <3>2, OtherMessage DEF Ledger
    <3> QED
      BY <3>1, <3>2
  <2>2. ASSUME NEW t \in Threads, Handler(t)
        PROVE  task'[n] = "idle" /\ (status'[n] = status[n] \/ CommitOf(n))
    BY <1>1, <2>2, HandlerQuiet
  <2>3. CASE PollLoop
    <3>1. /\ status' = status \/ status' = Put(status, Claimable, "in_flight")
          /\ task' = task \/ task' = Put(task, Claimed, "queued")
      BY <2>3 DEF PollLoop, Select, Sleep, Claim, Load, EndBatch, vars, db, loop
    <3> QED
      BY <1>1, <3>1 DEF Put, Claimable, Claimed
  <2>4. CASE Log
    BY <1>1, <2>4 DEF Log, WriteLog, LoseLog, db
  <2>5. CASE Crash
    BY <1>1, <2>5 DEF Crash, db
  <2>6. CASE Start
    BY <1>1, <2>6 DEF Start, InFlight, Put
  <2> QED
    BY <1>1, <2>1, <2>2, <2>3, <2>4, <2>5, <2>6 DEF Next
<1>2. TypeOK /\ [Next]_vars =>
        [\A m \in Messages :
            status[m] \in {"dead", "delivered"} /\ task[m] = "idle" =>
                /\ task'[m] = "idle"
                /\ status'[m] = status[m] \/ CommitOf(m)]_vars
  BY <1>1
<1> QED
  BY <1>2, TypeCorrect, PTL DEF Spec, TerminalIsQuiet

-----------------------------------------------------------------------------
(* The audit trail.  One outcome is recorded at a time, so that a stop can  *)
(* take one entry with it; every other step that counts an attempt leaves   *)
(* the entry for it, under the number the row then has.                     *)

\* At most one entry waits to be written.
OneUnwritten == \A e, f \in unwritten : e = f

\* The attempts, however many, that have left no trace.
Unaudited ==
    {a \in (Messages \ MayRaise) \X (Nat \ {0}) : a[2] <= attempts[a[1]] /\ ~Audited(a[1], a[2])}

Covered(m, n) == n <= attempts[m] => Audited(m, n)

AuditInv ==
    /\ OneUnwritten
    /\ IsFiniteSet(Unaudited)
    /\ Cardinality(Unaudited) <= crashes

LEMMA OneUnwrittenKept == OneUnwritten /\ [Next]_vars => OneUnwritten'
<1> SUFFICES ASSUME OneUnwritten, [Next]_vars PROVE OneUnwritten'
  OBVIOUS
<1>1. ASSUME NEW m \in Messages, Task(m) PROVE OneUnwritten'
  BY <1>1 DEF OneUnwritten, Task, Begin, Answer, RefuseCircuit, RefuseRate, EndpointGone, Send,
              MarkDelivered, FailRetry, FailDead, Raise
<1>2. \/ UNCHANGED unwritten \/ unwritten' = {} \/ \E m \in Messages : Task(m)
  BY DEF Next, Ingest, BecomeDue, ReceiverAccepts, Handler, CancelRead, RetryRead, DeleteRead, Read,
         CancelCommit, RetryCommit, DeleteCommit, PollLoop, Select, Sleep, Claim, Load, EndBatch,
         Log, WriteLog, LoseLog, Crash, Start, vars, loop
<1> QED
  BY <1>1, <1>2 DEF OneUnwritten

\* No trace is taken away, and nothing is counted.
LEMMA CoveredStays ==
    ASSUME NEW m, NEW n, Covered(m, n), UNCHANGED attempts[m],
           logs \cup unwritten \subseteq logs' \cup unwritten', deadLetters \subseteq deadLetters'
    PROVE  Covered(m, n)'
BY DEF Covered, Audited

\* The next attempt is counted, and has a trace.
LEMMA CoveredCounts ==
    ASSUME NEW m, NEW n \in Nat, NEW c \in Nat, Covered(m, n), attempts[m] \in Nat,
           c = attempts[m] + 1, attempts'[m] = c, Audited(m, c)',
           logs \cup unwritten \subseteq logs' \cup unwritten', deadLetters \subseteq deadLetters'
    PROVE  Covered(m, n)'
<1>1. CASE n <= attempts[m]
  BY <1>1 DEF Covered, Audited
<1>2. CASE ~(n <= attempts[m])
  <2>1. n <= attempts'[m] => n = c
    BY <1>2
  <2> QED
    BY <2>1 DEF Covered
<1> QED
  BY <1>1, <1>2

\* What the end of an attempt writes is the trace of the attempt it counts:
\* the number in the entry is the snapshot's, the count is the row's, and they
\* are the same.
LEMMA OutcomeCovered ==
    ASSUME TypeOK, NEW m \in Messages, Kept(m), NEW n \in Nat, Covered(m, n),
           EndpointGone(m) \/ Answer(m)
    PROVE  Covered(m, n)'
<1>1. /\ unwritten = {} /\ UNCHANGED logs /\ deadLetters \subseteq deadLetters'
      /\ m \in Active
  BY DEF Answer, EndpointGone, MarkDelivered, FailRetry, FailDead, Bury, Enters, Resumes,
         Holding, Active
<1>2. logs \cup unwritten \subseteq logs' \cup unwritten'
  BY <1>1
<1>3. CASE m \notin Rows
  <2>1. Row(m) = {}
    BY <1>3 DEF Row
  <2>2. attempts' = Put(attempts, Row(m), Counted(m)) \/ attempts' = Put(attempts, Row(m), attempts[m] + 1)
    BY DEF Answer, EndpointGone, MarkDelivered, FailRetry, FailDead, Bury
  <2>3. UNCHANGED attempts[m]
    BY <2>1, <2>2 DEF Put
  <2> QED
    BY <1>1, <1>2, <2>3, CoveredStays
<1>4. CASE m \in Rows
  <2>0. PICK c \in Nat : c = attempts[m] + 1
    BY DEF TypeOK
  <2>1. m \in Row(m) /\ Counted(m) = c
    BY <1>1, <1>4, <2>0 DEF Row, Counted, Kept, Fresh
  <2>2. attempts[m] \in Nat
    BY DEF TypeOK
  <2>3. \/ attempts' = Put(attempts, Row(m), Counted(m))
        \/ attempts' = Put(attempts, Row(m), c)
    BY <2>0 DEF Answer, EndpointGone, MarkDelivered, FailRetry, FailDead, Bury
  <2>4. attempts'[m] = c
    BY <2>1, <2>3 DEF Put
  <2>5. \/ <<m, Counted(m), "inactive">> \in deadLetters'
        \/ \E o \in Outcomes : <<m, Counted(m), o>> \in unwritten'
    <3>1. CASE EndpointGone(m)
      BY <3>1 DEF EndpointGone, Bury
    <3>2. CASE Answer(m)
      <4>1. PICK o \in Outcomes : unwritten' = {<<m, Counted(m), o>>}
        BY <3>2 DEF Answer, MarkDelivered, FailRetry, FailDead, Outcomes
      <4> QED
        BY <4>1
    <3> QED
      BY <3>1, <3>2
  <2>6. Audited(m, c)'
    <3>1. \/ <<m, c, "inactive">> \in deadLetters'
          \/ \E o \in Outcomes : <<m, c, o>> \in unwritten'
      BY <2>1, <2>5
    <3> QED
      BY <3>1 DEF Audited, Outcomes
  <2> QED
    BY <1>1, <1>2, <2>0, <2>2, <2>4, <2>6, CoveredCounts
<1> QED
  BY <1>3, <1>4

\* No step but a stop takes away a trace.
LEMMA CoveredKept ==
    ASSUME TypeOK, AllKept, OneUnwritten, [Next]_vars, ~Crash,
           NEW m \in Messages \ MayRaise, NEW n \in Nat, Covered(m, n)
    PROVE  Covered(m, n)'
<1>a. ASSUME UNCHANGED <<attempts, logs, unwritten, deadLetters>> PROVE Covered(m, n)'
  BY <1>a, CoveredStays
<1>1. ASSUME NEW k \in Messages, Ingest(k) \/ BecomeDue(k) \/ ReceiverAccepts(k) PROVE Covered(m, n)'
  BY <1>1, <1>a DEF Ingest, BecomeDue, ReceiverAccepts, db, loop
<1>2. ASSUME NEW k \in Messages, RefuseRate(k) \/ Send(k) \/ Raise(k) PROVE Covered(m, n)'
  BY <1>2, <1>a DEF RefuseRate, Send, Raise, db
<1>3. ASSUME NEW k \in Messages, RefuseCircuit(k) PROVE Covered(m, n)'
  <2>1. unwritten = {} /\ UNCHANGED <<attempts, logs, deadLetters>>
    BY <1>3 DEF RefuseCircuit, Enters
  <2>2. logs \cup unwritten \subseteq logs' \cup unwritten'
    BY <2>1
  <2> QED
    BY <2>1, <2>2, CoveredStays
<1>4. ASSUME NEW k \in Messages, EndpointGone(k) \/ Answer(k) PROVE Covered(m, n)'
  <2>1. CASE k = m
    BY <1>4, <2>1, OutcomeCovered DEF AllKept
  <2>2. CASE k # m
    <3>1. UNCHANGED attempts[m]
      BY <1>4, <2>2, OtherMessage DEF Ledger, Task, Begin
    <3>2. unwritten = {} /\ UNCHANGED logs /\ deadLetters \subseteq deadLetters'
      BY <1>4 DEF Answer, EndpointGone, MarkDelivered, FailRetry, FailDead, Bury, Enters, Resumes
    <3>3. logs \cup unwritten \subseteq logs' \cup unwritten'
      BY <3>2
    <3> QED
      BY <3>1, <3>2, <3>3, CoveredStays
  <2> QED
    BY <2>1, <2>2
<1>5. ASSUME NEW t \in Threads, Handler(t) PROVE Covered(m, n)'
  BY <1>5, <1>a DEF Handler, CancelRead, RetryRead, DeleteRead, Read, CancelCommit, RetryCommit,
                    DeleteCommit, db, loop
<1>6. CASE PollLoop \/ Start \/ UNCHANGED vars
  BY <1>6, <1>a DEF PollLoop, Select, Sleep, Claim, Load, EndBatch, Start, vars, db, loop
<1>7. CASE WriteLog
  <2>1. UNCHANGED <<attempts, deadLetters>> /\ logs \cup unwritten \subseteq logs' \cup unwritten'
    BY <1>7 DEF WriteLog
  <2> QED
    BY <2>1, CoveredStays
<1>8. CASE LoseLog
  <2>1. PICK e \in unwritten : e[1] \in MayRaise
    BY <1>8 DEF LoseLog
  <2>2. ASSUME NEW o \in Outcomes PROVE <<m, n, o>> \notin unwritten
    BY <2>1 DEF OneUnwritten
  <2>3. UNCHANGED <<attempts, logs, deadLetters>>
    BY <1>8 DEF LoseLog, db
  <2> QED
    BY <2>2, <2>3 DEF Covered, Audited, Outcomes
<1> QED
  BY <1>1, <1>2, <1>3, <1>4, <1>5, <1>6, <1>7, <1>8 DEF Next, Task, Begin, Log

\* A stop takes away the trace of the one entry that waits.
LEMMA CrashTakesOne ==
    ASSUME OneUnwritten, Crash
    PROVE  \/ Unaudited' \subseteq Unaudited
           \/ \E e \in unwritten : Unaudited' \subseteq Unaudited \cup {<<e[1], e[2]>>}
<1>1. UNCHANGED <<attempts, logs, deadLetters>> /\ unwritten' = {}
  BY DEF Crash, db
<1>2. ASSUME NEW a \in Unaudited', a \notin Unaudited
      PROVE  \E e \in unwritten : a = <<e[1], e[2]>>
  <2>1. /\ a \in (Messages \ MayRaise) \X (Nat \ {0})
        /\ a[2] <= attempts[a[1]]
        /\ ~Audited(a[1], a[2])'
    BY <1>1, <1>2 DEF Unaudited
  <2>2. Audited(a[1], a[2])
    BY <1>2, <2>1 DEF Unaudited
  <2>3. PICK o \in Outcomes : <<a[1], a[2], o>> \in unwritten
    BY <1>1, <2>1, <2>2 DEF Audited, Outcomes
  <2>4. a = <<a[1], a[2]>>
    BY <2>1
  <2> QED
    BY <2>3, <2>4
<1>3. CASE unwritten = {}
  BY <1>2, <1>3
<1>4. CASE unwritten # {}
  <2>1. PICK e \in unwritten : unwritten = {e}
    BY <1>4 DEF OneUnwritten
  <2>2. Unaudited' \subseteq Unaudited \cup {<<e[1], e[2]>>}
    BY <1>2, <2>1
  <2> QED
    BY <2>2
<1> QED
  BY <1>3, <1>4

LEMMA AuditStart == Init => AuditInv
<1> SUFFICES ASSUME Init PROVE AuditInv
  OBVIOUS
<1>1. Unaudited = {}
  BY DEF Init, Unaudited
<1>2. IsFiniteSet(Unaudited) /\ Cardinality(Unaudited) = 0
  BY <1>1, FS_EmptySet
<1> QED
  BY <1>2 DEF Init, AuditInv, OneUnwritten

LEMMA AuditKept ==
    ASSUME TypeOK, AllKept, AuditInv, [Next]_vars
    PROVE  AuditInv'
<1>0. /\ IsFiniteSet(Unaudited)
      /\ Cardinality(Unaudited) \in Nat /\ Cardinality(Unaudited) <= crashes
      /\ crashes \in Nat
  BY FS_CardinalityType DEF AuditInv, TypeOK
<1>1. OneUnwritten'
  BY OneUnwrittenKept DEF AuditInv
<1>2. CASE ~Crash
  <2>1. ASSUME NEW m \in Messages \ MayRaise, NEW n \in Nat \ {0}, <<m, n>> \notin Unaudited
        PROVE  <<m, n>> \notin Unaudited'
    <3>1. Covered(m, n)
      BY <2>1 DEF Unaudited, Covered
    <3>2. Covered(m, n)'
      BY <1>2, <3>1, CoveredKept DEF AuditInv
    <3> QED
      BY <3>2 DEF Unaudited, Covered
  <2>2. Unaudited' \subseteq (Messages \ MayRaise) \X (Nat \ {0})
    BY DEF Unaudited
  <2>3. Unaudited' \subseteq Unaudited
    BY <2>1, <2>2
  <2>4. IsFiniteSet(Unaudited') /\ Cardinality(Unaudited') <= Cardinality(Unaudited)
    BY <1>0, <2>3, FS_Subset
  <2>5. Cardinality(Unaudited') \in Nat
    BY <2>4, FS_CardinalityType
  <2>6. crashes' = crashes
    BY <1>2 DEF Next, Ingest, BecomeDue, Task, Begin, Answer, RefuseCircuit, RefuseRate, EndpointGone,
       Send, MarkDelivered, FailRetry, FailDead, Raise, ReceiverAccepts, Handler, CancelRead,
       RetryRead, DeleteRead, Read, CancelCommit, RetryCommit, DeleteCommit, PollLoop, Select,
       Sleep, Claim, Load, EndBatch, Log, WriteLog, LoseLog, Start, vars, history
  <2>7. Cardinality(Unaudited') <= crashes'
    BY <1>0, <2>4, <2>5, <2>6
  <2> QED
    BY <1>1, <2>4, <2>7 DEF AuditInv
<1>3. CASE Crash
  <2>1. PICK a : Unaudited' \subseteq Unaudited \cup {a}
    BY <1>3, CrashTakesOne DEF AuditInv
  <2>2. /\ IsFiniteSet(Unaudited \cup {a})
        /\ Cardinality(Unaudited \cup {a}) \in Nat
        /\ Cardinality(Unaudited \cup {a}) <= Cardinality(Unaudited) + 1
    <3>1. IsFiniteSet(Unaudited \cup {a})
      BY <1>0, FS_AddElement
    <3>2. \/ Cardinality(Unaudited \cup {a}) = Cardinality(Unaudited) + 1
          \/ Cardinality(Unaudited \cup {a}) = Cardinality(Unaudited)
      BY <1>0, FS_AddElement
    <3> QED
      BY <1>0, <3>1, <3>2
  <2>3. IsFiniteSet(Unaudited') /\ Cardinality(Unaudited') <= Cardinality(Unaudited \cup {a})
    BY <2>1, <2>2, FS_Subset
  <2>4. Cardinality(Unaudited') \in Nat
    BY <2>3, FS_CardinalityType
  <2>5. crashes' = crashes + 1
    BY <1>3 DEF Crash
  <2>6. Cardinality(Unaudited') <= crashes'
    BY <1>0, <2>2, <2>3, <2>4, <2>5
  <2> QED
    BY <1>1, <2>3, <2>6 DEF AuditInv
<1> QED
  BY <1>2, <1>3

\* Of all the attempts a row counts, of every message, at most as many have
\* left no entry as the process was stopped: whatever handlers, batches and
\* outcomes interleave, and however many attempts there are.
THEOREM AuditTrailHolds == Spec => []AuditTrail
<1>1. TypeOK /\ AuditInv => AuditTrail
  <2> DEFINE counts == 1 .. MaxRetries + 1 + MaxRetryCalls
             missing == {a \in (Messages \ MayRaise) \X counts :
                            a[2] <= attempts[a[1]] /\ ~Audited(a[1], a[2])}
  <2> SUFFICES ASSUME TypeOK, AuditInv PROVE Cardinality(missing) <= crashes
    BY DEF AuditTrail
  <2>1. counts \subseteq Nat \ {0}
    BY MaxRetriesAssumption, BoundsAssumption
  <2>2. missing \subseteq Unaudited
    BY <2>1 DEF Unaudited
  <2> HIDE DEF missing
  <2>3. IsFiniteSet(missing) /\ Cardinality(missing) <= Cardinality(Unaudited)
    BY <2>2, FS_Subset DEF AuditInv
  <2>4. Cardinality(missing) \in Nat /\ Cardinality(Unaudited) \in Nat
    BY <2>3, FS_CardinalityType DEF AuditInv
  <2> QED
    BY <2>3, <2>4 DEF AuditInv, TypeOK
<1> QED
  BY <1>1, AuditStart, AuditKept, TypeCorrect, BudgetIsKept, PTL DEF Spec

-----------------------------------------------------------------------------
(* Delivery implements WorkQueue, for every value of the constants.        *)

View == [m \in Messages |-> Seen(m)]

\* What WorkQueue's steps are in terms of the view.
LEMMA ViewRows ==
    ASSUME TypeOK
    PROVE  /\ Queue!Present = Rows
           /\ \A m \in Messages : View[m] = "ready" <=>
                \/ status[m] = "pending"
                \/ status[m] = "in_flight" /\ m \notin Active
BY DEF View, Seen, Queue!Present, Rows, TypeOK, Statuses

\* A step that leaves the view of the rows, the tasks and the
\* acknowledgements alone is a stutter.
LEMMA Stutter ==
    ASSUME \A m \in Messages : Seen(m)' = Seen(m), UNCHANGED <<Active, acked>>
    PROVE  UNCHANGED Queue!queue
BY DEF Queue!queue

\* A write of v over the rows S, none of which a task has in flight then.
LEMMA ViewPut ==
    ASSUME TypeOK, NEW S \in SUBSET Messages, NEW v \in {"dead", "pending", "deleted", "delivered"},
           status' = Put(status, S, v),
           \A m \in Messages \ S : status[m] = "in_flight" => (m \in Active <=> (m \in Active)')
    PROVE  View' = Queue!Set(S, IF v = "pending" THEN "ready" ELSE v)
<1> DEFINE w == IF v = "pending" THEN "ready" ELSE v
<1>1. ASSUME NEW m \in S PROVE Seen(m)' = w
  BY <1>1 DEF Seen, Put
<1>2. ASSUME NEW m \in Messages \ S PROVE Seen(m)' = Seen(m)
  BY <1>2 DEF Seen, Put
<1> QED
  BY <1>1, <1>2 DEF View, Queue!Set

\* The end of a task with an outcome is the end of a worker.
LEMMA EndsRefine ==
    ASSUME TypeOK, NEW m \in Active, Ends(m),
           NEW v \in {"dead", "pending", "delivered"}, status' = Put(status, Row(m), v),
           UNCHANGED acked
    PROVE  Queue!End(m, IF v = "pending" THEN "ready" ELSE v)
<1>1. m \in Messages
  BY DEF Active
<1>2. Active' = Active \ {m}
  BY <1>1 DEF Ends, Active, TypeOK
<1>3. Row(m) = {m} \cap Queue!Present
  BY ViewRows DEF Row
<1>4. View' = Queue!Set(Row(m), IF v = "pending" THEN "ready" ELSE v)
  <2>1. Row(m) \in SUBSET Messages
    BY <1>1 DEF Row
  <2>2. \A n \in Messages \ Row(m) : status[n] = "in_flight" => (n \in Active <=> (n \in Active)')
    BY <1>1, <1>2 DEF Row, Rows
  <2> QED
    BY <2>1, <2>2, ViewPut
<1> QED
  BY <1>1, <1>2, <1>3, <1>4 DEF Queue!End, View

\* A task's step is the end of its worker, or nothing the queue can see.
LEMMA TaskRefines ==
    ASSUME TypeOK, NEW m \in Messages, Acceptance(m), Task(m)
    PROVE  [Queue!Next]_Queue!queue
<1>1. CASE RefuseCircuit(m) \/ RefuseRate(m) \/ FailRetry(m)
  <2>1. /\ m \in Active /\ Ends(m)
        /\ status' = Put(status, Row(m), "pending")
        /\ UNCHANGED acked
    BY <1>1 DEF RefuseCircuit, RefuseRate, FailRetry, Reschedule, Enters, Resumes, Holding, Active,
                history
  <2>2. Queue!End(m, "ready")
    BY <2>1, EndsRefine
  <2> QED
    BY <2>2 DEF Queue!Next
<1>2. CASE EndpointGone(m) \/ FailDead(m)
  <2>1. /\ m \in Active /\ Ends(m)
        /\ status' = Put(status, Row(m), "dead")
        /\ UNCHANGED acked
    BY <1>2 DEF EndpointGone, FailDead, Bury, Enters, Resumes, Holding, Active, history
  <2>2. Queue!End(m, "dead")
    BY <2>1, EndsRefine
  <2> QED
    BY <2>2 DEF Queue!Next
<1>3. CASE MarkDelivered(m)
  <2>1. /\ m \in Active /\ Ends(m)
        /\ status' = Put(status, Row(m), "delivered")
        /\ UNCHANGED acked
    BY <1>3 DEF MarkDelivered, Resumes, Holding, Active, history
  <2>2. m \in acked
    BY <1>3 DEF MarkDelivered, HasAnswer, Acceptance
  <2>3. Queue!End(m, "delivered")
    BY <2>1, EndsRefine
  <2>4. Queue!Deliver(m)
    BY <2>2, <2>3 DEF Queue!Deliver
  <2> QED
    BY <2>4 DEF Queue!Next
<1>4. CASE Send(m)
  <2>1. UNCHANGED <<status, acked>> /\ Active' = Active
    BY <1>4 DEF Send, Enters, Active, TypeOK, db
  <2> QED
    BY <2>1, Stutter DEF Seen
<1>5. CASE Raise(m)
  <2>1. /\ UNCHANGED <<status, acked>>
        /\ m \in Active /\ Active' = Active \ {m}
    BY <1>5 DEF Raise, Ends, Enters, Resumes, Holding, Active, TypeOK, db, history
  <2>2. View' = Queue!Set({n \in {m} : View[n] = "taken"}, "ready")
    BY <2>1 DEF View, Seen, Queue!Set, TypeOK, Statuses
  <2>3. Queue!Abandon
    BY <2>1, <2>2 DEF Queue!Abandon, View
  <2> QED
    BY <2>3 DEF Queue!Next
<1> QED
  BY <1>1, <1>2, <1>3, <1>4, <1>5 DEF Task, Begin, Answer

\* A handler's commit is a call of a client.
LEMMA HandlerRefines ==
    ASSUME TypeOK, NEW t \in Threads, Handler(t)
    PROVE  [Queue!Next]_Queue!queue
<1>1. UNCHANGED <<Active, acked>>
  BY DEF Handler, CancelRead, RetryRead, DeleteRead, Read, CancelCommit, RetryCommit,
         DeleteCommit, Active, loop, history
<1>2. CASE UNCHANGED status
  BY <1>1, <1>2, Stutter DEF Seen
<1>3. CASE \E v \in {"dead", "pending", "deleted"} : status' = Put(status, Flushed(t), v)
  <2>1. PICK v \in {"dead", "pending", "deleted"} : status' = Put(status, Flushed(t), v)
    BY <1>3
  <2>2. Flushed(t) \subseteq Rows /\ Rows \subseteq Messages
    BY DEF Flushed, Rows
  <2>3. View' = Queue!Set(Flushed(t), IF v = "pending" THEN "ready" ELSE v)
    BY <1>1, <2>1, <2>2, ViewPut
  <2>4. Queue!Call
    BY <1>1, <2>2, <2>3, ViewRows DEF Queue!Call, View
  <2> QED
    BY <2>4 DEF Queue!Next
<1> QED
  BY <1>2, <1>3 DEF Handler, CancelRead, RetryRead, DeleteRead, Read, CancelCommit, RetryCommit,
                    DeleteCommit, db

\* The fetch takes its batch at the load; its other steps cannot be seen.
LEMMA PollLoopRefines ==
    ASSUME TypeOK, AllKept, PollLoop
    PROVE  [Queue!Next]_Queue!queue
<1>0. poll # "running" => Active = {}
  BY DEF AllKept, Kept, Batched, Active
<1>1. CASE Select \/ Sleep \/ EndBatch
  <2>1. UNCHANGED <<status, Active, acked>>
    BY <1>1 DEF Select, Sleep, EndBatch, Active, vars, db, loop, history
  <2> QED
    BY <2>1, Stutter DEF Seen
<1>2. CASE Claim
  <2>1. Active = {} /\ UNCHANGED <<Active, acked>> /\ status' = Put(status, Claimable, "in_flight")
    BY <1>0, <1>2 DEF Claim, Active, history
  <2>2. ASSUME NEW m \in Messages PROVE Seen(m)' = Seen(m)
    BY <2>1 DEF Seen, Put, Claimable
  <2> QED
    BY <2>1, <2>2, Stutter
<1>3. CASE Load
  <2>1. Active = {} /\ UNCHANGED <<status, acked>>
    BY <1>0, <1>3 DEF Load, db, history
  <2>2. Active' = Claimed
    BY <1>3, <2>1 DEF Load, Put, Active, Claimed, TypeOK
  <2>3. Claimed \in SUBSET {m \in Messages : View[m] = "ready"}
    BY <2>1, ViewRows DEF Claimed, TypeOK
  <2>4. View' = Queue!Set(Claimed, "taken")
    BY <2>1, <2>2, <2>3 DEF View, Seen, Queue!Set, Claimed
  <2>5. Queue!Take
    BY <2>1, <2>2, <2>3, <2>4 DEF Queue!Take, View
  <2> QED
    BY <2>5 DEF Queue!Next
<1> QED
  BY <1>1, <1>2, <1>3 DEF PollLoop

\* Every behaviour of the dispatcher and the handlers is one of the queue.
THEOREM DeliveryImplementsQueue == Spec => ImplementsQueue
<1>1. Init => Queue!Init
  BY DEF Init, Queue!Init, Seen, Active
<1>2. ASSUME TypeOK, AllKept, AllEvidence, [Next]_vars
      PROVE  [Queue!Next]_Queue!queue
  <2>1. ASSUME NEW m \in Messages, Ingest(m) PROVE [Queue!Next]_Queue!queue
    <3>1. UNCHANGED <<Active, acked>>
      BY <2>1 DEF Ingest, Active, loop, history
    <3>2. status[m] = "none" /\ status' = [status EXCEPT ![m] = "pending"]
      BY <2>1 DEF Ingest
    <3>3. View[m] = "none" /\ View' = Queue!Set({m}, "ready")
      BY <1>2, <3>1, <3>2 DEF View, Seen, Queue!Set, TypeOK
    <3>4. Queue!Submit(m)
      BY <3>1, <3>3 DEF Queue!Submit, View
    <3> QED
      BY <3>4 DEF Queue!Next
  <2>2. ASSUME NEW m \in Messages, BecomeDue(m) PROVE [Queue!Next]_Queue!queue
    <3>1. UNCHANGED <<status, Active, acked>>
      BY <2>2 DEF BecomeDue, Active, loop, history
    <3> QED
      BY <3>1, Stutter DEF Seen
  <2>3. ASSUME NEW m \in Messages, ReceiverAccepts(m) PROVE [Queue!Next]_Queue!queue
    <3>1. m \in Active /\ UNCHANGED <<status, Active>> /\ acked' = acked \cup {m}
      BY <1>2, <2>3 DEF ReceiverAccepts, Active, TypeOK, db
    <3>2. Queue!Accept(m)
      BY <3>1 DEF Queue!Accept, Seen
    <3> QED
      BY <2>3, <3>2 DEF Queue!Next
  <2>4. ASSUME NEW m \in Messages, Task(m) PROVE [Queue!Next]_Queue!queue
    BY <1>2, <2>4, TaskRefines DEF AllEvidence, Evidence
  <2>5. ASSUME NEW t \in Threads, Handler(t) PROVE [Queue!Next]_Queue!queue
    BY <1>2, <2>5, HandlerRefines
  <2>6. CASE PollLoop
    BY <1>2, <2>6, PollLoopRefines
  <2>7. CASE Log \/ UNCHANGED vars
    <3>1. UNCHANGED <<status, Active, acked>>
      BY <2>7 DEF Log, WriteLog, LoseLog, Active, vars, db, loop, history
    <3> QED
      BY <3>1, Stutter DEF Seen
  <2>8. CASE Crash
    <3>1. Active' = {} /\ UNCHANGED <<status, acked>>
      BY <2>8 DEF Crash, Active, db
    <3>2. View' = Queue!Set({m \in Active : View[m] = "taken"}, "ready")
      BY <1>2, <3>1 DEF View, Seen, Queue!Set, Active, TypeOK, Statuses
    <3>3. Queue!Abandon
      BY <3>1, <3>2 DEF Queue!Abandon, View
    <3> QED
      BY <3>3 DEF Queue!Next
  <2>9. CASE Start
    <3>1. Active = {} /\ UNCHANGED <<Active, acked>> /\ status' = Put(status, InFlight, "pending")
      BY <1>2, <2>9 DEF Start, Active, AllKept, Kept, Batched, history
    <3>2. ASSUME NEW m \in Messages PROVE Seen(m)' = Seen(m)
      BY <3>1 DEF Seen, Put, InFlight
    <3> QED
      BY <3>1, <3>2, Stutter
  <2> QED
    BY <1>2, <2>1, <2>2, <2>3, <2>4, <2>5, <2>6, <2>7, <2>8, <2>9 DEF Next
<1> QED
  BY <1>1, <1>2, TypeCorrect, BudgetIsKept, EvidenceIsKept, PTL
     DEF Spec, ImplementsQueue, Queue!Spec
=============================================================================
