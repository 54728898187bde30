------------------------------ MODULE Delivery ------------------------------
(***************************************************************************)
(* The life of a message between the API that accepts it and the receiver  *)
(* that must get it: the messages table (models.py), the dispatcher's poll *)
(* loop and delivery tasks (core/dispatcher.py), and the API handlers that *)
(* cancel, retry and delete rows while deliveries are under way            *)
(* (api/messages.py).                                                      *)
(*                                                                         *)
(* Three kinds of actors interleave.  The dispatcher is one asyncio loop:  *)
(* its code runs without interruption by other tasks between two awaits,   *)
(* but every commit is a point at which a handler, running in a thread of  *)
(* its own, may commit too.  A handler reads its rows in one step and      *)
(* commits in a later one (the ORM takes no lock on a SELECT, and writes   *)
(* by primary key whatever the row has become).  The receiver may accept a *)
(* request whose response is then lost.  The process may stop anywhere.    *)
(*                                                                         *)
(* Owned elsewhere, and answered here by a free choice: whether the        *)
(* circuit breaker and the rate limiter let an attempt through, whether    *)
(* the endpoint still exists, and how long a backoff is.                   *)
(***************************************************************************)
EXTENDS Naturals, FiniteSets

CONSTANTS
    Messages,       \* messages that clients may ingest
    Threads,        \* API worker threads
    MaxRetries,     \* max_retries of every message
    BatchSize,      \* settings.DISPATCHER_BATCH_SIZE
    Concurrency,    \* settings.DISPATCHER_CONCURRENCY, the semaphore
    MayRaise,       \* messages whose task may meet an exception that is not
                    \* an httpx.RequestError (an invalid URL, a locked database)
    MaxRetryCalls,  \* bound: retry calls per message
    MaxCrashes      \* bound: stops of the process

ASSUME MaxRetriesAssumption == MaxRetries \in Nat
ASSUME BatchSizeAssumption == BatchSize \in Nat \ {0}
ASSUME ConcurrencyAssumption == Concurrency \in Nat \ {0}
ASSUME MayRaiseAssumption == MayRaise \subseteq Messages
ASSUME BoundsAssumption == MaxRetryCalls \in Nat /\ MaxCrashes \in Nat

VARIABLES
    \* the database
    status,         \* the row's status, "none" before ingest, "deleted" after
    attempts,       \* attempt_count
    due,            \* has next_attempt_at passed?
    deadLetters,    \* dead_letters rows: message, attempt_count, reason
    logs,           \* delivery_logs rows: message, attempt_number, status
    \* the dispatcher's memory
    poll,           \* where the poll loop is
    candidates,     \* candidate_ids of the current fetch
    task,           \* where the delivery task of a message is
    snap,           \* attempt_count in the task's snapshot
    unwritten,      \* log entry to be written before the loop goes on
    \* the API's memory
    req,            \* what a thread's request has read and will write
    \* history
    sent,           \* number of POSTs made for a message
    acked,          \* messages some receiver answered with a 2xx
    retried,        \* number of committed retry calls for a message
    crashes         \* number of stops of the process

db       == <<status, attempts, due, deadLetters, logs>>
loop     == <<poll, candidates, task, snap, unwritten>>
history  == <<sent, acked, retried, crashes>>
vars     == <<db, loop, req, history>>

Statuses == {"none", "pending", "in_flight", "delivered", "dead", "deleted"}
NoRequest == [op |-> "none", rows |-> {}]

Rows   == {m \in Messages : status[m] \notin {"none", "deleted"}}
Active == {m \in Messages : task[m] # "idle"}
Holding == {m \in Messages : task[m] \in {"posting", "answered"}}
Up     == poll # "down"

\* f with value v on S: one UPDATE statement over the rows S.
Put(f, S, v) == [m \in Messages |-> IF m \in S THEN v ELSE f[m]]

\* A write by primary key touches the row if it still exists.
Row(m) == {m} \cap Rows

Init ==
    /\ status = [m \in Messages |-> "none"]
    /\ attempts = [m \in Messages |-> 0]
    /\ due = [m \in Messages |-> FALSE]
    /\ deadLetters = {}
    /\ logs = {}
    /\ poll = "down"
    /\ candidates = {}
    /\ task = [m \in Messages |-> "idle"]
    /\ snap = [m \in Messages |-> 0]
    /\ unwritten = {}
    /\ req = [t \in Threads |-> NoRequest]
    /\ sent = [m \in Messages |-> 0]
    /\ acked = {}
    /\ retried = [m \in Messages |-> 0]
    /\ crashes = 0

-----------------------------------------------------------------------------
(* The API.  The rows are the ones a first query loads and its guard       *)
(* admits; a single call is a batch of one.                                *)

\* A new row commits as pending and due.  Deduplication is by key, and a
\* message stands for one key: a duplicate changes nothing.
Ingest(m) ==
    /\ Up
    /\ status[m] = "none"
    /\ status' = [status EXCEPT ![m] = "pending"]
    /\ due' = [due EXCEPT ![m] = TRUE]
    /\ UNCHANGED <<attempts, deadLetters, logs, loop, req, history>>

Read(t, op, rows) ==
    /\ Up
    /\ req[t] = NoRequest
    /\ req' = [req EXCEPT ![t] = [op |-> op, rows |-> rows]]
    /\ UNCHANGED <<db, loop, history>>

Finish(t, op) ==
    /\ req[t].op = op
    /\ req' = [req EXCEPT ![t] = NoRequest]

\* The ORM flushes the loaded rows together: if one of them is gone the
\* flush raises and the whole commit is rolled back.
Flushed(t) == IF req[t].rows \subseteq Rows THEN req[t].rows ELSE {}

Cancellable == {m \in Messages : status[m] \in {"pending", "in_flight"}}

CancelRead(t) ==
    \E rows \in SUBSET Cancellable \ {{}} : Read(t, "cancel", rows)

CancelCommit(t) ==
    /\ Finish(t, "cancel")
    /\ status' = Put(status, Flushed(t), "dead")
    /\ UNCHANGED <<attempts, due, deadLetters, logs, loop, history>>

RetryCalls(m) ==
    retried[m] + Cardinality({t \in Threads : req[t].op = "retry" /\ m \in req[t].rows})

Retryable == {m \in Messages : status[m] = "dead"}

RetryRead(t) ==
    \E rows \in SUBSET Retryable \ {{}} :
        /\ \A m \in rows : RetryCalls(m) < MaxRetryCalls
        /\ Read(t, "retry", rows)

\* Mutant: a retry starts the count again.
RetryCommit_Resets(t) ==
    /\ Finish(t, "retry")
    /\ status' = Put(status, Flushed(t), "pending")
    /\ attempts' = Put(attempts, Flushed(t), 0)
    /\ due' = Put(due, Flushed(t), TRUE)
    /\ retried' = [m \in Messages |-> IF m \in Flushed(t) THEN retried[m] + 1 ELSE retried[m]]
    /\ UNCHANGED <<deadLetters, logs, loop, sent, acked, crashes>>

\* attempt_count is not reset: a retried message has what is left of its
\* budget, or the one attempt after which it is dead again.
RetryCommit(t) ==
    /\ Finish(t, "retry")
    /\ status' = Put(status, Flushed(t), "pending")
    /\ due' = Put(due, Flushed(t), TRUE)
    /\ retried' = [m \in Messages |-> IF m \in Flushed(t) THEN retried[m] + 1 ELSE retried[m]]
    /\ UNCHANGED <<attempts, deadLetters, logs, loop, sent, acked, crashes>>

Deletable == {m \in Messages : status[m] \in {"dead", "delivered"}}

DeleteRead(t) ==
    \E m \in Deletable : Read(t, "delete", {m})

\* Deleting a row that is gone only warns.
DeleteCommit(t) ==
    /\ Finish(t, "delete")
    /\ status' = Put(status, Flushed(t), "deleted")
    /\ UNCHANGED <<attempts, due, deadLetters, logs, loop, history>>

-----------------------------------------------------------------------------
(* The poll loop: select candidates, claim those still pending, load those *)
(* claimed, run their tasks, and fetch again when all of them have ended.  *)

Due == {m \in Messages : status[m] = "pending" /\ due[m]}

\* The clock passes next_attempt_at.
BecomeDue(m) ==
    /\ status[m] = "pending"
    /\ ~due[m]
    /\ due' = [due EXCEPT ![m] = TRUE]
    /\ UNCHANGED <<status, attempts, deadLetters, logs, loop, req, history>>

Select ==
    /\ poll = "idle"
    /\ Due # {}
    /\ \E S \in SUBSET Due :
        /\ S # {}
        /\ Cardinality(S) <= BatchSize
        /\ S # Due => Cardinality(S) = BatchSize
        /\ candidates' = S
    /\ poll' = "selected"
    /\ UNCHANGED <<db, task, snap, unwritten, req, history>>

\* Nothing is due: sleep until the next poll.
Sleep ==
    /\ poll = "idle"
    /\ Due = {}
    /\ UNCHANGED vars

\* Mutant: the UPDATE of the claim does not look at the status.
Claimable_AnyStatus == candidates

Claimable == {m \in candidates : status[m] = "pending"}

Claim ==
    /\ poll = "selected"
    /\ status' = Put(status, Claimable, "in_flight")
    /\ poll' = "claimed"
    /\ UNCHANGED <<attempts, due, deadLetters, logs, candidates, task, snap, unwritten, req, history>>

Claimed == {m \in candidates : status[m] = "in_flight"}

\* The rows still in flight get a task each; with none the loop polls again.
Load ==
    /\ poll = "claimed"
    /\ task' = Put(task, Claimed, "queued")
    /\ snap' = [m \in Messages |-> IF m \in Claimed THEN attempts[m] ELSE snap[m]]
    /\ candidates' = {}
    /\ poll' = IF Claimed = {} THEN "idle" ELSE "running"
    /\ UNCHANGED <<db, unwritten, req, history>>

\* gather returns when every task has ended.
BatchEnded == Active = {} /\ unwritten = {}

EndBatch ==
    /\ poll = "running"
    /\ BatchEnded
    /\ poll' = "idle"
    /\ UNCHANGED <<db, candidates, task, snap, unwritten, req, history>>

-----------------------------------------------------------------------------
(* A delivery task.  It enters the semaphore, asks the circuit breaker and *)
(* the rate limiter, loads the endpoint, posts, and records the outcome:   *)
(* one step up to the post, one for the outcome.  The log entry of an      *)
(* outcome is committed after it, before the loop runs anything else.      *)

Enters(m) ==
    /\ task[m] = "queued"
    /\ unwritten = {}
    /\ Cardinality(Holding) < Concurrency

Resumes(m) == m \in Holding /\ unwritten = {}

Ends(m) ==
    /\ task' = [task EXCEPT ![m] = "idle"]
    /\ snap' = [snap EXCEPT ![m] = 0]
    /\ UNCHANGED <<poll, candidates, req>>

\* Mutant: a failed attempt is marked with the status nobody selects.
Reschedule_Failed(m) ==
    /\ status' = Put(status, Row(m), "failed")
    /\ due' = Put(due, Row(m), FALSE)

Reschedule(m) ==
    /\ status' = Put(status, Row(m), "pending")
    /\ due' = Put(due, Row(m), FALSE)

\* The circuit is open: back to pending, with a log entry for attempt 0.
RefuseCircuit(m) ==
    /\ Enters(m)
    /\ Ends(m)
    /\ Reschedule(m)
    /\ unwritten' = {<<m, 0, "circuit_open">>}
    /\ UNCHANGED <<attempts, deadLetters, logs, history>>

\* No token: back to pending, not logged.
RefuseRate(m) ==
    /\ Enters(m)
    /\ Ends(m)
    /\ Reschedule(m)
    /\ UNCHANGED <<attempts, deadLetters, logs, unwritten, history>>

Counted(m) == snap[m] + 1

\* Mutant: the dead letter is forgotten.
Bury_NoLetter(m, reason) ==
    /\ status' = Put(status, Row(m), "dead")
    /\ attempts' = Put(attempts, Row(m), Counted(m))
    /\ UNCHANGED deadLetters

\* One commit: the row, if it is still there, and a dead letter.
Bury(m, reason) ==
    /\ status' = Put(status, Row(m), "dead")
    /\ attempts' = Put(attempts, Row(m), Counted(m))
    /\ deadLetters' = deadLetters \cup {<<m, Counted(m), reason>>}

\* The endpoint was deleted or disabled: dead, not logged.
EndpointGone(m) ==
    /\ Enters(m)
    /\ Ends(m)
    /\ Bury(m, "inactive")
    /\ UNCHANGED <<due, logs, unwritten, history>>

Send(m) ==
    /\ Enters(m)
    /\ task' = [task EXCEPT ![m] = "posting"]
    /\ sent' = [sent EXCEPT ![m] = @ + 1]
    /\ UNCHANGED <<db, poll, candidates, snap, unwritten, req, acked, retried, crashes>>

\* The receiver answers with a 2xx; the answer may still be lost.
ReceiverAccepts(m) ==
    /\ task[m] = "posting"
    /\ task' = [task EXCEPT ![m] = "answered"]
    /\ acked' = acked \cup {m}
    /\ UNCHANGED <<db, poll, candidates, snap, unwritten, req, sent, retried, crashes>>

\* Mutant: any response is a delivery.
HasAnswer_Any(m) == TRUE

\* Only a 2xx that came back is a delivery.
HasAnswer(m) == task[m] = "answered"

MarkDelivered(m) ==
    /\ Resumes(m)
    /\ HasAnswer(m)
    /\ Ends(m)
    /\ status' = Put(status, Row(m), "delivered")
    /\ attempts' = Put(attempts, Row(m), attempts[m] + 1)
    /\ unwritten' = {<<m, Counted(m), "success">>}
    /\ UNCHANGED <<due, deadLetters, logs, history>>

\* Mutant: one retry too many.
Exhausted_OffByOne(m) == snap[m] > MaxRetries

Exhausted(m) == snap[m] >= MaxRetries

\* Another status, a timeout or a lost answer, with retries left.
FailRetry(m) ==
    /\ Resumes(m)
    /\ ~Exhausted(m)
    /\ Ends(m)
    /\ Reschedule(m)
    /\ attempts' = Put(attempts, Row(m), Counted(m))
    /\ unwritten' = {<<m, Counted(m), "failure">>}
    /\ UNCHANGED <<deadLetters, logs, history>>

\* Mutant: a death is not logged.
FailDead_NotLogged(m) ==
    /\ Resumes(m)
    /\ Exhausted(m)
    /\ Ends(m)
    /\ Bury(m, "error")
    /\ UNCHANGED <<due, logs, unwritten, history>>

\* The same with none left.
FailDead(m) ==
    /\ Resumes(m)
    /\ Exhausted(m)
    /\ Ends(m)
    /\ Bury(m, "error")
    /\ unwritten' = {<<m, Counted(m), "dead">>}
    /\ UNCHANGED <<due, logs, history>>

WriteLog ==
    /\ unwritten # {}
    /\ logs' = logs \cup unwritten
    /\ unwritten' = {}
    /\ UNCHANGED <<status, attempts, due, deadLetters, poll, candidates, task, snap, req, history>>

\* _log_attempt swallows every exception.
LoseLog ==
    /\ \E entry \in unwritten : entry[1] \in MayRaise
    /\ unwritten' = {}
    /\ UNCHANGED <<db, poll, candidates, task, snap, req, history>>

\* Mutant: the exception ends the batch, and closes the client of the others.
Raise_EndsBatch(m) ==
    /\ m \in MayRaise
    /\ Enters(m) \/ Resumes(m)
    /\ task' = [n \in Messages |-> "idle"]
    /\ snap' = [n \in Messages |-> 0]
    /\ UNCHANGED <<db, poll, candidates, unwritten, req, history>>

\* An exception nothing in the task handles: gather keeps it as a result,
\* and the row stays as it is.
Raise(m) ==
    /\ m \in MayRaise
    /\ Enters(m) \/ Resumes(m)
    /\ Ends(m)
    /\ UNCHANGED <<db, unwritten, history>>

-----------------------------------------------------------------------------
(* The process stops, by a crash or by stop(), which cancels the tasks at  *)
(* their awaits: the database stays.  A start recovers before it serves.   *)

Crash ==
    /\ Up
    /\ crashes < MaxCrashes
    /\ crashes' = crashes + 1
    /\ poll' = "down"
    /\ candidates' = {}
    /\ task' = [m \in Messages |-> "idle"]
    /\ snap' = [m \in Messages |-> 0]
    /\ unwritten' = {}
    /\ req' = [t \in Threads |-> NoRequest]
    /\ UNCHANGED <<db, sent, acked, retried>>

\* Mutant: nothing is recovered.
InFlight_None == {}

InFlight == {m \in Messages : status[m] = "in_flight"}

Start ==
    /\ poll = "down"
    /\ status' = Put(status, InFlight, "pending")
    /\ due' = Put(due, InFlight, TRUE)
    /\ poll' = "idle"
    /\ UNCHANGED <<attempts, deadLetters, logs, candidates, task, snap, unwritten, req, history>>

-----------------------------------------------------------------------------
Handler(t) ==
    \/ CancelRead(t) \/ CancelCommit(t)
    \/ RetryRead(t)  \/ RetryCommit(t)
    \/ DeleteRead(t) \/ DeleteCommit(t)

PollLoop == Select \/ Sleep \/ Claim \/ Load \/ EndBatch

Begin(m)  == RefuseCircuit(m) \/ RefuseRate(m) \/ EndpointGone(m) \/ Send(m)
Answer(m) == MarkDelivered(m) \/ FailRetry(m) \/ FailDead(m)
Task(m)   == Begin(m) \/ Answer(m) \/ Raise(m)
Log       == WriteLog \/ LoseLog

Next ==
    \/ \E m \in Messages : Ingest(m) \/ BecomeDue(m) \/ Task(m) \/ ReceiverAccepts(m)
    \/ \E t \in Threads : Handler(t)
    \/ PollLoop \/ Log \/ Crash \/ Start

Spec == Init /\ [][Next]_vars

\* The event loop runs, tasks get the semaphore in turn, every post ends by
\* an answer or its timeout, time passes, and a stopped process is started
\* again.  Nothing is assumed of clients.
Fairness ==
    /\ WF_vars(Start) /\ WF_vars(PollLoop) /\ WF_vars(Log)
    /\ \A m \in Messages :
        WF_vars(BecomeDue(m)) /\ WF_vars(Begin(m)) /\ WF_vars(Answer(m))

FairSpec == Spec /\ Fairness

-----------------------------------------------------------------------------
(* Safety.                                                                 *)

Outcomes == {"circuit_open", "success", "failure", "dead"}
Entries  == Messages \X Nat \X Outcomes
Letters  == Messages \X Nat \X {"inactive", "error"}
Requests == [op : {"none", "cancel", "retry", "delete"}, rows : SUBSET Messages]

\* Every variable has the shape the code gives it.
TypeOK ==
    /\ status \in [Messages -> Statuses]
    /\ attempts \in [Messages -> Nat]
    /\ due \in [Messages -> BOOLEAN]
    /\ deadLetters \subseteq Letters
    /\ logs \subseteq Entries
    /\ poll \in {"down", "idle", "selected", "claimed", "running"}
    /\ candidates \subseteq Messages
    /\ task \in [Messages -> {"idle", "queued", "posting", "answered"}]
    /\ snap \in [Messages -> Nat]
    /\ unwritten \subseteq Entries
    /\ req \in [Threads -> Requests]
    /\ sent \in [Messages -> Nat]
    /\ acked \subseteq Messages
    /\ retried \in [Messages -> Nat]
    /\ crashes \in Nat

\* A row is delivered, and a success is logged, only for a message that some
\* receiver accepted: whatever handlers, crashes and later attempts did in
\* between (_deliver marks only after a 2xx came back).
DeliveredMeansAccepted ==
    \A m \in Messages \ acked :
        /\ status[m] # "delivered"
        /\ \A n \in 1 .. attempts[m] : <<m, n, "success">> \notin logs

\* While the process runs, a row in flight is in the hands of the fetch that
\* claimed it or of a delivery task: nothing else would ever move it, for
\* the poll loop selects pending rows only and recovery runs at start only.
InFlightOwned ==
    Up => \A m \in Messages \ MayRaise :
        status[m] = "in_flight" =>
            \/ poll = "claimed" /\ m \in candidates
            \/ m \in Active

\* A task's snapshot of attempt_count agrees with its row for as long as the
\* row exists: _handle_failure and _mark_dead write snapshot + 1, so a stale
\* snapshot would take back attempts that were made.
SnapshotFresh ==
    \A m \in Active \cap Rows : snap[m] = attempts[m]

\* At most max_retries + 1 posts per message, one more for each retry call
\* and one more for each stop of the process: neither a cancel in the middle
\* of an attempt nor a stale commit buys a message more.
RetryBudget ==
    \A m \in Messages \ MayRaise :
        sent[m] <= MaxRetries + 1 + retried[m] + crashes

Posted(m) ==
    \/ m \in Holding
    \/ status[m] = "deleted" /\ m \notin Active /\ attempts[m] <= MaxRetries + retried[m]

\* The inductive form of RetryBudget: a message that may be posted again has
\* an attempt left, a retry call gives one more, and every post is counted in
\* attempt_count unless it is under way, its row was deleted under it, or the
\* process stopped.
WithinBudget(m) ==
    /\ attempts[m] <= MaxRetries + 1 + retried[m]
    /\ status[m] \in {"none", "pending", "in_flight"} \/ m \in Active =>
            attempts[m] <= MaxRetries + retried[m]
    /\ status[m] = "none" => m \notin Active
    /\ m \notin MayRaise =>
            sent[m] <= attempts[m] + crashes + IF Posted(m) THEN 1 ELSE 0

BudgetInv == \A m \in Messages : WithinBudget(m)

\* A message that has used its attempts up was accepted, or each attempt
\* beyond the budget left a dead letter with its count: no exhausted message
\* disappears without either (README.md, Dead Letter Queue).
ExhaustedAccounted ==
    \A m \in Messages : \A n \in MaxRetries + 1 .. attempts[m] :
        \/ m \in acked
        \/ \E reason \in {"inactive", "error"} : <<m, n, reason>> \in deadLetters

Audited(m, n) ==
    \/ \E o \in Outcomes : <<m, n, o>> \in logs \cup unwritten
    \/ <<m, n, "inactive">> \in deadLetters

\* Every counted attempt has its log entry, or is about to have it, or was
\* none (the endpoint was gone): a stop of the process costs at most one
\* entry in all, since one outcome is recorded at a time.
AuditTrail ==
    LET counts == 1 .. MaxRetries + 1 + MaxRetryCalls
        missing == {a \in (Messages \ MayRaise) \X counts :
                        a[2] <= attempts[a[1]] /\ ~Audited(a[1], a[2])}
    IN  Cardinality(missing) <= crashes

-----------------------------------------------------------------------------
(* What a step may not do.                                                 *)

\* A handler that read m commits.
CommitOf(m) ==
    \E t \in Threads : m \in req[t].rows /\ req'[t] = NoRequest

\* A dead or delivered row no task works on stays as it is, and no task is
\* made for it, until a handler that read it commits: a cancel that wins
\* against the claim, or falls between claim and load, stops the delivery.
TerminalIsQuiet ==
    [][\A m \in Messages :
        status[m] \in {"dead", "delivered"} /\ task[m] = "idle" =>
            /\ task'[m] = "idle"
            /\ status'[m] = status[m] \/ CommitOf(m)]_vars

\* attempt_count never goes down, not even when the outcome of an attempt
\* meets a row that was cancelled and retried meanwhile.
AttemptsNeverDecrease ==
    [][\A m \in Messages : attempts'[m] >= attempts[m]]_vars

-----------------------------------------------------------------------------
(* What the documentation says and the code does not do.                   *)

\* "Cancel a pending or in-flight message.": what a cancel made dead becomes
\* pending again only by a retry.
CancelSticks ==
    [][\A m \in Messages :
        status[m] = "dead" /\ status'[m] = "pending" => retried'[m] > retried[m]]_vars

\* "Core delivery executor with at-least-once semantics.": a message that was
\* taken up is not left in flight.
InFlightReclaimed ==
    \A m \in Messages : status[m] = "in_flight" ~> status[m] # "in_flight"
=============================================================================
