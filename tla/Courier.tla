------------------------------- MODULE Courier -------------------------------
(***************************************************************************)
(* The delivery pipeline (Delivery) and the health of the endpoint its     *)
(* messages are for (EndpointHealth) in one process.  What either module   *)
(* leaves to a free choice is here the other's state: a task is refused    *)
(* when the circuit is open, buried when the checker has disabled the      *)
(* endpoint, and its outcome is recorded in the circuit, in the order in   *)
(* which _deliver asks (core/dispatcher.py).  The dispatcher's tasks and   *)
(* the checker's probes share one event loop: none of them runs while      *)
(* another is between two of its statements.  A stop ends both, and a      *)
(* start recovers the rows in flight and reloads the circuit (main.py).    *)
(*                                                                         *)
(* Still a free choice: whether the limiter has a token (RateLimiter).     *)
(* Left out: the handlers that cancel, retry and delete and the exceptions *)
(* of tasks (Delivery has them), and patches of the endpoint               *)
(* (EndpointHealth has them).                                              *)
(***************************************************************************)
EXTENDS Naturals, FiniteSets

CONSTANTS
    Messages, MaxRetries, BatchSize, Concurrency, MaxCrashes,   \* of Delivery
    Threshold, RecoveryTimeout, HalfOpenRequests                \* of EndpointHealth

VARIABLES
    status, attempts, due, deadLetters, logs, poll, candidates, task, snap,
    unwritten, sent, acked, crashes,                \* of Delivery
    active, dbState, dbFailures, state, failures, trials, elapsed, probe,
    loaded, streak, disabledBy, restarts,           \* of EndpointHealth
    \* history
    faults      \* failures recorded since the endpoint became active

D == INSTANCE Delivery WITH
        Threads <- {}, MayRaise <- {}, MaxRetryCalls <- 0,
        req <- <<>>, retried <- [m \in Messages |-> 0]

\* The posts under way are the tasks that have been sent.
H == INSTANCE EndpointHealth WITH
        Attempts <- Messages, MaxRestarts <- MaxCrashes,
        posting <- D!Holding, patch <- "none"

pipeline == <<status, attempts, due, deadLetters, logs, poll, candidates, task, snap,
              unwritten, sent, acked, crashes>>
health   == <<active, dbState, dbFailures, state, failures, trials, elapsed, probe,
              loaded, streak, disabledBy, restarts>>
vars     == <<pipeline, health, faults>>

Init == D!Init /\ H!Init /\ faults = 0

\* The dispatcher is not in the middle of a fetch or of an outcome.
LoopIdle == D!Up /\ poll \notin {"selected", "claimed"} /\ unwritten = {}

\* Whatever the endpoint went through before it became active is forgotten.
Counting(failed) ==
    faults' = IF active' /\ ~active THEN 0 ELSE IF failed THEN H!Bump(faults) ELSE faults

-----------------------------------------------------------------------------
(* A delivery task: circuit, limiter, endpoint, post, outcome.             *)

RefuseCircuit(m) ==
    /\ H!LoopFree
    /\ ~H!Admits
    /\ D!RefuseCircuit(m)
    /\ UNCHANGED <<health, faults>>

RefuseRate(m) == D!RefuseRate(m) /\ H!TurnedAway /\ UNCHANGED faults

EndpointGone(m) ==
    /\ ~active
    /\ D!EndpointGone(m)
    /\ H!TurnedAway
    /\ UNCHANGED faults

Send(m) == D!Send(m) /\ H!Post(m) /\ UNCHANGED faults

MarkDelivered(m) == D!MarkDelivered(m) /\ H!Succeeds(m) /\ Counting(FALSE)

Fail(m) == (D!FailRetry(m) \/ D!FailDead(m)) /\ H!Fails(m) /\ Counting(TRUE)

-----------------------------------------------------------------------------
(* The rest of the loop, new messages, and what happens outside.           *)

Fetch == H!LoopFree /\ D!PollLoop /\ UNCHANGED <<health, faults>>

Log == D!Log /\ UNCHANGED <<health, faults>>

Probes ==
    /\ LoopIdle
    /\ UNCHANGED pipeline
    /\ H!Probe \/ H!ProbeSucceeds \/ H!ProbeFails \/ H!ProbeVanishes \/ H!Persist
    /\ Counting(probe = "sent" /\ probe' = "bad")

Ingest(m) == D!Ingest(m) /\ UNCHANGED <<health, faults>>

BecomeDue(m) == D!BecomeDue(m) /\ UNCHANGED <<health, faults>>

ReceiverAccepts(m) == D!ReceiverAccepts(m) /\ UNCHANGED <<health, faults>>

Tick == UNCHANGED <<pipeline, faults>> /\ H!Tick

-----------------------------------------------------------------------------
(* The process.                                                            *)

Crash == D!Crash /\ UNCHANGED <<health, faults>>

\* The first start of all finds nothing to load.
Start ==
    /\ D!Start
    /\ IF restarts < crashes THEN H!Restart ELSE UNCHANGED health
    /\ UNCHANGED faults

Begin(m)  == RefuseCircuit(m) \/ RefuseRate(m) \/ EndpointGone(m) \/ Send(m)
Answer(m) == MarkDelivered(m) \/ Fail(m)

Next ==
    \/ \E m \in Messages : Begin(m) \/ Answer(m)
    \/ \E m \in Messages : Ingest(m) \/ BecomeDue(m) \/ ReceiverAccepts(m)
    \/ Fetch \/ Log \/ Probes \/ Tick \/ Crash \/ Start

Spec == Init /\ [][Next]_vars

\* The loop gives every callback its turn: the dispatcher's whenever it can
\* run, however many probes come between.  Posts end, time passes, a stopped
\* process is started again.  Of the limiter, that it does not for ever
\* refuse a message whose circuit lets it through again and again
\* (RateLimiter).  Nothing of the receiver, the probes or the clients.
Fairness ==
    /\ WF_vars(Start) /\ SF_vars(Fetch) /\ WF_vars(Log) /\ WF_vars(Tick)
    /\ WF_vars(Probes /\ ~H!LoopFree)
    /\ \A m \in Messages :
        /\ WF_vars(BecomeDue(m)) /\ SF_vars(Begin(m)) /\ SF_vars(Answer(m))
        /\ SF_vars(Send(m) \/ EndpointGone(m))

FairSpec == Spec /\ Fairness

-----------------------------------------------------------------------------
(* Properties.                                                             *)

\* A good probe closes a circuit that was not closed.
ProbeCloses == state # "closed" /\ H!ProbeSucceeds

\* Every accepted message is delivered, or becomes dead, or is deleted, across
\* stops of the process and although failed probes open the circuit again and
\* again: the breaker and the checker do not keep a message waiting for ever
\* (failures that arrive while it is open do not put off the next trial, and
\* what a stop leaves in flight is taken up by the next start).  The exception
\* is a health URL that flaps for ever: its good answers close the circuit,
\* its bad ones open it, and the message may ask at the wrong times only.
AcceptedEnds ==
    \/ []<><<ProbeCloses>>_vars
    \/ \A m \in Messages :
            status[m] = "pending" ~> status[m] \in {"delivered", "dead", "deleted"}

\* A message dies of a disabled endpoint, with retries left (_deliver), only
\* after the endpoint has failed as often as the breaker tolerates since it
\* became active: no single probe costs the pending messages their retries.
LostOnlyToOutage ==
    [][\A letter \in deadLetters' \ deadLetters :
            letter[3] = "inactive" => faults >= Threshold]_vars
=============================================================================
