----------------------------- MODULE WorkQueue ------------------------------
(***************************************************************************)
(* What the delivery of messages promises, without how it is done: a queue *)
(* of rows from which one batch at a time is taken at once, to be worked   *)
(* on by one worker per message, next to clients who may change any row at *)
(* any time.  A row is worked on only if it was ready when it was taken,   *)
(* it becomes delivered only by a worker whose message was accepted, and   *)
(* rows that lose their worker without an outcome are ready again.         *)
(***************************************************************************)
EXTENDS Naturals

CONSTANT Messages

VARIABLES
    row,        \* "none", "ready", "taken", "delivered", "dead" or "deleted"
    working,    \* messages a worker has in hand
    accepted    \* messages some receiver accepted

queue == <<row, working, accepted>>

Present == {m \in Messages : row[m] \notin {"none", "deleted"}}

Set(S, v) == [m \in Messages |-> IF m \in S THEN v ELSE row[m]]

Init ==
    /\ row = [m \in Messages |-> "none"]
    /\ working = {}
    /\ accepted = {}

Submit(m) ==
    /\ row[m] = "none"
    /\ row' = Set({m}, "ready")
    /\ UNCHANGED <<working, accepted>>

\* Clients: cancel, retry or delete the rows S.
Call ==
    /\ \E S \in SUBSET Present, v \in {"dead", "ready", "deleted"} : row' = Set(S, v)
    /\ UNCHANGED <<working, accepted>>

Take ==
    /\ working = {}
    /\ \E S \in SUBSET {m \in Messages : row[m] = "ready"} :
        /\ row' = Set(S, "taken")
        /\ working' = S
    /\ UNCHANGED accepted

Accept(m) ==
    /\ m \in working
    /\ accepted' = accepted \cup {m}
    /\ UNCHANGED <<row, working>>

\* A worker ends with an outcome for its row, if the row is still there.
End(m, v) ==
    /\ m \in working
    /\ working' = working \ {m}
    /\ row' = Set({m} \cap Present, v)
    /\ UNCHANGED accepted

Deliver(m) == m \in accepted /\ End(m, "delivered")

\* Workers S end without one.
Abandon ==
    /\ \E S \in SUBSET working :
        /\ working' = working \ S
        /\ row' = Set({m \in S : row[m] = "taken"}, "ready")
    /\ UNCHANGED accepted

Next ==
    \/ \E m \in Messages :
        Submit(m) \/ Accept(m) \/ Deliver(m) \/ End(m, "ready") \/ End(m, "dead")
    \/ Call \/ Take \/ Abandon

Spec == Init /\ [][Next]_queue
=============================================================================
