------------------------------ MODULE Alerting ------------------------------
(***************************************************************************)
(* Failure alerts (core/alerter.py).  Each failed attempt may start a task *)
(* (core/dispatcher.py) that goes through the alert configurations whose   *)
(* threshold is met, skips those whose log has an entry within the         *)
(* cooldown, sends the others, and commits all its log entries at the end. *)
(*                                                                         *)
(* The tasks run on one event loop: a task keeps its turn until it waits   *)
(* for the answer to an alert webhook.  The log is filtered by             *)
(* configuration, endpoint and fingerprint, so one endpoint and one error  *)
(* are enough; the newest entry of a configuration decides, so its age is  *)
(* all that is kept of the log.                                            *)
(***************************************************************************)
EXTENDS Naturals

CONSTANTS
    Tasks,      \* alert tasks that may be under way at once
    Configs,    \* alert configurations that match the endpoint
    Webhooks,   \* those with channel "webhook"; the others send e-mail
    Cooldown    \* cooldown_seconds of every configuration, in ticks

NoTask == "none"

ASSUME TasksAssumption == NoTask \notin Tasks
ASSUME WebhooksAssumption == Webhooks \subseteq Configs
ASSUME CooldownAssumption == Cooldown \in Nat

VARIABLES
    age,        \* ticks since sent_at of a configuration's newest entry
    turn,       \* the task that runs, if any
    todo,       \* configurations a task has still to look at
    sending,    \* the configuration whose webhook a task waits for, if any
    recorded,   \* entries a task has added to its session
    \* history
    sendAge,    \* ticks since a task, or an earlier one in its place, sent
    lost        \* the sends among these whose entry was lost

session == <<todo, sending, recorded>>
history == <<sendAge, lost>>
vars    == <<age, turn, session, history>>

\* Ages matter up to the cooldown; "never" is an age too.
Expired == Cooldown + 1
Older(n) == IF n < Expired THEN n + 1 ELSE n

Init ==
    /\ age = [c \in Configs |-> Expired]
    /\ turn = NoTask
    /\ todo = [t \in Tasks |-> {}]
    /\ sending = [t \in Tasks |-> {}]
    /\ recorded = [t \in Tasks |-> {}]
    /\ sendAge = [t \in Tasks |-> [c \in Configs |-> Expired]]
    /\ lost = {}

Tick ==
    /\ age' = [c \in Configs |-> Older(age[c])]
    /\ sendAge' = [t \in Tasks |-> [c \in Configs |-> Older(sendAge[t][c])]]
    /\ UNCHANGED <<turn, session, lost>>

-----------------------------------------------------------------------------
(* maybe_alert.                                                            *)

\* The dispatcher starts a task; it loads the active configurations, of
\* which those with a met threshold matter.
Begin(t, S) ==
    /\ turn = NoTask
    /\ sending[t] = {}
    /\ turn' = t
    /\ todo' = [todo EXCEPT ![t] = S]
    /\ UNCHANGED <<age, sending, recorded, history>>

\* Mutant: an entry just as old as the cooldown does not count.
Suppressed_Strict(c) == age[c] < Cooldown

\* sent_at >= now - cooldown
Suppressed(c) == age[c] <= Cooldown

Looks(t, c) ==
    /\ turn = t
    /\ c \in todo[t]
    /\ todo' = [todo EXCEPT ![t] = @ \ {c}]

\* Mutant: what is suppressed is recorded as well.
Skip_Records(t, c) ==
    /\ Looks(t, c)
    /\ Suppressed(c)
    /\ recorded' = [recorded EXCEPT ![t] = @ \cup {c}]
    /\ UNCHANGED <<age, turn, sending, history>>

Skip(t, c) ==
    /\ Looks(t, c)
    /\ Suppressed(c)
    /\ UNCHANGED <<age, turn, sending, recorded, history>>

Sends(t, c) ==
    /\ Looks(t, c)
    /\ ~Suppressed(c)
    /\ sendAge' = [sendAge EXCEPT ![t][c] = 0]
    /\ lost' = lost \ {<<t, c>>}

\* smtplib blocks the loop; whether it sent the mail or not, it is recorded.
Email(t, c) ==
    /\ c \notin Webhooks
    /\ Sends(t, c)
    /\ recorded' = [recorded EXCEPT ![t] = @ \cup {c}]
    /\ UNCHANGED <<age, turn, sending>>

\* Mutant: the webhook is posted with a client that blocks the loop.
Post_Blocks(t, c) ==
    /\ c \in Webhooks
    /\ Sends(t, c)
    /\ sending' = [sending EXCEPT ![t] = {c}]
    /\ UNCHANGED <<age, turn, recorded>>

\* Waiting for the answer gives the turn away.
Post(t, c) ==
    /\ c \in Webhooks
    /\ Sends(t, c)
    /\ sending' = [sending EXCEPT ![t] = {c}]
    /\ turn' = NoTask
    /\ UNCHANGED <<age, recorded>>

Alerts(t, c) == Email(t, c) \/ Post(t, c)

\* An answer, good or bad, or none: it is recorded.
Posted(t) ==
    /\ turn = NoTask
    /\ sending[t] # {}
    /\ turn' = t
    /\ recorded' = [recorded EXCEPT ![t] = @ \cup sending[t]]
    /\ sending' = [sending EXCEPT ![t] = {}]
    /\ UNCHANGED <<age, todo, history>>

\* Mutant: the entries are added and never committed.
Written_Not(S) == age

\* sent_at is the time of the commit, not that of the send.
Written(S) == [c \in Configs |-> IF c \in S THEN 0 ELSE age[c]]

Commit(t) ==
    /\ turn = t
    /\ todo[t] = {}
    /\ age' = Written(recorded[t])
    /\ recorded' = [recorded EXCEPT ![t] = {}]
    /\ turn' = NoTask
    /\ UNCHANGED <<todo, sending, history>>

\* An exception, of the database most likely: the task ends, and the entries
\* of the alerts it has sent are lost with its session.
Raise(t) ==
    /\ turn = t
    /\ lost' = lost \cup {t} \X recorded[t]
    /\ todo' = [todo EXCEPT ![t] = {}]
    /\ recorded' = [recorded EXCEPT ![t] = {}]
    /\ turn' = NoTask
    /\ UNCHANGED <<age, sending, sendAge>>

\* The process stops, with all the tasks, and starts again.
Restart ==
    /\ lost' = lost \cup {a \in Tasks \X Configs : a[2] \in recorded[a[1]] \cup sending[a[1]]}
    /\ turn' = NoTask
    /\ todo' = [t \in Tasks |-> {}]
    /\ sending' = [t \in Tasks |-> {}]
    /\ recorded' = [t \in Tasks |-> {}]
    /\ UNCHANGED <<age, sendAge>>

Alert(t) ==
    \/ \E S \in SUBSET Configs : Begin(t, S)
    \/ \E c \in Configs : Skip(t, c) \/ Alerts(t, c)
    \/ Posted(t) \/ Commit(t) \/ Raise(t)

Next == Tick \/ Restart \/ \E t \in Tasks : Alert(t)

Spec == Init /\ [][Next]_vars

\* Time passes.
FairSpec == Spec /\ WF_vars(Tick)

-----------------------------------------------------------------------------
(* Safety.                                                                 *)

Ages == 0 .. Expired

\* The types; a task waits for one webhook, and not while it has the turn.
TypeOK ==
    /\ age \in [Configs -> Ages]
    /\ turn \in Tasks \cup {NoTask}
    /\ todo \in [Tasks -> SUBSET Configs]
    /\ sending \in [Tasks -> SUBSET Configs]
    /\ recorded \in [Tasks -> SUBSET Configs]
    /\ sendAge \in [Tasks -> [Configs -> Ages]]
    /\ lost \subseteq Tasks \X Configs
    /\ \A t \in Tasks : turn = t => sending[t] = {}

\* A send of c by t that has no committed entry yet.
Unwritten(t, c) == c \in recorded[t] \cup sending[t]

\* The cooldown of an alert begins no earlier than the alert: whoever sent it
\* within the cooldown, the log suppresses the next one for as long, unless
\* the sender has not come to its commit or has lost its entries.
SendsAreCovered ==
    \A t \in Tasks, c \in Configs :
        \/ age[c] <= sendAge[t][c]
        \/ sendAge[t][c] = Expired
        \/ Unwritten(t, c)
        \/ <<t, c>> \in lost

\* An alert is repeated within its cooldown only while the task of the
\* earlier one is still under way, or when its entry was lost: however long
\* webhooks take and in whatever order they answer.
RepeatsOverlap ==
    [][\A t, s \in Tasks, c \in Configs :
        Alerts(t, c) /\ sendAge[s][c] <= Cooldown =>
            Unwritten(s, c) \/ <<s, c>> \in lost]_vars

-----------------------------------------------------------------------------
(* Liveness.                                                               *)

\* Failures that go on are alerted again and again: suppression does not
\* prolong itself.
KeepsAlerting ==
    \A c \in Configs :
        \/ []<><<\E t \in Tasks : Alerts(t, c)>>_vars
        \/ <>[][~\E t \in Tasks : Skip(t, c)]_vars
=============================================================================
