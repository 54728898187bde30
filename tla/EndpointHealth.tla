--------------------------- MODULE EndpointHealth ---------------------------
(***************************************************************************)
(* The health of one endpoint, kept in two places: the circuit in the      *)
(* process's memory (core/circuit_breaker.py), fed by delivery attempts    *)
(* (core/dispatcher.py) and by probes (core/health_checker.py), and the    *)
(* columns is_active, circuit_state and failure_count of the endpoint's    *)
(* row, written by the probes, by PATCH /endpoints/{id}                    *)
(* (api/endpoints.py) and read back at start (main.py).                    *)
(*                                                                         *)
(* Attempts and probes run on one event loop.  The circuits of two         *)
(* endpoints share nothing, so one endpoint is enough.  A probe records    *)
(* its result in the circuit, loads the row and commits it before the loop *)
(* runs anything else; a PATCH handler, in a thread of its own, may commit *)
(* between the load and the commit.  The ORM writes the columns whose      *)
(* values differ from the loaded ones.                                     *)
(***************************************************************************)
EXTENDS Naturals

CONSTANTS
    Attempts,           \* delivery attempts that may be under way at once
    Threshold,          \* settings.CIRCUIT_BREAKER_FAILURE_THRESHOLD
    RecoveryTimeout,    \* settings.CIRCUIT_BREAKER_RECOVERY_TIMEOUT, in ticks
    HalfOpenRequests,   \* settings.CIRCUIT_BREAKER_HALF_OPEN_REQUESTS
    MaxRestarts         \* bound: restarts of the process

ASSUME ThresholdAssumption == Threshold \in Nat \ {0}
ASSUME HalfOpenAssumption == HalfOpenRequests \in Nat \ {0}
ASSUME TimeoutAssumption == RecoveryTimeout \in Nat
ASSUME RestartsAssumption == MaxRestarts \in Nat

VARIABLES
    \* the endpoint's row
    active,         \* is_active
    dbState,        \* circuit_state
    dbFailures,     \* failure_count, which grows with every failed probe
    \* the circuit in memory
    state,
    failures,       \* failure_count
    trials,         \* half_open_successes
    elapsed,        \* ticks since opened_at, up to RecoveryTimeout
    \* work under way
    posting,        \* attempts whose POST has not ended
    probe,          \* "idle", "sent", or the result being persisted
    loaded,         \* is_active as the probe's session loaded it
    patch,          \* what a PATCH of is_active will write: "on", "off" or "none"
    \* history
    streak,         \* failures recorded since the last recorded success
    disabledBy,     \* who made the endpoint inactive
    restarts

row     == <<active, dbState, dbFailures>>
circuit == <<state, failures, trials, elapsed>>
work    == <<posting, probe, loaded, patch>>
history == <<streak, disabledBy, restarts>>
vars    == <<row, circuit, work, history>>

\* Counts matter up to the threshold and are kept up to it.
Bump(n) == IF n < Threshold THEN n + 1 ELSE n

\* The loop is free unless a probe is between its load and its commit.
LoopFree == probe \in {"idle", "sent"}

Init ==
    /\ active = TRUE /\ dbState = "closed" /\ dbFailures = 0
    /\ state = "closed" /\ failures = 0 /\ trials = 0 /\ elapsed = 0
    /\ posting = {} /\ probe = "idle" /\ loaded = TRUE /\ patch = "none"
    /\ streak = 0 /\ disabledBy = "nobody" /\ restarts = 0

-----------------------------------------------------------------------------
(* The circuit.                                                            *)

\* Mutant: a success does not end a run of failures.
RecordSuccess_KeepsCount ==
    /\ trials' = IF state = "half_open" THEN trials + 1 ELSE trials
    /\ state' = IF state = "half_open" /\ trials' >= HalfOpenRequests THEN "closed" ELSE state
    /\ failures' = IF state = "half_open" /\ state' = "closed" THEN 0 ELSE failures
    /\ streak' = 0
    /\ UNCHANGED elapsed

RecordSuccess ==
    /\ trials' = IF state = "half_open" THEN trials + 1 ELSE trials
    /\ state' = IF state = "half_open" /\ trials' >= HalfOpenRequests THEN "closed" ELSE state
    /\ failures' = IF state' = "closed" THEN 0 ELSE failures
    /\ streak' = 0
    /\ UNCHANGED elapsed

Trips == state = "half_open" \/ (state = "closed" /\ Bump(failures) >= Threshold)

\* Mutant: a failure while open starts the recovery timeout again.
RecordFailure_Prolongs ==
    /\ failures' = Bump(failures)
    /\ state' = IF Trips THEN "open" ELSE state
    /\ elapsed' = 0
    /\ streak' = Bump(streak)
    /\ UNCHANGED trials

RecordFailure ==
    /\ failures' = Bump(failures)
    /\ state' = IF Trips THEN "open" ELSE state
    /\ elapsed' = IF Trips THEN 0 ELSE elapsed
    /\ streak' = Bump(streak)
    /\ UNCHANGED trials

ForceClose ==
    /\ state' = "closed"
    /\ failures' = 0
    /\ trials' = 0
    /\ streak' = 0
    /\ UNCHANGED elapsed

\* The clock, while it matters.
Tick ==
    /\ state = "open"
    /\ elapsed < RecoveryTimeout
    /\ elapsed' = elapsed + 1
    /\ UNCHANGED <<row, state, failures, trials, work, history>>

\* can_attempt lets an attempt through: half-open lets every attempt through.
Admits == state = "open" => elapsed >= RecoveryTimeout

Admission ==
    /\ LoopFree
    /\ Admits
    /\ state' = IF state = "open" THEN "half_open" ELSE state
    /\ trials' = IF state = "open" THEN 0 ELSE trials
    /\ UNCHANGED <<failures, elapsed>>

-----------------------------------------------------------------------------
(* Delivery attempts.                                                      *)

\* Let through by the circuit, and the endpoint is active: posted.
Post(a) ==
    /\ a \notin posting
    /\ Admission
    /\ active
    /\ posting' = posting \cup {a}
    /\ UNCHANGED <<row, probe, loaded, patch, history>>

\* Let through by the circuit, then out of tokens or the endpoint inactive.
TurnedAway ==
    /\ Admission
    /\ UNCHANGED <<row, work, history>>

Ends(a) ==
    /\ LoopFree
    /\ a \in posting
    /\ posting' = posting \ {a}
    /\ UNCHANGED <<row, probe, loaded, patch, disabledBy, restarts>>

Succeeds(a) == Ends(a) /\ RecordSuccess
Fails(a)    == Ends(a) /\ RecordFailure

\* An exception that is not an httpx.RequestError: nothing is recorded.
Vanishes(a) == Ends(a) /\ UNCHANGED <<circuit, streak>>

-----------------------------------------------------------------------------
(* Probes, one at a time: the loop waits for the result before the next.   *)

Probe ==
    /\ probe = "idle"
    /\ probe' = "sent"
    /\ UNCHANGED <<row, circuit, posting, loaded, patch, history>>

\* Mutant: an open circuit is left to the delivery attempts.
Answered_NotClosed == RecordSuccess

\* A good answer closes a circuit that is not closed, at once.
Answered == IF state = "closed" THEN RecordSuccess ELSE ForceClose

ProbeSucceeds ==
    /\ probe = "sent"
    /\ Answered
    /\ probe' = "good"
    /\ loaded' = active
    /\ UNCHANGED <<row, posting, patch, disabledBy, restarts>>

ProbeFails ==
    /\ probe = "sent"
    /\ RecordFailure
    /\ probe' = "bad"
    /\ loaded' = active
    /\ UNCHANGED <<row, posting, patch, disabledBy, restarts>>

\* An exception that is not an httpx.RequestError, or a commit that the
\* database refuses: gather swallows it and the row stays as it is.
ProbeVanishes ==
    /\ probe # "idle"
    /\ probe' = "idle"
    /\ UNCHANGED <<row, circuit, posting, loaded, patch, history>>

\* Mutant: only an endpoint whose circuit the row calls open is enabled again.
Enables_IfRowOpen == probe = "good" /\ dbState = "open" /\ ~loaded

Enables == probe = "good" /\ state = "closed" /\ ~loaded

\* Mutant: only the probe that finds the row's circuit not open yet disables.
Disables_OnChange == probe = "bad" /\ state = "open" /\ loaded /\ dbState # "open"

\* Mutant: any failed probe disables.
Disables_Any == probe = "bad" /\ loaded

Disables == probe = "bad" /\ state = "open" /\ loaded

\* _persist_health commits.
Persist ==
    /\ probe \in {"good", "bad"}
    /\ dbState' = state
    /\ active' = IF Enables THEN TRUE ELSE IF Disables THEN FALSE ELSE active
    /\ disabledBy' = IF Enables THEN "nobody" ELSE IF Disables THEN "checker" ELSE disabledBy
    /\ dbFailures' = IF Enables THEN 0 ELSE IF probe = "bad" THEN Bump(dbFailures) ELSE dbFailures
    /\ probe' = "idle"
    /\ UNCHANGED <<circuit, posting, loaded, patch, streak, restarts>>

-----------------------------------------------------------------------------
(* PATCH /endpoints/{id} with is_active.                                   *)

\* A patch to the value it loads writes no is_active.
PatchRead ==
    /\ patch = "none"
    /\ patch' = IF active THEN "off" ELSE "on"
    /\ UNCHANGED <<row, circuit, posting, probe, loaded, history>>

PatchCommit ==
    /\ patch # "none"
    /\ active' = (patch = "on")
    /\ disabledBy' = IF patch = "on" THEN "nobody" ELSE "user"
    /\ patch' = "none"
    /\ UNCHANGED <<dbState, dbFailures, circuit, posting, probe, loaded, streak, restarts>>

-----------------------------------------------------------------------------
\* The process stops and starts again: the circuit of an active endpoint is
\* loaded from its row, that of an inactive one is new.
Restart ==
    /\ restarts < MaxRestarts
    /\ restarts' = restarts + 1
    /\ state' = IF active THEN dbState ELSE "closed"
    /\ failures' = IF active THEN dbFailures ELSE 0
    /\ trials' = 0
    /\ elapsed' = 0
    /\ posting' = {}
    /\ probe' = "idle"
    /\ patch' = "none"
    /\ UNCHANGED <<row, loaded, streak, disabledBy>>

Attempt(a) == Post(a) \/ Succeeds(a) \/ Fails(a) \/ Vanishes(a)

Next ==
    \/ \E a \in Attempts : Attempt(a)
    \/ TurnedAway \/ Tick
    \/ Probe \/ ProbeSucceeds \/ ProbeFails \/ Persist \/ ProbeVanishes
    \/ PatchRead \/ PatchCommit
    \/ Restart

Spec == Init /\ [][Next]_vars

\* Probes follow one another and do not come to nothing for ever, time
\* passes, and messages for the endpoint keep the dispatcher asking the
\* circuit: the loop gives every callback its turn, so an admission that is
\* possible whenever the loop is free is made in the end.
Fairness ==
    /\ WF_vars(Probe)
    /\ SF_vars(ProbeSucceeds \/ ProbeFails)
    /\ SF_vars(Persist)
    /\ WF_vars(Tick)
    /\ SF_vars(TurnedAway \/ \E a \in Attempts : Post(a))

FairSpec == Spec /\ Fairness

-----------------------------------------------------------------------------
(* Safety.                                                                 *)

\* The types; and the row's circuit_state is never half-open, since a probe
\* leaves the circuit closed or open and persists it before an attempt can
\* make it half-open: no restart begins half-open.
TypeOK ==
    /\ active \in BOOLEAN
    /\ dbState \in {"closed", "open"}
    /\ dbFailures \in 0 .. Threshold
    /\ state \in {"closed", "open", "half_open"}
    /\ failures \in 0 .. Threshold
    /\ trials \in 0 .. HalfOpenRequests
    /\ elapsed \in 0 .. RecoveryTimeout
    /\ posting \subseteq Attempts
    /\ probe \in {"idle", "sent", "good", "bad"}
    /\ loaded \in BOOLEAN
    /\ patch \in {"none", "on", "off"}
    /\ streak \in 0 .. Threshold
    /\ disabledBy \in {"nobody", "user", "checker"}
    /\ restarts \in Nat

\* The process trips a closed circuit only on the threshold's worth of
\* failures in a row, whichever attempts and probes they come from and in
\* whatever order late answers arrive, as long as it has not loaded a
\* failure count from the database.
TripNeedsStreak ==
    [][state = "closed" /\ state' = "open" /\ restarts' = 0 => streak' = Threshold]_vars

-----------------------------------------------------------------------------
(* Liveness.                                                               *)

\* An open circuit does not stay open: failures that arrive while it is open
\* do not put off the next trial.
OpenEnds == state = "open" ~> state # "open"

\* An endpoint the checker disabled is enabled again, or taken over by the
\* user, unless its probes fail again and again, also when the circuit was
\* closed meanwhile by a late answer or is a new one after a restart.
CheckerRecovers ==
    \/ []<><<ProbeFails>>_vars
    \/ disabledBy = "checker" ~> disabledBy # "checker"

\* If nothing succeeds any more and the user leaves it alone, the endpoint
\* ends up disabled.
SustainedFailureDisables ==
    \/ []<><<ProbeSucceeds>>_vars
    \/ []<><<\E a \in Attempts : Succeeds(a)>>_vars
    \/ []<><<PatchCommit>>_vars
    \/ <>[]~active
=============================================================================
