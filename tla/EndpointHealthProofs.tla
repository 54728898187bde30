------------------------ MODULE EndpointHealthProofs ------------------------
(***************************************************************************)
(* Theorems about EndpointHealth, for every set of attempts, threshold,    *)
(* number of half-open requests, recovery timeout and number of restarts.  *)
(*                                                                         *)
(* TypeOK is not inductive: its bounds on dbState and on trials rest on    *)
(* what a probe leaves behind.  Persisting needs that a probe with its     *)
(* result leaves the circuit closed or open, and counting trials needs     *)
(* that a half-open circuit has room for one more.  TripNeedsStreak needs  *)
(* that a closed circuit of the first process counts the streak.           *)
(*                                                                         *)
(* The last part is about Courier, where the attempts are the tasks of     *)
(* Delivery: each step is one of Delivery's, and what the checker disabled *)
(* had its outage.                                                         *)
(***************************************************************************)
EXTENDS EndpointHealth, TLAPS

\* The circuit is not half-open between a probe's result and its commit.
ProbeSettles == probe \in {"good", "bad"} => state # "half_open"

\* A half-open circuit has had too few successes to close.
RoomForTrial == state = "half_open" => trials < HalfOpenRequests

\* Until a restart a closed circuit's failure count is the streak, and short
\* of the threshold.
CountsStreak ==
    restarts = 0 /\ state = "closed" => failures = streak /\ failures < Threshold

IInv == TypeOK /\ ProbeSettles /\ RoomForTrial /\ CountsStreak

LEMMA InitIInv == Init => IInv
  BY ThresholdAssumption, HalfOpenAssumption, TimeoutAssumption
  DEF Init, IInv, TypeOK, ProbeSettles, RoomForTrial, CountsStreak

-----------------------------------------------------------------------------
(* The circuit's operations.                                               *)

\* A success keeps the invariant, and makes no circuit half-open.
LEMMA SuccessKeeps ==
  ASSUME IInv, RecordSuccess, restarts' = restarts
  PROVE  /\ state' \in {"closed", "open", "half_open"}
         /\ failures' \in 0 .. Threshold
         /\ trials' \in 0 .. HalfOpenRequests
         /\ elapsed' \in 0 .. RecoveryTimeout
         /\ streak' \in 0 .. Threshold
         /\ state # "half_open" => state' = state
         /\ RoomForTrial' /\ CountsStreak'
  BY ThresholdAssumption, HalfOpenAssumption, TimeoutAssumption
  DEF IInv, TypeOK, RoomForTrial, CountsStreak, RecordSuccess

\* A failure keeps the invariant and leaves no circuit half-open.
LEMMA FailureKeeps ==
  ASSUME IInv, RecordFailure, restarts' = restarts
  PROVE  /\ state' \in {"closed", "open"}
         /\ failures' \in 0 .. Threshold
         /\ trials' \in 0 .. HalfOpenRequests
         /\ elapsed' \in 0 .. RecoveryTimeout
         /\ streak' \in 0 .. Threshold
         /\ RoomForTrial' /\ CountsStreak'
  BY ThresholdAssumption, HalfOpenAssumption, TimeoutAssumption
  DEF IInv, TypeOK, RoomForTrial, CountsStreak, RecordFailure, Trips, Bump

\* Closing by force keeps the invariant.
LEMMA ForceCloseKeeps ==
  ASSUME IInv, ForceClose, restarts' = restarts
  PROVE  /\ state' = "closed"
         /\ failures' \in 0 .. Threshold
         /\ trials' \in 0 .. HalfOpenRequests
         /\ elapsed' \in 0 .. RecoveryTimeout
         /\ streak' \in 0 .. Threshold
         /\ RoomForTrial' /\ CountsStreak'
  BY ThresholdAssumption, HalfOpenAssumption, TimeoutAssumption
  DEF IInv, TypeOK, RoomForTrial, CountsStreak, ForceClose

-----------------------------------------------------------------------------
LEMMA NextIInv == IInv /\ [Next]_vars => IInv'
<1> SUFFICES ASSUME IInv, [Next]_vars PROVE IInv'
  OBVIOUS
<1> USE ThresholdAssumption, HalfOpenAssumption, TimeoutAssumption, RestartsAssumption
<1>1. CASE TurnedAway
  BY <1>1 DEF IInv, TypeOK, ProbeSettles, RoomForTrial, CountsStreak,
              TurnedAway, Admission, LoopFree, row, work, history
<1>2. ASSUME NEW a \in Attempts, Post(a) PROVE IInv'
  BY <1>2 DEF IInv, TypeOK, ProbeSettles, RoomForTrial, CountsStreak,
              Post, Admission, LoopFree, row, history
<1>3. ASSUME NEW a \in Attempts, Succeeds(a) PROVE IInv'
  <2>1. Ends(a) /\ RecordSuccess /\ restarts' = restarts
    BY <1>3 DEF Succeeds, Ends
  <2> QED
    BY <2>1, SuccessKeeps DEF IInv, TypeOK, ProbeSettles, Ends, LoopFree, row
<1>4. ASSUME NEW a \in Attempts, Fails(a) PROVE IInv'
  <2>1. Ends(a) /\ RecordFailure /\ restarts' = restarts
    BY <1>4 DEF Fails, Ends
  <2> QED
    BY <2>1, FailureKeeps DEF IInv, TypeOK, ProbeSettles, Ends, row
<1>5. ASSUME NEW a \in Attempts, Vanishes(a) PROVE IInv'
  BY <1>5 DEF IInv, TypeOK, ProbeSettles, RoomForTrial, CountsStreak,
              Vanishes, Ends, LoopFree, row, circuit
<1>6. CASE Tick
  BY <1>6 DEF IInv, TypeOK, ProbeSettles, RoomForTrial, CountsStreak,
              Tick, row, work, history
<1>7. CASE Probe
  BY <1>7 DEF IInv, TypeOK, ProbeSettles, RoomForTrial, CountsStreak,
              Probe, row, circuit, history
<1>8. CASE ProbeSucceeds
  <2>1. restarts' = restarts
    BY <1>8 DEF ProbeSucceeds
  <2>2. CASE state = "closed"
    <3>1. RecordSuccess
      BY <1>8, <2>2 DEF ProbeSucceeds, Answered
    <3> QED
      BY <1>8, <2>1, <2>2, <3>1, SuccessKeeps
      DEF IInv, TypeOK, ProbeSettles, ProbeSucceeds, row
  <2>3. CASE state # "closed"
    <3>1. ForceClose
      BY <1>8, <2>3 DEF ProbeSucceeds, Answered
    <3> QED
      BY <1>8, <2>1, <3>1, ForceCloseKeeps
      DEF IInv, TypeOK, ProbeSettles, ProbeSucceeds, row
  <2> QED
    BY <2>2, <2>3
<1>9. CASE ProbeFails
  <2>1. RecordFailure /\ restarts' = restarts
    BY <1>9 DEF ProbeFails
  <2> QED
    BY <1>9, <2>1, FailureKeeps DEF IInv, TypeOK, ProbeSettles, ProbeFails, row
<1>10. CASE Persist
  <2>1. active' \in BOOLEAN /\ disabledBy' \in {"nobody", "user", "checker"}
    BY <1>10 DEF IInv, TypeOK, Persist
  <2>2. dbFailures' \in 0 .. Threshold
    BY <1>10 DEF IInv, TypeOK, Persist, Bump
  <2>3. dbState' \in {"closed", "open"} /\ probe' = "idle"
    BY <1>10 DEF IInv, TypeOK, ProbeSettles, Persist
  <2>4. UNCHANGED <<state, failures, trials, elapsed, posting, loaded, patch, streak, restarts>>
    BY <1>10 DEF Persist, circuit
  <2> QED
    BY <2>1, <2>2, <2>3, <2>4
    DEF IInv, TypeOK, ProbeSettles, RoomForTrial, CountsStreak
<1>11. CASE ProbeVanishes
  BY <1>11 DEF IInv, TypeOK, ProbeSettles, RoomForTrial, CountsStreak,
               ProbeVanishes, row, circuit, history
<1>12. CASE PatchRead
  BY <1>12 DEF IInv, TypeOK, ProbeSettles, RoomForTrial, CountsStreak,
               PatchRead, row, circuit, history
<1>13. CASE PatchCommit
  BY <1>13 DEF IInv, TypeOK, ProbeSettles, RoomForTrial, CountsStreak,
               PatchCommit, circuit
<1>14. CASE Restart
  BY <1>14 DEF IInv, TypeOK, ProbeSettles, RoomForTrial, CountsStreak,
               Restart, row
<1>15. CASE UNCHANGED vars
  BY <1>15 DEF IInv, TypeOK, ProbeSettles, RoomForTrial, CountsStreak,
               vars, row, circuit, work, history
<1> QED
  BY <1>1, <1>2, <1>3, <1>4, <1>5, <1>6, <1>7, <1>8, <1>9, <1>10, <1>11,
     <1>12, <1>13, <1>14, <1>15
  DEF Next, Attempt

LEMMA SpecIInv == Spec => []IInv
  BY InitIInv, NextIInv, PTL DEF Spec

\* Every variable keeps its type; in particular no row ever says half-open,
\* so that no process starts with a half-open circuit.
THEOREM TypeCorrect == Spec => []TypeOK
  <1>1. IInv => TypeOK
    BY DEF IInv
  <1> QED
    BY <1>1, SpecIInv, PTL

-----------------------------------------------------------------------------
(* The circuit trips on consecutive failures only.                         *)

\* The step formula of TripNeedsStreak.
TripStep == state = "closed" /\ state' = "open" /\ restarts' = 0 => streak' = Threshold

\* Only a recorded failure, of an attempt or a probe, trips the circuit of
\* the first process, and it brings the streak to the threshold.
LEMMA NextTrip == IInv /\ [Next]_vars => TripStep
<1> SUFFICES ASSUME IInv, [Next]_vars,
                    state = "closed", state' = "open", restarts' = 0
             PROVE  streak' = Threshold
  BY DEF TripStep
<1>1. RecordFailure /\ restarts' = restarts
  BY HalfOpenAssumption, RestartsAssumption
  DEF Next, vars, row, circuit, work, history, Attempt, Post, Succeeds, Fails,
      Vanishes, Ends, TurnedAway, Admission, Tick, Probe, ProbeSucceeds, Answered,
      ProbeFails, Persist, ProbeVanishes, PatchRead, PatchCommit, Restart,
      RecordSuccess, ForceClose, IInv, TypeOK
<1> QED
  BY <1>1, ThresholdAssumption
  DEF RecordFailure, Trips, Bump, IInv, TypeOK, CountsStreak

\* As long as no failure count was loaded from the database, the circuit
\* opens only on the threshold's worth of failures in a row.
THEOREM TripsOnStreak == Spec => TripNeedsStreak
  <1>1. IInv /\ [Next]_vars => [TripStep]_vars
    BY NextTrip
  <1>2. Spec => [][TripStep]_vars
    BY <1>1, SpecIInv, PTL DEF Spec
  <1> QED
    BY <1>2 DEF TripNeedsStreak, TripStep
-----------------------------------------------------------------------------
(* The endpoint in the process that delivers to it.  What follows is about *)
(* Courier, whose variables are those of EndpointHealth and these.         *)

CONSTANTS Messages, MaxRetries, BatchSize, Concurrency, MaxCrashes
VARIABLES status, attempts, due, deadLetters, logs, poll, candidates, task, snap,
          unwritten, sent, acked, crashes, faults

Process == INSTANCE Courier

\* Each step of the process is one of the pipeline, or leaves it alone: what
\* holds of Delivery for every answer of circuit, limiter and endpoint lookup
\* (DeliveryProofs) holds with the answers that EndpointHealth gives.
THEOREM ProcessDelivers == Process!Spec => Process!D!Spec
  <1>1. Process!Init => Process!D!Init
    BY DEF Process!Init
  <1>2. [Process!Next]_(Process!vars) => [Process!D!Next]_(Process!D!vars)
    <2> SUFFICES ASSUME [Process!Next]_(Process!vars)
                 PROVE  [Process!D!Next]_(Process!D!vars)
      OBVIOUS
    <2>1. UNCHANGED Process!pipeline => UNCHANGED Process!D!vars
      BY DEF Process!pipeline, Process!D!vars, Process!D!db, Process!D!loop, Process!D!history
    <2>2. ASSUME NEW m \in Messages, Process!Begin(m) \/ Process!Answer(m) PROVE Process!D!Next
      BY <2>2 DEF Process!Begin, Process!Answer, Process!RefuseCircuit, Process!RefuseRate,
           Process!EndpointGone, Process!Send, Process!MarkDelivered, Process!Fail,
           Process!D!Next, Process!D!Task, Process!D!Begin, Process!D!Answer
    <2>3. ASSUME NEW m \in Messages,
                 Process!Ingest(m) \/ Process!BecomeDue(m) \/ Process!ReceiverAccepts(m)
          PROVE  Process!D!Next
      BY <2>3 DEF Process!Ingest, Process!BecomeDue, Process!ReceiverAccepts, Process!D!Next
    <2>4. CASE Process!Fetch \/ Process!Log \/ Process!Crash \/ Process!Start
      BY <2>4 DEF Process!Fetch, Process!Log, Process!Crash, Process!Start, Process!D!Next
    <2>5. CASE Process!Probes \/ Process!Tick \/ UNCHANGED Process!vars
      BY <2>1, <2>5 DEF Process!Probes, Process!Tick, Process!vars, Process!pipeline
    <2> QED
      BY <2>2, <2>3, <2>4, <2>5 DEF Process!Next
  <1> QED
    BY <1>1, <1>2, PTL DEF Process!Spec, Process!D!Spec

\* The counts are up to the threshold; the other types that matter here.
Counts ==
    /\ {failures, dbFailures, faults} \subseteq 0 .. Threshold
    /\ active \in BOOLEAN
    /\ state \in {"closed", "open", "half_open"}
    /\ probe \in {"idle", "sent", "good", "bad"}

\* What a probe has seen when it persists: nothing came in between.
ProbeKnows ==
    /\ probe = "good" => state = "closed" /\ failures = 0
    /\ probe = "bad"  => state \in {"closed", "open"}
    /\ ~LoopFree => loaded = active

\* Both counts, that of the circuit and that of the row, count failures since
\* the endpoint became active, the one a probe is about to persist included.
FaultsCover ==
    /\ failures <= faults /\ dbFailures <= faults
    /\ probe = "bad" => Bump(dbFailures) <= faults

\* A circuit that is not closed has tripped on them; so has that of an
\* endpoint that was disabled.  An active one has never been persisted open,
\* so that a restart loads counts and no open circuit.
OutageFirst == state # "closed" \/ ~active => faults >= Threshold
RowIsClosed == active => dbState = "closed"

OutageInv == Counts /\ ProbeKnows /\ FaultsCover /\ OutageFirst /\ RowIsClosed

\* A step that leaves the endpoint alone, or lets an attempt through.
LEMMA HealthStays ==
    ASSUME OutageInv, UNCHANGED <<Process!health, faults>>
    PROVE  OutageInv'
  BY DEF OutageInv, Counts, ProbeKnows, FaultsCover, OutageFirst, RowIsClosed, LoopFree, Bump,
         Process!health

LEMMA AdmissionKeepsOutage ==
    ASSUME OutageInv, Admission, UNCHANGED <<row, probe, loaded, faults>>
    PROVE  OutageInv'
  BY DEF OutageInv, Counts, ProbeKnows, FaultsCover, OutageFirst, RowIsClosed, LoopFree, Bump,
         Admission, row

\* A success lowers the circuit's count, and closes a circuit or leaves it.
LEMMA SuccessKeepsOutage ==
    ASSUME OutageInv, LoopFree, RecordSuccess, UNCHANGED <<row, probe, loaded, faults>>
    PROVE  OutageInv'
  <1>1. failures' \in {0, failures} /\ state' \in {"closed", state}
    BY DEF RecordSuccess
  <1> QED
    BY <1>1, ThresholdAssumption
    DEF OutageInv, Counts, ProbeKnows, FaultsCover, OutageFirst, RowIsClosed, LoopFree, Bump, row

\* A failure raises the circuit's count and that of the faults.
LEMMA FailureCounts ==
    ASSUME OutageInv, RecordFailure, active' = active, Process!Counting(TRUE)
    PROVE  /\ faults' = Bump(faults) /\ faults' \in 0 .. Threshold /\ faults' >= faults
           /\ failures' \in 0 .. Threshold /\ failures' <= faults'
           /\ Bump(dbFailures) <= faults'
           /\ state' # "closed" => faults' >= Threshold
           /\ state' \in {"closed", "open"}
  <1>1. faults' = Bump(faults)
    BY DEF Process!Counting, Process!H!Bump, Bump
  <1>2. failures' = Bump(failures) /\ state' = IF Trips THEN "open" ELSE state
    BY DEF RecordFailure
  <1>3. /\ faults \in 0 .. Threshold /\ failures \in 0 .. Threshold /\ dbFailures \in 0 .. Threshold
        /\ failures <= faults /\ dbFailures <= faults
        /\ state # "closed" => faults >= Threshold
        /\ state \in {"closed", "open", "half_open"}
    BY DEF OutageInv, Counts, FaultsCover, OutageFirst
  <1> QED
    BY <1>1, <1>2, <1>3, ThresholdAssumption DEF Bump, Trips

\* So a failure keeps the invariant, of an attempt or of a probe.
LEMMA FailureKeepsOutage ==
    ASSUME OutageInv, RecordFailure, UNCHANGED row, Process!Counting(TRUE),
           \/ LoopFree /\ UNCHANGED <<probe, loaded>>
           \/ probe' = "bad" /\ loaded' = active
    PROVE  OutageInv'
  <1>1. active' = active /\ dbState' = dbState /\ dbFailures' = dbFailures
    BY DEF row
  <1>2. /\ faults' \in 0 .. Threshold /\ faults' >= faults
        /\ failures' \in 0 .. Threshold /\ failures' <= faults'
        /\ Bump(dbFailures) <= faults'
        /\ state' # "closed" => faults' >= Threshold
        /\ state' \in {"closed", "open"}
    BY <1>1, FailureCounts
  <1>3. /\ faults \in 0 .. Threshold /\ dbFailures \in 0 .. Threshold /\ active \in BOOLEAN
        /\ probe \in {"idle", "sent", "good", "bad"} /\ dbFailures <= faults
        /\ ~active => faults >= Threshold
        /\ RowIsClosed
    BY DEF OutageInv, Counts, FaultsCover, OutageFirst
  <1>4. probe' \in {"idle", "sent", "bad"} /\ (probe' = "bad" => loaded' = active)
    BY DEF LoopFree
  <1>5. Counts'
    BY <1>1, <1>2, <1>3, <1>4 DEF Counts
  <1>6. ProbeKnows'
    BY <1>1, <1>2, <1>4 DEF ProbeKnows, LoopFree
  <1>7. FaultsCover'
    <2>1. Bump(dbFailures)' = Bump(dbFailures)
      BY <1>1 DEF Bump
    <2>2. dbFailures' <= faults'
      BY <1>1, <1>2, <1>3
    <2> QED
      BY <1>2, <2>1, <2>2 DEF FaultsCover
  <1>8. OutageFirst' /\ RowIsClosed'
    BY <1>1, <1>2, <1>3, ThresholdAssumption DEF OutageFirst, RowIsClosed
  <1> QED
    BY <1>5, <1>6, <1>7, <1>8 DEF OutageInv

\* What the tasks do to the endpoint.
LEMMA TasksKeepOutage ==
    ASSUME OutageInv, NEW m \in Messages, Process!Begin(m) \/ Process!Answer(m)
    PROVE  OutageInv'
  <1>1. CASE Process!RefuseCircuit(m)
    BY <1>1, HealthStays DEF Process!RefuseCircuit
  <1>2. CASE Process!RefuseRate(m) \/ Process!EndpointGone(m)
    <2>1. Admission /\ UNCHANGED <<row, probe, loaded, faults>>
      BY <1>2 DEF Process!RefuseRate, Process!EndpointGone, Process!H!TurnedAway,
           Process!H!Admission, Admission, Process!H!LoopFree, LoopFree, Process!H!Admits, Admits,
           Process!H!row, row, Process!H!work
    <2> QED
      BY <2>1, AdmissionKeepsOutage
  <1>3. CASE Process!Send(m)
    <2>1. Admission /\ UNCHANGED <<row, probe, loaded, faults>>
      BY <1>3 DEF Process!Send, Process!H!Post, Process!H!Admission, Admission,
           Process!H!LoopFree, LoopFree, Process!H!Admits, Admits, Process!H!row, row
    <2> QED
      BY <2>1, AdmissionKeepsOutage
  <1>4. CASE Process!MarkDelivered(m)
    <2>1. LoopFree /\ RecordSuccess /\ UNCHANGED <<row, probe, loaded>>
      BY <1>4 DEF Process!MarkDelivered, Process!H!Succeeds, Process!H!Ends, Process!H!LoopFree,
           LoopFree, Process!H!RecordSuccess, RecordSuccess, Process!H!row, row
    <2>2. faults' = faults
      BY <1>4, <2>1 DEF Process!MarkDelivered, Process!Counting, row
    <2> QED
      BY <2>1, <2>2, SuccessKeepsOutage
  <1>5. CASE Process!Fail(m)
    <2>1. LoopFree /\ RecordFailure /\ UNCHANGED <<row, probe, loaded>> /\ Process!Counting(TRUE)
      BY <1>5 DEF Process!Fail, Process!H!Fails, Process!H!Ends, Process!H!LoopFree, LoopFree,
           Process!H!RecordFailure, RecordFailure, Process!H!Trips, Trips, Process!H!Bump, Bump,
           Process!H!row, row
    <2> QED
      BY <2>1, FailureKeepsOutage DEF LoopFree, row
  <1> QED
    BY <1>1, <1>2, <1>3, <1>4, <1>5 DEF Process!Begin, Process!Answer

\* A good probe leaves a closed circuit with nothing counted, a bad one counts
\* in both places.
LEMMA ProbesKeepOutage ==
    ASSUME OutageInv, Process!Probes
    PROVE  OutageInv'
  <1>1. Process!Counting(probe = "sent" /\ probe' = "bad")
    BY DEF Process!Probes
  <1>2. CASE Process!H!Probe
    <2>1. UNCHANGED <<row, circuit, loaded>> /\ probe = "idle" /\ probe' = "sent"
      BY <1>2 DEF Process!H!Probe, Process!H!row, row, Process!H!circuit, circuit
    <2>2. faults' = faults
      BY <1>1, <2>1 DEF Process!Counting, row
    <2> QED
      BY <2>1, <2>2 DEF OutageInv, Counts, ProbeKnows, FaultsCover, OutageFirst, RowIsClosed,
           LoopFree, row, circuit
  <1>3. CASE Process!H!ProbeSucceeds
    <2>1. /\ UNCHANGED row /\ probe = "sent" /\ probe' = "good" /\ loaded' = active
          /\ Process!H!Answered
      BY <1>3 DEF Process!H!ProbeSucceeds, Process!H!row, row
    <2>2. state' = "closed" /\ failures' = 0
      BY <2>1 DEF Process!H!Answered, Process!H!RecordSuccess, Process!H!ForceClose
    <2>3. faults' = faults
      BY <1>1, <2>1 DEF Process!Counting, row
    <2> QED
      BY <2>1, <2>2, <2>3, ThresholdAssumption
      DEF OutageInv, Counts, ProbeKnows, FaultsCover, OutageFirst, RowIsClosed, LoopFree, row
  <1>4. CASE Process!H!ProbeFails
    <2>1. /\ UNCHANGED row /\ probe = "sent" /\ probe' = "bad" /\ loaded' = active
          /\ RecordFailure
      BY <1>4 DEF Process!H!ProbeFails, Process!H!RecordFailure, RecordFailure, Process!H!Trips,
           Trips, Process!H!Bump, Bump, Process!H!row, row
    <2>2. active' = active /\ Process!Counting(TRUE)
      BY <1>1, <2>1 DEF Process!Counting, row
    <2> QED
      BY <2>1, <2>2, FailureKeepsOutage DEF row
  <1>5. CASE Process!H!ProbeVanishes
    <2>1. UNCHANGED <<row, circuit, loaded>> /\ probe' = "idle"
      BY <1>5 DEF Process!H!ProbeVanishes, Process!H!row, row, Process!H!circuit, circuit
    <2>2. faults' = faults
      BY <1>1, <2>1 DEF Process!Counting, row
    <2> QED
      BY <2>1, <2>2 DEF OutageInv, Counts, ProbeKnows, FaultsCover, OutageFirst, RowIsClosed,
           LoopFree, row, circuit
  <1>6. CASE Process!H!Persist
    <2>1. /\ probe \in {"good", "bad"} /\ probe' = "idle" /\ UNCHANGED circuit
          /\ dbState' = state /\ loaded = active
      BY <1>6 DEF Process!H!Persist, Process!H!circuit, circuit, OutageInv, ProbeKnows, LoopFree
    <2>2. CASE probe = "good"
      <3>1. state = "closed" /\ failures = 0
        BY <2>2 DEF OutageInv, ProbeKnows
      <3>2. active' = TRUE /\ dbFailures' = IF active THEN dbFailures ELSE 0
        BY <1>6, <2>1, <2>2, <3>1 DEF Process!H!Persist, Process!H!Enables, Process!H!Disables,
             OutageInv, Counts
      <3>3. faults' = IF active THEN faults ELSE 0
        BY <1>1, <2>1, <2>2, <3>2 DEF Process!Counting
      <3> QED
        BY <2>1, <3>1, <3>2, <3>3, ThresholdAssumption
        DEF OutageInv, Counts, ProbeKnows, FaultsCover, OutageFirst, RowIsClosed, LoopFree, circuit
    <2>3. CASE probe = "bad"
      <3>1. /\ dbFailures' = Bump(dbFailures)
            /\ active' = IF state = "open" /\ active THEN FALSE ELSE active
        BY <1>6, <2>1, <2>3 DEF Process!H!Persist, Process!H!Enables, Process!H!Disables,
             Process!H!Bump, Bump
      <3>2. faults' = faults
        BY <1>1, <2>1, <2>3, <3>1 DEF Process!Counting
      <3>3. /\ state \in {"closed", "open"} /\ active \in BOOLEAN
            /\ dbFailures \in 0 .. Threshold /\ faults \in 0 .. Threshold
            /\ failures \in 0 .. Threshold /\ failures <= faults
            /\ Bump(dbFailures) <= faults
        BY <2>3 DEF OutageInv, Counts, ProbeKnows, FaultsCover
      <3>4. dbFailures' \in 0 .. Threshold
        BY <3>1, <3>3, ThresholdAssumption DEF Bump
      <3>5. /\ active' \in BOOLEAN
            /\ active' => state = "closed"
            /\ ~active' => faults >= Threshold
        BY <3>1, <3>3 DEF OutageInv, OutageFirst
      <3>6. state' = state /\ failures' = failures
        BY <2>1 DEF circuit
      <3>7. Counts'
        BY <2>1, <3>2, <3>3, <3>4, <3>5, <3>6 DEF Counts
      <3>8. ProbeKnows' /\ FaultsCover'
        BY <2>1, <3>1, <3>2, <3>3, <3>6 DEF ProbeKnows, FaultsCover, LoopFree
      <3>9. OutageFirst' /\ RowIsClosed'
        BY <2>1, <3>2, <3>5, <3>6 DEF OutageInv, OutageFirst, RowIsClosed
      <3> QED
        BY <3>7, <3>8, <3>9 DEF OutageInv
    <2> QED
      BY <2>1, <2>2, <2>3
  <1> QED
    BY <1>2, <1>3, <1>4, <1>5, <1>6 DEF Process!Probes

LEMMA ProcessKeepsOutage == OutageInv /\ [Process!Next]_(Process!vars) => OutageInv'
  <1> SUFFICES ASSUME OutageInv, [Process!Next]_(Process!vars) PROVE OutageInv'
    OBVIOUS
  <1>1. ASSUME NEW m \in Messages, Process!Begin(m) \/ Process!Answer(m) PROVE OutageInv'
    BY <1>1, TasksKeepOutage
  <1>2. ASSUME NEW m \in Messages,
               Process!Ingest(m) \/ Process!BecomeDue(m) \/ Process!ReceiverAccepts(m)
        PROVE  OutageInv'
    BY <1>2, HealthStays DEF Process!Ingest, Process!BecomeDue, Process!ReceiverAccepts
  <1>3. CASE Process!Fetch \/ Process!Log \/ Process!Crash \/ UNCHANGED Process!vars
    BY <1>3, HealthStays DEF Process!Fetch, Process!Log, Process!Crash, Process!vars
  <1>4. CASE Process!Probes
    BY <1>4, ProbesKeepOutage
  <1>5. CASE Process!Tick
    <2>1. UNCHANGED <<row, state, failures, probe, loaded, faults>>
      BY <1>5 DEF Process!Tick, Process!H!Tick, Process!H!row, row, Process!H!work
    <2> QED
      BY <2>1 DEF OutageInv, Counts, ProbeKnows, FaultsCover, OutageFirst, RowIsClosed, LoopFree,
           Bump, row
  <1>6. CASE Process!Start
    <2>1. CASE Process!H!Restart
      <3>1. /\ UNCHANGED <<row, faults>> /\ probe' = "idle"
            /\ state' = IF active THEN dbState ELSE "closed"
            /\ failures' = IF active THEN dbFailures ELSE 0
        BY <1>6, <2>1 DEF Process!Start, Process!H!Restart, Process!H!row, row
      <3>2. state' = "closed"
        BY <3>1 DEF OutageInv, RowIsClosed
      <3> QED
        BY <3>1, <3>2, ThresholdAssumption
        DEF OutageInv, Counts, ProbeKnows, FaultsCover, OutageFirst, RowIsClosed, LoopFree, row
    <2>2. CASE UNCHANGED Process!health
      BY <1>6, <2>2, HealthStays DEF Process!Start
    <2> QED
      BY <1>6, <2>1, <2>2 DEF Process!Start
  <1> QED
    BY <1>1, <1>2, <1>3, <1>4, <1>5, <1>6 DEF Process!Next

\* A letter that says that the endpoint was inactive is of a message that
\* found it so, and an inactive endpoint has had its outage.
LEMMA LettersFollowOutage ==
    ASSUME OutageInv, [Process!Next]_(Process!vars),
           NEW letter \in deadLetters' \ deadLetters, letter[3] = "inactive"
    PROVE  faults >= Threshold
  <1>1. PICK m \in Messages : Process!EndpointGone(m) \/ Process!D!FailDead(m)
    BY DEF Process!Next, Process!vars, Process!pipeline, Process!Begin, Process!Answer,
           Process!RefuseCircuit, Process!D!RefuseCircuit, Process!RefuseRate, Process!D!RefuseRate,
           Process!Send, Process!D!Send, Process!MarkDelivered, Process!D!MarkDelivered,
           Process!Fail, Process!D!FailRetry, Process!Ingest, Process!D!Ingest,
           Process!BecomeDue, Process!D!BecomeDue, Process!ReceiverAccepts,
           Process!D!ReceiverAccepts, Process!Fetch, Process!D!PollLoop, Process!D!Select,
           Process!D!Sleep, Process!D!Claim, Process!D!Load, Process!D!EndBatch, Process!D!vars,
           Process!D!db, Process!Log, Process!D!Log, Process!D!WriteLog, Process!D!LoseLog,
           Process!Probes, Process!Tick, Process!Crash, Process!D!Crash, Process!Start,
           Process!D!Start
  <1>2. CASE Process!D!FailDead(m)
    <2>1. letter = <<m, Process!D!Counted(m), "error">>
      BY <1>2 DEF Process!D!FailDead, Process!D!Bury
    <2> QED
      BY <2>1
  <1>3. CASE Process!EndpointGone(m)
    BY <1>3 DEF Process!EndpointGone, OutageInv, OutageFirst
  <1> QED
    BY <1>1, <1>2, <1>3

\* A message dies of a disabled endpoint, with retries left, only after the
\* endpoint has failed as often as the breaker tolerates since it became
\* active (LostOnlyToOutage of Courier), for any number of messages, stops
\* and posts under way.
THEOREM LossNeedsOutage == Process!Spec => Process!LostOnlyToOutage
  <1>1. Process!Init => OutageInv
    BY ThresholdAssumption DEF Process!Init, Process!H!Init, OutageInv, Counts, ProbeKnows,
       FaultsCover, OutageFirst, RowIsClosed, LoopFree
  <1> DEFINE Late == \A letter \in deadLetters' \ deadLetters :
                        letter[3] = "inactive" => faults >= Threshold
  <1>2. OutageInv /\ [Process!Next]_(Process!vars) => [Late]_(Process!vars)
    BY LettersFollowOutage
  <1>3. Process!Spec => [][Late]_(Process!vars)
    <2> HIDE DEF Late
    <2> QED
      BY <1>1, <1>2, ProcessKeepsOutage, PTL DEF Process!Spec
  <1> QED
    BY <1>3 DEF Process!LostOnlyToOutage
=============================================================================
