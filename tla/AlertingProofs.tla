--------------------------- MODULE AlertingProofs ---------------------------
(* Safety of Alerting for any number of tasks and configurations and any   *)
(* cooldown.                                                               *)
EXTENDS Alerting, TLAPS

USE CooldownAssumption DEF Expired

\* An age stays an age as time passes, and the order of two ages is kept.
LEMMA AgesGrow ==
    ASSUME NEW m \in Ages, NEW n \in Ages
    PROVE  /\ Older(m) \in Ages
           /\ m <= n => Older(m) <= Older(n)
           /\ n = Expired => Older(n) = Expired
  BY DEF Older, Ages

-----------------------------------------------------------------------------
\* Every variable keeps its type, and no task waits while it has the turn.
LEMMA TypeKept == TypeOK /\ [Next]_vars => TypeOK'
<1> SUFFICES ASSUME TypeOK, [Next]_vars PROVE TypeOK'
  OBVIOUS
<1> USE DEF TypeOK
<1>1. CASE Tick
  <2>1. /\ age' \in [Configs -> Ages]
        /\ sendAge' \in [Tasks -> [Configs -> Ages]]
    BY <1>1, AgesGrow DEF Tick
  <2> QED
    BY <1>1, <2>1 DEF Tick, session
<1>2. CASE Restart
  <2>1. lost' \subseteq Tasks \X Configs
    BY <1>2 DEF Restart
  <2> QED
    BY <1>2, <2>1, TasksAssumption DEF Restart
<1>3. ASSUME NEW t \in Tasks, Alert(t) PROVE TypeOK'
  <2>1. CASE \E S \in SUBSET Configs : Begin(t, S)
    BY <2>1 DEF Begin, history
  <2>2. ASSUME NEW c \in Configs, Skip(t, c) PROVE TypeOK'
    BY <2>2 DEF Skip, Looks, history
  <2>3. ASSUME NEW c \in Configs, Sends(t, c)
        PROVE  /\ sendAge' \in [Tasks -> [Configs -> Ages]]
               /\ lost' \subseteq Tasks \X Configs
               /\ todo' \in [Tasks -> SUBSET Configs]
    BY <2>3 DEF Sends, Looks, Ages
  <2>4. ASSUME NEW c \in Configs, Email(t, c) PROVE TypeOK'
    BY <2>3, <2>4 DEF Email
  <2>5. ASSUME NEW c \in Configs, Post(t, c) PROVE TypeOK'
    BY <2>3, <2>5, TasksAssumption DEF Post
  <2>6. CASE Posted(t)
    BY <2>6 DEF Posted, history
  <2>7. CASE Commit(t)
    <3>1. age' \in [Configs -> Ages]
      BY <2>7 DEF Commit, Written, Ages
    <3> QED
      BY <2>7, <3>1, TasksAssumption DEF Commit, history
  <2>8. CASE Raise(t)
    <3>1. lost' \subseteq Tasks \X Configs
      BY <2>8 DEF Raise
    <3> QED
      BY <2>8, <3>1, TasksAssumption DEF Raise
  <2> QED
    BY <1>3, <2>1, <2>2, <2>4, <2>5, <2>6, <2>7, <2>8 DEF Alert, Alerts
<1>4. CASE UNCHANGED vars
  BY <1>4 DEF vars, session, history
<1> QED
  BY <1>1, <1>2, <1>3, <1>4 DEF Next

\* Alerting keeps the types of its variables.
THEOREM TypeCorrect == Spec => []TypeOK
<1>1. Init => TypeOK
  BY TasksAssumption DEF Init, TypeOK, Ages
<1> QED
  BY <1>1, TypeKept, PTL DEF Spec

-----------------------------------------------------------------------------
\* One pair of a task and a configuration is covered.
Covered(t, c) ==
    \/ age[c] <= sendAge[t][c]
    \/ sendAge[t][c] = Expired
    \/ Unwritten(t, c)
    \/ <<t, c>> \in lost

\* A step of t leaves the pairs of other tasks covered: it may only make a
\* configuration's newest entry younger.
LEMMA OthersKept ==
    ASSUME TypeOK, NEW s \in Tasks, NEW d \in Configs, Covered(s, d),
           age'[d] <= age[d], age'[d] \in Ages,
           sendAge'[s][d] = sendAge[s][d],
           Unwritten(s, d) => Unwritten(s, d)' \/ <<s, d>> \in lost'
                                \/ age'[d] = 0,
           <<s, d>> \in lost => <<s, d>> \in lost'
    PROVE  Covered(s, d)'
<1>1. age[d] \in Ages /\ sendAge[s][d] \in Ages
  BY DEF TypeOK
<1> QED
  BY <1>1 DEF Covered, Ages

LEMMA CoverKept == TypeOK /\ SendsAreCovered /\ [Next]_vars => SendsAreCovered'
<1> SUFFICES ASSUME TypeOK, SendsAreCovered, [Next]_vars,
                    NEW s \in Tasks, NEW d \in Configs
             PROVE  Covered(s, d)'
  BY DEF SendsAreCovered, Covered, Unwritten
<1>0. Covered(s, d) /\ age[d] \in Ages /\ sendAge[s][d] \in Ages /\ age[d] <= age[d]
  BY DEF SendsAreCovered, Covered, Unwritten, TypeOK, Ages
<1>1. CASE Tick
  <2>1. age'[d] = Older(age[d]) /\ sendAge'[s][d] = Older(sendAge[s][d])
    BY <1>1 DEF Tick
  <2>2. Unwritten(s, d)' = Unwritten(s, d) /\ lost' = lost
    BY <1>1 DEF Tick, Unwritten, session
  <2> QED
    BY <1>0, <2>1, <2>2, AgesGrow DEF Covered
<1>2. CASE Restart
  <2>1. Unwritten(s, d) => <<s, d>> \in lost'
    BY <1>2 DEF Restart, Unwritten
  <2>2. age' = age /\ sendAge' = sendAge /\ lost \subseteq lost'
    BY <1>2 DEF Restart
  <2> QED
    BY <1>0, <2>1, <2>2 DEF Covered
<1>3. ASSUME NEW t \in Tasks, Alert(t) PROVE Covered(s, d)'
  <2>1. CASE \E S \in SUBSET Configs : Begin(t, S)
    BY <1>0, <2>1 DEF Begin, Covered, Unwritten, history
  <2>2. ASSUME NEW c \in Configs, Skip(t, c) PROVE Covered(s, d)'
    BY <1>0, <2>2 DEF Skip, Covered, Unwritten, history
  <2>3. ASSUME NEW c \in Configs, Alerts(t, c) PROVE Covered(s, d)'
    <3>1. Sends(t, c) /\ age' = age
      BY <2>3 DEF Alerts, Email, Post
    <3>2. Unwritten(t, c)'
      BY <2>3 DEF Alerts, Email, Post, Unwritten, TypeOK
    <3>3. Unwritten(s, d) => Unwritten(s, d)'
      <4>1. CASE Email(t, c)
        BY <4>1 DEF Email, Unwritten, TypeOK
      <4>2. CASE Post(t, c)
        <5>1. sending[t] = {}
          BY <4>2 DEF Post, Sends, Looks, TypeOK
        <5> QED
          BY <4>2, <5>1 DEF Post, Unwritten, TypeOK
      <4> QED
        BY <2>3, <4>1, <4>2 DEF Alerts
    <3>4. CASE s = t /\ d = c
      BY <3>2, <3>4 DEF Covered
    <3>5. CASE ~(s = t /\ d = c)
      <4>1. sendAge'[s][d] = sendAge[s][d] /\ (<<s, d>> \in lost => <<s, d>> \in lost')
        BY <3>1, <3>5 DEF Sends, TypeOK
      <4> QED
        BY <1>0, <3>1, <3>3, <4>1 DEF Covered
    <3> QED
      BY <3>4, <3>5
  <2>4. CASE Posted(t)
    <3>1. Unwritten(s, d) => Unwritten(s, d)'
      BY <2>4 DEF Posted, Unwritten, TypeOK
    <3> QED
      BY <1>0, <2>4, <3>1 DEF Posted, Covered, history
  <2>5. CASE Commit(t)
    <3>1. age'[d] = IF d \in recorded[t] THEN 0 ELSE age[d]
      BY <2>5 DEF Commit, Written
    <3>2. age'[d] \in Ages /\ age'[d] <= age[d]
      BY <1>0, <3>1 DEF Ages
    <3>3. Unwritten(s, d) => Unwritten(s, d)' \/ age'[d] = 0
      BY <2>5, <3>1 DEF Commit, Unwritten, TypeOK
    <3>4. sendAge' = sendAge /\ lost' = lost
      BY <2>5 DEF Commit, history
    <3> QED
      BY <1>0, <3>2, <3>3, <3>4, OthersKept
  <2>6. CASE Raise(t)
    <3>1. Unwritten(s, d) => Unwritten(s, d)' \/ <<s, d>> \in lost'
      BY <2>6 DEF Raise, Unwritten, TypeOK
    <3>2. age' = age /\ sendAge' = sendAge /\ lost \subseteq lost'
      BY <2>6 DEF Raise
    <3> QED
      BY <1>0, <3>1, <3>2 DEF Covered
  <2> QED
    BY <1>3, <2>1, <2>2, <2>3, <2>4, <2>5, <2>6 DEF Alert
<1>4. CASE UNCHANGED vars
  BY <1>0, <1>4 DEF vars, session, history, Covered, Unwritten
<1> QED
  BY <1>1, <1>2, <1>3, <1>4 DEF Next

\* Whoever sent an alert within the cooldown, the log suppresses the next
\* one, unless the sender's entry is still to be committed or was lost.
THEOREM AlertsAreCovered == Spec => []SendsAreCovered
<1>1. Init => SendsAreCovered
  BY DEF Init, SendsAreCovered
<1> QED
  BY <1>1, TypeCorrect, CoverKept, PTL DEF Spec

\* An alert is repeated within its cooldown only by tasks that overlap, or
\* when an entry was lost.
THEOREM RepeatsNeedOverlap == Spec => RepeatsOverlap
<1> DEFINE Step ==
        \A t, s \in Tasks, c \in Configs :
            Alerts(t, c) /\ sendAge[s][c] <= Cooldown =>
                Unwritten(s, c) \/ <<s, c>> \in lost
<1>1. TypeOK /\ SendsAreCovered => Step
  <2> SUFFICES ASSUME TypeOK, SendsAreCovered,
                      NEW t \in Tasks, NEW s \in Tasks, NEW c \in Configs,
                      Alerts(t, c), sendAge[s][c] <= Cooldown
               PROVE  Unwritten(s, c) \/ <<s, c>> \in lost
    OBVIOUS
  <2>1. ~(age[c] <= Cooldown)
    BY DEF Alerts, Email, Post, Sends, Suppressed
  <2>2. age[c] \in Nat /\ sendAge[s][c] \in Nat
    BY DEF TypeOK, Ages
  <2> QED
    BY <2>1, <2>2 DEF SendsAreCovered
<1> QED
  BY <1>1, TypeCorrect, AlertsAreCovered, PTL DEF RepeatsOverlap
=============================================================================
