---------------------------- MODULE TokenBuckets ----------------------------
(***************************************************************************)
(* What the rate limiter promises, without how it is done: a bucket per    *)
(* endpoint and one for all, each refilled at every tick of the clock up   *)
(* to a second's worth of its rate.  An attempt that is let through takes  *)
(* a token from both.  When a rate is set, or the process starts, a bucket *)
(* may be left at any level that its rate allows.                          *)
(***************************************************************************)
EXTENDS Naturals

CONSTANTS
    Endpoints,
    Second          \* ticks per second; a token is that many units

VARIABLES
    rate, level,        \* of each endpoint's bucket
    allRate, allLevel,  \* of the bucket for all
    granted             \* the endpoints that the last step let through

buckets == <<rate, level, allRate, allLevel, granted>>

Least(a, b) == IF a < b THEN a ELSE b

Levels(r) == 0 .. r * Second

Init ==
    /\ rate \in [Endpoints -> Nat]
    /\ level = [e \in Endpoints |-> rate[e] * Second]
    /\ allRate \in Nat
    /\ allLevel = allRate * Second
    /\ granted = {}

Tick ==
    /\ level' = [e \in Endpoints |-> Least(rate[e] * Second, level[e] + rate[e])]
    /\ allLevel' = Least(allRate * Second, allLevel + allRate)
    /\ granted' = {}
    /\ UNCHANGED <<rate, allRate>>

Grant(e) ==
    /\ level[e] >= Second
    /\ allLevel >= Second
    /\ level' = [level EXCEPT ![e] = @ - Second]
    /\ allLevel' = allLevel - Second
    /\ granted' = {e}
    /\ UNCHANGED <<rate, allRate>>

Refuse ==
    /\ granted' = {}
    /\ UNCHANGED <<rate, level, allRate, allLevel>>

\* The rate of one endpoint is set, or it is forgotten.
Set(e) ==
    /\ rate'[e] \in Nat
    /\ rate' = [rate EXCEPT ![e] = rate'[e]]
    /\ level'[e] \in Levels(rate'[e])
    /\ level' = [level EXCEPT ![e] = level'[e]]
    /\ granted' = {}
    /\ UNCHANGED <<allRate, allLevel>>

SetAll ==
    /\ allRate' \in Nat
    /\ allLevel' \in Levels(allRate')
    /\ granted' = {}
    /\ UNCHANGED <<rate, level>>

Start ==
    /\ rate' \in [Endpoints -> Nat]
    /\ level' = [e \in Endpoints |-> rate'[e] * Second]
    /\ allRate' \in Nat
    /\ allLevel' = allRate' * Second
    /\ granted' = {}

Next == Tick \/ Refuse \/ SetAll \/ Start \/ \E e \in Endpoints : Grant(e) \/ Set(e)

Spec == Init /\ [][Next]_buckets
=============================================================================
