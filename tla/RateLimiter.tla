----------------------------- MODULE RateLimiter -----------------------------
(***************************************************************************)
(* The token buckets of core/rate_limiter.py, kept in the memory of the    *)
(* process, next to the endpoints table whose rate_limit_per_sec they are  *)
(* to follow: handlers of api/endpoints.py commit a row first and tell the *)
(* limiter afterwards, main.py loads the active endpoints at start, and    *)
(* the dispatcher asks for a token before every attempt.                   *)
(*                                                                         *)
(* Every method of the limiter holds its lock: it is one step.  A handler  *)
(* is a thread that loads, commits, refreshes and tells the limiter, with  *)
(* other threads in between.  Time passes in ticks, of which Second make a *)
(* second; a token is Second units, so that a tick adds a bucket's rate in *)
(* units and a full bucket has Second ticks' worth.  Buckets are refilled  *)
(* when they are looked at, from the time since the last look.             *)
(***************************************************************************)
EXTENDS Naturals

CONSTANTS
    Endpoints,
    Managed,        \* bound: the endpoints that API calls are about
    Threads,        \* API worker threads
    Rates,          \* values of rate_limit_per_sec (EndpointCreate: ge=1)
    DefaultRate,    \* the rate of an endpoint that was never configured
    GlobalRates,    \* values of settings.GLOBAL_RATE_LIMIT_PER_SEC
    Second,         \* ticks per second
    MaxCalls,       \* bound: API calls
    MaxStarts       \* bound: restarts of the process and reloads of its settings

ASSUME ManagedAssumption == Managed \subseteq Endpoints
ASSUME RatesAssumption ==
    /\ Rates \subseteq Nat \ {0}
    /\ GlobalRates \subseteq Nat \ {0}
    /\ DefaultRate \in Nat \ {0}
ASSUME SecondAssumption == Second \in Nat \ {0}
ASSUME BoundsAssumption == MaxCalls \in Nat /\ MaxStarts \in Nat

VARIABLES
    \* the endpoints table
    life,       \* "unborn", "present" or "deleted"; ids are never used again
    limit,      \* rate_limit_per_sec
    \* the limiter
    rate,       \* _rates, 0 for an endpoint without an entry
    bucket,     \* _buckets, in units
    idle,       \* ticks since _last_refill, up to a second
    allRate,    \* _global_rate
    allBucket,  \* _global_tokens
    allIdle,    \* ticks since _global_last_refill, up to a second
    \* the handlers
    req,        \* what a thread does next: operation, endpoint, rate
    \* history
    granted,    \* the endpoints that the last step let through
    unsettled,  \* endpoints that two calls changed at the same time
    skipped,    \* endpoints that the last start did not configure
    calls, starts

rows    == <<life, limit>>
own     == <<rate, bucket, idle>>
global  == <<allRate, allBucket, allIdle>>
history == <<unsettled, skipped, calls, starts>>
vars    == <<rows, own, global, req, granted, history>>

Idle == [op |-> "none"]
Present == {e \in Endpoints : life[e] = "present"}

\* The threads that are to tell the limiter about e.
Telling(e) == {t \in Threads : req[t].op \in {"refresh", "configure", "remove"} /\ req[t].e = e}

Least(a, b) == IF a < b THEN a ELSE b
Full(r) == r * Second
Refilled(tokens, r, ticks) == Least(Full(r), tokens + ticks * r)

RateOf(e) == IF rate[e] = 0 THEN DefaultRate ELSE rate[e]

\* Mutant: the refill forgets what was in the bucket.
Level_Fresh(e) ==
    IF rate[e] = 0 THEN Full(DefaultRate) ELSE Refilled(0, rate[e], idle[e])

\* What acquire finds in e's bucket: an endpoint without an entry gets one.
Level(e) ==
    IF rate[e] = 0 THEN Full(DefaultRate) ELSE Refilled(bucket[e], rate[e], idle[e])

AllLevel == Refilled(allBucket, allRate, allIdle)

\* A step that lets nothing through.
Quiet == granted' = {}

-----------------------------------------------------------------------------
(* TokenBucketLimiter.                                                     *)

Tick ==
    /\ idle' = [e \in Endpoints |-> Least(Second, idle[e] + 1)]
    /\ allIdle' = Least(Second, allIdle + 1)
    /\ Quiet
    /\ UNCHANGED <<rows, rate, bucket, allRate, allBucket, req, history>>

RefillAll(left) == allBucket' = left /\ allIdle' = 0 /\ UNCHANGED allRate

RefillOwn(e, left) ==
    /\ rate' = [rate EXCEPT ![e] = RateOf(e)]
    /\ bucket' = [bucket EXCEPT ![e] = left]
    /\ idle' = [idle EXCEPT ![e] = 0]

\* acquire is called for the messages of any endpoint that ever was.
Asked(e) == life[e] # "unborn" /\ UNCHANGED <<rows, req, history>>

RefusedByAll(e) ==
    /\ Asked(e)
    /\ AllLevel < Second
    /\ RefillAll(AllLevel)
    /\ Quiet
    /\ UNCHANGED own

RefusedByOwn(e) ==
    /\ Asked(e)
    /\ AllLevel >= Second
    /\ Level(e) < Second
    /\ RefillAll(AllLevel)
    /\ RefillOwn(e, Level(e))
    /\ Quiet

\* Mutant: an attempt that the bucket for all has no token for.
Granted_OwnChecked(e) ==
    /\ Asked(e)
    /\ Level(e) >= Second
    /\ RefillAll(AllLevel - Second)
    /\ RefillOwn(e, Level(e) - Second)
    /\ granted' = {e}

\* Mutant: the token is taken from the endpoint's bucket only.
Granted_OwnOnly(e) ==
    /\ Asked(e)
    /\ AllLevel >= Second
    /\ Level(e) >= Second
    /\ RefillAll(AllLevel)
    /\ RefillOwn(e, Level(e) - Second)
    /\ granted' = {e}

Granted(e) ==
    /\ Asked(e)
    /\ AllLevel >= Second
    /\ Level(e) >= Second
    /\ RefillAll(AllLevel - Second)
    /\ RefillOwn(e, Level(e) - Second)
    /\ granted' = {e}

\* configure: an existing bucket keeps what it has.
SetRate(e, r) ==
    /\ rate' = [rate EXCEPT ![e] = r]
    /\ bucket' = [bucket EXCEPT ![e] = IF rate[e] = 0 THEN Full(r) ELSE @]
    /\ idle' = [idle EXCEPT ![e] = IF rate[e] = 0 THEN 0 ELSE @]

Forget(e) ==
    /\ rate' = [rate EXCEPT ![e] = 0]
    /\ bucket' = [bucket EXCEPT ![e] = 0]
    /\ idle' = [idle EXCEPT ![e] = 0]

\* update_global_rate, from the callback of a reload.
SetGlobalRate ==
    /\ starts < MaxStarts
    /\ starts' = starts + 1
    /\ allRate' \in GlobalRates
    /\ Quiet
    /\ UNCHANGED <<rows, own, allBucket, allIdle, req, unsettled, skipped, calls>>

-----------------------------------------------------------------------------
(* The handlers of api/endpoints.py.                                       *)

Begins(t) == req[t] = Idle /\ calls < MaxCalls /\ calls' = calls + 1

Goes(t, next) == req' = [req EXCEPT ![t] = next] /\ Quiet

\* Committing e's row while another thread has yet to tell the limiter.
Meets(t, e) ==
    unsettled' = IF Telling(e) \ {t} = {} THEN unsettled \ {e} ELSE unsettled \cup {e}

Create(t) ==
    /\ Begins(t)
    /\ \E e \in Managed, r \in Rates :
        /\ life[e] = "unborn"
        /\ life' = [life EXCEPT ![e] = "present"]
        /\ limit' = [limit EXCEPT ![e] = r]
        /\ Goes(t, [op |-> "refresh", e |-> e])
    /\ UNCHANGED <<own, global, unsettled, skipped, starts>>

Load(t) ==
    /\ Begins(t)
    /\ \E e \in Present \cap Managed, op \in {"patch", "delete"} : Goes(t, [op |-> op, e |-> e])
    /\ UNCHANGED <<rows, own, global, unsettled, skipped, starts>>

\* Another rate, or the same.
Patch(t) ==
    /\ req[t].op = "patch"
    /\ \E e \in Present, r \in Rates :
        /\ e = req[t].e
        /\ limit' = [limit EXCEPT ![e] = r]
        /\ Goes(t, [op |-> "refresh", e |-> e])
        /\ Meets(t, e)
    /\ UNCHANGED <<life, own, global, skipped, calls, starts>>

\* The row is gone: the commit of a patch or the refresh raises.
RowGone(t) ==
    /\ req[t].op \in {"patch", "refresh"}
    /\ req[t].e \notin Present
    /\ Goes(t, Idle)
    /\ UNCHANGED <<rows, own, global, history>>

\* Mutant: the limiter is told the rate of the request, not of the row.
Refresh_Requested(t) ==
    /\ req[t].op = "refresh"
    /\ req[t].e \in Present
    /\ \E r \in Rates : Goes(t, [op |-> "configure", e |-> req[t].e, r |-> r])
    /\ UNCHANGED <<rows, own, global, history>>

Refresh(t) ==
    /\ req[t].op = "refresh"
    /\ req[t].e \in Present
    /\ Goes(t, [op |-> "configure", e |-> req[t].e, r |-> limit[req[t].e]])
    /\ UNCHANGED <<rows, own, global, history>>

Configure(t) ==
    /\ req[t].op = "configure"
    /\ SetRate(req[t].e, req[t].r)
    /\ skipped' = skipped \ {req[t].e}
    /\ Goes(t, Idle)
    /\ UNCHANGED <<rows, global, unsettled, calls, starts>>

\* Deleting a row that is gone only warns.
Delete(t) ==
    /\ req[t].op = "delete"
    /\ life' = [life EXCEPT ![req[t].e] = "deleted"]
    /\ Meets(t, req[t].e)
    /\ Goes(t, [op |-> "remove", e |-> req[t].e])
    /\ UNCHANGED <<limit, own, global, skipped, calls, starts>>

Remove(t) ==
    /\ req[t].op = "remove"
    /\ Forget(req[t].e)
    /\ Goes(t, Idle)
    /\ UNCHANGED <<rows, global, history>>

\* lifespan configures the endpoints that are active.
LoadRates(on) ==
    /\ rate' = [e \in Endpoints |-> IF e \in on THEN limit[e] ELSE 0]
    /\ bucket' = [e \in Endpoints |-> IF e \in on THEN Full(limit[e]) ELSE 0]
    /\ idle' = [e \in Endpoints |-> 0]
    /\ skipped' = Present \ on

\* The process starts with the table as it is.  A patch or the health checker
\* may have set is_active at any time, so it has either value.
Restart ==
    /\ starts < MaxStarts
    /\ starts' = starts + 1
    /\ \E on \in SUBSET Present : LoadRates(on)
    /\ allRate' \in GlobalRates
    /\ allBucket' = Full(allRate')
    /\ allIdle' = 0
    /\ req' = [t \in Threads |-> Idle]
    /\ unsettled' = {}
    /\ Quiet
    /\ UNCHANGED <<rows, calls>>

Init ==
    /\ life \in [Endpoints -> {"unborn", "present"}]
    /\ limit \in [Endpoints -> Rates]
    /\ rate = [e \in Endpoints |-> IF life[e] = "present" THEN limit[e] ELSE 0]
    /\ bucket = [e \in Endpoints |-> IF life[e] = "present" THEN Full(limit[e]) ELSE 0]
    /\ idle = [e \in Endpoints |-> 0]
    /\ allRate \in GlobalRates
    /\ allBucket = Full(allRate)
    /\ allIdle = 0
    /\ req = [t \in Threads |-> Idle]
    /\ granted = {}
    /\ unsettled = {}
    /\ skipped = {}
    /\ calls = 0
    /\ starts = 0

Acquire(e) == RefusedByAll(e) \/ RefusedByOwn(e) \/ Granted(e)

Handler(t) ==
    \/ Create(t) \/ Load(t) \/ Patch(t) \/ RowGone(t) \/ Refresh(t) \/ Configure(t)
    \/ Delete(t) \/ Remove(t)

Next ==
    \/ \E e \in Endpoints : Acquire(e)
    \/ \E t \in Threads : Handler(t)
    \/ Tick \/ SetGlobalRate \/ Restart

Spec == Init /\ [][Next]_vars

\* Time passes.  Nothing is assumed of requests.
FairSpec == Spec /\ WF_vars(Tick)

-----------------------------------------------------------------------------
Requests ==
    [op : {"none"}] \cup [op : {"patch", "delete", "refresh", "remove"}, e : Endpoints]
        \cup [op : {"configure"}, e : Endpoints, r : Rates]

\* Every variable has the shape the code gives it; no bucket is overdrawn.
TypeOK ==
    /\ life \in [Endpoints -> {"unborn", "present", "deleted"}]
    /\ limit \in [Endpoints -> Rates]
    /\ rate \in [Endpoints -> Nat]
    /\ bucket \in [Endpoints -> Nat]
    /\ idle \in [Endpoints -> 0 .. Second]
    /\ allRate \in GlobalRates
    /\ allBucket \in Nat
    /\ allIdle \in 0 .. Second
    /\ req \in [Threads -> Requests]
    /\ granted \subseteq Endpoints
    /\ unsettled \subseteq Endpoints
    /\ skipped \subseteq Endpoints
    /\ calls \in Nat
    /\ starts \in Nat

\* Once every handler has told the limiter, it has the rate of the row, save
\* for an endpoint that two calls changed at the same time, or that the last
\* start found inactive.
RateAgrees ==
    \A e \in Present :
        Telling(e) = {} /\ rate[e] # limit[e] => e \in unsettled \cup skipped

\* No endpoint is refused for ever: again and again there is a moment at which
\* acquire would let it through, whatever is asked for the others.
NotStarved ==
    \A e \in Endpoints : []<>(AllLevel >= Second /\ Level(e) >= Second)

\* The buckets of the promise: the lazy refill is the refill at every tick.
Buckets == INSTANCE TokenBuckets WITH
    rate <- [e \in Endpoints |-> RateOf(e)],
    level <- [e \in Endpoints |-> Level(e)],
    allRate <- allRate,
    allLevel <- AllLevel

\* Every step of the limiter is one of the buckets' or none: refusals and
\* calls for other endpoints take no token.
ImplementsBuckets == Buckets!Spec
=============================================================================
