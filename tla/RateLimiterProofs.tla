-------------------------- MODULE RateLimiterProofs --------------------------
(***************************************************************************)
(* RateLimiter keeps its types, the limiter agrees with the rows when the  *)
(* handlers are done, and the lazy buckets implement TokenBuckets.  What   *)
(* buckets are good for follows from that: an observer who counts over any *)
(* stretch of time finds a bound on how often an endpoint is let through.  *)
(***************************************************************************)
EXTENDS RateLimiter, TLAPS

-----------------------------------------------------------------------------
(* Arithmetic of a bucket.                                                 *)

LEMMA Product ==
    ASSUME NEW r \in Nat, NEW n \in Nat
    PROVE  r * n \in Nat /\ r * n = n * r /\ (n + 1) * r = n * r + r
BY SMT

LEMMA FullIsNat == ASSUME NEW r \in Nat PROVE Full(r) \in Nat
  BY Product, SecondAssumption DEF Full

LEMMA RefilledFits ==
    ASSUME NEW tokens \in Nat, NEW r \in Nat, NEW ticks \in Nat
    PROVE  Refilled(tokens, r, ticks) \in Nat /\ Refilled(tokens, r, ticks) <= Full(r)
  <1>1. Full(r) \in Nat /\ ticks * r \in Nat
    BY FullIsNat, Product
  <1> QED
    BY <1>1 DEF Refilled, Least

LEMMA RefilledAtOnce ==
    ASSUME NEW tokens \in Nat, NEW r \in Nat, tokens <= Full(r)
    PROVE  Refilled(tokens, r, 0) = tokens
  <1>1. Full(r) \in Nat /\ 0 * r = 0
    BY FullIsNat
  <1> QED
    BY <1>1 DEF Refilled, Least

\* Two refills of one tick are a refill of two, also at the brim.
LEMMA RefilledLater ==
    ASSUME NEW tokens \in Nat, NEW r \in Nat, NEW ticks \in 0 .. Second
    PROVE  Refilled(tokens, r, Least(Second, ticks + 1)) = Least(Full(r), Refilled(tokens, r, ticks) + r)
  <1>1. ticks \in Nat /\ Second \in Nat /\ ticks <= Second
    BY SecondAssumption
  <1>2. Full(r) \in Nat /\ ticks * r \in Nat /\ Full(r) = r * Second
    BY <1>1, FullIsNat, Product DEF Full
  <1>3. CASE ticks = Second
    <2>1. Least(Second, ticks + 1) = Second
      BY <1>1, <1>3 DEF Least
    <2>2. Second * r = Full(r)
      BY <1>1, <1>2, Product
    <2> QED
      BY <1>2, <1>3, <2>1, <2>2 DEF Refilled, Least
  <1>4. CASE ticks < Second
    <2>1. Least(Second, ticks + 1) = ticks + 1
      BY <1>1, <1>4 DEF Least
    <2>2. (ticks + 1) * r = ticks * r + r
      BY <1>1, Product
    <2> QED
      BY <1>2, <2>1, <2>2 DEF Refilled, Least
  <1> QED
    BY <1>1, <1>3, <1>4

-----------------------------------------------------------------------------
(* Types.                                                                  *)

LEMMA LevelFits ==
    ASSUME TypeOK, NEW e \in Endpoints
    PROVE  /\ RateOf(e) \in Nat
           /\ Level(e) \in Nat /\ Level(e) <= Full(RateOf(e))
           /\ AllLevel \in Nat /\ AllLevel <= Full(allRate)
  <1>1. /\ rate[e] \in Nat /\ bucket[e] \in Nat /\ idle[e] \in Nat /\ DefaultRate \in Nat
        /\ allRate \in Nat /\ allBucket \in Nat /\ allIdle \in Nat
    BY RatesAssumption, SecondAssumption DEF TypeOK
  <1>2. Full(DefaultRate) \in Nat
    BY <1>1, FullIsNat
  <1>3. RateOf(e) \in Nat
    BY <1>1 DEF RateOf
  <1>4. Level(e) \in Nat /\ Level(e) <= Full(RateOf(e))
    <2>1. CASE rate[e] = 0
      <3>1. Level(e) = Full(DefaultRate) /\ RateOf(e) = DefaultRate
        BY <2>1 DEF Level, RateOf
      <3> QED
        BY <1>2, <3>1
    <2>2. CASE rate[e] # 0
      <3>1. Level(e) = Refilled(bucket[e], rate[e], idle[e]) /\ RateOf(e) = rate[e]
        BY <2>2 DEF Level, RateOf
      <3>2. Refilled(bucket[e], rate[e], idle[e]) \in Nat /\ Refilled(bucket[e], rate[e], idle[e]) <= Full(rate[e])
        BY <1>1, RefilledFits
      <3> QED
        BY <3>1, <3>2
    <2> QED
      BY <2>1, <2>2
  <1>5. AllLevel \in Nat /\ AllLevel <= Full(allRate)
    BY <1>1, RefilledFits DEF AllLevel
  <1> QED
    BY <1>3, <1>4, <1>5

\* What the limiter keeps, and what does not concern it.
LimiterTypes ==
    /\ rate \in [Endpoints -> Nat]
    /\ bucket \in [Endpoints -> Nat]
    /\ idle \in [Endpoints -> 0 .. Second]
    /\ allRate \in GlobalRates
    /\ allBucket \in Nat
    /\ allIdle \in 0 .. Second
    /\ granted \subseteq Endpoints

TableTypes ==
    /\ life \in [Endpoints -> {"unborn", "present", "deleted"}]
    /\ limit \in [Endpoints -> Rates]
    /\ req \in [Threads -> Requests]
    /\ unsettled \subseteq Endpoints
    /\ skipped \subseteq Endpoints
    /\ calls \in Nat
    /\ starts \in Nat

LEMMA TypesApart == TypeOK <=> LimiterTypes /\ TableTypes
  BY DEF TypeOK, LimiterTypes, TableTypes

LEMMA TypesTogether == LimiterTypes' /\ TableTypes' => TypeOK'
  BY DEF TypeOK, LimiterTypes, TableTypes

LEMMA TypesStart == Init => TypeOK
  <1> SUFFICES ASSUME Init PROVE TypeOK
    OBVIOUS
  <1>1. ASSUME NEW e \in Endpoints PROVE limit[e] \in Nat /\ Full(limit[e]) \in Nat
    <2>1. limit[e] \in Nat
      BY RatesAssumption DEF Init
    <2> QED
      BY <2>1, FullIsNat
  <1>2. allRate \in Nat /\ Full(allRate) \in Nat
    <2>1. allRate \in Nat
      BY RatesAssumption DEF Init
    <2> QED
      BY <2>1, FullIsNat
  <1>3. LimiterTypes
    BY <1>1, <1>2, SecondAssumption DEF Init, LimiterTypes
  <1>4. TableTypes
    BY DEF Init, TableTypes, Requests, Idle
  <1> QED
    BY <1>3, <1>4, TypesApart

LEMMA AcquireTypes == ASSUME TypeOK, NEW e \in Endpoints, Acquire(e) PROVE TypeOK'
  <1>0. /\ Level(e) \in Nat /\ AllLevel \in Nat /\ RateOf(e) \in Nat
        /\ Second \in Nat /\ LimiterTypes /\ TableTypes
    BY LevelFits, SecondAssumption, TypesApart
  <1>1. TableTypes'
    BY <1>0 DEF Acquire, RefusedByAll, RefusedByOwn, Granted, Asked, rows, history, TableTypes
  <1>2. CASE RefusedByAll(e)
    BY <1>0, <1>1, <1>2, TypesTogether DEF RefusedByAll, RefillAll, Quiet, own, LimiterTypes
  <1>3. CASE RefusedByOwn(e)
    BY <1>0, <1>1, <1>3, TypesTogether DEF RefusedByOwn, RefillAll, RefillOwn, Quiet, LimiterTypes
  <1>4. CASE Granted(e)
    <2>1. Level(e) - Second \in Nat /\ AllLevel - Second \in Nat
      BY <1>0, <1>4 DEF Granted
    <2> QED
      BY <1>0, <1>1, <1>4, <2>1, TypesTogether DEF Granted, RefillAll, RefillOwn, LimiterTypes
  <1> QED
    BY <1>2, <1>3, <1>4 DEF Acquire

LEMMA HandlerTypes == ASSUME TypeOK, NEW t \in Threads, Handler(t) PROVE TypeOK'
  <1>0. LimiterTypes /\ TableTypes /\ req[t] \in Requests
    BY TypesApart DEF TypeOK
  <1>1. CASE Create(t) \/ Load(t)
    <2>1. calls' \in Nat
      BY <1>0, <1>1 DEF Create, Load, Begins, TableTypes
    <2>2. ASSUME Create(t) PROVE TableTypes'
      <3>1. PICK e \in Managed, r \in Rates :
                /\ life' = [life EXCEPT ![e] = "present"]
                /\ limit' = [limit EXCEPT ![e] = r]
                /\ req' = [req EXCEPT ![t] = [op |-> "refresh", e |-> e]]
        BY <2>2 DEF Create, Goes
      <3>2. e \in Endpoints /\ [op |-> "refresh", e |-> e] \in Requests
        BY ManagedAssumption DEF Requests
      <3> QED
        BY <1>0, <2>1, <2>2, <3>1, <3>2 DEF Create, TableTypes
    <2>3. ASSUME Load(t) PROVE TableTypes'
      <3>1. PICK e \in Present, op \in {"patch", "delete"} : req' = [req EXCEPT ![t] = [op |-> op, e |-> e]]
        BY <2>3 DEF Load, Goes
      <3>2. [op |-> op, e |-> e] \in Requests
        BY DEF Requests, Present
      <3> QED
        BY <1>0, <2>1, <2>3, <3>1, <3>2 DEF Load, rows, TableTypes
    <2>4. TableTypes'
      BY <1>1, <2>2, <2>3
    <2> QED
      BY <1>0, <1>1, <2>4, TypesTogether DEF Create, Load, Goes, Quiet, own, global, LimiterTypes
  <1>2. CASE Patch(t)
    <2>1. req' \in [Threads -> Requests] /\ unsettled' \subseteq Endpoints
      BY <1>0, <1>2 DEF Patch, Goes, Meets, TableTypes, Requests, Present
    <2>2. TableTypes'
      BY <1>0, <1>2, <2>1 DEF Patch, TableTypes
    <2> QED
      BY <1>0, <1>2, <2>2, TypesTogether DEF Patch, Goes, Quiet, own, global, LimiterTypes
  <1>3. CASE RowGone(t)
    BY <1>0, <1>3, TypesTogether
    DEF RowGone, Goes, Quiet, rows, own, global, history, LimiterTypes, TableTypes, Requests, Idle
  <1>4. CASE Refresh(t)
    <2>1. req' \in [Threads -> Requests]
      BY <1>0, <1>4 DEF Refresh, Goes, TableTypes, Requests, Present
    <2> QED
      BY <1>0, <1>4, <2>1, TypesTogether
      DEF Refresh, Goes, Quiet, rows, own, global, history, LimiterTypes, TableTypes
  <1>5. CASE Configure(t)
    <2>1. req[t].r \in Rates /\ req[t].r \in Nat /\ req[t].e \in Endpoints
      BY <1>0, <1>5, RatesAssumption DEF Configure, Requests
    <2>2. Full(req[t].r) \in Nat
      BY <2>1, FullIsNat
    <2>3. LimiterTypes'
      BY <1>0, <1>5, <2>1, <2>2, SecondAssumption DEF Configure, SetRate, Goes, Quiet, global, LimiterTypes
    <2>4. TableTypes'
      BY <1>0, <1>5 DEF Configure, Goes, rows, TableTypes, Requests, Idle
    <2> QED
      BY <2>3, <2>4, TypesTogether
  <1>6. CASE Delete(t)
    <2>1. req[t].e \in Endpoints
      BY <1>0, <1>6 DEF Delete, Requests
    <2>2. req' \in [Threads -> Requests] /\ unsettled' \subseteq Endpoints
      BY <1>0, <1>6, <2>1 DEF Delete, Goes, Meets, TableTypes, Requests
    <2>3. TableTypes'
      BY <1>0, <1>6, <2>1, <2>2 DEF Delete, TableTypes
    <2> QED
      BY <1>0, <1>6, <2>3, TypesTogether DEF Delete, Goes, Quiet, own, global, LimiterTypes
  <1>7. CASE Remove(t)
    <2>0. rate' \in [Endpoints -> Nat] /\ bucket' \in [Endpoints -> Nat] /\ idle' \in [Endpoints -> 0 .. Second]
      <3>1. /\ rate' = [rate EXCEPT ![req[t].e] = 0] /\ bucket' = [bucket EXCEPT ![req[t].e] = 0]
            /\ idle' = [idle EXCEPT ![req[t].e] = 0]
        BY <1>7 DEF Remove, Forget
      <3>2. rate \in [Endpoints -> Nat] /\ bucket \in [Endpoints -> Nat] /\ idle \in [Endpoints -> 0 .. Second]
        BY <1>0 DEF LimiterTypes
      <3>3. 0 \in Nat /\ 0 \in 0 .. Second
        BY SecondAssumption
      <3> QED
        BY <3>1, <3>2, <3>3
    <2>1. LimiterTypes'
      BY <1>0, <1>7, <2>0 DEF Remove, Goes, Quiet, global, LimiterTypes
    <2>2. TableTypes'
      BY <1>0, <1>7 DEF Remove, Goes, rows, history, TableTypes, Requests, Idle
    <2> QED
      BY <2>1, <2>2, TypesTogether
  <1> QED
    BY <1>1, <1>2, <1>3, <1>4, <1>5, <1>6, <1>7 DEF Handler

LEMMA RestartTypes == ASSUME TypeOK, Restart PROVE TypeOK'
  <1>0. LimiterTypes /\ TableTypes
    BY TypesApart
  <1>1. PICK on \in SUBSET Present : LoadRates(on)
    BY DEF Restart
  <1>2. ASSUME NEW e \in Endpoints PROVE limit[e] \in Nat /\ Full(limit[e]) \in Nat
    <2>1. limit[e] \in Nat
      BY <1>0, RatesAssumption DEF TableTypes
    <2> QED
      BY <2>1, FullIsNat
  <1>3. allRate' \in Nat /\ Full(allRate') \in Nat
    <2>1. allRate' \in Nat
      BY RatesAssumption DEF Restart
    <2> QED
      BY <2>1, FullIsNat
  <1>4. LimiterTypes'
    BY <1>0, <1>1, <1>2, <1>3, SecondAssumption DEF Restart, LoadRates, Quiet, LimiterTypes
  <1>5. TableTypes'
    BY <1>0, <1>1 DEF Restart, LoadRates, Present, rows, TableTypes, Requests, Idle
  <1> QED
    BY <1>4, <1>5, TypesTogether

LEMMA TypesKept == TypeOK /\ [Next]_vars => TypeOK'
  <1> SUFFICES ASSUME TypeOK, [Next]_vars PROVE TypeOK'
    OBVIOUS
  <1>0. LimiterTypes /\ TableTypes /\ Second \in Nat
    BY TypesApart, SecondAssumption
  <1>1. ASSUME NEW e \in Endpoints, Acquire(e) PROVE TypeOK'
    BY <1>1, AcquireTypes
  <1>2. ASSUME NEW t \in Threads, Handler(t) PROVE TypeOK'
    BY <1>2, HandlerTypes
  <1>3. CASE Tick
    <2>1. ASSUME NEW n \in 0 .. Second PROVE Least(Second, n + 1) \in 0 .. Second
      BY <1>0 DEF Least
    <2> QED
      BY <1>0, <1>3, <2>1, TypesTogether DEF Tick, Quiet, rows, history, LimiterTypes, TableTypes
  <1>4. CASE SetGlobalRate
    BY <1>0, <1>4, TypesTogether DEF SetGlobalRate, Quiet, rows, own, LimiterTypes, TableTypes
  <1>5. CASE Restart
    BY <1>5, RestartTypes
  <1>6. CASE UNCHANGED vars
    BY <1>0, <1>6, TypesTogether DEF vars, rows, own, global, history, LimiterTypes, TableTypes
  <1> QED
    BY <1>1, <1>2, <1>3, <1>4, <1>5, <1>6 DEF Next

\* Every variable of RateLimiter keeps its type, whatever handlers, attempts
\* and restarts do; in particular no bucket is overdrawn.
THEOREM TypeCorrect == Spec => []TypeOK
  BY TypesStart, TypesKept, PTL DEF Spec

-----------------------------------------------------------------------------
(* The limiter and the rows.                                               *)

\* Nobody works on an endpoint before it is created.
Untouched(e) == life[e] = "unborn" => \A t \in Threads : req[t].op = "none" \/ req[t].e # e

\* The one thread that has yet to tell the limiter, if there is one, tells it
\* the rate of the row, and without one the limiter has it.
Alone(e) ==
    life[e] = "present" /\ e \notin unsettled =>
        /\ \A t, u \in Telling(e) : t = u
        /\ \A t \in Telling(e) :
            req[t].op # "remove" /\ (req[t].op = "configure" => req[t].r = limit[e])
        /\ Telling(e) = {} /\ rate[e] # limit[e] => e \in skipped

AgreeInv == \A e \in Endpoints : Untouched(e) /\ Alone(e)

TellingOps == {"refresh", "configure", "remove"}

LEMMA TellingMoves ==
    ASSUME TypeOK, NEW t \in Threads, NEW x, req' = [req EXCEPT ![t] = x], NEW e \in Endpoints
    PROVE  /\ x.op \in TellingOps /\ x.e = e => Telling(e)' = Telling(e) \cup {t}
           /\ ~(x.op \in TellingOps /\ x.e = e) => Telling(e)' = Telling(e) \ {t}
           /\ req'[t] = x
           /\ \A u \in Threads : u # t => req'[u] = req[u]
  BY DEF TypeOK, Telling, TellingOps

LEMMA AgreeStarts == Init => AgreeInv
  <1> SUFFICES ASSUME Init, NEW e \in Endpoints PROVE Untouched(e) /\ Alone(e)
    BY DEF AgreeInv
  <1>1. \A t \in Threads : req[t].op = "none"
    BY DEF Init, Idle
  <1>2. Telling(e) = {}
    BY <1>1 DEF Telling
  <1>3. life[e] = "present" => rate[e] = limit[e]
    BY DEF Init
  <1> QED
    BY <1>1, <1>2, <1>3 DEF Untouched, Alone

\* A thread that stops telling, or tells of other endpoints only.
LEMMA AgreeElsewhere ==
    ASSUME TypeOK, AgreeInv, NEW e \in Endpoints,
           NEW t \in Threads, NEW x, req' = [req EXCEPT ![t] = x],
           x.op = "none" \/ x.e # e, t \notin Telling(e),
           life'[e] = life[e], limit'[e] = limit[e], rate'[e] = rate[e],
           e \in unsettled <=> e \in unsettled', e \in skipped => e \in skipped'
    PROVE  Untouched(e)' /\ Alone(e)'
  <1>0. req'[t] = x /\ \A u \in Threads : u # t => req'[u] = req[u]
    BY TellingMoves
  <1>1. Telling(e)' = Telling(e)
    BY TellingMoves DEF TellingOps, Telling
  <1>2. Untouched(e)'
    <2> SUFFICES ASSUME life'[e] = "unborn", NEW u \in Threads PROVE req'[u].op = "none" \/ req'[u].e # e
      BY DEF Untouched
    <2>1. req[u].op = "none" \/ req[u].e # e
      BY DEF AgreeInv, Untouched
    <2> QED
      BY <1>0, <2>1
  <1>3. Alone(e)'
    <2> SUFFICES ASSUME life'[e] = "present", e \notin unsettled'
                 PROVE  /\ \A v, u \in Telling(e) : v = u
                        /\ \A u \in Telling(e) :
                            req'[u].op # "remove" /\ (req'[u].op = "configure" => req'[u].r = limit'[e])
                        /\ Telling(e) = {} /\ rate'[e] # limit'[e] => e \in skipped'
      BY <1>1 DEF Alone
    <2>1. /\ \A v, u \in Telling(e) : v = u
          /\ \A u \in Telling(e) : req[u].op # "remove" /\ (req[u].op = "configure" => req[u].r = limit[e])
          /\ Telling(e) = {} /\ rate[e] # limit[e] => e \in skipped
      BY DEF AgreeInv, Alone
    <2>2. \A u \in Telling(e) : req'[u] = req[u]
      BY <1>0 DEF Telling
    <2> QED
      BY <2>1, <2>2
  <1> QED
    BY <1>2, <1>3

\* Only attempts change the limiter's rate of an endpoint without an entry.
LEMMA AgreeAcquire == ASSUME TypeOK, AgreeInv, NEW a \in Endpoints, Acquire(a) PROVE AgreeInv'
  <1> SUFFICES ASSUME NEW e \in Endpoints PROVE Untouched(e)' /\ Alone(e)'
    BY DEF AgreeInv
  <1>1. /\ life' = life /\ limit' = limit /\ req' = req
        /\ unsettled' = unsettled /\ skipped' = skipped
    BY DEF Acquire, RefusedByAll, RefusedByOwn, Granted, Asked, rows, history
  <1>2. rate' = rate \/ rate' = [rate EXCEPT ![a] = RateOf(a)]
    BY DEF Acquire, RefusedByAll, RefusedByOwn, Granted, RefillOwn, own
  <1>3. rate'[e] # rate[e] => rate[e] = 0
    BY <1>2 DEF RateOf, TypeOK
  <1>4. limit[e] # 0
    BY RatesAssumption DEF TypeOK
  <1>5. Telling(e)' = Telling(e)
    BY <1>1 DEF Telling
  <1> QED
    BY <1>1, <1>3, <1>4, <1>5 DEF AgreeInv, Untouched, Alone

\* The handler of thread t goes on with x, which is about endpoint a if any.
LEMMA AgreeHandler ==
    ASSUME TypeOK, AgreeInv, NEW t \in Threads, Handler(t)
    PROVE  AgreeInv'
  <1> SUFFICES ASSUME NEW e \in Endpoints PROVE Untouched(e)' /\ Alone(e)'
    BY DEF AgreeInv
  <1>0. /\ Untouched(e) /\ Alone(e) /\ req[t] \in Requests
        /\ life \in [Endpoints -> {"unborn", "present", "deleted"}] /\ limit \in [Endpoints -> Rates]
        /\ rate \in [Endpoints -> Nat]
    BY DEF AgreeInv, TypeOK
  <1>1. CASE Create(t)
    <2>1. PICK a \in Endpoints, r \in Rates :
              /\ life[a] = "unborn"
              /\ life' = [life EXCEPT ![a] = "present"]
              /\ limit' = [limit EXCEPT ![a] = r]
              /\ req' = [req EXCEPT ![t] = [op |-> "refresh", e |-> a]]
      BY <1>1, ManagedAssumption DEF Create, Goes
    <2>2. req[t].op = "none" /\ rate' = rate /\ unsettled' = unsettled /\ skipped' = skipped
      BY <1>1 DEF Create, Begins, Idle, own
    <2>3. CASE e = a
      <3>1. Telling(e) = {}
        BY <1>0, <2>1, <2>3 DEF Untouched, Telling
      <3>2. Telling(e)' = {t} /\ req'[t].op = "refresh"
        <4> DEFINE x == [op |-> "refresh", e |-> a]
        <4>1. x.op = "refresh" /\ x.e = e /\ req' = [req EXCEPT ![t] = x]
          BY <2>1, <2>3
        <4> HIDE DEF x
        <4>2. Telling(e)' = Telling(e) \cup {t} /\ req'[t] = x
          BY <4>1, TellingMoves DEF TellingOps
        <4> QED
          BY <3>1, <4>1, <4>2
      <3>3. life'[e] = "present"
        BY <1>0, <2>1, <2>3
      <3> QED
        BY <3>2, <3>3 DEF Untouched, Alone
    <2>4. CASE e # a
      <3> DEFINE x == [op |-> "refresh", e |-> a]
      <3>1. x.e # e /\ t \notin Telling(e)
        BY <2>2, <2>4 DEF Telling
      <3>2. life'[e] = life[e] /\ limit'[e] = limit[e] /\ rate'[e] = rate[e]
        BY <1>0, <2>1, <2>2, <2>4
      <3>3. req' = [req EXCEPT ![t] = x]
        BY <2>1
      <3> HIDE DEF x
      <3> QED
        BY <2>2, <3>1, <3>2, <3>3, AgreeElsewhere
    <2> QED
      BY <2>3, <2>4
  <1>2. CASE Load(t)
    <2>1. PICK a \in Present, op \in {"patch", "delete"} : req' = [req EXCEPT ![t] = [op |-> op, e |-> a]]
      BY <1>2 DEF Load, Goes
    <2> DEFINE x == [op |-> op, e |-> a]
    <2>2. req[t].op = "none" /\ rate' = rate /\ unsettled' = unsettled /\ skipped' = skipped
          /\ life' = life /\ limit' = limit
      BY <1>2 DEF Load, Begins, Idle, own, rows
    <2>3. a \in Endpoints /\ life[a] = "present" /\ x.op = op /\ x.e = a /\ op \notin TellingOps
      BY DEF Present, TellingOps
    <2>4. req' = [req EXCEPT ![t] = x]
      BY <2>1
    <2> HIDE DEF x
    <2>5. req'[t] = x /\ (\A u \in Threads : u # t => req'[u] = req[u]) /\ Telling(e)' = Telling(e) \ {t}
      BY <2>3, <2>4, TellingMoves
    <2>6. t \notin Telling(e)
      BY <2>2 DEF Telling
    <2>7. Telling(e)' = Telling(e) /\ \A u \in Telling(e) : req'[u] = req[u]
      BY <2>5, <2>6 DEF Telling
    <2>8. Untouched(e)'
      BY <1>0, <2>2, <2>3, <2>5 DEF Untouched
    <2>9. Alone(e)'
      BY <1>0, <2>2, <2>7 DEF Alone
    <2> QED
      BY <2>8, <2>9
  <1>3. CASE Patch(t)
    <2> DEFINE a == req[t].e
               x == [op |-> "refresh", e |-> a]
    <2>1. PICK r \in Rates :
              /\ a \in Present
              /\ limit' = [limit EXCEPT ![a] = r]
              /\ req' = [req EXCEPT ![t] = x]
              /\ Meets(t, a)
      BY <1>3 DEF Patch, Goes
    <2>2. req[t].op = "patch" /\ rate' = rate /\ skipped' = skipped /\ life' = life
      BY <1>3 DEF Patch, own
    <2>3. a \in Endpoints /\ life[a] = "present" /\ x.op = "refresh" /\ x.e = a
      BY <2>1 DEF Present
    <2>4. t \notin Telling(e)
      BY <2>2 DEF Telling
    <2> HIDE DEF a, x
    <2>5. CASE e = a
      <3>1. Telling(e)' = Telling(e) \cup {t} /\ req'[t] = x
        BY <2>1, <2>3, <2>5, TellingMoves DEF TellingOps
      <3>2. e \notin unsettled' => Telling(e)' = {t}
        BY <2>1, <2>5, <3>1 DEF Meets
      <3>3. Untouched(e)'
        BY <2>2, <2>3, <2>5 DEF Untouched
      <3>4. Alone(e)'
        BY <2>3, <3>1, <3>2 DEF Alone
      <3> QED
        BY <3>3, <3>4
    <2>6. CASE e # a
      <3>1. e \in unsettled <=> e \in unsettled'
        BY <2>1, <2>6 DEF Meets
      <3>2. limit'[e] = limit[e] /\ x.e # e
        BY <1>0, <2>1, <2>3, <2>6
      <3> QED
        BY <2>1, <2>2, <2>4, <3>1, <3>2, AgreeElsewhere
    <2> QED
      BY <2>5, <2>6
  <1>4. CASE RowGone(t)
    <2>1. /\ req' = [req EXCEPT ![t] = Idle] /\ Idle.op = "none"
          /\ rate' = rate /\ unsettled' = unsettled /\ skipped' = skipped /\ life' = life /\ limit' = limit
      BY <1>4 DEF RowGone, Goes, Idle, own, rows, history
    <2>2. req[t].e \notin Present
      BY <1>4 DEF RowGone
    <2>3. CASE t \notin Telling(e)
      BY <2>1, <2>3, AgreeElsewhere
    <2>4. CASE t \in Telling(e)
      <3>1. life[e] # "present" /\ life[e] # "unborn"
        BY <1>0, <2>2, <2>4 DEF Telling, Present, Untouched
      <3> QED
        BY <2>1, <3>1 DEF Untouched, Alone
    <2> QED
      BY <2>3, <2>4
  <1>5. CASE Refresh(t)
    <2> DEFINE a == req[t].e
               x == [op |-> "configure", e |-> a, r |-> limit[a]]
    <2>1. /\ req[t].op = "refresh" /\ a \in Endpoints /\ life[a] = "present"
          /\ req' = [req EXCEPT ![t] = x]
          /\ rate' = rate /\ unsettled' = unsettled /\ skipped' = skipped /\ life' = life /\ limit' = limit
      BY <1>5 DEF Refresh, Goes, own, rows, history, Present
    <2>2. x.op = "configure" /\ x.e = a /\ x.r = limit[a]
      OBVIOUS
    <2>3. t \in Telling(a) /\ (e # a => t \notin Telling(e))
      BY <2>1 DEF Telling
    <2> HIDE DEF a, x
    <2>4. CASE e = a
      <3>1. Telling(e)' = Telling(e) /\ req'[t] = x /\ \A u \in Threads : u # t => req'[u] = req[u]
        <4>1. x.op \in TellingOps /\ x.e = e
          BY <2>2, <2>4 DEF TellingOps
        <4>2. Telling(e)' = Telling(e) \cup {t} /\ req'[t] = x /\ \A u \in Threads : u # t => req'[u] = req[u]
          BY <2>1, <4>1, TellingMoves
        <4> QED
          BY <2>3, <2>4, <4>2
      <3>2. Untouched(e)'
        BY <2>1, <2>4 DEF Untouched
      <3>3. \A u \in Telling(e) : u \in Threads /\ (u = t \/ req'[u] = req[u])
        BY <3>1 DEF Telling
      <3>4. Telling(e) # {}
        BY <2>3, <2>4
      <3>5. Alone(e)'
        BY <1>0, <2>1, <2>2, <2>4, <3>1, <3>3, <3>4 DEF Alone
      <3> QED
        BY <3>2, <3>5
    <2>5. CASE e # a
      BY <2>1, <2>2, <2>3, <2>5, AgreeElsewhere
    <2> QED
      BY <2>4, <2>5
  <1>6. CASE Configure(t)
    <2> DEFINE a == req[t].e
    <2>1. /\ req[t].op = "configure" /\ a \in Endpoints
          /\ req' = [req EXCEPT ![t] = Idle] /\ Idle.op = "none"
          /\ rate' = [rate EXCEPT ![a] = req[t].r]
          /\ unsettled' = unsettled /\ skipped' = skipped \ {a} /\ life' = life /\ limit' = limit
      BY <1>0, <1>6 DEF Configure, SetRate, Goes, Idle, rows, Requests
    <2>2. t \in Telling(a) /\ (e # a => t \notin Telling(e))
      BY <2>1 DEF Telling
    <2> HIDE DEF a
    <2>3. CASE e = a
      <3>1. Telling(e)' = Telling(e) \ {t} /\ rate'[e] = req[t].r
        BY <1>0, <2>1, <2>3, TellingMoves DEF TellingOps
      <3>2. life[e] # "unborn"
        BY <1>0, <2>1, <2>2, <2>3 DEF Untouched, Telling
      <3>3. Alone(e)'
        BY <1>0, <2>1, <2>2, <2>3, <3>1 DEF Alone
      <3> QED
        BY <2>1, <3>2, <3>3 DEF Untouched
    <2>4. CASE e # a
      <3>1. rate'[e] = rate[e]
        BY <1>0, <2>1, <2>4
      <3> QED
        BY <2>1, <2>2, <2>4, <3>1, AgreeElsewhere
    <2> QED
      BY <2>3, <2>4
  <1>7. CASE Delete(t)
    <2> DEFINE a == req[t].e
               x == [op |-> "remove", e |-> a]
    <2>1. /\ req[t].op = "delete" /\ a \in Endpoints
          /\ life' = [life EXCEPT ![a] = "deleted"] /\ Meets(t, a)
          /\ req' = [req EXCEPT ![t] = x] /\ x.op = "remove" /\ x.e = a
          /\ rate' = rate /\ skipped' = skipped /\ limit' = limit
      BY <1>0, <1>7 DEF Delete, Goes, own, Requests
    <2>2. t \notin Telling(e)
      BY <2>1 DEF Telling
    <2> HIDE DEF a, x
    <2>3. CASE e = a
      <3>1. life'[e] = "deleted"
        BY <1>0, <2>1, <2>3
      <3> QED
        BY <3>1 DEF Untouched, Alone
    <2>4. CASE e # a
      <3>1. (e \in unsettled <=> e \in unsettled') /\ life'[e] = life[e]
        BY <1>0, <2>1, <2>4 DEF Meets
      <3> QED
        BY <2>1, <2>2, <2>4, <3>1, AgreeElsewhere
    <2> QED
      BY <2>3, <2>4
  <1>8. CASE Remove(t)
    <2> DEFINE a == req[t].e
    <2>1. /\ req[t].op = "remove" /\ a \in Endpoints
          /\ req' = [req EXCEPT ![t] = Idle] /\ Idle.op = "none"
          /\ rate' = [rate EXCEPT ![a] = 0]
          /\ unsettled' = unsettled /\ skipped' = skipped /\ life' = life /\ limit' = limit
      BY <1>0, <1>8 DEF Remove, Forget, Goes, Idle, rows, history, Requests
    <2>2. t \in Telling(a) /\ (e # a => t \notin Telling(e))
      BY <2>1 DEF Telling
    <2> HIDE DEF a
    <2>3. CASE e = a
      <3>1. Telling(e)' = Telling(e) \ {t} /\ \A u \in Threads : u # t => req'[u] = req[u]
        BY <2>1, <2>3, TellingMoves DEF TellingOps
      <3>2. life[e] # "unborn"
        BY <1>0, <2>1, <2>2, <2>3 DEF Untouched, Telling
      <3>3. Alone(e)'
        BY <1>0, <2>1, <2>2, <2>3, <3>1 DEF Alone, Telling
      <3> QED
        BY <2>1, <3>2, <3>3 DEF Untouched
    <2>4. CASE e # a
      <3>1. rate'[e] = rate[e]
        BY <1>0, <2>1, <2>4
      <3> QED
        BY <2>1, <2>2, <2>4, <3>1, AgreeElsewhere
    <2> QED
      BY <2>3, <2>4
  <1> QED
    BY <1>1, <1>2, <1>3, <1>4, <1>5, <1>6, <1>7, <1>8 DEF Handler

\* A start forgets every handler and configures what it finds active.
LEMMA AgreeRestart == ASSUME TypeOK, Restart PROVE AgreeInv'
  <1>1. PICK on \in SUBSET Present : LoadRates(on)
    BY DEF Restart
  <1>2. /\ \A t \in Threads : req'[t].op = "none"
        /\ life' = life /\ limit' = limit
    BY DEF Restart, Idle, rows
  <1> SUFFICES ASSUME NEW e \in Endpoints PROVE Untouched(e)' /\ Alone(e)'
    BY DEF AgreeInv
  <1>3. life[e] = "present" /\ rate'[e] # limit[e] => e \in skipped'
    BY <1>1 DEF LoadRates, Present
  <1>4. Telling(e)' = {}
    BY <1>2 DEF Telling
  <1> QED
    BY <1>2, <1>3, <1>4 DEF Untouched, Alone

LEMMA AgreeKept == TypeOK /\ AgreeInv /\ [Next]_vars => AgreeInv'
  <1> SUFFICES ASSUME TypeOK, AgreeInv, [Next]_vars PROVE AgreeInv'
    OBVIOUS
  <1>1. CASE Tick \/ SetGlobalRate \/ UNCHANGED vars
    <2>1. life' = life /\ limit' = limit /\ rate' = rate /\ req' = req /\ unsettled' = unsettled /\ skipped' = skipped
      BY <1>1 DEF Tick, SetGlobalRate, vars, rows, own, history
    <2>2. ASSUME NEW e \in Endpoints PROVE Telling(e)' = Telling(e)
      BY <2>1 DEF Telling
    <2> QED
      BY <2>1, <2>2 DEF AgreeInv, Untouched, Alone
  <1>2. ASSUME NEW e \in Endpoints, Acquire(e) PROVE AgreeInv'
    BY <1>2, AgreeAcquire
  <1>3. ASSUME NEW t \in Threads, Handler(t) PROVE AgreeInv'
    BY <1>3, AgreeHandler
  <1>4. CASE Restart
    BY <1>4, AgreeRestart
  <1> QED
    BY <1>1, <1>2, <1>3, <1>4 DEF Next

\* When every handler has told the limiter, it has the rate of the row, unless
\* two calls met or the last start found the endpoint inactive.
THEOREM RatesAgree == Spec => []RateAgrees
  <1>1. AgreeInv => RateAgrees
    BY DEF AgreeInv, Alone, RateAgrees, Present
  <1> QED
    BY <1>1, TypesStart, TypesKept, AgreeStarts, AgreeKept, PTL DEF Spec

-----------------------------------------------------------------------------
(* The lazy buckets implement the ones that are refilled at every tick.    *)

LEMMA BucketsStart == Init => Buckets!Init
  <1> SUFFICES ASSUME Init PROVE Buckets!Init
    OBVIOUS
  <1>1. TypeOK
    BY TypesStart
  <1>2. ASSUME NEW e \in Endpoints PROVE RateOf(e) \in Nat /\ Level(e) = RateOf(e) * Second
    <2>1. RateOf(e) \in Nat /\ DefaultRate \in Nat
      BY <1>1, LevelFits, RatesAssumption
    <2>2. CASE rate[e] = 0
      BY <2>2, <2>1 DEF Level, RateOf, Full
    <2>3. CASE rate[e] # 0
      <3>1. limit[e] \in Nat /\ rate[e] = limit[e] /\ bucket[e] = Full(limit[e]) /\ idle[e] = 0
        BY <1>1, <2>3, RatesAssumption DEF Init, TypeOK
      <3>2. Full(limit[e]) \in Nat
        BY <3>1, FullIsNat
      <3>3. Refilled(bucket[e], rate[e], idle[e]) = Full(limit[e])
        BY <3>1, <3>2, RefilledAtOnce
      <3> QED
        BY <2>1, <2>3, <3>1, <3>3 DEF Level, RateOf, Full
    <2> QED
      BY <2>2, <2>3
  <1>3. allRate \in Nat /\ AllLevel = allRate * Second
    <2>1. allRate \in Nat /\ allBucket = Full(allRate) /\ allIdle = 0
      BY RatesAssumption DEF Init
    <2>2. Full(allRate) \in Nat
      BY <2>1, FullIsNat
    <2> QED
      BY <2>1, <2>2, RefilledAtOnce DEF AllLevel, Full
  <1>4. granted = {}
    BY DEF Init
  <1> QED
    BY <1>2, <1>3, <1>4 DEF Buckets!Init

LEMMA BucketsTick == ASSUME TypeOK, Tick PROVE Buckets!Tick
  <1>1. ASSUME NEW e \in Endpoints
        PROVE  RateOf(e)' = RateOf(e) /\ Level(e)' = Least(RateOf(e) * Second, Level(e) + RateOf(e))
    <2>1. /\ rate'[e] = rate[e] /\ bucket'[e] = bucket[e] /\ idle'[e] = Least(Second, idle[e] + 1)
          /\ rate[e] \in Nat /\ bucket[e] \in Nat /\ idle[e] \in 0 .. Second /\ DefaultRate \in Nat
      BY RatesAssumption DEF Tick, TypeOK
    <2>2. RateOf(e)' = RateOf(e)
      BY <2>1 DEF RateOf
    <2>3. CASE rate[e] = 0
      <3>1. Level(e) = Full(DefaultRate) /\ Level(e)' = Full(DefaultRate) /\ RateOf(e) = DefaultRate
        BY <2>1, <2>3 DEF Level, RateOf
      <3>2. Full(DefaultRate) \in Nat
        BY <2>1, FullIsNat
      <3> QED
        BY <2>1, <2>2, <3>1, <3>2 DEF Least, Full
    <2>4. CASE rate[e] # 0
      <3>1. /\ Level(e) = Refilled(bucket[e], rate[e], idle[e]) /\ RateOf(e) = rate[e]
            /\ Level(e)' = Refilled(bucket[e], rate[e], Least(Second, idle[e] + 1))
        <4>1. rate'[e] # 0
          BY <2>1, <2>4
        <4>2. Level(e)' = Refilled(bucket'[e], rate'[e], idle'[e])
          BY <4>1 DEF Level, Refilled, Full, Least
        <4> QED
          BY <2>1, <2>4, <4>2 DEF Level, RateOf
      <3>2. Level(e)' = Least(Full(rate[e]), Level(e) + rate[e])
        BY <2>1, <3>1, RefilledLater
      <3> QED
        BY <2>2, <3>1, <3>2 DEF Full
    <2> QED
      BY <2>3, <2>4
  <1>2. AllLevel' = Least(allRate * Second, AllLevel + allRate) /\ allRate' = allRate
    <2>1. /\ allRate' = allRate /\ allBucket' = allBucket /\ allIdle' = Least(Second, allIdle + 1)
          /\ allRate \in Nat /\ allBucket \in Nat /\ allIdle \in 0 .. Second
      BY RatesAssumption DEF Tick, TypeOK
    <2>2. AllLevel' = Refilled(allBucket, allRate, Least(Second, allIdle + 1))
      BY <2>1 DEF AllLevel, Refilled, Full, Least
    <2>3. AllLevel' = Least(Full(allRate), AllLevel + allRate)
      BY <2>1, <2>2, RefilledLater DEF AllLevel
    <2> QED
      BY <2>1, <2>3 DEF Full
  <1>3. granted' = {}
    BY DEF Tick, Quiet
  <1> QED
    BY <1>1, <1>2, <1>3 DEF Buckets!Tick, Buckets!Least, Least

LEMMA AllLeft ==
    ASSUME TypeOK, NEW left \in Nat, left <= Full(allRate), RefillAll(left)
    PROVE  allRate' = allRate /\ AllLevel' = left
  <1>1. allRate \in Nat /\ allRate' = allRate /\ allBucket' = left /\ allIdle' = 0
    BY RatesAssumption DEF RefillAll, TypeOK
  <1>2. AllLevel' = Refilled(left, allRate, 0)
    BY <1>1 DEF AllLevel, Refilled, Full, Least
  <1> QED
    BY <1>1, <1>2, RefilledAtOnce

LEMMA OwnLeft ==
    ASSUME TypeOK, NEW e \in Endpoints, NEW left \in Nat, left <= Full(RateOf(e)), RefillOwn(e, left)
    PROVE  /\ \A a \in Endpoints : RateOf(a)' = RateOf(a)
           /\ Level(e)' = left
           /\ \A a \in Endpoints : a # e => Level(a)' = Level(a)
  <1>1. /\ rate' = [rate EXCEPT ![e] = RateOf(e)] /\ bucket' = [bucket EXCEPT ![e] = left]
        /\ idle' = [idle EXCEPT ![e] = 0]
        /\ rate \in [Endpoints -> Nat] /\ bucket \in [Endpoints -> Nat] /\ idle \in [Endpoints -> 0 .. Second]
    BY DEF RefillOwn, TypeOK
  <1>2. RateOf(e) \in Nat /\ RateOf(e) # 0
    BY LevelFits, RatesAssumption DEF RateOf
  <1>3. rate'[e] = RateOf(e) /\ bucket'[e] = left /\ idle'[e] = 0
    BY <1>1
  <1>4. ASSUME NEW a \in Endpoints, a # e PROVE rate'[a] = rate[a] /\ bucket'[a] = bucket[a] /\ idle'[a] = idle[a]
    BY <1>1, <1>4
  <1>5. RateOf(e)' = RateOf(e)
    BY <1>2, <1>3 DEF RateOf
  <1>6. Level(e)' = Refilled(left, RateOf(e), 0)
    <2>1. rate'[e] # 0
      BY <1>2, <1>3
    <2>2. Level(e)' = Refilled(bucket'[e], rate'[e], idle'[e])
      BY <2>1 DEF Level, Refilled, Full, Least
    <2> QED
      BY <1>3, <2>2
  <1>7. Level(e)' = left
    BY <1>2, <1>6, RefilledAtOnce
  <1>8. ASSUME NEW a \in Endpoints, a # e PROVE RateOf(a)' = RateOf(a) /\ Level(a)' = Level(a)
    BY <1>4, <1>8 DEF RateOf, Level
  <1> QED
    BY <1>5, <1>7, <1>8

LEMMA BucketsAcquire ==
    ASSUME TypeOK, NEW e \in Endpoints, Acquire(e)
    PROVE  Buckets!Refuse \/ Buckets!Grant(e)
  <1>0. /\ RateOf(e) \in Nat /\ Level(e) \in Nat /\ Level(e) <= Full(RateOf(e))
        /\ AllLevel \in Nat /\ AllLevel <= Full(allRate)
        /\ Full(RateOf(e)) \in Nat /\ Full(allRate) \in Nat /\ allRate \in Nat /\ Second \in Nat
    <2>1. allRate \in Nat /\ Second \in Nat /\ RateOf(e) \in Nat
      BY LevelFits, RatesAssumption, SecondAssumption DEF TypeOK
    <2> QED
      BY <2>1, LevelFits, FullIsNat
  <1>1. CASE RefusedByAll(e)
    <2>1. allRate' = allRate /\ AllLevel' = AllLevel
      BY <1>0, <1>1, AllLeft DEF RefusedByAll
    <2>2. rate' = rate /\ bucket' = bucket /\ idle' = idle /\ granted' = {}
      BY <1>1 DEF RefusedByAll, own, Quiet
    <2>3. ASSUME NEW a \in Endpoints PROVE RateOf(a)' = RateOf(a) /\ Level(a)' = Level(a)
      BY <2>2 DEF RateOf, Level
    <2> QED
      BY <2>1, <2>2, <2>3 DEF Buckets!Refuse
  <1>2. CASE RefusedByOwn(e)
    <2>1. allRate' = allRate /\ AllLevel' = AllLevel
      BY <1>0, <1>2, AllLeft DEF RefusedByOwn
    <2>2. \A a \in Endpoints : RateOf(a)' = RateOf(a) /\ Level(a)' = Level(a)
      BY <1>0, <1>2, OwnLeft DEF RefusedByOwn
    <2>3. granted' = {}
      BY <1>2 DEF RefusedByOwn, Quiet
    <2> QED
      BY <2>1, <2>2, <2>3 DEF Buckets!Refuse
  <1>3. CASE Granted(e)
    <2>0. /\ AllLevel >= Second /\ Level(e) >= Second /\ granted' = {e}
          /\ RefillAll(AllLevel - Second) /\ RefillOwn(e, Level(e) - Second)
      BY <1>3 DEF Granted
    <2>1. /\ AllLevel - Second \in Nat /\ AllLevel - Second <= Full(allRate)
          /\ Level(e) - Second \in Nat /\ Level(e) - Second <= Full(RateOf(e))
      BY <1>0, <2>0
    <2>2. allRate' = allRate /\ AllLevel' = AllLevel - Second
      BY <2>0, <2>1, AllLeft
    <2>3. /\ \A a \in Endpoints : RateOf(a)' = RateOf(a)
          /\ Level(e)' = Level(e) - Second
          /\ \A a \in Endpoints : a # e => Level(a)' = Level(a)
      BY <2>0, <2>1, OwnLeft
    <2>4. [a \in Endpoints |-> Level(a)'] = [[a \in Endpoints |-> Level(a)] EXCEPT ![e] = @ - Second]
      BY <2>3
    <2>5. [a \in Endpoints |-> RateOf(a)'] = [a \in Endpoints |-> RateOf(a)]
      BY <2>3
    <2> QED
      BY <2>0, <2>2, <2>4, <2>5 DEF Buckets!Grant
  <1> QED
    BY <1>1, <1>2, <1>3 DEF Acquire

\* Setting or forgetting the rate of one endpoint leaves the others alone.
LEMMA BucketsSet ==
    ASSUME TypeOK, TypeOK', NEW e \in Endpoints,
           \A a \in Endpoints : a # e => rate'[a] = rate[a] /\ bucket'[a] = bucket[a] /\ idle'[a] = idle[a],
           UNCHANGED global, granted' = {}
    PROVE  Buckets!Set(e)
  <1>1. ASSUME NEW a \in Endpoints, a # e PROVE RateOf(a)' = RateOf(a) /\ Level(a)' = Level(a)
    BY <1>1 DEF RateOf, Level
  <1>2. allRate' = allRate /\ AllLevel' = AllLevel
    BY DEF global, AllLevel
  <1>3. RateOf(e)' \in Nat /\ Level(e)' \in Nat /\ Level(e)' <= Full(RateOf(e)')
    <2>1. /\ rate'[e] \in Nat /\ bucket'[e] \in Nat /\ idle'[e] \in Nat /\ DefaultRate \in Nat
      BY RatesAssumption, SecondAssumption DEF TypeOK
    <2>2. CASE rate'[e] = 0
      <3>1. RateOf(e)' = DefaultRate /\ Level(e)' = Full(DefaultRate) /\ Full(DefaultRate) \in Nat
        BY <2>1, <2>2, FullIsNat DEF RateOf, Level, Full
      <3> QED
        BY <2>1, <3>1
    <2>3. CASE rate'[e] # 0
      <3>1. RateOf(e)' = rate'[e] /\ Level(e)' = Refilled(bucket'[e], rate'[e], idle'[e])
        BY <2>3 DEF RateOf, Level, Refilled, Full, Least
      <3>2. /\ Refilled(bucket'[e], rate'[e], idle'[e]) \in Nat
            /\ Refilled(bucket'[e], rate'[e], idle'[e]) <= Full(rate'[e])
        BY <2>1, RefilledFits
      <3> QED
        BY <2>1, <3>1, <3>2
    <2> QED
      BY <2>2, <2>3
  <1>4. RateOf(e)' * Second \in Nat
    BY <1>3, Product, SecondAssumption
  <1>5. Level(e)' \in 0 .. RateOf(e)' * Second
    BY <1>3, <1>4 DEF Full
  <1>6. [a \in Endpoints |-> RateOf(a)'] = [[a \in Endpoints |-> RateOf(a)] EXCEPT ![e] = RateOf(e)']
    BY <1>1
  <1>7. [a \in Endpoints |-> Level(a)'] = [[a \in Endpoints |-> Level(a)] EXCEPT ![e] = Level(e)']
    BY <1>1
  <1> QED
    BY <1>2, <1>3, <1>5, <1>6, <1>7 DEF Buckets!Set, Buckets!Levels

\* A step that does not touch the limiter.
LEMMA BucketsRest ==
    ASSUME UNCHANGED own, UNCHANGED global, granted' = {}
    PROVE  Buckets!Refuse
  <1>1. /\ rate' = rate /\ bucket' = bucket /\ idle' = idle
        /\ allRate' = allRate /\ allBucket' = allBucket /\ allIdle' = allIdle
    BY DEF own, global
  <1>2. ASSUME NEW a \in Endpoints PROVE RateOf(a)' = RateOf(a) /\ Level(a)' = Level(a)
    BY <1>1 DEF RateOf, Level
  <1>3. AllLevel' = AllLevel
    BY <1>1 DEF AllLevel
  <1> QED
    BY <1>1, <1>2, <1>3 DEF Buckets!Refuse

LEMMA BucketsHandler ==
    ASSUME TypeOK, TypeOK', NEW t \in Threads, Handler(t)
    PROVE  Buckets!Refuse \/ \E e \in Endpoints : Buckets!Set(e)
  <1>1. CASE Configure(t) \/ Remove(t)
    <2>1. req[t].e \in Endpoints
      BY <1>1 DEF Configure, Remove, TypeOK, Requests
    <2>2. \A a \in Endpoints : a # req[t].e => rate'[a] = rate[a] /\ bucket'[a] = bucket[a] /\ idle'[a] = idle[a]
      BY <1>1, <2>1 DEF Configure, Remove, SetRate, Forget, TypeOK
    <2>3. UNCHANGED global
      BY <1>1 DEF Configure, Remove
    <2>4. granted' = {}
      BY <1>1 DEF Configure, Remove, Goes, Quiet
    <2> QED
      BY <2>1, <2>2, <2>3, <2>4, BucketsSet
  <1>2. CASE Create(t) \/ Load(t) \/ Patch(t) \/ RowGone(t) \/ Refresh(t) \/ Delete(t)
    <2>1. UNCHANGED own
      BY <1>2 DEF Create, Load, Patch, RowGone, Refresh, Delete
    <2>2. UNCHANGED global
      BY <1>2 DEF Create, Load, Patch, RowGone, Refresh, Delete
    <2>3. granted' = {}
      BY <1>2 DEF Create, Load, Patch, RowGone, Refresh, Delete, Goes, Quiet
    <2> QED
      BY <2>1, <2>2, <2>3, BucketsRest
  <1> QED
    BY <1>1, <1>2 DEF Handler

LEMMA BucketsGlobal == ASSUME TypeOK, TypeOK', SetGlobalRate PROVE Buckets!SetAll
  <1>1. rate' = rate /\ bucket' = bucket /\ idle' = idle /\ granted' = {}
    BY DEF SetGlobalRate, own, Quiet
  <1>2. ASSUME NEW a \in Endpoints PROVE RateOf(a)' = RateOf(a) /\ Level(a)' = Level(a)
    BY <1>1 DEF RateOf, Level
  <1>3. allRate' \in Nat /\ allBucket' \in Nat /\ allIdle' \in Nat
    BY RatesAssumption, SecondAssumption DEF TypeOK
  <1>4. AllLevel' \in Nat /\ AllLevel' <= Full(allRate')
    <2>1. AllLevel' = Refilled(allBucket', allRate', allIdle')
      BY DEF AllLevel, Refilled, Full, Least
    <2> QED
      BY <1>3, <2>1, RefilledFits
  <1>5. allRate' * Second \in Nat
    BY <1>3, Product, SecondAssumption
  <1>6. AllLevel' \in 0 .. allRate' * Second
    BY <1>4, <1>5 DEF Full
  <1> QED
    BY <1>1, <1>2, <1>3, <1>6 DEF Buckets!SetAll, Buckets!Levels

LEMMA BucketsRestart == ASSUME TypeOK, TypeOK', Restart PROVE Buckets!Start
  <1>1. PICK on \in SUBSET Present : LoadRates(on)
    BY DEF Restart
  <1>2. ASSUME NEW e \in Endpoints PROVE RateOf(e)' \in Nat /\ Level(e)' = RateOf(e)' * Second
    <2>1. DefaultRate \in Nat /\ rate'[e] \in Nat /\ limit[e] \in Nat /\ limit[e] # 0
      BY RatesAssumption DEF TypeOK
    <2>2. CASE e \in on
      <3>1. rate'[e] = limit[e] /\ bucket'[e] = Full(limit[e]) /\ idle'[e] = 0
        BY <1>1, <2>2 DEF LoadRates
      <3>2. RateOf(e)' = limit[e]
        BY <2>1, <3>1 DEF RateOf
      <3>3. rate'[e] # 0
        BY <2>1, <3>1
      <3>4. Level(e)' = Refilled(bucket'[e], rate'[e], idle'[e])
        BY <3>3 DEF Level, Refilled, Full, Least
      <3>5. Full(limit[e]) \in Nat
        BY <2>1, FullIsNat
      <3>6. Refilled(Full(limit[e]), limit[e], 0) = Full(limit[e])
        BY <2>1, <3>5, RefilledAtOnce
      <3>7. Level(e)' = Full(limit[e])
        BY <3>1, <3>4, <3>6
      <3> QED
        BY <2>1, <3>2, <3>7 DEF Full
    <2>3. CASE e \notin on
      <3>1. rate'[e] = 0
        BY <1>1, <2>3 DEF LoadRates
      <3> QED
        BY <2>1, <3>1 DEF RateOf, Level, Full
    <2> QED
      BY <2>2, <2>3
  <1>3. allRate' \in Nat /\ AllLevel' = allRate' * Second /\ granted' = {}
    <2>1. allRate' \in Nat /\ allBucket' = Full(allRate') /\ allIdle' = 0 /\ granted' = {}
      BY RatesAssumption DEF Restart, Quiet
    <2>2. Full(allRate') \in Nat
      BY <2>1, FullIsNat
    <2>3. AllLevel' = Refilled(allBucket', allRate', allIdle')
      BY DEF AllLevel, Refilled, Full, Least
    <2>4. Refilled(Full(allRate'), allRate', 0) = Full(allRate')
      BY <2>1, <2>2, RefilledAtOnce
    <2> QED
      BY <2>1, <2>3, <2>4 DEF Full
  <1> QED
    BY <1>2, <1>3 DEF Buckets!Start

LEMMA BucketsStep == TypeOK /\ TypeOK' /\ [Next]_vars => [Buckets!Next]_(Buckets!buckets)
  <1> SUFFICES ASSUME TypeOK, TypeOK', [Next]_vars PROVE [Buckets!Next]_(Buckets!buckets)
    OBVIOUS
  <1>1. ASSUME NEW e \in Endpoints, Acquire(e) PROVE Buckets!Next
    BY <1>1, BucketsAcquire DEF Buckets!Next
  <1>2. ASSUME NEW t \in Threads, Handler(t) PROVE Buckets!Next
    BY <1>2, BucketsHandler DEF Buckets!Next
  <1>3. CASE Tick
    BY <1>3, BucketsTick DEF Buckets!Next
  <1>4. CASE SetGlobalRate
    BY <1>4, BucketsGlobal DEF Buckets!Next
  <1>5. CASE Restart
    BY <1>5, BucketsRestart DEF Buckets!Next
  <1>6. CASE UNCHANGED vars
    <2>1. /\ rate' = rate /\ bucket' = bucket /\ idle' = idle /\ granted' = granted
          /\ allRate' = allRate /\ allBucket' = allBucket /\ allIdle' = allIdle
      BY <1>6 DEF vars, own, global
    <2>2. ASSUME NEW a \in Endpoints PROVE RateOf(a)' = RateOf(a) /\ Level(a)' = Level(a)
      BY <2>1 DEF RateOf, Level
    <2>3. AllLevel' = AllLevel
      BY <2>1 DEF AllLevel
    <2> QED
      BY <2>1, <2>2, <2>3 DEF Buckets!buckets
  <1> QED
    BY <1>1, <1>2, <1>3, <1>4, <1>5, <1>6 DEF Next

\* Every step of the limiter is a step of the buckets of TokenBuckets: what
\* is refilled when it is looked at is as if refilled at every tick, and no
\* attempt is let through without a token from both buckets.
THEOREM LimiterImplementsBuckets == Spec => ImplementsBuckets
  <1>1. Init => Buckets!Init
    BY BucketsStart
  <1>2. TypeOK /\ TypeOK' /\ [Next]_vars => [Buckets!Next]_(Buckets!buckets)
    BY BucketsStep
  <1> QED
    BY <1>1, <1>2, TypeCorrect, PTL DEF Spec, ImplementsBuckets, Buckets!Spec

-----------------------------------------------------------------------------
(* What the buckets are good for: over any stretch of time in which no rate *)
(* is set, an endpoint is let through as often as a full bucket and the     *)
(* rate allow, and so are all endpoints together.  An observer opens a      *)
(* window at any moment, watches one endpoint and counts ticks and attempts *)
(* until he closes it.                                                      *)

CONSTANT Watched

VARIABLES
    ticks,      \* since the window was opened
    through,    \* attempts for Watched that were let through
    throughAll  \* attempts for all endpoints that were let through

window == <<ticks, through, throughAll>>

\* The buckets as TokenBuckets has them.
BucketRate  == [e \in Endpoints |-> RateOf(e)]
BucketLevel == [e \in Endpoints |-> Level(e)]

Open == ticks' = 0 /\ through' = 0 /\ throughAll' = 0

\* A window ends where a rate is set, or where the observer wants.
Observe ==
    \/ Open
    \/ Buckets!Tick /\ ticks' = ticks + 1 /\ UNCHANGED <<through, throughAll>>
    \/ \E e \in Endpoints :
        /\ Buckets!Grant(e)
        /\ through' = IF e = Watched THEN through + 1 ELSE through
        /\ throughAll' = throughAll + 1
        /\ UNCHANGED ticks
    \/ Buckets!Refuse /\ UNCHANGED window
    \/ \E e \in Endpoints \ {Watched} : Buckets!Set(e) /\ UNCHANGED window

\* The limiter under observation.
Observed ==
    /\ Spec
    /\ ticks = 0 /\ through = 0 /\ throughAll = 0
    /\ [][Observe]_<<Buckets!buckets, window>>

\* "Each endpoint gets its own bucket that refills at `rate` tokens/sec.  A
\* global bucket caps total throughput across all endpoints."
WindowBound ==
    /\ through * Second <= BucketRate[Watched] * Second + BucketRate[Watched] * ticks
    /\ throughAll * Second <= allRate * Second + allRate * ticks

Watching == Watched \in Endpoints /\ Second \in Nat

\* What was let through and what is left in a bucket came into it.
Filled ==
    /\ BucketRate \in [Endpoints -> Nat]
    /\ BucketLevel \in [Endpoints -> Nat]
    /\ BucketLevel[Watched] <= BucketRate[Watched] * Second
    /\ allRate \in Nat
    /\ AllLevel \in Nat
    /\ AllLevel <= allRate * Second

WindowLedger ==
    /\ Filled
    /\ ticks \in Nat /\ through \in Nat /\ throughAll \in Nat
    /\ through * Second + BucketLevel[Watched] <= BucketRate[Watched] * Second + BucketRate[Watched] * ticks
    /\ throughAll * Second + AllLevel <= allRate * Second + allRate * ticks

LEMMA Times ==
    ASSUME NEW r \in Nat, NEW n \in Nat
    PROVE  r * (n + 1) = r * n + r /\ (n + 1) * r = n * r + r /\ r * n \in Nat
BY SMT

LEMMA TimesZero == ASSUME NEW r \in Nat PROVE r * 0 = 0 /\ 0 * r = 0
BY SMT

LEMMA WindowLedgerStarts == Watching /\ Buckets!Init /\ ticks = 0 /\ through = 0 /\ throughAll = 0 => WindowLedger
  <1> SUFFICES ASSUME Watching, Buckets!Init, ticks = 0, through = 0, throughAll = 0 PROVE WindowLedger
    OBVIOUS
  <1>1. /\ BucketLevel = [e \in Endpoints |-> BucketRate[e] * Second]
        /\ BucketRate \in [Endpoints -> Nat] /\ allRate \in Nat /\ AllLevel = allRate * Second
    BY DEF Buckets!Init, BucketRate, BucketLevel
  <1>2. ASSUME NEW e \in Endpoints PROVE BucketRate[e] * Second \in Nat
    <2>1. BucketRate[e] \in Nat
      BY <1>1
    <2> QED
      BY Watching, <2>1, Times DEF Watching
  <1>3. BucketLevel \in [Endpoints -> Nat] /\ BucketLevel[Watched] = BucketRate[Watched] * Second
    BY Watching, <1>1, <1>2 DEF Watching
  <1>4. BucketRate[Watched] \in Nat /\ BucketRate[Watched] * Second \in Nat /\ BucketRate[Watched] * 0 = 0
    BY Watching, <1>1, <1>2 DEF Watching
  <1>5. AllLevel \in Nat /\ allRate * 0 = 0 /\ 0 * Second = 0
    BY Watching, <1>1, Times DEF Watching
  <1> QED
    BY <1>1, <1>3, <1>4, <1>5 DEF WindowLedger, Filled

\* A tick adds to a bucket at most its rate.
LEMMA TickKeeps ==
    ASSUME Watching, WindowLedger, Buckets!Tick, ticks' = ticks + 1, UNCHANGED <<through, throughAll>>
    PROVE  WindowLedger'
  <1> DEFINE r == BucketRate[Watched]
  <1>1. /\ BucketRate \in [Endpoints -> Nat] /\ BucketLevel \in [Endpoints -> Nat] /\ r \in Nat /\ BucketLevel[Watched] \in Nat
        /\ allRate \in Nat /\ AllLevel \in Nat /\ ticks \in Nat /\ through \in Nat /\ throughAll \in Nat
    BY Watching DEF Watching, WindowLedger, Filled
  <1>2. /\ BucketLevel' = [e \in Endpoints |-> Buckets!Least(BucketRate[e] * Second, BucketLevel[e] + BucketRate[e])]
        /\ AllLevel' = Buckets!Least(allRate * Second, AllLevel + allRate)
        /\ BucketRate' = BucketRate /\ allRate' = allRate
    BY DEF Buckets!Tick, BucketRate, BucketLevel
  <1>3. ASSUME NEW e \in Endpoints
        PROVE  BucketLevel'[e] \in Nat /\ BucketLevel'[e] <= BucketRate[e] * Second /\ BucketLevel'[e] <= BucketLevel[e] + BucketRate[e]
    <2>1. BucketRate[e] \in Nat /\ BucketLevel[e] \in Nat /\ BucketRate[e] * Second \in Nat
      BY Watching, <1>1, Times DEF Watching
    <2>2. BucketLevel'[e] = Buckets!Least(BucketRate[e] * Second, BucketLevel[e] + BucketRate[e])
      BY <1>2
    <2> QED
      BY <2>1, <2>2 DEF Buckets!Least
  <1>4. AllLevel' \in Nat /\ AllLevel' <= allRate * Second /\ AllLevel' <= AllLevel + allRate
    <2>1. allRate * Second \in Nat
      BY Watching, <1>1, Times DEF Watching
    <2> QED
      BY <1>1, <1>2, <2>1 DEF Buckets!Least
  <1>5. BucketLevel' \in [Endpoints -> Nat]
    BY <1>2, <1>3
  <1>6. r * ticks' = r * ticks + r /\ allRate * ticks' = allRate * ticks + allRate
    BY <1>1, Times
  <1>7. through' * Second + BucketLevel'[Watched] <= r * Second + r * ticks'
    <2>1. through * Second \in Nat /\ r * Second \in Nat /\ r * ticks \in Nat
      BY Watching, <1>1, Times DEF Watching
    <2>2. through * Second + BucketLevel[Watched] <= r * Second + r * ticks
      BY DEF WindowLedger, Filled
    <2>3. BucketLevel'[Watched] \in Nat /\ BucketLevel'[Watched] <= BucketLevel[Watched] + r
      BY Watching, <1>3 DEF Watching
    <2> QED
      BY <1>1, <1>6, <2>1, <2>2, <2>3
  <1>8. throughAll' * Second + AllLevel' <= allRate * Second + allRate * ticks'
    <2>1. throughAll * Second \in Nat /\ allRate * Second \in Nat /\ allRate * ticks \in Nat
      BY Watching, <1>1, Times DEF Watching
    <2>2. throughAll * Second + AllLevel <= allRate * Second + allRate * ticks
      BY DEF WindowLedger, Filled
    <2> QED
      BY <1>1, <1>4, <1>6, <2>1, <2>2
  <1> QED
    BY Watching, <1>1, <1>2, <1>3, <1>4, <1>5, <1>7, <1>8 DEF Watching, WindowLedger, Filled

\* An attempt that is let through moves a token from the bucket to the count.
LEMMA GrantKeeps ==
    ASSUME Watching, WindowLedger, NEW e \in Endpoints, Buckets!Grant(e),
           through' = IF e = Watched THEN through + 1 ELSE through,
           throughAll' = throughAll + 1, ticks' = ticks
    PROVE  WindowLedger'
  <1> DEFINE r == BucketRate[Watched]
  <1>1. /\ BucketRate \in [Endpoints -> Nat] /\ BucketLevel \in [Endpoints -> Nat] /\ r \in Nat /\ BucketLevel[Watched] \in Nat
        /\ allRate \in Nat /\ AllLevel \in Nat /\ ticks \in Nat /\ through \in Nat /\ throughAll \in Nat /\ BucketLevel[e] \in Nat
    BY Watching DEF Watching, WindowLedger, Filled
  <1>2. /\ BucketLevel' = [BucketLevel EXCEPT ![e] = @ - Second] /\ AllLevel' = AllLevel - Second
        /\ BucketLevel[e] >= Second /\ AllLevel >= Second
        /\ BucketRate' = BucketRate /\ allRate' = allRate
    BY DEF Buckets!Grant, BucketRate, BucketLevel
  <1>3. BucketLevel[e] - Second \in Nat /\ AllLevel' \in Nat /\ Second \in Nat
    BY Watching, <1>1, <1>2 DEF Watching
  <1>4. BucketLevel' \in [Endpoints -> Nat] /\ BucketLevel'[Watched] = IF e = Watched THEN BucketLevel[Watched] - Second ELSE BucketLevel[Watched]
    BY Watching, <1>1, <1>2, <1>3 DEF Watching
  <1>5. (through + 1) * Second = through * Second + Second /\ (throughAll + 1) * Second = throughAll * Second + Second
    BY Watching, <1>1, Times DEF Watching
  <1>6. /\ through * Second \in Nat /\ throughAll * Second \in Nat /\ r * Second \in Nat /\ allRate * Second \in Nat
        /\ r * ticks \in Nat /\ allRate * ticks \in Nat
    BY Watching, <1>1, Times DEF Watching
  <1>7. through' * Second + BucketLevel'[Watched] = through * Second + BucketLevel[Watched]
    <2>1. CASE e = Watched
      BY <2>1, <1>1, <1>3, <1>4, <1>5, <1>6
    <2>2. CASE e # Watched
      BY <2>2, <1>4
    <2> QED
      BY <2>1, <2>2
  <1>8. throughAll' * Second + AllLevel' = throughAll * Second + AllLevel
    BY <1>1, <1>2, <1>3, <1>5, <1>6
  <1>9. BucketLevel'[Watched] <= BucketLevel[Watched] /\ AllLevel' <= AllLevel /\ through' \in Nat
    BY <1>1, <1>2, <1>3, <1>4
  <1>10. BucketLevel'[Watched] \in Nat
    BY Watching, <1>4 DEF Watching
  <1> QED
    BY <1>1, <1>2, <1>3, <1>4, <1>6, <1>7, <1>8, <1>9, <1>10 DEF WindowLedger, Filled

\* No step overfills a bucket.
LEMMA FilledKeeps ==
    ASSUME Watching, Filled, [Buckets!Next]_(Buckets!buckets)
    PROVE  Filled'
  <1>0. /\ BucketRate \in [Endpoints -> Nat] /\ BucketLevel \in [Endpoints -> Nat]
        /\ allRate \in Nat /\ AllLevel \in Nat
        /\ BucketLevel[Watched] <= BucketRate[Watched] * Second /\ AllLevel <= allRate * Second
    BY DEF Filled
  <1>1. CASE Buckets!Tick
    <2>1. /\ BucketLevel' = [e \in Endpoints |-> Buckets!Least(BucketRate[e] * Second, BucketLevel[e] + BucketRate[e])]
          /\ AllLevel' = Buckets!Least(allRate * Second, AllLevel + allRate)
          /\ BucketRate' = BucketRate /\ allRate' = allRate
      BY <1>1 DEF Buckets!Tick, BucketRate, BucketLevel
    <2>2. ASSUME NEW e \in Endpoints PROVE BucketLevel'[e] \in Nat /\ BucketLevel'[e] <= BucketRate[e] * Second
      <3>1. BucketRate[e] \in Nat /\ BucketLevel[e] \in Nat /\ BucketRate[e] * Second \in Nat
        BY Watching, <1>0, Times DEF Watching
      <3>2. BucketLevel'[e] = Buckets!Least(BucketRate[e] * Second, BucketLevel[e] + BucketRate[e])
        BY <2>1
      <3> QED
        BY <3>1, <3>2 DEF Buckets!Least
    <2>3. allRate * Second \in Nat
      BY Watching, <1>0, Times DEF Watching
    <2>4. AllLevel' \in Nat /\ AllLevel' <= allRate * Second
      BY <1>0, <2>1, <2>3 DEF Buckets!Least
    <2>5. BucketLevel' \in [Endpoints -> Nat]
      BY <2>1, <2>2
    <2> QED
      BY Watching, <1>0, <2>1, <2>2, <2>4, <2>5 DEF Watching, Filled
  <1>2. CASE Buckets!Refuse
    BY <1>0, <1>2 DEF Buckets!Refuse, BucketRate, BucketLevel, Filled
  <1>3. CASE Buckets!SetAll
    <2>1. allRate' \in Nat /\ AllLevel' \in 0 .. allRate' * Second /\ BucketRate' = BucketRate /\ BucketLevel' = BucketLevel
      BY <1>3 DEF Buckets!SetAll, BucketRate, BucketLevel, Buckets!Levels
    <2>2. allRate' * Second \in Nat
      BY Watching, <2>1, Times DEF Watching
    <2> QED
      BY <1>0, <2>1, <2>2 DEF Filled
  <1>4. CASE Buckets!Start
    <2>1. /\ BucketRate' \in [Endpoints -> Nat] /\ BucketLevel' = [e \in Endpoints |-> BucketRate'[e] * Second]
          /\ allRate' \in Nat /\ AllLevel' = allRate' * Second
      BY <1>4 DEF Buckets!Start, BucketRate, BucketLevel
    <2>2. ASSUME NEW e \in Endpoints PROVE BucketLevel'[e] \in Nat /\ BucketLevel'[e] = BucketRate'[e] * Second
      <3>1. BucketRate'[e] \in Nat /\ BucketLevel'[e] = BucketRate'[e] * Second
        BY <2>1
      <3> QED
        BY Watching, <3>1, Times DEF Watching
    <2>3. AllLevel' \in Nat
      BY Watching, <2>1, Times DEF Watching
    <2>4. BucketLevel' \in [Endpoints -> Nat]
      BY <2>1, <2>2
    <2>5. BucketLevel'[Watched] <= BucketRate'[Watched] * Second
      BY Watching, <2>2 DEF Watching
    <2>6. AllLevel' <= allRate' * Second
      BY <2>1, <2>3
    <2> QED
      BY <2>1, <2>3, <2>4, <2>5, <2>6 DEF Filled
  <1>5. ASSUME NEW e \in Endpoints, Buckets!Grant(e) PROVE Filled'
    <2>1. /\ BucketLevel' = [BucketLevel EXCEPT ![e] = @ - Second] /\ AllLevel' = AllLevel - Second
          /\ BucketLevel[e] >= Second /\ AllLevel >= Second
          /\ BucketRate' = BucketRate /\ allRate' = allRate
      BY <1>5 DEF Buckets!Grant, BucketRate, BucketLevel
    <2>2. BucketLevel[e] \in Nat /\ BucketLevel[Watched] \in Nat /\ BucketRate[Watched] * Second \in Nat /\ allRate * Second \in Nat
      BY Watching, <1>0, Times DEF Watching
    <2>3. BucketLevel[e] - Second \in Nat /\ AllLevel' \in Nat /\ AllLevel' <= AllLevel
      BY Watching, <1>0, <2>1, <2>2 DEF Watching
    <2>4. /\ BucketLevel' \in [Endpoints -> Nat]
          /\ BucketLevel'[Watched] = IF e = Watched THEN BucketLevel[Watched] - Second ELSE BucketLevel[Watched]
      BY Watching, <1>0, <2>1, <2>3 DEF Watching
    <2>5. BucketLevel'[Watched] <= BucketLevel[Watched]
      BY Watching, <2>2, <2>3, <2>4 DEF Watching
    <2>6. BucketLevel'[Watched] \in Nat
      BY Watching, <2>4 DEF Watching
    <2> QED
      BY <1>0, <2>1, <2>2, <2>3, <2>4, <2>5, <2>6 DEF Filled
  <1>6. ASSUME NEW e \in Endpoints, Buckets!Set(e) PROVE Filled'
    <2>1. /\ BucketRate'[e] \in Nat /\ BucketRate' = [BucketRate EXCEPT ![e] = BucketRate'[e]]
          /\ BucketLevel'[e] \in 0 .. BucketRate'[e] * Second /\ BucketLevel' = [BucketLevel EXCEPT ![e] = BucketLevel'[e]]
          /\ allRate' = allRate /\ AllLevel' = AllLevel
      BY <1>6 DEF Buckets!Set, BucketRate, BucketLevel, Buckets!Levels
    <2>2. BucketRate'[e] * Second \in Nat
      BY Watching, <2>1, Times DEF Watching
    <2>3. BucketLevel'[e] \in Nat /\ BucketLevel'[e] <= BucketRate'[e] * Second
      BY <2>1, <2>2
    <2>4. BucketRate' \in [Endpoints -> Nat] /\ BucketLevel' \in [Endpoints -> Nat]
      BY <1>0, <2>1, <2>3
    <2>5. BucketLevel'[Watched] <= BucketRate'[Watched] * Second
      <3>1. CASE e = Watched
        BY <3>1, <2>3
      <3>2. CASE e # Watched
        <4>1. BucketRate'[Watched] = BucketRate[Watched] /\ BucketLevel'[Watched] = BucketLevel[Watched]
          BY Watching, <1>0, <2>1, <3>2 DEF Watching
        <4> QED
          BY <1>0, <4>1
      <3> QED
        BY <3>1, <3>2
    <2> QED
      BY <1>0, <2>1, <2>4, <2>5 DEF Filled
  <1>7. CASE UNCHANGED Buckets!buckets
    BY <1>0, <1>7 DEF Buckets!buckets, BucketRate, BucketLevel, Filled
  <1> QED
    BY <1>1, <1>2, <1>3, <1>4, <1>5, <1>6, <1>7 DEF Buckets!Next

\* A window that is opened starts with two buckets that are at most full.
LEMMA OpenKeeps ==
    ASSUME Watching, Filled', Open
    PROVE  WindowLedger'
  <1>1. /\ BucketRate'[Watched] \in Nat /\ allRate' \in Nat /\ BucketLevel'[Watched] \in Nat /\ AllLevel' \in Nat
        /\ BucketLevel'[Watched] <= BucketRate'[Watched] * Second /\ AllLevel' <= allRate' * Second
    BY Watching DEF Watching, Filled
  <1>2. /\ BucketRate'[Watched] * Second \in Nat /\ allRate' * Second \in Nat
        /\ BucketRate'[Watched] * 0 = 0 /\ allRate' * 0 = 0 /\ 0 * Second = 0
    <2>1. BucketRate'[Watched] * Second \in Nat /\ BucketRate'[Watched] * 0 = 0
      BY Watching, <1>1, Times DEF Watching
    <2>2. allRate' * Second \in Nat
      BY Watching, <1>1, Times DEF Watching
    <2>3. allRate' * 0 = 0
      BY <1>1, TimesZero
    <2>4. 0 * Second = 0
      BY Watching, TimesZero DEF Watching
    <2> QED
      BY <2>1, <2>2, <2>3, <2>4
  <1>3. ticks' = 0 /\ through' = 0 /\ throughAll' = 0
    BY DEF Open
  <1> QED
    BY <1>1, <1>2, <1>3 DEF WindowLedger

LEMMA WindowLedgerSteps ==
    ASSUME Watching, WindowLedger, [Buckets!Next]_(Buckets!buckets),
           [Observe]_<<Buckets!buckets, window>>
    PROVE  WindowLedger'
  <1>0. Filled /\ Filled'
    BY Watching, FilledKeeps DEF WindowLedger
  <1>1. CASE Open
    BY Watching, <1>0, <1>1, OpenKeeps
  <1>2. CASE Buckets!Tick /\ ticks' = ticks + 1 /\ UNCHANGED <<through, throughAll>>
    BY Watching, <1>2, TickKeeps
  <1>3. ASSUME NEW e \in Endpoints, Buckets!Grant(e),
               through' = IF e = Watched THEN through + 1 ELSE through,
               throughAll' = throughAll + 1, UNCHANGED ticks
        PROVE  WindowLedger'
    BY Watching, <1>3, GrantKeeps
  <1>4. CASE Buckets!Refuse /\ UNCHANGED window
    <2>1. BucketRate' = BucketRate /\ BucketLevel' = BucketLevel /\ allRate' = allRate /\ AllLevel' = AllLevel
      BY <1>4 DEF Buckets!Refuse, BucketRate, BucketLevel
    <2> QED
      BY <1>0, <1>4, <2>1 DEF window, WindowLedger
  <1>5. ASSUME NEW e \in Endpoints \ {Watched}, Buckets!Set(e), UNCHANGED window PROVE WindowLedger'
    <2>1. /\ BucketLevel' = [BucketLevel EXCEPT ![e] = BucketLevel'[e]]
          /\ BucketRate' = [BucketRate EXCEPT ![e] = BucketRate'[e]]
          /\ allRate' = allRate /\ AllLevel' = AllLevel
      BY <1>5 DEF Buckets!Set, BucketRate, BucketLevel
    <2>2. BucketLevel'[Watched] = BucketLevel[Watched] /\ BucketRate'[Watched] = BucketRate[Watched]
      BY Watching, <1>0, <1>5, <2>1 DEF Watching, Filled
    <2>3. ticks' = ticks /\ through' = through /\ throughAll' = throughAll
      BY <1>5 DEF window
    <2> QED
      BY <1>0, <2>1, <2>2, <2>3 DEF WindowLedger
  <1>6. CASE UNCHANGED <<Buckets!buckets, window>>
    <2>1. BucketRate' = BucketRate /\ BucketLevel' = BucketLevel /\ allRate' = allRate /\ AllLevel' = AllLevel
      BY <1>6 DEF Buckets!buckets, BucketRate, BucketLevel
    <2> QED
      BY <1>0, <1>6, <2>1 DEF window, WindowLedger
  <1> QED
    BY <1>1, <1>2, <1>3, <1>4, <1>5, <1>6 DEF Observe

\* While no rate is set, an endpoint is let through at most as often as a full
\* bucket and its rate allow, and so are all endpoints together: from any
\* moment on, in every run of the limiter.
THEOREM ThroughputIsBounded ==
    ASSUME Watched \in Endpoints
    PROVE  Observed => []WindowBound
  <1>0. Watching
    BY SecondAssumption DEF Watching
  <1>1. WindowLedger => WindowBound
    <2> SUFFICES ASSUME WindowLedger PROVE WindowBound
      OBVIOUS
    <2>1. /\ BucketRate[Watched] \in Nat /\ BucketLevel[Watched] \in Nat /\ allRate \in Nat /\ AllLevel \in Nat
          /\ through \in Nat /\ throughAll \in Nat /\ ticks \in Nat
      BY <1>0 DEF Watching, WindowLedger, Filled
    <2>2. /\ through * Second \in Nat /\ throughAll * Second \in Nat
          /\ BucketRate[Watched] * Second \in Nat /\ BucketRate[Watched] * ticks \in Nat
          /\ allRate * Second \in Nat /\ allRate * ticks \in Nat
      BY <1>0, <2>1, Times DEF Watching
    <2>3. /\ through * Second + BucketLevel[Watched] <= BucketRate[Watched] * Second + BucketRate[Watched] * ticks
          /\ throughAll * Second + AllLevel <= allRate * Second + allRate * ticks
      BY DEF WindowLedger
    <2> QED
      BY <2>1, <2>2, <2>3 DEF WindowBound
  <1>2. Buckets!Init /\ ticks = 0 /\ through = 0 /\ throughAll = 0 => WindowLedger
    BY <1>0, WindowLedgerStarts
  <1>3. /\ WindowLedger
        /\ [Buckets!Next]_(Buckets!buckets)
        /\ [Observe]_<<Buckets!buckets, window>>
        => WindowLedger'
    BY <1>0, WindowLedgerSteps
  <1>4. Spec => Buckets!Init /\ [][Buckets!Next]_(Buckets!buckets)
    BY LimiterImplementsBuckets DEF ImplementsBuckets, Buckets!Spec
  <1> QED
    BY <1>1, <1>2, <1>3, <1>4, PTL DEF Observed
=============================================================================
