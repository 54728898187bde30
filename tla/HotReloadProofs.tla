--------------------------- MODULE HotReloadProofs ---------------------------
(***************************************************************************)
(* Reloads, for any number of threads, tasks, files and calls: the         *)
(* components end up with one configuration, and the semaphores that a     *)
(* reload leaves behind keep to the limits they were made with.            *)
(***************************************************************************)
EXTENDS HotReload, FiniteSetTheorems, TLAPS

-----------------------------------------------------------------------------
(* What Settings holds is numbers, also after a file that breaks off.      *)

\* No entry that is read is bad.
LEMMA ReadableIsGood ==
    ASSUME NEW f \in Seq(Entries), NEW i \in DOMAIN Readable(f)
    PROVE  Readable(f)[i].value \in Int
  <1>1. DOMAIN f = 1 .. Len(f) /\ Len(f) \in Nat
    OBVIOUS
  <1>2. /\ i \in {n \in DOMAIN f : \A j \in 1 .. n : f[j].value # Bad}
        /\ Readable(f)[i] = f[i]
    BY DEF Readable
  <1>3. i \in 1 .. Len(f) /\ f[i].value # Bad
    BY <1>1, <1>2
  <1>4. f[i] \in Entries
    BY <1>1, <1>3
  <1>5. f[i].value \in Int \cup {Bad}
    BY <1>4 DEF Entries
  <1> QED
    BY <1>2, <1>3, <1>5

Stages == {"none", "created", "waiting", "delivering"}
Places == {"idle", "called", "environment", "loaded", "concurrency", "rate"}

\* The shapes of the variables, a semaphore's value among them.
Shapes ==
    /\ file \in Seq(Entries)
    /\ settings \in [Keys -> Int]
    /\ reloading \in [Threads -> Places]
    /\ limits \in Seq(Nat) /\ free \in Seq(Nat)
    /\ Len(free) = Len(limits) /\ Len(limits) >= 1
    /\ stage \in [Tasks -> Stages]
    /\ takes \in [Tasks -> Nat]
    /\ began \in 1 .. Len(limits)

\* What a task has taken exists, and is no older than its batch.
Taken(k) == stage[k] \in {"waiting", "delivering"} => takes[k] \in began .. Current

LEMMA SettingsShape ==
    ASSUME Shapes, NEW t \in Threads, ReadFile(t)
    PROVE  settings' \in [Keys -> Int]
  <1>1. ASSUME NEW k \in Keys, NEW v \in Says(Readable(file), k) PROVE v \in Int
    <2>1. PICK i \in DOMAIN Readable(file) : v = Readable(file)[i].value
      BY <1>1 DEF Says
    <2> QED
      BY <2>1, ReadableIsGood DEF Shapes
  <1>2. ASSUME NEW k \in Keys PROVE settings'[k] \in Int
    <2>1. settings'[k] = IF Says(Readable(file), k) = {} THEN settings[k]
                         ELSE CHOOSE v \in Says(Readable(file), k) : TRUE
      BY <1>2 DEF ReadFile
    <2>2. CASE Says(Readable(file), k) = {}
      BY <2>1, <2>2 DEF Shapes
    <2>3. CASE Says(Readable(file), k) # {}
      BY <1>1, <2>1, <2>3
    <2> QED
      BY <2>2, <2>3
  <1>3. DOMAIN settings' = Keys /\ settings' = [k \in Keys |-> settings'[k]]
    BY DEF ReadFile
  <1> QED
    BY <1>2, <1>3


LEMMA ShapesStart == Init => Shapes
  <1> SUFFICES ASSUME Init PROVE Shapes
    OBVIOUS
  <1>1. Environment["concurrency"] \in Nat
    BY EnvironmentAssumption DEF Keys
  <1>2. limits = <<Environment["concurrency"]>> /\ free = <<Environment["concurrency"]>> /\ began = 1
    BY DEF Init
  <1>3. /\ limits \in Seq(Nat) /\ free \in Seq(Nat) /\ Len(free) = Len(limits)
        /\ Len(limits) >= 1 /\ began \in 1 .. Len(limits)
    BY <1>1, <1>2
  <1>4. file \in Seq(Entries) /\ settings \in [Keys -> Int]
    BY EnvironmentAssumption DEF Init
  <1> QED
    BY <1>3, <1>4 DEF Init, Shapes, Stages, Places

\* A semaphore is added to those there are.
LEMMA UpdateShape ==
    ASSUME Shapes, NEW n \in Nat, UpdateConcurrency(n)
    PROVE  /\ limits' \in Seq(Nat) /\ free' \in Seq(Nat)
           /\ Len(limits') = Len(limits) + 1 /\ Len(free') = Len(limits')
           /\ \A i \in 1 .. Len(limits) : limits'[i] = limits[i] /\ free'[i] = free[i]
           /\ limits'[Len(limits')] = n /\ free'[Len(limits')] = n
BY DEF UpdateConcurrency, Shapes

LEMMA ShapesKept == Shapes /\ (\A k \in Tasks : Taken(k)) /\ [Next]_vars => Shapes'
  <1> SUFFICES ASSUME Shapes, \A k \in Tasks : Taken(k), [Next]_vars PROVE Shapes'
    OBVIOUS
  <1>0. Len(limits) \in Nat /\ Len(free) \in Nat
    BY DEF Shapes
  <1>1. CASE Edit
    BY <1>1, FilesAssumption DEF Edit, Shapes, pushed, batch, history
  <1>2. ASSUME NEW t \in Threads, Call(t) PROVE Shapes'
    BY <1>2 DEF Call, Goes, Shapes, Places, config, pushed, batch
  <1>3. ASSUME NEW t \in Threads, ReadEnvironment(t) PROVE Shapes'
    BY <1>3, EnvironmentAssumption DEF ReadEnvironment, Goes, Shapes, Places, pushed, batch, history
  <1>4. ASSUME NEW t \in Threads, ReadFile(t) PROVE Shapes'
    BY <1>4, SettingsShape DEF ReadFile, Goes, Shapes, Places, pushed, batch, history
  <1>5. ASSUME NEW t \in Threads, PushConcurrency(t) PROVE Shapes'
    <2>1. settings["concurrency"] \in Nat
      BY <1>5 DEF PushConcurrency, Shapes, Keys
    <2>2. UpdateConcurrency(settings["concurrency"])
      BY <1>5 DEF PushConcurrency
    <2>3. /\ limits' \in Seq(Nat) /\ free' \in Seq(Nat)
          /\ Len(limits') = Len(limits) + 1 /\ Len(free') = Len(limits')
      BY <2>1, <2>2, UpdateShape
    <2>4. reloading' \in [Threads -> Places] /\ UNCHANGED <<file, settings, stage, takes, began>>
      BY <1>5 DEF PushConcurrency, Goes, Shapes, Places, config, batch
    <2>5. Len(limits') >= 1 /\ began' \in 1 .. Len(limits')
      BY <1>0, <2>3, <2>4 DEF Shapes
    <2>6. settings' \in [Keys -> Int] /\ file' \in Seq(Entries) /\ stage' \in [Tasks -> Stages]
          /\ takes' \in [Tasks -> Nat]
      BY <2>4 DEF Shapes
    <2> QED
      BY <2>3, <2>4, <2>5, <2>6 DEF Shapes
  <1>6. ASSUME NEW t \in Threads, PushRefused(t) \/ PushRate(t) \/ PushInterval(t) PROVE Shapes'
    BY <1>6 DEF PushRefused, AfterRefusal, PushRate, PushInterval, Goes, Shapes, Places,
                config, pushed, batch, history
  <1>7. CASE BeginBatch
    <2>1. stage' \in [Tasks -> Stages]
      BY <1>7 DEF BeginBatch, Stages
    <2>2. began' \in 1 .. Len(limits)
      BY <1>0, <1>7 DEF BeginBatch, Current, Shapes
    <2>3. UNCHANGED <<file, settings, reloading, limits, free, takes>>
      BY <1>7 DEF BeginBatch, config, pushed
    <2> QED
      BY <2>1, <2>2, <2>3 DEF Shapes
  <1>8. ASSUME NEW k \in Tasks, Take(k) PROVE Shapes'
    BY <1>0, <1>8 DEF Take, Current, Shapes, Stages, config, pushed, history
  <1>9. ASSUME NEW k \in Tasks, Enter(k) PROVE Shapes'
    <2>1. takes[k] \in 1 .. Len(free)
      BY <1>0, <1>9 DEF Enter, Taken, Current, Shapes
    <2>2. free[takes[k]] - 1 \in Nat
      BY <1>9, <2>1 DEF Enter, Shapes
    <2>3. free' = [free EXCEPT ![takes[k]] = free[takes[k]] - 1]
      BY <1>9 DEF Enter
    <2>4. free' \in Seq(Nat) /\ Len(free') = Len(free)
      BY <2>1, <2>2, <2>3 DEF Shapes
    <2> QED
      BY <1>9, <2>4 DEF Enter, Shapes, Stages, config, history
  <1>10. ASSUME NEW k \in Tasks, Leave(k) PROVE Shapes'
    <2>1. takes[k] \in 1 .. Len(free)
      BY <1>0, <1>10 DEF Leave, Taken, Current, Shapes
    <2>2. free[takes[k]] + 1 \in Nat
      BY <2>1 DEF Shapes
    <2>3. free' = [free EXCEPT ![takes[k]] = free[takes[k]] + 1]
      BY <1>10 DEF Leave, Released
    <2>4. free' \in Seq(Nat) /\ Len(free') = Len(free)
      BY <2>1, <2>2, <2>3 DEF Shapes
    <2> QED
      BY <1>10, <2>4 DEF Leave, Shapes, Stages, config, history
  <1>11. CASE UNCHANGED vars
    BY <1>11 DEF vars, config, pushed, batch, history, Shapes
  <1> QED
    BY <1>1, <1>2, <1>3, <1>4, <1>5, <1>6, <1>7, <1>8, <1>9, <1>10, <1>11
       DEF Next, Reload, Push, Deliver

-----------------------------------------------------------------------------
(* What a task has taken.                                                  *)

LEMMA TakenKept ==
    Shapes /\ (\A k \in Tasks : Taken(k)) /\ [Next]_vars => \A k \in Tasks : Taken(k)'
  <1> SUFFICES ASSUME Shapes, \A k \in Tasks : Taken(k), [Next]_vars, NEW k \in Tasks
               PROVE  Taken(k)'
    OBVIOUS
  <1>0. Len(limits) \in Nat /\ began \in Nat /\ began <= Len(limits) /\ takes[k] \in Nat
    BY DEF Shapes
  <1>a. ASSUME UNCHANGED <<limits, batch>> PROVE Taken(k)'
    BY <1>a DEF Taken, Current, batch
  <1>1. CASE Edit
    BY <1>1, <1>a DEF Edit, pushed
  <1>2. ASSUME NEW t \in Threads, Call(t) PROVE Taken(k)'
    BY <1>2, <1>a DEF Call, pushed
  <1>3. ASSUME NEW t \in Threads, ReadEnvironment(t) \/ ReadFile(t) PROVE Taken(k)'
    BY <1>3, <1>a DEF ReadEnvironment, ReadFile, pushed
  <1>4. ASSUME NEW t \in Threads, PushConcurrency(t) PROVE Taken(k)'
    <2>1. settings["concurrency"] \in Nat
      BY <1>4 DEF PushConcurrency, Shapes, Keys
    <2>2. Len(limits') = Len(limits) + 1
      BY <1>4, <2>1, UpdateShape DEF PushConcurrency
    <2>3. UNCHANGED <<stage, takes, began>>
      BY <1>4 DEF PushConcurrency, batch
    <2> QED
      BY <1>0, <2>2, <2>3 DEF Taken, Current
  <1>5. ASSUME NEW t \in Threads, PushRefused(t) \/ PushRate(t) \/ PushInterval(t) PROVE Taken(k)'
    BY <1>5, <1>a DEF PushRefused, PushRate, PushInterval, pushed
  <1>6. CASE BeginBatch
    <2>1. stage'[k] \in {"created", "none"}
      BY <1>6 DEF BeginBatch
    <2> QED
      BY <2>1 DEF Taken
  <1>7. ASSUME NEW j \in Tasks, Take(j) PROVE Taken(k)'
    <2>1. UNCHANGED <<limits, began>>
      BY <1>7 DEF Take, pushed
    <2>2. CASE k = j
      <3>1. takes'[k] = Len(limits)
        BY <1>7, <2>2 DEF Take, Current, Shapes
      <3> QED
        BY <1>0, <2>1, <3>1 DEF Taken, Current
    <2>3. CASE k # j
      <3>1. takes'[k] = takes[k] /\ stage'[k] = stage[k]
        BY <1>7, <2>3 DEF Take, Shapes
      <3> QED
        BY <2>1, <3>1 DEF Taken, Current
    <2> QED
      BY <2>2, <2>3
  <1>8. ASSUME NEW j \in Tasks, Enter(j) PROVE Taken(k)'
    <2>1. UNCHANGED <<limits, takes, began>>
      BY <1>8 DEF Enter
    <2>2. stage'[k] = stage[k] \/ stage[k] = "waiting"
      BY <1>8 DEF Enter, Shapes
    <2> QED
      BY <2>1, <2>2 DEF Taken, Current
  <1>9. ASSUME NEW j \in Tasks, Leave(j) PROVE Taken(k)'
    <2>1. UNCHANGED <<limits, began>>
      BY <1>9 DEF Leave
    <2>2. stage'[k] = "none" \/ (stage'[k] = stage[k] /\ takes'[k] = takes[k])
      BY <1>9 DEF Leave, Shapes
    <2> QED
      BY <2>1, <2>2 DEF Taken, Current
  <1>10. CASE UNCHANGED vars
    BY <1>10, <1>a DEF vars, pushed
  <1> QED
    BY <1>1, <1>2, <1>3, <1>4, <1>5, <1>6, <1>7, <1>8, <1>9, <1>10
       DEF Next, Reload, Push, Deliver

-----------------------------------------------------------------------------
(* A semaphore's value and those it has let in make up its limit.          *)

Account(i) ==
    /\ IsFiniteSet(Entered(i))
    /\ free[i] + Cardinality(Entered(i)) = limits[i]

BatchInv ==
    /\ Shapes
    /\ \A k \in Tasks : Taken(k)
    /\ \A i \in 1 .. Current : Account(i)

\* Nothing has changed for semaphore i.
LEMMA AccountStays ==
    ASSUME NEW i, Account(i), UNCHANGED <<limits[i], free[i]>>, UNCHANGED Entered(i)
    PROVE  Account(i)'
BY DEF Account

\* The set stays when stages and takes do, for those delivering.
LEMMA EnteredStays ==
    ASSUME NEW i,
           \A k \in Tasks : (stage'[k] = "delivering" /\ takes'[k] = i)
                              <=> (stage[k] = "delivering" /\ takes[k] = i)
    PROVE  UNCHANGED Entered(i)
BY DEF Entered, Delivering

LEMMA AccountKept ==
    BatchInv /\ [Next]_vars => \A i \in 1 .. Current' : Account(i)'
  <1> SUFFICES ASSUME BatchInv, [Next]_vars, NEW i \in 1 .. Current' PROVE Account(i)'
    OBVIOUS
  <1>0. Len(limits) \in Nat /\ Shapes /\ (\A k \in Tasks : Taken(k))
    BY DEF BatchInv, Shapes
  <1>a. ASSUME UNCHANGED <<limits, free, stage, takes>> PROVE Account(i)'
    <2>1. Account(i) /\ UNCHANGED Entered(i)
      BY <1>a, EnteredStays DEF BatchInv, Current
    <2> QED
      BY <1>a, <2>1, AccountStays
  <1>1. CASE Edit
    BY <1>1, <1>a DEF Edit, pushed, batch
  <1>2. ASSUME NEW t \in Threads, Call(t) PROVE Account(i)'
    BY <1>2, <1>a DEF Call, pushed, batch
  <1>3. ASSUME NEW t \in Threads, ReadEnvironment(t) \/ ReadFile(t) PROVE Account(i)'
    BY <1>3, <1>a DEF ReadEnvironment, ReadFile, pushed, batch
  <1>4. ASSUME NEW t \in Threads, PushConcurrency(t) PROVE Account(i)'
    <2> DEFINE n == settings["concurrency"]
    <2>1. n \in Nat
      BY <1>0, <1>4 DEF PushConcurrency, Shapes, Keys
    <2>2. /\ Len(limits') = Len(limits) + 1
          /\ \A j \in 1 .. Len(limits) : limits'[j] = limits[j] /\ free'[j] = free[j]
          /\ limits'[Len(limits')] = n /\ free'[Len(limits')] = n
      BY <1>0, <1>4, <2>1, UpdateShape DEF PushConcurrency
    <2> HIDE DEF n
    <2>3. UNCHANGED <<stage, takes>>
      BY <1>4 DEF PushConcurrency, batch
    <2>4. UNCHANGED Entered(i)
      BY <2>3, EnteredStays
    <2>5. CASE i \in 1 .. Len(limits)
      <3>1. Account(i) /\ UNCHANGED <<limits[i], free[i]>>
        BY <2>2, <2>5 DEF BatchInv, Current
      <3> QED
        BY <2>4, <3>1, AccountStays
    <2>6. CASE i = Len(limits')
      <3>1. ASSUME NEW k \in Entered(i) PROVE FALSE
        <4>1. k \in Tasks /\ stage[k] = "delivering" /\ takes[k] = i
          BY DEF Entered, Delivering
        <4>2. takes[k] <= Len(limits)
          BY <1>0, <4>1 DEF Taken, Current, Shapes
        <4> QED
          BY <1>0, <2>2, <2>6, <4>1, <4>2
      <3>2. Entered(i)' = {}
        BY <2>4, <3>1
      <3>3. IsFiniteSet(Entered(i)') /\ Cardinality(Entered(i)') = 0
        BY <3>2, FS_EmptySet
      <3> QED
        BY <2>1, <2>2, <2>6, <3>3 DEF Account
    <2> QED
      BY <1>0, <2>2, <2>5, <2>6 DEF Current
  <1>5. ASSUME NEW t \in Threads, PushRefused(t) \/ PushRate(t) \/ PushInterval(t) PROVE Account(i)'
    BY <1>5, <1>a DEF PushRefused, PushRate, PushInterval, pushed, batch
  <1>6. CASE BeginBatch
    <2>1. UNCHANGED <<limits, free, takes>>
      BY <1>6 DEF BeginBatch, pushed
    <2>2. \A k \in Tasks : stage[k] # "delivering" /\ stage'[k] # "delivering"
      BY <1>6 DEF BeginBatch, Idle
    <2>3. UNCHANGED Entered(i)
      BY <2>2, EnteredStays
    <2>4. Account(i)
      BY <2>1 DEF BatchInv, Current
    <2> QED
      BY <2>1, <2>3, <2>4, AccountStays
  <1>7. ASSUME NEW j \in Tasks, Take(j) PROVE Account(i)'
    <2>1. UNCHANGED <<limits, free>>
      BY <1>7 DEF Take, pushed
    <2>2. stage[j] # "delivering" /\ stage'[j] # "delivering"
      BY <1>0, <1>7 DEF Take, Shapes
    <2>3. \A k \in Tasks : k # j => stage'[k] = stage[k] /\ takes'[k] = takes[k]
      BY <1>0, <1>7 DEF Take, Shapes
    <2>4. UNCHANGED Entered(i)
      BY <2>2, <2>3, EnteredStays
    <2>5. Account(i)
      BY <2>1 DEF BatchInv, Current
    <2> QED
      BY <2>1, <2>4, <2>5, AccountStays
  <1>8. ASSUME NEW j \in Tasks, Enter(j) PROVE Account(i)'
    <2>1. UNCHANGED <<limits, takes>> /\ stage[j] = "waiting" /\ stage'[j] = "delivering"
      BY <1>0, <1>8 DEF Enter, Shapes
    <2>2. \A k \in Tasks : k # j => stage'[k] = stage[k]
      BY <1>0, <1>8 DEF Enter, Shapes
    <2>3. Account(i) /\ i \in 1 .. Len(free) /\ free[i] \in Nat /\ limits[i] \in Nat
      <3>1. i \in 1 .. Current /\ i \in 1 .. Len(free)
        BY <1>0, <2>1 DEF Current, Shapes
      <3> QED
        BY <1>0, <3>1 DEF BatchInv, Shapes
    <2>4. takes[j] \in 1 .. Len(free)
      BY <1>0, <2>1 DEF Taken, Current, Shapes
    <2>5. CASE takes[j] # i
      <3>1. UNCHANGED free[i]
        BY <1>0, <1>8, <2>3, <2>4, <2>5 DEF Enter, Shapes
      <3>2. UNCHANGED Entered(i)
        BY <2>1, <2>2, <2>5, EnteredStays
      <3> QED
        BY <2>1, <2>3, <3>1, <3>2, AccountStays
    <2>6. CASE takes[j] = i
      <3>1. free'[i] = free[i] - 1
        BY <1>0, <1>8, <2>3, <2>6 DEF Enter, Shapes
      <3>2. Entered(i)' = Entered(i) \cup {j} /\ j \notin Entered(i)
        BY <2>1, <2>2, <2>6 DEF Entered, Delivering
      <3>3. IsFiniteSet(Entered(i)) /\ Cardinality(Entered(i)) \in Nat
        BY <2>3, FS_CardinalityType DEF Account
      <3>4. /\ IsFiniteSet(Entered(i)')
            /\ Cardinality(Entered(i)') = Cardinality(Entered(i)) + 1
        BY <3>2, <3>3, FS_AddElement
      <3>5. limits'[i] = limits[i] /\ free[i] + Cardinality(Entered(i)) = limits[i]
        BY <2>1, <2>3 DEF Account
      <3>6. free'[i] + Cardinality(Entered(i)') = limits'[i]
        BY <2>3, <3>1, <3>3, <3>4, <3>5
      <3> QED
        BY <3>4, <3>6 DEF Account
    <2> QED
      BY <2>5, <2>6
  <1>9. ASSUME NEW j \in Tasks, Leave(j) PROVE Account(i)'
    <2>1. UNCHANGED limits /\ stage[j] = "delivering" /\ stage'[j] = "none"
      BY <1>0, <1>9 DEF Leave, Shapes
    <2>2. \A k \in Tasks : k # j => stage'[k] = stage[k] /\ takes'[k] = takes[k]
      BY <1>0, <1>9 DEF Leave, Shapes
    <2>3. Account(i) /\ i \in 1 .. Len(free) /\ free[i] \in Nat /\ limits[i] \in Nat
      <3>1. i \in 1 .. Current /\ i \in 1 .. Len(free)
        BY <1>0, <2>1 DEF Current, Shapes
      <3> QED
        BY <1>0, <3>1 DEF BatchInv, Shapes
    <2>4. takes[j] \in 1 .. Len(free)
      BY <1>0, <2>1 DEF Taken, Current, Shapes
    <2>5. CASE takes[j] # i
      <3>1. UNCHANGED free[i]
        BY <1>0, <1>9, <2>3, <2>4, <2>5 DEF Leave, Released, Shapes
      <3>2. UNCHANGED Entered(i)
        BY <2>1, <2>2, <2>5, EnteredStays
      <3> QED
        BY <2>1, <2>3, <3>1, <3>2, AccountStays
    <2>6. CASE takes[j] = i
      <3>1. free'[i] = free[i] + 1
        BY <1>0, <1>9, <2>3, <2>6 DEF Leave, Released, Shapes
      <3>2. Entered(i)' = Entered(i) \ {j} /\ j \in Entered(i)
        BY <2>1, <2>2, <2>6 DEF Entered, Delivering
      <3>3. IsFiniteSet(Entered(i)) /\ Cardinality(Entered(i)) \in Nat
        BY <2>3, FS_CardinalityType DEF Account
      <3>4. /\ IsFiniteSet(Entered(i)')
            /\ Cardinality(Entered(i)') = Cardinality(Entered(i)) - 1
        BY <3>2, <3>3, FS_RemoveElement
      <3>5. limits'[i] = limits[i] /\ free[i] + Cardinality(Entered(i)) = limits[i]
        BY <2>1, <2>3 DEF Account
      <3>6. free'[i] + Cardinality(Entered(i)') = limits'[i]
        BY <2>3, <3>1, <3>3, <3>4, <3>5
      <3> QED
        BY <3>4, <3>6 DEF Account
    <2> QED
      BY <2>5, <2>6
  <1>10. CASE UNCHANGED vars
    BY <1>10, <1>a DEF vars, pushed, batch
  <1> QED
    BY <1>1, <1>2, <1>3, <1>4, <1>5, <1>6, <1>7, <1>8, <1>9, <1>10
       DEF Next, Reload, Push, Deliver

LEMMA BatchStart == Init => BatchInv
  <1> SUFFICES ASSUME Init PROVE BatchInv
    OBVIOUS
  <1>1. Shapes
    BY ShapesStart
  <1>2. \A k \in Tasks : stage[k] = "none"
    BY DEF Init
  <1>3. ASSUME NEW i \in 1 .. Current PROVE Account(i)
    <2>1. Entered(i) = {}
      BY <1>2 DEF Entered, Delivering
    <2>2. IsFiniteSet(Entered(i)) /\ Cardinality(Entered(i)) = 0
      BY <2>1, FS_EmptySet
    <2>3. free[i] = limits[i] /\ free[i] \in Nat
      BY <1>1 DEF Init, Shapes, Current
    <2> QED
      BY <2>2, <2>3 DEF Account
  <1> QED
    BY <1>1, <1>2, <1>3 DEF BatchInv, Taken

LEMMA BatchKept == BatchInv /\ [Next]_vars => BatchInv'
  <1> SUFFICES ASSUME BatchInv, [Next]_vars PROVE BatchInv'
    OBVIOUS
  <1>1. Shapes'
    BY ShapesKept DEF BatchInv
  <1>2. \A k \in Tasks : Taken(k)'
    BY TakenKept DEF BatchInv
  <1>3. \A i \in 1 .. Current' : Account(i)'
    BY AccountKept
  <1> QED
    BY <1>1, <1>2, <1>3 DEF BatchInv

\* A task in a delivery holds a semaphore of its batch, and no semaphore lets
\* in more than its limit: a semaphore's value never goes below zero, and only
\* the semaphore that was taken is released.
LEMMA BatchWithinLimits == BatchInv => LimitsOfBatch
  <1> SUFFICES ASSUME BatchInv PROVE LimitsOfBatch
    OBVIOUS
  <1>1. \A k \in Delivering : takes[k] \in InForce
    BY DEF BatchInv, Delivering, Taken, InForce
  <1>2. ASSUME NEW i \in InForce PROVE Cardinality(Entered(i)) <= limits[i]
    <2>1. Len(limits) \in Nat /\ Len(free) = Len(limits) /\ i \in 1 .. Current
      BY DEF BatchInv, Shapes, InForce, Current
    <2>2. Account(i) /\ free[i] \in Nat /\ limits[i] \in Nat
      BY <2>1 DEF BatchInv, Shapes, Current
    <2>3. Cardinality(Entered(i)) \in Nat
      BY <2>2, FS_CardinalityType DEF Account
    <2>4. free[i] + Cardinality(Entered(i)) = limits[i]
      BY <2>2 DEF Account
    <2> QED
      BY <2>2, <2>3, <2>4
  <1> QED
    BY <1>1, <1>2 DEF LimitsOfBatch

\* In every reachable state, whatever reloads replace the semaphore while
\* tasks wait on it, the deliveries in progress keep to the limits of the
\* semaphores in force since their batch began.
THEOREM LimitsHold == Spec => []LimitsOfBatch
<1>1. Init => BatchInv
  BY BatchStart
<1>2. BatchInv /\ [Next]_vars => BatchInv'
  BY BatchKept
<1>3. BatchInv => LimitsOfBatch
  BY BatchWithinLimits
<1> QED
  BY <1>1, <1>2, <1>3, PTL DEF Spec

-----------------------------------------------------------------------------
(* One configuration.  Only the thread that holds the lock is beyond the    *)
(* call; what it has pushed so far is what Settings holds, and the rest is  *)
(* what the last callback that returned has left.                           *)

Inside(t) == reloading[t] \notin {"idle", "called"}

Lock == \A t, u \in Threads : Inside(t) /\ Inside(u) => t = u

\* Somewhere between the push of the concurrency (of the rate) and the end.
ConcurrencyPushed == \E t \in Threads : reloading[t] \in {"concurrency", "rate"}
RatePushed        == \E t \in Threads : reloading[t] = "rate"

ConfigInv ==
    /\ Shapes
    /\ Lock
    /\ interval = usable["interval"]
    /\ rate = IF RatePushed THEN settings["rate"] ELSE usable["rate"]
    /\ limits[Current] = IF ConcurrencyPushed THEN settings["concurrency"] ELSE usable["concurrency"]

LEMMA ConfigStart == Init => ConfigInv
  <1> SUFFICES ASSUME Init PROVE ConfigInv
    OBVIOUS
  <1>1. Shapes
    BY ShapesStart
  <1>2. \A t \in Threads : reloading[t] = "idle"
    BY DEF Init
  <1>3. Lock /\ ~RatePushed /\ ~ConcurrencyPushed
    BY <1>2 DEF Lock, Inside, RatePushed, ConcurrencyPushed
  <1>4. /\ interval = usable["interval"]
        /\ rate = usable["rate"]
        /\ limits[Current] = usable["concurrency"]
    BY DEF Init, Current
  <1> QED
    BY <1>1, <1>3, <1>4 DEF ConfigInv

\* Only a thread that finds the lock free gets inside.
LEMMA LockKept == Shapes /\ Lock /\ [Next]_vars => Lock'
  <1> SUFFICES ASSUME Shapes, Lock, [Next]_vars PROVE Lock'
    OBVIOUS
  <1>a. ASSUME \A t \in Threads : Inside(t)' => Inside(t) PROVE Lock'
    BY <1>a DEF Lock
  <1>1. CASE UNCHANGED reloading
    BY <1>1, <1>a DEF Inside
  <1>2. ASSUME NEW t \in Threads, Call(t) PROVE Lock'
    BY <1>2, <1>a DEF Call, Goes, Inside, Shapes
  <1>3. ASSUME NEW t \in Threads, ReadEnvironment(t) PROVE Lock'
    BY <1>3 DEF ReadEnvironment, LockFree, Goes, Lock, Inside, Shapes
  <1>4. ASSUME NEW t \in Threads, NEW from \in Places \ {"idle", "called"}, NEW to, Goes(t, from, to)
        PROVE  Lock'
    BY <1>4, <1>a DEF Goes, Inside, Shapes
  <1>5. ASSUME NEW t \in Threads, ReadFile(t) \/ Push(t) PROVE Lock'
    BY <1>4, <1>5 DEF ReadFile, Push, PushConcurrency, PushRefused, PushRate, PushInterval, Places
  <1>6. UNCHANGED reloading \/ \E t \in Threads : Call(t) \/ ReadEnvironment(t) \/ ReadFile(t) \/ Push(t)
    BY DEF Next, Reload, Edit, BeginBatch, Deliver, Take, Enter, Leave, vars
  <1> QED
    BY <1>1, <1>2, <1>3, <1>5, <1>6

\* A thread that is inside is there alone, before and after its step.
LEMMA Alone ==
    ASSUME Shapes, Lock, NEW t \in Threads, NEW from, NEW to, Goes(t, from, to),
           from \in Places \ {"idle", "called"}
    PROVE  /\ ConcurrencyPushed <=> from \in {"concurrency", "rate"}
           /\ RatePushed <=> from = "rate"
           /\ ConcurrencyPushed' <=> to \in {"concurrency", "rate"}
           /\ RatePushed' <=> to = "rate"
  <1>1. reloading[t] = from /\ reloading'[t] = to
    BY DEF Goes, Shapes
  <1>2. \A u \in Threads : u # t => /\ reloading[u] \in {"idle", "called"}
                                    /\ reloading'[u] = reloading[u]
    BY <1>1 DEF Goes, Shapes, Lock, Inside
  <1> QED
    BY <1>1, <1>2 DEF ConcurrencyPushed, RatePushed

LEMMA ConfigKept == ConfigInv /\ BatchInv /\ [Next]_vars => ConfigInv'
  <1> SUFFICES ASSUME ConfigInv, BatchInv, [Next]_vars PROVE ConfigInv'
    OBVIOUS
  <1>0. Shapes /\ Lock /\ Len(limits) \in Nat
    BY DEF ConfigInv, Shapes
  <1>1. Shapes' /\ Lock'
    BY <1>0, ShapesKept, LockKept DEF BatchInv
  <1>a. ASSUME UNCHANGED <<settings, limits, rate, interval, usable>>,
               ConcurrencyPushed' <=> ConcurrencyPushed, RatePushed' <=> RatePushed
        PROVE  ConfigInv'
    BY <1>1, <1>a DEF ConfigInv, Current
  <1>b. ASSUME UNCHANGED <<settings, limits, rate, interval, usable, reloading>> PROVE ConfigInv'
    BY <1>a, <1>b DEF ConcurrencyPushed, RatePushed
  <1>2. CASE Edit \/ BeginBatch
    BY <1>2, <1>b DEF Edit, BeginBatch, config, pushed, history
  <1>3. ASSUME NEW k \in Tasks, Deliver(k) PROVE ConfigInv'
    BY <1>3, <1>b DEF Deliver, Take, Enter, Leave, config, pushed, history
  <1>4. ASSUME NEW t \in Threads, Call(t) PROVE ConfigInv'
    <2>1. UNCHANGED <<settings, limits, rate, interval, usable>>
      BY <1>4 DEF Call, config, pushed
    <2>2. /\ ConcurrencyPushed' <=> ConcurrencyPushed
          /\ RatePushed' <=> RatePushed
      BY <1>0, <1>4 DEF Call, Goes, Shapes, ConcurrencyPushed, RatePushed
    <2> QED
      BY <1>a, <2>1, <2>2
  <1>5. ASSUME NEW t \in Threads, ReadEnvironment(t) PROVE ConfigInv'
    <2>1. UNCHANGED <<limits, rate, interval, usable>>
      BY <1>5 DEF ReadEnvironment, pushed, history
    <2>2. ~ConcurrencyPushed /\ ~RatePushed
      BY <1>5 DEF ReadEnvironment, LockFree, ConcurrencyPushed, RatePushed
    <2>3. ~ConcurrencyPushed' /\ ~RatePushed'
      BY <1>0, <1>5, <2>2 DEF ReadEnvironment, Goes, Shapes, ConcurrencyPushed, RatePushed
    <2> QED
      BY <1>1, <2>1, <2>2, <2>3 DEF ConfigInv, Current
  <1>6. ASSUME NEW t \in Threads, ReadFile(t) PROVE ConfigInv'
    <2>1. UNCHANGED <<limits, rate, interval, usable>> /\ Goes(t, "environment", "loaded")
      BY <1>6 DEF ReadFile, pushed, history
    <2>2. ~ConcurrencyPushed /\ ~RatePushed /\ ~ConcurrencyPushed' /\ ~RatePushed'
      BY <1>0, <2>1, Alone DEF Places
    <2> QED
      BY <1>1, <2>1, <2>2 DEF ConfigInv, Current
  <1>7. ASSUME NEW t \in Threads, PushConcurrency(t) PROVE ConfigInv'
    <2>1. UNCHANGED <<settings, rate, interval, usable>> /\ Goes(t, "loaded", "concurrency")
      BY <1>7 DEF PushConcurrency, config, history
    <2>2. ConcurrencyPushed' /\ ~RatePushed /\ ~RatePushed'
      BY <1>0, <2>1, Alone DEF Places
    <2>3. settings["concurrency"] \in Nat
      BY <1>0, <1>7 DEF PushConcurrency, Shapes, Keys
    <2>4. limits'[Len(limits')] = settings["concurrency"]
      BY <1>0, <1>7, <2>3, UpdateShape DEF PushConcurrency
    <2> QED
      BY <1>1, <2>1, <2>2, <2>4 DEF ConfigInv, Current
  <1>8. ASSUME NEW t \in Threads, PushRefused(t) PROVE ConfigInv'
    <2>1. UNCHANGED <<settings, limits, rate, interval, usable>> /\ Goes(t, "loaded", "idle")
      BY <1>8 DEF PushRefused, AfterRefusal, config, pushed, history
    <2>2. ~ConcurrencyPushed /\ ~RatePushed /\ ~ConcurrencyPushed' /\ ~RatePushed'
      BY <1>0, <2>1, Alone DEF Places
    <2> QED
      BY <1>a, <2>1, <2>2
  <1>9. ASSUME NEW t \in Threads, PushRate(t) PROVE ConfigInv'
    <2>1. /\ UNCHANGED <<settings, limits, interval, usable>>
          /\ rate' = settings["rate"]
          /\ Goes(t, "concurrency", "rate")
      BY <1>9 DEF PushRate, config, history
    <2>2. ConcurrencyPushed /\ ConcurrencyPushed' /\ RatePushed'
      BY <1>0, <2>1, Alone DEF Places
    <2> QED
      BY <1>1, <2>1, <2>2 DEF ConfigInv, Current
  <1>10. ASSUME NEW t \in Threads, PushInterval(t) PROVE ConfigInv'
    <2>1. /\ UNCHANGED <<settings, limits, rate>>
          /\ interval' = settings["interval"] /\ usable' = settings
          /\ Goes(t, "rate", "idle")
      BY <1>10 DEF PushInterval, config
    <2>2. ConcurrencyPushed /\ RatePushed /\ ~ConcurrencyPushed' /\ ~RatePushed'
      BY <1>0, <2>1, Alone DEF Places
    <2> QED
      BY <1>1, <2>1, <2>2 DEF ConfigInv, Current
  <1>11. CASE UNCHANGED vars
    BY <1>11, <1>b DEF vars, config, pushed, history
  <1> QED
    BY <1>2, <1>3, <1>4, <1>5, <1>6, <1>7, <1>8, <1>9, <1>10, <1>11 DEF Next, Reload, Push

\* Whatever the files say and however calls of two threads meet, when none is
\* inside reload the components hold the settings of the last callback that
\* returned, all three of one call.
THEOREM ComponentsAgree == Spec => []OneConfiguration
<1> DEFINE I == ConfigInv /\ BatchInv
<1>1. Init => I
  BY ConfigStart, BatchStart
<1>2. I /\ [Next]_vars => I'
  BY ConfigKept, BatchKept
<1>3. I => OneConfiguration
  <2> SUFFICES ASSUME ConfigInv, LockFree
               PROVE  /\ limits[Current] = usable["concurrency"]
                      /\ rate = usable["rate"]
                      /\ interval = usable["interval"]
    BY DEF OneConfiguration
  <2>1. ~ConcurrencyPushed /\ ~RatePushed
    BY DEF LockFree, ConcurrencyPushed, RatePushed
  <2> QED
    BY <2>1 DEF ConfigInv
<1> QED
  BY <1>1, <1>2, <1>3, PTL DEF Spec
=============================================================================
