------------------------------ MODULE HotReload ------------------------------
(***************************************************************************)
(* POST /admin/reload-config: Settings.reload (config.py) reads the        *)
(* environment and then the configuration file into the settings, and the  *)
(* callback of main.py pushes three of them into the components that keep  *)
(* a copy: the dispatcher's semaphore, the limiter's global rate and the   *)
(* checker's interval.  A reload runs in a thread of the API while the     *)
(* dispatcher's loop goes on: the tasks of a batch take whichever          *)
(* semaphore they find, and wait on it and release it whatever a reload    *)
(* has put in its place (core/dispatcher.py).                              *)
(*                                                                         *)
(* The operator replaces the file at any time.  A value that int() refuses *)
(* ends the pass over the file; a negative concurrency ends the callback.  *)
(* The environment of a running process does not change.                   *)
(***************************************************************************)
EXTENDS Integers, FiniteSets, Sequences

CONSTANTS
    Tasks,          \* delivery tasks of a batch
    Threads,        \* API worker threads
    Environment,    \* what the environment says, or the defaults
    Files,          \* contents of the file: sequences of [key, value]
    Bad,            \* a value that int() refuses, or the end of valid JSON
    MaxReloads      \* bound: reload calls

Keys    == {"concurrency", "rate", "interval"}
Entries == [key : Keys, value : Int \cup {Bad}]

ASSUME EnvironmentAssumption == Environment \in [Keys -> Int] /\ Environment["concurrency"] >= 0
ASSUME FilesAssumption == \A f \in Files : f \in Seq(Entries)
ASSUME BoundAssumption == MaxReloads \in Nat

VARIABLES
    file,       \* the configuration file
    settings,   \* what Settings holds for each key
    reloading,  \* where a thread's call of reload is
    rate,       \* the limiter's _global_rate
    interval,   \* the checker's _interval
    limits,     \* the concurrency each semaphore was made with, oldest first
    free,       \* the value of each semaphore
    stage,      \* where a task of the batch is
    takes,      \* the semaphore a task has taken
    \* history
    began,      \* the semaphore in force when the batch began
    usable,     \* the settings after the last reload whose callback returned
    reloads     \* reload calls

config  == <<file, settings>>
pushed  == <<rate, interval, limits, free>>
batch   == <<stage, takes, began>>
history == <<usable, reloads>>
vars    == <<config, reloading, pushed, batch, history>>

\* The semaphore in force.
Current == Len(limits)

Init ==
    /\ file = <<>>
    /\ settings = Environment
    /\ reloading = [t \in Threads |-> "idle"]
    /\ rate = Environment["rate"]
    /\ interval = Environment["interval"]
    /\ limits = <<Environment["concurrency"]>>
    /\ free = <<Environment["concurrency"]>>
    /\ stage = [k \in Tasks |-> "none"]
    /\ takes = [k \in Tasks |-> 0]
    /\ began = 1
    /\ usable = Environment
    /\ reloads = 0

-----------------------------------------------------------------------------
(* A reload.                                                               *)

\* The operator edits the file.
Edit ==
    /\ \E f \in Files \ {file} : file' = f
    /\ UNCHANGED <<settings, reloading, pushed, batch, history>>

Goes(t, from, to) ==
    /\ reloading[t] = from
    /\ reloading' = [reloading EXCEPT ![t] = to]

Call(t) ==
    /\ reloads < MaxReloads
    /\ Goes(t, "idle", "called")
    /\ reloads' = reloads + 1
    /\ UNCHANGED <<config, pushed, batch, usable>>

LockFree == \A t \in Threads : reloading[t] \in {"idle", "called"}

\* With the lock held: every setting gets the environment's value first.
ReadEnvironment(t) ==
    /\ LockFree
    /\ Goes(t, "called", "environment")
    /\ settings' = Environment
    /\ UNCHANGED <<file, pushed, batch, history>>

\* The entries up to the first bad one.
Readable(f) == [i \in {n \in DOMAIN f : \A j \in 1 .. n : f[j].value # Bad} |-> f[i]]

Says(f, k) == {f[i].value : i \in {j \in DOMAIN f : f[j].key = k}}

ReadFile(t) ==
    /\ Goes(t, "environment", "loaded")
    /\ settings' = [k \in Keys |->
            IF Says(Readable(file), k) = {} THEN settings[k]
            ELSE CHOOSE v \in Says(Readable(file), k) : TRUE]
    /\ UNCHANGED <<file, pushed, batch, history>>

-----------------------------------------------------------------------------
(* The callback: concurrency, rate, interval, in this order.  The exception *)
(* of a semaphore of negative value ends it before anything is pushed.      *)

\* Mutant: the semaphore in force grows by the new limit.
UpdateConcurrency_Adds(n) ==
    /\ limits' = [limits EXCEPT ![Current] = n]
    /\ free' = [free EXCEPT ![Current] = @ + n]

UpdateConcurrency(n) ==
    /\ limits' = Append(limits, n)
    /\ free' = Append(free, n)

\* Mutant: the callback goes on after the exception.
AfterRefusal_GoesOn == "concurrency"

AfterRefusal == "idle"

PushConcurrency(t) ==
    /\ settings["concurrency"] >= 0
    /\ Goes(t, "loaded", "concurrency")
    /\ UpdateConcurrency(settings["concurrency"])
    /\ UNCHANGED <<config, rate, interval, batch, history>>

PushRefused(t) ==
    /\ settings["concurrency"] < 0
    /\ Goes(t, "loaded", AfterRefusal)
    /\ UNCHANGED <<config, pushed, batch, history>>

PushRate(t) ==
    /\ Goes(t, "concurrency", "rate")
    /\ rate' = settings["rate"]
    /\ UNCHANGED <<config, interval, limits, free, batch, history>>

\* The last of the callback; the lock is released.
PushInterval(t) ==
    /\ Goes(t, "rate", "idle")
    /\ interval' = settings["interval"]
    /\ usable' = settings
    /\ UNCHANGED <<config, rate, limits, free, batch, reloads>>

-----------------------------------------------------------------------------
(* The dispatcher: a batch of tasks, each behind the semaphore it finds.   *)

Idle == \A k \in Tasks : stage[k] = "none"

BeginBatch ==
    /\ Idle
    /\ \E some \in SUBSET Tasks \ {{}} :
        stage' = [k \in Tasks |-> IF k \in some THEN "created" ELSE "none"]
    /\ began' = Current
    /\ UNCHANGED <<config, reloading, pushed, takes, history>>

\* async with self._semaphore: the attribute is read once.
Take(k) ==
    /\ stage[k] = "created"
    /\ stage' = [stage EXCEPT ![k] = "waiting"]
    /\ takes' = [takes EXCEPT ![k] = Current]
    /\ UNCHANGED <<config, reloading, pushed, began, history>>

Enter(k) ==
    /\ stage[k] = "waiting"
    /\ free[takes[k]] > 0
    /\ free' = [free EXCEPT ![takes[k]] = @ - 1]
    /\ stage' = [stage EXCEPT ![k] = "delivering"]
    /\ UNCHANGED <<config, reloading, rate, interval, limits, takes, began, history>>

\* Mutant: the semaphore in force is released, not the one that was taken.
Released_Current(k) == Current

Released(k) == takes[k]

Leave(k) ==
    /\ stage[k] = "delivering"
    /\ free' = [free EXCEPT ![Released(k)] = @ + 1]
    /\ stage' = [stage EXCEPT ![k] = "none"]
    /\ takes' = [takes EXCEPT ![k] = 0]
    /\ UNCHANGED <<config, reloading, rate, interval, limits, began, history>>

-----------------------------------------------------------------------------
Push(t) == PushConcurrency(t) \/ PushRefused(t) \/ PushRate(t) \/ PushInterval(t)

Reload(t) == ReadEnvironment(t) \/ ReadFile(t) \/ Push(t)

Deliver(k) == Take(k) \/ Enter(k) \/ Leave(k)

Next ==
    \/ Edit
    \/ \E t \in Threads : Call(t) \/ Reload(t)
    \/ BeginBatch
    \/ \E k \in Tasks : Deliver(k)

Spec == Init /\ [][Next]_vars

\* Tasks run when they can, and every delivery ends by its timeout.
Fairness == \A k \in Tasks : WF_vars(Deliver(k))

FairSpec == Spec /\ Fairness

-----------------------------------------------------------------------------
(* Properties.                                                             *)

Delivering == {k \in Tasks : stage[k] = "delivering"}

\* The deliveries that semaphore i has let in.
Entered(i) == {k \in Delivering : takes[k] = i}

InForce == began .. Current

\* Every delivery in progress has taken a semaphore that was in force since
\* its batch began, and none of these has let in more than its limit: a reload
\* may let more deliveries run than its own limit says, up to all these limits
\* together, and only until the batch ends (dispatcher.py replaces the
\* semaphore under its waiters).
LimitsOfBatch ==
    /\ \A k \in Delivering : takes[k] \in InForce
    /\ \A i \in InForce : Cardinality(Entered(i)) <= limits[i]

\* When no reload is under way, the dispatcher, the limiter and the checker
\* work with the settings of one and the same reload, the last one whose
\* callback returned: a file that cannot be applied changes none of them.
OneConfiguration ==
    LockFree =>
        /\ limits[Current] = usable["concurrency"]
        /\ rate = usable["rate"]
        /\ interval = usable["interval"]

\* Waiting on a semaphore that admits nobody.
Stalled == \E k \in Tasks : stage[k] = "waiting" /\ limits[takes[k]] = 0

\* A batch ends whatever reloads come meanwhile, its tasks on the old
\* semaphore included, unless one of them has taken a semaphore of zero: that
\* one waits for ever, and no later reload helps it.
BatchEnds == ~Idle ~> Idle \/ Stalled
=============================================================================
