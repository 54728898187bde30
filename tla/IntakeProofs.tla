---------------------------- MODULE IntakeProofs ----------------------------
(***************************************************************************)
(* Theorems about Intake, for any number of threads, keys, letters and     *)
(* deletes.                                                                *)
(*                                                                         *)
(* The argument is about the write lock.  Whoever has flushed a row holds  *)
(* it, so that nobody else commits a row before the end of the request:    *)
(* what the thread found missing under the lock is still missing when it   *)
(* inserts it, a duplicate can meet only the first flush of a route, and   *)
(* the rollback it causes takes nothing back that the response names.      *)
(***************************************************************************)
EXTENDS Intake, TLAPS

\* Every insert of a key is there, or was deleted.
Counted == \A k \in AllKeys : made[k] = removed[k] + IF k \in rows THEN 1 ELSE 0

\* Only a route has rows in the open transaction; they are missing from the
\* table, and so is the row a thread is to flush under the lock.
Locks(t) ==
    /\ req[t].at \notin {"look", "flush"} => req[t].flushed = {}
    /\ req[t].flushed \cap rows = {}
    /\ req[t].at = "flush" /\ writer = t => req[t].row \cap rows = {}

\* A replay is about letters that were buried, any other request about keys,
\* a flush about one.
Rowed(t) ==
    /\ req[t].at # "replay" => req[t].row \subseteq Keys
    /\ req[t].at = "flush" => \E k \in Keys : req[t].row = {k}
    /\ req[t].at = "replay" =>
        /\ req[t].row \subseteq Letters
        /\ \A l \in req[t].row : letter[l] # "none"

\* What a route has for its response is flushed or stored; what it has to
\* reach is also still to be looked at or to be flushed.
Promises(t) ==
    /\ \A k \in req[t].created : k \in req[t].flushed \/ made[k] > 0
    /\ \A k \in req[t].goal :
        \/ k \in req[t].todo \cup req[t].flushed
        \/ req[t].at = "flush" /\ k \in req[t].row
        \/ made[k] > 0

IInv ==
    /\ TypeOK
    /\ Counted
    /\ \A t \in Threads : Locks(t) /\ Rowed(t) /\ Promises(t)
    /\ AnsweredIsStored
    /\ RouteReaches
    /\ MarkedIffCopied

LEMMA NoRequestTyped == NoRequest \in Requests
  BY DEF NoRequest, Requests

LEMMA InitIInv == Init => IInv
  BY NoRequestTyped, ThreadsAssumption
  DEF Init, IInv, TypeOK, Counted, Locks, Rowed, Promises, AnsweredIsStored,
      RouteReaches, MarkedIffCopied, NoRequest, Requests, AllKeys

-----------------------------------------------------------------------------
(* Steps that commit nothing.                                              *)

\* A step of thread t that leaves the table, the letters and the history
\* alone keeps the invariant if it leaves t a request that satisfies it.
LEMMA QuietStep ==
  ASSUME IInv, NEW t \in Threads, NEW r \in Requests,
         Become(t, r), UNCHANGED <<db, history>>,
         writer' = writer \/ (Writable(t) /\ writer' \in {NoThread, t}),
         r.flushed # {} <=> writer' = t,
         Locks(t)', Rowed(t)', Promises(t)'
  PROVE  IInv'
<1>1. UNCHANGED <<rows, letter, made, removed, answered, routed>>
  BY DEF db, history
<1>2. req' \in [Threads -> Requests] /\ req'[t] = r
  BY DEF Become, IInv, TypeOK
<1>3. \A u \in Threads \ {t} : req'[u] = req[u] /\ (writer' = u <=> writer = u)
  BY ThreadsAssumption DEF Become, IInv, TypeOK, Writable
<1>4. TypeOK'
  BY <1>1, <1>2, <1>3 DEF IInv, TypeOK
<1>5. \A u \in Threads : Locks(u)' /\ Rowed(u)' /\ Promises(u)'
  <2>1. TAKE u \in Threads
  <2>2. CASE u = t
    BY <2>2
  <2>3. CASE u # t
    BY <1>1, <1>3, <2>3 DEF IInv, Locks, Rowed, Promises
  <2> QED
    BY <2>2, <2>3
<1> QED
  BY <1>1, <1>4, <1>5 DEF IInv, Counted, AnsweredIsStored, RouteReaches, MarkedIffCopied

\* The same for the steps whose effect on the response is all there is.
LEMMA QuietSteps ==
  ASSUME IInv, NEW t \in Threads,
         \/ \E k \in Keys : IngestMisses(t, k) \/ RouteSkips(t, k)
                               \/ RouteFinds(t, k) \/ RouteMisses(t, k)
         \/ IngestLoses(t) \/ RouteStart(t) \/ RouteFlush(t) \/ RouteLoses(t)
         \/ ReplayRead(t) \/ ReplayFails(t) \/ Fails(t)
  PROVE  IInv'
<1> USE ThreadsAssumption
<1>t. /\ req[t] \in Requests /\ (req[t].flushed # {} <=> writer = t)
      /\ Locks(t) /\ Rowed(t) /\ Promises(t)
      /\ req \in [Threads -> Requests]
  BY DEF IInv, TypeOK
<1>0. /\ NoRequest \in Requests
      /\ NoRequest = [at |-> "none", row |-> {}, todo |-> {},
                      flushed |-> {}, created |-> {}, goal |-> {}]
  BY NoRequestTyped DEF NoRequest
<1>1. ASSUME NEW k \in Keys, IngestMisses(t, k) PROVE IInv'
  <2> DEFINE r == [NoRequest EXCEPT !.at = "insert", !.row = {k}]
  <2>1. r \in Requests /\ Become(t, r) /\ UNCHANGED <<db, history, writer>>
    BY <1>1, <1>0 DEF IngestMisses, Requests, AllKeys
  <2>2. req'[t] = r
    BY <1>t, <2>1 DEF Become
  <2>a. req[t] = NoRequest
    BY <1>1 DEF IngestMisses
  <2>3. writer # t /\ r.flushed = {}
    BY <1>t, <1>0, <2>a
  <2>4. Locks(t)' /\ Rowed(t)' /\ Promises(t)'
    BY <2>1, <2>2, <1>0 DEF Locks, Rowed, Promises
  <2>5. r.flushed # {} <=> writer' = t
    BY <2>1, <2>3
  <2> HIDE DEF r
  <2> QED
    BY <2>1, <2>4, <2>5, QuietStep
<1>2. ASSUME NEW k \in Keys, RouteSkips(t, k) PROVE IInv'
  <2> DEFINE r == [req[t] EXCEPT !.todo = @ \ {k}, !.goal = @ \ {k}]
  <2>1. r \in Requests /\ Become(t, r) /\ UNCHANGED <<db, history, writer>>
    BY <1>2, <1>t DEF RouteSkips, Requests
  <2>2. req'[t] = r /\ req[t].at = "look"
    BY <1>t, <1>2, <2>1 DEF Become, RouteSkips, Looks
  <2>3. Locks(t)' /\ Rowed(t)' /\ Promises(t)'
    BY <2>1, <2>2, <1>t DEF Locks, Rowed, Promises, Requests, db, history
  <2> QED
    BY <2>1, <2>2, <2>3, <1>t, QuietStep DEF Requests
<1>3. ASSUME NEW k \in Keys, RouteFinds(t, k) PROVE IInv'
  <2> DEFINE r == [req[t] EXCEPT !.todo = @ \ {k}, !.created = @ \cup {k}]
  <2>1. r \in Requests /\ Become(t, r) /\ UNCHANGED <<db, history, writer>>
    BY <1>3, <1>t DEF RouteFinds, Requests
  <2>2. req'[t] = r /\ req[t].at = "look" /\ k \in rows
    BY <1>t, <1>3, <2>1 DEF Become, RouteFinds, Looks
  <2>3. made[k] > 0
    BY <2>2 DEF IInv, TypeOK, Counted
  <2>4. Locks(t)' /\ Rowed(t)' /\ Promises(t)'
    BY <2>1, <2>2, <2>3, <1>t DEF Locks, Rowed, Promises, Requests, db, history
  <2> QED
    BY <2>1, <2>2, <2>4, <1>t, QuietStep DEF Requests
<1>4. ASSUME NEW k \in Keys, RouteMisses(t, k) PROVE IInv'
  <2> DEFINE r == [req[t] EXCEPT !.at = "flush", !.row = {k}, !.todo = @ \ {k}]
  <2>1. r \in Requests /\ Become(t, r) /\ UNCHANGED <<db, history, writer>>
    BY <1>4, <1>t DEF RouteMisses, Requests, AllKeys
  <2>2. req'[t] = r /\ req[t].at = "look" /\ k \notin rows
    BY <1>t, <1>4, <2>1 DEF Become, RouteMisses, Looks
  <2>3. Locks(t)' /\ Rowed(t)' /\ Promises(t)'
    BY <2>1, <2>2, <1>t DEF Locks, Rowed, Promises, Requests, db, history
  <2> QED
    BY <2>1, <2>2, <2>3, <1>t, QuietStep DEF Requests
<1>5. CASE IngestLoses(t)
  <2> DEFINE r == [req[t] EXCEPT !.at = "again"]
  <2>1. r \in Requests /\ Become(t, r) /\ UNCHANGED <<db, history, writer>>
    BY <1>5, <1>t DEF IngestLoses, Requests
  <2>2. req'[t] = r /\ req[t].at = "insert"
    BY <1>t, <1>5, <2>1 DEF Become, IngestLoses
  <2>3. Locks(t)' /\ Rowed(t)' /\ Promises(t)'
    BY <2>1, <2>2, <1>t DEF Locks, Rowed, Promises, Requests, db, history
  <2> QED
    BY <2>1, <2>2, <2>3, <1>t, QuietStep DEF Requests
<1>6. CASE RouteStart(t)
  <2>1. PICK S \in SUBSET Keys \ {{}} :
            /\ req[t] = NoRequest
            /\ Become(t, [NoRequest EXCEPT !.at = "look", !.todo = S, !.goal = S])
            /\ UNCHANGED <<db, writer, history>>
    BY <1>6 DEF RouteStart
  <2> DEFINE r == [NoRequest EXCEPT !.at = "look", !.todo = S, !.goal = S]
  <2>2. r \in Requests /\ Become(t, r) /\ UNCHANGED <<db, history, writer>>
    BY <2>1, <1>0 DEF Requests
  <2>3. req'[t] = r /\ writer # t
    BY <1>t, <1>0, <2>1, <2>2 DEF Become
  <2>4. Locks(t)' /\ Rowed(t)' /\ Promises(t)'
    BY <2>2, <2>3, <1>0 DEF Locks, Rowed, Promises
  <2> QED
    BY <2>2, <2>3, <2>4, <1>0, QuietStep
<1>7. CASE RouteFlush(t)
  <2> DEFINE r == [req[t] EXCEPT !.at = "look", !.row = {},
                                 !.flushed = @ \cup req[t].row,
                                 !.created = @ \cup req[t].row]
  <2>1. /\ Become(t, r) /\ UNCHANGED <<db, history>>
        /\ Writable(t) /\ writer' = t
        /\ req[t].at = "flush" /\ req[t].row \cap rows = {}
    BY <1>7 DEF RouteFlush, Locked
  <2>2. r \in Requests /\ req[t].row \subseteq Keys
    BY <1>t, <2>1 DEF Rowed, Requests
  <2>3. req'[t] = r
    BY <1>t, <2>1 DEF Become
  <2>4. Locks(t)' /\ Rowed(t)' /\ Promises(t)'
    BY <2>1, <2>2, <2>3, <1>t DEF Locks, Rowed, Promises, Requests, db, history
  <2>5. r.flushed # {}
    BY <2>1, <1>t DEF Requests, Rowed
  <2> QED
    BY <2>1, <2>2, <2>4, <2>5, QuietStep
<1>8. CASE RouteLoses(t)
  <2> DEFINE r == [req[t] EXCEPT !.at = "look", !.row = {}, !.flushed = {}]
  <2>1. /\ Become(t, r) /\ UNCHANGED <<db, history>>
        /\ Writable(t) /\ writer' = NoThread
        /\ req[t].at = "flush" /\ req[t].row \cap rows # {}
    BY <1>8 DEF RouteLoses
  <2>2. r \in Requests /\ req'[t] = r
    BY <1>t, <2>1 DEF Become, Requests
  <2>3. req[t].flushed = {}
    BY <2>1, <1>t DEF Locks
  <2>a. \A k \in req[t].row : made[k] > 0
    BY <2>1, <1>t DEF Rowed, IInv, TypeOK, Counted, AllKeys
  <2>4. Locks(t)' /\ Rowed(t)' /\ Promises(t)'
    BY <2>1, <2>2, <2>3, <2>a, <1>t DEF Locks, Rowed, Promises, Requests, db, history
  <2> QED
    BY <2>1, <2>2, <2>4, <1>t, QuietStep DEF Requests
<1>9. CASE ReplayRead(t)
  <2>1. PICK S \in SUBSET {l \in Letters : letter[l] = "open"} \ {{}} :
            /\ req[t] = NoRequest
            /\ Become(t, [NoRequest EXCEPT !.at = "replay", !.row = S])
            /\ UNCHANGED <<db, writer, history>>
    BY <1>9 DEF ReplayRead
  <2> DEFINE r == [NoRequest EXCEPT !.at = "replay", !.row = S]
  <2>2. r \in Requests /\ Become(t, r) /\ UNCHANGED <<db, history, writer>>
    BY <2>1, <1>0 DEF Requests, AllKeys
  <2>3. req'[t] = r /\ writer # t
    BY <1>t, <1>0, <2>1, <2>2 DEF Become
  <2>4. Locks(t)' /\ Rowed(t)' /\ Promises(t)'
    BY <2>1, <2>2, <2>3, <1>0 DEF Locks, Rowed, Promises, db
  <2> QED
    BY <2>2, <2>3, <2>4, <1>0, QuietStep
<1>10. CASE ReplayFails(t) \/ Fails(t)
  <2>1. /\ Become(t, NoRequest) /\ UNCHANGED <<db, history>>
        /\ writer' # t
        /\ writer' = writer \/ (writer = t /\ writer' = NoThread)
    BY <1>10, <1>t DEF ReplayFails, Fails, Done, Locks
  <2>2. req'[t] = NoRequest
    BY <1>t, <2>1 DEF Become
  <2>3. Locks(t)' /\ Rowed(t)' /\ Promises(t)'
    BY <2>1, <2>2, <1>0 DEF Locks, Rowed, Promises
  <2> QED
    BY <2>1, <2>3, <1>0, QuietStep DEF Writable
<1> QED
  BY <1>1, <1>2, <1>3, <1>4, <1>5, <1>6, <1>7, <1>8, <1>9, <1>10

-----------------------------------------------------------------------------
(* Steps that commit.                                                      *)

\* Rows for S are stored by thread t, whose request ends, while nobody else
\* holds the lock: what other threads have found under it stays so.
LEMMA CommitStep ==
  ASSUME IInv, NEW t \in Threads, NEW S \in SUBSET AllKeys,
         Insert(S), S \cap rows = {}, Done(t),
         writer \in {NoThread, t}, writer' = NoThread,
         UNCHANGED removed
  PROVE  /\ rows' \subseteq AllKeys /\ made' \in [AllKeys -> Nat]
         /\ req' \in [Threads -> Requests]
         /\ \A u \in Threads : req'[u].flushed = {}
         /\ Counted'
         /\ \A k \in S : made'[k] > 0
         /\ \A k \in AllKeys : made[k] > 0 => made'[k] > 0
         /\ \A k \in AllKeys \ S : made'[k] = made[k]
         /\ \A u \in Threads : Locks(u)' /\ Promises(u)'
         /\ req'[t] = NoRequest /\ \A u \in Threads \ {t} : req'[u] = req[u]
<1> USE ThreadsAssumption
<1>1. rows' = rows \cup S /\ rows' \subseteq AllKeys
  BY DEF Insert, IInv, TypeOK
<1>2. made' \in [AllKeys -> Nat]
  BY DEF Insert, IInv, TypeOK
<1>3. /\ req' \in [Threads -> Requests] /\ req'[t] = NoRequest
      /\ \A u \in Threads \ {t} : req'[u] = req[u]
  BY NoRequestTyped DEF Done, Become, IInv, TypeOK
<1>4. \A u \in Threads : req'[u].flushed = {}
  BY <1>3 DEF IInv, TypeOK, NoRequest
<1>5. Counted'
  BY <1>1 DEF Counted, Insert, IInv, TypeOK
<1>6. /\ \A k \in S : made'[k] > 0
      /\ \A k \in AllKeys : made[k] > 0 => made'[k] > 0
      /\ \A k \in AllKeys \ S : made'[k] = made[k]
  BY DEF Insert, IInv, TypeOK
<1>7. \A u \in Threads : Locks(u)'
  BY <1>3, <1>4 DEF Locks
<1>8. ASSUME NEW u \in Threads PROVE Promises(u)'
  <2>1. CASE u = t
    BY <1>3, <2>1 DEF Promises, NoRequest
  <2>2. CASE u # t
    <3>1. req'[u] = req[u] /\ Promises(u) /\ req[u] \in Requests
      BY <1>3, <2>2 DEF IInv, TypeOK
    <3>2. req[u].created \subseteq AllKeys /\ req[u].goal \subseteq AllKeys
      BY <3>1 DEF Requests, AllKeys
    <3> QED
      BY <1>6, <3>1, <3>2 DEF Promises
  <2> QED
    BY <2>1, <2>2
<1> QED
  BY <1>1, <1>2, <1>3, <1>4, <1>5, <1>6, <1>7, <1>8

LEMMA IngestCommitKeeps ==
  ASSUME IInv, NEW t \in Threads, IngestCommit(t)
  PROVE  IInv'
<1> DEFINE S == req[t].row
<1> USE ThreadsAssumption
<1>1. /\ Insert(S) /\ S \cap rows = {} /\ Done(t)
      /\ writer \in {NoThread, t} /\ UNCHANGED <<letter, writer, removed, routed>>
      /\ answered' = answered \cup S /\ req[t].at = "insert"
  BY DEF IngestCommit, Writable
<1>2. S \subseteq Keys /\ req[t].flushed = {} /\ writer = NoThread
  BY <1>1 DEF IInv, TypeOK, Locks, Rowed
<1>3. S \in SUBSET AllKeys
  BY <1>2 DEF AllKeys
<1> HIDE DEF S
<1>4. /\ rows' \subseteq AllKeys /\ made' \in [AllKeys -> Nat]
      /\ req' \in [Threads -> Requests]
      /\ \A u \in Threads : req'[u].flushed = {}
      /\ Counted'
      /\ \A k \in S : made'[k] > 0
      /\ \A k \in AllKeys : made[k] > 0 => made'[k] > 0
      /\ \A k \in AllKeys \ S : made'[k] = made[k]
      /\ \A u \in Threads : Locks(u)' /\ Promises(u)'
      /\ req'[t] = NoRequest /\ \A u \in Threads \ {t} : req'[u] = req[u]
  BY <1>1, <1>2, <1>3, CommitStep
<1>5. TypeOK'
  BY <1>1, <1>2, <1>4 DEF IInv, TypeOK
<1>6. \A u \in Threads : Rowed(u)'
  BY <1>1, <1>4 DEF IInv, Rowed, NoRequest
<1>7. AnsweredIsStored' /\ RouteReaches'
  BY <1>1, <1>4 DEF IInv, TypeOK, AnsweredIsStored, RouteReaches, AllKeys
<1>8. MarkedIffCopied'
  BY <1>1, <1>2, <1>4, LettersAssumption DEF IInv, MarkedIffCopied, AllKeys
<1> QED
  BY <1>4, <1>5, <1>6, <1>7, <1>8 DEF IInv

LEMMA RouteCommitKeeps ==
  ASSUME IInv, NEW t \in Threads, RouteCommit(t)
  PROVE  IInv'
<1> DEFINE S == req[t].flushed
<1> USE ThreadsAssumption
<1>1. /\ Insert(S) /\ Done(t) /\ UNCHANGED <<letter, removed>>
      /\ writer' = (IF writer = t THEN NoThread ELSE writer)
      /\ answered' = answered \cup req[t].created
      /\ routed' = routed \cup req[t].goal
      /\ req[t].at = "look" /\ req[t].todo = {}
  BY DEF RouteCommit
<1>2. /\ req[t] \in Requests /\ Locks(t) /\ Promises(t)
      /\ S # {} <=> writer = t
  BY DEF IInv, TypeOK
<1>3. S \subseteq Keys /\ S \cap rows = {}
  BY <1>2 DEF Locks, Requests
<1>4. /\ \A k \in req[t].created : k \in S \/ made[k] > 0
      /\ \A k \in req[t].goal : k \in S \/ made[k] > 0
      /\ req[t].created \subseteq Keys /\ req[t].goal \subseteq Keys
  BY <1>1, <1>2 DEF Promises, Requests
<1>5. CASE writer = t
  <2>1. S \in SUBSET AllKeys /\ writer \in {NoThread, t} /\ writer' = NoThread
    BY <1>1, <1>3, <1>5 DEF AllKeys
  <2> HIDE DEF S
  <2>2. /\ rows' \subseteq AllKeys /\ made' \in [AllKeys -> Nat]
        /\ req' \in [Threads -> Requests]
        /\ \A u \in Threads : req'[u].flushed = {}
        /\ Counted'
        /\ \A k \in S : made'[k] > 0
        /\ \A k \in AllKeys : made[k] > 0 => made'[k] > 0
        /\ \A k \in AllKeys \ S : made'[k] = made[k]
        /\ \A u \in Threads : Locks(u)' /\ Promises(u)'
        /\ req'[t] = NoRequest /\ \A u \in Threads \ {t} : req'[u] = req[u]
    BY <1>1, <1>3, <2>1, CommitStep
  <2>3. TypeOK'
    BY <1>1, <1>4, <2>1, <2>2 DEF IInv, TypeOK
  <2>4. \A u \in Threads : Rowed(u)'
    BY <1>1, <2>2 DEF IInv, Rowed, NoRequest
  <2>5. AnsweredIsStored' /\ RouteReaches'
    BY <1>1, <1>4, <2>2 DEF IInv, TypeOK, AnsweredIsStored, RouteReaches, AllKeys
  <2>6. MarkedIffCopied'
    BY <1>1, <1>3, <2>2, LettersAssumption DEF IInv, MarkedIffCopied, AllKeys
  <2> QED
    BY <2>2, <2>3, <2>4, <2>5, <2>6 DEF IInv
<1>6. CASE writer # t
  <2>1. S = {} /\ UNCHANGED writer
    BY <1>1, <1>2, <1>6
  <2>2. UNCHANGED <<rows, made>>
    BY <1>1, <2>1 DEF Insert, IInv, TypeOK
  <2>3. /\ req' \in [Threads -> Requests] /\ req'[t] = NoRequest
        /\ \A u \in Threads \ {t} : req'[u] = req[u]
    BY <1>1, NoRequestTyped DEF Done, Become, IInv, TypeOK
  <2>4. TypeOK'
    BY <1>1, <1>4, <1>6, <2>1, <2>2, <2>3 DEF IInv, TypeOK, NoRequest
  <2>5. ASSUME NEW u \in Threads PROVE Locks(u)' /\ Rowed(u)' /\ Promises(u)'
    <3>1. CASE u = t
      BY <2>3, <3>1 DEF Locks, Rowed, Promises, NoRequest
    <3>2. CASE u # t
      BY <1>1, <2>1, <2>2, <2>3, <3>2 DEF IInv, Locks, Rowed, Promises
    <3> QED
      BY <3>1, <3>2
  <2>6. AnsweredIsStored' /\ RouteReaches' /\ MarkedIffCopied' /\ Counted'
    BY <1>1, <1>4, <2>1, <2>2
    DEF IInv, AnsweredIsStored, RouteReaches, MarkedIffCopied, Counted
  <2> QED
    BY <2>4, <2>5, <2>6 DEF IInv
<1> QED
  BY <1>5, <1>6

LEMMA ReplayCommitKeeps ==
  ASSUME IInv, NEW t \in Threads, ReplayCommit(t)
  PROVE  IInv'
<1> DEFINE S == req[t].row
<1> USE ThreadsAssumption
<1>1. /\ Insert(S) /\ Mark(S) /\ S \cap rows = {} /\ Done(t)
      /\ \A l \in S : letter[l] # "purged"
      /\ writer \in {NoThread, t} /\ UNCHANGED <<writer, removed, answered, routed>>
      /\ req[t].at = "replay"
  BY DEF ReplayCommit, Writable, Replayable, Present, NoCopy
<1>2. S \subseteq Letters /\ req[t].flushed = {} /\ writer = NoThread
  BY <1>1 DEF IInv, TypeOK, Locks, Rowed
<1>3. S \in SUBSET AllKeys
  BY <1>2 DEF AllKeys
<1> HIDE DEF S
<1>4. /\ rows' \subseteq AllKeys /\ made' \in [AllKeys -> Nat]
      /\ req' \in [Threads -> Requests]
      /\ \A u \in Threads : req'[u].flushed = {}
      /\ Counted'
      /\ \A k \in S : made'[k] > 0
      /\ \A k \in AllKeys : made[k] > 0 => made'[k] > 0
      /\ \A k \in AllKeys \ S : made'[k] = made[k]
      /\ \A u \in Threads : Locks(u)' /\ Promises(u)'
      /\ req'[t] = NoRequest /\ \A u \in Threads \ {t} : req'[u] = req[u]
  BY <1>1, <1>2, <1>3, CommitStep
<1>5. /\ letter' \in [Letters -> {"none", "open", "replayed", "purged"}]
      /\ \A l \in S : letter'[l] = "replayed"
      /\ \A l \in Letters \ S : letter'[l] = letter[l]
  BY <1>1, <1>2 DEF Mark, IInv, TypeOK
<1>6. TypeOK'
  BY <1>1, <1>2, <1>4, <1>5 DEF IInv, TypeOK
<1>7. \A u \in Threads : Rowed(u)'
  BY <1>4, <1>5 DEF IInv, Rowed, NoRequest
<1>8. AnsweredIsStored' /\ RouteReaches'
  BY <1>1, <1>4 DEF IInv, TypeOK, AnsweredIsStored, RouteReaches, AllKeys
<1>9. MarkedIffCopied'
  BY <1>2, <1>4, <1>5 DEF IInv, MarkedIffCopied, AllKeys
<1> QED
  BY <1>4, <1>6, <1>7, <1>8, <1>9 DEF IInv

\* Answering with a row that is there.
LEMMA AnswerKeeps ==
  ASSUME IInv, NEW t \in Threads,
         (\E k \in Keys : IngestFinds(t, k)) \/ IngestAgain(t)
  PROVE  IInv'
<1> USE ThreadsAssumption
<1>1. ASSUME NEW k \in Keys, IngestFinds(t, k) PROVE IInv'
  <2>1. /\ UNCHANGED <<rows, letter, writer, req, made, removed, routed>>
        /\ answered' = answered \cup {k} /\ k \in rows
    BY <1>1 DEF IngestFinds, db
  <2>2. made[k] > 0
    BY <2>1 DEF IInv, TypeOK, Counted
  <2> QED
    BY <2>1, <2>2
    DEF IInv, TypeOK, Counted, Locks, Rowed, Promises, AnsweredIsStored,
        RouteReaches, MarkedIffCopied
<1>2. CASE IngestAgain(t)
  <2>1. /\ UNCHANGED <<rows, letter, writer, made, removed, routed>>
        /\ answered' = answered \cup (req[t].row \cap rows)
        /\ Done(t) /\ req[t].at = "again"
    BY <1>2 DEF IngestAgain, Winner, db
  <2>2. req[t].row \subseteq Keys /\ req[t].flushed = {} /\ writer # t
    BY <2>1 DEF IInv, TypeOK, Locks, Rowed
  <2>3. \A k \in req[t].row \cap rows : made[k] > 0
    BY <2>2 DEF IInv, TypeOK, Counted, AllKeys
  <2>4. /\ req' \in [Threads -> Requests] /\ req'[t] = NoRequest
        /\ \A u \in Threads \ {t} : req'[u] = req[u]
    BY <2>1, NoRequestTyped DEF Done, Become, IInv, TypeOK
  <2>5. TypeOK'
    BY <2>1, <2>2, <2>4 DEF IInv, TypeOK, NoRequest
  <2>6. ASSUME NEW u \in Threads PROVE Locks(u)' /\ Rowed(u)' /\ Promises(u)'
    <3>1. CASE u = t
      BY <2>4, <3>1 DEF Locks, Rowed, Promises, NoRequest
    <3>2. CASE u # t
      BY <2>1, <2>4, <3>2 DEF IInv, Locks, Rowed, Promises
    <3> QED
      BY <3>1, <3>2
  <2>7. AnsweredIsStored' /\ RouteReaches' /\ MarkedIffCopied' /\ Counted'
    BY <2>1, <2>3 DEF IInv, AnsweredIsStored, RouteReaches, MarkedIffCopied, Counted
  <2> QED
    BY <2>5, <2>6, <2>7 DEF IInv
<1> QED
  BY <1>1, <1>2

\* Burying and purging letters, and deleting rows.
LEMMA OthersKeep ==
  ASSUME IInv,
         \/ \E l \in Letters : Bury(l)
         \/ \E S \in SUBSET Letters \ {{}} : Purge(S)
         \/ \E k \in AllKeys : Remove(k)
  PROVE  IInv'
<1> USE ThreadsAssumption
<1>1. ASSUME NEW l \in Letters, Bury(l) PROVE IInv'
  <2>1. /\ UNCHANGED <<rows, writer, req, made, removed, answered, routed>>
        /\ letter' = [letter EXCEPT ![l] = "open"] /\ letter[l] = "none"
    BY <1>1 DEF Bury, history
  <2>2. /\ letter' \in [Letters -> {"none", "open", "replayed", "purged"}]
        /\ letter'[l] = "open"
        /\ \A x \in Letters \ {l} : letter'[x] = letter[x]
    BY <2>1 DEF IInv, TypeOK
  <2>3. TypeOK'
    BY <2>1, <2>2 DEF IInv, TypeOK
  <2>4. \A u \in Threads : Locks(u)' /\ Rowed(u)' /\ Promises(u)'
    BY <2>1, <2>2 DEF IInv, Locks, Rowed, Promises
  <2>5. MarkedIffCopied'
    BY <2>1, <2>2 DEF IInv, MarkedIffCopied
  <2> QED
    BY <2>1, <2>3, <2>4, <2>5 DEF IInv, Counted, AnsweredIsStored, RouteReaches
<1>2. ASSUME NEW S \in SUBSET Letters, Purge(S) PROVE IInv'
  <2>1. /\ UNCHANGED <<rows, writer, req, made, removed, answered, routed>>
        /\ letter' = [l \in Letters |-> IF l \in S THEN "purged" ELSE letter[l]]
    BY <1>2 DEF Purge, history
  <2>2. /\ letter' \in [Letters -> {"none", "open", "replayed", "purged"}]
        /\ \A x \in Letters : letter'[x] = "purged" \/ letter'[x] = letter[x]
    BY <2>1 DEF IInv, TypeOK
  <2>3. TypeOK'
    BY <2>1, <2>2 DEF IInv, TypeOK
  <2>4. \A u \in Threads : Locks(u)' /\ Rowed(u)' /\ Promises(u)'
    BY <2>1, <2>2 DEF IInv, Locks, Rowed, Promises
  <2>5. MarkedIffCopied'
    BY <2>1, <2>2 DEF IInv, MarkedIffCopied
  <2> QED
    BY <2>1, <2>3, <2>4, <2>5 DEF IInv, Counted, AnsweredIsStored, RouteReaches
<1>3. ASSUME NEW k \in AllKeys, Remove(k) PROVE IInv'
  <2>1. /\ UNCHANGED <<letter, writer, req, made, answered, routed>>
        /\ k \in rows /\ rows' = rows \ {k}
        /\ removed' = [removed EXCEPT ![k] = @ + 1]
    BY <1>3 DEF Remove
  <2>2. TypeOK'
    BY <2>1 DEF IInv, TypeOK
  <2>3. Counted'
    BY <2>1 DEF IInv, TypeOK, Counted
  <2>4. \A u \in Threads : Locks(u)' /\ Rowed(u)' /\ Promises(u)'
    BY <2>1 DEF IInv, Locks, Rowed, Promises
  <2> QED
    BY <2>1, <2>2, <2>3, <2>4 DEF IInv, AnsweredIsStored, RouteReaches, MarkedIffCopied
<1> QED
  BY <1>1, <1>2, <1>3

LEMMA NextIInv == IInv /\ [Next]_vars => IInv'
<1> SUFFICES ASSUME IInv, [Next]_vars PROVE IInv'
  OBVIOUS
<1>1. ASSUME NEW t \in Threads, Ingest(t) PROVE IInv'
  BY <1>1, QuietSteps, AnswerKeeps, IngestCommitKeeps DEF Ingest
<1>2. ASSUME NEW t \in Threads, Route(t) PROVE IInv'
  BY <1>2, QuietSteps, RouteCommitKeeps DEF Route
<1>3. ASSUME NEW t \in Threads, Replay(t) \/ Fails(t) PROVE IInv'
  BY <1>3, QuietSteps, ReplayCommitKeeps DEF Replay
<1>4. CASE UNCHANGED vars
  BY <1>4
  DEF IInv, TypeOK, Counted, Locks, Rowed, Promises, AnsweredIsStored,
      RouteReaches, MarkedIffCopied, vars, db, history
<1> QED
  BY <1>1, <1>2, <1>3, <1>4, OthersKeep DEF Next

LEMMA SpecIInv == Spec => []IInv
  BY InitIInv, NextIInv, PTL DEF Spec

-----------------------------------------------------------------------------
\* Every variable keeps its type, and the write lock is held exactly by the
\* thread that has flushed rows.
THEOREM TypeCorrect == Spec => []TypeOK
  <1>1. IInv => TypeOK
    BY DEF IInv
  <1> QED
    BY <1>1, SpecIInv, PTL

\* A response of ingest_message or route_message names stored messages only.
THEOREM AnswersAreStored == Spec => []AnsweredIsStored
  <1>1. IInv => AnsweredIsStored
    BY DEF IInv
  <1> QED
    BY <1>1, SpecIInv, PTL

\* A route that returns has a stored message for every endpoint it had to
\* reach.
THEOREM RoutesReach == Spec => []RouteReaches
  <1>1. IInv => RouteReaches
    BY DEF IInv
  <1> QED
    BY <1>1, SpecIInv, PTL

\* A dead letter that was not purged is marked as replayed if and only if a
\* copy of it was stored.
THEOREM MarksMeanCopies == Spec => []MarkedIffCopied
  <1>1. IInv => MarkedIffCopied
    BY DEF IInv
  <1> QED
    BY <1>1, SpecIInv, PTL

\* Replays store one copy of a letter, and one more for each delete of it.
THEOREM CopiesAreOne == Spec => []CopiedOnce
  <1>1. IInv => CopiedOnce
    BY DEF IInv, TypeOK, Counted, CopiedOnce, AllKeys
  <1> QED
    BY <1>1, SpecIInv, PTL

\* The step formula of PurgedStaysPurged.
PurgeKept == \A l \in Letters :
                letter[l] = "purged" => letter'[l] = "purged" /\ made'[l] = made[l]

LEMMA NextPurge == IInv /\ [Next]_vars => PurgeKept
<1> SUFFICES ASSUME IInv, [Next]_vars, NEW l \in Letters, letter[l] = "purged"
             PROVE  letter'[l] = "purged" /\ made'[l] = made[l]
  BY DEF PurgeKept
<1>0. made \in [AllKeys -> Nat] /\ l \in AllKeys /\ l \notin Keys
  BY LettersAssumption DEF IInv, TypeOK, AllKeys
<1>1. ASSUME NEW t \in Threads, IngestCommit(t)
      PROVE  letter'[l] = "purged" /\ made'[l] = made[l]
  <2>1. req[t].row \subseteq Keys
    BY <1>1 DEF IInv, Rowed, IngestCommit
  <2> QED
    BY <1>0, <1>1, <2>1 DEF IngestCommit, Insert
<1>2. ASSUME NEW t \in Threads, RouteCommit(t)
      PROVE  letter'[l] = "purged" /\ made'[l] = made[l]
  <2>1. req[t].flushed \subseteq Keys
    BY <1>2 DEF IInv, TypeOK, Requests
  <2> QED
    BY <1>0, <1>2, <2>1 DEF RouteCommit, Insert
<1>3. ASSUME NEW t \in Threads, ReplayCommit(t)
      PROVE  letter'[l] = "purged" /\ made'[l] = made[l]
  BY <1>0, <1>3 DEF ReplayCommit, Replayable, Present, Mark, Insert
<1>4. CASE UNCHANGED <<letter, made>>
  BY <1>4
<1>5. ASSUME NEW x \in Letters, Bury(x)
      PROVE  letter'[l] = "purged" /\ made'[l] = made[l]
  BY <1>5 DEF Bury, IInv, TypeOK, history
<1>6. ASSUME NEW S \in SUBSET Letters, Purge(S)
      PROVE  letter'[l] = "purged" /\ made'[l] = made[l]
  BY <1>6 DEF Purge, history
<1> QED
  BY <1>1, <1>2, <1>3, <1>4, <1>5, <1>6
  DEF Next, vars, db, history, Ingest, IngestFinds, IngestMisses, IngestLoses,
      IngestAgain, Route, RouteStart, RouteSkips, RouteFinds, RouteMisses, RouteFlush,
      RouteLoses, Replay, ReplayRead, ReplayFails, Fails, Remove

\* What was purged is not replayed, by no request that read it before either.
THEOREM PurgeIsFinal == Spec => PurgedStaysPurged
  <1>1. IInv /\ [Next]_vars => [PurgeKept]_vars
    BY NextPurge
  <1>2. Spec => [][PurgeKept]_vars
    BY <1>1, SpecIInv, PTL DEF Spec
  <1> QED
    BY <1>2 DEF PurgedStaysPurged, PurgeKept
=============================================================================
