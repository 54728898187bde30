------------------------------- MODULE Intake -------------------------------
(***************************************************************************)
(* How rows come into the messages table: a single ingest, a route to all  *)
(* subscribed endpoints (api/messages.py) and the replay of dead letters   *)
(* (dlq/dead_letter.py), next to purges of letters and deletes of rows.    *)
(*                                                                         *)
(* A key is an endpoint together with an idempotency key: the unique index *)
(* of the table.  Each handler runs in a thread of its own and looks       *)
(* before it inserts; SQLite runs no transaction until the first INSERT,   *)
(* so nothing it saw need still be true then, and from then to the commit  *)
(* the thread holds the only write lock.                                   *)
(***************************************************************************)
EXTENDS Naturals

CONSTANTS
    Threads,        \* API worker threads
    Keys,           \* keys that clients ingest and route
    Letters,        \* dead letters; a letter stands for the key of its copy too
    MaxRemovals     \* bound: deletes of rows per key

NoThread == "none"

ASSUME ThreadsAssumption == NoThread \notin Threads
ASSUME LettersAssumption == Letters \cap Keys = {}
ASSUME RemovalsAssumption == MaxRemovals \in Nat

VARIABLES
    rows,           \* keys that have a committed row
    letter,         \* a letter is "none", "open", "replayed" or "purged"
    writer,         \* the thread with an open transaction, if any
    req,            \* what a thread's request is about to do
    \* history
    made,           \* number of committed inserts of a key
    removed,        \* number of deletes of a key's row
    answered,       \* keys a response gave as accepted
    routed          \* keys that committed routes had to reach

db      == <<rows, letter>>
history == <<made, removed, answered, routed>>
vars    == <<db, writer, req, history>>

AllKeys == Keys \cup Letters

\* at: the statement that comes next; row: the rows it inserts; todo: keys
\* still to look at; flushed: rows in the open transaction; created: keys for
\* the response; goal: keys to reach.
NoRequest == [at |-> "none", row |-> {}, todo |-> {},
              flushed |-> {}, created |-> {}, goal |-> {}]

Init ==
    /\ rows = {}
    /\ letter = [l \in Letters |-> "none"]
    /\ writer = NoThread
    /\ req = [t \in Threads |-> NoRequest]
    /\ made = [k \in AllKeys |-> 0]
    /\ removed = [k \in AllKeys |-> 0]
    /\ answered = {}
    /\ routed = {}

Writable(t) == writer \in {NoThread, t}

\* A commit of new rows for S.
Insert(S) ==
    /\ rows' = rows \cup S
    /\ made' = [k \in AllKeys |-> IF k \in S THEN made[k] + 1 ELSE made[k]]

Become(t, r) == req' = [req EXCEPT ![t] = r]
Done(t) == Become(t, NoRequest)

\* An exception the handler does not handle: the write lock is not to be had
\* in time, a row the session loads again is gone.  The request fails, and
\* what it had flushed is gone with its session.
Fails(t) ==
    /\ req[t] # NoRequest
    /\ writer' = IF writer = t THEN NoThread ELSE writer
    /\ Done(t)
    /\ UNCHANGED <<db, history>>

-----------------------------------------------------------------------------
(* POST /messages.                                                         *)

\* The row is there already: it is the answer.
IngestFinds(t, k) ==
    /\ req[t] = NoRequest
    /\ k \in rows
    /\ answered' = answered \cup {k}
    /\ UNCHANGED <<db, writer, req, made, removed, routed>>

IngestMisses(t, k) ==
    /\ req[t] = NoRequest
    /\ k \notin rows
    /\ Become(t, [NoRequest EXCEPT !.at = "insert", !.row = {k}])
    /\ UNCHANGED <<db, writer, history>>

IngestCommit(t) ==
    /\ req[t].at = "insert"
    /\ Writable(t)
    /\ req[t].row \cap rows = {}
    /\ Insert(req[t].row)
    /\ answered' = answered \cup req[t].row
    /\ Done(t)
    /\ UNCHANGED <<letter, writer, removed, routed>>

\* IntegrityError: another thread was first; look again.
IngestLoses(t) ==
    /\ req[t].at = "insert"
    /\ Writable(t)
    /\ req[t].row \cap rows # {}
    /\ Become(t, [req[t] EXCEPT !.at = "again"])
    /\ UNCHANGED <<db, writer, history>>

\* The other thread's row is the answer; if it is gone, an error is.
Winner(t) == req[t].row \cap rows

IngestAgain(t) ==
    /\ req[t].at = "again"
    /\ answered' = answered \cup Winner(t)
    /\ Done(t)
    /\ UNCHANGED <<db, writer, made, removed, routed>>

-----------------------------------------------------------------------------
(* POST /messages/route: for each subscription look, then flush; one       *)
(* commit at the end.                                                      *)

RouteStart(t) ==
    \E S \in SUBSET Keys \ {{}} :
        /\ req[t] = NoRequest
        /\ Become(t, [NoRequest EXCEPT !.at = "look", !.todo = S, !.goal = S])
        /\ UNCHANGED <<db, writer, history>>

Looks(t, k) == req[t].at = "look" /\ k \in req[t].todo

\* The endpoint of the subscription is gone or inactive.
RouteSkips(t, k) ==
    /\ Looks(t, k)
    /\ Become(t, [req[t] EXCEPT !.todo = @ \ {k}, !.goal = @ \ {k}])
    /\ UNCHANGED <<db, writer, history>>

RouteFinds(t, k) ==
    /\ Looks(t, k)
    /\ k \in rows
    /\ Become(t, [req[t] EXCEPT !.todo = @ \ {k}, !.created = @ \cup {k}])
    /\ UNCHANGED <<db, writer, history>>

RouteMisses(t, k) ==
    /\ Looks(t, k)
    /\ k \notin rows
    /\ Become(t, [req[t] EXCEPT !.at = "flush", !.row = {k}, !.todo = @ \ {k}])
    /\ UNCHANGED <<db, writer, history>>

\* Mutant: the flush of one row leaves the lock to others.
Locked_Not(t) == NoThread

\* The first INSERT takes the write lock, and keeps it.
Locked(t) == t

RouteFlush(t) ==
    /\ req[t].at = "flush"
    /\ Writable(t)
    /\ req[t].row \cap rows = {}
    /\ writer' = Locked(t)
    /\ Become(t, [req[t] EXCEPT !.at = "look", !.row = {},
                                !.flushed = @ \cup req[t].row,
                                !.created = @ \cup req[t].row])
    /\ UNCHANGED <<db, history>>

\* Mutant: a duplicate ends the loop.
RouteLoses_Stops(t) ==
    /\ req[t].at = "flush"
    /\ Writable(t)
    /\ req[t].row \cap rows # {}
    /\ writer' = NoThread
    /\ Become(t, [req[t] EXCEPT !.at = "look", !.row = {}, !.flushed = {}, !.todo = {}])
    /\ UNCHANGED <<db, history>>

\* IntegrityError: the whole session is rolled back, and the route goes on
\* with a response that keeps what it had.
RouteLoses(t) ==
    /\ req[t].at = "flush"
    /\ Writable(t)
    /\ req[t].row \cap rows # {}
    /\ writer' = NoThread
    /\ Become(t, [req[t] EXCEPT !.at = "look", !.row = {}, !.flushed = {}])
    /\ UNCHANGED <<db, history>>

RouteCommit(t) ==
    /\ req[t].at = "look"
    /\ req[t].todo = {}
    /\ Insert(req[t].flushed)
    /\ writer' = IF writer = t THEN NoThread ELSE writer
    /\ answered' = answered \cup req[t].created
    /\ routed' = routed \cup req[t].goal
    /\ Done(t)
    /\ UNCHANGED <<letter, removed>>

-----------------------------------------------------------------------------
(* Dead letters.  Replaying one inserts a copy of its message under a key  *)
(* made of the letter's id, and marks the letter, in one commit.           *)

\* The dispatcher buries a message.
Bury(l) ==
    /\ writer = NoThread
    /\ letter[l] = "none"
    /\ letter' = [letter EXCEPT ![l] = "open"]
    /\ UNCHANGED <<rows, writer, req, history>>

\* Letters already replayed are refused, or not selected by a batch.
ReplayRead(t) ==
    \E S \in SUBSET {l \in Letters : letter[l] = "open"} \ {{}} :
        /\ req[t] = NoRequest
        /\ Become(t, [NoRequest EXCEPT !.at = "replay", !.row = S])
        /\ UNCHANGED <<db, writer, history>>

\* Mutant: the mark is forgotten.
Mark_Nothing(S) == UNCHANGED letter

Mark(S) ==
    letter' = [l \in Letters |->
                IF l \in S /\ letter[l] # "purged" THEN "replayed" ELSE letter[l]]

\* Mutant: the mark is an UPDATE that may match no row.
Present_Any(S) == TRUE

\* The letters are still there: else their UPDATE raises.
Present(S) == \A l \in S : letter[l] # "purged"

\* Mutant: each replay makes a key of its own.
NoCopy_Fresh(S) == TRUE

\* None of them has a copy: else the INSERT raises.
NoCopy(S) == S \cap rows = {}

Replayable(S) == Present(S) /\ NoCopy(S)

ReplayCommit(t) ==
    /\ req[t].at = "replay"
    /\ Writable(t)
    /\ Replayable(req[t].row)
    /\ Insert(req[t].row)
    /\ Mark(req[t].row)
    /\ Done(t)
    /\ UNCHANGED <<writer, removed, answered, routed>>

\* Either error rolls the whole batch back.
ReplayFails(t) ==
    /\ req[t].at = "replay"
    /\ Writable(t)
    /\ ~Replayable(req[t].row)
    /\ Done(t)
    /\ UNCHANGED <<db, writer, history>>

\* One DELETE statement, whatever has become of the letters.
Purge(S) ==
    /\ writer = NoThread
    /\ \A l \in S : letter[l] \in {"open", "replayed"}
    /\ letter' = [l \in Letters |-> IF l \in S THEN "purged" ELSE letter[l]]
    /\ UNCHANGED <<rows, writer, req, history>>

\* DELETE /messages/{id} of a row that is dead or delivered by now.
Remove(k) ==
    /\ writer = NoThread
    /\ k \in rows
    /\ removed[k] < MaxRemovals
    /\ rows' = rows \ {k}
    /\ removed' = [removed EXCEPT ![k] = @ + 1]
    /\ UNCHANGED <<letter, writer, req, made, answered, routed>>

-----------------------------------------------------------------------------
Ingest(t) ==
    \/ \E k \in Keys : IngestFinds(t, k) \/ IngestMisses(t, k)
    \/ IngestCommit(t) \/ IngestLoses(t) \/ IngestAgain(t)

Route(t) ==
    \/ RouteStart(t)
    \/ \E k \in Keys : RouteSkips(t, k) \/ RouteFinds(t, k) \/ RouteMisses(t, k)
    \/ RouteFlush(t) \/ RouteLoses(t) \/ RouteCommit(t)

Replay(t) == ReplayRead(t) \/ ReplayCommit(t) \/ ReplayFails(t)

Next ==
    \/ \E t \in Threads : Ingest(t) \/ Route(t) \/ Replay(t) \/ Fails(t)
    \/ \E l \in Letters : Bury(l)
    \/ \E S \in SUBSET Letters \ {{}} : Purge(S)
    \/ \E k \in AllKeys : Remove(k)

Spec == Init /\ [][Next]_vars

-----------------------------------------------------------------------------
(* Properties.                                                             *)

Requests ==
    [at : {"none", "insert", "again", "look", "flush", "replay"},
     row : SUBSET AllKeys, todo : SUBSET Keys, flushed : SUBSET Keys,
     created : SUBSET Keys, goal : SUBSET Keys]

\* The types, and that a transaction is open exactly for a thread with
\* flushed rows: no lock is left behind, none is lost.
TypeOK ==
    /\ rows \subseteq AllKeys
    /\ letter \in [Letters -> {"none", "open", "replayed", "purged"}]
    /\ writer \in Threads \cup {NoThread}
    /\ req \in [Threads -> Requests]
    /\ \A t \in Threads : req[t].flushed # {} <=> writer = t
    /\ made \in [AllKeys -> Nat]
    /\ removed \in [AllKeys -> Nat]
    /\ answered \subseteq Keys
    /\ routed \subseteq Keys

\* A response names no message that was not stored: not one that a route
\* flushed and a later duplicate in the same request rolled back, and not one
\* that lost against the insert of another thread.
AnsweredIsStored == \A k \in answered : made[k] > 0

\* A route that ends without an error has a stored message for each of its
\* active endpoints, its own or that of another request.
RouteReaches == \A k \in routed : made[k] > 0

\* A letter is marked as replayed when its copy is stored, and only then: no
\* interleaving of replays, batch replays and deletes parts the two.
MarkedIffCopied ==
    \A l \in Letters :
        letter[l] # "purged" => (letter[l] = "replayed" <=> made[l] > 0)

\* A purge wins against the replays that read the letter before it: what was
\* purged is not sent again.
PurgedStaysPurged ==
    [][\A l \in Letters :
        letter[l] = "purged" => letter'[l] = "purged" /\ made'[l] = made[l]]_vars

\* Two replays that both read the letter as open store one copy, unless the
\* first copy was deleted between their commits.
CopiedOnce == \A l \in Letters : made[l] <= 1 + removed[l]
=============================================================================
