------------------------------- MODULE Registry -------------------------------
(***************************************************************************)
(* Who may call, and what is registered: applications and their keys       *)
(* (api/applications.py, auth/dependencies.py), subscriptions of endpoints *)
(* to event types (api/subscriptions.py) and versioned event schemas       *)
(* (api/schemas.py).                                                       *)
(*                                                                         *)
(* Every handler is a thread that authenticates with two queries, one for  *)
(* the key and one for its application, or not at all when AUTH_ENABLED is *)
(* off, then reads, then commits; other threads come between any two.      *)
(* Nothing cascades: keys, subscriptions and schemas outlive the           *)
(* application they belong to.  What a handler read and finds changed at   *)
(* its commit is settled by the database: an UPDATE of a row that is gone  *)
(* fails, a DELETE of one only warns, a UNIQUE constraint refuses a second *)
(* row, but holds two NULLs for different.                                 *)
(***************************************************************************)
EXTENDS Naturals, Sequences

CONSTANTS
    Apps,           \* ids of applications, each created once
    Pairs,          \* pairs of an endpoint and an event type
    Owner,          \* the application a pair's endpoint belongs to
    Versions,       \* versions of the schema of one event type
    Threads,        \* API worker threads
    None,           \* no application: AUTH_ENABLED is off
    MaxKeys, MaxSubs, MaxSchemas    \* bounds: rows ever inserted

ASSUME NoneAssumption == None \notin Apps
ASSUME OwnerAssumption == Owner \in [Pairs -> Apps \cup {None}]
ASSUME BoundAssumption == {MaxKeys, MaxSubs, MaxSchemas} \subseteq Nat

VARIABLES
    app,        \* "none", "active", "inactive" or "deleted"
    keys,       \* api_keys rows in order of insertion: owner, life
    subs,       \* subscriptions rows: owner, pair, life
    schemas,    \* event_schemas rows: owner, version, life
    req,        \* where a thread's request is, as whom, about what
    \* history
    seen,       \* the schema rows that the creator of a schema saw
    late        \* requests whose application has ceased to be active since

tables  == <<app, keys, subs, schemas>>
history == <<seen, late>>
vars    == <<tables, req, history>>

Idle == [at |-> "idle", who |-> None, about |-> 0]

Init ==
    /\ app = [a \in Apps |-> "none"]
    /\ keys = <<>> /\ subs = <<>> /\ schemas = <<>>
    /\ req = [t \in Threads |-> Idle]
    /\ seen = <<>> /\ late = {}

Is(t, at) == req[t].at = at

Goes(t, at, who, about) ==
    req' = [req EXCEPT ![t] = [at |-> at, who |-> who, about |-> about]]

\* The request is answered, whatever came of it.
Answers(t, at) ==
    /\ Is(t, at)
    /\ req' = [req EXCEPT ![t] = Idle]

Present(a) == app[a] \in {"active", "inactive"}

-----------------------------------------------------------------------------
(* Authentication (get_current_app).                                       *)

Anonymous(t) ==
    /\ Is(t, "idle")
    /\ Goes(t, "admitted", None, 0)
    /\ UNCHANGED <<tables, history>>

FindKey(t) ==
    /\ Is(t, "idle")
    /\ \E i \in DOMAIN keys :
        /\ keys[i].life = "live"
        /\ Goes(t, "key", keys[i].owner, 0)
    /\ UNCHANGED <<tables, history>>

\* Mutant: a key that was found is enough.
Admits_Any(a) == TRUE

Admits(a) == app[a] = "active"

FindApp(t) ==
    /\ Is(t, "key")
    /\ IF Admits(req[t].who) THEN Goes(t, "admitted", req[t].who, 0)
                             ELSE req' = [req EXCEPT ![t] = Idle]
    /\ UNCHANGED <<tables, history>>

\* 403, 404, 409 or 422, or the database refuses: nothing is written.
Refused(t) ==
    /\ ~Is(t, "idle")
    /\ req' = [req EXCEPT ![t] = Idle]
    /\ late' = late \ {t}
    /\ UNCHANGED <<tables, seen>>

Sees(t, row) == req[t].who \in {None, row.owner}

-----------------------------------------------------------------------------
(* Applications and their keys.  These handlers ask for no key.            *)

\* The name is UNIQUE: of two creates one inserts.
CreateApp(a) ==
    /\ app[a] = "none"
    /\ app' = [app EXCEPT ![a] = "active"]
    /\ UNCHANGED <<keys, subs, schemas, req, history>>

\* A patch to the value it loads writes no is_active.
ReadApp(t, a) ==
    /\ Is(t, "idle")
    /\ Present(a)
    /\ \E op \in {IF app[a] = "active" THEN "off" ELSE "on", "delete", "new_key"} :
        Goes(t, op, a, 0)
    /\ UNCHANGED <<tables, history>>

\* The requests that act for an application that ceases to be active.
Ceases(t) ==
    late' = (late \ {t}) \cup {u \in Threads \ {t} : req[u].who = req[t].who /\ req[u].at # "key"}

SetActive(t, at, value) ==
    /\ Answers(t, at)
    /\ app' = [app EXCEPT ![req[t].who] = IF Present(req[t].who) THEN value ELSE @]
    /\ UNCHANGED <<keys, subs, schemas, seen>>

PatchApp(t) ==
    \/ SetActive(t, "on", "active") /\ late' = late \ {t}
    \/ SetActive(t, "off", "inactive") /\ Ceases(t)

DeleteApp(t) == SetActive(t, "delete", "deleted") /\ Ceases(t)

CreateKey(t) ==
    /\ Answers(t, "new_key")
    /\ Len(keys) < MaxKeys
    /\ keys' = Append(keys, [owner |-> req[t].who, life |-> "live"])
    /\ late' = late \ {t}
    /\ UNCHANGED <<app, subs, schemas, seen>>

\* Found and deleted; found by two requests, it is deleted once.
DeleteKey(i) ==
    /\ keys[i].life = "live"
    /\ keys' = [keys EXCEPT ![i].life = "gone"]
    /\ UNCHANGED <<app, subs, schemas, req, history>>

-----------------------------------------------------------------------------
(* Subscriptions.                                                          *)

Subscribed(pair) == \E i \in DOMAIN subs : subs[i].pair = pair /\ subs[i].life # "gone"

CheckSub(t, pair) ==
    /\ Is(t, "admitted")
    /\ req[t].who \in {None, Owner[pair]}
    /\ ~Subscribed(pair)
    /\ Goes(t, "new_sub", req[t].who, pair)
    /\ UNCHANGED <<tables, history>>

\* The UNIQUE constraint on endpoint and event type refuses the second of
\* two creates that both found none.
CreateSub(t) ==
    /\ Answers(t, "new_sub")
    /\ Len(subs) < MaxSubs
    /\ subs' = IF Subscribed(req[t].about) THEN subs
               ELSE Append(subs, [owner |-> req[t].who, pair |-> req[t].about, life |-> "on"])
    /\ late' = late \ {t}
    /\ UNCHANGED <<app, keys, schemas, seen>>

ReadSub(t, i) ==
    /\ Is(t, "admitted")
    /\ subs[i].life # "gone"
    /\ Sees(t, subs[i])
    /\ \E op \in {"patch_sub", "delete_sub"} : Goes(t, op, req[t].who, i)
    /\ UNCHANGED <<tables, history>>

Writable(i) == subs[i].life # "gone"

\* To another event type of the endpoint, if that is free, or on or off.
PatchSub(t) ==
    /\ Answers(t, "patch_sub")
    /\ \E pair \in Pairs, life \in {"on", "off"} :
        LET i == req[t].about IN
        /\ Owner[pair] = Owner[subs[i].pair]
        /\ subs' = IF Writable(i) /\ (pair = subs[i].pair \/ ~Subscribed(pair))
                   THEN [subs EXCEPT ![i].pair = pair, ![i].life = life]
                   ELSE subs
    /\ late' = late \ {t}
    /\ UNCHANGED <<app, keys, schemas, seen>>

DeleteSub(t) ==
    /\ Answers(t, "delete_sub")
    /\ subs' = [subs EXCEPT ![req[t].about].life = "gone"]
    /\ late' = late \ {t}
    /\ UNCHANGED <<app, keys, schemas, seen>>

-----------------------------------------------------------------------------
(* Event schemas.                                                          *)

\* Mutant: a version that was deleted is free again.
Registered_Active(who, v) ==
    \E i \in DOMAIN schemas :
        schemas[i].owner = who /\ schemas[i].version = v /\ schemas[i].life = "on"

Registered(who, v) ==
    \E i \in DOMAIN schemas : schemas[i].owner = who /\ schemas[i].version = v

CheckSchema(t, v) ==
    /\ Is(t, "admitted")
    /\ ~Registered(req[t].who, v)
    /\ Goes(t, "new_schema", req[t].who, [version |-> v, rows |-> DOMAIN schemas])
    /\ UNCHANGED <<tables, history>>

\* UNIQUE over application, event type and version: without an application
\* it refuses nothing.
CreateSchema(t) ==
    /\ Answers(t, "new_schema")
    /\ Len(schemas) < MaxSchemas
    /\ LET v == req[t].about.version IN
        IF req[t].who # None /\ Registered(req[t].who, v)
        THEN UNCHANGED <<schemas, seen>>
        ELSE /\ schemas' = Append(schemas, [owner |-> req[t].who, version |-> v, life |-> "on"])
             /\ seen' = Append(seen, req[t].about.rows)
    /\ late' = late \ {t}
    /\ UNCHANGED <<app, keys, subs>>

ReadSchema(t, i) ==
    /\ Is(t, "admitted")
    /\ Sees(t, schemas[i])
    /\ Goes(t, "delete_schema", req[t].who, i)
    /\ UNCHANGED <<tables, history>>

\* The row stays, inactive.
DeleteSchema(t) ==
    /\ Answers(t, "delete_schema")
    /\ schemas' = [schemas EXCEPT ![req[t].about].life = "off"]
    /\ late' = late \ {t}
    /\ UNCHANGED <<app, keys, subs, seen>>

-----------------------------------------------------------------------------
Handler(t) ==
    \/ Anonymous(t) \/ FindKey(t) \/ FindApp(t) \/ Refused(t)
    \/ \E a \in Apps : ReadApp(t, a)
    \/ PatchApp(t) \/ DeleteApp(t) \/ CreateKey(t)
    \/ \E pair \in Pairs : CheckSub(t, pair)
    \/ \E i \in DOMAIN subs : ReadSub(t, i)
    \/ CreateSub(t) \/ PatchSub(t) \/ DeleteSub(t)
    \/ \E v \in Versions : CheckSchema(t, v)
    \/ \E i \in DOMAIN schemas : ReadSchema(t, i)
    \/ CreateSchema(t) \/ DeleteSchema(t)

Next ==
    \/ \E t \in Threads : Handler(t)
    \/ \E a \in Apps : CreateApp(a)
    \/ \E i \in DOMAIN keys : DeleteKey(i)

Spec == Init /\ [][Next]_vars

-----------------------------------------------------------------------------
(* Properties.                                                             *)

Twins(i, j) ==
    /\ i # j
    /\ schemas[i].owner = schemas[j].owner
    /\ schemas[i].version = schemas[j].version

\* A version of an event type means one schema for ever, also after it was
\* deleted: a second row for it exists only without an application, and only
\* if the two creates overlapped, neither having seen the other's row
\* (create_schema looks before it inserts, and UNIQUE does not compare NULLs).
VersionsFixed ==
    \A i, j \in DOMAIN schemas :
        Twins(i, j) =>
            /\ schemas[i].owner = None
            /\ i \notin seen[j] /\ j \notin seen[i]

Grows(old, new, a) == Len(new) > Len(old) /\ new[Len(new)].owner = a

\* Nothing is registered for an application that is not active, although its
\* keys are still there, except by a request that was admitted before the
\* application was deleted or deactivated (a key needs it only to exist).
OnlyLateOrphans ==
    [][\A a \in Apps :
        /\ Grows(subs, subs', a) \/ Grows(schemas, schemas', a) =>
                app[a] = "active" \/ \E t \in late : req[t].who = a /\ req'[t] = Idle
        /\ Grows(keys, keys', a) =>
                Present(a) \/ \E t \in late : req[t].who = a /\ req'[t] = Idle]_vars
=============================================================================
