---------------------------- MODULE RegistryProofs ----------------------------
(***************************************************************************)
(* Applications, keys, subscriptions and schemas, for any number of each,  *)
(* of threads and of requests: a version means one schema for ever, and    *)
(* what is registered for an application that has gone comes only from     *)
(* requests that were under way.                                           *)
(***************************************************************************)
EXTENDS Registry, TLAPS

-----------------------------------------------------------------------------
(* The tables and the requests.                                            *)

Callers   == Apps \cup {None}
KeyRow    == [owner : Callers, life : {"live", "gone"}]
SubRow    == [owner : Callers, pair : Pairs, life : {"on", "off", "gone"}]
SchemaRow == [owner : Callers, version : Versions, life : {"on", "off"}]

ForApp == {"on", "off", "delete", "new_key"}
Acting == {"admitted", "new_sub", "patch_sub", "delete_sub", "new_schema", "delete_schema"}
Stages == {"idle", "key"} \cup ForApp \cup Acting

\* What a creator of a schema keeps from its look.
Look   == [version : Versions, rows : SUBSET Nat]
Abouts == Nat \cup Pairs \cup Look

Request == [at : Stages, who : Callers, about : Abouts]

\* Rows are never taken out, and a schema's row is about one version.
Tables ==
    /\ app \in [Apps -> {"none", "active", "inactive", "deleted"}]
    /\ keys \in Seq(KeyRow)
    /\ subs \in Seq(SubRow)
    /\ schemas \in Seq(SchemaRow)
    /\ seen \in Seq(SUBSET Nat)
    /\ Len(seen) = Len(schemas)
    /\ \A j \in 1 .. Len(schemas) : \A i \in seen[j] : i < j
    /\ req \in [Threads -> Request]

\* No row the creator saw was for the version, and none of them becomes so.
Unregistered(who, look) ==
    /\ look \in Look
    /\ \A i \in look.rows :
        i \in 1 .. Len(schemas) /\ ~(schemas[i].owner = who /\ schemas[i].version = look.version)

\* What a request holds fits where it is.
Holds(t) ==
    /\ req[t].at \in ForApp => req[t].who \in Apps
    /\ req[t].at = "new_sub" => req[t].about \in Pairs
    /\ req[t].at \in {"patch_sub", "delete_sub"} => req[t].about \in 1 .. Len(subs)
    /\ req[t].at = "delete_schema" => req[t].about \in 1 .. Len(schemas)
    /\ req[t].at = "new_schema" => Unregistered(req[t].who, req[t].about)

\* A request acts for an application that is active, or that has ceased to be
\* so since; a request about an application found it.
Entitled(t) ==
    /\ req[t].at \in Acting /\ req[t].who \in Apps => app[req[t].who] = "active" \/ t \in late
    /\ req[t].at \in ForApp => Present(req[t].who) \/ t \in late

RegistryInv ==
    /\ Tables
    /\ \A t \in Threads : Holds(t)
    /\ \A t \in Threads : Entitled(t)
    /\ VersionsFixed

-----------------------------------------------------------------------------
(* Steps of a request.                                                     *)

LEMMA Reads ==
    ASSUME Tables
    PROVE  /\ Len(subs) \in Nat /\ Len(schemas) \in Nat /\ Len(keys) \in Nat
           /\ DOMAIN subs = 1 .. Len(subs) /\ DOMAIN keys = 1 .. Len(keys)
           /\ DOMAIN schemas = 1 .. Len(schemas) /\ DOMAIN seen = 1 .. Len(schemas)
           /\ \A i \in 1 .. Len(schemas) : schemas[i] \in SchemaRow
           /\ \A i \in 1 .. Len(subs) : subs[i] \in SubRow
           /\ \A i \in 1 .. Len(keys) : keys[i] \in KeyRow
           /\ \A j \in 1 .. Len(schemas) : seen[j] \in SUBSET Nat
BY DEF Tables

LEMMA RequestFields ==
    ASSUME Tables, NEW t \in Threads
    PROVE  req[t].at \in Stages /\ req[t].who \in Callers /\ req[t].about \in Abouts
  <1>1. req[t] \in Request
    BY DEF Tables
  <1> QED
    BY <1>1 DEF Request

\* Thread t moves, and no other.
Moved(t) == \A u \in Threads \ {t} : req'[u] = req[u]

LEMMA GoesMoves ==
    ASSUME Tables, NEW t \in Threads, NEW at \in Stages, NEW who \in Callers, NEW about \in Abouts,
           Goes(t, at, who, about)
    PROVE  /\ req' \in [Threads -> Request] /\ Moved(t)
           /\ req'[t].at = at /\ req'[t].who = who /\ req'[t].about = about
  <1>1. [at |-> at, who |-> who, about |-> about] \in Request
    BY DEF Request
  <1>2. req \in [Threads -> Request]
    BY DEF Tables
  <1> HIDE DEF Request
  <1> QED
    BY <1>1, <1>2 DEF Goes, Moved

LEMMA IdleMoves ==
    ASSUME Tables, NEW t \in Threads, req' = [req EXCEPT ![t] = Idle]
    PROVE  /\ req' \in [Threads -> Request] /\ Moved(t)
           /\ req'[t] = Idle /\ req'[t].at = "idle" /\ req'[t].who = None
  <1>1. Idle \in Request
    BY DEF Idle, Request, Stages, Callers, Abouts
  <1>2. req \in [Threads -> Request]
    BY DEF Tables
  <1>3. Idle.at = "idle" /\ Idle.who = None
    BY DEF Idle
  <1> QED
    BY <1>1, <1>2, <1>3 DEF Moved

\* The tables only grow, and no schema's row changes what it is about.
Grown ==
    /\ Len(subs) <= Len(subs')
    /\ Len(schemas) <= Len(schemas')
    /\ \A i \in 1 .. Len(schemas) :
        schemas'[i].owner = schemas[i].owner /\ schemas'[i].version = schemas[i].version

LEMMA ReadingKeeps ==
    ASSUME Tables, UNCHANGED <<tables, seen>>, req' \in [Threads -> Request]
    PROVE  Tables' /\ Grown
BY Reads DEF Tables, tables, Grown

\* What the other requests hold still fits.
LEMMA HoldsStays ==
    ASSUME Tables, Tables', Grown, NEW t \in Threads, UNCHANGED req[t], Holds(t)
    PROVE  Holds(t)'
  <1>1. Len(subs) \in Nat /\ Len(subs') \in Nat /\ Len(schemas) \in Nat /\ Len(schemas') \in Nat
    BY DEF Tables
  <1>2. ASSUME Unregistered(req[t].who, req[t].about) PROVE Unregistered(req[t].who, req[t].about)'
    BY <1>1, <1>2 DEF Unregistered, Grown
  <1> QED
    BY <1>1, <1>2 DEF Holds, Grown

\* A row of schemas that is deactivated.
LEMMA SchemaOff ==
    ASSUME Tables, NEW i \in 1 .. Len(schemas), schemas' = [schemas EXCEPT ![i].life = "off"]
    PROVE  /\ schemas' \in Seq(SchemaRow) /\ Len(schemas') = Len(schemas)
           /\ \A j \in 1 .. Len(schemas) :
                schemas'[j].owner = schemas[j].owner /\ schemas'[j].version = schemas[j].version
  <1>1. schemas \in Seq(SchemaRow) /\ schemas[i] \in SchemaRow
    BY DEF Tables
  <1> DEFINE row == [schemas[i] EXCEPT !.life = "off"]
  <1>2. row \in SchemaRow /\ row.owner = schemas[i].owner /\ row.version = schemas[i].version
    BY <1>1 DEF SchemaRow
  <1>3. schemas' = [schemas EXCEPT ![i] = row]
    OBVIOUS
  <1> HIDE DEF row
  <1> QED
    BY <1>1, <1>2, <1>3

\* A row of subscriptions that is changed.
LEMMA SubChanged ==
    ASSUME Tables, NEW i \in 1 .. Len(subs), NEW row \in SubRow, subs' = [subs EXCEPT ![i] = row]
    PROVE  subs' \in Seq(SubRow) /\ Len(subs') = Len(subs)
  <1>1. subs \in Seq(SubRow)
    BY DEF Tables
  <1> QED
    BY <1>1

\* A row of schemas that is inserted.
LEMMA SchemaInserted ==
    ASSUME Tables, NEW row \in SchemaRow, NEW rows \in SUBSET Nat,
           schemas' = Append(schemas, row), seen' = Append(seen, rows)
    PROVE  /\ schemas' \in Seq(SchemaRow) /\ Len(schemas') = Len(schemas) + 1
           /\ seen' \in Seq(SUBSET Nat) /\ Len(seen') = Len(schemas) + 1
           /\ \A j \in 1 .. Len(schemas) : schemas'[j] = schemas[j] /\ seen'[j] = seen[j]
           /\ schemas'[Len(schemas) + 1] = row /\ seen'[Len(schemas) + 1] = rows
  <1>1. schemas \in Seq(SchemaRow) /\ seen \in Seq(SUBSET Nat) /\ Len(seen) = Len(schemas)
    BY DEF Tables
  <1>2. /\ schemas' \in Seq(SchemaRow) /\ Len(schemas') = Len(schemas) + 1
        /\ \A j \in 1 .. Len(schemas) : schemas'[j] = schemas[j]
        /\ schemas'[Len(schemas) + 1] = row
    BY <1>1
  <1>3. /\ seen' \in Seq(SUBSET Nat) /\ Len(seen') = Len(seen) + 1
        /\ \A j \in 1 .. Len(seen) : seen'[j] = seen[j]
        /\ seen'[Len(seen) + 1] = rows
    BY <1>1
  <1> QED
    BY <1>1, <1>2, <1>3

-----------------------------------------------------------------------------
(* What a handler does to the tables and to its request.                   *)

\* A request that is answered holds nothing.
LEMMA IdleHolds == ASSUME NEW t \in Threads, req'[t].at \in {"idle", "key", "admitted"} PROVE Holds(t)'
BY DEF Holds, ForApp

LEMMA AdmissionStep ==
    ASSUME Tables, NEW t \in Threads, Anonymous(t) \/ FindKey(t) \/ FindApp(t) \/ Refused(t)
    PROVE  Tables' /\ Grown /\ Moved(t) /\ Holds(t)'
  <1>1. UNCHANGED <<tables, seen>>
    BY DEF Anonymous, FindKey, FindApp, Refused, history
  <1>2. /\ req' \in [Threads -> Request] /\ Moved(t)
        /\ req'[t].at \in {"idle", "key", "admitted"}
    <2>1. 0 \in Abouts /\ None \in Callers /\ "key" \in Stages /\ "admitted" \in Stages
      BY DEF Abouts, Callers, Stages, Acting
    <2>2. CASE Anonymous(t)
      BY <2>1, <2>2, GoesMoves DEF Anonymous
    <2>3. CASE FindKey(t)
      <3>1. PICK i \in DOMAIN keys : Goes(t, "key", keys[i].owner, 0)
        BY <2>3 DEF FindKey
      <3>2. keys[i] \in KeyRow
        BY <3>1, Reads
      <3>3. keys[i].owner \in Callers
        BY <3>2 DEF KeyRow
      <3> QED
        BY <2>1, <3>1, <3>3, GoesMoves
    <2>4. CASE FindApp(t)
      <3>1. Goes(t, "admitted", req[t].who, 0) \/ req' = [req EXCEPT ![t] = Idle]
        BY <2>4 DEF FindApp
      <3> QED
        BY <2>1, <3>1, GoesMoves, IdleMoves, RequestFields
    <2>5. CASE Refused(t)
      BY <2>5, IdleMoves DEF Refused
    <2> QED
      BY <2>2, <2>3, <2>4, <2>5
  <1> QED
    BY <1>1, <1>2, ReadingKeeps, IdleHolds

LEMMA LookStep ==
    ASSUME Tables, NEW t \in Threads,
           \/ \E a \in Apps : ReadApp(t, a)
           \/ \E pair \in Pairs : CheckSub(t, pair)
           \/ \E i \in DOMAIN subs : ReadSub(t, i)
           \/ \E v \in Versions : CheckSchema(t, v)
           \/ \E i \in DOMAIN schemas : ReadSchema(t, i)
    PROVE  Tables' /\ Grown /\ Moved(t) /\ Holds(t)'
  <1>0. UNCHANGED <<tables, seen>>
    BY DEF ReadApp, CheckSub, ReadSub, CheckSchema, ReadSchema, history
  <1>a. ASSUME req' \in [Threads -> Request] PROVE Tables' /\ Grown
    BY <1>0, <1>a, ReadingKeeps
  <1>b. req[t].who \in Callers
    BY RequestFields
  <1>1. ASSUME NEW a \in Apps, ReadApp(t, a) PROVE Tables' /\ Grown /\ Moved(t) /\ Holds(t)'
    <2>1. PICK op \in ForApp : Goes(t, op, a, 0)
      BY <1>1 DEF ReadApp, ForApp
    <2>2. op \in Stages /\ a \in Callers /\ 0 \in Abouts
      BY DEF Stages, Callers, Abouts
    <2>3. req' \in [Threads -> Request] /\ Moved(t) /\ req'[t].at = op /\ req'[t].who = a
      BY <2>1, <2>2, GoesMoves
    <2> QED
      BY <1>a, <2>3 DEF Holds, ForApp
  <1>2. ASSUME NEW pair \in Pairs, CheckSub(t, pair) PROVE Tables' /\ Grown /\ Moved(t) /\ Holds(t)'
    <2>1. Goes(t, "new_sub", req[t].who, pair) /\ "new_sub" \in Stages /\ pair \in Abouts
      BY <1>2 DEF CheckSub, Stages, Acting, Abouts
    <2>2. req' \in [Threads -> Request] /\ Moved(t) /\ req'[t].at = "new_sub" /\ req'[t].about = pair
      BY <1>b, <2>1, GoesMoves
    <2> QED
      BY <1>a, <2>2 DEF Holds, ForApp
  <1>3. ASSUME NEW i \in DOMAIN subs, ReadSub(t, i) PROVE Tables' /\ Grown /\ Moved(t) /\ Holds(t)'
    <2>1. PICK op \in {"patch_sub", "delete_sub"} : Goes(t, op, req[t].who, i)
      BY <1>3 DEF ReadSub
    <2>2. i \in 1 .. Len(subs) /\ i \in Abouts /\ op \in Stages
      BY Reads DEF Abouts, Stages, Acting
    <2>3. req' \in [Threads -> Request] /\ Moved(t) /\ req'[t].at = op /\ req'[t].about = i
      BY <1>b, <2>1, <2>2, GoesMoves
    <2>4. subs' = subs
      BY <1>0 DEF tables
    <2> QED
      BY <1>a, <2>2, <2>3, <2>4 DEF Holds, ForApp
  <1>4. ASSUME NEW v \in Versions, CheckSchema(t, v) PROVE Tables' /\ Grown /\ Moved(t) /\ Holds(t)'
    <2>0. PICK look : look = [version |-> v, rows |-> DOMAIN schemas]
      OBVIOUS
    <2>1. Goes(t, "new_schema", req[t].who, look) /\ ~Registered(req[t].who, v)
      BY <1>4, <2>0 DEF CheckSchema
    <2>2. look \in Look /\ look \in Abouts /\ "new_schema" \in Stages
      <3>1. DOMAIN schemas \subseteq Nat
        BY Reads
      <3> QED
        BY <2>0, <3>1 DEF Look, Abouts, Stages, Acting
    <2>3. /\ req' \in [Threads -> Request] /\ Moved(t)
          /\ req'[t].at = "new_schema" /\ req'[t].about = look /\ req'[t].who = req[t].who
      BY <1>b, <2>1, <2>2, GoesMoves
    <2>4. schemas' = schemas
      BY <1>0 DEF tables
    <2>5. ASSUME NEW i \in DOMAIN schemas
          PROVE  i \in 1 .. Len(schemas) /\ ~(schemas[i].owner = req[t].who /\ schemas[i].version = v)
      BY <2>1, <2>5, Reads DEF Registered
    <2>6. Unregistered(req[t].who, look)
      BY <2>0, <2>2, <2>5 DEF Unregistered
    <2>7. Unregistered(req[t].who, req[t].about)'
      BY <2>3, <2>4, <2>6 DEF Unregistered, Look
    <2> QED
      BY <1>a, <2>3, <2>7 DEF Holds, ForApp
  <1>5. ASSUME NEW i \in DOMAIN schemas, ReadSchema(t, i) PROVE Tables' /\ Grown /\ Moved(t) /\ Holds(t)'
    <2>1. Goes(t, "delete_schema", req[t].who, i)
      BY <1>5 DEF ReadSchema
    <2>2. i \in 1 .. Len(schemas) /\ i \in Abouts /\ "delete_schema" \in Stages
      BY Reads DEF Abouts, Stages, Acting
    <2>3. req' \in [Threads -> Request] /\ Moved(t) /\ req'[t].at = "delete_schema" /\ req'[t].about = i
      BY <1>b, <2>1, <2>2, GoesMoves
    <2>4. schemas' = schemas
      BY <1>0 DEF tables
    <2> QED
      BY <1>a, <2>2, <2>3, <2>4 DEF Holds, ForApp
  <1> QED
    BY <1>1, <1>2, <1>3, <1>4, <1>5

LEMMA AppStep ==
    ASSUME Tables, NEW t \in Threads, Holds(t), PatchApp(t) \/ DeleteApp(t) \/ CreateKey(t)
    PROVE  Tables' /\ Grown /\ Moved(t) /\ Holds(t)'
  <1>1. req' = [req EXCEPT ![t] = Idle] /\ UNCHANGED <<subs, schemas, seen>>
    BY DEF PatchApp, DeleteApp, CreateKey, SetActive, Answers
  <1>2. req' \in [Threads -> Request] /\ Moved(t) /\ req'[t].at = "idle"
    BY <1>1, IdleMoves
  <1>3. app' \in [Apps -> {"none", "active", "inactive", "deleted"}] /\ keys' \in Seq(KeyRow)
    <2>1. CASE PatchApp(t) \/ DeleteApp(t)
      <3>1. PICK value \in {"active", "inactive", "deleted"} :
                app' = [app EXCEPT ![req[t].who] = IF Present(req[t].who) THEN value ELSE @]
        BY <2>1 DEF PatchApp, DeleteApp, SetActive
      <3>2. keys' = keys
        BY <2>1 DEF PatchApp, DeleteApp, SetActive
      <3> QED
        BY <3>1, <3>2 DEF Tables
    <2>2. CASE CreateKey(t)
      <3>1. keys' = Append(keys, [owner |-> req[t].who, life |-> "live"]) /\ app' = app
        BY <2>2 DEF CreateKey
      <3>2. [owner |-> req[t].who, life |-> "live"] \in KeyRow
        BY RequestFields DEF KeyRow
      <3> QED
        BY <3>1, <3>2 DEF Tables
    <2> QED
      BY <2>1, <2>2
  <1>4. Tables' /\ Grown
    BY <1>1, <1>2, <1>3, Reads DEF Tables, Grown
  <1> QED
    BY <1>2, <1>4, IdleHolds

LEMMA SubPatched ==
    ASSUME Tables, NEW t \in Threads, Holds(t), PatchSub(t) \/ DeleteSub(t)
    PROVE  subs' \in Seq(SubRow) /\ Len(subs') = Len(subs)
  <1>0. subs \in Seq(SubRow) /\ Len(subs) \in Nat
    BY DEF Tables
  <1>1. CASE PatchSub(t) /\ subs' # subs
    <2> DEFINE i == req[t].about
    <2>1. i \in 1 .. Len(subs)
      BY <1>1 DEF PatchSub, Answers, Is, Holds
    <2>2. PICK pair \in Pairs, life \in {"on", "off"} :
              subs' = [subs EXCEPT ![i].pair = pair, ![i].life = life]
      BY <1>1 DEF PatchSub
    <2>3. subs[i] \in SubRow
      BY <2>1, Reads
    <2>4. PICK row : row = [[subs[i] EXCEPT !.pair = pair] EXCEPT !.life = life]
      OBVIOUS
    <2>5. row \in SubRow
      BY <2>3, <2>4 DEF SubRow
    <2> HIDE DEF i
    <2>6. subs' = [subs EXCEPT ![i] = row]
      BY <1>0, <2>1, <2>2, <2>4
    <2> QED
      BY <1>0, <2>1, <2>5, <2>6, SubChanged
  <1>2. CASE DeleteSub(t)
    <2> DEFINE i == req[t].about
    <2>1. i \in 1 .. Len(subs)
      BY <1>2 DEF DeleteSub, Answers, Is, Holds
    <2>2. subs[i] \in SubRow
      BY <2>1, Reads
    <2>3. PICK row : row = [subs[i] EXCEPT !.life = "gone"]
      OBVIOUS
    <2>4. row \in SubRow
      BY <2>2, <2>3 DEF SubRow
    <2>5. subs' = [subs EXCEPT ![i] = row]
      BY <1>2, <2>3 DEF DeleteSub
    <2> HIDE DEF i
    <2> QED
      BY <1>0, <2>1, <2>4, <2>5, SubChanged
  <1>3. CASE subs' = subs
    BY <1>0, <1>3
  <1> QED
    BY <1>1, <1>2, <1>3

LEMMA SubStep ==
    ASSUME Tables, NEW t \in Threads, Holds(t), CreateSub(t) \/ PatchSub(t) \/ DeleteSub(t)
    PROVE  Tables' /\ Grown /\ Moved(t) /\ Holds(t)'
  <1>1. req' = [req EXCEPT ![t] = Idle] /\ UNCHANGED <<app, keys, schemas, seen>>
    BY DEF CreateSub, PatchSub, DeleteSub, Answers
  <1>2. req' \in [Threads -> Request] /\ Moved(t) /\ req'[t].at = "idle"
    BY <1>1, IdleMoves
  <1>0. subs \in Seq(SubRow) /\ Len(subs) \in Nat
    BY DEF Tables
  <1>3. subs' \in Seq(SubRow) /\ Len(subs') \in Nat /\ Len(subs) <= Len(subs')
    <2>0. CASE subs' = subs
      BY <1>0, <2>0
    <2>1. CASE CreateSub(t) /\ subs' # subs
      <3> DEFINE row == [owner |-> req[t].who, pair |-> req[t].about, life |-> "on"]
      <3>1. subs' = Append(subs, row)
        BY <2>1 DEF CreateSub
      <3>2. req[t].who \in Callers /\ req[t].about \in Pairs
        BY <2>1, RequestFields DEF CreateSub, Answers, Is, Holds
      <3>3. row \in SubRow
        BY <3>2 DEF SubRow
      <3> HIDE DEF row
      <3> QED
        BY <1>0, <3>1, <3>3
    <2>2. CASE PatchSub(t) \/ DeleteSub(t)
      BY <1>0, <2>2, SubPatched
    <2> QED
      BY <2>0, <2>1, <2>2
  <1>4. Tables' /\ Grown
    BY <1>1, <1>2, <1>3, Reads DEF Tables, Grown
  <1> QED
    BY <1>2, <1>4, IdleHolds

LEMMA SchemaStep ==
    ASSUME Tables, NEW t \in Threads, Holds(t), CreateSchema(t) \/ DeleteSchema(t)
    PROVE  Tables' /\ Grown /\ Moved(t) /\ Holds(t)'
  <1>1. req' = [req EXCEPT ![t] = Idle] /\ UNCHANGED <<app, keys, subs>>
    BY DEF CreateSchema, DeleteSchema, Answers
  <1>2. req' \in [Threads -> Request] /\ Moved(t) /\ req'[t].at = "idle"
    BY <1>1, IdleMoves
  <1>0. Len(schemas) \in Nat /\ Len(subs) \in Nat
    BY Reads
  <1>3. Tables' /\ Grown
    <2>1. CASE UNCHANGED <<schemas, seen>>
      BY <1>0, <1>1, <1>2, <2>1 DEF Tables, Grown
    <2>2. CASE CreateSchema(t) /\ ~UNCHANGED <<schemas, seen>>
      <3>0. PICK row, rows : /\ row = [owner |-> req[t].who, version |-> req[t].about.version, life |-> "on"]
                             /\ rows = req[t].about.rows
        OBVIOUS
      <3>1. schemas' = Append(schemas, row) /\ seen' = Append(seen, rows)
        BY <2>2, <3>0 DEF CreateSchema
      <3>2. Unregistered(req[t].who, req[t].about)
        BY <2>2 DEF CreateSchema, Answers, Is, Holds
      <3>3. /\ req[t].about.version \in Versions /\ rows \in SUBSET Nat
            /\ \A i \in rows : i \in 1 .. Len(schemas)
        BY <3>0, <3>2 DEF Unregistered, Look
      <3>4. row \in SchemaRow
        BY <3>0, <3>3, RequestFields DEF SchemaRow
      <3>5. /\ schemas' \in Seq(SchemaRow) /\ Len(schemas') = Len(schemas) + 1
            /\ seen' \in Seq(SUBSET Nat) /\ Len(seen') = Len(schemas) + 1
            /\ \A j \in 1 .. Len(schemas) : schemas'[j] = schemas[j] /\ seen'[j] = seen[j]
            /\ seen'[Len(schemas) + 1] = rows
        BY <3>1, <3>3, <3>4, SchemaInserted
      <3>6. \A j \in 1 .. Len(schemas') : \A i \in seen'[j] : i < j
        <4> SUFFICES ASSUME NEW j \in 1 .. Len(schemas'), NEW i \in seen'[j] PROVE i < j
          OBVIOUS
        <4>1. CASE j \in 1 .. Len(schemas)
          BY <3>5, <4>1 DEF Tables
        <4>2. CASE j = Len(schemas) + 1
          BY <1>0, <3>3, <3>5, <4>2
        <4> QED
          BY <1>0, <3>5, <4>1, <4>2
      <3>7. Grown
        BY <1>0, <1>1, <3>5 DEF Grown
      <3>8. Tables'
        BY <1>1, <1>2, <3>5, <3>6 DEF Tables
      <3> QED
        BY <3>7, <3>8
    <2>3. CASE DeleteSchema(t)
      <3>0. PICK i : i = req[t].about
        OBVIOUS
      <3>1. i \in 1 .. Len(schemas) /\ schemas' = [schemas EXCEPT ![i].life = "off"] /\ seen' = seen
        BY <2>3, <3>0 DEF DeleteSchema, Answers, Is, Holds
      <3>2. /\ schemas' \in Seq(SchemaRow) /\ Len(schemas') = Len(schemas)
            /\ \A j \in 1 .. Len(schemas) :
                    schemas'[j].owner = schemas[j].owner /\ schemas'[j].version = schemas[j].version
        BY <3>1, SchemaOff
      <3>3. Grown
        BY <1>0, <1>1, <3>2 DEF Grown
      <3>4. Tables'
        BY <1>1, <1>2, <3>1, <3>2 DEF Tables
      <3> QED
        BY <3>3, <3>4
    <2> QED
      BY <2>1, <2>2, <2>3
  <1> QED
    BY <1>2, <1>3, IdleHolds

LEMMA HandlerStep ==
    ASSUME Tables, NEW t \in Threads, Holds(t), Handler(t)
    PROVE  Tables' /\ Grown /\ Moved(t) /\ Holds(t)'
BY AdmissionStep, LookStep, AppStep, SubStep, SchemaStep DEF Handler

-----------------------------------------------------------------------------
(* Every step.                                                             *)

LEMMA TablesKept ==
    ASSUME Tables, \A t \in Threads : Holds(t), [Next]_vars
    PROVE  Tables' /\ \A t \in Threads : Holds(t)'
  <1>a. ASSUME UNCHANGED <<subs, schemas, seen, req>>,
               app' \in [Apps -> {"none", "active", "inactive", "deleted"}], keys' \in Seq(KeyRow)
        PROVE  Tables' /\ \A t \in Threads : Holds(t)'
    <2>1. Tables' /\ Grown
      BY <1>a, Reads DEF Tables, Grown
    <2> QED
      BY <1>a, <2>1, HoldsStays
  <1>1. ASSUME NEW t \in Threads, Handler(t) PROVE Tables' /\ \A u \in Threads : Holds(u)'
    <2>1. Tables' /\ Grown /\ Moved(t) /\ Holds(t)'
      BY <1>1, HandlerStep
    <2>2. ASSUME NEW u \in Threads \ {t} PROVE Holds(u)'
      BY <2>1, HoldsStays DEF Moved
    <2> QED
      BY <2>1, <2>2
  <1>2. ASSUME NEW a \in Apps, CreateApp(a) PROVE Tables' /\ \A t \in Threads : Holds(t)'
    BY <1>2, <1>a DEF CreateApp, Tables, history
  <1>3. ASSUME NEW i \in DOMAIN keys, DeleteKey(i) PROVE Tables' /\ \A t \in Threads : Holds(t)'
    <2>0. PICK row : row = [keys[i] EXCEPT !.life = "gone"]
      OBVIOUS
    <2>1. i \in 1 .. Len(keys) /\ keys[i] \in KeyRow
      BY Reads
    <2>2. row \in KeyRow
      BY <2>0, <2>1 DEF KeyRow
    <2>3. keys' = [keys EXCEPT ![i] = row]
      BY <1>3, <2>0 DEF DeleteKey
    <2>4. keys' \in Seq(KeyRow)
      BY <2>1, <2>2, <2>3 DEF Tables
    <2> QED
      BY <1>3, <1>a, <2>4 DEF DeleteKey, Tables, history
  <1>4. CASE UNCHANGED vars
    BY <1>4, <1>a DEF vars, tables, history, Tables
  <1> QED
    BY <1>1, <1>2, <1>3, <1>4 DEF Next

\* Which steps insert, and for whom.
LEMMA Inserts ==
    ASSUME Tables, \A t \in Threads : Holds(t), [Next]_vars
    PROVE  /\ \/ Len(subs') = Len(subs)
              \/ \E t \in Threads : CreateSub(t) /\ \E row \in SubRow :
                    row.owner = req[t].who /\ subs' = Append(subs, row)
           /\ \/ UNCHANGED <<schemas, seen>>
              \/ \E t \in Threads : DeleteSchema(t)
              \/ \E t \in Threads : CreateSchema(t) /\ \E row \in SchemaRow :
                    /\ row.owner = req[t].who /\ row.version = req[t].about.version
                    /\ schemas' = Append(schemas, row) /\ seen' = Append(seen, req[t].about.rows)
                    /\ row.owner # None => ~Registered(row.owner, row.version)
           /\ \/ Len(keys') = Len(keys)
              \/ \E t \in Threads : CreateKey(t) /\ \E row \in KeyRow :
                    row.owner = req[t].who /\ keys' = Append(keys, row)
  <1>1. \/ Len(subs') = Len(subs)
        \/ \E t \in Threads : CreateSub(t) /\ \E row \in SubRow :
              row.owner = req[t].who /\ subs' = Append(subs, row)
    <2>1. ASSUME NEW t \in Threads, CreateSub(t), subs' # subs
          PROVE  \E row \in SubRow : row.owner = req[t].who /\ subs' = Append(subs, row)
      <3>1. PICK row : row = [owner |-> req[t].who, pair |-> req[t].about, life |-> "on"]
        OBVIOUS
      <3>2. req[t].about \in Pairs /\ req[t].who \in Callers
        BY <2>1, RequestFields DEF CreateSub, Answers, Is, Holds
      <3>3. row \in SubRow /\ row.owner = req[t].who
        BY <3>1, <3>2 DEF SubRow
      <3> QED
        BY <2>1, <3>1, <3>3 DEF CreateSub
    <2>2. UNCHANGED subs \/ \E t \in Threads : CreateSub(t) \/ PatchSub(t) \/ DeleteSub(t)
      BY DEF Next, Handler, Anonymous, FindKey, FindApp, Refused, ReadApp, PatchApp, DeleteApp,
             SetActive, CreateKey, CheckSub, ReadSub, CheckSchema, ReadSchema, CreateSchema,
             DeleteSchema, CreateApp, DeleteKey, vars, tables
    <2> QED
      BY <2>1, <2>2, SubPatched
  <1>2. \/ UNCHANGED <<schemas, seen>>
        \/ \E t \in Threads : DeleteSchema(t)
        \/ \E t \in Threads : CreateSchema(t) /\ \E row \in SchemaRow :
              /\ row.owner = req[t].who /\ row.version = req[t].about.version
              /\ schemas' = Append(schemas, row) /\ seen' = Append(seen, req[t].about.rows)
              /\ row.owner # None => ~Registered(row.owner, row.version)
    <2>1. ASSUME NEW t \in Threads, CreateSchema(t), ~UNCHANGED <<schemas, seen>>
          PROVE  \E row \in SchemaRow :
                    /\ row.owner = req[t].who /\ row.version = req[t].about.version
                    /\ schemas' = Append(schemas, row) /\ seen' = Append(seen, req[t].about.rows)
                    /\ row.owner # None => ~Registered(row.owner, row.version)
      <3>1. PICK row : row = [owner |-> req[t].who, version |-> req[t].about.version, life |-> "on"]
        OBVIOUS
      <3>2. req[t].about \in Look /\ req[t].who \in Callers
        BY <2>1, RequestFields DEF CreateSchema, Answers, Is, Holds, Unregistered
      <3>3. row \in SchemaRow /\ row.owner = req[t].who /\ row.version = req[t].about.version
        BY <3>1, <3>2 DEF SchemaRow, Look
      <3>4. /\ schemas' = Append(schemas, row) /\ seen' = Append(seen, req[t].about.rows)
            /\ ~(req[t].who # None /\ Registered(req[t].who, req[t].about.version))
        BY <2>1, <3>1 DEF CreateSchema
      <3> QED
        BY <3>3, <3>4
    <2>2. UNCHANGED <<schemas, seen>> \/ \E t \in Threads : CreateSchema(t) \/ DeleteSchema(t)
      BY DEF Next, Handler, Anonymous, FindKey, FindApp, Refused, ReadApp, PatchApp, DeleteApp,
             SetActive, CreateKey, CheckSub, ReadSub, CheckSchema, ReadSchema, CreateSub, PatchSub,
             DeleteSub, CreateApp, DeleteKey, vars, tables, history
    <2> QED
      BY <2>1, <2>2
  <1>3. \/ Len(keys') = Len(keys)
        \/ \E t \in Threads : CreateKey(t) /\ \E row \in KeyRow :
              row.owner = req[t].who /\ keys' = Append(keys, row)
    <2>1. ASSUME NEW t \in Threads, CreateKey(t)
          PROVE  \E row \in KeyRow : row.owner = req[t].who /\ keys' = Append(keys, row)
      <3>1. PICK row : row = [owner |-> req[t].who, life |-> "live"]
        OBVIOUS
      <3>2. row \in KeyRow /\ row.owner = req[t].who
        BY <3>1, RequestFields DEF KeyRow
      <3> QED
        BY <2>1, <3>1, <3>2 DEF CreateKey
    <2>2. ASSUME NEW i \in DOMAIN keys, DeleteKey(i) PROVE Len(keys') = Len(keys)
      BY <2>2 DEF DeleteKey, Tables
    <2>3. \/ UNCHANGED keys \/ \E t \in Threads : CreateKey(t)
          \/ \E i \in DOMAIN keys : DeleteKey(i)
      BY DEF Next, Handler, Anonymous, FindKey, FindApp, Refused, ReadApp, PatchApp, DeleteApp,
             SetActive, CheckSub, ReadSub, CheckSchema, ReadSchema, CreateSub, PatchSub,
             DeleteSub, CreateSchema, DeleteSchema, CreateApp, vars, tables
    <2> QED
      BY <2>1, <2>2, <2>3
  <1> QED
    BY <1>1, <1>2, <1>3

-----------------------------------------------------------------------------
(* One version, one schema.                                                *)

LEMMA FixedKept ==
    ASSUME Tables, \A t \in Threads : Holds(t), VersionsFixed, [Next]_vars
    PROVE  VersionsFixed'
  <1>0. Len(schemas) \in Nat /\ DOMAIN schemas = 1 .. Len(schemas)
    BY Reads
  <1>1. CASE UNCHANGED <<schemas, seen>>
    BY <1>1 DEF VersionsFixed, Twins
  <1>2. ASSUME NEW t \in Threads, DeleteSchema(t) PROVE VersionsFixed'
    <2>0. PICK i : i = req[t].about
      OBVIOUS
    <2>1. i \in 1 .. Len(schemas) /\ schemas' = [schemas EXCEPT ![i].life = "off"] /\ seen' = seen
      BY <1>2, <2>0 DEF DeleteSchema, Answers, Is, Holds
    <2>2. /\ schemas' \in Seq(SchemaRow) /\ Len(schemas') = Len(schemas)
          /\ \A j \in 1 .. Len(schemas) :
                schemas'[j].owner = schemas[j].owner /\ schemas'[j].version = schemas[j].version
      BY <2>1, SchemaOff
    <2>3. DOMAIN schemas' = 1 .. Len(schemas)
      BY <2>2
    <2> QED
      BY <1>0, <2>1, <2>2, <2>3 DEF VersionsFixed, Twins
  <1>3. ASSUME NEW t \in Threads, CreateSchema(t), NEW row \in SchemaRow,
               row.owner = req[t].who, row.version = req[t].about.version,
               schemas' = Append(schemas, row), seen' = Append(seen, req[t].about.rows),
               row.owner # None => ~Registered(row.owner, row.version)
        PROVE  VersionsFixed'
    <2> DEFINE n == Len(schemas)
    <2>1. Unregistered(req[t].who, req[t].about)
      BY <1>3 DEF CreateSchema, Answers, Is, Holds
    <2>2. req[t].about.rows \in SUBSET Nat
      BY <2>1 DEF Unregistered, Look
    <2>3. /\ schemas' \in Seq(SchemaRow) /\ Len(schemas') = n + 1
          /\ \A j \in 1 .. n : schemas'[j] = schemas[j] /\ seen'[j] = seen[j]
          /\ schemas'[n + 1] = row /\ seen'[n + 1] = req[t].about.rows
      BY <1>3, <2>2, SchemaInserted
    <2>4. DOMAIN schemas' = 1 .. n + 1
      BY <2>3
    \* A row that was there and the new one for the same version.
    <2>5. ASSUME NEW i \in 1 .. n, schemas[i].owner = row.owner, schemas[i].version = row.version
          PROVE  row.owner = None /\ i \notin req[t].about.rows /\ n + 1 \notin seen[i]
      <3>1. row.owner = None
        BY <1>0, <1>3, <2>5 DEF Registered
      <3>2. i \notin req[t].about.rows
        BY <1>3, <2>1, <2>5 DEF Unregistered
      <3>3. n + 1 \notin seen[i]
        BY <1>0, <2>5 DEF Tables
      <3> QED
        BY <3>1, <3>2, <3>3
    <2>6. SUFFICES ASSUME NEW i \in 1 .. n + 1, NEW j \in 1 .. n + 1, Twins(i, j)'
                   PROVE  /\ schemas'[i].owner = None
                          /\ i \notin seen'[j] /\ j \notin seen'[i]
      BY <2>4 DEF VersionsFixed
    <2>7. /\ i # j /\ schemas'[i].owner = schemas'[j].owner
          /\ schemas'[i].version = schemas'[j].version
      BY <2>6 DEF Twins
    <2>8. CASE i \in 1 .. n /\ j \in 1 .. n
      <3>1. Twins(i, j)
        BY <2>3, <2>7, <2>8 DEF Twins
      <3> QED
        BY <1>0, <2>3, <2>8, <3>1 DEF VersionsFixed
    <2>9. CASE i \in 1 .. n /\ j = n + 1
      <3>1. schemas[i].owner = row.owner /\ schemas[i].version = row.version
        BY <2>3, <2>7, <2>9
      <3> QED
        BY <2>3, <2>5, <2>9, <3>1
    <2>10. CASE i = n + 1 /\ j \in 1 .. n
      <3>1. schemas[j].owner = row.owner /\ schemas[j].version = row.version
        BY <2>3, <2>7, <2>10
      <3> QED
        BY <2>3, <2>5, <2>10, <3>1
    <2> QED
      BY <1>0, <2>7, <2>8, <2>9, <2>10
  <1> QED
    BY <1>1, <1>2, <1>3, Inserts

-----------------------------------------------------------------------------
(* A request acts for an active application, or is late.                   *)

\* An answered request acts for nobody.
LEMMA IdleEntitled == ASSUME NEW t \in Threads, req'[t].at \in {"idle", "key"} PROVE Entitled(t)'
BY DEF Entitled, Acting, ForApp

\* The other requests, when nobody ceases to be active.
LEMMA EntitledStays ==
    ASSUME NEW u \in Threads, UNCHANGED req[u], Entitled(u), u \in late => u \in late',
           \A a \in Apps : /\ app[a] = "active" => app'[a] = "active"
                           /\ Present(a) => Present(a)',
           req[u].at \in ForApp => req[u].who \in Apps
    PROVE  Entitled(u)'
BY DEF Entitled

LEMMA EntitledHandler ==
    ASSUME Tables, \A t \in Threads : Holds(t) /\ Entitled(t),
           NEW t \in Threads, Handler(t), NEW u \in Threads
    PROVE  Entitled(u)'
  <1>0. Moved(t) /\ Holds(u)
    BY HandlerStep
  <1>1. CASE u # t
    <2>0. UNCHANGED req[u] /\ (req[u].at \in ForApp => req[u].who \in Apps)
      BY <1>0, <1>1 DEF Moved, Holds
    <2>1. CASE UNCHANGED app /\ late \ {t} \subseteq late'
      <3>1. \A a \in Apps : /\ app[a] = "active" => app'[a] = "active"
                            /\ Present(a) => Present(a)'
        BY <2>1 DEF Present
      <3> QED
        BY <1>1, <2>0, <2>1, <3>1, EntitledStays
    <2>2. CASE PatchApp(t) \/ DeleteApp(t)
      <3>1. req[t].who \in Apps
        BY <2>2 DEF PatchApp, DeleteApp, SetActive, Answers, Is, Holds, ForApp
      <3>2. CASE app' = [app EXCEPT ![req[t].who] = IF Present(req[t].who) THEN "active" ELSE @]
                 /\ late' = late \ {t}
        <4>1. \A a \in Apps : /\ app[a] = "active" => app'[a] = "active"
                              /\ Present(a) => Present(a)'
          BY <3>1, <3>2 DEF Present, Tables
        <4> QED
          BY <1>1, <2>0, <3>2, <4>1, EntitledStays
      <3>3. CASE \E value \in {"inactive", "deleted"} :
                    /\ app' = [app EXCEPT ![req[t].who] = IF Present(req[t].who) THEN value ELSE @]
                    /\ Ceases(t)
        <4>1. late \ {t} \subseteq late'
          BY <3>3 DEF Ceases
        <4>2. CASE req[u].who = req[t].who
          <5>1. req[u].at # "key" => u \in late'
            BY <1>1, <3>3, <4>2 DEF Ceases
          <5> QED
            BY <2>0, <5>1 DEF Entitled, Acting, ForApp
        <4>3. CASE req[u].who # req[t].who
          <5>1. req[u].who \in Apps => app'[req[u].who] = app[req[u].who]
            BY <3>3, <4>3 DEF Tables
          <5> QED
            BY <1>1, <2>0, <4>1, <5>1 DEF Entitled, Present
        <4> QED
          BY <4>2, <4>3
      <3> QED
        BY <2>2, <3>2, <3>3 DEF PatchApp, DeleteApp, SetActive
    <2> QED
      BY <2>1, <2>2 DEF Handler, Anonymous, FindKey, FindApp, Refused, ReadApp, CreateKey,
         CheckSub, ReadSub, CheckSchema, ReadSchema, CreateSub, PatchSub, DeleteSub, CreateSchema,
         DeleteSchema, tables, history
  <1>2. CASE u = t
    <2>0. req[t] \in Request /\ req \in [Threads -> Request] /\ req[t].who \in Callers
      BY RequestFields DEF Tables
    <2>1. CASE req' = [req EXCEPT ![t] = Idle]
      <3>1. req'[t].at = "idle"
        BY <2>1, IdleMoves
      <3> QED
        BY <1>2, <3>1, IdleEntitled
    <2>2. CASE Anonymous(t)
      <3>1. req'[t].at = "admitted" /\ req'[t].who = None
        BY <2>0, <2>2 DEF Anonymous, Goes
      <3> QED
        BY <1>2, <3>1, NoneAssumption DEF Entitled, ForApp
    <2>3. CASE FindKey(t)
      <3>1. req'[t].at = "key"
        BY <2>0, <2>3 DEF FindKey, Goes
      <3> QED
        BY <1>2, <3>1, IdleEntitled
    <2>4. CASE FindApp(t) /\ ~(req' = [req EXCEPT ![t] = Idle])
      <3>1. /\ app[req[t].who] = "active" /\ app' = app
            /\ req'[t].at = "admitted" /\ req'[t].who = req[t].who
        BY <2>0, <2>4 DEF FindApp, Goes, Admits, tables
      <3> QED
        BY <1>2, <3>1 DEF Entitled, ForApp
    <2>5. CASE \E a \in Apps : ReadApp(t, a)
      <3>1. PICK a \in Apps : Present(a) /\ req'[t].who = a /\ req'[t].at \in ForApp /\ app' = app
        BY <2>0, <2>5 DEF ReadApp, Goes, ForApp, tables
      <3> QED
        BY <1>2, <3>1 DEF Entitled, Present, Acting, ForApp
    <2>6. CASE \/ \E pair \in Pairs : CheckSub(t, pair)
               \/ \E i \in DOMAIN subs : ReadSub(t, i)
               \/ \E v \in Versions : CheckSchema(t, v)
               \/ \E i \in DOMAIN schemas : ReadSchema(t, i)
      <3>1. /\ req[t].at = "admitted" /\ req'[t].who = req[t].who /\ req'[t].at \in Acting \ ForApp
            /\ UNCHANGED <<app, late>>
        BY <2>0, <2>6 DEF CheckSub, ReadSub, CheckSchema, ReadSchema, Is, Goes, Acting, ForApp,
                          tables, history
      <3> QED
        BY <1>2, <3>1 DEF Entitled, Acting, ForApp
    <2> QED
      BY <2>1, <2>2, <2>3, <2>4, <2>5, <2>6 DEF Handler, FindApp, Refused, PatchApp, DeleteApp, SetActive,
         CreateKey, CreateSub, PatchSub, DeleteSub, CreateSchema, DeleteSchema, Answers
  <1> QED
    BY <1>1, <1>2

LEMMA EntitledKept ==
    ASSUME Tables, \A t \in Threads : Holds(t) /\ Entitled(t), [Next]_vars, NEW u \in Threads
    PROVE  Entitled(u)'
  <1>0. req[u].at \in ForApp => req[u].who \in Apps
    BY DEF Holds
  <1>1. ASSUME NEW t \in Threads, Handler(t) PROVE Entitled(u)'
    BY <1>1, EntitledHandler
  <1>2. ASSUME NEW a \in Apps, CreateApp(a) PROVE Entitled(u)'
    <2>1. \A b \in Apps : /\ app[b] = "active" => app'[b] = "active"
                          /\ Present(b) => Present(b)'
      BY <1>2 DEF CreateApp, Present, Tables
    <2> QED
      BY <1>0, <1>2, <2>1, EntitledStays DEF CreateApp, history
  <1>3. ASSUME UNCHANGED <<app, req, late>> PROVE Entitled(u)'
    BY <1>3 DEF Entitled, Present
  <1> QED
    BY <1>1, <1>2, <1>3 DEF Next, DeleteKey, vars, tables, history

-----------------------------------------------------------------------------
(* The theorems.                                                           *)

LEMMA RegistryStarts == Init => RegistryInv
  <1> SUFFICES ASSUME Init PROVE RegistryInv
    OBVIOUS
  <1>1. Idle \in Request /\ Idle.at = "idle"
    BY DEF Idle, Request, Stages, Callers, Abouts
  <1>2. req \in [Threads -> Request] /\ \A t \in Threads : req[t].at = "idle"
    BY <1>1 DEF Init
  <1>3. keys = <<>> /\ subs = <<>> /\ schemas = <<>> /\ seen = <<>>
    BY DEF Init
  <1>4. Tables
    BY <1>2, <1>3 DEF Init, Tables
  <1>5. VersionsFixed
    BY <1>3 DEF VersionsFixed
  <1> QED
    BY <1>2, <1>4, <1>5 DEF RegistryInv, Holds, Entitled, ForApp, Acting

LEMMA RegistryKept == RegistryInv /\ [Next]_vars => RegistryInv'
  BY TablesKept, FixedKept, EntitledKept DEF RegistryInv

\* In every reachable state a version of an event type has one row, for ever,
\* or several without an application whose creators overlapped.
THEOREM VersionsStayFixed == Spec => []VersionsFixed
<1>1. RegistryInv => VersionsFixed
  BY DEF RegistryInv
<1> QED
  BY <1>1, RegistryStarts, RegistryKept, PTL DEF Spec

\* No step registers anything for an application that is not active, or makes
\* a key for one that is gone, except the end of a request that was under way
\* when it ceased to be.
THEOREM OrphansAreLate == Spec => OnlyLateOrphans
<1>1. ASSUME RegistryInv, [Next]_vars, NEW a \in Apps
      PROVE  /\ Grows(subs, subs', a) \/ Grows(schemas, schemas', a) =>
                    app[a] = "active" \/ \E t \in late : req[t].who = a /\ req'[t] = Idle
             /\ Grows(keys, keys', a) =>
                    Present(a) \/ \E t \in late : req[t].who = a /\ req'[t] = Idle
  <2>0. Tables /\ (\A t \in Threads : Holds(t) /\ Entitled(t))
    BY <1>1 DEF RegistryInv
  <2>1. ASSUME Grows(subs, subs', a)
        PROVE  app[a] = "active" \/ \E t \in late : req[t].who = a /\ req'[t] = Idle
    <3>1. Len(subs') # Len(subs)
      BY <2>0, <2>1, Reads DEF Grows
    <3>2. PICK t \in Threads, row \in SubRow :
            CreateSub(t) /\ row.owner = req[t].who /\ subs' = Append(subs, row)
      BY <1>1, <2>0, <3>1, Inserts
    <3>3. subs'[Len(subs')] = row
      BY <2>0, <3>2 DEF Tables
    <3>4. req[t].who = a /\ req[t].at = "new_sub" /\ req' = [req EXCEPT ![t] = Idle]
      BY <2>1, <3>2, <3>3 DEF Grows, CreateSub, Answers, Is
    <3>5. req'[t] = Idle
      BY <2>0, <3>4, IdleMoves
    <3> QED
      BY <2>0, <3>4, <3>5 DEF Entitled, Acting
  <2>2. ASSUME Grows(schemas, schemas', a)
        PROVE  app[a] = "active" \/ \E t \in late : req[t].who = a /\ req'[t] = Idle
    <3>1. Len(schemas') # Len(schemas)
      BY <2>0, <2>2, Reads DEF Grows
    <3>2. ASSUME NEW t \in Threads, DeleteSchema(t) PROVE Len(schemas') = Len(schemas)
      <4>1. PICK i : i = req[t].about
        OBVIOUS
      <4>2. i \in 1 .. Len(schemas) /\ schemas' = [schemas EXCEPT ![i].life = "off"]
        BY <2>0, <3>2, <4>1 DEF DeleteSchema, Answers, Is, Holds
      <4> QED
        BY <2>0, <4>2, SchemaOff
    <3>3. PICK t \in Threads, row \in SchemaRow :
            CreateSchema(t) /\ row.owner = req[t].who /\ schemas' = Append(schemas, row)
      BY <1>1, <2>0, <3>1, <3>2, Inserts
    <3>4. schemas'[Len(schemas')] = row
      BY <2>0, <3>3 DEF Tables
    <3>5. req[t].who = a /\ req[t].at = "new_schema" /\ req' = [req EXCEPT ![t] = Idle]
      BY <2>2, <3>3, <3>4 DEF Grows, CreateSchema, Answers, Is
    <3>6. req'[t] = Idle
      BY <2>0, <3>5, IdleMoves
    <3> QED
      BY <2>0, <3>5, <3>6 DEF Entitled, Acting
  <2>3. ASSUME Grows(keys, keys', a)
        PROVE  Present(a) \/ \E t \in late : req[t].who = a /\ req'[t] = Idle
    <3>1. Len(keys') # Len(keys)
      BY <2>0, <2>3, Reads DEF Grows
    <3>2. PICK t \in Threads, row \in KeyRow :
            CreateKey(t) /\ row.owner = req[t].who /\ keys' = Append(keys, row)
      BY <1>1, <2>0, <3>1, Inserts
    <3>3. keys'[Len(keys')] = row
      BY <2>0, <3>2 DEF Tables
    <3>4. req[t].who = a /\ req[t].at = "new_key" /\ req' = [req EXCEPT ![t] = Idle]
      BY <2>3, <3>2, <3>3 DEF Grows, CreateKey, Answers, Is
    <3>5. req'[t] = Idle
      BY <2>0, <3>4, IdleMoves
    <3> QED
      BY <2>0, <3>4, <3>5 DEF Entitled, ForApp
  <2> QED
    BY <2>1, <2>2, <2>3
<1>2. RegistryInv /\ [Next]_vars =>
        [\A a \in Apps :
            /\ Grows(subs, subs', a) \/ Grows(schemas, schemas', a) =>
                    app[a] = "active" \/ \E t \in late : req[t].who = a /\ req'[t] = Idle
            /\ Grows(keys, keys', a) =>
                    Present(a) \/ \E t \in late : req[t].who = a /\ req'[t] = Idle]_vars
  BY <1>1
<1> QED
  BY <1>2, RegistryStarts, RegistryKept, PTL DEF Spec, OnlyLateOrphans
=============================================================================
