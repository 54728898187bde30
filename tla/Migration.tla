------------------------------ MODULE Migration ------------------------------
(***************************************************************************)
(* The upgrade of a database from v1 to v2 (migrations/migrate_v2.py): new *)
(* tables with their indexes, new columns in the old tables, and a row in  *)
(* schema_version.  sqlite3 opens a transaction at the INSERT only: every  *)
(* CREATE and ALTER is durable at once, and the rollback of a failed run   *)
(* takes nothing back.  A run looks for each object and makes it if it is  *)
(* missing, in two steps, next to other runs and to the v2 service, whose  *)
(* start (create_all in main.py) makes missing tables, but no columns.     *)
(*                                                                         *)
(* The old tables are not told apart: a new column names its table.  The   *)
(* backup that a run copies first is not used by any code and left out.    *)
(***************************************************************************)
EXTENDS Naturals, Sequences, Functions

CONSTANTS
    Tables,         \* the new tables, in the order of the script
    IndexesOf,      \* the indexes of each, in order
    Columns,        \* the new columns, in order: those of endpoints first
    EndpointColumns,\* the columns that a start of the service reads
    Runners,        \* runs of the script that may be under way
    MaxRecords,     \* bound: rows of schema_version after which nobody runs it
    MaxStops        \* bound: runs and starts that are interrupted

NewTables  == Range(Tables)
NewColumns == Range(Columns)
IndexSet(t) == Range(IndexesOf[t])

ASSUME TablesAssumption ==
    /\ Tables \in Seq(NewTables) /\ Columns \in Seq(NewColumns)
    /\ NewTables \cap NewColumns = {}
    /\ \A t \in NewTables : IndexesOf[t] \in Seq(IndexSet(t))
ASSUME ColumnsAssumption ==
    /\ EndpointColumns \subseteq NewColumns /\ EndpointColumns # {}
    /\ \A m, n \in DOMAIN Columns : Columns[m] = Columns[n] => m = n
ASSUME BoundsAssumption == MaxRecords \in Nat /\ MaxStops \in Nat

VARIABLES
    file,       \* does the database exist?
    schema,     \* new tables and columns it has
    indexes,    \* indexes of the new tables it has
    records,    \* rows of schema_version
    run,        \* where a run of the script is
    app,        \* where the service is
    stops       \* history: interruptions

database == <<file, schema, indexes, records>>
vars     == <<database, run, app, stops>>

Script == Tables \o Columns

Off  == [at |-> "off", item |-> 1, left |-> <<>>]
Down == [at |-> "down", todo |-> {}, left |-> <<>>]
Up   == [at |-> "up", todo |-> {}, left |-> <<>>]

Looking(n)  == [at |-> "look", item |-> n, left |-> <<>>]
Making(n)   == [at |-> "make", item |-> n, left |-> <<>>]
Indexing(n, left) == [at |-> "index", item |-> n, left |-> left]
Creating(todo, left) == [at |-> "create", todo |-> todo, left |-> left]

\* The indexes to make for x, a table or a column.
IndexesFor(x) == IF x \in NewTables THEN IndexesOf[x] ELSE <<>>

-----------------------------------------------------------------------------
(* A run of the script.                                                    *)

Goes(r, next) == run' = [run EXCEPT ![r] = next] /\ UNCHANGED <<file, app, stops>>

\* Without a database there is nothing to do.
NothingToDo(r) ==
    /\ run[r] = Off
    /\ ~file
    /\ UNCHANGED vars

Begin(r) ==
    /\ run[r] = Off
    /\ file
    /\ records < MaxRecords
    /\ Goes(r, Looking(1))
    /\ UNCHANGED <<schema, indexes, records>>

\* Mutant: nothing is looked for.
Missing_Always(n) == TRUE

\* table_exists and column_exists.
Missing(n) == Script[n] \notin schema

Looks(r) ==
    /\ run[r].at = "look"
    /\ run[r].item <= Len(Script)
    /\ Goes(r, IF Missing(run[r].item) THEN Making(run[r].item) ELSE Looking(run[r].item + 1))
    /\ UNCHANGED <<schema, indexes, records>>

\* Mutant: the indexes are left to the first query that is slow.
Makes_NoIndexes(r) ==
    /\ run[r].at = "make"
    /\ Script[run[r].item] \notin schema
    /\ schema' = schema \cup {Script[run[r].item]}
    /\ Goes(r, Looking(run[r].item + 1))
    /\ UNCHANGED <<indexes, records>>

\* CREATE TABLE, to go on with its indexes, or ALTER TABLE.
Makes(r) ==
    /\ run[r].at = "make"
    /\ Script[run[r].item] \notin schema
    /\ schema' = schema \cup {Script[run[r].item]}
    /\ Goes(r, Indexing(run[r].item, IndexesFor(Script[run[r].item])))
    /\ UNCHANGED <<indexes, records>>

\* Someone made it meanwhile: an exception ends the run.
Clashes(r) ==
    /\ run[r].at = "make"
    /\ Script[run[r].item] \in schema
    /\ Goes(r, Off)
    /\ UNCHANGED <<schema, indexes, records>>

\* CREATE INDEX IF NOT EXISTS, one after the other.
MakesIndex(r) ==
    /\ run[r].at = "index"
    /\ run[r].left # <<>>
    /\ indexes' = indexes \cup {Head(run[r].left)}
    /\ Goes(r, Indexing(run[r].item, Tail(run[r].left)))
    /\ UNCHANGED <<schema, records>>

Indexed(r) ==
    /\ run[r].at = "index"
    /\ run[r].left = <<>>
    /\ Goes(r, Looking(run[r].item + 1))
    /\ UNCHANGED <<schema, indexes, records>>

\* Mutant: the version is recorded before the columns are added.
Records_Early(r) ==
    /\ run[r].at = "look"
    /\ run[r].item > Len(Tables)
    /\ records' = records + 1
    /\ Goes(r, Off)
    /\ UNCHANGED <<schema, indexes>>

\* The INSERT and its commit.
Records(r) ==
    /\ run[r].at = "look"
    /\ run[r].item > Len(Script)
    /\ records' = records + 1
    /\ Goes(r, Off)
    /\ UNCHANGED <<schema, indexes>>

\* Any other error, such as a locked database, or a kill.
Stops(r) ==
    /\ run[r] # Off
    /\ stops < MaxStops
    /\ stops' = stops + 1
    /\ run' = [run EXCEPT ![r] = Off]
    /\ UNCHANGED <<database, app>>

-----------------------------------------------------------------------------
(* The start of the service: create_all looks for all tables at once, then *)
(* creates the missing ones, in an order of its own, each followed by its  *)
(* indexes.                                                                *)

AppGoes(next) == app' = next /\ UNCHANGED <<records, run, stops>>

\* A new database gets the old tables with all their columns.
AppBegins ==
    /\ app = Down
    /\ AppGoes(Creating(NewTables \ schema, <<>>))
    /\ file' = TRUE
    /\ schema' = IF file THEN schema ELSE schema \cup NewColumns
    /\ UNCHANGED indexes

AppCreates ==
    /\ app.at = "create" /\ app.left = <<>>
    /\ \E t \in app.todo \ schema :
        /\ schema' = schema \cup {t}
        /\ AppGoes(Creating(app.todo \ {t}, IndexesOf[t]))
    /\ UNCHANGED <<file, indexes>>

AppIndexes ==
    /\ app.at = "create" /\ app.left # <<>>
    /\ indexes' = indexes \cup {Head(app.left)}
    /\ AppGoes(Creating(app.todo, Tail(app.left)))
    /\ UNCHANGED <<file, schema>>

\* Mutant: the start reads none of the new columns.
Readable_Any == TRUE

\* lifespan loads the endpoints, with every column.
Readable == EndpointColumns \subseteq schema

Created == app.at = "create" /\ app.left = <<>> /\ app.todo = {}

AppServes ==
    /\ Created
    /\ Readable
    /\ AppGoes(Up)
    /\ UNCHANGED <<file, schema, indexes>>

\* A table that exists by now, or a column that does not: the start fails.
AppFails ==
    /\ \/ app.at = "create" /\ app.left = <<>> /\ app.todo \cap schema # {}
       \/ Created /\ ~Readable
    /\ AppGoes(Down)
    /\ UNCHANGED <<file, schema, indexes>>

AppStops ==
    /\ app # Down
    /\ stops < MaxStops
    /\ stops' = stops + 1
    /\ app' = Down
    /\ UNCHANGED <<database, run>>

-----------------------------------------------------------------------------
Init ==
    /\ file \in BOOLEAN
    /\ schema = {}
    /\ indexes = {}
    /\ records = 0
    /\ run = [r \in Runners |-> Off]
    /\ app = Down
    /\ stops = 0

Step(r) == Looks(r) \/ Makes(r) \/ Clashes(r) \/ MakesIndex(r) \/ Indexed(r) \/ Records(r)
Run(r)  == NothingToDo(r) \/ Begin(r) \/ Step(r) \/ Stops(r)
AppStep == AppBegins \/ AppCreates \/ AppIndexes \/ AppServes \/ AppFails

Next == (\E r \in Runners : Run(r)) \/ AppStep \/ AppStops

Spec == Init /\ [][Next]_vars

\* Runs and starts go on, and someone runs the script until it succeeds and
\* starts the service until it serves.
Fairness ==
    /\ \A r \in Runners : WF_vars(Step(r)) /\ WF_vars(Begin(r) /\ records = 0)
    /\ WF_vars(AppStep)

FairSpec == Spec /\ Fairness

-----------------------------------------------------------------------------
\* schema_version says 2.0.0 only when every table and column is there,
\* whatever runs were interrupted, overlapped or met a start of the service.
RecordedIsComplete == records > 0 => NewTables \cup NewColumns \subseteq schema

\* Some run or start has yet to make the rest of t's indexes.
BeingIndexed(t) ==
    \/ \E r \in Runners :
        run[r].at = "index" /\ Script[run[r].item] = t
            /\ IndexSet(t) \ indexes \subseteq Range(run[r].left)
    \/ IndexSet(t) \ indexes \subseteq Range(app.left)

\* A table lacks an index only while the one who created it is about to make
\* it, or was interrupted: a run that finds the table passes its indexes by.
IndexLostByStop ==
    \A t \in NewTables \cap schema :
        IndexSet(t) \subseteq indexes \/ BeingIndexed(t) \/ stops > 0

\* The service serves without a column of the messages only if a run stopped
\* between the columns of the endpoints and theirs, or has not got there yet.
ServesComplete ==
    app.at = "up" =>
        \/ NewTables \cup NewColumns \subseteq schema
        \/ stops > 0
        \/ \E r \in Runners : run[r] # Off

\* Whatever was interrupted, repeating the script and the start gets an
\* existing database to v2 and the service to serve it.
UpgradeCompletes == file ~> (records > 0 /\ app.at = "up")
=============================================================================
