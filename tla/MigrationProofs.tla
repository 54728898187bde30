--------------------------- MODULE MigrationProofs ---------------------------
(***************************************************************************)
(* For any number of tables, columns, indexes, runs and interruptions: the *)
(* version is recorded on a complete schema only, the service serves a     *)
(* complete schema and a table has its indexes, unless something was       *)
(* interrupted or is not over.  A run has behind it only objects that      *)
(* exist, whoever made them, because nobody removes any; what is missing   *)
(* is still ahead of the one who began to make it.                         *)
(***************************************************************************)
EXTENDS Migration, SequenceTheorems, TLAPS

LEMMA ScriptIsAll ==
    /\ Len(Script) \in Nat
    /\ \A n \in 1 .. Len(Script) : Script[n] \in NewTables \cup NewColumns
    /\ \A x \in NewTables \cup NewColumns : \E n \in 1 .. Len(Script) : Script[n] = x
  <1>1. /\ Tables \in Seq(NewTables) /\ Columns \in Seq(NewColumns)
        /\ Len(Tables) \in Nat /\ Len(Columns) \in Nat
        /\ DOMAIN Tables = 1 .. Len(Tables) /\ DOMAIN Columns = 1 .. Len(Columns)
    BY TablesAssumption
  <1>2. /\ Len(Script) = Len(Tables) + Len(Columns)
        /\ \A n \in 1 .. Len(Script) :
            Script[n] = IF n <= Len(Tables) THEN Tables[n] ELSE Columns[n - Len(Tables)]
    BY <1>1 DEF Script
  <1>3. /\ \A n \in 1 .. Len(Tables) : Tables[n] \in NewTables
        /\ \A n \in 1 .. Len(Columns) : Columns[n] \in NewColumns
    BY <1>1
  <1>4. ASSUME NEW n \in 1 .. Len(Script) PROVE Script[n] \in NewTables \cup NewColumns
    BY <1>1, <1>2, <1>3
  <1>5. ASSUME NEW x \in NewTables PROVE \E n \in 1 .. Len(Script) : Script[n] = x
    <2>1. PICK n \in 1 .. Len(Tables) : Tables[n] = x
      BY <1>1 DEF NewTables, Range
    <2>2. n \in 1 .. Len(Script) /\ Script[n] = x
      BY <1>1, <1>2, <2>1
    <2> QED
      BY <2>2
  <1>6. ASSUME NEW x \in NewColumns PROVE \E n \in 1 .. Len(Script) : Script[n] = x
    <2>1. PICK n \in 1 .. Len(Columns) : Columns[n] = x
      BY <1>1 DEF NewColumns, Range
    <2>2. /\ n + Len(Tables) \in 1 .. Len(Script) /\ ~(n + Len(Tables) <= Len(Tables))
          /\ (n + Len(Tables)) - Len(Tables) = n
      BY <1>1, <1>2, <2>1
    <2>3. Script[n + Len(Tables)] = x
      BY <1>2, <2>1, <2>2
    <2> QED
      BY <2>2, <2>3
  <1> QED
    BY <1>1, <1>2, <1>4, <1>5, <1>6

-----------------------------------------------------------------------------
\* The part of the types that the order of the script needs.
Located ==
    /\ schema \subseteq NewTables \cup NewColumns
    /\ records \in Nat
    /\ \A r \in Runners : run[r].item \in 1 .. Len(Script) + 1
    /\ \A r \in Runners : run[r].at \in {"make", "index"} => run[r].item <= Len(Script)
    /\ DOMAIN run = Runners
    /\ app.todo \subseteq NewTables

\* What a run has passed exists.
Passed(r) ==
    /\ \A n \in 1 .. Len(Script) : n < run[r].item => Script[n] \in schema
    /\ run[r].at = "index" => Script[run[r].item] \in schema

ProgressInv ==
    /\ Located
    /\ \A r \in Runners : Passed(r)
    /\ RecordedIsComplete

LEMMA ProgressStarts == Init => ProgressInv
  <1> SUFFICES ASSUME Init PROVE ProgressInv
    OBVIOUS
  <1>1. \A r \in Runners : run[r].item = 1 /\ run[r].at = "off"
    BY DEF Init, Off
  <1>2. app.todo = {} /\ DOMAIN run = Runners /\ records = 0 /\ schema = {}
    BY DEF Init, Down
  <1>3. Located
    BY <1>1, <1>2, ScriptIsAll DEF Located
  <1>4. \A r \in Runners : Passed(r)
    BY <1>1, ScriptIsAll DEF Passed
  <1> QED
    BY <1>2, <1>3, <1>4 DEF ProgressInv, RecordedIsComplete

\* Objects are added and a run r goes on to next: what remains to be shown is
\* that next is located and has passed existing objects only.
LEMMA RunGoes ==
    ASSUME ProgressInv, NEW r \in Runners, NEW next,
           run' = [run EXCEPT ![r] = next],
           schema \subseteq schema', schema' \subseteq NewTables \cup NewColumns, app' = app,
           next.item \in 1 .. Len(Script) + 1,
           next.at \in {"make", "index"} => next.item <= Len(Script),
           \A n \in 1 .. Len(Script) : n < next.item => Script[n] \in schema',
           next.at = "index" => Script[next.item] \in schema',
           records' \in Nat,
           records' > 0 => records > 0 \/ NewTables \cup NewColumns \subseteq schema'
    PROVE  ProgressInv'
  <1>1. run'[r] = next /\ (\A q \in Runners : q # r => run'[q] = run[q]) /\ DOMAIN run' = Runners
    BY DEF ProgressInv, Located
  <1>2. Located'
    BY <1>1 DEF ProgressInv, Located
  <1>3. ASSUME NEW q \in Runners PROVE Passed(q)'
    BY <1>1 DEF ProgressInv, Passed
  <1>4. RecordedIsComplete'
    BY DEF ProgressInv, RecordedIsComplete
  <1> QED
    BY <1>2, <1>3, <1>4 DEF ProgressInv

\* The service goes on, and may add objects.
LEMMA AppKeeps ==
    ASSUME ProgressInv, run' = run, records' = records,
           schema \subseteq schema', schema' \subseteq NewTables \cup NewColumns,
           app'.todo \subseteq NewTables
    PROVE  ProgressInv'
  <1>1. Located'
    BY DEF ProgressInv, Located
  <1>2. ASSUME NEW q \in Runners PROVE Passed(q)'
    BY DEF ProgressInv, Passed
  <1>3. RecordedIsComplete'
    BY DEF ProgressInv, RecordedIsComplete
  <1> QED
    BY <1>1, <1>2, <1>3 DEF ProgressInv

LEMMA RunKeeps == ASSUME ProgressInv, NEW r \in Runners, Run(r) PROVE ProgressInv'
  <1> DEFINE i == run[r].item
  <1>0. /\ i \in 1 .. Len(Script) + 1 /\ Len(Script) \in Nat
        /\ schema \subseteq NewTables \cup NewColumns /\ records \in Nat
        /\ \A n \in 1 .. Len(Script) : n < i => Script[n] \in schema
        /\ run[r].at = "index" => Script[i] \in schema
        /\ run[r].at \in {"make", "index"} => i <= Len(Script)
    BY ScriptIsAll DEF ProgressInv, Located, Passed
  <1>1. CASE NothingToDo(r)
    BY <1>1 DEF NothingToDo, vars, database, ProgressInv, Located, Passed, RecordedIsComplete
  <1>2. CASE Begin(r)
    <2> DEFINE next == Looking(1)
    <2>1. /\ run' = [run EXCEPT ![r] = next] /\ app' = app /\ schema' = schema /\ records' = records
          /\ next.item = 1 /\ next.at = "look"
      BY <1>2 DEF Begin, Goes, Looking
    <2> HIDE DEF next
    <2>2. next.item \in 1 .. Len(Script) + 1 /\ \A n \in 1 .. Len(Script) : ~(n < next.item)
      BY <1>0, <2>1
    <2> QED
      BY <1>0, <2>1, <2>2, RunGoes
  <1>3. CASE Looks(r) /\ Missing(i)
    <2> DEFINE next == Making(i)
    <2>1. /\ run' = [run EXCEPT ![r] = next] /\ app' = app /\ schema' = schema /\ records' = records
          /\ next.item = i /\ next.at = "make" /\ i <= Len(Script)
      BY <1>3 DEF Looks, Goes, Making
    <2> HIDE DEF next, i
    <2> QED
      BY <1>0, <2>1, RunGoes
  <1>4. CASE Looks(r) /\ ~Missing(i)
    <2> DEFINE next == Looking(i + 1)
    <2>1. /\ run' = [run EXCEPT ![r] = next] /\ app' = app /\ schema' = schema /\ records' = records
          /\ next.item = i + 1 /\ next.at = "look" /\ i <= Len(Script) /\ Script[i] \in schema
      BY <1>4 DEF Looks, Goes, Looking, Missing
    <2> HIDE DEF next, i
    <2>2. next.item \in 1 .. Len(Script) + 1 /\ \A n \in 1 .. Len(Script) : n < next.item => n < i \/ n = i
      BY <1>0, <2>1
    <2> QED
      BY <1>0, <2>1, <2>2, RunGoes
  <1>5. CASE Makes(r)
    <2> DEFINE next == Indexing(i, IndexesFor(Script[i]))
    <2>1. /\ run' = [run EXCEPT ![r] = next] /\ app' = app /\ schema' = schema \cup {Script[i]}
          /\ records' = records /\ next.item = i /\ next.at = "index" /\ run[r].at = "make"
      BY <1>5 DEF Makes, Goes, Indexing
    <2> HIDE DEF next, i
    <2>2. i \in 1 .. Len(Script)
      BY <1>0, <2>1
    <2>3. Script[i] \in NewTables \cup NewColumns
      BY <2>2, ScriptIsAll
    <2> QED
      BY <1>0, <2>1, <2>2, <2>3, RunGoes
  <1>6. CASE Clashes(r) \/ Stops(r)
    <2>1. /\ run' = [run EXCEPT ![r] = Off] /\ app' = app /\ schema' = schema /\ records' = records
          /\ Off.item = 1 /\ Off.at = "off"
      BY <1>6 DEF Clashes, Stops, Goes, Off, database
    <2>2. Off.item \in 1 .. Len(Script) + 1 /\ \A n \in 1 .. Len(Script) : ~(n < Off.item)
      BY <1>0, <2>1
    <2> QED
      BY <1>0, <2>1, <2>2, RunGoes
  <1>7. CASE MakesIndex(r)
    <2> DEFINE next == Indexing(i, Tail(run[r].left))
    <2>1. /\ run' = [run EXCEPT ![r] = next] /\ app' = app /\ schema' = schema /\ records' = records
          /\ next.item = i /\ next.at = "index" /\ run[r].at = "index"
      BY <1>7 DEF MakesIndex, Goes, Indexing
    <2> HIDE DEF next, i
    <2> QED
      BY <1>0, <2>1, RunGoes
  <1>8. CASE Indexed(r)
    <2> DEFINE next == Looking(i + 1)
    <2>1. /\ run' = [run EXCEPT ![r] = next] /\ app' = app /\ schema' = schema /\ records' = records
          /\ next.item = i + 1 /\ next.at = "look" /\ run[r].at = "index"
      BY <1>8 DEF Indexed, Goes, Looking
    <2> HIDE DEF next, i
    <2>2. next.item \in 1 .. Len(Script) + 1 /\ \A n \in 1 .. Len(Script) : n < next.item => n < i \/ n = i
      BY <1>0, <2>1
    <2> QED
      BY <1>0, <2>1, <2>2, RunGoes
  <1>9. CASE Records(r)
    <2>1. /\ run' = [run EXCEPT ![r] = Off] /\ app' = app /\ schema' = schema /\ records' = records + 1
          /\ Off.item = 1 /\ Off.at = "off" /\ i > Len(Script)
      BY <1>9 DEF Records, Goes, Off
    <2>2. Off.item \in 1 .. Len(Script) + 1 /\ \A n \in 1 .. Len(Script) : ~(n < Off.item)
      BY <1>0, <2>1
    <2> HIDE DEF i
    <2>3. \A n \in 1 .. Len(Script) : Script[n] \in schema
      BY <1>0, <2>1
    <2>4. NewTables \cup NewColumns \subseteq schema
      BY <2>3, ScriptIsAll
    <2>5. records' \in Nat
      BY <1>0, <2>1
    <2> QED
      BY <1>0, <2>1, <2>2, <2>4, <2>5, RunGoes
  <1> QED
    BY <1>1, <1>2, <1>3, <1>4, <1>5, <1>6, <1>7, <1>8, <1>9 DEF Run, Step

LEMMA ProgressKept == ProgressInv /\ [Next]_vars => ProgressInv'
  <1> SUFFICES ASSUME ProgressInv, [Next]_vars PROVE ProgressInv'
    OBVIOUS
  <1>0. schema \subseteq NewTables \cup NewColumns /\ app.todo \subseteq NewTables
    BY DEF ProgressInv, Located
  <1>1. ASSUME NEW r \in Runners, Run(r) PROVE ProgressInv'
    BY <1>1, RunKeeps
  <1>2. CASE AppBegins
    <2>1. /\ run' = run /\ records' = records /\ schema' = IF file THEN schema ELSE schema \cup NewColumns
          /\ app'.todo = NewTables \ schema
      BY <1>2 DEF AppBegins, AppGoes, Creating
    <2> QED
      BY <1>0, <2>1, AppKeeps
  <1>3. CASE AppCreates
    <2>1. PICK t \in app.todo : /\ schema' = schema \cup {t} /\ run' = run /\ records' = records
                                /\ app'.todo = app.todo \ {t}
      BY <1>3 DEF AppCreates, AppGoes, Creating
    <2> QED
      BY <1>0, <2>1, AppKeeps
  <1>4. CASE AppIndexes \/ AppServes \/ AppFails \/ AppStops
    <2>1. /\ run' = run /\ records' = records /\ schema' = schema
          /\ app'.todo = app.todo \/ app'.todo = {}
      BY <1>4 DEF AppIndexes, AppServes, AppFails, AppStops, AppGoes, Creating, Up, Down, database
    <2> QED
      BY <1>0, <2>1, AppKeeps
  <1>5. CASE UNCHANGED vars
    BY <1>5 DEF vars, database, ProgressInv, Located, Passed, RecordedIsComplete
  <1> QED
    BY <1>1, <1>2, <1>3, <1>4, <1>5 DEF Next, AppStep

\* The version is recorded only when every table and column exists, however
\* many runs overlap, clash or are interrupted.
THEOREM RecordsAreComplete == Spec => []RecordedIsComplete
  <1>1. ProgressInv => RecordedIsComplete
    BY DEF ProgressInv
  <1> QED
    BY <1>1, ProgressStarts, ProgressKept, PTL DEF Spec

-----------------------------------------------------------------------------
(* The service serves without a column only while a run is to add it.      *)

\* Run r has made, or found, the n-th object of the script.
Beyond(r, n) == run[r].item > n \/ (run[r].item = n /\ run[r].at = "index")

\* As long as nothing was interrupted and columns are missing, some run is
\* beyond each column that exists: a run that clashes loses it to another.
Led ==
    stops = 0 /\ ~(NewColumns \subseteq schema) =>
        \A n \in 1 .. Len(Columns) :
            Columns[n] \in schema => \E r \in Runners : Beyond(r, Len(Tables) + n)

\* What the start of the service has created, and what it has read.
Started ==
    /\ app.at = "create" => NewTables \subseteq schema \cup app.todo
    /\ app.at = "up" => NewTables \subseteq schema /\ EndpointColumns \subseteq schema

ServiceInv == stops \in Nat /\ Led /\ Started

\* The columns are the last part of the script, and each is named once.
LEMMA ScriptColumns ==
    /\ Len(Tables) \in Nat /\ Len(Columns) \in Nat
    /\ \A n \in 1 .. Len(Columns) :
        /\ Len(Tables) + n \in 1 .. Len(Script)
        /\ Script[Len(Tables) + n] = Columns[n]
        /\ Columns[n] \in NewColumns
        /\ \A i \in 1 .. Len(Script) : Script[i] = Columns[n] => i = Len(Tables) + n
    /\ \A c \in NewColumns : \E n \in 1 .. Len(Columns) : Columns[n] = c
  <1>1. /\ Tables \in Seq(NewTables) /\ Columns \in Seq(NewColumns)
        /\ Len(Tables) \in Nat /\ Len(Columns) \in Nat
        /\ DOMAIN Tables = 1 .. Len(Tables) /\ DOMAIN Columns = 1 .. Len(Columns)
    BY TablesAssumption
  <1>2. /\ Len(Script) = Len(Tables) + Len(Columns)
        /\ \A n \in 1 .. Len(Script) :
            Script[n] = IF n <= Len(Tables) THEN Tables[n] ELSE Columns[n - Len(Tables)]
    BY <1>1 DEF Script
  <1>3. /\ \A n \in 1 .. Len(Tables) : Tables[n] \in NewTables
        /\ \A n \in 1 .. Len(Columns) : Columns[n] \in NewColumns
    BY <1>1
  <1>4. ASSUME NEW n \in 1 .. Len(Columns)
        PROVE  Len(Tables) + n \in 1 .. Len(Script) /\ Script[Len(Tables) + n] = Columns[n]
    <2>1. /\ Len(Tables) + n \in 1 .. Len(Script) /\ ~(Len(Tables) + n <= Len(Tables))
          /\ (Len(Tables) + n) - Len(Tables) = n
      BY <1>1, <1>2
    <2> QED
      BY <1>2, <2>1
  <1>5. ASSUME NEW n \in 1 .. Len(Columns), NEW i \in 1 .. Len(Script), Script[i] = Columns[n]
        PROVE  i = Len(Tables) + n
    <2>1. ~(i <= Len(Tables))
      <3> SUFFICES ASSUME i <= Len(Tables) PROVE FALSE
        OBVIOUS
      <3>1. Script[i] \in NewTables
        BY <1>1, <1>2, <1>3
      <3> QED
        BY <1>3, <1>5, <3>1, TablesAssumption
    <2>2. i - Len(Tables) \in 1 .. Len(Columns) /\ Columns[i - Len(Tables)] = Columns[n]
      BY <1>1, <1>2, <1>5, <2>1
    <2>3. i - Len(Tables) = n
      BY <1>1, <2>2, ColumnsAssumption
    <2> QED
      BY <1>1, <2>3
  <1>6. ASSUME NEW c \in NewColumns PROVE \E n \in 1 .. Len(Columns) : Columns[n] = c
    BY <1>1 DEF NewColumns, Range
  <1> QED
    BY <1>1, <1>3, <1>4, <1>5, <1>6

LEMMA ScriptLength == Len(Script) = Len(Tables) + Len(Columns)
  BY TablesAssumption DEF Script

LEMMA ServiceStarts == Init => ServiceInv
  <1> SUFFICES ASSUME Init PROVE ServiceInv
    OBVIOUS
  <1>1. schema = {} /\ app.at = "down" /\ stops = 0
    BY DEF Init, Down
  <1> QED
    BY <1>1 DEF ServiceInv, Led, Started

\* A run goes on to next, which is beyond all that the run was beyond, and
\* beyond the column it has added, if any.
LEMMA RunLeads ==
    ASSUME ProgressInv, Led, NEW r \in Runners, NEW next,
           run' = [run EXCEPT ![r] = next], stops' = stops, schema \subseteq schema',
           \A n \in 1 .. Len(Script) : Beyond(r, n) => next.item > n \/ (next.item = n /\ next.at = "index"),
           \A n \in 1 .. Len(Columns) : Columns[n] \in schema' \ schema =>
                next.item = Len(Tables) + n /\ next.at = "index"
    PROVE  Led'
  <1>1. run'[r] = next /\ (\A q \in Runners : q # r => run'[q] = run[q])
    BY DEF ProgressInv, Located
  <1> SUFFICES ASSUME stops = 0, ~(NewColumns \subseteq schema'),
                      NEW n \in 1 .. Len(Columns), Columns[n] \in schema'
               PROVE  \E q \in Runners : Beyond(q, Len(Tables) + n)'
    BY DEF Led
  <1>2. CASE Columns[n] \in schema
    <2>1. PICK q \in Runners : Beyond(q, Len(Tables) + n)
      BY <1>2 DEF Led
    <2>2. Len(Tables) + n \in 1 .. Len(Script)
      BY ScriptColumns
    <2>3. CASE q = r
      BY <1>1, <2>1, <2>2, <2>3 DEF Beyond
    <2>4. CASE q # r
      BY <1>1, <2>1, <2>4 DEF Beyond
    <2> QED
      BY <2>3, <2>4
  <1>3. CASE Columns[n] \notin schema
    BY <1>1, <1>3 DEF Beyond
  <1> QED
    BY <1>2, <1>3

\* Every step of a run keeps the lead.
LEMMA RunKeepsLed == ASSUME ProgressInv, Led, stops \in Nat, NEW r \in Runners, Run(r) PROVE Led'
  <1> DEFINE i == run[r].item
  <1>0. /\ i \in 1 .. Len(Script) + 1 /\ Len(Script) \in Nat
        /\ \A n \in 1 .. Len(Script) : n < i => Script[n] \in schema
        /\ run[r].at \in {"make", "index"} => i <= Len(Script)
    BY ScriptIsAll DEF ProgressInv, Located, Passed
  <1>1. CASE NothingToDo(r)
    BY <1>1 DEF NothingToDo, vars, database, Led, Beyond
  <1>2. CASE Begin(r)
    <2> DEFINE next == Looking(1)
    <2>1. /\ run' = [run EXCEPT ![r] = next] /\ stops' = stops /\ schema' = schema
          /\ i = 1 /\ run[r].at = "off"
      BY <1>2 DEF Begin, Goes, Off
    <2>2. \A n \in 1 .. Len(Script) : ~Beyond(r, n)
      BY <2>1 DEF Beyond
    <2> HIDE DEF next
    <2> QED
      BY <2>1, <2>2, RunLeads
  <1>3. CASE Looks(r)
    <2> DEFINE next == IF Missing(i) THEN Making(i) ELSE Looking(i + 1)
    <2>1. /\ run' = [run EXCEPT ![r] = next] /\ stops' = stops /\ schema' = schema /\ run[r].at = "look"
          /\ next.item \in {i, i + 1}
      BY <1>3 DEF Looks, Goes, Making, Looking
    <2> HIDE DEF next
    <2>2. ASSUME NEW n \in 1 .. Len(Script), Beyond(r, n) PROVE next.item > n
      BY <1>0, <2>1, <2>2 DEF Beyond
    <2> QED
      BY <2>1, <2>2, RunLeads
  <1>4. CASE Makes(r)
    <2> DEFINE next == Indexing(i, IndexesFor(Script[i]))
    <2>1. /\ run' = [run EXCEPT ![r] = next] /\ stops' = stops /\ schema' = schema \cup {Script[i]}
          /\ next.item = i /\ next.at = "index" /\ run[r].at = "make"
      BY <1>4 DEF Makes, Goes, Indexing
    <2> HIDE DEF next
    <2>2. ASSUME NEW n \in 1 .. Len(Script), Beyond(r, n) PROVE next.item > n
      BY <1>0, <2>1, <2>2 DEF Beyond
    <2>3. ASSUME NEW n \in 1 .. Len(Columns), Columns[n] \in schema' \ schema
          PROVE  next.item = Len(Tables) + n
      <3>1. i \in 1 .. Len(Script) /\ Script[i] = Columns[n]
        BY <1>0, <2>1, <2>3
      <3> QED
        BY <2>1, <3>1, ScriptColumns
    <2> QED
      BY <2>1, <2>2, <2>3, RunLeads
  <1>5. CASE Clashes(r)
    <2>1. /\ run' = [run EXCEPT ![r] = Off] /\ stops' = stops /\ schema' = schema
          /\ run[r].at = "make" /\ Script[i] \in schema
      BY <1>5 DEF Clashes, Goes
    <2>2. \A q \in Runners : q # r => run'[q] = run[q]
      BY <2>1 DEF ProgressInv, Located
    <2> SUFFICES ASSUME stops = 0, ~(NewColumns \subseteq schema),
                        NEW n \in 1 .. Len(Columns), Columns[n] \in schema
                 PROVE  \E q \in Runners : Beyond(q, Len(Tables) + n)'
      BY <2>1 DEF Led
    <2>3. PICK q \in Runners : Beyond(q, Len(Tables) + n)
      BY DEF Led
    <2>4. CASE q # r
      BY <2>2, <2>3, <2>4 DEF Beyond
    \* The run that clashes is beyond the column: the one that made what it
    \* clashed with is beyond both.
    <2>5. CASE q = r
      <3>1. i > Len(Tables) + n /\ i \in 1 .. Len(Script)
        BY <1>0, <2>1, <2>3, <2>5 DEF Beyond
      <3> DEFINE k == i - Len(Tables)
      <3>2. k \in 1 .. Len(Columns) /\ Len(Tables) + k = i /\ k > n
        BY <3>1, ScriptColumns, ScriptLength
      <3>3. Columns[k] \in schema
        BY <2>1, <3>2, ScriptColumns
      <3>4. PICK p \in Runners : Beyond(p, i)
        BY <3>2, <3>3 DEF Led
      <3>5. p # r
        BY <1>0, <2>1, <3>4 DEF Beyond
      <3>6. run[p].item \in Nat
        BY <1>0 DEF ProgressInv, Located
      <3>7. Beyond(p, Len(Tables) + n)
        BY <1>0, <3>1, <3>4, <3>6, ScriptColumns DEF Beyond
      <3> QED
        BY <2>2, <3>5, <3>7 DEF Beyond
    <2> QED
      BY <2>4, <2>5
  <1>6. CASE Stops(r)
    BY <1>6 DEF Stops, Led
  <1>7. CASE MakesIndex(r)
    <2> DEFINE next == Indexing(i, Tail(run[r].left))
    <2>1. /\ run' = [run EXCEPT ![r] = next] /\ stops' = stops /\ schema' = schema
          /\ next.item = i /\ next.at = "index"
      BY <1>7 DEF MakesIndex, Goes, Indexing
    <2> HIDE DEF next
    <2>2. ASSUME NEW n \in 1 .. Len(Script), Beyond(r, n) PROVE next.item > n \/ next.item = n
      BY <1>0, <2>1, <2>2 DEF Beyond
    <2> QED
      BY <2>1, <2>2, RunLeads
  <1>8. CASE Indexed(r)
    <2> DEFINE next == Looking(i + 1)
    <2>1. /\ run' = [run EXCEPT ![r] = next] /\ stops' = stops /\ schema' = schema /\ next.item = i + 1
      BY <1>8 DEF Indexed, Goes, Looking
    <2> HIDE DEF next
    <2>2. ASSUME NEW n \in 1 .. Len(Script), Beyond(r, n) PROVE next.item > n
      BY <1>0, <2>1, <2>2 DEF Beyond
    <2> QED
      BY <2>1, <2>2, RunLeads
  <1>9. CASE Records(r)
    <2>1. schema' = schema /\ i > Len(Script)
      BY <1>9 DEF Records
    <2>2. \A n \in 1 .. Len(Script) : Script[n] \in schema
      BY <1>0, <2>1
    <2>3. NewColumns \subseteq schema
      BY <2>2, ScriptIsAll
    <2> QED
      BY <2>1, <2>3 DEF Led
  <1> QED
    BY <1>1, <1>2, <1>3, <1>4, <1>5, <1>6, <1>7, <1>8, <1>9 DEF Run, Step


LEMMA ServiceKept == ProgressInv /\ ServiceInv /\ [Next]_vars => ServiceInv'
  <1> SUFFICES ASSUME ProgressInv, ServiceInv, [Next]_vars PROVE ServiceInv'
    OBVIOUS
  <1>0. stops \in Nat /\ Led /\ Started /\ schema \subseteq NewTables \cup NewColumns
    BY DEF ServiceInv, ProgressInv, Located
  <1>1. ASSUME NEW r \in Runners, Run(r) PROVE ServiceInv'
    <2>1. Led'
      BY <1>0, <1>1, RunKeepsLed
    <2>2. app' = app /\ schema \subseteq schema' /\ stops' \in Nat
      BY <1>0, <1>1 DEF Run, Step, NothingToDo, Begin, Looks, Makes, Clashes, MakesIndex, Indexed,
                        Records, Stops, Goes, vars, database
    <2>3. Started'
      BY <1>0, <2>2 DEF Started
    <2> QED
      BY <2>1, <2>2, <2>3 DEF ServiceInv
  <1>2. CASE AppBegins
    <2>1. /\ run' = run /\ stops' = stops
          /\ schema' = IF file THEN schema ELSE schema \cup NewColumns
          /\ app'.at = "create" /\ app'.todo = NewTables \ schema
      BY <1>2 DEF AppBegins, AppGoes, Creating
    <2>2. Led'
      <3>1. CASE schema' = schema
        BY <1>0, <2>1, <3>1 DEF Led, Beyond
      <3>2. CASE schema' = schema \cup NewColumns
        BY <3>2 DEF Led
      <3> QED
        BY <2>1, <3>1, <3>2
    <2>3. Started'
      BY <1>0, <2>1 DEF Started
    <2> QED
      BY <1>0, <2>1, <2>2, <2>3 DEF ServiceInv
  <1>3. CASE AppCreates
    <2>1. PICK t \in app.todo : /\ schema' = schema \cup {t} /\ run' = run /\ stops' = stops
                                /\ app'.at = "create" /\ app'.todo = app.todo \ {t} /\ app.at = "create"
      BY <1>3 DEF AppCreates, AppGoes, Creating
    <2>2. t \notin NewColumns
      BY TablesAssumption DEF ProgressInv, Located
    <2>3. \A n \in 1 .. Len(Columns) : Columns[n] # t
      BY <2>2, ScriptColumns
    <2>4. Led'
      BY <1>0, <2>1, <2>3 DEF Led, Beyond
    <2>5. Started'
      BY <1>0, <2>1 DEF Started
    <2> QED
      BY <1>0, <2>1, <2>4, <2>5 DEF ServiceInv
  <1>4. CASE AppIndexes \/ AppServes \/ AppFails
    <2>1. run' = run /\ schema' = schema /\ stops' = stops
      BY <1>4 DEF AppIndexes, AppServes, AppFails, AppGoes
    <2>2. Led'
      BY <1>0, <2>1 DEF Led, Beyond
    <2>3. Started'
      BY <1>0, <1>4, <2>1 DEF AppIndexes, AppServes, AppFails, AppGoes, Creating, Created, Readable,
                              Up, Down, Started
    <2> QED
      BY <1>0, <2>1, <2>2, <2>3 DEF ServiceInv
  <1>5. CASE AppStops
    BY <1>0, <1>5 DEF AppStops, Down, database, ServiceInv, Led, Started
  <1>6. CASE UNCHANGED vars
    BY <1>0, <1>6 DEF vars, database, ServiceInv, Led, Beyond, Started
  <1> QED
    BY <1>1, <1>2, <1>3, <1>4, <1>5, <1>6 DEF Next, AppStep

\* The service serves without a column of the script only while a run is to
\* add it, or after an interruption: a clash of two runs, or of a run with a
\* start of the service, never leaves a served schema incomplete for good.
THEOREM ServedIsComplete == Spec => []ServesComplete
  <1>1. ProgressInv /\ ServiceInv => ServesComplete
    <2> SUFFICES ASSUME ProgressInv, ServiceInv, app.at = "up", stops = 0,
                        ~(NewTables \cup NewColumns \subseteq schema)
                 PROVE  \E r \in Runners : run[r] # Off
      BY DEF ServiceInv, ServesComplete
    <2>1. NewTables \subseteq schema /\ EndpointColumns \subseteq schema /\ ~(NewColumns \subseteq schema)
      BY DEF ServiceInv, Started
    <2>2. PICK c \in EndpointColumns : c \in NewColumns /\ c \in schema
      BY <2>1, ColumnsAssumption
    <2>3. PICK n \in 1 .. Len(Columns) : Columns[n] = c
      BY <2>2, ScriptColumns
    <2>4. PICK r \in Runners : Beyond(r, Len(Tables) + n)
      BY <2>1, <2>2, <2>3 DEF ServiceInv, Led
    <2>5. run[r].item > 1 \/ run[r].at = "index"
      BY <2>4, ScriptColumns DEF Beyond, ProgressInv, Located
    <2> QED
      BY <2>5 DEF Off
  <1> QED
    BY <1>1, ProgressStarts, ProgressKept, ServiceStarts, ServiceKept, PTL DEF Spec

-----------------------------------------------------------------------------
(* An index is lost only by an interruption.                               *)

Indexes == UNION {IndexSet(t) : t \in NewTables}

\* The indexes to be made are sequences of indexes.
Lists ==
    /\ \A r \in Runners : run[r].left \in Seq(Indexes)
    /\ app.left \in Seq(Indexes)

IndexInv == stops \in Nat /\ Lists /\ IndexLostByStop

LEMMA NothingLeft == Range(<<>>) = {}
  BY DEF Range

LEMMA HeadAndTail ==
    ASSUME NEW S, NEW left \in Seq(S), left # <<>>
    PROVE  /\ Tail(left) \in Seq(S)
           /\ Range(left) \subseteq {Head(left)} \cup Range(Tail(left))
  <1>1. /\ Len(left) \in Nat /\ Len(left) # 0 /\ DOMAIN left = 1 .. Len(left)
        /\ Tail(left) \in Seq(S) /\ Head(left) = left[1]
    BY HeadTailProperties, EmptySeq
  <1>2. /\ DOMAIN Tail(left) = 1 .. Len(left) - 1
        /\ \A i \in 1 .. Len(left) - 1 : Tail(left)[i] = left[i + 1]
    BY <1>1, HeadTailProperties
  <1>3. ASSUME NEW i \in 1 .. Len(left) PROVE left[i] \in {Head(left)} \cup Range(Tail(left))
    <2>1. CASE i = 1
      BY <1>1, <2>1
    <2>2. CASE i # 1
      <3>1. i - 1 \in 1 .. Len(left) - 1 /\ (i - 1) + 1 = i
        BY <1>1, <2>2
      <3>2. Tail(left)[i - 1] = left[i]
        BY <1>2, <3>1
      <3> QED
        BY <1>2, <3>1, <3>2 DEF Range
    <2> QED
      BY <2>1, <2>2
  <1> QED
    BY <1>1, <1>3 DEF Range


\* The indexes to make after x are a list of all indexes of x.
LEMMA ListsFor ==
    ASSUME NEW x
    PROVE  /\ IndexesFor(x) \in Seq(Indexes)
           /\ x \in NewTables => IndexesFor(x) = IndexesOf[x] /\ Range(IndexesOf[x]) = IndexSet(x)
  <1>1. CASE x \in NewTables
    <2>1. IndexesOf[x] \in Seq(IndexSet(x)) /\ IndexSet(x) \subseteq Indexes
      BY <1>1, TablesAssumption DEF Indexes
    <2>2. IndexesOf[x] \in Seq(Indexes)
      BY <2>1
    <2> QED
      BY <1>1, <2>2 DEF IndexesFor, IndexSet
  <1>2. CASE x \notin NewTables
    BY <1>2, EmptySeq DEF IndexesFor
  <1> QED
    BY <1>1, <1>2

LEMMA IndexStarts == Init => IndexInv
  <1> SUFFICES ASSUME Init PROVE IndexInv
    OBVIOUS
  <1>1. schema = {} /\ stops = 0 /\ app.left = <<>> /\ \A r \in Runners : run[r].left = <<>>
    BY DEF Init, Down, Off
  <1> QED
    BY <1>1, EmptySeq DEF IndexInv, Lists, IndexLostByStop

\* What an index still to be made asks of a table, which has been created.
Covered(t) == IndexSet(t) \subseteq indexes \/ BeingIndexed(t) \/ stops > 0

\* A run goes on to next, which has the same or more indexes in hand.
LEMMA RunIndexes ==
    ASSUME ProgressInv, IndexInv, NEW r \in Runners, NEW next,
           run' = [run EXCEPT ![r] = next], next.left \in Seq(Indexes),
           indexes \subseteq indexes', app' = app, stops' = stops,
           NEW t \in NewTables \cap schema,
           run[r].at = "index" /\ Script[run[r].item] = t /\ IndexSet(t) \ indexes \subseteq Range(run[r].left)
              => IndexSet(t) \subseteq indexes'
                 \/ (next.at = "index" /\ Script[next.item] = t /\ IndexSet(t) \ indexes' \subseteq Range(next.left))
    PROVE  Covered(t)'
  <1>1. run'[r] = next /\ \A q \in Runners : q # r => run'[q] = run[q]
    BY DEF ProgressInv, Located
  <1>2. Covered(t)
    BY DEF IndexInv, IndexLostByStop, Covered
  <1>3. CASE IndexSet(t) \subseteq indexes \/ stops > 0
    BY <1>3 DEF Covered
  <1>4. CASE IndexSet(t) \ indexes \subseteq Range(app.left)
    BY <1>4 DEF Covered, BeingIndexed
  <1>5. CASE \E q \in Runners : run[q].at = "index" /\ Script[run[q].item] = t
                                /\ IndexSet(t) \ indexes \subseteq Range(run[q].left)
    <2>1. PICK q \in Runners : run[q].at = "index" /\ Script[run[q].item] = t
                                /\ IndexSet(t) \ indexes \subseteq Range(run[q].left)
      BY <1>5
    <2>2. CASE q = r
      BY <1>1, <2>1, <2>2 DEF Covered, BeingIndexed
    <2>3. CASE q # r
      BY <1>1, <2>1, <2>3 DEF Covered, BeingIndexed
    <2> QED
      BY <2>2, <2>3
  <1> QED
    BY <1>2, <1>3, <1>4, <1>5 DEF Covered, BeingIndexed


\* Every step of a run keeps what is covered.
LEMMA RunKeepsIndexes == ASSUME ProgressInv, IndexInv, NEW r \in Runners, Run(r) PROVE IndexInv'
  <1> DEFINE i == run[r].item
             x == Script[i]
  <1>0. /\ stops \in Nat /\ run[r].left \in Seq(Indexes)
        /\ \A q \in Runners : run[q].left \in Seq(Indexes)
        /\ app.left \in Seq(Indexes) /\ DOMAIN run = Runners
    BY DEF IndexInv, Lists, ProgressInv, Located
  <1>1. CASE NothingToDo(r)
    BY <1>0, <1>1 DEF NothingToDo, vars, database, IndexInv, Lists, IndexLostByStop, BeingIndexed
  <1>2. CASE Begin(r) \/ Looks(r) \/ Clashes(r) \/ Indexed(r) \/ Records(r)
    <2>1. PICK next : /\ run' = [run EXCEPT ![r] = next] /\ next.left = <<>>
                      /\ schema' = schema /\ indexes' = indexes /\ app' = app /\ stops' = stops
      BY <1>2 DEF Begin, Looks, Clashes, Indexed, Records, Goes, Looking, Making, Off
    <2>2. run[r].at = "index" => run[r].left = <<>>
      BY <1>2 DEF Begin, Looks, Clashes, Indexed, Records, Off
    <2>3. next.left \in Seq(Indexes)
      BY <2>1, EmptySeq
    <2>4. ASSUME NEW t \in NewTables \cap schema PROVE Covered(t)'
      BY <2>1, <2>2, <2>3, NothingLeft, RunIndexes
    <2> QED
      BY <1>0, <2>1, <2>3, <2>4 DEF IndexInv, Lists, IndexLostByStop, Covered
  <1>3. CASE Makes(r)
    <2> DEFINE next == Indexing(i, IndexesFor(x))
    <2>1. /\ run' = [run EXCEPT ![r] = next] /\ schema' = schema \cup {x}
          /\ indexes' = indexes /\ app' = app /\ stops' = stops /\ run[r].at = "make"
          /\ next.at = "index" /\ next.item = i /\ next.left = IndexesFor(x)
      BY <1>3 DEF Makes, Goes, Indexing
    <2>2. next.left \in Seq(Indexes)
      BY <2>1, ListsFor
    <2> HIDE DEF next
    <2>3. ASSUME NEW t \in NewTables \cap schema PROVE Covered(t)'
      BY <2>1, <2>2, RunIndexes
    <2>4. ASSUME x \in NewTables PROVE Covered(x)'
      <3>1. Range(next.left) = IndexSet(x)
        BY <2>1, <2>4, ListsFor
      <3>2. run'[r] = next
        BY <1>0, <2>1
      <3>3. run'[r].at = "index" /\ Script[run'[r].item] = x /\ IndexSet(x) \ indexes' \subseteq Range(run'[r].left)
        BY <2>1, <3>1, <3>2
      <3> QED
        BY <3>3 DEF Covered, BeingIndexed
    <2> QED
      BY <1>0, <2>1, <2>2, <2>3, <2>4 DEF IndexInv, Lists, IndexLostByStop, Covered
  <1>4. CASE MakesIndex(r)
    <2> DEFINE left == run[r].left
               next == Indexing(i, Tail(left))
    <2>1. /\ run' = [run EXCEPT ![r] = next] /\ schema' = schema
          /\ indexes' = indexes \cup {Head(left)} /\ app' = app /\ stops' = stops
          /\ left # <<>> /\ next.at = "index" /\ next.item = i /\ next.left = Tail(left)
      BY <1>4 DEF MakesIndex, Goes, Indexing
    <2> HIDE DEF next
    <2>2. Tail(left) \in Seq(Indexes) /\ Range(left) \subseteq {Head(left)} \cup Range(Tail(left))
      BY <1>0, <2>1, HeadAndTail
    <2>3. ASSUME NEW t \in NewTables \cap schema PROVE Covered(t)'
      <3>1. IndexSet(t) \ indexes \subseteq Range(left) => IndexSet(t) \ indexes' \subseteq Range(next.left)
        BY <2>1, <2>2
      <3> QED
        BY <2>1, <2>2, <3>1, RunIndexes
    <2> QED
      BY <1>0, <2>1, <2>2, <2>3 DEF IndexInv, Lists, IndexLostByStop, Covered
  <1>5. CASE Stops(r)
    <2>1. /\ run' = [run EXCEPT ![r] = Off] /\ app' = app /\ stops' = stops + 1 /\ Off.left = <<>>
      BY <1>5 DEF Stops, Off
    <2>2. Lists'
      BY <1>0, <2>1, EmptySeq DEF Lists
    <2>3. stops' \in Nat /\ stops' > 0
      BY <1>0, <2>1
    <2> QED
      BY <2>2, <2>3 DEF IndexInv, IndexLostByStop
  <1> QED
    BY <1>1, <1>2, <1>3, <1>4, <1>5 DEF Run, Step

\* So does every step of the service's start, which makes tables too.
LEMMA AppKeepsIndexes == ASSUME ProgressInv, IndexInv, AppStep \/ AppStops PROVE IndexInv'
  <1>0. /\ stops \in Nat /\ app.left \in Seq(Indexes)
        /\ \A q \in Runners : run[q].left \in Seq(Indexes)
        /\ app.todo \subseteq NewTables
    BY DEF IndexInv, Lists, ProgressInv, Located
  <1>1. CASE AppBegins \/ AppServes \/ AppFails
    <2>1. /\ run' = run /\ indexes' = indexes /\ stops' = stops
          /\ app.left = <<>> /\ app'.left = <<>> /\ schema' \subseteq schema \cup NewColumns
      BY <1>1 DEF AppBegins, AppServes, AppFails, Created, AppGoes, Creating, Up, Down
    <2>2. ASSUME NEW t \in NewTables \cap schema' PROVE Covered(t)'
      <3>1. t \in schema
        BY <2>1, TablesAssumption
      <3> QED
        BY <2>1, <3>1 DEF Covered, BeingIndexed, IndexInv, IndexLostByStop
    <2> QED
      BY <1>0, <2>1, <2>2 DEF IndexInv, Lists, IndexLostByStop, Covered
  <1>2. CASE AppCreates
    <2>1. PICK x \in app.todo : /\ schema' = schema \cup {x} /\ run' = run /\ indexes' = indexes
                                /\ stops' = stops /\ app.left = <<>> /\ app'.left = IndexesOf[x]
      BY <1>2 DEF AppCreates, AppGoes, Creating
    <2>2. x \in NewTables
      BY <1>0, <2>1
    <2>3. app'.left \in Seq(Indexes) /\ Range(app'.left) = IndexSet(x)
      BY <2>1, <2>2, ListsFor
    <2>4. ASSUME NEW t \in NewTables \cap schema PROVE Covered(t)'
      BY <2>1, NothingLeft DEF Covered, BeingIndexed, IndexInv, IndexLostByStop
    <2>5. Covered(x)'
      BY <2>3 DEF Covered, BeingIndexed
    <2> QED
      BY <1>0, <2>1, <2>3, <2>4, <2>5 DEF IndexInv, Lists, IndexLostByStop, Covered
  <1>3. CASE AppIndexes
    <2> DEFINE left == app.left
    <2>1. /\ run' = run /\ schema' = schema /\ indexes' = indexes \cup {Head(left)} /\ stops' = stops
          /\ left # <<>> /\ app'.left = Tail(left)
      BY <1>3 DEF AppIndexes, AppGoes, Creating
    <2>2. Tail(left) \in Seq(Indexes) /\ Range(left) \subseteq {Head(left)} \cup Range(Tail(left))
      BY <1>0, <2>1, HeadAndTail
    <2>3. ASSUME NEW t \in NewTables \cap schema PROVE Covered(t)'
      <3>1. IndexSet(t) \ indexes \subseteq Range(left) => IndexSet(t) \ indexes' \subseteq Range(app'.left)
        BY <2>1, <2>2
      <3>2. Covered(t)
        BY DEF IndexInv, IndexLostByStop, Covered
      <3> QED
        BY <2>1, <3>1, <3>2 DEF Covered, BeingIndexed
    <2> QED
      BY <1>0, <2>1, <2>2, <2>3 DEF IndexInv, Lists, IndexLostByStop, Covered
  <1>4. CASE AppStops
    <2>1. /\ run' = run /\ app'.left = <<>> /\ stops' = stops + 1
      BY <1>4 DEF AppStops, Down, database
    <2> QED
      BY <1>0, <2>1, EmptySeq DEF IndexInv, Lists, IndexLostByStop
  <1> QED
    BY <1>1, <1>2, <1>3, <1>4 DEF AppStep

LEMMA IndexKept == ProgressInv /\ IndexInv /\ [Next]_vars => IndexInv'
  <1> SUFFICES ASSUME ProgressInv, IndexInv, [Next]_vars PROVE IndexInv'
    OBVIOUS
  <1>1. CASE UNCHANGED vars
    BY <1>1 DEF vars, database, IndexInv, Lists, IndexLostByStop, BeingIndexed
  <1> QED
    BY <1>1, RunKeepsIndexes, AppKeepsIndexes DEF Next

\* Without an interruption every table gets its indexes, although a run that
\* finds a table passes its indexes by, and whoever creates it.
THEOREM IndexesAreMade == Spec => []IndexLostByStop
  <1>1. IndexInv => IndexLostByStop
    BY DEF IndexInv
  <1> QED
    BY <1>1, ProgressStarts, ProgressKept, IndexStarts, IndexKept, PTL DEF Spec
=============================================================================
