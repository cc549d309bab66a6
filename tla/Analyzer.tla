------------------------------ MODULE Analyzer ------------------------------
(***************************************************************************)
(* src/src/analyzer: the files of a kernel are split among threads; each   *)
(* thread parses its files one after the other, and puts what it found in  *)
(* a file into the tables of one SQLite connection, under one mutex.       *)
(*                                                                         *)
(* Parsing is Clang's; Rows says what it finds.  The connection has one    *)
(* transaction at a time and one prepared statement per table, whose       *)
(* parameters keep their values: the key (name, file, line) and the rest.  *)
(* The database may be one that an earlier analysis has filled.            *)
(***************************************************************************)
EXTENDS Naturals, Sequences, FiniteSets

CONSTANTS
    Jobs,       \* -j
    Files,      \* the files to analyse, a sequence
    TableNames, \* the tables, in the order they are filled
    Rows,       \* Rows[f][n] is the sequence of rows file f has for the n-th table
    Earlier,    \* rows an earlier analysis has left
    Unset       \* a parameter that was never bound

ASSUME JobsAssumption == Jobs \in Nat \ {0}
ASSUME FilesAssumption == Files \in Seq({Files[k] : k \in DOMAIN Files})
ASSUME TablesAssumption ==
    TableNames # <<>> /\ TableNames \in Seq({TableNames[n] : n \in DOMAIN TableNames})
ASSUME RowsAssumption ==
    \A k \in DOMAIN Files : \A n \in DOMAIN TableNames :
        LET rows == Rows[Files[k]][n] IN
            /\ rows \in Seq({rows[j] : j \in DOMAIN rows})
            /\ \A j \in DOMAIN rows : DOMAIN rows[j] = {"key", "rest"}
\* What an earlier analysis leaves: rows that are numbered table by table.
ASSUME EarlierAssumption ==
    /\ IsFiniteSet(Earlier)
    /\ \A r \in Earlier :
          /\ r = [id |-> r.id, table |-> r.table, key |-> r.key, rest |-> r.rest]
          /\ r.table \in {TableNames[n] : n \in DOMAIN TableNames}
          /\ r.id \in 1..Cardinality({q \in Earlier : q.table = r.table})
    /\ \A p, q \in Earlier : p.table = q.table /\ p.id = q.id => p = q

Threads == 1..Jobs

Tables == DOMAIN TableNames

VARIABLES
    main,    \* "spawn", "join", "closed", "exit"
    started, \* threads created
    start,   \* files given to them
    at,      \* where each thread is
    todo,    \* the files each thread has left, the first one at hand
    tab,     \* the table each thread is at
    row,     \* the row each thread is at
    holder,  \* the thread that holds DBMutex, 0 for none
    bound,   \* the parameters of each prepared statement
    open,    \* a transaction is open
    pending, \* rows of the open transaction
    db,      \* rows committed
    lost     \* ghost: a row, a file or a transaction was given up with a message

spawned == <<started, start>>
conn == <<bound, open, pending, db>>
threads == <<at, todo, tab, row>>
vars == <<main, spawned, threads, holder, conn, lost>>

RowsAt(t) == Rows[Head(todo[t])][tab[t]]

Contents(r) == [table |-> r.table, key |-> r.key, rest |-> r.rest]

Found(f, n) == {[table |-> TableNames[n], key |-> Rows[f][n][j].key, rest |-> Rows[f][n][j].rest] :
                   j \in DOMAIN Rows[f][n]}

AllRows == UNION {Found(Files[k], n) : k \in DOMAIN Files, n \in Tables}

-----------------------------------------------------------------------------
\* The first size % jobs threads get one file more than the others.
CntRoundedDown(t) == Len(Files) \div Jobs

Cnt(t) == Len(Files) \div Jobs + (IF t <= Len(Files) % Jobs THEN 1 ELSE 0)

Batch(t) == SubSeq(Files, start + 1, start + Cnt(t))

Init ==
    /\ main = "spawn" /\ started = 0 /\ start = 0
    /\ at = [t \in Threads |-> "none"] /\ todo = [t \in Threads |-> <<>>]
    /\ tab = [t \in Threads |-> 1] /\ row = [t \in Threads |-> 1]
    /\ holder = 0
    /\ bound = [n \in Tables |-> [key |-> Unset, rest |-> Unset]]
    /\ open = FALSE /\ pending = {} /\ db \in {{}, Earlier} /\ lost = FALSE

Goto(t, label) == at' = [at EXCEPT ![t] = label]

\* A step of a thread, while the process lives.
Running(t, label) == main \in {"spawn", "join"} /\ at[t] = label

-----------------------------------------------------------------------------
Spawn ==
    /\ main = "spawn" /\ started < Jobs
    /\ started' = started + 1 /\ start' = start + Cnt(started')
    /\ todo' = [todo EXCEPT ![started'] = Batch(started')]
    /\ Goto(started', "parse")
    /\ UNCHANGED <<main, tab, row, holder, conn, lost>>

\* exit(1) takes the other threads with it.
SpawnFails ==
    /\ main = "spawn" /\ started < Jobs
    /\ main' = "exit" /\ lost' = TRUE
    /\ UNCHANGED <<spawned, threads, holder, conn>>

Join ==
    /\ main = "spawn" /\ started = Jobs
    /\ main' = "join"
    /\ UNCHANGED <<spawned, threads, holder, conn, lost>>

\* The connection is closed when main returns; a transaction still open is rolled back.
Close ==
    /\ main = "join" /\ \A t \in Threads : at[t] = "done"
    /\ main' = "closed"
    /\ open' = FALSE /\ pending' = {} /\ lost' = (lost \/ open)
    /\ UNCHANGED <<spawned, threads, holder, bound, db>>

-----------------------------------------------------------------------------
Unlocked == TRUE

LockFree == holder = 0

\* MacroDefined takes the mutex for every macro.
Parse(t) ==
    /\ Running(t, "parse") /\ todo[t] # <<>>
    /\ LockFree
    /\ Goto(t, "wait")
    /\ UNCHANGED <<main, spawned, todo, tab, row, holder, conn, lost>>

\* A file Clang cannot open never gets to HandleTranslationUnit.
ParseFails(t) ==
    /\ Running(t, "parse") /\ todo[t] # <<>>
    /\ todo' = [todo EXCEPT ![t] = Tail(@)] /\ lost' = TRUE
    /\ UNCHANGED <<main, spawned, at, tab, row, holder, conn>>

ThreadDone(t) ==
    /\ Running(t, "parse") /\ todo[t] = <<>>
    /\ Goto(t, "done")
    /\ UNCHANGED <<main, spawned, todo, tab, row, holder, conn, lost>>

Lock(t) ==
    /\ Running(t, "wait") /\ LockFree
    /\ holder' = t
    /\ tab' = [tab EXCEPT ![t] = 1]
    /\ Goto(t, "table")
    /\ UNCHANGED <<main, spawned, todo, row, conn, lost>>

\* A table the file has nothing for is passed over.
SkipTable(t) ==
    /\ Running(t, "table") /\ tab[t] \in Tables /\ RowsAt(t) = <<>>
    /\ tab' = [tab EXCEPT ![t] = @ + 1]
    /\ UNCHANGED <<main, spawned, at, todo, row, holder, conn, lost>>

\* BEGIN fails in an open transaction; nobody looks, and the rows join it.
Begin(t) ==
    /\ Running(t, "table") /\ tab[t] \in Tables /\ RowsAt(t) # <<>>
    /\ open' = TRUE
    /\ row' = [row EXCEPT ![t] = 1]
    /\ Goto(t, "bind")
    /\ UNCHANGED <<main, spawned, todo, tab, holder, bound, pending, db, lost>>

BindKey(t) ==
    /\ Running(t, "bind")
    /\ bound' = [bound EXCEPT ![tab[t]].key = RowsAt(t)[row[t]].key]
    /\ Goto(t, "bindRest")
    /\ UNCHANGED <<main, spawned, todo, tab, row, holder, open, pending, db, lost>>

BindRest(t) ==
    /\ Running(t, "bindRest")
    /\ bound' = [bound EXCEPT ![tab[t]].rest = RowsAt(t)[row[t]].rest]
    /\ Goto(t, "step")
    /\ UNCHANGED <<main, spawned, todo, tab, row, holder, open, pending, db, lost>>

MoreRowsPastEnd(t) == row[t] <= Len(RowsAt(t))

MoreRows(t) == row[t] < Len(RowsAt(t))

\* The loop goes on to the next row, or to COMMIT.
NextRow(t) ==
    IF MoreRows(t) THEN Goto(t, "bind") /\ row' = [row EXCEPT ![t] = @ + 1]
                   ELSE Goto(t, "commit") /\ UNCHANGED row

OfTable(n) == {r \in db \cup pending : r.table = TableNames[n]}

\* INSERT OR IGNORE: the first row of a key stays.
Stored(n, key) == \E r \in OfTable(n) : r.key = key

\* AUTOINCREMENT: nothing is ever deleted, so ids only grow.  The gaps SQLite may leave for
\* rows that were ignored are left out: queries look at the order of the ids only.
NextId(n) == Cardinality(OfTable(n)) + 1

Step(t) ==
    /\ Running(t, "step")
    /\ LET n == tab[t]
           new == IF Stored(n, bound[n].key) THEN {}
                  ELSE {[id |-> NextId(n), table |-> TableNames[n],
                         key |-> bound[n].key, rest |-> bound[n].rest]}
       IN  IF open THEN pending' = pending \cup new /\ UNCHANGED db
                   ELSE db' = db \cup new /\ UNCHANGED pending
    /\ NextRow(t)
    /\ UNCHANGED <<main, spawned, todo, tab, holder, bound, open, lost>>

\* A statement that fails leaves the transaction open, or, for some errors, SQLite rolls the
\* transaction back by itself.
RollBack == open' = FALSE /\ pending' = {}

StepFails(t) ==
    /\ Running(t, "step")
    /\ NextRow(t) /\ lost' = TRUE
    /\ RollBack \/ UNCHANGED <<open, pending>>
    /\ UNCHANGED <<main, spawned, todo, tab, holder, bound, db>>

Commit(t) ==
    /\ Running(t, "commit")
    /\ open' = FALSE /\ db' = db \cup pending /\ pending' = {}
    /\ tab' = [tab EXCEPT ![t] = @ + 1]
    /\ Goto(t, "table")
    /\ UNCHANGED <<main, spawned, todo, row, holder, bound, lost>>

CommitFails(t) ==
    /\ Running(t, "commit")
    /\ \/ UNCHANGED <<open, pending, lost>>
       \/ RollBack /\ lost' = TRUE
    /\ tab' = [tab EXCEPT ![t] = @ + 1]
    /\ Goto(t, "table")
    /\ UNCHANGED <<main, spawned, todo, row, holder, bound, db>>

StillHeld == holder

Released == 0

\* The lock_guard goes out of scope, and the tool turns to the next file.
Unlock(t) ==
    /\ Running(t, "table") /\ tab[t] \notin Tables
    /\ holder' = Released
    /\ todo' = [todo EXCEPT ![t] = Tail(@)]
    /\ tab' = [tab EXCEPT ![t] = 1] /\ row' = [row EXCEPT ![t] = 1]
    /\ Goto(t, "parse")
    /\ UNCHANGED <<main, spawned, conn, lost>>

-----------------------------------------------------------------------------
MainStep == Spawn \/ SpawnFails \/ Join \/ Close

ThreadStep(t) ==
    \/ Parse(t) \/ ParseFails(t) \/ ThreadDone(t) \/ Lock(t) \/ SkipTable(t) \/ Begin(t)
    \/ BindKey(t) \/ BindRest(t) \/ Step(t) \/ StepFails(t) \/ Commit(t) \/ CommitFails(t)
    \/ Unlock(t)

Next == MainStep \/ \E t \in Threads : ThreadStep(t)

\* main and every thread keep running while they can: the mutex is taken finitely often.
Spec == Init /\ [][Next]_vars /\ WF_vars(MainStep) /\ \A t \in Threads : WF_vars(ThreadStep(t))

-----------------------------------------------------------------------------
(***************************************************************************)
(* Properties                                                              *)
(***************************************************************************)
TypeOK ==
    /\ main \in {"spawn", "join", "closed", "exit"}
    /\ started \in 0..Jobs /\ start \in 0..Len(Files)
    /\ at \in [Threads -> {"none", "parse", "wait", "table", "bind", "bindRest", "step",
                           "commit", "done"}]
    /\ holder \in 0..Jobs /\ {open, lost} \subseteq BOOLEAN
    /\ \A t \in Threads :
          /\ tab[t] \in 1..Len(TableNames) + 1
          /\ at[t] \in {"bind", "bindRest", "step", "commit"} => row[t] \in DOMAIN RowsAt(t)

\* Every row in the database is one that was found in a file: the parameters bound for
\* one file are never mixed with those of another (analyze.cpp:301, db.hpp:245-253).
RowsAreReal == {Contents(r) : r \in (db \cup pending) \ Earlier} \subseteq AllRows

\* When the analysis is completed, every row that was found is stored, or is ignored for
\* one with its key, unless an error was reported that gave rows up.  A COMMIT that fails
\* and leaves the transaction open is not one: the next table's makes up for it.
EverythingStored ==
    main = "closed" =>
        lost \/ \A r \in AllRows : \E q \in db : q.table = r.table /\ q.key = r.key

\* The analysis ends, whatever fails.
MainEnds == <>(main \in {"closed", "exit"})
=============================================================================
