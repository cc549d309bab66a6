--------------------------- MODULE AnalyzerProofs ---------------------------
(***************************************************************************)
(* Theorems about Analyzer and Lookup, for every list of files, what is in *)
(* them, number of threads and tables, on a new database or an old one,    *)
(* whatever fails.                                                         *)
(***************************************************************************)
EXTENDS Lookup, SequenceTheorems, FiniteSetTheorems, WellFoundedInduction, NaturalsInduction, TLAPS

FileSet == {Files[k] : k \in DOMAIN Files}

Busy == {"table", "bind", "bindRest", "step", "commit"}

InRow == {"bind", "bindRest", "step", "commit"}

Least(a, b) == IF a <= b THEN a ELSE b

-----------------------------------------------------------------------------
(***************************************************************************)
(* The type invariant.  The files given out are counted in a closed form,  *)
(* which makes them all the files when the last thread has started.        *)
(***************************************************************************)
SplitType ==
    /\ main \in {"spawn", "join", "closed", "exit"}
    /\ started \in 0..Jobs
    /\ start = started * (Len(Files) \div Jobs) + Least(started, Len(Files) % Jobs)

ThreadType ==
    /\ at \in [Threads -> {"none", "parse", "wait", "done"} \cup Busy]
    /\ todo \in [Threads -> Seq(FileSet)]
    /\ tab \in [Threads -> 1..(Len(TableNames) + 1)] /\ row \in [Threads -> Nat \ {0}]
    /\ \A t \in Threads :
          /\ at[t] \in {"wait"} \cup Busy => todo[t] # <<>>
          /\ at[t] \in InRow => tab[t] \in Tables /\ row[t] \in DOMAIN RowsAt(t)

ConnType ==
    /\ holder \in 0..Jobs /\ open \in BOOLEAN /\ lost \in BOOLEAN
    /\ bound = [n \in Tables |-> [key |-> bound[n].key, rest |-> bound[n].rest]]

TypeInv == SplitType /\ ThreadType /\ ConnType

LEMMA SplitNext ==
    ASSUME NEW q \in Nat, NEW r \in Nat, NEW s \in Nat
    PROVE  s * q + Least(s, r) + (q + (IF s + 1 <= r THEN 1 ELSE 0)) = (s + 1) * q + Least(s + 1, r)
<1>1. (s + 1) * q = s * q + q /\ s * q \in Int
    OBVIOUS
<1>2. Least(s, r) + (IF s + 1 <= r THEN 1 ELSE 0) = Least(s + 1, r)
    BY DEF Least
<1> DEFINE sq == s * q
           sq1 == (s + 1) * q
<1> HIDE DEF sq, sq1
<1>3. Least(s, r) \in Int /\ Least(s + 1, r) \in Int
    BY DEF Least
<1>4. sq1 = sq + q /\ sq \in Int
    BY <1>1 DEF sq, sq1
<1>5. sq + Least(s, r) + (q + (IF s + 1 <= r THEN 1 ELSE 0)) = sq1 + Least(s + 1, r)
    BY <1>2, <1>3, <1>4
<1> QED BY <1>5 DEF sq, sq1

LEMMA SplitBounds ==
    ASSUME NEW L \in Nat, NEW s \in 0..Jobs
    PROVE  /\ L \div Jobs \in Nat /\ L % Jobs \in 0..(Jobs - 1)
           /\ s * (L \div Jobs) + Least(s, L % Jobs) \in 0..L
           /\ Jobs * (L \div Jobs) + Least(Jobs, L % Jobs) = L
<1> DEFINE q == L \div Jobs
           r == L % Jobs
<1>1. Jobs \in Nat /\ Jobs >= 1
    BY JobsAssumption
<1>2. q \in Nat /\ r \in 0..(Jobs - 1) /\ L = Jobs * q + r
    BY <1>1
<1> HIDE DEF q, r
<1>3. Least(Jobs, r) = r
    BY <1>1, <1>2 DEF Least
<1>4. s * q \in Nat /\ s * q <= Jobs * q
    BY <1>1, <1>2
<1>5. Least(s, r) \in 0..r
    BY <1>2 DEF Least
<1>6. s * q + Least(s, r) \in 0..L
    <2> DEFINE a == s * q
               b == Jobs * q
    <2>1. a \in Nat /\ a <= b /\ L = b + r /\ b \in Int
        BY <1>1, <1>2, <1>4
    <2> HIDE DEF a, b
    <2>2. a + Least(s, r) \in 0..L
        BY <1>2, <1>5, <2>1
    <2> QED BY <2>2 DEF a
<1> QED BY <1>2, <1>3, <1>6 DEF q, r

LEMMA ThreadsAreNat == Threads \subseteq Nat \ {0} /\ IsFiniteSet(Threads)
BY JobsAssumption, FS_Interval DEF Threads

LEMMA RowsType ==
    ASSUME NEW f \in FileSet, NEW n \in Tables
    PROVE  /\ DOMAIN Rows[f][n] = 1..Len(Rows[f][n]) /\ Len(Rows[f][n]) \in Nat
           /\ Rows[f][n] # <<>> => 1 \in DOMAIN Rows[f][n]
<1>1. PICK k \in DOMAIN Files : f = Files[k]
    BY DEF FileSet
<1>2. Rows[f][n] \in Seq({Rows[f][n][j] : j \in DOMAIN Rows[f][n]})
    BY <1>1, RowsAssumption DEF Tables
<1> QED BY <1>2, LenProperties, EmptySeq

LEMMA TablesType == Tables = 1..Len(TableNames) /\ Len(TableNames) \in Nat \ {0}
<1>1. TableNames # <<>> /\ TableNames \in Seq({TableNames[n] : n \in DOMAIN TableNames})
    BY TablesAssumption
<1> QED BY <1>1, LenProperties, EmptySeq DEF Tables

LEMMA HeadType ==
    ASSUME TypeInv, NEW t \in Threads, todo[t] # <<>>
    PROVE  Head(todo[t]) \in FileSet /\ Tail(todo[t]) \in Seq(FileSet)
BY HeadTailProperties DEF TypeInv, ThreadType

LEMMA BatchType ==
    ASSUME TypeInv, NEW t \in Threads, start + Cnt(t) \in 0..Len(Files)
    PROVE  Batch(t) \in Seq(FileSet)
<1>1. Len(Files) \in Nat /\ DOMAIN Files = 1..Len(Files)
    BY FilesAssumption, LenProperties
<1>2. start \in 0..Len(Files) /\ started \in 0..Jobs
    BY <1>1, SplitBounds DEF TypeInv, SplitType
<1>3. \A k \in (start + 1)..(start + Cnt(t)) : Files[k] \in FileSet
    BY <1>1, <1>2 DEF FileSet
<1> QED BY <1>1, <1>2, <1>3, SubSeqProperties DEF Batch

\* The next batch ends within the files.
LEMMA SplitStep ==
    ASSUME SplitType, started < Jobs
    PROVE  /\ started + 1 \in Threads
           /\ start + Cnt(started + 1) = (started + 1) * (Len(Files) \div Jobs) + Least(started + 1, Len(Files) % Jobs)
           /\ start + Cnt(started + 1) \in 0..Len(Files)
<1>1. Len(Files) \in Nat /\ started \in Nat /\ started + 1 \in 0..Jobs /\ started + 1 \in Threads /\ started \in 0..Jobs
    BY FilesAssumption, LenProperties, JobsAssumption DEF SplitType, Threads
<1>2. Len(Files) \div Jobs \in Nat /\ Len(Files) % Jobs \in Nat
    BY <1>1, SplitBounds
<1>3. start + Cnt(started + 1) = (started + 1) * (Len(Files) \div Jobs) + Least(started + 1, Len(Files) % Jobs)
    BY <1>1, <1>2, SplitNext DEF SplitType, Cnt
<1> QED BY <1>1, <1>3, SplitBounds

LEMMA TypeInit == Init => TypeInv
<1> SUFFICES ASSUME Init PROVE TypeInv
    OBVIOUS
<1>1. SplitType
    <2>1. Len(Files) \in Nat
        BY FilesAssumption, LenProperties
    <2>2. Len(Files) \div Jobs \in Nat /\ Len(Files) % Jobs \in Nat
        <3>1. 0 \in 0..Jobs /\ Jobs - 1 \in Nat
            BY JobsAssumption
        <3> QED BY <2>1, <3>1, SplitBounds
    <2>3. 0 * (Len(Files) \div Jobs) = 0 /\ Least(0, Len(Files) % Jobs) = 0
        BY <2>2 DEF Least
    <2> QED BY <2>3, JobsAssumption DEF Init, SplitType
<1>2. ThreadType
    BY TablesType, EmptySeq DEF Init, ThreadType, Busy, InRow
<1>3. ConnType
    <2>1. bound = [n \in Tables |-> [key |-> bound[n].key, rest |-> bound[n].rest]]
        BY DEF Init
    <2>2. holder \in 0..Jobs /\ open \in BOOLEAN /\ lost \in BOOLEAN
        <3>1. holder = 0 /\ open = FALSE /\ lost = FALSE
            BY DEF Init
        <3>2. 0 \in 0..Jobs
            BY JobsAssumption
        <3> QED BY <3>1, <3>2, Zenon
    <2> QED BY <2>1, <2>2 DEF ConnType
<1> QED BY <1>1, <1>2, <1>3 DEF TypeInv

LEMMA TypeMain ==
    ASSUME TypeInv, MainStep
    PROVE  TypeInv'
<1>1. CASE Spawn
    <2>1. SplitType'
        BY <1>1, SplitStep, JobsAssumption DEF Spawn, TypeInv, SplitType
    <2>2. ThreadType'
        <3>1. started + 1 \in Threads /\ Batch(started + 1) \in Seq(FileSet)
            BY <1>1, SplitStep, BatchType DEF Spawn, TypeInv
        <3> QED BY <1>1, <3>1 DEF Spawn, Goto, TypeInv, ThreadType, Busy, InRow, RowsAt
    <2>3. ConnType'
        BY <1>1 DEF Spawn, conn, TypeInv, ConnType
    <2> QED BY <2>1, <2>2, <2>3 DEF TypeInv
<1>2. CASE SpawnFails \/ Join \/ Close
    <2>1. UNCHANGED <<spawned, threads, holder, bound>>
        BY <1>2 DEF SpawnFails, Join, Close, conn
    <2>2. SplitType'
        BY <1>2, <2>1 DEF SpawnFails, Join, Close, spawned, TypeInv, SplitType
    <2>3. ThreadType'
        BY <2>1 DEF threads, TypeInv, ThreadType, RowsAt
    <2>4. ConnType'
        BY <1>2, <2>1 DEF SpawnFails, Join, Close, conn, TypeInv, ConnType
    <2> QED BY <2>2, <2>3, <2>4 DEF TypeInv
<1> QED BY <1>1, <1>2 DEF MainStep

\* A thread's step moves nobody else; what it has to show of the place it reaches.
LEMMA ThreadMoves ==
    ASSUME ThreadType, NEW t \in Threads, NEW label \in {"parse", "wait", "done"} \cup Busy, Goto(t, label),
           NEW f \in Seq(FileSet), todo' = [todo EXCEPT ![t] = f],
           NEW n \in 1..(Len(TableNames) + 1), tab' = [tab EXCEPT ![t] = n],
           NEW j \in Nat \ {0}, row' = [row EXCEPT ![t] = j],
           label \in {"wait"} \cup Busy => f # <<>>,
           label \in InRow => n \in Tables /\ j \in DOMAIN Rows[Head(f)][n]
    PROVE  ThreadType'
<1>1. /\ at' \in [Threads -> {"none", "parse", "wait", "done"} \cup Busy] /\ todo' \in [Threads -> Seq(FileSet)]
      /\ tab' \in [Threads -> 1..(Len(TableNames) + 1)] /\ row' \in [Threads -> Nat \ {0}]
    BY DEF ThreadType, Goto
<1>2. at'[t] = label /\ todo'[t] = f /\ tab'[t] = n /\ row'[t] = j
    BY DEF ThreadType, Goto
<1>3. \A u \in Threads \ {t} : at'[u] = at[u] /\ todo'[u] = todo[u] /\ tab'[u] = tab[u] /\ row'[u] = row[u]
    BY DEF ThreadType, Goto
<1>4. ASSUME NEW u \in Threads
      PROVE  /\ at'[u] \in {"wait"} \cup Busy => todo'[u] # <<>>
             /\ at'[u] \in InRow => tab'[u] \in Tables /\ row'[u] \in DOMAIN RowsAt(u)'
    BY <1>2, <1>3 DEF ThreadType, RowsAt
<1> QED BY <1>1, <1>4 DEF ThreadType

LEMMA ThreadAtTable ==
    ASSUME ThreadType, NEW t \in Threads, Goto(t, "table"), UNCHANGED todo, todo[t] # <<>>,
           NEW n \in 1..(Len(TableNames) + 1), tab' = [tab EXCEPT ![t] = n],
           NEW j \in Nat \ {0}, row' = [row EXCEPT ![t] = j]
    PROVE  ThreadType'
<1>1. "table" \in {"parse", "wait", "done"} \cup Busy /\ "table" \notin InRow
    BY DEF Busy, InRow
<1>2. todo[t] \in Seq(FileSet) /\ todo' = [todo EXCEPT ![t] = todo[t]]
    BY DEF ThreadType
<1> QED BY <1>1, <1>2, ThreadMoves

\* A thread binds a parameter of the statement of the table it is at.
LEMMA BindType ==
    ASSUME ConnType, NEW n \in Tables, NEW v,
           bound' = [bound EXCEPT ![n].key = v] \/ bound' = [bound EXCEPT ![n].rest = v]
    PROVE  /\ bound' = [m \in Tables |-> [key |-> bound'[m].key, rest |-> bound'[m].rest]]
           /\ bound' = [bound EXCEPT ![n].key = v] => bound'[n].key = v /\ bound'[n].rest = bound[n].rest
           /\ bound' = [bound EXCEPT ![n].rest = v] => bound'[n].rest = v /\ bound'[n].key = bound[n].key
BY DEF ConnType

LEMMA TypeThread ==
    ASSUME TypeInv, NEW t \in Threads, ThreadStep(t)
    PROVE  TypeInv'
<1> USE DEF TypeInv
<1>1. UNCHANGED <<main, spawned>>
    BY DEF ThreadStep, Parse, ParseFails, ThreadDone, Lock, SkipTable, Begin, BindKey, BindRest, Step, StepFails,
           Commit, CommitFails, Unlock
<1>2. SplitType'
    BY <1>1 DEF SplitType, spawned
<1>3. /\ todo[t] \in Seq(FileSet) /\ tab[t] \in 1..(Len(TableNames) + 1) /\ row[t] \in Nat \ {0} /\ t \in 1..Jobs
      /\ todo = [todo EXCEPT ![t] = todo[t]] /\ tab = [tab EXCEPT ![t] = tab[t]] /\ row = [row EXCEPT ![t] = row[t]]
      /\ 1 \in 1..(Len(TableNames) + 1) /\ 1 \in Nat \ {0}
    BY TablesType DEF ThreadType, Threads
<1>4. todo[t] # <<>> => Tail(todo[t]) \in Seq(FileSet) /\ Head(todo[t]) \in FileSet
    BY HeadType
<1>0. /\ {"parse", "done"} \cap ({"wait"} \cup Busy) = {} /\ {"parse", "done", "wait"} \cap InRow = {}
      /\ {"bind", "bindRest", "step", "commit"} \subseteq Busy
    BY DEF Busy, InRow
<1>5. CASE Parse(t) \/ ThreadDone(t)
    <2>1. ThreadType'
        BY <1>0, <1>3, <1>5, ThreadMoves DEF Parse, ThreadDone
    <2> QED BY <1>2, <1>5, <2>1 DEF Parse, ThreadDone, conn, ConnType
<1>6. CASE ParseFails(t)
    <2>1. Goto(t, "parse") /\ todo' = [todo EXCEPT ![t] = Tail(todo[t])]
        BY <1>6 DEF ParseFails, Running, Goto, ThreadType
    <2>2. ThreadType'
        BY <1>0, <1>3, <1>4, <1>6, <2>1, ThreadMoves DEF ParseFails
    <2> QED BY <1>2, <1>6, <2>2 DEF ParseFails, conn, ConnType
<1>7. CASE Lock(t)
    <2>1. todo[t] # <<>>
        BY <1>7 DEF Lock, Running, ThreadType
    <2>2. ThreadType'
        <3>1. /\ Goto(t, "table") /\ UNCHANGED todo
              /\ tab' = [tab EXCEPT ![t] = 1] /\ row' = [row EXCEPT ![t] = row[t]]
            BY <1>3, <1>7, <2>1 DEF Lock
        <3> QED BY <1>3, <2>1, <3>1, ThreadAtTable
    <2> QED BY <1>2, <1>3, <1>7, <2>2 DEF Lock, conn, ConnType
<1>8. CASE SkipTable(t)
    <2>1. /\ Goto(t, "table") /\ todo[t] # <<>> /\ tab' = [tab EXCEPT ![t] = tab[t] + 1]
          /\ tab[t] + 1 \in 1..(Len(TableNames) + 1)
        BY <1>8, TablesType DEF SkipTable, Running, Goto, ThreadType, Busy
    <2>2. ThreadType'
        <3>1. /\ Goto(t, "table") /\ UNCHANGED todo
              /\ row' = [row EXCEPT ![t] = row[t]]
            BY <1>3, <1>8, <2>1 DEF SkipTable
        <3> QED BY <1>3, <2>1, <3>1, ThreadAtTable
    <2> QED BY <1>2, <1>8, <2>2 DEF SkipTable, conn, ConnType
<1>9. CASE Begin(t)
    <2>1. todo[t] # <<>>
        BY <1>9 DEF Begin, Running, ThreadType, Busy
    <2>2. 1 \in DOMAIN RowsAt(t)
        BY <1>4, <1>9, <2>1, RowsType DEF Begin, RowsAt
    <2>3. ThreadType'
        BY <1>0, <1>3, <1>9, <2>1, <2>2, ThreadMoves DEF Begin, RowsAt
    <2> QED BY <1>2, <1>9, <2>3 DEF Begin, ConnType
<1>10. CASE BindKey(t) \/ BindRest(t)
    <2>1. todo[t] # <<>> /\ tab[t] \in Tables /\ row[t] \in DOMAIN RowsAt(t)
        BY <1>10 DEF BindKey, BindRest, Running, ThreadType, Busy, InRow
    <2>2. ThreadType'
        BY <1>0, <1>3, <1>10, <2>1, ThreadMoves DEF BindKey, BindRest, RowsAt
    <2>3. ConnType'
        BY <1>10, <2>1, BindType DEF BindKey, BindRest, ConnType
    <2> QED BY <1>2, <2>2, <2>3
<1>11. CASE Step(t) \/ StepFails(t)
    <2>1. todo[t] # <<>> /\ tab[t] \in Tables /\ row[t] \in DOMAIN RowsAt(t)
        BY <1>11 DEF Step, StepFails, Running, ThreadType, Busy, InRow
    <2>2. NextRow(t) /\ UNCHANGED <<todo, tab, holder, bound>> /\ {open', lost'} \subseteq BOOLEAN
        <3>1. CASE Step(t)
            BY <3>1 DEF Step, ConnType
        <3>2. CASE StepFails(t)
            BY <3>2 DEF StepFails, RollBack, ConnType
        <3> QED BY <1>11, <3>1, <3>2
    <2>3. DOMAIN RowsAt(t) = 1..Len(RowsAt(t)) /\ Len(RowsAt(t)) \in Nat
        BY <1>4, <2>1, RowsType DEF RowsAt
    <2>4. ThreadType'
        <3>1. CASE MoreRows(t)
            <4>1. row[t] + 1 \in DOMAIN RowsAt(t) /\ row[t] + 1 \in Nat \ {0}
                BY <1>3, <2>1, <2>3, <3>1 DEF MoreRows
            <4>2. Goto(t, "bind") /\ row' = [row EXCEPT ![t] = row[t] + 1]
                BY <2>2, <3>1 DEF NextRow
            <4> QED BY <1>0, <1>3, <2>1, <2>2, <4>1, <4>2, ThreadMoves DEF RowsAt
        <3>2. CASE ~MoreRows(t)
            BY <1>0, <1>3, <2>1, <2>2, <3>2, ThreadMoves DEF NextRow, RowsAt
        <3> QED BY <3>1, <3>2
    <2> QED BY <1>2, <2>2, <2>4 DEF ConnType
<1>12. CASE Commit(t) \/ CommitFails(t)
    <2>1. /\ todo[t] # <<>> /\ Goto(t, "table") /\ UNCHANGED <<todo, row, holder, bound>>
          /\ tab' = [tab EXCEPT ![t] = tab[t] + 1] /\ tab[t] + 1 \in 1..(Len(TableNames) + 1)
        BY <1>12, TablesType DEF Commit, CommitFails, Running, ThreadType, Busy, InRow
    <2>2. ThreadType'
        <3>1. /\ Goto(t, "table") /\ UNCHANGED todo
              /\ row' = [row EXCEPT ![t] = row[t]]
            BY <1>3, <2>1
        <3> QED BY <1>3, <2>1, <3>1, ThreadAtTable
    <2> QED BY <1>2, <1>12, <2>1, <2>2 DEF Commit, CommitFails, RollBack, ConnType
<1>13. CASE Unlock(t)
    <2>1. todo[t] # <<>>
        BY <1>13 DEF Unlock, Running, ThreadType, Busy
    <2>2. ThreadType'
        BY <1>0, <1>3, <1>4, <1>13, <2>1, ThreadMoves DEF Unlock
    <2> QED BY <1>2, <1>13, <2>2, JobsAssumption DEF Unlock, Released, conn, ConnType
<1> QED BY <1>5, <1>6, <1>7, <1>8, <1>9, <1>10, <1>11, <1>12, <1>13 DEF ThreadStep

LEMMA TypeStep == TypeInv /\ [Next]_vars => TypeInv'
<1>1. ASSUME TypeInv, UNCHANGED vars PROVE TypeInv'
    <2>1. SplitType' /\ ConnType'
        BY <1>1 DEF vars, spawned, conn, TypeInv, SplitType, ConnType
    <2>2. ThreadType'
        BY <1>1 DEF vars, threads, TypeInv, ThreadType, RowsAt
    <2> QED BY <2>1, <2>2 DEF TypeInv
<1> QED BY <1>1, TypeMain, TypeThread DEF Next

LEMMA TypeInvariant == Spec => []TypeInv
BY TypeInit, TypeStep, PTL DEF Spec

\* Every variable stays in its range: the batches end within the files, and no thread
\* goes past the tables or the rows of the file it is at (analyze.cpp:468-491).
THEOREM TypeCorrect == Spec => []TypeOK
<1>1. TypeInv => TypeOK
    <2> SUFFICES ASSUME TypeInv PROVE TypeOK
        OBVIOUS
    <2>1. start \in 0..Len(Files)
        BY FilesAssumption, LenProperties, SplitBounds DEF TypeInv, SplitType
    <2> QED BY <2>1 DEF TypeInv, SplitType, ThreadType, ConnType, TypeOK, Busy, InRow
<1> QED BY <1>1, TypeInvariant, PTL

-----------------------------------------------------------------------------
(***************************************************************************)
(* The mutex: only the thread that holds it is anywhere between Lock and   *)
(* Unlock, and so alone in touching the connection.                        *)
(***************************************************************************)
Exclusive == \A t \in Threads : at[t] \in Busy <=> holder = t

\* A thread that was not started has nothing to do.
Unborn == \A t \in Threads : t > started => at[t] = "none" /\ todo[t] = <<>>

\* What a step does to the rows, but for Step, which adds one: nothing, or it gives up or
\* commits those of the open transaction.
LEMMA RowsStep ==
    ASSUME NEW t \in Threads, ThreadStep(t), ~Step(t)
    PROVE  \/ UNCHANGED <<db, pending>> /\ (open' = open \/ open')
           \/ db' = db /\ pending' = {} /\ ~open'
           \/ db' = db \cup pending /\ pending' = {} /\ ~open'
<1>1. CASE Parse(t) \/ ParseFails(t) \/ ThreadDone(t) \/ Lock(t) \/ SkipTable(t) \/ Unlock(t)
    BY <1>1 DEF Parse, ParseFails, ThreadDone, Lock, SkipTable, Unlock, conn
<1>2. CASE Begin(t) \/ BindKey(t) \/ BindRest(t)
    BY <1>2 DEF Begin, BindKey, BindRest
<1>3. CASE StepFails(t) \/ CommitFails(t)
    BY <1>3 DEF StepFails, CommitFails, RollBack
<1>4. CASE Commit(t)
    BY <1>4 DEF Commit
<1> QED BY <1>1, <1>2, <1>3, <1>4 DEF ThreadStep

LEMMA RowsOfNext ==
    ASSUME [Next]_vars, ~\E t \in Threads : Step(t)
    PROVE  \/ UNCHANGED <<db, pending>>
           \/ db' = db /\ pending' = {}
           \/ db' = db \cup pending /\ pending' = {}
<1>1. CASE MainStep \/ UNCHANGED vars
    BY <1>1 DEF MainStep, Spawn, SpawnFails, Join, Close, conn, vars
<1>2. CASE \E t \in Threads : ThreadStep(t)
    BY <1>2, RowsStep
<1> QED BY <1>1, <1>2 DEF Next

\* A thread's step moves no other thread.
LEMMA OthersStay ==
    ASSUME TypeInv, NEW t \in Threads, ThreadStep(t), NEW u \in Threads, u # t
    PROVE  at'[u] = at[u] /\ todo'[u] = todo[u] /\ tab'[u] = tab[u] /\ row'[u] = row[u] /\ RowsAt(u)' = RowsAt(u)
<1>1. at' = at \/ \E label : Goto(t, label)
    BY DEF ThreadStep, Parse, ParseFails, ThreadDone, Lock, SkipTable, Begin, BindKey, BindRest, Step, StepFails,
           NextRow, Commit, CommitFails, Unlock
<1>2. todo' = todo \/ todo' = [todo EXCEPT ![t] = Tail(todo[t])]
    BY DEF ThreadStep, Parse, ParseFails, ThreadDone, Lock, SkipTable, Begin, BindKey, BindRest, Step, StepFails,
           Commit, CommitFails, Unlock
<1>3. tab' = tab \/ \E n : tab' = [tab EXCEPT ![t] = n]
    BY DEF ThreadStep, Parse, ParseFails, ThreadDone, Lock, SkipTable, Begin, BindKey, BindRest, Step, StepFails,
           Commit, CommitFails, Unlock
<1>4. row' = row \/ \E j : row' = [row EXCEPT ![t] = j]
    BY DEF ThreadStep, Parse, ParseFails, ThreadDone, Lock, SkipTable, Begin, BindKey, BindRest, Step, StepFails,
           NextRow, Commit, CommitFails, Unlock
<1>5. at'[u] = at[u] /\ todo'[u] = todo[u] /\ tab'[u] = tab[u] /\ row'[u] = row[u]
    BY <1>1, <1>2, <1>3, <1>4 DEF Goto, TypeInv, ThreadType
<1> QED BY <1>5 DEF RowsAt

LEMMA UnbornStep ==
    ASSUME TypeInv, Unborn, [Next]_vars
    PROVE  Unborn'
<1>1. ASSUME NEW t \in Threads, ThreadStep(t) PROVE Unborn'
    <2>1. at[t] # "none" /\ started' = started
        BY <1>1 DEF ThreadStep, Parse, ParseFails, ThreadDone, Lock, SkipTable, Begin, BindKey, BindRest, Step,
                    StepFails, Commit, CommitFails, Unlock, Running, spawned
    <2> QED BY <1>1, <2>1, OthersStay DEF Unborn
<1>2. CASE Spawn
    <2>1. /\ started + 1 \in Threads /\ started' = started + 1 /\ started \in Nat
          /\ \A u \in Threads \ {started + 1} : at'[u] = at[u] /\ todo'[u] = todo[u]
        BY <1>2, SplitStep DEF Spawn, Goto, TypeInv, SplitType, ThreadType
    <2> QED BY <2>1, ThreadsAreNat DEF Unborn
<1>3. CASE SpawnFails \/ Join \/ Close \/ UNCHANGED vars
    BY <1>3 DEF SpawnFails, Join, Close, vars, threads, spawned, Unborn
<1> QED BY <1>1, <1>2, <1>3 DEF Next, MainStep

LEMMA ExclusiveStep ==
    ASSUME TypeInv, Unborn, Exclusive, [Next]_vars
    PROVE  Exclusive'
<1>1. ASSUME NEW t \in Threads, ThreadStep(t) PROVE Exclusive'
    <2>1. 0 \notin Threads /\ DOMAIN at = Threads
        BY ThreadsAreNat DEF TypeInv, ThreadType
    <2>2. CASE Lock(t)
        <3>1. holder = 0 /\ holder' = t /\ at'[t] \in Busy
            BY <2>1, <2>2 DEF Lock, LockFree, Goto, TypeInv, ThreadType, Busy
        <3> QED BY <1>1, <2>1, <3>1, OthersStay DEF Exclusive
    <2>3. CASE Unlock(t)
        <3>1. holder = t /\ holder' = 0 /\ at'[t] \notin Busy
            BY <2>1, <2>3 DEF Unlock, Released, Running, Goto, Exclusive, TypeInv, ThreadType, Busy
        <3> QED BY <1>1, <2>1, <3>1, OthersStay DEF Exclusive
    <2>4. CASE ~Lock(t) /\ ~Unlock(t)
        <3>1. holder' = holder /\ (at'[t] \in Busy <=> at[t] \in Busy)
            BY <1>1, <2>1, <2>4
               DEF ThreadStep, Parse, ParseFails, ThreadDone, SkipTable, Begin, BindKey, BindRest, Step, StepFails,
                   NextRow, Commit, CommitFails, Running, Goto, Busy
        <3> QED BY <1>1, <3>1, OthersStay DEF Exclusive
    <2> QED BY <2>2, <2>3, <2>4
<1>2. CASE Spawn
    <2>1. /\ started + 1 \in Threads /\ started + 1 > started
          /\ at'[started + 1] = "parse" /\ holder' = holder
          /\ \A u \in Threads \ {started + 1} : at'[u] = at[u]
        BY <1>2, SplitStep DEF Spawn, Goto, TypeInv, SplitType, ThreadType
    <2> QED BY <2>1 DEF Exclusive, Unborn, Busy
<1>3. CASE SpawnFails \/ Join \/ Close \/ UNCHANGED vars
    BY <1>3 DEF SpawnFails, Join, Close, vars, threads, Exclusive
<1> QED BY <1>1, <1>2, <1>3 DEF Next, MainStep

LEMMA MutexInvariant == Spec => [](TypeInv /\ Unborn /\ Exclusive)
<1>1. Init => Unborn /\ Exclusive
    <2> SUFFICES ASSUME Init, NEW t \in Threads PROVE at[t] = "none" /\ todo[t] = <<>> /\ holder # t
        BY DEF Unborn, Exclusive, Init, Busy
    <2> QED BY ThreadsAreNat DEF Init
<1> QED BY <1>1, UnbornStep, ExclusiveStep, TypeInvariant, PTL DEF Spec

-----------------------------------------------------------------------------
(***************************************************************************)
(* What is bound is of the row at hand: nobody else binds, and nothing     *)
(* moves the row on before it is stepped.                                  *)
(***************************************************************************)
BoundOfRow ==
    \A t \in Threads :
        /\ at[t] \in {"bindRest", "step"} => bound[tab[t]].key = RowsAt(t)[row[t]].key
        /\ at[t] = "step" => bound[tab[t]].rest = RowsAt(t)[row[t]].rest

LEMMA BoundOfRowStep ==
    ASSUME TypeInv, Exclusive, BoundOfRow, [Next]_vars
    PROVE  BoundOfRow'
<1>1. ASSUME NEW t \in Threads, ThreadStep(t) PROVE BoundOfRow'
    <2>1. DOMAIN at = Threads
        BY DEF TypeInv, ThreadType
    <2>2. CASE BindKey(t) \/ BindRest(t)
        <3>1. at[t] \in {"bind", "bindRest"} /\ tab[t] \in Tables /\ UNCHANGED <<todo, tab, row>>
            BY <2>2 DEF BindKey, BindRest, Running, TypeInv, ThreadType, InRow
        <3>2. \A u \in Threads \ {t} : at'[u] \notin {"bindRest", "step"}
            BY <1>1, <3>1, OthersStay DEF Exclusive, Busy
        <3>3. RowsAt(t)' = RowsAt(t)
            BY <3>1 DEF RowsAt
        <3>4. CASE BindKey(t)
            <4>1. at'[t] = "bindRest" /\ bound'[tab[t]].key = RowsAt(t)[row[t]].key
                BY <2>1, <3>1, <3>4, BindType DEF BindKey, Goto, TypeInv
            <4> QED BY <3>1, <3>2, <3>3, <4>1 DEF BoundOfRow
        <3>5. CASE BindRest(t)
            <4>1. /\ at[t] = "bindRest" /\ bound'[tab[t]].key = bound[tab[t]].key
                  /\ bound'[tab[t]].rest = RowsAt(t)[row[t]].rest
                BY <3>1, <3>5, BindType DEF BindRest, Running, TypeInv
            <4> QED BY <3>1, <3>2, <3>3, <4>1 DEF BoundOfRow
        <3> QED BY <2>2, <3>4, <3>5
    <2>3. CASE ~BindKey(t) /\ ~BindRest(t)
        <3>1. bound' = bound /\ at'[t] \notin {"bindRest", "step"}
            BY <1>1, <2>1, <2>3
               DEF ThreadStep, Parse, ParseFails, ThreadDone, Lock, SkipTable, Begin, Step, StepFails,
                   NextRow, Commit, CommitFails, Unlock, Running, Goto, conn
        <3> QED BY <1>1, <3>1, OthersStay DEF BoundOfRow
    <2> QED BY <2>2, <2>3
<1>2. CASE Spawn
    <2>1. started + 1 \in Threads
        BY <1>2, SplitStep DEF Spawn, TypeInv
    <2>2. at'[started + 1] = "parse" /\ UNCHANGED <<tab, row, bound>>
        BY <1>2, <2>1 DEF Spawn, Goto, conn, TypeInv, ThreadType
    <2>3. \A u \in Threads \ {started + 1} : at'[u] = at[u] /\ RowsAt(u)' = RowsAt(u)
        BY <1>2, <2>1 DEF Spawn, Goto, RowsAt, TypeInv, ThreadType
    <2> QED BY <2>2, <2>3 DEF BoundOfRow
<1>3. CASE SpawnFails \/ Join \/ Close \/ UNCHANGED vars
    <2>1. UNCHANGED <<threads, bound>>
        BY <1>3 DEF SpawnFails, Join, Close, vars, conn
    <2> QED BY <2>1 DEF threads, BoundOfRow, RowsAt
<1> QED BY <1>1, <1>2, <1>3 DEF Next, MainStep

\* The row a thread is at is one of those that were found.
LEMMA RowIsFound ==
    ASSUME TypeInv, NEW t \in Threads, at[t] \in InRow
    PROVE  [table |-> TableNames[tab[t]], key |-> RowsAt(t)[row[t]].key, rest |-> RowsAt(t)[row[t]].rest] \in AllRows
<1>1. todo[t] # <<>> /\ tab[t] \in Tables /\ row[t] \in DOMAIN RowsAt(t)
    BY DEF TypeInv, ThreadType, Busy, InRow
<1>2. PICK k \in DOMAIN Files : Head(todo[t]) = Files[k]
    BY <1>1, HeadType DEF FileSet
<1>3. [table |-> TableNames[tab[t]], key |-> RowsAt(t)[row[t]].key, rest |-> RowsAt(t)[row[t]].rest]
        \in Found(Files[k], tab[t])
    BY <1>1, <1>2 DEF Found, RowsAt
<1> QED BY <1>1, <1>3 DEF AllRows

\* Every row that enters the database was found in a file, key and text together: what
\* the threads bind is never mixed (analyze.cpp:301, db.hpp:245-253).
THEOREM StoredRowsAreReal == Spec => []RowsAreReal
<1>1. Init => BoundOfRow /\ RowsAreReal
    BY DEF Init, BoundOfRow, RowsAreReal
<1>2. ASSUME TypeInv, BoundOfRow, RowsAreReal, Next PROVE RowsAreReal'
    <2>1. ASSUME NEW t \in Threads, Step(t) PROVE RowsAreReal'
        <3> DEFINE new == [id |-> NextId(tab[t]), table |-> TableNames[tab[t]],
                           key |-> bound[tab[t]].key, rest |-> bound[tab[t]].rest]
        <3>1. at[t] = "step"
            BY <2>1 DEF Step, Running
        <3>2. Contents(new) \in AllRows
            BY <1>2, <2>1, <3>1, RowIsFound DEF Contents, BoundOfRow, InRow
        <3>3. db' \cup pending' \subseteq db \cup pending \cup {new}
            BY <2>1 DEF Step
        <3> HIDE DEF new
        <3> QED BY <1>2, <3>2, <3>3 DEF RowsAreReal
    <2>2. CASE ~\E t \in Threads : Step(t)
        <3>1. db' \cup pending' \subseteq db \cup pending
            BY <1>2, <2>2, RowsOfNext
        <3> QED BY <1>2, <3>1 DEF RowsAreReal
    <2> QED BY <2>1, <2>2
<1>3. ASSUME RowsAreReal, UNCHANGED vars PROVE RowsAreReal'
    BY <1>3 DEF RowsAreReal, vars, conn
<1> QED BY <1>1, <1>2, <1>3, BoundOfRowStep, MutexInvariant, PTL DEF Spec

-----------------------------------------------------------------------------
(***************************************************************************)
(* Where a row is that is not stored yet: in a file that was not given     *)
(* out, or in one a thread still has; and of the file at hand, in a table  *)
(* or a row the thread has not passed.                                     *)
(***************************************************************************)
RowsStored(f, n, S) == \A j \in S : Stored(n, Rows[f][n][j].key)

FileStored(f) == \A n \in Tables : RowsStored(f, n, DOMAIN Rows[f][n])

Given(f) == \E t \in Threads : \E m \in 1..Len(todo[t]) : todo[t][m] = f

FilesKept == \A k \in DOMAIN Files : k > start \/ Given(Files[k]) \/ FileStored(Files[k])

\* The rows of its table a thread has passed.
Passed(t) == {j \in DOMAIN RowsAt(t) : j < row[t] \/ at[t] = "commit"}

PassedBy(t) ==
    at[t] \in Busy =>
        /\ \A n \in Tables : n < tab[t] => RowsStored(Head(todo[t]), n, DOMAIN Rows[Head(todo[t])][n])
        /\ at[t] \in InRow => RowsStored(Head(todo[t]), tab[t], Passed(t))

KeptInv == ~lost => FilesKept /\ \A t \in Threads : PassedBy(t)

\* No step that goes without a message takes a row away.
LEMMA RowsGrow ==
    ASSUME ~open => pending = {}, [Next]_vars, ~lost'
    PROVE  ~lost /\ \A n : OfTable(n) \subseteq OfTable(n)'
<1>1. ~lost /\ db \cup pending \subseteq db' \cup pending'
    <2>1. CASE Close
        BY <2>1 DEF Close
    <2>2. CASE Spawn \/ SpawnFails \/ Join \/ UNCHANGED vars
        BY <2>2 DEF Spawn, SpawnFails, Join, conn, vars
    <2>3. ASSUME NEW t \in Threads, ThreadStep(t)
          PROVE  ~lost /\ db \cup pending \subseteq db' \cup pending'
        <3>1. CASE Step(t)
            BY <3>1 DEF Step
        <3>2. CASE Commit(t) \/ CommitFails(t)
            BY <3>2 DEF Commit, CommitFails
        <3>3. CASE ~Step(t) /\ ~Commit(t) /\ ~CommitFails(t)
            BY <2>3, <3>3
               DEF ThreadStep, Parse, ParseFails, ThreadDone, Lock, SkipTable, Begin, BindKey, BindRest, StepFails,
                   Unlock, conn
        <3> QED BY <3>1, <3>2, <3>3
    <2> QED BY <2>1, <2>2, <2>3 DEF Next, MainStep
<1> QED BY <1>1 DEF OfTable

LEMMA StoredStays ==
    ASSUME NEW f, NEW n, NEW S, OfTable(n) \subseteq OfTable(n)', RowsStored(f, n, S)
    PROVE  RowsStored(f, n, S)'
BY DEF RowsStored, Stored

LEMMA FileStoredStays ==
    ASSUME NEW f, \A n : OfTable(n) \subseteq OfTable(n)', FileStored(f)
    PROVE  FileStored(f)'
BY StoredStays DEF FileStored

\* What a thread has passed is stored, as long as it stays where it is.
LEMMA PassedStays ==
    ASSUME NEW t \in Threads, PassedBy(t), \A n : OfTable(n) \subseteq OfTable(n)',
           todo'[t] = todo[t], tab'[t] = tab[t], row'[t] = row[t], at'[t] = at[t]
    PROVE  PassedBy(t)'
<1>1. Passed(t)' = Passed(t)
    BY DEF Passed, RowsAt
<1>2. ASSUME NEW n, NEW S, RowsStored(Head(todo[t]), n, S)
      PROVE  RowsStored(Head(todo[t]), n, S)'
    BY <1>2 DEF RowsStored, Stored
<1> QED BY <1>1, <1>2 DEF PassedBy, RowsStored, Stored

\* What has to be shown of a thread that moves within the file at hand.
LEMMA PassedAfter ==
    ASSUME NEW t \in Threads, NEW f, f = Head(todo[t]), todo' = todo, NEW n, n = tab'[t], NEW S, S = Passed(t)',
           \A m \in Tables : m < n => RowsStored(f, m, DOMAIN Rows[f][m])',
           at'[t] \in InRow => RowsStored(f, n, S)'
    PROVE  PassedBy(t)'
BY DEF PassedBy, RowsStored, Stored

\* The thread that moves has passed no more than what it has stored.
LEMMA MoverPassed ==
    ASSUME TypeInv, BoundOfRow, NEW t \in Threads, PassedBy(t), ThreadStep(t), ~lost',
           \A n : OfTable(n) \subseteq OfTable(n)'
    PROVE  PassedBy(t)'
<1>1. at \in [Threads -> {"none", "parse", "wait", "done"} \cup Busy] /\ todo[t] \in Seq(FileSet)
      /\ tab \in [Threads -> 1..(Len(TableNames) + 1)] /\ row \in [Threads -> Nat \ {0}]
    BY DEF TypeInv, ThreadType
<1>2. PICK f : f = Head(todo[t])
    OBVIOUS
<1>3. at[t] \in Busy => \A m \in Tables : m < tab[t] => RowsStored(f, m, DOMAIN Rows[f][m])'
    BY <1>2, StoredStays DEF PassedBy
<1>4. ASSUME NEW n, n = tab[t], RowsStored(f, n, DOMAIN Rows[f][n])', at[t] \in Busy
      PROVE  \A m \in Tables : m < n + 1 => RowsStored(f, m, DOMAIN Rows[f][m])'
    <2> SUFFICES ASSUME NEW m \in Tables, m < n + 1 PROVE RowsStored(f, m, DOMAIN Rows[f][m])'
        OBVIOUS
    <2>1. m = n \/ m < n
        BY <1>1, <1>4, TablesType
    <2> QED BY <1>3, <1>4, <2>1
<1>5. at[t] \in InRow => at[t] \in Busy /\ todo[t] # <<>> /\ tab[t] \in Tables /\ row[t] \in DOMAIN RowsAt(t)
    BY DEF TypeInv, ThreadType, Busy, InRow
<1>6. CASE Parse(t) \/ ParseFails(t) \/ ThreadDone(t) \/ Unlock(t)
    <2>1. at'[t] \notin Busy
        BY <1>1, <1>6 DEF Parse, ParseFails, ThreadDone, Unlock, Running, Goto, Busy
    <2> QED BY <2>1 DEF PassedBy
<1>7. CASE Lock(t)
    <2>1. at'[t] = "table" /\ tab'[t] = 1 /\ todo' = todo
        BY <1>1, <1>7 DEF Lock, Goto
    <2>2. \A m \in Tables : ~(m < 1)
        BY TablesType
    <2> QED BY <2>1, <2>2 DEF PassedBy, InRow
<1>8. CASE SkipTable(t)
    <2>1. /\ at[t] = "table" /\ at'[t] = "table" /\ todo' = todo /\ tab'[t] = tab[t] + 1 /\ RowsAt(t) = <<>>
        BY <1>1, <1>8 DEF SkipTable, Running
    <2>2. ASSUME NEW n, n = tab[t] PROVE RowsStored(f, n, DOMAIN Rows[f][n])'
        BY <1>2, <2>1, <2>2 DEF RowsStored, RowsAt
    <2>3. at[t] \in Busy /\ at'[t] \notin InRow
        BY <2>1 DEF Busy, InRow
    <2> QED BY <1>2, <1>4, <2>1, <2>2, <2>3, PassedAfter
<1>9. CASE Begin(t)
    <2>1. /\ at[t] = "table" /\ todo' = todo /\ tab' = tab /\ row'[t] = 1 /\ at'[t] = "bind"
          /\ tab[t] \in Tables /\ todo[t] # <<>>
        BY <1>1, <1>9 DEF Begin, Running, Goto, TypeInv, ThreadType, Busy
    <2>2. Passed(t)' = {}
        <3>1. DOMAIN RowsAt(t) \subseteq Nat \ {0} /\ RowsAt(t)' = RowsAt(t)
            BY <2>1, HeadType, RowsType DEF RowsAt
        <3> QED BY <2>1, <3>1 DEF Passed
    <2>3. at[t] \in Busy
        BY <2>1 DEF Busy
    <2> QED BY <1>2, <1>3, <2>1, <2>2, <2>3, PassedAfter DEF RowsStored
<1>10. CASE BindKey(t) \/ BindRest(t)
    <2>1. at[t] \in InRow /\ at[t] # "commit" /\ UNCHANGED <<todo, tab, row>> /\ at'[t] # "commit"
        BY <1>1, <1>10 DEF BindKey, BindRest, Running, Goto, InRow
    <2>2. Passed(t)' = Passed(t)
        BY <2>1 DEF Passed, RowsAt
    <2>3. ASSUME NEW n, n = tab[t], NEW S, S = Passed(t) PROVE RowsStored(f, n, S)'
        BY <1>2, <1>5, <2>1, <2>3, StoredStays DEF PassedBy
    <2> QED BY <1>2, <1>3, <1>5, <2>1, <2>2, <2>3, PassedAfter
<1>11. CASE Step(t)
    <2>1. at[t] = "step" /\ at[t] \in InRow /\ NextRow(t) /\ UNCHANGED <<todo, tab>>
        BY <1>11 DEF Step, Running, InRow
    <2>2. DOMAIN RowsAt(t) = 1..Len(RowsAt(t)) /\ Len(RowsAt(t)) \in Nat /\ RowsAt(t)' = RowsAt(t)
        BY <1>5, <2>1, HeadType, RowsType DEF RowsAt
    <2>3. Passed(t)' \subseteq Passed(t) \cup {row[t]}
        <3>1. CASE MoreRows(t)
            <4>1. row'[t] = row[t] + 1 /\ at'[t] = "bind" /\ row[t] \in Nat
                BY <1>1, <2>1, <3>1 DEF NextRow, Goto
            <4> QED BY <2>1, <2>2, <4>1 DEF Passed
        <3>2. CASE ~MoreRows(t)
            <4>1. row' = row /\ row[t] \in Nat /\ row[t] >= Len(RowsAt(t))
                BY <1>1, <2>1, <2>2, <3>2 DEF NextRow, MoreRows
            <4> QED BY <2>1, <2>2, <4>1 DEF Passed
        <3> QED BY <3>1, <3>2
    <2>4. ASSUME NEW n, n = tab[t], NEW j, j = row[t] PROVE Stored(n, Rows[f][n][j].key)'
        <3>1. Rows[f][n][j].key = bound[n].key
            BY <1>2, <2>1, <2>4 DEF BoundOfRow, RowsAt
        <3>2. CASE Stored(n, bound[n].key)
            BY <3>1, <3>2 DEF Stored
        <3>3. CASE ~Stored(n, bound[n].key)
            <4> DEFINE new == [id |-> NextId(n), table |-> TableNames[n], key |-> bound[n].key, rest |-> bound[n].rest]
            <4>1. new \in db' \cup pending'
                BY <1>11, <2>4, <3>3 DEF Step
            <4>2. new.table = TableNames[n] /\ new.key = bound[n].key
                OBVIOUS
            <4> HIDE DEF new
            <4> QED BY <3>1, <4>1, <4>2 DEF Stored, OfTable
        <3> QED BY <3>2, <3>3
    <2>5. ASSUME NEW n, n = tab[t], NEW S, S = Passed(t)' PROVE RowsStored(f, n, S)'
        <3>1. ASSUME NEW P, P = Passed(t) PROVE RowsStored(f, n, P)'
            BY <1>2, <1>5, <2>1, <2>5, <3>1, StoredStays DEF PassedBy
        <3>2. \A j \in Passed(t) : Stored(n, Rows[f][n][j].key)'
            BY <3>1 DEF RowsStored
        <3> QED BY <2>3, <2>4, <2>5, <3>2 DEF RowsStored
    <2> QED BY <1>2, <1>3, <1>5, <2>1, <2>5, PassedAfter
<1>12. CASE Commit(t) \/ CommitFails(t)
    <2>1. at[t] = "commit" /\ at'[t] = "table" /\ todo' = todo /\ tab'[t] = tab[t] + 1
        BY <1>1, <1>12 DEF Commit, CommitFails, Running, Goto
    <2>2. at[t] \in InRow /\ at'[t] \notin InRow
        BY <2>1 DEF InRow
    <2>3. ASSUME NEW n, n = tab[t] PROVE RowsStored(f, n, DOMAIN Rows[f][n])'
        <3>1. Passed(t) = DOMAIN Rows[f][n]
            BY <1>2, <2>1, <2>3 DEF Passed, RowsAt
        <3> QED BY <1>2, <1>5, <2>2, <2>3, <3>1, StoredStays DEF PassedBy
    <2> QED BY <1>2, <1>4, <1>5, <2>1, <2>2, <2>3, PassedAfter
<1>13. ~StepFails(t)
    BY DEF StepFails
<1> QED BY <1>6, <1>7, <1>8, <1>9, <1>10, <1>11, <1>12, <1>13 DEF ThreadStep

-----------------------------------------------------------------------------
(***************************************************************************)
(* How the analysis ends: every thread was started and is done, which a    *)
(* thread is when it has no file left, and no transaction is open.         *)
(***************************************************************************)
Ending ==
    /\ main \in {"join", "closed"} => started = Jobs
    /\ main = "closed" => pending = {} /\ \A t \in Threads : at[t] = "done"
    /\ \A t \in Threads : at[t] = "done" => todo[t] = <<>>
    /\ ~open => pending = {}

LEMMA EndingStep ==
    ASSUME TypeInv, Ending, [Next]_vars
    PROVE  Ending'
<1>1. ASSUME NEW t \in Threads, ThreadStep(t) PROVE Ending'
    <2>1. main' = main /\ started' = started /\ main # "closed"
        BY <1>1 DEF ThreadStep, Parse, ParseFails, ThreadDone, Lock, SkipTable, Begin, BindKey, BindRest, Step,
                    StepFails, Commit, CommitFails, Unlock, Running, spawned
    <2>2. ~open' => pending' = {}
        <3>1. CASE Step(t)
            BY <3>1 DEF Step, Ending
        <3>2. CASE ~Step(t)
            BY <1>1, <3>2, RowsStep DEF Ending
        <3> QED BY <3>1, <3>2
    <2>3. at'[t] = "done" => todo'[t] = <<>>
        BY <1>1 DEF ThreadStep, Parse, ParseFails, ThreadDone, Lock, SkipTable, Begin, BindKey, BindRest, Step,
                    StepFails, NextRow, Commit, CommitFails, Unlock, Running, Goto, TypeInv, ThreadType
    <2>4. \A u \in Threads : at'[u] = "done" => todo'[u] = <<>>
        BY <1>1, <2>3, OthersStay DEF Ending
    <2> QED BY <2>1, <2>2, <2>4 DEF Ending
<1>2. CASE Spawn
    <2>1. /\ main' = "spawn" /\ UNCHANGED <<open, pending>> /\ started + 1 \in Threads
          /\ at'[started + 1] = "parse"
          /\ \A u \in Threads \ {started + 1} : at'[u] = at[u] /\ todo'[u] = todo[u]
        BY <1>2, SplitStep DEF Spawn, Goto, conn, TypeInv, ThreadType
    <2> QED BY <2>1 DEF Ending
<1>3. CASE SpawnFails \/ Join \/ Close
    <2>1. UNCHANGED <<at, todo, started>>
        BY <1>3 DEF SpawnFails, Join, Close, threads, spawned
    <2> QED BY <1>3, <2>1 DEF SpawnFails, Join, Close, conn, Ending
<1>4. CASE UNCHANGED vars
    BY <1>4 DEF vars, threads, spawned, conn, Ending
<1> QED BY <1>1, <1>2, <1>3, <1>4 DEF Next, MainStep

-----------------------------------------------------------------------------
(***************************************************************************)
(* No file is dropped without a message.                                   *)
(***************************************************************************)
\* The file at hand is stored when the thread has been through all the tables.
LEMMA FileDone ==
    ASSUME TypeInv, NEW t \in Threads, PassedBy(t), Unlock(t)
    PROVE  FileStored(Head(todo[t])) /\ todo[t] # <<>>
<1>1. at[t] = "table" /\ tab[t] \notin Tables /\ tab[t] \in 1..(Len(TableNames) + 1)
    BY DEF Unlock, Running, TypeInv, ThreadType
<1>2. at[t] \in Busy
    BY <1>1 DEF Busy
<1>3. \A n \in Tables : n < tab[t]
    BY <1>1, TablesType
<1>4. todo[t] # <<>>
    BY <1>2 DEF TypeInv, ThreadType
<1> QED BY <1>2, <1>3, <1>4 DEF PassedBy, FileStored

\* A file that one thread has is still one of its files, or is stored, after any thread's step.
LEMMA GivenStays ==
    ASSUME TypeInv, NEW t \in Threads, PassedBy(t), ThreadStep(t), ~lost',
           \A n : OfTable(n) \subseteq OfTable(n)', NEW f, Given(f)
    PROVE  Given(f)' \/ FileStored(f)'
<1>1. PICK u \in Threads : \E m \in 1..Len(todo[u]) : todo[u][m] = f
    BY DEF Given
<1>2. CASE todo'[u] = todo[u]
    BY <1>1, <1>2 DEF Given
<1>3. CASE todo'[u] # todo[u]
    <2>1. u = t /\ Unlock(t)
        BY <1>3, OthersStay
           DEF ThreadStep, Parse, ParseFails, ThreadDone, Lock, SkipTable, Begin, BindKey, BindRest, Step,
               StepFails, Commit, CommitFails
    <2>2. todo'[t] = Tail(todo[t]) /\ todo[t] \in Seq(FileSet)
        BY <2>1 DEF Unlock, TypeInv, ThreadType
    <2>3. FileStored(Head(todo[t])) /\ todo[t] # <<>>
        BY <2>1, FileDone
    <2>4. PICK m \in 1..Len(todo[t]) : todo[t][m] = f
        BY <1>1, <2>1
    <2>5. CASE m = 1
        <3>1. f = Head(todo[t])
            BY <2>2, <2>3, <2>4, <2>5
        <3> QED BY <2>3, <3>1, FileStoredStays
    <2>6. CASE m # 1
        <3> DEFINE s == todo[t]
        <3>1. s \in Seq(FileSet) /\ s # <<>> /\ m \in 1..Len(s) /\ s[m] = f
            BY <2>2, <2>3, <2>4
        <3>2. m - 1 \in 1..Len(Tail(s)) /\ Tail(s)[m - 1] = s[(m - 1) + 1]
            <4> HIDE DEF s
            <4>1. Len(s) \in Nat /\ Len(Tail(s)) = Len(s) - 1
                BY <3>1, HeadTailProperties, LenProperties
            <4>2. m - 1 \in 1..Len(Tail(s))
                BY <2>6, <3>1, <4>1
            <4> QED BY <3>1, <4>2, HeadTailProperties
        <3>3. todo'[t][m - 1] = f /\ m - 1 \in 1..Len(todo'[t])
            BY <2>2, <3>1, <3>2
        <3> QED BY <3>3 DEF Given
    <2> QED BY <2>5, <2>6
<1> QED BY <1>2, <1>3

\* A thread that starts takes the next files, all of them.
LEMMA BatchGiven ==
    ASSUME TypeInv, Unborn, Spawn
    PROVE  /\ \A f : Given(f) => Given(f)'
           /\ \A k \in DOMAIN Files : k > start /\ k <= start' => Given(Files[k])'
<1> DEFINE b == started + 1
           e == start + Cnt(b)
<1>1. /\ b \in Threads /\ e \in 0..Len(Files) /\ start' = e /\ todo' = [todo EXCEPT ![b] = Batch(b)]
      /\ todo[b] = <<>>
    <2>1. b \in Threads /\ e \in 0..Len(Files)
        BY SplitStep DEF Spawn, TypeInv
    <2>2. b > started
        BY DEF TypeInv, SplitType
    <2> QED BY <2>1, <2>2 DEF Spawn, Unborn
<1>2. Len(Files) \in Nat /\ DOMAIN Files = 1..Len(Files) /\ start \in 0..Len(Files)
    BY FilesAssumption, LenProperties, SplitBounds DEF TypeInv, SplitType
<1>3. todo'[b] = Batch(b) /\ \A u \in Threads \ {b} : todo'[u] = todo[u]
    BY <1>1 DEF TypeInv, ThreadType
<1>4. ASSUME NEW f, Given(f) PROVE Given(f)'
    <2>1. PICK u \in Threads : \E m \in 1..Len(todo[u]) : todo[u][m] = f
        BY <1>4 DEF Given
    <2>2. u # b
        <3>1. \A m \in 1..Len(<<>>) : FALSE
            BY EmptySeq
        <3> QED BY <1>1, <2>1, <3>1
    <2> QED BY <1>3, <2>1, <2>2 DEF Given
<1>5. ASSUME NEW k \in DOMAIN Files, k > start, k <= e PROVE Given(Files[k])'
    <2> DEFINE s == SubSeq(Files, start + 1, e)
    <2>1. todo'[b] = s
        BY <1>3 DEF Batch
    <2> HIDE DEF e
    <2>2. \A i \in (start + 1)..e : Files[i] \in FileSet
        BY <1>1, <1>2 DEF FileSet
    <2>3. /\ Len(s) = IF start + 1 <= e THEN e - (start + 1) + 1 ELSE 0
          /\ \A i \in 1..(e - (start + 1) + 1) : s[i] = Files[(start + 1) + i - 1]
        BY <1>1, <1>2, <2>2, SubSeqProperties
    <2> HIDE DEF s
    <2>4. k - start \in 1..(e - (start + 1) + 1) /\ k - start \in 1..Len(s) /\ (start + 1) + (k - start) - 1 = k
        BY <1>1, <1>2, <1>5, <2>3
    <2>5. s[k - start] = Files[k]
        BY <2>3, <2>4
    <2> QED BY <1>1, <2>1, <2>4, <2>5 DEF Given
<1> QED BY <1>1, <1>4, <1>5

LEMMA KeptStep ==
    ASSUME TypeInv, Unborn, BoundOfRow, Ending, KeptInv, [Next]_vars
    PROVE  KeptInv'
<1> SUFFICES ASSUME ~lost' PROVE FilesKept' /\ \A t \in Threads : PassedBy(t)'
    BY DEF KeptInv
<1>1. ~lost /\ \A n : OfTable(n) \subseteq OfTable(n)'
    BY RowsGrow DEF Ending
<1>2. FilesKept /\ \A t \in Threads : PassedBy(t)
    BY <1>1 DEF KeptInv
<1>3. ASSUME NEW t \in Threads, ThreadStep(t) PROVE FilesKept' /\ \A u \in Threads : PassedBy(u)'
    <2>1. PassedBy(t)'
        BY <1>1, <1>2, <1>3, MoverPassed
    <2>2. ASSUME NEW u \in Threads, u # t PROVE PassedBy(u)'
        BY <1>1, <1>2, <1>3, <2>2, OthersStay, PassedStays
    <2>3. start' = start
        BY <1>3 DEF ThreadStep, Parse, ParseFails, ThreadDone, Lock, SkipTable, Begin, BindKey, BindRest, Step,
                    StepFails, Commit, CommitFails, Unlock, spawned
    <2>4. ASSUME NEW k \in DOMAIN Files PROVE k > start' \/ Given(Files[k])' \/ FileStored(Files[k])'
        BY <1>1, <1>2, <1>3, <2>3, GivenStays, FileStoredStays DEF FilesKept
    <2> QED BY <2>1, <2>2, <2>4 DEF FilesKept
<1>4. CASE Spawn
    <2>1. started + 1 \in Threads
        BY <1>4, SplitStep DEF Spawn, TypeInv
    <2>2. at'[started + 1] = "parse" /\ \A u \in Threads \ {started + 1} : at'[u] = at[u] /\ todo'[u] = todo[u]
        BY <1>4, <2>1 DEF Spawn, Goto, TypeInv, ThreadType
    <2>3. ASSUME NEW u \in Threads PROVE PassedBy(u)'
        <3>1. CASE u = started + 1
            BY <2>2, <3>1 DEF PassedBy, Busy
        <3>2. CASE u # started + 1
            BY <1>1, <1>2, <1>4, <2>2, <3>2, PassedStays DEF Spawn
        <3> QED BY <3>1, <3>2
    <2>4. ASSUME NEW k \in DOMAIN Files PROVE k > start' \/ Given(Files[k])' \/ FileStored(Files[k])'
        <3>1. k \in Nat /\ start' \in Int
            <4>1. start' = start + Cnt(started + 1) /\ DOMAIN Files = 1..Len(Files)
                BY <1>4, FilesAssumption, LenProperties DEF Spawn
            <4> QED BY <1>4, <4>1, SplitStep DEF Spawn, TypeInv
        <3> QED BY <1>1, <1>2, <1>4, <3>1, BatchGiven, FileStoredStays DEF FilesKept
    <2> QED BY <2>3, <2>4 DEF FilesKept
<1>5. CASE SpawnFails \/ Join \/ Close \/ UNCHANGED vars
    <2>1. UNCHANGED <<start, at, todo, tab, row>>
        BY <1>5 DEF SpawnFails, Join, Close, vars, spawned, threads
    <2>2. ASSUME NEW u \in Threads PROVE PassedBy(u)'
        BY <1>1, <1>2, <2>1, PassedStays
    <2>3. ASSUME NEW k \in DOMAIN Files PROVE k > start' \/ Given(Files[k])' \/ FileStored(Files[k])'
        <3>1. Given(Files[k]) => Given(Files[k])'
            BY <2>1 DEF Given
        <3> QED BY <1>1, <1>2, <2>1, <3>1, FileStoredStays DEF FilesKept
    <2> QED BY <2>2, <2>3 DEF FilesKept
<1> QED BY <1>3, <1>4, <1>5 DEF Next, MainStep

\* When main has closed the connection and nobody has reported an error, every row that
\* the files have is in the database, or one with its key (analyze.cpp:296-440, 468-491).
THEOREM EverythingIsStored == Spec => []EverythingStored
<1>1. Init => BoundOfRow /\ Ending /\ KeptInv
    <2> SUFFICES ASSUME Init PROVE BoundOfRow /\ Ending /\ KeptInv
        OBVIOUS
    <2>1. \A t \in Threads : at[t] = "none"
        BY DEF Init
    <2>2. BoundOfRow
        BY <2>1 DEF BoundOfRow
    <2>3. Ending
        BY <2>1 DEF Init, Ending
    <2>4. FilesKept
        <3>1. DOMAIN Files = 1..Len(Files) /\ Len(Files) \in Nat /\ start = 0
            BY FilesAssumption, LenProperties DEF Init
        <3> QED BY <3>1 DEF FilesKept
    <2>5. \A t \in Threads : PassedBy(t)
        BY <2>1 DEF PassedBy, Busy
    <2> QED BY <2>2, <2>3, <2>4, <2>5 DEF KeptInv
<1>2. TypeInv /\ Ending /\ KeptInv => EverythingStored
    <2> SUFFICES ASSUME TypeInv, Ending, KeptInv, main = "closed", ~lost, NEW r \in AllRows
                 PROVE  \E q \in db : q.table = r.table /\ q.key = r.key
        BY DEF EverythingStored
    <2>1. PICK k \in DOMAIN Files, n \in Tables : r \in Found(Files[k], n)
        BY DEF AllRows
    <2>2. PICK j \in DOMAIN Rows[Files[k]][n] :
              r = [table |-> TableNames[n], key |-> Rows[Files[k]][n][j].key, rest |-> Rows[Files[k]][n][j].rest]
        BY <2>1 DEF Found
    <2>3. ~(k > start)
        <3>1. Len(Files) \in Nat /\ DOMAIN Files = 1..Len(Files)
            BY FilesAssumption, LenProperties
        <3>2. start = Len(Files)
            BY <3>1, SplitBounds DEF Ending, TypeInv, SplitType
        <3> QED BY <3>1, <3>2
    <2>4. ~Given(Files[k])
        <3>1. \A t \in Threads : todo[t] = <<>>
            BY DEF Ending
        <3>2. \A m \in 1..Len(<<>>) : FALSE
            BY EmptySeq
        <3> QED BY <3>1, <3>2 DEF Given
    <2>5. FileStored(Files[k])
        BY <2>3, <2>4 DEF KeptInv, FilesKept
    <2>6. Stored(n, Rows[Files[k]][n][j].key)
        BY <2>5 DEF FileStored, RowsStored
    <2>7. pending = {}
        BY DEF Ending
    <2> QED BY <2>2, <2>6, <2>7 DEF Stored, OfTable
<1> QED BY <1>1, <1>2, BoundOfRowStep, EndingStep, KeptStep, MutexInvariant, PTL DEF Spec

-----------------------------------------------------------------------------
(***************************************************************************)
(* The rows of a table are numbered in the order in which they came, those *)
(* of the open transaction after the committed ones.                       *)
(***************************************************************************)
TableSet == {TableNames[n] : n \in Tables}

Of(rows, table) == {r \in rows : r.table = table}

Numbered(rows) == IsFiniteSet(rows) /\ \A r \in rows : r.id \in 1..Cardinality(rows)

\* committed and further are db and pending, at any moment.
InOrder(committed, further) ==
    /\ committed \cup further \subseteq PossibleRows
    /\ \A table \in TableSet :
          Numbered(Of(committed, table)) /\ Numbered(Of(committed \cup further, table))
    /\ \A p, q \in committed \cup further : p.table = q.table /\ p.id = q.id => p = q
    /\ \A p \in committed, q \in further : p.table = q.table => p.id < q.id

IdInv == InOrder(db, pending)

LEMMA NumberedAfter ==
    ASSUME NEW rows, Numbered(rows), NEW new, new.id = Cardinality(rows) + 1
    PROVE  Numbered(rows \cup {new}) /\ \A r \in rows : r.id < new.id
<1>1. Cardinality(rows) \in Nat
    BY FS_CardinalityType DEF Numbered
<1>2. new \notin rows
    BY <1>1 DEF Numbered
<1>3. IsFiniteSet(rows \cup {new}) /\ Cardinality(rows \cup {new}) = Cardinality(rows) + 1
    BY <1>2, FS_AddElement DEF Numbered
<1>4. \A r \in rows : r.id \in 1..Cardinality(rows)
    BY DEF Numbered
<1> QED BY <1>1, <1>3, <1>4 DEF Numbered

\* The number of a new row is past all those of its table.
LEMMA NewRowIsLast ==
    ASSUME NEW committed, NEW further, InOrder(committed, further), NEW new \in PossibleRows,
           new.id = Cardinality(Of(committed \cup further, new.table)) + 1
    PROVE  /\ InOrder(committed, further \cup {new})
           /\ further = {} => InOrder(committed \cup {new}, {})
<1> DEFINE all == committed \cup further
<1>1. new.table \in TableSet /\ all \subseteq PossibleRows
    BY DEF InOrder, PossibleRows, TableSet
<1>2. Numbered(Of(all, new.table))
    BY <1>1 DEF InOrder
<1>3. Numbered(Of(all, new.table) \cup {new}) /\ \A r \in Of(all, new.table) : r.id < new.id
    BY <1>2, NumberedAfter
<1>4. \A r \in all : r.table = new.table => r.id < new.id
    BY <1>3 DEF Of
<1>5. \A r \in all \cup {new} : r.id \in Nat
    BY <1>1 DEF PossibleRows
<1>6. ASSUME NEW table \in TableSet PROVE Numbered(Of(all \cup {new}, table))
    <2>1. CASE table = new.table
        <3>1. Of(all \cup {new}, table) = Of(all, new.table) \cup {new}
            BY <2>1 DEF Of
        <3> QED BY <1>3, <3>1
    <2>2. CASE table # new.table
        <3>1. Of(all \cup {new}, table) = Of(all, table)
            BY <2>2 DEF Of
        <3> QED BY <3>1 DEF InOrder
    <2> QED BY <2>1, <2>2
<1>7. \A p, q \in all \cup {new} : p.table = q.table /\ p.id = q.id => p = q
    <2> SUFFICES ASSUME NEW p \in all \cup {new}, NEW q \in all \cup {new}, p.table = q.table, p.id = q.id
                 PROVE  p = q
        OBVIOUS
    <2>1. CASE p \in all /\ q \in all
        BY <2>1 DEF InOrder
    <2>2. CASE p \in all /\ q = new
        BY <1>4, <1>5, <2>2
    <2>3. CASE p = new /\ q \in all
        BY <1>4, <1>5, <2>3
    <2> QED BY <2>1, <2>2, <2>3
<1>8. /\ committed \cup (further \cup {new}) = all \cup {new}
      /\ further = {} => (committed \cup {new}) \cup {} = all \cup {new} /\ committed \cup {new} = all \cup {new}
    OBVIOUS
<1>9. \A table \in TableSet : Numbered(Of(committed, table))
    BY DEF InOrder
<1>10. \A p \in committed, q \in further \cup {new} : p.table = q.table => p.id < q.id
    BY <1>4 DEF InOrder
<1>11. InOrder(committed, further \cup {new})
    BY <1>1, <1>6, <1>7, <1>8, <1>9, <1>10 DEF InOrder
<1>12. ASSUME further = {} PROVE InOrder(committed \cup {new}, {})
    BY <1>1, <1>6, <1>7, <1>8, <1>12 DEF InOrder
<1> QED BY <1>11, <1>12

LEMMA CommitKeepsOrder ==
    ASSUME NEW committed, NEW further, InOrder(committed, further)
    PROVE  InOrder(committed \cup further, {}) /\ InOrder(committed, {})
<1>1. (committed \cup further) \cup {} = committed \cup further /\ committed \cup {} = committed
    OBVIOUS
<1> QED BY <1>1 DEF InOrder

LEMMA IdInit == Init => IdInv
<1> SUFFICES ASSUME Init PROVE InOrder(db, {})
    BY DEF Init, IdInv
<1>1. CASE db = {}
    <2>1. \A table : Of({}, table) = {} /\ {} \cup {} = {}
        BY DEF Of
    <2>2. Numbered({})
        BY FS_EmptySet DEF Numbered
    <2> QED BY <1>1, <2>1, <2>2 DEF InOrder
<1>2. CASE db = Earlier
    <2>1. ASSUME NEW table \in TableSet PROVE Numbered(Of(Earlier, table))
        <3>1. IsFiniteSet(Of(Earlier, table))
            BY EarlierAssumption, FS_Subset DEF Of
        <3>2. ASSUME NEW r \in Of(Earlier, table) PROVE r.id \in 1..Cardinality(Of(Earlier, table))
            <4>1. r \in Earlier /\ Of(Earlier, table) = {q \in Earlier : q.table = r.table}
                BY DEF Of
            <4> QED BY <4>1, EarlierAssumption
        <3> QED BY <3>1, <3>2 DEF Numbered
    <2>2. ASSUME NEW r \in Earlier PROVE r \in PossibleRows
        <3>1. /\ r = [id |-> r.id, table |-> r.table, key |-> r.key, rest |-> r.rest]
              /\ r.table \in {TableNames[n] : n \in Tables}
              /\ r.id \in 1..Cardinality({q \in Earlier : q.table = r.table})
            BY EarlierAssumption DEF Tables
        <3>2. r.id \in Nat
            BY <3>1
        <3>3. Contents(r) \in Findable /\ Contents(r).key = r.key /\ Contents(r).rest = r.rest
            BY DEF Findable, Contents
        <3>4. [id |-> r.id, table |-> r.table, key |-> r.key, rest |-> r.rest] \in PossibleRows
            BY <3>1, <3>2, <3>3 DEF PossibleRows
        <3> QED BY <3>1, <3>4
    <2>3. \A p, q \in Earlier : p.table = q.table /\ p.id = q.id => p = q
        BY EarlierAssumption
    <2>4. Earlier \cup {} = Earlier
        OBVIOUS
    <2> QED BY <1>2, <2>1, <2>2, <2>3, <2>4 DEF InOrder
<1> QED BY <1>1, <1>2 DEF Init

LEMMA IdStep ==
    ASSUME TypeInv, BoundOfRow, Ending, IdInv, [Next]_vars
    PROVE  IdInv'
<1>1. ASSUME NEW t \in Threads, Step(t) PROVE IdInv'
    <2> DEFINE n == tab[t]
    <2>1. PICK new : new = [id |-> NextId(n), table |-> TableNames[n], key |-> bound[n].key, rest |-> bound[n].rest]
        OBVIOUS
    <2>2. at[t] = "step" /\ n \in Tables
        BY <1>1 DEF Step, Running, TypeInv, ThreadType, InRow
    <2>3. [table |-> TableNames[n], key |-> new.key, rest |-> new.rest] \in AllRows
        BY <2>1, <2>2, RowIsFound DEF BoundOfRow, InRow
    <2>4. OfTable(n) = Of(db \cup pending, new.table)
        BY <2>1 DEF OfTable, Of
    <2>5. new.id = Cardinality(Of(db \cup pending, new.table)) + 1
        BY <2>1, <2>4 DEF NextId
    <2>6. new \in PossibleRows
        <3>1. Numbered(Of(db \cup pending, new.table))
            BY <2>1, <2>2 DEF IdInv, InOrder, TableSet
        <3>2. Cardinality(Of(db \cup pending, new.table)) \in Nat
            BY <3>1, FS_CardinalityType DEF Numbered
        <3>3. new.id \in Nat
            BY <2>5, <3>2
        <3>4. new.key \in {r.key : r \in Findable} /\ new.rest \in {r.rest : r \in Findable}
            BY <2>3 DEF Findable
        <3> QED BY <2>1, <2>2, <3>3, <3>4 DEF PossibleRows
    <2>7. /\ InOrder(db, pending \cup {new})
          /\ pending = {} => InOrder(db \cup {new}, {})
        BY <2>5, <2>6, NewRowIsLast DEF IdInv
    <2>8. \/ UNCHANGED <<db, pending>>
          \/ db' = db /\ pending' = pending \cup {new}
          \/ ~open /\ db' = db \cup {new} /\ pending' = pending
        BY <1>1, <2>1 DEF Step
    <2> QED BY <2>7, <2>8 DEF IdInv, Ending
<1>2. CASE ~\E t \in Threads : Step(t)
    <2>1. \/ UNCHANGED <<db, pending>>
          \/ db' = db /\ pending' = {}
          \/ db' = db \cup pending /\ pending' = {}
        BY <1>2, RowsOfNext
    <2> QED BY <2>1, CommitKeepsOrder DEF IdInv
<1> QED BY <1>1, <1>2

LEMMA IdInvariant == Spec => [](TypeInv /\ BoundOfRow /\ Ending /\ IdInv)
<1>1. Init => BoundOfRow /\ Ending
    BY DEF Init, BoundOfRow, Ending
<1> QED BY <1>1, IdInit, IdStep, BoundOfRowStep, EndingStep, MutexInvariant, PTL DEF Spec

-----------------------------------------------------------------------------
(***************************************************************************)
(* What First answers does not change when later rows come.                *)
(***************************************************************************)
LEMMA FirstIsLeast ==
    ASSUME NEW rows, rows # {}, \A r \in rows : r.id \in Nat
    PROVE  First(rows) \in rows /\ \A q \in rows : First(rows).id <= q.id
<1> DEFINE ids == {r.id : r \in rows}
<1>1. PICK m \in ids : \A i \in ids : m <= i
    <2>1. ids # {} /\ ids \subseteq Nat
        OBVIOUS
    <2> HIDE DEF ids
    <2>2. \E m \in ids : \A i \in ids : ~(<<i, m>> \in OpToRel(<, Nat))
        BY <2>1, NatLessThanWellFounded, WFMin
    <2>3. PICK m \in ids : \A i \in ids : ~(<<i, m>> \in OpToRel(<, Nat))
        BY <2>2
    <2>4. ASSUME NEW i \in ids PROVE m <= i
        <3>1. <<i, m>> \in Nat \X Nat => ~(i < m)
            BY <2>3 DEF OpToRel
        <3> QED BY <2>1, <3>1
    <2> QED BY <2>4
<1>2. PICK r \in rows : r.id = m
    OBVIOUS
<1>3. \A q \in rows : r.id <= q.id
    BY <1>1, <1>2
<1> QED BY <1>2, <1>3 DEF First

LEMMA FirstStays ==
    ASSUME NEW rows, NEW more, rows \subseteq more, rows # {},
           \A r \in more : r.id \in Nat,
           \A p, q \in rows : p.id = q.id => p = q,
           \A p \in rows : \A q \in more \ rows : p.id < q.id
    PROVE  First(more) = First(rows)
<1>1. /\ First(rows) \in rows /\ \A q \in rows : First(rows).id <= q.id
      /\ First(more) \in more /\ \A q \in more : First(more).id <= q.id
    BY FirstIsLeast
<1> DEFINE f == First(rows)
           g == First(more)
<1>2. f \in rows /\ g \in more /\ g.id <= f.id /\ \A q \in rows : f.id <= q.id
    BY <1>1
<1> HIDE DEF f, g
<1>3. f.id \in Nat /\ g.id \in Nat
    BY <1>2
<1>4. g \in rows
    BY <1>2, <1>3
<1>5. f.id = g.id
    BY <1>2, <1>3, <1>4
<1> QED BY <1>2, <1>4, <1>5 DEF f, g

\* What a step adds to the committed rows comes after them.
Later(committed, more) ==
    /\ committed \subseteq more
    /\ \A r \in more : r.id \in Nat
    /\ \A p, q \in committed : p.table = q.table /\ p.id = q.id => p = q
    /\ \A p \in committed : \A q \in more \ committed : p.table = q.table => p.id < q.id

LEMMA StepAddsLater ==
    ASSUME TypeInv, BoundOfRow, Ending, IdInv, IdInv', [Next]_vars
    PROVE  Later(db, db')
<1>1. \A r \in db' : r.id \in Nat
    BY DEF IdInv, InOrder, PossibleRows
<1>2. \A p, q \in db : p.table = q.table /\ p.id = q.id => p = q
    BY DEF IdInv, InOrder
<1>3. ASSUME NEW t \in Threads, Step(t)
      PROVE  db \subseteq db' /\ \A p \in db : \A q \in db' \ db : p.table = q.table => p.id < q.id
    <2> DEFINE n == tab[t]
    <2>1. PICK new : new = [id |-> NextId(n), table |-> TableNames[n], key |-> bound[n].key, rest |-> bound[n].rest]
        OBVIOUS
    <2>2. n \in Tables
        BY <1>3 DEF Step, Running, TypeInv, ThreadType, InRow
    <2>3. new.table \in TableSet /\ new.id = Cardinality(Of(db \cup pending, new.table)) + 1
        BY <2>1, <2>2 DEF NextId, OfTable, Of, TableSet
    <2>4. \A p \in Of(db \cup pending, new.table) : p.id < new.id
        BY <2>3, NumberedAfter DEF IdInv, InOrder
    <2>5. db \subseteq db' /\ db' \subseteq db \cup {new}
        BY <1>3, <2>1 DEF Step
    <2> HIDE DEF n
    <2> QED BY <2>4, <2>5 DEF Of
<1>4. ASSUME ~\E t \in Threads : Step(t)
      PROVE  db \subseteq db' /\ \A p \in db : \A q \in db' \ db : p.table = q.table => p.id < q.id
    <2>1. db' = db \/ db' = db \cup pending
        BY <1>4, RowsOfNext
    <2>2. \A q \in db' \ db : q \in pending
        BY <2>1
    <2>3. \A p \in db, q \in pending : p.table = q.table => p.id < q.id
        BY DEF IdInv, InOrder
    <2> QED BY <2>1, <2>2, <2>3
<1>5. db \subseteq db' /\ \A p \in db : \A q \in db' \ db : p.table = q.table => p.id < q.id
    <2>1. CASE \E t \in Threads : Step(t)
        <3>1. PICK t \in Threads : Step(t)
            BY <2>1
        <3> QED BY <3>1, <1>3
    <2> QED BY <2>1, <1>4
<1> QED BY <1>1, <1>2, <1>5 DEF Later

\* A query for rows of one table, whatever else it asks of them.
LEMMA QueryStays ==
    ASSUME NEW committed, NEW more, Later(committed, more), NEW table, NEW rows, NEW wider,
           rows \subseteq Of(committed, table), wider \subseteq Of(more, table),
           rows = wider \cap committed, rows # {}
    PROVE  First(wider) = First(rows)
<1>1. rows \subseteq wider /\ \A r \in wider : r.id \in Nat
    BY DEF Later, Of
<1>2. \A p, q \in rows : p.id = q.id => p = q
    BY DEF Later, Of
<1>3. \A p \in rows : \A q \in wider \ rows : p.id < q.id
    BY DEF Later, Of
<1> QED BY <1>1, <1>2, <1>3, FirstStays

LEMMA AnswerStays ==
    ASSUME NEW committed, NEW more, Later(committed, more), NEW tool \in ByName, NEW name,
           Answer(committed, tool, name) # NotFound
    PROVE  Answer(more, tool, name) = Answer(committed, tool, name)
<1>1. ASSUME NEW table, First(Named(committed, table, name)) # NotFound
      PROVE  First(Named(more, table, name)) = First(Named(committed, table, name))
    <2>1. Named(committed, table, name) # {}
        BY <1>1 DEF First
    <2>2. /\ Named(committed, table, name) \subseteq Of(committed, table)
          /\ Named(more, table, name) \subseteq Of(more, table)
          /\ Named(committed, table, name) = Named(more, table, name) \cap committed
        BY DEF Named, Of, Later
    <2> QED BY <2>1, <2>2, QueryStays
<1>2. ASSUME NEW sort, GetRecordOf(committed, name, sort) # NotFound
      PROVE  GetRecordOf(more, name, sort) = GetRecordOf(committed, name, sort)
    <2> DEFINE rows == {r \in Named(committed, "records", name) : r.rest.sort = sort}
               wider == {r \in Named(more, "records", name) : r.rest.sort = sort}
    <2>1. rows # {}
        BY <1>2 DEF GetRecordOf, First
    <2>2. rows \subseteq Of(committed, "records") /\ wider \subseteq Of(more, "records") /\ rows = wider \cap committed
        BY DEF Named, Of, Later
    <2> HIDE DEF rows, wider
    <2>3. First(wider) = First(rows)
        BY <2>1, <2>2, QueryStays
    <2> QED BY <2>3 DEF GetRecordOf, rows, wider
<1>3. GetEnumBySpecifier(committed, name) # NotFound => GetEnumBySpecifier(more, name) = GetEnumBySpecifier(committed, name)
    <2> SUFFICES ASSUME GetEnumBySpecifier(committed, name) # NotFound
                 PROVE  GetEnumBySpecifier(more, name) = GetEnumBySpecifier(committed, name)
        OBVIOUS
    <2> DEFINE rows == {r \in committed : r.table = "enums" /\ r.rest.sort = name}
               wider == {r \in more : r.table = "enums" /\ r.rest.sort = name}
    <2>1. rows # {}
        BY DEF GetEnumBySpecifier, First
    <2>2. rows \subseteq Of(committed, "enums") /\ wider \subseteq Of(more, "enums") /\ rows = wider \cap committed
        BY DEF Of, Later
    <2> HIDE DEF rows, wider
    <2>3. First(wider) = First(rows)
        BY <2>1, <2>2, QueryStays
    <2> QED BY <2>3 DEF GetEnumBySpecifier, rows, wider
<1>4. CASE tool \in {"get_struct_code_by_name", "get_union_code_by_name"}
    BY <1>2, <1>4 DEF Answer, ByPattern, Code, GetStruct, GetUnion
<1>5. CASE tool = "get_enum_code_by_specifier"
    BY <1>3, <1>5 DEF Answer, ByPattern, Code
<1>6. CASE tool \in {"get_func_code_by_name", "get_enum_code_by_enumerator", "get_global_var_code_by_name"}
    BY <1>1, <1>6 DEF Answer, ByPattern, Code, GetFunction, GetEnumByEnumerator, GetGlobalVar
<1>7. CASE tool \in {"get_typedef_code_by_define", "get_typedef_type_by_define"}
    BY <1>1, <1>7 DEF Answer, ByPattern, Code, TypedefType, GetTypedef
<1>8. CASE tool \in {"get_macro_def_code_by_name", "get_macro_def_loc_by_name"}
    BY <1>1, <1>8 DEF Answer, ByPattern, Code, MacroLoc, GetMacroDefByName
<1> QED BY <1>4, <1>5, <1>6, <1>7, <1>8 DEF ByName

LEMMA PatternGrows ==
    ASSUME NEW committed, NEW more, committed \subseteq more, NEW pattern
    PROVE  Exec(committed, ByPattern, pattern) \subseteq Exec(more, ByPattern, pattern)
BY DEF Exec, Answer, ByPattern, GetMacroDefByPattern

\* A name the agent was told about is told of in the same words ever after, though rows of
\* that name come to the database while it works (analyze.cpp:301, db.go:93).
THEOREM AnswersDoNotChange == Spec => LookupStable
<1>1. ASSUME TypeInv, BoundOfRow, Ending, IdInv, IdInv', [Next]_vars
      PROVE  [/\ \A tool \in ByName : \A name \in AllNames :
                     Exec(db, tool, name) # NotFound => Exec(db', tool, name) = Exec(db, tool, name)
              /\ \A pattern \in {p[1] : p \in Glob} :
                     Exec(db, ByPattern, pattern) \subseteq Exec(db', ByPattern, pattern)]_db
    <2>1. Later(db, db')
        BY <1>1, StepAddsLater
    <2>2. ASSUME NEW tool \in ByName, NEW name, Exec(db, tool, name) # NotFound
          PROVE  Exec(db', tool, name) = Exec(db, tool, name)
        <3>1. CASE name = Garbled
            BY <3>1 DEF Exec
        <3>2. CASE name # Garbled
            BY <2>1, <2>2, <3>2, AnswerStays DEF Exec
        <3> QED BY <3>1, <3>2
    <2>3. \A pattern : Exec(db, ByPattern, pattern) \subseteq Exec(db', ByPattern, pattern)
        BY <2>1, PatternGrows DEF Later
    <2> QED BY <2>2, <2>3
<1> QED BY <1>1, IdInvariant, PTL DEF Spec, LookupStable

-----------------------------------------------------------------------------
(***************************************************************************)
(* What is asked for is found.                                             *)
(***************************************************************************)
LEMMA RowsAreFindable ==
    ASSUME RowsAreReal, NEW r \in db
    PROVE  Contents(r) \in Findable
BY DEF RowsAreReal, Findable

\* A query that some row answers is answered with the text of a row it is answered by.
LEMMA AnswerIsOfARow ==
    ASSUME IdInv, RowsAreReal, NEW rows, rows \subseteq db, rows # {}
    PROVE  \E f \in rows : Contents(f) \in Findable /\ Code(First(rows)) = Contents(f).rest.text
<1>1. \A r \in rows : r \in PossibleRows
    BY DEF IdInv, InOrder
<1>2. First(rows) \in rows
    <2>1. \A r \in rows : r.id \in Nat
        BY <1>1 DEF PossibleRows
    <2> QED BY <2>1, FirstIsLeast
<1>3. PICK f \in rows : f = First(rows)
    BY <1>2
<1>4. f # NotFound
    BY <1>1, NotFoundAssumption
<1>5. Code(f) = Contents(f).rest.text
    BY <1>4 DEF Code, Contents
<1> QED BY <1>3, <1>5, RowsAreFindable

\* After an analysis without a message every name that was found is answered by the tool
\* for its kind, and a struct is not hidden by a union of its name (db.go:120, 130), unless an
\* old record of another kind stands at its very place.
THEOREM NamesAreFound == Spec => []LookupsFind
<1>1. ASSUME IdInv, RowsAreReal, EverythingStored PROVE LookupsFind
    <2> SUFFICES ASSUME main = "closed", ~lost, NEW r \in AllRows, NEW tool \in ToolsFor(r), ~Hidden(r)
                 PROVE  \E q \in Findable :
                            /\ q.table = r.table /\ q.key.name = r.key.name
                            /\ q.table = "records" => q.rest.sort = r.rest.sort
                            /\ Exec(db, tool, r.key.name) = q.rest.text
        BY DEF LookupsFind
    <2> DEFINE name == r.key.name
    <2>1. PICK s \in db : s.table = r.table /\ s.key = r.key
        BY <1>1 DEF EverythingStored
    <2>2. Exec(db, tool, name) = Answer(db, tool, name)
        BY NamesAssumption DEF AllNames, Exec
    <2>3. s \in Named(db, r.table, name)
        BY <2>1 DEF Named
    <2>4. ASSUME NEW f \in db, f.table = r.table, f.key.name = name
          PROVE  Contents(f).table = r.table /\ Contents(f).key.name = name /\ Contents(f).rest = f.rest
        BY <2>4 DEF Contents
    <2>5. CASE r.table = "records"
        <3> DEFINE rows == {f \in Named(db, "records", name) : f.rest.sort = r.rest.sort}
        <3>1. Answer(db, tool, name) = Code(First(rows))
            BY <2>5 DEF ToolsFor, Answer, ByPattern, GetStruct, GetUnion, GetRecordOf
        <3>2. s \in rows
            <4>1. s.rest.sort = r.rest.sort
                BY <2>1, <2>5 DEF Hidden
            <4> QED BY <2>3, <2>5, <4>1
        <3>3. rows \subseteq db
            BY DEF Named
        <3>4. PICK f \in rows : Contents(f) \in Findable /\ Code(First(rows)) = Contents(f).rest.text
            <4> HIDE DEF rows
            <4> QED BY <1>1, <3>2, <3>3, AnswerIsOfARow
        <3>5. f.table = r.table /\ f.key.name = name /\ f.rest.sort = r.rest.sort /\ f \in db
            BY <2>5 DEF Named
        <3> QED BY <2>2, <2>4, <3>1, <3>4, <3>5
    <2>6. CASE r.table # "records"
        <3> DEFINE rows == Named(db, r.table, name)
        <3>1. Answer(db, tool, name) = Code(First(rows))
            BY <2>6 DEF ToolsFor, Answer, ByPattern, GetFunction, GetEnumByEnumerator, GetTypedef, GetGlobalVar,
                        GetMacroDefByName
        <3>2. rows \subseteq db
            BY DEF Named
        <3>3. PICK f \in rows : Contents(f) \in Findable /\ Code(First(rows)) = Contents(f).rest.text
            <4> HIDE DEF rows
            <4> QED BY <1>1, <2>3, <3>2, AnswerIsOfARow DEF rows
        <3>4. f.table = r.table /\ f.key.name = name /\ f \in db
            BY DEF Named
        <3> QED BY <2>2, <2>4, <2>6, <3>1, <3>3, <3>4
    <2> QED BY <2>5, <2>6
<1> QED BY <1>1, IdInvariant, StoredRowsAreReal, EverythingIsStored, PTL
=============================================================================
