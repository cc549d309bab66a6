--------------------------- MODULE MinitaskProofs ---------------------------
(***************************************************************************)
(* Proofs about Minitask, for every number of variables and runs and       *)
(* whatever the agent lists: types, NoSyscallWrittenTwice,                 *)
(* NoSyscallDropped.                                                       *)
(***************************************************************************)
EXTENDS Minitask, TLAPS

\* What the set knows while minitask runs: the names of all files and of the queue that is
\* about to be written, whose syscalls no file names.
SetInv ==
    /\ pc # "down" => Recovered \subseteq set
    /\ pc = "write" =>
          /\ file[var] = NoFile
          /\ NamesOf(TasksIn(tq)) \subseteq set
          /\ \A v \in Readable : NamesOf(Syscalls(TasksIn(tq))) \cap NamesOf(TasksIn(file[v])) = {}

WriteInv == TypeOK /\ SetInv

Given == added \cup UNION {NamesOf(given[v]) : v \in Vars}

\* What is in the set was given to a variable or added to one, or is about to be.
GivenInv ==
    /\ \A v \in Readable : NamesOf(TasksIn(file[v])) \subseteq added \cup NamesOf(given[v])
    /\ ~failed => /\ pc = "loop" => set \subseteq Given
                  /\ pc = "write" =>
                        /\ set \subseteq Given \cup NamesOf(TasksIn(tq))
                        /\ NamesOf(Syscalls(TasksIn(outline))) \ SysNames \subseteq set

DroppedInv == TypeOK /\ GivenInv /\ NoSyscallDropped

-----------------------------------------------------------------------------
\* Dedup returns a queue, with tasks of the queue it is given only.
LEMMA DedupIsQueue ==
    ASSUME NEW q \in Queue
    PROVE  Dedup(q) \in Queue /\ TasksIn(Dedup(q)) \subseteq TasksIn(q)
BY DEF Dedup, Queue, TasksIn, InQueue

\* What Dedup keeps of the syscalls is in no file the set was recovered from.
LEMMA DedupKeepsNew ==
    ASSUME NEW q \in Queue, NEW t \in Syscalls(TasksIn(Dedup(q)))
    PROVE  t.name \notin set
<1>1. t \in Task /\ Dedup(q)[t] > 0 /\ t.type = "syscall"
  BY DEF Syscalls, TasksIn, InQueue
<1>2. ~NeedDedup(t)
  BY <1>1 DEF Dedup
<1> QED BY <1>1, <1>2 DEF NeedDedup

\* What Dedup drops of the syscalls is in the set or in sysdir.
LEMMA DedupDropsOld ==
    ASSUME NEW q \in Queue, NEW t \in Syscalls(TasksIn(q)), t.name \notin SysNames,
           t.name \notin set
    PROVE  t \in TasksIn(Dedup(q))
<1>1. t \in Task /\ q[t] > 0 /\ t.type = "syscall"
  BY DEF Syscalls, TasksIn, InQueue
<1>2. ~NeedDedup(t)
  BY DEF NeedDedup
<1> QED BY <1>1, <1>2 DEF Dedup, TasksIn, InQueue

\* A generate step leaves a queue, with no task that was not in it or was not asked for.
LEMMA GenerateIsQueue ==
    ASSUME NEW q \in Queue, NEW t \in Task, NEW S \in SUBSET Required, IsTop(q, t)
    PROVE  /\ PushAll(PopTask(q, t), S) \in Queue
           /\ TasksIn(PushAll(PopTask(q, t), S)) \subseteq TasksIn(q) \cup S
<1>1. PopTask(q, t) \in Queue /\ \A u \in Task : PopTask(q, t)[u] <= q[u]
  BY DEF PopTask, Queue, IsTop, InQueue
<1> QED BY <1>1 DEF PushAll, Queue, TasksIn, InQueue

\* Names of fewer tasks are fewer.
LEMMA NamesGrow ==
    ASSUME NEW S, NEW T, S \subseteq T
    PROVE  NamesOf(S) \subseteq NamesOf(T) /\ Syscalls(S) \subseteq Syscalls(T)
BY DEF NamesOf, Syscalls

-----------------------------------------------------------------------------
LEMMA TypeInit == Init => TypeOK
<1>1. EmptyQueue \in Queue
  BY DEF EmptyQueue, Queue
<1>2. {} \subseteq NamesOf(Task) /\ 1 \in 1..NumVars + 1 /\ 0 \in 0..MaxRuns
  BY NumVarsAssumption
<1>3. /\ [v \in Vars |-> NoFile] \in [Vars -> Queue \cup {NoFile, Torn}]
      /\ [v \in Vars |-> {}] \in [Vars -> SUBSET Task]
  OBVIOUS
<1> QED BY <1>1, <1>2, <1>3 DEF Init, TypeOK

LEMMA TypeStep == TypeOK /\ [Next]_vars => TypeOK'
<1> SUFFICES ASSUME TypeOK, [Next]_vars PROVE TypeOK'
  OBVIOUS
<1> USE NumVarsAssumption
<1>1. CASE Launch
  <2>1. Recovered \subseteq NamesOf(Task)
    BY DEF Recovered, NamesOf, TasksIn
  <2> QED BY <1>1, <2>1 DEF Launch, TypeOK, Vars
<1>2. CASE SkipVariable
  BY <1>2 DEF SkipVariable, AtVariable, TypeOK, Vars
<1>3. CASE OutlineFails
  BY <1>3 DEF OutlineFails, AtVariable, TypeOK, Vars
<1>4. CASE Outline
  <2>1. PICK q \in Outlines : outline' = q /\ tq' = Dedup(q) /\ set' = set \cup Recorded(q)
    BY <1>4 DEF Outline
  <2>2. q \in Queue /\ Dedup(q) \in Queue
    BY DedupIsQueue, OutlinesAssumption
  <2>3. Recorded(q) \subseteq NamesOf(Task)
    BY DEF Recorded, NamesOf, TasksIn
  <2> QED BY <1>4, <2>1, <2>2, <2>3 DEF Outline, AtVariable, TypeOK, Vars
<1>5. CASE WriteTqueue
  <2>1. NamesOf(Syscalls(TasksIn(outline))) \subseteq NamesOf(Task) /\ TasksIn(tq) \subseteq Task
    BY DEF NamesOf, Syscalls, TasksIn
  <2> QED BY <1>5, <2>1 DEF WriteTqueue, DoneWithOutline, TypeOK, Vars
<1>6. CASE WriteTqueueFails
  <2>1. NamesOf(Syscalls(TasksIn(outline))) \subseteq NamesOf(Task)
    BY DEF NamesOf, Syscalls, TasksIn
  <2> QED BY <1>6, <2>1 DEF WriteTqueueFails, DoneWithOutline, TypeOK, Vars
<1>7. CASE Finish
  BY <1>7 DEF Finish, TypeOK
<1>8. CASE Interrupt
  BY <1>8 DEF Interrupt, TypeOK
<1>9. CASE GeneratorGenerates
  <2>1. PICK v \in Readable, t \in Task, S \in SUBSET Required :
           /\ IsTop(file[v], t) /\ file' = [file EXCEPT ![v] = PushAll(PopTask(@, t), S)]
           /\ added' = added \cup NamesOf(S)
    BY <1>9 DEF GeneratorGenerates
  <2>2. PushAll(PopTask(file[v], t), S) \in Queue
    BY <2>1, GenerateIsQueue DEF Readable
  <2>3. NamesOf(S) \subseteq NamesOf(Task)
    BY OutlinesAssumption DEF NamesOf
  <2> QED BY <1>9, <2>1, <2>2, <2>3 DEF GeneratorGenerates, TypeOK, Readable
<1>10. CASE GeneratorOutlines
  <2>1. PICK v \in Vars, q \in Outlines :
           file' = [file EXCEPT ![v] = q] /\ added' = added \cup NamesOf(TasksIn(q))
    BY <1>10 DEF GeneratorOutlines
  <2>2. q \in Queue /\ NamesOf(TasksIn(q)) \subseteq NamesOf(Task)
    BY OutlinesAssumption DEF NamesOf, TasksIn
  <2> QED BY <1>10, <2>1, <2>2 DEF GeneratorOutlines, TypeOK
<1>11. CASE GeneratorTears
  BY <1>11 DEF GeneratorTears, TypeOK
<1>12. CASE UNCHANGED vars
  BY <1>12 DEF vars, TypeOK
<1> QED BY <1>1, <1>2, <1>3, <1>4, <1>5, <1>6, <1>7, <1>8, <1>9, <1>10, <1>11, <1>12 DEF Next

\* The type invariant of minitask.
THEOREM TypeCorrect == Spec => []TypeOK
<1> QED BY TypeInit, TypeStep, PTL DEF Spec

-----------------------------------------------------------------------------
LEMMA WriteInit == Init => WriteInv
BY TypeInit DEF WriteInv, SetInv, Init

\* The steps that touch neither the files nor the set.
LEMMA WriteSame ==
    ASSUME SetInv, file' = file, set' = set, tq' = tq,
           pc' = "down" \/ (pc' = "loop" /\ pc = "loop")
    PROVE  SetInv'
BY DEF SetInv, Readable, Recovered

LEMMA WriteStep == WriteInv /\ [Next]_vars => WriteInv'
<1> SUFFICES ASSUME WriteInv, [Next]_vars PROVE SetInv'
  BY TypeStep DEF WriteInv
<1>0. TypeOK /\ SetInv
  BY DEF WriteInv
<1>1. CASE Launch
  <2>1. Readable' = Readable /\ Recovered' = Recovered
    BY <1>1 DEF Launch, Readable, Recovered
  <2> QED BY <1>1, <2>1 DEF Launch, SetInv
<1>2. CASE SkipVariable
  BY <1>0, <1>2, WriteSame DEF SkipVariable, AtVariable
<1>3. CASE OutlineFails
  BY <1>0, <1>3, WriteSame DEF OutlineFails, AtVariable
<1>4. CASE Outline
  <2>1. PICK q \in Outlines : tq' = Dedup(q) /\ set' = set \cup Recorded(q)
    BY <1>4 DEF Outline
  <2>2. q \in Queue
    BY OutlinesAssumption
  <2>3. pc = "loop" /\ pc' = "write" /\ file' = file /\ var' = var /\ file[var] = NoFile
    BY <1>4 DEF Outline, AtVariable, Skip
  <2>4. Readable' = Readable /\ Recovered' = Recovered
    BY <2>3 DEF Readable, Recovered
  <2>5. Recovered \subseteq set
    BY <1>0, <2>3 DEF SetInv
  <2>6. ASSUME NEW v \in Readable, NEW t \in Syscalls(TasksIn(Dedup(q)))
        PROVE  t.name \notin NamesOf(TasksIn(file[v]))
    <3>1. t.name \notin set
      BY <2>2, DedupKeepsNew
    <3>2. NamesOf(TasksIn(file[v])) \subseteq set
      BY <2>5 DEF Recovered
    <3> QED BY <3>1, <3>2
  <2>7. NamesOf(TasksIn(tq')) \subseteq set'
    BY <2>1 DEF Recorded
  <2>8. \A v \in Readable :
           NamesOf(Syscalls(TasksIn(tq'))) \cap NamesOf(TasksIn(file[v])) = {}
    BY <2>1, <2>6 DEF NamesOf
  <2> QED BY <2>1, <2>3, <2>4, <2>5, <2>7, <2>8 DEF SetInv
<1>5. CASE WriteTqueue
  <2>1. /\ pc = "write" /\ pc' = "loop" /\ var \in Vars /\ set' = set /\ tq \in Queue
        /\ file' = [file EXCEPT ![var] = tq] /\ file \in [Vars -> Queue \cup {NoFile, Torn}]
    BY <1>0, <1>5 DEF WriteTqueue, TypeOK
  <2>2. Readable' \subseteq Readable \cup {var} /\ file'[var] = tq
    BY <2>1 DEF Readable
  <2>3. \A v \in Readable' \ {var} : v \in Readable /\ file'[v] = file[v]
    BY <2>1, <2>2 DEF Readable
  <2>4. \A v \in Readable' : NamesOf(TasksIn(file'[v])) \subseteq set
    BY <1>0, <2>1, <2>2, <2>3 DEF SetInv, Recovered
  <2> QED BY <2>1, <2>4 DEF SetInv, Recovered
<1>6. CASE WriteTqueueFails \/ Interrupt
  <2>1. PICK f \in {NoFile, Torn} : file' = file \/ file' = [file EXCEPT ![var] = f]
    BY <1>6 DEF WriteTqueueFails, Interrupt
  <2>2. pc' \in {"down", "loop"} /\ set' = set /\ (pc' = "loop" => pc # "down")
    BY <1>6 DEF WriteTqueueFails, Interrupt
  <2>3. \A v \in Readable' : v \in Readable /\ file'[v] = file[v]
    BY <1>0, <2>1, FilesAssumption DEF Readable, TypeOK
  <2>4. Recovered' \subseteq Recovered
    BY <2>3 DEF Recovered
  <2> QED BY <1>0, <2>2, <2>4 DEF SetInv
<1>7. CASE Finish
  BY <1>0, <1>7, WriteSame DEF Finish
<1>8. CASE GeneratorGenerates \/ GeneratorOutlines \/ GeneratorTears
  <2>1. pc' = "down"
    BY <1>8 DEF GeneratorGenerates, GeneratorOutlines, GeneratorTears, GeneratorRuns
  <2> QED BY <2>1 DEF SetInv
<1>9. CASE UNCHANGED vars
  BY <1>0, <1>9 DEF vars, SetInv, Readable, Recovered
<1> QED BY <1>1, <1>2, <1>3, <1>4, <1>5, <1>6, <1>7, <1>8, <1>9 DEF Next

\* Of the steps that start before a write only the write leaves a queue in the file.
LEMMA WriteRepeatsNothing ==
    ASSUME WriteInv, [Next]_vars, pc = "write", file'[var] \in Queue, NEW v \in Readable \ {var}
    PROVE  NamesOf(Syscalls(TasksIn(file'[var]))) \cap NamesOf(TasksIn(file[v])) = {}
<1>1. file[var] = NoFile /\ file[var] \notin Queue /\ var \in Vars
      /\ file \in [Vars -> Queue \cup {NoFile, Torn}]
  BY FilesAssumption DEF WriteInv, SetInv, TypeOK
<1>2. ~(Launch \/ SkipVariable \/ OutlineFails \/ Outline \/ Finish
        \/ GeneratorGenerates \/ GeneratorOutlines \/ GeneratorTears)
  BY DEF Launch, SkipVariable, OutlineFails, Outline, Finish, AtVariable,
         GeneratorGenerates, GeneratorOutlines, GeneratorTears, GeneratorRuns
<1>3. ~WriteTqueueFails /\ ~Interrupt /\ ~UNCHANGED vars
  BY <1>1, FilesAssumption DEF WriteTqueueFails, Interrupt, vars
<1>4. file'[var] = tq
  BY <1>1, <1>2, <1>3 DEF Next, WriteTqueue
<1> QED BY <1>4 DEF WriteInv, SetInv

\* What minitask writes to a file repeats no syscall that stands in another, whatever fails and
\* whoever runs in between.
THEOREM NothingWrittenTwice == Spec => NoSyscallWrittenTwice
<1>1. WriteInv /\ [Next]_vars =>
        [(pc = "write" /\ file'[var] \in Queue) =>
           \A v \in Readable \ {var} :
              NamesOf(Syscalls(TasksIn(file'[var]))) \cap NamesOf(TasksIn(file[v])) = {}]_vars
  BY WriteRepeatsNothing
<1> QED BY <1>1, WriteInit, WriteStep, PTL DEF Spec, NoSyscallWrittenTwice

-----------------------------------------------------------------------------
LEMMA DroppedInit == Init => DroppedInv
<1> SUFFICES ASSUME Init PROVE GivenInv /\ NoSyscallDropped
  BY TypeInit DEF DroppedInv
<1>1. pc = "down" /\ wanted = {}
  BY DEF Init
<1>2. Readable = {}
  BY FilesAssumption DEF Init, Readable
<1> QED BY <1>1, <1>2 DEF GivenInv, NoSyscallDropped

\* The steps that only move on.
LEMMA DroppedSame ==
    ASSUME GivenInv, NoSyscallDropped, pc' = "down" \/ pc' = pc, set' = set, tq' = tq,
           outline' = outline, given' = given, added' = added, wanted' = wanted, failed' = failed,
           \A v \in Readable' : v \in Readable /\ file'[v] = file[v]
    PROVE  GivenInv' /\ NoSyscallDropped'
BY DEF GivenInv, NoSyscallDropped, Given

LEMMA DroppedStep == DroppedInv /\ [Next]_vars => DroppedInv'
<1> SUFFICES ASSUME DroppedInv, [Next]_vars PROVE GivenInv' /\ NoSyscallDropped'
  BY TypeStep DEF DroppedInv
<1>0. TypeOK /\ GivenInv /\ NoSyscallDropped
  BY DEF DroppedInv
<1>a. ASSUME file' = file PROVE \A v \in Readable' : v \in Readable /\ file'[v] = file[v]
  BY <1>a DEF Readable
<1>1. CASE Launch
  <2>1. pc' = "loop" /\ set' = Recovered /\ file' = file /\ given' = given
        /\ added' = added /\ wanted' = wanted /\ failed' = failed
    BY <1>1 DEF Launch
  <2>2. \A v \in Readable : NamesOf(TasksIn(file[v])) \subseteq added \cup NamesOf(given[v])
    BY <1>0 DEF GivenInv
  <2>3. Recovered \subseteq Given
    BY <2>2 DEF Recovered, Given, Readable
  <2> QED BY <1>0, <2>1, <2>3 DEF GivenInv, NoSyscallDropped, Given, Readable
<1>2. CASE SkipVariable \/ OutlineFails \/ Finish \/ UNCHANGED vars
  BY <1>0, <1>a, <1>2, DroppedSame DEF SkipVariable, OutlineFails, Finish, vars
<1>3. CASE Outline
  <2>1. PICK q \in Outlines : outline' = q /\ tq' = Dedup(q) /\ set' = set \cup Recorded(q)
    BY <1>3 DEF Outline
  <2>2. q \in Queue
    BY OutlinesAssumption
  <2>3. pc = "loop" /\ pc' = "write" /\ file' = file /\ given' = given
        /\ added' = added /\ wanted' = wanted /\ failed' = failed
    BY <1>3 DEF Outline, AtVariable
  <2>4. ~failed => set' \subseteq Given \cup NamesOf(TasksIn(tq'))
    BY <1>0, <2>1, <2>3 DEF GivenInv, Recorded
  <2>5. NamesOf(Syscalls(TasksIn(q))) \ SysNames \subseteq set'
    BY <2>1, <2>2, DedupDropsOld DEF NamesOf, Recorded
  <2> QED BY <1>0, <2>1, <2>3, <2>4, <2>5 DEF GivenInv, NoSyscallDropped, Given, Readable
<1>4. CASE WriteTqueue
  <2>1. /\ pc = "write" /\ pc' = "loop" /\ var \in Vars /\ set' = set /\ failed' = failed
        /\ added' = added
        /\ file' = [file EXCEPT ![var] = tq] /\ file \in [Vars -> Queue \cup {NoFile, Torn}]
        /\ given' = [given EXCEPT ![var] = @ \cup TasksIn(tq)] /\ given \in [Vars -> SUBSET Task]
        /\ wanted' = wanted \cup (NamesOf(Syscalls(TasksIn(outline))) \ SysNames)
    BY <1>0, <1>4 DEF WriteTqueue, DoneWithOutline, TypeOK
  <2>2. \A v \in Vars : given[v] \subseteq given'[v]
    BY <2>1
  <2>3. Given \subseteq Given'
    BY <2>1, <2>2, NamesGrow DEF Given
  <2>4. TasksIn(tq) \subseteq given'[var]
    BY <2>1
  <2>5. NamesOf(TasksIn(tq)) \subseteq Given'
    BY <2>1, <2>4, NamesGrow DEF Given
  <2>6. \A v \in Readable' : NamesOf(TasksIn(file'[v])) \subseteq added' \cup NamesOf(given'[v])
    <3>1. \A v \in Vars : NamesOf(given[v]) \subseteq NamesOf(given'[v])
      BY <2>2, NamesGrow
    <3>2. NamesOf(TasksIn(tq)) \subseteq NamesOf(given'[var])
      BY <2>4, NamesGrow
    <3> QED BY <1>0, <2>1, <3>1, <3>2 DEF GivenInv, Readable
  <2>7. ~failed => set \subseteq Given'
    BY <1>0, <2>1, <2>3, <2>5 DEF GivenInv
  <2>8. ~failed => wanted' \subseteq Given'
    BY <1>0, <2>1, <2>3, <2>7 DEF GivenInv, NoSyscallDropped, Given
  <2> QED BY <2>1, <2>6, <2>7, <2>8 DEF GivenInv, NoSyscallDropped, Given
<1>5. CASE WriteTqueueFails
  <2>1. PICK f \in {NoFile, Torn} : file' = [file EXCEPT ![var] = f]
    BY <1>5 DEF WriteTqueueFails
  <2>2. \A v \in Readable' : v \in Readable /\ file'[v] = file[v]
    BY <1>0, <2>1, FilesAssumption DEF Readable, TypeOK
  <2>3. failed' = TRUE /\ given' = given /\ added' = added
    BY <1>5 DEF WriteTqueueFails
  <2> QED BY <1>0, <2>2, <2>3 DEF GivenInv, NoSyscallDropped
<1>6. CASE Interrupt
  <2>1. file' = file \/ file' = [file EXCEPT ![var] = Torn]
    BY <1>6 DEF Interrupt
  <2>2. \A v \in Readable' : v \in Readable /\ file'[v] = file[v]
    BY <1>0, <2>1, FilesAssumption DEF Readable, TypeOK
  <2> QED BY <1>0, <1>6, <2>2, DroppedSame DEF Interrupt
<1>7. CASE GeneratorGenerates
  <2>1. PICK v \in Readable, t \in Task, S \in SUBSET Required :
           /\ IsTop(file[v], t) /\ file' = [file EXCEPT ![v] = PushAll(PopTask(@, t), S)]
           /\ added' = added \cup NamesOf(S)
    BY <1>7 DEF GeneratorGenerates
  <2>2. TasksIn(PushAll(PopTask(file[v], t), S)) \subseteq TasksIn(file[v]) \cup S
    BY <2>1, GenerateIsQueue DEF Readable
  <2>3. NamesOf(TasksIn(PushAll(PopTask(file[v], t), S))) \subseteq NamesOf(TasksIn(file[v])) \cup NamesOf(S)
    BY <2>2 DEF NamesOf
  <2> DEFINE F == PushAll(PopTask(file[v], t), S)
  <2>4. file' = [file EXCEPT ![v] = F] /\ NamesOf(TasksIn(F)) \subseteq NamesOf(TasksIn(file[v])) \cup NamesOf(S)
    BY <2>1, <2>3
  <2> HIDE DEF F
  <2>5. \A w \in Readable' : w \in Readable /\ (w # v => file'[w] = file[w]) /\ (w = v => file'[w] = F)
    BY <1>0, <2>4 DEF Readable, TypeOK
  <2>6. given' = given /\ wanted' = wanted /\ failed' = failed /\ pc' = "down"
    BY <1>7 DEF GeneratorGenerates, GeneratorRuns
  <2>7. \A w \in Readable' : NamesOf(TasksIn(file'[w])) \subseteq added' \cup NamesOf(given'[w])
    BY <1>0, <2>1, <2>4, <2>5, <2>6 DEF GivenInv
  <2> QED BY <1>0, <2>1, <2>6, <2>7 DEF GivenInv, NoSyscallDropped
<1>8. CASE GeneratorOutlines
  <2>1. PICK v \in Vars, q \in Outlines :
           file' = [file EXCEPT ![v] = q] /\ added' = added \cup NamesOf(TasksIn(q))
    BY <1>8 DEF GeneratorOutlines
  <2>2. \A w \in Readable' : \/ (w = v /\ file'[w] = q)
                              \/ (w \in Readable /\ file'[w] = file[w])
    BY <1>0, <2>1 DEF Readable, TypeOK
  <2>3. given' = given /\ wanted' = wanted /\ failed' = failed /\ pc' = "down"
    BY <1>8 DEF GeneratorOutlines, GeneratorRuns
  <2>4. \A w \in Readable' : NamesOf(TasksIn(file'[w])) \subseteq added' \cup NamesOf(given'[w])
    BY <1>0, <2>1, <2>2, <2>3 DEF GivenInv
  <2> QED BY <1>0, <2>1, <2>3, <2>4 DEF GivenInv, NoSyscallDropped
<1>9. CASE GeneratorTears
  <2>1. PICK v \in Vars : file' = [file EXCEPT ![v] = Torn]
    BY <1>9 DEF GeneratorTears
  <2>2. \A w \in Readable' : w \in Readable /\ file'[w] = file[w]
    BY <1>0, <2>1, FilesAssumption DEF Readable, TypeOK
  <2> QED BY <1>0, <1>9, <2>2, DroppedSame DEF GeneratorTears, GeneratorRuns
<1> QED BY <1>1, <1>2, <1>3, <1>4, <1>5, <1>6, <1>7, <1>8, <1>9 DEF Next

\* Until a file cannot be written, no syscall of an outline is lost to the deduplication.
THEOREM NothingDropped == Spec => []NoSyscallDropped
<1> QED BY DroppedInit, DroppedStep, PTL DEF Spec, DroppedInv
=============================================================================
