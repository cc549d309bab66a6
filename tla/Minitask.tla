------------------------------ MODULE Minitask ------------------------------
(***************************************************************************)
(* src/src/minitask/main.go: for one global variable after the other the   *)
(* agent lists the syscalls to write; what other variables have listed, or *)
(* sysdir defines, is dropped; the rest is the variable's .tqueue, which   *)
(* the generator starts from.                                              *)
(*                                                                         *)
(* minitask can be interrupted and run again, and the generator can run in *)
(* between: it takes tasks off the .tqueue files, adds what its agent asks *)
(* for, and makes files of its own.                                        *)
(***************************************************************************)
EXTENDS Tasks, FiniteSets

CONSTANTS
    NumVars,        \* the key variables, sorted by name: 1..NumVars
    SysNames,       \* names sysdir defines
    Outlines,       \* the queues the agent may answer with
    WritesMayFail,  \* TRUE: a .tqueue may not be written, or not to its end
    Generates,      \* TRUE: the generator runs between two runs of minitask
    Resume,         \* its flag -resume
    Required,       \* the tasks its agent may ask for while it generates
    NoFile, Torn,   \* what a .tqueue may be besides a queue
    MaxRuns,        \* bound: runs of minitask
    MaxCopies       \* bound: copies of a task the generator adds to

ASSUME NumVarsAssumption == NumVars \in Nat \ {0} /\ MaxRuns \in Nat /\ MaxCopies \in Nat
ASSUME OutlinesAssumption == Outlines \subseteq Queue /\ Required \subseteq Task
ASSUME FilesAssumption == NoFile \notin Queue /\ Torn \notin Queue /\ NoFile # Torn
ASSUME SwitchesAssumption == {WritesMayFail, Generates, Resume} \subseteq BOOLEAN

Vars == 1..NumVars

VARIABLES
    pc,      \* "down", "loop" at the head of the loop, "write" before WriteTqueue
    var,     \* the variable at hand
    set,     \* syscallSet
    outline, \* sh.Tqueue as the agent listed it
    tq,      \* ntq, what is left of it
    file,    \* the .tqueue files: a queue, or NoFile, or Torn
    runs,    \* runs of minitask begun
    wanted,  \* ghost: the syscalls of the outlines main was done with
    given,   \* ghost: the tasks minitask ever wrote to each file
    added,   \* ghost: the names the generator ever wrote to a file of itself
    failed   \* ghost: a .tqueue could not be written

vars == <<pc, var, set, outline, tq, file, runs, wanted, given, added, failed>>

Readable == {v \in Vars : file[v] \in Queue}

TasksIn(q) == {t \in Task : InQueue(q, t)}

NamesOf(S) == {t.name : t \in S}

Syscalls(S) == {t \in S : t.type = "syscall"}

Init ==
    /\ pc = "down" /\ var = 1 /\ set = {} /\ outline = EmptyQueue /\ tq = EmptyQueue
    /\ file = [v \in Vars |-> NoFile] /\ runs = 0
    /\ wanted = {} /\ given = [v \in Vars |-> {}] /\ added = {} /\ failed = FALSE

-----------------------------------------------------------------------------
RecoveredNothing == {}

\* A file that cannot be parsed is passed over.
Recovered == UNION {NamesOf(TasksIn(file[v])) : v \in Readable}

Launch ==
    /\ pc = "down" /\ runs < MaxRuns
    /\ pc' = "loop" /\ var' = 1 /\ set' = Recovered /\ runs' = runs + 1
    /\ UNCHANGED <<outline, tq, file, wanted, given, added, failed>>

AtVariable == pc = "loop" /\ var \in Vars

Skip(v) == file[v] # NoFile

SkipVariable ==
    /\ AtVariable /\ Skip(var)
    /\ var' = var + 1
    /\ UNCHANGED <<pc, set, outline, tq, file, runs, wanted, given, added, failed>>

OutlineFails ==
    /\ AtVariable /\ ~Skip(var)
    /\ var' = var + 1
    /\ UNCHANGED <<pc, set, outline, tq, file, runs, wanted, given, added, failed>>

\* An init_syscall is kept, so that the agent writes it in every specification.
NeedDedup(t) == t.type # "init_syscall" /\ (t.name \in set \/ t.name \in SysNames)

DedupAfterRecording(q) ==
    [t \in Task |-> IF NeedDedup(t) \/ t \in Syscalls(TasksIn(q)) THEN 0 ELSE q[t]]

DedupTakingOne(q) == [t \in Task |-> IF NeedDedup(t) THEN q[t] - 1 ELSE q[t]]

Dedup(q) == [t \in Task |-> IF NeedDedup(t) THEN 0 ELSE q[t]]

\* The set is extended by what is kept.
Recorded(q) == NamesOf(TasksIn(Dedup(q)))

Outline ==
    /\ AtVariable /\ ~Skip(var)
    /\ \E q \in Outlines :
          /\ outline' = q
          /\ tq' = Dedup(q)
          /\ set' = set \cup Recorded(q)
    /\ pc' = "write"
    /\ UNCHANGED <<var, file, runs, wanted, given, added, failed>>

\* The outline is dealt with.
DoneWithOutline == wanted' = wanted \cup (NamesOf(Syscalls(TasksIn(outline))) \ SysNames)

WriteTqueue ==
    /\ pc = "write"
    /\ file' = [file EXCEPT ![var] = tq]
    /\ given' = [given EXCEPT ![var] = @ \cup TasksIn(tq)]
    /\ DoneWithOutline
    /\ pc' = "loop" /\ var' = var + 1
    /\ UNCHANGED <<set, outline, tq, runs, added, failed>>

\* The file cannot be created, or is cut short; main does not look.
WriteTqueueFails ==
    /\ WritesMayFail /\ pc = "write"
    /\ \E f \in {NoFile, Torn} : file' = [file EXCEPT ![var] = f]
    /\ DoneWithOutline /\ failed' = TRUE
    /\ pc' = "loop" /\ var' = var + 1
    /\ UNCHANGED <<set, outline, tq, runs, given, added>>

Finish ==
    /\ pc = "loop" /\ var \notin Vars
    /\ pc' = "down"
    /\ UNCHANGED <<var, set, outline, tq, file, runs, wanted, given, added, failed>>

\* Interrupted, perhaps in the middle of the file.
Interrupt ==
    /\ pc # "down" /\ pc' = "down"
    /\ \/ UNCHANGED file
       \/ pc = "write" /\ file' = [file EXCEPT ![var] = Torn]
    /\ UNCHANGED <<var, set, outline, tq, runs, wanted, given, added, failed>>

GeneratorRuns == Generates /\ pc = "down"

\* A generate step of the generator, see SpecWriter: the top task goes, and what the agent
\* asks for besides, syscalls too, is added as it is.
GeneratorGenerates ==
    /\ GeneratorRuns
    /\ \E v \in Readable, t \in Task, S \in SUBSET Required :
          /\ IsTop(file[v], t)
          /\ \A u \in S : file[v][u] < MaxCopies
          /\ file' = [file EXCEPT ![v] = PushAll(PopTask(@, t), S)]
          /\ added' = added \cup NamesOf(S)
    /\ UNCHANGED <<pc, var, set, outline, tq, runs, wanted, given, failed>>

\* Where there is no .tqueue, or whatever there is with -resume=false, the generator has its
\* agent list the syscalls; it compares them with nothing.
GeneratorOutlines ==
    /\ GeneratorRuns
    /\ \E v \in Vars, q \in Outlines :
          /\ Resume => file[v] = NoFile
          /\ file' = [file EXCEPT ![v] = q]
          /\ added' = added \cup NamesOf(TasksIn(q))
    /\ UNCHANGED <<pc, var, set, outline, tq, runs, wanted, given, failed>>

\* The generator is killed while it saves.
GeneratorTears ==
    /\ WritesMayFail /\ GeneratorRuns
    /\ \E v \in Vars : file' = [file EXCEPT ![v] = Torn]
    /\ UNCHANGED <<pc, var, set, outline, tq, runs, wanted, given, added, failed>>

Next == \/ Launch \/ SkipVariable \/ OutlineFails \/ Outline \/ WriteTqueue
        \/ WriteTqueueFails \/ Finish \/ Interrupt
        \/ GeneratorGenerates \/ GeneratorOutlines \/ GeneratorTears

Spec == Init /\ [][Next]_vars
-----------------------------------------------------------------------------
(***************************************************************************)
(* Properties                                                              *)
(***************************************************************************)
TypeOK ==
    /\ pc \in {"down", "loop", "write"} /\ var \in 1..NumVars + 1 /\ runs \in 0..MaxRuns
    /\ pc = "write" => var \in Vars
    /\ set \subseteq NamesOf(Task) /\ wanted \subseteq NamesOf(Task)
    /\ outline \in Queue /\ tq \in Queue
    /\ file \in [Vars -> Queue \cup {NoFile, Torn}]
    /\ given \in [Vars -> SUBSET Task] /\ added \subseteq NamesOf(Task) /\ failed \in BOOLEAN

\* What minitask writes to a file repeats no other (minitask/main.go:282-302): at that moment
\* none of its syscalls stands in another .tqueue that can be read, whatever was interrupted or
\* not written before, and whatever the generator took off or added.  That is all it can do: the
\* generator adds to the files without looking (generate.go:99-101).
NoSyscallWrittenTwice ==
    [][(pc = "write" /\ file'[var] \in Queue) =>
          \A v \in Readable \ {var} :
              NamesOf(Syscalls(TasksIn(file'[var]))) \cap NamesOf(TasksIn(file[v])) = {}]_vars

\* Dropping duplicates drops no work (minitask/main.go:175-181): unless a file could not be
\* written, every syscall of an outline that main was done with and that sysdir lacks was
\* given to some variable, by minitask or by the generator.
NoSyscallDropped ==
    failed \/ wanted \subseteq added \cup UNION {NamesOf(given[v]) : v \in Vars}

\* What docs/README.md:220 promises, "prevents duplicate spec synthesis for the same
\* syscall": minitask never gives a syscall to two variables.
GivenOnce ==
    \A v, w \in Vars : v # w => Syscalls(given[v]) \cap Syscalls(given[w]) = {}
=============================================================================
