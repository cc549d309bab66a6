----------------------------- MODULE SpecWriter -----------------------------
(***************************************************************************)
(* One entry of the generator: the attempts writeJob makes at writeSpec,   *)
(* the outline / generate / fix loop writeSpec runs over a StageHelper,    *)
(* and the files it leaves in the entry's directory so that an interrupted *)
(* run can be resumed.                                                     *)
(*                                                                         *)
(* The agent is the environment: an outline, an answer and a fixed         *)
(* specification are any of those the constants allow, or an error.  One   *)
(* action is one step of the loop or one file written, because a run can   *)
(* be interrupted between any two of these.                                *)
(***************************************************************************)
EXTENDS Tasks, SpecPools

CONSTANTS
    Outlines,      \* task bags the agent may outline
    Answers,       \* answers to a generate request: new elements, required tasks
    FixExtras,     \* names the agent may add to a specification it fixes
    Complete,      \* TRUE: the agent writes what it was asked, says of nothing that it
                   \* was checked, and keeps it all when fixing
    MaxIter,       \* iterations of the loop of writeSpec (100 in the code)
    MaxRetry,      \* -max-retry
    Resume,        \* -resume
    Nil, Missing, Torn,  \* no queue yet; no such file; a file cut short
    WriteErrors,   \* TRUE: a write may fail
    TornWrites,    \* TRUE: a write that fails or is interrupted may leave a torn file
    MaxLaunches,   \* bound: how often the generator is run
    MaxDup         \* bound: copies of a task in the queue

ASSUME TaskNamesAssumption == \A t \in Task : t.name \in Names
ASSUME OutlinesAssumption == Outlines \subseteq Queue
ASSUME AnswersAssumption  ==
    Answers \subseteq [spec : Pool, required : SUBSET Task]
ASSUME FixExtrasAssumption == FixExtras \subseteq Names
ASSUME BoundsAssumption    == /\ MaxIter \in Nat \ {0}
                              /\ MaxRetry \in Nat
                              /\ MaxLaunches \in Nat
                              /\ MaxDup \in Nat
ASSUME FlagsAssumption     == {Complete, Resume, WriteErrors, TornWrites} \subseteq BOOLEAN
ASSUME MarksAssumption     == /\ Nil \notin Queue
                              /\ Missing \notin Queue \cup Pool
                              /\ Torn \notin Queue \cup Pool
                              /\ Torn # Missing

VARIABLES
    pc,        \* where the worker is
    attempt,   \* retries made by writeJob for this entry
    iter,      \* iterations of the loop of writeSpec begun
    next,      \* sh.Next
    tqueue, spool, rpool, pool,                  \* the StageHelper, in memory
    tqueueFile, spoolFile, rpoolFile, poolFile,  \* .tqueue .spool .rpool .pool
    compFile,  \* spec#comp.txt
    result,    \* what the last WriteJobRes of this entry said
    launches,  \* times the generator was started
    due,       \* history: names this attempt found in the files or the agent listed
    ledger,    \* history: the names due when WriteCurrStat last ended, all attempts
    asked,     \* history: names the agent has answered a generate request for
    claimed    \* history: names an answer of the agent said to be valid

mem     == <<tqueue, spool, rpool, pool>>
files   == <<tqueueFile, spoolFile, rpoolFile, poolFile>>
history == <<due, ledger, asked, claimed>>
vars    == <<pc, attempt, iter, next, mem, files, compFile, result, launches, history>>

Labels == {"off", "begin", "loop", "saveTqueue", "saveSpool", "saveRpool", "savePool", "comp"}

-----------------------------------------------------------------------------
\* What a set of four values accounts for: a task still to do, an element being
\* written, one reused from sysdir, one completed.
Tracked(q, s, r, p) ==
    {n \in Names : \/ \E t \in Task : t.name = n /\ InQueue(q, t)
                   \/ Exists(s, n) \/ Exists(r, n) \/ Exists(p, n)}

TaskNames(S) == {t.name : t \in S}

OrElse(f, default) == IF f = Missing THEN default ELSE f

FilesTracked == Tracked(OrElse(tqueueFile, EmptyQueue), OrElse(spoolFile, EmptyPool),
                        OrElse(rpoolFile, EmptyPool), OrElse(poolFile, EmptyPool))

FilesReadable == tqueueFile # Torn /\ spoolFile # Torn /\ rpoolFile # Torn /\ poolFile # Torn

-----------------------------------------------------------------------------
Init ==
    /\ pc = "off" /\ attempt = 0 /\ iter = 0 /\ next = "outline"
    /\ tqueue = Nil /\ spool = EmptyPool /\ rpool = EmptyPool /\ pool = EmptyPool
    /\ tqueueFile \in {Missing} \cup Outlines   \* minitask may have written .tqueue
    /\ spoolFile = Missing /\ rpoolFile = Missing /\ poolFile = Missing
    /\ compFile = Missing
    /\ result = "none" /\ launches = 0
    /\ due = {} /\ ledger = {} /\ asked = {} /\ claimed = {}

\* The StageHelper of the attempt is garbage.
DropMemory ==
    /\ tqueue' = Nil /\ spool' = EmptyPool /\ rpool' = EmptyPool /\ pool' = EmptyPool
    /\ iter' = 0 /\ next' = "outline" /\ due' = {}

\* writeSpec returned an error: writeJob retries, or gives the entry up.
AttemptFails ==
    /\ DropMemory
    /\ IF attempt < MaxRetry
       THEN pc' = "begin" /\ attempt' = attempt + 1 /\ UNCHANGED result
       ELSE pc' = "off" /\ result' = "error" /\ UNCHANGED attempt

-----------------------------------------------------------------------------
\* writeJob reaches the entry, or the user starts the generator again for it.
Launch ==
    /\ pc = "off" /\ launches < MaxLaunches
    /\ launches' = launches + 1
    /\ attempt' = 0
    /\ IF Resume /\ compFile # Missing
       THEN pc' = "off" /\ result' = "reused"
       ELSE pc' = "begin" /\ result' = "none"
    /\ UNCHANGED <<iter, next, mem, files, compFile, history>>

\* writeSpec sets its StageHelper up and, with -resume, recovers the files.
Begin ==
    /\ pc = "begin"
    /\ ~Resume \/ FilesReadable
    /\ iter' = 0 /\ next' = "outline" /\ pc' = "loop"
    /\ IF Resume
       THEN /\ tqueue' = OrElse(tqueueFile, Nil)
            /\ spool' = OrElse(spoolFile, EmptyPool)
            /\ rpool' = OrElse(rpoolFile, EmptyPool)
            /\ pool' = OrElse(poolFile, EmptyPool)
            /\ due' = FilesTracked
            /\ UNCHANGED <<ledger, asked, claimed>>
       ELSE /\ tqueue' = Nil /\ spool' = EmptyPool /\ rpool' = EmptyPool /\ pool' = EmptyPool
            /\ due' = {} /\ ledger' = {} /\ asked' = {} /\ claimed' = {}
    /\ UNCHANGED <<attempt, files, compFile, result, launches>>

\* The entry's directory cannot be made, or a file of sysdir not read or parsed; or
\* RecoverProgress returns an error, as it does when a file is torn: that is not JSON.
BeginFails ==
    /\ pc = "begin"
    /\ AttemptFails
    /\ UNCHANGED <<files, compFile, launches, ledger, asked, claimed>>

-----------------------------------------------------------------------------
TopIsSyscall == \E t \in Task : IsTop(tqueue, t) /\ t.type = "syscall"

ShouldFixWithSyscall == HasType(spool, "syscall") /\ TopIsSyscall

ShouldFix == \/ IsEmptyQueue(tqueue) /\ ~IsEmptyPool(spool)
             \/ HasType(spool, "syscall") /\ TopIsSyscall

NextStep == IF tqueue = Nil THEN "outline"
            ELSE IF IsEmptyQueue(tqueue) /\ IsEmptyPool(spool) THEN "complete"
            ELSE IF ShouldFix THEN "fix"
            ELSE "generate"

\* The iteration that is about to run, counted.
NextIterUncounted == iter

NextIter == iter + 1

\* One iteration: UpdateNextStep, the step, then WriteCurrStat from its first file on.
Iteration(step) ==
    /\ pc = "loop" /\ iter < MaxIter
    /\ NextStep = step
    /\ next' = step /\ iter' = NextIter
    /\ pc' = "saveTqueue"
    /\ UNCHANGED <<attempt, files, compFile, result, launches, ledger>>

Outline ==
    /\ Iteration("outline")
    /\ tqueue' \in Outlines
    /\ due' = due \cup TaskNames({t \in Task : InQueue(tqueue', t)})
    /\ UNCHANGED <<spool, rpool, pool, asked, claimed>>

-----------------------------------------------------------------------------
\* ExecGenerateStep, one action per way out.  Each takes the top task off.
Generate(t) ==
    /\ Iteration("generate")
    /\ IsTop(tqueue, t)

\* A syscall sysdir already describes is neither written nor reused.
GenerateSkip(t) ==
    /\ Generate(t)
    /\ t.name \in SyzNames /\ t.type = "syscall"
    /\ tqueue' = PopTask(tqueue, t)
    /\ UNCHANGED <<spool, rpool, pool, due, asked, claimed>>

\* The element of SyzPool, with its type set to init_syscall when that is the task.
ReusedElem(t) ==
    [type  |-> IF Kind[t.name] = "syscall" /\ t.type = "init_syscall"
               THEN "init_syscall" ELSE Kind[t.name],
     valid |-> TRUE]

GenerateReuse(t) ==
    /\ Generate(t)
    /\ t.name \in SyzNames /\ t.type # "syscall"
    /\ tqueue' = PopTask(tqueue, t)
    /\ rpool' = Insert(rpool, t.name, ReusedElem(t))
    /\ UNCHANGED <<spool, pool, due, asked, claimed>>

GenerateFromPoolAsValid(t) ==
    /\ Generate(t)
    /\ t.name \notin SyzNames /\ Exists(pool, t.name)
    /\ tqueue' = PopTask(tqueue, t)
    /\ spool' = Insert(spool, t.name, [pool[t.name] EXCEPT !.valid = TRUE])
    /\ UNCHANGED <<rpool, pool, due, asked, claimed>>

GenerateFromPool(t) ==
    /\ Generate(t)
    /\ t.name \notin SyzNames /\ Exists(pool, t.name)
    /\ tqueue' = PopTask(tqueue, t)
    /\ spool' = Insert(spool, t.name, pool[t.name])
    /\ UNCHANGED <<rpool, pool, due, asked, claimed>>

GenerateDuplicate(t) ==
    /\ Generate(t)
    /\ t.name \notin SyzNames /\ ~Exists(pool, t.name) /\ Exists(spool, t.name)
    /\ tqueue' = PopTask(tqueue, t)
    /\ UNCHANGED <<spool, rpool, pool, due, asked, claimed>>

NamesIn(spec) == {n \in Names : Exists(spec, n)}

\* The names an answer says to be valid.  Nobody asks the agent for the flag, and nobody
\* clears it: it is a field of the JSON the elements are read from.
ClaimedIn(spec) == {n \in Names : spec[n].valid}

\* Is the popped task one the agent has to be asked for?
MustAskIgnoringSpool(t) == t.name \notin SyzNames /\ ~Exists(pool, t.name)

MustAsk(t) == t.name \notin SyzNames /\ ~Exists(pool, t.name) /\ ~Exists(spool, t.name)

\* The queue after an answer: the task is gone, what the answer requires is added.
AfterAnswerForgetful(q, t, required) == PopTask(q, t)

AfterAnswer(q, t, required) == PushAll(PopTask(q, t), required)

GenerateNew(t) ==
    /\ Generate(t)
    /\ MustAsk(t)
    /\ \E a \in Answers :
          /\ Complete => t.name \in NamesIn(a.spec) /\ ClaimedIn(a.spec) = {}
          /\ tqueue' = AfterAnswer(tqueue, t, a.required)
          /\ \A u \in Task : tqueue'[u] <= MaxDup
          /\ spool' = Merge(spool, a.spec)
          /\ due' = due \cup NamesIn(a.spec) \cup TaskNames(a.required)
          /\ claimed' = claimed \cup ClaimedIn(a.spec)
    /\ asked' = asked \cup {t.name}
    /\ UNCHANGED <<rpool, pool>>

-----------------------------------------------------------------------------
\* ExecFixStep.  Every element says that it is valid; the Pool is not looked at.
FixNothing ==
    /\ Iteration("fix")
    /\ AllValid(spool)
    /\ spool' = EmptyPool
    /\ UNCHANGED <<tqueue, rpool, pool, due, asked, claimed>>

\* What enters the Pool of what was written: nothing sysdir provides.
MaterialAll(p) == p

Material(p) == Difference(p, rpool)

KeepUnfixedDiscarded ==
    /\ UNCHANGED pool
    /\ spool' = EmptyPool

\* There is nothing to check the spool with, or the check never passed: the
\* elements go to the Pool as they are.
KeepUnfixed ==
    /\ pool' = UpdatePool(pool, Material(spool))
    /\ spool' = EmptyPool

NoSyscallToFix == HasType(spool, "init_syscall") /\ ~HasType(spool, "syscall")

FixSkipped ==
    /\ Iteration("fix")
    /\ ~AllValid(spool) /\ NoSyscallToFix
    /\ KeepUnfixed
    /\ UNCHANGED <<tqueue, rpool, due, asked, claimed>>

FixFails ==
    /\ Iteration("fix")
    /\ ~AllValid(spool) /\ ~NoSyscallToFix
    /\ KeepUnfixed
    /\ UNCHANGED <<tqueue, rpool, due, asked, claimed>>

\* The names of the specification that is checked: the spool with the includes,
\* resources and init_syscalls completed so far.
Candidates == {n \in Names : Exists(Merge(ConsPool(pool), spool), n)}

\* A specification of the names K passed the check.
FixSucceeds ==
    /\ Iteration("fix")
    /\ ~AllValid(spool) /\ ~NoSyscallToFix
    /\ \E K \in SUBSET (Candidates \cup FixExtras) :
          /\ Complete => Candidates \subseteq K
          /\ pool' = UpdatePool(pool, Material(SyncType(Parsed(K), spool)))
    /\ spool' = EmptyPool
    /\ UNCHANGED <<tqueue, rpool, due, asked, claimed>>

\* The agent, a tool, its JSON or saving its messages fails: execWriteStep
\* returns the error and nothing of the step is written.
StepFails ==
    /\ pc = "loop" /\ iter < MaxIter
    /\ \/ NextStep = "outline"
       \/ NextStep = "generate" /\ \E t \in Task : IsTop(tqueue, t) /\ MustAsk(t)
       \/ NextStep = "fix" /\ ~AllValid(spool) /\ ~NoSyscallToFix
    /\ AttemptFails
    /\ UNCHANGED <<files, compFile, launches, ledger, asked, claimed>>

-----------------------------------------------------------------------------
\* The loop ends: there is nothing left to do ...
Finish ==
    /\ pc = "loop" /\ iter < MaxIter
    /\ NextStep = "complete"
    /\ next' = "complete" /\ pc' = "saveTqueue"
    /\ tqueue' = EmptyQueue /\ spool' = EmptyPool
    /\ UNCHANGED <<attempt, iter, rpool, pool, files, compFile, result, launches, history>>

\* ... or its iterations are used up; WriteCurrStat runs once more either way.
Exhaust ==
    /\ pc = "loop" /\ iter = MaxIter
    /\ iter' = MaxIter + 1 /\ pc' = "saveTqueue"
    /\ UNCHANGED <<attempt, next, mem, files, compFile, result, launches, history>>

\* WriteCurrStat: the four files, in this order.
SaveTqueue ==
    /\ pc = "saveTqueue" /\ pc' = "saveSpool"
    /\ tqueueFile' = tqueue
    /\ UNCHANGED <<attempt, iter, next, mem, spoolFile, rpoolFile, poolFile,
                   compFile, result, launches, history>>

SaveSpool ==
    /\ pc = "saveSpool" /\ pc' = "saveRpool"
    /\ spoolFile' = spool
    /\ UNCHANGED <<attempt, iter, next, mem, tqueueFile, rpoolFile, poolFile,
                   compFile, result, launches, history>>

SaveRpool ==
    /\ pc = "saveRpool" /\ pc' = "savePool"
    /\ rpoolFile' = rpool
    /\ UNCHANGED <<attempt, iter, next, mem, tqueueFile, spoolFile, poolFile,
                   compFile, result, launches, history>>

SavePool ==
    /\ pc = "savePool"
    /\ poolFile' = pool
    /\ ledger' = ledger \cup due
    /\ IF next = "complete" THEN pc' = "comp" /\ UNCHANGED <<attempt, iter, next, mem, result, due>>
       ELSE IF iter > MaxIter THEN AttemptFails
       ELSE pc' = "loop" /\ UNCHANGED <<attempt, iter, next, mem, result, due>>
    /\ UNCHANGED <<tqueueFile, spoolFile, rpoolFile, compFile, launches, asked, claimed>>

\* writeJob writes what writeSpec returned: the elements of the Pool.
SaveComp ==
    /\ pc = "comp" /\ pc' = "off"
    /\ compFile' = pool
    /\ result' = "ok"
    /\ DropMemory
    /\ UNCHANGED <<attempt, files, launches, ledger, asked, claimed>>

-----------------------------------------------------------------------------
\* The file being written when a write is cut short keeps its old contents,
\* or is torn: os.WriteFile truncates the file before it writes to it.
CutShort(label, file) == IF TornWrites /\ pc = label THEN file' \in {file, Torn} ELSE file' = file

CutFiles == /\ CutShort("saveTqueue", tqueueFile) /\ CutShort("saveSpool", spoolFile)
            /\ CutShort("saveRpool", rpoolFile) /\ CutShort("savePool", poolFile)

\* A write of WriteCurrStat fails: writeSpec returns the error.
WriteFails ==
    /\ WriteErrors
    /\ pc \in {"saveTqueue", "saveSpool", "saveRpool", "savePool"}
    /\ CutFiles
    /\ AttemptFails
    /\ UNCHANGED <<compFile, launches, ledger, asked, claimed>>

\* Writing spec#comp.txt fails: this is reported, and not retried.
CompFails ==
    /\ WriteErrors
    /\ pc = "comp" /\ pc' = "off"
    /\ CutShort("comp", compFile)
    /\ result' = "error"
    /\ DropMemory
    /\ UNCHANGED <<attempt, files, launches, ledger, asked, claimed>>

\* The process dies, by itself or with the machine.
Crash ==
    /\ pc # "off" /\ pc' = "off"
    /\ launches < MaxLaunches
    /\ CutFiles
    /\ CutShort("comp", compFile)
    /\ DropMemory
    /\ UNCHANGED <<attempt, result, launches, ledger, asked, claimed>>

-----------------------------------------------------------------------------
GenerateStep == \E t \in Task : \/ GenerateSkip(t) \/ GenerateReuse(t) \/ GenerateFromPool(t)
                                \/ GenerateDuplicate(t) \/ GenerateNew(t)

FixStep == FixNothing \/ FixSkipped \/ FixFails \/ FixSucceeds

Save == SaveTqueue \/ SaveSpool \/ SaveRpool \/ SavePool \/ SaveComp

Work == \/ Begin \/ BeginFails
        \/ Outline \/ GenerateStep \/ FixStep \/ StepFails
        \/ Finish \/ Exhaust
        \/ Save \/ WriteFails \/ CompFails

Next == Launch \/ Work \/ Crash

Spec == Init /\ [][Next]_vars

\* The worker's goroutine keeps running, and every call it makes returns.
FairSpec == Spec /\ WF_vars(Work)

-----------------------------------------------------------------------------
(***************************************************************************)
(* Properties                                                              *)
(***************************************************************************)
Live == pc \notin {"off", "begin"}

\* Every variable stays in its range; the only record of an unreadable file is Torn.
TypeOK ==
    /\ pc \in Labels /\ attempt \in 0..MaxRetry /\ iter \in 0..(MaxIter + 1)
    /\ next \in {"outline", "generate", "fix", "complete"}
    /\ tqueue \in Queue \cup {Nil}
    /\ spool \in Pool /\ rpool \in Pool /\ pool \in Pool
    /\ tqueueFile \in Queue \cup {Missing, Torn}
    /\ spoolFile \in Pool \cup {Missing, Torn}
    /\ rpoolFile \in Pool \cup {Missing, Torn}
    /\ poolFile \in Pool \cup {Missing, Torn}
    /\ compFile \in Pool \cup {Missing, Torn}
    /\ result \in {"none", "ok", "error", "reused"}
    /\ launches \in 0..MaxLaunches
    /\ due \subseteq Names /\ ledger \subseteq Names /\ asked \subseteq Names
    /\ claimed \subseteq Names

\* ExecFixStep clears a spool whose elements are all valid without looking at the Pool
\* (fix.go:39-43).  What is lost by that is only what the agent itself said to be valid, in
\* an answer nobody checks (generate.go:91-98): any other valid element of the spool is a
\* copy of the one the Pool holds, also after the two were recovered from files written at
\* different moments.
ValidIsPoolsOrClaimed ==
    Live => \A n \in Names \ claimed : spool[n].valid => pool[n] = spool[n]

\* An element saved as valid in .pool is not changed, invalidated or dropped by any
\* later step, retry, crash or restart of a resumed entry, unless the file itself
\* is torn: what was paid for and checked stays (UpdatePool, RecoverProgress).
ValidElementsStay ==
    [][\A n \in Names :
         (Resume /\ poolFile \in Pool /\ poolFile[n].valid)
            => poolFile' = Torn \/ poolFile'[n] = poolFile[n]]_vars

\* NextStep answers "generate" last, with a TODO that there may be omissions
\* (stage.go:187): the Pop of ExecGenerateStep never meets an empty queue.
GenerateFindsTask ==
    (pc = "loop" /\ NextStep = "generate") => \E t \in Task : IsTop(tqueue, t)

\* Between two steps, and whenever a retry or a restart reads the files, they
\* account for every name the entry ever had to deal with, except those sysdir
\* describes: as a task, an unfinished element or a completed one.
NothingForgotten ==
    (pc \in {"off", "begin", "loop"} /\ FilesReadable)
        => ledger \ SyzNames \subseteq FilesTracked

\* The specification file of a finished entry contains every name the entry ever
\* had to deal with, except those sysdir describes.
CompCoversLedger ==
    compFile \in Pool => \A n \in ledger \ SyzNames : Exists(compFile, n)

\* The agent is never asked twice for a name it has answered for: the element is
\* found in the Pool or the spool, whatever retries lie between the two tasks.
AskedOnce ==
    [][\A t \in Task : GenerateNew(t) => t.name \notin asked]_vars

\* A name reused from sysdir does not enter the Pool afterwards, so that the
\* entry's own specification does not define it again.
ReusedStaysOut ==
    [][\A n \in Names : (Live /\ Exists(rpool, n) /\ ~Exists(pool, n))
          => ~Exists(pool', n)]_vars

\* Whatever the agent keeps asking for, an attempt ends, and so does the entry.
EntryEnds == (pc # "off") ~> (pc = "off")

-----------------------------------------------------------------------------
(***************************************************************************)
(* What a comment says, and the code does not keep                         *)
(***************************************************************************)
\* SyncType is there "mainly ... to sync init_syscall" (pool.go:231): an init_syscall
\* of the Pool stays one when an element of the same name replaces it.
InitSyscallStays ==
    [][\A n \in Names : (Live /\ pool[n].type = "init_syscall" /\ Exists(pool', n))
          => pool'[n].type = "init_syscall"]_vars
=============================================================================
