------------------------- MODULE SpecWriterProofs -------------------------
(***************************************************************************)
(* Theorems about SpecWriter, for every set of names, tasks and answers,   *)
(* every number of iterations, retries and launches, and every fault.      *)
(***************************************************************************)
EXTENDS SpecWriter, TasksProofs

-----------------------------------------------------------------------------
(***************************************************************************)
(* What the pool operations return, for every set of names: pools again,   *)
(* and for UpdatePool which elements it keeps and which it adds.           *)
(***************************************************************************)
LEMMA KindTypes == \A n \in Names : Kind[n] \in ElemTypes /\ Kind[n] # "init_syscall"
BY KindAssumption DEF SyntaxTypes, ElemTypes

LEMMA AbsentIsNoElem == Absent \notin Elem /\ ~Absent.valid
BY DEF Absent, Elem, ElemTypes

LEMMA EmptyPoolType == EmptyPool \in Pool
BY DEF EmptyPool, Pool

LEMMA InsertType ==
    ASSUME NEW p \in Pool, NEW n \in Names, NEW e \in Elem
    PROVE  Insert(p, n, e) \in Pool
BY DEF Insert, Pool

LEMMA DifferenceType ==
    ASSUME NEW p \in Pool, NEW other
    PROVE  Difference(p, other) \in Pool
BY DEF Difference, Pool

LEMMA MergeType ==
    ASSUME NEW p \in Pool, NEW other \in Pool
    PROVE  Merge(p, other) \in Pool
BY DEF Merge, Pool

LEMMA ConsPoolType ==
    ASSUME NEW p \in Pool
    PROVE  ConsPool(p) \in Pool
BY DEF ConsPool, Pool

LEMMA SyncTypeType ==
    ASSUME NEW p \in Pool, NEW other \in Pool
    PROVE  SyncType(p, other) \in Pool
<1>1. ASSUME NEW n \in Names, Exists(p, n), Exists(other, n)
      PROVE  [p[n] EXCEPT !.type = other[n].type] \in Elem
    <2>1. p[n] \in Elem /\ other[n] \in Elem
        BY <1>1 DEF Pool, Exists
    <2> QED BY <2>1 DEF Elem
<1> QED BY <1>1 DEF SyncType, Pool

LEMMA ParsedType == \A K : Parsed(K) \in Pool
BY KindTypes DEF Parsed, Pool, Elem

LEMMA UpdatePoolType ==
    ASSUME NEW p \in Pool, NEW material \in Pool
    PROVE  UpdatePool(p, material) \in Pool
BY DEF UpdatePool, Pool

\* StageHelper.UpdatePool never touches an element that was checked.
THEOREM UpdatePoolKeepsValid ==
    ASSUME NEW p \in Pool, NEW material, NEW n \in Names, p[n].valid
    PROVE  UpdatePool(p, material)[n] = p[n]
BY AbsentIsNoElem DEF UpdatePool, Exists, Replaces

\* It never drops a name, and leaves none of the material out.
THEOREM UpdatePoolCovers ==
    ASSUME NEW p \in Pool, NEW material \in Pool, NEW n \in Names,
           Exists(p, n) \/ Exists(material, n)
    PROVE  Exists(UpdatePool(p, material), n)
BY DEF UpdatePool, Exists

\* It adds no name that is not in the material.
LEMMA UpdatePoolAdds ==
    ASSUME NEW p, NEW material, NEW n \in Names,
           ~Exists(p, n), ~Exists(material, n)
    PROVE  ~Exists(UpdatePool(p, material), n)
BY DEF UpdatePool, Exists

-----------------------------------------------------------------------------
(***************************************************************************)
(* The type invariant.                                                     *)
(***************************************************************************)
Saving == pc \in {"saveTqueue", "saveSpool", "saveRpool", "savePool"}

\* The outline is the first step: once an iteration has begun there is a queue.
QueueKnown == /\ Saving => tqueue \in Queue
              /\ pc = "loop" /\ iter > 0 => tqueue \in Queue

TypeInv == TypeOK /\ QueueKnown

-----------------------------------------------------------------------------
LEMMA OrElsePool ==
    ASSUME NEW f \in Pool \cup {Missing}
    PROVE  OrElse(f, EmptyPool) \in Pool
BY EmptyPoolType DEF OrElse

LEMMA TaskNamesType ==
    ASSUME NEW S, S \subseteq Task
    PROVE  TaskNames(S) \subseteq Names
BY TaskNamesAssumption DEF TaskNames

LEMMA ReusedElemType ==
    ASSUME NEW t \in Task
    PROVE  ReusedElem(t) \in Elem
BY TaskNamesAssumption, KindTypes DEF ReusedElem, Elem, ElemTypes

LEMMA MaterialType ==
    ASSUME NEW p \in Pool
    PROVE  Material(p) \in Pool
BY DifferenceType DEF Material

\* What every failure of an attempt leaves, whatever it was.
LEMMA AttemptFailsType ==
    ASSUME TypeInv, AttemptFails
    PROVE  /\ pc' \in {"off", "begin"} /\ attempt' \in 0..MaxRetry /\ iter' = 0
           /\ next' = "outline" /\ tqueue' = Nil
           /\ spool' = EmptyPool /\ rpool' = EmptyPool /\ pool' = EmptyPool
           /\ due' = {} /\ result' \in {"none", "ok", "error", "reused"}
BY BoundsAssumption DEF TypeInv, TypeOK, AttemptFails, DropMemory

LEMMA CutFilesType ==
    ASSUME TypeOK, CutFiles
    PROVE  /\ tqueueFile' \in Queue \cup {Missing, Torn}
           /\ spoolFile' \in Pool \cup {Missing, Torn}
           /\ rpoolFile' \in Pool \cup {Missing, Torn}
           /\ poolFile' \in Pool \cup {Missing, Torn}
BY DEF TypeOK, CutFiles, CutShort

LEMMA TypeInit == Init => TypeInv
<1> SUFFICES ASSUME Init PROVE TypeInv
    OBVIOUS
<1>1. TypeOK
    BY EmptyPoolType, OutlinesAssumption, BoundsAssumption DEF Init, TypeOK, Labels
<1>2. QueueKnown
    BY DEF Init, QueueKnown, Saving
<1> QED BY <1>1, <1>2 DEF TypeInv

-----------------------------------------------------------------------------
\* One lemma per action or family of actions: it keeps the type invariant.
LEMMA TypeLaunch == TypeInv /\ Launch => TypeInv'
<1> SUFFICES ASSUME TypeInv, Launch PROVE TypeInv'
    OBVIOUS
<1> USE DEF TypeInv, Launch, mem, files, history
<1>1. TypeOK'
    BY BoundsAssumption DEF TypeOK, Labels
<1>2. QueueKnown'
    BY DEF QueueKnown, Saving
<1> QED BY <1>1, <1>2

LEMMA TypeBegin == TypeInv /\ Begin => TypeInv'
<1> SUFFICES ASSUME TypeInv, Begin PROVE TypeInv'
    OBVIOUS
<1> USE DEF TypeInv, Begin, files
<1>1. /\ tqueue' \in Queue \cup {Nil}
      /\ spool' \in Pool /\ rpool' \in Pool /\ pool' \in Pool
    BY OrElsePool, EmptyPoolType DEF TypeOK, FilesReadable, OrElse
<1>2. due' \subseteq Names
    BY DEF FilesTracked, Tracked
<1>3. TypeOK'
    BY <1>1, <1>2, BoundsAssumption DEF TypeOK, Labels
<1>4. QueueKnown'
    BY DEF QueueKnown, Saving
<1> QED BY <1>3, <1>4

LEMMA TypeFails ==
    TypeInv /\ (BeginFails \/ StepFails \/ WriteFails) => TypeInv'
<1> SUFFICES ASSUME TypeInv, BeginFails \/ StepFails \/ WriteFails PROVE TypeInv'
    OBVIOUS
<1>1. AttemptFails
    BY DEF BeginFails, StepFails, WriteFails
<1>2. /\ tqueueFile' \in Queue \cup {Missing, Torn}
      /\ spoolFile' \in Pool \cup {Missing, Torn}
      /\ rpoolFile' \in Pool \cup {Missing, Torn}
      /\ poolFile' \in Pool \cup {Missing, Torn}
    BY CutFilesType DEF TypeInv, TypeOK, BeginFails, StepFails, WriteFails, files
<1>3. UNCHANGED <<compFile, launches, ledger, asked, claimed>>
    BY DEF BeginFails, StepFails, WriteFails
<1>4. TypeOK'
    BY <1>1, <1>2, <1>3, AttemptFailsType, EmptyPoolType, BoundsAssumption
       DEF TypeInv, TypeOK, Labels
<1>5. QueueKnown'
    BY <1>1, AttemptFailsType DEF QueueKnown, Saving
<1> QED BY <1>4, <1>5 DEF TypeInv

\* The part common to all steps: Iteration writes the control variables.
LEMMA IterationType ==
    ASSUME TypeInv, NEW step \in {"outline", "generate", "fix"}, Iteration(step),
           tqueue' \in Queue, spool' \in Pool, rpool' \in Pool, pool' \in Pool,
           due' \subseteq Names, asked' \subseteq Names, claimed' \subseteq Names
    PROVE  TypeInv'
<1> USE DEF TypeInv, Iteration, NextIter, files
<1>1. TypeOK'
    BY BoundsAssumption DEF TypeOK, Labels
<1>2. QueueKnown'
    BY DEF QueueKnown, Saving
<1> QED BY <1>1, <1>2

LEMMA TypeOutline == TypeInv /\ Outline => TypeInv'
<1> SUFFICES ASSUME TypeInv, Outline PROVE TypeInv'
    OBVIOUS
<1>1. tqueue' \in Queue
    BY OutlinesAssumption DEF Outline
<1>2. due' \subseteq Names
    BY TaskNamesType DEF Outline, TypeInv, TypeOK
<1>3. /\ spool' \in Pool /\ rpool' \in Pool /\ pool' \in Pool
      /\ asked' \subseteq Names /\ claimed' \subseteq Names
    BY DEF Outline, TypeInv, TypeOK
<1> QED BY <1>1, <1>2, <1>3, IterationType DEF Outline

\* Each way out of ExecGenerateStep has a queue to take the task from.
LEMMA GenerateQueue ==
    ASSUME TypeInv, NEW t \in Task, Generate(t)
    PROVE  tqueue \in Queue /\ PopTask(tqueue, t) \in Queue
<1>1. tqueue \in Queue
    BY DEF TypeInv, TypeOK, Generate, Iteration, NextStep
<1> QED BY <1>1, PopTaskType DEF Generate

LEMMA TypeGenerateNew ==
    ASSUME TypeInv, NEW t \in Task, GenerateNew(t)
    PROVE  TypeInv'
<1>0. PICK a \in Answers :
          /\ tqueue' = AfterAnswer(tqueue, t, a.required)
          /\ spool' = Merge(spool, a.spec)
          /\ due' = due \cup NamesIn(a.spec) \cup TaskNames(a.required)
          /\ claimed' = claimed \cup ClaimedIn(a.spec)
    BY DEF GenerateNew
<1>1. a.spec \in Pool /\ a.required \subseteq Task
    BY AnswersAssumption
<1>2. tqueue' \in Queue
    BY <1>0, GenerateQueue, PushAllType DEF GenerateNew, AfterAnswer
<1>3. spool' \in Pool
    BY <1>0, <1>1, MergeType DEF TypeInv, TypeOK
<1>4. due' \subseteq Names /\ claimed' \subseteq Names
    BY <1>0, <1>1, TaskNamesType DEF NamesIn, ClaimedIn, TypeInv, TypeOK
<1>5. rpool' \in Pool /\ pool' \in Pool /\ asked' \subseteq Names
    BY TaskNamesAssumption DEF GenerateNew, TypeInv, TypeOK
<1> QED BY <1>2, <1>3, <1>4, <1>5, IterationType DEF GenerateNew, Generate

LEMMA TypeGenerate == TypeInv /\ GenerateStep => TypeInv'
<1> SUFFICES ASSUME TypeInv, NEW t \in Task,
                    \/ GenerateSkip(t) \/ GenerateReuse(t) \/ GenerateFromPool(t)
                    \/ GenerateDuplicate(t) \/ GenerateNew(t)
             PROVE  TypeInv'
    BY DEF GenerateStep
<1>1. CASE GenerateNew(t)
    BY <1>1, TypeGenerateNew
<1>2. CASE GenerateSkip(t) \/ GenerateReuse(t) \/ GenerateFromPool(t) \/ GenerateDuplicate(t)
    <2>1. Generate(t) /\ tqueue' = PopTask(tqueue, t)
        BY <1>2 DEF GenerateSkip, GenerateReuse, GenerateFromPool, GenerateDuplicate
    <2>2. tqueue' \in Queue
        BY <2>1, GenerateQueue
    <2>3. rpool' \in Pool
        BY <1>2, InsertType, ReusedElemType, TaskNamesAssumption
           DEF TypeInv, TypeOK, GenerateSkip, GenerateReuse, GenerateFromPool, GenerateDuplicate
    <2>4. spool' \in Pool
        <3>1. CASE GenerateFromPool(t)
            <4>1. pool[t.name] \in Elem
                BY <3>1, TaskNamesAssumption
                   DEF TypeInv, TypeOK, GenerateFromPool, Pool, Exists
            <4> QED BY <3>1, <4>1, InsertType, TaskNamesAssumption
                    DEF TypeInv, TypeOK, GenerateFromPool
        <3>2. CASE ~GenerateFromPool(t)
            BY <1>2, <3>2
               DEF TypeInv, TypeOK, GenerateSkip, GenerateReuse, GenerateDuplicate
        <3> QED BY <3>1, <3>2
    <2>5. pool' \in Pool /\ due' \subseteq Names /\ asked' \subseteq Names /\ claimed' \subseteq Names
        BY <1>2 DEF TypeInv, TypeOK, GenerateSkip, GenerateReuse, GenerateFromPool,
                    GenerateDuplicate
    <2> QED BY <2>1, <2>2, <2>3, <2>4, <2>5, IterationType DEF Generate
<1> QED BY <1>1, <1>2

LEMMA SynchronisedType ==
    ASSUME NEW K, NEW p \in Pool
    PROVE  SyncType(Parsed(K), p) \in Pool
BY ParsedType, SyncTypeType

LEMMA TypeFix == TypeInv /\ FixStep => TypeInv'
<1> SUFFICES ASSUME TypeInv, FixStep PROVE TypeInv'
    OBVIOUS
<1>1. spool \in Pool /\ pool \in Pool
    BY DEF TypeInv, TypeOK
<1>2. Iteration("fix") /\ spool' = EmptyPool /\ UNCHANGED <<tqueue, rpool, due, asked, claimed>>
    BY DEF FixStep, FixNothing, FixSkipped, FixFails, FixSucceeds, KeepUnfixed
<1>3. tqueue' \in Queue
    BY <1>2 DEF TypeInv, TypeOK, Iteration, NextStep
<1>4. pool' \in Pool
    <2>1. CASE FixNothing
        BY <1>1, <2>1 DEF FixNothing
    <2>2. CASE FixSkipped \/ FixFails
        BY <1>1, <2>2, MaterialType, UpdatePoolType DEF FixSkipped, FixFails, KeepUnfixed
    <2>3. CASE FixSucceeds
        BY <1>1, <2>3, MaterialType, UpdatePoolType, SynchronisedType DEF FixSucceeds
    <2> QED BY <2>1, <2>2, <2>3 DEF FixStep
<1>5. /\ spool' \in Pool /\ rpool' \in Pool
      /\ due' \subseteq Names /\ asked' \subseteq Names /\ claimed' \subseteq Names
    BY <1>2, EmptyPoolType DEF TypeInv, TypeOK
<1> QED BY <1>2, <1>3, <1>4, <1>5, IterationType

\* The two ways out of the loop.  Without an iteration there is nothing to exhaust.
LEMMA TypeLeaveLoop == TypeInv /\ (Finish \/ Exhaust) => TypeInv'
<1> SUFFICES ASSUME TypeInv, Finish \/ Exhaust PROVE TypeInv'
    OBVIOUS
<1> USE DEF TypeInv, files
<1>1. tqueue' \in Queue
    BY EmptyQueueType, BoundsAssumption DEF Finish, Exhaust, QueueKnown, mem
<1>2. spool' \in Pool /\ rpool' \in Pool /\ pool' \in Pool
    BY EmptyPoolType DEF Finish, Exhaust, TypeOK, mem
<1>3. TypeOK'
    BY <1>1, <1>2, BoundsAssumption DEF Finish, Exhaust, TypeOK, Labels, history
<1>4. QueueKnown'
    BY <1>1 DEF Finish, Exhaust, QueueKnown, Saving
<1> QED BY <1>3, <1>4

LEMMA TypeSaveFirst == TypeInv /\ (SaveTqueue \/ SaveSpool \/ SaveRpool) => TypeInv'
<1> SUFFICES ASSUME TypeInv, SaveTqueue \/ SaveSpool \/ SaveRpool PROVE TypeInv'
    OBVIOUS
<1> USE DEF TypeInv, SaveTqueue, SaveSpool, SaveRpool, mem, history
<1>1. TypeOK'
    BY DEF TypeOK, Labels, QueueKnown, Saving
<1>2. QueueKnown'
    BY DEF QueueKnown, Saving
<1> QED BY <1>1, <1>2

LEMMA TypeSavePool == TypeInv /\ SavePool => TypeInv'
<1> SUFFICES ASSUME TypeInv, SavePool PROVE TypeInv'
    OBVIOUS
<1>1. /\ poolFile' \in Pool /\ ledger' \subseteq Names
      /\ UNCHANGED <<tqueueFile, spoolFile, rpoolFile, compFile, launches, asked, claimed>>
    BY DEF TypeInv, TypeOK, SavePool
<1>2. CASE AttemptFails
    <2>1. TypeOK'
        BY <1>1, <1>2, AttemptFailsType, EmptyPoolType, BoundsAssumption
           DEF TypeInv, TypeOK, Labels
    <2>2. QueueKnown'
        BY <1>2, AttemptFailsType DEF QueueKnown, Saving
    <2> QED BY <2>1, <2>2 DEF TypeInv
<1>3. CASE pc' \in {"comp", "loop"} /\ UNCHANGED <<attempt, iter, next, mem, result, due>>
    <2>1. TypeOK'
        BY <1>1, <1>3 DEF TypeInv, TypeOK, Labels, mem
    <2>2. QueueKnown'
        BY <1>3 DEF TypeInv, QueueKnown, Saving, SavePool, mem
    <2> QED BY <2>1, <2>2 DEF TypeInv
<1> QED BY <1>2, <1>3 DEF SavePool

LEMMA TypeStops == TypeInv /\ (SaveComp \/ CompFails \/ Crash) => TypeInv'
<1> SUFFICES ASSUME TypeInv, SaveComp \/ CompFails \/ Crash PROVE TypeInv'
    OBVIOUS
<1>1. pc' = "off" /\ DropMemory
    BY DEF SaveComp, CompFails, Crash
<1>2. /\ tqueueFile' \in Queue \cup {Missing, Torn}
      /\ spoolFile' \in Pool \cup {Missing, Torn}
      /\ rpoolFile' \in Pool \cup {Missing, Torn}
      /\ poolFile' \in Pool \cup {Missing, Torn}
    BY CutFilesType DEF TypeInv, TypeOK, SaveComp, CompFails, Crash, files
<1>3. compFile' \in Pool \cup {Missing, Torn}
    BY DEF TypeInv, TypeOK, SaveComp, CompFails, Crash, CutShort
<1>4. /\ result' \in {"none", "ok", "error", "reused"}
      /\ UNCHANGED <<attempt, launches, ledger, asked, claimed>>
    BY DEF TypeInv, TypeOK, SaveComp, CompFails, Crash
<1>5. TypeOK'
    BY <1>1, <1>2, <1>3, <1>4, EmptyPoolType, BoundsAssumption
       DEF TypeInv, TypeOK, Labels, DropMemory
<1>6. QueueKnown'
    BY <1>1 DEF QueueKnown, Saving
<1> QED BY <1>5, <1>6 DEF TypeInv

LEMMA TypeStutter == TypeInv /\ UNCHANGED vars => TypeInv'
BY DEF TypeInv, TypeOK, QueueKnown, Saving, vars, mem, files, history

LEMMA TypeStep == TypeInv /\ [Next]_vars => TypeInv'
BY TypeLaunch, TypeBegin, TypeFails, TypeOutline, TypeGenerate, TypeFix, TypeLeaveLoop,
   TypeSaveFirst, TypeSavePool, TypeStops, TypeStutter
   DEF Next, Work, Save

LEMMA TypeInvariant == Spec => []TypeInv
BY TypeInit, TypeStep, PTL DEF Spec

\* Every variable stays in its range, with every fault and for every agent.
THEOREM TypeCorrect == Spec => []TypeOK
<1>1. TypeInv => TypeOK
    BY DEF TypeInv
<1> QED BY <1>1, TypeInvariant, PTL

-----------------------------------------------------------------------------
(***************************************************************************)
(* What is checked stays.  ValidIsPoolsOrClaimed is about the memory, but  *)
(* a resumed attempt takes its memory from files that were not written at  *)
(* one moment; so the invariant has to say what the files agree on at any  *)
(* moment, and that needs to know how the memory relates to them.          *)
(***************************************************************************)
\* Every valid element of s is the one p has.
Agree(s, p) == \A n \in Names : s[n].valid => p[n] = s[n]

\* Every valid element of s that nobody claimed to be valid is.
AgreeBut(C, s, p) == \A n \in Names \ C : s[n].valid => p[n] = s[n]

\* The Pool a resumed attempt would start with.
SavedPool == OrElse(poolFile, EmptyPool)

FilesAgree == spoolFile \in Pool /\ poolFile # Torn => AgreeBut(claimed, spoolFile, SavedPool)

\* Only a fix changes the Pool, and it leaves no spool: between two fixes .pool is
\* the Pool, and after a fix .spool is written empty before .pool is.
MemoryOfFiles ==
    /\ Live => poolFile # Torn /\ Agree(SavedPool, pool)
    /\ pc = "loop" => pool = SavedPool
    /\ Saving => spool = EmptyPool \/ pool = SavedPool
    /\ pc \in {"saveRpool", "savePool"} => spoolFile = spool

KeepInv == /\ TypeInv
           /\ ValidIsPoolsOrClaimed
           /\ Resume => FilesAgree /\ MemoryOfFiles

LEMMA EmptyAgrees == ASSUME NEW p, NEW C PROVE AgreeBut(C, EmptyPool, p)
BY AbsentIsNoElem DEF AgreeBut, EmptyPool

LEMMA KeepInit == Init => KeepInv
<1> SUFFICES ASSUME Init PROVE KeepInv
    OBVIOUS
<1>1. pc = "off" /\ spoolFile \notin Pool
    BY MarksAssumption DEF Init
<1> QED BY <1>1, TypeInit
        DEF KeepInv, ValidIsPoolsOrClaimed, Live, FilesAgree, MemoryOfFiles, Saving

\* An attempt stops: each file is what it was, or torn.
LEMMA KeepStops ==
    ASSUME KeepInv, TypeInv', pc' \in {"off", "begin"},
           spoolFile' \in {spoolFile, Torn}, poolFile' \in {poolFile, Torn}, UNCHANGED claimed
    PROVE  KeepInv'
<1>1. ~Live' /\ ~Saving'
    BY DEF Live, Saving
<1>2. ASSUME Resume, spoolFile' \in Pool, poolFile' # Torn
      PROVE  AgreeBut(claimed', spoolFile', SavedPool')
    <2>1. spoolFile' = spoolFile /\ poolFile' = poolFile
        BY <1>2, MarksAssumption
    <2> QED BY <1>2, <2>1 DEF KeepInv, FilesAgree, SavedPool, AgreeBut, OrElse
<1> QED BY <1>1, <1>2 DEF KeepInv, ValidIsPoolsOrClaimed, FilesAgree, MemoryOfFiles, Live

LEMMA KeepOff ==
    KeepInv /\ (Launch \/ BeginFails \/ StepFails \/ WriteFails
                \/ SaveComp \/ CompFails \/ Crash) => KeepInv'
<1> SUFFICES ASSUME KeepInv, \/ Launch \/ BeginFails \/ StepFails \/ WriteFails
                             \/ SaveComp \/ CompFails \/ Crash
             PROVE  KeepInv'
    OBVIOUS
<1>1. TypeInv'
    BY TypeLaunch, TypeFails, TypeStops DEF KeepInv
<1>2. pc' \in {"off", "begin"}
    BY DEF Launch, BeginFails, StepFails, WriteFails, SaveComp, CompFails, Crash,
           AttemptFails
<1>3. spoolFile' \in {spoolFile, Torn} /\ poolFile' \in {poolFile, Torn} /\ UNCHANGED claimed
    BY DEF Launch, BeginFails, StepFails, WriteFails, SaveComp, CompFails, Crash,
           CutFiles, CutShort, files, history
<1> QED BY <1>1, <1>2, <1>3, KeepStops

LEMMA KeepBegin == KeepInv /\ Begin => KeepInv'
<1> SUFFICES ASSUME KeepInv, Begin PROVE KeepInv'
    OBVIOUS
<1>1. TypeInv'
    BY TypeBegin DEF KeepInv
<1>2. pc' = "loop" /\ UNCHANGED <<spoolFile, poolFile>>
    BY DEF Begin, files
<1>3. CASE Resume
    <2>1. /\ spool' = OrElse(spoolFile, EmptyPool) /\ pool' = SavedPool
          /\ spoolFile # Torn /\ poolFile # Torn /\ UNCHANGED claimed
        BY <1>3 DEF Begin, FilesReadable, SavedPool
    <2>2. AgreeBut(claimed', spool', pool')
        <3>1. CASE spoolFile = Missing
            BY <2>1, <3>1, EmptyAgrees DEF OrElse
        <3>2. CASE spoolFile # Missing
            BY <1>3, <2>1, <3>2 DEF KeepInv, TypeInv, TypeOK, FilesAgree, OrElse
        <3> QED BY <3>1, <3>2
    <2>3. SavedPool' = SavedPool /\ FilesAgree'
        BY <1>2, <1>3, <2>1 DEF KeepInv, FilesAgree, SavedPool, OrElse, AgreeBut
    <2> QED BY <1>1, <1>2, <2>1, <2>2, <2>3
            DEF KeepInv, ValidIsPoolsOrClaimed, MemoryOfFiles, Agree, AgreeBut, Saving
<1>4. CASE ~Resume
    BY <1>1, <1>2, <1>4, EmptyAgrees DEF Begin, KeepInv, ValidIsPoolsOrClaimed, AgreeBut
<1> QED BY <1>3, <1>4

\* A step of the loop that leaves the Pool as it is.
LEMMA KeepSamePool ==
    ASSUME KeepInv, TypeInv', pc = "loop", pc' = "saveTqueue",
           UNCHANGED <<pool, spoolFile, poolFile>>, claimed \subseteq claimed',
           AgreeBut(claimed', spool', pool)
    PROVE  KeepInv'
<1>1. ValidIsPoolsOrClaimed'
    BY DEF ValidIsPoolsOrClaimed, AgreeBut
<1>2. ASSUME Resume PROVE FilesAgree' /\ MemoryOfFiles'
    BY <1>2 DEF KeepInv, FilesAgree, MemoryOfFiles, SavedPool, OrElse, Agree, AgreeBut, Live, Saving
<1> QED BY <1>1, <1>2 DEF KeepInv

\* A step that empties the spool and keeps the valid elements of the Pool.
LEMMA KeepEmptySpool ==
    ASSUME KeepInv, TypeInv', pc = "loop", pc' = "saveTqueue",
           UNCHANGED <<spoolFile, poolFile, claimed>>, spool' = EmptyPool, Agree(pool, pool')
    PROVE  KeepInv'
<1>1. ValidIsPoolsOrClaimed'
    BY EmptyAgrees DEF ValidIsPoolsOrClaimed, AgreeBut
<1>2. ASSUME Resume PROVE FilesAgree' /\ MemoryOfFiles'
    BY <1>2 DEF KeepInv, FilesAgree, MemoryOfFiles, SavedPool, OrElse, Agree, AgreeBut, Live, Saving
<1> QED BY <1>1, <1>2 DEF KeepInv

LEMMA MemoryAgrees == KeepInv /\ pc = "loop" => AgreeBut(claimed, spool, pool)
BY DEF KeepInv, ValidIsPoolsOrClaimed, Live, AgreeBut

LEMMA KeepOutline == KeepInv /\ Outline => KeepInv'
<1> SUFFICES ASSUME KeepInv, Outline PROVE KeepInv'
    OBVIOUS
<1>1. TypeInv'
    BY TypeOutline DEF KeepInv
<1>2. /\ pc = "loop" /\ pc' = "saveTqueue"
      /\ UNCHANGED <<spool, pool, spoolFile, poolFile, claimed>>
    BY DEF Outline, Iteration, files
<1> QED BY <1>1, <1>2, MemoryAgrees, KeepSamePool

LEMMA KeepGenerate == KeepInv /\ GenerateStep => KeepInv'
<1> SUFFICES ASSUME KeepInv, NEW t \in Task,
                    \/ GenerateSkip(t) \/ GenerateReuse(t) \/ GenerateFromPool(t)
                    \/ GenerateDuplicate(t) \/ GenerateNew(t)
             PROVE  KeepInv'
    BY DEF GenerateStep
<1>1. TypeInv'
    BY TypeGenerate DEF KeepInv, GenerateStep
<1>2. pc = "loop" /\ pc' = "saveTqueue" /\ UNCHANGED <<pool, spoolFile, poolFile>>
    BY DEF GenerateSkip, GenerateReuse, GenerateFromPool, GenerateDuplicate, GenerateNew,
           Generate, Iteration, files
<1>3. claimed \subseteq claimed' /\ AgreeBut(claimed', spool', pool)
    <2>1. spool \in Pool /\ AgreeBut(claimed, spool, pool)
        BY <1>2, MemoryAgrees DEF KeepInv, TypeInv, TypeOK
    <2>2. CASE UNCHANGED <<spool, claimed>>
        BY <2>1, <2>2
    <2>3. CASE GenerateFromPool(t)
        BY <2>1, <2>3 DEF GenerateFromPool, Insert, AgreeBut, Pool
    <2>4. CASE GenerateNew(t)
        <3>1. PICK a \in Answers : spool' = Merge(spool, a.spec) /\ claimed' = claimed \cup ClaimedIn(a.spec)
            BY <2>4 DEF GenerateNew
        <3> QED BY <2>1, <3>1 DEF Merge, ClaimedIn, AgreeBut
    <2> QED BY <2>2, <2>3, <2>4 DEF GenerateSkip, GenerateReuse, GenerateDuplicate
<1> QED BY <1>1, <1>2, <1>3, KeepSamePool

\* Whatever a fix step adds to the Pool, it keeps what is valid in it.
LEMMA FixKeepsValid ==
    ASSUME TypeInv, FixStep
    PROVE  Agree(pool, pool')
<1>1. pool \in Pool
    BY DEF TypeInv, TypeOK
<1>2. CASE UNCHANGED pool
    BY <1>2 DEF Agree
<1>3. ASSUME NEW material, pool' = UpdatePool(pool, material)
      PROVE  Agree(pool, pool')
    BY <1>1, <1>3, UpdatePoolKeepsValid DEF Agree
<1> QED BY <1>2, <1>3 DEF FixStep, FixNothing, FixSkipped, FixFails, FixSucceeds, KeepUnfixed

LEMMA KeepFix == KeepInv /\ FixStep => KeepInv'
<1> SUFFICES ASSUME KeepInv, FixStep PROVE KeepInv'
    OBVIOUS
<1>1. TypeInv'
    BY TypeFix DEF KeepInv
<1>2. /\ pc = "loop" /\ pc' = "saveTqueue" /\ spool' = EmptyPool
      /\ UNCHANGED <<spoolFile, poolFile, claimed>>
    BY DEF FixStep, FixNothing, FixSkipped, FixFails, FixSucceeds, KeepUnfixed, Iteration,
           files
<1>3. Agree(pool, pool')
    BY FixKeepsValid DEF KeepInv
<1> QED BY <1>1, <1>2, <1>3, KeepEmptySpool

LEMMA KeepLeaveLoop == KeepInv /\ (Finish \/ Exhaust) => KeepInv'
<1> SUFFICES ASSUME KeepInv, Finish \/ Exhaust PROVE KeepInv'
    OBVIOUS
<1>1. TypeInv'
    BY TypeLeaveLoop DEF KeepInv
<1>2. /\ pc = "loop" /\ pc' = "saveTqueue" /\ spool' \in {spool, EmptyPool}
      /\ UNCHANGED <<pool, spoolFile, poolFile, claimed>>
    BY DEF Finish, Exhaust, mem, files, history
<1> QED BY <1>1, <1>2, MemoryAgrees, EmptyAgrees, KeepSamePool

LEMMA KeepSave ==
    KeepInv /\ (SaveTqueue \/ SaveSpool \/ SaveRpool \/ SavePool) => KeepInv'
<1> SUFFICES ASSUME KeepInv, SaveTqueue \/ SaveSpool \/ SaveRpool \/ SavePool
             PROVE  KeepInv'
    OBVIOUS
<1>1. TypeInv'
    BY TypeSaveFirst, TypeSavePool DEF KeepInv
<1>2. Live /\ Saving /\ AgreeBut(claimed, spool, pool) /\ UNCHANGED claimed
    BY DEF SaveTqueue, SaveSpool, SaveRpool, SavePool, KeepInv, ValidIsPoolsOrClaimed, Live,
           Saving, AgreeBut, history
<1>3. CASE SaveTqueue \/ SaveRpool
    BY <1>1, <1>2, <1>3
       DEF SaveTqueue, SaveRpool, KeepInv, ValidIsPoolsOrClaimed, FilesAgree, MemoryOfFiles,
           SavedPool, OrElse, Agree, AgreeBut, Live, Saving, mem
<1>4. CASE SaveSpool
    <2>1. UNCHANGED <<poolFile, spool, pool>> /\ spoolFile' = spool
        BY <1>4 DEF SaveSpool, mem
    <2>2. ASSUME Resume PROVE AgreeBut(claimed, spool, SavedPool)
        BY <1>2, <2>2, EmptyAgrees DEF KeepInv, MemoryOfFiles
    <2> QED BY <1>1, <1>2, <1>4, <2>1, <2>2
            DEF SaveSpool, KeepInv, ValidIsPoolsOrClaimed, FilesAgree, MemoryOfFiles,
                SavedPool, OrElse, Agree, AgreeBut, Live, Saving
<1>5. CASE SavePool
    <2>1. poolFile' = pool /\ UNCHANGED spoolFile /\ pool \in Pool
        BY <1>5 DEF SavePool, KeepInv, TypeInv, TypeOK
    <2>2. pool # Missing /\ pool # Torn
        BY <2>1, MarksAssumption
    <2>3. Resume => FilesAgree'
        BY <1>2, <1>5, <2>1, <2>2
           DEF SavePool, KeepInv, FilesAgree, MemoryOfFiles, SavedPool, OrElse, AgreeBut
    <2>4. CASE AttemptFails
        BY <1>1, <2>3, <2>4
           DEF AttemptFails, KeepInv, ValidIsPoolsOrClaimed, MemoryOfFiles, Live, Saving
    <2>5. CASE pc' \in {"comp", "loop"} /\ UNCHANGED mem
        BY <1>1, <1>2, <2>1, <2>2, <2>3, <2>5
           DEF KeepInv, ValidIsPoolsOrClaimed, MemoryOfFiles, SavedPool, OrElse, Agree,
               AgreeBut, Saving, mem
    <2> QED BY <1>5, <2>4, <2>5 DEF SavePool
<1> QED BY <1>3, <1>4, <1>5

LEMMA KeepStutter == KeepInv /\ UNCHANGED vars => KeepInv'
<1> SUFFICES ASSUME KeepInv, UNCHANGED vars PROVE KeepInv'
    OBVIOUS
<1> USE DEF vars, mem, files, history
<1>1. TypeInv'
    BY TypeStutter DEF KeepInv
<1>2. ValidIsPoolsOrClaimed'
    BY DEF KeepInv, ValidIsPoolsOrClaimed, Live
<1>3. ASSUME Resume PROVE FilesAgree' /\ MemoryOfFiles'
    <2>1. FilesAgree'
        BY <1>3 DEF KeepInv, FilesAgree, SavedPool, OrElse, AgreeBut
    <2>2. MemoryOfFiles'
        BY <1>3 DEF KeepInv, MemoryOfFiles, SavedPool, OrElse, Agree, Live, Saving
    <2> QED BY <2>1, <2>2
<1> QED BY <1>1, <1>2, <1>3 DEF KeepInv

LEMMA KeepStep == KeepInv /\ [Next]_vars => KeepInv'
BY KeepOff, KeepBegin, KeepOutline, KeepGenerate, KeepFix, KeepLeaveLoop, KeepSave,
   KeepStutter
   DEF Next, Work, Save

LEMMA KeepInvariant == Spec => []KeepInv
BY KeepInit, KeepStep, PTL DEF Spec

\* A valid element of the spool is a copy of the Pool's in every attempt, but for those the
\* agent itself said to be valid: of any other, nothing is lost when the spool is cleared
\* without looking (fix.go:39-43, generate.go:91-98).
THEOREM SpoolIsSafeToClear == Spec => []ValidIsPoolsOrClaimed
<1>1. KeepInv => ValidIsPoolsOrClaimed
    BY DEF KeepInv
<1> QED BY <1>1, KeepInvariant, PTL

-----------------------------------------------------------------------------
\* A valid element of .pool outlives every step, failed write, crash and restart of a
\* resumed entry, unless the file is torn (stage.go:220-237, stage.go:77-105).
THEOREM SavedValidStays == Spec => ValidElementsStay
<1>1. ASSUME KeepInv, [Next]_vars
      PROVE  [\A n \in Names :
                (Resume /\ poolFile \in Pool /\ poolFile[n].valid)
                   => poolFile' = Torn \/ poolFile'[n] = poolFile[n]]_vars
    <2> SUFFICES ASSUME Next, NEW n \in Names,
                        Resume, poolFile \in Pool, poolFile[n].valid
                 PROVE  poolFile' = Torn \/ poolFile'[n] = poolFile[n]
        BY <1>1
    <2>1. CASE SavePool
        <3>1. Agree(SavedPool, pool) /\ poolFile # Missing
            BY <1>1, <2>1, MarksAssumption DEF SavePool, KeepInv, MemoryOfFiles, Live
        <3> QED BY <2>1, <3>1 DEF SavePool, SavedPool, OrElse, Agree
    <2>2. CASE WriteFails \/ Crash
        BY <2>2 DEF WriteFails, Crash, CutFiles, CutShort
    <2>3. CASE ~SavePool /\ ~WriteFails /\ ~Crash
        <3>1. UNCHANGED poolFile
            BY <2>3 DEF Next, Work, Save, Launch, Begin, BeginFails, Outline,
                        GenerateStep, GenerateSkip, GenerateReuse, GenerateFromPool,
                        GenerateDuplicate, GenerateNew, Generate, FixStep, FixNothing,
                        FixSkipped, FixFails, FixSucceeds, Iteration, StepFails, Finish,
                        Exhaust, SaveTqueue, SaveSpool, SaveRpool, SaveComp, CompFails,
                        files
        <3> QED BY <3>1
    <2> QED BY <2>1, <2>2, <2>3
<1> QED BY <1>1, KeepInvariant, PTL DEF Spec, ValidElementsStay

\* What was reused from sysdir is kept out of the Pool by every way a fix step has to
\* add to it (fix.go:93).
THEOREM ReusedKeptOut == Spec => ReusedStaysOut
<1>1. ASSUME [Next]_vars
      PROVE  [\A n \in Names : (Live /\ Exists(rpool, n) /\ ~Exists(pool, n))
                => ~Exists(pool', n)]_vars
    <2> SUFFICES ASSUME Next, NEW n \in Names, Live, Exists(rpool, n), ~Exists(pool, n)
                 PROVE  ~Exists(pool', n)
        BY <1>1
    <2>1. CASE FixStep
        <3>1. CASE UNCHANGED pool
            BY <3>1
        <3>2. ASSUME NEW p, pool' = UpdatePool(pool, Material(p))
              PROVE  ~Exists(pool', n)
            <4>1. ~Exists(Material(p), n)
                BY DEF Material, Difference, Exists
            <4> QED BY <3>2, <4>1, UpdatePoolAdds
        <3> QED BY <2>1, <3>1, <3>2
                DEF FixStep, FixNothing, FixSkipped, FixFails, FixSucceeds, KeepUnfixed
    <2>2. CASE DropMemory
        BY <2>2 DEF DropMemory, EmptyPool, Exists
    <2>3. CASE ~FixStep /\ ~DropMemory
        <3>1. UNCHANGED pool
            BY <2>3 DEF Live, Next, Work, Save, Launch, Begin, BeginFails, Outline,
                        GenerateStep, GenerateSkip, GenerateReuse, GenerateFromPool,
                        GenerateDuplicate, GenerateNew, StepFails, Finish, Exhaust,
                        SaveTqueue, SaveSpool, SaveRpool, SavePool, SaveComp, WriteFails,
                        CompFails, Crash, AttemptFails, mem
        <3> QED BY <3>1
    <2> QED BY <2>1, <2>2, <2>3
<1> QED BY <1>1, PTL DEF Spec, ReusedStaysOut

\* NextStep chooses "generate" only when there is a task to pop (stage.go:187-190): an
\* empty queue with elements in the spool is fixed, and without them complete.
THEOREM GenerateIsEnabled == Spec => []GenerateFindsTask
<1>1. ASSUME TypeInv PROVE GenerateFindsTask
    <2> SUFFICES ASSUME pc = "loop", NextStep = "generate"
                 PROVE  \E t \in Task : IsTop(tqueue, t)
        BY DEF GenerateFindsTask
    <2>1. tqueue \in Queue
        BY <1>1 DEF TypeInv, TypeOK, NextStep
    <2>2. ~IsEmptyQueue(tqueue)
        BY DEF NextStep, ShouldFix
    <2> QED BY <2>1, <2>2, TopExists
<1> QED BY <1>1, TypeInvariant, PTL

-----------------------------------------------------------------------------
(***************************************************************************)
(* What a resumed entry accounts for, with an agent that writes what it is *)
(* asked, as long as nothing interrupts WriteCurrStat between its files.   *)
(***************************************************************************)
Interrupted == Saving /\ (WriteFails \/ Crash)

MemoryTracked == Tracked(IF tqueue = Nil THEN EmptyQueue ELSE tqueue, spool, rpool, pool)

\* Between two steps the files say what the memory does.
AtRest == pc \in {"loop", "comp"}

FilesMatch ==
    /\ tqueue = OrElse(tqueueFile, Nil) /\ spool = OrElse(spoolFile, EmptyPool)
    /\ rpool = OrElse(rpoolFile, EmptyPool) /\ pool = SavedPool

FilesSoFar ==
    /\ FilesReadable /\ (AtRest => FilesMatch)
    /\ pc \in {"saveSpool", "saveRpool", "savePool"} => tqueueFile = tqueue
    /\ pc \in {"saveRpool", "savePool"} => spoolFile = spool
    /\ pc = "savePool" => rpoolFile = rpool

\* Only what sysdir describes is reused.
ReusedIsKnown ==
    \A n \in Names : /\ Exists(rpool, n) => n \in SyzNames
                     /\ rpoolFile \in Pool /\ Exists(rpoolFile, n) => n \in SyzNames

\* The loop completes with nothing left to do.
CompleteIsEmpty ==
    /\ (Saving /\ next = "complete") \/ pc = "comp" => tqueue = EmptyQueue /\ spool = EmptyPool
    /\ pc = "loop" => next # "complete"

Accounted ==
    /\ Live => (due \cup ledger) \ SyzNames \subseteq MemoryTracked
    /\ ~Saving => ledger \ SyzNames \subseteq FilesTracked

\* What the agent has answered for is where MustAsk looks.
AnswersKept ==
    \A n \in asked :
        /\ n \notin SyzNames
        /\ Live => Exists(spool, n) \/ Exists(pool, n)
        /\ ~Live => Exists(OrElse(spoolFile, EmptyPool), n) \/ Exists(SavedPool, n)

\* An entry with a specification is not begun again.
CompIsLast ==
    /\ pc # "off" => compFile = Missing
    /\ compFile \in Pool => \A n \in ledger \ SyzNames : Exists(compFile, n)

AccountInv ==
    /\ KeepInv /\ FilesSoFar /\ ReusedIsKnown /\ CompleteIsEmpty
    /\ Accounted /\ AnswersKept /\ CompIsLast

LEMMA TrackedIf ==
    ASSUME NEW q, NEW s, NEW r, NEW p, NEW n \in Names
    PROVE  n \in Tracked(q, s, r, p)
              <=> \/ \E t \in Task : t.name = n /\ InQueue(q, t)
                  \/ Exists(s, n) \/ Exists(r, n) \/ Exists(p, n)
BY DEF Tracked

LEMMA MatchTracked == TypeInv /\ FilesReadable /\ FilesMatch => MemoryTracked = FilesTracked
<1> SUFFICES ASSUME TypeInv, FilesReadable, FilesMatch PROVE MemoryTracked = FilesTracked
    OBVIOUS
<1>1. (IF tqueue = Nil THEN EmptyQueue ELSE tqueue) = OrElse(tqueueFile, EmptyQueue)
    BY MarksAssumption DEF TypeInv, TypeOK, FilesReadable, FilesMatch, OrElse
<1> QED BY <1>1 DEF FilesMatch, SavedPool, MemoryTracked, FilesTracked

LEMMA AccountInit == Init => AccountInv
<1> SUFFICES ASSUME Init PROVE AccountInv
    OBVIOUS
<1>1. KeepInv
    BY KeepInit
<1>2. tqueueFile # Torn /\ Missing # Torn
    BY OutlinesAssumption, MarksAssumption DEF Init
<1>3. FilesSoFar /\ ReusedIsKnown /\ CompleteIsEmpty
    BY <1>2, MarksAssumption
       DEF Init, FilesSoFar, FilesReadable, AtRest, ReusedIsKnown, CompleteIsEmpty, Saving, EmptyPool, Exists
<1>4. Accounted /\ AnswersKept /\ CompIsLast
    BY DEF Init, Accounted, AnswersKept, CompIsLast, Live
<1> QED BY <1>1, <1>3, <1>4 DEF AccountInv

\* An attempt that stops between two steps leaves the files as they are.
LEMMA AccountStops ==
    ASSUME AccountInv, KeepInv', CompIsLast', ~Saving, pc' \in {"off", "begin"},
           UNCHANGED <<files, ledger, asked>>, rpool' \in {rpool, EmptyPool}
    PROVE  AccountInv'
<1> USE DEF files
<1>1. ~Live' /\ ~Saving' /\ ~AtRest' /\ pc' # "comp"
    BY DEF Live, Saving, AtRest
<1>2. FilesSoFar' /\ CompleteIsEmpty'
    BY <1>1 DEF AccountInv, FilesSoFar, FilesReadable, CompleteIsEmpty
<1>3. ReusedIsKnown'
    BY DEF AccountInv, ReusedIsKnown, EmptyPool, Exists
<1>4. Accounted'
    <2>1. FilesTracked' = FilesTracked
        BY DEF FilesTracked
    <2> QED BY <1>1, <2>1 DEF AccountInv, Accounted
<1>5. AnswersKept'
    <2>1. SavedPool' = SavedPool /\ (Live => spool = OrElse(spoolFile, EmptyPool) /\ pool = SavedPool)
        <3>1. Live => AtRest
            BY DEF AtRest, Live, Saving, AccountInv, KeepInv, TypeInv, TypeOK, Labels
        <3> QED BY <3>1 DEF AccountInv, FilesSoFar, FilesMatch, SavedPool
    <2> QED BY <1>1, <2>1 DEF AccountInv, AnswersKept
<1> QED BY <1>2, <1>3, <1>4, <1>5 DEF AccountInv

LEMMA AccountOff ==
    ASSUME AccountInv, Launch \/ BeginFails \/ StepFails \/ CompFails \/ Crash, Resume, ~Interrupted
    PROVE  AccountInv'
<1>1. KeepInv'
    BY KeepOff DEF AccountInv
<1>2. ~Saving
    BY DEF Launch, BeginFails, StepFails, CompFails, Interrupted, Saving
<1>3. pc' \in {"off", "begin"} /\ UNCHANGED <<ledger, asked>> /\ rpool' \in {rpool, EmptyPool}
    BY DEF Launch, BeginFails, StepFails, CompFails, Crash, AttemptFails, DropMemory, mem, history
<1>4. UNCHANGED files
    BY <1>2 DEF Launch, BeginFails, StepFails, CompFails, Crash, CutFiles, CutShort, Saving, files
<1>5. CompIsLast'
    <2>1. CASE Launch
        BY <2>1 DEF Launch, history, AccountInv, CompIsLast
    <2>2. CASE BeginFails \/ StepFails
        BY <2>2 DEF BeginFails, StepFails, AccountInv, CompIsLast
    <2>3. CASE CompFails \/ Crash
        <3>1. pc' = "off" /\ compFile' \in {Missing, Torn}
            BY <2>3 DEF CompFails, Crash, CutShort, AccountInv, CompIsLast
        <3> QED BY <3>1, MarksAssumption DEF CompIsLast
    <2> QED BY <2>1, <2>2, <2>3
<1> QED BY <1>1, <1>2, <1>3, <1>4, <1>5, AccountStops

LEMMA AccountSaveComp ==
    ASSUME AccountInv, SaveComp
    PROVE  AccountInv'
<1>1. KeepInv'
    BY KeepOff DEF AccountInv
<1>2. pc = "comp" /\ pc' = "off" /\ compFile' = pool /\ rpool' = EmptyPool /\ UNCHANGED <<files, ledger, asked>>
    BY DEF SaveComp, DropMemory
<1>3. ASSUME NEW n \in ledger \ SyzNames
      PROVE  Exists(pool, n)
    <2>1. n \in Names /\ n \in MemoryTracked
        BY <1>2 DEF AccountInv, KeepInv, TypeInv, TypeOK, Accounted, Live
    <2>2. tqueue = EmptyQueue /\ spool = EmptyPool /\ ~Exists(rpool, n)
        BY <1>2, <1>3, <2>1 DEF AccountInv, CompleteIsEmpty, ReusedIsKnown
    <2>3. ~\E t \in Task : InQueue(EmptyQueue, t)
        BY DEF EmptyQueue, InQueue
    <2>4. ~Exists(EmptyPool, n)
        BY <2>1 DEF EmptyPool, Exists
    <2> QED BY <2>1, <2>2, <2>3, <2>4, TrackedIf DEF MemoryTracked
<1>4. CompIsLast'
    BY <1>2, <1>3 DEF CompIsLast
<1>5. ~Saving
    BY <1>2 DEF Saving
<1> QED BY <1>1, <1>2, <1>4, <1>5, AccountStops

LEMMA AccountBegin ==
    ASSUME AccountInv, Begin, Resume
    PROVE  AccountInv'
<1> USE DEF files
<1>1. KeepInv' /\ pc = "begin" /\ pc' = "loop" /\ ~Saving' /\ ~Saving /\ ~Live
    BY KeepBegin DEF AccountInv, Begin, Saving, Live
<1>2. /\ next' = "outline"
      /\ UNCHANGED <<tqueueFile, spoolFile, rpoolFile, poolFile, compFile, ledger, asked>>
      /\ FilesMatch' /\ due' = FilesTracked /\ FilesReadable
    BY DEF Begin, FilesMatch, SavedPool
<1>3. FilesSoFar' /\ CompleteIsEmpty' /\ CompIsLast'
    BY <1>1, <1>2 DEF AccountInv, FilesSoFar, FilesReadable, CompleteIsEmpty, CompIsLast
<1>4. ReusedIsKnown'
    <2>1. rpool' = rpoolFile \/ rpool' = EmptyPool
        BY <1>2 DEF FilesMatch, OrElse
    <2> QED BY <1>1, <1>2, <2>1 DEF AccountInv, KeepInv, TypeInv, TypeOK, ReusedIsKnown, EmptyPool, Exists
<1>5. Accounted'
    <2>1. (TypeInv /\ FilesReadable /\ FilesMatch => MemoryTracked = FilesTracked)'
        BY MatchTracked, PTL
    <2>2. MemoryTracked' = FilesTracked' /\ FilesTracked' = FilesTracked
        BY <1>1, <1>2, <1>3, <2>1 DEF FilesTracked, FilesSoFar, KeepInv
    <2> QED BY <1>1, <1>2, <2>2 DEF AccountInv, Accounted
<1>6. AnswersKept'
    BY <1>1, <1>2 DEF AccountInv, AnswersKept, FilesMatch, SavedPool
<1> QED BY <1>1, <1>3, <1>4, <1>5, <1>6 DEF AccountInv

\* A step of the loop, and what it has to show of the memory it leaves.
LEMMA AccountIteration ==
    ASSUME AccountInv, KeepInv', pc = "loop", pc' = "saveTqueue", UNCHANGED <<files, compFile, ledger>>,
           \A n \in Names : Exists(rpool', n) => n \in SyzNames,
           next' = "complete" => tqueue' = EmptyQueue /\ spool' = EmptyPool,
           (due' \cup ledger) \ SyzNames \subseteq MemoryTracked',
           \A n \in asked' : n \notin SyzNames /\ (Exists(spool', n) \/ Exists(pool', n))
    PROVE  AccountInv'
<1> USE DEF files
<1>1. Live' /\ Saving' /\ ~AtRest' /\ pc' # "comp"
    BY DEF Live, Saving, AtRest
<1>2. FilesSoFar' /\ CompleteIsEmpty' /\ CompIsLast'
    BY <1>1 DEF AccountInv, FilesSoFar, FilesReadable, CompleteIsEmpty, CompIsLast
<1>3. ReusedIsKnown' /\ Accounted' /\ AnswersKept'
    BY <1>1 DEF AccountInv, ReusedIsKnown, Accounted, AnswersKept
<1> QED BY <1>2, <1>3 DEF AccountInv

LEMMA AccountOutline ==
    ASSUME AccountInv, Outline
    PROVE  AccountInv'
<1>1. KeepInv'
    BY KeepOutline DEF AccountInv
<1>2. /\ pc = "loop" /\ pc' = "saveTqueue" /\ tqueue = Nil /\ next' = "outline"
      /\ due' = due \cup TaskNames({t \in Task : InQueue(tqueue', t)})
      /\ UNCHANGED <<files, compFile, ledger, spool, rpool, pool, asked>>
    BY DEF Outline, Iteration, NextStep, ShouldFix
<1>3. tqueue' \in Queue /\ tqueue' # Nil
    BY OutlinesAssumption, MarksAssumption DEF Outline
<1>4. (due' \cup ledger) \ SyzNames \subseteq MemoryTracked'
    <2>1. ASSUME NEW n \in (due \cup ledger) \ SyzNames PROVE n \in MemoryTracked'
        <3>1. n \in Names /\ n \in MemoryTracked
            BY <1>2 DEF AccountInv, KeepInv, TypeInv, TypeOK, Accounted, Live
        <3>2. ~\E t \in Task : InQueue(EmptyQueue, t)
            BY DEF EmptyQueue, InQueue
        <3> QED BY <1>2, <3>1, <3>2, TrackedIf DEF MemoryTracked
    <2>2. ASSUME NEW t \in Task, InQueue(tqueue', t) PROVE t.name \in MemoryTracked'
        BY <1>3, <2>2, TaskNamesAssumption, TrackedIf DEF MemoryTracked
    <2> QED BY <1>2, <2>1, <2>2 DEF TaskNames
<1>5. /\ \A n \in Names : Exists(rpool', n) => n \in SyzNames
      /\ \A n \in asked' : n \notin SyzNames /\ (Exists(spool', n) \/ Exists(pool', n))
    BY <1>2 DEF AccountInv, ReusedIsKnown, AnswersKept, Live
<1> QED BY <1>1, <1>2, <1>4, <1>5, AccountIteration

\* Taking a task off leaves every other in the queue.
LEMMA PopKeeps ==
    ASSUME NEW q \in Queue, NEW t \in Task, NEW u \in Task, u # t, InQueue(q, u)
    PROVE  InQueue(PopTask(q, t), u)
BY DEF Queue, PopTask, InQueue

LEMMA PushKeeps ==
    ASSUME NEW q \in Queue, NEW S, NEW u \in Task, InQueue(q, u) \/ u \in S
    PROVE  InQueue(PushAll(q, S), u)
BY DEF Queue, PushAll, InQueue

LEMMA AccountGenerateNew ==
    ASSUME AccountInv, NEW t \in Task, GenerateNew(t), Complete
    PROVE  AccountInv'
<1>1. KeepInv'
    BY KeepGenerate DEF AccountInv, GenerateStep
<1>2. PICK a \in Answers :
          /\ t.name \in NamesIn(a.spec)
          /\ tqueue' = AfterAnswer(tqueue, t, a.required)
          /\ spool' = Merge(spool, a.spec)
          /\ due' = due \cup NamesIn(a.spec) \cup TaskNames(a.required)
    BY DEF GenerateNew
<1>3. a.spec \in Pool /\ a.required \subseteq Task
    BY AnswersAssumption
<1>4. /\ pc = "loop" /\ pc' = "saveTqueue" /\ next' = "generate"
      /\ UNCHANGED <<files, compFile, ledger, rpool, pool>> /\ asked' = asked \cup {t.name} /\ MustAsk(t)
    BY DEF GenerateNew, Generate, Iteration
<1>5. tqueue \in Queue /\ PopTask(tqueue, t) \in Queue /\ tqueue' \in Queue /\ Nil \notin Queue /\ spool \in Pool
    BY <1>2, GenerateQueue, PushAllType, MarksAssumption
       DEF GenerateNew, AfterAnswer, AccountInv, KeepInv, TypeInv, TypeOK
<1>6. \A n \in Names : Exists(spool, n) \/ n \in NamesIn(a.spec) => Exists(spool', n)
    BY <1>2, <1>3 DEF Merge, NamesIn, Exists
<1>7. \A u \in Task : (InQueue(tqueue, u) /\ u # t) \/ u \in a.required => InQueue(tqueue', u)
    BY <1>2, <1>5, PopKeeps, PushKeeps DEF AfterAnswer
<1>8. t.name \in Names /\ Exists(spool', t.name)
    BY <1>2, <1>6, TaskNamesAssumption
<1>9. (due' \cup ledger) \ SyzNames \subseteq MemoryTracked'
    <2>1. \A n \in Names : Exists(spool', n) => n \in MemoryTracked'
        BY TrackedIf DEF MemoryTracked
    <2>2. \A u \in Task : InQueue(tqueue', u) => u.name \in MemoryTracked'
        BY <1>5, TaskNamesAssumption, TrackedIf DEF MemoryTracked
    <2>3. ASSUME NEW n \in (due \cup ledger) \ SyzNames PROVE n \in MemoryTracked'
        <3>1. n \in Names /\ n \in MemoryTracked
            BY <1>4 DEF AccountInv, KeepInv, TypeInv, TypeOK, Accounted, Live
        <3>2. \/ \E u \in Task : u.name = n /\ InQueue(tqueue, u)
              \/ Exists(spool, n) \/ Exists(rpool, n) \/ Exists(pool, n)
            BY <1>5, <3>1, TrackedIf DEF MemoryTracked
        <3>3. CASE \E u \in Task : u.name = n /\ InQueue(tqueue, u)
            BY <1>7, <1>8, <2>1, <2>2, <3>3
        <3>4. CASE Exists(spool, n) \/ Exists(rpool, n) \/ Exists(pool, n)
            BY <1>4, <1>6, <3>1, <3>4, TrackedIf DEF MemoryTracked
        <3> QED BY <3>2, <3>3, <3>4
    <2> QED BY <1>2, <1>3, <1>6, <1>7, <2>1, <2>2, <2>3 DEF TaskNames, NamesIn
<1>10. \A n \in asked' : n \notin SyzNames /\ (Exists(spool', n) \/ Exists(pool', n))
    BY <1>4, <1>6, <1>8 DEF AccountInv, AnswersKept, Live, MustAsk, KeepInv, TypeInv, TypeOK
<1>11. \A n \in Names : Exists(rpool', n) => n \in SyzNames
    BY <1>4 DEF AccountInv, ReusedIsKnown
<1> QED BY <1>1, <1>4, <1>9, <1>10, <1>11, AccountIteration

LEMMA AccountGenerateKnown ==
    ASSUME AccountInv, NEW t \in Task,
           GenerateSkip(t) \/ GenerateReuse(t) \/ GenerateFromPool(t) \/ GenerateDuplicate(t)
    PROVE  AccountInv'
<1>1. KeepInv'
    BY KeepGenerate DEF AccountInv, GenerateStep
<1>2. /\ pc = "loop" /\ pc' = "saveTqueue" /\ next' = "generate" /\ Generate(t)
      /\ tqueue' = PopTask(tqueue, t) /\ UNCHANGED <<files, compFile, ledger, pool, due, asked>>
    BY DEF GenerateSkip, GenerateReuse, GenerateFromPool, GenerateDuplicate, Generate, Iteration
<1>3. tqueue \in Queue /\ tqueue' \in Queue /\ Nil \notin Queue /\ spool \in Pool /\ rpool \in Pool /\ t.name \in Names
    BY <1>2, GenerateQueue, MarksAssumption, TaskNamesAssumption DEF AccountInv, KeepInv, TypeInv, TypeOK
<1>4. \A n \in Names : (Exists(spool, n) => Exists(spool', n)) /\ (Exists(rpool, n) => Exists(rpool', n))
    BY <1>3, AbsentIsNoElem
       DEF GenerateSkip, GenerateReuse, GenerateFromPool, GenerateDuplicate, Insert, Exists, Pool, ReusedElem, Absent
<1>5. t.name \in SyzNames \/ Exists(spool', t.name) \/ Exists(pool, t.name)
    BY DEF GenerateSkip, GenerateReuse, GenerateFromPool, GenerateDuplicate
<1>6. \A n \in Names : Exists(rpool', n) => n \in SyzNames
    BY <1>3 DEF GenerateSkip, GenerateReuse, GenerateFromPool, GenerateDuplicate, Insert, Exists, Pool,
                AccountInv, ReusedIsKnown
<1>7. (due' \cup ledger) \ SyzNames \subseteq MemoryTracked'
    <2> SUFFICES ASSUME NEW n \in (due \cup ledger) \ SyzNames PROVE n \in MemoryTracked'
        BY <1>2
    <2>1. n \in Names /\ n \in MemoryTracked
        BY <1>2 DEF AccountInv, KeepInv, TypeInv, TypeOK, Accounted, Live
    <2>2. \/ \E u \in Task : u.name = n /\ InQueue(tqueue, u)
          \/ Exists(spool, n) \/ Exists(rpool, n) \/ Exists(pool, n)
        BY <1>3, <2>1, TrackedIf DEF MemoryTracked
    <2>3. \/ \E u \in Task : u.name = n /\ InQueue(tqueue', u)
          \/ Exists(spool', n) \/ Exists(rpool', n) \/ Exists(pool', n)
        <3>1. CASE \E u \in Task : u.name = n /\ InQueue(tqueue, u)
            BY <1>2, <1>3, <1>5, <3>1, PopKeeps
        <3>2. CASE Exists(spool, n) \/ Exists(rpool, n) \/ Exists(pool, n)
            BY <1>2, <1>4, <2>1, <3>2
        <3> QED BY <2>2, <3>1, <3>2
    <2> QED BY <1>3, <2>1, <2>3, TrackedIf DEF MemoryTracked
<1>8. \A n \in asked' : n \notin SyzNames /\ (Exists(spool', n) \/ Exists(pool', n))
    BY <1>2, <1>4 DEF AccountInv, AnswersKept, Live, KeepInv, TypeInv, TypeOK
<1> QED BY <1>1, <1>2, <1>6, <1>7, <1>8, AccountIteration

\* The agent said of nothing it wrote that it is valid.
NoClaims == claimed = {}

\* A fix moves what was written to the Pool, but for what sysdir describes.
LEMMA FixCovers ==
    ASSUME AccountInv, FixStep, Complete, NoClaims, NEW n \in Names \ SyzNames, Exists(spool, n) \/ Exists(pool, n)
    PROVE  Exists(pool', n)
<1>1. spool \in Pool /\ pool \in Pool /\ ~Exists(rpool, n) /\ pc = "loop"
    BY DEF AccountInv, KeepInv, TypeInv, TypeOK, ReusedIsKnown, FixStep, FixNothing, FixSkipped, FixFails,
           FixSucceeds, Iteration
<1>2. CASE FixNothing
    BY <1>1, <1>2 DEF FixNothing, AllValid, AccountInv, KeepInv, ValidIsPoolsOrClaimed, Live, Exists, NoClaims
<1>3. ASSUME NEW p \in Pool, Exists(spool, n) => Exists(p, n), pool' = UpdatePool(pool, Material(p))
      PROVE  Exists(pool', n)
    <2>1. Exists(spool, n) => Exists(Material(p), n)
        BY <1>1, <1>3 DEF Material, Difference, Exists
    <2> QED BY <1>1, <1>3, <2>1, MaterialType, UpdatePoolCovers
<1>4. CASE FixSkipped \/ FixFails
    BY <1>1, <1>3, <1>4 DEF FixSkipped, FixFails, KeepUnfixed
<1>5. CASE FixSucceeds
    <2>1. PICK K : Candidates \subseteq K /\ pool' = UpdatePool(pool, Material(SyncType(Parsed(K), spool)))
        BY <1>5 DEF FixSucceeds
    <2>2. Exists(spool, n) => n \in K
        BY <2>1 DEF Candidates, Merge, Exists
    <2>3. Exists(spool, n) => Exists(SyncType(Parsed(K), spool), n)
        <3> SUFFICES ASSUME Exists(spool, n) PROVE Exists(SyncType(Parsed(K), spool), n)
            OBVIOUS
        <3>1. Parsed(K)[n] = [type |-> Kind[n], valid |-> TRUE] /\ Kind[n] # "none" /\ spool[n] \in Elem
            BY <1>1, <2>2, KindTypes DEF Parsed, ElemTypes, Pool, Exists
        <3> QED BY <3>1 DEF SyncType, Exists, Absent, Elem
    <2> QED BY <1>1, <1>3, <2>1, <2>3, SynchronisedType
<1> QED BY <1>2, <1>4, <1>5 DEF FixStep

LEMMA AccountFix ==
    ASSUME AccountInv, FixStep, Complete, NoClaims
    PROVE  AccountInv'
<1>1. KeepInv'
    BY KeepFix DEF AccountInv
<1>2. /\ pc = "loop" /\ pc' = "saveTqueue" /\ next' = "fix"
      /\ spool' = EmptyPool /\ UNCHANGED <<files, compFile, ledger, tqueue, rpool, due, asked>>
    BY DEF FixStep, FixNothing, FixSkipped, FixFails, FixSucceeds, KeepUnfixed, Iteration
<1>3. (due' \cup ledger) \ SyzNames \subseteq MemoryTracked'
    <2> SUFFICES ASSUME NEW n \in (due \cup ledger) \ SyzNames PROVE n \in MemoryTracked'
        BY <1>2
    <2>1. n \in Names \ SyzNames /\ n \in MemoryTracked
        BY <1>2 DEF AccountInv, KeepInv, TypeInv, TypeOK, Accounted, Live
    <2> QED BY <1>2, <2>1, FixCovers, TrackedIf DEF MemoryTracked
<1>4. \A n \in asked' : n \notin SyzNames /\ (Exists(spool', n) \/ Exists(pool', n))
    BY <1>2, FixCovers DEF AccountInv, AnswersKept, Live, KeepInv, TypeInv, TypeOK
<1>5. \A n \in Names : Exists(rpool', n) => n \in SyzNames
    BY <1>2 DEF AccountInv, ReusedIsKnown
<1> QED BY <1>1, <1>2, <1>3, <1>4, <1>5, AccountIteration

LEMMA AccountLeaveLoop ==
    ASSUME AccountInv, Finish \/ Exhaust
    PROVE  AccountInv'
<1>1. KeepInv'
    BY KeepLeaveLoop DEF AccountInv
<1>2. pc = "loop" /\ pc' = "saveTqueue" /\ UNCHANGED <<files, compFile, ledger, rpool, pool, due, asked>>
    BY DEF Finish, Exhaust, mem, history
<1>3. CASE Finish
    <2>1. tqueue' = EmptyQueue /\ spool' = EmptyPool /\ IsEmptyPool(spool) /\ tqueue # Nil /\ IsEmptyQueue(tqueue)
        BY <1>3 DEF Finish, NextStep, ShouldFix
    <2>2. MemoryTracked \subseteq MemoryTracked'
        <3>1. ASSUME NEW n \in MemoryTracked PROVE n \in MemoryTracked'
            <4>1. n \in Names
                BY DEF MemoryTracked, Tracked
            <4>2. Exists(rpool, n) \/ Exists(pool, n)
                BY <2>1, <4>1, TrackedIf DEF MemoryTracked, IsEmptyPool, IsEmptyQueue
            <4> QED BY <1>2, <4>1, <4>2, TrackedIf DEF MemoryTracked
        <3> QED BY <3>1
    <2>3. \A n \in Names : ~Exists(spool, n)
        BY <2>1 DEF IsEmptyPool
    <2> QED BY <1>1, <1>2, <2>1, <2>2, <2>3, AccountIteration
            DEF AccountInv, ReusedIsKnown, Accounted, AnswersKept, Live, KeepInv, TypeInv, TypeOK
<1>4. CASE Exhaust
    <2>1. UNCHANGED <<tqueue, spool, next>>
        BY <1>4 DEF Exhaust, mem
    <2>2. next' # "complete"
        BY <1>2, <2>1 DEF AccountInv, CompleteIsEmpty
    <2>3. MemoryTracked' = MemoryTracked
        BY <1>2, <2>1 DEF MemoryTracked
    <2> QED BY <1>1, <1>2, <2>1, <2>2, <2>3, AccountIteration
            DEF AccountInv, ReusedIsKnown, Accounted, AnswersKept, Live
<1> QED BY <1>3, <1>4

\* WriteCurrStat: what is written is what the memory holds.
LEMMA AccountSaveFirst ==
    ASSUME AccountInv, SaveTqueue \/ SaveSpool \/ SaveRpool
    PROVE  AccountInv'
<1>1. KeepInv'
    BY KeepSave DEF AccountInv, Save
<1>2. /\ pc \in {"saveTqueue", "saveSpool", "saveRpool"} /\ pc' \in {"saveSpool", "saveRpool", "savePool"}
      /\ UNCHANGED <<next, tqueue, spool, rpool, pool, poolFile, compFile, due, ledger, asked>>
    BY DEF SaveTqueue, SaveSpool, SaveRpool, mem, history
<1>3. Saving /\ Saving' /\ Live /\ Live' /\ ~AtRest' /\ tqueue \in Queue
    BY <1>2 DEF Saving, Live, AtRest, AccountInv, KeepInv, TypeInv, QueueKnown
<1>4. FilesReadable'
    BY <1>2, <1>3, MarksAssumption
       DEF SaveTqueue, SaveSpool, SaveRpool, AccountInv, KeepInv, TypeInv, TypeOK, FilesSoFar, FilesReadable
<1>5. FilesSoFar'
    BY <1>2, <1>3, <1>4 DEF SaveTqueue, SaveSpool, SaveRpool, AccountInv, FilesSoFar
<1>6. ReusedIsKnown'
    BY <1>2 DEF SaveTqueue, SaveSpool, SaveRpool, AccountInv, ReusedIsKnown
<1>7. MemoryTracked' = MemoryTracked
    BY <1>2 DEF MemoryTracked
<1>8. CompleteIsEmpty' /\ Accounted' /\ AnswersKept' /\ CompIsLast'
    BY <1>2, <1>3, <1>7 DEF AccountInv, CompleteIsEmpty, Accounted, AnswersKept, CompIsLast
<1> QED BY <1>1, <1>5, <1>6, <1>8 DEF AccountInv

\* The last of the four: the names that were due are on record now, and the loop
\* goes on, ends, or gives up.
LEMMA AccountSavePool ==
    ASSUME AccountInv, SavePool
    PROVE  AccountInv'
<1> USE DEF files
<1>1. KeepInv'
    BY KeepSave DEF AccountInv, Save
<1>2. /\ pc = "savePool" /\ poolFile' = pool /\ ledger' = ledger \cup due
      /\ UNCHANGED <<tqueueFile, spoolFile, rpoolFile, compFile, asked>>
    BY DEF SavePool
<1>3. Saving /\ Live /\ compFile = Missing /\ tqueue \in Queue /\ pool \in Pool
    BY <1>2 DEF Saving, Live, AccountInv, CompIsLast, KeepInv, TypeInv, TypeOK, QueueKnown
<1>4. tqueueFile = tqueue /\ spoolFile = spool /\ rpoolFile = rpool
    BY <1>2 DEF AccountInv, FilesSoFar
<1>5. FilesReadable' /\ ~Saving'
    BY <1>2, <1>3, MarksAssumption
       DEF SavePool, AttemptFails, AccountInv, FilesSoFar, FilesReadable, Saving
<1>6. OrElse(tqueue, EmptyQueue) = tqueue /\ OrElse(spool, EmptyPool) = spool
      /\ OrElse(rpool, EmptyPool) = rpool /\ OrElse(pool, EmptyPool) = pool /\ OrElse(tqueue, Nil) = tqueue
    BY <1>3, MarksAssumption DEF OrElse, AccountInv, KeepInv, TypeInv, TypeOK
<1>7. FilesTracked' = MemoryTracked
    BY <1>2, <1>3, <1>4, <1>6, MarksAssumption DEF FilesTracked, MemoryTracked
<1>8. ledger' \ SyzNames \subseteq FilesTracked'
    BY <1>2, <1>3, <1>7 DEF AccountInv, Accounted
<1>9. CompIsLast'
    BY <1>2, <1>3, MarksAssumption DEF CompIsLast
<1>10. \A n \in asked' : n \notin SyzNames /\ (Exists(OrElse(spoolFile', EmptyPool), n) \/ Exists(SavedPool', n))
    BY <1>2, <1>3, <1>4, <1>6 DEF AccountInv, AnswersKept, SavedPool
<1>11. CASE AttemptFails
    <2>1. ~Live' /\ ~AtRest' /\ pc' \notin {"comp", "loop"} /\ ~(pc' \in {"saveTqueue", "saveSpool", "saveRpool", "savePool"})
          /\ rpool' = EmptyPool
        BY <1>11 DEF AttemptFails, DropMemory, Live, AtRest
    <2>2. FilesSoFar' /\ CompleteIsEmpty'
        BY <1>5, <2>1 DEF FilesSoFar, CompleteIsEmpty, Saving
    <2>3. ReusedIsKnown'
        BY <1>2, <2>1 DEF AccountInv, ReusedIsKnown, EmptyPool, Exists
    <2>4. Accounted'
        BY <1>8, <2>1 DEF Accounted
    <2>5. AnswersKept'
        BY <1>10, <2>1 DEF AnswersKept
    <2> QED BY <1>1, <1>9, <2>2, <2>3, <2>4, <2>5 DEF AccountInv
<1>12. CASE pc' \in {"comp", "loop"} /\ UNCHANGED <<next, tqueue, spool, rpool, pool, due>>
    <2>1. Live' /\ AtRest'
        BY <1>12 DEF Live, AtRest
    <2>2. FilesMatch'
        BY <1>2, <1>4, <1>6, <1>12 DEF FilesMatch, SavedPool
    <2>3. FilesSoFar'
        BY <1>5, <1>12, <2>2 DEF FilesSoFar
    <2>4. CompleteIsEmpty'
        BY <1>2, <1>3, <1>5, <1>12 DEF AccountInv, CompleteIsEmpty, SavePool, AttemptFails
    <2>5. ReusedIsKnown'
        BY <1>2, <1>12 DEF AccountInv, ReusedIsKnown
    <2>6. MemoryTracked' = MemoryTracked
        BY <1>12 DEF MemoryTracked
    <2>7. Accounted' /\ AnswersKept'
        BY <1>2, <1>3, <1>7, <1>8, <1>12, <2>1, <2>6 DEF AccountInv, Accounted, AnswersKept
    <2> QED BY <1>1, <1>9, <2>3, <2>4, <2>5, <2>7 DEF AccountInv
<1> QED BY <1>11, <1>12 DEF SavePool, mem

LEMMA AccountStutter == AccountInv /\ UNCHANGED vars => AccountInv'
<1> SUFFICES ASSUME AccountInv, UNCHANGED vars PROVE AccountInv'
    OBVIOUS
<1> USE DEF vars, mem, files, history
<1>1. KeepInv'
    BY KeepStutter DEF AccountInv
<1>2. FilesTracked' = FilesTracked /\ MemoryTracked' = MemoryTracked
    BY DEF FilesTracked, MemoryTracked
<1>3. FilesSoFar' /\ ReusedIsKnown' /\ CompleteIsEmpty'
    BY DEF AccountInv, FilesSoFar, FilesReadable, FilesMatch, AtRest, SavedPool, ReusedIsKnown, CompleteIsEmpty, Saving
<1>4. Accounted' /\ AnswersKept' /\ CompIsLast'
    BY <1>2 DEF AccountInv, Accounted, AnswersKept, CompIsLast, Live, Saving, SavedPool
<1> QED BY <1>1, <1>3, <1>4 DEF AccountInv

LEMMA AccountStep ==
    ASSUME AccountInv, [Next]_vars, ~Interrupted, Resume, Complete, NoClaims
    PROVE  AccountInv'
<1>1. CASE GenerateStep
    BY <1>1, AccountGenerateNew, AccountGenerateKnown DEF GenerateStep
<1>2. ~WriteFails
    BY DEF Interrupted, Saving, WriteFails
<1> QED BY <1>1, <1>2, AccountOff, AccountBegin, AccountOutline, AccountFix, AccountLeaveLoop, AccountSaveFirst,
           AccountSavePool, AccountSaveComp, AccountStutter DEF Next, Work, Save

Uninterrupted == [][~Interrupted]_vars

\* An agent that keeps to the format claims nothing.
LEMMA NothingClaimed ==
    ASSUME Complete
    PROVE  Spec => []NoClaims
<1>1. Init => NoClaims
    BY DEF Init, NoClaims
<1>2. ASSUME NoClaims, [Next]_vars PROVE NoClaims'
    <2> USE DEF NoClaims
    <2>1. CASE \E t \in Task : GenerateNew(t)
        <3>1. PICK a \in Answers : ClaimedIn(a.spec) = {} /\ claimed' = claimed \cup ClaimedIn(a.spec)
            BY <2>1 DEF GenerateNew
        <3> QED BY <1>2, <3>1
    <2>2. CASE Begin
        BY <1>2, <2>2 DEF Begin
    <2>3. CASE GenerateStep /\ ~\E t \in Task : GenerateNew(t)
        BY <1>2, <2>3 DEF GenerateStep, GenerateSkip, GenerateReuse, GenerateFromPool, GenerateDuplicate
    <2>4. CASE FixStep \/ Outline \/ Save
        BY <1>2, <2>4 DEF FixStep, FixNothing, FixSkipped, FixFails, FixSucceeds, Outline, Save,
                          SaveTqueue, SaveSpool, SaveRpool, SavePool, SaveComp, history
    <2>5. CASE Launch \/ BeginFails \/ StepFails \/ Finish \/ Exhaust \/ WriteFails \/ CompFails \/ Crash
        BY <1>2, <2>5 DEF Launch, BeginFails, StepFails, Finish, Exhaust, WriteFails, CompFails, Crash, history
    <2>6. CASE UNCHANGED vars
        BY <1>2, <2>6 DEF vars, history
    <2> QED BY <1>2, <2>1, <2>2, <2>3, <2>4, <2>5, <2>6 DEF Next, Work
<1> QED BY <1>1, <1>2, PTL DEF Spec

LEMMA AccountInvariant ==
    ASSUME Resume, Complete
    PROVE  Spec /\ Uninterrupted => []AccountInv
<1>1. ASSUME AccountInv, NoClaims, [Next]_vars, [~Interrupted]_vars PROVE AccountInv'
    BY <1>1, AccountStep, AccountStutter
<1> QED BY <1>1, AccountInit, NothingClaimed, PTL DEF Spec, Uninterrupted

\* Across retries, crashes between two steps and restarts with -resume, the files
\* account for every name the entry ever had to deal with, if the agent writes what
\* it is asked and WriteCurrStat is not interrupted between two of its files
\* (stage.go:90-156, main.go:497-515).
THEOREM NothingIsForgotten ==
    ASSUME Resume, Complete
    PROVE  Spec /\ Uninterrupted => []NothingForgotten
<1>1. AccountInv => NothingForgotten
    <2> SUFFICES ASSUME AccountInv, pc \in {"off", "begin", "loop"}
                 PROVE  ledger \ SyzNames \subseteq FilesTracked
        BY DEF NothingForgotten
    <2> QED BY DEF AccountInv, Accounted, Saving
<1> QED BY <1>1, AccountInvariant, PTL

\* Under the same conditions, the specification of a finished entry contains every
\* name the entry had to deal with (main.go:496-528).
THEOREM CompIsComplete ==
    ASSUME Resume, Complete
    PROVE  Spec /\ Uninterrupted => []CompCoversLedger
<1>1. AccountInv => CompCoversLedger
    BY DEF AccountInv, CompIsLast, CompCoversLedger
<1> QED BY <1>1, AccountInvariant, PTL

\* Under the same conditions, the agent answers for a name once (generate.go:44-76).
THEOREM AgentIsAskedOnce ==
    ASSUME Resume, Complete
    PROVE  Spec /\ Uninterrupted => AskedOnce
<1>1. ASSUME AccountInv PROVE [\A t \in Task : GenerateNew(t) => t.name \notin asked]_vars
    <2> SUFFICES ASSUME NEW t \in Task, GenerateNew(t) PROVE t.name \notin asked
        OBVIOUS
    <2> QED BY <1>1 DEF GenerateNew, Generate, Iteration, MustAsk, AccountInv, AnswersKept, Live
<1> QED BY <1>1, AccountInvariant, PTL DEF AskedOnce
=============================================================================
