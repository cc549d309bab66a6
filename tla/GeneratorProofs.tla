-------------------------- MODULE GeneratorProofs --------------------------
(***************************************************************************)
(* Theorems about Generator, for every reference file, database, number of *)
(* workers and every fault.                                                *)
(***************************************************************************)
EXTENDS Generator, SequenceTheorems, FunctionTheorems, FiniteSetTheorems, TLAPS

Result == [tid : Workers, entry : Database \cup {NoEntry}, err : BOOLEAN]

Message == [res : Result, failed : Failures]

Labels == {"absent", "setup", "copy", "agent", "ready", "write", "restore", "send", "sendLast",
           "bail", "done", "dead"}

RefLines == {cfg.ref[i] : i \in DOMAIN cfg.ref}

-----------------------------------------------------------------------------
(***************************************************************************)
(* The type invariant, in the parts that the steps disturb.                *)
(***************************************************************************)
StartType ==
    /\ StartupTypeOK
    /\ main = "flags" => cfg \in Configs
    /\ queue \in Seq(Database) /\ entries \in Seq(RefLines)

ChannelType ==
    /\ dispatched \in 0..Len(queue)
    /\ jobs \in Seq(Database) /\ Len(jobs) <= Buffer /\ jobsClosed \in BOOLEAN
    /\ ress \in Seq(Message) /\ Len(ress) <= Buffer + 1 /\ ressClosed \in BOOLEAN

WorkerType ==
    /\ worker \in [Workers -> Labels]
    /\ res \in [Workers -> Result] /\ \A w \in Workers : res[w].tid = w
    /\ failed \in [Workers -> Failures] /\ instances \subseteq Workers
    /\ \A w \in Workers : Handling(w) => res[w].entry # NoEntry

CollectorType == collector \in {"absent", "receive", "done", "panic"} /\ log \in Seq(Message)

\* Before main starts its workers there is nothing in the channels and nobody at work.
Beginning == {"flags", "config", "sysdir", "open", "read", "queue", "start", "fatal", "panic"}

NothingYet ==
    main \in Beginning =>
        /\ dispatched = 0 /\ jobs = <<>> /\ ress = <<>> /\ log = <<>>
        /\ ~jobsClosed /\ ~ressClosed
        /\ collector = "absent" /\ \A w \in Workers : worker[w] = "absent"

TypeInv == StartType /\ ChannelType /\ WorkerType /\ CollectorType /\ NothingYet

LEMMA TypeInvOK == TypeInv => TypeOK
<1> SUFFICES ASSUME TypeInv PROVE TypeOK
    OBVIOUS
<1>1. StartupTypeOK /\ dispatched \in 0..Len(queue) /\ jobs \in Seq(Database) /\ Len(jobs) <= Buffer
      /\ Len(ress) <= Buffer + 1 /\ {jobsClosed, ressClosed} \subseteq BOOLEAN
    BY DEF TypeInv, StartType, ChannelType
<1>2. /\ worker \in [Workers -> Labels] /\ res \in [Workers -> Result]
      /\ failed \in [Workers -> Failures] /\ instances \subseteq Workers
      /\ \A w \in Workers : Handling(w) => res[w].entry # NoEntry
    BY DEF TypeInv, WorkerType
<1>3. collector \in {"absent", "receive", "done", "panic"}
    BY DEF TypeInv, CollectorType
<1> QED BY <1>1, <1>2, <1>3 DEF TypeOK, Labels, Result

-----------------------------------------------------------------------------
LEMMA CfgType ==
    ASSUME StartupTypeOK
    PROVE  /\ cfg.ref \in Seq(RefLines) /\ cfg.jobs \in Int /\ cfg.jobs <= MaxJobs
           /\ DOMAIN cfg = {"outdir", "missing", "osKnown", "maxRetry", "jobs", "resume", "ref"}
<1>1. PICK c \in Configs : cfg \in {c, [c EXCEPT !.outdir = AbsPath(@)]}
    BY DEF StartupTypeOK
<1>2. /\ cfg.ref = c.ref /\ cfg.jobs = c.jobs
      /\ DOMAIN cfg = {"outdir", "missing", "osKnown", "maxRetry", "jobs", "resume", "ref"}
    BY <1>1, ConfigsAssumption
<1> QED BY <1>2, ConfigsAssumption, JobsAssumption DEF RefLines

LEMMA TypeInit == Init => TypeInv
<1> SUFFICES ASSUME Init PROVE TypeInv
    OBVIOUS
<1> USE DEF Init, StartupInit
<1>1. StartType
    <2>1. Len(cfg.ref) \in Nat
        BY ConfigsAssumption
    <2> QED BY <2>1 DEF StartupTypeOK, StartType
<1>2. ChannelType
    <2>1. Len(queue) = 0 /\ Len(jobs) = 0 /\ Len(ress) = 0
        OBVIOUS
    <2>2. jobs \in Seq(Database) /\ ress \in Seq(Message)
        OBVIOUS
    <2>3. dispatched = 0 /\ jobsClosed \in BOOLEAN /\ ressClosed \in BOOLEAN
        OBVIOUS
    <2>4. dispatched \in 0..Len(queue) /\ Len(jobs) <= Buffer /\ Len(ress) <= Buffer + 1
        BY <2>1, <2>3 DEF Buffer
    <2> HIDE DEF Init, StartupInit
    <2> QED BY <2>2, <2>3, <2>4 DEF ChannelType
<1>3. WorkerType
    BY DEF WorkerType, Result, Labels, Handling, Failures
<1>4. CollectorType /\ NothingYet
    BY DEF CollectorType, NothingYet
<1> QED BY <1>1, <1>2, <1>3, <1>4 DEF TypeInv

-----------------------------------------------------------------------------
\* A sequence over one set whose elements are all in another is a sequence over that one.
LEMMA SeqOfMembers ==
    ASSUME NEW S, NEW T, NEW s \in Seq(S), \A i \in DOMAIN s : s[i] \in T
    PROVE  s \in Seq(T)
<1>1. Len(s) \in Nat /\ s \in [1..Len(s) -> T]
    OBVIOUS
<1> QED BY <1>1, SeqDef

\* Startup keeps its own part.
LEMMA StartTypeStartup == StartType /\ StartupStep => StartType'
<1> SUFFICES ASSUME StartType, StartupStep PROVE StartType'
    OBVIOUS
<1> USE DEF Continue, Fatal
<1>1. CASE ParseFlags
    <2>1. cfg \in Configs /\ cfg' = [cfg EXCEPT !.outdir = AbsPath(@)]
        BY <1>1 DEF ParseFlags, StartType
    <2>2. cfg'.ref = cfg.ref
        BY <2>1, ConfigsAssumption
    <2>3. UNCHANGED <<read, entries, queue>> /\ main' \in {"config", "fatal"}
        BY <1>1 DEF ParseFlags
    <2>4. StartupTypeOK'
        BY <2>1, <2>2, <2>3 DEF StartType, StartupTypeOK, AbsPath
    <2> QED BY <2>2, <2>3, <2>4 DEF StartType, RefLines
<1>2. CASE CheckConfig \/ CheckSysdir \/ Open \/ LinesRead
    <2>1. UNCHANGED <<cfg, read, entries, queue>> /\ main' \in {"sysdir", "open", "read", "queue", "fatal"}
        BY <1>2 DEF CheckConfig, CheckSysdir, Open, LinesRead
    <2> QED BY <2>1 DEF StartType, StartupTypeOK, RefLines
<1>3. CASE ReadLine
    <2>1. /\ cfg.ref \in Seq(RefLines) /\ entries \in Seq(RefLines)
          /\ read \in 0..Len(cfg.ref) - 1 /\ Len(entries) <= read
        BY <1>3, CfgType DEF ReadLine, StartupTypeOK, StartType
    <2>2. cfg.ref[read + 1] \in RefLines
        BY <2>1 DEF RefLines
    <2>3. \/ entries' = entries
          \/ entries' = Append(entries, cfg.ref[read + 1])
        BY <1>3 DEF ReadLine
    <2>4. entries' \in Seq(RefLines) /\ Len(entries') <= read + 1
        <3>1. Len(entries) \in Nat /\ Len(cfg.ref) \in Nat
            BY <2>1, LenProperties
        <3>2. /\ Append(entries, cfg.ref[read + 1]) \in Seq(RefLines)
              /\ Len(Append(entries, cfg.ref[read + 1])) = Len(entries) + 1
            BY <2>1, <2>2, AppendProperties
        <3>3. Len(entries) <= read + 1 /\ Len(entries) + 1 <= read + 1
            BY <2>1, <3>1
        <3> QED BY <2>1, <2>3, <3>2, <3>3
    <2>5. UNCHANGED <<cfg, queue>> /\ main' \in {"read", "panic"} /\ read' = read + 1
        BY <1>3 DEF ReadLine
    <2>6. StartupTypeOK'
        <3>1. read + 1 \in 0..Len(cfg.ref)
            BY <2>1
        <3> QED BY <2>4, <2>5, <3>1 DEF StartType, StartupTypeOK
    <2> QED BY <2>4, <2>5, <2>6 DEF StartType, RefLines
<1>4. CASE CreateQueue
    <2> DEFINE Row == [type : Supported, name : {row.name : row \in Database}]
    <2>1. ASSUME \A i \in DOMAIN entries : Found(entries[i])
          PROVE  entries \in Seq(Database) /\ entries \in Seq(Row)
        <3>1. \A i \in DOMAIN entries : entries[i] \in Database /\ entries[i] \in Row
            BY <2>1, DatabaseAssumption DEF Found
        <3> QED BY <3>1, SeqOfMembers DEF StartType
    <2>2. queue' \in Seq(Database) /\ queue' \in Seq(Row)
        BY <1>4, <2>1 DEF CreateQueue, StartType, StartupTypeOK
    <2>3. UNCHANGED <<cfg, read, entries>> /\ main' \in {"start", "fatal"}
        BY <1>4 DEF CreateQueue
    <2> QED BY <2>2, <2>3 DEF StartType, StartupTypeOK, RefLines
<1> QED BY <1>1, <1>2, <1>3, <1>4 DEF StartupStep

LEMMA TypeStarting == TypeInv /\ Starting => TypeInv'
<1> SUFFICES ASSUME TypeInv, Starting PROVE TypeInv'
    OBVIOUS
<1>1. main \in Beginning /\ StartType'
    BY StartTypeStartup
       DEF TypeInv, Starting, StartupStep, ParseFlags, CheckConfig, CheckSysdir, Open, ReadLine,
           LinesRead, CreateQueue, Beginning
<1>2. UNCHANGED <<dispatched, jobs, jobsClosed, ress, ressClosed, worker, res, failed, comp, instances,
                  collector, log>>
    BY DEF Starting, channels, disk
<1>3. ChannelType'
    <2>1. Len(queue') \in Nat /\ dispatched = 0 /\ jobs = <<>> /\ ress = <<>>
        BY <1>1 DEF TypeInv, StartType, NothingYet
    <2> QED BY <1>2, <2>1 DEF ChannelType, TypeInv, Buffer
<1>4. WorkerType' /\ CollectorType'
    BY <1>2 DEF TypeInv, WorkerType, CollectorType, Handling
<1>5. NothingYet'
    BY <1>1, <1>2 DEF TypeInv, NothingYet
<1> QED BY <1>1, <1>3, <1>4, <1>5 DEF TypeInv

-----------------------------------------------------------------------------
Late == {"dispatch", "waitWorkers", "waitCollector", "completed", "dead"}

\* Past Startup its variables stay, and main goes on.
LEMMA StartTypeLate ==
    StartType /\ UNCHANGED given /\ main' \in Late \cup {main} => StartType'
BY DEF StartType, StartupTypeOK, given, Late, RefLines

LEMMA NothingYetLate == main' \in Late => NothingYet'
BY DEF NothingYet, Late, Beginning

LEMMA TypeMain == TypeInv /\ MainStep => TypeInv'
<1> SUFFICES ASSUME TypeInv, MainStep PROVE TypeInv'
    OBVIOUS
<1> USE DEF channels, disk
<1>1. CASE Starting
    BY <1>1, TypeStarting
<1>2. UNCHANGED given /\ main' \in Late => StartType' /\ NothingYet' /\ Buffer' = Buffer
    BY StartTypeLate, NothingYetLate DEF TypeInv, given, Buffer
<1>3. CASE StartWorkers
    <2>1. UNCHANGED given /\ main' \in Late /\ UNCHANGED <<dispatched, jobs, jobsClosed, ress, ressClosed>>
        BY <1>3 DEF StartWorkers, Late
    <2>2. StartType' /\ NothingYet' /\ Buffer' = Buffer
        BY <1>2, <2>1
    <2>3. ChannelType'
        BY <2>1, <2>2 DEF TypeInv, ChannelType, given
    <2>4. WorkerType'
        BY <1>3 DEF StartWorkers, TypeInv, WorkerType, Labels, Handling
    <2> QED BY <1>3, <2>2, <2>3, <2>4 DEF StartWorkers, TypeInv, CollectorType
<1>4. CASE Dispatch
    <2>1. /\ UNCHANGED given /\ main' \in Late
          /\ UNCHANGED <<jobsClosed, ress, ressClosed, worker, res, failed, instances, collector, log>>
          /\ dispatched < Len(queue) /\ Len(jobs) < Buffer
          /\ jobs' = Append(jobs, queue[dispatched + 1]) /\ dispatched' = dispatched + 1
        BY <1>4 DEF Dispatch, startup, Late
    <2>2. StartType' /\ NothingYet' /\ Buffer' = Buffer
        BY <1>2, <2>1
    <2>3. queue \in Seq(Database) /\ jobs \in Seq(Database) /\ dispatched \in 0..Len(queue)
        BY DEF TypeInv, StartType, ChannelType
    <2>4. jobs' \in Seq(Database) /\ Len(jobs') <= Buffer /\ dispatched' \in 0..Len(queue)
        BY <2>1, <2>3 DEF Buffer
    <2>5. ChannelType'
        BY <2>1, <2>2, <2>4 DEF ChannelType, TypeInv, given
    <2>6. WorkerType' /\ CollectorType'
        BY <2>1 DEF TypeInv, WorkerType, Handling, CollectorType
    <2> QED BY <2>2, <2>5, <2>6 DEF TypeInv
<1>5. CASE CloseJobs \/ CloseRess \/ AllCompleted
    <2>1. /\ UNCHANGED given /\ main' \in Late
          /\ UNCHANGED <<dispatched, jobs, ress, worker, res, failed, instances, collector, log>>
          /\ jobsClosed' \in {jobsClosed, TRUE} /\ ressClosed' \in {ressClosed, TRUE}
        BY <1>5 DEF CloseJobs, CloseRess, AllCompleted, Late
    <2>2. StartType' /\ NothingYet' /\ Buffer' = Buffer
        BY <1>2, <2>1
    <2>3. ChannelType' /\ WorkerType' /\ CollectorType'
        BY <2>1, <2>2 DEF ChannelType, TypeInv, given, WorkerType, Handling, CollectorType
    <2> QED BY <2>2, <2>3 DEF TypeInv
<1> QED BY <1>1, <1>3, <1>4, <1>5 DEF MainStep

\* What a worker is about to send is a message.
LEMMA MessageType ==
    ASSUME WorkerType, NEW w \in Workers
    PROVE  [res |-> res[w], failed |-> failed[w]] \in Message
BY DEF WorkerType, Message

LEMMA WorkerAtWork == TypeInv /\ (\E w \in Workers : WorkerStep(w)) => main \notin Beginning
BY DEF TypeInv, NothingYet, WorkerStep, MakeWorkdir, CopyKernel, CreateAgent, SetupFails, Take, Leave, Written,
       Fails, Restore, RestoreFails, Send

LEMMA WorkerTypeStep ==
    ASSUME TypeInv, NEW w \in Workers, WorkerStep(w)
    PROVE  WorkerType'
<1> USE DEF WorkerStep, Goto, disk, Removed
<1>1. WorkerType /\ worker[w] \in Labels /\ res[w] \in Result
    BY DEF TypeInv, WorkerType
<1>2. CASE MakeWorkdir(w) \/ CopyKernel(w) \/ CreateAgent(w) \/ Leave(w)
    BY <1>1, <1>2 DEF MakeWorkdir, CopyKernel, CreateAgent, Leave, WorkerType, Labels, Handling
<1>3. CASE SetupFails(w)
    BY <1>1, <1>3 DEF SetupFails, WorkerType, Labels, Handling, Failures, Result
<1>4. CASE Take(w)
    <2>1. Head(jobs) \in Database /\ Head(jobs) # NoEntry
        BY <1>4, EntryAssumption DEF Take, TypeInv, ChannelType
    <2> QED BY <1>1, <1>4, <2>1 DEF Take, NewResult, WorkerType, Labels, Handling, Failures, Result
<1>5. CASE Written(w) \/ Restore(w) \/ RestoreFails(w) \/ Send(w)
    BY <1>1, <1>5 DEF Written, Restore, RestoreFails, Send, WorkerType, Labels, Handling, Failures
<1>6. CASE Fails(w)
    BY <1>1, <1>6 DEF Fails, Failed, WorkerType, Labels, Handling, Failures, Result
<1> QED BY <1>2, <1>3, <1>4, <1>5, <1>6

LEMMA TypeWorker ==
    ASSUME TypeInv, NEW w \in Workers, WorkerStep(w)
    PROVE  TypeInv'
<1> USE DEF WorkerStep, channels, disk
<1>1. WorkerType'
    BY WorkerTypeStep
<1>2. UNCHANGED <<startup, dispatched, jobsClosed, ressClosed, collector, log>>
    BY DEF MakeWorkdir, CopyKernel, CreateAgent, SetupFails, Take, Leave, Written, Fails, Restore,
           RestoreFails, Send
<1>3. StartType' /\ NothingYet' /\ CollectorType' /\ Buffer' = Buffer
    <2>1. main \notin Beginning
        BY WorkerAtWork
    <2> QED BY <1>2, <2>1 DEF startup, given, TypeInv, StartType, StartupTypeOK, RefLines, NothingYet, CollectorType,
               Buffer
<1>4. jobs' \in Seq(Database) /\ Len(jobs') <= Len(jobs)
    <2>1. jobs \in Seq(Database) /\ Len(jobs) \in Nat
        BY DEF TypeInv, ChannelType
    <2>2. \/ UNCHANGED jobs
          \/ jobs # <<>> /\ jobs' = Tail(jobs)
        BY DEF MakeWorkdir, CopyKernel, CreateAgent, SetupFails, Take, Leave, Written, Fails, Restore,
               RestoreFails, Send
    <2> QED BY <2>1, <2>2
<1>5. ress' \in Seq(Message) /\ Len(ress') <= Buffer + 1
    <2>1. CASE Send(w)
        <3>1. ress' = Append(ress, [res |-> res[w], failed |-> failed[w]])
            BY <2>1 DEF Send
        <3>2. Len(ress) <= Buffer /\ ress \in Seq(Message)
            BY <2>1 DEF Send, Room, TypeInv, ChannelType, Buffer, StartType
        <3>3. [res |-> res[w], failed |-> failed[w]] \in Message /\ Buffer \in Nat
            BY MessageType DEF TypeInv, StartType, Buffer
        <3> QED BY <3>1, <3>2, <3>3
    <2>2. CASE ~Send(w)
        BY <2>2 DEF MakeWorkdir, CopyKernel, CreateAgent, SetupFails, Take, Leave, Written, Fails, Restore,
           RestoreFails, TypeInv, ChannelType
    <2> QED BY <2>1, <2>2
<1>6. ChannelType'
    <2>1. Len(jobs) \in Nat /\ Len(jobs') \in Nat /\ Buffer \in Nat
        BY <1>4 DEF TypeInv, ChannelType, StartType, Buffer
    <2> QED BY <1>2, <1>3, <1>4, <1>5, <2>1 DEF ChannelType, TypeInv, startup, given
<1> QED BY <1>1, <1>3, <1>6 DEF TypeInv

LEMMA TypeCollector == TypeInv /\ CollectorStep => TypeInv'
<1> SUFFICES ASSUME TypeInv, CollectorStep PROVE TypeInv'
    OBVIOUS
<1>1. main \notin Beginning
    BY DEF TypeInv, NothingYet, CollectorStep, Receive, Panic, CollectorLeaves
<1>2. /\ UNCHANGED <<given, dispatched, jobs, jobsClosed, ressClosed, res, failed, instances>>
      /\ main' \in Late \cup {main}
    BY DEF CollectorStep, Receive, Panic, CollectorLeaves, channels, disk, startup, Late
<1>3. StartType' /\ NothingYet' /\ Buffer' = Buffer
    BY <1>1, <1>2, StartTypeLate DEF TypeInv, NothingYet, Late, Beginning, Buffer, given
<1>4. CASE Receive
    <2>1. /\ ress \in Seq(Message) /\ ress # <<>> /\ ress' = Tail(ress)
          /\ log' = Append(log, Head(ress)) /\ UNCHANGED <<worker, collector>>
        BY <1>4 DEF Receive, TypeInv, ChannelType
    <2>2. ress' \in Seq(Message) /\ Len(ress') < Len(ress) /\ log' \in Seq(Message)
        BY <2>1 DEF TypeInv, CollectorType
    <2>3. Len(ress) \in Nat /\ Len(ress') \in Nat /\ Buffer \in Nat
        BY <2>1, <2>2 DEF TypeInv, StartType, Buffer
    <2>4. ChannelType'
        BY <1>2, <1>3, <2>2, <2>3 DEF TypeInv, ChannelType, given
    <2> QED BY <1>2, <1>3, <2>1, <2>2, <2>4 DEF TypeInv, WorkerType, Handling, CollectorType
<1>5. CASE Panic
    <2>1. UNCHANGED <<ress, log>> /\ collector' = "panic" /\ worker' = [w \in Workers |-> "dead"]
        BY <1>5 DEF Panic, channels
    <2>2. ChannelType' /\ CollectorType'
        BY <1>2, <1>3, <2>1 DEF TypeInv, ChannelType, CollectorType, given
    <2>3. WorkerType'
        BY <1>2, <2>1 DEF TypeInv, WorkerType, Handling, Labels
    <2> QED BY <1>3, <2>2, <2>3 DEF TypeInv
<1>6. CASE CollectorLeaves
    <2>1. UNCHANGED <<ress, log, worker>> /\ collector' = "done"
        BY <1>6 DEF CollectorLeaves, channels
    <2>2. ChannelType' /\ CollectorType'
        BY <1>2, <1>3, <2>1 DEF TypeInv, ChannelType, CollectorType, given
    <2>3. WorkerType'
        BY <1>2, <2>1 DEF TypeInv, WorkerType, Handling
    <2> QED BY <1>3, <2>2, <2>3 DEF TypeInv
<1> QED BY <1>4, <1>5, <1>6 DEF CollectorStep

LEMMA TypeStutter == TypeInv /\ UNCHANGED vars => TypeInv'
<1> SUFFICES ASSUME TypeInv, UNCHANGED vars PROVE TypeInv'
    OBVIOUS
<1>1. StartType' /\ NothingYet' /\ Buffer' = Buffer
    BY DEF vars, startup, given, channels, TypeInv, StartType, StartupTypeOK, RefLines, NothingYet, Buffer
<1>2. ChannelType' /\ WorkerType' /\ CollectorType'
    BY <1>1 DEF vars, startup, given, channels, disk, TypeInv, ChannelType, WorkerType, Handling, CollectorType
<1> QED BY <1>1, <1>2 DEF TypeInv

LEMMA TypeStep == TypeInv /\ [Next]_vars => TypeInv'
BY TypeMain, TypeWorker, TypeCollector, TypeStutter DEF Next

\* Every variable keeps its type: the channels stay within their buffers, and a worker that
\* handles an entry knows which one, whatever fails.
THEOREM TypeCorrect == Spec => []TypeOK
<1>1. Spec => []TypeInv
    BY TypeInit, TypeStep, PTL DEF Spec
<1> QED BY <1>1, TypeInvOK, PTL

-----------------------------------------------------------------------------
(***************************************************************************)
(* The order of the end: workers, main, collector.                         *)
(***************************************************************************)
\* A worker that has not got its agent has no entry.  One that has left a directory behind
\* has sent a result without an entry, at which the collector will panic.
Ending ==
    /\ NoSendAfterClose
    /\ ressClosed => main \in {"waitCollector", "completed", "dead"}
    /\ collector = "done" => ressClosed /\ ress = <<>>
    /\ main = "completed" => collector = "done"
    /\ main = "dead" <=> collector = "panic"
    /\ \A w \in Workers :
          /\ main \in Late /\ w < cfg.jobs => worker[w] # "absent"
          /\ worker[w] = "dead" <=> main = "dead"
          /\ worker[w] \in {"absent", "setup", "copy", "agent", "bail"} => res[w].entry = NoEntry
          /\ worker[w] = "done" /\ w \in instances /\ main # "dead"
                => \E i \in DOMAIN ress : ress[i].res.entry = NoEntry

LEMMA EndingInit == Init => Ending
BY DEF Init, StartupInit, Ending, NoSendAfterClose, Late

LEMMA EndingMain ==
    ASSUME TypeInv, Ending, MainStep
    PROVE  Ending'
<1> USE DEF Ending, NoSendAfterClose, channels, disk
<1>1. CASE Starting
    <2>1. main \in Beginning /\ main' \in Beginning
        BY <1>1 DEF Starting, StartupStep, ParseFlags, CheckConfig, CheckSysdir, Open, ReadLine,
                   LinesRead, CreateQueue, Continue, Fatal, Beginning
    <2>2. /\ ~ressClosed /\ collector = "absent" /\ \A w \in Workers : worker[w] = "absent"
          /\ UNCHANGED <<ress, ressClosed, collector, worker, res, instances>>
        BY <1>1, <2>1 DEF Starting, TypeInv, NothingYet
    <2> QED BY <2>1, <2>2 DEF Beginning, Late
<1>2. CASE StartWorkers
    <2>1. /\ ~ressClosed /\ collector = "absent" /\ \A w \in Workers : worker[w] = "absent"
        BY <1>2 DEF StartWorkers, TypeInv, NothingYet, Beginning
    <2>2. \A w \in Workers : /\ worker'[w] \in {"setup", "absent"}
                              /\ w < cfg.jobs => worker'[w] = "setup"
        BY <1>2 DEF StartWorkers
    <2> QED BY <1>2, <2>1, <2>2 DEF StartWorkers, given
<1>3. CASE Dispatch
    BY <1>3 DEF Dispatch, startup, given
<1>4. CASE CloseJobs
    BY <1>4 DEF CloseJobs, given, Late
<1>5. CASE CloseRess
    BY <1>5 DEF CloseRess, WorkersDone, given, Late
<1>6. CASE AllCompleted
    BY <1>6 DEF AllCompleted, given, Late
<1> QED BY <1>1, <1>2, <1>3, <1>4, <1>5, <1>6 DEF MainStep

LEMMA EndingWorker ==
    ASSUME TypeInv, Ending, NEW w \in Workers, WorkerStep(w)
    PROVE  Ending'
<1> USE DEF channels, disk, Goto
<1>1. /\ worker \in [Workers -> Labels] /\ res \in [Workers -> Result] /\ ress \in Seq(Message)
      /\ instances \subseteq Workers
    BY DEF TypeInv, WorkerType, ChannelType
<1>2. worker[w] \notin {"absent", "done", "dead"}
    BY DEF WorkerStep, MakeWorkdir, CopyKernel, CreateAgent, SetupFails, Take, Leave, Written, Fails,
           Restore, RestoreFails, Send
<1>3. UNCHANGED <<main, cfg, ressClosed, collector>> /\ ~ressClosed
    BY <1>2 DEF WorkerStep, MakeWorkdir, CopyKernel, CreateAgent, SetupFails, Take, Leave, Written, Fails,
           Restore, RestoreFails, Send, startup, given, Ending, NoSendAfterClose
<1>4. /\ worker' = [worker EXCEPT ![w] = worker'[w]] /\ res' = [res EXCEPT ![w] = res'[w]]
      /\ worker'[w] \notin {"absent", "dead"}
    BY <1>1 DEF WorkerStep, MakeWorkdir, CopyKernel, CreateAgent, SetupFails, Take, Leave, Written, Fails,
           Restore, RestoreFails, Send, Failed
<1>5. /\ instances' \subseteq instances \cup {w}
      /\ \A i \in DOMAIN ress : i \in DOMAIN ress' /\ ress'[i] = ress[i]
    <2>1. CASE Send(w)
        <3>1. [res |-> res[w], failed |-> failed[w]] \in Message
            BY MessageType DEF TypeInv
        <3>2. \A i \in 1..Len(ress) : i \in DOMAIN ress' /\ ress'[i] = ress[i]
            BY <1>1, <2>1, <3>1, AppendProperties, LenProperties DEF Send
        <3>3. DOMAIN ress = 1..Len(ress)
            BY <1>1, LenProperties
        <3>4. instances' \subseteq instances
            BY <2>1 DEF Send, Removed
        <3> QED BY <3>2, <3>3, <3>4
    <2>2. CASE MakeWorkdir(w) \/ CopyKernel(w) \/ CreateAgent(w) \/ SetupFails(w)
        BY <2>2 DEF MakeWorkdir, CopyKernel, CreateAgent, SetupFails
    <2>3. CASE Take(w) \/ Leave(w) \/ Written(w) \/ Fails(w) \/ Restore(w) \/ RestoreFails(w)
        BY <2>3 DEF Take, Leave, Written, Fails, Restore, RestoreFails, Removed
    <2> QED BY <2>1, <2>2, <2>3 DEF WorkerStep
<1>6. worker'[w] # "setup" /\ (worker'[w] \in {"copy", "agent", "bail"} => res'[w].entry = NoEntry)
    BY <1>1 DEF WorkerStep, MakeWorkdir, CopyKernel, CreateAgent, SetupFails, Take, Leave, Written, Fails,
           Restore, RestoreFails, Send, Ending, Result
<1>7. worker'[w] = "done" /\ w \in instances' => \E i \in DOMAIN ress' : ress'[i].res.entry = NoEntry
    <2>1. CASE Send(w)
        <3> SUFFICES ASSUME worker'[w] = "done", w \in instances'
                     PROVE  \E i \in DOMAIN ress' : ress'[i].res.entry = NoEntry
            OBVIOUS
        <3>1. worker[w] = "bail"
            BY <1>1, <2>1 DEF Send, Removed
        <3>2. res[w].entry = NoEntry
            BY <3>1 DEF Ending
        <3>3. [res |-> res[w], failed |-> failed[w]] \in Message
            BY MessageType DEF TypeInv
        <3>4. Len(ress) + 1 \in DOMAIN ress' /\ ress'[Len(ress) + 1] = [res |-> res[w], failed |-> failed[w]]
            BY <1>1, <2>1, <3>3, AppendProperties, LenProperties DEF Send
        <3> QED BY <3>2, <3>4
    <2>2. CASE Leave(w)
        BY <2>2 DEF Leave, Removed
    <2>3. CASE MakeWorkdir(w) \/ CopyKernel(w) \/ CreateAgent(w) \/ SetupFails(w) \/ Take(w)
        BY <1>1, <2>3 DEF MakeWorkdir, CopyKernel, CreateAgent, SetupFails, Take
    <2>4. CASE Written(w) \/ Fails(w) \/ Restore(w) \/ RestoreFails(w)
        BY <1>1, <2>4 DEF Written, Fails, Restore, RestoreFails
    <2> QED BY <2>1, <2>2, <2>3, <2>4 DEF WorkerStep
<1>8. ASSUME NEW v \in Workers
      PROVE  /\ main \in Late /\ v < cfg.jobs => worker'[v] # "absent"
             /\ worker'[v] = "dead" <=> main = "dead"
             /\ worker'[v] \in {"absent", "setup", "copy", "agent", "bail"} => res'[v].entry = NoEntry
             /\ worker'[v] = "done" /\ v \in instances' /\ main # "dead"
                   => \E i \in DOMAIN ress' : ress'[i].res.entry = NoEntry
    <2>1. CASE v = w
        <3>1. main # "dead"
            BY <1>2 DEF Ending
        <3> QED BY <1>1, <1>4, <1>6, <1>7, <2>1, <3>1
    <2>2. CASE v # w
        BY <1>1, <1>4, <1>5, <2>2 DEF Ending
    <2> QED BY <2>1, <2>2
<1> QED BY <1>3, <1>8 DEF Ending, NoSendAfterClose

LEMMA EndingCollector ==
    ASSUME TypeInv, Ending, CollectorStep
    PROVE  Ending'
<1> USE DEF Ending, NoSendAfterClose, channels, disk
<1>1. CASE Receive
    <2>1. ress \in Seq(Message) /\ ress # <<>> /\ ress[1].res.entry # NoEntry /\ ress' = Tail(ress)
        BY <1>1 DEF Receive, TypeInv, ChannelType
    <2>2. (\E i \in DOMAIN ress : ress[i].res.entry = NoEntry)
            => \E i \in DOMAIN ress' : ress'[i].res.entry = NoEntry
        <3> SUFFICES ASSUME NEW i \in DOMAIN ress, ress[i].res.entry = NoEntry
                     PROVE  \E k \in DOMAIN ress' : ress'[k].res.entry = NoEntry
            OBVIOUS
        <3>1. i - 1 \in DOMAIN ress' /\ ress'[i - 1] = ress[i]
            BY <2>1
        <3> QED BY <3>1
    <2>3. collector = "receive" /\ UNCHANGED <<main, cfg, ressClosed, worker, res, instances, collector>>
        BY <1>1 DEF Receive, startup, given
    <2> QED BY <2>2, <2>3
<1>2. CASE Panic
    <2>1. /\ main' = "dead" /\ collector' = "panic" /\ \A w \in Workers : worker'[w] = "dead"
          /\ collector = "receive" /\ UNCHANGED ressClosed
        BY <1>2 DEF Panic
    <2> QED BY <2>1 DEF Late
<1>3. CASE CollectorLeaves
    BY <1>3 DEF CollectorLeaves, ClosedAndDrained, startup, given
<1> QED BY <1>1, <1>2, <1>3 DEF CollectorStep

LEMMA EndingStep == TypeInv /\ Ending /\ [Next]_vars => Ending'
<1>1. Ending /\ UNCHANGED vars => Ending'
    BY DEF vars, startup, given, channels, disk, Ending, NoSendAfterClose
<1> QED BY <1>1, EndingMain, EndingWorker, EndingCollector DEF Next

LEMMA EndingHolds == Spec => [](TypeInv /\ Ending)
BY TypeInit, TypeStep, EndingInit, EndingStep, PTL DEF Spec

\* main closes ress when no worker can send on it any more.
THEOREM NobodySendsAfterClose == Spec => []NoSendAfterClose
<1>1. Ending => NoSendAfterClose
    BY DEF Ending
<1> QED BY <1>1, EndingHolds, PTL

LEMMA InstancesRemovedAtEnd == TypeInv /\ Ending => InstancesRemoved
<1> SUFFICES ASSUME TypeInv, Ending, main = "completed", NEW w \in instances
             PROVE  w >= cfg.jobs
    BY DEF InstancesRemoved
<1>1. collector = "done" /\ ressClosed /\ ress = <<>> /\ main # "dead" /\ main \in Late
    BY DEF Ending, Late
<1>2. w \in Workers /\ cfg.jobs \in Int /\ w \in Int
    BY CfgType, JobsAssumption DEF TypeInv, WorkerType, StartType, Workers
<1>3. worker[w] # "done"
    BY <1>1, <1>2 DEF Ending
<1>4. worker[w] = "absent"
    BY <1>1, <1>2, <1>3 DEF Ending, NoSendAfterClose
<1>5. ~(w < cfg.jobs)
    BY <1>1, <1>2, <1>4 DEF Ending
<1> QED BY <1>2, <1>5

\* When main is through, its workers have removed their directories: one that did not has sent
\* a result without an entry, and the program ended in the collector's panic.
THEOREM WorkersCleanUp == Spec => []InstancesRemoved
BY EndingHolds, InstancesRemovedAtEnd, PTL

-----------------------------------------------------------------------------
(***************************************************************************)
(* What the messages say.                                                  *)
(***************************************************************************)
\* All that was sent, in its order.
Sent == log \o ress

\* The workers that have reported a failure.
Failers(messages) ==
    {w \in Workers : \E j \in DOMAIN messages : messages[j].res.tid = w /\ messages[j].failed \in Reportable}

\* Which of the results sent have an error, and what makes the next one fit: all from a
\* worker's first failure to write on.
Reports ==
    /\ \A i \in DOMAIN Sent :
          Sent[i].res.err <=> \E j \in 1..i : Sent[j].res.tid = Sent[i].res.tid /\ Sent[j].failed \in Reportable
    /\ \A w \in Workers :
          /\ res[w].err <=> failed[w] \in Reportable \/ w \in Failers(Sent)
          /\ worker[w] \in {"absent", "setup", "copy", "agent", "write", "restore"} => failed[w] = "none"
          /\ worker[w] = "ready" /\ failed[w] \in Reportable => w \in Failers(Sent)

\* ReportedIsWritten of all that was sent or will be.
Writing ==
    /\ \A i \in DOMAIN Sent : ~Sent[i].res.err => Sent[i].res.entry.name \in comp
    /\ \A w \in Workers :
          /\ worker[w] \in {"restore", "send", "sendLast"} /\ ~res[w].err => res[w].entry.name \in comp
          /\ worker[w] = "bail" => res[w].err

\* Receiving moves the first message of ress to the end of the log.
LEMMA MoveHead ==
    ASSUME NEW S, NEW s \in Seq(S), NEW t \in Seq(S), t # <<>>
    PROVE  Append(s, Head(t)) \o Tail(t) = s \o t
<1> DEFINE moved == Append(s, Head(t)) \o Tail(t)
<1>1. Append(s, Head(t)) \in Seq(S) /\ Tail(t) \in Seq(S)
    BY HeadTailProperties, AppendProperties
<1>2. /\ moved \in Seq(S) /\ s \o t \in Seq(S)
      /\ Len(moved) = Len(s) + Len(t) /\ Len(s \o t) = Len(s) + Len(t)
    BY <1>1, ConcatProperties, HeadTailProperties, AppendProperties, LenProperties
<1>3. ASSUME NEW i \in 1..Len(moved)
      PROVE  moved[i] = (s \o t)[i]
    <2>1. /\ Len(s) \in Nat /\ Len(t) \in Nat /\ i \in 1..Len(s) + Len(t)
          /\ Len(Append(s, Head(t))) = Len(s) + 1 /\ Len(Tail(t)) = Len(t) - 1
        BY <1>1, <1>2
    <2>2. moved[i] = IF i <= Len(s) + 1 THEN Append(s, Head(t))[i] ELSE Tail(t)[i - (Len(s) + 1)]
        BY <1>1, <2>1, ConcatProperties
    <2>3. (s \o t)[i] = IF i <= Len(s) THEN s[i] ELSE t[i - Len(s)]
        BY <2>1, ConcatProperties
    <2> HIDE DEF moved
    <2>4. CASE i <= Len(s) + 1
        BY <2>1, <2>2, <2>3, <2>4, AppendProperties, HeadTailProperties
    <2>5. CASE i > Len(s) + 1
        <3>1. i - (Len(s) + 1) \in 1..Len(Tail(t)) /\ i - (Len(s) + 1) + 1 = i - Len(s)
            BY <2>1, <2>5
        <3> QED BY <2>1, <2>2, <2>3, <2>5, <3>1, HeadTailProperties
    <2> QED BY <2>1, <2>4, <2>5
<1> HIDE DEF moved
<1>4. moved = s \o t
    BY <1>2, <1>3, SeqEqual
<1> QED BY <1>4 DEF moved

LEMMA SentType == TypeInv => Sent \in Seq(Message)
BY ConcatProperties DEF TypeInv, ChannelType, CollectorType, Sent

\* A message is added when a worker sends; no step takes one away.
LEMMA SentGrows ==
    ASSUME TypeInv, NEW w \in Workers, Send(w)
    PROVE  Sent' = Append(Sent, [res |-> res[w], failed |-> failed[w]])
<1> DEFINE m == [res |-> res[w], failed |-> failed[w]]
<1>1. log \in Seq(Message) /\ ress \in Seq(Message) /\ m \in Message
    BY MessageType DEF TypeInv, ChannelType, CollectorType
<1>2. ress' = Append(ress, m) /\ log' = log
    BY DEF Send
<1> HIDE DEF m
<1>3. <<m>> \in Seq(Message)
    BY <1>1
<1>4. log \o (ress \o <<m>>) = (log \o ress) \o <<m>>
    BY <1>1, <1>3, ConcatAssociative
<1>5. Append(ress, m) = ress \o <<m>> /\ Append(log \o ress, m) = (log \o ress) \o <<m>>
    BY <1>1, AppendIsConcat, ConcatProperties
<1> QED BY <1>2, <1>4, <1>5 DEF Sent, m

\* A worker's step that sends nothing.
Working(w) ==
    \/ MakeWorkdir(w) \/ CopyKernel(w) \/ CreateAgent(w) \/ SetupFails(w)
    \/ Take(w) \/ Leave(w) \/ Written(w) \/ Fails(w) \/ Restore(w) \/ RestoreFails(w)

Elsewhere == MainStep \/ CollectorStep \/ UNCHANGED vars

LEMMA NextSteps ==
    [Next]_vars <=> Elsewhere \/ \E w \in Workers : Working(w) \/ Send(w)
BY DEF Next, Elsewhere, WorkerStep, Working

LEMMA SentStays ==
    ASSUME TypeInv, Elsewhere \/ \E w \in Workers : Working(w)
    PROVE  Sent' = Sent
<1>1. CASE Receive
    BY <1>1, MoveHead DEF Receive, Sent, TypeInv, ChannelType, CollectorType
<1>2. CASE ~Receive
    <2>1. UNCHANGED <<log, ress>>
        BY <1>2 DEF Elsewhere, MainStep, Starting, StartWorkers, Dispatch, CloseJobs, CloseRess, AllCompleted,
           CollectorStep, Panic, CollectorLeaves, Working, MakeWorkdir, CopyKernel, CreateAgent, SetupFails,
           Take, Leave, Written, Fails, Restore, RestoreFails, channels, vars
    <2> QED BY <2>1 DEF Sent
<1> QED BY <1>1, <1>2

\* The steps of main and of the collector change no result; they start the workers or end
\* them all.
LEMMA WorkersFrame ==
    ASSUME TypeInv, Elsewhere
    PROVE  /\ UNCHANGED <<res, failed, comp>>
           /\ \A w \in Workers : \/ worker'[w] = worker[w]
                                 \/ worker[w] = "absent" /\ worker'[w] = "setup"
                                 \/ worker'[w] = "dead"
BY DEF TypeInv, NothingYet, Beginning, Elsewhere, MainStep, Starting, StartWorkers, Dispatch, CloseJobs,
   CloseRess, AllCompleted, CollectorStep, Receive, Panic, CollectorLeaves, disk, vars

LEMMA ReportsInit == Init => Reports
BY DEF Init, Reports, Failers, Sent, Reportable

LEMMA ReportsStep == TypeInv /\ Reports /\ [Next]_vars => Reports'
<1> SUFFICES ASSUME TypeInv, Reports, [Next]_vars PROVE Reports'
    OBVIOUS
<1>1. CASE Elsewhere
    BY <1>1, SentStays, WorkersFrame DEF Reports, Failers
<1>2. ASSUME NEW w \in Workers, Working(w)
      PROVE  Reports'
    <2>1. worker \in [Workers -> Labels] /\ res \in [Workers -> Result] /\ failed \in [Workers -> Failures]
        BY DEF TypeInv, WorkerType
    <2>2. Sent' = Sent
        BY <1>2, SentStays
    <2>3. \A v \in Workers \ {w} : worker'[v] = worker[v] /\ res'[v] = res[v] /\ failed'[v] = failed[v]
        BY <1>2, <2>1 DEF Working, MakeWorkdir, CopyKernel, CreateAgent, SetupFails, Take, Leave, Written, Fails,
           Restore, RestoreFails, Goto, Failed
    <2>4. /\ res'[w].err <=> failed'[w] \in Reportable \/ w \in Failers(Sent)
          /\ worker'[w] \in {"absent", "setup", "copy", "agent", "write", "restore"} => failed'[w] = "none"
          /\ worker'[w] = "ready" /\ failed'[w] \in Reportable => w \in Failers(Sent)
        <3>1. CASE MakeWorkdir(w) \/ CopyKernel(w) \/ CreateAgent(w) \/ Leave(w) \/ Written(w) \/ Restore(w)
            <4>1. /\ UNCHANGED <<res, failed>>
                  /\ \/ worker[w] \in {"setup", "copy", "agent"} /\ worker'[w] \in {"copy", "agent", "ready"}
                     \/ worker[w] = "write" /\ worker'[w] = "restore"
                     \/ worker'[w] \in {"done", "send"}
                BY <2>1, <3>1 DEF MakeWorkdir, CopyKernel, CreateAgent, Leave, Written, Restore, Goto
            <4> QED BY <4>1 DEF Reports, Reportable
        <3>2. CASE SetupFails(w) \/ Fails(w)
            BY <2>1, <3>2 DEF SetupFails, Fails, Failed, Goto, Result, Reportable
        <3>3. CASE Take(w)
            <4>1. res'[w].err = res[w].err /\ failed'[w] = "none" /\ worker'[w] \in {"send", "write"}
                BY <2>1, <3>3 DEF Take, NewResult, Goto, Result
            <4> QED BY <3>3, <4>1 DEF Take, Reports, Reportable
        <3>4. CASE RestoreFails(w)
            <4>1. /\ worker[w] = "restore" /\ worker'[w] = "sendLast" /\ res'[w] = res[w]
                  /\ failed'[w] = "restore"
                BY <2>1, <3>4 DEF RestoreFails, Goto
            <4> QED BY <4>1 DEF Reports, Reportable
        <3> QED BY <1>2, <3>1, <3>2, <3>3, <3>4 DEF Working
    <2> QED BY <2>2, <2>3, <2>4 DEF Reports, Failers
<1>3. ASSUME NEW w \in Workers, Send(w)
      PROVE  Reports'
    <2> DEFINE m == [res |-> res[w], failed |-> failed[w]]
    <2>1. /\ worker \in [Workers -> Labels] /\ res \in [Workers -> Result] /\ failed \in [Workers -> Failures]
          /\ \A v \in Workers : res[v].tid = v
        BY DEF TypeInv, WorkerType
    <2>2. UNCHANGED <<res, failed>> /\ worker' = [worker EXCEPT ![w] = worker'[w]] /\ worker'[w] \in {"ready", "done"}
        BY <1>3, <2>1 DEF Send, Goto
    <2>3. /\ Len(Sent) \in Nat /\ DOMAIN Sent = 1..Len(Sent) /\ DOMAIN Sent' = 1..Len(Sent) + 1
          /\ \A i \in 1..Len(Sent) : Sent'[i] = Sent[i]
          /\ Sent'[Len(Sent) + 1] = m
        BY <1>3, SentType, SentGrows
    <2>4. ASSUME NEW v \in Workers
          PROVE  v \in Failers(Sent') <=> v \in Failers(Sent) \/ (v = w /\ failed[w] \in Reportable)
        <3>1. m.res.tid = w /\ m.failed = failed[w]
            BY <2>1
        <3> HIDE DEF m
        <3>2. v \in Failers(Sent') <=> \E j \in 1..Len(Sent) + 1 : Sent'[j].res.tid = v /\ Sent'[j].failed \in Reportable
            BY <2>3 DEF Failers
        <3>3. v \in Failers(Sent) <=> \E j \in 1..Len(Sent) : Sent'[j].res.tid = v /\ Sent'[j].failed \in Reportable
            BY <2>3 DEF Failers
        <3>4. v = w /\ failed[w] \in Reportable <=> Sent'[Len(Sent) + 1].res.tid = v /\ Sent'[Len(Sent) + 1].failed \in Reportable
            BY <2>3, <3>1
        <3>5. 1..Len(Sent) + 1 = 1..Len(Sent) \cup {Len(Sent) + 1}
            BY <2>3
        <3> QED BY <3>2, <3>3, <3>4, <3>5
    <2>5. ASSUME NEW i \in DOMAIN Sent'
          PROVE  Sent'[i].res.err <=> \E j \in 1..i : Sent'[j].res.tid = Sent'[i].res.tid /\ Sent'[j].failed \in Reportable
        <3>1. CASE i \in 1..Len(Sent)
            BY <2>3, <3>1 DEF Reports
        <3>2. CASE i = Len(Sent) + 1
            <4>1. Sent'[i].res.err <=> failed[w] \in Reportable \/ w \in Failers(Sent)
                BY <2>3, <3>2 DEF Reports
            <4> QED BY <2>1, <2>3, <3>2, <4>1 DEF Failers
        <3> QED BY <2>3, <3>1, <3>2
    <2>6. ASSUME NEW v \in Workers
          PROVE  /\ res'[v].err <=> failed'[v] \in Reportable \/ v \in Failers(Sent')
                 /\ worker'[v] \in {"absent", "setup", "copy", "agent", "write", "restore"} => failed'[v] = "none"
                 /\ worker'[v] = "ready" /\ failed'[v] \in Reportable => v \in Failers(Sent')
        <3>1. CASE v = w
            <4>1. v \in Failers(Sent') <=> v \in Failers(Sent) \/ failed[w] \in Reportable
                BY <2>4, <3>1
            <4> QED BY <2>1, <2>2, <3>1, <4>1 DEF Reports
        <3>2. CASE v # w
            <4>1. v \in Failers(Sent') <=> v \in Failers(Sent)
                BY <2>4, <3>2
            <4> QED BY <2>1, <2>2, <3>2, <4>1 DEF Reports
        <3> QED BY <3>1, <3>2
    <2> QED BY <2>5, <2>6 DEF Reports
<1> QED BY <1>1, <1>2, <1>3, NextSteps

LEMMA WritingInit == Init => Writing
BY DEF Init, Writing, Sent

LEMMA WritingStep == TypeInv /\ Writing /\ [Next]_vars => Writing'
<1> SUFFICES ASSUME TypeInv, Writing, [Next]_vars PROVE Writing'
    OBVIOUS
<1>1. CASE Elsewhere
    BY <1>1, SentStays, WorkersFrame DEF Writing
<1>2. ASSUME NEW w \in Workers, Working(w)
      PROVE  Writing'
    <2>1. worker \in [Workers -> Labels] /\ res \in [Workers -> Result]
        BY DEF TypeInv, WorkerType
    <2>2. Sent' = Sent /\ comp \subseteq comp'
        BY <1>2, SentStays DEF Working, MakeWorkdir, CopyKernel, CreateAgent, SetupFails, Take, Leave, Written, Fails,
           Restore, RestoreFails, disk
    <2>3. \A v \in Workers \ {w} : worker'[v] = worker[v] /\ res'[v] = res[v]
        BY <1>2, <2>1 DEF Working, MakeWorkdir, CopyKernel, CreateAgent, SetupFails, Take, Leave, Written, Fails,
           Restore, RestoreFails, Goto, Failed
    <2>4. /\ worker'[w] \in {"restore", "send", "sendLast"} /\ ~res'[w].err => res'[w].entry.name \in comp'
          /\ worker'[w] = "bail" => res'[w].err
        <3>1. CASE MakeWorkdir(w) \/ CopyKernel(w) \/ CreateAgent(w) \/ Leave(w) \/ Written(w) \/ Restore(w)
                    \/ RestoreFails(w)
            BY <2>1, <2>2, <3>1 DEF MakeWorkdir, CopyKernel, CreateAgent, Leave, Written, Restore, RestoreFails, Goto, Writing
        <3>2. CASE SetupFails(w) \/ Fails(w)
            BY <2>1, <3>2 DEF SetupFails, Fails, Failed, Goto, Result
        <3>3. CASE Take(w)
            <4>1. res'[w].entry = Head(jobs) /\ worker'[w] = IF Reuse(Head(jobs)) THEN "send" ELSE "write"
                BY <2>1, <3>3 DEF Take, NewResult, Goto, Result
            <4> QED BY <2>2, <4>1 DEF Reuse
        <3> QED BY <1>2, <3>1, <3>2, <3>3 DEF Working
    <2> QED BY <2>2, <2>3, <2>4 DEF Writing
<1>3. ASSUME NEW w \in Workers, Send(w)
      PROVE  Writing'
    <2> DEFINE m == [res |-> res[w], failed |-> failed[w]]
    <2>1. worker \in [Workers -> Labels] /\ worker[w] \in {"send", "sendLast", "bail"}
        BY <1>3 DEF TypeInv, WorkerType, Send
    <2>2. /\ UNCHANGED <<res, comp>> /\ worker' = [worker EXCEPT ![w] = worker'[w]]
          /\ worker'[w] \in {"ready", "done"}
        BY <1>3, <2>1 DEF Send, Goto
    <2>3. /\ Len(Sent) \in Nat /\ DOMAIN Sent = 1..Len(Sent) /\ DOMAIN Sent' = 1..Len(Sent) + 1
          /\ \A i \in 1..Len(Sent) : Sent'[i] = Sent[i]
          /\ Sent'[Len(Sent) + 1] = m
        BY <1>3, SentType, SentGrows
    <2>4. ~m.res.err => m.res.entry.name \in comp
        BY <2>1 DEF Writing
    <2>5. \A i \in DOMAIN Sent' : ~Sent'[i].res.err => Sent'[i].res.entry.name \in comp'
        <3> HIDE DEF m
        <3> QED BY <2>2, <2>3, <2>4 DEF Writing
    <2> QED BY <2>1, <2>2, <2>5 DEF Writing
<1> QED BY <1>1, <1>2, <1>3, NextSteps

LEMMA MessagesHold == Spec => [](TypeInv /\ Reports /\ Writing)
BY TypeInit, TypeStep, ReportsInit, ReportsStep, WritingInit, WritingStep, PTL DEF Spec

\* What was printed is the beginning of what was sent.
LEMMA LogIsSent ==
    ASSUME TypeInv, NEW i \in DOMAIN log
    PROVE  i \in DOMAIN Sent /\ Sent[i] = log[i] /\ 1..i \subseteq DOMAIN log
BY ConcatProperties DEF TypeInv, ChannelType, CollectorType, Sent

\* A result says so when its entry could not be written, and no worker reports the error of
\* another (main.go:513-528).
THEOREM FailedWritesAreReported == Spec => []FailedWriteReported
<1>1. TypeInv /\ Reports => FailedWriteReported
    <2> SUFFICES ASSUME TypeInv, Reports, NEW i \in DOMAIN log
                 PROVE  /\ log[i].failed \in Reportable => log[i].res.err
                        /\ log[i].res.err =>
                              \E j \in 1..i : log[j].res.tid = log[i].res.tid /\ log[j].failed \in Reportable
        BY DEF FailedWriteReported
    <2>1. i \in DOMAIN Sent /\ Sent[i] = log[i] /\ (\A j \in 1..i : Sent[j] = log[j]) /\ i \in 1..i
        BY LogIsSent DEF TypeInv, CollectorType
    <2> QED BY <2>1 DEF Reports
<1> QED BY <1>1, MessagesHold, PTL

\* What is printed without an error has its specification on disk, whichever worker wrote it
\* and however the workers' steps interleave.
THEOREM PrintedIsWritten == Spec => []ReportedIsWritten
<1>1. TypeInv /\ Writing => ReportedIsWritten
    BY LogIsSent DEF Writing, ReportedIsWritten
<1> QED BY <1>1, MessagesHold, PTL

-----------------------------------------------------------------------------
(***************************************************************************)
(* Where the entries are.                                                  *)
(***************************************************************************)
\* Elements of a sequence that are in T; Occurrences counts them for an entry and for the
\* messages with an entry.
Places(s, T) == {i \in DOMAIN s : s[i] \in T}

Count(s, T) == Cardinality(Places(s, T))

LEMMA CountType ==
    ASSUME NEW S, NEW s \in Seq(S), NEW T
    PROVE  IsFiniteSet(Places(s, T)) /\ Count(s, T) \in Nat
<1>1. Places(s, T) \in SUBSET (1..Len(s)) /\ Len(s) \in Nat
    BY LenProperties DEF Places
<1>2. IsFiniteSet(1..Len(s))
    BY <1>1, FS_Interval
<1> QED BY <1>1, <1>2, FS_Subset, FS_CardinalityType DEF Count

LEMMA CountEmpty == \A T : Count(<<>>, T) = 0
<1>1. \A T : Places(<<>>, T) = {}
    BY DEF Places
<1> QED BY <1>1, FS_EmptySet DEF Count

LEMMA CountAppend ==
    ASSUME NEW S, NEW s \in Seq(S), NEW x \in S, NEW T
    PROVE  Count(Append(s, x), T) = Count(s, T) + (IF x \in T THEN 1 ELSE 0)
<1> DEFINE n == Len(s) + 1
           t == Append(s, x)
<1>1. /\ n \in Nat /\ n \notin DOMAIN s /\ DOMAIN t = DOMAIN s \cup {n}
      /\ t[n] = x /\ \A i \in DOMAIN s : t[i] = s[i]
    BY LenProperties, AppendProperties
<1> HIDE DEF n, t
<1>2. Places(t, T) = IF x \in T THEN Places(s, T) \cup {n} ELSE Places(s, T)
    BY <1>1 DEF Places
<1>3. n \notin Places(s, T) /\ IsFiniteSet(Places(s, T)) /\ Cardinality(Places(s, T)) \in Nat
    BY <1>1, CountType DEF Places, Count
<1>4. Cardinality(Places(s, T) \cup {n}) = Cardinality(Places(s, T)) + 1
    BY <1>3, FS_AddElement
<1> QED BY <1>2, <1>3, <1>4 DEF Count, t

LEMMA CountTail ==
    ASSUME NEW S, NEW s \in Seq(S), s # <<>>, NEW T
    PROVE  Count(s, T) = Count(Tail(s), T) + (IF Head(s) \in T THEN 1 ELSE 0)
<1> DEFINE t == Tail(s)
           later == Places(s, T) \ {1}
<1>1. /\ DOMAIN s = 1..Len(s) /\ Len(s) \in Nat \ {0} /\ DOMAIN t = 1..(Len(s) - 1) /\ t \in Seq(S)
      /\ \A i \in 1..(Len(s) - 1) : t[i] = s[i + 1]
      /\ Head(s) = s[1]
    BY EmptySeq, LenProperties, HeadTailProperties
<1> HIDE DEF t
<1>2. Cardinality(later) = Count(t, T)
    <2> DEFINE f == [i \in Places(t, T) |-> i + 1]
    <2>1. \A i \in Places(t, T) : i \in Int /\ i + 1 \in later
        BY <1>1 DEF Places
    <2>2. \A k \in later : k - 1 \in Places(t, T) /\ k = (k - 1) + 1
        BY <1>1 DEF Places
    <2>3. f \in Bijection(Places(t, T), later)
        <3> HIDE DEF later
        <3>1. f \in [Places(t, T) -> later]
            BY <2>1
        <3>2. \A a, b \in Places(t, T) : f[a] = f[b] => a = b
            BY <2>1
        <3>3. \A k \in later : \E i \in Places(t, T) : f[i] = k
            BY <2>2
        <3> HIDE DEF f
        <3> QED BY <3>1, <3>2, <3>3, Fun_IsBij
    <2>4. ExistsBijection(Places(t, T), later)
        BY <2>3 DEF ExistsBijection
    <2> QED BY <1>1, <2>4, CountType, FS_Bijection DEF Count
<1>3. IsFiniteSet(Places(s, T)) /\ Cardinality(Places(s, T)) \in Nat
    BY CountType DEF Count
<1>4. Cardinality(later) = IF 1 \in Places(s, T) THEN Count(s, T) - 1 ELSE Count(s, T)
    BY <1>3, FS_RemoveElement DEF Count
<1>5. 1 \in Places(s, T) <=> Head(s) \in T
    BY <1>1 DEF Places
<1> HIDE DEF later
<1> QED BY <1>2, <1>3, <1>4, <1>5 DEF Count, t

LEMMA CountPositive ==
    ASSUME NEW S, NEW s \in Seq(S), NEW T, Count(s, T) # 0
    PROVE  \E i \in DOMAIN s : s[i] \in T
<1>1. Places(s, T) # {}
    BY FS_EmptySet DEF Count
<1> QED BY <1>1 DEF Places

\* The messages with the entry e.
About(e) == {m \in Message : m.res.entry = e}

LEMMA OccurrencesCount ==
    /\ \A e, s : Occurrences(e, s) = Count(s, {e})
    /\ \A e : \A s \in Seq(Message) : Occurrences(e, EntriesOf(s)) = Count(s, About(e))
<1>1. ASSUME NEW e, NEW s
      PROVE  Occurrences(e, s) = Count(s, {e})
    <2>1. {i \in DOMAIN s : s[i] = e} = Places(s, {e})
        BY DEF Places
    <2> QED BY <2>1 DEF Occurrences, Count
<1>2. ASSUME NEW e, NEW s \in Seq(Message)
      PROVE  Occurrences(e, EntriesOf(s)) = Count(s, About(e))
    <2>1. \A i \in DOMAIN s : s[i] \in Message
        OBVIOUS
    <2>2. {i \in DOMAIN EntriesOf(s) : EntriesOf(s)[i] = e} = Places(s, About(e))
        BY <2>1 DEF EntriesOf, Places, About
    <2> QED BY <2>2 DEF Occurrences, Count
<1> QED BY <1>1, <1>2

\* EntryConserved, with the counts that the lemmas are about.
Kept ==
    main # "dead" => \A e \in Database :
        Count(jobs, {e}) + Cardinality(InHand(e)) + Count(ress, About(e)) + Count(log, About(e))
            = Count(SubSeq(queue, 1, dispatched), {e})

LEMMA WorkersFinite == IsFiniteSet(Workers)
BY JobsAssumption, FS_Interval DEF Workers

LEMMA HandFinite == \A e : IsFiniteSet(InHand(e)) /\ Cardinality(InHand(e)) \in Nat
<1>1. \A e : InHand(e) \in SUBSET Workers
    BY DEF InHand
<1> QED BY <1>1, WorkersFinite, FS_Subset, FS_CardinalityType

\* Sets that differ in one element at most.
LEMMA OneApart ==
    ASSUME NEW A, NEW B, NEW w, IsFiniteSet(A), IsFiniteSet(B), A \ {w} = B \ {w}
    PROVE  Cardinality(B) + (IF w \in A THEN 1 ELSE 0) = Cardinality(A) + (IF w \in B THEN 1 ELSE 0)
<1>1. /\ Cardinality(A \ {w}) = IF w \in A THEN Cardinality(A) - 1 ELSE Cardinality(A)
      /\ Cardinality(B \ {w}) = IF w \in B THEN Cardinality(B) - 1 ELSE Cardinality(B)
      /\ Cardinality(A) \in Nat /\ Cardinality(B) \in Nat
    BY FS_RemoveElement, FS_CardinalityType
<1> QED BY <1>1

LEMMA CountsAreNat ==
    ASSUME TypeInv, NEW e
    PROVE  /\ Count(jobs, {e}) \in Nat /\ Count(ress, About(e)) \in Nat /\ Count(log, About(e)) \in Nat
           /\ Cardinality(InHand(e)) \in Nat
           /\ SubSeq(queue, 1, dispatched) \in Seq(Database) /\ Count(SubSeq(queue, 1, dispatched), {e}) \in Nat
<1>1. SubSeq(queue, 1, dispatched) \in Seq(Database)
    <2>1. queue \in Seq(Database) /\ dispatched \in 0..Len(queue) /\ Len(queue) \in Nat
        BY DEF TypeInv, StartType, ChannelType
    <2>2. \A i \in 1..dispatched : queue[i] \in Database
        BY <2>1
    <2> QED BY <2>1, <2>2, SubSeqProperties
<1> QED BY <1>1, CountType, HandFinite DEF TypeInv, ChannelType, CollectorType

LEMMA KeptAtFirst == TypeInv /\ main \in Beginning => Kept
<1> SUFFICES ASSUME TypeInv, main \in Beginning, NEW e \in Database
             PROVE  Count(jobs, {e}) + Cardinality(InHand(e)) + Count(ress, About(e)) + Count(log, About(e))
                      = Count(SubSeq(queue, 1, dispatched), {e})
    BY DEF Kept
<1>1. jobs = <<>> /\ ress = <<>> /\ log = <<>> /\ dispatched = 0
    BY DEF TypeInv, NothingYet
<1>2. InHand(e) = {}
    BY DEF TypeInv, NothingYet, InHand
<1>3. SubSeq(queue, 1, 0) = <<>>
    BY SubSeqEmpty
<1>4. Count(jobs, {e}) = 0 /\ Count(ress, About(e)) = 0 /\ Count(log, About(e)) = 0
    BY <1>1, CountEmpty
<1>5. Cardinality(InHand(e)) = 0 /\ Count(SubSeq(queue, 1, dispatched), {e}) = 0
    BY <1>1, <1>2, <1>3, CountEmpty, FS_EmptySet
<1> QED BY <1>4, <1>5

LEMMA KeptMain ==
    ASSUME TypeInv, TypeInv', Kept, MainStep
    PROVE  Kept'
<1>1. CASE Starting
    <2>1. main' \in Beginning
        BY <1>1 DEF Starting, StartupStep, ParseFlags, CheckConfig, CheckSysdir, Open, ReadLine,
                   LinesRead, CreateQueue, Continue, Fatal, Beginning
    <2>2. (TypeInv /\ main \in Beginning => Kept)'
        BY KeptAtFirst, PTL
    <2> QED BY <2>1, <2>2
<1>2. CASE StartWorkers
    <2>1. \A e : InHand(e)' = InHand(e)
        <3>1. \A w \in Workers : worker[w] = "absent" /\ worker'[w] \in {"absent", "setup"}
            BY <1>2 DEF StartWorkers, TypeInv, NothingYet, Beginning
        <3> QED BY <3>1 DEF InHand
    <2>2. UNCHANGED <<jobs, ress, log, queue, dispatched>> /\ main # "dead"
        BY <1>2 DEF StartWorkers, given, channels
    <2> QED BY <2>1, <2>2 DEF Kept
<1>3. CASE Dispatch
    <2>1. /\ main # "dead" /\ UNCHANGED <<ress, log, worker, res, queue>>
          /\ jobs' = Append(jobs, queue[dispatched + 1]) /\ dispatched' = dispatched + 1 /\ dispatched < Len(queue)
        BY <1>3 DEF Dispatch, startup, given
    <2>2. queue \in Seq(Database) /\ dispatched \in Nat /\ dispatched + 1 \in 1..Len(queue) /\ jobs \in Seq(Database)
        BY <2>1 DEF TypeInv, StartType, ChannelType
    <2>3. SubSeq(queue, 1, dispatched') = Append(SubSeq(queue, 1, dispatched), queue[dispatched + 1])
        <3>1. SubSeq(queue, 1, dispatched + 1) = SubSeq(queue, 1, dispatched) \o <<queue[dispatched + 1]>>
            BY <2>2, SubSeqRecursiveSecond
        <3> QED BY <2>1, <2>2, <3>1, CountsAreNat, AppendIsConcat
    <2> SUFFICES ASSUME NEW e \in Database
                 PROVE  Count(jobs', {e}) + Cardinality(InHand(e)') + Count(ress', About(e)) + Count(log', About(e))
                          = Count(SubSeq(queue', 1, dispatched'), {e})
        BY DEF Kept
    <2>4. Count(jobs', {e}) = Count(jobs, {e}) + (IF queue[dispatched + 1] = e THEN 1 ELSE 0)
        BY <2>1, <2>2, CountAppend
    <2>5. Count(SubSeq(queue', 1, dispatched'), {e})
            = Count(SubSeq(queue, 1, dispatched), {e}) + (IF queue[dispatched + 1] = e THEN 1 ELSE 0)
        <3> DEFINE sent == SubSeq(queue, 1, dispatched)
        <3>1. sent \in Seq(Database) /\ queue[dispatched + 1] \in Database
            BY <2>2, CountsAreNat
        <3> HIDE DEF sent
        <3>2. Count(Append(sent, queue[dispatched + 1]), {e})
                = Count(sent, {e}) + (IF queue[dispatched + 1] \in {e} THEN 1 ELSE 0)
            BY <3>1, CountAppend
        <3> QED BY <2>1, <2>3, <3>2 DEF sent
    <2>6. InHand(e)' = InHand(e)
        BY <2>1 DEF InHand
    <2>7. Count(jobs, {e}) + Cardinality(InHand(e)) + Count(ress, About(e)) + Count(log, About(e))
            = Count(SubSeq(queue, 1, dispatched), {e})
        BY <2>1 DEF Kept
    <2> QED BY <2>1, <2>4, <2>5, <2>6, <2>7, CountsAreNat
<1>4. CASE CloseJobs \/ CloseRess \/ AllCompleted
    <2>1. UNCHANGED <<jobs, ress, log, queue, dispatched, worker, res>> /\ main # "dead"
        BY <1>4 DEF CloseJobs, CloseRess, AllCompleted, given, channels
    <2>2. \A e : InHand(e)' = InHand(e)
        BY <2>1 DEF InHand
    <2> QED BY <2>1, <2>2 DEF Kept
<1> QED BY <1>1, <1>2, <1>3, <1>4 DEF MainStep

LEMMA KeptWorker ==
    ASSUME TypeInv, Ending, Kept, NEW w \in Workers, WorkerStep(w)
    PROVE  Kept'
<1>1. /\ worker \in [Workers -> Labels] /\ res \in [Workers -> Result] /\ jobs \in Seq(Database)
      /\ ress \in Seq(Message) /\ log \in Seq(Message)
    BY DEF TypeInv, WorkerType, ChannelType, CollectorType
<1>2. main # "dead"
    BY DEF WorkerStep, MakeWorkdir, CopyKernel, CreateAgent, SetupFails, Take, Leave, Written, Fails,
           Restore, RestoreFails, Send, Ending, TypeInv
<1>3. UNCHANGED <<main, log, queue, dispatched>>
    BY DEF WorkerStep, MakeWorkdir, CopyKernel, CreateAgent, SetupFails, Take, Leave, Written, Fails,
           Restore, RestoreFails, Send, startup, given
<1> SUFFICES ASSUME NEW e \in Database
             PROVE  Count(jobs', {e}) + Cardinality(InHand(e)') + Count(ress', About(e)) + Count(log, About(e))
                      = Count(SubSeq(queue, 1, dispatched), {e})
    BY <1>3 DEF Kept
<1>4. e # NoEntry
    BY EntryAssumption
<1>5. IsFiniteSet(InHand(e)') /\ Cardinality(InHand(e)') \in Nat
    <2>1. InHand(e)' \in SUBSET Workers
        BY DEF InHand
    <2> QED BY <2>1, WorkersFinite, FS_Subset, FS_CardinalityType
<1>6. Cardinality(InHand(e)') + (IF w \in InHand(e) THEN 1 ELSE 0)
        = Cardinality(InHand(e)) + (IF w \in InHand(e)' THEN 1 ELSE 0)
    <2>1. \A v \in Workers \ {w} : worker'[v] = worker[v] /\ res'[v] = res[v]
        BY <1>1 DEF WorkerStep, MakeWorkdir, CopyKernel, CreateAgent, SetupFails, Take, Leave, Written, Fails,
           Restore, RestoreFails, Send, Goto, Failed
    <2>2. InHand(e)' \ {w} = InHand(e) \ {w}
        BY <2>1 DEF InHand
    <2> QED BY <1>5, <2>2, HandFinite, OneApart
<1>7. Count(jobs, {e}) + Cardinality(InHand(e)) + Count(ress, About(e)) + Count(log, About(e))
            = Count(SubSeq(queue, 1, dispatched), {e})
    BY <1>2 DEF Kept
<1>8. CASE Take(w)
    <2>1. jobs # <<>> /\ jobs' = Tail(jobs) /\ ress' = ress
        BY <1>8 DEF Take
    <2>2. w \notin InHand(e) /\ (w \in InHand(e)' <=> Head(jobs) = e)
        <3>1. worker[w] = "ready" /\ res'[w].entry = Head(jobs) /\ worker'[w] \in {"send", "write"}
            BY <1>1, <1>8 DEF Take, NewResult, Goto, Result
        <3> QED BY <3>1 DEF InHand
    <2>3. Count(jobs, {e}) = Count(jobs', {e}) + (IF Head(jobs) = e THEN 1 ELSE 0)
        BY <1>1, <2>1, CountTail
    <2>4. jobs' \in Seq(Database) /\ Count(jobs', {e}) \in Nat
        BY <1>1, <2>1, HeadTailProperties, CountType
    <2>5. Cardinality(InHand(e)') = Cardinality(InHand(e)) + (IF Head(jobs) = e THEN 1 ELSE 0)
        BY <1>5, <1>6, <2>2, CountsAreNat
    <2> QED BY <1>5, <1>7, <2>1, <2>3, <2>4, <2>5, CountsAreNat
<1>9. CASE Send(w)
    <2> DEFINE m == [res |-> res[w], failed |-> failed[w]]
    <2>1. ress' = Append(ress, m) /\ jobs' = jobs
        BY <1>9 DEF Send
    <2>2. m \in Message /\ (m \in About(e) <=> res[w].entry = e)
        BY MessageType DEF About, TypeInv
    <2>3. w \notin InHand(e)' /\ (w \in InHand(e) <=> res[w].entry = e)
        <3>1. worker[w] \in {"send", "sendLast", "bail"} /\ worker'[w] \in {"ready", "done"}
            BY <1>1, <1>9 DEF Send, Goto
        <3>2. worker[w] = "bail" => res[w].entry # e
            BY <1>4 DEF Ending
        <3> QED BY <3>1, <3>2 DEF InHand
    <2> HIDE DEF m
    <2>4. Count(ress', About(e)) = Count(ress, About(e)) + (IF m \in About(e) THEN 1 ELSE 0)
        BY <1>1, <2>1, <2>2, CountAppend
    <2> QED BY <1>6, <1>5, <1>7, <2>1, <2>2, <2>3, <2>4, CountsAreNat
<1>10. CASE Working(w) /\ ~Take(w)
    <2>1. jobs' = jobs /\ ress' = ress
        BY <1>10 DEF Working, MakeWorkdir, CopyKernel, CreateAgent, SetupFails, Leave, Written, Fails,
           Restore, RestoreFails, channels
    <2>2. w \in InHand(e)' <=> w \in InHand(e)
        <3>1. CASE MakeWorkdir(w) \/ CopyKernel(w) \/ CreateAgent(w) \/ Leave(w) \/ Written(w) \/ Restore(w)
                    \/ RestoreFails(w)
            BY <1>1, <3>1 DEF MakeWorkdir, CopyKernel, CreateAgent, Leave, Written, Restore, RestoreFails, Goto, InHand
        <3>2. CASE Fails(w)
            BY <1>1, <3>2 DEF Fails, Failed, Goto, InHand, Result
        <3>3. CASE SetupFails(w)
            <4>1. res[w].entry = NoEntry /\ res'[w].entry = NoEntry
                BY <1>1, <3>3 DEF SetupFails, Ending, Result
            <4> QED BY <1>4, <4>1 DEF InHand
        <3> QED BY <1>10, <3>1, <3>2, <3>3 DEF Working
    <2> QED BY <1>6, <1>5, <1>7, <2>1, <2>2, CountsAreNat
<1> QED BY <1>8, <1>9, <1>10 DEF WorkerStep, Working

LEMMA KeptCollector ==
    ASSUME TypeInv, Kept, CollectorStep
    PROVE  Kept'
<1>1. CASE Receive
    <2>1. /\ ress \in Seq(Message) /\ log \in Seq(Message) /\ ress # <<>>
          /\ ress' = Tail(ress) /\ log' = Append(log, Head(ress))
          /\ UNCHANGED <<main, jobs, worker, res, queue, dispatched>>
        BY <1>1 DEF Receive, TypeInv, ChannelType, CollectorType, startup, given
    <2> SUFFICES ASSUME NEW e \in Database, main # "dead"
                 PROVE  Count(jobs, {e}) + Cardinality(InHand(e)) + Count(ress', About(e)) + Count(log', About(e))
                          = Count(SubSeq(queue, 1, dispatched), {e})
        <3>1. \A e : InHand(e)' = InHand(e)
            BY <2>1 DEF InHand
        <3> QED BY <2>1, <3>1 DEF Kept
    <2>2. Head(ress) \in Message /\ ress' \in Seq(Message) /\ Count(ress', About(e)) \in Nat
        BY <2>1, HeadTailProperties, CountType
    <2>3. Count(ress, About(e)) = Count(ress', About(e)) + (IF Head(ress) \in About(e) THEN 1 ELSE 0)
        BY <2>1, CountTail
    <2>4. Count(log', About(e)) = Count(log, About(e)) + (IF Head(ress) \in About(e) THEN 1 ELSE 0)
        BY <2>1, <2>2, CountAppend
    <2>5. Count(jobs, {e}) + Cardinality(InHand(e)) + Count(ress, About(e)) + Count(log, About(e))
            = Count(SubSeq(queue, 1, dispatched), {e})
        BY DEF Kept
    <2> QED BY <2>2, <2>3, <2>4, <2>5, CountsAreNat
<1>2. CASE Panic
    BY <1>2 DEF Panic, Kept
<1>3. CASE CollectorLeaves
    <2>1. UNCHANGED <<main, jobs, ress, log, queue, dispatched, worker, res>>
        BY <1>3 DEF CollectorLeaves, startup, given, channels
    <2>2. \A e : InHand(e)' = InHand(e)
        BY <2>1 DEF InHand
    <2> QED BY <2>1, <2>2 DEF Kept
<1> QED BY <1>1, <1>2, <1>3 DEF CollectorStep

LEMMA KeptStep == TypeInv /\ TypeInv' /\ Ending /\ Kept /\ [Next]_vars => Kept'
<1>1. Kept /\ UNCHANGED vars => Kept'
    <2> SUFFICES ASSUME Kept, UNCHANGED vars PROVE Kept'
        OBVIOUS
    <2>1. UNCHANGED <<main, jobs, ress, log, queue, dispatched, worker, res>>
        BY DEF vars, startup, given, channels
    <2>2. \A e : InHand(e)' = InHand(e)
        BY <2>1 DEF InHand
    <2> QED BY <2>1, <2>2 DEF Kept
<1> QED BY <1>1, KeptMain, KeptWorker, KeptCollector DEF Next

LEMMA KeptInit == Init /\ TypeInv => Kept
BY KeptAtFirst DEF Init, StartupInit, Beginning

LEMMA KeptHolds == Spec => [](TypeInv /\ Ending /\ Kept)
<1>1. Init => TypeInv /\ Ending /\ Kept
    BY TypeInit, EndingInit, KeptInit
<1>2. TypeInv /\ Ending /\ Kept /\ [Next]_vars => (TypeInv /\ Ending /\ Kept)'
    BY TypeStep, EndingStep, KeptStep
<1> QED BY <1>1, <1>2, PTL DEF Spec

\* Every occurrence of an entry that main has dispatched is in the channel, in the hands of one
\* worker, on its way to the collector, or printed: none is lost and none is taken twice,
\* also when workers leave early.
THEOREM EntriesAreConserved == Spec => []EntryConserved
<1>1. TypeInv /\ Kept => EntryConserved
    BY OccurrencesCount DEF TypeInv, ChannelType, CollectorType, Kept, EntryConserved
<1> QED BY <1>1, KeptHolds, PTL

-----------------------------------------------------------------------------
(***************************************************************************)
(* What main makes of the reference file.                                  *)
(***************************************************************************)
LinesKept ==
    /\ main # "panic" => \A line \in RefLines \ {Blank} :
                             Count(entries, {line}) = Count(SubSeq(cfg.ref, 1, read), {line})
    /\ main \in {"queue", "start"} \cup Late => read = Len(cfg.ref)
    /\ main \in {"start"} \cup Late => queue = entries
    /\ main \in Late \ {"dispatch", "dead"} => dispatched = Len(queue)

LEMMA LinesInit == Init => LinesKept
<1> SUFFICES ASSUME Init PROVE LinesKept
    OBVIOUS
<1>1. main = "flags" /\ read = 0 /\ entries = <<>> /\ SubSeq(cfg.ref, 1, 0) = <<>>
    BY SubSeqEmpty DEF Init, StartupInit
<1> QED BY <1>1 DEF LinesKept, Late

LEMMA LinesStarting == TypeInv /\ LinesKept /\ StartupStep => LinesKept'
<1> SUFFICES ASSUME TypeInv, LinesKept, StartupStep PROVE LinesKept'
    OBVIOUS
<1> USE DEF Continue, Fatal, Late
<1>1. CASE ParseFlags
    <2>1. cfg \in Configs /\ cfg' = [cfg EXCEPT !.outdir = AbsPath(@)]
        BY <1>1 DEF ParseFlags, TypeInv, StartType
    <2>2. cfg'.ref = cfg.ref
        BY <2>1, ConfigsAssumption
    <2> QED BY <1>1, <2>2 DEF ParseFlags, LinesKept, RefLines
<1>2. CASE CheckConfig \/ CheckSysdir \/ Open \/ LinesRead
    BY <1>2 DEF CheckConfig, CheckSysdir, Open, LinesRead, LinesKept, RefLines
<1>3. CASE ReadLine
    <2> DEFINE line == cfg.ref[read + 1]
               before == SubSeq(cfg.ref, 1, read)
    <2>1. cfg.ref \in Seq(RefLines) /\ read \in Nat /\ read + 1 \in 1..Len(cfg.ref) /\ entries \in Seq(RefLines)
        BY <1>3, CfgType DEF ReadLine, TypeInv, StartType, StartupTypeOK
    <2>2. line \in RefLines /\ before \in Seq(RefLines)
        <3>1. \A i \in 1..read : cfg.ref[i] \in RefLines
            BY <2>1
        <3> QED BY <2>1, <3>1, SubSeqProperties
    <2>3. SubSeq(cfg.ref, 1, read + 1) = Append(before, line)
        <3>1. SubSeq(cfg.ref, 1, read + 1) = before \o <<line>>
            BY <2>1, SubSeqRecursiveSecond
        <3> QED BY <2>2, <3>1, AppendIsConcat
    <2>4. /\ UNCHANGED <<cfg, queue>> /\ main = "read" /\ main' \in {"read", "panic"} /\ read' = read + 1
          /\ main' = "read" => (line = Blank /\ entries' = entries) \/ entries' = Append(entries, line)
        BY <1>3 DEF ReadLine
    <2> HIDE DEF line, before
    <2>5. ASSUME main' = "read", NEW l \in RefLines \ {Blank}
          PROVE  Count(entries', {l}) = Count(SubSeq(cfg.ref, 1, read + 1), {l})
        <3>1. Count(entries, {l}) = Count(before, {l})
            BY <2>4 DEF LinesKept, before
        <3>2. Count(SubSeq(cfg.ref, 1, read + 1), {l}) = Count(before, {l}) + (IF line = l THEN 1 ELSE 0)
            <4>1. Count(Append(before, line), {l}) = Count(before, {l}) + (IF line \in {l} THEN 1 ELSE 0)
                BY <2>2, CountAppend
            <4> QED BY <2>3, <4>1
        <3>3. Count(entries, {l}) \in Nat /\ Count(before, {l}) \in Nat
            BY <2>1, <2>2, CountType
        <3>4. CASE entries' = Append(entries, line)
            <4>1. Count(entries', {l}) = Count(entries, {l}) + (IF line = l THEN 1 ELSE 0)
                BY <2>1, <2>2, <3>4, CountAppend
            <4> QED BY <3>1, <3>2, <4>1
        <3>5. CASE line = Blank /\ entries' = entries
            BY <3>1, <3>2, <3>3, <3>5
        <3> QED BY <2>4, <2>5, <3>4, <3>5
    <2> QED BY <2>4, <2>5 DEF LinesKept, RefLines
<1>4. CASE CreateQueue
    BY <1>4 DEF CreateQueue, LinesKept, RefLines
<1> QED BY <1>1, <1>2, <1>3, <1>4 DEF StartupStep

LEMMA LinesStep == TypeInv /\ LinesKept /\ [Next]_vars => LinesKept'
<1> SUFFICES ASSUME TypeInv, LinesKept, [Next]_vars PROVE LinesKept'
    OBVIOUS
<1> USE DEF given, Late, Beginning
<1>1. CASE Starting
    <2>1. main' \in Beginning
        BY <1>1 DEF Starting, StartupStep, ParseFlags, CheckConfig, CheckSysdir, Open, ReadLine,
                   LinesRead, CreateQueue, Continue, Fatal
    <2> QED BY <1>1, <2>1, LinesStarting DEF Starting
<1>2. CASE StartWorkers
    BY <1>2 DEF StartWorkers, LinesKept, RefLines
<1>3. CASE Dispatch
    BY <1>3 DEF Dispatch, startup, LinesKept, RefLines
<1>4. CASE CloseJobs \/ CloseRess \/ AllCompleted
    BY <1>4 DEF CloseJobs, CloseRess, AllCompleted, LinesKept, RefLines
<1>5. CASE CollectorStep
    <2>1. /\ UNCHANGED <<cfg, read, entries, queue, dispatched>>
          /\ main' = main \/ (main' = "dead" /\ main \in Late)
        BY <1>5 DEF CollectorStep, Receive, Panic, CollectorLeaves, startup, TypeInv, NothingYet,
                    StartType, StartupTypeOK
    <2> QED BY <2>1 DEF LinesKept, RefLines
<1>6. CASE (\E w \in Workers : WorkerStep(w)) \/ UNCHANGED vars
    <2>1. UNCHANGED <<main, cfg, read, entries, queue, dispatched>>
        BY <1>6 DEF WorkerStep, MakeWorkdir, CopyKernel, CreateAgent, SetupFails, Take, Leave, Written, Fails,
           Restore, RestoreFails, Send, startup, vars
    <2> QED BY <2>1 DEF LinesKept, RefLines
<1> QED BY <1>1, <1>2, <1>3, <1>4, <1>5, <1>6 DEF Next, MainStep

LEMMA AllResultsAtEnd == TypeInv /\ Ending /\ Kept /\ LinesKept => OneResultEach
<1> SUFFICES ASSUME TypeInv, Ending, Kept, LinesKept, main = "completed"
             PROVE  /\ ress = <<>>
                    /\ \A line \in RefLines \ {Blank} :
                          Occurrences(line, EntriesOf(log)) + Occurrences(line, jobs) = Occurrences(line, cfg.ref)
    BY DEF OneResultEach, RefLines
<1>1. ress = <<>> /\ ressClosed
    BY DEF Ending
<1> SUFFICES ASSUME NEW line \in RefLines \ {Blank}
             PROVE  Count(log, About(line)) + Count(jobs, {line}) = Count(cfg.ref, {line})
    BY <1>1, OccurrencesCount DEF TypeInv, CollectorType
<1>2. queue = entries /\ read = Len(cfg.ref) /\ dispatched = Len(queue) /\ main # "panic" /\ main # "dead"
    BY DEF LinesKept, Late
<1>3. cfg.ref \in Seq(RefLines) /\ queue \in Seq(Database)
    BY CfgType DEF TypeInv, StartType
<1>4. SubSeq(cfg.ref, 1, read) = cfg.ref /\ SubSeq(queue, 1, dispatched) = queue
    BY <1>2, <1>3, SubSeqFull
<1>5. Count(queue, {line}) = Count(cfg.ref, {line})
    BY <1>2, <1>4 DEF LinesKept
<1>6. line \in Database
    <2>1. PICK i \in 1..Len(cfg.ref) : cfg.ref[i] = line
        BY <1>3 DEF RefLines
    <2>2. i \in Places(cfg.ref, {line}) /\ IsFiniteSet(Places(cfg.ref, {line}))
        <3>1. DOMAIN cfg.ref = 1..Len(cfg.ref)
            BY <1>3
        <3> QED BY <1>3, <2>1, <3>1, CountType DEF Places
    <2>3. Count(cfg.ref, {line}) # 0
        BY <2>2, FS_EmptySet DEF Count
    <2>4. PICK k \in DOMAIN queue : queue[k] \in {line}
        BY <1>3, <1>5, <2>3, CountPositive
    <2> QED BY <1>3, <2>4
<1>7. Count(jobs, {line}) + Cardinality(InHand(line)) + Count(ress, About(line)) + Count(log, About(line))
        = Count(queue, {line})
    BY <1>2, <1>4, <1>6 DEF Kept
<1>8. Cardinality(InHand(line)) = 0
    <2>1. InHand(line) = {}
        BY <1>1 DEF InHand, Ending, NoSendAfterClose
    <2> QED BY <2>1, FS_EmptySet
<1>9. Count(ress, About(line)) = 0
    BY <1>1, CountEmpty
<1> QED BY <1>5, <1>7, <1>8, <1>9, CountsAreNat

\* When main is through, each line of the reference file that is not blank has been answered by
\* one result, or lies in the channel because no worker was left to take it.
THEOREM EachLineIsAnswered == Spec => []OneResultEach
<1>1. Init => TypeInv /\ Ending /\ Kept /\ LinesKept
    BY TypeInit, EndingInit, KeptInit, LinesInit
<1>2. TypeInv /\ Ending /\ Kept /\ LinesKept /\ [Next]_vars => (TypeInv /\ Ending /\ Kept /\ LinesKept)'
    BY TypeStep, EndingStep, KeptStep, LinesStep
<1> QED BY <1>1, <1>2, AllResultsAtEnd, PTL DEF Spec
=============================================================================
