----------------------------- MODULE Generator -----------------------------
(***************************************************************************)
(* main and writeJob of src/src/generator/main.go: once Startup is through *)
(* main dispatches the entries of the queue over the channel jobs to a     *)
(* pool of workers, the workers answer over the channel ress to a          *)
(* collector, and two wait groups order the closing of the channels.       *)
(*                                                                         *)
(* writeSpec with its retries, the subject of SpecWriter, is one action    *)
(* here: the entry's specification is ready, or it has failed.             *)
(***************************************************************************)
EXTENDS Startup

CONSTANTS
    Finished,        \* names of the entries whose spec#comp.txt an earlier run left
    SetupMayFail,    \* TRUE: a worker's directory, kernel or agent may not come up
    RestoreMayFail,  \* TRUE: RestoreWorkdir may fail
    NoEntry          \* the nil Entry

\* The tids.
Workers == 0..MaxJobs - 1

ASSUME EntryAssumption == NoEntry \notin Database
ASSUME FaultAssumption == {SetupMayFail, RestoreMayFail} \subseteq BOOLEAN

VARIABLES
    dispatched,  \* entries main has sent
    jobs, jobsClosed,
    ress, ressClosed,
    worker,      \* where each worker is
    res,         \* each worker's WriteJobRes, one for all its entries
    failed,      \* history: what failed of the worker's present entry, or of its setup
    comp,        \* names of the entries with a spec#comp.txt
    instances,   \* tids whose directory instance-<tid> exists
    collector,   \* where the collector is
    log          \* history: what the collector printed, with the truth beside it

channels == <<jobs, jobsClosed, ress, ressClosed>>
disk     == <<comp, instances>>

vars == <<startup, dispatched, channels, worker, res, failed, disk, collector, log>>

\* An earlier run that was killed may have left directories of its workers.
Init ==
    /\ StartupInit
    /\ dispatched = 0
    /\ jobs = <<>> /\ jobsClosed = FALSE /\ ress = <<>> /\ ressClosed = FALSE
    /\ worker = [w \in Workers |-> "absent"]
    /\ res = [w \in Workers |-> [tid |-> w, entry |-> NoEntry, err |-> FALSE]]
    /\ failed = [w \in Workers |-> "none"]
    /\ comp = Finished /\ instances \in {{}, Workers}
    /\ collector = "absent" /\ log = <<>>

Starting ==
    /\ StartupStep
    /\ UNCHANGED <<dispatched, channels, worker, res, failed, disk, collector, log>>

Goto(w, label) == worker' = [worker EXCEPT ![w] = label]

-----------------------------------------------------------------------------
\* main
StartWorkers ==
    /\ main = "start"
    /\ worker' = [w \in Workers |-> IF w < cfg.jobs THEN "setup" ELSE "absent"]
    /\ collector' = "receive" /\ main' = "dispatch"
    /\ UNCHANGED <<given, dispatched, channels, res, failed, disk, log>>

\* Both channels are made with room for every entry.
NoBuffer == 1

Buffer == Len(queue)

Dispatch ==
    /\ main = "dispatch" /\ dispatched < Len(queue)
    /\ Len(jobs) < Buffer
    /\ jobs' = Append(jobs, queue[dispatched + 1])
    /\ dispatched' = dispatched + 1
    /\ UNCHANGED <<startup, jobsClosed, ress, ressClosed, worker, res, failed, disk, collector, log>>

CloseJobs ==
    /\ main = "dispatch" /\ dispatched = Len(queue)
    /\ jobsClosed' = TRUE /\ main' = "waitWorkers"
    /\ UNCHANGED <<given, dispatched, jobs, ress, ressClosed, worker, res, failed, disk,
                   collector, log>>

\* jobWg.Wait returns.
NobodyWaitedFor == TRUE

WorkersDone == \A w \in Workers : worker[w] \in {"absent", "done"}

CloseRess ==
    /\ main = "waitWorkers" /\ WorkersDone
    /\ ressClosed' = TRUE /\ main' = "waitCollector"
    /\ UNCHANGED <<given, dispatched, jobs, jobsClosed, ress, worker, res, failed, disk,
                   collector, log>>

\* resWg.Wait returns.
AllCompleted ==
    /\ main = "waitCollector" /\ collector = "done"
    /\ main' = "completed"
    /\ UNCHANGED <<given, dispatched, channels, worker, res, failed, disk, collector, log>>

-----------------------------------------------------------------------------
\* writeJob
\* What an earlier run left is removed first.
MakeWorkdir(w) ==
    /\ worker[w] = "setup"
    /\ instances' = instances \cup {w}
    /\ Goto(w, "copy")
    /\ UNCHANGED <<startup, dispatched, channels, res, failed, comp, collector, log>>

CopyKernel(w) ==
    /\ worker[w] = "copy"
    /\ Goto(w, "agent")
    /\ UNCHANGED <<startup, dispatched, channels, res, failed, disk, collector, log>>

CreateAgent(w) ==
    /\ worker[w] = "agent"
    /\ Goto(w, "ready")
    /\ UNCHANGED <<startup, dispatched, channels, res, failed, disk, collector, log>>

\* The directory is removed by a deferred call that is registered after the kernel has
\* been copied: a worker that fails earlier leaves what it has.
SetupFails(w) ==
    /\ SetupMayFail
    /\ \/ worker[w] = "setup" /\ Goto(w, "bail") /\ instances' \in {instances, instances \ {w}}
       \/ worker[w] = "copy" /\ Goto(w, "bail") /\ UNCHANGED instances
       \/ worker[w] = "agent" /\ Goto(w, "sendLast") /\ UNCHANGED instances
    /\ res' = [res EXCEPT ![w].err = TRUE]
    /\ failed' = [failed EXCEPT ![w] = "setup"]
    /\ UNCHANGED <<startup, dispatched, channels, comp, collector, log>>

\* The result a worker starts an entry with: Err is what the last entry left.
SameEntry(r, e) == r

NewResult(r, e) == [r EXCEPT !.entry = e]

\* A specification that is there already is not written again.
ReuseUnseen(e) == cfg.resume

Reuse(e) == cfg.resume /\ e.name \in comp

Take(w) ==
    /\ worker[w] = "ready" /\ jobs # <<>>
    /\ jobs' = Tail(jobs)
    /\ res' = [res EXCEPT ![w] = NewResult(@, Head(jobs))]
    /\ failed' = [failed EXCEPT ![w] = "none"]
    /\ Goto(w, IF Reuse(Head(jobs)) THEN "send" ELSE "write")
    /\ UNCHANGED <<startup, dispatched, jobsClosed, ress, ressClosed, disk, collector, log>>

\* The deferred removal of a worker's directory comes before its jobWg.Done.
NothingDeferred(w) == instances

Removed(w) == instances \ {w}

\* The channel is closed and empty: the range loop ends.
Leave(w) ==
    /\ worker[w] = "ready" /\ jobs = <<>> /\ jobsClosed
    /\ instances' = Removed(w)
    /\ Goto(w, "done")
    /\ UNCHANGED <<startup, dispatched, channels, res, failed, comp, collector, log>>

Written(w) ==
    /\ worker[w] = "write"
    /\ comp' = comp \cup {res[w].entry.name}
    /\ Goto(w, "restore")
    /\ UNCHANGED <<startup, dispatched, channels, res, failed, instances, collector, log>>

FailedUnreported(w) == UNCHANGED res

Failed(w) == res' = [res EXCEPT ![w].err = TRUE]

\* writeSpec failed after its retries, or its result could not be written: a file may have
\* been made all the same.
Fails(w) ==
    /\ worker[w] = "write"
    /\ Failed(w)
    /\ failed' = [failed EXCEPT ![w] = "write"]
    /\ comp' \in {comp, comp \cup {res[w].entry.name}}
    /\ Goto(w, "send")
    /\ UNCHANGED <<startup, dispatched, channels, instances, collector, log>>

Restore(w) ==
    /\ worker[w] = "restore"
    /\ Goto(w, "send")
    /\ UNCHANGED <<startup, dispatched, channels, res, failed, disk, collector, log>>

RestoreFailsUnsent(w) ==
    /\ RestoreMayFail
    /\ worker[w] = "restore"
    /\ failed' = [failed EXCEPT ![w] = "restore"]
    /\ Goto(w, "done")
    /\ UNCHANGED <<startup, dispatched, channels, res, disk, collector, log>>

\* The worker sends its result as it is, without this error, and returns.
RestoreFails(w) ==
    /\ RestoreMayFail
    /\ worker[w] = "restore"
    /\ failed' = [failed EXCEPT ![w] = "restore"]
    /\ Goto(w, "sendLast")
    /\ UNCHANGED <<startup, dispatched, channels, res, disk, collector, log>>

\* An empty queue makes a channel without room, over which a waiting collector is served.
Room == Len(ress) < Buffer \/ (ress = <<>> /\ collector = "receive")

Send(w) ==
    /\ worker[w] \in {"send", "sendLast", "bail"}
    /\ Room
    /\ ress' = Append(ress, [res |-> res[w], failed |-> failed[w]])
    /\ Goto(w, IF worker[w] = "send" THEN "ready" ELSE "done")
    /\ instances' = IF worker[w] = "sendLast" THEN Removed(w) ELSE instances
    /\ UNCHANGED <<startup, dispatched, jobs, jobsClosed, ressClosed, res, failed, comp, collector, log>>

-----------------------------------------------------------------------------
Receive ==
    /\ collector = "receive" /\ ress # <<>> /\ Head(ress).res.entry # NoEntry
    /\ ress' = Tail(ress)
    /\ log' = Append(log, Head(ress))
    /\ UNCHANGED <<startup, dispatched, jobs, jobsClosed, ressClosed, worker, res, failed, disk,
                   collector>>

\* The collector prints the name of the entry: on a nil Entry it panics, and takes every
\* goroutine down with it, deferred calls and all.
Panic ==
    /\ collector = "receive" /\ ress # <<>> /\ Head(ress).res.entry = NoEntry
    /\ collector' = "panic"
    /\ main' = "dead" /\ worker' = [w \in Workers |-> "dead"]
    /\ UNCHANGED <<given, dispatched, channels, res, failed, disk, log>>

\* The range loop ends on a channel that is closed and drained.
ClosedUndrained == ressClosed

ClosedAndDrained == ressClosed /\ ress = <<>>

CollectorLeaves ==
    /\ collector = "receive" /\ ClosedAndDrained
    /\ collector' = "done"
    /\ UNCHANGED <<startup, dispatched, channels, worker, res, failed, disk, log>>

-----------------------------------------------------------------------------
MainStep == Starting \/ StartWorkers \/ Dispatch \/ CloseJobs \/ CloseRess \/ AllCompleted

WorkerStep(w) ==
    \/ MakeWorkdir(w) \/ CopyKernel(w) \/ CreateAgent(w) \/ SetupFails(w)
    \/ Take(w) \/ Leave(w) \/ Written(w) \/ Fails(w) \/ Restore(w) \/ RestoreFails(w) \/ Send(w)

CollectorStep == Receive \/ Panic \/ CollectorLeaves

Next == MainStep \/ CollectorStep \/ \E w \in Workers : WorkerStep(w)

\* With -max-retry=-1, which stands for the largest int, the retries of an entry have no end
\* to speak of.
Unbounded == cfg.maxRetry = -1

\* Goroutines that can run do: the Go scheduler is fair, and the calls of a step return; so
\* writing an entry ends when its retries are bounded.
WorkerGoesOn(w) == WorkerStep(w) /\ (worker[w] = "write" => ~Unbounded)

Fairness == WF_vars(MainStep) /\ WF_vars(CollectorStep) /\ \A w \in Workers : WF_vars(WorkerGoesOn(w))

Spec == Init /\ [][Next]_vars /\ Fairness

-----------------------------------------------------------------------------
(***************************************************************************)
(* Properties                                                              *)
(***************************************************************************)
Handling(w) == worker[w] \in {"write", "restore", "send"}

Failures == {"none", "setup", "write", "restore"}

\* A worker that handles an entry knows which; the channels stay within their buffers.
TypeOK ==
    /\ StartupTypeOK
    /\ dispatched \in 0..Len(queue)
    /\ jobs \in Seq(Database) /\ Len(jobs) <= Buffer /\ Len(ress) <= Buffer + 1
    /\ {jobsClosed, ressClosed} \subseteq BOOLEAN
    /\ worker \in [Workers -> {"absent", "setup", "copy", "agent", "ready", "write", "restore",
                               "send", "sendLast", "bail", "done", "dead"}]
    /\ res \in [Workers -> [tid : Workers, entry : Database \cup {NoEntry}, err : BOOLEAN]]
    /\ failed \in [Workers -> Failures] /\ instances \subseteq Workers
    /\ collector \in {"absent", "receive", "done", "panic"}
    /\ \A w \in Workers : Handling(w) => res[w].entry # NoEntry

Occurrences(e, s) == Cardinality({i \in DOMAIN s : s[i] = e})

EntriesOf(results) == [i \in DOMAIN results |-> results[i].res.entry]

InHand(e) == {w \in Workers : /\ res[w].entry = e
                              /\ worker[w] \in {"write", "restore", "send", "sendLast"}}

\* Each occurrence of an entry that main has dispatched is in one place: still in the
\* channel, in the hands of one worker, on its way to the collector, or printed.  None
\* is lost or taken twice, also when workers leave early (main.go:531-537).
EntryConserved ==
    main # "dead" => \A e \in Database :
        Occurrences(e, jobs) + Cardinality(InHand(e)) + Occurrences(e, EntriesOf(ress))
            + Occurrences(e, EntriesOf(log)) = Occurrences(e, SubSeq(queue, 1, dispatched))

\* The failures after which the code sets Err.
Reportable == {"setup", "write"}

\* A result says so when its entry could not be written, and an error in a result stems from
\* a failure of the worker that sent it, at this entry or before.  Nothing more can be relied
\* on: Err is not always the error of the Entry it stands beside (against main.go:414), as it
\* is never reset, and a failed restore sets none (against main.go:531-532).
FailedWriteReported ==
    \A i \in DOMAIN log :
        /\ log[i].failed \in Reportable => log[i].res.err
        /\ log[i].res.err =>
              \E j \in 1..i : log[j].res.tid = log[i].res.tid /\ log[j].failed \in Reportable

\* An entry that was printed without error has its specification on disk (main.go:497-529).
ReportedIsWritten == \A i \in DOMAIN log : ~log[i].res.err => log[i].res.entry.name \in comp

\* When main is through, the collector has printed one result for each line of the reference
\* file that is not blank, but for those no worker was left to take; a file with a line that
\* is not understood or names nothing never gets here (main.go:211-253).
OneResultEach ==
    main = "completed" =>
        /\ ress = <<>>
        /\ \A line \in {cfg.ref[i] : i \in DOMAIN cfg.ref} \ {Blank} :
              Occurrences(line, EntriesOf(log)) + Occurrences(line, jobs) = Occurrences(line, cfg.ref)

\* main closes ress only when nobody can send any more: a send would panic.
NoSendAfterClose ==
    ressClosed => \A w \in Workers : worker[w] \in {"absent", "done", "dead"}

\* When main is through, none of its workers has left its directory, with a kernel in it,
\* behind (main.go:468): what is there is of an earlier run with more workers.
InstancesRemoved == main = "completed" => \A w \in instances : w >= cfg.jobs

\* Whatever happens to the workers, main gets through to its last line when the retries are
\* bounded, unless it refuses to begin or the whole program dies: the room in jobs is what keeps
\* it from waiting for workers that have left.
MainCompletes == <>(Unbounded \/ main \in {"completed", "fatal", "panic", "dead"})
=============================================================================
