# SyzPilot in TLA+

SyzPilot writes syscall specifications (syzlang) for kernel drivers with the help of a language
model. This directory holds TLA+ models of the parts of it that keep state, fail, retry and run
concurrently, the TLC configurations that check them on small instances, and TLAPS proofs of
what matters most for every instance. Paths below are relative to the repository; in
`PROJECT.json` and in the modules they start with `src/`, the repository's root.

## 1. Inventory

| Part | Code | State | Operations | Talks to |
|---|---|---|---|---|
| task queue | `src/pkg/queue/tqueue.go` | a heap of tasks (type, name) under a mutex | Push, Pop, Peek, Clear, Slice/Json, load from JSON | stage helper; `.tqueue` |
| specification pools | `src/pkg/pool/pool.go` | name → element (type, code, valid) | Insert, Get, Exists, Difference, Merge, SyncType, Clear, parse, Syzlang | stage helper; `.spool`, `.rpool`, `.pool` |
| spec writer | `src/pkg/stage/*.go`, `writeSpec`/`writeJob` in `src/generator/main.go` | StageHelper: Next, Tqueue, Spool, Rpool, Pool; four progress files; `spec#comp.txt` | outline, generate, fix; save; recover; retry | agent, spec check, sysdir, file system |
| generator | `src/generator/main.go` | configuration, queue of entries; two channels, two wait groups, a result struct and a directory per worker | check flags, dry-run the tools, read the reference file; set up, dispatch, take, reuse, write, restore, send, collect, clean up | spec writer, database, file system |
| fix loop, spec check | `src/pkg/stage/fix.go`, `src/pkg/check/check.go` | the text at hand, a copy of sysdir | restore, add, syz-extract, syz-check, ask for a repair | agent, syzkaller's tools |
| agent | `src/pkg/agent/agent.go` | messages, history of tool calls | query, execute tools, two limits | model, tools |
| tools and database | `src/pkg/tools`, `src/pkg/database` | none (read-only queries) | eleven tools, one query each | analyzer's database |
| minitask | `src/minitask/main.go` | set of syscalls listed, a `.tqueue` per variable | outline, deduplicate, write | agent; the generator, through the files |
| analyzer | `src/analyzer` | threads, a mutex, one SQLite connection | split, parse, insert, commit | Clang, SQLite |
| refactor | `src/refactor`, `src/pkg/ast` | the directory it writes | give every element a suffix, write one file per directory of `specs/` | spec files |
| rmunused | `src/rmunused` | the files still to be rewritten | collect what is unused, rewrite in place | sys/<os>, syzkaller's compiler |
| pool2syz, osutil, experiment, scripts, data | | none | one pass over a file; tables; variants | |

How an entry is written. A worker takes an entry (a global variable or a function) from a
channel. If `spec#comp.txt` exists and `-resume` is on, it is reused. Otherwise a StageHelper is
set up, from the progress files if they exist, and a loop of at most 100 iterations asks it what
to do next: *outline* (the model lists tasks), *generate* (pop the least task; skip it, reuse it
from sysdir, take it from the Pool, or ask the model, whose answer may require more tasks), *fix*
(check what was generated and have it repaired), or *complete*. After every step the four progress
files are written. An error ends the attempt; `-max-retry` more follow, each starting from the
files. minitask can prepare the `.tqueue` files beforehand.

What is done with the entries. refactor writes each finished specification under a new name with
its elements renamed, the user copies the files to `sys/<os>` of syzkaller and runs rmunused there.

What is hard in it:

- **Crashes and partial failures.** The files are written one after the other, by truncation.
  What an attempt, or a later run, starts from may mix two steps, or not be JSON.
- **A protocol spread over steps.** Some code is right only because of what other steps never do:
  clearing a spool of valid elements unseen (`fix.go:39`), falling through to *generate* and
  popping (`stage.go:187`, with a TODO).
- **An environment that may do anything.** The model may require tasks for ever, repeat itself,
  leave things out when it repairs, add what nobody asked for.
- **Goroutines and threads.** Workers that leave early, a channel closed while others may send, a
  result struct reused; threads that share one connection and its prepared statements, while the
  agent's tools read what they have committed.
- **Files changed in place.** rmunused stops at the first file it cannot write, and is run again on
  a directory that is half done.

What makes each part correct:

- *queue*: it behaves as a priority queue, for any history of operations;
- *writer*: what was paid for and checked is kept; nothing listed is forgotten; nothing is asked
  for twice; nothing that sysdir provides is defined again; an entry ends;
- *generator*: each entry gets one result that tells the truth, no send meets a closed channel, a
  worker cleans up after itself, main ends;
- *fix loop and agent*: only accepted texts count as valid; what is sent to the model is a
  well-formed conversation; the loop ends;
- *minitask*: it writes no syscall that stands in another queue, and loses none to the
  deduplication;
- *analyzer and tools*: rows are never mixed, no file is left out; what was found is found again,
  and an answer stays the same;
- *refactor and rmunused*: references follow the elements they name, files stay apart, nothing that
  is used is taken out.

`PROJECT.json` lists the hazards line by line with the properties aimed at them.

## 2. Modules

| Module | Models | Notes |
|---|---|---|
| `Tasks` | tasks, `Less`, the queue as a bag | a name is its rank in the byte order of names |
| `TaskQueue` | **abstract**: the priority queue a user of TaskQueue sees | one action per method |
| `TaskHeap` | the slice, `container/heap`'s up and down one iteration per step | refines `TaskQueue` |
| `SpecPools` | SpecPool, UpdatePool, getConsPool, the check that decides what is fixed | the code of an element is abstracted to "was it checked" |
| `SpecWriter` | one entry: attempts, loop, steps, files, crash, resume | one action per way out of a step and per file written |
| `Startup` | main up to the workers: flags, checkConfig, checkSysdir, readRefFile, createQueue | of the paths, `-outdir` and which others name nothing; the reference file is read one line per step |
| `Generator` | main, collector, workers, channels, worker directories; extends `Startup` | `Written`/`Fails` stand for a run of SpecWriter |
| `Agent` | the conversation, tools, limits | the model is the environment |
| `FixLoop` | fixSpec, checkSpecValidity, SpecCheck; extends `Agent` | what SpecWriter's `FixSucceeds`, `FixFails` and `StepFails` stand for |
| `Minitask` | main of minitask, and what the generator does to its files in between | `Required` is what the agent may ask for while it generates |
| `Analyzer` | threads, mutex, statements, transactions, rows with their ids | what Clang finds is a constant; `start` counts the files handed out, as main does |
| `Database` | the queries, on the set of committed rows | gorm's First: least id |
| `AgentTools` | what each of the agent's tools answers | extends `Database` |
| `Lookup` | `Analyzer` and `AgentTools` on one database | readers see committed rows |
| `SyzAst` | AddSuffix: new names, and what refers to them | a name is a sequence of tokens |
| `Tidy` | refactor, the copy, rmunused; extends `SyzAst` | syzkaller's compiler is external; `Only` is the loop over the nodes |
| `MC*` | instances for TLC | |
| `*Proofs` | theorems about the module they extend | |

Correspondence of state. `SpecWriter`: `tqueue`, `spool`, `rpool`, `pool`, `next` are the fields
of StageHelper; `tqueueFile` ... `poolFile` and `compFile` are the files, with `Missing` and
`Torn`; `attempt` and `iter` are the loop counters of writeJob and writeSpec; `pc` says which
write comes next. `due`, `ledger`, `asked` and `claimed` (what an answer of the agent said to be valid)
are history variables. `Generator`: `jobs`, `ress`
are the channels, `worker[w]` the place of a goroutine, `res[w]` its WriteJobRes, `instances` the
directories `instance-<tid>`, `comp` the finished entries; `failed` (which step of the worker failed)
and `log` are history. `FixLoop`: `i`,
`spec` are fixSpec's; `workdir` the texts beside the copied sysdir; `messages`, `hist`
are the Agent's, `todo` what ExecTools has not reached. `Minitask`: `set` is syscallSet, `file[v]`
a `.tqueue`; `wanted`, `given` (by minitask), `added` (by the generator) and
`failed` are history. `Analyzer`: `bound[n]` the parameters of table n's statement, `open`/`pending` the
transaction, `db` what is committed. `Tidy`: `out` is refactor's output directory, `sys` is sys/<os>,
`plan` is rewriteMap; `copied` and `torn` are history. The line ranges of every definition are in `PROJECT.json`.

Names that end in a variation (`NextIterUncounted`, `Unlocked`, `RecoveredNothing`, ...) are not
part of the models. Each is a plausible bug, stands before the definition it would replace, and
shows that a property notices it.

## 3. What is checked

| Run | Instance | Shows |
|---|---|---|
| `task_heap` | slices of up to 5 tasks, three names, four types, any order of operations | heap order, pops ascend, **the heap implements `TaskQueue`** |
| `resume` | 6 names, an outline of three, answers that require more, one that calls itself valid; 6 iterations, crashes, failed and torn writes | `ValidIsPoolsOrClaimed`, `ValidElementsStay`, `ReusedStaysOut`, `GenerateFindsTask`, `EntryEnds` |
| `complete` | as above with more answers, no crash, 2 retries, an agent that writes what it is asked and calls none of it valid | `NothingForgotten`, `CompCoversLedger`, `AskedOnce` |
| `generator` | eleven settings of the flags and the reference file (up to 3 workers and 5 lines, one entry twice, blank lines, one without a comma, names the database lacks); an entry finished before; directories left by an earlier run; retries bounded and not | `EntryConserved`, `OneResultEach`, `FailedWriteReported`, `ReportedIsWritten`, `NoSendAfterClose`, `InstancesRemoved`, `MainCompletes` |
| `fix_loop` | 3 texts, 2 fix steps of up to 2 repairs, tools that go unheard; 3 tool calls, 2 equal ones in a row | `QueryIsWellFormed`, `NoLongRepeat`, `ValidWasChecked`, `GoodNotRepaired`, `FixEnds` |
| `minitask` | 2 variables, four outlines over 3 names, 2 runs, interruptions, failed writes; in between the generator pops, requires a syscall, makes outlines of its own, with and without -resume, and is killed | `NoSyscallWrittenTwice`, `NoSyscallDropped` |
| `analyzer` | 2 threads, 3 files, 6 tables, a key found twice, names found in two files, a new database and an old one with a union where the struct is now; everything may fail | `RowsAreReal`, `EverythingStored`, `LookupsFind`, `LookupStable`, `MainEnds` |
| `tidy` | seven sets of up to 3 directories (finished, unfinished, nested, torn, with an empty or unreadable .pool), 2 files of sys/<os> with a template; two writes may fail | references, what is used, and the end: `RefsFollow`, `UsedKept`, `TidyConverges` |

Four runs expect a violation; each shows what the code does where a document or comment says
otherwise:

- `crash_forgets` (`NothingForgotten`): a crash after `.tqueue` and before `.spool` is written
  loses the task that was taken off, and the resumed entry completes without it
  (`stage.go:92`; docs/README.md:140 "whether to resume previous progress").
- `init_degrades` (`InitSyscallStays`): an init_syscall that entered the Pool unchecked comes back
  from the next fix as a plain syscall, because SyncType is given the spool only (`fix.go:87`,
  `pool.go:231`).
- `relists` (`GivenOnce`): minitask rebuilds its set from `.tqueue` files which the generator has
  meanwhile emptied (`minitask/main.go:257`; docs/README.md:220).
- `suffix_conflict` (`NamesDistinct`): flags `x_a` of variable `b` and flags `x` of variable `a_b`
  both become `x_a_b` (`ast.go:33`, `70`; docs/README.md:150 "adding a unique suffix to each element
  to avoid conflicts"). The specifications of one variable by two models get one and the same suffix.

Other disagreements met while modelling, which no run of its own shows:

- A torn progress file makes RecoverProgress fail on every retry and every resume, until it is
  deleted by hand (`stage.go:47`, `115`); a torn `spec#comp.txt` is reused as complete
  (`main.go:497`). Both are behaviours of `SpecWriter` (`BeginFails`, `Launch`).
- An element of the agent's answer is taken with its own `valid` (`generate.go:91`, `pool.go:24`),
  though the field is for what "passes syz-extract & syz-check" (`pool.go:23`). If all of the spool
  is valid so, the next fix clears it unseen (`fix.go:39`) and it is lost; otherwise it is checked with
  the rest. `ValidIsPoolsOrClaimed` says that nothing else can be lost in this way.
- A step that reaches *complete* only on a 101st iteration is reported as an error though nothing
  is left to do (`main.go:711`, `729`).
- `-max-retry n` makes n + 1 attempts (`main.go:503`; docs/README.md:142 "maximum number of
  outline-generate-fix attempts").
- One WriteJobRes serves all entries of a worker and `Err` is never reset, so after one failure every
  later entry of the worker is printed with that error (`main.go:420`, `486`, against the comment at
  `main.go:414`: "error during writing spec"). `FailedWriteReported` says what can be relied on, and
  leaves this open.
- Validity is the absence of output: a tool that cannot be started, or is killed, or whose first line
  is longer than the scanner's buffer, approves of every text (`check.go:166`, `200`,
  `utils.go:77`). `ValidWasChecked` says that this does not outlast the check.
- A failed restore of the workdir is not put into the result, though the comment says "so we set
  res.Err and return directly" (`main.go:531`; `FailedWriteReported` leaves it open), and main reports
  that all write jobs have been completed though entries may be left (`main.go:208`).
- A worker that fails before its first entry sends a result without one, and the collector's
  call on the nil entry panics (`main.go:192`): `Generator`'s `Panic`.
- A worker that fails while its kernel is copied leaves the copy behind (`main.go:451`, before the
  deferred removal of `468`). An empty `-outdir` is never refused: it has become the working directory
  (`main.go:86`, `353`). The dry run ignores that the kernel could not be copied (`main.go:382`).
  A reference line without a comma is an index out of range (`main.go:225`).
- When the workdir cannot be restored, the buffers are nil and the fix loop panics reading them
  (`fix.go:125`, `247`): `FixLoop`'s `PrepareFails`.
- What the agent adds unasked while fixing may enter the Pool although sysdir defines it
  (`fix.go:93`, against docs/README.md:139): `ReusedStaysOut` covers only what was reused before.
- The shift of line numbers leaves out the blank line between prefix and text, so a line of the
  block is reported one further down (`fix.go:125`, `254`).
- minitask drops the error of WriteTqueue: what a queue that was not written listed stays in the
  set, and no later variable lists it (`minitask/main.go:181`). Hence the `failed` in
  `NoSyscallDropped`.
- The generator adds what its agent requires to a `.tqueue` without a look at the others
  (`generate.go:99`), and makes outlines of its own where there is none: two files can come to hold one
  syscall (docs/README.md:220). `NoSyscallWrittenTwice` is about what minitask writes.
  Duplicates within one outline are not removed either
  (docs/README.md:233 "all unique syscalls").
- The answer to `get_macro_def_loc_by_name` ends in the character with the line's number as its code
  point (`macro_def.go:89`): `AgentTools`' `Rune`.
- A second analysis into an existing database keeps the old row of an element that changed in place,
  and the rows of elements that moved (`db.hpp:103`).
- refactor does not look into the body of a type template nor at the values of flags (`ast.go:94`),
  but does take the field in `len[field]` for an element of that name (`ast.go:141`). It does not
  find the specification of a model with a `/` in its name (`refactor/main.go:48`), and ignores
  that a file could not be written (`refactor/main.go:90`).
- A file in which nothing is used is left as it is (`rmunused/main.go:67`).
- A model with a `#` in its name makes refactor write two directories into one file
  (`refactor/main.go:57`): excluded by `Tidy`'s `InputsAssumption`.
- The key of a row is name, file and line (`db.hpp:121`). Where an existing database has a struct and
  the source now has a union in its place, the new row is ignored and the union never found: the
  `Hidden` of `LookupsFind`.
- A query that fails is answered as if there were no row (`db.go:93`); `Database` has queries that
  succeed, and `LookupStable` is about these.

### Bounds, and why they are enough

`MaxIter` 6 to 10 stands for 100: long enough for outline, several generates, a fix, and one more
round, and short enough that exhaustion happens. `MaxRetry` 0 to 2 and `MaxLaunches` 1 to 3 give
retries and restarts after every kind of fault; one more repeats a situation. `MaxDup` bounds
copies of a task in a queue: two are needed for the duplicate of a duplicate. The names of the
writer's instance have one of each role: the call that opens the device, two calls, a struct both
need, a resource, and a call of sysdir. `MaxCalls` 3 and `MaxSame` 2 stand for 25 and 5: the
limits stay apart, and each is reached first in some run. `MaxSteps` 2 lets a second fix step
meet what the first one left. Two workers or threads and more entries than workers give every
pair of places; three rows with one key in common exercise INSERT OR IGNORE, a function of two files
and a struct beside a union make two rows of one name. The settings of the flags have one of each
verdict. Two failing writes of `Tidy` are one in refactor or rmunused and one in the run after it; a
third repeats a situation. Two variables whose names end alike are what a suffix can confuse. `MaxCopies`
1 keeps the generator from adding a task to a `.tqueue` that has it: minitask looks at names only.

### Fairness

`FairSpec` of SpecWriter, and the `Spec`s of Generator, FixLoop and Analyzer assume weak
fairness: of the steps a goroutine or thread takes while it can, one is taken. Go and the kernel
schedule runnable goroutines and threads, and the calls in between return (model queries and tools
have their own limits or end with an error). In `Tidy` the user goes on too: docs/README.md names the
steps, and a run of rmunused that stopped is repeated. Nothing else is assumed of the user, nothing of
faults or crashes, and no strong fairness: the analyzer's mutex is taken finitely often. `EntryEnds`
therefore says that the loop's own bound ends an entry, not that the model is reasonable. With
`-max-retry=-1`, which stands for the largest int, writing an entry has no end to speak of when its
error is permanent, such as a torn file: `EntryEnds` and `MainCompletes` exclude this setting, and
Generator's fairness does not make a worker finish with an entry under it (`WorkerGoesOn`).

`CHECK_DEADLOCK FALSE` is used where the program stops: main ends, launches are used up, fix steps
are done. `task_heap` checks for deadlock.

## 4. What is proved

Every safety property a passing run checks is also a theorem, for every value of the constants, and
so are the action properties and the refinement. All proofs are by SMT, Zenon and LS4.

| Theorem | Says |
|---|---|
| `TasksProofs!LessIrreflexive`, `LessTransitive`, `LessDecides`, `TopExists` | Less is a strict total order on tasks and every non-empty queue has a top |
| `TaskHeapProofs!TypeCorrect`, `HeapIsOrdered`, `PopsAreAscending` | types, `[]HeapOrder`, `PopsAscend` |
| `TaskHeapProofs!HeapImplementsQueue` | `ImplementsTaskQueue`: the heap with its swaps implements the bag `TaskQueue` |
| `SpecWriterProofs!UpdatePoolKeepsValid`, `UpdatePoolCovers` | what UpdatePool leaves alone, and what it adds |
| `SpecWriterProofs!TypeCorrect` | types, for every agent, fault, bound |
| `SpecWriterProofs!SpoolIsSafeToClear`, `GenerateIsEnabled` | `[]ValidIsPoolsOrClaimed`, `[]GenerateFindsTask` |
| `SpecWriterProofs!SavedValidStays`, `ReusedKeptOut` | `ValidElementsStay`, `ReusedStaysOut`, action properties |
| `SpecWriterProofs!NothingIsForgotten`, `CompIsComplete`, `AgentIsAskedOnce` | `[]NothingForgotten`, `[]CompCoversLedger`, `AskedOnce`, under the conditions below |
| `GeneratorProofs!TypeCorrect` | types, of main from its flags on, the workers and the collector |
| `GeneratorProofs!NobodySendsAfterClose`, `WorkersCleanUp` | `[]NoSendAfterClose`, `[]InstancesRemoved` |
| `GeneratorProofs!FailedWritesAreReported`, `PrintedIsWritten` | `[]FailedWriteReported`, `[]ReportedIsWritten` |
| `GeneratorProofs!EntriesAreConserved`, `EachLineIsAnswered` | `[]EntryConserved`, `[]OneResultEach`, by counting |
| `FixLoopProofs!TypeCorrect`, `ModelIsAskedWellFormed`, `RepeatsAreBounded` | types, `[]QueryIsWellFormed`, `[]NoLongRepeat` |
| `FixLoopProofs!ValidIsChecked`, `GoodIsLeftAlone` | `[]ValidWasChecked`, `[]GoodNotRepaired` |
| `MinitaskProofs!TypeCorrect`, `NothingWrittenTwice`, `NothingDropped` | types, `NoSyscallWrittenTwice`, `[]NoSyscallDropped` |
| `AnalyzerProofs!TypeCorrect`, `StoredRowsAreReal`, `EverythingIsStored` | types, `[]RowsAreReal`, `[]EverythingStored` |
| `AnalyzerProofs!AnswersDoNotChange`, `NamesAreFound` | `LookupStable`, `[]LookupsFind`, of the tools beside the analyzer |
| `TidyProofs!TypeCorrect`, `ReferencesKept`, `NothingUsedIsLost` | types, `[]RefsFollow`, `[]UsedKept` |

### Assumptions

Types of constants; that the marks `Nil`, `Missing`, `Torn`, `NoFile`, `NoEntry` are no queues,
pools or entries; that task names are names; that no text is the empty one. Those which say more, and
why the code justifies them:

- `Analyzer!EarlierAssumption`: the rows of an older database have ids of their own, from 1 on; gaps
  are left out there as in `NextId`, where ids only give the order in which rows came.
- `Lookup!NamesAssumption`, `NotFoundAssumption`: the two marks are no names and no rows.
- `Tidy!InputsAssumption`: directories are named by the generator, variable`#`model, and no two
  alike; `TokensAssumption`: no element's name has a `[`, which syzlang does not allow in one.

`NothingIsForgotten`, `CompIsComplete` and `AgentIsAskedOnce` assume `Resume` (the entry goes on from
the files), `Complete` (the agent writes what it is asked and calls none of it valid) and
`Uninterrupted` (nothing fails or
crashes between two of the four progress files; failures and crashes anywhere else are allowed). Each
is needed: without the last the run `crash_forgets` shows the loss, and what an answer calls valid can
be cleared unseen. The run `complete` is an instance.

### Arguments

*Queue.* `TopExists` is two least-element arguments, the type first and then the name, from the
well-foundedness of `<`. In the heap, `OrderInv` says what holds while the loops of up and down
are on their way: every task but the one being moved is in order with its parent (`SortedUp`), or
every one but the children of it (`SortedDown`), and the neighbours across it are in order
(`SkipOrder`). While down runs, the task to be popped waits in the last place and `LastIsLeast`; that
the root of a heap is the least is shown from its parents upwards. `PopInv` says that what is left is not Less
than what was popped last. The refinement maps the slice to the bag of its tasks with those still
to be pushed; `BagAppend` and its neighbours say what a swap, an append and a cut do to a bag.

*Writer, kept elements.* `ValidIsPoolsOrClaimed` is not inductive: a resumed attempt reads the
spool and the Pool from files of two moments. `KeepInv` adds, for a resuming writer, what the files
say of each other and of memory. `FilesAgree`: every valid element of `.spool` that was not claimed to be
is the one in `.pool`, unless `.pool` is cut short. `MemoryOfFiles`: in a live attempt `.pool` is whole and the
Pool has its valid elements as they are; at the top of the loop the Pool is what `.pool` holds;
while the files are written, either the spool is empty or the Pool is still what `.pool` holds; and
once `.spool` is written it is the spool. The order of the writes matters: only a fix changes the
Pool, and it leaves no spool, so after a fix `.spool` is written empty before `.pool` is touched.
`TypeInv` is `TypeOK` with `QueueKnown`: while the files are written, and in the loop after the first
iteration, `tqueue` is a queue.

*Writer, names accounted for.* `AccountInv` is `KeepInv` with: the files say what memory does between
two steps, and those already written do while they are being written (`FilesSoFar`); whatever has to
be dealt with and sysdir lacks is in the queue, the spool, the rpool or the Pool, in memory while an
attempt lives and in the files when none does (`Accounted`); what is in the rpool is known to sysdir
(`ReusedIsKnown`); *complete* means an empty queue and spool (`CompleteIsEmpty`), so that all of it is
then in the Pool, which is what is written (`CompIsLast`). `AnswersKept` says that what the agent
has answered for is in the spool or the Pool, where `MustAsk` looks before it is asked again.
`NothingClaimed`: a `Complete` agent claims nothing, so a spool that is cleared unseen is in the Pool.

*Generator.* `TypeInv` has, beside the types, what a worker has at hand (`Handling`) and that there is
nothing in the channels before the workers start (`NothingYet`). `Ending` orders the end: main
closes the result channel after every worker is done, the collector is done after that, main
completes after the collector; a worker without an agent leaves a result that stops the collector.
For the results, everything that was sent is one sequence, the log and the channel (`Sent`):
receiving does not change it, so `Reports` and `Writing` can be about it. `Reports` says more than the
property: a result has an error exactly from its worker's first failure to write on. `Kept` counts the
occurrences of an entry in the channels, the workers' hands and the log; `LinesKept` counts those of
a line in the reference file, the list and the queue; at the end the two meet in `OneResultEach`.

*Fix loop and agent.* `TalkInv` says that while tools are executed, the last reply of the model is
answered up to the call that is next and all earlier ones are answered (`Pending`), and that everything
is answered otherwise. `CheckInv` says that from Prepare to the end of the check the workdir holds
the text at hand and nothing else, and that only what is not good is ever shown to the agent.

*Minitask.* `WriteInv` says that while minitask runs the set has every name
of every file, and that the syscalls of the queue about to be written are named in no file. The
generator, which only runs when minitask does not, may do to the files what it likes.
`DroppedInv` says that, as long as no write failed, what is in the set was given to a variable, or
added to one by the generator, or is about to be, so that dropping by the set drops no work.

*Analyzer.* `SplitType` gives the files handed out in a closed form, from which all are when the
last thread has started, for any number of threads and files. `Exclusive` (only the holder of
the mutex is past Lock) and `Unborn` give `BoundOfRow`: what is bound is of the row at hand. For
`EverythingStored`, `KeptInv` says of every file, unless a message was printed, that it has not been
given out, or some thread still has it, or its rows are stored; and of the file at hand, that the
rows passed are (`PassedBy`); `Ending` says that nothing is left and no transaction open at the end.
For the tools, `IdInv` says that the rows of a table are numbered as they came, one after the other,
those of the open transaction after the committed ones. A row that is committed later therefore has
the greater id, and First keeps its answer.

*Tidy.* What a loop over nodes returns (`Only`) and what a call leads to (`UsedIn`) are recursive
functions; the first part of the module shows by induction over sets of numbers and of sequences
(from the least element of a set) that they exist, what `Only` keeps, and that `UsedIn` is the least
set closed under "leads to": each round but the last adds a node. `UsedAmong`, that taking out
what is not used leaves what is used unchanged, is the heart of `UsedInv`: sys/<os>, and what is
planned for it, is what was copied without some nodes that are unused in the copy, however often
rmunused stopped. `KeptIs` shows that the compiler's expansions of templates do not come back into
the file. `OutInv` says which directory a file of refactor's is from, and that it holds all or a
beginning of what it should; by `OneFileEach` no other directory has that file. `ReferencesFollow` is
`RefsFollow` of one call of AddSuffix.

Only model-checked: all liveness (`EntryEnds`, `MainCompletes`, `FixEnds`, `MainEnds`,
`TidyConverges`), which needs fairness and ENABLED, out of the prover's reach. The four runs that
expect a violation have nothing to prove.

## 5. Not modelled

- *pool2syz*: reads one file and prints it with `SpecPool.Syzlang`; *osutil*: tables of names and paths.
- *The ablation variants under `experiment`*: copies of the generator with the database, the
  iteration or a tool removed. What they share with the generator is modelled there; a model of each
  copy would be the same model again.
- *Prompts, scripts, plots, patches*: no logic of the program. That a prompt file which cannot be
  read is an empty prompt (`main.go:160`) has no consequence in the models, whose agent may do
  anything.
- *syzkaller's programs and compiler, Clang's traversal, SQLite, gorm, the model's interface*: external;
  nondeterministic or constants. The layout of syzlang and the text of messages, with the shift of
  line numbers and the limit of 20 lines, are abstracted.
- *Two workers on one directory* (`main.go:495`): Generator has two workers with one entry, but not
  what they do to each other's progress files.
- *SyzSpecRecord* (`ast.go`), *Remove* and *Intersect* (`pool.go`), the weather tool: nothing under
  `src/src` but tests uses them.
- Flags outside their documented range (`-jobs 0` of the analyzer divides by zero) are excluded by
  assumptions; the generator's own are checked, and modelled in `Startup`.

## 6. Plan

Done, in this order: queue and heap; pools and writer, with their proofs; generator; agent and fix
loop; minitask with its proofs; analyzer; the generator's startup and directories; the database, the
tools and their composition with the analyzer; refactor and rmunused.

Then the proofs: type correctness and the safety of the writer, the queue and minitask; the
generator; the accounts of the writer; fix loop and agent; analyzer and tools; the heap and its
refinement; refactor and rmunused. To prove about them, `Startup` reads one line per step, `Analyzer`
counts the files handed out, and `Tidy` has `Only` and tells names from the compiler's expansions.

Next, most important first:

1. *Two writers on one directory.* Compose two SpecWriters on shared files with the Generator; state
   which of the writer's theorems survive.
2. *An abstract work list* (what is due, what is done) that SpecWriter implements while nothing
   interrupts its writes: `NothingForgotten` and `CompCoversLedger` as a refinement, whose step
   simulation follows from `AccountInv`.
3. *The retries of a torn file*: which of the writer's theorems hold for an entry that does not resume.
