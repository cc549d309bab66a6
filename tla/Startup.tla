------------------------------ MODULE Startup ------------------------------
(***************************************************************************)
(* The first part of main in src/src/generator/main.go, up to the workers: *)
(* flags, the checks on them, the dry run of the tools, the database, and  *)
(* the queue made from the reference file.  Generator goes on from here.   *)
(***************************************************************************)
EXTENDS Integers, Sequences, FiniteSets

CONSTANTS
    Configs,   \* settings of the flags
    Database,  \* rows of the database a line may name: [type |-> ..., name |-> ...]
    Cwd,       \* the working directory
    Blank,     \* a line with nothing on it
    NoComma,   \* a line without a comma
    MaxJobs    \* bound: the largest -jobs

\* Of the paths only -outdir is kept, and which of the other flags name nothing.  The
\* reference file is its sequence of lines.
ASSUME ConfigsAssumption ==
    \A c \in Configs :
        /\ DOMAIN c = {"outdir", "missing", "osKnown", "maxRetry", "jobs", "resume", "ref"}
        /\ c.ref \in Seq({c.ref[i] : i \in DOMAIN c.ref})
ASSUME JobsAssumption == MaxJobs \in Nat /\ \A c \in Configs : c.jobs \in Int /\ c.jobs <= MaxJobs
ASSUME DatabaseAssumption == \A row \in Database : row = [type |-> row.type, name |-> row.name]

VARIABLES
    main,    \* where main is
    cfg,     \* ProgConfig
    read,    \* lines of the reference file that readRefFile is through with
    entries, \* what it has found in them
    queue    \* the rows that createQueue found

given   == <<cfg, read, entries, queue>>
startup == <<main, given>>

StartupInit == main = "flags" /\ cfg \in Configs /\ read = 0 /\ entries = <<>> /\ queue = <<>>

\* log.Fatalf ends the process.
Continue(label) == main' = label
Fatal == main' = "fatal"

-----------------------------------------------------------------------------
\* filepath.Abs makes the working directory of an empty path.
AbsPath(p) == IF p = "" THEN Cwd ELSE p

ParseFlags ==
    /\ main = "flags"
    /\ cfg' = [cfg EXCEPT !.outdir = AbsPath(@)]
    /\ Continue("config") \/ Fatal
    /\ UNCHANGED <<read, entries, queue>>

ConfigValid ==
    /\ cfg.missing = {} /\ cfg.osKnown /\ cfg.outdir # ""
    /\ cfg.maxRetry >= -1 /\ cfg.jobs >= 1

CheckConfig ==
    /\ main = "config"
    /\ IF ConfigValid THEN Continue("sysdir") ELSE Fatal
    /\ UNCHANGED <<cfg, read, entries, queue>>

\* The tools run once on sysdir alone.  Errors of copying the kernel are not looked at: what
\* counts is whether the tools print something.
CheckSysdir ==
    /\ main = "sysdir"
    /\ Continue("open") \/ Fatal
    /\ UNCHANGED <<cfg, read, entries, queue>>

\* The .env file, the output directory, the database and the reference file, each fatal when
\* it fails.
Open ==
    /\ main = "open"
    /\ Continue("read") \/ Fatal
    /\ UNCHANGED <<cfg, read, entries, queue>>

-----------------------------------------------------------------------------
\* readRefFile: a line without a comma is an index out of range.
ReadLine ==
    /\ main = "read" /\ read < Len(cfg.ref)
    /\ read' = read + 1
    /\ LET line == cfg.ref[read + 1] IN
          \/ line = Blank /\ UNCHANGED <<main, entries>>
          \/ line # Blank /\ line = NoComma /\ main' = "panic" /\ UNCHANGED entries
          \/ line \notin {Blank, NoComma} /\ entries' = Append(entries, line) /\ UNCHANGED main
    /\ UNCHANGED <<cfg, queue>>

LinesRead ==
    /\ main = "read" /\ read = Len(cfg.ref)
    /\ Continue("queue")
    /\ UNCHANGED <<cfg, read, entries, queue>>

Supported == {"variable", "function"}

Found(line) == line.type \in Supported /\ line \in Database

\* createQueue: the first line that names nothing ends the program.
CreateQueue ==
    /\ main = "queue"
    /\ IF \A i \in DOMAIN entries : Found(entries[i])
       THEN Continue("start") /\ queue' = entries
       ELSE Fatal /\ UNCHANGED queue
    /\ UNCHANGED <<cfg, read, entries>>

StartupStep ==
    \/ ParseFlags \/ CheckConfig \/ CheckSysdir \/ Open \/ ReadLine \/ LinesRead \/ CreateQueue

-----------------------------------------------------------------------------
(***************************************************************************)
(* Properties                                                              *)
(***************************************************************************)
StartupTypeOK ==
    /\ main \in {"flags", "config", "sysdir", "open", "read", "queue", "start", "dispatch",
                 "waitWorkers", "waitCollector", "completed", "fatal", "panic", "dead"}
    /\ \E c \in Configs : cfg \in {c, [c EXCEPT !.outdir = AbsPath(@)]}
    /\ read \in 0..Len(cfg.ref) /\ Len(entries) <= read
    /\ queue \in Seq([type : Supported, name : {row.name : row \in Database}])
=============================================================================
