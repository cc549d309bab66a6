---------------------------- MODULE MCSpecWriter ----------------------------
(***************************************************************************)
(* Instances of SpecWriter for TLC.  The names stand for                   *)
(*   1 openat$d, the call that opens the device     2, 3 ioctl$A, ioctl$B  *)
(*   4 a struct of an ioctl argument                5 the fd resource      *)
(*   6 mmap, a call that sysdir describes                                  *)
(***************************************************************************)
EXTENDS SpecWriter

Open   == 1
IoctlA == 2
IoctlB == 3
Arg    == 4
Fd     == 5
Mmap   == 6

MCNames == 1..6

MCKind == [n \in MCNames |-> IF n = Arg THEN "struct" ELSE IF n = Fd THEN "resource" ELSE "syscall"]

OpenTask == [name |-> Open, type |-> "init_syscall"]
TaskA    == [name |-> IoctlA, type |-> "syscall"]
TaskB    == [name |-> IoctlB, type |-> "syscall"]
ArgTask  == [name |-> Arg, type |-> "struct"]
MmapTask == [name |-> Mmap, type |-> "syscall"]

MCTask == {OpenTask, TaskA, TaskB, ArgTask, MmapTask}

BagOf(S) == [t \in Task |-> IF t \in S THEN 1 ELSE 0]

MCOutlines == {BagOf({OpenTask, TaskA, TaskB})}

Label(n) == IF n = Open THEN "init_syscall" ELSE MCKind[n]

\* The elements of S, those of V said to be valid.
AnswerClaiming(S, V, required) ==
    [spec |-> [n \in MCNames |-> IF n \in S THEN [type |-> Label(n), valid |-> n \in V] ELSE Absent],
     required |-> required]

Answer(S, required) == AnswerClaiming(S, {}, required)

\* Each name alone; the resource with the call that makes it; an ioctl that needs the
\* struct; one that writes the struct with it and asks for it all the same.
MCAnswers ==
    {Answer({Open}, {}), Answer({Open, Fd}, {}),
     Answer({IoctlA}, {ArgTask, MmapTask}), Answer({IoctlA, Arg}, {ArgTask, TaskB}),
     Answer({IoctlB}, {}), Answer({IoctlB}, {ArgTask}), Answer({Arg}, {})}

\* Enough of these to have every kind of step, where crashes multiply the states; and an
\* agent that says of what it writes that it is valid.
MCFewAnswers ==
    {Answer({Open, Fd}, {}), Answer({IoctlA, Arg}, {ArgTask, TaskB}), Answer({IoctlB}, {ArgTask}),
     AnswerClaiming({IoctlB}, {IoctlB}, {})}
=============================================================================
