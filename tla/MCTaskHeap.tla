---------------------------- MODULE MCTaskHeap ----------------------------
(***************************************************************************)
(* TaskHeap on slices of up to five tasks: two syscalls, a struct, an      *)
(* init_syscall and a type the parser does not know.                       *)
(***************************************************************************)
EXTENDS TaskHeap

MCTask == {[name |-> 2, type |-> "init_syscall"], [name |-> 1, type |-> "struct"],
           [name |-> 3, type |-> "syscall"], [name |-> 4, type |-> "syscall"],
           [name |-> 4, type |-> "unknown"]}

SyscallB == [name |-> 4, type |-> "syscall"]

SyscallA == [name |-> 3, type |-> "syscall"]

OpenTask == [name |-> 2, type |-> "init_syscall"]

\* An outline in descending order, with one task twice.
MCInputs == {<<SyscallB, SyscallA, OpenTask, OpenTask>>}
=============================================================================
