----------------------------- MODULE MCMinitask -----------------------------
(***************************************************************************)
(* Instance of Minitask: two variables and three names, 1 (open), 2 and    *)
(* 3 (close, in sysdir).  open may be an init_syscall of one variable and  *)
(* a syscall of another.                                                   *)
(***************************************************************************)
EXTENDS Minitask

Init1 == [name |-> 1, type |-> "init_syscall"]
Call(name) == [name |-> name, type |-> "syscall"]

MCTask == {Init1, Call(1), Call(2), Call(3)}

Listing(S, k) == [t \in Task |-> IF t \in S THEN k ELSE 0]

MCOutlines == {Listing({}, 1), Listing({Call(1)}, 2), Listing({Init1, Call(2)}, 1),
               Listing({Init1, Call(1), Call(2), Call(3)}, 1)}

MCRequired == {Call(2)}
=============================================================================
