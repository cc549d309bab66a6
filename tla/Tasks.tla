------------------------------- MODULE Tasks -------------------------------
(***************************************************************************)
(* The elements of the task queue of src/src/pkg/queue/tqueue.go: their    *)
(* types, the order Less that taskHeap sorts by, and the queue seen as a   *)
(* bag, which is all a user of TaskQueue can observe.                      *)
(*                                                                         *)
(* Names stand for their position in the byte order of Go strings, so "<"  *)
(* on them is the string comparison of Less.  Task is the set of tasks the *)
(* agent can ask for in the instance at hand.                              *)
(***************************************************************************)
EXTENDS Naturals

CONSTANT Task

\* Every string ParseTaskHeapElemType does not know becomes "unknown", and
\* "unknown" survives the round trip through String and JSON.
Priority == [unknown |-> 0, init_syscall |-> 1, struct |-> 2, union |-> 3, syscall |-> 4]

TaskTypes == DOMAIN Priority

ASSUME TaskAssumption == Task \subseteq [name : Nat, type : TaskTypes]

Less(s, t) == \/ Priority[s.type] < Priority[t.type]
              \/ Priority[s.type] = Priority[t.type] /\ s.name < t.name

-----------------------------------------------------------------------------
\* A queue is a bag of tasks: the agent may ask for one task several times.
Queue == [Task -> Nat]

EmptyQueue == [t \in Task |-> 0]

InQueueUnseen(q, t) == q[t] >= 0

InQueue(q, t) == q[t] > 0

IsEmptyQueue(q) == \A t \in Task : ~InQueue(q, t)

\* The task Peek shows and Pop removes: no task of the queue is Less.
IsTop(q, t) == InQueue(q, t) /\ \A u \in Task : InQueue(q, u) => ~Less(u, t)

PushTask(q, t) == [q EXCEPT ![t] = @ + 1]

PopTask(q, t) == [q EXCEPT ![t] = @ - 1]

PushAll(q, S) == [t \in Task |-> IF t \in S THEN q[t] + 1 ELSE q[t]]
=============================================================================
