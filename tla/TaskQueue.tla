----------------------------- MODULE TaskQueue -----------------------------
(***************************************************************************)
(* What TaskQueue of src/src/pkg/queue/tqueue.go promises its users: a bag *)
(* of tasks whose operations are atomic, Pop and Peek giving a task no     *)
(* other is Less than, or an error when there is none.                     *)
(***************************************************************************)
EXTENDS Tasks

CONSTANT Loads   \* the bags, members of Queue, that NewTaskQueueFromJson may be given

VARIABLES
    queue,    \* the bag
    answer    \* what the last operation returned

vars == <<queue, answer>>

Done == [op |-> "done", tasks |-> {}]

Returned(op, S) == [op |-> op, tasks |-> S]   \* no task: the error of an empty queue

Init == queue = EmptyQueue /\ answer = Done

Push(t) ==
    /\ queue' = PushTask(queue, t)
    /\ answer' = Done

Pop ==
    \/ \E t \in Task : /\ IsTop(queue, t)
                       /\ queue' = PopTask(queue, t)
                       /\ answer' = Returned("pop", {t})
    \/ IsEmptyQueue(queue) /\ answer' = Returned("pop", {}) /\ UNCHANGED queue

Peek ==
    /\ \/ \E t \in Task : IsTop(queue, t) /\ answer' = Returned("peek", {t})
       \/ IsEmptyQueue(queue) /\ answer' = Returned("peek", {})
    /\ UNCHANGED queue

Clear ==
    /\ queue' = EmptyQueue
    /\ answer' = Done

\* A new queue from JSON: of an outline, or of what Json wrote of this one.
Load ==
    /\ queue' \in Loads \cup {queue}
    /\ answer' = Done

Next == Pop \/ Peek \/ Clear \/ Load \/ \E t \in Task : Push(t)

Spec == Init /\ [][Next]_vars
=============================================================================
