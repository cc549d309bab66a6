------------------------------ MODULE TaskHeap ------------------------------
(***************************************************************************)
(* TaskQueue of src/src/pkg/queue/tqueue.go as it is built: a slice kept   *)
(* in heap order by container/heap, under a mutex.  The loops of           *)
(* container/heap are one action per iteration; no other operation can     *)
(* start before the mutex is released, that is, before pc is "unlocked".   *)
(* The slice is indexed from 1, where Go's is indexed from 0.              *)
(***************************************************************************)
EXTENDS Tasks, Sequences, FiniteSets

CONSTANTS
    Inputs,   \* JSON arrays of tasks an outline may give
    MaxLen    \* bound: length of the slice

ASSUME InputsAssumption == Inputs \subseteq Seq(Task)
ASSUME MaxLenAssumption == MaxLen \in Nat

VARIABLES
    heap,    \* the slice
    pc,      \* "unlocked", or the loop that holds the mutex
    k,       \* index of the task that is being moved
    todo,    \* tasks NewTaskQueueFromJson has not pushed yet
    answer   \* what the last operation returned

vars == <<heap, pc, k, todo, answer>>

BagOfSeq(s) == [t \in Task |-> Cardinality({i \in DOMAIN s : s[i] = t})]

TQ == INSTANCE TaskQueue WITH
          Loads <- {BagOfSeq(s) : s \in Inputs},
          queue <- [t \in Task |-> BagOfSeq(heap)[t] + BagOfSeq(todo)[t]]

Init == heap = <<>> /\ pc = "unlocked" /\ k = 1 /\ todo = <<>> /\ answer = TQ!Done

Swap(s, i, j) == [s EXCEPT ![i] = s[j], ![j] = s[i]]

\* The first task is its own parent: Go's (0 - 1) / 2 is 0.
Parent(i) == IF i = 1 THEN 1 ELSE i \div 2

-----------------------------------------------------------------------------
\* heap.Push appends, then moves the task up.
StartPushPastEnd(t) ==
    /\ heap' = Append(heap, t)
    /\ k' = Len(heap) + 2
    /\ pc' = "up"

StartPush(t) ==
    /\ heap' = Append(heap, t)
    /\ k' = Len(heap) + 1
    /\ pc' = "up"

Push(t) ==
    /\ pc = "unlocked" /\ todo = <<>>
    /\ Len(heap) < MaxLen
    /\ StartPush(t)
    /\ answer' = TQ!Done
    /\ UNCHANGED todo

\* Does the task at i have to change places with its parent?
AboveParentType(i) == Priority[heap[i].type] < Priority[heap[Parent(i)].type]

AboveParent(i) == Parent(i) # i /\ Less(heap[i], heap[Parent(i)])

Up ==
    /\ pc = "up"
    /\ IF AboveParent(k)
       THEN heap' = Swap(heap, k, Parent(k)) /\ k' = Parent(k) /\ UNCHANGED pc
       ELSE pc' = "unlocked" /\ k' = 1 /\ UNCHANGED heap
    /\ UNCHANGED <<todo, answer>>

-----------------------------------------------------------------------------
\* heap.Pop exchanges the ends of the slice, moves the new first one down among
\* the others, and removes the last.
Pop ==
    /\ pc = "unlocked" /\ todo = <<>>
    /\ IF heap = <<>>
       THEN answer' = TQ!Returned("pop", {}) /\ UNCHANGED <<heap, pc>>
       ELSE heap' = Swap(heap, 1, Len(heap)) /\ pc' = "down" /\ UNCHANGED answer
    /\ UNCHANGED <<k, todo>>

\* The lesser child of i among the first n.
LeftChild(i, n) == 2 * i

LesserChild(i, n) ==
    IF 2 * i + 1 <= n /\ Less(heap[2 * i + 1], heap[2 * i]) THEN 2 * i + 1 ELSE 2 * i

\* Does the task at i have to change places with a child among the first n?
BelowChild(i, n) == 2 * i <= n /\ Less(heap[LesserChild(i, n)], heap[i])

PoppedFirst == heap[1]

PoppedTask == heap[Len(heap)]

Down ==
    /\ pc = "down"
    /\ LET n == Len(heap) - 1 IN
       IF BelowChild(k, n)
       THEN /\ heap' = Swap(heap, k, LesserChild(k, n))
            /\ k' = LesserChild(k, n)
            /\ UNCHANGED <<pc, answer>>
       ELSE /\ heap' = SubSeq(heap, 1, n)
            /\ answer' = TQ!Returned("pop", {PoppedTask})
            /\ pc' = "unlocked" /\ k' = 1
    /\ UNCHANGED todo

-----------------------------------------------------------------------------
Peek ==
    /\ pc = "unlocked" /\ todo = <<>>
    /\ answer' = TQ!Returned("peek", IF heap = <<>> THEN {} ELSE {heap[1]})
    /\ UNCHANGED <<heap, pc, k, todo>>

Clear ==
    /\ pc = "unlocked" /\ todo = <<>>
    /\ heap' = <<>> /\ answer' = TQ!Done
    /\ UNCHANGED <<pc, k, todo>>

\* NewTaskQueueFromJson of an outline, or of the array Json writes: the slice
\* in its present order.  The new queue is pushed one task at a time.
Load ==
    /\ pc = "unlocked" /\ todo = <<>>
    /\ todo' \in Inputs \cup {heap}
    /\ heap' = <<>> /\ answer' = TQ!Done
    /\ UNCHANGED <<pc, k>>

LoadNext ==
    /\ pc = "unlocked" /\ todo # <<>>
    /\ StartPush(Head(todo))
    /\ todo' = Tail(todo)
    /\ UNCHANGED answer

Next == Up \/ Pop \/ Down \/ Peek \/ Clear \/ Load \/ LoadNext \/ \E t \in Task : Push(t)

Spec == Init /\ [][Next]_vars

-----------------------------------------------------------------------------
(***************************************************************************)
(* Properties                                                              *)
(***************************************************************************)
\* The slice holds tasks, and the loops stay inside it.
TypeOK ==
    /\ heap \in Seq(Task) /\ todo \in Seq(Task)
    /\ pc \in {"unlocked", "up", "down"}
    /\ k \in 1..(Len(heap) + 1)
    /\ pc # "unlocked" => k \in 1..Len(heap)
    /\ pc = "up" => answer = TQ!Done

\* The slice is in heap order whenever the mutex is free; while a task moves, only
\* it can be out of order with its parent (up) or its children (down).
HeapOrder ==
    \A i \in 2..Len(heap) :
        \/ ~Less(heap[i], heap[Parent(i)])
        \/ pc = "up" /\ i = k
        \/ pc = "down" /\ (Parent(i) = k \/ i = Len(heap))

\* Without a push in between, tasks are popped in ascending order of type and name:
\* the init_syscall before the structs, these before the syscalls (tqueue.go:12-20).
PopsAscend ==
    [][\A s \in answer.tasks, t \in answer'.tasks :
          answer.op = "pop" /\ answer'.op = "pop" => ~Less(t, s)]_vars

\* The heap implements the queue.
ImplementsTaskQueue == TQ!Spec
=============================================================================
