---------------------------- MODULE TasksProofs ----------------------------
(***************************************************************************)
(* What Less and the bag operations of Tasks guarantee, for every set of   *)
(* tasks: the order is strict and decides between any two tasks, and a     *)
(* queue that is not empty has a task to pop.                              *)
(***************************************************************************)
EXTENDS Tasks, TLAPS, WellFoundedInduction

LEMMA TaskFields ==
    ASSUME NEW t \in Task
    PROVE  t.name \in Nat /\ t.type \in TaskTypes /\ Priority[t.type] \in Nat
BY TaskAssumption DEF TaskTypes, Priority

-----------------------------------------------------------------------------
\* taskHeap.Less is a strict order: no task is before itself ...
THEOREM LessIrreflexive == \A t \in Task : ~Less(t, t)
<1> SUFFICES ASSUME NEW t \in Task PROVE ~Less(t, t)
    OBVIOUS
<1>1. t.name \in Nat /\ Priority[t.type] \in Nat
    BY TaskFields
<1> QED BY <1>1 DEF Less

\* ... what is before a task is before all that follow it ...
THEOREM LessTransitive ==
    \A s, t, u \in Task : Less(s, t) /\ Less(t, u) => Less(s, u)
<1> SUFFICES ASSUME NEW s \in Task, NEW t \in Task, NEW u \in Task,
                    Less(s, t), Less(t, u)
             PROVE  Less(s, u)
    OBVIOUS
<1> QED BY TaskFields DEF Less

\* ... and of two tasks neither of which is before the other, type and name are the
\* same: Pop has no choice but between copies of one task.
THEOREM LessDecides ==
    \A s, t \in Task : ~Less(s, t) /\ ~Less(t, s) => s = t
<1> SUFFICES ASSUME NEW s \in Task, NEW t \in Task, ~Less(s, t), ~Less(t, s)
             PROVE  s = t
    OBVIOUS
<1>1. Priority[s.type] = Priority[t.type] /\ s.name = t.name
    BY TaskFields DEF Less
<1>2. s.type = t.type
    BY <1>1, TaskFields DEF Priority, TaskTypes
<1> QED BY <1>1, <1>2, TaskAssumption

-----------------------------------------------------------------------------
LEMMA LeastNat ==
    ASSUME NEW S, S \subseteq Nat, S # {}
    PROVE  \E m \in S : \A n \in S : m <= n
<1>1. \E m \in S : \A n \in S : ~(<<n, m>> \in OpToRel(<, Nat))
    BY WFMin, NatLessThanWellFounded
<1>2. PICK m \in S : \A n \in S : ~(<<n, m>> \in OpToRel(<, Nat))
    BY <1>1
<1>3. ASSUME NEW n \in S PROVE m <= n
    <2>1. <<n, m>> \in Nat \X Nat => ~(n < m)
        BY <1>2 DEF OpToRel
    <2> QED BY <2>1
<1> QED BY <1>3

\* Peek and Pop give a task of every queue that is not empty (tqueue.go:139-165).
THEOREM TopExists ==
    ASSUME NEW q \in Queue, ~IsEmptyQueue(q)
    PROVE  \E t \in Task : IsTop(q, t)
<1> DEFINE S    == {t \in Task : InQueue(q, t)}
           P    == {Priority[t.type] : t \in S}
<1>1. PICK p \in P : \A n \in P : p <= n
    <2>1. P \subseteq Nat BY TaskFields
    <2>2. P # {} BY DEF IsEmptyQueue
    <2> HIDE DEF P
    <2> QED BY <2>1, <2>2, LeastNat
<1> DEFINE N == {t.name : t \in {u \in S : Priority[u.type] = p}}
<1>2. PICK m \in N : \A n \in N : m <= n
    <2>1. N \subseteq Nat BY TaskFields
    <2>2. N # {} OBVIOUS
    <2> HIDE DEF N
    <2> QED BY <2>1, <2>2, LeastNat
<1>3. PICK t \in S : Priority[t.type] = p /\ t.name = m
    OBVIOUS
<1>4. ASSUME NEW u \in Task, InQueue(q, u)
      PROVE  ~Less(u, t)
    <2>1. u \in S BY <1>4
    <2>2. p <= Priority[u.type] BY <2>1, <1>1
    <2>3. CASE Priority[u.type] = p
        <3>1. m <= u.name BY <2>1, <2>3, <1>2
        <3> QED BY <3>1, <2>3, <1>3, TaskFields DEF Less
    <2>4. CASE Priority[u.type] # p
        BY <2>2, <2>4, <1>3, TaskFields DEF Less
    <2> QED BY <2>3, <2>4
<1> QED BY <1>3, <1>4 DEF IsTop

-----------------------------------------------------------------------------
LEMMA EmptyQueueType == EmptyQueue \in Queue
BY DEF EmptyQueue, Queue

LEMMA PopTaskType ==
    ASSUME NEW q \in Queue, NEW t \in Task, IsTop(q, t)
    PROVE  PopTask(q, t) \in Queue
BY DEF Queue, IsTop, InQueue, PopTask

LEMMA PushTaskType ==
    ASSUME NEW q \in Queue, NEW t \in Task
    PROVE  PushTask(q, t) \in Queue
BY DEF Queue, PushTask

LEMMA PushAllType ==
    ASSUME NEW q \in Queue, NEW S
    PROVE  PushAll(q, S) \in Queue
BY DEF Queue, PushAll
=============================================================================
