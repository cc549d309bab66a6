--------------------------- MODULE TaskHeapProofs ---------------------------
(***************************************************************************)
(* Theorems about TaskHeap, for every set of tasks, every outline and      *)
(* slices of any length: the slice is in heap order whenever the mutex is  *)
(* free, and what a user sees of it is the queue of TaskQueue.             *)
(***************************************************************************)
EXTENDS TaskHeap, TasksProofs, SequenceTheorems, FunctionTheorems, FiniteSetTheorems

\* Where the loops are.
TypeInv ==
    /\ heap \in Seq(Task) /\ todo \in Seq(Task)
    /\ pc \in {"unlocked", "up", "down"}
    /\ pc = "unlocked" => k = 1
    /\ pc # "unlocked" => k \in 1..Len(heap)
    /\ pc # "unlocked" /\ pc # "up" => todo = <<>>
    /\ pc = "up" \/ todo # <<>> => answer = TQ!Done

LEMMA ParentType ==
    ASSUME NEW i \in Nat, i >= 2
    PROVE  Parent(i) \in Nat /\ 1 <= Parent(i) /\ Parent(i) < i
BY DEF Parent

LEMMA ChildrenOf ==
    ASSUME NEW i \in Nat, i >= 2, NEW j \in Nat
    PROVE  Parent(i) = j <=> i = 2 * j \/ i = 2 * j + 1
BY DEF Parent

LEMMA LesserChildType ==
    ASSUME NEW i \in Nat \ {0}, NEW n \in Nat, 2 * i <= n
    PROVE  LesserChild(i, n) \in {2 * i, 2 * i + 1} /\ LesserChild(i, n) <= n /\ LesserChild(i, n) \in 2..n
BY DEF LesserChild

LEMMA SwapProperties ==
    ASSUME NEW s \in Seq(Task), NEW i \in 1..Len(s), NEW j \in 1..Len(s)
    PROVE  /\ Swap(s, i, j) \in Seq(Task) /\ Len(Swap(s, i, j)) = Len(s)
           /\ Swap(s, i, j)[i] = s[j] /\ Swap(s, i, j)[j] = s[i]
           /\ \A x \in 1..Len(s) : x # i /\ x # j => Swap(s, i, j)[x] = s[x]
<1>1. s[i] \in Task /\ s[j] \in Task
    BY ElementOfSeq
<1> DEFINE r == [s EXCEPT ![i] = s[j]]
<1>2. r \in Seq(Task) /\ Len(r) = Len(s) /\ \A x \in 1..Len(s) : r[x] = IF x = i THEN s[j] ELSE s[x]
    BY <1>1, ExceptSeq
<1>3. Swap(s, i, j) = [r EXCEPT ![j] = s[i]]
    BY DEF Swap
<1> HIDE DEF r
<1>4. /\ Swap(s, i, j) \in Seq(Task) /\ Len(Swap(s, i, j)) = Len(r)
      /\ \A x \in 1..Len(r) : Swap(s, i, j)[x] = IF x = j THEN s[i] ELSE r[x]
    BY <1>1, <1>2, <1>3, ExceptSeq
<1> QED BY <1>2, <1>4

LEMMA SwapMoves ==
    ASSUME NEW s \in Seq(Task), NEW i \in 1..Len(s), NEW j \in 1..Len(s)
    PROVE  \A x \in 1..Len(Swap(s, i, j)) : \E y \in 1..Len(s) : Swap(s, i, j)[x] = s[y]
<1>1. PICK r : r = Swap(s, i, j)
    OBVIOUS
<1>2. /\ Len(r) = Len(s) /\ r[i] = s[j] /\ r[j] = s[i]
      /\ \A x \in 1..Len(s) : x # i /\ x # j => r[x] = s[x]
    BY <1>1, SwapProperties
<1>3. ASSUME NEW x \in 1..Len(s) PROVE \E y \in 1..Len(s) : r[x] = s[y]
    BY <1>2
<1> QED BY <1>1, <1>2, <1>3

-----------------------------------------------------------------------------
(***************************************************************************)
(* Types                                                                   *)
(***************************************************************************)
LEMMA PushedType ==
    ASSUME heap \in Seq(Task), NEW t \in Task, StartPush(t)
    PROVE  heap' \in Seq(Task) /\ pc' = "up" /\ k' \in 1..Len(heap')
BY AppendProperties, LenProperties DEF StartPush

LEMMA TypeStep ==
    ASSUME TypeInv, [Next]_vars
    PROVE  TypeInv'
<1> USE DEF TypeInv
<1>1. Len(heap) \in Nat
    BY LenProperties
<1>2. CASE Up
    <2>1. CASE AboveParent(k)
        <3>1. k \in 2..Len(heap) /\ Parent(k) \in 1..Len(heap)
            BY <1>1, <1>2, <2>1, ParentType DEF Up, AboveParent, Parent
        <3> QED BY <1>2, <2>1, <3>1, SwapProperties DEF Up
    <2>2. CASE ~AboveParent(k)
        BY <1>2, <2>2 DEF Up
    <2> QED BY <2>1, <2>2
<1>3. CASE Pop
    <2>1. CASE heap = <<>>
        BY <1>3, <2>1 DEF Pop
    <2>2. CASE heap # <<>>
        <3>1. 1 \in 1..Len(heap) /\ Len(heap) \in 1..Len(heap)
            BY <1>1, <2>2, EmptySeq
        <3> QED BY <1>3, <2>2, <3>1, SwapProperties DEF Pop
    <2> QED BY <2>1, <2>2
<1>4. CASE Down
    <2> DEFINE n == Len(heap) - 1
    <2>0. n \in Nat /\ k \in Nat \ {0}
        BY <1>1, <1>4 DEF Down
    <2>1. CASE BelowChild(k, n)
        <3>1. LesserChild(k, n) \in 1..Len(heap)
            <4>1. 2 * k <= n
                BY <2>1 DEF BelowChild
            <4>2. LesserChild(k, n) \in 2..n
                BY <2>0, <4>1, LesserChildType
            <4> QED BY <1>1, <4>2
        <3> QED BY <1>4, <2>1, <3>1, SwapProperties DEF Down
    <2>2. CASE ~BelowChild(k, n)
        <3>1. SubSeq(heap, 1, n) \in Seq(Task)
            BY <1>1, <2>0, ElementOfSeq, SubSeqProperties
        <3> QED BY <1>4, <2>2, <3>1 DEF Down
    <2> QED BY <2>1, <2>2
<1>5. CASE Peek \/ Clear
    BY <1>5, EmptySeq DEF Peek, Clear
<1>6. CASE Load
    <2>1. todo' \in Seq(Task)
        BY <1>6, InputsAssumption DEF Load
    <2> QED BY <1>6, <2>1, EmptySeq DEF Load
<1>7. CASE LoadNext
    <2>1. Head(todo) \in Task /\ Tail(todo) \in Seq(Task)
        BY <1>7, HeadTailProperties DEF LoadNext
    <2> QED BY <1>7, <2>1, PushedType DEF LoadNext
<1>8. ASSUME NEW t \in Task, Push(t) PROVE TypeInv'
    BY <1>8, PushedType DEF Push
<1>9. CASE UNCHANGED vars
    BY <1>9 DEF vars
<1> QED BY <1>2, <1>3, <1>4, <1>5, <1>6, <1>7, <1>8, <1>9 DEF Next

LEMMA TypeInvariant == Spec => []TypeInv
<1>1. Init => TypeInv
    BY EmptySeq DEF Init, TypeInv
<1> QED BY <1>1, TypeStep, PTL DEF Spec

\* The slice holds tasks, and the loops of container/heap stay inside it (tqueue.go:109-151).
THEOREM TypeCorrect == Spec => []TypeOK
<1>1. TypeInv => TypeOK
    BY LenProperties DEF TypeInv, TypeOK
<1> QED BY <1>1, TypeInvariant, PTL

-----------------------------------------------------------------------------
(***************************************************************************)
(* Heap order.  While a task moves, what it leaves behind must be in order *)
(* with what it passes: the children of its place with the parent of it.   *)
(***************************************************************************)
InOrder(s, i) == ~Less(s[i], s[Parent(i)])

SkipOrder(s, n, j) == \A i \in 2..n : Parent(i) = j /\ j > 1 => ~Less(s[i], s[Parent(j)])

Sorted(s, n) == \A i \in 2..n : InOrder(s, i)

SortedUp(s, n, j) == (\A i \in 2..n : i # j => InOrder(s, i)) /\ SkipOrder(s, n, j)

SortedDown(s, n, j) == (\A i \in 2..n : Parent(i) # j => InOrder(s, i)) /\ SkipOrder(s, n, j)

\* No task before the last one is Less than it.
LastIsLeast(s) == \A i \in 1..Len(s) : ~Less(s[i], s[Len(s)])

OrderInv ==
    /\ pc = "unlocked" => Sorted(heap, Len(heap))
    /\ pc = "up" => SortedUp(heap, Len(heap), k)
    /\ pc = "down" => SortedDown(heap, Len(heap) - 1, k) /\ LastIsLeast(heap)

LEMMA LessAsymmetric ==
    ASSUME NEW s \in Task, NEW t \in Task, Less(s, t)
    PROVE  ~Less(t, s)
BY LessTransitive, LessIrreflexive

LEMMA NotLessTransitive ==
    ASSUME NEW s \in Task, NEW t \in Task, NEW u \in Task, ~Less(s, t), ~Less(t, u)
    PROVE  ~Less(s, u)
<1>1. CASE Less(t, s)
    <2>1. CASE Less(s, u)
        BY <1>1, <2>1, LessTransitive
    <2> QED BY <2>1
<1>2. CASE ~Less(t, s)
    BY <1>2, LessDecides
<1> QED BY <1>1, <1>2

LEMMA UpKeepsOrder ==
    ASSUME NEW s \in Seq(Task), NEW j \in 2..Len(s), SortedUp(s, Len(s), j), Less(s[j], s[Parent(j)])
    PROVE  SortedUp(Swap(s, j, Parent(j)), Len(s), Parent(j))
<1>1. Len(s) \in Nat
    BY LenProperties
<1> DEFINE p == Parent(j)
           r == Swap(s, j, p)
<1>2. p \in 1..Len(s) /\ p < j /\ p \in Nat
    BY <1>1, ParentType
<1>0. j \in 1..Len(s) /\ p \in 1..Len(s)
    BY <1>1, <1>2
<1>3. r[j] = s[p] /\ r[p] = s[j] /\ \A x \in 1..Len(s) : x # j /\ x # p => r[x] = s[x]
    <2> HIDE DEF p
    <2> QED BY <1>0, SwapProperties
<1> HIDE DEF r
<1>4. ASSUME NEW i \in 2..Len(s), i # p PROVE InOrder(r, i)
    <2>1. Parent(i) \in 1..Len(s) /\ Parent(i) < i /\ i \in 1..Len(s)
        BY <1>1, ParentType
    <2>2. s[i] \in Task /\ s[j] \in Task /\ s[p] \in Task
        BY <1>1, <1>2, <2>1, ElementOfSeq
    <2>3. CASE i = j
        BY <1>3, <2>2, <2>3, LessAsymmetric DEF InOrder
    <2>4. CASE i # j /\ Parent(i) = j
        <3>1. ~Less(s[i], s[p]) /\ r[i] = s[i] /\ r[j] = s[p]
            BY <1>1, <1>3, <1>4, <2>1, <2>4 DEF SortedUp, SkipOrder
        <3> QED BY <2>4, <3>1 DEF InOrder
    <2>5. CASE i # j /\ Parent(i) = p
        <3>1. ~Less(s[i], s[p]) /\ r[i] = s[i] /\ r[p] = s[j]
            BY <1>3, <1>4, <2>1, <2>5 DEF SortedUp, InOrder
        <3>2. ~Less(s[p], s[j])
            BY <2>2, LessAsymmetric
        <3> QED BY <2>2, <2>5, <3>1, <3>2, NotLessTransitive DEF InOrder
    <2>6. CASE i # j /\ Parent(i) # j /\ Parent(i) # p
        BY <1>3, <1>4, <2>1, <2>6 DEF SortedUp, InOrder
    <2> QED BY <2>3, <2>4, <2>5, <2>6
<1>5. ASSUME NEW i \in 2..Len(s), Parent(i) = p, p > 1 PROVE ~Less(r[i], r[Parent(p)])
    <2>1. Parent(p) \in 1..Len(s) /\ Parent(p) < p /\ p \in 2..Len(s) /\ i \in 1..Len(s) /\ p < i
        BY <1>1, <1>2, <1>5, ParentType
    <2>2. s[i] \in Task /\ s[p] \in Task /\ s[Parent(p)] \in Task
        BY <1>2, <2>1, ElementOfSeq
    <2>3. ~Less(s[p], s[Parent(p)]) /\ r[Parent(p)] = s[Parent(p)]
        BY <1>2, <1>3, <2>1 DEF SortedUp, InOrder
    <2>4. CASE i = j
        BY <1>3, <2>3, <2>4
    <2>5. CASE i # j
        <3>1. ~Less(s[i], s[p]) /\ r[i] = s[i]
            BY <1>3, <1>5, <2>1, <2>5 DEF SortedUp, InOrder
        <3> QED BY <2>2, <2>3, <3>1, NotLessTransitive
    <2> QED BY <2>4, <2>5
<1> QED BY <1>4, <1>5 DEF SortedUp, SkipOrder, r

LEMMA LesserChildLeast ==
    ASSUME NEW n \in Nat, n <= Len(heap), heap \in Seq(Task), NEW j \in Nat \ {0}, 2 * j <= n,
           NEW i \in 2..n, Parent(i) = j
    PROVE  ~Less(heap[i], heap[LesserChild(j, n)])
<1>1. Len(heap) \in Nat
    BY LenProperties
<1>2. i \in 1..Len(heap) /\ 2 * j \in 1..Len(heap)
    BY <1>1
<1>3. heap[i] \in Task /\ heap[2 * j] \in Task
    BY <1>2, ElementOfSeq
<1>4. i = 2 * j \/ i = 2 * j + 1
    BY ChildrenOf
<1>5. CASE i = 2 * j
    BY <1>3, <1>5, LessAsymmetric, LessIrreflexive DEF LesserChild
<1>6. CASE i = 2 * j + 1
    BY <1>3, <1>6, LessIrreflexive DEF LesserChild
<1> QED BY <1>4, <1>5, <1>6

LEMMA DownKeepsOrder ==
    ASSUME heap \in Seq(Task), NEW n \in Nat, n <= Len(heap), NEW j \in Nat \ {0}, BelowChild(j, n),
           SortedDown(heap, n, j), NEW c, c = LesserChild(j, n)
    PROVE  SortedDown(Swap(heap, j, c), n, c)
<1>1. Len(heap) \in Nat
    BY LenProperties
<1>2. c \in 2..n /\ Parent(c) = j /\ j < c /\ j \in 1..Len(heap) /\ c \in 1..Len(heap) /\ 2 * j <= n
    <2>1. 2 * j <= n
        BY DEF BelowChild
    <2>2. c \in 2..n /\ (c = 2 * j \/ c = 2 * j + 1)
        BY <2>1, LesserChildType
    <2>3. Parent(c) = j
        BY <2>2, ChildrenOf
    <2> QED BY <1>1, <2>1, <2>2, <2>3
<1> DEFINE r == Swap(heap, j, c)
<1>3. r[j] = heap[c] /\ r[c] = heap[j] /\ \A x \in 1..Len(heap) : x # j /\ x # c => r[x] = heap[x]
    BY <1>2, SwapProperties
<1>4. Less(heap[c], heap[j])
    BY DEF BelowChild
<1> HIDE DEF r
<1>5. ASSUME NEW i \in 2..n, Parent(i) # c PROVE InOrder(r, i)
    <2>1. Parent(i) \in 1..Len(heap) /\ Parent(i) < i /\ i \in 1..Len(heap)
        BY <1>1, ParentType
    <2>2. heap[i] \in Task /\ heap[j] \in Task /\ heap[c] \in Task
        BY <1>2, <2>1, ElementOfSeq
    <2>3. CASE i = c
        BY <1>2, <1>3, <1>4, <2>2, <2>3, LessAsymmetric DEF InOrder
    <2>4. CASE i # c /\ Parent(i) = j
        <3>1. ~Less(heap[i], heap[c]) /\ r[i] = heap[i]
            BY <1>2, <1>3, <2>1, <2>4, LesserChildLeast
        <3> QED BY <1>3, <2>4, <3>1 DEF InOrder
    <2>5. CASE i = j
        <3>1. ~Less(heap[c], heap[Parent(j)]) /\ r[Parent(j)] = heap[Parent(j)]
            BY <1>2, <1>3, <1>5, <2>1, <2>5 DEF SortedDown, SkipOrder
        <3> QED BY <1>3, <2>5, <3>1 DEF InOrder
    <2>6. CASE i # c /\ i # j /\ Parent(i) # j
        <3>1. r[i] = heap[i] /\ r[Parent(i)] = heap[Parent(i)]
            BY <1>3, <1>5, <2>1, <2>6
        <3> QED BY <2>6, <3>1 DEF SortedDown, InOrder
    <2> QED BY <2>3, <2>4, <2>5, <2>6
<1>6. ASSUME NEW i \in 2..n, Parent(i) = c PROVE ~Less(r[i], r[Parent(c)])
    <2>1. i \in 1..Len(heap) /\ i # c /\ i # j
        BY <1>1, <1>2, <1>6, ParentType
    <2>2. ~Less(heap[i], heap[c])
        BY <1>2, <1>6 DEF SortedDown, InOrder
    <2> QED BY <1>2, <1>3, <2>1, <2>2
<1> QED BY <1>5, <1>6 DEF SortedDown, SkipOrder, r

\* The first task of a slice in heap order is one of the least.
LEMMA RootIsLeast ==
    ASSUME NEW s \in Seq(Task), Sorted(s, Len(s)), NEW i \in 1..Len(s)
    PROVE  ~Less(s[i], s[1])
<1>1. Len(s) \in Nat
    BY LenProperties
<1> DEFINE B == {x \in 1..Len(s) : Less(s[x], s[1])}
<1> SUFFICES ASSUME B # {} PROVE FALSE
    OBVIOUS
<1>2. PICK m \in B : \A x \in B : m <= x
    <2>1. B \subseteq Nat
        OBVIOUS
    <2> HIDE DEF B
    <2> QED BY <2>1, LeastNat
<1>3. m \in 1..Len(s) /\ Less(s[m], s[1]) /\ m \in Nat
    OBVIOUS
<1>4. s[1] \in Task /\ 1 \in 1..Len(s)
    BY <1>1, <1>3, ElementOfSeq
<1>5. m >= 2
    BY <1>3, <1>4, LessIrreflexive
<1>6. Parent(m) \in 1..Len(s) /\ Parent(m) < m /\ Parent(m) \in Nat
    BY <1>1, <1>3, <1>5, ParentType
<1>7. ~Less(s[Parent(m)], s[1])
    BY <1>2, <1>3, <1>6
<1>8. ~Less(s[m], s[Parent(m)])
    BY <1>1, <1>3, <1>5 DEF Sorted, InOrder
<1>9. s[m] \in Task /\ s[Parent(m)] \in Task
    BY <1>3, <1>6, ElementOfSeq
<1> QED BY <1>3, <1>4, <1>7, <1>8, <1>9, NotLessTransitive

LEMMA PushedOrder ==
    ASSUME heap \in Seq(Task), Sorted(heap, Len(heap)), NEW t \in Task, StartPush(t)
    PROVE  pc' = "up" /\ SortedUp(heap', Len(heap'), k')
<1>1. /\ Len(heap) \in Nat /\ Len(heap') = Len(heap) + 1 /\ k' = Len(heap) + 1 /\ pc' = "up"
      /\ \A i \in 1..Len(heap) : heap'[i] = heap[i]
    BY AppendProperties, LenProperties DEF StartPush
<1>2. ASSUME NEW i \in 2..Len(heap'), i # k' PROVE ~Less(heap'[i], heap'[Parent(i)])
    <2>1. i \in 2..Len(heap) /\ Parent(i) \in 1..Len(heap) /\ i \in 1..Len(heap)
        BY <1>1, <1>2, ParentType
    <2> QED BY <1>1, <2>1 DEF Sorted, InOrder
<1>3. ASSUME NEW i \in 2..Len(heap'), Parent(i) = k' PROVE FALSE
    BY <1>1, <1>3, ParentType
<1> QED BY <1>1, <1>2, <1>3 DEF SortedUp, SkipOrder, InOrder

LEMMA OrderStep ==
    ASSUME TypeInv, OrderInv, [Next]_vars
    PROVE  OrderInv'
<1> USE DEF TypeInv
<1>1. Len(heap) \in Nat
    BY LenProperties
<1>2. CASE Up
    <2>1. CASE AboveParent(k)
        <3>1. k \in 2..Len(heap) /\ Less(heap[k], heap[Parent(k)]) /\ Parent(k) \in 1..Len(heap)
            BY <1>1, <1>2, <2>1, ParentType DEF Up, AboveParent, Parent
        <3>2. SortedUp(heap', Len(heap), k') /\ Len(heap') = Len(heap) /\ pc' = "up"
            BY <1>2, <2>1, <3>1, UpKeepsOrder, SwapProperties DEF Up, OrderInv
        <3> QED BY <3>2 DEF OrderInv
    <2>2. CASE ~AboveParent(k)
        <3>1. ASSUME NEW i \in 2..Len(heap) PROVE InOrder(heap, i)
            <4>1. CASE i # k
                BY <1>2, <4>1 DEF Up, OrderInv, SortedUp
            <4>2. CASE i = k
                <5>1. Parent(i) # i
                    BY <1>1, ParentType
                <5> QED BY <2>2, <4>2, <5>1 DEF AboveParent, InOrder
            <4> QED BY <4>1, <4>2
        <3> QED BY <1>2, <2>2, <3>1 DEF Up, OrderInv, Sorted
    <2> QED BY <2>1, <2>2
<1>3. CASE Pop
    <2>1. CASE heap = <<>>
        BY <1>3, <2>1 DEF Pop, OrderInv
    <2>2. CASE heap # <<>>
        <3> DEFINE L == Len(heap)
        <3>1. L \in Nat /\ 1 \in 1..L /\ L \in 1..L
            BY <1>1, <2>2, EmptySeq
        <3>2. heap' = Swap(heap, 1, L) /\ pc' = "down" /\ k' = 1 /\ Sorted(heap, L)
            BY <1>3, <2>2 DEF Pop, OrderInv
        <3> HIDE DEF L
        <3>3. /\ Len(heap') = L /\ heap'[1] = heap[L] /\ heap'[L] = heap[1]
              /\ \A x \in 1..L : x # 1 /\ x # L => heap'[x] = heap[x]
            BY <3>1, <3>2, SwapProperties DEF L
        <3>4. ASSUME NEW i \in 2..(L - 1), Parent(i) # 1 PROVE InOrder(heap', i)
            <4>1. i \in 2..L /\ Parent(i) \in 1..(L - 1) /\ i \in 1..L
                BY <3>1, ParentType
            <4>2. heap'[i] = heap[i] /\ heap'[Parent(i)] = heap[Parent(i)]
                BY <3>1, <3>3, <3>4, <4>1
            <4> QED BY <3>2, <4>1, <4>2 DEF Sorted, InOrder
        <3>5. \A i \in 1..L : ~Less(heap[i], heap[1])
            BY <3>2, RootIsLeast DEF L
        <3>6. \A i \in 1..L : ~Less(heap'[i], heap'[L])
            BY <3>1, <3>3, <3>5
        <3> QED BY <3>2, <3>3, <3>4, <3>6 DEF OrderInv, SortedDown, SkipOrder, LastIsLeast
    <2> QED BY <2>1, <2>2
<1>4. CASE Down
    <2>0. PICK n : n = Len(heap) - 1
        OBVIOUS
    <2>1. n \in Nat /\ k \in Nat \ {0} /\ n <= Len(heap) /\ SortedDown(heap, n, k) /\ LastIsLeast(heap)
        BY <1>1, <1>4, <2>0 DEF Down, OrderInv
    <2>2. CASE BelowChild(k, n)
        <3>1. PICK c : c = LesserChild(k, n)
            OBVIOUS
        <3>2. c \in 2..n /\ c \in 1..Len(heap) /\ k \in 1..Len(heap) /\ c # Len(heap) /\ k # Len(heap)
            <4>1. 2 * k <= n
                BY <2>2 DEF BelowChild
            <4>2. c \in 2..n
                BY <2>1, <3>1, <4>1, LesserChildType
            <4> QED BY <1>1, <1>4, <2>0, <2>1, <4>1, <4>2 DEF Down
        <3>3. heap' = Swap(heap, k, c) /\ k' = c /\ pc' = "down"
            BY <1>4, <2>0, <2>2, <3>1 DEF Down
        <3>4. /\ Len(heap') = Len(heap) /\ heap'[k] = heap[c] /\ heap'[c] = heap[k]
              /\ \A x \in 1..Len(heap) : x # k /\ x # c => heap'[x] = heap[x]
            BY <3>2, <3>3, SwapProperties
        <3>5. SortedDown(heap', n, c)
            BY <2>1, <2>2, <3>1, <3>3, DownKeepsOrder
        <3>6. LastIsLeast(heap')
            <4>1. Len(heap) \in 1..Len(heap)
                BY <1>1, <3>2
            <4> QED BY <2>1, <3>2, <3>4, <4>1 DEF LastIsLeast
        <3> QED BY <2>0, <3>3, <3>4, <3>5, <3>6 DEF OrderInv
    <2>3. CASE ~BelowChild(k, n)
        <3>1. heap' = SubSeq(heap, 1, n) /\ pc' = "unlocked"
            BY <1>4, <2>0, <2>3 DEF Down
        <3>2. Len(heap') = n /\ \A i \in 1..n : heap'[i] = heap[i]
            <4>1. \A i \in 1..n : heap[i] \in Task
                BY <1>1, <2>0, <2>1, ElementOfSeq
            <4> QED BY <2>1, <3>1, <4>1, SubSeqProperties
        <3>3. ASSUME NEW i \in 2..n PROVE InOrder(heap', i)
            <4>1. i \in 1..n /\ Parent(i) \in 1..n /\ i \in 1..Len(heap)
                BY <2>1, ParentType
            <4>2. CASE Parent(i) # k
                BY <2>1, <3>2, <4>1, <4>2 DEF SortedDown, InOrder
            <4>3. CASE Parent(i) = k
                <5>1. 2 * k <= n
                    BY <2>1, <4>1, <4>3, ChildrenOf
                <5>2. PICK c : c = LesserChild(k, n)
                    OBVIOUS
                <5>3. ~Less(heap[c], heap[k])
                    BY <2>3, <5>1, <5>2 DEF BelowChild
                <5>4. ~Less(heap[i], heap[c])
                    BY <2>1, <4>3, <5>1, <5>2, LesserChildLeast
                <5>5. c \in 1..Len(heap) /\ k \in 1..Len(heap)
                    <6>1. c \in 2..n
                        BY <2>1, <5>1, <5>2, LesserChildType
                    <6> QED BY <1>1, <2>1, <4>1, <4>3, <6>1
                <5>6. heap[i] \in Task /\ heap[c] \in Task /\ heap[k] \in Task
                    BY <4>1, <5>5, ElementOfSeq
                <5>7. ~Less(heap[i], heap[k])
                    BY <5>3, <5>4, <5>6, NotLessTransitive
                <5> QED BY <3>2, <4>1, <4>3, <5>7 DEF InOrder
            <4> QED BY <4>2, <4>3
        <3> QED BY <3>1, <3>2, <3>3 DEF OrderInv, Sorted
    <2> QED BY <2>2, <2>3
<1>5. CASE Peek
    BY <1>5 DEF Peek, OrderInv
<1>6. CASE Clear \/ Load
    <2>1. heap' = <<>> /\ pc' = "unlocked" /\ Len(heap') = 0
        BY <1>6, EmptySeq DEF Clear, Load
    <2> QED BY <2>1 DEF OrderInv, Sorted
<1>7. CASE LoadNext
    <2>1. Head(todo) \in Task
        BY <1>7, HeadTailProperties DEF LoadNext
    <2> QED BY <1>7, <2>1, PushedOrder DEF LoadNext, OrderInv
<1>8. ASSUME NEW t \in Task, Push(t) PROVE OrderInv'
    BY <1>8, PushedOrder DEF Push, OrderInv
<1>9. CASE UNCHANGED vars
    BY <1>9 DEF vars, OrderInv
<1> QED BY <1>2, <1>3, <1>4, <1>5, <1>6, <1>7, <1>8, <1>9 DEF Next

LEMMA OrderInvariant == Spec => [](TypeInv /\ OrderInv)
<1>1. Init => OrderInv
    BY EmptySeq DEF Init, OrderInv, Sorted
<1> QED BY <1>1, OrderStep, TypeInvariant, PTL DEF Spec

\* The slice is in heap order whenever the mutex is free, and out of it only where a
\* task moves while it is held (tqueue.go:22-60, 109-151).
THEOREM HeapIsOrdered == Spec => []HeapOrder
<1>1. TypeInv /\ OrderInv => HeapOrder
    <2> SUFFICES ASSUME TypeInv, OrderInv, NEW i \in 2..Len(heap)
                 PROVE  \/ InOrder(heap, i)
                        \/ pc = "up" /\ i = k
                        \/ pc = "down" /\ (Parent(i) = k \/ i = Len(heap))
        BY DEF HeapOrder, InOrder
    <2>1. i # Len(heap) => i \in 2..(Len(heap) - 1)
        BY LenProperties DEF TypeInv
    <2> QED BY <2>1 DEF TypeInv, OrderInv, Sorted, SortedUp, SortedDown
<1> QED BY <1>1, OrderInvariant, PTL

-----------------------------------------------------------------------------
(***************************************************************************)
(* Pops ascend: what is left in the slice is not Less than what was popped *)
(* last.                                                                   *)
(***************************************************************************)
PopInv ==
    answer.op = "pop" =>
        \/ answer.tasks = {}
        \/ \E s \in Task : answer.tasks = {s} /\ \A i \in 1..Len(heap) : ~Less(heap[i], s)

LEMMA PopStep ==
    ASSUME TypeInv, OrderInv, PopInv, [Next]_vars
    PROVE  /\ PopInv'
           /\ \A s \in answer.tasks, t \in answer'.tasks :
                 answer.op = "pop" /\ answer'.op = "pop" => ~Less(t, s)
<1> USE DEF TypeInv
<1>1. Len(heap) \in Nat
    BY LenProperties
<1>2. ASSUME answer' = TQ!Done \/ (answer'.op = "pop" /\ answer'.tasks = {}) \/ answer'.op = "peek"
      PROVE  /\ PopInv'
             /\ \A s \in answer.tasks, t \in answer'.tasks :
                   answer.op = "pop" /\ answer'.op = "pop" => ~Less(t, s)
    BY <1>2 DEF PopInv, TQ!Done
<1>3. ASSUME answer' = answer,
             \A i \in 1..Len(heap') : \E j \in 1..Len(heap) : heap'[i] = heap[j]
      PROVE  /\ PopInv'
             /\ \A s \in answer.tasks, t \in answer'.tasks :
                   answer.op = "pop" /\ answer'.op = "pop" => ~Less(t, s)
    <2>1. PopInv'
        BY <1>3 DEF PopInv
    <2>2. answer.op = "pop" => \A s, t \in answer.tasks : ~Less(t, s)
        BY LessIrreflexive DEF PopInv
    <2> QED BY <1>3, <2>1, <2>2
<1>4. CASE Up \/ LoadNext
    BY <1>2, <1>4 DEF Up, LoadNext
<1>5. CASE Clear \/ Load \/ \E t \in Task : Push(t)
    BY <1>2, <1>5 DEF Clear, Load, Push
<1>6. CASE Peek
    BY <1>2, <1>6 DEF Peek, TQ!Returned
<1>7. CASE Pop
    <2>1. CASE heap = <<>>
        BY <1>2, <1>7, <2>1 DEF Pop, TQ!Returned
    <2>2. CASE heap # <<>>
        <3>1. 1 \in 1..Len(heap) /\ Len(heap) \in 1..Len(heap)
            BY <1>1, <2>2, EmptySeq
        <3>2. heap' = Swap(heap, 1, Len(heap)) /\ answer' = answer
            BY <1>7, <2>2 DEF Pop
        <3>3. \A i \in 1..Len(heap') : \E j \in 1..Len(heap) : heap'[i] = heap[j]
            BY <3>1, <3>2, SwapMoves
        <3> QED BY <1>3, <3>2, <3>3
    <2> QED BY <2>1, <2>2
<1>8. CASE Down
    <2>0. PICK n : n = Len(heap) - 1
        OBVIOUS
    <2>1. n \in Nat /\ k \in Nat \ {0} /\ n <= Len(heap) /\ LastIsLeast(heap) /\ Len(heap) \in 1..Len(heap)
        BY <1>1, <1>8, <2>0 DEF Down, OrderInv
    <2>2. CASE BelowChild(k, n)
        <3>1. LesserChild(k, n) \in 1..Len(heap) /\ k \in 1..Len(heap)
            <4>1. 2 * k <= n
                BY <2>2 DEF BelowChild
            <4>2. LesserChild(k, n) \in 2..n
                BY <2>1, <4>1, LesserChildType
            <4> QED BY <1>1, <1>8, <2>1, <4>2 DEF Down
        <3>2. heap' = Swap(heap, k, LesserChild(k, n)) /\ answer' = answer
            BY <1>8, <2>0, <2>2 DEF Down
        <3>3. \A i \in 1..Len(heap') : \E j \in 1..Len(heap) : heap'[i] = heap[j]
            BY <3>1, <3>2, SwapMoves
        <3> QED BY <1>3, <3>2, <3>3
    <2>3. CASE ~BelowChild(k, n)
        <3>1. heap' = SubSeq(heap, 1, n) /\ answer' = [op |-> "pop", tasks |-> {heap[Len(heap)]}]
            BY <1>8, <2>0, <2>3 DEF Down, PoppedTask, TQ!Returned
        <3>2. Len(heap') = n /\ \A i \in 1..n : heap'[i] = heap[i]
            <4>1. \A i \in 1..n : heap[i] \in Task
                BY <1>1, <2>0, <2>1, ElementOfSeq
            <4> QED BY <2>1, <3>1, <4>1, SubSeqProperties
        <3>3. heap[Len(heap)] \in Task
            BY <2>1, ElementOfSeq
        <3>4. PopInv'
            <4>1. \A i \in 1..n : ~Less(heap'[i], heap[Len(heap)])
                BY <1>1, <2>0, <2>1, <3>2 DEF LastIsLeast
            <4> QED BY <3>1, <3>2, <3>3, <4>1 DEF PopInv
        <3>5. \A s \in answer.tasks : answer.op = "pop" => ~Less(heap[Len(heap)], s)
            BY <2>1 DEF PopInv
        <3> QED BY <3>1, <3>4, <3>5
    <2> QED BY <2>2, <2>3
<1>9. CASE UNCHANGED vars
    BY <1>3, <1>9 DEF vars
<1> QED BY <1>4, <1>5, <1>6, <1>7, <1>8, <1>9 DEF Next

\* Tasks that are popped one after the other come in ascending order of type and name
\* (tqueue.go:12-20, 139-151).
THEOREM PopsAreAscending == Spec => PopsAscend
<1>1. Init => PopInv
    BY DEF Init, PopInv, TQ!Done
<1>2. ASSUME TypeInv, OrderInv, PopInv, [Next]_vars
      PROVE  [\A s \in answer.tasks, t \in answer'.tasks :
                 answer.op = "pop" /\ answer'.op = "pop" => ~Less(t, s)]_vars
    BY <1>2, PopStep
<1> QED BY <1>1, <1>2, PopStep, OrderInvariant, PTL DEF Spec, PopsAscend

-----------------------------------------------------------------------------
(***************************************************************************)
(* The slice as a bag                                                      *)
(***************************************************************************)
PlacesOf(s, t) == {i \in 1..Len(s) : s[i] = t}

LEMMA BagCounts ==
    ASSUME NEW s \in Seq(Task)
    PROVE  /\ BagOfSeq(s) \in Queue
           /\ \A t \in Task : IsFiniteSet(PlacesOf(s, t)) /\ BagOfSeq(s)[t] = Cardinality(PlacesOf(s, t))
<1>1. Len(s) \in Nat /\ DOMAIN s = 1..Len(s)
    BY LenProperties
<1>2. ASSUME NEW t \in Task
      PROVE  /\ IsFiniteSet(PlacesOf(s, t)) /\ BagOfSeq(s)[t] = Cardinality(PlacesOf(s, t))
             /\ Cardinality(PlacesOf(s, t)) \in Nat
    <2>1. IsFiniteSet(PlacesOf(s, t))
        <3>1. IsFiniteSet(1..Len(s)) /\ PlacesOf(s, t) \in SUBSET (1..Len(s))
            BY <1>1, FS_Interval DEF PlacesOf
        <3> QED BY <3>1, FS_Subset
    <2>2. {i \in DOMAIN s : s[i] = t} = PlacesOf(s, t)
        BY <1>1 DEF PlacesOf
    <2> QED BY <2>1, <2>2, FS_CardinalityType DEF BagOfSeq
<1>3. BagOfSeq(s) \in Queue
    BY <1>2 DEF Queue, BagOfSeq
<1> QED BY <1>2, <1>3

LEMMA BagEqual ==
    ASSUME NEW s \in Seq(Task), NEW q \in Queue, \A t \in Task : BagOfSeq(s)[t] = q[t]
    PROVE  BagOfSeq(s) = q
BY BagCounts DEF Queue

LEMMA EmptyBag == BagOfSeq(<<>>) = EmptyQueue
<1>1. <<>> \in Seq(Task) /\ \A t \in Task : PlacesOf(<<>>, t) = {}
    BY EmptySeq DEF PlacesOf
<1>2. \A t \in Task : BagOfSeq(<<>>)[t] = 0
    BY <1>1, BagCounts, FS_EmptySet
<1> QED BY <1>2 DEF BagOfSeq, EmptyQueue

LEMMA BagHas ==
    ASSUME NEW s \in Seq(Task), NEW t \in Task
    PROVE  InQueue(BagOfSeq(s), t) <=> \E i \in 1..Len(s) : s[i] = t
<1>1. BagOfSeq(s)[t] \in Nat /\ (BagOfSeq(s)[t] = 0 <=> PlacesOf(s, t) = {})
    BY BagCounts, FS_EmptySet DEF Queue
<1> QED BY <1>1 DEF InQueue, PlacesOf

\* A task more at the end ...
LEMMA BagAppend ==
    ASSUME NEW s \in Seq(Task), NEW r \in Seq(Task), Len(r) = Len(s) + 1,
           \A i \in 1..Len(s) : r[i] = s[i]
    PROVE  BagOfSeq(r) = PushTask(BagOfSeq(s), r[Len(r)])
<1>1. Len(s) \in Nat /\ Len(r) \in 1..Len(r)
    BY LenProperties
<1>2. r[Len(r)] \in Task
    BY <1>1, ElementOfSeq
<1>3. ASSUME NEW t \in Task PROVE BagOfSeq(r)[t] = IF t = r[Len(r)] THEN BagOfSeq(s)[t] + 1 ELSE BagOfSeq(s)[t]
    <2>1. PlacesOf(r, t) = IF t = r[Len(r)] THEN PlacesOf(s, t) \cup {Len(r)} ELSE PlacesOf(s, t)
        BY <1>1 DEF PlacesOf
    <2>2. Len(r) \notin PlacesOf(s, t)
        BY <1>1 DEF PlacesOf
    <2> QED BY <2>1, <2>2, BagCounts, FS_AddElement
<1> QED BY <1>2, <1>3, BagCounts, BagEqual, PushTaskType DEF PushTask, Queue

\* ... or at the beginning, is one more of its copies;
LEMMA BagTail ==
    ASSUME NEW s \in Seq(Task), s # <<>>
    PROVE  BagOfSeq(s) = PushTask(BagOfSeq(Tail(s)), Head(s))
<1>1. /\ Len(s) \in Nat /\ Len(s) >= 1 /\ Head(s) = s[1] /\ Head(s) \in Task /\ Tail(s) \in Seq(Task)
      /\ Len(Tail(s)) = Len(s) - 1 /\ \A i \in 1..Len(Tail(s)) : Tail(s)[i] = s[i + 1]
    BY LenProperties, EmptySeq, HeadTailProperties
<1>2. PICK r \in Seq(Task) : r = Tail(s)
    BY <1>1
<1>3. ASSUME NEW t \in Task PROVE BagOfSeq(s)[t] = IF t = Head(s) THEN BagOfSeq(r)[t] + 1 ELSE BagOfSeq(r)[t]
    <2> DEFINE Later == {i \in 2..Len(s) : s[i] = t}
               f == [i \in PlacesOf(r, t) |-> i + 1]
    <2>1. f \in [PlacesOf(r, t) -> Later]
        BY <1>1, <1>2 DEF PlacesOf
    <2>2. \A a, b \in PlacesOf(r, t) : f[a] = f[b] => a = b
        BY DEF PlacesOf
    <2>3. \A j \in Later : \E i \in PlacesOf(r, t) : f[i] = j
        <3> SUFFICES ASSUME NEW j \in Later PROVE \E i \in PlacesOf(r, t) : f[i] = j
            OBVIOUS
        <3>1. j - 1 \in PlacesOf(r, t)
            BY <1>1, <1>2 DEF PlacesOf
        <3> QED BY <3>1
    <2>4. f \in Bijection(PlacesOf(r, t), Later)
        <3> HIDE DEF f, Later
        <3> QED BY <2>1, <2>2, <2>3, Fun_IsBij
    <2>5. IsFiniteSet(Later) /\ Cardinality(Later) = BagOfSeq(r)[t]
        <3>1. ExistsBijection(PlacesOf(r, t), Later)
            BY <2>4 DEF ExistsBijection
        <3> HIDE DEF Later
        <3> QED BY <3>1, BagCounts, FS_Bijection
    <2>6. PlacesOf(s, t) = IF t = Head(s) THEN Later \cup {1} ELSE Later
        BY <1>1 DEF PlacesOf
    <2>7. 1 \notin Later
        OBVIOUS
    <2> HIDE DEF Later
    <2> QED BY <2>5, <2>6, <2>7, BagCounts, FS_AddElement
<1>4. BagOfSeq(s) = PushTask(BagOfSeq(r), Head(s))
    BY <1>1, <1>3, BagCounts, BagEqual, PushTaskType DEF PushTask, Queue
<1> QED BY <1>2, <1>4

\* and tasks that change places remain the same tasks.
LEMMA BagSwap ==
    ASSUME NEW s \in Seq(Task), NEW i \in 1..Len(s), NEW j \in 1..Len(s)
    PROVE  BagOfSeq(Swap(s, i, j)) = BagOfSeq(s)
<1>1. PICK r : r = Swap(s, i, j)
    OBVIOUS
<1>2. /\ r \in Seq(Task) /\ Len(r) = Len(s) /\ r[i] = s[j] /\ r[j] = s[i]
      /\ \A x \in 1..Len(s) : x # i /\ x # j => r[x] = s[x]
    BY <1>1, SwapProperties
<1>3. ASSUME NEW t \in Task PROVE BagOfSeq(r)[t] = BagOfSeq(s)[t]
    <2> DEFINE g(x) == IF x = i THEN j ELSE IF x = j THEN i ELSE x
               f == [x \in PlacesOf(s, t) |-> g(x)]
    <2>1. f \in [PlacesOf(s, t) -> PlacesOf(r, t)]
        BY <1>2 DEF PlacesOf
    <2>2. \A a, b \in PlacesOf(s, t) : f[a] = f[b] => a = b
        OBVIOUS
    <2>3. \A y \in PlacesOf(r, t) : \E x \in PlacesOf(s, t) : f[x] = y
        <3> SUFFICES ASSUME NEW y \in PlacesOf(r, t) PROVE \E x \in PlacesOf(s, t) : f[x] = y
            OBVIOUS
        <3>1. g(y) \in PlacesOf(s, t) /\ g(g(y)) = y
            BY <1>2 DEF PlacesOf
        <3> QED BY <3>1
    <2>4. f \in Bijection(PlacesOf(s, t), PlacesOf(r, t))
        <3> HIDE DEF f
        <3> QED BY <2>1, <2>2, <2>3, Fun_IsBij
    <2>5. ExistsBijection(PlacesOf(s, t), PlacesOf(r, t))
        BY <2>4 DEF ExistsBijection
    <2> QED BY <1>2, <2>5, BagCounts, FS_Bijection
<1> QED BY <1>1, <1>2, <1>3, BagCounts, BagEqual

-----------------------------------------------------------------------------
(***************************************************************************)
(* Refinement.  A user of TaskQueue sees the tasks of the slice and those  *)
(* NewTaskQueueFromJson has not pushed yet.  Every step of the loops is a  *)
(* stutter, but for the one that removes what was popped.                  *)
(***************************************************************************)
Seen(s, u) == [t \in Task |-> BagOfSeq(s)[t] + BagOfSeq(u)[t]]

\* TaskQueue and TaskHeap have their own copies of the operators of Tasks.
LEMMA SameOperators ==
    /\ TQ!EmptyQueue = EmptyQueue
    /\ \A q, t : TQ!PushTask(q, t) = PushTask(q, t)
    /\ \A q, t : TQ!PopTask(q, t) = PopTask(q, t)
    /\ \A q, t : TQ!IsTop(q, t) <=> IsTop(q, t)
    /\ \A q : TQ!IsEmptyQueue(q) <=> IsEmptyQueue(q)
<1>1. TQ!EmptyQueue = EmptyQueue
    BY DEF TQ!EmptyQueue, EmptyQueue
<1>2. \A q, t : TQ!PushTask(q, t) = PushTask(q, t) /\ TQ!PopTask(q, t) = PopTask(q, t)
    BY DEF TQ!PushTask, PushTask, TQ!PopTask, PopTask
<1>3. \A s, t : TQ!Less(s, t) <=> Less(s, t)
    BY DEF TQ!Less, Less, TQ!Priority, Priority
<1>4. ASSUME NEW q, NEW t PROVE TQ!IsTop(q, t) <=> IsTop(q, t)
    BY <1>3 DEF TQ!IsTop, IsTop, TQ!InQueue, InQueue
<1>5. ASSUME NEW q PROVE TQ!IsEmptyQueue(q) <=> IsEmptyQueue(q)
    BY DEF TQ!IsEmptyQueue, IsEmptyQueue, TQ!InQueue, InQueue
<1> QED BY <1>1, <1>2, <1>4, <1>5

LEMMA SeenAlone ==
    ASSUME NEW s \in Seq(Task)
    PROVE  Seen(s, <<>>) = BagOfSeq(s) /\ Seen(<<>>, s) = BagOfSeq(s)
<1>1. BagOfSeq(s) \in [Task -> Nat] /\ BagOfSeq(<<>>) = [t \in Task |-> 0]
    BY EmptyBag, BagCounts DEF EmptyQueue, Queue
<1> QED BY <1>1 DEF Seen

LEMMA PushSeen ==
    ASSUME NEW a \in [Task -> Nat], NEW b \in [Task -> Nat], NEW v \in Task
    PROVE  /\ PushTask([t \in Task |-> a[t] + b[t]], v) = [t \in Task |-> PushTask(a, v)[t] + b[t]]
           /\ PushTask([t \in Task |-> a[t] + b[t]], v) = [t \in Task |-> a[t] + PushTask(b, v)[t]]
<1>1. /\ PushTask(a, v) = [t \in Task |-> IF t = v THEN a[t] + 1 ELSE a[t]]
      /\ PushTask(b, v) = [t \in Task |-> IF t = v THEN b[t] + 1 ELSE b[t]]
    BY DEF PushTask
<1>2. PushTask([t \in Task |-> a[t] + b[t]], v) = [t \in Task |-> IF t = v THEN a[t] + b[t] + 1 ELSE a[t] + b[t]]
    BY DEF PushTask
<1>3. \A t \in Task : a[t] \in Nat /\ b[t] \in Nat
    OBVIOUS
<1> QED BY <1>1, <1>2, <1>3

LEMMA SeenPushed ==
    ASSUME heap \in Seq(Task), NEW t \in Task, StartPush(t), NEW u \in Seq(Task)
    PROVE  Seen(heap', u) = PushTask(Seen(heap, u), t)
<1>1. heap' \in Seq(Task) /\ Len(heap') = Len(heap) + 1 /\ heap'[Len(heap')] = t
      /\ \A i \in 1..Len(heap) : heap'[i] = heap[i]
    BY AppendProperties DEF StartPush
<1>2. BagOfSeq(heap') = PushTask(BagOfSeq(heap), t)
    <2>1. PICK r : r = heap'
        OBVIOUS
    <2> QED BY <1>1, <2>1, BagAppend
<1>3. BagOfSeq(heap) \in [Task -> Nat] /\ BagOfSeq(u) \in [Task -> Nat]
    BY BagCounts DEF Queue
<1>4. Seen(heap', u) = [v \in Task |-> PushTask(BagOfSeq(heap), t)[v] + BagOfSeq(u)[v]]
    BY <1>2 DEF Seen
<1>5. PushTask(Seen(heap, u), t) = [v \in Task |-> PushTask(BagOfSeq(heap), t)[v] + BagOfSeq(u)[v]]
    BY <1>3, PushSeen DEF Seen
<1> QED BY <1>4, <1>5

LEMMA TopOfHeap ==
    ASSUME heap \in Seq(Task), NEW i \in 1..Len(heap), \A j \in 1..Len(heap) : ~Less(heap[j], heap[i])
    PROVE  IsTop(BagOfSeq(heap), heap[i])
<1>1. heap[i] \in Task
    BY ElementOfSeq
<1> QED BY <1>1, BagHas DEF IsTop

LEMMA Simulation ==
    ASSUME TypeInv, OrderInv, [Next]_vars
    PROVE  [TQ!Next]_(TQ!vars)
<1> USE DEF TypeInv
<1>0. Len(heap) \in Nat /\ 1 \in 1..(Len(heap) + 1)
    BY LenProperties
<1>1. ASSUME Seen(heap', todo') = Seen(heap, todo), answer' = answer PROVE UNCHANGED TQ!vars
    BY <1>1 DEF TQ!vars, Seen
<1>2. CASE Up
    <2>1. CASE AboveParent(k)
        <3>1. k \in 1..Len(heap) /\ Parent(k) \in 1..Len(heap)
            BY <1>0, <1>2, <2>1, ParentType DEF Up, AboveParent, Parent
        <3> QED BY <1>1, <1>2, <2>1, <3>1, BagSwap DEF Up, Seen
    <2>2. CASE ~AboveParent(k)
        BY <1>1, <1>2, <2>2 DEF Up, Seen
    <2> QED BY <2>1, <2>2
<1>3. CASE Pop
    <2>1. CASE heap = <<>>
        <3>1. Seen(heap, todo) = EmptyQueue /\ heap' = heap /\ todo' = todo
              /\ answer' = TQ!Returned("pop", {})
            BY <1>3, <2>1, SeenAlone, EmptyBag DEF Pop
        <3>2. TQ!Pop
            BY <3>1, SameOperators DEF TQ!Pop, Seen, IsEmptyQueue, InQueue, EmptyQueue
        <3> QED BY <3>2 DEF TQ!Next
    <2>2. CASE heap # <<>>
        <3>1. 1 \in 1..Len(heap) /\ Len(heap) \in 1..Len(heap)
            BY <1>0, <2>2, EmptySeq
        <3> QED BY <1>1, <1>3, <2>2, <3>1, BagSwap DEF Pop, Seen
    <2> QED BY <2>1, <2>2
<1>4. CASE Down
    <2>0. PICK n : n = Len(heap) - 1
        OBVIOUS
    <2>1. n \in Nat /\ k \in Nat \ {0} /\ n <= Len(heap) /\ LastIsLeast(heap) /\ Len(heap) \in 1..Len(heap)
        BY <1>0, <1>4, <2>0 DEF Down, OrderInv
    <2>2. CASE BelowChild(k, n)
        <3>1. LesserChild(k, n) \in 1..Len(heap) /\ k \in 1..Len(heap)
            <4>1. 2 * k <= n
                BY <2>2 DEF BelowChild
            <4>2. LesserChild(k, n) \in 2..n
                BY <2>1, <4>1, LesserChildType
            <4> QED BY <1>0, <1>4, <2>1, <4>2 DEF Down
        <3> QED BY <1>1, <1>4, <2>0, <2>2, <3>1, BagSwap DEF Down, Seen
    <2>3. CASE ~BelowChild(k, n)
        <3>1. PICK t : t = heap[Len(heap)]
            OBVIOUS
        <3>2. /\ heap' = SubSeq(heap, 1, n) /\ answer' = TQ!Returned("pop", {t})
              /\ todo = <<>> /\ todo' = <<>> /\ t \in Task
            BY <1>4, <2>0, <2>1, <2>3, <3>1, ElementOfSeq DEF Down, PoppedTask
        <3>3. heap' \in Seq(Task) /\ Len(heap') = n /\ \A i \in 1..n : heap'[i] = heap[i]
            <4>1. \A i \in 1..n : heap[i] \in Task
                BY <1>0, <2>0, <2>1, ElementOfSeq
            <4> QED BY <2>1, <3>2, <4>1, SubSeqProperties
        <3>4. BagOfSeq(heap) = PushTask(BagOfSeq(heap'), t)
            <4>1. PICK s : s = heap'
                OBVIOUS
            <4> QED BY <1>0, <2>0, <3>1, <3>3, <4>1, BagAppend
        <3>5. BagOfSeq(heap') = PopTask(BagOfSeq(heap), t)
            <4>1. BagOfSeq(heap') \in [Task -> Nat]
                <5>1. PICK s : s = heap'
                    OBVIOUS
                <5> QED BY <3>3, <5>1, BagCounts DEF Queue
            <4> QED BY <3>2, <3>4, <4>1 DEF PushTask, PopTask
        <3>6. IsTop(BagOfSeq(heap), t)
            BY <2>1, <3>1, TopOfHeap DEF LastIsLeast
        <3>7. Seen(heap, todo) = BagOfSeq(heap) /\ Seen(heap', todo') = BagOfSeq(heap')
            <4>1. PICK s : s = heap'
                OBVIOUS
            <4> QED BY <3>2, <3>3, <4>1, SeenAlone
        <3>8. TQ!Pop
            BY <3>2, <3>5, <3>6, <3>7, SameOperators DEF TQ!Pop, Seen
        <3> QED BY <3>8 DEF TQ!Next
    <2> QED BY <2>2, <2>3
<1>5. CASE Peek
    <2>1. /\ UNCHANGED <<heap, todo>> /\ Seen(heap, todo) = BagOfSeq(heap)
          /\ answer' = TQ!Returned("peek", IF heap = <<>> THEN {} ELSE {heap[1]})
        BY <1>5, SeenAlone DEF Peek
    <2>2. CASE heap = <<>>
        <3>1. IsEmptyQueue(BagOfSeq(heap))
            BY <2>2, EmptyBag DEF IsEmptyQueue, InQueue, EmptyQueue
        <3>2. TQ!Peek
            BY <2>1, <2>2, <3>1, SameOperators DEF TQ!Peek, Seen
        <3> QED BY <3>2 DEF TQ!Next
    <2>3. CASE heap # <<>>
        <3>1. 1 \in 1..Len(heap)
            BY <1>0, <2>3, EmptySeq
        <3>2. heap[1] \in Task /\ IsTop(BagOfSeq(heap), heap[1])
            BY <1>5, <3>1, RootIsLeast, TopOfHeap, ElementOfSeq DEF Peek, OrderInv
        <3>3. TQ!Peek
            BY <2>1, <2>3, <3>2, SameOperators DEF TQ!Peek, Seen
        <3> QED BY <3>3 DEF TQ!Next
    <2> QED BY <2>2, <2>3
<1>6. CASE Clear
    <2>1. Seen(heap', todo') = EmptyQueue /\ answer' = TQ!Done
        <3>1. heap' = <<>> /\ todo' = <<>> /\ answer' = TQ!Done
            BY <1>6 DEF Clear
        <3>2. Seen(<<>>, <<>>) = EmptyQueue
            BY EmptySeq, EmptyBag, SeenAlone
        <3> QED BY <3>1, <3>2
    <2>2. TQ!Clear
        BY <2>1, SameOperators DEF TQ!Clear, Seen
    <2> QED BY <2>2 DEF TQ!Next
<1>7. CASE Load
    <2>1. PICK u \in Inputs \cup {heap} : todo' = u
        BY <1>7 DEF Load
    <2>2. u \in Seq(Task) /\ heap' = <<>> /\ answer' = TQ!Done /\ todo = <<>>
        BY <1>7, <2>1, InputsAssumption DEF Load
    <2>3. Seen(heap', todo') = BagOfSeq(u) /\ Seen(heap, todo) = BagOfSeq(heap)
        <3>1. Seen(<<>>, u) = BagOfSeq(u)
            BY <2>2, SeenAlone
        <3> QED BY <2>1, <2>2, <3>1, SeenAlone
    <2>4. TQ!Load
        BY <2>1, <2>2, <2>3 DEF TQ!Load, Seen
    <2> QED BY <2>4 DEF TQ!Next
<1>8. CASE LoadNext
    <2>1. /\ todo # <<>> /\ StartPush(Head(todo)) /\ todo' = Tail(todo) /\ answer' = answer
          /\ Head(todo) \in Task /\ Tail(todo) \in Seq(Task)
        BY <1>8, HeadTailProperties DEF LoadNext
    <2>2. PICK u \in Seq(Task), t \in Task : u = Tail(todo) /\ t = Head(todo)
        BY <2>1
    <2>3. Seen(heap', u) = PushTask(Seen(heap, u), t)
        BY <2>1, <2>2, SeenPushed
    <2>4. BagOfSeq(todo) = PushTask(BagOfSeq(u), t)
        BY <2>1, <2>2, BagTail
    <2>5. BagOfSeq(heap) \in [Task -> Nat] /\ BagOfSeq(u) \in [Task -> Nat]
        BY BagCounts DEF Queue
    <2>6. PushTask(Seen(heap, u), t) = Seen(heap, todo)
        <3>1. Seen(heap, todo) = [v \in Task |-> BagOfSeq(heap)[v] + PushTask(BagOfSeq(u), t)[v]]
            BY <2>4 DEF Seen
        <3>2. PushTask(Seen(heap, u), t) = [v \in Task |-> BagOfSeq(heap)[v] + PushTask(BagOfSeq(u), t)[v]]
            BY <2>5, PushSeen DEF Seen
        <3> QED BY <3>1, <3>2
    <2> QED BY <1>1, <2>1, <2>2, <2>3, <2>6
<1>9. ASSUME NEW t \in Task, Push(t) PROVE TQ!Next
    <2>1. StartPush(t) /\ todo' = todo /\ answer' = TQ!Done
        BY <1>9 DEF Push
    <2>2. Seen(heap', todo) = PushTask(Seen(heap, todo), t)
        BY <2>1, SeenPushed
    <2>3. TQ!Push(t)
        BY <2>1, <2>2, SameOperators DEF TQ!Push, Seen
    <2> QED BY <2>3 DEF TQ!Next
<1>10. CASE UNCHANGED vars
    BY <1>1, <1>10 DEF vars, Seen
<1> QED BY <1>2, <1>3, <1>4, <1>5, <1>6, <1>7, <1>8, <1>9, <1>10 DEF Next

\* A user of TaskQueue cannot tell the heap under its mutex from a bag that always gives
\* a least task (tqueue.go:62-239).
THEOREM HeapImplementsQueue == Spec => ImplementsTaskQueue
<1>1. Init => TQ!Init
    <2> SUFFICES ASSUME Init PROVE TQ!Init
        OBVIOUS
    <2>1. Seen(<<>>, <<>>) = EmptyQueue
        BY EmptySeq, EmptyBag, SeenAlone
    <2> QED BY <2>1, SameOperators DEF Init, TQ!Init, Seen
<1> QED BY <1>1, Simulation, OrderInvariant, PTL DEF Spec, TQ!Spec, ImplementsTaskQueue
=============================================================================
