----------------------------- MODULE TidyProofs -----------------------------
(***************************************************************************)
(* Theorems about Tidy, for every set of specifications, contents of       *)
(* sys/<os>, and number of writes that fail or are cut short.              *)
(***************************************************************************)
EXTENDS Tidy, SequenceTheorems, FiniteSetTheorems, WellFoundedInduction, NaturalsInduction, TLAPS

-----------------------------------------------------------------------------
(***************************************************************************)
(* Induction, over a set of numbers.                                       *)
(***************************************************************************)
LEMMA LeastOf ==
    ASSUME NEW S, S \subseteq Nat, S # {}
    PROVE  \E m \in S : \A n \in S : m <= n
<1>1. \E m \in S : \A n \in S : ~(<<n, m>> \in OpToRel(<, Nat))
    BY WFMin, NatLessThanWellFounded
<1>2. PICK m \in S : \A n \in S : ~(<<n, m>> \in OpToRel(<, Nat))
    BY <1>1
<1>3. ASSUME NEW n \in S PROVE m <= n
    <2>1. <<n, m>> \in Nat \X Nat => ~(n < m)
        BY <1>2 DEF OpToRel
    <2> QED BY <2>1
<1> QED BY <1>3

LEMMA UpTo ==
    ASSUME NEW N \in Nat, NEW S, 0 \in S, \A n \in 0..N : n \in S /\ n < N => n + 1 \in S
    PROVE  0..N \subseteq S
<1> DEFINE rest == (0..N) \ S
<1> SUFFICES ASSUME rest # {} PROVE FALSE
    OBVIOUS
<1>1. PICK m \in rest : \A n \in rest : m <= n
    <2>1. rest \subseteq Nat
        OBVIOUS
    <2> HIDE DEF rest
    <2> QED BY <2>1, LeastOf
<1>2. m \in 1..N
    BY <1>1
<1>3. m - 1 \in 0..N /\ m - 1 \notin rest
    BY <1>1, <1>2
<1>4. m - 1 \in S /\ m - 1 < N /\ (m - 1) + 1 = m
    BY <1>2, <1>3
<1> QED BY <1>1, <1>3, <1>4

LEMMA GreatestOf ==
    ASSUME NEW N \in Nat, NEW S, S \subseteq 1..N, S # {}
    PROVE  \E m \in S : \A n \in S : n <= m
<1> DEFINE R == {N - n : n \in S}
<1>1. PICK r \in R : \A q \in R : r <= q
    <2>1. R \subseteq Nat /\ R # {}
        <3>1. \A n \in S : N - n \in Nat
            OBVIOUS
        <3> QED BY <3>1
    <2> HIDE DEF R
    <2> QED BY <2>1, LeastOf
<1>2. PICK m \in S : r = N - m
    OBVIOUS
<1>3. ASSUME NEW n \in S PROVE n <= m
    <2>1. N - m <= N - n
        BY <1>1, <1>2
    <2>2. m \in Nat /\ n \in Nat
        OBVIOUS
    <2> HIDE DEF R
    <2> QED BY <2>1, <2>2
<1> QED BY <1>3

-----------------------------------------------------------------------------
(***************************************************************************)
(* Only                                                                    *)
(***************************************************************************)
PassedBy(s, A, n, p) ==
    p = [i \in 0..n |-> IF i = 0 THEN <<>>
                        ELSE IF s[i] \in A THEN Append(p[i - 1], s[i]) ELSE p[i - 1]]

Passed(s, A) == CHOOSE p : PassedBy(s, A, Len(s), p)

LEMMA OnlyIsPassed == \A s, A : Only(s, A) = Passed(s, A)[Len(s)]
BY DEF Only, Passed, PassedBy

LEMMA PassedExists ==
    ASSUME NEW s, NEW A, NEW N \in Nat
    PROVE  \E p : PassedBy(s, A, N, p)
<1> DEFINE S == {n \in 0..N : \E p : PassedBy(s, A, n, p)}
<1>1. 0 \in S
    <2>1. PassedBy(s, A, 0, [i \in 0..0 |-> <<>>])
        BY DEF PassedBy
    <2> QED BY <2>1
<1>2. ASSUME NEW n \in 0..N, n \in S, n < N PROVE n + 1 \in S
    <2>1. PICK p : PassedBy(s, A, n, p)
        BY <1>2
    <2> DEFINE q == [i \in 0..(n + 1) |->
                        IF i <= n THEN p[i]
                        ELSE IF s[n + 1] \in A THEN Append(p[n], s[n + 1]) ELSE p[n]]
    <2>2. ASSUME NEW i \in 0..(n + 1)
          PROVE  q[i] = IF i = 0 THEN <<>> ELSE IF s[i] \in A THEN Append(q[i - 1], s[i]) ELSE q[i - 1]
        <3>1. CASE i = 0
            BY <2>1, <3>1 DEF PassedBy
        <3>2. CASE i \in 1..n
            <4>1. i - 1 \in 0..n /\ i \in 0..n /\ i # 0
                BY <3>2
            <4>2. p[i] = IF s[i] \in A THEN Append(p[i - 1], s[i]) ELSE p[i - 1]
                BY <2>1, <4>1 DEF PassedBy
            <4>3. q[i] = p[i] /\ q[i - 1] = p[i - 1]
                BY <4>1
            <4> QED BY <4>1, <4>2, <4>3
        <3>3. CASE i = n + 1
            <4>1. q[n] = p[n] /\ i - 1 = n /\ i # 0 /\ ~(i <= n)
                BY <3>3
            <4> QED BY <3>3, <4>1
        <3> QED BY <3>1, <3>2, <3>3
    <2>3. PassedBy(s, A, n + 1, q)
        BY <2>2 DEF PassedBy
    <2> QED BY <2>3
<1> HIDE DEF S
<1>3. N \in S
    BY <1>1, <1>2, UpTo
<1> QED BY <1>3 DEF S

LEMMA PassedIs ==
    ASSUME NEW s, NEW A, Len(s) \in Nat
    PROVE  /\ Passed(s, A)[0] = <<>>
           /\ \A i \in 1..Len(s) :
                 Passed(s, A)[i] = IF s[i] \in A THEN Append(Passed(s, A)[i - 1], s[i]) ELSE Passed(s, A)[i - 1]
<1>1. PassedBy(s, A, Len(s), Passed(s, A))
    BY PassedExists DEF Passed
<1> DEFINE p == Passed(s, A)
<1> HIDE DEF p
<1>2. p = [i \in 0..Len(s) |-> IF i = 0 THEN <<>>
                               ELSE IF s[i] \in A THEN Append(p[i - 1], s[i]) ELSE p[i - 1]]
    BY <1>1 DEF PassedBy, p
<1>3. \A i \in 0..Len(s) : p[i] = IF i = 0 THEN <<>>
                                  ELSE IF s[i] \in A THEN Append(p[i - 1], s[i]) ELSE p[i - 1]
    BY <1>2, Zenon
<1>4. 0 \in 0..Len(s) /\ \A i \in 1..Len(s) : i \in 0..Len(s) /\ i # 0
    OBVIOUS
<1>5. p[0] = <<>> /\ \A i \in 1..Len(s) : p[i] = IF s[i] \in A THEN Append(p[i - 1], s[i]) ELSE p[i - 1]
    BY <1>3, <1>4
<1> QED BY <1>5 DEF p

LEMMA OnlyNone == \A A : Only(<<>>, A) = <<>>
BY OnlyIsPassed, PassedIs

LEMMA PassedType ==
    ASSUME NEW S, NEW s \in Seq(S), NEW A
    PROVE  \A i \in 0..Len(s) : Passed(s, A)[i] \in Seq(S)
<1> DEFINE p == Passed(s, A)
           R == {i \in 0..Len(s) : p[i] \in Seq(S)}
<1>1. p[0] = <<>> /\ \A i \in 1..Len(s) : p[i] = IF s[i] \in A THEN Append(p[i - 1], s[i]) ELSE p[i - 1]
    BY PassedIs
<1>2. \A i \in 1..Len(s) : s[i] \in S
    OBVIOUS
<1> HIDE DEF p
<1>3. 0 \in R
    <2>1. 0 \in 0..Len(s) /\ <<>> \in Seq(S)
        OBVIOUS
    <2> QED BY <1>1, <2>1
<1>4. ASSUME NEW i \in 0..Len(s), i \in R, i < Len(s) PROVE i + 1 \in R
    <2>1. i + 1 \in 1..Len(s) /\ (i + 1) - 1 = i
        BY <1>4
    <2>2. p[i + 1] = IF s[i + 1] \in A THEN Append(p[i], s[i + 1]) ELSE p[i]
        BY <1>1, <2>1
    <2>3. p[i] \in Seq(S) /\ s[i + 1] \in S
        BY <1>2, <1>4, <2>1
    <2>4. p[i + 1] \in Seq(S)
        BY <2>2, <2>3
    <2>5. i + 1 \in 0..Len(s)
        BY <2>1
    <2> QED BY <2>4, <2>5
<1> HIDE DEF R
<1>5. 0..Len(s) \subseteq R
    BY <1>3, <1>4, UpTo
<1> QED BY <1>5 DEF R, p

LEMMA OnlyType ==
    ASSUME NEW S, NEW s \in Seq(S), NEW A
    PROVE  Only(s, A) \in Seq(S)
<1>1. Len(s) \in 0..Len(s)
    OBVIOUS
<1> QED BY <1>1, PassedType, OnlyIsPassed

\* A sequence that begins like s passes the same nodes until s is at its end.
LEMMA PassedPrefix ==
    ASSUME NEW S, NEW s \in Seq(S), NEW u \in Seq(S), NEW A, NEW B, Len(s) <= Len(u),
           \A i \in 1..Len(s) : u[i] = s[i] /\ (s[i] \in A <=> s[i] \in B)
    PROVE  \A i \in 0..Len(s) : Passed(u, B)[i] = Passed(s, A)[i]
<1> DEFINE p == Passed(s, A)
           q == Passed(u, B)
           R == {i \in 0..Len(s) : q[i] = p[i]}
<1>1. /\ p[0] = <<>> /\ \A i \in 1..Len(s) : p[i] = IF s[i] \in A THEN Append(p[i - 1], s[i]) ELSE p[i - 1]
      /\ q[0] = <<>> /\ \A i \in 1..Len(u) : q[i] = IF u[i] \in B THEN Append(q[i - 1], u[i]) ELSE q[i - 1]
    BY PassedIs
<1> HIDE DEF p, q
<1>2. Len(s) \in Nat /\ Len(u) \in Nat
    OBVIOUS
<1>3. 0 \in R
    BY <1>1, <1>2
<1>4. ASSUME NEW i \in 0..Len(s), i \in R, i < Len(s) PROVE i + 1 \in R
    <2>1. i + 1 \in 1..Len(s) /\ i + 1 \in 1..Len(u) /\ (i + 1) - 1 = i /\ i + 1 \in 0..Len(s)
        BY <1>2, <1>4
    <2>2. /\ p[i + 1] = IF s[i + 1] \in A THEN Append(p[i], s[i + 1]) ELSE p[i]
          /\ q[i + 1] = IF u[i + 1] \in B THEN Append(q[i], u[i + 1]) ELSE q[i]
        BY <1>1, <2>1
    <2>3. q[i + 1] = p[i + 1]
        BY <1>4, <2>1, <2>2
    <2> QED BY <2>1, <2>3
<1> HIDE DEF R
<1>5. 0..Len(s) \subseteq R
    BY <1>2, <1>3, <1>4, UpTo
<1> QED BY <1>5 DEF R, p, q

\* What is passed depends only on which nodes of the sequence are in the set.
LEMMA OnlySame ==
    ASSUME NEW S, NEW s \in Seq(S), NEW A, NEW B, \A x \in ToSet(s) : x \in A <=> x \in B
    PROVE  Only(s, A) = Only(s, B)
<1>1. Len(s) \in Nat /\ \A i \in 1..Len(s) : s[i] \in A <=> s[i] \in B
    BY DEF ToSet
<1> QED BY <1>1, PassedPrefix, OnlyIsPassed

LEMMA OnlyAppend ==
    ASSUME NEW S, NEW s \in Seq(S), NEW x \in S, NEW A
    PROVE  Only(Append(s, x), A) = IF x \in A THEN Append(Only(s, A), x) ELSE Only(s, A)
<1>1. PICK u \in Seq(S) : u = Append(s, x)
    BY AppendProperties
<1>2. /\ Len(s) \in Nat /\ Len(u) = Len(s) + 1 /\ u[Len(u)] = x
      /\ \A i \in 1..Len(s) : u[i] = s[i]
    BY <1>1, AppendProperties, LenProperties
<1>3. Passed(u, A)[Len(s)] = Passed(s, A)[Len(s)]
    BY <1>2, PassedPrefix
<1>4. Passed(u, A)[Len(u)] = IF u[Len(u)] \in A THEN Append(Passed(u, A)[Len(u) - 1], u[Len(u)])
                             ELSE Passed(u, A)[Len(u) - 1]
    <2>1. Len(u) \in Nat /\ Len(u) \in 1..Len(u)
        BY <1>2
    <2> QED BY <2>1, PassedIs
<1>5. Len(u) - 1 = Len(s)
    BY <1>2
<1> QED BY <1>1, <1>2, <1>3, <1>4, <1>5, OnlyIsPassed

\* The beginnings of s, one by one.
LEMMA PrefixSteps ==
    ASSUME NEW S, NEW s \in Seq(S)
    PROVE  /\ SubSeq(s, 1, 0) = <<>> /\ SubSeq(s, 1, Len(s)) = s
           /\ \A i \in 0..Len(s) : SubSeq(s, 1, i) \in Seq(S) /\ Len(SubSeq(s, 1, i)) = i
           /\ \A i \in 0..Len(s) : i < Len(s) => SubSeq(s, 1, i + 1) = Append(SubSeq(s, 1, i), s[i + 1])
BY SMT

LEMMA ToSetAppend ==
    ASSUME NEW S, NEW s \in Seq(S), NEW x \in S
    PROVE  ToSet(Append(s, x)) = ToSet(s) \cup {x}
BY AppendProperties DEF ToSet

\* Induction, over the sequences of a set.
LEMMA EverySequence ==
    ASSUME NEW S, NEW R, <<>> \in R, \A t \in Seq(S), x \in S : t \in R => Append(t, x) \in R
    PROVE  Seq(S) \subseteq R
<1> SUFFICES ASSUME NEW s \in Seq(S) PROVE s \in R
    OBVIOUS
<1> DEFINE P == {i \in 0..Len(s) : SubSeq(s, 1, i) \in R}
<1>1. Len(s) \in Nat /\ \A i \in 1..Len(s) : s[i] \in S
    OBVIOUS
<1>2. 0 \in P
    <2>1. SubSeq(s, 1, 0) \in R /\ 0 \in 0..Len(s)
        <3>1. SubSeq(s, 1, 0) = <<>>
            BY PrefixSteps
        <3>2. SubSeq(s, 1, 0) \in R
            BY <3>1, Zenon
        <3>3. 0 \in 0..Len(s)
            BY <1>1
        <3> QED BY <3>2, <3>3
    <2> QED BY <2>1
<1>3. ASSUME NEW i \in 0..Len(s), i \in P, i < Len(s) PROVE i + 1 \in P
    <2>1. i + 1 \in 1..Len(s) /\ i + 1 \in 0..Len(s)
        BY <1>1, <1>3
    <2>2. SubSeq(s, 1, i) \in Seq(S) /\ SubSeq(s, 1, i + 1) = Append(SubSeq(s, 1, i), s[i + 1])
        BY <1>3, PrefixSteps
    <2> QED BY <1>1, <1>3, <2>1, <2>2
<1> HIDE DEF P
<1>4. 0..Len(s) \subseteq P
    BY <1>1, <1>2, <1>3, UpTo
<1>5. SubSeq(s, 1, Len(s)) \in R
    BY <1>1, <1>4 DEF P
<1> QED BY <1>5, PrefixSteps

LEMMA OnlyNodes ==
    ASSUME NEW S, NEW s \in Seq(S), NEW A
    PROVE  ToSet(Only(s, A)) = ToSet(s) \cap A
<1> DEFINE R == {t \in Seq(S) : ToSet(Only(t, A)) = ToSet(t) \cap A}
<1>1. <<>> \in R
    BY OnlyNone DEF ToSet
<1>2. ASSUME NEW t \in Seq(S), NEW x \in S, t \in R PROVE Append(t, x) \in R
    <2>1. Only(t, A) \in Seq(S) /\ Append(t, x) \in Seq(S)
        BY OnlyType, AppendProperties
    <2>2. ToSet(Append(t, x)) = ToSet(t) \cup {x}
        BY ToSetAppend
    <2>3. ToSet(Append(Only(t, A), x)) = ToSet(Only(t, A)) \cup {x}
        BY <2>1, ToSetAppend
    <2>4. Only(Append(t, x), A) = IF x \in A THEN Append(Only(t, A), x) ELSE Only(t, A)
        BY OnlyAppend
    <2>5. ToSet(Only(t, A)) = ToSet(t) \cap A
        BY <1>2
    <2>6. ToSet(Only(Append(t, x), A)) = ToSet(Append(t, x)) \cap A
        <3>1. CASE x \in A
            BY <2>2, <2>3, <2>4, <2>5, <3>1
        <3>2. CASE x \notin A
            BY <2>2, <2>4, <2>5, <3>2
        <3> QED BY <3>1, <3>2
    <2> QED BY <2>1, <2>6
<1> HIDE DEF R
<1>3. s \in R
    BY <1>1, <1>2, EverySequence
<1> QED BY <1>3 DEF R

LEMMA OnlyOnly ==
    ASSUME NEW S, NEW s \in Seq(S), NEW A, NEW B
    PROVE  Only(Only(s, A), B) = Only(s, A \cap B)
<1> DEFINE R == {t \in Seq(S) : Only(Only(t, A), B) = Only(t, A \cap B)}
<1>1. <<>> \in R
    BY OnlyNone
<1>2. ASSUME NEW t \in Seq(S), NEW x \in S, t \in R PROVE Append(t, x) \in R
    <2>1. Only(t, A) \in Seq(S) /\ Append(t, x) \in Seq(S)
        BY OnlyType, AppendProperties
    <2>2. Only(Append(t, x), A) = IF x \in A THEN Append(Only(t, A), x) ELSE Only(t, A)
        BY OnlyAppend
    <2>3. Only(Append(t, x), A \cap B) = IF x \in A \cap B THEN Append(Only(t, A \cap B), x) ELSE Only(t, A \cap B)
        BY OnlyAppend
    <2>4. Only(Append(Only(t, A), x), B) = IF x \in B THEN Append(Only(Only(t, A), B), x) ELSE Only(Only(t, A), B)
        BY <2>1, OnlyAppend
    <2>5. Only(Only(t, A), B) = Only(t, A \cap B)
        BY <1>2
    <2>6. Only(Only(Append(t, x), A), B) = Only(Append(t, x), A \cap B)
        <3>1. CASE x \in A
            <4>1. Only(Only(Append(t, x), A), B) = Only(Append(Only(t, A), x), B)
                BY <2>2, <3>1
            <4>2. x \in A \cap B <=> x \in B
                BY <3>1
            <4> QED BY <2>3, <2>4, <2>5, <4>1, <4>2
        <3>2. CASE x \notin A
            BY <2>2, <2>3, <2>5, <3>2
        <3> QED BY <3>1, <3>2
    <2> QED BY <2>1, <2>6
<1> HIDE DEF R
<1>3. s \in R
    BY <1>1, <1>2, EverySequence
<1> QED BY <1>3 DEF R

\* What follows a sequence and is not in the set does not show.
LEMMA OnlyBefore ==
    ASSUME NEW S, NEW s \in Seq(S), NEW more \in Seq(S), NEW A, ToSet(more) \cap A = {}
    PROVE  Only(s \o more, A) = Only(s, A)
<1> DEFINE R == {t \in Seq(S) : ToSet(t) \cap A = {} => Only(s \o t, A) = Only(s, A)}
<1>1. <<>> \in R
    <2>1. s \o <<>> = s
        OBVIOUS
    <2> QED BY <2>1
<1>2. ASSUME NEW t \in Seq(S), NEW x \in S, t \in R PROVE Append(t, x) \in R
    <2>1. s \o t \in Seq(S) /\ Append(t, x) \in Seq(S) /\ s \o Append(t, x) = Append(s \o t, x)
        BY SMT
    <2>2. ToSet(Append(t, x)) = ToSet(t) \cup {x}
        BY ToSetAppend
    <2>3. Only(Append(s \o t, x), A) = IF x \in A THEN Append(Only(s \o t, A), x) ELSE Only(s \o t, A)
        BY <2>1, OnlyAppend
    <2> QED BY <1>2, <2>1, <2>2, <2>3
<1> HIDE DEF R
<1>3. more \in R
    BY <1>1, <1>2, EverySequence
<1> QED BY <1>3 DEF R

LEMMA OnlyAll ==
    ASSUME NEW S, NEW s \in Seq(S), NEW A, ToSet(s) \subseteq A
    PROVE  Only(s, A) = s
<1> DEFINE R == {t \in Seq(S) : ToSet(t) \subseteq A => Only(t, A) = t}
<1>1. <<>> \in R
    BY OnlyNone
<1>2. ASSUME NEW t \in Seq(S), NEW x \in S, t \in R PROVE Append(t, x) \in R
    <2>1. Append(t, x) \in Seq(S)
        BY AppendProperties
    <2>2. ToSet(Append(t, x)) = ToSet(t) \cup {x}
        BY ToSetAppend
    <2> QED BY <1>2, <2>1, <2>2, OnlyAppend
<1> HIDE DEF R
<1>3. s \in R
    BY <1>1, <1>2, EverySequence
<1> QED BY <1>3 DEF R

-----------------------------------------------------------------------------
(***************************************************************************)
(* What a call leads to: the least set that has the calls, and whatever is *)
(* led to from one of its nodes.                                           *)
(***************************************************************************)
CallsOf(N) == {n \in N : n.kind = "call"}

Widen(r, N) == r \cup {n \in N : /\ n.kind # "call" /\ Defines(n)
                                 /\ \E u \in r : n.name \in Leads(u)}

ReachedBy(N, m, f) ==
    f = [k \in 0..m |-> IF k = 0 THEN {n \in N : n.kind = "call"}
                        ELSE UNION {Widen(r, N) : r \in {f[k - 1]}}]

Reached(N) == CHOOSE f : ReachedBy(N, Cardinality(N), f)

LEMMA UsedIsReached == \A N : UsedIn(N) = Reached(N)[Cardinality(N)]
BY DEF UsedIn, Reached, ReachedBy, Widen

LEMMA ReachedExists ==
    ASSUME NEW N, NEW M \in Nat
    PROVE  \E f : ReachedBy(N, M, f)
<1> DEFINE S == {m \in 0..M : \E f : ReachedBy(N, m, f)}
<1>1. 0 \in S
    <2>1. ReachedBy(N, 0, [k \in 0..0 |-> {n \in N : n.kind = "call"}])
        BY DEF ReachedBy
    <2> QED BY <2>1
<1>2. ASSUME NEW m \in 0..M, m \in S, m < M PROVE m + 1 \in S
    <2>1. PICK f : ReachedBy(N, m, f)
        BY <1>2
    <2> DEFINE g == [k \in 0..(m + 1) |-> IF k <= m THEN f[k] ELSE Widen(f[m], N)]
    <2>2. ASSUME NEW k \in 0..(m + 1)
          PROVE  g[k] = IF k = 0 THEN {n \in N : n.kind = "call"} ELSE UNION {Widen(r, N) : r \in {g[k - 1]}}
        <3>1. CASE k = 0
            BY <2>1, <3>1 DEF ReachedBy
        <3>2. CASE k \in 1..m
            <4>1. k - 1 \in 0..m /\ k \in 0..m /\ k # 0
                BY <3>2
            <4>2. f[k] = UNION {Widen(r, N) : r \in {f[k - 1]}}
                BY <2>1, <4>1 DEF ReachedBy
            <4>3. g[k] = f[k] /\ g[k - 1] = f[k - 1]
                BY <4>1
            <4> QED BY <4>1, <4>2, <4>3
        <3>3. CASE k = m + 1
            <4>1. g[m] = f[m] /\ k - 1 = m /\ k # 0 /\ ~(k <= m)
                BY <3>3
            <4>2. g[k] = Widen(g[k - 1], N)
                BY <3>3, <4>1
            <4> HIDE DEF g
            <4>3. UNION {Widen(r, N) : r \in {g[k - 1]}} = Widen(g[k - 1], N)
                OBVIOUS
            <4> QED BY <4>1, <4>2, <4>3
        <3> QED BY <3>1, <3>2, <3>3
    <2>3. ReachedBy(N, m + 1, g)
        BY <2>2 DEF ReachedBy
    <2>4. \E h : ReachedBy(N, m + 1, h)
        BY <2>3
    <2>5. m + 1 \in 0..M
        BY <1>2
    <2> QED BY <2>4, <2>5
<1> HIDE DEF S
<1>3. M \in S
    BY <1>1, <1>2, UpTo
<1> QED BY <1>3 DEF S

LEMMA ReachedIs ==
    ASSUME NEW N, IsFiniteSet(N)
    PROVE  /\ Reached(N)[0] = CallsOf(N)
           /\ \A k \in 1..Cardinality(N) : Reached(N)[k] = Widen(Reached(N)[k - 1], N)
<1> DEFINE f == Reached(N)
<1>0. Cardinality(N) \in Nat
    BY FS_CardinalityType
<1>1. ReachedBy(N, Cardinality(N), f)
    BY <1>0, ReachedExists DEF Reached
<1> HIDE DEF f
<1>2. f = [k \in 0..Cardinality(N) |-> IF k = 0 THEN {n \in N : n.kind = "call"}
                                       ELSE UNION {Widen(r, N) : r \in {f[k - 1]}}]
    BY <1>1 DEF ReachedBy
<1>3. \A k \in 0..Cardinality(N) : f[k] = IF k = 0 THEN {n \in N : n.kind = "call"}
                                          ELSE UNION {Widen(r, N) : r \in {f[k - 1]}}
    BY <1>2, Zenon
<1>4. 0 \in 0..Cardinality(N) /\ \A k \in 1..Cardinality(N) : k \in 0..Cardinality(N) /\ k # 0
    BY <1>0
<1>5. f[0] = CallsOf(N)
    BY <1>3, <1>4 DEF CallsOf
<1>6. ASSUME NEW k \in 1..Cardinality(N) PROVE f[k] = Widen(f[k - 1], N)
    <2>1. f[k] = UNION {Widen(r, N) : r \in {f[k - 1]}}
        BY <1>3, <1>4
    <2>2. UNION {Widen(r, N) : r \in {f[k - 1]}} = Widen(f[k - 1], N)
        OBVIOUS
    <2> QED BY <2>1, <2>2
<1> QED BY <1>5, <1>6 DEF f

\* It is the least such set ...
LEMMA UsedIsLeast ==
    ASSUME NEW N, IsFiniteSet(N), NEW C, CallsOf(N) \subseteq C, Widen(C, N) \subseteq C
    PROVE  UsedIn(N) \subseteq C
<1> DEFINE f == Reached(N)
           S == {k \in 0..Cardinality(N) : f[k] \subseteq C}
<1>1. Cardinality(N) \in Nat /\ f[0] = CallsOf(N) /\ \A k \in 1..Cardinality(N) : f[k] = Widen(f[k - 1], N)
    BY ReachedIs, FS_CardinalityType
<1> HIDE DEF f
<1>2. 0 \in S
    BY <1>1
<1>3. ASSUME NEW k \in 0..Cardinality(N), k \in S, k < Cardinality(N) PROVE k + 1 \in S
    <2>1. k + 1 \in 1..Cardinality(N) /\ k + 1 \in 0..Cardinality(N) /\ (k + 1) - 1 = k
        BY <1>1, <1>3
    <2>2. f[k + 1] = Widen(f[k], N)
        BY <1>1, <2>1
    <2>3. Widen(f[k], N) \subseteq Widen(C, N)
        BY <1>3 DEF Widen
    <2> QED BY <2>1, <2>2, <2>3
<1> HIDE DEF S
<1>4. Cardinality(N) \in S
    BY <1>1, <1>2, <1>3, UpTo
<1> QED BY <1>4, UsedIsReached DEF S, f

\* ... and is reached in so many steps: each but the last adds a node.
LEMMA UsedIsClosed ==
    ASSUME NEW N, IsFiniteSet(N)
    PROVE  UsedIn(N) \subseteq N /\ CallsOf(N) \subseteq UsedIn(N) /\ Widen(UsedIn(N), N) = UsedIn(N)
<1> DEFINE f == Reached(N)
           S == {k \in 0..Cardinality(N) : /\ CallsOf(N) \subseteq f[k] /\ f[k] \subseteq N
                                           /\ Widen(f[k], N) = f[k] \/ Cardinality(f[k]) >= k}
<1>1. Cardinality(N) \in Nat /\ f[0] = CallsOf(N) /\ \A k \in 1..Cardinality(N) : f[k] = Widen(f[k - 1], N)
    BY ReachedIs, FS_CardinalityType
<1> HIDE DEF f
<1>2. 0 \in S
    <2>1. CallsOf(N) \subseteq N
        BY DEF CallsOf
    <2>2. Cardinality(f[0]) \in Nat
        BY <1>1, <2>1, FS_Subset, FS_CardinalityType
    <2> QED BY <1>1, <2>1, <2>2
<1>3. ASSUME NEW k \in 0..Cardinality(N), k \in S, k < Cardinality(N) PROVE k + 1 \in S
    <2>1. k + 1 \in 1..Cardinality(N) /\ k + 1 \in 0..Cardinality(N) /\ (k + 1) - 1 = k
        BY <1>1, <1>3
    <2>2. f[k + 1] = Widen(f[k], N)
        BY <1>1, <2>1
    <2>3. f[k] \subseteq f[k + 1] /\ f[k + 1] \subseteq N
        BY <1>3, <2>2 DEF Widen
    <2>4. CASE Widen(f[k], N) = f[k]
        BY <1>3, <2>1, <2>2, <2>3, <2>4
    <2>5. CASE Widen(f[k], N) # f[k]
        <3>1. IsFiniteSet(f[k + 1]) /\ IsFiniteSet(f[k])
            BY <2>3, FS_Subset
        <3>2. Cardinality(f[k]) <= Cardinality(f[k + 1]) /\ Cardinality(f[k]) # Cardinality(f[k + 1])
            <4>1. f[k] # f[k + 1]
                BY <2>2, <2>5
            <4>2. f[k] \in SUBSET f[k + 1]
                BY <2>3
            <4> QED BY <3>1, <4>1, <4>2, FS_Subset
        <3>3. Cardinality(f[k]) \in Nat /\ Cardinality(f[k + 1]) \in Nat /\ Cardinality(f[k]) >= k
            BY <1>3, <2>5, <3>1, FS_CardinalityType
        <3>4. Cardinality(f[k + 1]) >= k + 1
            BY <3>2, <3>3
        <3> QED BY <1>3, <2>1, <2>3, <3>4
    <2> QED BY <2>4, <2>5
<1> HIDE DEF S
<1>4. Cardinality(N) \in S
    BY <1>1, <1>2, <1>3, UpTo
<1> DEFINE u == f[Cardinality(N)]
<1>5. CallsOf(N) \subseteq u /\ u \subseteq N /\ (Widen(u, N) = u \/ Cardinality(u) >= Cardinality(N))
    BY <1>4 DEF S
<1>6. u = UsedIn(N)
    BY UsedIsReached DEF f
<1> HIDE DEF u
<1>7. CASE Cardinality(u) >= Cardinality(N)
    <2>1. u = N
        <3>1. IsFiniteSet(u) /\ Cardinality(u) <= Cardinality(N) /\ Cardinality(u) \in Nat
            BY <1>5, FS_Subset, FS_CardinalityType
        <3> QED BY <1>1, <1>5, <1>7, <3>1, FS_Subset
    <2> QED BY <1>5, <1>6, <2>1 DEF Widen
<1> QED BY <1>5, <1>6, <1>7

\* When nodes are taken out that no call leads to, the same nodes are led to.
LEMMA UsedAmong ==
    ASSUME NEW N, IsFiniteSet(N), NEW M, M \subseteq N, UsedIn(N) \subseteq M
    PROVE  UsedIn(N) \subseteq UsedIn(M)
<1>1. IsFiniteSet(M)
    BY FS_Subset
<1>2. UsedIn(M) \subseteq UsedIn(N)
    <2>1. CallsOf(M) \subseteq UsedIn(N)
        BY UsedIsClosed DEF CallsOf
    <2>2. Widen(UsedIn(N), M) \subseteq Widen(UsedIn(N), N)
        BY DEF Widen
    <2>3. Widen(UsedIn(N), M) \subseteq UsedIn(N)
        BY <2>2, UsedIsClosed
    <2> QED BY <1>1, <2>1, <2>3, UsedIsLeast
<1>3. CallsOf(N) \subseteq UsedIn(M)
    <2>1. CallsOf(N) \subseteq UsedIn(N)
        BY UsedIsClosed
    <2>2. CallsOf(N) \subseteq CallsOf(M)
        BY <2>1 DEF CallsOf
    <2> QED BY <1>1, <2>2, UsedIsClosed
<1>4. Widen(UsedIn(M), N) \subseteq UsedIn(M)
    <2>1. Widen(UsedIn(M), N) \subseteq Widen(UsedIn(N), N)
        BY <1>2 DEF Widen
    <2>2. Widen(UsedIn(M), N) \subseteq M
        BY <2>1, UsedIsClosed
    <2>3. Widen(UsedIn(M), N) \subseteq Widen(UsedIn(M), M)
        BY <2>2 DEF Widen
    <2> QED BY <1>1, <2>3, UsedIsClosed
<1> QED BY <1>3, <1>4, UsedIsLeast

-----------------------------------------------------------------------------
(***************************************************************************)
(* What the operations on texts return                                     *)
(***************************************************************************)
LEMMA DecidingIs ==
    ASSUME NEW nodes \in Seq(NodeSet), NEW name, Defining(nodes, name) # {}
    PROVE  Deciding(nodes, name) \in Defining(nodes, name)
<1>1. Len(nodes) \in Nat /\ Defining(nodes, name) \subseteq 1..Len(nodes)
    BY DEF Defining
<1>2. \E i \in Defining(nodes, name) : \A j \in Defining(nodes, name) : j <= i
    BY <1>1, GreatestOf
<1> QED BY <1>2 DEF Deciding

LEMMA NewNameType ==
    ASSUME NEW node \in NodeSet, NEW suffix \in Name
    PROVE  NewName(node, suffix) \in Name
<1>1. node.name \in Name /\ <<"_">> \in Name /\ <<"$">> \in Name
    <2>1. "_" \in Tokens /\ "$" \in Tokens
        BY TokensAssumption
    <2>2. \A T, x : x \in T => <<x>> \in Seq(T)
        OBVIOUS
    <2>3. node.name \in Name
        BY DEF NodeSet
    <2> QED BY <2>1, <2>2, <2>3 DEF Name
<1>2. \A a, b, c \in Name : a \o b \o c \in Name
    BY DEF Name
<1>3. node.name \o <<"_">> \o suffix \in Name /\ node.name \o <<"$">> \o suffix \in Name
    BY <1>1, <1>2
<1>4. FormatNewName(node.name, suffix) \in {node.name \o <<"_">> \o suffix, node.name \o <<"$">> \o suffix}
    BY DEF FormatNewName
<1> QED BY <1>3, <1>4 DEF NewName

LEMMA RenameType ==
    ASSUME NEW nodes \in Seq(NodeSet), NEW suffix \in Name, NEW name \in Name
    PROVE  Rename(nodes, suffix, name) \in Name
<1>1. CASE Defining(nodes, name) = {}
    BY <1>1 DEF Rename
<1>2. CASE Defining(nodes, name) # {}
    <2>1. Deciding(nodes, name) \in DOMAIN nodes
        BY <1>2, DecidingIs DEF Defining
    <2>2. nodes[Deciding(nodes, name)] \in NodeSet
        BY <2>1
    <2> QED BY <1>2, <2>2, NewNameType DEF Rename
<1> QED BY <1>1, <1>2

LEMMA UpdateNodeType ==
    ASSUME NEW nodes \in Seq(NodeSet), NEW suffix \in Name, NEW node \in NodeSet
    PROVE  /\ UpdateNode(nodes, suffix, node) \in NodeSet
           /\ UpdateNode(nodes, suffix, node).name =
                  IF Defines(node) THEN Rename(nodes, suffix, node.name) ELSE node.name
           /\ UpdateNode(nodes, suffix, node).refs =
                  [p \in DOMAIN node.refs |-> Rename(nodes, suffix, node.refs[p])]
<1> DEFINE name == IF Defines(node) THEN Rename(nodes, suffix, node.name) ELSE node.name
           refs == [p \in DOMAIN node.refs |-> Rename(nodes, suffix, node.refs[p])]
<1>1. node.name \in Name /\ node.refs \in Seq(Name)
    BY DEF NodeSet
<1>2. name \in Name
    BY <1>1, RenameType
<1>3. refs \in Seq(Name)
    <2>1. \A p \in 1..Len(node.refs) : Rename(nodes, suffix, node.refs[p]) \in Name
        BY <1>1, RenameType
    <2>2. DOMAIN node.refs = 1..Len(node.refs) /\ Len(node.refs) \in Nat
        BY <1>1
    <2> QED BY <2>1, <2>2
<1>4. UpdateNode(nodes, suffix, node) = [node EXCEPT !.name = name, !.refs = refs]
    BY DEF UpdateNode
<1> HIDE DEF name, refs
<1>5. /\ [node EXCEPT !.name = name, !.refs = refs] \in NodeSet
      /\ [node EXCEPT !.name = name, !.refs = refs].name = name
      /\ [node EXCEPT !.name = name, !.refs = refs].refs = refs
    BY <1>2, <1>3 DEF NodeSet
<1> QED BY <1>4, <1>5 DEF name, refs

LEMMA AddSuffixType ==
    ASSUME NEW nodes \in Seq(NodeSet), NEW suffix \in Name
    PROVE  /\ AddSuffix(nodes, suffix) \in Seq(NodeSet)
           /\ DOMAIN AddSuffix(nodes, suffix) = DOMAIN nodes
           /\ \A i \in DOMAIN nodes : AddSuffix(nodes, suffix)[i] = UpdateNode(nodes, suffix, nodes[i])
<1>1. \A i \in 1..Len(nodes) : UpdateNode(nodes, suffix, nodes[i]) \in NodeSet
    <2>1. \A i \in 1..Len(nodes) : nodes[i] \in NodeSet
        OBVIOUS
    <2> QED BY <2>1, UpdateNodeType
<1>2. DOMAIN nodes = 1..Len(nodes) /\ Len(nodes) \in Nat
    OBVIOUS
<1> QED BY <1>1, <1>2 DEF AddSuffix

LEMMA TextType ==
    ASSUME NEW nodes \in Seq(NodeSet)
    PROVE  Text(nodes) \in Texts
BY DEF Text, Texts

LEMMA CutType ==
    ASSUME NEW text \in Texts, NEW c \in Cut(text)
    PROVE  c \in Texts /\ \E k \in 0..Len(text.nodes) : c.nodes = SubSeq(text.nodes, 1, k)
<1>1. PICK p \in BOOLEAN, k \in 0..Len(text.nodes) : c = [parses |-> p, nodes |-> SubSeq(text.nodes, 1, k)]
    BY DEF Cut
<1>2. text.nodes \in Seq(NodeSet)
    BY DEF Texts
<1>3. SubSeq(text.nodes, 1, k) \in Seq(NodeSet)
    BY <1>2, PrefixSteps
<1> QED BY <1>1, <1>3 DEF Texts

LEMMA PutIs ==
    ASSUME NEW dir, NEW file, NEW text
    PROVE  /\ DOMAIN Put(dir, file, text) = DOMAIN dir \cup {file}
           /\ Put(dir, file, text)[file] = text
           /\ \A f \in DOMAIN dir : f # file => Put(dir, file, text)[f] = dir[f]
           /\ FilesOK(dir) /\ text \in Texts => FilesOK(Put(dir, file, text))
BY DEF Put, FilesOK

\* The compiler's expansions are all taken out again, and of the nodes of the file those
\* that are unused.
LEMMA KeptIs ==
    ASSUME NEW dir, FilesOK(dir), NEW f \in DOMAIN dir, NEW unused
    PROVE  Kept(dir, f, unused) = Only(dir[f].nodes, ToSet(dir[f].nodes) \ unused)
<1> DEFINE s == dir[f].nodes
           templates == Only(s, {n \in ToSet(s) : IsTemplate(n)} \ unused)
           more == [i \in DOMAIN templates |-> Expansion(templates[i])]
           d == Described(dir, f, unused)
           A == {n \in ToSet(d) : ~IsTypedefExpand(dir, n)} \ UnusedNodes(dir, f, unused)
           S == NodeSet \cup {Expansion(n) : n \in NodeSet}
<1>1. s \in Seq(NodeSet) /\ \A n \in ToSet(s) : n \in NodeSet /\ n \in NodesIn(dir)
    BY DEF FilesOK, Texts, ToSet, NodesIn
<1>2. templates \in Seq(NodeSet) /\ \A i \in DOMAIN templates : templates[i] \in ToSet(s) /\ IsTemplate(templates[i])
    <2>1. templates \in Seq(NodeSet) /\ ToSet(templates) = ToSet(s) \cap ({n \in ToSet(s) : IsTemplate(n)} \ unused)
        BY <1>1, OnlyType, OnlyNodes
    <2>2. \A i \in DOMAIN templates : templates[i] \in ToSet(templates)
        BY DEF ToSet
    <2> QED BY <2>1, <2>2
<1>3. d = s \o more
    BY DEF Described
<1> HIDE DEF templates
<1>4. /\ s \in Seq(S) /\ more \in Seq(S)
      /\ \A x \in ToSet(more) : \E t \in ToSet(s) : IsTemplate(t) /\ x = Expansion(t)
    <2>1. DOMAIN templates = 1..Len(templates) /\ Len(templates) \in Nat
        BY <1>2
    <2>2. \A i \in DOMAIN templates : Expansion(templates[i]) \in S
        BY <1>2
    <2>3. more \in Seq(S)
        BY <2>1, <2>2
    <2>4. \A x \in ToSet(more) : \E t \in ToSet(s) : IsTemplate(t) /\ x = Expansion(t)
        BY <1>2 DEF ToSet
    <2>5. s \in Seq(S)
        BY <1>1
    <2> QED BY <2>3, <2>4, <2>5
<1> HIDE DEF more, s, d
<1>5. \A x \in ToSet(more) : IsTypedefExpand(dir, x)
    <2> TAKE x \in ToSet(more)
    <2>1. PICK t \in ToSet(s) : IsTemplate(t) /\ x = Expansion(t)
        BY <1>4
    <2>2. t \in NodesIn(dir) /\ t.kind = "typedef"
        BY <1>1, <2>1 DEF IsTemplate
    <2>3. x.kind = "struct" /\ x.name = t.name \o <<"[">>
        BY <2>1 DEF Expansion
    <2> QED BY <2>2, <2>3 DEF IsTypedefExpand, Defines
<1>6. \A x \in ToSet(s) : ~IsTypedefExpand(dir, x)
    <2> SUFFICES ASSUME NEW x \in ToSet(s), NEW t \in NodesIn(dir), x.name = t.name \o <<"[">> PROVE FALSE
        BY DEF IsTypedefExpand
    <2>1. x.name \in Seq(Tokens) /\ t.name \in Seq(Tokens)
        <3>1. PICK g \in DOMAIN dir : t \in ToSet(dir[g].nodes)
            BY DEF NodesIn
        <3>2. dir[g].nodes \in Seq(NodeSet)
            BY DEF FilesOK, Texts
        <3>3. t \in NodeSet
            BY <3>1, <3>2 DEF ToSet
        <3> QED BY <1>1, <3>3 DEF NodeSet, Name
    <2>2. Len(t.name) + 1 \in DOMAIN x.name /\ x.name[Len(t.name) + 1] = "["
        <3>1. PICK u \in Seq(Tokens \cup {"["}) : u = t.name
            BY <2>1
        <3>2. Len(u \o <<"[">>) = Len(u) + 1 /\ (u \o <<"[">>)[Len(u) + 1] = "["
            BY <3>1
        <3> QED BY <2>1, <3>1, <3>2
    <2>3. \A i \in DOMAIN x.name : x.name[i] # "["
        <3>1. PICK u \in Seq(Tokens) : u = x.name
            BY <2>1
        <3>2. \A i \in DOMAIN u : u[i] \in Tokens
            OBVIOUS
        <3> QED BY <3>1, <3>2, TokensAssumption
    <2> QED BY <2>2, <2>3
<1>7. ToSet(more) \cap A = {}
    BY <1>5
<1>8. Kept(dir, f, unused) = Only(d, A)
    BY DEF Kept, d
<1>9. Only(d, A) = Only(s, A)
    <2> HIDE DEF A, S
    <2> QED BY <1>3, <1>4, <1>7, OnlyBefore
<1>10. \A x \in ToSet(s) : x \in A <=> x \in ToSet(s) \ unused
    <2>1. ToSet(s) \subseteq ToSet(d)
        <3>1. \A i \in DOMAIN s : i \in DOMAIN d /\ d[i] = s[i]
            BY <1>3, <1>4
        <3> QED BY <3>1 DEF ToSet
    <2>2. UnusedNodes(dir, f, unused) = ToSet(s) \cap unused
        BY DEF UnusedNodes, s
    <2> QED BY <1>6, <2>1, <2>2
<1>11. Only(s, A) = Only(s, ToSet(s) \ unused)
    <2> HIDE DEF A
    <2> QED BY <1>1, <1>10, OnlySame
<1> QED BY <1>8, <1>9, <1>11 DEF s

-----------------------------------------------------------------------------
(***************************************************************************)
(* Type correctness                                                        *)
(***************************************************************************)
TypeInv == TypeOK /\ FilesOK(copied)

LEMMA DirType ==
    ASSUME dirs \in Inputs
    PROVE  /\ Len(dirs) \in Nat /\ DOMAIN dirs = 1..Len(dirs)
           /\ \A k \in 1..Len(dirs) : /\ dirs[k].parts \in Seq(Name) /\ dirs[k].parts # <<>>
                                      /\ dirs[k].comp \in Seq(Texts) /\ dirs[k].nested \in BOOLEAN
<1>1. PICK S : dirs \in Seq(S)
    BY InputsAssumption
<1>2. Len(dirs) \in Nat /\ DOMAIN dirs = 1..Len(dirs)
    BY <1>1
<1>3. \A k \in DOMAIN dirs : /\ dirs[k].parts \in Seq(Name) /\ dirs[k].parts # <<>>
                             /\ dirs[k].comp \in Seq(Texts) /\ dirs[k].nested \in BOOLEAN
    BY InputsAssumption
<1> QED BY <1>2, <1>3

LEMMA RefactoredType ==
    ASSUME NEW dir, dir.parts \in Seq(Name), dir.parts # <<>>, dir.comp \in Seq(Texts), dir.comp # <<>>
    PROVE  Refactored(dir) \in Texts
<1>1. dir.comp[1] \in Texts /\ dir.parts[1] \in Name
    OBVIOUS
<1>2. dir.comp[1].nodes \in Seq(NodeSet)
    BY <1>1 DEF Texts
<1> QED BY <1>1, <1>2, AddSuffixType, TextType DEF Refactored

LEMMA NoFilesType == FilesOK(NoFiles) /\ DOMAIN NoFiles = {}
BY DEF FilesOK, NoFiles

LEMMA MatchingDir ==
    ASSUME TypeOK, at < Len(dirs)
    PROVE  /\ at + 1 \in 1..Len(dirs) /\ at + 1 \in 0..Len(dirs)
           /\ Matches => Refactored(Dir) \in Texts
<1>1. at + 1 \in 1..Len(dirs) /\ at + 1 \in 0..Len(dirs)
    BY DirType DEF TypeOK
<1>2. Matches => Refactored(Dir) \in Texts
    BY <1>1, DirType, RefactoredType DEF Matches, Dir, TypeOK
<1> QED BY <1>1, <1>2

LEMMA PlanType ==
    ASSUME FilesOK(sys), NEW unused
    PROVE  FilesOK(RewriteMap(sys, unused)) /\ DOMAIN RewriteMap(sys, unused) \subseteq DOMAIN sys
<1>1. ASSUME NEW f \in DOMAIN sys PROVE Text(Kept(sys, f, unused)) \in Texts
    <2>1. sys[f].nodes \in Seq(NodeSet)
        BY DEF FilesOK, Texts
    <2>2. Kept(sys, f, unused) \in Seq(NodeSet)
        <3>1. Only(sys[f].nodes, ToSet(sys[f].nodes) \ unused) \in Seq(NodeSet)
            BY <2>1, OnlyType
        <3> QED BY <3>1, KeptIs
    <2> QED BY <2>2, TextType
<1> QED BY <1>1 DEF RewriteMap, Involved, FilesOK

LEMMA TypeInvInit == Init => TypeInv
<1> SUFFICES ASSUME Init PROVE TypeInv
    OBVIOUS
<1>1. FilesOK(out) /\ FilesOK(sys) /\ FilesOK(plan) /\ FilesOK(copied)
    BY NoFilesType, SysFilesAssumption DEF Init, FilesOK
<1>2. dirs \in Inputs /\ at \in 0..Len(dirs) /\ fails \in 0..MaxFails
    BY DirType, MaxFailsAssumption DEF Init
<1>3. DOMAIN plan \subseteq DOMAIN sys /\ torn \subseteq DOMAIN sys
    BY NoFilesType DEF Init
<1> QED BY <1>1, <1>2, <1>3 DEF Init, TypeInv, TypeOK

LEMMA TypeInvStep == TypeInv /\ [Next]_vars => TypeInv'
<1> SUFFICES ASSUME TypeInv, [Next]_vars PROVE TypeInv'
    OBVIOUS
<1>0. TypeOK /\ FilesOK(copied)
    BY DEF TypeInv
<1>1. CASE Skip
    BY <1>0, <1>1, MatchingDir DEF Skip, TypeInv, TypeOK, FilesOK
<1>2. CASE RefactorPanics
    BY <1>0, <1>2 DEF RefactorPanics, TypeInv, TypeOK, FilesOK
<1>3. CASE Refactor
    <2>1. FilesOK(out)'
        BY <1>0, <1>3, MatchingDir, PutIs DEF Refactor, TypeOK
    <2>2. at' \in 0..Len(dirs)
        BY <1>0, <1>3, MatchingDir DEF Refactor
    <2> QED BY <1>0, <1>3, <2>1, <2>2 DEF Refactor, TypeInv, TypeOK, FilesOK
<1>4. CASE RefactorWriteFails
    <2>1. FilesOK(out)'
        <3>1. CASE UNCHANGED out
            BY <1>0, <3>1 DEF TypeOK, FilesOK
        <3>2. CASE \E text \in Cut(Refactored(Dir)) : out' = Put(out, OutFile(Dir), text)
            <4>1. PICK text \in Cut(Refactored(Dir)) : out' = Put(out, OutFile(Dir), text)
                BY <3>2
            <4>2. Refactored(Dir) \in Texts
                BY <1>0, <1>4, MatchingDir DEF RefactorWriteFails
            <4>3. text \in Texts
                BY <4>2, CutType
            <4> QED BY <1>0, <4>1, <4>3, PutIs DEF TypeOK
        <3> QED BY <1>4, <3>1, <3>2 DEF RefactorWriteFails
    <2>2. at' \in 0..Len(dirs)
        BY <1>0, <1>4, MatchingDir DEF RefactorWriteFails
    <2>3. fails' \in 0..MaxFails
        BY <1>0, <1>4, MaxFailsAssumption DEF RefactorWriteFails, TypeOK
    <2> QED BY <1>0, <1>4, <2>1, <2>2, <2>3 DEF RefactorWriteFails, TypeInv, TypeOK, FilesOK
<1>5. CASE RefactorEnds
    BY <1>0, <1>5 DEF RefactorEnds, TypeInv, TypeOK, FilesOK
<1>6. CASE Copy
    <2>1. sys' = [f \in DOMAIN sys \cup DOMAIN out |-> IF f \in DOMAIN out THEN out[f] ELSE sys[f]]
        BY <1>6 DEF Copy
    <2>2. FilesOK(sys)' /\ DOMAIN sys \subseteq DOMAIN sys'
        BY <1>0, <2>1 DEF TypeOK, FilesOK
    <2> QED BY <1>0, <1>6, <2>2 DEF Copy, TypeInv, TypeOK, FilesOK
<1>7. CASE Collect
    <2>1. FilesOK(plan)' /\ DOMAIN plan' \subseteq DOMAIN sys
        BY <1>0, <1>7, PlanType DEF Collect, TypeOK
    <2> QED BY <1>0, <1>7, <2>1 DEF Collect, TypeInv, TypeOK, FilesOK
<1>8. CASE CollectPanics
    BY <1>0, <1>8 DEF CollectPanics, TypeInv, TypeOK, FilesOK
<1>9. CASE Rewrite
    <2>1. PICK file \in DOMAIN plan : sys' = [sys EXCEPT ![file] = plan[file]] /\ plan' = Without(file)
        BY <1>9 DEF Rewrite
    <2>2. FilesOK(sys)' /\ DOMAIN sys' = DOMAIN sys
        BY <1>0, <2>1 DEF TypeOK, FilesOK
    <2>3. FilesOK(plan)' /\ DOMAIN plan' \subseteq DOMAIN plan
        BY <1>0, <2>1 DEF TypeOK, FilesOK, Without
    <2> QED BY <1>0, <1>9, <2>2, <2>3 DEF Rewrite, TypeInv, TypeOK, FilesOK
<1>10. CASE RewriteFails
    <2>1. PICK file \in DOMAIN plan :
              \/ UNCHANGED <<sys, torn>>
              \/ \E text \in Cut(plan[file]) : sys' = [sys EXCEPT ![file] = text] /\ torn' = torn \cup {file}
        BY <1>10 DEF RewriteFails
    <2>2. FilesOK(sys)' /\ DOMAIN sys' = DOMAIN sys /\ torn' \subseteq DOMAIN sys
        <3>1. CASE UNCHANGED <<sys, torn>>
            BY <1>0, <3>1 DEF TypeOK, FilesOK
        <3>2. CASE \E text \in Cut(plan[file]) : sys' = [sys EXCEPT ![file] = text] /\ torn' = torn \cup {file}
            <4>1. PICK text \in Cut(plan[file]) : sys' = [sys EXCEPT ![file] = text] /\ torn' = torn \cup {file}
                BY <3>2
            <4>2. text \in Texts /\ file \in DOMAIN sys
                BY <1>0, CutType DEF TypeOK, FilesOK
            <4> QED BY <1>0, <4>1, <4>2 DEF TypeOK, FilesOK
        <3> QED BY <2>1, <3>1, <3>2
    <2>3. FilesOK(plan)' /\ DOMAIN plan' = {}
        BY <1>10, NoFilesType DEF RewriteFails
    <2>4. fails' \in 0..MaxFails
        BY <1>0, <1>10, MaxFailsAssumption DEF RewriteFails, TypeOK
    <2> QED BY <1>0, <1>10, <2>2, <2>3, <2>4 DEF RewriteFails, TypeInv, TypeOK, FilesOK
<1>11. CASE RewriteEnds
    BY <1>0, <1>11 DEF RewriteEnds, TypeInv, TypeOK, FilesOK
<1>12. CASE UNCHANGED vars
    BY <1>0, <1>12 DEF vars, TypeInv, TypeOK, FilesOK
<1> QED BY <1>1, <1>2, <1>3, <1>4, <1>5, <1>6, <1>7, <1>8, <1>9, <1>10, <1>11, <1>12 DEF Next

\* What refactor writes, what the user copies and what rmunused writes are texts, also when
\* a write cuts one short (refactor/main.go:33-76, rmunused/main.go:28-88).
THEOREM TypeCorrect == Spec => []TypeOK
<1>1. TypeInv => TypeOK
    BY DEF TypeInv
<1> QED BY <1>1, TypeInvInit, TypeInvStep, PTL DEF Spec

-----------------------------------------------------------------------------
(***************************************************************************)
(* References follow the elements that are renamed                         *)
(***************************************************************************)
LookedInto(dir) == ~dir.nested /\ dir.comp # <<>>

\* What a file holds once the directory has been refactored: all of it, or a beginning.
MayHold(dir) == {Refactored(dir)} \cup Cut(Refactored(dir))

FromDir(file, k) == /\ k <= at /\ LookedInto(dirs[k])
                    /\ file = OutFile(dirs[k]) /\ out[file] \in MayHold(dirs[k])

\* A directory that was looked into has a name of two parts, which refactor panics without,
\* and every file it wrote is from one such directory.
OutInv ==
    /\ \A k \in DOMAIN dirs : k <= at /\ LookedInto(dirs[k]) => Len(dirs[k].parts) >= 2
    /\ \A f \in DOMAIN out : \E k \in DOMAIN dirs : FromDir(f, k)

LEMMA ReferencesFollow ==
    ASSUME NEW old \in Seq(NodeSet), NEW suffix \in Name,
           NEW i \in DOMAIN old, NEW j \in DOMAIN old, NEW p \in DOMAIN old[i].refs
    PROVE  LET new == AddSuffix(old, suffix)
           IN  /\ (Defines(old[j]) /\ old[i].refs[p] = old[j].name) => new[i].refs[p] = new[j].name
               /\ Defining(old, old[i].refs[p]) = {} => new[i].refs[p] = old[i].refs[p]
<1> DEFINE new == AddSuffix(old, suffix)
<1>1. old[i] \in NodeSet /\ old[j] \in NodeSet
    OBVIOUS
<1>2. new[i] = UpdateNode(old, suffix, old[i]) /\ new[j] = UpdateNode(old, suffix, old[j])
    BY AddSuffixType
<1>3. new[i].refs = [q \in DOMAIN old[i].refs |-> Rename(old, suffix, old[i].refs[q])]
    <2>1. UpdateNode(old, suffix, old[i]).refs = [q \in DOMAIN old[i].refs |-> Rename(old, suffix, old[i].refs[q])]
        BY <1>1, UpdateNodeType
    <2> QED BY <1>2, <2>1
<1>4. new[i].refs[p] = Rename(old, suffix, old[i].refs[p])
    BY <1>3
<1>5. Defines(old[j]) => new[j].name = Rename(old, suffix, old[j].name)
    <2>1. UpdateNode(old, suffix, old[j]).name =
              IF Defines(old[j]) THEN Rename(old, suffix, old[j].name) ELSE old[j].name
        BY <1>1, UpdateNodeType
    <2> QED BY <1>2, <2>1
<1>6. Defining(old, old[i].refs[p]) = {} => Rename(old, suffix, old[i].refs[p]) = old[i].refs[p]
    BY DEF Rename
<1> QED BY <1>4, <1>5, <1>6

\* Two directories that are looked into have files of their own to be refactored into.
LEMMA OneFileEach ==
    ASSUME TypeOK, OutInv, NEW k \in DOMAIN dirs, NEW l \in DOMAIN dirs, k <= at, l <= at,
           LookedInto(dirs[k]), LookedInto(dirs[l]), OutFile(dirs[k]) = OutFile(dirs[l])
    PROVE  k = l
<1>1. Len(dirs[k].parts) >= 2 /\ Len(dirs[l].parts) >= 2
    BY DEF OutInv
<1>2. dirs[k].parts \in Seq(Name) /\ dirs[l].parts \in Seq(Name)
    BY DirType DEF TypeOK
<1>3. dirs[k].parts[1] = dirs[l].parts[1] /\ dirs[k].parts[2] = dirs[l].parts[2]
    <2>1. OutFile(dirs[k])[2] = dirs[k].parts[1] /\ OutFile(dirs[k])[3] = dirs[k].parts[2]
        BY DEF OutFile
    <2>2. OutFile(dirs[l])[2] = dirs[l].parts[1] /\ OutFile(dirs[l])[3] = dirs[l].parts[2]
        BY DEF OutFile
    <2> QED BY <2>1, <2>2
<1>4. SubSeq(dirs[k].parts, 1, 2) = SubSeq(dirs[l].parts, 1, 2)
    <2>1. PICK a \in Seq(Name), b \in Seq(Name) : a = dirs[k].parts /\ b = dirs[l].parts
        BY <1>2
    <2>2. Len(a) >= 2 /\ Len(b) >= 2 /\ a[1] = b[1] /\ a[2] = b[2]
        BY <1>1, <1>3, <2>1
    <2>3. SubSeq(a, 1, 2) = SubSeq(b, 1, 2)
        BY <2>2
    <2> QED BY <2>1, <2>3
<1> QED BY <1>1, <1>4, InputsAssumption DEF TypeOK, LookedInto

LEMMA OutInvInit == Init => OutInv
<1> SUFFICES ASSUME Init PROVE OutInv
    OBVIOUS
<1>1. at = 0 /\ DOMAIN dirs = 1..Len(dirs) /\ DOMAIN out = {}
    BY DirType, NoFilesType DEF Init
<1> QED BY <1>1 DEF OutInv

LEMMA OutInvStep == TypeInv /\ OutInv /\ [Next]_vars => OutInv'
<1> SUFFICES ASSUME TypeInv, OutInv, [Next]_vars PROVE OutInv'
    OBVIOUS
<1>0. TypeOK /\ at \in Nat /\ DOMAIN dirs = 1..Len(dirs) /\ Len(dirs) \in Nat
    BY DirType DEF TypeInv, TypeOK
\* The next directory gives nothing, or its file.
<1>1. ASSUME at < Len(dirs), at' = at + 1, UNCHANGED dirs,
             LookedInto(dirs[at + 1]) => Len(dirs[at + 1].parts) >= 2,
             \/ UNCHANGED out
             \/ /\ LookedInto(dirs[at + 1])
                /\ \E text \in MayHold(dirs[at + 1]) : out' = Put(out, OutFile(dirs[at + 1]), text)
      PROVE  OutInv'
    <2>1. at + 1 \in DOMAIN dirs
        BY <1>0, <1>1
    <2>2. \A k \in DOMAIN dirs : k <= at + 1 /\ LookedInto(dirs[k]) => Len(dirs[k].parts) >= 2
        BY <1>0, <1>1 DEF OutInv
    <2>3. ASSUME NEW f \in DOMAIN out, out'[f] = out[f] PROVE \E k \in DOMAIN dirs : FromDir(f, k)'
        <3>1. PICK k \in DOMAIN dirs : FromDir(f, k)
            BY DEF OutInv
        <3>2. k <= at'
            BY <1>0, <1>1, <3>1 DEF FromDir
        <3> QED BY <1>1, <2>3, <3>1, <3>2 DEF FromDir
    <2>4. ASSUME NEW f \in DOMAIN out' PROVE \E k \in DOMAIN dirs : FromDir(f, k)'
        <3>1. CASE UNCHANGED out
            BY <2>3, <2>4, <3>1
        <3>2. CASE /\ LookedInto(dirs[at + 1])
                   /\ \E text \in MayHold(dirs[at + 1]) : out' = Put(out, OutFile(dirs[at + 1]), text)
            <4>1. PICK text \in MayHold(dirs[at + 1]) : out' = Put(out, OutFile(dirs[at + 1]), text)
                BY <3>2
            <4>2. CASE f = OutFile(dirs[at + 1])
                <5>1. out'[f] = text
                    <6>1. Put(out, OutFile(dirs[at + 1]), text)[OutFile(dirs[at + 1])] = text
                        BY DEF Put
                    <6> QED BY <4>1, <4>2, <6>1
                <5> QED BY <1>0, <1>1, <2>1, <3>2, <4>2, <5>1 DEF FromDir
            <4>3. CASE f # OutFile(dirs[at + 1])
                <5>1. f \in DOMAIN out
                    BY <2>4, <4>1, <4>3 DEF Put
                <5>2. out'[f] = out[f]
                    BY <4>1, <4>3, <5>1 DEF Put
                <5> QED BY <2>3, <5>1, <5>2
            <4> QED BY <4>2, <4>3
        <3> QED BY <1>1, <3>1, <3>2
    <2> QED BY <1>1, <2>2, <2>4 DEF OutInv
<1>2. ASSUME UNCHANGED <<dirs, at, out>> PROVE OutInv'
    BY <1>2 DEF OutInv, FromDir
<1>3. CASE Skip
    BY <1>1, <1>3 DEF Skip, Matches, Dir, LookedInto
<1>4. CASE Refactor
    <2>1. LookedInto(dirs[at + 1]) /\ Refactored(dirs[at + 1]) \in MayHold(dirs[at + 1])
        BY <1>4 DEF Refactor, Matches, Dir, LookedInto, MayHold
    <2> QED BY <1>1, <1>4, <2>1 DEF Refactor, Dir
<1>5. CASE RefactorWriteFails
    <2>1. LookedInto(dirs[at + 1])
        BY <1>5 DEF RefactorWriteFails, Matches, Dir, LookedInto
    <2>2. UNCHANGED out \/ \E text \in MayHold(dirs[at + 1]) : out' = Put(out, OutFile(dirs[at + 1]), text)
        BY <1>5 DEF RefactorWriteFails, Dir, MayHold
    <2> QED BY <1>1, <1>5, <2>1, <2>2 DEF RefactorWriteFails, Dir
<1>6. CASE RefactorPanics \/ RefactorEnds \/ Copy \/ Collect \/ CollectPanics
    BY <1>2, <1>6 DEF RefactorPanics, RefactorEnds, Copy, Collect, CollectPanics
<1>7. CASE Rewrite \/ RewriteFails \/ RewriteEnds \/ UNCHANGED vars
    BY <1>2, <1>7 DEF Rewrite, RewriteFails, RewriteEnds, vars
<1> QED BY <1>3, <1>4, <1>5, <1>6, <1>7 DEF Next

LEMMA RefsFollowHere == TypeInv /\ OutInv => RefsFollow
<1> SUFFICES ASSUME TypeInv, OutInv, NEW k \in DOMAIN dirs, Done(k), dirs[k].comp[1].parses,
                    NEW i \in DOMAIN out[OutFile(dirs[k])].nodes,
                    NEW j \in DOMAIN out[OutFile(dirs[k])].nodes,
                    NEW p \in DOMAIN dirs[k].comp[1].nodes[i].refs
             PROVE  LET old == dirs[k].comp[1].nodes
                        new == out[OutFile(dirs[k])].nodes
                    IN  /\ (Defines(old[j]) /\ old[i].refs[p] = old[j].name) => new[i].refs[p] = new[j].name
                        /\ Defining(old, old[i].refs[p]) = {} => new[i].refs[p] = old[i].refs[p]
    BY DEF RefsFollow
<1> DEFINE file == OutFile(dirs[k])
           old == dirs[k].comp[1].nodes
           suffix == dirs[k].parts[1]
           all == AddSuffix(old, suffix)
<1>1. TypeOK /\ k <= at /\ LookedInto(dirs[k]) /\ file \in DOMAIN out
    BY DEF TypeInv, Done, LookedInto
<1>2. old \in Seq(NodeSet) /\ suffix \in Name /\ Refactored(dirs[k]) \in Texts
    <2>1. /\ dirs[k].parts \in Seq(Name) /\ dirs[k].parts # <<>>
          /\ dirs[k].comp \in Seq(Texts) /\ dirs[k].comp # <<>>
        BY <1>1, DirType DEF TypeOK, LookedInto
    <2>2. dirs[k].comp[1] \in Texts /\ suffix \in Name
        BY <2>1
    <2> QED BY <2>1, <2>2, RefactoredType DEF Texts
<1>3. out[file] \in MayHold(dirs[k])
    <2>1. PICK l \in DOMAIN dirs : FromDir(file, l)
        BY <1>1 DEF OutInv
    <2>2. l = k
        BY <1>1, <2>1, OneFileEach DEF FromDir
    <2> QED BY <2>1, <2>2 DEF FromDir
<1>4. Refactored(dirs[k]).nodes = all
    BY DEF Refactored, Text
<1>5. all \in Seq(NodeSet) /\ DOMAIN all = DOMAIN old
    BY <1>2, AddSuffixType
<1>6. \E n \in 0..Len(all) : out[file].nodes = SubSeq(all, 1, n)
    <2>1. CASE out[file] = Refactored(dirs[k])
        <3>1. Len(all) \in 0..Len(all) /\ SubSeq(all, 1, Len(all)) = all
            BY <1>5
        <3> QED BY <1>4, <2>1, <3>1
    <2>2. CASE out[file] \in Cut(Refactored(dirs[k]))
        BY <1>2, <1>4, <2>2, CutType
    <2> QED BY <1>3, <2>1, <2>2 DEF MayHold
<1> HIDE DEF all
<1>7. \A x \in DOMAIN out[file].nodes : x \in DOMAIN all /\ out[file].nodes[x] = all[x]
    <2>1. PICK n \in 0..Len(all) : out[file].nodes = SubSeq(all, 1, n)
        BY <1>6
    <2>2. \A x \in DOMAIN SubSeq(all, 1, n) : x \in DOMAIN all /\ SubSeq(all, 1, n)[x] = all[x]
        BY <1>5
    <2> QED BY <2>1, <2>2
<1>8. i \in DOMAIN old /\ j \in DOMAIN old /\ out[file].nodes[i] = all[i] /\ out[file].nodes[j] = all[j]
    BY <1>5, <1>7
<1> HIDE DEF old, suffix, file
<1>9. p \in DOMAIN old[i].refs
    BY DEF old
<1>10. /\ (Defines(old[j]) /\ old[i].refs[p] = old[j].name) => all[i].refs[p] = all[j].name
       /\ Defining(old, old[i].refs[p]) = {} => all[i].refs[p] = old[i].refs[p]
    BY <1>2, <1>8, <1>9, ReferencesFollow DEF all
<1> QED BY <1>8, <1>10 DEF old, file

\* In a specification refactor renamed, also in the part of one it could not write to the
\* end, every reference leads to the element it led to before (ast.go:24-44).
THEOREM ReferencesKept == Spec => []RefsFollow
<1> QED BY TypeInvInit, TypeInvStep, OutInvInit, OutInvStep, RefsFollowHere, PTL DEF Spec

-----------------------------------------------------------------------------
(***************************************************************************)
(* rmunused takes out nothing that is used                                 *)
(***************************************************************************)
LEMMA ImageFinite ==
    ASSUME NEW g, IsFiniteSet(DOMAIN g)
    PROVE  IsFiniteSet({g[x] : x \in DOMAIN g})
<1> DEFINE T == {g[x] : x \in DOMAIN g}
           h == [x \in DOMAIN g |-> g[x]]
<1>1. h \in Surjection(DOMAIN g, T)
    BY DEF Surjection
<1> QED BY <1>1, FS_Surjection

LEMMA NodesFinite ==
    ASSUME NEW dir, FilesOK(dir), IsFiniteSet(DOMAIN dir)
    PROVE  IsFiniteSet(NodesIn(dir))
<1> DEFINE g == [f \in DOMAIN dir |-> ToSet(dir[f].nodes)]
<1>1. IsFiniteSet({g[f] : f \in DOMAIN g})
    BY ImageFinite
<1>2. ASSUME NEW f \in DOMAIN dir PROVE IsFiniteSet(ToSet(dir[f].nodes))
    <2>1. PICK s \in Seq(NodeSet) : s = dir[f].nodes
        BY DEF FilesOK, Texts
    <2>2. DOMAIN s = 1..Len(s) /\ Len(s) \in Nat
        OBVIOUS
    <2>3. IsFiniteSet(DOMAIN s)
        BY <2>2, FS_Interval
    <2> QED BY <2>1, <2>3, ImageFinite DEF ToSet
<1>3. IsFiniteSet(UNION {g[f] : f \in DOMAIN g})
    BY <1>1, <1>2, FS_UNION
<1> QED BY <1>3 DEF NodesIn

\* A text in which there is nothing, and in the same order, but what there was before, and
\* all of that which a call leads to.
StillThere(text, before) ==
    /\ text.nodes = Only(before.nodes, ToSet(text.nodes))
    /\ \A n \in UsedIn(NodesIn(copied)) : n \in ToSet(before.nodes) => n \in ToSet(text.nodes)

UsedInv ==
    /\ IsFiniteSet(DOMAIN sys) /\ IsFiniteSet(DOMAIN out) /\ IsFiniteSet(DOMAIN copied)
    /\ pc \in {"refactor", "copy"} => plan = NoFiles
    /\ torn = {} => /\ DOMAIN sys = DOMAIN copied
                    /\ \A f \in DOMAIN sys : StillThere(sys[f], copied[f])
                    /\ \A f \in DOMAIN plan : StillThere(plan[f], copied[f])

LEMMA NothingTaken ==
    ASSUME NEW text \in Texts
    PROVE  StillThere(text, text)
<1>1. text.nodes \in Seq(NodeSet)
    BY DEF Texts
<1> QED BY <1>1, OnlyAll DEF StillThere

\* What is used in sys/<os> is what was used in it after the copy.
LEMMA SameUsed ==
    ASSUME TypeInv, UsedInv, torn = {}
    PROVE  UsedIn(NodesIn(copied)) \subseteq UsedIn(NodesIn(sys))
<1>1. IsFiniteSet(NodesIn(copied))
    BY NodesFinite DEF TypeInv, UsedInv
<1>2. NodesIn(sys) \subseteq NodesIn(copied)
    <2>1. ASSUME NEW f \in DOMAIN sys PROVE ToSet(sys[f].nodes) \subseteq ToSet(copied[f].nodes)
        <3>1. copied[f].nodes \in Seq(NodeSet)
            BY DEF TypeInv, UsedInv, FilesOK, Texts
        <3>2. ToSet(Only(copied[f].nodes, ToSet(sys[f].nodes))) = ToSet(copied[f].nodes) \cap ToSet(sys[f].nodes)
            BY <3>1, OnlyNodes
        <3>3. sys[f].nodes = Only(copied[f].nodes, ToSet(sys[f].nodes))
            BY DEF UsedInv, StillThere
        <3> QED BY <3>2, <3>3
    <2> QED BY <2>1 DEF UsedInv, NodesIn
<1>3. UsedIn(NodesIn(copied)) \subseteq NodesIn(sys)
    <2> SUFFICES ASSUME NEW n \in UsedIn(NodesIn(copied)) PROVE n \in NodesIn(sys)
        OBVIOUS
    <2>1. n \in NodesIn(copied)
        BY <1>1, UsedIsClosed
    <2>2. PICK f \in DOMAIN copied : n \in ToSet(copied[f].nodes)
        BY <2>1 DEF NodesIn
    <2>3. f \in DOMAIN sys /\ n \in ToSet(sys[f].nodes)
        BY <2>2 DEF UsedInv, StillThere
    <2> QED BY <2>3 DEF NodesIn
<1> QED BY <1>1, <1>2, <1>3, UsedAmong

LEMMA PlannedIsStillThere ==
    ASSUME TypeInv, UsedInv, torn = {}, NEW f \in DOMAIN sys
    PROVE  StillThere(Text(Kept(sys, f, Unused(sys))), copied[f])
<1> DEFINE c == copied[f].nodes
           s == sys[f].nodes
           B == ToSet(s) \ Unused(sys)
           k == Kept(sys, f, Unused(sys))
<1>1. c \in Seq(NodeSet) /\ s \in Seq(NodeSet)
    BY DEF TypeInv, TypeOK, UsedInv, FilesOK, Texts
<1>2. k = Only(s, B) /\ s = Only(c, ToSet(s))
    <2>1. FilesOK(sys)
        BY DEF TypeInv, TypeOK
    <2>2. k = Only(s, B)
        BY <2>1, KeptIs
    <2>3. s = Only(c, ToSet(s))
        BY DEF UsedInv, StillThere
    <2> QED BY <2>2, <2>3
<1>3. \A n \in UsedIn(NodesIn(copied)) : n \in ToSet(c) => n \in B
    <2> SUFFICES ASSUME NEW n \in UsedIn(NodesIn(copied)), n \in ToSet(c) PROVE n \in B
        OBVIOUS
    <2>1. n \in ToSet(s)
        BY DEF UsedInv, StillThere
    <2>2. n \notin Unused(sys)
        BY SameUsed DEF Unused, UnusedIn
    <2> QED BY <2>1, <2>2
<1> DEFINE A == ToSet(s)
<1>4. B \subseteq A
    OBVIOUS
<1> HIDE DEF c, s, B, A, k
<1>5. k = Only(c, A \cap B) /\ ToSet(k) = ToSet(c) \cap (A \cap B)
    <2>1. k = Only(Only(c, A), B)
        BY <1>2 DEF A
    <2> QED BY <1>1, <2>1, OnlyOnly, OnlyNodes
<1>6. k = Only(c, ToSet(k))
    <2>1. \A x \in ToSet(c) : x \in A \cap B <=> x \in ToSet(k)
        BY <1>5
    <2> QED BY <1>1, <1>5, <2>1, OnlySame
<1>7. \A n \in UsedIn(NodesIn(copied)) : n \in ToSet(c) => n \in ToSet(k)
    BY <1>3, <1>4, <1>5
<1>8. Text(k).nodes = k
    BY DEF Text
<1> QED BY <1>6, <1>7, <1>8 DEF StillThere, c, k

LEMMA UsedInvInit == Init => UsedInv
<1> SUFFICES ASSUME Init PROVE UsedInv
    OBVIOUS
<1>1. DOMAIN out = {} /\ DOMAIN plan = {} /\ plan = NoFiles /\ sys = SysFiles /\ copied = SysFiles
    BY NoFilesType DEF Init
<1>2. IsFiniteSet(DOMAIN sys) /\ IsFiniteSet(DOMAIN out) /\ IsFiniteSet(DOMAIN copied)
    BY <1>1, SysFilesAssumption, FS_EmptySet
<1>3. \A f \in DOMAIN sys : StillThere(sys[f], copied[f])
    BY <1>1, SysFilesAssumption, NothingTaken
<1> QED BY <1>1, <1>2, <1>3 DEF UsedInv

LEMMA UsedInvStep == TypeInv /\ UsedInv /\ [Next]_vars => UsedInv'
<1> SUFFICES ASSUME TypeInv, UsedInv, [Next]_vars PROVE UsedInv'
    OBVIOUS
<1>0. TypeOK /\ FilesOK(copied)
    BY DEF TypeInv
\* Nothing in sys/<os> changes.
<1>1. ASSUME UNCHANGED <<sys, copied, plan, torn>>, IsFiniteSet(DOMAIN out'),
             pc' \in {"refactor", "copy"} => pc \in {"refactor", "copy"}
      PROVE  UsedInv'
    BY <1>1 DEF UsedInv, StillThere
<1>2. CASE Skip \/ RefactorPanics \/ RefactorEnds
    BY <1>1, <1>2 DEF Skip, RefactorPanics, RefactorEnds, UsedInv
<1>3. ASSUME NEW text, out' = Put(out, OutFile(Dir), text) PROVE IsFiniteSet(DOMAIN out')
    <2>1. DOMAIN out' = DOMAIN out \cup {OutFile(Dir)}
        BY <1>3 DEF Put
    <2> QED BY <2>1, FS_AddElement DEF UsedInv
<1>4. CASE Refactor
    BY <1>1, <1>3, <1>4 DEF Refactor
<1>5. CASE RefactorWriteFails
    <2>1. IsFiniteSet(DOMAIN out')
        <3>1. CASE UNCHANGED out
            BY <3>1 DEF UsedInv
        <3>2. CASE \E text \in Cut(Refactored(Dir)) : out' = Put(out, OutFile(Dir), text)
            BY <1>3, <3>2
        <3> QED BY <1>5, <3>1, <3>2 DEF RefactorWriteFails
    <2> QED BY <1>1, <1>5, <2>1 DEF RefactorWriteFails
<1>6. CASE Copy
    <2>1. DOMAIN sys' = DOMAIN sys \cup DOMAIN out /\ copied' = sys' /\ UNCHANGED <<out, plan>> /\ pc' = "idle"
        BY <1>6 DEF Copy
    <2>2. IsFiniteSet(DOMAIN sys') /\ IsFiniteSet(DOMAIN out')
        BY <2>1, FS_Union DEF UsedInv
    <2>3. FilesOK(sys)'
        BY TypeInvStep DEF TypeInv, TypeOK
    <2>4. \A f \in DOMAIN sys' : StillThere(sys[f], copied[f])'
        <3> SUFFICES ASSUME NEW f \in DOMAIN sys' PROVE StillThere(sys[f], copied[f])'
            OBVIOUS
        <3>1. sys'[f].nodes \in Seq(NodeSet)
            BY <2>3 DEF FilesOK, Texts
        <3>2. Only(sys'[f].nodes, ToSet(sys'[f].nodes)) = sys'[f].nodes
            BY <3>1, OnlyAll
        <3> QED BY <2>1, <3>2 DEF StillThere
    <2>5. DOMAIN plan' = {}
        BY <1>6, <2>1, NoFilesType DEF UsedInv, Copy
    <2> QED BY <2>1, <2>2, <2>4, <2>5 DEF UsedInv
<1>7. CASE Collect
    <2>1. UNCHANGED <<out, sys, copied, torn>> /\ pc' = "rewrite" /\ plan' = RewriteMap(sys, Unused(sys))
        BY <1>7 DEF Collect
    <2>2. torn = {} => \A f \in DOMAIN plan' : StillThere(plan'[f], copied[f])
        <3>1. \A f \in DOMAIN plan' : f \in DOMAIN sys /\ plan'[f] = Text(Kept(sys, f, Unused(sys)))
            BY <2>1 DEF RewriteMap, Involved
        <3> QED BY <3>1, PlannedIsStillThere
    <2> QED BY <2>1, <2>2 DEF UsedInv, StillThere
<1>8. CASE CollectPanics \/ RewriteEnds
    BY <1>1, <1>8 DEF CollectPanics, RewriteEnds, UsedInv
<1>9. CASE Rewrite
    <2>1. PICK file \in DOMAIN plan : sys' = [sys EXCEPT ![file] = plan[file]] /\ plan' = Without(file)
        BY <1>9 DEF Rewrite
    <2>2. UNCHANGED <<out, copied, torn, pc>> /\ DOMAIN sys' = DOMAIN sys /\ pc = "rewrite"
        BY <1>9, <2>1 DEF Rewrite
    <2>3. \A f \in DOMAIN plan' : f \in DOMAIN plan /\ plan'[f] = plan[f]
        BY <2>1 DEF Without
    <2>4. \A f \in DOMAIN sys' : sys'[f] = sys[f] \/ (f \in DOMAIN plan /\ sys'[f] = plan[f])
        <3>1. sys' = [f \in DOMAIN sys |-> IF f = file THEN plan[file] ELSE sys[f]]
            BY <2>1
        <3> QED BY <3>1
    <2>5. torn = {} => \A f \in DOMAIN sys' : StillThere(sys'[f], copied[f])
        BY <2>2, <2>4 DEF UsedInv
    <2>6. torn = {} => \A f \in DOMAIN plan' : StillThere(plan'[f], copied[f])
        BY <2>3 DEF UsedInv
    <2> QED BY <2>2, <2>5, <2>6 DEF UsedInv, StillThere
<1>10. CASE RewriteFails
    <2>1. UNCHANGED <<out, copied>> /\ DOMAIN plan' = {} /\ plan' = NoFiles /\ pc' = "idle"
        BY <1>10, NoFilesType DEF RewriteFails
    <2>2. CASE UNCHANGED <<sys, torn>>
        BY <2>1, <2>2 DEF UsedInv, StillThere
    <2>3. CASE \E file \in DOMAIN plan : \E text \in Cut(plan[file]) :
                   sys' = [sys EXCEPT ![file] = text] /\ torn' = torn \cup {file}
        <3>1. DOMAIN sys' = DOMAIN sys /\ torn' # {}
            BY <2>3
        <3> QED BY <2>1, <3>1 DEF UsedInv
    <2> QED BY <1>10, <2>2, <2>3 DEF RewriteFails
<1>11. CASE UNCHANGED vars
    BY <1>1, <1>11 DEF vars, UsedInv
<1> QED BY <1>2, <1>4, <1>5, <1>6, <1>7, <1>8, <1>9, <1>10, <1>11 DEF Next

\* However often rmunused stops and is run again, what a call leads to stays, wherever the
\* call is, and nothing comes in, as long as no write cut a file short
\* (rmunused/main.go:46-78).
THEOREM NothingUsedIsLost == Spec => []UsedKept
<1>1. UsedInv => UsedKept
    BY DEF UsedInv, StillThere, UsedKept
<1> QED BY <1>1, TypeInvInit, TypeInvStep, UsedInvInit, UsedInvStep, PTL DEF Spec
=============================================================================
