---------------------------- MODULE FixLoopProofs ----------------------------
(***************************************************************************)
(* Theorems about FixLoop and the Agent it talks to, for every set of      *)
(* texts, tools and calls, every limit, and a model that answers anything. *)
(***************************************************************************)
EXTENDS FixLoop, SequenceTheorems, FiniteSetTheorems, TLAPS

Message == [role : {"system", "human", "ai", "tool"}, calls : Seq(Calls)]

-----------------------------------------------------------------------------
(***************************************************************************)
(* Types.  An agent that is asked has an attempt left, so that the number  *)
(* of attempts stays in its range.                                         *)
(***************************************************************************)
TalkType ==
    /\ talk \in {"idle", "query", "exec", "answered", "failed"}
    /\ messages \in Seq(Message) /\ hist \in Seq(Calls) /\ todo \in Seq(Calls)

LoopType ==
    /\ pc \in {"done", "check", "extract", "validate", "ask", "panic"}
    /\ i \in 0..MaxFix /\ steps \in 0..MaxSteps
    /\ spec \in Texts \cup {Empty} /\ workdir \subseteq Texts \cup {Empty}
    /\ unheard \in BOOLEAN
    /\ outcome \in [valid : BOOLEAN, err : BOOLEAN, spec : Texts \cup {Empty}]
    /\ pc = "ask" => i < MaxFix

TypeInv == TalkType /\ LoopType

LEMMA TypeInvOK == TypeInv => TypeOK
<1> SUFFICES ASSUME TypeInv PROVE TypeOK
    OBVIOUS
<1>1. AgentTypeOK
    <2>1. ASSUME NEW k \in DOMAIN messages PROVE messages[k] \in Message
        BY <2>1, LenProperties, ElementOfSeq DEF TypeInv, TalkType
    <2> QED BY <2>1 DEF TypeInv, TalkType, AgentTypeOK, Message
<1> QED BY <1>1 DEF TypeInv, LoopType, TypeOK

\* The messages a conversation is made of.
LEMMA MessageTypes ==
    /\ System \in Message /\ Human \in Message
    /\ \A s \in Seq(Calls) : Reply(s) \in Message
    /\ \A c \in Calls : Tool(c) \in Message
<1>1. <<>> \in Seq(Calls) /\ \A c \in Calls : <<c>> \in Seq(Calls)
    BY EmptySeq
<1> QED BY <1>1 DEF System, Human, Reply, Tool, Message

LEMMA CallListType ==
    ASSUME NEW k \in Nat, NEW s \in [1..k -> Calls]
    PROVE  s \in Seq(Calls)
BY SeqDef

LEMMA AgentKeepsType ==
    ASSUME TalkType, AgentStep
    PROVE  TalkType'
<1>1. CASE QueryAnswers
    BY <1>1, MessageTypes, EmptySeq, AppendProperties DEF QueryAnswers, TalkType
<1>2. CASE QueryCalls
    <2>1. PICK s \in Seq(Calls) : messages' = Append(messages, Reply(s)) /\ todo' = s
        BY <1>2, CallListType, LimitsAssumption DEF QueryCalls
    <2> QED BY <1>2, <2>1, MessageTypes, AppendProperties DEF QueryCalls, TalkType
<1>3. CASE ExecTool
    <2>1. Head(todo) \in Calls /\ Tail(todo) \in Seq(Calls)
        BY <1>3, HeadTailProperties DEF ExecTool, TalkType
    <2> QED BY <1>3, <2>1, MessageTypes, AppendProperties DEF ExecTool, TalkType
<1>4. CASE QueryFails \/ ExecFails \/ ExecDone
    BY <1>4 DEF QueryFails, ExecFails, ExecDone, TalkType
<1> QED BY <1>1, <1>2, <1>3, <1>4 DEF AgentStep

LEMMA AskKeepsType ==
    ASSUME TalkType, Ask
    PROVE  TalkType'
BY MessageTypes, AppendProperties DEF Ask, TalkType

LEMMA ReturnsType ==
    ASSUME LoopType, NEW v \in BOOLEAN, NEW e \in BOOLEAN, Returns(v, e)
    PROVE  pc' = "done" /\ outcome' \in [valid : BOOLEAN, err : BOOLEAN, spec : Texts \cup {Empty}]
BY DEF Returns, LoopType

LEMMA InvalidType ==
    ASSUME TypeInv, Invalid, UNCHANGED i
    PROVE  /\ TalkType' /\ pc' \in {"ask", "done"} /\ (pc' = "ask" => i' < MaxFix)
           /\ outcome' \in [valid : BOOLEAN, err : BOOLEAN, spec : Texts \cup {Empty}]
<1>1. CASE AttemptsLeft
    BY <1>1, AskKeepsType DEF Invalid, AttemptsLeft, TypeInv, LoopType
<1>2. CASE ~AttemptsLeft
    <2>1. TalkType'
        BY <1>2 DEF Invalid, agent, TypeInv, TalkType
    <2> QED BY <1>2, <2>1, ReturnsType DEF Invalid, TypeInv
<1> QED BY <1>1, <1>2

LEMMA TypeInit == Init => TypeInv
<1>1. <<>> \in Seq(Message) /\ <<>> \in Seq(Calls)
    BY EmptySeq
<1>2. Init => TalkType
    BY <1>1 DEF Init, AgentInit, TalkType
<1>3. Init => LoopType
    <2>1. NoOutcome \in [valid : BOOLEAN, err : BOOLEAN, spec : Texts \cup {Empty}]
        BY DEF NoOutcome
    <2>2. 0 \in 0..MaxFix /\ 0 \in 0..MaxSteps
        BY MaxFixAssumption
    <2> QED BY <2>1, <2>2 DEF Init, LoopType
<1> QED BY <1>2, <1>3 DEF TypeInv

LEMMA TypeStep == TypeInv /\ [Next]_vars => TypeInv'
<1> SUFFICES ASSUME TypeInv, [Next]_vars PROVE TypeInv'
    OBVIOUS
<1>1. CASE Start
    <2>1. TalkType'
        BY <1>1, MessageTypes, EmptySeq DEF Start, NewConversation, TalkType
    <2> QED BY <1>1, <2>1, MaxFixAssumption DEF Start, NoOutcome, TypeInv, LoopType
<1>2. CASE RefuseEmpty \/ NotRepaired
    <2>1. TalkType'
        BY <1>2 DEF RefuseEmpty, NotRepaired, agent, TypeInv, TalkType
    <2>2. Returns(FALSE, TRUE) /\ UNCHANGED <<i, spec, workdir, steps, unheard>>
        BY <1>2 DEF RefuseEmpty, NotRepaired
    <2> QED BY <2>1, <2>2, ReturnsType DEF TypeInv, LoopType
<1>3. CASE Prepare
    BY <1>3 DEF Prepare, Restored, agent, TypeInv, TalkType, LoopType
<1>4. CASE PrepareFails
    <2>1. TalkType' /\ UNCHANGED <<i, spec, steps, unheard>> /\ workdir' \subseteq Texts \cup {Empty}
        BY <1>4 DEF PrepareFails, agent, TypeInv, TalkType, LoopType
    <2>2. pc' \in {"panic", "done"} /\ outcome' \in [valid : BOOLEAN, err : BOOLEAN, spec : Texts \cup {Empty}]
        BY <1>4, ReturnsType DEF PrepareFails, TypeInv, LoopType
    <2> QED BY <2>1, <2>2 DEF TypeInv, LoopType
<1>5. CASE Extract
    <2>1. UNCHANGED <<i, spec, workdir, steps>> /\ unheard' \in BOOLEAN
        BY <1>5 DEF Extract, GoesUnheard, TypeInv, LoopType
    <2>2. CASE Invalid
        BY <2>1, <2>2, InvalidType DEF TypeInv, LoopType
    <2>3. CASE pc' = "validate" /\ UNCHANGED <<agent, outcome>>
        BY <2>1, <2>3 DEF agent, TypeInv, TalkType, LoopType
    <2> QED BY <1>5, <2>2, <2>3 DEF Extract
<1>6. CASE Validate
    <2>1. UNCHANGED <<i, spec, workdir, steps>> /\ unheard' \in BOOLEAN
        BY <1>6 DEF Validate, GoesUnheard, TypeInv, LoopType
    <2>2. CASE Invalid
        BY <2>1, <2>2, InvalidType DEF TypeInv, LoopType
    <2>3. CASE Returns(TRUE, FALSE) /\ UNCHANGED agent
        <3>1. TalkType'
            BY <2>3 DEF agent, TypeInv, TalkType
        <3> QED BY <2>1, <2>3, <3>1, ReturnsType DEF TypeInv, LoopType
    <2> QED BY <1>6, <2>2, <2>3 DEF Validate
<1>7. CASE Converse
    BY <1>7, AgentKeepsType DEF Converse, TypeInv, LoopType
<1>8. CASE Repaired
    BY <1>8, MaxFixAssumption DEF Repaired, NextAttempt, agent, TypeInv, TalkType, LoopType
<1>9. CASE UNCHANGED vars
    BY <1>9 DEF vars, agent, TypeInv, TalkType, LoopType
<1> QED BY <1>1, <1>2, <1>3, <1>4, <1>5, <1>6, <1>7, <1>8, <1>9 DEF Next

LEMMA TypeInvariant == Spec => []TypeInv
BY TypeInit, TypeStep, PTL DEF Spec

\* Every variable stays in its range: no more attempts are made than -max-fix allows
\* (fix.go:119-150).
THEOREM TypeCorrect == Spec => []TypeOK
BY TypeInvOK, TypeInvariant, PTL

-----------------------------------------------------------------------------
(***************************************************************************)
(* The message list.  While tools run it ends in a reply and the responses *)
(* to the calls of it that were reached; what is left of the reply is in   *)
(* todo.  A conversation that failed is never taken up again.              *)
(***************************************************************************)
AnsweredAt(m, k) ==
    m[k].role = "ai" => \A j \in DOMAIN m[k].calls : k + j \in DOMAIN m /\ m[k + j] = Tool(m[k].calls[j])

\* Reply p of m is the last, and its calls from s on have no response yet.
Pending(m, s, p) ==
    /\ p \in 1..Len(m) /\ Len(m[p].calls) = Len(m) - p + Len(s)
    /\ \A j \in 1..Len(s) : s[j] = m[p].calls[Len(m) - p + j]
    /\ \A j \in 1..(Len(m) - p) : m[p + j] = Tool(m[p].calls[j])
    /\ \A k \in 1..(p - 1) : AnsweredAt(m, k)

TalkInv ==
    /\ talk \notin {"exec", "failed"} => Answered(messages)
    /\ talk = "exec" => \E p \in 1..Len(messages) : Pending(messages, todo, p)
    /\ pc \in {"check", "extract", "validate"} => talk \in {"idle", "answered"}

LEMMA AnsweredSplit ==
    ASSUME NEW m \in Seq(Message)
    PROVE  Answered(m) <=> \A k \in 1..Len(m) : AnsweredAt(m, k)
BY LenProperties DEF Answered, AnsweredAt

\* A message that follows does not take an answer away.
LEMMA AnsweredStays ==
    ASSUME NEW m \in Seq(Message), NEW x \in Message, NEW k \in 1..Len(m), AnsweredAt(m, k)
    PROVE  AnsweredAt(Append(m, x), k)
<1>1. /\ Append(m, x) \in Seq(Message) /\ Len(Append(m, x)) = Len(m) + 1
      /\ \A n \in 1..Len(m) : Append(m, x)[n] = m[n]
    BY AppendProperties
<1>2. DOMAIN m = 1..Len(m) /\ DOMAIN Append(m, x) = 1..(Len(m) + 1) /\ Len(m) \in Nat
    BY <1>1, LenProperties
<1> QED BY <1>1, <1>2 DEF AnsweredAt

\* Nor does one that calls no tool ask for another.
LEMMA AnsweredAppend ==
    ASSUME NEW m \in Seq(Message), NEW x \in Message, Answered(m), x.role # "ai" \/ x.calls = <<>>
    PROVE  Answered(Append(m, x))
<1>1. /\ Append(m, x) \in Seq(Message) /\ Len(Append(m, x)) = Len(m) + 1 /\ Len(m) \in Nat
      /\ Append(m, x)[Len(m) + 1] = x
    BY AppendProperties, LenProperties
<1>2. AnsweredAt(Append(m, x), Len(m) + 1)
    BY <1>1 DEF AnsweredAt
<1>3. \A k \in 1..Len(m) : AnsweredAt(Append(m, x), k)
    BY AnsweredSplit, AnsweredStays
<1>4. \A k \in 1..(Len(m) + 1) : AnsweredAt(Append(m, x), k)
    BY <1>1, <1>2, <1>3
<1> QED BY <1>1, <1>4, AnsweredSplit

LEMMA PendingReply ==
    ASSUME NEW m \in Seq(Message), NEW s \in Seq(Calls), Answered(m)
    PROVE  Pending(Append(m, Reply(s)), s, Len(m) + 1)
<1>1. /\ Reply(s) \in Message /\ Len(Append(m, Reply(s))) = Len(m) + 1 /\ Len(m) \in Nat /\ Len(s) \in Nat
      /\ Append(m, Reply(s))[Len(m) + 1] = Reply(s) /\ Reply(s).calls = s
    BY MessageTypes, AppendProperties, LenProperties DEF Reply
<1>2. \A k \in 1..Len(m) : AnsweredAt(Append(m, Reply(s)), k)
    BY <1>1, AnsweredSplit, AnsweredStays
<1> QED BY <1>1, <1>2 DEF Pending

LEMMA PendingTool ==
    ASSUME NEW m \in Seq(Message), NEW s \in Seq(Calls), s # <<>>, NEW p \in 1..Len(m), Pending(m, s, p)
    PROVE  Pending(Append(m, Tool(Head(s))), Tail(s), p)
<1> DEFINE x == Tool(Head(s))
           n == Append(m, x)
<1>1. /\ Len(m) \in Nat /\ Len(s) \in Nat /\ Len(s) >= 1 /\ Head(s) \in Calls /\ Head(s) = s[1]
      /\ Len(Tail(s)) = Len(s) - 1 /\ \A j \in 1..(Len(s) - 1) : Tail(s)[j] = s[j + 1]
    BY LenProperties, EmptySeq, HeadTailProperties
<1>2. x = Tool(Head(s)) /\ x \in Message
    BY <1>1, MessageTypes
<1>3. n = Append(m, x) /\ Len(n) = Len(m) + 1 /\ n[Len(m) + 1] = x /\ \A k \in 1..Len(m) : n[k] = m[k]
    BY <1>2, AppendProperties
<1> HIDE DEF x, n
<1>4. p \in 1..Len(n) /\ Len(n[p].calls) = Len(n) - p + Len(Tail(s))
    <2>1. Len(m[p].calls) = Len(m) - p + Len(s) /\ n[p] = m[p] /\ p \in Nat /\ p <= Len(m) + 1 /\ p >= 1
        BY <1>1, <1>3 DEF Pending
    <2>2. Len(m) - p + Len(s) = (Len(m) + 1) - p + (Len(s) - 1)
        BY <1>1, <2>1
    <2>3. Len(n[p].calls) = Len(n) - p + Len(Tail(s))
        BY <1>1, <1>3, <2>1, <2>2
    <2>4. p \in 1..Len(n)
        BY <1>1, <1>3, <2>1
    <2> QED BY <2>3, <2>4
<1>5. \A j \in 1..Len(Tail(s)) : Tail(s)[j] = n[p].calls[Len(n) - p + j]
    <2> SUFFICES ASSUME NEW j \in 1..(Len(s) - 1) PROVE s[j + 1] = n[p].calls[Len(n) - p + j]
        BY <1>1
    <2>1. j + 1 \in 1..Len(s) /\ Len(n) - p + j = Len(m) - p + (j + 1) /\ n[p] = m[p]
        BY <1>1, <1>3
    <2> QED BY <2>1 DEF Pending
<1>6. \A j \in 1..(Len(n) - p) : n[p + j] = Tool(n[p].calls[j])
    <2> SUFFICES ASSUME NEW j \in 1..(Len(m) + 1 - p) PROVE n[p + j] = Tool(m[p].calls[j])
        BY <1>3
    <2>1. CASE j \in 1..(Len(m) - p)
        <3>1. p + j \in 1..Len(m)
            BY <1>1, <2>1
        <3> QED BY <1>3, <2>1, <3>1 DEF Pending
    <2>2. CASE j = Len(m) - p + 1
        <3>1. 1 \in 1..Len(s) /\ p + j = Len(m) + 1
            BY <1>1, <2>2
        <3>2. s[1] = m[p].calls[Len(m) - p + 1]
            BY <3>1 DEF Pending
        <3> QED BY <1>1, <1>2, <1>3, <2>2, <3>1, <3>2
    <2> QED BY <1>1, <2>1, <2>2
<1>7. \A k \in 1..(p - 1) : AnsweredAt(n, k)
    <2>1. ASSUME NEW k \in 1..(p - 1) PROVE k \in 1..Len(m) /\ AnsweredAt(m, k)
        BY <1>1 DEF Pending
    <2> QED BY <1>2, <1>3, <2>1, AnsweredStays
<1>8. Pending(n, Tail(s), p)
    BY <1>4, <1>5, <1>6, <1>7 DEF Pending
<1> QED BY <1>8 DEF n, x

LEMMA PendingDone ==
    ASSUME NEW m \in Seq(Message), NEW p \in 1..Len(m), Pending(m, <<>>, p)
    PROVE  Answered(m)
<1> DEFINE c == m[p].calls
<1>1. Len(m) \in Nat /\ DOMAIN m = 1..Len(m) /\ m[p] \in Message /\ Len(<<>>) = 0
    BY LenProperties, ElementOfSeq, EmptySeq
<1>2. c \in Seq(Calls) /\ Len(c) = Len(m) - p + Len(<<>>)
    BY <1>1 DEF Pending, Message
<1>3. \A j \in 1..(Len(m) - p) : m[p + j] = Tool(c[j])
    BY DEF Pending
<1> HIDE DEF c
<1>4. DOMAIN c = 1..(Len(m) - p)
    BY <1>1, <1>2, LenProperties
<1>5. \A j \in DOMAIN c : p + j \in DOMAIN m /\ m[p + j] = Tool(c[j])
    <2> SUFFICES ASSUME NEW j \in 1..(Len(m) - p) PROVE p + j \in DOMAIN m /\ m[p + j] = Tool(c[j])
        BY <1>4
    <2> QED BY <1>1, <1>3
<1>6. AnsweredAt(m, p)
    BY <1>5 DEF AnsweredAt, c
<1>7. ASSUME NEW k \in 1..Len(m), k > p PROVE AnsweredAt(m, k)
    <2>1. k - p \in 1..(Len(m) - p) /\ p + (k - p) = k
        BY <1>1, <1>7
    <2>2. m[k] = Tool(c[k - p])
        BY <1>3, <2>1
    <2> QED BY <2>2 DEF AnsweredAt, Tool
<1>8. \A k \in 1..(p - 1) : AnsweredAt(m, k)
    BY DEF Pending
<1>9. \A k \in 1..Len(m) : AnsweredAt(m, k)
    BY <1>1, <1>6, <1>7, <1>8
<1> QED BY <1>9, AnsweredSplit

LEMMA AgentKeepsTalk ==
    ASSUME TypeInv, TalkInv, Converse
    PROVE  TalkInv'
<1>1. pc = "ask" /\ pc' = "ask" /\ AgentStep
    BY DEF Converse
<1>2. CASE QueryAnswers
    <2>1. Reply(<<>>) \in Message /\ Reply(<<>>).calls = <<>>
        BY MessageTypes, EmptySeq DEF Reply
    <2> QED BY <1>1, <1>2, <2>1, AnsweredAppend DEF QueryAnswers, TypeInv, TalkType, TalkInv
<1>3. CASE QueryCalls
    <2>1. PICK s \in Seq(Calls) : messages' = Append(messages, Reply(s)) /\ todo' = s
        BY <1>3, CallListType, LimitsAssumption DEF QueryCalls
    <2>2. Pending(messages', todo', Len(messages) + 1) /\ talk' = "exec"
        BY <1>3, <2>1, PendingReply DEF QueryCalls, TypeInv, TalkType, TalkInv
    <2> QED BY <1>1, <2>2 DEF TalkInv, Pending
<1>4. CASE ExecTool
    <2>1. PICK p \in 1..Len(messages) : Pending(messages, todo, p)
        BY <1>4 DEF ExecTool, TalkInv
    <2>2. Pending(messages', todo', p) /\ talk' = "exec"
        BY <1>4, <2>1, PendingTool DEF ExecTool, TypeInv, TalkType
    <2> QED BY <1>1, <2>2 DEF TalkInv, Pending
<1>5. CASE ExecDone
    <2>1. PICK p \in 1..Len(messages) : Pending(messages, <<>>, p)
        BY <1>5 DEF ExecDone, TalkInv
    <2> QED BY <1>1, <1>5, <2>1, PendingDone DEF ExecDone, TypeInv, TalkType, TalkInv
<1>6. CASE QueryFails \/ ExecFails
    BY <1>1, <1>6 DEF QueryFails, ExecFails, TalkInv
<1> QED BY <1>1, <1>2, <1>3, <1>4, <1>5, <1>6 DEF AgentStep

LEMMA TalkStep ==
    ASSUME TypeInv, TalkInv, [Next]_vars
    PROVE  TalkInv'
<1>1. CASE Start
    <2>1. messages' = <<System>> /\ talk' = "idle"
        BY <1>1 DEF Start, NewConversation
    <2>2. <<System>> \in Seq(Message) /\ Len(<<System>>) = 1 /\ <<System>>[1] = System
        BY MessageTypes
    <2>3. Answered(<<System>>)
        <3>1. AnsweredAt(<<System>>, 1)
            BY <2>2 DEF AnsweredAt, System
        <3>2. \A k \in 1..1 : k = 1
            OBVIOUS
        <3>3. \A k \in 1..Len(<<System>>) : AnsweredAt(<<System>>, k)
            BY <2>2, <3>1, <3>2, Zenon
        <3> HIDE DEF System
        <3> QED BY <2>2, <3>3, AnsweredSplit, Zenon
    <2> QED BY <2>1, <2>3 DEF TalkInv
<1>2. ASSUME Invalid, pc \in {"extract", "validate"}
      PROVE  TalkInv'
    <2>1. CASE AttemptsLeft
        <3>1. pc' = "ask" /\ messages' = Append(messages, Human) /\ talk' = "query"
            BY <1>2, <2>1 DEF Invalid, Ask
        <3>2. Answered(messages')
            BY <1>2, <3>1, MessageTypes, AnsweredAppend DEF TypeInv, TalkType, TalkInv, Human
        <3> QED BY <3>1, <3>2 DEF TalkInv
    <2>2. CASE ~AttemptsLeft
        BY <1>2, <2>2 DEF Invalid, Returns, agent, TalkInv
    <2> QED BY <2>1, <2>2
<1>3. CASE Extract
    <2>1. CASE Invalid
        BY <1>2, <1>3, <2>1 DEF Extract
    <2>2. CASE UNCHANGED agent /\ pc' = "validate"
        BY <1>3, <2>2 DEF Extract, agent, TalkInv
    <2> QED BY <1>3, <2>1, <2>2 DEF Extract
<1>4. CASE Validate
    <2>1. CASE Invalid
        BY <1>2, <1>4, <2>1 DEF Validate
    <2>2. CASE UNCHANGED agent /\ pc' = "done"
        BY <1>4, <2>2 DEF agent, TalkInv
    <2> QED BY <1>4, <2>1, <2>2 DEF Validate, Returns
<1>5. CASE Converse
    BY <1>5, AgentKeepsTalk
<1>6. CASE RefuseEmpty \/ Prepare \/ PrepareFails \/ Repaired \/ NotRepaired
    BY <1>6 DEF RefuseEmpty, Prepare, PrepareFails, Repaired, NotRepaired, Returns, agent, TalkInv
<1>7. CASE UNCHANGED vars
    BY <1>7 DEF vars, agent, TalkInv
<1> QED BY <1>1, <1>3, <1>4, <1>5, <1>6, <1>7 DEF Next

LEMMA TalkInvariant == Spec => [](TypeInv /\ TalkInv)
<1>1. Init => TalkInv
    BY DEF Init, AgentInit, TalkInv, Answered
<1> QED BY <1>1, TalkStep, TypeInvariant, PTL DEF Spec

\* Whenever the model is asked, every tool call in the conversation has its response
\* (agent.go:154-171).
THEOREM ModelIsAskedWellFormed == Spec => []QueryIsWellFormed
<1>1. TalkInv => QueryIsWellFormed
    BY DEF TalkInv, QueryIsWellFormed
<1> QED BY <1>1, TalkInvariant, PTL

-----------------------------------------------------------------------------
(***************************************************************************)
(* A call that repeats itself.  When a call is added, the window that      *)
(* RepeatSameTool looks at is the part of the history a longer run of      *)
(* equal calls would end in.                                               *)
(***************************************************************************)
LEMMA RepeatIsStopped ==
    ASSUME TypeInv, NoLongRepeat, ~RepeatSameTool, NEW c \in Calls, hist' = Append(hist, c)
    PROVE  NoLongRepeat'
<1>1. /\ Len(hist) \in Nat /\ DOMAIN hist = 1..Len(hist) /\ MaxSame \in Nat \ {0}
      /\ Len(hist') = Len(hist) + 1 /\ hist'[Len(hist) + 1] = c /\ \A n \in 1..Len(hist) : hist'[n] = hist[n]
    BY LenProperties, AppendProperties, LimitsAssumption DEF TypeInv, TalkType
<1> SUFFICES ASSUME NEW k \in 1..(Len(hist) + 1), k + MaxSame <= Len(hist) + 1,
                    \A j \in 1..MaxSame : hist'[k + j] = hist'[k]
             PROVE  FALSE
    BY <1>1 DEF NoLongRepeat
<1>2. CASE k + MaxSame <= Len(hist)
    <2>1. k \in 1..Len(hist) /\ \A j \in 1..MaxSame : k + j \in 1..Len(hist)
        BY <1>1, <1>2
    <2> QED BY <1>1, <1>2, <2>1 DEF NoLongRepeat
<1>3. CASE k + MaxSame = Len(hist) + 1
    <2>1. Window = k..Len(hist) /\ k \in 1..Len(hist)
        BY <1>1, <1>3 DEF Window
    <2>2. ASSUME NEW n \in k..Len(hist) PROVE hist[n] = hist[k]
        <3>1. n = k \/ (n - k \in 1..MaxSame /\ k + (n - k) = n)
            BY <1>1, <1>3, <2>1
        <3>2. n \in 1..Len(hist)
            BY <1>1, <2>1
        <3> QED BY <1>1, <2>1, <3>1, <3>2
    <2>3. hist # <<>> /\ Len(hist) \in k..Len(hist) /\ hist[Len(hist)] = hist[k]
        BY <1>1, <2>1, <2>2, EmptySeq
    <2>4. {n \in Window : SameCall(hist[n], hist[Len(hist)])} = k..Len(hist)
        BY <2>1, <2>2, <2>3 DEF SameCall
    <2>5. Cardinality(k..Len(hist)) = MaxSame
        <3>1. k \in Int /\ Len(hist) \in Int /\ k <= Len(hist) /\ Len(hist) - k + 1 = MaxSame
            BY <1>1, <1>3, <2>1
        <3> QED BY <3>1, FS_Interval
    <2>6. \A n \in Window : hist[n].name = hist[Len(hist)].name
        BY <2>1, <2>2, <2>3
    <2>7. Cardinality({n \in Window : SameCall(hist[n], hist[Len(hist)])}) >= MaxSame
        <3>1. MaxSame >= MaxSame
            BY <1>1
        <3> QED BY <2>4, <2>5, <3>1, Zenon
    <2> QED BY <2>3, <2>6, <2>7, Zenon DEF RepeatSameTool
<1> QED BY <1>1, <1>2, <1>3

\* One call is not executed more than MaxSame times in a row in a conversation
\* (agent.go:182-186), over every question the fix loop asks in it.
THEOREM RepeatsAreBounded == Spec => []NoLongRepeat
<1>1. Init => NoLongRepeat
    BY DEF Init, AgentInit, NoLongRepeat
<1>2. ASSUME TypeInv, NoLongRepeat, [Next]_vars PROVE NoLongRepeat'
    <2>1. CASE Converse /\ ExecTool
        <3>1. Head(todo) \in Calls /\ hist' = Append(hist, Head(todo)) /\ ~RepeatSameTool
            BY <1>2, <2>1, HeadTailProperties DEF ExecTool, Stuck, TypeInv, TalkType
        <3> QED BY <1>2, <3>1, RepeatIsStopped
    <2>2. CASE Start
        <3>1. hist' = <<>>
            BY <2>2 DEF Start, NewConversation
        <3> QED BY <3>1, EmptySeq DEF NoLongRepeat
    <2>3. CASE ~(Converse /\ ExecTool) /\ ~Start
        <3>1. UNCHANGED hist
            BY <1>2, <2>3
               DEF Next, RefuseEmpty, Prepare, PrepareFails, Extract, Validate, Invalid, Ask, Repaired, NotRepaired,
                   Converse, AgentStep, QueryAnswers, QueryCalls, QueryFails, ExecFails, ExecDone, vars, agent
        <3> QED BY <1>2, <3>1 DEF NoLongRepeat
    <2> QED BY <2>1, <2>2, <2>3
<1> QED BY <1>1, <1>2, TypeInvariant, PTL DEF Spec

-----------------------------------------------------------------------------
(***************************************************************************)
(* The verdict.  From Prepare to the end of the check the workdir holds    *)
(* the text at hand and nothing else.                                      *)
(***************************************************************************)
CheckInv ==
    /\ pc \in {"extract", "validate"} => workdir = {spec}
    /\ pc # "done" => ~outcome.valid
    /\ pc = "ask" => spec \notin Good
    /\ ValidWasChecked

LEMMA CheckStep ==
    ASSUME CheckInv, [Next]_vars
    PROVE  CheckInv'
<1>1. CASE Start
    BY <1>1 DEF Start, NoOutcome, CheckInv, ValidWasChecked
<1>2. CASE RefuseEmpty \/ NotRepaired
    BY <1>2 DEF RefuseEmpty, NotRepaired, Returns, CheckInv, ValidWasChecked
<1>3. CASE Prepare
    BY <1>3 DEF Prepare, Restored, CheckInv, ValidWasChecked
<1>4. CASE PrepareFails
    BY <1>4 DEF PrepareFails, Returns, CheckInv, ValidWasChecked
<1>5. CASE Extract
    <2>1. pc = "extract" /\ UNCHANGED <<spec, workdir>> /\ workdir = {spec} /\ ~outcome.valid
        BY <1>5 DEF Extract, CheckInv
    <2>2. CASE pc' = "validate" /\ UNCHANGED outcome
        BY <2>1, <2>2 DEF CheckInv, ValidWasChecked
    <2>3. CASE ~Silent(Extractable) /\ Invalid
        BY <2>1, <2>3, TextsAssumption DEF Silent, Invalid, Returns, CheckInv, ValidWasChecked
    <2> QED BY <1>5, <2>2, <2>3 DEF Extract
<1>6. CASE Validate
    <2>1. pc = "validate" /\ UNCHANGED <<spec, workdir>> /\ workdir = {spec} /\ ~outcome.valid
        BY <1>6 DEF Validate, CheckInv
    <2>2. Accepted <=> spec \in Good \cup {Empty}
        BY <2>1, FS_Singleton DEF Accepted
    <2>3. CASE Accepted /\ Returns(TRUE, FALSE)
        BY <2>1, <2>2, <2>3 DEF Returns, CheckInv, ValidWasChecked
    <2>4. CASE GoesUnheard /\ Returns(TRUE, FALSE)
        BY <2>1, <2>4 DEF GoesUnheard, Returns, CheckInv, ValidWasChecked
    <2>5. CASE ~Accepted /\ Invalid
        BY <2>1, <2>2, <2>5 DEF Invalid, Returns, CheckInv, ValidWasChecked
    <2> QED BY <1>6, <2>3, <2>4, <2>5 DEF Validate
<1>7. CASE Converse
    BY <1>7 DEF Converse, CheckInv, ValidWasChecked
<1>8. CASE Repaired
    BY <1>8 DEF Repaired, CheckInv, ValidWasChecked
<1>9. CASE UNCHANGED vars
    BY <1>9 DEF vars, CheckInv, ValidWasChecked
<1> QED BY <1>1, <1>2, <1>3, <1>4, <1>5, <1>6, <1>7, <1>8, <1>9 DEF Next

LEMMA CheckInvariant == Spec => []CheckInv
<1>1. Init => CheckInv
    BY DEF Init, NoOutcome, CheckInv, ValidWasChecked
<1> QED BY <1>1, CheckStep, PTL DEF Spec

\* A text fixSpec returns as valid was approved by both tools, alone in the workdir,
\* unless one of them went unheard in that check (fix.go:119-150, fix.go:153-214).
THEOREM ValidIsChecked == Spec => []ValidWasChecked
<1>1. CheckInv => ValidWasChecked
    BY DEF CheckInv
<1> QED BY <1>1, CheckInvariant, PTL

\* The agent is never asked to repair a good text, whatever earlier attempts and fix
\* steps left in the workdir (fix.go:159).
THEOREM GoodIsLeftAlone == Spec => []GoodNotRepaired
<1>1. CheckInv => GoodNotRepaired
    BY DEF CheckInv, GoodNotRepaired
<1> QED BY <1>1, CheckInvariant, PTL
=============================================================================
