------------------------------- MODULE Agent -------------------------------
(***************************************************************************)
(* Agent of src/src/pkg/agent/agent.go: a conversation with the model, in  *)
(* which the model may ask for tools before it answers, and the two limits *)
(* that stop a model that never gets to an answer.                         *)
(*                                                                         *)
(* The model is the environment.  Of a message only its role and the tool  *)
(* calls in it are kept; two calls have equal arguments when they are the  *)
(* same JSON object.                                                       *)
(***************************************************************************)
EXTENDS Naturals, Sequences, FiniteSets

CONSTANTS
    Calls,       \* the tool calls the model may make
    Tools,       \* the names in ToolMap
    MaxCalls,    \* calls in a conversation (25 in the code)
    MaxSame,     \* equal calls in a row (5 in the code)
    MaxPerReply  \* bound: tool calls in one reply

ASSUME CallsAssumption == \A c \in Calls : DOMAIN c = {"name", "args"}
ASSUME LimitsAssumption == {MaxCalls, MaxSame, MaxPerReply} \subseteq Nat \ {0}

VARIABLES
    talk,      \* "idle", "query", "exec", and the outcomes "answered" and "failed"
    messages,  \* Agent.Messages
    hist,      \* Agent.ToolCallHist
    todo       \* the calls of the last reply that ExecTools has not reached

agent == <<talk, messages, hist, todo>>

System   == [role |-> "system", calls |-> <<>>]
Human    == [role |-> "human", calls |-> <<>>]
Reply(s) == [role |-> "ai", calls |-> s]
Tool(c)  == [role |-> "tool", calls |-> <<c>>]

AgentInit == talk = "idle" /\ messages = <<>> /\ hist = <<>> /\ todo = <<>>

\* Purge, then AddSystemMessage.
NewConversation == messages' = <<System>> /\ hist' = <<>> /\ todo' = <<>>

\* AddHumanMessage, and the caller's loop around Query and ExecTools begins.
Ask == messages' = Append(messages, Human) /\ talk' = "query" /\ UNCHANGED <<hist, todo>>

-----------------------------------------------------------------------------
QueryAnswers ==
    /\ talk = "query" /\ talk' = "answered"
    /\ messages' = Append(messages, Reply(<<>>))
    /\ UNCHANGED <<hist, todo>>

QueryCalls ==
    /\ talk = "query" /\ talk' = "exec"
    /\ \E k \in 1..MaxPerReply : \E s \in [1..k -> Calls] :
          messages' = Append(messages, Reply(s)) /\ todo' = s
    /\ UNCHANGED hist

QueryFails ==
    /\ talk = "query" /\ talk' = "failed"
    /\ UNCHANGED <<messages, hist, todo>>

-----------------------------------------------------------------------------
WindowTooShort == {i \in DOMAIN hist : i + MaxSame > Len(hist) + 1}

\* The last call and those compared with it: MaxSame in all, or what there is.
Window == {i \in DOMAIN hist : i + MaxSame > Len(hist)}

SameCall(c, d) == c.args = d.args

RepeatSameTool ==
    /\ hist # <<>>
    /\ LET last == hist[Len(hist)] IN
          /\ \A i \in Window : hist[i].name = last.name
          /\ Cardinality({i \in Window : SameCall(hist[i], last)}) >= MaxSame

TooManyCalls == Len(hist) >= MaxCalls

Stuck == RepeatSameTool \/ TooManyCalls

ExecTool ==
    /\ talk = "exec" /\ todo # <<>>
    /\ ~Stuck
    /\ Head(todo).name \in Tools
    /\ messages' = Append(messages, Tool(Head(todo)))
    /\ hist' = Append(hist, Head(todo))
    /\ todo' = Tail(todo)
    /\ UNCHANGED talk

ExecSkipsFailed ==
    /\ talk = "exec" /\ todo # <<>>
    /\ todo' = Tail(todo)
    /\ UNCHANGED <<talk, messages, hist>>

ExecRetries == talk = "exec" /\ todo # <<>> /\ UNCHANGED agent

\* The limits are reached, there is no such tool, or the tool returns an error: the
\* calls that are left are not answered.
ExecFails ==
    /\ talk = "exec" /\ todo # <<>>
    /\ talk' = "failed"
    /\ UNCHANGED <<messages, hist, todo>>

ExecDone ==
    /\ talk = "exec" /\ todo = <<>>
    /\ talk' = "query"
    /\ UNCHANGED <<messages, hist, todo>>

AgentStep == QueryAnswers \/ QueryCalls \/ QueryFails \/ ExecTool \/ ExecFails \/ ExecDone

-----------------------------------------------------------------------------
(***************************************************************************)
(* Properties                                                              *)
(***************************************************************************)
AgentTypeOK ==
    /\ talk \in {"idle", "query", "exec", "answered", "failed"}
    /\ hist \in Seq(Calls) /\ todo \in Seq(Calls)
    /\ \A i \in DOMAIN messages :
          /\ messages[i].role \in {"system", "human", "ai", "tool"}
          /\ messages[i].calls \in Seq(Calls)

\* What a model's interface requires of the messages it is sent: the responses to the
\* calls of a reply follow it one by one, in order, before anything else.
Answered(m) ==
    \A i \in DOMAIN m : m[i].role = "ai" =>
        \A j \in DOMAIN m[i].calls : i + j \in DOMAIN m /\ m[i + j] = Tool(m[i].calls[j])

\* The model is only asked with a conversation in which every tool call has its response
\* (agent.go:154-171): a failed tool leaves some without, but the conversation ends there.
QueryIsWellFormed == talk = "query" => Answered(messages)

\* A model that repeats itself is stopped: one call is not executed more than MaxSame times
\* in a row (agent.go:182-186), over all the questions of a conversation.
NoLongRepeat ==
    \A i \in 1..Len(hist) :
        i + MaxSame <= Len(hist) => \E j \in 1..MaxSame : hist[i + j] # hist[i]
=============================================================================
