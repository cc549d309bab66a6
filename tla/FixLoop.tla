------------------------------ MODULE FixLoop ------------------------------
(***************************************************************************)
(* fixSpec and checkSpecValidity of src/src/pkg/stage/fix.go with the      *)
(* SpecCheck of src/src/pkg/check/check.go: a specification is put into    *)
(* the worker's copy of sysdir and checked by syz-extract and syz-check;   *)
(* while they complain, the agent is asked to repair it.                   *)
(*                                                                         *)
(* A specification is one of a few texts; what the tools say of a text is  *)
(* given by Extractable and Good.                                          *)
(***************************************************************************)
EXTENDS Agent

CONSTANTS
    Texts,           \* specifications
    Empty,           \* the text with nothing in it
    Extractable,     \* texts syz-extract says nothing about
    Good,            \* texts neither tool says anything about, alone in the workdir
    MaxFix,          \* -max-fix
    MayBeUnheard,    \* TRUE: nothing may be left of what a tool had to say
    RestoreMayFail,  \* TRUE: the files of the workdir may not be restored or written
    MaxSteps         \* bound: fix steps run one after the other with one agent

ASSUME TextsAssumption == Good \subseteq Extractable /\ Extractable \subseteq Texts /\ Empty \notin Texts
ASSUME MaxFixAssumption == MaxFix \in Nat /\ MaxSteps \in Nat
ASSUME ToolsAssumption == {MayBeUnheard, RestoreMayFail} \subseteq BOOLEAN

VARIABLES
    pc,       \* where fixSpec is; "done" between two fix steps
    i,        \* attempts made
    spec,     \* the text at hand
    workdir,  \* the texts added to the copy of sysdir
    outcome,  \* what fixSpec returned
    steps,    \* fix steps begun
    unheard   \* in the check at hand nothing was left of what a tool had to say

vars == <<agent, pc, i, spec, workdir, outcome, steps, unheard>>

NoOutcome == [valid |-> FALSE, err |-> FALSE, spec |-> Empty]

Init ==
    /\ AgentInit
    /\ pc = "done" /\ i = 0 /\ spec = Empty /\ workdir = {} /\ outcome = NoOutcome /\ steps = 0
    /\ unheard = FALSE

Returns(valid, err) ==
    /\ pc' = "done"
    /\ outcome' = [valid |-> valid, err |-> err, spec |-> IF err THEN Empty ELSE spec]

-----------------------------------------------------------------------------
Start ==
    /\ pc = "done" /\ steps < MaxSteps
    /\ NewConversation /\ talk' = "idle"
    /\ spec' \in Texts
    /\ pc' = "check" /\ i' = 0 /\ steps' = steps + 1 /\ outcome' = NoOutcome
    /\ UNCHANGED <<workdir, unheard>>

AttemptsLeftOneMore == i <= MaxFix

AttemptsLeft == i < MaxFix

\* The check of the loop refuses an empty text; the one after the loop does not.
RefuseEmpty ==
    /\ pc = "check" /\ AttemptsLeft /\ spec = Empty
    /\ Returns(FALSE, TRUE)
    /\ UNCHANGED <<agent, i, spec, workdir, steps, unheard>>

\* RestoreWorkdir copies sysdir afresh, AddSpec adds the text.
RestoredKeeping == workdir \cup {spec}

Restored == {spec}

Prepare ==
    /\ pc = "check" /\ (AttemptsLeft => spec # Empty)
    /\ workdir' = Restored /\ unheard' = FALSE
    /\ pc' = "extract"
    /\ UNCHANGED <<agent, i, spec, outcome, steps>>

\* checkSpecValidity returns no buffers.  The loop reads them for the error block and
\* panics; after the loop they are only printed, and the text counts as invalid.
PrepareFails ==
    /\ RestoreMayFail
    /\ pc = "check" /\ (AttemptsLeft => spec # Empty)
    /\ workdir' \in {{}, workdir}
    /\ IF AttemptsLeft THEN pc' = "panic" /\ UNCHANGED outcome ELSE Returns(FALSE, FALSE)
    /\ UNCHANGED <<agent, i, spec, steps, unheard>>

\* An empty text is valid: there is nothing in it to complain about.
Silent(texts) == spec \in texts \cup {Empty}

\* formatOutput takes no output for approval, and nothing is left of the output of a tool
\* that could not be started or was killed, nor of one whose first line is longer than the
\* scanner's buffer, nor when each line has "generating" in it.
GoesUnheard == MayBeUnheard /\ unheard' = TRUE

\* The tools said something: the agent is asked, unless the attempts are used up.
Invalid ==
    IF AttemptsLeft
    THEN pc' = "ask" /\ Ask /\ UNCHANGED outcome
    ELSE Returns(FALSE, FALSE) /\ UNCHANGED agent

Extract ==
    /\ pc = "extract"
    /\ \/ Silent(Extractable) /\ pc' = "validate" /\ UNCHANGED <<agent, outcome, unheard>>
       \/ GoesUnheard /\ pc' = "validate" /\ UNCHANGED <<agent, outcome>>
       \/ ~Silent(Extractable) /\ Invalid /\ UNCHANGED unheard
    /\ UNCHANGED <<i, spec, workdir, steps>>

\* syz-check reads every text of the workdir: two of them define the same names.
AcceptedAll == TRUE

Accepted == workdir \subseteq Good \cup {Empty} /\ Cardinality(workdir) = 1

Validate ==
    /\ pc = "validate"
    /\ \/ Accepted /\ Returns(TRUE, FALSE) /\ UNCHANGED <<agent, unheard>>
       \/ GoesUnheard /\ Returns(TRUE, FALSE) /\ UNCHANGED agent
       \/ ~Accepted /\ Invalid /\ UNCHANGED unheard
    /\ UNCHANGED <<i, spec, workdir, steps>>

-----------------------------------------------------------------------------
Converse ==
    /\ pc = "ask" /\ AgentStep
    /\ UNCHANGED <<pc, i, spec, workdir, outcome, steps, unheard>>

\* The first syzlang block of the answer, which may be empty, is the next text ...
NextAttemptUncounted == i

NextAttempt == i + 1

Repaired ==
    /\ pc = "ask" /\ talk = "answered"
    /\ spec' \in Texts \cup {Empty}
    /\ i' = NextAttempt
    /\ pc' = "check"
    /\ UNCHANGED <<agent, workdir, outcome, steps, unheard>>

\* ... or there is none, or the conversation failed.
NotRepaired ==
    /\ pc = "ask" /\ talk \in {"answered", "failed"}
    /\ Returns(FALSE, TRUE)
    /\ UNCHANGED <<agent, i, spec, workdir, steps, unheard>>

-----------------------------------------------------------------------------
Next == \/ Start \/ RefuseEmpty \/ Prepare \/ PrepareFails \/ Extract \/ Validate
        \/ Converse \/ Repaired \/ NotRepaired

\* A fix step that was begun goes on: the tools and the model's interface return.
Spec == Init /\ [][Next]_vars /\ WF_vars(pc # "done" /\ Next)

-----------------------------------------------------------------------------
(***************************************************************************)
(* Properties                                                              *)
(***************************************************************************)
TypeOK ==
    /\ AgentTypeOK
    /\ pc \in {"done", "check", "extract", "validate", "ask", "panic"}
    /\ i \in 0..MaxFix /\ steps \in 0..MaxSteps
    /\ spec \in Texts \cup {Empty} /\ workdir \subseteq Texts \cup {Empty}
    /\ unheard \in BOOLEAN
    /\ outcome \in [valid : BOOLEAN, err : BOOLEAN, spec : Texts \cup {Empty}]

\* A text fixSpec returns as valid is one both tools approved of, unless one went unheard
\* in the very check that accepted it; one that went unheard in an earlier check or fix
\* step does not count.  ExecFixStep marks every element as checked for good (fix.go:82-91).
ValidWasChecked == outcome.valid /\ ~unheard => outcome.spec \in Good \cup {Empty}

\* The agent is never asked to repair a text that is good: what earlier attempts and
\* earlier fix steps left in the workdir is gone (fix.go:159).
GoodNotRepaired == pc = "ask" /\ talk \in {"query", "exec"} => spec \notin Good

\* A fix step ends, whatever the model answers, with a result or with a panic.
FixEnds == pc # "done" ~> pc \in {"done", "panic"}
=============================================================================
