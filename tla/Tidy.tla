-------------------------------- MODULE Tidy --------------------------------
(***************************************************************************)
(* What is done with the specifications the generator has written:         *)
(* refactor (src/src/refactor/main.go) renames their elements into the     *)
(* directory it is given, the user copies that to sys/<os> of syzkaller    *)
(* (docs/README.md), and rmunused (src/src/rmunused/main.go) takes out, in *)
(* place, what no system call uses.                                        *)
(*                                                                         *)
(* A text is a sequence of nodes, or does not parse.  What the syzkaller   *)
(* compiler does, Typechecks and Unused, is external.                      *)
(***************************************************************************)
EXTENDS SyzAst, FiniteSets, SequencesExt

CONSTANTS
    Tokens,    \* what names are made of
    Inputs,    \* sequences of the directories of specs/, as filepath.Glob sorts them
    SysFiles,  \* what sys/<os> holds before: a function from file names to texts
    MaxFails   \* bound: writes that fail

\* "[" is in no name that is written: the compiler has it in the names of expansions.
ASSUME TokensAssumption == {"_", "$"} \subseteq Tokens /\ "[" \notin Tokens

Name == Seq(Tokens)

NodeSet == [kind : Kinds, name : Name, refs : Seq(Name), rest : Seq(Name)]

Texts == [parses : BOOLEAN, nodes : Seq(NodeSet)]

\* A directory that has to be looked into is named <variable>#<model>, as the generator
\* names it, and neither name has a "#" of its own.
ASSUME InputsAssumption ==
    \A input \in Inputs :
        /\ input \in Seq({input[i] : i \in DOMAIN input})
        /\ \A i \in DOMAIN input :
              /\ {"parts", "nested", "comp", "pool"} = DOMAIN input[i]
              /\ input[i].parts \in Seq(Name) /\ input[i].parts # <<>>
              /\ input[i].nested \in BOOLEAN
              /\ input[i].comp \in Seq(Texts) /\ Len(input[i].comp) <= 1
              /\ input[i].pool \in {"elements", "empty", "unreadable"}
        /\ \A i, j \in DOMAIN input :
              i # j /\ ~input[i].nested /\ ~input[j].nested
                 /\ Len(input[i].parts) >= 2 /\ Len(input[j].parts) >= 2
              => SubSeq(input[i].parts, 1, 2) # SubSeq(input[j].parts, 1, 2)
ASSUME SysFilesAssumption ==
    IsFiniteSet(DOMAIN SysFiles) /\ \A f \in DOMAIN SysFiles : SysFiles[f] \in Texts
ASSUME MaxFailsAssumption == MaxFails \in Nat

VARIABLES
    pc,      \* "refactor", "copy", "idle" between two runs of rmunused, "rewrite", "done", "panic"
    dirs,    \* specs/
    at,      \* how many of its directories refactor has been through
    out,     \* the directory refactor writes
    sys,     \* sys/<os>
    copied,  \* sys/<os> as it was after the copy
    plan,    \* rewriteMap: the files rmunused has still to write, with what goes into them
    torn,    \* the files that were cut short by a write that failed
    fails    \* writes that have failed

vars == <<pc, dirs, at, out, sys, copied, plan, torn, fails>>

Text(nodes) == [parses |-> TRUE, nodes |-> nodes]

NoFiles == [f \in {} |-> Text(<<>>)]

Put(dir, file, text) == [f \in DOMAIN dir \cup {file} |-> IF f = file THEN text ELSE dir[f]]

\* What os.WriteFile may leave behind when it fails: the file as it was, or a beginning of
\* the text, which may end in the middle of a node.
Cut(text) == {[parses |-> p, nodes |-> SubSeq(text.nodes, 1, k)] :
                 p \in BOOLEAN, k \in 0..Len(text.nodes)}

Init ==
    /\ pc = "refactor" /\ dirs \in Inputs /\ at = 0
    /\ out = NoFiles /\ sys = SysFiles /\ copied = SysFiles /\ plan = NoFiles
    /\ torn = {} /\ fails = 0

-----------------------------------------------------------------------------
(***************************************************************************)
(* refactor                                                                *)
(***************************************************************************)
Dir == dirs[at + 1]

\* The pattern has one "*": a directory of a model with a "/" in its name lies deeper, and
\* one whose entry is not finished has no spec#comp.txt.
Matches == ~Dir.nested /\ Dir.comp # <<>>

OutFile(dir) == <<"gen", dir.parts[1], dir.parts[2]>>

\* A text that does not parse is written as it is.
Refactored(dir) ==
    LET text == dir.comp[1] IN
    IF text.parses THEN Text(AddSuffix(text.nodes, dir.parts[1])) ELSE text

SkipTwo == pc = "refactor" /\ at < Len(dirs) /\ at' = at + 2
           /\ UNCHANGED <<pc, dirs, out, sys, copied, plan, torn, fails>>

Skip ==
    /\ pc = "refactor" /\ at < Len(dirs)
    /\ Matches => Len(Dir.parts) >= 2 /\ Dir.pool = "empty"
    /\ at' = at + 1
    /\ UNCHANGED <<pc, dirs, out, sys, copied, plan, torn, fails>>

RefactorPanics ==
    /\ pc = "refactor" /\ at < Len(dirs) /\ Matches
    /\ Len(Dir.parts) < 2 \/ Dir.pool = "unreadable"
    /\ pc' = "panic"
    /\ UNCHANGED <<dirs, at, out, sys, copied, plan, torn, fails>>

Refactor ==
    /\ pc = "refactor" /\ at < Len(dirs) /\ Matches
    /\ Len(Dir.parts) >= 2 /\ Dir.pool = "elements"
    /\ out' = Put(out, OutFile(Dir), Refactored(Dir))
    /\ at' = at + 1
    /\ UNCHANGED <<pc, dirs, sys, copied, plan, torn, fails>>

\* The error of os.WriteFile is ignored.
RefactorWriteFails ==
    /\ fails < MaxFails
    /\ pc = "refactor" /\ at < Len(dirs) /\ Matches
    /\ Len(Dir.parts) >= 2 /\ Dir.pool = "elements"
    /\ \/ UNCHANGED out
       \/ \E text \in Cut(Refactored(Dir)) : out' = Put(out, OutFile(Dir), text)
    /\ at' = at + 1 /\ fails' = fails + 1
    /\ UNCHANGED <<pc, dirs, sys, copied, plan, torn>>

RefactorEnds ==
    /\ pc = "refactor" /\ at = Len(dirs)
    /\ pc' = "copy"
    /\ UNCHANGED <<dirs, at, out, sys, copied, plan, torn, fails>>

\* cp refactored/* sys/linux, by the user.
Copy ==
    /\ pc = "copy" /\ pc' = "idle"
    /\ sys' = [f \in DOMAIN sys \cup DOMAIN out |-> IF f \in DOMAIN out THEN out[f] ELSE sys[f]]
    /\ copied' = sys'
    /\ UNCHANGED <<dirs, at, out, plan, torn, fails>>

-----------------------------------------------------------------------------
(***************************************************************************)
(* rmunused                                                                *)
(***************************************************************************)
\* The nodes of a sequence that are in a set.
Only(nodes, some) ==
    LET passed[i \in 0..Len(nodes)] ==
            IF i = 0 THEN <<>>
            ELSE IF nodes[i] \in some THEN Append(passed[i - 1], nodes[i]) ELSE passed[i - 1]
    IN  passed[Len(nodes)]

NodesIn(dir) == UNION {ToSet(dir[f].nodes) : f \in DOMAIN dir}

\* compiler.CollectUnused, external: the nodes no call leads to, whatever file they are in.
Leads(node) == ToSet(node.refs) \cup ToSet(node.rest)

UsedIn(nodes) ==
    LET Widened(r) == r \cup {n \in nodes : /\ n.kind # "call" /\ Defines(n)
                                            /\ \E u \in r : n.name \in Leads(u)}
        reached[k \in 0..Cardinality(nodes)] ==
            IF k = 0 THEN {n \in nodes : n.kind = "call"}
            ELSE UNION {Widened(r) : r \in {reached[k - 1]}}
    IN  reached[Cardinality(nodes)]

UnusedIn(nodes) == {n \in nodes : Defines(n)} \ UsedIn(nodes)

Unused(dir) == UnusedIn(NodesIn(dir))

\* Types and resources share their names; flags, and calls, have names of their own.
Space(node) == IF node.kind \in {"flags", "call"} THEN node.kind ELSE "type"

Places(dir) == UNION {{<<f, i>> : i \in DOMAIN dir[f].nodes} : f \in DOMAIN dir}

NodeAt(dir, p) == dir[p[1]].nodes[p[2]]

Clash(dir, p, q) ==
    /\ p # q
    /\ Defines(NodeAt(dir, p)) /\ Defines(NodeAt(dir, q))
    /\ NodeAt(dir, p).name = NodeAt(dir, q).name
    /\ Space(NodeAt(dir, p)) = Space(NodeAt(dir, q))

\* The compiler's typecheck, external: no name is declared twice and none is missing.
Typechecks(dir) ==
    /\ \A p, q \in Places(dir) : ~Clash(dir, p, q)
    /\ LET names == {n.name : n \in {m \in NodesIn(dir) : Defines(m)}} IN
          \A n \in NodesIn(dir) : Leads(n) \subseteq names

\* ... which also appends to the description, for each template that is used, what it was
\* expanded to, with the position of the template.
IsTemplate(node) == node.kind = "typedef" /\ node.rest # <<>>

Expansion(node) == [kind |-> "struct", name |-> node.name \o <<"[">>, refs |-> node.rest, rest |-> <<>>]

Described(dir, f, unused) ==
    LET templates == Only(dir[f].nodes, {n \in ToSet(dir[f].nodes) : IsTemplate(n)} \ unused)
    IN  dir[f].nodes \o [i \in DOMAIN templates |-> Expansion(templates[i])]

\* A name before a "[" that is the name of a template.
IsTypedefExpand(dir, node) ==
    /\ node.kind # "typedef" /\ Defines(node)
    /\ \E t \in NodesIn(dir) : t.kind = "typedef" /\ node.name = t.name \o <<"[">>

UnusedInFile(dir, f, unused) == UnusedIn(ToSet(dir[f].nodes))

UnusedNodes(dir, f, unused) == ToSet(dir[f].nodes) \cap unused

Kept(dir, f, unused) ==
    Only(Described(dir, f, unused),
         {n \in ToSet(Described(dir, f, unused)) : ~IsTypedefExpand(dir, n)} \ UnusedNodes(dir, f, unused))

\* The files with an unused node in them.  One with nothing else has no entry in rewriteMap.
Involved(dir, unused) == {f \in DOMAIN dir : UnusedNodes(dir, f, unused) # {} /\ Kept(dir, f, unused) # <<>>}

RewriteMap(dir, unused) == [f \in Involved(dir, unused) |-> Text(Kept(dir, f, unused))]

\* The parser, or the compiler, has a complaint.
Refused(dir) == (\E f \in DOMAIN dir : ~dir[f].parses) \/ ~Typechecks(dir)

Collect ==
    /\ pc = "idle" /\ ~Refused(sys)
    /\ \E unused \in {Unused(sys)} : plan' = RewriteMap(sys, unused)
    /\ pc' = "rewrite"
    /\ UNCHANGED <<dirs, at, out, sys, copied, torn, fails>>

CollectPanics ==
    /\ pc = "idle" /\ Refused(sys)
    /\ pc' = "panic"
    /\ UNCHANGED <<dirs, at, out, sys, copied, plan, torn, fails>>

WithoutAny(file) == NoFiles

Without(file) == [f \in DOMAIN plan \ {file} |-> plan[f]]

\* The range over rewriteMap comes in any order.
Rewrite ==
    /\ pc = "rewrite"
    /\ \E file \in DOMAIN plan :
          /\ sys' = [sys EXCEPT ![file] = plan[file]]
          /\ plan' = Without(file)
    /\ UNCHANGED <<pc, dirs, at, out, copied, torn, fails>>

\* rmunused panics on the first file it cannot write; the user runs it again.
RewriteFails ==
    /\ fails < MaxFails
    /\ pc = "rewrite"
    /\ \E file \in DOMAIN plan :
          \/ UNCHANGED <<sys, torn>>
          \/ \E text \in Cut(plan[file]) :
                sys' = [sys EXCEPT ![file] = text] /\ torn' = torn \cup {file}
    /\ plan' = NoFiles
    /\ pc' = "idle" /\ fails' = fails + 1
    /\ UNCHANGED <<dirs, at, out, copied>>

RewriteEnds ==
    /\ pc = "rewrite" /\ plan = NoFiles
    /\ pc' = "done"
    /\ UNCHANGED <<dirs, at, out, sys, copied, plan, torn, fails>>

-----------------------------------------------------------------------------
Next == \/ Skip \/ RefactorPanics \/ Refactor \/ RefactorWriteFails \/ RefactorEnds \/ Copy
        \/ Collect \/ CollectPanics \/ Rewrite \/ RewriteFails \/ RewriteEnds

\* The programs go on, and the user goes through the steps of the README, rmunused again
\* when it stopped at a file it could not write.
Spec == Init /\ [][Next]_vars /\ WF_vars(Next)

-----------------------------------------------------------------------------
(***************************************************************************)
(* Properties                                                              *)
(***************************************************************************)
FilesOK(dir) == \A f \in DOMAIN dir : dir[f] \in Texts

TypeOK ==
    /\ pc \in {"refactor", "copy", "idle", "rewrite", "done", "panic"}
    /\ dirs \in Inputs /\ at \in 0..Len(dirs) /\ fails \in 0..MaxFails
    /\ FilesOK(out) /\ FilesOK(sys) /\ FilesOK(plan)
    /\ DOMAIN plan \subseteq DOMAIN sys /\ torn \subseteq DOMAIN sys

Done(i) == i <= at /\ ~dirs[i].nested /\ dirs[i].comp # <<>> /\ OutFile(dirs[i]) \in DOMAIN out

\* In a specification that was renamed, a reference leads to the element it led to before,
\* and one to an element of sys/<os> is left alone (ast.go:24-44): also when flags and a
\* struct have one name and different ways to join it with the suffix.
RefsFollow ==
    \A k \in DOMAIN dirs : Done(k) /\ dirs[k].comp[1].parses =>
        LET old == dirs[k].comp[1].nodes
            new == out[OutFile(dirs[k])].nodes
        IN  \A i, j \in DOMAIN new : \A p \in DOMAIN old[i].refs :
                /\ (Defines(old[j]) /\ old[i].refs[p] = old[j].name) => new[i].refs[p] = new[j].name
                /\ Defining(old, old[i].refs[p]) = {} => new[i].refs[p] = old[i].refs[p]

\* rmunused takes nothing out that a call leads to, from whatever file, and puts nothing
\* in, at any point of a run and of those that stopped before it, as long as no file was
\* cut short (rmunused/main.go:46-78).
UsedKept ==
    torn = {} =>
        /\ DOMAIN sys = DOMAIN copied
        /\ \A f \in DOMAIN sys :
              sys[f].nodes = Only(copied[f].nodes, ToSet(sys[f].nodes))
        /\ \A n \in UsedIn(NodesIn(copied)) : \A f \in DOMAIN sys :
              n \in ToSet(copied[f].nodes) => n \in ToSet(sys[f].nodes)

Clean == \A f \in DOMAIN sys : UnusedNodes(sys, f, Unused(sys)) = {} \/ ToSet(sys[f].nodes) \subseteq Unused(sys)

\* Run again after it stopped, rmunused gets to an end at which a call leads to every
\* element, but for files that hold nothing a call leads to; or it refuses the directory.
TidyConverges == <>(pc = "panic" \/ (pc = "done" /\ Clean))

\* What docs/README.md:150 says refactor does: elements of the specifications of different
\* variables do not get in conflict.
NamesDistinct ==
    pc \in {"copy", "idle", "rewrite", "done"} =>
        \A p, q \in Places(out) : p[1] # q[1] => ~Clash(out, p, q)
=============================================================================
