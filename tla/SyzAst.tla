------------------------------- MODULE SyzAst -------------------------------
(***************************************************************************)
(* AddSuffix of src/src/pkg/ast/ast.go: every element a specification      *)
(* defines gets a new name that ends in a suffix, and what refers to it    *)
(* follows.                                                                *)
(*                                                                         *)
(* A specification is a sequence of nodes.  A node has a kind, the name it *)
(* defines, the names it refers to where updateNode looks for them (refs)  *)
(* and those where it does not: the body of a type template and the values *)
(* of flags (rest).  A name is a sequence of tokens, so that what joins    *)
(* name and suffix can be told from what was in the name before.           *)
(***************************************************************************)
EXTENDS Naturals, Sequences

Kinds == {"resource", "call", "flags", "struct", "typedef", "other"}

\* Nodes of the kind "other" (include, define, comment, ...) define no name.
Defines(node) == node.kind # "other"

\* strings.Contains(name, "$")
HasDollar(name) == \E i \in DOMAIN name : name[i] = "$"

FormatNewName(name, suffix) ==
    name \o <<IF HasDollar(name) THEN "_" ELSE "$">> \o suffix

NewName(node, suffix) ==
    IF node.kind \in {"resource", "flags"}
    THEN node.name \o <<"_">> \o suffix
    ELSE FormatNewName(node.name, suffix)

Defining(nodes, name) == {i \in DOMAIN nodes : Defines(nodes[i]) /\ nodes[i].name = name}

\* refs is a map by name alone: of a struct and of flags with one name, the node that
\* comes last decides for both.
Deciding(nodes, name) ==
    CHOOSE i \in Defining(nodes, name) : \A j \in Defining(nodes, name) : j <= i

Rename(nodes, suffix, name) ==
    IF Defining(nodes, name) = {} THEN name
    ELSE NewName(nodes[Deciding(nodes, name)], suffix)

\* A new name made for the node alone, whatever else is called the same.
UpdateNodeByKind(nodes, suffix, node) ==
    [node EXCEPT !.name = IF Defines(node) THEN NewName(node, suffix) ELSE @,
                 !.refs = [p \in DOMAIN node.refs |-> Rename(nodes, suffix, node.refs[p])]]

UpdateNode(nodes, suffix, node) ==
    [node EXCEPT !.name = IF Defines(node) THEN Rename(nodes, suffix, @) ELSE @,
                 !.refs = [p \in DOMAIN node.refs |-> Rename(nodes, suffix, node.refs[p])]]

AddSuffix(nodes, suffix) == [i \in DOMAIN nodes |-> UpdateNode(nodes, suffix, nodes[i])]
=============================================================================
