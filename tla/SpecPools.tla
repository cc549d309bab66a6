----------------------------- MODULE SpecPools -----------------------------
(***************************************************************************)
(* SpecPool of src/src/pkg/pool/pool.go, and the two StageHelper helpers   *)
(* on pools, as operators.  A pool maps every name to its element or to    *)
(* Absent; the code of an element is left out, what matters of it being    *)
(* the kind of declaration it parses to (Kind) and whether it was checked. *)
(***************************************************************************)
CONSTANTS
    Names,     \* names of specification elements
    Kind,      \* the kind of syzlang declaration each name's code is
    SyzNames   \* the names already described under -sysdir

ElemTypes == {"include", "resource", "define", "init_syscall", "syscall",
              "flag", "struct", "union"}

\* What the parser can tell: a call is a "syscall", it knows no init_syscall.
SyntaxTypes == ElemTypes \ {"init_syscall"}

ASSUME KindAssumption == Kind \in [Names -> SyntaxTypes]
ASSUME SyzAssumption  == SyzNames \subseteq Names

Elem == [type : ElemTypes, valid : BOOLEAN]

Absent == [type |-> "none", valid |-> FALSE]

Pool == [Names -> Elem \cup {Absent}]

EmptyPool == [n \in Names |-> Absent]

Exists(p, n) == p[n] # Absent

IsEmptyPool(p) == \A n \in Names : ~Exists(p, n)

-----------------------------------------------------------------------------
Insert(p, n, e) == [p EXCEPT ![n] = e]

Difference(p, other) == [n \in Names |-> IF Exists(other, n) THEN Absent ELSE p[n]]

\* The other pool wins.
Merge(p, other) == [n \in Names |-> IF Exists(other, n) THEN other[n] ELSE p[n]]

SyncType(p, other) ==
    [n \in Names |-> IF Exists(p, n) /\ Exists(other, n)
                     THEN [p[n] EXCEPT !.type = other[n].type] ELSE p[n]]

HasType(p, type) == \E n \in Names : Exists(p, n) /\ p[n].type = type

AllValid(p) == \A n \in Names : Exists(p, n) => p[n].valid

\* NewSpecPoolFromSyzlang: one valid element per declaration of the text, the
\* type being the one its syntax shows.
Parsed(K) == [n \in Names |-> IF n \in K THEN [type |-> Kind[n], valid |-> TRUE] ELSE Absent]

ConsTypes == {"include", "resource", "init_syscall"}

ConsPool(p) == [n \in Names |-> IF p[n].type \in ConsTypes THEN p[n] ELSE Absent]

-----------------------------------------------------------------------------
\* May element e of the material replace element old of the Pool?
ReplacesAlways(e, old) == TRUE

Replaces(e, old) == ~old.valid /\ e.valid

\* StageHelper.UpdatePool: add what is new, replace only the invalid by the valid.
UpdatePool(p, material) ==
    [n \in Names |-> IF Exists(material, n) /\ (~Exists(p, n) \/ Replaces(material[n], p[n]))
                     THEN material[n] ELSE p[n]]
=============================================================================
