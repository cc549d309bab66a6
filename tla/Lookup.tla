------------------------------- MODULE Lookup -------------------------------
(***************************************************************************)
(* The analyzer and the agent's tools on one database: what a generator    *)
(* that asks while the analyzer writes, or after it, is told.  SQLite's    *)
(* write-ahead log lets readers see the committed rows at any time.        *)
(***************************************************************************)
EXTENDS Analyzer, AgentTools

AllNames == {r.key.name : r \in AllRows} \cup {r.rest.sort : r \in AllRows}

\* What the rows of the database can contain.
Findable == AllRows \cup {Contents(e) : e \in Earlier}

PossibleRows == [id : Nat, table : {TableNames[n] : n \in Tables},
                 key : {r.key : r \in Findable}, rest : {r.rest : r \in Findable}]

ASSUME NamesAssumption == Garbled \notin AllNames
ASSUME NotFoundAssumption == NotFound \notin PossibleRows
\* The tools that ask for a row by its own name; none asks for a record that is neither a
\* struct nor a union.
ToolsFor(r) ==
    CASE r.table = "functions"  -> {"get_func_code_by_name"}
      [] r.table = "records" /\ r.rest.sort = "struct" -> {"get_struct_code_by_name"}
      [] r.table = "records" /\ r.rest.sort = "union"  -> {"get_union_code_by_name"}
      [] r.table = "enums"      -> {"get_enum_code_by_enumerator"}
      [] r.table = "typedefs"   -> {"get_typedef_code_by_define"}
      [] r.table = "globalVars" -> {"get_global_var_code_by_name"}
      [] r.table = "macroDefs"  -> {"get_macro_def_code_by_name"}
      [] OTHER                  -> {}

-----------------------------------------------------------------------------
(***************************************************************************)
(* Properties                                                              *)
(***************************************************************************)
\* What a tool has once answered for a name it answers ever after, as long as its queries
\* succeed, although several rows have that name and the threads of the analyzer, or a second
\* analysis, put more beside them (db.go:93 takes the first by id); a pattern only gets more
\* answers.
LookupStable ==
    [][/\ \A tool \in ByName : \A name \in AllNames :
             Exec(db, tool, name) # NotFound => Exec(db', tool, name) = Exec(db, tool, name)
       /\ \A pattern \in {p[1] : p \in Glob} :
             Exec(db, ByPattern, pattern) \subseteq Exec(db', ByPattern, pattern)]_db

\* INSERT OR IGNORE has kept a record of another kind at the name, file and line of r: an old
\* database may be of a kernel that had a union there.
Hidden(r) ==
    \E q \in db : /\ r.table = "records" /\ q.table = "records"
                  /\ q.key = r.key /\ q.rest.sort # r.rest.sort

\* After an analysis without errors every name that was found is answered by the tool for
\* its kind, with the text of a row of that name and kind: a struct is not hidden by a union
\* of the same name in another file (db.go:120, 130), only by a record of another kind at the
\* very place it stands at (db.hpp:121).
LookupsFind ==
    main = "closed" /\ ~lost =>
        \A r \in AllRows : \A tool \in ToolsFor(r) :
            \/ Hidden(r)
            \/ \E q \in Findable :
                  /\ q.table = r.table /\ q.key.name = r.key.name
                  /\ q.table = "records" => q.rest.sort = r.rest.sort
                  /\ Exec(db, tool, r.key.name) = q.rest.text
=============================================================================
