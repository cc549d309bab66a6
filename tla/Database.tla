------------------------------ MODULE Database ------------------------------
(***************************************************************************)
(* src/src/pkg/database/db.go: the queries on the tables the analyzer has  *)
(* filled.  A row has the key its table is unique by (name, file, line,    *)
(* and for a typedef its old name), the columns beside it (sort: the type  *)
(* of a record, the specifier of an enumerator), and its id.               *)
(*                                                                         *)
(* Every operator takes the set of committed rows: a query reads one       *)
(* snapshot of the database.                                               *)
(***************************************************************************)
EXTENDS Naturals

CONSTANTS
    NotFound,  \* ErrRecordNotFound
    Glob       \* the pairs <<pattern, name>> SQLite's GLOB matches

LastOf(rows) ==
    IF rows = {} THEN NotFound ELSE CHOOSE r \in rows : \A q \in rows : q.id <= r.id

\* gorm's First: the row with the least id.  The query is taken to succeed: one that fails
\* leaves Id at zero and is answered as if there were no row.
First(rows) ==
    IF rows = {} THEN NotFound ELSE CHOOSE r \in rows : \A q \in rows : r.id <= q.id

Named(db, table, name) == {r \in db : r.table = table /\ r.key.name = name}

GetFunction(db, name)  == First(Named(db, "functions", name))
GetGlobalVar(db, name) == First(Named(db, "globalVars", name))
GetTypedef(db, define) == First(Named(db, "typedefs", define))

AnyRecord(db, name, type) == First(Named(db, "records", name))

GetRecordOf(db, name, type) == First({r \in Named(db, "records", name) : r.rest.sort = type})

GetStruct(db, name) == GetRecordOf(db, name, "struct")
GetUnion(db, name)  == GetRecordOf(db, name, "union")

GetEnumByEnumerator(db, enumerator) == First(Named(db, "enums", enumerator))

GetEnumBySpecifier(db, specifier) ==
    First({r \in db : r.table = "enums" /\ r.rest.sort = specifier})

GetMacroDefByName(db, name) == First(Named(db, "macroDefs", name))

GetMacroDefByPattern(db, pattern) ==
    {r \in db : r.table = "macroDefs" /\ <<pattern, r.key.name>> \in Glob}
=============================================================================
