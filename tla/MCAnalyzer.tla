----------------------------- MODULE MCAnalyzer -----------------------------
(***************************************************************************)
(* Instance of Lookup: two threads and three files.  A struct of a header  *)
(* is found twice, once with other text; one file has a union of its name, *)
(* and a static function has the name of another file's.  An old database  *)
(* has a union where the struct stands now.                                *)
(***************************************************************************)
EXTENDS Lookup

Key(name, file, line) == [name |-> name, file |-> file, line |-> line]
Rest(sort, text) == [sort |-> sort, text |-> text]
Entry(name, file, line, sort, text) == [key |-> Key(name, file, line), rest |-> Rest(sort, text)]

MCTables == <<"functions", "records", "enums", "typedefs", "globalVars", "macroDefs">>

MCFiles == <<"open.c", "ioctl.c", "proto.c">>

Typedef(type, define, file, line) ==
    [key |-> [type |-> type, name |-> define, file |-> file, line |-> line], rest |-> Rest("", "t")]

Nothing == [n \in 1..6 |-> <<>>]

MCRows == [x \in {"open.c", "ioctl.c", "proto.c"} |->
    CASE x = "open.c"  -> [Nothing EXCEPT
            ![1] = <<Entry("init", "open.c", 7, "", "f1")>>,
            ![2] = <<Entry("arg", "arg.h", 3, "struct", "s")>>]
      [] x = "ioctl.c" -> [Nothing EXCEPT
            ![2] = <<Entry("arg", "arg.h", 3, "struct", "s (ioctl)"),
                     Entry("arg", "ioctl.c", 9, "union", "u")>>,
            ![6] = <<Entry("MAX", "ioctl.c", 1, "", "m")>>]
      [] x = "proto.c" -> [Nothing EXCEPT
            ![1] = <<Entry("init", "proto.c", 5, "", "f2")>>,
            ![4] = <<Typedef("int", "state", "proto.c", 9)>>]]

MCGlob == {<<"M*", "MAX">>}

MCEarlier == {[id |-> 1, table |-> "functions", key |-> Key("init", "proto.c", 5),
               rest |-> Rest("", "f2 (old)")],
              [id |-> 1, table |-> "records", key |-> Key("arg", "ioctl.c", 9),
               rest |-> Rest("union", "u (old)")],
              [id |-> 2, table |-> "records", key |-> Key("arg", "arg.h", 3),
               rest |-> Rest("union", "x (old)")]}
=============================================================================
