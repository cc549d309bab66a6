----------------------------- MODULE MCFixLoop -----------------------------
(***************************************************************************)
(* Instance of FixLoop: two tools, one of them with two arguments, and a   *)
(* tool that is not in the map; a text the extractor refuses, one only     *)
(* syz-check refuses, and a good one.                                      *)
(***************************************************************************)
EXTENDS FixLoop

Code  == [name |-> "func", args |-> "ioctl"]
Other == [name |-> "func", args |-> "open"]
Macro == [name |-> "macro", args |-> "ioctl"]
Wrong == [name |-> "shell", args |-> "ioctl"]

MCCalls == {Code, Other, Macro, Wrong}
=============================================================================
