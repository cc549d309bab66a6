---------------------------- MODULE MCGenerator ----------------------------
(***************************************************************************)
(* Generator with a small reference file, in which the entry "fops" stands *)
(* twice, and files and flags that are refused.                            *)
(***************************************************************************)
EXTENDS Generator

Variable(name) == [type |-> "variable", name |-> name]
Function(name) == [type |-> "function", name |-> name]

MCDatabase == {Variable("fops"), Variable("proto"), Function("proto")}

Good == [outdir |-> "out", missing |-> {}, osKnown |-> TRUE, maxRetry |-> 2, jobs |-> 2,
         resume |-> TRUE,
         ref |-> <<Variable("fops"), Blank, Function("proto"), Variable("fops"), Variable("proto")>>]

MCConfigs ==
    {Good,
     [Good EXCEPT !.resume = FALSE, !.jobs = 3, !.maxRetry = -1,
                  !.ref = <<Variable("proto"), Variable("fops"), Blank>>],
     [Good EXCEPT !.outdir = "", !.jobs = 1],
     [Good EXCEPT !.missing = {"-db"}],
     [Good EXCEPT !.osKnown = FALSE],
     [Good EXCEPT !.maxRetry = -2],
     [Good EXCEPT !.jobs = 0],
     [Good EXCEPT !.ref = <<Blank>>],
     [Good EXCEPT !.ref = <<Variable("fops"), Variable("gone")>>],
     [Good EXCEPT !.ref = <<[type |-> "struct", name |-> "fops"]>>],
     [Good EXCEPT !.ref = <<Variable("gone"), NoComma>>]}
=============================================================================
