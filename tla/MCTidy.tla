------------------------------- MODULE MCTidy -------------------------------
(***************************************************************************)
(* Instances of Tidy.  The variables are b and a_b, so that the suffix of  *)
(* one ends like the suffix of the other; sys/<os> holds a resource and a  *)
(* template that generated specifications use, and things nothing uses.    *)
(***************************************************************************)
EXTENDS Tidy

Node(kind, name, refs, rest) == [kind |-> kind, name |-> name, refs |-> refs, rest |-> rest]

MCTokens == {"a", "b", "_", "$", "gpt", "fd", "ioctl", "A", "B", "mode", "vec", "conn", "x",
             "open", "spare", "left"}

\* Names, as tokens.
B      == <<"b">>
AB     == <<"a", "_", "b">>
GPT    == <<"gpt">>
FD     == <<"fd">>
IoctlA == <<"ioctl", "$", "A">>
IoctlB == <<"ioctl", "$", "B">>
Mode   == <<"mode">>
Vec    == <<"vec">>
Conn   == <<"conn">>
X      == <<"x">>
XA     == <<"x", "_", "a">>

Include == Node("other", <<>>, <<>>, <<>>)

\* A call, its struct, flags of the same name, an unused resource; the struct uses a
\* template of sys/<os>.
SpecB ==
    << Include,
       Node("flags", Mode, <<>>, <<>>),
       Node("call", IoctlA, <<FD, Mode>>, <<>>),
       Node("struct", Mode, <<Vec, Mode>>, <<>>),
       Node("resource", Conn, <<FD>>, <<>>) >>

\* Resources that build on each other, and a struct nothing uses.
SpecAB ==
    << Node("resource", Conn, <<FD>>, <<>>),
       Node("call", IoctlB, <<Conn, X>>, <<>>),
       Node("flags", X, <<>>, <<>>),
       Node("struct", Mode, <<X>>, <<>>) >>

\* Nothing a call leads to, so nothing is left to write into its file.
SpecUnused == << Node("struct", Mode, <<>>, <<>>) >>

\* Flags whose name ends in the beginning of another variable.
SpecClash == << Node("call", IoctlA, <<XA>>, <<>>), Node("flags", XA, <<>>, <<>>) >>

Written(var, model, nodes) ==
    [parts |-> <<var, model>>, nested |-> FALSE, comp |-> <<Text(nodes)>>, pool |-> "elements"]

Good1 == Written(B, GPT, SpecB)
Good2 == Written(AB, GPT, SpecAB)

Torn   == [Good1 EXCEPT !.comp = <<[parses |-> FALSE, nodes |-> <<Include>>]>>]
NoPool == [Good1 EXCEPT !.pool = "unreadable"]

MCInputs ==
    {<<Good2, Good1>>,
     <<[Good1 EXCEPT !.pool = "empty"], Good2>>,
     <<[Good2 EXCEPT !.nested = TRUE], [Good2 EXCEPT !.comp = <<>>], Good1>>,
     <<Written(AB, GPT, SpecUnused), Good1>>,
     <<Good2, Torn>>, <<Good2, NoPool>>,
     <<[Good1 EXCEPT !.parts = <<B>>]>>}

MCSysFiles ==
    ( <<"sys">> :> Text(<< Include,
                           Node("resource", FD, <<>>, <<>>),
                           Node("call", <<"open">>, <<FD>>, <<>>),
                           Node("struct", <<"spare">>, <<FD>>, <<>>),
                           Node("typedef", Vec, <<>>, <<FD>>) >>) @@
      <<"old">> :> Text(<< Node("struct", <<"left">>, <<FD>>, <<>>),
                           Include >>) )

\* Two variables only, whose specifications parse and whose files are all written.
ClashInputs == {<<Written(AB, GPT, <<Node("call", IoctlB, <<X>>, <<>>), Node("flags", X, <<>>, <<>>)>>),
                  Written(B, GPT, SpecClash)>>}
=============================================================================
