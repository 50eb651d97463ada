----------------------- MODULE MCMetadataEnumerator -----------------------
(***************************************************************************)
(* Graphs of two uniqued and two distinct nodes with a string and a        *)
(* constant, cycles among them, and roots in the module and two functions. *)
(***************************************************************************)
EXTENDS MetadataEnumerator

MCMetadata == {"s", "t", "c", "k", "u", "v", "d", "e", "l", "m", "al"}
MCKind == [md \in MCMetadata |->
             CASE md \in {"s", "t"} -> "string" [] md \in {"c", "k"} -> "constant"
               [] md \in {"u", "v"} -> "uniqued" [] md \in {"d", "e"} -> "distinct"
               [] md \in {"l", "m"} -> "local" [] md = "al" -> "list"]
Ops2 == {[md \in MCMetadata |->
            CASE md = "u" -> u [] md = "v" -> v [] md = "d" -> d [] md = "e" -> e
              [] md = "al" -> <<"k", "l">> [] OTHER -> <<>>] :
           u \in {<<"v", "d">>, <<"d", "v", "t">>, <<"s", "v">>, <<"t">>},
           v \in {<<"u", "s">>, <<"d", "s">>, <<"c", Null, "e">>, <<>>},
           d \in {<<"u", "e">>, <<"v">>, <<"d", "s">>},
           e \in {<<"u">>, <<"d", "v">>, <<Null, "c">>}}
\* The list of the first function is met in the constructor too, where only
\* its constants count; a declaration's metadata is the module's.
Roots == {<<[f |-> g, md |-> x], [f |-> 1, md |-> "k"], [f |-> 1, md |-> y],
            [f |-> 2, md |-> z]>> :
            g \in {0, 1}, x, y, z \in {"u", "v", "d"}}
         \cup {<<[f |-> 1, md |-> x], [f |-> 1, md |-> "k"], [f |-> 0, md |-> "e"],
                 [f |-> 2, md |-> y], [f |-> 2, md |-> "k"]>> : x, y \in {"u", "d"}}
MCUnits == {[kind |-> MCKind, ops |-> ops, roots |-> roots,
             locals |-> <<<<"al", "l">>, <<"m">>>>] :
              ops \in Ops2, roots \in Roots}
=============================================================================
