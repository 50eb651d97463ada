-------------------------- MODULE MCBitcodeWriter --------------------------
(***************************************************************************)
(* Modules to write: a structure that points to a global, two functions;   *)
(* the first two instructions of the first one range over every kind of    *)
(* record, with operands before and after it, and itself: LLVM allows that *)
(* of a block no path leads to.                                            *)
(***************************************************************************)
EXTENDS LegacyReader

MCTypes == {"empty", "ptr", "i32", "pair", "fn", "void", "i8",
            "i32*", "pair*", "fn*", "i8*", "twin", "deep", "lone", "double",
            "float"}
Consts == {"pi", "one", "two", "three", "undef", "agg", "gep", "addr", "both", "null",
           "rate"}
Global == {"g", "h", "f1", "f2"}
Local == {"a", "p", "c", "q", "r", "s", "b", "w", "z"}
MCValues == Consts \cup Global \cup Local

\* An instruction: its opcode, operands, types, case values; void; debug
\* location; has an attachment.
I(id, op, ops, ts, cases, void, loc) ==
    [id |-> id, op |-> op, ops |-> ops, ts |-> ts, cases |-> cases,
     void |-> void, loc |-> loc]
Firsts ==
    {I("p", "phi", <<"one", "q">>, <<>>, <<>>, FALSE, 1),
     I("p", "phi", <<"p", "q", "a">>, <<>>, <<>>, FALSE, 0),
     I("p", "binop", <<"q", "three">>, <<>>, <<>>, FALSE, 2),
     I("p", "binop", <<"p", "two">>, <<>>, <<>>, FALSE, 0),
     I("p", "select", <<"a", "q", "two">>, <<>>, <<>>, FALSE, 1),
     I("p", "call", <<"q", "one", "f2">>, <<>>, <<>>, FALSE, 2),
     I("p", "switch", <<"a">>, <<>>, <<"two", "three">>, TRUE, 1),
     I("p", "ret", <<>>, <<>>, <<>>, TRUE, 2),
     I("p", "callbr", <<"f2">>, <<>>, <<>>, FALSE, 0),
     I("p", "cast", <<"pi">>, <<>>, <<>>, FALSE, 0),
     I("p", "freeze", <<"q">>, <<>>, <<>>, FALSE, 0)}
\* Where pointers are typed, one that is used before it is written has been
\* given a cast of its own in front of its user.
FirstsOpaque ==
    {I("p", "store", <<"q", "r">>, <<>>, <<>>, TRUE, 1),
     I("p", "call", <<"a", "two", "r">>, <<>>, <<>>, FALSE, 0)}
Cast == I("c", "cast", <<"g">>, <<>>, <<>>, FALSE, 1)
Seconds ==
    {I("q", "binop", <<"a", "one">>, <<>>, <<>>, FALSE, 1),
     I("q", "load", <<"c">>, <<>>, <<>>, FALSE, 0)}
Thirds ==
    {I("r", "alloca", <<"one">>, <<"i32">>, <<>>, FALSE, 1),
     I("r", "alloca", <<"one">>, <<"deep">>, <<>>, FALSE, 0),
     I("r", "cast", <<"s">>, <<>>, <<>>, FALSE, 2),
     I("r", "gep", <<"c", "three">>, <<"pair">>, <<>>, FALSE, 1)}
Bodies(t) ==
    {<<p, Cast, q, r, I("s", "cast", <<"r">>, <<>>, <<>>, FALSE, 1)>> :
       p \in Firsts \cup (IF t > 140 THEN FirstsOpaque ELSE {}),
       q \in Seconds, r \in Thirds}
Second == <<I("w", "store", <<"two", "h">>, <<>>, <<>>, TRUE, 1),
            I("z", "binop", <<"b", "undef">>, <<>>, <<>>, FALSE, 1)>>

Bare(i) == [id |-> i.id, void |-> i.void, ops |-> i.ops, cases |-> i.cases,
            types |-> i.ts,
            call |-> IF i.op \in {"call", "callbr"} THEN <<"fn">> ELSE <<>>]
\* A record {[i32, ptr]} that points to h, or a plain number.
Typed(t, v) == IF t > 140 THEN "ptr"
               ELSE CASE v \in {"f1", "f2"} -> "fn*" [] v = "g" -> "pair*"
                      [] OTHER -> "i32*"
Module(t, code, init) ==
    [target |-> t,
     subtypes |-> [u \in MCTypes |->
        CASE u = "pair" -> <<"i32", "ptr">> [] u = "fn" -> <<"void", "i32">>
          [] u = "i32*" -> <<"i32">> [] u = "pair*" -> <<"pair">>
          [] u = "fn*" -> <<"fn">> [] u = "i8*" -> <<"i8">>
          [] u = "twin" -> <<"ptr", "pair", "ptr">> [] u = "deep" -> <<"i32", "lone">>
          [] u = "lone" -> <<"i8">> [] OTHER -> <<>>],
     typeOf |-> [v \in MCValues |->
        CASE v \in Global \cup {"c", "r", "s", "gep", "addr", "null"} -> "ptr"
          [] v = "agg" -> "pair" [] v = "both" -> "twin"
          [] v = "w" -> "void" [] v = "pi" -> "double"
          [] v = "rate" -> "float" [] OTHER -> "i32"],
     operands |-> [v \in MCValues |->
        CASE v = "agg" -> <<"two", "h">> [] v = "gep" -> <<"g", "one">>
          [] v = "addr" -> <<"f1">> [] v = "both" -> <<"addr", "agg", "null">>
          [] OTHER -> <<>>],
     sourceTypes |-> [v \in MCValues |-> IF v = "gep" THEN <<"pair">> ELSE <<>>],
     globalTypes |-> [v \in MCValues |->
        CASE v \in {"f1", "f2"} -> <<"fn">> [] v = "g" -> <<"pair">>
          [] OTHER -> <<"i32">>],
     typeAttributes |-> [v \in MCValues |-> <<>>],
     intTypes |-> {"i32", "i8"}, aggregates |-> {"agg", "both"},
     blockAddresses |-> {"addr"},
     globals |-> <<"g", "h", "f1", "f2">>, initializers |-> init,
     aliasees |-> <<>>, metadata |-> <<"rate", "two">>, opaquePtr |-> "empty",
     pointerTypes |-> IF t > 140 THEN <<>> ELSE <<"pair*", "i32*", "fn*", "i8*">>,
     functions |->
       <<[args |-> <<"a">>, code |-> [n \in DOMAIN code |-> Bare(code[n])]],
         [args |-> <<"b">>, code |-> [n \in DOMAIN Second |-> Bare(Second[n])]]>>]
Text(t, code, init, darwin) ==
    LET all == Members(code) \cup Members(Second)
    IN [opcode |-> [v \in MCValues |->
                      IF \E i \in all : i.id = v
                      THEN (CHOOSE i \in all : i.id = v).op ELSE "none"],
        locs |-> [v \in MCValues |->
                    IF \E i \in all : i.id = v
                    THEN (CHOOSE i \in all : i.id = v).loc ELSE 0],
        attached |-> {"q", "f2"}, definitions |-> <<"f1", "f2">>,
        data |-> [v \in MCValues |-> IF v = "g" THEN init ELSE <<>>],
        writtenAs |-> [v \in MCValues |->
           CASE v \in Global -> Typed(t, v)
             [] v = "c" /\ t <= 140 ->
                  IF code[4].op = "gep" THEN "pair*" ELSE "i32*"
             [] v = "r" /\ t <= 140 /\ code[4].op # "cast" -> "i32*"
             [] v = "addr" /\ t <= 140 -> "i8*"
             [] v \in {"c", "r", "s", "gep", "addr", "null"} -> "ptr"
             [] v = "agg" -> "pair" [] v = "both" -> "twin"
             [] v = "w" -> "void" [] v = "pi" -> "double"
          [] v = "rate" -> "float" [] OTHER -> "i32"],
        opaque |-> "ptr",
        unsupported |-> IF init = <<"three">> THEN {"three"} ELSE {},
        asm |-> darwin, darwin |-> darwin]
Inits == {<<>>, <<"agg">>, <<"gep">>, <<"three">>, <<"both">>}
MCInputs ==
    UNION {{<<Module(t, code, <<"agg">>), Text(t, code, <<"agg">>, t = 140)>> :
       code \in Bodies(t)} : t \in {70, 140, 200}}
    \cup {<<Module(t, code, init), Text(t, code, init, t = 200)>> :
       t \in {50, 140, 180}, init \in Inits,
       code \in {c \in Bodies(50) : c[1].op = "binop" /\ c[3].op = "binop"}}
MCUnits == {i[1] : i \in MCInputs}
=============================================================================
