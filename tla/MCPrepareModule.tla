-------------------------- MODULE MCPrepareModule --------------------------
(***************************************************************************)
(* Modules of up to three functions out of one of each kind, each called   *)
(* once or not at all, over the flags, attributes and instruction chains   *)
(* the passes tell apart.                                                  *)
(***************************************************************************)
EXTENDS PrepareModule, TLC

F(id, as, bits, params) ==
    [key |-> <<id \o ToString(as), 0>>, id |-> id, as |-> as, bits |-> bits,
     params |-> params,
     name |-> Modern([id |-> id, as |-> as, bits |-> bits])]
Intrinsics ==
    {F("vastart", <<0>>, 0, 1), F("vaend", <<0>>, 0, 1), F("vacopy", <<0>>, 0, 2),
     F("stacksave", <<0>>, 0, 0), F("prefetch", <<0>>, 0, 4),
     F("thread_pointer", <<0>>, 0, 0), F("clear_cache", <<0, 1>>, 0, 2),
     F("returnaddress", <<0>>, 0, 1), F("returnaddress", <<1>>, 0, 1),
     F("memcpy", <<0, 0>>, 64, 4), F("memcpy", <<1, 0>>, 64, 4),
     F("memset", <<0>>, 64, 4), F("lifetime", <<0>>, 0, 1),
     F("dispatch_ptr", <<4>>, 0, 0), F("ptrmask", <<0>>, 64, 2),
     F("none", <<0>>, 0, 1)}
\* The calls of a function list: each of the chosen functions once.
CallsFor(fs, called, align) ==
    {[at |-> n, callee |-> fs[n].key, args |-> fs[n].params,
      align |-> IF Len(fs[n].as) = 2 THEN align ELSE <<align[1]>>] :
       n \in {m \in DOMAIN fs : fs[m].key \in called}}
Lists ==
    {fs \in UNION {[1..n -> Intrinsics] : n \in 1..2} :
       \A m, n \in DOMAIN fs : fs[m] = fs[n] => m = n}
    \cup {<<F("memcpy", <<0, 0>>, 64, 4), f, F("memset", <<0>>, 64, 4)>> :
            f \in Intrinsics \ {F("memcpy", <<0, 0>>, 64, 4),
                                F("memset", <<0>>, 64, 4)}}

X(n) == <<"inst", n>>
Op(n, op, v) == [id |-> X(n), op |-> op, ops |-> <<v>>, fmf |-> {}]
Fast(n, op, v) == [Op(n, op, v) EXCEPT !.fmf = {"nnan"}]
C == <<"const", "1.0">>
\* A use of a chain of freezes and fnegs, in layout order and against it.
Chains ==
    {<<>>,
     <<Op(1, "freeze", C), Op(2, "freeze", X(1)), Op(3, "use", X(2))>>,
     <<Op(3, "use", X(2)), Op(2, "freeze", X(1)), Op(1, "fneg", X(4)),
       Op(4, "freeze", C)>>,
     <<Fast(1, "fneg", X(9)), Op(2, "fneg", X(1)), Op(3, "use", X(2))>>,
     <<Op(1, "fneg", C), Fast(2, "fneg", X(1)), Op(3, "use", X(2)),
       Op(4, "use", X(1))>>}
FlagLists ==
    {<<>>, <<[behavior |-> 8, key |-> "PIC Level"], [behavior |-> 1, key |-> "wchar_size"]>>,
     <<[behavior |-> 7, key |-> "PIE Level"], [behavior |-> 8, key |-> "frame-pointer"]>>}
Attrs == "f" :> {"range", "memory", "noalias"} @@ "call" :> {"initializes"}

Unit(fs, called, align, chain, fl) ==
    [funcs |-> fs, calls |-> CallsFor(fs, called, align), insts |-> chain,
     flags |-> fl, attrs |-> Attrs,
     records |-> {[at |-> 1, kind |-> "declare"], [at |-> 2, kind |-> "declare_value"],
                  [at |-> 3, kind |-> "value"]}]
KeysOf(fs) == {fs[n].key : n \in DOMAIN fs}
MCUnits ==
    {Unit(fs, called, align, <<>>, <<>>) :
       fs \in Lists, called \in {{}} , align \in {<<8, 4>>}}
    \cup UNION {{Unit(fs, KeysOf(fs), align, <<>>, <<>>) :
                   align \in {<<1, 8>>, <<8, 4>>}} : fs \in Lists}
    \cup {Unit(<<f>>, KeysOf(<<f>>), <<1, 1>>, chain, fl) :
            f \in {F("lifetime", <<0>>, 0, 1), F("none", <<0>>, 0, 1)},
            chain \in Chains, fl \in FlagLists}

\* Pointers outside address space 0, alone and beside the default one.
OtherSpaces ==
    {Unit(fs, KeysOf(fs), <<1, 1>>, <<>>, <<>>) :
       fs \in {<<F("vastart", <<5>>, 0, 1)>>, <<F("stacksave", <<5>>, 0, 0)>>,
               <<F("vastart", <<0>>, 0, 1), F("vastart", <<5>>, 0, 1)>>,
               <<F("prefetch", <<0>>, 0, 4), F("prefetch", <<1>>, 0, 4)>>}}
=============================================================================
