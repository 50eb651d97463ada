------------------------- MODULE MCPointerRewriter -------------------------
(***************************************************************************)
(* Modules for the rewriter: one function with a diamond of blocks, an     *)
(* instruction of each kind in two places, and a phi, over every kind of   *)
(* pointer value.                                                          *)
(***************************************************************************)
EXTENDS TypedModule

I32 == <<"i32">>
VOID == <<"void">>
ARRAY == <<"array", I32>>
Inst(x) == <<"inst", x>>
Glob(g) == <<"glob", g>>
I(x, op, ops, ty) == [id |-> Inst(x), op |-> op, ops |-> ops, ty |-> ty,
                      inc |-> <<>>]
Phi(x, ops, inc) == [id |-> Inst(x), op |-> "phi", ops |-> ops, ty |-> PTR,
                     inc |-> inc]
Fun(intrinsic, ret, params) ==
    [intrinsic |-> intrinsic, ret |-> ret, params |-> params,
     eltypes |-> <<>>, attrs |-> <<>>, args |-> <<>>]

\* @g = global i32, @p = global ptr @q, @q = global ptr @sret, @n null, @k an
\* array of the address of merge; @al an alias of @g and @rs an ifunc.
MCGlobals ==
    LET G(kind, ty, init) == [kind |-> kind, ty |-> ty, init |-> init]
    IN [g |-> G("var", I32, <<"int">>),
        p |-> G("var", PTR, Glob("q")),
        q |-> G("var", PTR, Glob("sret")),
        n |-> G("var", PTR, <<"null">>),
        j |-> G("var", PTR, <<"block", "left">>),
        k |-> G("var", <<"array", PTR>>, <<"const", "table">>),
        al |-> G("alias", PTR, Glob("g")),
        rs |-> G("ifunc", FN(VOID, <<>>), NoType)]
Looped == MCGlobals @@ [r |-> [kind |-> "var", ty |-> PTR, init |-> Glob("s")],
                        s |-> [kind |-> "var", ty |-> PTR, init |-> Glob("r")]]
MCFuncs ==
    [f |-> [Fun("none", PTR, <<PTR, PTR>>) EXCEPT !.args = <<"a", "b">>,
                                                 !.attrs = (1 :> I32)],
     plain |-> Fun("none", VOID, <<PTR>>),
     sret |-> [Fun("none", VOID, <<PTR, PTR>>) EXCEPT !.attrs = (1 :> I32)],
     air |-> [Fun("none", PTR, <<PTR, PTR>>)
                EXCEPT !.eltypes = (1 :> I32) @@ (2 :> PTR),
                       !.attrs = (1 :> I8)],
     gcread |-> Fun("gcread", PTR, <<PTR, PTR>>)]
\* getelementptr over @g, and a cast of it; both are demoted.
MCConsts ==
    [gep |-> [op |-> "gep", ty |-> I32, ptr |-> TRUE, ops |-> <<Glob("g")>>],
     sel |-> [op |-> "select", ty |-> PTR, ptr |-> TRUE,
              ops |-> <<<<"const", "gep">>, <<"null">>>>],
     table |-> [op |-> "insertvalue", ty |-> <<"array", PTR>>, ptr |-> FALSE,
                ops |-> <<<<"block", "merge">>>>]]

\* The instructions a pointer v can be used by.
Uses(x, v) ==
    {I(x, "load", <<v>>, I32), I(x, "load", <<v>>, PTR),
     I(x, "store", <<v, v>>, PTR), I(x, "gep", <<v, <<"int">>, <<"int">>>>, ARRAY),
     I(x, "rmw", <<v, <<"int">>>>, I32),
     I(x, "cmpxchg", <<v, v, <<"null">>>>, PTR),
     I(x, "select", <<v, v>>, PTR),
     I(x, "call", <<v, Glob("plain")>>, FN(VOID, <<PTR>>)),
     I(x, "call", <<v, v, Glob("sret")>>, FN(VOID, <<PTR, PTR>>)),
     I(x, "call", <<v, v, Glob("air")>>, FN(PTR, <<PTR, PTR>>)),
     I(x, "call", <<v, v, Glob("gcread")>>, FN(PTR, <<PTR, PTR>>)),
     I(x, "call", <<Glob("sret"), v>>, FN(PTR, <<PTR>>)),
     I(x, "call", <<v, Glob("sret")>>, FN(PTR, <<PTR>>)),
     I(x, "call", <<v, <<"asm", FN(VOID, <<PTR>>)>>>>, FN(VOID, <<PTR>>))}
Pointers ==
    {Glob("g"), Glob("p"), Glob("n"), Glob("al"), Glob("rs"), Glob("sret"),
     <<"arg", "a">>, <<"arg", "b">>, <<"null">>, <<"block", "left">>,
     Inst("x"), <<"const", "gep">>, <<"const", "sel">>}

\* entry: %x = alloca i32, a use of v; left: a use of w; merge: a phi of the
\* two results, then ret of it.  Left may be laid out last.
ResultOf(i, v) ==
    IF i.op \in {"gep", "select"} \/ (i.op = "load" /\ i.ty = PTR)
       \/ (i.op = "call" /\ i.ty[2] = PTR)
    THEN i.id ELSE v
Unit(i, v, j, w, layout) ==
    [globals |-> MCGlobals, funcs |-> MCFuncs, consts |-> MCConsts,
     main |-> "f", layout |-> layout,
     dom |-> [entry |-> {"entry"}, left |-> {"entry", "left"},
              merge |-> {"entry", "merge"}],
     body |-> [entry |-> <<I("x", "alloca", <<<<"int">>>>, I32), i,
                           I("t1", "br", <<>>, VOID)>>,
               left |-> <<j, I("t2", "br", <<>>, VOID)>>,
               merge |-> <<Phi("m", <<ResultOf(i, v), ResultOf(j, w)>>,
                               <<"entry", "left">>),
                           I("t3", "ret", <<Inst("m")>>, PTR)>>]]

Straight == <<"entry", "left", "merge">>
LeftLast == <<"entry", "merge", "left">>
First == {<<i, v>> \in UNION {{<<u, v>> : u \in Uses("u", v)} : v \in Pointers} :
            TRUE}
Second == UNION {{<<u, v>> : u \in Uses("w", v)} :
                   v \in {Glob("p"), <<"arg", "a">>, <<"const", "sel">>,
                          <<"block", "left">>}}
MCModules ==
    {Unit(a[1], a[2], b[1], b[2], Straight) :
       a \in First, b \in {c \in Second : c[1].op \in {"load", "gep"}}}
    \cup {Unit(a[1], a[2], b[1], b[2], LeftLast) : 
       a \in {c \in First : c[2] \in {Glob("g"), <<"arg", "a">>, Inst("x")}},
       b \in Second}
    \cup {[u EXCEPT !.globals = Looped] :
            u \in {Unit(I("u", "load", <<v>>, I32), v,
                        I("w", "load", <<v>>, I32), v, Straight) :
                     v \in Pointers}}
    \cup {Unit(I("u", "vgep", <<v>>, I32), v, I("w", "load", <<v>>, I32), v,
               Straight) : v \in Pointers}

\* A switch reaches merge twice from entry, so its phi has entry twice.
Double(v) ==
    [Unit(I("u", "load", <<v>>, I32), v, I("w", "load", <<v>>, I32), v,
          Straight)
       EXCEPT !.body.merge[1] = Phi("m", <<v, v, v>>,
                                    <<"entry", "entry", "left">>)]
DoubleEdges == {Double(v) : v \in Pointers}

\* An invoke ends entry; left is its landing pad.
WithInvoke(inv, clause) ==
    [Unit(I("u", "load", <<Inst("x")>>, I32), Inst("x"),
          I("lp", "landingpad", <<clause>>, <<"pair">>), Inst("x"), Straight)
       EXCEPT !.body.entry[3] = inv]
Invokes ==
    {WithInvoke(I("t1", "invoke", <<v, v, Glob("sret")>>,
                  FN(VOID, <<PTR, PTR>>)), <<"null">>) : v \in Pointers}
Catches ==
    {WithInvoke(I("t1", "invoke", <<v, Glob("plain")>>, FN(VOID, <<PTR>>)), c) :
        v \in Pointers, c \in {Glob("g")}}
=============================================================================
