---------------------------- MODULE TypedModule ----------------------------
(***************************************************************************)
(* What PointerRewriter must achieve, stated against the rules of the      *)
(* typed-pointer LLVM releases that read its output: the types a legacy    *)
(* reader computes from the records, and the rules its verifier checks.    *)
(***************************************************************************)
EXTENDS PointerRewriter

IsInserted(v) == v[1] \in {"pre", "post", "dem"}
Ids == {i.id : i \in Instrs}
Def(v) == CHOOSE i \in Instrs : i.id = v

\* The type an instruction's result has while every pointer is opaque, and the
\* type a value of the parsed module has.
ResultType(i) ==
    IF IsCallBase(i) THEN i.ty[2]
    ELSE IF i.op = "cmpxchg" THEN <<"pair">>
    ELSE IF i.op \in {"gep", "alloca"} THEN PTR ELSE i.ty
ParamType(f, a) == f.params[CHOOSE k \in DOMAIN f.args : f.args[k] = a]
SourceType(u, v) ==
    IF v[1] = "int" THEN <<"i32">>
    ELSE IF v[1] = "arg" THEN ParamType(u.funcs[u.main], v[2])
    ELSE IF v[1] = "const" THEN ResultType(u.consts[v[2]])
    ELSE IF v[1] = "inst"
         THEN ResultType(CHOOSE i \in InstrsOf(u) : i.id = v)
    ELSE PTR

\* The function type a legacy reader finds in a call record: the writer puts
\* the typed signature there for a direct call, and only for a call.
CalleeType(i) ==
    IF i.op = "call" /\ IsDirect(i)
    THEN TypedSig(unit.funcs[Callee(i)[2]]) ELSE i.ty

\* The type a legacy reader gives a value.
Mapped(v) == {p[2] : p \in {q \in map : q[1] = v}}
LegacyType(v) ==
    IF Mapped(v) # {} THEN CHOOSE t \in Mapped(v) : TRUE
    ELSE IF v \in Ids
         THEN IF IsCallBase(Def(v)) THEN CalleeType(Def(v))[2]
              ELSE ResultType(Def(v))
    ELSE SourceType(unit, v)

\* The type a verifier wants of an operand, if it is particular about it: sig
\* is the function type of a call, and Pointer says what a pointer to a type is.
Rule(i, k, sig, Pointer(_)) ==
    CASE i.op \in {"load", "gep"} /\ k = 1 -> {Pointer(i.ty)}
      [] i.op \in {"rmw", "cmpxchg"} -> {IF k = 1 THEN Pointer(i.ty) ELSE i.ty}
      [] i.op = "store" -> {IF k = 2 THEN Pointer(i.ty) ELSE i.ty}
      [] IsCalleeSlot(i, k) -> {Pointer(sig)}
      [] IsCallBase(i) /\ ~IsCalleeSlot(i, k) /\ k \in DOMAIN sig[3] -> {sig[3][k]}
      [] i.op \in {"phi", "select", "ret"} -> {i.ty}
      [] OTHER -> {}
Wanted(i, k) == Rule(i, k, CalleeType(i), TP)
OpaquePointer(t) == PTR
SourceWanted(i, k) == Rule(i, k, i.ty, OpaquePointer)

\* LLVM's verifier has checked the types of what is parsed, where no pointer is
\* typed, and what has pointee information is a pointer.
IsOpaque(t) == t[1] # "tp"
Typed(u, i) ==
    /\ IsOpaque(i.ty) /\ IsOpaque(ResultType(i))
    /\ \A k \in DOMAIN i.ops : \A t \in SourceWanted(i, k) :
         SourceType(u, i.ops[k]) = t
TypedSource(u) ==
    /\ \A i \in InstrsOf(u) : Typed(u, i)
    /\ \A c \in DOMAIN u.consts : Typed(u, u.consts[c])
    /\ \A g \in DOMAIN u.globals :
         LET init == u.globals[g].init
         IN \/ u.globals[g].ty # PTR \/ u.globals[g].kind = "ifunc" \/ init = NoType
            \/ /\ init \in Values(u) /\ init[1] # "arg" /\ SourceType(u, init) = PTR
               /\ init[1] = "block" => u.globals[g].kind = "var"
    /\ \A f \in DOMAIN u.funcs :
         LET source == UntypedSig(u.funcs[f])
             typed == TypedSig(u.funcs[f])
         IN /\ typed[2] # source[2] => source[2] = PTR
            /\ \A k \in DOMAIN source[3] :
                 typed[3][k] # source[3][k] => source[3][k] = PTR
ASSUME TypesAssumption == \A u \in Modules : TypedSource(u)

Done == step = "done"

\* The value type a pointer global is written with is the type its
\* initializer or aliasee is written with.
GlobalsTyped ==
    Done => \A g \in Globals :
              LET init == unit.globals[g].init
              IN unit.globals[g].kind # "ifunc" /\ init # NoType =>
                   \/ LegacyType(<<"glob", g>>) = TP(LegacyType(init))
                   \/ unit.globals[g].ty # PTR

\* Every operand of the rewritten function has the type the legacy reader
\* wants of it: all passes and the map have to agree for each use, and the
\* globals with each other.
WellTyped ==
    /\ GlobalsTyped
    /\ Done => \A s \in Slots :
                 Wanted(s[1], s[2]) # {}
                 => LegacyType(s[1].ops[s[2]]) \in Wanted(s[1], s[2])

\* No value is mapped twice with different types, so the order in which
\* buildPointerMap assigns them does not matter: no cast serves two uses.
MapIsFunction == \A p, q \in map : p[1] = q[1] => p[2] = q[2]

\* The assertions of buildPointerMap: what it types is a no-op cast made for
\* that use, and the one use of a GEP or an alloca is its cast.
MapAssertions ==
    step = "map" =>
        \A i \in Instrs :
            /\ \A k \in DOMAIN i.ops : PointerSlot(i, k) =>
                 i.ops[k] \in Ids /\ Def(i.ops[k]).op = "bitcast"
            /\ i.op \in {"gep", "alloca"} =>
                 \E s \in Slots : /\ s[1].op = "bitcast" /\ s[1].id[1] = "post"
                                  /\ \A t \in Slots :
                                       t[1].ops[t[2]] = i.id <=> t = s

\* Where a value may be used: after its definition in its own block, or in a
\* block its own dominates; a phi uses its operand at the end of the
\* incoming block.
Available(u, B, v, b, n) ==
    \E d \in DOMAIN B : \E p \in DOMAIN B[d] :
        B[d][p].id = v /\ IF d = b THEN p < n ELSE d \in u.dom[b]
IsLocal(v) == v[1] = "inst" \/ IsInserted(v)

\* No pass puts a cast where its operand or its user is out of reach.
Dominance(u, B) ==
    \A b \in DOMAIN B : \A n \in DOMAIN B[b] : \A k \in DOMAIN B[b][n].ops :
        LET i == B[b][n]
        IN IsLocal(i.ops[k]) =>
             IF i.op = "phi"
             THEN Available(u, B, i.ops[k], i.inc[k], Len(B[i.inc[k]]) + 1)
             ELSE Available(u, B, i.ops[k], b, n)

\* Phis stay at the head of their block and one terminator at its end.
BlockShape(B) ==
    \A b \in DOMAIN B :
        /\ Len(B[b]) > 0
        /\ \A n \in DOMAIN B[b] :
             /\ B[b][n].op = "phi" => \A p \in 1..n : B[b][p].op = "phi"
             /\ B[b][n].op \in {"br", "ret", "invoke"} <=> n = Len(B[b])
Placed(u, B) == Dominance(u, B) /\ BlockShape(B)

\* LLVM's verifier has checked the body that is parsed.
ASSUME PlacementAssumption == \A u \in Modules : Placed(u, u.body)

\* After each pass the casts it has inserted for phis, for definitions and
\* for uses stand where the verifier lets them stand.
Placement == Placed(unit, body)

\* A reader makes a placeholder of the opaque type for a pointer that is
\* used before its definition is read, so no such value is retyped.
LayoutPos(b) == CHOOSE n \in DOMAIN unit.layout : unit.layout[n] = b
ReadBefore(v, b, n) ==
    \E d \in DOMAIN body : \E p \in DOMAIN body[d] :
        /\ body[d][p].id = v
        /\ LayoutPos(d) < LayoutPos(b) \/ (d = b /\ p < n)
ForwardRefsOpaque ==
    Done => \A b \in DOMAIN body : \A n \in DOMAIN body[b] :
              \A v \in Range(body[b][n].ops) \cap Ids :
                ~ReadBefore(v, b, n) => IsOpaque(LegacyType(v))

\* What the module means: the inserted casts are seen through, and a
\* materialized constant is that constant again.
Meaning(b) ==
    LET all == UNION {Range(b[k]) : k \in DOMAIN b}
        ids == {i.id : i \in all}
        op1(v) == (CHOOSE i \in all : i.id = v).ops[1]
        Of[v \in ids] ==
            IF v[1] = "dem" THEN <<"const", v[4]>>
            ELSE IF ~IsInserted(v) THEN v
            ELSE IF op1(v) \in ids THEN Of[op1(v)] ELSE op1(v)
        Seen(v) == IF v \in ids THEN Of[v] ELSE v
        Plain(i) == [i EXCEPT !.ops = [k \in DOMAIN @ |-> Seen(@[k])]]
        Kept(i) == IF IsInserted(i.id) THEN <<>> ELSE <<Plain(i)>>
    IN [k \in DOMAIN b |-> FlattenSeq([n \in DOMAIN b[k] |-> Kept(b[k][n])])]

\* No pass changes what the function computes, whatever it inserts.
MeaningKept == Meaning(body) = Meaning(unit.body)

\* Every type the writer will refer to through the map is enumerated before
\* the type table is written ("so this reaches them all"): itself, or as a
\* part of a signature.
Parts(t) ==
    {t} \cup (IF t[1] = "tp"
              THEN {t[2]} \cup (IF t[2][1] = "fn"
                                THEN {t[2][2]} \cup Range(t[2][3]) ELSE {})
              ELSE {})
MapTypesEnumerated ==
    Done => {p[2] : p \in map} \subseteq UNION {Parts(t) : t \in OrderedPointerTypes}

\* The map the writer is given: what the passes inserted is what it types,
\* it has one type for each value, and all its types will have a number.
MapSound == MapAssertions /\ MapIsFunction /\ MapTypesEnumerated

\* Legacy verifiers reject a phi that gives one predecessor two values
\* (opt is run on every downgraded module: README.md, "Testing").
PhiEntriesAgree ==
    Done => \A i \in Instrs : i.op = "phi" =>
              \A k, l \in DOMAIN i.inc :
                i.inc[k] = i.inc[l] => i.ops[k] = i.ops[l]

\* A landingpad is the first instruction of its block after the phis, and
\* its clauses are constants.
LandingPadIntact ==
    Done => \A b \in DOMAIN body : \A n \in DOMAIN body[b] :
              body[b][n].op = "landingpad" =>
                /\ \A p \in 1..n - 1 : body[b][p].op = "phi"
                /\ \A k \in DOMAIN body[b][n].ops : body[b][n].ops[k] \notin Ids

=============================================================================
