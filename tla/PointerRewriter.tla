-------------------------- MODULE PointerRewriter --------------------------
(***************************************************************************)
(* src/PointerRewriter.cpp: how a module with opaque pointers is prepared  *)
(* for the typed-pointer formats (5.0, 7.0, 14.0).  The passes of          *)
(* PointerRewriter::run insert no-op bitcasts around every definition and  *)
(* use that a legacy reader types, and buildPointerMap then says which     *)
(* typed pointer each of those values is written with.  A pass is one      *)
(* action; its worklist is collected first, so its insertions are          *)
(* simultaneous.                                                           *)
(*                                                                         *)
(* A module is reduced to what the passes look at: its globals with their  *)
(* initializers, its functions with their pointee information, and the     *)
(* body of one function.  A value is a tuple whose head says what it is:   *)
(*   <<"glob", g>>  <<"arg", a>>  <<"inst", x>>  <<"const", c>>            *)
(*   <<"block", b>> (a blockaddress)  <<"asm", t>>  <<"null">>  <<"int">>  *)
(* and the inserted ones, named after the slot they are inserted for:      *)
(*   <<"pre", pass, user, k>>  <<"post", value>>  <<"dem", user, k, c>>.   *)
(***************************************************************************)
EXTENDS Naturals, Sequences, FiniteSets, TLC, SequencesExt

CONSTANT Modules

VARIABLES
    unit,   \* the module; only its function body changes
    body,   \* block -> sequence of instructions
    step,   \* the next pass of run(), then buildPointerMap
    map     \* the pointer map, as a set of <<value, type>>

vars == <<unit, body, step, map>>

-----------------------------------------------------------------------------
(* Types *)

PTR == <<"ptr">>           \* the opaque pointer, written as {}*
I8 == <<"i8">>
TP(t) == <<"tp", t>>       \* TypedPointerType
FN(ret, params) == <<"fn", ret, params>>
NoType == <<"none">>
Cyclic == <<"cyclic">>

\* The typed signatures the rewriter knows by intrinsic: the pointee of the
\* result, and of the parameters that have one.
Known ==
    LET Sig(ret, params) == [ret |-> ret, params |-> params]
        Takes(n) == Sig(NoType, [k \in 1..n |-> I8])
    IN [vastart |-> Takes(1), vaend |-> Takes(1), vacopy |-> Takes(2),
        gcroot |-> Sig(NoType, <<TP(I8), I8>>),
        gcread |-> Sig(I8, <<I8, TP(I8)>>),
        gcwrite |-> Sig(NoType, <<I8, I8, TP(I8)>>),
        returnaddress |-> Sig(I8, <<>>), addressofreturnaddress |-> Sig(I8, <<>>),
        sponentry |-> Sig(I8, <<>>), frameaddress |-> Sig(I8, <<>>),
        stacksave |-> Sig(I8, <<>>), stackrestore |-> Takes(1),
        prefetch |-> Takes(1), clear_cache |-> Takes(2),
        thread_pointer |-> Sig(I8, <<>>), amdgcn_ptr |-> Sig(I8, <<>>),
        amdgcn_is |-> Takes(1), memcpy |-> Takes(2), memmove |-> Takes(2),
        memset |-> Takes(1)]

\* The pointee of a parameter: by intrinsic, else by !arg_eltypes, else by
\* its byval, sret, inalloca or byref attribute.
Pointees(f) ==
    IF f.intrinsic \in DOMAIN Known THEN Known[f.intrinsic].params
    ELSE f.eltypes @@ f.attrs

UntypedSig(f) == FN(f.ret, f.params)
TypedSig(f) ==
    LET pt == Pointees(f)
        known == f.intrinsic \in DOMAIN Known
    IN FN(IF known /\ Known[f.intrinsic].ret # NoType
          THEN TP(Known[f.intrinsic].ret) ELSE f.ret,
          [k \in DOMAIN f.params |->
             IF k \in DOMAIN pt THEN TP(pt[k]) ELSE f.params[k]])

Globals == DOMAIN unit.globals
Funcs == DOMAIN unit.funcs
IsGlobal(v) == v[1] = "glob"
IsFunc(v) == v[1] = "glob" /\ v[2] \in Funcs

\* The value type a global is written with, derived for a pointer-valued one
\* from what its initializer or aliasee points to; a cycle has none.
Pointee(t) == IF t = Cyclic THEN Cyclic ELSE TP(t)
GlobalValueType ==
    LET Of[p \in (Globals \cup Funcs) \X SUBSET Globals] ==
          LET g == p[1]
              seen == p[2]
              init == unit.globals[g].init
          IN IF g \in Funcs THEN TypedSig(unit.funcs[g])
             ELSE IF unit.globals[g].ty # PTR THEN unit.globals[g].ty
             ELSE IF g \in seen THEN Cyclic
             ELSE IF unit.globals[g].kind = "ifunc" THEN PTR
             ELSE IF IsGlobal(init) THEN Pointee(Of[<<init[2], seen \cup {g}>>])
             ELSE IF init[1] = "block" THEN TP(I8)
             ELSE PTR
    IN [g \in Globals \cup Funcs |->
          IF g \in Globals /\ unit.globals[g].kind = "ifunc"
          THEN unit.globals[g].ty ELSE Of[<<g, {}>>]]

-----------------------------------------------------------------------------
(* Instructions: [id, op, ops, ty, inc]; ty is the type it loads, stores,  *)
(* allocates, indexes or calls, inc the incoming blocks of a phi.  A call  *)
(* or an invoke has its callee last.                                       *)

Instrs == UNION {Range(body[b]) : b \in DOMAIN body}
Slots == UNION {{<<i, k>> : k \in DOMAIN i.ops} : i \in Instrs}
IsCallBase(i) == i.op \in {"call", "invoke"}
IsCalleeSlot(i, k) == IsCallBase(i) /\ k = Len(i.ops)
Callee(i) == Last(i.ops)

\* CallBase::getCalledFunction: a function called with its own type.
IsDirect(i) ==
    IsFunc(Callee(i)) /\ UntypedSig(unit.funcs[Callee(i)[2]]) = i.ty

\* The builders: code[<<i, k>>] goes before instruction i, or to the end of
\* the incoming block if i is a phi, and operand k of i becomes the value it
\* ends with; the instructions in after are followed by a cast that takes
\* over their uses.
Cast(id, v) ==
    [id |-> id, op |-> "bitcast", ops |-> <<v>>, ty |-> PTR, inc |-> <<>>]
CodeAt(code, i, k) == IF <<i, k>> \in DOMAIN code THEN code[<<i, k>>] ELSE <<>>

\* What is inserted before an instruction of its own.
Before(code, i) ==
    IF i.op = "phi" THEN <<>>
    ELSE FlattenSeq([k \in DOMAIN i.ops |-> CodeAt(code, i, k)])

\* Mutant: the code of a phi goes before the terminator of the phi's block.
AtEndOfUser(code, b) ==
    LET s == body[b]
    IN FlattenSeq([j \in DOMAIN s |->
         FlattenSeq([k \in DOMAIN s[j].inc |-> CodeAt(code, s[j], k)])])

\* What is inserted before the terminator of a block for the phis it reaches.
AtEnd(code, b) ==
    FlattenSeq([n \in DOMAIN unit.layout |->
      LET s == body[unit.layout[n]]
      IN FlattenSeq([j \in DOMAIN s |->
           FlattenSeq([k \in DOMAIN s[j].inc |->
              IF s[j].inc[k] = b THEN CodeAt(code, s[j], k) ELSE <<>>])])])

\* replaceAllUsesWith: the uses of an instruction are uses of its cast.
Replaced(after, v) == IF v \in after THEN <<"post", v>> ELSE v
Moved(after, s) ==
    [n \in DOMAIN s |->
       [s[n] EXCEPT !.ops = [k \in DOMAIN @ |-> Replaced(after, @[k])]]]
New(code, after, i) ==
    [i EXCEPT !.ops = [k \in DOMAIN i.ops |->
       IF <<i, k>> \in DOMAIN code THEN Last(code[<<i, k>>]).id
       ELSE Replaced(after, i.ops[k])]]
Appended(after, i) ==
    IF i.id \in after THEN <<Cast(<<"post", i.id>>, i.id)>> ELSE <<>>

\* What stands in a block for its instruction n.
Piece(code, after, b, n) ==
    (IF n = Len(body[b]) THEN Moved(after, AtEnd(code, b)) ELSE <<>>)
    \o Moved(after, Before(code, body[b][n]))
    \o <<New(code, after, body[b][n])>> \o Appended(after, body[b][n])
Rewritten(code, after) ==
    [b \in DOMAIN body |->
       FlattenSeq([n \in DOMAIN body[b] |-> Piece(code, after, b, n)])]

\* Mutant: every operand of a user is given a cast of the first one.
WithCastsOfFirst(pass, slots, after) ==
    Rewritten([s \in slots |->
                 <<Cast(<<"pre", pass, s[1].id, s[2]>>, s[1].ops[1])>>],
              after)

\* prependBitcast on the slots of a pass, appendBitcast on its instructions.
WithCasts(pass, slots, after) ==
    Rewritten([s \in slots |->
                 <<Cast(<<"pre", pass, s[1].id, s[2]>>, s[1].ops[s[2]])>>],
              after)

-----------------------------------------------------------------------------
(* The passes *)

\* requiresPointerRewriting: a pointer to a global, a block or a constant
\* expression, here or in an operand; null and undef never.
Requires ==
    LET Of[c \in DOMAIN unit.consts] ==
          \/ unit.consts[c].ptr
          \/ \E k \in DOMAIN unit.consts[c].ops :
               LET v == unit.consts[c].ops[k]
               IN IsGlobal(v) \/ v[1] = "block"
                  \/ (v[1] = "const" /\ Of[v[2]])
    IN Of
Demotable(v) == v[1] = "const" /\ Requires[v[2]]

\* The instruction a constant becomes, for operand k of i.
Materialized(i, k, c) ==
    LET d == unit.consts[c]
    IN [id |-> <<"dem", i.id, k, c>>, op |-> d.op, ty |-> d.ty, inc |-> <<>>,
        ops |-> [n \in DOMAIN d.ops |->
                   IF Demotable(d.ops[n]) THEN <<"dem", i.id, k, d.ops[n][2]>>
                   ELSE d.ops[n]]]

\* The instructions for an operand, those of its operands first.
Expansion(i, k) ==
    LET Of[c \in DOMAIN unit.consts] ==
          LET ops == unit.consts[c].ops
          IN FlattenSeq([n \in DOMAIN ops |->
                           IF Demotable(ops[n]) THEN Of[ops[n][2]] ELSE <<>>])
             \o <<Materialized(i, k, c)>>
    IN Of[i.ops[k][2]]

demotePointerConstants ==
    /\ step = "demote"
    /\ LET slots == {s \in Slots : Demotable(s[1].ops[s[2]])}
       IN body' = Rewritten([s \in slots |-> Expansion(s[1], s[2])], {})
    /\ step' = "globals"
    /\ UNCHANGED <<unit, map>>

\* replaceWithBitcast on every global value: all uses but direct callees.
bitcastGlobalValues ==
    /\ step = "globals"
    /\ body' = WithCasts("globals",
                 {s \in Slots : /\ IsGlobal(s[1].ops[s[2]])
                                /\ ~IsCalleeSlot(s[1], s[2])}, {})
    /\ step' = "blocks"
    /\ UNCHANGED <<unit, map>>

bitcastBlockAddresses ==
    /\ step = "blocks"
    /\ body' = WithCasts("blocks",
                 {s \in Slots : /\ s[1].ops[s[2]][1] = "block"
                                /\ ~IsCalleeSlot(s[1], s[2])}, {})
    /\ step' = "operands"
    /\ UNCHANGED <<unit, map>>

\* Mutant: stores are forgotten.
PointerSlotNoStore(i, k) ==
    \/ i.op \in {"load", "rmw", "cmpxchg", "gep"} /\ k = 1
    \/ /\ i.op = "call" /\ k = Len(i.ops)
       /\ ~IsDirect(i) /\ Callee(i)[1] # "asm"

\* The pointer operand of an instruction that implies its pointee.  Of the
\* call instructions only calls are looked at, not invokes.
PointerSlot(i, k) ==
    \/ i.op \in {"load", "rmw", "cmpxchg", "gep"} /\ k = 1
    \/ i.op = "store" /\ k = 2
    \/ /\ i.op = "call" /\ k = Len(i.ops)
       /\ ~IsDirect(i) /\ Callee(i)[1] # "asm"

\* Mutant: only allocas are followed by a cast.
bitcastOperandsAlloca ==
    /\ step = "operands"
    /\ \A i \in Instrs : i.op # "vgep"
    /\ body' = WithCasts("operands",
                 {s \in Slots : PointerSlot(s[1], s[2])},
                 {i.id : i \in {j \in Instrs : j.op = "alloca"}})
    /\ step' = "calls"
    /\ UNCHANGED <<unit, map>>

bitcastInstructionOperands ==
    /\ step = "operands"
    /\ \A i \in Instrs : i.op # "vgep"
    /\ body' = WithCasts("operands",
                 {s \in Slots : PointerSlot(s[1], s[2])},
                 {i.id : i \in {j \in Instrs : j.op \in {"gep", "alloca"}}})
    /\ step' = "calls"
    /\ UNCHANGED <<unit, map>>

\* A vector-of-pointers GEP has no typed form: reportError.
rejectVectorGEP ==
    /\ step = "operands"
    /\ \E i \in Instrs : i.op = "vgep"
    /\ step' = "error"
    /\ UNCHANGED <<unit, body, map>>

\* The call instructions among F.users(), and the parameters F retypes.
CallsOf(f) == {i \in Instrs : i.op = "call" /\ <<"glob", f>> \in Range(i.ops)}
Retyped(f) == {k \in DOMAIN unit.funcs[f].params :
                 TypedSig(unit.funcs[f])[3][k] # unit.funcs[f].params[k]}
HasUses(v) == \E s \in Slots : s[1].ops[s[2]] = v

\* Mutant: the arguments of a call are typed where they are defined.
bitcastFunctionOperandsBare ==
    /\ step = "calls"
    /\ body' = WithCasts("calls", {},
                 UNION {{i.id : i \in {j \in CallsOf(f) : HasUses(j.id)}} :
                          f \in {g \in Funcs : TypedSig(unit.funcs[g])[2]
                                                 # unit.funcs[g].ret}})
    /\ step' = "args"
    /\ UNCHANGED <<unit, map>>

bitcastFunctionOperands ==
    /\ step = "calls"
    /\ body' = WithCasts("calls",
                 UNION {{<<i, k>> : i \in CallsOf(f), k \in Retyped(f)} :
                          f \in Funcs},
                 UNION {{i.id : i \in {j \in CallsOf(f) : HasUses(j.id)}} :
                          f \in {g \in Funcs : TypedSig(unit.funcs[g])[2]
                                                 # unit.funcs[g].ret}})
    /\ step' = "args"
    /\ UNCHANGED <<unit, map>>

\* The arguments of the defined function whose parameter is retyped.
TypedArgs == {<<"arg", unit.funcs[unit.main].args[k]>> : k \in Retyped(unit.main)}

bitcastTypedArguments ==
    /\ step = "args"
    /\ body' = WithCasts("args",
                 {s \in Slots : /\ s[1].ops[s[2]] \in TypedArgs
                                /\ ~IsCalleeSlot(s[1], s[2])}, {})
    /\ step' = "map"
    /\ UNCHANGED <<unit, map>>

-----------------------------------------------------------------------------
(* buildPointerMap *)

\* The initializers of the variables; an alias or an ifunc has none.
Initializers ==
    {unit.globals[g].init : g \in {h \in Globals : unit.globals[h].kind = "var"}}

\* visitBlockAddresses: down the operands of a constant, but not into globals.
InitializerBlocks ==
    LET Leaves(v, Sub) == IF v[1] = "const" THEN Sub[v[2]] ELSE {v}
        Of[c \in DOMAIN unit.consts] ==
          UNION {Leaves(v, Of) : v \in Range(unit.consts[c].ops)}
    IN {v \in UNION {Leaves(init, Of) : init \in Initializers} : v[1] = "block"}

\* Those of a body are operands: demotePointerConstants left no others there.
BlockAddresses ==
    InitializerBlocks \cup {v \in {s[1].ops[s[2]] : s \in Slots} : v[1] = "block"}

\* getResultElementType: the first index steps over whole elements, each other
\* one into an element, here an array's.
ResultElementType(i) ==
    LET At[n \in DOMAIN i.ops] == IF n <= 2 THEN i.ty ELSE At[n - 1][2]
    IN At[Len(i.ops)]

\* The pointee an instruction gives its pointer operand or itself.
FromInstr(i) ==
    CASE i.op \in {"load", "rmw", "cmpxchg"} -> {<<i.ops[1], TP(i.ty)>>}
      [] i.op = "store" -> {<<i.ops[2], TP(i.ty)>>}
      [] i.op = "gep" -> {<<i.ops[1], TP(i.ty)>>, <<i.id, TP(ResultElementType(i))>>}
      [] i.op = "alloca" -> {<<i.id, TP(i.ty)>>}
      [] i.op = "call" /\ ~IsDirect(i) -> {<<Callee(i), TP(i.ty)>>}
      [] OTHER -> {}

FromFunction(f) ==
    {<<<<"glob", f>>, TP(TypedSig(unit.funcs[f]))>>}
    \cup {<<i.ops[k], TypedSig(unit.funcs[f])[3][k]>> :
            i \in {j \in CallsOf(f) : Callee(j) = <<"glob", f>>},
            k \in Retyped(f)}

PointerFacts ==
    {<<<<"glob", g>>, TP(GlobalValueType[g])>> : g \in Globals}
    \cup {<<v, TP(I8)>> : v \in BlockAddresses}
    \cup (UNION {FromInstr(i) : i \in Instrs})
    \cup (UNION {FromFunction(f) : f \in Funcs})
    \cup {<<<<"arg", unit.funcs[unit.main].args[k]>>,
            TypedSig(unit.funcs[unit.main])[3][k]>> : k \in Retyped(unit.main)}

buildPointerMap ==
    /\ step = "map"
    /\ \A g \in Globals : GlobalValueType[g] # Cyclic
    /\ map' = PointerFacts
    /\ step' = "done"
    /\ UNCHANGED <<unit, body>>

\* "cyclic pointer-typed global initializers are not supported"
rejectCyclicGlobals ==
    /\ step = "map"
    /\ \E g \in Globals : GlobalValueType[g] = Cyclic
    /\ step' = "error"
    /\ UNCHANGED <<unit, body, map>>

-----------------------------------------------------------------------------
(* What the verifier has made sure of before the rewriter runs. *)

InstrsOf(u) == UNION {Range(u.body[b]) : b \in DOMAIN u.body}
Values(u) ==
    {<<"glob", g>> : g \in DOMAIN u.globals \cup DOMAIN u.funcs}
    \cup {<<"arg", a>> : a \in Range(u.funcs[u.main].args)}
    \cup {<<"const", c>> : c \in DOMAIN u.consts}
    \cup {<<"block", b>> : b \in DOMAIN u.body}
    \cup {<<"null">>, <<"int">>}

\* The opcodes a constant expression or an aggregate becomes.
ConstantOps == {"gep", "select", "bitcast", "ptrtoint", "inttoptr", "insertvalue"}

\* The operands an access to memory has in any case.
Arity(op) == CASE op \in {"load", "rmw", "cmpxchg", "gep"} -> 1
               [] op = "store" -> 2
               [] OTHER -> 0

\* The instructions: each has a name of its own, calls have an argument for
\* each parameter, and only a callee is inline assembly.
WellFormedBody(u) ==
    /\ u.layout \in Seq(DOMAIN u.body) /\ Range(u.layout) = DOMAIN u.body
    /\ \A b \in DOMAIN u.body : u.body[b] \in Seq(Range(u.body[b]))
    /\ \A i, j \in InstrsOf(u) : i.id = j.id => i = j
    /\ \A i \in InstrsOf(u) :
         /\ DOMAIN i = {"id", "op", "ops", "ty", "inc"} /\ i.id[1] = "inst"
         /\ i.ops \in Seq(Range(i.ops)) /\ i.inc \in Seq(DOMAIN u.body)
         /\ 1..Arity(i.op) \subseteq DOMAIN i.ops
         /\ i.op = "phi" => DOMAIN i.inc = DOMAIN i.ops
         /\ i.op # "phi" => i.inc = <<>>
         /\ IsCallBase(i) => i.ty[3] \in Seq(Range(i.ty[3]))
                             /\ Len(i.ops) > Len(i.ty[3])
         /\ \A k \in DOMAIN i.ops :
              \/ i.ops[k] \in Values(u) \cup {j.id : j \in InstrsOf(u)}
              \/ IsCalleeSlot(i, k) /\ i.ops[k] = <<"asm", i.ty>>

\* The constants: made of constants that are made without them.
WellFormedConstants(u) ==
  /\ IsFiniteSet(DOMAIN u.consts)
  /\ \E rank \in [DOMAIN u.consts -> 0..Cardinality(DOMAIN u.consts)] :
      \A c \in DOMAIN u.consts :
        /\ u.consts[c].op \in ConstantOps
        /\ u.consts[c].ops \in Seq(Range(u.consts[c].ops))
        /\ 1..Arity(u.consts[c].op) \subseteq DOMAIN u.consts[c].ops
        /\ \A v \in Range(u.consts[c].ops) :
             /\ v \in Values(u) /\ v[1] # "arg"
             /\ v[1] = "const" => rank[v[2]] < rank[c]

\* The symbols: a name is a global's or a function's, and the parameters are
\* named apart.
WellFormedSymbols(u) ==
    /\ IsFiniteSet(DOMAIN u.globals) /\ DOMAIN u.globals \cap DOMAIN u.funcs = {}
    /\ u.main \in DOMAIN u.funcs
    /\ LET f == u.funcs[u.main]
       IN /\ DOMAIN f.args = DOMAIN f.params
          /\ \A k, l \in DOMAIN f.args : f.args[k] = f.args[l] => k = l
    /\ \A f \in DOMAIN u.funcs : u.funcs[f].params \in Seq(Range(u.funcs[f].params))

WellFormed(u) ==
    WellFormedBody(u) /\ WellFormedConstants(u) /\ WellFormedSymbols(u)
ASSUME ModulesAssumption == \A u \in Modules : WellFormed(u)

Init ==
    /\ unit \in Modules
    /\ body = unit.body
    /\ step = "demote"
    /\ map = {}

Next ==
    \/ demotePointerConstants \/ bitcastGlobalValues \/ bitcastBlockAddresses
    \/ bitcastInstructionOperands \/ rejectVectorGEP
    \/ bitcastFunctionOperands \/ bitcastTypedArguments
    \/ buildPointerMap \/ rejectCyclicGlobals

Spec == Init /\ [][Next]_vars

\* orderedPointerTypes: what the writer enumerates before it writes the type
\* table, as a set (the order only has to be deterministic).
OrderedPointerTypes ==
    LET visited == {<<"glob", g>> : g \in Globals \cup Funcs}
                   \cup Initializers \cup InitializerBlocks
                   \cup {i.id : i \in Instrs}
                   \cup {s[1].ops[s[2]] : s \in Slots}
    IN {p[2] : p \in {q \in map : q[1] \in visited}}
=============================================================================
