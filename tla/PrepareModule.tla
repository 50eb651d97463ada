--------------------------- MODULE PrepareModule ---------------------------
(***************************************************************************)
(* What prepareModule of each target does to a module before its writer    *)
(* sees it (src/ModuleRewriter*.cpp and the intrinsic and module-flag      *)
(* passes of src/PointerRewriter.cpp); PointerRewriter::run, which follows *)
(* for 5.0, 7.0 and 14.0, is the module PointerRewriter.                   *)
(*                                                                         *)
(* One action is one turn of a pass's loop where the loop changes the list *)
(* it walks or fails in the middle of it, and the whole pass elsewhere.    *)
(***************************************************************************)
EXTENDS Naturals, Sequences, FiniteSets, SequencesExt

CONSTANT Units   \* the modules: records with the fields of the variables

(* Names.  A name is a base, the tokens of its mangling and the number that *)
(* setName appends when the name is taken.                                  *)

Host(k) == <<"p", k>>        \* .p0
Typed(k) == <<"pi8", k>>     \* .p0i8
Width(n) == <<"i", n>>
Named(base, mangling) == [base |-> base, mangling |-> mangling, extra |-> 0]

\* The intrinsics whose names have changed, with the release that gave the
\* name its mangling; 15 made the pointers in it opaque, 7 dropped the
\* alignment argument of the memory intrinsics.
MangledFrom ==
    [vastart |-> 190, vaend |-> 190, vacopy |-> 190, stacksave |-> 170,
     stackrestore |-> 170, thread_pointer |-> 210, returnaddress |-> 230,
     clear_cache |-> 230, prefetch |-> 100, memcpy |-> 0, memmove |-> 0,
     memset |-> 0]
Widths(f) == IF f.bits = 0 THEN <<>> ELSE <<Width(f.bits)>>
Modern(f) == Named(f.id, [k \in DOMAIN f.as |-> Host(f.as[k])] \o Widths(f))

\* A module as the verifier leaves it: an intrinsic has the parameters its
\* release gave it, a call has those of its callee, and an alignment for each
\* pointer of a memory intrinsic.  A name is no other function's, and that of
\* an intrinsic spells its overloaded types: pointers, and the length of a
\* memory intrinsic.  A function is known by its key; the second part tells a
\* rebuilt one from the parsed one.
Keys == STRING \X {0, 1}
Functions == [key : Keys, id : STRING, as : Seq(Nat), bits : Nat, params : Nat,
              name : [base : STRING, mangling : Seq(STRING \X Nat), extra : Nat]]
Calls == [at : Nat, callee : Keys, align : Seq(Nat), args : Nat]
Flags == [behavior : Nat, key : STRING]
MemIntrinsic(f) == f.id \in {"memcpy", "memmove", "memset"}
Pointers(f) == IF f.id = "memset" THEN 1 ELSE 2
Verified(u) ==
    /\ u.funcs \in Seq(Functions) /\ u.calls \subseteq Calls /\ u.flags \in Seq(Flags)
    /\ \A m, n \in DOMAIN u.funcs : u.funcs[m].key = u.funcs[n].key => m = n
    /\ \A n \in DOMAIN u.funcs :
         /\ u.funcs[n].key[2] = 0
         /\ MemIntrinsic(u.funcs[n]) => u.funcs[n].params = 4
         /\ u.funcs[n].id = "ptrmask" => u.funcs[n].as # <<>>
    /\ \A m, n \in DOMAIN u.funcs : u.funcs[m].name = u.funcs[n].name => m = n
    /\ \A n \in DOMAIN u.funcs :
         LET f == u.funcs[n]
         IN {f.id, f.name.base} \cap DOMAIN MangledFrom # {} =>
              /\ f.name = Modern(f)
              /\ f.bits # 0 <=> MemIntrinsic(f)
              /\ f.id = "prefetch" => Len(f.as) = 1
              /\ \A m \in DOMAIN u.funcs :
                   u.funcs[m].id = f.id => Len(u.funcs[m].as) = Len(f.as)
    /\ \A c, d \in u.calls : c.at = d.at => c = d
    /\ \A c \in u.calls : \E n \in DOMAIN u.funcs :
         LET f == u.funcs[n]
         IN /\ c.callee = f.key /\ c.args = f.params
            /\ MemIntrinsic(f) => Len(c.align) = Pointers(f)
ASSUME UnitsAssumption == \A u \in Units : Verified(u)

\* The instructions the passes are about: freezes, fnegs and what uses them.
\* Each has a name of its own, and a freeze or fneg that can be reached comes
\* after the one it takes, in some order if not in that of the layout.
Values == ({"inst"} \X Nat) \cup ({"const"} \X STRING)
Operations == {"freeze", "fneg", "fsub", "use"}
Instructions(V) == [id : V, op : Operations, ops : Seq(V), fmf : SUBSET STRING]
Rewritable(i) == i.op \in {"freeze", "fneg"}
Chained(s) ==
    /\ s \in Seq(Instructions(Values))
    /\ \A m, n \in DOMAIN s : s[m].id = s[n].id => m = n
    /\ \A n \in DOMAIN s :
         /\ s[n].id[1] = "inst" /\ s[n].op # "fsub"
         /\ Rewritable(s[n]) => Len(s[n].ops) = 1
    /\ \E depth \in [DOMAIN s -> 1 .. Len(s)] : \A m, n \in DOMAIN s :
         Rewritable(s[m]) /\ Rewritable(s[n]) /\ s[n].ops[1] = s[m].id
           => depth[m] < depth[n]
ASSUME ChainsAssumption == \A u \in Units : Chained(u.insts)

VARIABLES
    unit,    \* the module as it was parsed
    target,  \* 50, 70, 140, 180 or 200
    turn,    \* the pass that is running, as an index into Passes(target)
    cursor,  \* the function the current pass visits next, or End
    failed,  \* a pass has called reportError
    funcs,   \* the function list: [key, id, as, bits, params, name]
    calls,   \* the calls of intrinsics: [at, callee, align, args]
    insts,   \* freezes, fnegs and their users: [id, op, ops, fmf]
    flags,   \* llvm.module.flags: [behavior, key]
    attrs,   \* attribute sets: site -> set of kinds
    records  \* the debug records: [at, kind]

program == <<funcs, calls, insts, flags, attrs, records>>
vars == <<unit, target, turn, cursor, failed, program>>

-----------------------------------------------------------------------------
(* The names of the targets *)

Major == target \div 10
DefaultAS(f) == \A k \in DOMAIN f.as : f.as[k] = 0

\* Mutant: prefetch is spelled as LLVM 14 does for every target.
legacyIntrinsicNamePrefetch(f) ==
    CASE f.id \in {"vastart", "vaend", "vacopy", "stacksave", "stackrestore",
                   "thread_pointer", "returnaddress", "clear_cache"} ->
           {Named(f.id, <<>>)}
      [] f.id = "prefetch" -> {Named(f.id, <<Typed(f.as[1])>>)}
      [] f.id \in {"memcpy", "memmove", "memset"} ->
           {Named(f.id, [k \in DOMAIN f.as |-> Typed(f.as[k])]
                        \o <<Width(f.bits)>>)}
      [] OTHER -> {}

\* legacyIntrinsicName: the spelling before LLVM 15, as a set of at most one.
legacyIntrinsicName(f) ==
    CASE f.id \in {"vastart", "vaend", "vacopy", "stacksave", "stackrestore",
                   "thread_pointer", "returnaddress", "clear_cache"} ->
           {Named(f.id, <<>>)}
      [] f.id = "prefetch" ->
           {Named(f.id, IF Major >= 10 THEN <<Typed(f.as[1])>> ELSE <<>>)}
      [] f.id \in {"memcpy", "memmove", "memset"} ->
           {Named(f.id, [k \in DOMAIN f.as |-> Typed(f.as[k])]
                        \o <<Width(f.bits)>>)}
      [] OTHER -> {}

\* The names of renameLegacyIntrinsics, for 18.0 and for 20.0.
renamed180(f) ==
    IF f.id \in {"vastart", "vaend", "vacopy", "thread_pointer",
                 "returnaddress", "clear_cache"}
    THEN {Named(f.id, <<>>)} ELSE {}
renamed200(f) ==
    IF f.id \in {"thread_pointer", "returnaddress", "clear_cache"}
    THEN {Named(f.id, <<>>)} ELSE {}

NewName(f) ==
    CASE target = 200 -> renamed200(f)
      [] target = 180 -> renamed180(f)
      [] OTHER -> legacyIntrinsicName(f)

\* Mutant: nothing is asked of the address space.
ChecksSpaceNever(f) == FALSE

\* The intrinsics whose address space the renaming looks at.
ChecksSpace(f) ==
    IF target \in {180, 200} THEN NewName(f) # {}
    ELSE f.id \in {"thread_pointer", "returnaddress", "clear_cache"}

\* Value::setName on a symbol table that keeps names apart.
SetName(f, name) ==
    LET taken == {funcs[n].name : n \in {m \in DOMAIN funcs : funcs[m].key # f.key}}
        free == {k \in 0..Len(funcs) : [name EXCEPT !.extra = k] \notin taken}
    IN [name EXCEPT !.extra = CHOOSE k \in free : \A l \in free : k <= l]

-----------------------------------------------------------------------------
(* The passes *)

Targets == {50, 70, 140, 180, 200}
Passes(t) ==
    CASE t = 50 -> <<"freeze", "fneg", "lifetime", "align", "names", "flags", "check">>
      [] t = 70 -> <<"freeze", "fneg", "lifetime", "names", "flags", "check">>
      [] t = 140 -> <<"attrs", "lifetime", "names", "flags">>
      [] t = 180 -> <<"attrs", "names", "lifetime">>
      [] t = 200 -> <<"names", "lifetime", "records">>

End == <<>>
FirstOf(fs) == IF fs = <<>> THEN End ELSE Head(fs).key
Running(pass) == turn <= Len(Passes(target)) /\ Passes(target)[turn] = pass /\ ~failed
\* The next pass starts at the head of the function list it finds.
Finish == turn' = turn + 1 /\ cursor' = FirstOf(funcs)
Fail == failed' = TRUE /\ UNCHANGED <<turn, cursor>>

Position(key) == CHOOSE n \in DOMAIN funcs : funcs[n].key = key
\* The iterator after a function, taken before the body runs.
After(key) == FirstOf(SubSeq(funcs, Position(key) + 1, Len(funcs)))

Replaced(s, old, new) ==
    [n \in DOMAIN s |->
       [s[n] EXCEPT !.ops = [k \in DOMAIN @ |-> IF @[k] = old THEN new ELSE @[k]]]]
Least(S) == CHOOSE n \in S : \A m \in S : n <= m

\* Mutants: the instruction goes, its uses stay; the other way round.
FreezeErased(n) == RemoveAt(insts, n)
FreezeReplaced(n) == Replaced(insts, insts[n].id, insts[n].ops[1])

\* Without freeze instruction n: its uses take its operand.
WithoutFreeze(n) == Replaced(RemoveAt(insts, n), insts[n].id, insts[n].ops[1])

removeFreeze ==
    /\ Running("freeze")
    /\ LET freezes == {n \in DOMAIN insts : insts[n].op = "freeze"}
       IN IF freezes = {} THEN Finish /\ UNCHANGED insts
          ELSE insts' = WithoutFreeze(Least(freezes)) /\ UNCHANGED <<turn, cursor>>
    /\ UNCHANGED <<unit, target, failed, funcs, calls, flags, attrs, records>>

\* The builder folds the subtraction if the operand is a constant.
IsConst(v) == v[1] = "const"
WithFSub(n) ==
    LET i == insts[n]
        neg == <<"neg", i.id>>
    IN IF IsConst(i.ops[1])
       THEN Replaced(RemoveAt(insts, n), i.id, <<"const", "-", i.ops[1]>>)
       ELSE Replaced([insts EXCEPT ![n] =
                        [id |-> neg, op |-> "fsub", fmf |-> i.fmf,
                         ops |-> <<<<"const", "-0.0">>, i.ops[1]>>]],
                     i.id, neg)

replaceFNeg ==
    /\ Running("fneg")
    /\ LET fnegs == {n \in DOMAIN insts : insts[n].op = "fneg"}
       IN IF fnegs = {} THEN Finish /\ UNCHANGED insts
          ELSE insts' = WithFSub(Least(fnegs)) /\ UNCHANGED <<turn, cursor>>
    /\ UNCHANGED <<unit, target, failed, funcs, calls, flags, attrs, records>>

\* The loops over the functions: a turn visits one of them, and the iterator
\* has moved on before the body runs.
Loops == {"lifetime", "align", "names"}
loopDone ==
    /\ \E pass \in Loops : Running(pass)
    /\ cursor = End /\ Finish
    /\ UNCHANGED <<unit, target, failed, program>>

dropLifetimeIntrinsics ==
    /\ Running("lifetime") /\ cursor # End
    /\ LET f == funcs[Position(cursor)]
       IN IF f.id = "lifetime"
          THEN /\ calls' = {c \in calls : c.callee # f.key}
               /\ funcs' = RemoveAt(funcs, Position(cursor))
          ELSE UNCHANGED <<funcs, calls>>
    /\ cursor' = After(cursor)
    /\ UNCHANGED <<unit, target, turn, failed, insts, flags, attrs, records>>

\* Mutant: the alignment of the destination is taken for both pointers.
DestAlign(f, c) == c.align[1]

\* The conservative alignment of a call; memset has one pointer only.
MinAlign(f, c) ==
    IF f.id # "memset" /\ c.align[2] < c.align[1] THEN c.align[2] ELSE c.align[1]

\* addMemIntrinsicAlignArg, one function: the new function goes to the end of
\* the list, the calls are rebuilt, the old function is erased and gives its
\* name to the new one.
Copy(f) == [f EXCEPT !.key = <<f.key[1], 1>>, !.params = 5]
Rebuilt(f, c) ==
    IF c.callee = f.key
    THEN [c EXCEPT !.callee = Copy(f).key, !.args = 5, !.align = <<MinAlign(f, c)>>]
    ELSE c

addMemIntrinsicAlignArg ==
    /\ Running("align") /\ cursor # End
    /\ LET f == funcs[Position(cursor)]
       IN IF MemIntrinsic(f) /\ f.params = 4
          THEN /\ calls' = {Rebuilt(f, c) : c \in calls}
               /\ funcs' = Append(RemoveAt(funcs, Position(cursor)), Copy(f))
          ELSE UNCHANGED <<funcs, calls>>
    /\ cursor' = After(cursor)
    /\ UNCHANGED <<unit, target, turn, failed, insts, flags, attrs, records>>

\* The renaming loop of prepareIntrinsics and of renameLegacyIntrinsics.
renameIntrinsic ==
    /\ Running("names") /\ cursor # End
    /\ LET n == Position(cursor)
           f == funcs[n]
       IN \/ /\ ~(ChecksSpace(f) /\ ~DefaultAS(f))
             /\ funcs' = [funcs EXCEPT ![n].name =
                  IF \E name \in NewName(f) : f.name # name
                  THEN SetName(f, CHOOSE name \in NewName(f) : TRUE) ELSE @]
             /\ cursor' = After(cursor)
             /\ UNCHANGED <<turn, failed>>
          \/ /\ ChecksSpace(f) /\ ~DefaultAS(f)
             /\ Fail /\ UNCHANGED funcs
    /\ UNCHANGED <<unit, target, calls, insts, flags, attrs, records>>

\* downgradeModuleFlags: Module::Max is 7 and Module::Min 8.
MaxBehavior == 7
MinBehavior == 8
Representable(flag) ==
    flag.behavior <= MaxBehavior
    \/ (flag.behavior = MinBehavior /\ flag.key = "PIC Level")

LegacyFlag(flag) ==
    IF flag.behavior <= MaxBehavior THEN flag
    ELSE [flag EXCEPT !.behavior = MaxBehavior]

downgradeModuleFlags ==
    /\ Running("flags")
    /\ \/ /\ \A n \in DOMAIN flags : Representable(flags[n])
          /\ flags' = [n \in DOMAIN flags |-> LegacyFlag(flags[n])]
          /\ Finish /\ UNCHANGED failed
       \/ /\ \E n \in DOMAIN flags : ~Representable(flags[n])
          /\ Fail /\ UNCHANGED flags
    /\ UNCHANGED <<unit, target, funcs, calls, insts, attrs, records>>

\* checkIntrinsics: a used intrinsic with pointers needs a typed signature,
\* and before 7.0 the AMDGPU pointers have another address space.
HasTypedSignature(f) == f.id # "ptrmask"
Inexpressible(f) ==
    /\ \E c \in calls : c.callee = f.key
    /\ \/ Major < 7 /\ f.id = "dispatch_ptr"
       \/ f.as # <<>> /\ f.id # "none" /\ ~HasTypedSignature(f)

checkIntrinsics ==
    /\ Running("check")
    /\ IF \E n \in DOMAIN funcs : Inexpressible(funcs[n])
       THEN Fail ELSE Finish /\ UNCHANGED failed
    /\ UNCHANGED <<unit, target, program>>

\* stripUnsupportedAttrs on every function and call site.
RangeKinds == {"range", "initializes", "captures_list"}
stripUnsupportedAttrs ==
    /\ Running("attrs")
    /\ attrs' = [site \in DOMAIN attrs |-> attrs[site] \ RangeKinds]
    /\ Finish
    /\ UNCHANGED <<unit, target, failed, funcs, calls, insts, flags, records>>

dropDeclareValueRecords ==
    /\ Running("records")
    /\ records' = {r \in records : r.kind # "declare_value"}
    /\ Finish
    /\ UNCHANGED <<unit, target, failed, funcs, calls, insts, flags, attrs>>

Init ==
    /\ unit \in Units
    /\ target \in Targets
    /\ turn = 1
    /\ cursor = FirstOf(unit.funcs)
    /\ failed = FALSE
    /\ funcs = unit.funcs /\ calls = unit.calls /\ insts = unit.insts
    /\ flags = unit.flags /\ attrs = unit.attrs /\ records = unit.records

Next ==
    \/ removeFreeze \/ replaceFNeg \/ loopDone \/ dropLifetimeIntrinsics
    \/ addMemIntrinsicAlignArg \/ renameIntrinsic
    \/ downgradeModuleFlags \/ checkIntrinsics \/ stripUnsupportedAttrs
    \/ dropDeclareValueRecords

Spec == Init /\ [][Next]_vars /\ WF_vars(Next)
-----------------------------------------------------------------------------
Done == turn > Len(Passes(target)) /\ ~failed
FuncsWith(fs, key) == {fs[n] : n \in {m \in DOMAIN fs : fs[m].key = key}}
CallAt(at) == CHOOSE c \in unit.calls : c.at = at

Spelling(f) ==
    LET pointer(k) == IF target < 150 THEN Typed(k) ELSE Host(k)
    IN Named(f.id, IF target < MangledFrom[f.id] THEN <<>>
                   ELSE [k \in DOMAIN f.as |-> pointer(f.as[k])] \o Widths(f))

\* The target's reader recognizes every intrinsic by the name and the number
\* of parameters that release gave it; an unmangled one takes pointers of
\* address space 0 only (ModuleRewriter180.cpp, ptr_overloaded_intrinsics.ll).
ReaderKnows ==
    Done => \A n \in DOMAIN funcs :
        LET f == funcs[n]
        IN f.id \in DOMAIN MangledFrom =>
             /\ f.name = Spelling(f)
             /\ target < MangledFrom[f.id] => DefaultAS(f)
             /\ MemIntrinsic(f) => f.params = IF target < 70 THEN 5 ELSE 4

\* Every call left calls a function that is left, with as many arguments as
\* it takes; the explicit alignment of a rebuilt call never promises more
\* than the original said of either pointer, and others keep theirs.
CallsMatch ==
    Done => \A c \in calls :
        LET was == CallAt(c.at).align
        IN \E f \in FuncsWith(funcs, c.callee) :
             /\ c.args = f.params
             /\ IF target < 70 /\ MemIntrinsic(f)
                THEN c.align = <<Least(Range(was))>> ELSE c.align = was

\* What a value stands for: a freeze is its operand, an fneg (or what it has
\* become) the negation of its operand, and a constant one is that constant.
Negated(w, fmf) == IF IsConst(w) THEN <<"const", "-", w>> ELSE <<"minus", w, fmf>>
ValueOf(s, v) ==
    LET defs == {s[n] : n \in DOMAIN s}
        Of[w \in {i.id : i \in defs} \cup UNION {Range(i.ops) : i \in defs}] ==
          IF \A i \in defs : i.id # w THEN w
          ELSE LET i == CHOOSE j \in defs : j.id = w
               IN CASE i.op = "freeze" -> Of[i.ops[1]]
                    [] i.op = "fneg" -> Negated(Of[i.ops[1]], i.fmf)
                    [] i.op = "fsub" -> Negated(Of[i.ops[2]], i.fmf)
                    [] OTHER -> w
    IN Of[v]

\* What the other instructions are, and what they compute with.
Meaning(s) ==
    LET used(i) == [id |-> i.id, ops |-> [k \in DOMAIN i.ops |-> ValueOf(s, i.ops[k])]]
    IN FlattenSeq([n \in DOMAIN s |->
                     IF s[n].op = "use" THEN <<used(s[n])>> ELSE <<>>])

\* The 5.0 and 7.0 targets have neither freeze nor fneg; the instructions
\* that remain compute with the same values and fast-math flags as before.
UsesIntact ==
    Done /\ target \in {50, 70} =>
        /\ \A n \in DOMAIN insts : insts[n].op \notin {"freeze", "fneg"}
        /\ Meaning(insts) = Meaning(unit.insts)

\* What a target's passes have no form for, in the module as it was parsed: a
\* module flag's behaviour, a pointer outside address space 0 under a name that
\* does not say so, an intrinsic without a known typed signature.
Offending ==
    \/ target <= 140 /\ \E n \in DOMAIN unit.flags : ~Representable(unit.flags[n])
    \/ \E n \in DOMAIN unit.funcs :
         LET f == unit.funcs[n]
         IN \/ f.id \in {"thread_pointer", "returnaddress", "clear_cache"}
               /\ ~DefaultAS(f)
            \/ target = 180 /\ f.id \in {"vastart", "vaend", "vacopy"} /\ ~DefaultAS(f)
            \/ /\ target <= 70
               /\ f.id = "ptrmask" \/ (f.id = "dispatch_ptr" /\ target < 70)
               /\ \E c \in unit.calls : c.callee = f.key

\* A module is rejected exactly if it holds one of them, in whatever order
\* the passes meet them.
RejectsExactly == (failed => Offending) /\ (Done => ~Offending)

\* Nothing is dropped but optimization hints: lifetime markers, range
\* attributes and, for 20.0, the debug records it has no kind for.
OnlyHintsDropped ==
    Done =>
        /\ \A n \in DOMAIN unit.funcs :
             LET f == unit.funcs[n]
             IN f.id = "lifetime" \/ \E g \in Range(funcs) :
                  g.id = f.id /\ g.as = f.as /\ g.bits = f.bits
        /\ {c.at : c \in calls} =
             {c.at : c \in {d \in unit.calls :
                \A f \in FuncsWith(unit.funcs, d.callee) : f.id # "lifetime"}}
        /\ \A site \in DOMAIN attrs : unit.attrs[site] \ attrs[site] \subseteq RangeKinds
        /\ Len(flags) = Len(unit.flags)
        /\ \A r \in unit.records \ records : r.kind = "declare_value"

\* The prepared module is the parsed one to its reader: what computes computes
\* the same, and what is gone was a hint.
MeaningKept == UsesIntact /\ OnlyHintsDropped

\* Every pass ends, also the one that appends to the list it walks.
Terminates == <>(Done \/ failed)
=============================================================================
