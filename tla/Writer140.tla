------------------------------ MODULE Writer140 ------------------------------
(***************************************************************************)
(* src/BitcodeWriter140.cpp, the writer for LLVM 14: what differs from     *)
(* Writer50, and by name what does not.                                    *)
(***************************************************************************)
EXTENDS Records
W50 == INSTANCE Writer50
W70 == INSTANCE Writer70

EncodedUnaryOpcode == [fneg |-> 0]
EncodedRMWOperation == W50!EncodedRMWOperation @@ [fadd |-> 11, fsub |-> 12]
OptimizationFlags(i) == W70!OptimizationFlags(i)

FNeg(i, flags, at) ==
    Only("UNOP",
         W50!Unless(i.value >= at, IF flags # 0 THEN "UNOP_FLAGS" ELSE "UNOP"),
         W50!PushValueAndType(i.value, at)
         \o <<EncodedUnaryOpcode[i.kind]>> \o If(flags # 0, <<flags>>))
\* The flags of select and phi come last.
Followed(rs, flags) ==
    [n \in DOMAIN rs |-> [rs[n] EXCEPT !.ops = @ \o If(flags # 0, <<flags>>)]]
Values(i, at) ==
    CASE i.op = "fneg" -> FNeg(i, OptimizationFlags(i), at)
      [] i.op = "select" -> Followed(W50!Select(i, at), OptimizationFlags(i))
      [] OTHER -> W70!Values(i, at)

Invoke(i, at) ==
    W50!OperandBundles(i, at)
    \o Only("INVOKE", "",
            <<i.attrs, i.cc + 2^13, i.normal, i.unwind, TypeID[i.fnType]>>
            \o W50!PushValueAndType(i.callee, at)
            \o W50!Arguments(i, Params[i.fnType], at))
Terminator(i, at) ==
    IF i.op = "invoke" THEN Invoke(i, at) ELSE W50!Terminator(i, at)

\* Five bits of the alignment, three flags, the rest of the alignment.
Alloca(i, at) ==
    LET align == BitsOf(W50!EncodedAlign(i))
    IN Only("ALLOCA", "",
            <<TypeID[i.type], TypeID[ValueType[i.size]], i.size,
              Word((align \cap 0 .. 4) \cup {b + 3 : b \in align \cap 5 .. 7}
                   \cup {6} \cup {b \in {5} : i.inalloca}
                   \cup {b \in {7} : i.swifterror})>>)
CompareExchange(i, at) ==
    LET old == W50!CompareExchange(i, at)[1]
    IN <<[old EXCEPT !.ops = Append(@, W50!EncodedAlign(i))]>>
\* The value has its type with it, and the alignment is written.
ReadModifyWrite(i, codes, at) ==
    IF i.operation \notin DOMAIN codes THEN Rejected
    ELSE Only("ATOMICRMW", "",
              W50!AllTyped(<<i.ptr, i.value>>, at)
              \o <<codes[i.operation], Bit(i.volatile),
                   W50!EncodedOrdering[i.ordering], W50!EncodedSyncScope[i.scope],
                   W50!EncodedAlign(i)>>)
Memory(i, at) ==
    CASE i.op = "phi" -> Followed(W50!Phi(i, at), OptimizationFlags(i))
      [] i.op = "alloca" -> Alloca(i, at)
      [] i.op = "cmpxchg" -> CompareExchange(i, at)
      [] i.op = "atomicrmw" -> ReadModifyWrite(i, EncodedRMWOperation, at)
      [] OTHER -> W50!Memory(i, at)

Freeze(i, at) == Only("FREEZE", "", W50!PushValueAndType(i.value, at))
CallBranch(i, at) == Rejected
Calls(i, at) ==
    CASE i.op = "freeze" -> Freeze(i, at)
      [] i.op = "callbr" -> CallBranch(i, at)
      [] OTHER -> W70!Calls(i, at)

Instruction(i, at) ==
    CASE i.op \in ValueOps -> Values(i, at)
      [] i.op \in MemoryOps -> Memory(i, at)
      [] i.op \in CallOps -> Calls(i, at)
      [] OTHER -> Terminator(i, at)

DebugLocation(loc, last) ==
    W50!Repeated(loc, last, Append(W50!LocationOps(loc), Bit(loc.implicit)))

UnaryAbbreviations ==
    [UNOP |-> W50!Abbreviation("UNOP", <<W50!VBR(6), W50!Fixed(4)>>),
     UNOP_FLAGS |-> W50!Abbreviation("UNOP", <<W50!VBR(6), W50!Fixed(4), W50!Fixed(8)>>)]
Abbreviations == W70!Abbreviations @@ UnaryAbbreviations

-----------------------------------------------------------------------------
(* Constants *)

\* The function type comes first, and whether it unwinds is one more flag.
InlineAsm(c) ==
    LET flags == [sideeffect |-> 0, alignstack |-> 1, intel |-> 2, unwind |-> 3]
    IN Only("INLINEASM", "",
            <<TypeID[c.fnType], FlagWord(flags, c.flags), Len(c.asm)>> \o c.asm
            \o <<Len(c.constraints)>> \o c.constraints)
Float(c) ==
    IF c.type = "bfloat" THEN Only("FLOAT", "", c.words) ELSE W50!Float(c)
Literal(c, global) ==
    CASE c.op = "asm" -> InlineAsm(c)
      [] c.op = "poison" -> Only("POISON", "", <<>>)
      [] c.op = "float" -> Float(c)
      [] OTHER -> W50!Literal(c, global)

OfGlobal(c) ==
    Only(IF c.op = "no_cfi" THEN "NO_CFI_VALUE" ELSE "DSO_LOCAL_EQUIVALENT", "",
         <<TypeID[ValueType[c.global]], c.global>>)
Composite(c, global) ==
    CASE c.op \in Expressions ->
           IF c.pointers THEN Rejected ELSE W50!Computed(c, OptimizationFlags(c))
      [] c.op \in {"no_cfi", "dso_local_equivalent"} -> OfGlobal(c)
      [] OTHER -> W50!Composite(c, global)
Constant(c, last, global) ==
    W50!InPool(W50!WrittenType(c), last,
               IF c.op \in Literals THEN Literal(c, global) ELSE Composite(c, global))
=============================================================================
