------------------------------ MODULE Writer180 ------------------------------
(***************************************************************************)
(* src/BitcodeWriter180.cpp, the writer for LLVM 18: what differs from the *)
(* older writers, and by name what does not.  Pointers are opaque here:    *)
(* nothing is looked up in a PointerMap.                                   *)
(***************************************************************************)
EXTENDS Records
W50 == INSTANCE Writer50
W70 == INSTANCE Writer70
W140 == INSTANCE Writer140

EncodedRMWOperation ==
    W140!EncodedRMWOperation
    @@ [fmax |-> 13, fmin |-> 14, uinc_wrap |-> 15, udec_wrap |-> 16]
Disjoint == [disjoint |-> 0]
NonNegative == [nneg |-> 0]
\* uitofp is a floating-point operation before it is one with nneg.
OptimizationFlags(i) ==
    CASE i.kind = "or" -> FlagWord(Disjoint, i.flags)
      [] i.kind = "zext" -> FlagWord(NonNegative, i.flags)
      [] OTHER -> W70!OptimizationFlags(i)

Cast(i, flags, at) ==
    Only("CAST",
         W50!Unless(i.value >= at, IF flags # 0 THEN "CAST_FLAGS" ELSE "CAST"),
         W50!PushValueAndType(i.value, at)
         \o <<TypeID[i.type], W50!EncodedCastOpcode[i.kind]>>
         \o If(flags # 0, <<flags>>))
Values(i, at) ==
    CASE i.op = "cast" -> Cast(i, OptimizationFlags(i), at)
      [] i.op = "binop" -> W50!Binary(i, OptimizationFlags(i), at)
      [] OTHER -> W140!Values(i, at)

Terminator(i, at) == W140!Terminator(i, at)

\* An address space of its own comes last.
Alloca(i, at) ==
    LET old == W140!Alloca(i, at)[1]
    IN <<[old EXCEPT !.ops = @ \o If(i.space # NoAddressSpace, <<i.space>>)]>>
Memory(i, at) ==
    CASE i.op = "alloca" -> Alloca(i, at)
      [] i.op = "atomicrmw" ->
           W140!ReadModifyWrite(i, EncodedRMWOperation, at)
      [] OTHER -> W140!Memory(i, at)

CallBranch(i, at) ==
    W50!OperandBundles(i, at)
    \o Only("CALLBR", "",
            <<i.attrs, 2 * i.cc + 2^15, i.default, Len(i.targets)>> \o i.targets
            \o <<TypeID[i.fnType]>> \o W50!PushValueAndType(i.callee, at)
            \o W50!Arguments(i, Params[i.fnType], at))
Calls(i, at) ==
    CASE i.op = "call" -> W50!Call(i, i.fnType, OptimizationFlags(i), at)
      [] i.op = "callbr" -> CallBranch(i, at)
      [] OTHER -> W140!Calls(i, at)

Instruction(i, at) ==
    CASE i.op \in ValueOps -> Values(i, at)
      [] i.op \in MemoryOps -> Memory(i, at)
      [] i.op \in CallOps -> Calls(i, at)
      [] OTHER -> Terminator(i, at)

DebugLocation(loc, last) == W140!DebugLocation(loc, last)

CastAbbreviations ==
    [CAST_FLAGS |-> W50!Abbreviation("CAST", <<W50!VBR(6), W50!Fixed(TypeBits),
                                               W50!Fixed(4), W50!Fixed(8)>>)]
Abbreviations == W140!Abbreviations @@ CastAbbreviations

-----------------------------------------------------------------------------
(* Constants *)

Literal(c, global) == W140!Literal(c, global)
Aggregate(c, global) ==
    Only("AGGREGATE", W50!Within(global, "AGGREGATE"), c.operands)
Composite(c, global) ==
    CASE c.op = "aggregate" -> Aggregate(c, global)
      [] c.op \in Expressions -> W50!Computed(c, OptimizationFlags(c))
      [] c.op = "blockaddress" -> W50!BlockAddress(c, ValueType[c.function])
      [] OTHER -> W140!Composite(c, global)
Constant(c, last, global) ==
    W50!InPool(c.type, last,
               IF c.op \in Literals THEN Literal(c, global) ELSE Composite(c, global))
=============================================================================
