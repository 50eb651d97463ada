------------------------------ MODULE Writer200 ------------------------------
(***************************************************************************)
(* src/BitcodeWriter200.cpp, the writer for LLVM 20: what differs from the *)
(* older writers, and by name what does not.                               *)
(***************************************************************************)
EXTENDS Records
W50 == INSTANCE Writer50
W140 == INSTANCE Writer140
W180 == INSTANCE Writer180

EncodedRMWOperation ==
    W180!EncodedRMWOperation @@ [usub_cond |-> 17, usub_sat |-> 18]
Truncation == [nuw |-> 0, nsw |-> 1]
ElementPointer == [inbounds |-> 0, nusw |-> 1, nuw |-> 2]
SameSign == [samesign |-> 0]
\* An integer made floating-point is asked for nneg, not for its fast-math flags.
OptimizationFlags(i) ==
    CASE i.kind \in {"uitofp", "sitofp"} -> FlagWord(W180!NonNegative, i.flags)
      [] i.kind = "trunc" -> FlagWord(Truncation, i.flags)
      [] i.kind = "gep" -> FlagWord(ElementPointer, i.flags)
      [] i.kind = "icmp" -> FlagWord(SameSign, i.flags)
      [] OTHER -> W180!OptimizationFlags(i)

GetElementPtr(i, at) ==
    Only("GEP", "GEP", <<OptimizationFlags(i), TypeID[i.source]>>
                       \o W50!AllTyped(i.operands, at))
Values(i, at) ==
    CASE i.op = "gep" -> GetElementPtr(i, at)
      [] i.op = "cast" -> W180!Cast(i, OptimizationFlags(i), at)
      [] i.op = "cmp" -> W50!Compare(i, OptimizationFlags(i), at)
      [] OTHER -> W180!Values(i, at)
Terminator(i, at) == W140!Terminator(i, at)
Memory(i, at) ==
    IF i.op = "atomicrmw" THEN W140!ReadModifyWrite(i, EncodedRMWOperation, at)
    ELSE W180!Memory(i, at)
Calls(i, at) == W180!Calls(i, at)

Instruction(i, at) ==
    CASE i.op \in ValueOps -> Values(i, at)
      [] i.op \in MemoryOps -> Memory(i, at)
      [] i.op \in CallOps -> Calls(i, at)
      [] OTHER -> Terminator(i, at)

DebugLocation(loc, last) == W140!DebugLocation(loc, last)

IsNumbered(location, at) ==
    location \in DOMAIN WrappedValue /\ WrappedValue[location] < at
Described(d) == <<d.loc, d.variable, d.expression>>
DebugRecord(d, at) ==
    CASE d.kind = "label" -> Only("DEBUG_RECORD_LABEL", "", <<d.loc, d.label>>)
      [] d.kind = "value" ->
           IF IsNumbered(d.location, at)
           THEN Only("DEBUG_RECORD_VALUE_SIMPLE", "DEBUG_RECORD_VALUE",
                     Described(d) \o W50!PushValue(WrappedValue[d.location], at))
           ELSE Only("DEBUG_RECORD_VALUE", "", Append(Described(d), d.location))
      [] d.kind = "declare" ->
           Only("DEBUG_RECORD_DECLARE", "", Append(Described(d), d.location))
      [] OTHER ->
           Only("DEBUG_RECORD_ASSIGN", "",
                Described(d) \o <<d.location, d.id, d.addressExpression, d.address>>)

DebugAbbreviations ==
    [DEBUG_RECORD_VALUE |->
       W50!Abbreviation("DEBUG_RECORD_VALUE_SIMPLE",
                        <<W50!VBR(7), W50!VBR(7), W50!VBR(7), W50!VBR(6)>>)]
Abbreviations ==
    [W180!Abbreviations EXCEPT !.GEP.fields[1] = W50!Fixed(3)] @@ DebugAbbreviations

-----------------------------------------------------------------------------
(* Constants *)

\* A splat is its element, with the vector's type.
Splat(c) ==
    Only(IF c.float THEN "FLOAT" ELSE "INTEGER", IF c.float THEN "" ELSE "INTEGER",
         IF c.float THEN <<c.element>> ELSE W50!EmitSigned(c.element))
Literal(c, global) ==
    IF c.op = "splat" THEN Splat(c) ELSE W180!Literal(c, global)

EmitRange(range) == <<range[1]>> \o W50!EmitSigned(range[2]) \o W50!EmitSigned(range[3])
ElementAddress(c, flags) ==
    Only(IF c.range = <<>> THEN "CE_GEP" ELSE "CE_GEP_WITH_INRANGE", "",
         <<TypeID[c.source], flags>> \o Each(c.range, EmitRange)
         \o W50!TypedValues(c.operands))
Authenticated(c) == Only("PTRAUTH", "", c.operands)
Composite(c, global) ==
    CASE c.op = "gep expr" -> ElementAddress(c, OptimizationFlags(c))
      [] c.op \in Expressions -> W50!Computed(c, OptimizationFlags(c))
      [] c.op = "ptrauth" -> Authenticated(c)
      [] OTHER -> W180!Composite(c, global)
Constant(c, last, global) ==
    W50!InPool(c.type, last,
               IF c.op \in Literals THEN Literal(c, global) ELSE Composite(c, global))
=============================================================================
