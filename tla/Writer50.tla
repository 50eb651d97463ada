------------------------------ MODULE Writer50 ------------------------------
(***************************************************************************)
(* src/BitcodeWriter50.cpp, the writer for LLVM 5.0: the numbers of each   *)
(* record.  `at' is InstID, the number the next instruction gets.  An      *)
(* instruction i is a record; what it has is written in this order.        *)
(***************************************************************************)
EXTENDS Records

-----------------------------------------------------------------------------
(* Operands *)

PushValue(v, at) == <<(at - v) % Width>>
\* Mutant: an instruction that is its own operand is written as if it had a type.
PushTypedBeyond(v, at, t) == PushValue(v, at) \o If(v > at, <<TypeID[t]>>)
PushTyped(v, at, t) == PushValue(v, at) \o If(v >= at, <<TypeID[t]>>)
PushValueAndType(v, at) == PushTyped(v, at, ValueType[v])
\* The sign goes into the lowest bit.
PushValueSigned(v, at) ==
    IF at >= v THEN <<2 * (at - v)>> ELSE <<2 * (v - at) + 1>>
AllTyped(vs, at) == Each(vs, LAMBDA v : PushValueAndType(v, at))

OperandBundles(i, at) ==
    [n \in DOMAIN i.bundles |->
       Record("OPERAND_BUNDLE", "",
              <<i.bundles[n].tag>> \o AllTyped(i.bundles[n].inputs, at))]

-----------------------------------------------------------------------------
(* Opcodes and flags *)

EncodedCastOpcode ==
    [trunc |-> 0, zext |-> 1, sext |-> 2, fptoui |-> 3, fptosi |-> 4,
     uitofp |-> 5, sitofp |-> 6, fptrunc |-> 7, fpext |-> 8, ptrtoint |-> 9,
     inttoptr |-> 10, bitcast |-> 11, addrspacecast |-> 12]
\* Integer and floating-point operations share a number.
EncodedBinaryOpcode ==
    [add |-> 0, fadd |-> 0, sub |-> 1, fsub |-> 1, mul |-> 2, fmul |-> 2,
     udiv |-> 3, fdiv |-> 4, sdiv |-> 4, urem |-> 5, frem |-> 6, srem |-> 6,
     shl |-> 7, lshr |-> 8, ashr |-> 9, and |-> 10, or |-> 11, xor |-> 12]
EncodedRMWOperation ==
    [xchg |-> 0, add |-> 1, sub |-> 2, and |-> 3, nand |-> 4, or |-> 5,
     xor |-> 6, max |-> 7, min |-> 8, umax |-> 9, umin |-> 10]
EncodedOrdering ==
    [notatomic |-> 0, unordered |-> 1, monotonic |-> 2, acquire |-> 3,
     release |-> 4, acq_rel |-> 5, seq_cst |-> 6]
EncodedSyncScope == [singlethread |-> 0, system |-> 1]
\* log2 + 1, 0 for none.
EncodedAlign(i) == i.align + 1

Overflowing == [nuw |-> 0, nsw |-> 1]
PossiblyExact == [exact |-> 0]
FastMath ==
    [fast |-> 0, nnan |-> 1, ninf |-> 2, nsz |-> 3, arcp |-> 4, contract |-> 5]
\* The first class the instruction is of decides; isFast is all of them.
OptimizationFlags(i) ==
    CASE i.kind \in {"add", "sub", "mul", "shl"} -> FlagWord(Overflowing, i.flags)
      [] i.kind \in {"udiv", "sdiv", "lshr", "ashr"} ->
           FlagWord(PossiblyExact, i.flags)
      [] OTHER ->
           FlagWord(FastMath, i.flags \cup
                      IF AllFastMath \subseteq i.flags THEN {"fast"} ELSE {})

-----------------------------------------------------------------------------
(* writeInstruction *)

\* Mutant: the abbreviation is used for every operand.
UnlessNever(forward, abbrev) == abbrev
\* The abbreviation has no room for the type of a forward reference.
Unless(forward, abbrev) == IF forward THEN "" ELSE abbrev

\* PointerMap has the types of the bitcasts between old pointers.
Cast(i, at) ==
    Only("CAST", Unless(i.value >= at, "CAST"),
         PushTyped(i.value, at, MappedType[i.value])
         \o <<TypeID[i.type], EncodedCastOpcode[i.kind]>>)
Binary(i, flags, at) ==
    Only("BINOP",
         Unless(i.lhs >= at, IF flags # 0 THEN "BINOP_FLAGS" ELSE "BINOP"),
         PushValueAndType(i.lhs, at) \o PushValue(i.rhs, at)
         \o <<EncodedBinaryOpcode[i.kind]>> \o If(flags # 0, <<flags>>))
GetElementPtr(i, at) ==
    Only("GEP", "GEP", <<Bit("inbounds" \in i.flags), TypeID[i.source]>>
                       \o AllTyped(i.operands, at))
ExtractValue(i, at) ==
    Only("EXTRACTVAL", "", PushValueAndType(i.value, at) \o i.indices)
InsertValue(i, at) ==
    Only("INSERTVAL", "",
         AllTyped(<<i.aggregate, i.value>>, at) \o i.indices)
Select(i, at) ==
    Only("VSELECT", "",
         PushValueAndType(i.true, at) \o PushValue(i.false, at)
         \o PushValueAndType(i.cond, at))
ExtractElement(i, at) ==
    Only("EXTRACTELT", "", AllTyped(<<i.vector, i.index>>, at))
InsertElement(i, at) ==
    Only("INSERTELT", "",
         PushValueAndType(i.vector, at) \o PushValue(i.value, at)
         \o PushValueAndType(i.index, at))
\* The mask is a constant of its own, not an operand any more.
ShuffleVector(i, at) ==
    Only("SHUFFLEVEC", "",
         PushValueAndType(i.lhs, at) \o PushValue(i.rhs, at)
         \o PushValue(i.mask, at))
Compare(i, flags, at) ==
    Only("CMP2", "",
         PushValueAndType(i.lhs, at) \o PushValue(i.rhs, at)
         \o <<i.predicate>> \o If(flags # 0, <<flags>>))

FNeg(i, at) == Rejected

Values(i, at) ==
    CASE i.op = "cast" -> Cast(i, at)
      [] i.op = "binop" -> Binary(i, OptimizationFlags(i), at)
      [] i.op = "gep" -> GetElementPtr(i, at)
      [] i.op = "extractvalue" -> ExtractValue(i, at)
      [] i.op = "insertvalue" -> InsertValue(i, at)
      [] i.op = "select" -> Select(i, at)
      [] i.op = "extractelement" -> ExtractElement(i, at)
      [] i.op = "insertelement" -> InsertElement(i, at)
      [] i.op = "shufflevector" -> ShuffleVector(i, at)
      [] i.op = "cmp" -> Compare(i, OptimizationFlags(i), at)
      [] i.op = "fneg" -> FNeg(i, at)

Return(i, at) ==
    Only("RET",
         CASE Len(i.values) = 0 -> "RET_VOID"
           [] Len(i.values) = 1 -> Unless(i.values[1] >= at, "RET_VAL")
           [] OTHER -> "",
         AllTyped(i.values, at))
Branch(i, at) ==
    Only("BR", "", i.successors \o Each(i.cond, LAMBDA v : PushValue(v, at)))
\* Only the condition is relative.
Switch(i, at) ==
    Only("SWITCH", "",
         <<TypeID[ValueType[i.cond]]>> \o PushValue(i.cond, at)
         \o <<i.default>> \o Each(i.cases, LAMBDA c : <<c[1], c[2]>>))
IndirectBranch(i, at) ==
    Only("INDIRECTBR", "",
         <<TypeID[ValueType[i.address]]>> \o PushValue(i.address, at)
         \o i.targets)
Invoke(i, at) == Rejected
Resume(i, at) == Only("RESUME", "", PushValueAndType(i.value, at))
CleanupReturn(i, at) ==
    Only("CLEANUPRET", "", PushValue(i.pad, at) \o i.unwind)
CatchReturn(i, at) ==
    Only("CATCHRET", "", PushValue(i.pad, at) \o <<i.target>>)
FuncletPad(i, at) ==
    Only(IF i.op = "catchpad" THEN "CATCHPAD" ELSE "CLEANUPPAD", "",
         PushValue(i.parent, at) \o <<Len(i.args)>> \o AllTyped(i.args, at))
CatchSwitch(i, at) ==
    Only("CATCHSWITCH", "",
         PushValue(i.parent, at) \o <<Len(i.handlers)>> \o i.handlers
         \o i.unwind)
Unreachable(i, at) == Only("UNREACHABLE", "UNREACHABLE", <<>>)
Terminator(i, at) ==
    CASE i.op = "ret" -> Return(i, at)
      [] i.op = "br" -> Branch(i, at)
      [] i.op = "switch" -> Switch(i, at)
      [] i.op = "indirectbr" -> IndirectBranch(i, at)
      [] i.op = "resume" -> Resume(i, at)
      [] i.op = "cleanupret" -> CleanupReturn(i, at)
      [] i.op = "catchret" -> CatchReturn(i, at)
      [] i.op \in {"cleanuppad", "catchpad"} -> FuncletPad(i, at)
      [] i.op = "catchswitch" -> CatchSwitch(i, at)
      [] i.op = "unreachable" -> Unreachable(i, at)
      [] i.op = "invoke" -> Invoke(i, at)

\* Forward references are common here: the differences are signed.
Phi(i, at) ==
    Only("PHI", "",
         <<TypeID[i.type]>>
         \o Each(i.incoming, LAMBDA c : PushValueSigned(c[1], at) \o <<c[2]>>))
LandingPad(i, at) ==
    Only("LANDINGPAD", "",
         <<TypeID[i.type], Bit(i.cleanup), Len(i.clauses)>>
         \o Each(i.clauses,
                 LAMBDA c : <<Bit(c[1] = "filter")>> \o PushValueAndType(c[2], at)))

\* The size is absolute; flags share the number with the alignment.
Alloca(i, at) ==
    Only("ALLOCA", "",
         <<TypeID[i.type], TypeID[ValueType[i.size]], i.size,
           Word(BitsOf(EncodedAlign(i)) \cup {6}
                \cup {b \in {5} : i.inalloca} \cup {b \in {7} : i.swifterror})>>)
Atomic(i) == i.ordering # "notatomic"
Ordering(i) ==
    If(Atomic(i), <<EncodedOrdering[i.ordering], EncodedSyncScope[i.scope]>>)
Load(i, at) ==
    Only(IF Atomic(i) THEN "LOADATOMIC" ELSE "LOAD",
         IF Atomic(i) THEN "" ELSE Unless(i.ptr >= at, "LOAD"),
         PushValueAndType(i.ptr, at)
         \o <<TypeID[i.type], EncodedAlign(i), Bit(i.volatile)>> \o Ordering(i))
Store(i, at) ==
    Only(IF Atomic(i) THEN "STOREATOMIC" ELSE "STORE", "",
         AllTyped(<<i.ptr, i.value>>, at)
         \o <<EncodedAlign(i), Bit(i.volatile)>> \o Ordering(i))
CompareExchange(i, at) ==
    Only("CMPXCHG", "",
         AllTyped(<<i.ptr, i.cmp>>, at) \o PushValue(i.new, at)
         \o <<Bit(i.volatile), EncodedOrdering[i.success],
              EncodedSyncScope[i.scope], EncodedOrdering[i.failure],
              Bit(i.weak)>>)
ReadModifyWrite(i, at) ==
    IF i.operation \notin DOMAIN EncodedRMWOperation THEN Rejected
    ELSE Only("ATOMICRMW_OLD", "",
              PushValueAndType(i.ptr, at) \o PushValue(i.value, at)
              \o <<EncodedRMWOperation[i.operation], Bit(i.volatile),
                   EncodedOrdering[i.ordering], EncodedSyncScope[i.scope]>>)
Fence(i, at) ==
    Only("FENCE", "",
         <<EncodedOrdering[i.ordering], EncodedSyncScope[i.scope]>>)

Memory(i, at) ==
    CASE i.op = "phi" -> Phi(i, at)
      [] i.op = "landingpad" -> LandingPad(i, at)
      [] i.op = "alloca" -> Alloca(i, at)
      [] i.op = "load" -> Load(i, at)
      [] i.op = "store" -> Store(i, at)
      [] i.op = "cmpxchg" -> CompareExchange(i, at)
      [] i.op = "atomicrmw" -> ReadModifyWrite(i, at)
      [] i.op = "fence" -> Fence(i, at)

\* A known function is called with the type PointerMap gives it.
CalleeType(i) ==
    IF i.callee \in DOMAIN MappedCallee THEN MappedCallee[i.callee]
    ELSE i.fnType
\* Fixed arguments have the types of the parameters; labels are absolute.
Arguments(i, fixed, at) ==
    Each([n \in DOMAIN i.args |-> n],
         LAMBDA n : IF n > Len(fixed) THEN PushValueAndType(i.args[n], at)
                    ELSE IF fixed[n] = "label" THEN <<i.args[n]>>
                    ELSE PushValue(i.args[n], at))
CallingConvention(i, flags) ==
    2 * i.cc + Word({15} \cup {b \in {0} : i.tail \in {"tail", "musttail"}}
                    \cup {b \in {14} : i.tail = "musttail"}
                    \cup {b \in {16} : i.tail = "notail"}
                    \cup {b \in {17} : flags # 0})
Call(i, type, flags, at) ==
    OperandBundles(i, at)
    \o Only("CALL", "",
            <<i.attrs, CallingConvention(i, flags)>> \o If(flags # 0, <<flags>>)
            \o <<TypeID[type]>> \o PushValueAndType(i.callee, at)
            \o Arguments(i, Params[type], at))
VAArg(i, at) ==
    Only("VAARG", "",
         <<TypeID[ValueType[i.list]]>> \o PushValue(i.list, at)
         \o <<TypeID[i.type]>>)
\* freeze and callbr have no record.
Freeze(i, at) == Rejected

Calls(i, at) ==
    CASE i.op = "call" -> Call(i, CalleeType(i), OptimizationFlags(i), at)
      [] i.op = "vaarg" -> VAArg(i, at)
      [] i.op \in {"freeze", "callbr"} -> Freeze(i, at)

Instruction(i, at) ==
    CASE i.op \in ValueOps -> Values(i, at)
      [] i.op \in MemoryOps -> Memory(i, at)
      [] i.op \in CallOps -> Calls(i, at)
      [] OTHER -> Terminator(i, at)

\* writeFunction: the location of an instruction, that of the one before not
\* again.  Scopes are numbers of metadata plus one, 0 for none.
LocationOps(loc) == <<loc.line, loc.column, loc.scope, loc.inlinedAt>>
Repeated(loc, last, ops) ==
    IF loc = last THEN Only("DEBUG_LOC_AGAIN", "", <<>>) ELSE Only("DEBUG_LOC", "", ops)
DebugLocation(loc, last) == Repeated(loc, last, LocationOps(loc))

-----------------------------------------------------------------------------
(* writeBlockInfo: the abbreviations, the array's element being the last *)

Fixed(n) == <<"fixed", n>>
VBR(n) == <<"vbr", n>>
Array(element) == <<"array", element>>
Abbreviation(code, fields) == [code |-> code, fields |-> fields]
ConstantAbbreviations ==
    [SETTYPE |-> Abbreviation("SETTYPE", <<Fixed(TypeBits)>>),
     INTEGER |-> Abbreviation("INTEGER", <<VBR(8)>>),
     CE_CAST |-> Abbreviation("CE_CAST", <<Fixed(4), Fixed(TypeBits), VBR(8)>>),
     NULL |-> Abbreviation("NULL", <<>>)]
InstructionAbbreviations ==
    [LOAD |-> Abbreviation("LOAD", <<VBR(6), Fixed(TypeBits), VBR(4), Fixed(1)>>),
     BINOP |-> Abbreviation("BINOP", <<VBR(6), VBR(6), Fixed(4)>>),
     BINOP_FLAGS |-> Abbreviation("BINOP", <<VBR(6), VBR(6), Fixed(4), Fixed(7)>>),
     CAST |-> Abbreviation("CAST", <<VBR(6), Fixed(TypeBits), Fixed(4)>>),
     RET_VOID |-> Abbreviation("RET", <<>>),
     RET_VAL |-> Abbreviation("RET", <<VBR(6)>>),
     UNREACHABLE |-> Abbreviation("UNREACHABLE", <<>>),
     GEP |-> Abbreviation("GEP", <<Fixed(1), Fixed(TypeBits), Array(VBR(6))>>)]
\* Those of the module's own constants block.
ModuleAbbreviations ==
    [AGGREGATE |-> Abbreviation("AGGREGATE", <<Array(Fixed(Log2Ceil(LastVal + 1)))>>),
     STRING8 |-> Abbreviation("STRING", <<Array(Fixed(8))>>),
     CSTRING7 |-> Abbreviation("CSTRING", <<Array(Fixed(7))>>),
     CSTRING6 |-> Abbreviation("CSTRING", <<Array(<<"char6", 6>>)>>)]
Abbreviations ==
    ConstantAbbreviations @@ InstructionAbbreviations @@ ModuleAbbreviations

-----------------------------------------------------------------------------
(* writeConstants: c is a constant, `global' the module's own block, `last' *)
(* the type that is set *)

EmitSigned(v) ==
    IF v >= 0 THEN <<(2 * v) % IntRange>> ELSE <<((2 * (-v)) % IntRange) + 1>>
WordsSigned(words) ==
    Each(words, LAMBDA w : EmitSigned(IF 2 * w < IntRange THEN w ELSE w - IntRange))
Within(global, abbrev) == IF global THEN abbrev ELSE ""

SetType(t, last) == If(t # last, Only("SETTYPE", "SETTYPE", <<TypeID[t]>>))

\* The bitcast of an aggregate's pointer, from its typed pointer type.
Slot(c) ==
    IF c.mapped = "none" THEN Rejected
    ELSE Only("CE_CAST", "CE_CAST",
              <<EncodedCastOpcode["bitcast"], TypeID[c.mapped], c.value>>)
\* There is no unwind bit.
InlineAsm(c) ==
    IF "unwind" \in c.flags THEN Rejected
    ELSE Only("INLINEASM_OLD2", "",
              <<FlagWord([sideeffect |-> 0, alignstack |-> 1, intel |-> 2], c.flags),
                Len(c.asm)>> \o c.asm \o <<Len(c.constraints)>> \o c.constraints)
\* poison is an undef.
Simple(c) == Only(IF c.op = "null" THEN "NULL" ELSE "UNDEF", "", <<>>)
\* All elements of a vector, if it is a fixed one of a simple type.
Splat(c) ==
    IF c.data THEN Only("DATA", "", [n \in 1 .. c.count |-> c.element])
    ELSE Rejected
Integer(c) == Only("INTEGER", "INTEGER", EmitSigned(c.value))
WideInteger(c) == Only("WIDE_INTEGER", "", WordsSigned(c.words))
\* The 80 bits are cut after 64 from the top, not from the bottom.
Sixteen == CHOOSE n \in 1 .. IntRange : n^4 = IntRange
Float(c) ==
    CASE c.type \in {"half", "float", "double"} -> Only("FLOAT", "", c.words)
      [] c.type = "x86_fp80" ->
           Only("FLOAT", "",
                <<c.words[2] * (IntRange \div Sixteen) + c.words[1] \div Sixteen,
                  c.words[1] % Sixteen>>)
      [] c.type \in {"fp128", "ppc_fp128"} -> Only("FLOAT", "", c.words)
      [] OTHER -> Rejected
\* A string that ends with its only zero is written without it.
IsCString(c) == c.chars # <<>> /\ Last(c.chars) = 0 /\ 0 \notin Range(Front(c.chars))
Text(c, global) ==
    LET chars == Front(c.chars)
        abbrev == CASE \A n \in DOMAIN chars : IsChar6(chars[n]) -> "CSTRING6"
                    [] \A n \in DOMAIN chars : chars[n] < 128 -> "CSTRING7"
                    [] OTHER -> ""
    IN IF IsCString(c) THEN Only("CSTRING", Within(global, abbrev), chars)
       ELSE Only("STRING", Within(global, "STRING8"), c.chars)
Data(c) == Only("DATA", "", c.elements)
\* A pointer by its slot, or it has to be something that needs none.
Aggregate(c, global) ==
    IF c.unbridged THEN Rejected
    ELSE Only("AGGREGATE", Within(global, "AGGREGATE"),
              Each(c.operands, LAMBDA v : <<IF v \in DOMAIN CastSlot THEN CastSlot[v]
                                           ELSE v>>))
TypedValues(vs) == Each(vs, LAMBDA v : <<TypeID[ValueType[v]], v>>)
Expression(c, flags) ==
    CASE c.op = "cast expr" ->
           Only("CE_CAST", "CE_CAST",
                <<EncodedCastOpcode[c.kind]>> \o TypedValues(c.operands))
      [] c.op = "binop expr" ->
           Only("CE_BINOP", "",
                <<EncodedBinaryOpcode[c.kind]>> \o c.operands \o If(flags # 0, <<flags>>))
      [] c.op = "extractelement expr" ->
           Only("CE_EXTRACTELT", "", TypedValues(c.operands))
      [] c.op = "insertelement expr" ->
           Only("CE_INSERTELT", "",
                SubSeq(c.operands, 1, 2) \o TypedValues(<<c.operands[3]>>))
\* The mask is a constant of its own, beside the operands.
Shuffle(c) ==
    LET vectors == c.operands[1]
    IN IF c.type = ValueType[vectors] THEN Only("CE_SHUFFLEVEC", "", c.operands)
       ELSE Only("CE_SHUFVEC_EX", "", <<TypeID[ValueType[vectors]]>> \o c.operands)
GEPCode(c) == IF "inbounds" \in c.flags THEN "CE_INBOUNDS_GEP" ELSE "CE_GEP"
ElementAddress(c) ==
    Only(GEPCode(c), "", <<TypeID[c.source]>> \o TypedValues(c.operands))
Computed(c, flags) ==
    CASE c.op = "shufflevector expr" -> Shuffle(c)
      [] c.op = "gep expr" -> ElementAddress(c)
      [] OTHER -> Expression(c, flags)
BlockAddress(c, type) ==
    Only("BLOCKADDRESS", "", <<TypeID[type], c.function, c.block>>)

Literal(c, global) ==
    CASE c.op \in {"null", "undef", "poison"} -> Simple(c)
      [] c.op = "asm" -> InlineAsm(c)
      [] c.op = "splat" -> Splat(c)
      [] c.op = "integer" -> Integer(c)
      [] c.op = "wide integer" -> WideInteger(c)
      [] c.op = "float" -> Float(c)
      [] c.op = "string" -> Text(c, global)
      [] c.op = "data" -> Data(c)
\* Whatever computes with a pointer is rejected, and pointers of other kinds.
Composite(c, global) ==
    CASE c.op = "slot" -> Slot(c)
      [] c.op = "aggregate" -> Aggregate(c, global)
      [] c.op \in Expressions ->
           IF c.pointers THEN Rejected ELSE Computed(c, OptimizationFlags(c))
      [] c.op = "blockaddress" -> BlockAddress(c, MappedType[c.function])
      [] OTHER -> Rejected

\* A constant has the type PointerMap gives it; a slot undoes that.
WrittenType(c) == IF c.op # "slot" /\ c.mapped # "none" THEN c.mapped ELSE c.type
InPool(type, last, body) ==
    IF body = Rejected THEN Rejected ELSE SetType(type, last) \o body
Constant(c, last, global) ==
    InPool(WrittenType(c), last,
           IF c.op \in Literals THEN Literal(c, global) ELSE Composite(c, global))
=============================================================================
