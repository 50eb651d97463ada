--------------------------- MODULE BitcodeWriter ---------------------------
(***************************************************************************)
(* src/BitcodeWriter140.cpp and its four siblings: the records a module is *)
(* written as, in their order, and what a reader must count along to       *)
(* understand them -- value numbers relative to the running InstID, types  *)
(* only for forward references, offsets patched in later.                  *)
(*                                                                         *)
(* The numbers are those of ValueEnumerator, whose actions are steps of    *)
(* this specification.  What a record holds beside numbers (an opcode's    *)
(* flags, an alignment, a literal) is carried by its `name'.  The second   *)
(* half is the reader of the old release, which is not part of the         *)
(* program: the finished stream is right if it gives the module back.      *)
(***************************************************************************)
EXTENDS ValueEnumerator, Integers, SequencesExt

\* Inputs: a module for the enumerator, with what only the writer looks at.
\* Width: unsigned is Width numbers wide (2^32).  Word: the units of length in
\* a word, to which blocks are aligned; a record is one unit long.
CONSTANTS Inputs, Width, Word

Opcodes == {"none", "binop", "cast", "load", "store", "select", "phi", "call",
            "switch", "alloca", "gep", "ret", "callbr", "invoke", "freeze",
            "fneg"}
Texts == [opcode : [Values -> Opcodes],
          locs : [Values -> Nat],           \* debug location, 0 for none
          attached : SUBSET Values,         \* functions, and instructions with
                                            \* metadata other than a location
          definitions : Seq(Values),        \* the functions with a body
          data : [Values -> Seq(Values)],   \* initializer, aliasee ... of a global
          writtenAs : [Values -> Types],    \* PointerMap, or the value's type
          opaque : Types,                   \* the type of pointers
          unsupported : SUBSET (Types \cup Values),
          asm : BOOLEAN,                    \* no symbol table can be built
          darwin : BOOLEAN]
ASSUME InputsAssumption == Inputs \subseteq Units \X Texts
ASSUME SizesAssumption == Width \in Nat \ {0} /\ Word \in Nat \ {0}

VARIABLES
    text,         \* the other half of the input
    stage,        \* the part of write() that is next
    stream,       \* the items written: records, and entries and exits of blocks
    bit,          \* Stream.GetCurrentBitNo()
    placeholder,  \* VSTOffsetPlaceholder
    index,        \* FunctionToBitcodeIndex
    instID,       \* InstID
    written,      \* the instructions of the function that are written
    lastLoc       \* LastDL

output == <<stream, bit>>
body == <<instID, written, lastLoc>>
offsets == <<placeholder, index>>
wvars == <<vars, text, stage, output, offsets, body>>

-----------------------------------------------------------------------------
(* The stream *)

Record(code, name, nums) == [code |-> code, name |-> name, nums |-> nums]
EnterSubblock(block) == Record("ENTER", block, <<>>)
ExitBlock == Record("EXIT", "", <<>>)

Aligned(n) == Word * ((n + Word - 1) \div Word)

\* Where the stream is after an item: blocks begin and end with a word, the
\* entry has one more for the length, VSTOFFSET is a fixed word.
After(item, at) ==
    CASE item.code = "ENTER" -> Aligned(at + 1) + Word
      [] item.code = "EXIT" -> Aligned(at + 1)
      [] item.code = "VSTOFFSET" -> at + 1 + Word
      [] OTHER -> at + 1

Put(to, item) ==
    [stream |-> Append(to.stream, [code |-> item.code, name |-> item.name,
                                   nums |-> item.nums, at |-> to.bit]),
     bit |-> After(item, to.bit)]
Emit(items) ==
    LET to == FoldLeft(Put, [stream |-> stream, bit |-> bit], items)
    IN stream' = to.stream /\ bit' = to.bit

\* The wrapper of a Mach-O target is five words, the magic number one.
HeaderSize == (IF text.darwin THEN 5 * Word ELSE 0) + Word
BitcodeStartBit == HeaderSize

-----------------------------------------------------------------------------
(* Numbers *)

ValueID(v) == valueMap[v] - 1
TypeNumber(t) == TypeID(t) - 1

\* A value relative to InstID, modulo the width of the field.
PushValue(v) == <<(instID - ValueID(v)) % Width>>

\* Mutant: only what follows the next instruction counts as not yet defined.
PushValueAndTypeBeyond(v, t) ==
    <<(instID - ValueID(v)) % Width>>
    \o IF ValueID(v) > instID THEN <<TypeNumber(t)>> ELSE <<>>

\* A value relative to InstID, and its type if it is not yet defined.
PushValueAndType(v, t) ==
    <<(instID - ValueID(v)) % Width>>
    \o IF ValueID(v) >= instID THEN <<TypeNumber(t)>> ELSE <<>>

\* The sign is moved to the lowest bit.
Rotated(n) == IF n >= 0 THEN 2 * n ELSE 2 * (-n) + 1
PushValueSigned(v) == <<Rotated(instID - ValueID(v))>>

-----------------------------------------------------------------------------
(* Types, globals and constants *)

\* The types a type's record names: a bare pointer is written as {}*.
Parts(t) == IF t = text.opaque /\ unit.target <= 140 THEN <<unit.opaquePtr>>
            ELSE unit.subtypes[t]
TypeRecord(t) ==
    Record("TYPE", t, [n \in DOMAIN Parts(t) |-> TypeNumber(Parts(t)[n])])
TypeTableItems ==
    <<EnterSubblock("TYPES"), Record("NUMENTRY", "", <<Len(types)>>)>>
    \o [n \in DOMAIN types |-> TypeRecord(types[n])] \o <<ExitBlock>>

\* A global: its value type, whether a body follows, its data.
GlobalRecord(g) ==
    Record("GLOBAL", g,
           <<TypeNumber(unit.globalTypes[g][1]),
             IF g \in Members(text.definitions) THEN 1 ELSE 0>>
           \o [n \in DOMAIN text.data[g] |-> ValueID(text.data[g][n])])

\* Constants change the current type when they differ from the one before.
IsCastSlot(n) == n \in {castMap[v] : v \in DOMAIN castMap}
SlotType(n) == IF IsCastSlot(n) THEN unit.typeOf[values[n][1]]
               ELSE text.writtenAs[values[n][1]]

\* The operands of a constant's record: an aggregate names a pointer by the
\* slot of its bitcast, a block address its function and that one's type.
OperandID(c, v) ==
    IF c \in unit.aggregates /\ v \in DOMAIN castMap THEN castMap[v] - 1
    ELSE ValueID(v)
ConstantRecord(n) ==
    LET c == values[n][1]
    IN IF IsCastSlot(n)
       THEN Record("CAST", "", <<TypeNumber(text.writtenAs[c]), ValueID(c)>>)
       ELSE IF c \in unit.blockAddresses
       THEN Record("BLOCKADDRESS", c,
                   <<TypeNumber(text.writtenAs[unit.operands[c][1]]),
                     ValueID(unit.operands[c][1])>>)
       ELSE Record("CONSTANT", c,
                   [k \in DOMAIN unit.operands[c] |->
                      OperandID(c, unit.operands[c][k])])
SetType(n, first) ==
    IF n = first \/ SlotType(n) # SlotType(n - 1)
    THEN <<Record("SETTYPE", "", <<TypeNumber(SlotType(n))>>)>> ELSE <<>>

\* writeConstants for the slots from .. to.
ConstantItems(from, to) ==
    IF from > to THEN <<>>
    ELSE <<EnterSubblock("CONSTANTS")>>
         \o FlattenSeq([k \in 1..(to - from + 1) |->
              SetType(from + k - 1, from) \o <<ConstantRecord(from + k - 1)>>])
         \o <<ExitBlock>>

\* What writeConstants reports an error for.
PointerExpression(c) == unit.target <= 140 /\ unit.sourceTypes[c] # <<>>
UnbridgedPointer(c) ==
    /\ unit.target <= 140 /\ c \in unit.aggregates
    /\ \E v \in Members(unit.operands[c]) : IsCastElement(v) /\ v \notin DOMAIN castMap
Unwritable(n) ==
    LET c == values[n][1]
    IN IF IsCastSlot(n) THEN text.writtenAs[c] = unit.typeOf[c]
       ELSE c \in text.unsupported \/ PointerExpression(c) \/ UnbridgedPointer(c)

\* Module constants begin at the first value that is no global.
FirstConstants == {n \in DOMAIN values : values[n][1] \notin Globals}
FirstModuleConstant ==
    IF FirstConstants = {} THEN Len(values) + 1
    ELSE CHOOSE n \in FirstConstants : \A m \in FirstConstants : n <= m

-----------------------------------------------------------------------------
(* Instructions *)

\* The fields of an instruction's record: which operand, and how it is written.
Each(kind, s) == [n \in DOMAIN s |-> <<kind, s[n]>>]
ResultType(i) == <<"type", unit.typeOf[i.id]>>

CastFields(i) == <<<<"mapped", i.ops[1]>>, <<"type", text.writtenAs[i.id]>>>>
BinaryFields(i) == <<<<"typed", i.ops[1]>>, <<"plain", i.ops[2]>>>>
GEPFields(i) == <<<<"type", i.types[1]>>>> \o Each("typed", i.ops)
SelectFields(i) ==
    <<<<"typed", i.ops[2]>>, <<"plain", i.ops[3]>>, <<"typed", i.ops[1]>>>>
SwitchFields(i) ==
    <<<<"type", unit.typeOf[i.ops[1]]>>, <<"plain", i.ops[1]>>>>
    \o Each("absolute", i.cases)
PHIFields(i) == <<ResultType(i)>> \o Each("signed", i.ops)
AllocaFields(i) ==
    <<<<"type", i.types[1]>>, <<"type", unit.typeOf[i.ops[1]]>>,
      <<"absolute", i.ops[1]>>>>
LoadFields(i) == <<<<"typed", i.ops[1]>>, ResultType(i)>>
StoreFields(i) == <<<<"typed", i.ops[2]>>, <<"typed", i.ops[1]>>>>
CallFields(i) ==
    <<<<"type", i.call[1]>>, <<"typed", Last(i.ops)>>>>
    \o Each("plain", Front(i.ops))

Fields(i) ==
    LET op == text.opcode[i.id]
    IN CASE op = "cast" -> CastFields(i)
         [] op = "binop" -> BinaryFields(i)
         [] op = "gep" -> GEPFields(i)
         [] op = "select" -> SelectFields(i)
         [] op = "switch" -> SwitchFields(i)
         [] op = "phi" -> PHIFields(i)
         [] op = "alloca" -> AllocaFields(i)
         [] op = "load" -> LoadFields(i)
         [] op = "store" -> StoreFields(i)
         [] op = "call" -> CallFields(i)
         [] OTHER -> Each("typed", i.ops)   \* ret, freeze, fneg

Field(f) ==
    CASE f[1] = "typed" -> PushValueAndType(f[2], unit.typeOf[f[2]])
      [] f[1] = "mapped" -> PushValueAndType(f[2], text.writtenAs[f[2]])
      [] f[1] = "plain" -> PushValue(f[2])
      [] f[1] = "signed" -> PushValueSigned(f[2])
      [] f[1] = "absolute" -> <<ValueID(f[2])>>
      [] f[1] = "type" -> <<TypeNumber(f[2])>>
InstructionRecord(i) ==
    Record("INST", i.id,
           FlattenSeq([n \in DOMAIN Fields(i) |-> Field(Fields(i)[n])]))

\* What writeInstruction reports an error for.
Unencodable(i) ==
    \/ text.opcode[i.id] = "callbr" /\ unit.target <= 140
    \/ text.opcode[i.id] \in {"invoke", "freeze", "fneg"} /\ unit.target <= 70

\* The debug location follows; that of the instruction before is repeated.
LocationItems(i) ==
    LET loc == text.locs[i.id]
    IN CASE loc = 0 -> <<>>
         [] loc # 0 /\ loc = lastLoc -> <<Record("DEBUG_LOC_AGAIN", "", <<>>)>>
         [] OTHER -> <<Record("DEBUG_LOC", "", <<loc>>)>>

\* The names of arguments and instructions, by value number.
Named == SelectSeq(Fn.args \o [n \in DOMAIN Fn.code |-> Fn.code[n].id],
                   LAMBDA v : v \in DOMAIN valueMap)
NameItems ==
    IF Named = <<>> THEN <<>>
    ELSE <<EnterSubblock("VST")>>
         \o [n \in DOMAIN Named |-> Record("ENTRY", Named[n], <<ValueID(Named[n])>>)]
         \o <<ExitBlock>>

\* Attachments name the instruction by the order of all instructions; those of
\* the function itself come first and name nothing.
InstructionID(n) == n - 1
AttachmentItems ==
    LET own == SelectSeq(<<text.definitions[fn]>>, LAMBDA f : f \in text.attached)
        at == SelectSeq([n \in DOMAIN Fn.code |-> n],
                        LAMBDA n : Fn.code[n].id \in text.attached)
    IN IF own = <<>> /\ at = <<>> THEN <<>>
       ELSE <<EnterSubblock("ATTACHMENT")>>
            \o [n \in DOMAIN own |-> Record("ATTACHED", own[n], <<>>)]
            \o [n \in DOMAIN at |-> Record("ATTACHED", Fn.code[at[n]].id,
                                           <<InstructionID(at[n])>>)]
            \o <<ExitBlock>>

-----------------------------------------------------------------------------
(* write() *)

\* The enumerator runs before the first record, and inside a function.
Enumerate ==
    /\ \/ stage = "enumerate" /\ phase # "ready"
       \/ stage = "incorporate" /\ ~Incorporated
    /\ Begin \/ Return \/ Descend \/ Leave \/ Turn
       \/ StartConstants \/ NextFunctionTypes \/ OptimizeModule \/ ReserveCasts
       \/ Complete \/ FunctionConstants \/ FunctionInstructions
    /\ UNCHANGED <<text, stage, output, offsets, body>>

\* An exception leaves the writer: nothing of the buffer is used.
Reject ==
    /\ stage' = "rejected"
    /\ UNCHANGED <<vars, text, output, offsets, body>>

BeginModule ==
    /\ stage = "enumerate" /\ phase = "ready"
    /\ Emit(<<EnterSubblock("IDENTIFICATION"), ExitBlock,
              EnterSubblock("MODULE"), Record("VERSION", "", <<2>>)>>)
    /\ stage' = "types"
    /\ UNCHANGED <<vars, text, offsets, body>>

WriteTypeTable ==
    /\ stage = "types"
    /\ IF Members(types) \cap text.unsupported # {} THEN Reject
       ELSE /\ Emit(TypeTableItems)
            /\ stage' = "info"
            /\ UNCHANGED <<vars, text, offsets, body>>

\* The records of the globals and, last, the word for the offset of the VST.
WriteModuleInfo ==
    /\ stage = "info"
    /\ Emit([n \in DOMAIN unit.globals |-> GlobalRecord(unit.globals[n])]
            \o <<Record("VSTOFFSET", "", <<0>>)>>)
    /\ placeholder' = bit' - Word
    /\ stage' = "constants"
    /\ UNCHANGED <<vars, text, index, body>>

\* The constants; metadata kinds, metadata, bundle tags and sync scopes are
\* blocks of their own.
WriteModuleConstants ==
    /\ stage = "constants"
    /\ IF \E n \in FirstModuleConstant..Len(values) : Unwritable(n) THEN Reject
       ELSE /\ Emit(ConstantItems(FirstModuleConstant, Len(values))
                    \o <<EnterSubblock("KINDS"), ExitBlock>>)
            /\ stage' = "functions"
            /\ UNCHANGED <<vars, text, offsets, body>>

BeginFunction ==
    /\ stage = "functions"
    /\ Incorporate
    /\ Emit(<<EnterSubblock("FUNCTION"), Record("DECLAREBLOCKS", "", <<1>>)>>)
    /\ index' = Append(index, bit)
    /\ stage' = "incorporate"
    /\ UNCHANGED <<text, placeholder, body>>

WriteFunctionConstants ==
    /\ stage = "incorporate" /\ Incorporated
    /\ IF \E n \in firstFuncConstant + 1..firstInst : Unwritable(n) THEN Reject
       ELSE /\ Emit(ConstantItems(firstFuncConstant + 1, firstInst))
            /\ instID' = firstInst /\ written' = 0 /\ lastLoc' = 0
            /\ stage' = "instructions"
            /\ UNCHANGED <<vars, text, offsets>>

WriteInstruction ==
    /\ stage = "instructions" /\ written < Len(Fn.code)
    /\ LET i == Fn.code[written + 1]
       IN IF Unencodable(i) THEN Reject
          ELSE /\ Emit(<<InstructionRecord(i)>> \o LocationItems(i))
               /\ instID' = IF i.void THEN instID ELSE instID + 1
               /\ written' = written + 1
               /\ lastLoc' = IF text.locs[i.id] = 0 THEN lastLoc
                             ELSE text.locs[i.id]
               /\ UNCHANGED <<vars, text, stage, offsets>>

EndFunction ==
    /\ stage = "instructions" /\ written = Len(Fn.code)
    /\ purgeFunction
    /\ Emit(NameItems \o AttachmentItems \o <<ExitBlock>>)
    /\ stage' = "functions"
    /\ UNCHANGED <<text, offsets, body>>

\* BackpatchWord: the word at a position of the stream.
Patched(s, at, n) ==
    [k \in DOMAIN s |-> IF s[k].code = "VSTOFFSET" /\ s[k].at + 1 = at
                        THEN [s[k] EXCEPT !.nums = <<n>>] ELSE s[k]]

\* Mutant: offsets count from the beginning of the file.
WordOffsetInFile(at) == at \div Word

\* Offsets count words from one word before the identification block.
WordOffset(at) == (at - BitcodeStartBit) \div Word + 1

\* writeGlobalValueSymbolTable: the numbers of the functions with a body and
\* where they begin; its own position goes into the placeholder.
FunctionEntries ==
    [n \in DOMAIN text.definitions |->
       Record("FNENTRY", "", <<ValueID(text.definitions[n]), WordOffset(index[n])>>)]
WriteGlobalValueSymbolTable ==
    /\ stage = "functions" /\ fn = Len(unit.functions)
    /\ LET to == FoldLeft(Put,
                   [stream |-> Patched(stream, placeholder, WordOffset(bit)),
                    bit |-> bit],
                   <<EnterSubblock("VST")>> \o FunctionEntries
                   \o <<ExitBlock, ExitBlock>>)
       IN stream' = to.stream /\ bit' = to.bit
    /\ stage' = "tables"
    /\ UNCHANGED <<vars, text, offsets, body>>

\* writeSymtab gives up without an assembler, or if LLVM cannot build the table;
\* writeStrtab does not.
WriteTables ==
    /\ stage = "tables"
    /\ Emit((IF text.asm THEN <<>> ELSE <<EnterSubblock("SYMTAB"), ExitBlock>>)
            \o <<EnterSubblock("STRTAB"), ExitBlock>>)
    /\ stage' = "written"
    /\ UNCHANGED <<vars, text, offsets, body>>

WInit ==
    /\ \E input \in Inputs : unit = input[1] /\ text = input[2]
    /\ Init
    /\ stage = "enumerate" /\ stream = <<>> /\ bit = HeaderSize
    /\ placeholder = 0 /\ index = <<>>
    /\ instID = 0 /\ written = 0 /\ lastLoc = 0

WNext ==
    \/ Enumerate \/ BeginModule \/ WriteTypeTable \/ WriteModuleInfo
    \/ WriteModuleConstants \/ BeginFunction \/ WriteFunctionConstants
    \/ WriteInstruction \/ EndFunction \/ WriteGlobalValueSymbolTable
    \/ WriteTables

=============================================================================
