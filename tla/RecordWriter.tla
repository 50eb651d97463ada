---------------------------- MODULE RecordWriter ----------------------------
(***************************************************************************)
(* The five writers at work: records are written one after the other, and  *)
(* the reader of the release follows.  What it has understood of a record  *)
(* is compared with what was to be written.                                *)
(*                                                                         *)
(* A behaviour is one section of the bitcode of one release: the types, the *)
(* module's globals, the attributes, the metadata, the body of a function  *)
(* or constants, each with what its loop remembers from one item to the    *)
(* next.                                                                   *)
(***************************************************************************)
EXTENDS NodeReader
W50 == INSTANCE Writer50
W70 == INSTANCE Writer70
W140 == INSTANCE Writer140
W180 == INSTANCE Writer180
W200 == INSTANCE Writer200
T50 == INSTANCE Tables50
T70 == INSTANCE Tables70
T140 == INSTANCE Tables140
T180 == INSTANCE Tables180
T200 == INSTANCE Tables200
D50 == INSTANCE Debug50
D70 == INSTANCE Debug70
D140 == INSTANCE Debug140
D180 == INSTANCE Debug180
D200 == INSTANCE Debug200

CONSTANTS
    Releases,
    Types, Modules, AttributeLists,
    Instructions, Locations, DebugRecords, FirstInst, LastInst,
    Constants,
    MetadataItems

VARIABLES
    release, section,
    item,      \* what was written last
    records,   \* the records it was written as
    got,       \* what the reader has understood
    writer,    \* InstID, LastDL, LastTy, isGlobal
    reader     \* NextValueNo, LastLoc, CurTy, TypeName
vars == <<release, section, item, records, got, writer, reader>>

Nothing == [op |-> "nothing"]
NoLocation == [op |-> "no location"]
Init ==
    /\ release \in Releases
    /\ section \in {"types", "module", "attributes", "metadata", "function", "constants"}
    /\ item = Nothing /\ records = <<>> /\ got = Nothing
    /\ \E first \in FirstInst .. LastInst :
          /\ section # "function" => first = FirstInst
          /\ writer = [instID |-> first, location |-> NoLocation,
                       type |-> "none", global |-> TRUE]
          /\ reader = [nextID |-> first, location |-> NoLocation, type |-> "i32",
                       name |-> <<>>]

\* An error ends the writing, or the reading.
Going == records # Rejected /\ got # [op |-> "malformed"]
\* The module's information is written once.
NextItem ==
    /\ item # Nothing /\ Going /\ section # "module"
    /\ item' = Nothing /\ records' = <<>> /\ got' = Nothing
    /\ UNCHANGED <<release, section, writer, reader>>

-----------------------------------------------------------------------------
(* Before the functions *)

TypeRecords(t) ==
    CASE release = 50 -> T50!Type(t)
      [] release = 70 -> T70!Type(t)
      [] release = 140 -> T140!Type(t)
      [] release = 180 -> T180!Type(t)
      [] release = 200 -> T200!Type(t)
WriteType(t) ==
    /\ section = "types" /\ item = Nothing /\ TypeOccurs(release, t)
    /\ item' = t
    /\ records' = TypeRecords(t)
    /\ LET read == ReadTypes(release, records', reader.name)
       IN /\ got' = [types |-> read.types]
          /\ reader' = [reader EXCEPT !.name = read.pending]
    /\ UNCHANGED <<release, section, writer>>

ModuleRecords(m) ==
    CASE release = 50 -> T50!ModuleInfo(m)
      [] release = 70 -> T70!ModuleInfo(m)
      [] release = 140 -> T140!ModuleInfo(m)
      [] release = 180 -> T180!ModuleInfo(m)
      [] release = 200 -> T200!ModuleInfo(m)
StringTable(m) ==
    CASE release = 50 -> T50!StringTable(m)
      [] release = 70 -> T70!StringTable(m)
      [] release = 140 -> T140!StringTable(m)
      [] release = 180 -> T180!StringTable(m)
      [] release = 200 -> T200!StringTable(m)
WriteModuleInfo(m) ==
    /\ section = "module" /\ item = Nothing
    /\ item' = m
    /\ records' = ModuleRecords(m)
    /\ got' = ReadModule(release, records', StringTable(m))
    /\ UNCHANGED <<release, section, writer, reader>>

\* The lists are enumerated one by one, then written as two tables.
NoAttributes == [lists |-> <<>>, groups |-> <<>>]
Enumerate(table, list) ==
    CASE release = 50 -> T50!Enumerated(table, list)
      [] release = 70 -> T70!Enumerated(table, list)
      [] release = 140 -> T140!Enumerated(table, list)
      [] release = 180 -> T180!Enumerated(table, list)
      [] release = 200 -> T200!Enumerated(table, list)
AttributeRecords(table) ==
    CASE release = 50 -> T50!AttributeTables(table)
      [] release = 70 -> T70!AttributeTables(table)
      [] release = 140 -> T140!AttributeTables(table)
      [] release = 180 -> T180!AttributeTables(table)
      [] release = 200 -> T200!AttributeTables(table)
WriteAttributes(lists) ==
    /\ section = "attributes" /\ item = Nothing
    /\ item' = FoldLeft(Enumerate, NoAttributes, lists)
    /\ records' = AttributeRecords(item')
    /\ got' = [lists |-> ReadAttributes(release, records')]
    /\ UNCHANGED <<release, section, writer, reader>>

-----------------------------------------------------------------------------
(* Metadata: a node, or a block of them *)

MetadataRecords(m) ==
    CASE release = 50 -> D50!Metadata(m)
      [] release = 70 -> D70!Metadata(m)
      [] release = 140 -> D140!Metadata(m)
      [] release = 180 -> D180!Metadata(m)
      [] release = 200 -> D200!Metadata(m)
WriteMetadata(m) ==
    /\ section = "metadata" /\ item = Nothing /\ NodeOccurs(release, m)
    /\ item' = m
    /\ records' = MetadataRecords(m)
    /\ got' = IF records' = Rejected THEN Nothing ELSE ReadMetadata(release, m.op, records')
    /\ UNCHANGED <<release, section, writer, reader>>

-----------------------------------------------------------------------------
(* A function *)

InstructionRecords(i, at) ==
    CASE release = 50 -> W50!Instruction(i, at)
      [] release = 70 -> W70!Instruction(i, at)
      [] release = 140 -> W140!Instruction(i, at)
      [] release = 180 -> W180!Instruction(i, at)
      [] release = 200 -> W200!Instruction(i, at)
LocationRecords(loc, last) ==
    CASE release = 50 -> W50!DebugLocation(loc, last)
      [] release = 70 -> W70!DebugLocation(loc, last)
      [] release = 140 -> W140!DebugLocation(loc, last)
      [] release = 180 -> W180!DebugLocation(loc, last)
      [] release = 200 -> W200!DebugLocation(loc, last)

IsInstruction == item # Nothing /\ "op" \in DOMAIN item /\ Going

WriteInstruction(i) ==
    /\ section = "function" /\ item = Nothing /\ writer.instID <= LastInst
    /\ Defines(i) => ResultType(i) = ValueType[writer.instID]
    /\ item' = i
    /\ records' = InstructionRecords(i, writer.instID)
    /\ IF records' = Rejected THEN got' = Nothing /\ UNCHANGED <<writer, reader>>
       ELSE /\ got' = ReadInstruction(release, records', reader.nextID)
            /\ writer' = [writer EXCEPT !.instID = @ + Bit(Defines(i))]
            /\ reader' = [reader EXCEPT !.nextID = @ + Bit(Defines(got'))]
    /\ UNCHANGED <<release, section>>

WriteLocation(loc) ==
    /\ section = "function" /\ IsInstruction
    /\ item' = loc
    /\ records' = LocationRecords(loc, writer.location)
    /\ got' = ReadLocation(release, records', reader.location)
    /\ writer' = [writer EXCEPT !.location = loc]
    /\ reader' = [reader EXCEPT !.location = got']
    /\ UNCHANGED <<release, section>>

\* After the instruction and its location.
WriteDebugRecord(d) ==
    /\ section = "function" /\ release = 200
    /\ item # Nothing /\ Going
    /\ item' = d
    /\ records' = W200!DebugRecord(d, writer.instID)
    /\ got' = ReadDebugRecord(records', reader.nextID)
    /\ UNCHANGED <<release, section, writer, reader>>

-----------------------------------------------------------------------------
(* The constants *)

ConstantRecords(c) ==
    CASE release = 50 -> W50!Constant(c, writer.type, writer.global)
      [] release = 70 -> W70!Constant(c, writer.type, writer.global)
      [] release = 140 -> W140!Constant(c, writer.type, writer.global)
      [] release = 180 -> W180!Constant(c, writer.type, writer.global)
      [] release = 200 -> W200!Constant(c, writer.type, writer.global)
\* Mutant: the type remembered is the one in the module, not the one written.
LastTypeOpaque(c) == c.type
LastType(c) == IF release <= 140 THEN W50!WrittenType(c) ELSE c.type

WriteConstant(c) ==
    /\ section = "constants" /\ item = Nothing /\ OccursIn(release, c)
    /\ item' = c
    /\ records' = ConstantRecords(c)
    /\ IF records' = Rejected THEN got' = Nothing /\ UNCHANGED <<writer, reader>>
       ELSE /\ got' = ReadConstant(release, records', reader.type)
            /\ writer' = [writer EXCEPT !.type = LastType(c)]
            /\ reader' = [reader EXCEPT !.type = TypeSet(records', @)]
    /\ UNCHANGED <<release, section>>

\* A function has a block of constants of its own: both sides start afresh.
NextBlock ==
    /\ section = "constants" /\ item = Nothing
    /\ writer' = [writer EXCEPT !.type = "none", !.global = FALSE]
    /\ reader' = [reader EXCEPT !.type = "i32"]
    /\ UNCHANGED <<release, section, item, records, got>>

Next ==
    \/ NextItem
    \/ \E t \in Types : WriteType(t)
    \/ \E m \in Modules : WriteModuleInfo(m)
    \/ \E lists \in AttributeLists : WriteAttributes(lists)
    \/ \E m \in MetadataItems : WriteMetadata(m)
    \/ \E i \in Instructions : WriteInstruction(i)
    \/ \E loc \in Locations : WriteLocation(loc)
    \/ \E d \in DebugRecords : WriteDebugRecord(d)
    \/ \E c \in Constants : WriteConstant(c)
    \/ NextBlock
Spec == Init /\ [][Next]_vars

-----------------------------------------------------------------------------
(* Properties *)

\* The reader gets every type as it was, its own name and no other's included,
\* and every global of the module with its own name, section, partition and type.
TablesReadBack ==
    item # Nothing =>
      /\ section = "types" =>
           IF records = Rejected THEN UnsupportedType(release, item)
           ELSE got.types = <<TypeIn(release, item)>> /\ reader.name = <<>>
      /\ section = "module" => got = ModuleIn(release, item)

\* Every attribute list says to the reader what the release has of it, no more
\* and no less, whatever of it could not be encoded; what is said of memory is
\* the least that allows everything the function does.
AttributesReadBack ==
    section = "attributes" /\ item # Nothing =>
      got.lists = [n \in DOMAIN item.lists |-> AttributesIn(release, item.lists[n])]

\* The reader understands every instruction as what was written, the release's
\* own losses apart, and counts the values as the writer does; what is refused
\* is what the release cannot hold.
InstructionsReadBack ==
    item \in Instructions =>
      IF records = Rejected THEN Unsupported(release, item)
      ELSE \/ TooAligned(release, item)
           \/ got = InRelease(release, item) /\ reader.nextID = writer.instID
LocationsReadBack ==
    /\ item \in Locations => got = LocationIn(release, item)
    /\ item \in DebugRecords => got = item
\* So is the rest of a function: every instruction gets its own location and
\* every debug record its value.
FunctionReadsBack == section = "function" => InstructionsReadBack /\ LocationsReadBack

\* Every metadata node says to the reader what the release has of it, by itself
\* and among the nodes of its block, whether the reader goes through them or
\* finds them by the index; the strings, names and attachments belong to the
\* same nodes, instructions and globals as before.
MetadataReadsBack ==
    section = "metadata" /\ item # Nothing =>
      IF records = Rejected THEN UnsupportedNode(release, item)
      ELSE NodeGap(release, item) \/ got = MetadataIn(release, item)

\* The reader understands every constant, with its type, as what was written.
ConstantsReadBack ==
    section = "constants" /\ item # Nothing =>
      IF records = Rejected THEN UnsupportedConstant(release, item)
      ELSE KnownGap(release, item) \/ got = ConstantIn(release, item)

\* Without exception, those of element addresses too: LLVMBitCodes.h numbers
\* their record CE_GEP with the flags as an operand of its own.
ElementAddressesReadBack ==
    section = "constants" /\ item.op = "gep expr" /\ records # Rejected =>
      got = ConstantIn(release, item)

\* A number fits a field (those here are less than 2^30), the numbers from the
\* array on its element.
FitsField(field, n) ==
    CASE field[1] = "fixed" -> field[2] >= 30 \/ n < 2^field[2]
      [] field[1] = "char6" -> IsChar6(n)
      [] field[1] = "literal" -> n = field[2]
      [] OTHER -> n >= 0
Fits(abbreviation, record) ==
    LET fields == abbreviation.fields
        array == fields # <<>> /\ Last(fields)[1] = "array"
        plain == Len(fields) - Bit(array)
    IN /\ abbreviation.code = record.code
       /\ IF array THEN Len(record.ops) >= plain ELSE Len(record.ops) = plain
       /\ \A n \in DOMAIN record.ops :
             FitsField(IF n <= plain THEN fields[n] ELSE Last(fields)[2], record.ops[n])

TypeAbbreviations ==
    CASE release = 50 -> T50!TypeAbbreviations
      [] release = 70 -> T70!TypeAbbreviations
      [] release = 140 -> T140!TypeAbbreviations
      [] release = 180 -> T180!TypeAbbreviations
      [] release = 200 -> T200!TypeAbbreviations
ModuleAbbreviations(m) ==
    CASE release = 50 -> T50!ModuleAbbreviations(m)
      [] release = 70 -> T70!ModuleAbbreviations(m)
      [] release = 140 -> T140!ModuleAbbreviations(m)
      [] release = 180 -> T180!ModuleAbbreviations(m)
      [] release = 200 -> T200!ModuleAbbreviations(m)
MetadataAbbreviations ==
    CASE release = 50 -> D50!MetadataAbbreviations
      [] release = 70 -> D70!MetadataAbbreviations
      [] release = 140 -> D140!MetadataAbbreviations
      [] release = 180 -> D180!MetadataAbbreviations
      [] release = 200 -> D200!MetadataAbbreviations
BlockAbbreviations ==
    CASE release = 50 -> W50!Abbreviations
      [] release = 70 -> W70!Abbreviations
      [] release = 140 -> W140!Abbreviations
      [] release = 180 -> W180!Abbreviations
      [] release = 200 -> W200!Abbreviations
Abbreviations ==
    CASE section = "types" -> TypeAbbreviations
      [] section = "module" -> ModuleAbbreviations(item)
      [] section = "metadata" -> MetadataAbbreviations
      [] OTHER -> BlockAbbreviations
\* A record written with an abbreviation has room in it: the abbreviated form
\* has no way to say that a number does not fit.
AbbreviationsFit ==
    \A n \in DOMAIN records :
       records[n].abbrev # "" => Fits(Abbreviations[records[n].abbrev], records[n])
=============================================================================
