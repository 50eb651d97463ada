----------------------------- MODULE NodeReader -----------------------------
(***************************************************************************)
(* The bitcode reader of LLVM 5, 7, 14, 18 and 20 for metadata.  Like      *)
(* RecordReader it is not part of the program.                             *)
(***************************************************************************)
EXTENDS TableReader

\* The numbers of a node after its first, those that a release takes and can do
\* without last.
Since(release, first, roles) == If(release >= first, roles)
Shape(op, needed, more) == [op |-> op, needed |-> needed, more |-> more]
TypeShapes(release) ==
    [BASIC_TYPE |->
       Shape("DIBasicType", <<"tag", "name", "size", "align", "encoding">>,
             Since(release, 140, <<"flags">>) \o Since(release, 200, <<"extraInhabitants">>)),
     DERIVED_TYPE |->
       Shape("DIDerivedType",
             <<"tag", "name", "file", "line", "scope", "baseType", "size", "align", "offset",
               "flags", "extraData">>,
             <<"addressSpace">> \o Since(release, 140, <<"annotations">>)
             \o Since(release, 200, <<"ptrAuth">>)),
     COMPOSITE_TYPE |->
       Shape("DICompositeType",
             <<"tag", "name", "file", "line", "scope", "baseType", "size", "align", "offset",
               "flags", "elements", "runtimeLang", "vtableHolder", "templateParams",
               "identifier">>,
             Since(release, 70, <<"discriminator">>)
             \o Since(release, 140, <<"dataLocation", "associated", "allocated", "rank",
                                      "annotations">>)
             \o Since(release, 200, <<"extraInhabitants", "specification">>)),
     SUBROUTINE_TYPE |-> Shape("DISubroutineType", <<"flags", "types">>, <<"cc">>),
     STRING_TYPE |->
       Shape("DIStringType",
             <<"tag", "name", "length", "lengthExpr", "locationExpr", "size", "align",
               "encoding">>, <<>>)]
UnitShapes(release) ==
    [COMPILE_UNIT |->
       Shape("DICompileUnit",
             <<"language", "file", "producer", "optimized", "flags", "runtimeVersion",
               "splitFilename", "emissionKind", "enums", "retained", "zero", "globals",
               "imported">>,
             <<"dwoId", "macros", "splitInlining", "profiling">>
             \o Since(release, 70, <<"nameTable">>)
             \o Since(release, 140, <<"rangesBase", "sysRoot", "sdk">>)),
     SUBPROGRAM |->
       Shape("DISubprogram",
             <<"scope", "name", "linkageName", "file", "line", "type">>
             \o (IF release >= 140
                 THEN <<"scopeLine", "containingType", "spFlags", "virtualIndex", "flags",
                        "unit", "templateParams", "declaration", "retained",
                        "thisAdjustment", "thrownTypes">>
                 ELSE <<"local", "definition", "scopeLine", "containingType", "virtuality",
                        "virtualIndex", "flags", "optimized", "unit", "templateParams",
                        "declaration", "retained">>),
             If(release < 140, <<"thisAdjustment", "thrownTypes">>)
             \o Since(release, 140, <<"annotations">>)
             \o Since(release, 180, <<"targetFunction">>))]
ScopeShapes(release) ==
    [LEXICAL_BLOCK |-> Shape("DILexicalBlock", <<"scope", "file", "line", "column">>, <<>>),
     LEXICAL_BLOCK_FILE |->
       Shape("DILexicalBlockFile", <<"scope", "file", "discriminator">>, <<>>),
     COMMON_BLOCK |->
       Shape("DICommonBlock", <<"scope", "decl", "name", "file", "line">>, <<>>),
     NAMESPACE |-> Shape("DINamespace", <<"scope", "name">>, <<>>),
     MODULE_NODE |-> IF release >= 140
                THEN Shape("DIModule", <<"file", "scope", "name", "macros", "includePath",
                                         "apiNotes", "line", "isDecl">>, <<>>)
                ELSE Shape("DIModule", <<"scope", "name", "macros", "includePath",
                                         "sysRoot">>, <<>>),
     FILE |-> Shape("DIFile", <<"filename", "directory", "checksumKind", "checksum">>,
                    Since(release, 70, <<"source">>)),
     MACRO |-> Shape("DIMacro", <<"macinfo", "line", "name", "value">>, <<>>),
     MACRO_FILE |-> Shape("DIMacroFile", <<"macinfo", "line", "file", "elements">>, <<>>)]
VariableShapes(release) ==
    [TEMPLATE_TYPE |-> Shape("DITemplateTypeParameter", <<"name", "type">>,
                             Since(release, 140, <<"isDefault">>)),
     TEMPLATE_VALUE |-> Shape("DITemplateValueParameter",
                              <<"tag", "name", "type">>
                              \o Since(release, 140, <<"isDefault">>) \o <<"value">>, <<>>),
     GLOBAL_VAR |->
       Shape("DIGlobalVariable",
             <<"scope", "name", "linkageName", "file", "line", "type", "local", "definition">>
             \o (IF release >= 140 THEN <<"declaration", "templateParams">>
                 ELSE <<"zero", "declaration">>),
             <<"align">> \o Since(release, 140, <<"annotations">>)),
     LOCAL_VAR |->
       Shape("DILocalVariable",
             <<"scope", "name", "file", "line", "type", "arg", "flags">>,
             <<"align">> \o Since(release, 140, <<"annotations">>)),
     LABEL |-> Shape("DILabel", <<"scope", "name", "file", "line">>, <<>>),
     GLOBAL_VAR_EXPR |->
       Shape("DIGlobalVariableExpression", <<"variable", "expression">>, <<>>),
     OBJC_PROPERTY |->
       Shape("DIObjCProperty",
             <<"name", "file", "line", "setter", "getter", "attributes", "type">>, <<>>),
     IMPORTED_ENTITY |->
       Shape("DIImportedEntity", <<"tag", "scope", "entity", "line", "name">>,
             <<"file">> \o Since(release, 140, <<"elements">>))]
BoundShapes(release) ==
    [SUBRANGE |->
       Shape("DISubrange",
             CASE release = 50 -> <<"countValue", "lowerValue">>
               [] release = 70 -> <<"count", "lowerValue">>
               [] OTHER -> <<"count", "lower", "upper", "stride">>, <<>>),
     GENERIC_SUBRANGE |->
       Shape("DIGenericSubrange", <<"count", "lower", "upper", "stride">>, <<>>),
     LOCATION |->
       Shape("DILocation", <<"line", "column", "scope", "inlinedAt">>,
             Since(release, 140, <<"implicit">>)),
     ASSIGN_ID |-> Shape("DIAssignID", <<>>, <<>>)]
Shapes(release) ==
    TypeShapes(release) @@ UnitShapes(release) @@ ScopeShapes(release)
    @@ VariableShapes(release) @@ BoundShapes(release)

\* What comes with the distinct bit: the version of the layout a release takes
\* for its own, or flags.
Version(release, code) ==
    CASE code \in {"COMPOSITE_TYPE", "SUBROUTINE_TYPE", "LOCAL_VAR"} -> 1
      [] code = "SUBPROGRAM" -> IF release >= 140 THEN 3 ELSE 1
      [] code = "GLOBAL_VAR" -> IF release >= 140 THEN 2 ELSE 1
      [] code = "SUBRANGE" -> CASE release = 50 -> 0 [] release = 70 -> 1 [] OTHER -> 2
      [] code = "EXPRESSION" -> 3
      [] OTHER -> 0
KnownCodes(release) ==
    DOMAIN Shapes(release)
    \ ((IF release < 70 THEN {"LABEL"} ELSE {})
       \cup (IF release < 140 THEN {"STRING_TYPE", "COMMON_BLOCK", "GENERIC_SUBRANGE"} ELSE {})
       \cup (IF release < 180 THEN {"ASSIGN_ID"} ELSE {}))

\* The numbers that are not what they stand for.
UnrotateSign(n) == IF n % 2 = 1 THEN -(n \div 2) - 1 ELSE n \div 2
SPFlagNames == (2 :> "local") @@ (3 :> "definition") @@ (4 :> "optimized") @@ (9 :> "deleted")
RoleValue(op, role, n) ==
    CASE role = "addressSpace" -> n - 1
      [] role = "scope" /\ op = "DILocation" -> n + 1
      [] role = "lowerValue" -> UnrotateSign(n)
      [] role = "countValue" -> IF 2 * n < IntRange THEN n ELSE n - IntRange
      [] role \in {"implicit", "isDecl"} -> n = 1
      [] role = "spFlags" -> FlagsOf(SPFlagNames, n)
      [] OTHER -> n
\* A subprogram's flags are put together, and taken apart.
Together(item, ops) ==
    CASE item.op = "DISubprogram" /\ "local" \in DOMAIN item ->
           Without(item, {"local", "definition", "optimized"})
           @@ [spFlags |-> {f \in {"local", "definition", "optimized"} : item[f] = 1}]
      [] item.op = "DISubprogram" -> item @@ [virtuality |-> ops[10] % 4]
      [] OTHER -> item
Shaped(shape, first, ops) ==
    LET roles == shape.needed \o shape.more
        Given(k) == IF k + 1 <= Len(ops) THEN ops[k + 1] ELSE 0
    IN Without(Together([op |-> shape.op, distinct |-> first % 2 = 1]
                        @@ [role \in Range(roles) \ {"zero"} |->
                              LET k == CHOOSE k \in DOMAIN roles : roles[k] = role
                              IN RoleValue(shape.op, role, Given(k))], ops), {"zero"})
       @@ IF shape.op = "DINamespace" THEN [exportSymbols |-> first >= 2] ELSE <<>>
BadNode == [op |-> "malformed"]
ReadShaped(release, record, shape) ==
    LET length == Len(record.ops) - 1
    IN IF /\ length >= Len(shape.needed) /\ length <= Len(shape.needed \o shape.more)
          /\ \/ record.ops[1] \div 2 = Version(release, record.code)
             \/ record.code = "NAMESPACE"
       THEN Shaped(shape, record.ops[1], record.ops) ELSE BadNode

\* An enumerator is a number of 64 bits up to LLVM 7.
ReadEnumerator(release, ops) ==
    CASE release = 50 /\ Len(ops) = 3 ->
           [op |-> "DIEnumerator", distinct |-> ops[1] # 0, value |-> UnrotateSign(ops[2]),
            name |-> ops[3]]
      [] release = 70 /\ Len(ops) = 3 /\ ops[1] < 4 ->
           [op |-> "DIEnumerator", distinct |-> ops[1] % 2 = 1, unsigned |-> ops[1] >= 2,
            value |-> UnrotateSign(ops[2]), name |-> ops[3]]
      [] release >= 140 /\ Len(ops) >= 4 /\ ops[1] >= 4 ->
           [op |-> "DIEnumerator", distinct |-> ops[1] % 2 = 1,
            unsigned |-> ops[1] % 4 >= 2, width |-> ops[2], name |-> ops[3],
            words |-> [k \in 1 .. Len(ops) - 3 |-> Unsigned(SignedOf(ops[k + 3]))]]
      [] OTHER -> BadNode
Listing(op, distinct, more) == [op |-> op, distinct |-> distinct] @@ more
ReadNode(release, record) ==
    LET ops == record.ops
        code == record.code
    IN CASE code = "VALUE" /\ Len(ops) = 2 ->
              [op |-> "value", type |-> TypeNamed(ops[1]), value |-> ops[2]]
         [] code \in {"NODE", "DISTINCT_NODE"} ->
              Listing("MDTuple", code = "DISTINCT_NODE", [operands |-> ops])
         [] code = "GENERIC_DEBUG" /\ Len(ops) >= 4 /\ ops[3] = 0 ->
              Listing("GenericDINode", ops[1] = 1, [tag |-> ops[2], operands |-> From(ops, 4)])
         [] code = "EXPRESSION" /\ ops[1] \div 2 = Version(release, code) ->
              Listing("DIExpression", ops[1] % 2 = 1, [elements |-> From(ops, 2)])
         [] code = "ARG_LIST" /\ release >= 140 ->
              Listing("DIArgList", FALSE, [args |-> [k \in DOMAIN ops |-> ops[k] + 1]])
         [] code = "ENUMERATOR" -> ReadEnumerator(release, ops)
         [] code \in KnownCodes(release) -> ReadShaped(release, record, Shapes(release)[code])
         [] OTHER -> BadNode

-----------------------------------------------------------------------------
(* Blocks *)

\* The strings: as many as it says, the text from the offset on.
StringsOf(ops) ==
    LET count == ops[1]
        Start(k) == 2 + ops[2] + MapThenSumSet(LAMBDA j : ops[2 + j], 1 .. k - 1)
    IN [k \in 1 .. count |-> SubSeq(ops, Start(k) + 1, Start(k) + ops[2 + k])]
ReadStrings(rs) == LET there == RecordsOf(rs, "STRINGS")
                   IN IF there = <<>> THEN <<>> ELSE StringsOf(there[1].ops)
NotNodes == {"STRINGS", "INDEX_OFFSET", "INDEX", "NAME", "NAMED_NODE", "GLOBAL_DECL_ATTACHMENT"}
NodeRecords(rs) == SelectSeq(rs, LAMBDA r : r.code \notin NotNodes)

\* With an index the reader does not look at the records: it goes where the
\* index says.  The sizes of the records are those they were written with.
Ends(rs, n) == MapThenSumSet(LAMBDA k : Len(rs[k].ops) + 1, 1 .. n)
RecordAt(rs, place) ==
    LET there == {n \in DOMAIN rs : Ends(rs, n - 1) = place}
    IN IF there = {} THEN Record("nowhere", "", <<>>) ELSE rs[CHOOSE n \in there : TRUE]
IndexedRecords(rs, offset, start) ==
    LET index == RecordAt(rs, start + offset)
        Delta(n) == MapThenSumSet(LAMBDA k : index.ops[k], 1 .. n)
    IN IF index.code # "INDEX" THEN <<Record("nowhere", "", <<>>)>>
       ELSE [n \in DOMAIN index.ops |-> RecordAt(rs, start + Delta(n))]
LoadedRecords(rs) ==
    LET at == {n \in DOMAIN rs : rs[n].code = "INDEX_OFFSET"}
        first == CHOOSE n \in at : TRUE
    IN IF at = {} THEN NodeRecords(rs)
       ELSE IndexedRecords(rs, rs[first].ops[1] + rs[first].ops[2] * Width, Ends(rs, first))

IDs(ops) == [k \in DOMAIN ops |-> ops[k] + 1]
Pairs(ops) == [k \in 1 .. Len(ops) \div 2 |-> <<ops[2 * k - 1], ops[2 * k] + 1>>]
\* A name belongs to the node after it.
ReadNamed(rs) ==
    [k \in DOMAIN RecordsOf(rs, "NAME") |->
       [name |-> RecordsOf(rs, "NAME")[k].ops,
        nodes |-> IDs(RecordsOf(rs, "NAMED_NODE")[k].ops)]]
ReadNodes(release, rs) == [k \in DOMAIN rs |-> ReadNode(release, rs[k])]
\* An odd number of numbers starts with the instruction.
OfInstruction(r) == Len(r.ops) % 2 = 1
ReadAttachments(rs) ==
    LET functions == SelectSeq(rs, LAMBDA r : ~OfInstruction(r))
        instructions == SelectSeq(rs, OfInstruction)
    IN [op |-> "attachments",
        function |-> FlattenSeq([k \in DOMAIN functions |-> Pairs(functions[k].ops)]),
        instructions |-> [k \in DOMAIN instructions |->
                            [id |-> instructions[k].ops[1],
                             nodes |-> Pairs(Tail(instructions[k].ops))]]]
ReadMetadata(release, block, rs) ==
    CASE block = "module metadata" ->
           [op |-> block, strings |-> ReadStrings(rs),
            nodes |-> ReadNodes(release, LoadedRecords(rs)), named |-> ReadNamed(rs),
            globals |-> [k \in DOMAIN RecordsOf(rs, "GLOBAL_DECL_ATTACHMENT") |->
                           LET ops == RecordsOf(rs, "GLOBAL_DECL_ATTACHMENT")[k].ops
                           IN [global |-> ops[1], nodes |-> Pairs(Tail(ops))]]]
      [] block = "function metadata" ->
           [op |-> block, strings |-> ReadStrings(rs),
            nodes |-> ReadNodes(release, LoadedRecords(rs))]
      [] block = "attachments" -> ReadAttachments(rs)
      [] block = "kinds" ->
           [op |-> block, names |-> [k \in 0 .. Len(rs) - 1 |->
                                       LET of == {n \in DOMAIN rs : rs[n].ops[1] = k}
                                       IN IF of = {} THEN <<>>
                                          ELSE Tail(rs[CHOOSE n \in of : TRUE].ops)]]
      [] block \in {"tags", "scopes"} ->
           [op |-> block, names |-> [k \in DOMAIN rs |-> rs[k].ops]]
      [] OTHER -> IF Len(rs) = 1 THEN ReadNode(release, rs[1]) ELSE BadNode

-----------------------------------------------------------------------------
(* What a release has of a node *)

Newer(release) ==
    (IF release < 70 THEN {"source", "nameTable", "unsigned"} ELSE {})
    \cup (IF release < 140 THEN {"annotations", "dataLocation", "associated", "allocated",
                                 "rank", "rangesBase", "sysRoot", "sdk", "isDefault", "implicit"}
          ELSE {})
    \cup (IF release < 180 THEN {"targetFunction"} ELSE {})
    \cup (IF release < 200 THEN {"extraInhabitants", "ptrAuth", "specification"} ELSE {})
\* Of one kind of node only; a bound is a number or a node.
NewerOf(release, op) ==
    CASE op = "DIBasicType" /\ release < 140 -> {"flags"}
      [] op = "DICompositeType" /\ release < 70 -> {"discriminator"}
      [] op = "DIGlobalVariable" /\ release < 140 -> {"templateParams"}
      [] op = "DIImportedEntity" /\ release < 140 -> {"elements"}
      [] op = "DISubrange" ->
           CASE release = 50 -> {"count", "lower", "upper", "stride"}
             [] release = 70 -> {"countValue", "lower", "upper", "stride"}
             [] OTHER -> {"countValue", "lowerValue"}
      [] op = "DIEnumerator" -> IF release < 140 THEN {"words", "width"} ELSE {"value"}
      [] OTHER -> {}
Lost(release, n) == Newer(release) \cup NewerOf(release, n.op)
NumberOr0(value) == IF value = <<>> THEN 0 ELSE value[1]
Meant(release, n, role) ==
    CASE role = "language" ->
           IF n.language \in DOMAIN DWLang THEN DWLang[n.language] ELSE n.language[1]
      [] role = "nameTable" /\ release = 70 -> IF n.nameTable = 1 THEN 1 ELSE 0
      [] role = "lowerValue" /\ release = 50 /\ n.countValue = <<>> -> 0    \* no range
      [] role \in {"countValue", "lowerValue"} -> NumberOr0(n[role])
      [] role = "value" /\ n.op = "DIEnumerator" -> NumberOr0(n.value)
      [] role = "spFlags" /\ release < 140 -> n.spFlags \ {"deleted"}
      [] OTHER -> n[role]
NodeIn(release, n) ==
    IF n.op = "value"
    THEN [op |-> "value", value |-> n.value,
          type |-> IF release <= 140 THEN MappedType[n.value] ELSE ValueType[n.value]]
    ELSE [role \in DOMAIN n \ Lost(release, n) |-> Meant(release, n, role)]
Blocks == {"module metadata", "function metadata", "attachments", "kinds", "tags", "scopes"}
MetadataIn(release, m) ==
    CASE m.op = "kinds" -> [m EXCEPT !.names = [k \in 0 .. Len(@) - 1 |-> @[k + 1]]]
      [] m.op \in {"module metadata", "function metadata"} ->
           [m EXCEPT !.nodes = [k \in DOMAIN @ |-> NodeIn(release, @[k])]]
      [] m.op \in Blocks -> m
      [] OTHER -> NodeIn(release, m)

\* The writers for LLVM 5 and 7 have no case for the kinds these did not have,
\* and those up to 14 none for a list of arguments, which is not an MDNode any
\* more: what they do then is undefined.
NodeOccurs(release, m) ==
    /\ m.op = "DILabel" => release >= 70
    /\ m.op \in {"DIStringType", "DICommonBlock", "DIGenericSubrange", "DIAssignID",
                 "DIFixedPointType", "DISubrangeType"} => release >= 140
    /\ m.op = "DIArgList" => release >= 180
UnsupportedNode(release, m) ==
    \/ m.op \in {"DIFixedPointType", "DISubrangeType"}
    \/ m.op = "DIAssignID" /\ release < 180
    \/ m.op = "DIEnumerator" /\ m.value = <<>> /\ release < 140
\* Two losses nobody asked for.  The bounds of an array that starts where its
\* language has it are lost at LLVM 5, and modules at LLVM 5 and 7.
NodeGap(release, m) ==
    \/ m.op = "DISubrange" /\ release = 50 /\ m.countValue # <<>> /\ m.lowerValue = <<>>
    \/ m.op = "DIModule" /\ release < 140
=============================================================================
