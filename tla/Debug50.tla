------------------------------- MODULE Debug50 -------------------------------
(***************************************************************************)
(* src/BitcodeWriter50.cpp, the metadata of LLVM 5.0: debug info nodes     *)
(* first, then the blocks they are in.                                     *)
(*                                                                         *)
(* A node is a record of what its fields hold: numbers, and other nodes    *)
(* and strings by their ID, 0 for none (VE.getMetadataOrNullID).  Most     *)
(* nodes are written field by field; their layout says in which order.     *)
(***************************************************************************)
EXTENDS Records
W50 == INSTANCE Writer50

\* The first number has the version of the layout next to the distinct bit.
Layout(code, version, roles) == [code |-> code, version |-> version, roles |-> roles]

\* The sign goes into the lowest bit, by complement.
RotateSign(v) == IF v < 0 THEN 2 * (-v) - 1 ELSE 2 * v
\* A language by its number, or by a name with a version.
LegacySourceLanguage(language) ==
    IF language \in DOMAIN DWLang THEN DWLang[language] ELSE language[1]

-----------------------------------------------------------------------------
(* Nodes without a layout of their own *)

First(n) == Bit(n.distinct)
\* Functions and variables have the type that points to theirs, n.pointer, and
\* other values their own.
ValueAsMetadata(n) == Only("VALUE", "", <<TypeID[n.pointer], n.value>>)
Tuple(n) == Only(IF n.distinct THEN "DISTINCT_NODE" ELSE "NODE", "", n.operands)
\* The scope of a location is always there: its ID is one less.
Location(n) ==
    Only("LOCATION", "DILocation",
         <<First(n), n.line, n.column, n.scope - 1, n.inlinedAt>>)
Generic(n) ==
    Only("GENERIC_DEBUG", "GenericDINode", <<First(n), n.tag, 0>> \o n.operands)
\* A bound that is a constant has its value, as well as the node it is in.
Complement(v) == (v + IntRange) % IntRange
Subrange(n) ==
    Only("SUBRANGE", "",
         <<First(n)>> \o
         IF n.countValue # <<>> /\ n.lowerValue # <<>>
         THEN <<Complement(n.countValue[1]), RotateSign(n.lowerValue[1])>> ELSE <<0, 0>>)
\* The value of an enumerator is n.width words wide, those on top are zero.
Negative(n) == Len(n.words) = n.width /\ 2 * Last(n.words) >= IntRange
Significant64(n) ==
    IF Negative(n)
    THEN /\ 2 * n.words[1] >= IntRange
         /\ \A k \in 2 .. n.width : n.words[k] = IntRange - 1
    ELSE Len(n.words) = 1 /\ (n.width > 1 => 2 * n.words[1] < IntRange)
SExtValue(n) == IF Negative(n) THEN n.words[1] - IntRange ELSE n.words[1]
Enumerator(n, first) ==
    IF ~Significant64(n) THEN Rejected
    ELSE Only("ENUMERATOR", "", <<first, RotateSign(SExtValue(n)), n.name>>)
File(n, source) ==
    Only("FILE", "", <<First(n), n.filename, n.directory, n.checksumKind, n.checksum>>
                     \o source)
Namespace(n) ==
    Only("NAMESPACE", "", <<First(n) + 2 * Bit(n.exportSymbols), n.scope, n.name>>)
Module(n) ==
    Only("MODULE_NODE", "", <<First(n), n.file, n.scope, n.name, n.macros, n.includePath,
                         n.apiNotes>>)
Expression(n) == Only("EXPRESSION", "", <<First(n) + 2 * 3>> \o n.elements)

-----------------------------------------------------------------------------
(* Nodes written field by field *)

CompositeRoles ==
    <<"tag", "name", "file", "line", "scope", "baseType", "size", "align", "offset", "flags",
      "elements", "runtimeLang", "vtableHolder", "templateParams", "identifier">>
TypeLayouts ==
    [DIBasicType |->
       Layout("BASIC_TYPE", 0, <<"tag", "name", "size", "align", "encoding">>),
     DIDerivedType |->
       Layout("DERIVED_TYPE", 0,
              <<"tag", "name", "file", "line", "scope", "baseType", "size", "align", "offset",
                "flags", "extraData", "addressSpace">>),
     DICompositeType |-> Layout("COMPOSITE_TYPE", 1, CompositeRoles),
     DISubroutineType |-> Layout("SUBROUTINE_TYPE", 1, <<"flags", "types", "cc">>)]
UnitLayouts ==
    [DICompileUnit |->
       Layout("COMPILE_UNIT", 0,
              <<"language", "file", "producer", "optimized", "flags", "runtimeVersion",
                "splitFilename", "emissionKind", "enums", "retained", "zero", "globals",
                "imported", "dwoId", "macros", "splitInlining", "profiling">>),
     DISubprogram |->
       Layout("SUBPROGRAM", 1,
              <<"scope", "name", "linkageName", "file", "line", "type", "local", "definition",
                "scopeLine", "containingType", "virtuality", "virtualIndex", "flags",
                "optimized", "unit", "templateParams", "declaration", "retained",
                "thisAdjustment", "thrownTypes">>)]
ScopeLayouts ==
    [DILexicalBlock |-> Layout("LEXICAL_BLOCK", 0, <<"scope", "file", "line", "column">>),
     DILexicalBlockFile |->
       Layout("LEXICAL_BLOCK_FILE", 0, <<"scope", "file", "discriminator">>),
     DIMacro |-> Layout("MACRO", 0, <<"macinfo", "line", "name", "value">>),
     DIMacroFile |-> Layout("MACRO_FILE", 0, <<"macinfo", "line", "file", "elements">>)]
VariableLayouts ==
    [DITemplateTypeParameter |-> Layout("TEMPLATE_TYPE", 0, <<"name", "type">>),
     DITemplateValueParameter |->
       Layout("TEMPLATE_VALUE", 0, <<"tag", "name", "type", "value">>),
     DIGlobalVariable |->
       Layout("GLOBAL_VAR", 1,
              <<"scope", "name", "linkageName", "file", "line", "type", "local", "definition",
                "zero", "declaration", "align">>),
     DILocalVariable |->
       Layout("LOCAL_VAR", 1,
              <<"scope", "name", "file", "line", "type", "arg", "flags", "align">>),
     DIGlobalVariableExpression |->
       Layout("GLOBAL_VAR_EXPR", 0, <<"variable", "expression">>),
     DIObjCProperty |->
       Layout("OBJC_PROPERTY", 0,
              <<"name", "file", "line", "setter", "getter", "attributes", "type">>),
     DIImportedEntity |->
       Layout("IMPORTED_ENTITY", 0, <<"tag", "scope", "entity", "line", "name", "file">>)]
Layouts == TypeLayouts @@ UnitLayouts @@ ScopeLayouts @@ VariableLayouts

SPFlags == [local |-> 2, definition |-> 3, optimized |-> 4, deleted |-> 9]
\* No address space is 0, one is a number more.  What a subprogram is was a
\* field for each flag.
Written(n, role) ==
    CASE role = "zero" -> 0
      [] role = "addressSpace" -> n.addressSpace + 1
      [] role = "language" -> LegacySourceLanguage(n.language)
      [] role \in DOMAIN SPFlags /\ n.op = "DISubprogram" -> Bit(role \in n.spFlags)
      [] role = "spFlags" -> n.virtuality + FlagWord(SPFlags, n.spFlags)
      [] role = "gnuNames" -> Bit(n.nameTable = 1)
      [] OTHER -> n[role]
InLayout(n, layout) ==
    Only(layout.code, "",
         <<First(n) + 2 * layout.version>>
         \o [k \in DOMAIN layout.roles |-> Written(n, layout.roles[k])])

\* Metadata50.def has no other kinds.
Own(n) ==
    CASE n.op = "value" -> ValueAsMetadata(n)
      [] n.op = "MDTuple" -> Tuple(n)
      [] n.op = "DILocation" -> Location(n)
      [] n.op = "GenericDINode" -> Generic(n)
      [] n.op = "DISubrange" -> Subrange(n)
      [] n.op = "DIEnumerator" -> Enumerator(n, First(n))
      [] n.op = "DIFile" -> File(n, <<>>)
      [] n.op = "DINamespace" -> Namespace(n)
      [] n.op = "DIModule" -> Module(n)
      [] n.op = "DIExpression" -> Expression(n)
Node(n) == IF n.op \in DOMAIN Layouts THEN InLayout(n, Layouts[n.op]) ELSE Own(n)

-----------------------------------------------------------------------------
(* Blocks *)

\* The sizes of the strings, up to a word, and then the strings.
MetadataStrings(strings) ==
    LET sizes == [k \in DOMAIN strings |-> Len(strings[k])]
        words == sizes \o If(Len(sizes) % 2 = 1, <<0>>)
    IN If(strings # <<>>,
          Only("STRINGS", "STRINGS",
               <<Len(strings), Len(words)>> \o words \o FlattenSeq(strings)))
NamedMetadata(named) ==
    FlattenSeq([k \in DOMAIN named |->
                  Only("NAME", "NAME", named[k].name)
                  \o Only("NAMED_NODE", "", [j \in DOMAIN named[k].nodes |->
                                               named[k].nodes[j] - 1])])
\* A kind and a node, for each node attached.
Attached(nodes) == FlattenSeq([k \in DOMAIN nodes |-> <<nodes[k][1], nodes[k][2] - 1>>])
DeclAttachments(globals) ==
    [k \in DOMAIN globals |->
       Record("GLOBAL_DECL_ATTACHMENT", "",
              <<globals[k].global>> \o Attached(globals[k].nodes))]
\* A function's nodes, and those of its instructions.
FunctionMetadataAttachment(f) ==
    If(f.function # <<>>, Only("ATTACHMENT", "", Attached(f.function)))
    \o [k \in DOMAIN f.instructions |->
          Record("ATTACHMENT", "", <<f.instructions[k].id>>
                                   \o Attached(f.instructions[k].nodes))]

\* One record is one node: an error in one ends them all.
Block(strings, nodes, rest) ==
    IF \E k \in DOMAIN nodes : nodes[k] = Rejected THEN Rejected
    ELSE MetadataStrings(strings) \o FlattenSeq(nodes) \o rest
MetadataRecords(nodes) == [k \in DOMAIN nodes |-> Node(nodes[k])]
\* The index of the records is not wanted.
ModuleMetadata(m) ==
    Block(m.strings, MetadataRecords(m.nodes),
          NamedMetadata(m.named) \o DeclAttachments(m.globals))
FunctionMetadata(f) == Block(f.strings, MetadataRecords(f.nodes), <<>>)

MetadataKinds(names) ==
    [k \in DOMAIN names |-> Record("KIND", "", <<k - 1>> \o names[k])]
Listed(code, names) == [k \in DOMAIN names |-> Record(code, "", names[k])]
OperandBundleTags(names) == Listed("OPERAND_BUNDLE_TAG", names)
SyncScopeNames(names) == Listed("SYNC_SCOPE_NAME", names)

Metadata(m) ==
    CASE m.op = "module metadata" -> ModuleMetadata(m)
      [] m.op = "function metadata" -> FunctionMetadata(m)
      [] m.op = "attachments" -> FunctionMetadataAttachment(m)
      [] m.op = "kinds" -> MetadataKinds(m.names)
      [] m.op = "tags" -> OperandBundleTags(m.names)
      [] m.op = "scopes" -> SyncScopeNames(m.names)
      [] OTHER -> Node(m)

MetadataAbbreviations ==
    [DILocation |->
       W50!Abbreviation("LOCATION", <<W50!Fixed(1), W50!VBR(6), W50!VBR(8), W50!VBR(6),
                                      W50!VBR(6)>>),
     GenericDINode |->
       W50!Abbreviation("GENERIC_DEBUG", <<W50!Fixed(1), W50!VBR(6), W50!Fixed(1),
                                           W50!Array(W50!VBR(6))>>),
     NAME |-> W50!Abbreviation("NAME", <<W50!Array(W50!Fixed(8))>>),
     STRINGS |-> W50!Abbreviation("STRINGS", <<W50!VBR(6), W50!VBR(6),
                                               W50!Array(W50!Fixed(8))>>)]
=============================================================================
