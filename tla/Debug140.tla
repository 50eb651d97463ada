------------------------------ MODULE Debug140 ------------------------------
(***************************************************************************)
(* src/BitcodeWriter140.cpp, the metadata of LLVM 14: what differs from    *)
(* Debug70, and by name what does not.                                     *)
(***************************************************************************)
EXTENDS Records
D50 == INSTANCE Debug50
D70 == INSTANCE Debug70
W50 == INSTANCE Writer50

ValueAsMetadata(n) == Only("VALUE", "", <<TypeID[MappedType[n.value]], n.value>>)
Location(n) ==
    LET old == D50!Location(n)[1]
    IN <<[old EXCEPT !.ops = Append(@, Bit(n.implicit))]>>
\* All bounds are nodes.
Bounds(n) == <<n.count, n.lower, n.upper, n.stride>>
Subrange(n) == Only("SUBRANGE", "", <<D50!First(n) + 2 * 2>> \o Bounds(n))
GenericSubrange(n) == Only("GENERIC_SUBRANGE", "", <<D50!First(n)>> \o Bounds(n))
\* As wide as it is.
Enumerator(n) ==
    Only("ENUMERATOR", "",
         <<D70!FirstOfEnumerator(n) + 4, n.width, n.name>> \o W50!WordsSigned(n.words))
Module(n) ==
    LET old == D50!Module(n)[1]
    IN <<[old EXCEPT !.ops = @ \o <<n.line, Bit(n.isDecl)>>]>>
ArgList(n) == Only("ARG_LIST", "", [k \in DOMAIN n.args |-> n.args[k] - 1])

StringRoles ==
    <<"tag", "name", "length", "lengthExpr", "locationExpr", "size", "align", "encoding">>
TypeLayouts ==
    [D70!TypeLayouts EXCEPT
       !.DIBasicType = D70!Longer(@, <<"flags">>),
       !.DIDerivedType = D70!Longer(@, <<"annotations">>),
       !.DICompositeType =
           D70!Longer(@, <<"dataLocation", "associated", "allocated", "rank", "annotations">>)]
    @@ [DIStringType |-> D50!Layout("STRING_TYPE", 0, StringRoles)]
UnitLayouts ==
    [D70!UnitLayouts EXCEPT
       !.DICompileUnit =
           D70!Longer(D50!UnitLayouts.DICompileUnit,
                      <<"nameTable", "rangesBase", "sysRoot", "sdk">>),
       !.DISubprogram =
           D50!Layout("SUBPROGRAM", 3,
                      <<"scope", "name", "linkageName", "file", "line", "type", "scopeLine",
                        "containingType", "spFlags", "virtualIndex", "flags", "unit",
                        "templateParams", "declaration", "retained", "thisAdjustment",
                        "thrownTypes", "annotations">>)]
ScopeLayouts ==
    D70!ScopeLayouts
    @@ [DICommonBlock |->
          D50!Layout("COMMON_BLOCK", 0, <<"scope", "decl", "name", "file", "line">>)]
VariableLayouts ==
    [D70!VariableLayouts EXCEPT
       !.DITemplateTypeParameter = D70!Longer(@, <<"isDefault">>),
       !.DITemplateValueParameter.roles = <<"tag", "name", "type", "isDefault", "value">>,
       !.DIGlobalVariable =
           D50!Layout("GLOBAL_VAR", 2,
                      <<"scope", "name", "linkageName", "file", "line", "type", "local",
                        "definition", "declaration", "templateParams", "align",
                        "annotations">>),
       !.DILocalVariable = D70!Longer(@, <<"annotations">>),
       !.DIImportedEntity = D70!Longer(@, <<"elements">>)]
Layouts == TypeLayouts @@ UnitLayouts @@ ScopeLayouts @@ VariableLayouts

\* There is no way to say what these are.
Unsupported == {"DIFixedPointType", "DISubrangeType"}
AssignID(n) == Rejected
Own(n) ==
    CASE n.op \in Unsupported -> Rejected
      [] n.op = "value" -> ValueAsMetadata(n)
      [] n.op = "DIAssignID" -> AssignID(n)
      [] n.op = "DILocation" -> Location(n)
      [] n.op = "DISubrange" -> Subrange(n)
      [] n.op = "DIGenericSubrange" -> GenericSubrange(n)
      [] n.op = "DIEnumerator" -> Enumerator(n)
      [] n.op = "DIModule" -> Module(n)
      [] OTHER -> D70!Own(n)
Node(n) == IF n.op \in DOMAIN Layouts THEN D50!InLayout(n, Layouts[n.op]) ELSE Own(n)

-----------------------------------------------------------------------------
(* Blocks *)

MetadataRecords(nodes) == [k \in DOMAIN nodes |-> Node(nodes[k])]
ModuleMetadata(m) == D70!ModuleBlock(m, MetadataRecords(m.nodes))
FunctionMetadata(f) == D50!Block(f.strings, MetadataRecords(f.nodes), <<>>)
FunctionMetadataAttachment(f) == D70!FunctionMetadataAttachment(f)
MetadataKinds(names) == D70!MetadataKinds(names)
OperandBundleTags(names) == D70!OperandBundleTags(names)
SyncScopeNames(names) == D70!SyncScopeNames(names)
Metadata(m) ==
    CASE m.op = "module metadata" -> ModuleMetadata(m)
      [] m.op = "function metadata" -> FunctionMetadata(m)
      [] m.op = "attachments" -> FunctionMetadataAttachment(m)
      [] m.op = "kinds" -> MetadataKinds(m.names)
      [] m.op = "tags" -> OperandBundleTags(m.names)
      [] m.op = "scopes" -> SyncScopeNames(m.names)
      [] OTHER -> Node(m)

MetadataAbbreviations ==
    [D70!MetadataAbbreviations EXCEPT
       !.DILocation.fields = Append(@, W50!Fixed(1))]
=============================================================================
