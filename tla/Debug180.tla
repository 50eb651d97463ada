------------------------------ MODULE Debug180 ------------------------------
(***************************************************************************)
(* src/BitcodeWriter180.cpp, the metadata of LLVM 18: what differs from    *)
(* Debug140, and by name what does not.                                    *)
(***************************************************************************)
EXTENDS Records
D50 == INSTANCE Debug50
D70 == INSTANCE Debug70
D140 == INSTANCE Debug140

\* A value has its own type again.
ValueAsMetadata(n) == Only("VALUE", "", <<TypeID[ValueType[n.value]], n.value>>)
ArgList(n) == D140!ArgList(n)
AssignID(n) == Only("ASSIGN_ID", "", <<D50!First(n)>>)
TypeLayouts == D140!TypeLayouts
UnitLayouts ==
    [D140!UnitLayouts EXCEPT !.DISubprogram = D70!Longer(@, <<"targetFunction">>)]
ScopeLayouts == D140!ScopeLayouts
VariableLayouts == D140!VariableLayouts
Layouts == TypeLayouts @@ UnitLayouts @@ ScopeLayouts @@ VariableLayouts
Own(n) ==
    CASE n.op = "value" -> ValueAsMetadata(n)
      [] n.op = "DIArgList" -> ArgList(n)
      [] n.op = "DIAssignID" -> AssignID(n)
      [] OTHER -> D140!Own(n)
Node(n) == IF n.op \in DOMAIN Layouts THEN D50!InLayout(n, Layouts[n.op]) ELSE Own(n)

MetadataRecords(nodes) == [k \in DOMAIN nodes |-> Node(nodes[k])]
ModuleMetadata(m) == D70!ModuleBlock(m, MetadataRecords(m.nodes))
FunctionMetadata(f) == D50!Block(f.strings, MetadataRecords(f.nodes), <<>>)
FunctionMetadataAttachment(f) == D70!FunctionMetadataAttachment(f)
MetadataKinds(names) == D70!MetadataKinds(names)
OperandBundleTags(names) == D70!OperandBundleTags(names)
SyncScopeNames(names) == D70!SyncScopeNames(names)
Metadata(m) ==
    CASE m.op = "module metadata" -> ModuleMetadata(m)
      [] m.op = "function metadata" -> FunctionMetadata(m)
      [] m.op = "attachments" -> FunctionMetadataAttachment(m)
      [] m.op = "kinds" -> MetadataKinds(m.names)
      [] m.op = "tags" -> OperandBundleTags(m.names)
      [] m.op = "scopes" -> SyncScopeNames(m.names)
      [] OTHER -> Node(m)

MetadataAbbreviations == D140!MetadataAbbreviations
=============================================================================
