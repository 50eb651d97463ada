------------------------------ MODULE Debug200 ------------------------------
(***************************************************************************)
(* src/BitcodeWriter200.cpp, the metadata of LLVM 20: what differs from    *)
(* Debug180, and by name what does not.                                    *)
(***************************************************************************)
EXTENDS Records
D50 == INSTANCE Debug50
D70 == INSTANCE Debug70
D180 == INSTANCE Debug180

TypeLayouts ==
    [D180!TypeLayouts EXCEPT
       !.DIBasicType = D70!Longer(@, <<"extraInhabitants">>),
       !.DIDerivedType = D70!Longer(@, <<"ptrAuth">>),
       !.DICompositeType = D70!Longer(@, <<"extraInhabitants", "specification">>)]
UnitLayouts == D180!UnitLayouts
ScopeLayouts == D180!ScopeLayouts
VariableLayouts == D180!VariableLayouts
Layouts == TypeLayouts @@ UnitLayouts @@ ScopeLayouts @@ VariableLayouts
ValueAsMetadata(n) == D180!ValueAsMetadata(n)
Own(n) == IF n.op = "value" THEN ValueAsMetadata(n) ELSE D180!Own(n)
Node(n) == IF n.op \in DOMAIN Layouts THEN D50!InLayout(n, Layouts[n.op]) ELSE Own(n)

MetadataRecords(nodes) == [k \in DOMAIN nodes |-> Node(nodes[k])]
ModuleMetadata(m) == D70!ModuleBlock(m, MetadataRecords(m.nodes))
FunctionMetadata(f) == D50!Block(f.strings, MetadataRecords(f.nodes), <<>>)
FunctionMetadataAttachment(f) == D70!FunctionMetadataAttachment(f)
MetadataKinds(names) == D70!MetadataKinds(names)
OperandBundleTags(names) == D70!OperandBundleTags(names)
SyncScopeNames(names) == D70!SyncScopeNames(names)
Metadata(m) ==
    CASE m.op = "module metadata" -> ModuleMetadata(m)
      [] m.op = "function metadata" -> FunctionMetadata(m)
      [] m.op = "attachments" -> FunctionMetadataAttachment(m)
      [] m.op = "kinds" -> MetadataKinds(m.names)
      [] m.op = "tags" -> OperandBundleTags(m.names)
      [] m.op = "scopes" -> SyncScopeNames(m.names)
      [] OTHER -> Node(m)

MetadataAbbreviations == D180!MetadataAbbreviations
=============================================================================
