------------------------------- MODULE Debug70 -------------------------------
(***************************************************************************)
(* src/BitcodeWriter70.cpp, the metadata of LLVM 7: what differs from      *)
(* Debug50, and by name what does not.                                     *)
(***************************************************************************)
EXTENDS Records
D50 == INSTANCE Debug50
W50 == INSTANCE Writer50

\* The last of the roles, put behind those there were.
Longer(layout, roles) == [layout EXCEPT !.roles = @ \o roles]

\* The count is a node, the lower bound a number still.
Subrange(n) ==
    Only("SUBRANGE", "",
         <<D50!First(n) + 2 * 1, n.count,
           IF n.lowerValue # <<>> THEN D50!RotateSign(n.lowerValue[1]) ELSE 0>>)
FirstOfEnumerator(n) == D50!First(n) + 2 * Bit(n.unsigned)
Enumerator(n) == D50!Enumerator(n, FirstOfEnumerator(n))
File(n) == D50!File(n, If(n.source # 0, <<n.source>>))
Module(n) == D50!Module(n)

TypeLayouts ==
    [D50!TypeLayouts EXCEPT
       !.DICompositeType = Longer(@, <<"discriminator">>)]
UnitLayouts ==
    [D50!UnitLayouts EXCEPT
       !.DICompileUnit = Longer(@, <<"gnuNames">>)]
ScopeLayouts == D50!ScopeLayouts
VariableLayouts ==
    D50!VariableLayouts
    @@ [DILabel |-> D50!Layout("LABEL", 0, <<"scope", "name", "file", "line">>)]
Layouts == TypeLayouts @@ UnitLayouts @@ ScopeLayouts @@ VariableLayouts

Own(n) ==
    CASE n.op = "DISubrange" -> Subrange(n)
      [] n.op = "DIEnumerator" -> Enumerator(n)
      [] n.op = "DIFile" -> File(n)
      [] OTHER -> D50!Own(n)
Node(n) == IF n.op \in DOMAIN Layouts THEN D50!InLayout(n, Layouts[n.op]) ELSE Own(n)

-----------------------------------------------------------------------------
(* Blocks *)

\* Where the records are, from the first on, each by how far it is from the
\* one before; and before them, how far the index is.  The bits of a record
\* are counted as its numbers.
Size(record) == Len(record.ops) + 1
Sizes(records, n) == MapThenSumSet(LAMBDA k : Size(records[k]), 1 .. n)
\* Mutant: each place is counted from the first record.
PlacesAbsolute(records) == [n \in DOMAIN records |-> Sizes(records, n - 1)]
Places(records) ==
    [n \in DOMAIN records |->
       Sizes(records, n - 1) - (IF n = 1 THEN 0 ELSE Sizes(records, n - 2))]
Indexed(records) ==
    IF Len(records) <= IndexThreshold THEN records
    ELSE LET size == Sizes(records, Len(records))
         IN Only("INDEX_OFFSET", "INDEX_OFFSET", <<size % Width, size \div Width>>)
            \o records \o Only("INDEX", "INDEX", Places(records))
Block(strings, nodes, rest) ==
    IF \E k \in DOMAIN nodes : nodes[k] = Rejected THEN Rejected
    ELSE D50!MetadataStrings(strings) \o Indexed(FlattenSeq(nodes)) \o rest
ModuleBlock(m, nodes) ==
    Block(m.strings, nodes,
          D50!NamedMetadata(m.named) \o D50!DeclAttachments(m.globals))
MetadataRecords(nodes) == [k \in DOMAIN nodes |-> Node(nodes[k])]
ModuleMetadata(m) == ModuleBlock(m, MetadataRecords(m.nodes))
FunctionMetadata(f) == D50!Block(f.strings, MetadataRecords(f.nodes), <<>>)

\* The rest of a function's metadata and the names have not changed.
FunctionMetadataAttachment(f) == D50!FunctionMetadataAttachment(f)
MetadataKinds(names) == D50!MetadataKinds(names)
OperandBundleTags(names) == D50!OperandBundleTags(names)
SyncScopeNames(names) == D50!SyncScopeNames(names)
Metadata(m) ==
    CASE m.op = "module metadata" -> ModuleMetadata(m)
      [] m.op = "function metadata" -> FunctionMetadata(m)
      [] m.op = "attachments" -> FunctionMetadataAttachment(m)
      [] m.op = "kinds" -> MetadataKinds(m.names)
      [] m.op = "tags" -> OperandBundleTags(m.names)
      [] m.op = "scopes" -> SyncScopeNames(m.names)
      [] OTHER -> Node(m)

IndexAbbreviations ==
    [INDEX_OFFSET |-> W50!Abbreviation("INDEX_OFFSET", <<W50!Fixed(32), W50!Fixed(32)>>),
     INDEX |-> W50!Abbreviation("INDEX", <<W50!Array(W50!VBR(6))>>)]
MetadataAbbreviations == D50!MetadataAbbreviations @@ IndexAbbreviations
=============================================================================
