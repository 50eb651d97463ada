------------------------------ MODULE Tables140 ------------------------------
(***************************************************************************)
(* src/BitcodeWriter140.cpp, before the functions: what differs from       *)
(* Tables50, and by name what does not.                                    *)
(***************************************************************************)
EXTENDS Records
W50 == INSTANCE Writer50
T50 == INSTANCE Tables50
T70 == INSTANCE Tables70

TypeAbbreviations ==
    T50!TypeAbbreviations
    @@ [OPAQUE_POINTER |-> W50!Abbreviation("OPAQUE_POINTER", <<<<"literal", 0>>>>),
        STRUCT_NAMED |->
          W50!Abbreviation("STRUCT_NAMED", <<W50!Fixed(1), W50!Array(W50!Fixed(TypeBits))>>)]
VectorType(t) ==
    Only("VECTOR", "", <<t.count, TypeID[t.element]>> \o If(t.scalable, <<1>>))
Type(t) ==
    CASE t.kind \in {"BFLOAT", "X86_AMX"} -> Only(t.kind, "", <<>>)
      [] t.kind = "STRUCT" -> T50!StructType(t, "STRUCT_NAMED")
      [] t.kind = "VECTOR" -> VectorType(t)
      [] OTHER -> T50!Type(t)

Comdats(m) == T50!Comdats(m)
Header(m) == T50!Header(m)
SourceFileName(m) == T50!SourceFileName(m)
ModuleAbbreviations(m) == T50!ModuleAbbreviations(m)

\* The partition, which has a name, comes after dso_local.
Partition(g, m) == T70!Local(g) \o T50!AddToStrtab(m, g.partition)
\* Mutant: what is new in a global does not make it unusual.
PlainOld(g) == T50!Plain(g)
Plain(g) == T50!Plain(g) /\ ~g.dsoLocal /\ g.partition = ""
Prototype(f, m, type) ==
    T50!Prototype(f, m, type,
                  T70!Local(f) \o <<f.space>> \o T50!AddToStrtab(m, f.partition))
StringTable(m) == T50!Strtab(m, LAMBDA g : <<g.name, g.partition>>)
ModuleInfo(module) ==
    LET m == module @@ [strtab |-> StringTable(module)]
    IN Comdats(m) \o Header(m) \o SourceFileName(m)
       \o Each(m.globals, LAMBDA g : T50!Variable(g, m, T50!WrittenType(g), Plain(g),
                                                  Partition(g, m)))
       \o Each(m.functions, LAMBDA f : Prototype(f, m, T50!WrittenType(f)))
       \o Each(m.aliases, LAMBDA a : T50!Alias(a, m, T50!WrittenType(a), Partition(a, m)))
       \o Each(m.ifuncs, LAMBDA i : T50!IFunc(i, m, Partition(i, m)))
       \o T50!ForwardDeclaration

AttrKindEncoding == (1 .. 78) \ ((1 .. 53) \ T50!AttrKindEncoding)
\* A type attribute names its type.
Typed(a, kinds) == If(a.kind \in kinds, <<<<6, a.kind, TypeID[a.type]>>>>)
EncodedAttribute(a) ==
    CASE a.form = "type" -> Typed(a, AttrKindEncoding)
      [] a.form \in {"enum", "int"} /\ a.kind # T50!UWTable ->
           T50!Plainly(a, AttrKindEncoding)
      [] OTHER -> T50!EncodedAttribute(a)
Enumerated(table, list) == T50!EnumerateAttributes(table, list, EncodedAttribute)
AttributeGroupTable(groups) == T50!GroupTable(groups, EncodedAttribute)
AttributeTable(table) == T50!AttributeTable(table)
AttributeTables(table) == AttributeGroupTable(table.groups) \o AttributeTable(table)
=============================================================================
