------------------------------ MODULE Tables50 ------------------------------
(***************************************************************************)
(* src/BitcodeWriter50.cpp, before the functions: the types, the module's  *)
(* globals and the attributes, as LLVM 5.0 has them.                       *)
(*                                                                         *)
(* A type t, a global g and an attribute a are records; m is a module, the *)
(* sequences of its comdats, globals, functions, aliases and ifuncs.       *)
(***************************************************************************)
EXTENDS Records
W50 == INSTANCE Writer50

-----------------------------------------------------------------------------
(* writeTypeTable *)

TypeAbbreviations ==
    LET types == W50!Array(W50!Fixed(TypeBits))
    IN [POINTER |-> W50!Abbreviation("POINTER", <<W50!Fixed(TypeBits), <<"literal", 0>>>>),
        FUNCTION |-> W50!Abbreviation("FUNCTION", <<W50!Fixed(1), types>>),
        STRUCT_ANON |-> W50!Abbreviation("STRUCT_ANON", <<W50!Fixed(1), types>>),
        STRUCT_NAME |-> W50!Abbreviation("STRUCT_NAME", <<W50!Array(<<"char6", 6>>)>>),
        ARRAY |-> W50!Abbreviation("ARRAY", <<W50!VBR(8), W50!Fixed(TypeBits)>>)]

AllTypes(ts) == Each(ts, LAMBDA t : <<TypeID[t]>>)
PlainTypes == {"VOID", "HALF", "FLOAT", "DOUBLE", "X86_FP80", "FP128", "PPC_FP128",
               "LABEL", "METADATA", "TOKEN"}
Pointer(element, space) ==
    Only("POINTER", IF space = 0 THEN "POINTER" ELSE "", <<TypeID[element], space>>)
FunctionType(t) ==
    Only("FUNCTION", "FUNCTION", <<Bit(t.vararg), TypeID[t.result]>> \o AllTypes(t.params))
\* The abbreviation for names has room for the usual characters only.
TypeName(name) ==
    Only("STRUCT_NAME", IF \A n \in DOMAIN name : IsChar6(name[n]) THEN "STRUCT_NAME" ELSE "",
         name)
\* The name goes before the struct; only one without a body is opaque.
StructType(t, abbrev) ==
    LET ops == <<Bit(t.packed)>> \o AllTypes(t.elements)
    IN IF t.literal THEN Only("STRUCT_ANON", "STRUCT_ANON", ops)
       ELSE If(t.name # <<>>, TypeName(t.name))
            \o (IF t.opaque THEN Only("OPAQUE", "", ops)
                ELSE Only("STRUCT_NAMED", abbrev, ops))
ArrayType(t) == Only("ARRAY", "ARRAY", <<t.count, TypeID[t.element]>>)
VectorType(t) == Only("VECTOR", "", <<t.count, TypeID[t.element]>>)

\* A pointer of no known type points to an empty struct.
Type(t) ==
    CASE t.kind \in PlainTypes -> Only(t.kind, "", <<>>)
      [] t.kind = "INTEGER" -> Only("INTEGER", "", <<t.width>>)
      [] t.kind = "OPAQUE_POINTER" -> Pointer("{}", t.space)
      [] t.kind = "POINTER" -> Pointer(t.element, t.space)
      [] t.kind = "FUNCTION" -> FunctionType(t)
      [] t.kind = "STRUCT" -> StructType(t, "")
      [] t.kind = "ARRAY" -> ArrayType(t)
      [] t.kind = "VECTOR" /\ ~t.scalable -> VectorType(t)
      [] OTHER -> Rejected    \* scalable vectors, BFLOAT, X86_AMX, BYTE, TARGET_TYPE

-----------------------------------------------------------------------------
(* writeComdats, writeModuleInfo *)

EncodedLinkage ==
    [external |-> 0, weak_any |-> 16, appending |-> 2, internal |-> 3,
     linkonce_any |-> 18, extern_weak |-> 7, common |-> 8, private |-> 9,
     weak_odr |-> 17, linkonce_odr |-> 19, available_externally |-> 12]
EncodedVisibility == [default |-> 0, hidden |-> 1, protected |-> 2]
EncodedDLLStorageClass == [default |-> 0, import |-> 1, export |-> 2]
EncodedThreadLocalMode ==
    [none |-> 0, general_dynamic |-> 1, local_dynamic |-> 2, initial_exec |-> 3,
     local_exec |-> 4]
EncodedUnnamedAddr == [none |-> 0, local_unnamed |-> 2, unnamed |-> 1]
EncodedComdatSelectionKind ==
    [any |-> 1, exact_match |-> 2, largest |-> 3, no_deduplicate |-> 4, same_size |-> 5]

\* The string table: each name once, in the order of their first use; Texts are
\* those a global adds.
Once(names) == FoldLeft(LAMBDA s, n : IF n \in Range(s) THEN s ELSE Append(s, n), <<>>, names)
Strtab(m, Texts(_)) ==
    Once([n \in DOMAIN m.comdats |-> m.comdats[n].name]
         \o Each(m.globals \o m.functions \o m.aliases \o m.ifuncs, Texts))
AddToStrtab(m, name) ==
    LET place == CHOOSE n \in DOMAIN m.strtab : m.strtab[n] = name
    IN <<FoldLeft(LAMBDA size, n : size + TextSize[n], 0, SubSeq(m.strtab, 1, place - 1)),
         TextSize[name]>>

Comdats(m) ==
    Each(m.comdats, LAMBDA c : Only("COMDAT", "", Append(AddToStrtab(m, c.name),
                                                         EncodedComdatSelectionKind[c.kind])))

\* Sections and collectors are numbered from one as they are met.
NamesOf(m) ==
    LET Text(code, name) == If(name # "", <<<<code, name>>>>)
    IN Once(Each(m.globals, LAMBDA g : Text("SECTIONNAME", g.section))
            \o Each(m.functions, LAMBDA f : Text("SECTIONNAME", f.section)
                                            \o Text("GCNAME", f.gc)))
NamesFor(code, m) == SelectSeq(NamesOf(m), LAMBDA n : n[1] = code)
Number(code, name, m) ==
    IF name = "" THEN 0
    ELSE CHOOSE n \in DOMAIN NamesFor(code, m) : NamesFor(code, m)[n][2] = name
TextRecord(code, text) == If(text # <<>>, Only(code, "", text))
Header(m) ==
    TextRecord("TRIPLE", m.triple) \o TextRecord("DATALAYOUT", m.layout)
    \o If(m.asm # <<>>, Only("ASM", "", FlattenSeq(m.asm)))
    \o Each(NamesOf(m), LAMBDA n : Only(n[1], "", <<n[2]>>))

\* The abbreviation of globals has the width of the largest number of each kind.
WrittenType(g) == IF g.mapped # "none" THEN g.mapped ELSE g.type
AlignmentsOf(gs) == {gs[n].align + 1 : n \in DOMAIN gs}
GlobalAbbreviation(m, types, alignments) ==
    LET largest == Max(alignments \cup {0})
        sections == Len(NamesFor("SECTIONNAME", m))
    IN W50!Abbreviation("GLOBALVAR",
         <<W50!VBR(8), W50!VBR(8), W50!Fixed(Log2Ceil(Max(types \cup {0}) + 1)),
           W50!VBR(6), W50!VBR(6), W50!Fixed(5),
           IF largest = 0 THEN <<"literal", 0>> ELSE W50!Fixed(Log2Ceil(largest + 1)),
           IF sections = 0 THEN <<"literal", 0>> ELSE W50!Fixed(Log2Ceil(sections + 1))>>)
\* A file name gets the narrowest characters that hold it.
FileNameAbbreviation(m) ==
    W50!Abbreviation("SOURCE_FILENAME",
      <<W50!Array(CASE \A n \in DOMAIN m.source : IsChar6(m.source[n]) -> <<"char6", 6>>
                    [] \A n \in DOMAIN m.source : m.source[n] < 128 -> W50!Fixed(7)
                    [] OTHER -> W50!Fixed(8))>>)
ModuleAbbreviations(m) ==
    [GLOBALVAR |->
       GlobalAbbreviation(m, {TypeID[WrittenType(m.globals[n])] : n \in DOMAIN m.globals},
                          AlignmentsOf(m.globals) \cup AlignmentsOf(m.functions)),
     SOURCE_FILENAME |-> FileNameAbbreviation(m),
     VSTOFFSET |-> W50!Abbreviation("VSTOFFSET", <<W50!Fixed(32)>>)]

\* What most globals do not have is left out together.
Plain(g) ==
    /\ g.tls = "none" /\ g.visibility = "default" /\ g.unnamed = "none"
    /\ ~g.extinit /\ g.dll = "default" /\ g.comdat = 0 /\ g.attrs = 0
Variable(g, m, type, plain, more) ==
    LET first == AddToStrtab(m, g.name)
                 \o <<TypeID[type], 4 * g.space + 2 + Bit(g.constant), g.init + 1,
                      EncodedLinkage[g.linkage], g.align + 1,
                      Number("SECTIONNAME", g.section, m)>>
    IN IF plain THEN Only("GLOBALVAR", "GLOBALVAR", first)
       ELSE Only("GLOBALVAR", "",
                 first \o <<EncodedVisibility[g.visibility], EncodedThreadLocalMode[g.tls],
                            EncodedUnnamedAddr[g.unnamed], Bit(g.extinit),
                            EncodedDLLStorageClass[g.dll], g.comdat, g.attrs>> \o more)
Prototype(f, m, type, more) ==
    Only("FUNCTION", "",
         AddToStrtab(m, f.name)
         \o <<TypeID[type], f.cc, Bit(f.declaration), EncodedLinkage[f.linkage], f.attrs,
              f.align + 1, Number("SECTIONNAME", f.section, m),
              EncodedVisibility[f.visibility], Number("GCNAME", f.gc, m),
              EncodedUnnamedAddr[f.unnamed], f.prologue + 1, EncodedDLLStorageClass[f.dll],
              f.comdat, f.prefix + 1, f.personality + 1>> \o more)
Alias(a, m, type, more) ==
    Only("ALIAS", "",
         AddToStrtab(m, a.name)
         \o <<TypeID[type], a.space, a.aliasee, EncodedLinkage[a.linkage],
              EncodedVisibility[a.visibility], EncodedDLLStorageClass[a.dll],
              EncodedThreadLocalMode[a.tls], EncodedUnnamedAddr[a.unnamed]>> \o more)
IFunc(i, m, more) ==
    Only("IFUNC", "",
         AddToStrtab(m, i.name)
         \o <<TypeID[i.type], i.space, i.resolver, EncodedLinkage[i.linkage],
              EncodedVisibility[i.visibility]>> \o more)

SourceFileName(m) == Only("SOURCE_FILENAME", "SOURCE_FILENAME", m.source)
\* The word the offset of the symbol table is written to later.
ForwardDeclaration == Only("VSTOFFSET", "VSTOFFSET", <<0>>)

StringTable(m) == Strtab(m, LAMBDA g : <<g.name>>)
ModuleInfo(module) ==
    LET m == module @@ [strtab |-> StringTable(module)]
    IN Comdats(m) \o Header(m) \o SourceFileName(m)
       \o Each(m.globals, LAMBDA g : Variable(g, m, WrittenType(g), Plain(g), <<>>))
       \o Each(m.functions, LAMBDA f : Prototype(f, m, WrittenType(f), <<>>))
       \o Each(m.aliases, LAMBDA a : Alias(a, m, WrittenType(a), <<>>))
       \o Each(m.ifuncs, LAMBDA i : IFunc(i, m, <<>>))
       \o ForwardDeclaration

-----------------------------------------------------------------------------
(* The attributes: encodeAttribute50 gives the entries of an attribute, which *)
(* may be none *)

NoCapture == 11
ReadNone == 20
ReadOnly == 21
UWTable == 33
ArgMemOnly == 45
InaccessibleMemOnly == 49
InaccessibleMemOrArgMemOnly == 50
WriteOnly == 52

\* What modern LLVM has no kind for any more has no number here either.
AttrKindEncoding == (1 .. 53) \ {NoCapture, UWTable, ArgMemOnly, InaccessibleMemOnly,
                                 InaccessibleMemOrArgMemOnly}
TypedInName == {3, 29, 38}    \* byval, sret, inalloca

\* The effects on memory, by place, as the kinds there were: bit 0 is reading.
Accessed(effects) == {place \in DOMAIN effects : effects[place] # 0}
Effects(effects) ==
    LET reads == \A place \in DOMAIN effects : effects[place] \in {0, 1}
        writes == \A place \in DOMAIN effects : effects[place] \in {0, 2}
    IN IF Accessed(effects) = {} THEN <<<<0, ReadNone>>>>
       ELSE (IF reads THEN <<<<0, ReadOnly>>>> ELSE If(writes, <<<<0, WriteOnly>>>>))
            \o CASE Accessed(effects) \subseteq {"arg"} -> <<<<0, ArgMemOnly>>>>
                 [] Accessed(effects) \subseteq {"inaccessible"} ->
                      <<<<0, InaccessibleMemOnly>>>>
                 [] Accessed(effects) \subseteq {"arg", "inaccessible"} ->
                      <<<<0, InaccessibleMemOrArgMemOnly>>>>
                 [] OTHER -> <<>>
\* A hint weaker than capturing nothing is dropped.
Captures(a) == If(a.nothing, <<<<0, NoCapture>>>>)
\* A kind and a value if there is one, of the kinds the release knows.
Plainly(a, kinds) ==
    If(a.kind \in kinds,
       <<IF a.form = "enum" THEN <<0, a.kind>> ELSE <<1, a.kind, a.value>>>>)
Text(a) ==
    <<IF a.text = <<>> THEN <<3>> \o a.name \o <<0>>
      ELSE <<4>> \o a.name \o <<0>> \o a.text \o <<0>>>>

EncodedAttribute(a) ==
    CASE a.form = "memory" -> Effects(a.effects)
      [] a.form = "captures" -> Captures(a)
      [] a.kind = UWTable -> <<<<0, UWTable>>>>
      [] a.form \in {"enum", "int"} -> Plainly(a, AttrKindEncoding)
      [] a.form = "string" -> Text(a)
      [] a.form = "type" -> If(a.kind \in TypedInName, <<<<0, a.kind>>>>)
      [] OTHER -> <<>>    \* ranges

\* ValueEnumerator50::EnumerateAttributes: a list that is not empty gets a
\* number, and each of its sets, with its index, a group; a set that would
\* leave its record empty is kept apart.
InvalidGroup == Width \div 2 - 1
\* Mutant: a set of which nothing can be said is a group like any other.
GroupedAlways(groups, index, set, entries) ==
    LET group == [index |-> index, set |-> set]
    IN IF group \in Range(groups) THEN groups ELSE Append(groups, group)
Grouped(groups, index, set, entries) ==
    LET group == [index |-> IF entries = <<>> THEN InvalidGroup ELSE index, set |-> set]
    IN IF group \in Range(groups) THEN groups ELSE Append(groups, group)
EnumerateAttributes(table, list, Encoded(_)) ==
    IF list = <<>> THEN table
    ELSE [lists |-> IF list \in Range(table.lists) THEN table.lists
                    ELSE Append(table.lists, list),
          groups |-> FoldLeft(LAMBDA gs, p : Grouped(gs, p[1], p[2], Each(p[2], Encoded)),
                              table.groups, list)]
Enumerated(table, list) == EnumerateAttributes(table, list, EncodedAttribute)

\* One record for each group: its number, the index, the entries.  A group
\* nothing can be said of has a number but no record.
GroupTable(groups, Encoded(_)) ==
    Each([n \in DOMAIN groups |-> n],
         LAMBDA n : If(groups[n].index # InvalidGroup,
                       Only("GRP_ENTRY", "", <<n, groups[n].index>>
                                             \o FlattenSeq(Each(groups[n].set, Encoded)))))

\* One record for each list: the numbers of its groups.
GroupNumber(index, set, groups) ==
    LET there == {n \in DOMAIN groups : groups[n] = [index |-> index, set |-> set]}
    IN IF there = {} THEN <<>> ELSE <<CHOOSE n \in there : TRUE>>
AttributeTable(table) ==
    Each(table.lists, LAMBDA list :
           Only("LIST_ENTRY", "", Each(list, LAMBDA p : GroupNumber(p[1], p[2], table.groups))))
AttributeGroupTable(groups) == GroupTable(groups, EncodedAttribute)
AttributeTables(table) ==
    AttributeGroupTable(table.groups) \o AttributeTable(table)
=============================================================================
