------------------------------ MODULE Tables70 ------------------------------
(***************************************************************************)
(* src/BitcodeWriter70.cpp, before the functions: what differs from        *)
(* Tables50, and by name what does not.                                    *)
(***************************************************************************)
EXTENDS Records
T50 == INSTANCE Tables50

TypeAbbreviations == T50!TypeAbbreviations
Type(t) == T50!Type(t)
Comdats(m) == T50!Comdats(m)
Header(m) == T50!Header(m)
SourceFileName(m) == T50!SourceFileName(m)

\* Functions have no say in the alignments.
ModuleAbbreviations(m) ==
    [T50!ModuleAbbreviations(m) EXCEPT !.GLOBALVAR =
       T50!GlobalAbbreviation(m,
         {TypeID[T50!WrittenType(m.globals[n])] : n \in DOMAIN m.globals},
         T50!AlignmentsOf(m.globals))]

\* Whether a symbol is of this module comes last.
Local(g) == <<Bit(g.dsoLocal)>>
StringTable(m) == T50!StringTable(m)
ModuleInfo(module) ==
    LET m == module @@ [strtab |-> StringTable(module)]
    IN Comdats(m) \o Header(m) \o SourceFileName(m)
       \o Each(m.globals, LAMBDA g : T50!Variable(g, m, T50!WrittenType(g),
                                                  T50!Plain(g) /\ ~g.dsoLocal, Local(g)))
       \o Each(m.functions, LAMBDA f : T50!Prototype(f, m, T50!WrittenType(f), Local(f)))
       \o Each(m.aliases, LAMBDA a : T50!Alias(a, m, T50!WrittenType(a), Local(a)))
       \o Each(m.ifuncs, LAMBDA i : T50!IFunc(i, m, Local(i)))
       \o T50!ForwardDeclaration

AttrKindEncoding == (1 .. 58) \ ((1 .. 53) \ T50!AttrKindEncoding)
EncodedAttribute(a) ==
    IF a.form \in {"enum", "int"} /\ a.kind # T50!UWTable
    THEN T50!Plainly(a, AttrKindEncoding) ELSE T50!EncodedAttribute(a)
Enumerated(table, list) == T50!EnumerateAttributes(table, list, EncodedAttribute)
AttributeGroupTable(groups) == T50!GroupTable(groups, EncodedAttribute)
AttributeTable(table) == T50!AttributeTable(table)
AttributeTables(table) == AttributeGroupTable(table.groups) \o AttributeTable(table)
=============================================================================
