------------------------------ MODULE Tables180 ------------------------------
(***************************************************************************)
(* src/BitcodeWriter180.cpp, before the functions: what differs from       *)
(* Tables140, and by name what does not.  Pointers are opaque here.        *)
(***************************************************************************)
EXTENDS Records
T50 == INSTANCE Tables50
T70 == INSTANCE Tables70
T140 == INSTANCE Tables140

TypeAbbreviations == Without(T140!TypeAbbreviations, {"POINTER"})
\* The name of the type goes before it, as for a struct.
TargetType(t) ==
    T50!TypeName(t.name)
    \o Only("TARGET_TYPE", "", <<Len(t.types)>> \o T50!AllTypes(t.types) \o t.ints)
Type(t) ==
    CASE t.kind = "OPAQUE_POINTER" ->
           Only("OPAQUE_POINTER", IF t.space = 0 THEN "OPAQUE_POINTER" ELSE "", <<t.space>>)
      [] t.kind = "TARGET_TYPE" -> TargetType(t)
      [] OTHER -> T140!Type(t)

Comdats(m) == T50!Comdats(m)
Header(m) == T50!Header(m)
SourceFileName(m) == T50!SourceFileName(m)
ModuleAbbreviations(m) ==
    [T50!ModuleAbbreviations(m) EXCEPT !.GLOBALVAR =
       T50!GlobalAbbreviation(m, {TypeID[m.globals[n].type] : n \in DOMAIN m.globals},
         T50!AlignmentsOf(m.globals) \cup T50!AlignmentsOf(m.functions))]

SerializedSanitizerMetadata(g) ==
    FlagWord([no_address |-> 0, no_hwaddress |-> 1, memtag |-> 2, dyninit |-> 3], g.sanitizer)
Plain(g) == T140!Plain(g) /\ g.sanitizer = {} /\ g.codeModel = 0
StringTable(m) == T140!StringTable(m)
ModuleInfo(module) ==
    LET m == module @@ [strtab |-> StringTable(module)]
    IN Comdats(m) \o Header(m) \o SourceFileName(m)
       \o Each(m.globals, LAMBDA g :
                 T50!Variable(g, m, g.type, Plain(g),
                              T140!Partition(g, m)
                              \o <<SerializedSanitizerMetadata(g), g.codeModel>>))
       \o Each(m.functions, LAMBDA f : T140!Prototype(f, m, f.type))
       \o Each(m.aliases, LAMBDA a : T50!Alias(a, m, a.type, T140!Partition(a, m)))
       \o Each(m.ifuncs, LAMBDA i : T50!IFunc(i, m, T140!Partition(i, m)))
       \o T50!ForwardDeclaration

AttrKindEncoding == (1 .. 91) \ {11, 45, 49, 50}
Memory == 86
\* Two bits for each place; the places that are new belong to one that is old.
Union(x, y) == Word(BitsOf(x) \cup BitsOf(y))
LegacyMemoryEffects(effects) ==
    effects.arg
    + 4 * Union(effects.inaccessible, Union(effects.target0, effects.target1))
    + 16 * Union(effects.other, effects.errno)
EncodedAttribute(a) ==
    CASE a.form = "memory" -> <<<<1, Memory, LegacyMemoryEffects(a.effects)>>>>
      [] a.form \in {"enum", "int"} -> T50!Plainly(a, AttrKindEncoding)
      [] a.form = "type" -> T140!Typed(a, AttrKindEncoding)
      [] OTHER -> T50!EncodedAttribute(a)
Enumerated(table, list) == T50!EnumerateAttributes(table, list, EncodedAttribute)
AttributeGroupTable(groups) == T50!GroupTable(groups, EncodedAttribute)
AttributeTable(table) == T50!AttributeTable(table)
AttributeTables(table) == AttributeGroupTable(table.groups) \o AttributeTable(table)
=============================================================================
