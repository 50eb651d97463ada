---------------------------- MODULE TableReader ----------------------------
(***************************************************************************)
(* The bitcode reader of LLVM 5, 7, 14, 18 and 20 for what comes before    *)
(* the functions: types, globals and attributes.  Like RecordReader it is  *)
(* not part of the program.                                                *)
(***************************************************************************)
EXTENDS RecordReader

TypesOf(ns) == [n \in DOMAIN ns |-> TypeNamed(ns[n])]

-----------------------------------------------------------------------------
(* Types.  A name waits for the type it belongs to. *)

PlainKinds(release) ==
    {"VOID", "HALF", "FLOAT", "DOUBLE", "X86_FP80", "FP128", "PPC_FP128", "LABEL",
     "METADATA", "TOKEN"} \cup IF release >= 140 THEN {"BFLOAT", "X86_AMX"} ELSE {}
StructRead(ops, literal, opaque, name) ==
    [kind |-> "STRUCT", packed |-> ~opaque /\ ops[1] = 1,
     elements |-> IF opaque THEN <<>> ELSE TypesOf(From(ops, 2)),
     literal |-> literal, opaque |-> opaque, name |-> name]
TypeRead(release, code, ops, name) ==
    CASE code \in PlainKinds(release) /\ ops = <<>> -> [kind |-> code]
      [] code = "INTEGER" /\ Len(ops) = 1 -> [kind |-> code, width |-> ops[1]]
      [] code = "POINTER" /\ Len(ops) = 2 /\ release < 180 ->
           [kind |-> code, element |-> TypeNamed(ops[1]), space |-> ops[2]]
      [] code = "OPAQUE_POINTER" /\ Len(ops) = 1 /\ release >= 140 ->
           [kind |-> code, space |-> ops[1]]
      [] code = "FUNCTION" /\ Len(ops) >= 2 ->
           [kind |-> code, vararg |-> ops[1] = 1, result |-> TypeNamed(ops[2]),
            params |-> TypesOf(From(ops, 3))]
      [] code = "STRUCT_ANON" /\ Len(ops) >= 1 -> StructRead(ops, TRUE, FALSE, <<>>)
      [] code = "STRUCT_NAMED" /\ Len(ops) >= 1 -> StructRead(ops, FALSE, FALSE, name)
      [] code = "OPAQUE" /\ Len(ops) = 1 -> StructRead(ops, FALSE, TRUE, name)
      [] code = "ARRAY" /\ Len(ops) = 2 ->
           [kind |-> code, count |-> ops[1], element |-> TypeNamed(ops[2])]
      [] code = "VECTOR" /\ Len(ops) >= 2 ->
           [kind |-> code, count |-> ops[1], element |-> TypeNamed(ops[2]),
            scalable |-> release >= 140 /\ Len(ops) > 2 /\ ops[3] = 1]
      [] code = "TARGET_TYPE" /\ Len(ops) >= 1 /\ Len(ops) > ops[1] /\ release >= 180 ->
           [kind |-> code, name |-> name, types |-> TypesOf(SubSeq(ops, 2, ops[1] + 1)),
            ints |-> From(ops, ops[1] + 2)]
      [] OTHER -> [kind |-> "malformed"]
TakesName == {"STRUCT_NAMED", "OPAQUE", "TARGET_TYPE"}
\* The types the records add, and the name that is left waiting.
ReadTypes(release, rs, pending) ==
    FoldLeft(LAMBDA got, r :
               IF r.code = "STRUCT_NAME" THEN [got EXCEPT !.pending = r.ops]
               ELSE [types |-> Append(got.types, TypeRead(release, r.code, r.ops, got.pending)),
                     pending |-> IF r.code \in TakesName THEN <<>> ELSE got.pending],
             [types |-> <<>>, pending |-> pending], rs)

\* A pointer of no known type reads as one to an empty struct up to LLVM 14.
TypeIn(release, t) ==
    CASE t.kind = "OPAQUE_POINTER" /\ release <= 140 ->
           [kind |-> "POINTER", element |-> "{}", space |-> t.space]
      [] t.kind = "STRUCT" /\ (t.opaque \/ t.literal) ->
           [t EXCEPT !.packed = @ /\ ~t.opaque, !.name = IF t.literal THEN <<>> ELSE @]
      [] OTHER -> t
\* Typed pointers are a rewritten module's, which is for releases up to 14.
TypeOccurs(release, t) == t.kind = "POINTER" => release <= 140
UnsupportedType(release, t) ==
    \/ t.kind = "BYTE"
    \/ release < 180 /\ t.kind = "TARGET_TYPE"
    \/ release < 140 /\ \/ t.kind \in {"BFLOAT", "X86_AMX"}
                        \/ t.kind = "VECTOR" /\ t.scalable

-----------------------------------------------------------------------------
(* Globals *)

LinkageNames ==
    <<"external", "none", "appending", "internal", "none", "none", "none", "extern_weak",
      "common", "private", "none", "none", "available_externally", "none", "none", "none",
      "weak_any", "weak_odr", "linkonce_any", "linkonce_odr">>
VisibilityNames == <<"default", "hidden", "protected">>
StorageNames == <<"default", "import", "export">>
ThreadLocalNames ==
    <<"none", "general_dynamic", "local_dynamic", "initial_exec", "local_exec">>
UnnamedNames == <<"none", "unnamed", "local_unnamed">>
ComdatNames == <<"none", "any", "exact_match", "largest", "no_deduplicate", "same_size">>

NameOr(role, table) == <<"name", role, table, <<table[1]>>>>
Text == <<Field("number", "offset"), Field("number", "size")>>
LocalField(release) == If(release >= 70, <<Optional("bool", "dsoLocal", FALSE)>>)
PartitionField(release) ==
    If(release >= 140, <<Optional("number", "partitionOffset", 0),
                         Optional("number", "partitionSize", 0)>>)
Linkage == <<Named("linkage", LinkageNames)>>
Visibility == <<NameOr("visibility", VisibilityNames)>>
Unnamed == <<NameOr("unnamed", UnnamedNames)>>
StorageClass == <<NameOr("dll", StorageNames)>>
ThreadLocal == <<NameOr("tls", ThreadLocalNames)>>
ModuleGrammar(release, code) ==
    CASE code = "COMDAT" -> Text \o <<Named("kind", ComdatNames)>>
      [] code = "GLOBALVAR" ->
           Text \o <<Field("type", "type"), Flag("constant", 0), Flag("explicit", 1),
                     Field("number", "space"), Field("number", "init")>>
           \o Linkage \o <<Field("align", "align"), Field("number", "section")>>
           \o Visibility \o ThreadLocal \o Unnamed
           \o <<Optional("bool", "extinit", FALSE)>> \o StorageClass
           \o <<Optional("number", "comdat", 0), Optional("number", "attrs", 0)>>
           \o LocalField(release) \o PartitionField(release)
           \o If(release >= 180, <<Optional("number", "sanitizer", 0),
                                   Optional("number", "codeModel", 0)>>)
      [] code = "FUNCTION" ->
           Text \o <<Field("type", "type"), Field("number", "cc"),
                     Field("bool", "declaration")>>
           \o Linkage \o <<Field("number", "attrs"), Field("align", "align"),
                           Field("number", "section")>>
           \o Visibility \o <<Field("number", "gc")>> \o Unnamed
           \o <<Field("number", "prologue")>> \o StorageClass
           \o <<Field("number", "comdat"), Field("number", "prefix"),
                Field("number", "personality")>>
           \o LocalField(release)
           \o If(release >= 140, <<Field("number", "space")>>) \o PartitionField(release)
      [] code = "ALIAS" ->
           Text \o <<Field("type", "type"), Field("number", "space"),
                     Field("number", "aliasee")>>
           \o Linkage \o Visibility \o StorageClass \o ThreadLocal \o Unnamed
           \o LocalField(release) \o PartitionField(release)
      [] code = "IFUNC" ->
           Text \o <<Field("type", "type"), Field("number", "space"),
                     Field("number", "resolver")>>
           \o Linkage \o Visibility \o LocalField(release) \o PartitionField(release)

\* Sections and collectors by their number, names by their place in the table.
TextAt(strtab, offset, size) ==
    LET Before(n) == FoldLeft(LAMBDA sum, t : sum + TextSize[t], 0, SubSeq(strtab, 1, n - 1))
        there == {n \in DOMAIN strtab : Before(n) = offset /\ TextSize[strtab[n]] = size}
    IN IF size = 0 THEN "" ELSE IF there = {} THEN "nowhere" ELSE strtab[CHOOSE n \in there : TRUE]
RecordsOf(rs, code) == SelectSeq(rs, LAMBDA r : r.code = code)
Numbered(rs, code, n) ==
    IF n = 0 THEN "" ELSE IF n \in DOMAIN RecordsOf(rs, code) THEN RecordsOf(rs, code)[n].ops[1]
    ELSE "nowhere"
SanitizerNames == (0 :> "no_address") @@ (1 :> "no_hwaddress") @@ (2 :> "memtag") @@ (3 :> "dyninit")
\* Numbers that are one more than what they stand for, or nothing.
Counted1 == {"init", "prologue", "prefix", "personality"}
Resolve(g, rs, strtab) ==
    LET Meant(role) ==
            CASE role = "section" -> Numbered(rs, "SECTIONNAME", g[role])
              [] role = "gc" -> Numbered(rs, "GCNAME", g[role])
              [] role = "sanitizer" -> FlagsOf(SanitizerNames, g[role])
              [] role = "space" /\ "constant" \in DOMAIN g -> g[role] \div 4
              [] role \in Counted1 -> g[role] - 1
              [] OTHER -> g[role]
        partition == IF "partitionOffset" \in DOMAIN g
                     THEN [partition |-> TextAt(strtab, g.partitionOffset, g.partitionSize)]
                     ELSE <<>>
    IN [role \in DOMAIN g \ {"offset", "size", "partitionOffset", "partitionSize", "explicit"}
          |-> Meant(role)]
       @@ [name |-> TextAt(strtab, g.offset, g.size)] @@ partition
Resolved(got, rs, strtab) ==
    IF got.ok /\ ("explicit" \in DOMAIN got.item => got.item.explicit)
    THEN Resolve(got.item, rs, strtab) ELSE [name |-> "malformed"]
ReadGlobal(release, record, rs, strtab) ==
    Resolved(ReadRecord(release, <<>>, ModuleGrammar(release, record.code), record.ops, 0),
             rs, strtab)
\* The record of a string that may be missing.
StringRecord(rs, code) ==
    LET there == RecordsOf(rs, code) IN IF there = <<>> THEN <<>> ELSE there[1].ops
ReadModule(release, rs, strtab) ==
    LET Globals(code) == [n \in DOMAIN RecordsOf(rs, code) |->
                            ReadGlobal(release, RecordsOf(rs, code)[n], rs, strtab)]
    IN [triple |-> StringRecord(rs, "TRIPLE"), layout |-> StringRecord(rs, "DATALAYOUT"),
        asm |-> StringRecord(rs, "ASM"), source |-> StringRecord(rs, "SOURCE_FILENAME"),
        comdats |-> Globals("COMDAT"), globals |-> Globals("GLOBALVAR"),
        functions |-> Globals("FUNCTION"), aliases |-> Globals("ALIAS"),
        ifuncs |-> Globals("IFUNC")]

\* What a release has of a global: partitions and functions' address spaces from
\* LLVM 14 on, sanitizers and code models from 18 on, and PointerMap's types.
Unknown(release) ==
    {"mapped"} \cup (IF release < 70 THEN {"dsoLocal"} ELSE {})
    \cup (IF release < 140 THEN {"partition"} ELSE {})
    \cup (IF release < 180 THEN {"sanitizer", "codeModel"} ELSE {})
GlobalIn(release, g) ==
    Without(IF release <= 140 /\ g.mapped # "none" THEN [g EXCEPT !.type = g.mapped] ELSE g,
            Unknown(release))
FunctionIn(release, f) ==
    Without(GlobalIn(release, f), IF release < 140 THEN {"space"} ELSE {})
ModuleIn(release, m) ==
    LET All(gs) == [n \in DOMAIN gs |-> GlobalIn(release, gs[n])]
    IN [m EXCEPT !.asm = FlattenSeq(@), !.globals = All(@), !.aliases = All(@),
                 !.ifuncs = All(@),
                 !.functions = [n \in DOMAIN @ |-> FunctionIn(release, @[n])]]

-----------------------------------------------------------------------------
(* Attributes *)

HighestKind(release) ==
    CASE release = 50 -> 53 [] release = 70 -> 58 [] release = 140 -> 78
      [] release = 180 -> 91 [] release = 200 -> 102
IntKinds(release) ==
    {1, 25, 41, 42, 51} \cup (IF release >= 140 THEN {74} ELSE {})
    \cup (IF release >= 180 THEN {33, 82, 86, 87} ELSE {})
    \cup (IF release >= 200 THEN {102} ELSE {})
TypeKinds(release) == IF release >= 140 THEN {3, 29, 38, 65, 69, 77} ELSE {}
RangeKinds(release) == IF release >= 200 THEN {92, 94} ELSE {}
EnumKinds(release) ==
    (1 .. HighestKind(release)) \ (IntKinds(release) \cup TypeKinds(release)
                                   \cup RangeKinds(release))

\* A text up to its end, and what comes after it.
EndOf(ops) == CHOOSE n \in DOMAIN ops : ops[n] = 0 /\ \A k \in 1 .. n - 1 : ops[k] # 0
Before(ops) == SubSeq(ops, 1, EndOf(ops) - 1)
After(ops) == From(ops, EndOf(ops) + 1)
\* A pair of bounds after another.
BoundsOf(ops) ==
    [n \in 1 .. Len(ops) \div 2 |-> <<SignedOf(ops[2 * n - 1]), SignedOf(ops[2 * n])>>]
\* The first attribute of a group and what is left of the record.
Took(attribute, rest) == [attribute |-> attribute, rest |-> rest]
FirstAttribute(release, ops) ==
    LET kind == ops[2]
    IN CASE ops[1] = 0 /\ kind \in EnumKinds(release) -> Took(<<"enum", kind>>, From(ops, 3))
         [] ops[1] = 1 /\ kind \in IntKinds(release) ->
              Took(<<"int", kind, ops[3]>>, From(ops, 4))
         [] ops[1] = 3 -> Took(<<"string", Before(Tail(ops)), <<>>>>, After(Tail(ops)))
         [] ops[1] = 4 -> Took(<<"string", Before(Tail(ops)), Before(After(Tail(ops)))>>,
                               After(After(Tail(ops))))
         [] ops[1] = 6 /\ kind \in TypeKinds(release) ->
              Took(<<"type", kind, TypeNamed(ops[3])>>, From(ops, 4))
         [] ops[1] = 7 /\ kind \in RangeKinds(release) ->
              Took(<<"ranges", kind, ops[3], BoundsOf(SubSeq(ops, 4, 5))>>, From(ops, 6))
         [] ops[1] = 8 /\ kind \in RangeKinds(release) ->
              Took(<<"ranges", kind, ops[4], BoundsOf(SubSeq(ops, 5, 4 + 2 * ops[3]))>>,
                   From(ops, 5 + 2 * ops[3]))
         [] OTHER -> Took(<<"malformed">>, <<>>)
\* No attribute is shorter than two numbers.
AttributesOf(release, ops) ==
    LET Another(got, n) ==
            IF got.rest = <<>> THEN got
            ELSE LET one == FirstAttribute(release, got.rest)
                 IN [set |-> got.set \cup {one.attribute}, rest |-> one.rest]
    IN FoldLeft(Another, [set |-> {}, rest |-> ops], [n \in 1 .. Len(ops) \div 2 |-> n]).set

\* What the kinds there were up to LLVM 14 allow, each place together with those
\* that were one with it: bit 0 is reading, bit 1 writing.
Places == {"arg", "inaccessible", "other", "errno", "target0", "target1"}
FunctionIndex == Width - 1
LegacyKinds == {20, 21, 45, 49, 50, 52}
Allowed(kinds) ==
    LET access == CASE 20 \in kinds -> 0 [] 21 \in kinds -> 1 [] 52 \in kinds -> 2 [] OTHER -> 3
        places == CASE 45 \in kinds -> {"arg"} [] 49 \in kinds -> {"inaccessible"}
                    [] 50 \in kinds -> {"arg", "inaccessible"} [] OTHER -> Places
    IN [place \in Places |-> IF place \in places THEN access ELSE 0]
Everything == [place \in Places |-> 3]
Home(place) ==
    CASE place = "errno" -> "other" [] place \in {"target0", "target1"} -> "inaccessible"
      [] OTHER -> place
Folded(n) ==
    LET three == [arg |-> n % 4, inaccessible |-> (n \div 4) % 4, other |-> n \div 16]
    IN [place \in Places |-> three[Home(place)]]
\* Every description of the effects a release has.
Describable(release) ==
    IF release <= 140 THEN {Allowed(kinds) : kinds \in SUBSET LegacyKinds}
    ELSE {Folded(n) : n \in 0 .. 63}
Covers(larger, smaller) ==
    \A place \in Places : BitsOf(smaller[place]) \subseteq BitsOf(larger[place])
\* The least description that allows all there is.
Least(release, effects) ==
    CHOOSE d \in Describable(release) :
       /\ Covers(d, effects)
       /\ \A other \in Describable(release) : Covers(other, effects) => Covers(other, d)

\* A set of attributes of a function with its effects made out.
WithEffects(release, index, set) ==
    LET kinds == {a[2] : a \in {b \in set : b[1] = "enum" /\ b[2] \in LegacyKinds}}
        folded == {a \in set : a[1] = "int" /\ a[2] = 86}
        effects == CASE index # FunctionIndex -> Everything
                     [] release <= 140 -> Allowed(kinds)
                     [] folded # {} -> Folded((CHOOSE a \in folded : TRUE)[3])
                     [] OTHER -> Everything
        others == IF index # FunctionIndex THEN set
                  ELSE set \ (folded \cup IF release > 140 THEN {}
                                          ELSE {<<"enum", kind>> : kind \in kinds})
    IN {<<index, a>> : a \in others} \cup
       IF effects = Everything THEN {} ELSE {<<index, <<"memory", effects>>>>}

\* The groups by their number, and the lists: what each list says.
ReadAttributes(release, rs) ==
    LET groups == RecordsOf(rs, "GRP_ENTRY")
        Said(number) ==
            LET there == {n \in DOMAIN groups : groups[n].ops[1] = number}
            IN IF there = {} \/ \E n \in there : Len(groups[n].ops) < 3
               THEN {<<0, <<"malformed">>>>}
               ELSE LET group == groups[CHOOSE n \in there : TRUE]
                    IN WithEffects(release, group.ops[2],
                                   AttributesOf(release, From(group.ops, 3)))
        lists == RecordsOf(rs, "LIST_ENTRY")
    IN [n \in DOMAIN lists |-> UNION {Said(number) : number \in Range(lists[n].ops)}]

\* What a release has of an attribute.  What it does not know is dropped, and
\* what it knows by another name gets that name.
AttributeIn(release, a) ==
    CASE a.form = "captures" ->
           IF a.nothing THEN {<<"enum", 11>>}
           ELSE IF release >= 200 THEN {<<"int", 102, a.value>>} ELSE {}
      [] a.form = "memory" ->
           LET least == Least(release, a.effects)
           IN IF least = Everything THEN {} ELSE {<<"memory", least>>}
      [] a.form = "int" /\ a.kind = 33 /\ release <= 140 -> {<<"enum", 33>>}
      [] a.form = "string" -> {<<"string", a.name, a.text>>}
      [] a.form \in {"enum", "int"} ->
           IF a.kind > HighestKind(release) THEN {}
           ELSE IF a.form = "enum" THEN {<<"enum", a.kind>>} ELSE {<<"int", a.kind, a.value>>}
      [] a.form = "type" ->
           IF release < 140 THEN {<<"enum", k>> : k \in {a.kind} \cap {3, 29, 38}}
           ELSE IF a.kind \in TypeKinds(release) THEN {<<"type", a.kind, a.type>>} ELSE {}
      [] a.form \in {"range", "ranges"} ->
           IF release < 200 THEN {}
           ELSE {<<"ranges", a.kind, a.width, IF a.form = "range" THEN <<a.range>> ELSE a.ranges>>}
AttributesIn(release, list) ==
    UNION {UNION {{<<p[1], a>> : a \in AttributeIn(release, b)} : b \in Range(p[2])} :
           p \in Range(list)}
=============================================================================
