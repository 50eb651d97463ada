------------------------------ MODULE Tables200 ------------------------------
(***************************************************************************)
(* src/BitcodeWriter200.cpp, before the functions: what differs from       *)
(* Tables180, and by name what does not.                                   *)
(***************************************************************************)
EXTENDS Records
W50 == INSTANCE Writer50
T50 == INSTANCE Tables50
T140 == INSTANCE Tables140
T180 == INSTANCE Tables180

TypeAbbreviations == T180!TypeAbbreviations
Type(t) == T180!Type(t)
Comdats(m) == T50!Comdats(m)
Header(m) == T50!Header(m)
ModuleAbbreviations(m) == T180!ModuleAbbreviations(m)
StringTable(m) == T180!StringTable(m)
ModuleInfo(m) == T180!ModuleInfo(m)

AttrKindEncoding == (1 .. 102) \ {11, 45, 49, 50}
Bounds(ranges) == Each(ranges, LAMBDA r : W50!EmitSigned(r[1]) \o W50!EmitSigned(r[2]))
RangeOf(a) == <<<<7, a.kind, a.width>> \o Bounds(<<a.range>>)>>
RangeList(a) == <<<<8, a.kind, Len(a.ranges), a.width>> \o Bounds(a.ranges)>>
\* What captures more than nothing is a number of its own.
EncodedAttribute(a) ==
    CASE a.form = "captures" ->
           IF a.nothing THEN T50!Captures(a) ELSE <<<<1, a.kind, a.value>>>>
      [] a.form \in {"enum", "int"} -> T50!Plainly(a, AttrKindEncoding)
      [] a.form = "type" -> T140!Typed(a, AttrKindEncoding)
      [] a.form = "range" -> RangeOf(a)
      [] a.form = "ranges" -> RangeList(a)
      [] OTHER -> T180!EncodedAttribute(a)
Enumerated(table, list) == T50!EnumerateAttributes(table, list, EncodedAttribute)
AttributeGroupTable(groups) == T50!GroupTable(groups, EncodedAttribute)
AttributeTable(table) == T50!AttributeTable(table)
AttributeTables(table) == AttributeGroupTable(table.groups) \o AttributeTable(table)
=============================================================================
