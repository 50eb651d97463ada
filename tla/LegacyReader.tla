---------------------------- MODULE LegacyReader ----------------------------
(***************************************************************************)
(* The bitcode reader of the old release, which is not part of the         *)
(* program, and what the writer owes it.  The reader takes every number    *)
(* from the stream: it counts types, values and instructions as it meets   *)
(* them and looks up what is named by number when the block it is in ends. *)
(* The name of an item stands for the code of its record: from it, and     *)
(* from nothing else, it knows the layout.                                 *)
(*                                                                         *)
(* What it has read: the type table; names and kinds, the values it has    *)
(* numbered and their types; the entities it has met, with the numbers     *)
(* they refer to (open) and resolved (module, functions).                  *)
(***************************************************************************)
EXTENDS BitcodeWriter

VARIABLES
    reader,   \* what has been read
    next      \* the item it reads next
rvars == <<wvars, reader, next>>

NothingRead ==
    [numTypes |-> 0, types |-> <<>>, names |-> <<>>, kinds |-> <<>>, setType |-> 0,
     bodies |-> <<>>,       \* value numbers of the functions with a body
     base |-> 0,            \* how many values the module has
     blocks |-> <<>>,       \* the blocks it is in
     open |-> <<>>, expected |-> <<>>, module |-> <<>>, insts |-> <<>>,
     functions |-> <<>>, lastLoc |-> 0, tags |-> {}, ok |-> TRUE]

Entity(name, ids, ts) == [name |-> name, ids |-> ids, ts |-> ts, loc |-> 0]

\* A number of a record; a type, value or instruction by its number.
Nth(s, n) == IF n + 1 \in DOMAIN s THEN s[n + 1] ELSE "none"
Num(item, n) == IF n \in DOMAIN item.nums THEN item.nums[n] ELSE Width
TypeOf(r, n) == Nth(r.types, n)
Fail(r) == [r EXCEPT !.ok = FALSE]
Checked(r, b) == IF b THEN r ELSE Fail(r)

\* A new value and what it refers to.
Define(r, name, kind) ==
    [r EXCEPT !.names = Append(@, name), !.kinds = Append(@, kind)]
Meet(r, entity) == [r EXCEPT !.open = Append(@, entity)]
\* The value numbered n, once it is there, is to have type t.
Expect(r, n, t) == [r EXCEPT !.expected = Append(@, <<n, t>>)]

ReadType(r, item) ==
    IF \A n \in DOMAIN item.nums : Num(item, n) < Len(r.types)
    THEN Checked([r EXCEPT !.types = Append(@, item.name)],
                 Parts(item.name)
                   = [n \in DOMAIN item.nums |-> TypeOf(r, Num(item, n))])
    ELSE Fail(r)

\* A global is a pointer to its value type; an old one is a typed pointer.
PointerTo(t) ==
    IF unit.target > 140 THEN text.opaque
    ELSE CHOOSE p \in Members(unit.pointerTypes) : unit.subtypes[p] = <<t>>
ReadGlobal(r, item) ==
    LET t == TypeOf(r, Num(item, 1))
        d == Define(r, item.name, PointerTo(t))
        b == IF Num(item, 2) = 1
             THEN [d EXCEPT !.bodies = Append(@, Len(r.names))] ELSE d
    IN Meet(b, Entity(item.name, SubSeq(item.nums, 3, Len(item.nums)), <<t>>))

\* A constant has the type that was set; the elements of a structure must
\* have the types of its fields.
ReadConstant(r, item) ==
    LET t == r.setType
        fields == IF item.name \in unit.aggregates THEN Parts(t) ELSE <<>>
        d == Define(r, item.name, t)
    IN Meet([d EXCEPT !.expected =
               @ \o [n \in DOMAIN fields |-> <<Num(item, n), fields[n]>>]],
            Entity(item.name, item.nums, <<t>>))
ReadBlockAddress(r, item) ==
    Meet(Expect(Define(r, item.name, r.setType), Num(item, 2),
                TypeOf(r, Num(item, 1))),
         Entity(item.name, <<Num(item, 2)>>, <<r.setType>>))
ReadCast(r, item) ==
    Expect(Define(r, Nth(r.names, Num(item, 2)), r.setType),
           Num(item, 2), TypeOf(r, Num(item, 1)))

\* How the reader takes the fields of an instruction: which operand comes
\* next and whether as a value with its type, a value, a signed or an
\* absolute number; or a type.
Layout(op, n) ==
    LET each(kind, from, to) == [k \in 1..to - from + 1 |-> <<kind, from + k - 1>>]
    IN CASE op = "binop" -> <<<<"typed", 1>>, <<"plain", 2>>>>
         [] op \in {"cast", "load"} -> <<<<"typed", 1>>, <<"type", 0>>>>
         [] op = "store" -> <<<<"typed", 2>>, <<"typed", 1>>>>
         [] op = "select" -> <<<<"typed", 2>>, <<"plain", 3>>, <<"typed", 1>>>>
         [] op = "phi" -> <<<<"type", 0>>>> \o each("signed", 1, n)
         [] op = "call" ->
              <<<<"type", 0>>, <<"typed", n>>>> \o each("plain", 1, n - 1)
         [] op = "switch" ->
              <<<<"type", 0>>, <<"plain", 1>>>> \o each("absolute", 2, n)
         [] op = "alloca" -> <<<<"type", 0>>, <<"type", 0>>, <<"absolute", 1>>>>
         [] op = "gep" -> <<<<"type", 0>>>> \o each("typed", 1, n)
         [] OTHER -> each("typed", 1, n)

Instruction(v) ==
    CHOOSE i \in UNION {Members(unit.functions[n].code) : n \in DOMAIN unit.functions} :
        i.id = v

\* One field: at is the number it begins with, InstNum what the reader has
\* counted so far.  A value it does not have yet is followed by its type.
Unrotated(n) ==
    IF n % 2 = 0 THEN n \div 2 ELSE IF n = 1 THEN -Width ELSE -(n \div 2)
TakeField(r, item, f, acc) ==
    LET n == Num(item, acc.at)
        InstNum == Len(r.names)
        id == CASE f[1] \in {"typed", "plain"} -> (InstNum - n) % Width
                [] f[1] = "signed" -> InstNum - Unrotated(n)
                [] OTHER -> n
        forward == f[1] = "typed" /\ id >= InstNum
    IN IF f[1] = "type"
       THEN [acc EXCEPT !.at = @ + 1, !.ts = Append(@, TypeOf(r, n))]
       ELSE [acc EXCEPT !.at = IF forward THEN @ + 2 ELSE @ + 1,
                        !.ids[f[2]] = id,
                        !.expected = IF forward
                          THEN Append(@, <<id, TypeOf(r, Num(item, acc.at + 1))>>)
                          ELSE @]
ReadInstruction(r, item) ==
    LET i == Instruction(item.name)
        n == Len(i.ops) + Len(i.cases)
        acc == FoldLeft(LAMBDA a, f : TakeField(r, item, f, a),
                        [at |-> 1, ids |-> [k \in 1..n |-> 0], ts |-> <<>>,
                         expected |-> <<>>],
                        Layout(text.opcode[i.id], n))
        d == IF i.void THEN r ELSE Define(r, i.id, text.writtenAs[i.id])
    IN Meet([d EXCEPT !.expected = @ \o acc.expected,
                      !.insts = Append(@, i.id),
                      !.ok = @ /\ acc.at = Len(item.nums) + 1],
            Entity(i.id, acc.ids, acc.ts))

\* A location belongs to the instruction just read.
ReadLocation(r, loc) ==
    [r EXCEPT !.open[Len(r.open)].loc = loc, !.lastLoc = loc]

\* What was open is looked up, and what was expected of types is compared.
Resolve(r) ==
    [n \in DOMAIN r.open |->
       [name |-> r.open[n].name, ts |-> r.open[n].ts, loc |-> r.open[n].loc,
        ops |-> [k \in DOMAIN r.open[n].ids |->
                   Nth(r.names, r.open[n].ids[k])]]]
AsExpected(r) ==
    \A n \in DOMAIN r.expected :
        Nth(r.kinds, r.expected[n][1]) = r.expected[n][2]

EnterBlock(r, item) ==
    LET b == [r EXCEPT !.blocks = Append(@, item.name)]
    IN IF item.name = "FUNCTION"
       THEN LET f == unit.functions[Len(r.functions) + 1]
            IN [b EXCEPT
                  !.module = IF r.functions = <<>> THEN Resolve(r) ELSE @,
                  !.ok = @ /\ AsExpected(r),
                  !.open = <<>>, !.expected = <<>>, !.insts = <<>>,
                  !.base = Len(r.names), !.lastLoc = 0,
                  !.names = @ \o f.args,
                  !.kinds = @ \o [n \in DOMAIN f.args |-> text.writtenAs[f.args[n]]]]
       ELSE b
LeaveBlock(r) ==
    LET b == [r EXCEPT !.blocks = Front(@)]
    IN IF Last(r.blocks) = "FUNCTION"
       THEN [b EXCEPT !.functions = Append(@, Resolve(r)),
                      !.ok = @ /\ AsExpected(r),
                      !.open = <<>>, !.expected = <<>>,
                      !.names = SubSeq(@, 1, r.base),
                      !.kinds = SubSeq(@, 1, r.base)]
       ELSE b

\* A name, or metadata, for a value or an instruction found by its number.
Tagged(r, item) == [r EXCEPT !.tags = @ \cup {<<item.code, item.name>>}]

ReadItem(r, item) ==
    CASE item.code = "ENTER" -> EnterBlock(r, item)
      [] item.code = "EXIT" -> LeaveBlock(r)
      [] item.code = "NUMENTRY" -> [r EXCEPT !.numTypes = Num(item, 1)]
      [] item.code = "TYPE" -> ReadType(r, item)
      [] item.code = "GLOBAL" -> ReadGlobal(r, item)
      [] item.code = "SETTYPE" -> [r EXCEPT !.setType = TypeOf(r, Num(item, 1))]
      [] item.code = "CONSTANT" -> ReadConstant(r, item)
      [] item.code = "BLOCKADDRESS" -> ReadBlockAddress(r, item)
      [] item.code = "CAST" -> ReadCast(r, item)
      [] item.code = "INST" -> ReadInstruction(r, item)
      [] item.code = "DEBUG_LOC" -> ReadLocation(r, Num(item, 1))
      [] item.code = "DEBUG_LOC_AGAIN" -> ReadLocation(r, r.lastLoc)
      [] item.code = "ENTRY" ->
           Tagged(Checked(r, Nth(r.names, Num(item, 1)) = item.name), item)
      [] item.code = "ATTACHED" ->
           LET owner == IF item.nums = <<>>
                        THEN Nth(r.names, r.bodies[Len(r.functions) + 1])
                        ELSE Nth(r.insts, Num(item, 1))
           IN Tagged(Checked(r, owner = item.name), item)
      [] OTHER -> r
Read ==
    /\ stage = "written" /\ next <= Len(stream)
    /\ reader' = ReadItem(reader, stream[next])
    /\ next' = next + 1
    /\ UNCHANGED wvars

RInit == WInit /\ reader = NothingRead /\ next = 1
RNext == (WNext /\ UNCHANGED <<reader, next>>) \/ Read
RSpec == RInit /\ [][RNext]_rvars

-----------------------------------------------------------------------------
(* What is written can be read *)

\* The types an instruction's record names.
TypesNamed(i) ==
    CASE text.opcode[i.id] = "cast" -> <<text.writtenAs[i.id]>>
      [] text.opcode[i.id] \in {"load", "phi"} -> <<unit.typeOf[i.id]>>
      [] text.opcode[i.id] = "call" -> i.call
      [] text.opcode[i.id] = "switch" -> <<unit.typeOf[i.ops[1]]>>
      [] text.opcode[i.id] = "alloca" -> <<i.types[1], unit.typeOf[i.ops[1]]>>
      [] text.opcode[i.id] = "gep" -> i.types
      [] OTHER -> <<>>

GlobalIntact(e) ==
    e.ops = text.data[e.name] /\ e.ts = unit.globalTypes[e.name]
ConstantIntact(e) ==
    e.ops = unit.operands[e.name] /\ e.ts = <<text.writtenAs[e.name]>>
InstructionIntact(e, i) ==
    /\ e.name = i.id /\ e.ops = i.ops \o i.cases
    /\ e.ts = TypesNamed(i) /\ e.loc = text.locs[i.id]

\* The entities of the module: its globals in order, and constants.
ModuleIntact(es) ==
    /\ Len(es) >= Len(unit.globals)
    /\ \A n \in DOMAIN es :
         IF n <= Len(unit.globals)
         THEN es[n].name = unit.globals[n] /\ GlobalIntact(es[n])
         ELSE ConstantIntact(es[n])

\* Those of a function: constants, then its instructions in order.
FunctionIntact(es, f) ==
    LET d == Len(es) - Len(f.code)
    IN /\ d >= 0
       /\ \A n \in 1..d : ConstantIntact(es[n])
       /\ \A n \in DOMAIN f.code : InstructionIntact(es[d + n], f.code[n])

Instructing == UNION {Members(unit.functions[n].code) : n \in DOMAIN unit.functions}
Tags ==
    {<<"ENTRY", v>> : v \in Locals \ {i.id : i \in {j \in Instructing : j.void}}}
    \cup {<<"ATTACHED", v>> : v \in text.attached}

\* The old reader gets the module back: each operand of each constant and
\* instruction is the value it was, each type the type it was, forward
\* references come true with the type that was announced, and names, debug
\* locations and attachments are where they were.
ReadBack ==
    stage = "written" /\ next > Len(stream) =>
        LET r == reader
        IN /\ r.ok /\ r.numTypes = Len(r.types) /\ r.blocks = <<>> /\ AsExpected(r)
           /\ ModuleIntact(IF r.functions = <<>> THEN Resolve(r) ELSE r.module)
           /\ [n \in DOMAIN r.bodies |-> Nth(r.names, r.bodies[n])]
                = text.definitions
           /\ Len(r.functions) = Len(unit.functions)
           /\ \A n \in DOMAIN r.functions :
                FunctionIntact(r.functions[n], unit.functions[n])
           /\ r.tags = Tags

\* A reader that skips function bodies finds them by offset: from one word
\* before the identification block, which follows the magic number, wherever
\* that is in the file.
ItemAt(offset) ==
    {n \in DOMAIN stream : stream[n].at = stream[1].at + (offset - 1) * Word}
NumberOf(g) == (CHOOSE n \in DOMAIN unit.globals : unit.globals[n] = g) - 1
FoundByOffset ==
    stage = "written" =>
        /\ stream[1].at % Word = 0
        /\ \A n \in DOMAIN stream :
             stream[n].code = "VSTOFFSET" =>
               \E k \in ItemAt(stream[n].nums[1]) :
                  /\ stream[k].code = "ENTER" /\ stream[k].name = "VST"
                  /\ stream[k + 1].code # "ENTRY"
        /\ \A f \in DOMAIN text.definitions :
             \E n \in DOMAIN stream :
                /\ stream[n].code = "FNENTRY"
                /\ stream[n].nums[1] = NumberOf(text.definitions[f])
                /\ \E k \in ItemAt(stream[n].nums[2]) :
                     /\ stream[k].code = "ENTER" /\ stream[k].name = "FUNCTION"
                     /\ Cardinality({m \in 1..k :
                          stream[m].code = "ENTER" /\ stream[m].name = "FUNCTION"}) = f
=============================================================================
