-------------------------- MODULE ValueEnumerator --------------------------
(***************************************************************************)
(* src/ValueEnumerator140.cpp and its four siblings, told apart where they *)
(* differ: the numbering of types and values that the records refer to.    *)
(* The constructor enumerates the module, the writer's constructor adds    *)
(* the typed pointers it will write, then the writer incorporates and      *)
(* purges one function after the other.                                    *)
(*                                                                         *)
(* EnumerateType, EnumerateValue and EnumerateOperandType are recursive;   *)
(* here their activations are the frames of an explicit stack, and an      *)
(* action is one call or one return.  A frame is <<kind, item, next>>:     *)
(* next children have been called.  Metadata has its own numbering and is  *)
(* not here.                                                               *)
(***************************************************************************)
EXTENDS Naturals, Sequences, FiniteSets

CONSTANTS Types, Values, Units

\* A module as the enumerator sees it: the children of types and constants,
\* the value types of globals, and functions with their arguments and code.
\* Host LLVM has opaque pointers, so types have no cycles, and constants have
\* none that does not go through a global.
Instructions == [id : Values, void : BOOLEAN, ops : Seq(Values),
                 cases : Seq(Values), types : Seq(Types), call : Seq(Types)]
Functions == [args : Seq(Values), code : Seq(Instructions)]
ModuleFields == [target : {50, 70, 140, 180, 200},
                 subtypes : [Types -> Seq(Types)],
                 typeOf : [Values -> Types],
                 operands : [Values -> Seq(Values)],
                 sourceTypes : [Values -> Seq(Types)],
                 globalTypes : [Values -> Seq(Types)],
                 typeAttributes : [Values -> Seq(Types)],
                 intTypes : SUBSET Types,
                 aggregates : SUBSET Values,
                 blockAddresses : SUBSET Values,
                 globals : Seq(Values),
                 initializers : Seq(Values),
                 aliasees : Seq(Values),
                 metadata : Seq(Values),
                 opaquePtr : Types,
                 pointerTypes : Seq(Types),
                 functions : Seq(Functions)]
ASSUME UnitsAssumption == Units \subseteq ModuleFields

Members(s) == {s[n] : n \in DOMAIN s}

\* How deeply constants nest, a global being a leaf.
Greatest(S) == CHOOSE n \in S : \A m \in S : m <= n
Nesting(u) ==
    LET depth[v \in Values] ==
          IF v \in Members(u.globals) THEN 0
          ELSE 1 + Greatest({0} \cup {depth[w] : w \in Members(u.operands[v])})
    IN depth
\* A constant is made after its operands: it is part of none of them.
ASSUME NestingAssumption ==
    \A u \in Units : \A v \in Values :
        /\ Nesting(u)[v] \in Nat
        /\ v \notin Members(u.globals) =>
             \A w \in Members(u.operands[v]) : Nesting(u)[w] < Nesting(u)[v]

\* The arguments and instructions of a function, and of all functions.
LocalsOf(f) == Members(f.args) \cup {f.code[k].id : k \in DOMAIN f.code}
LocalsIn(u) == UNION {LocalsOf(u.functions[n]) : n \in DOMAIN u.functions}
\* Those a body can name: its own, but not the instructions without a value.
ValuesOf(f) ==
    Members(f.args) \cup {f.code[k].id : k \in {n \in DOMAIN f.code : ~f.code[n].void}}
Distinct(s) == \A m, n \in DOMAIN s : s[m] = s[n] => m = n
\* The globals are different values, and so are the arguments and instructions
\* of a function; nothing outside of functions is made of what is inside, and
\* a body uses what is its own or outside.
ASSUME ScopesAssumption ==
    \A u \in Units :
        /\ Distinct(u.globals)
        /\ Members(u.globals) \cup Members(u.initializers) \cup Members(u.aliasees)
             \cup Members(u.metadata) \subseteq Values \ LocalsIn(u)
        /\ \A v \in Values \ LocalsIn(u) :
             Members(u.operands[v]) \subseteq Values \ LocalsIn(u)
        /\ \A n \in DOMAIN u.functions :
             LET f == u.functions[n]
             IN /\ Distinct(f.args \o [k \in DOMAIN f.code |-> f.code[k].id])
                /\ \A k \in DOMAIN f.code :
                     /\ Members(f.code[k].cases) \subseteq Values \ LocalsIn(u)
                     /\ Members(f.code[k].ops)
                          \subseteq (Values \ LocalsIn(u)) \cup ValuesOf(f)

\* The constants a value is made of, down to the globals.
MadeOf(u) ==
    LET From[v \in Values] ==
          {v} \cup (IF v \in Members(u.globals) THEN {}
                    ELSE UNION {From[u.operands[v][k]] : k \in DOMAIN u.operands[v]})
    IN From
PartsOf(u, s) == UNION {MadeOf(u)[v] : v \in Members(s)}
\* Those of what a body uses.
UsesIn(u, f) ==
    UNION {PartsOf(u, f.code[k].ops) \cup PartsOf(u, f.code[k].cases) :
             k \in DOMAIN f.code}
BodyParts(u) == UNION {UsesIn(u, u.functions[n]) : n \in DOMAIN u.functions}
\* Only getelementptr expressions have a source type, and neither globals nor
\* what is inside of functions are aggregates.
ASSUME ConstantsAssumption ==
    \A u \in Units : \A v \in LocalsIn(u) \cup Members(u.globals) :
        u.sourceTypes[v] = <<>> /\ v \notin u.aggregates
\* A function lists the attributes of its arguments among its own.
ASSUME ArgumentsAssumption ==
    \A u \in Units : \A n \in DOMAIN u.functions :
        \A a \in Members(u.functions[n].args) :
            Members(u.typeAttributes[a])
              \subseteq UNION {Members(u.typeAttributes[g]) : g \in Members(u.globals)}
\* Where pointers are typed, demotePointerConstants has made instructions of
\* the expressions of bodies, and of their aggregates that point somewhere.
ASSUME DemotedAssumption ==
    \A u \in Units : u.target <= 140 =>
        LET parts == BodyParts(u)
        IN \A v \in parts \ LocalsIn(u) :
             /\ u.sourceTypes[v] = <<>>
             /\ v \in u.aggregates =>
                  Members(u.operands[v])
                    \cap (Members(u.globals) \cup u.blockAddresses) = {}
\* A case value or a shuffle mask is made of plain numbers, whose types are that
\* of an operand, one the instruction names, or part of that.
ASSUME CasesAssumption ==
    \A u \in Units : \A n \in DOMAIN u.functions :
        \A k \in DOMAIN u.functions[n].code :
            LET i == u.functions[n].code[k]
            IN \A v \in PartsOf(u, i.cases) :
                 /\ u.sourceTypes[v] = <<>>
                 /\ u.typeOf[v] \in {u.typeOf[w] : w \in Members(i.ops)}
                                    \cup Members(i.types)
                                    \cup UNION {Members(u.subtypes[t]) : t \in Members(i.types)}

VARIABLES
    unit,      \* the module
    phase,     \* the loop that runs
    fn,        \* the function it is in: 0 before the first one
    turn,      \* the iterations it has begun
    todo,      \* the calls its body has left to make
    stack,     \* the activations
    types,     \* Types, whose inverse is TypeMap
    values,    \* Values: <<value, use count>>
    valueMap,  \* ValueMap: value -> 1 + its ID
    castMap,   \* AggregatePtrCastMap: value -> 1 + the ID of its bitcast
    firstConstant, numModuleValues, firstFuncConstant, firstInst

program == <<unit, phase, fn, turn>>
marks == <<firstConstant, numModuleValues, firstFuncConstant, firstInst>>
tables == <<types, values, valueMap>>
vars == <<program, todo, stack, tables, castMap, marks>>

InTypes(t) == t \in Members(types)
Globals == Members(unit.globals)
Locals == LocalsIn(unit)
IsConstant(v) == v \notin Locals
\* A constant that belongs to the pool of the module or of a function.
IsPooled(v) == IsConstant(v) /\ v \notin Globals
\* isIntOrIntVectorValue
IsInt(v) == unit.typeOf[v] \in unit.intTypes
Fn == unit.functions[fn]

-----------------------------------------------------------------------------
(* What the bodies of the loops call, in order *)

Call(kind, s) == [n \in DOMAIN s |-> <<kind, s[n]>>]

\* The types in the attributes of a function, an argument or a call; before
\* 14.0 attributes have no type.
EnumerateAttributes(v) ==
    IF unit.target >= 140 THEN Call("type", unit.typeAttributes[v]) ELSE <<>>

\* A global variable, function, alias or ifunc and its value type.
GlobalCalls(g) ==
    Call("value", <<g>>) \o Call("type", unit.globalTypes[g])
    \o EnumerateAttributes(g)

\* Initializers, then aliasees, resolvers and function data, then the symbol
\* table, which names the globals, then the constants in named metadata and in
\* the metadata of globals.
ConstantCalls ==
    Call("value", unit.initializers) \o Call("value", unit.aliasees)
    \o Call("value", unit.globals) \o Call("value", unit.metadata)

\* Mutant: the types of a body's operands are not walked.
BodyTypeCallsShallow(i) ==
    Call("type", i.types) \o Call("type", <<unit.typeOf[i.id]>>)
    \o EnumerateAttributes(i.id) \o Call("type", i.call)

\* The types of one instruction.
BodyTypeCalls(i) ==
    Call("operand", i.ops) \o Call("type", i.types)
    \o Call("type", <<unit.typeOf[i.id]>>)
    \o EnumerateAttributes(i.id) \o Call("type", i.call)

\* Mutant: case values are taken for operands, as they were before LLVM 22.
FuncConstantCallsNoCases(i) == Call("pooled", i.ops)

\* The constants of one instruction; a switch keeps its case values apart.
FuncConstantCalls(i) == Call("pooled", i.ops) \o Call("value", i.cases)

\* Mutant: instructions without a value get a number too.
InstructionCallsAll(i) == Call("value", <<i.id>>)

\* An argument, and the type of its byval, sret or byref attribute.
ArgumentCalls(a) == Call("value", <<a>>) \o EnumerateAttributes(a)

\* The instructions that have a value.
InstructionCalls(i) == IF i.void THEN <<>> ELSE Call("value", <<i.id>>)

\* The iterations of a loop and the calls of one of them.
Turns ==
    CASE phase = "globals" -> Len(unit.globals)
      [] phase = "args" -> Len(Fn.args)
      [] phase \in {"types", "consts", "insts"} -> Len(Fn.code)
      [] OTHER -> 0
Body(n) ==
    CASE phase = "globals" -> GlobalCalls(unit.globals[n])
      [] phase = "args" -> ArgumentCalls(Fn.args[n])
      [] phase = "types" -> BodyTypeCalls(Fn.code[n])
      [] phase = "consts" -> FuncConstantCalls(Fn.code[n])
      [] phase = "insts" -> InstructionCalls(Fn.code[n])

-----------------------------------------------------------------------------
(* EnumerateType, EnumerateValue, EnumerateOperandType *)

\* The operands that are enumerated with a value: those of a constant, but
\* not the initializer of a global.
Operands(v) == IF IsPooled(v) THEN unit.operands[v] ELSE <<>>

\* The source type of a getelementptr expression: 14.0 does not add it with
\* the value, 5.0 and 7.0 do not look for it among the operands of a body.
SourceTypes(frame) ==
    IF \/ frame[1] = "value" /\ unit.target # 140
       \/ frame[1] = "operand" /\ unit.target >= 140
    THEN Call("type", unit.sourceTypes[frame[2]]) ELSE <<>>

\* Mutant: only the first part of a type is enumerated before it.
ChildrenFirst(frame) ==
    CASE frame[1] = "type" ->
           LET s == unit.subtypes[frame[2]]
           IN Call("type", [n \in DOMAIN s \cap {1} |-> s[n]])
      [] frame[1] = "value" ->
           Call("type", <<unit.typeOf[frame[2]]>>)
           \o Call("value", Operands(frame[2]))
           \o SourceTypes(frame)
      [] frame[1] = "operand" ->
           Call("type", <<unit.typeOf[frame[2]]>>)
           \o Call("operand", Operands(frame[2]))
           \o SourceTypes(frame)
      [] frame[1] = "pooled" ->
           IF IsPooled(frame[2]) THEN Call("value", <<frame[2]>>) ELSE <<>>

\* What an activation calls, in order.
Children(frame) ==
    CASE frame[1] = "type" -> Call("type", unit.subtypes[frame[2]])
      [] frame[1] = "value" ->
           Call("type", <<unit.typeOf[frame[2]]>>)
           \o Call("value", Operands(frame[2]))
           \o SourceTypes(frame)
      [] frame[1] = "operand" ->
           Call("type", <<unit.typeOf[frame[2]]>>)
           \o Call("operand", Operands(frame[2]))
           \o SourceTypes(frame)
      [] frame[1] = "pooled" ->
           IF IsPooled(frame[2]) THEN Call("value", <<frame[2]>>) ELSE <<>>

Top == stack[Len(stack)]
Below == SubSeq(stack, 1, Len(stack) - 1)
Frame(call) == <<call[1], call[2], 0>>

\* The early returns: a type or a value that has its number, on entry; an
\* operand that is no constant or is already a value, once its type is known.
Known(frame) ==
    CASE frame[1] = "type" -> frame[3] = 0 /\ InTypes(frame[2])
      [] frame[1] = "value" -> frame[3] = 0 /\ frame[2] \in DOMAIN valueMap
      [] frame[1] = "operand" ->
           /\ frame[3] = 1
           /\ ~IsConstant(frame[2]) \/ frame[2] \in DOMAIN valueMap
      [] OTHER -> FALSE

Begin ==
    /\ stack = <<>> /\ todo # <<>>
    /\ stack' = <<Frame(Head(todo))>>
    /\ todo' = Tail(todo)
    /\ UNCHANGED <<program, tables, castMap, marks>>

\* The value is there: its use count goes up.
Return ==
    /\ stack # <<>> /\ Known(Top)
    /\ values' = IF Top[1] = "value"
                 THEN [values EXCEPT ![valueMap[Top[2]]] = <<@[1], @[2] + 1>>]
                 ELSE values
    /\ stack' = Below
    /\ UNCHANGED <<program, todo, types, valueMap, castMap, marks>>

Descend ==
    /\ stack # <<>> /\ ~Known(Top)
    /\ Top[3] < Len(Children(Top))
    /\ stack' = Append(Append(Below, <<Top[1], Top[2], Top[3] + 1>>),
                       Frame(Children(Top)[Top[3] + 1]))
    /\ UNCHANGED <<program, todo, tables, castMap, marks>>

\* A type may have got its number while its subtypes were enumerated.
WithType(t) == IF InTypes(t) THEN types ELSE Append(types, t)

Leave ==
    /\ stack # <<>> /\ ~Known(Top)
    /\ Top[3] = Len(Children(Top))
    /\ stack' = Below
    /\ types' = IF Top[1] = "type" THEN WithType(Top[2]) ELSE types
    /\ IF Top[1] = "value"
       THEN /\ values' = Append(values, <<Top[2], 1>>)
            /\ valueMap' = [v \in DOMAIN valueMap \cup {Top[2]} |->
                              IF v = Top[2] THEN Len(values) + 1 ELSE valueMap[v]]
       ELSE UNCHANGED <<values, valueMap>>
    /\ UNCHANGED <<program, todo, castMap, marks>>

-----------------------------------------------------------------------------
(* The loops *)

Idle == stack = <<>> /\ todo = <<>>
LoopEnds == Idle /\ turn = Turns
Enter(p, f, calls) ==
    /\ phase' = p /\ fn' = f /\ turn' = 0 /\ todo' = calls
    /\ UNCHANGED <<unit, stack>>

Turn ==
    /\ Idle /\ turn < Turns
    /\ turn' = turn + 1
    /\ todo' = Body(turn + 1)
    /\ UNCHANGED <<unit, phase, fn, stack, tables, castMap, marks>>

\* The cutoff between globals and constants, and the module's constants.
StartConstants ==
    /\ phase = "globals" /\ LoopEnds
    /\ firstConstant' = Len(values)
    /\ Enter("constants", 0, ConstantCalls)
    /\ UNCHANGED <<tables, castMap, numModuleValues, firstFuncConstant, firstInst>>

\* On to the types of the next function's arguments and body.
ArgumentTypes(f) == Call("type", [k \in DOMAIN f.args |-> unit.typeOf[f.args[k]]])
NextFunctionTypes ==
    /\ phase \in {"constants", "types"} /\ LoopEnds
    /\ fn < Len(unit.functions)
    /\ Enter("types", fn + 1, ArgumentTypes(unit.functions[fn + 1]))
    /\ UNCHANGED <<tables, castMap, marks>>

\* OptimizeConstants on the slots from + 1 .. to: integers first, then by
\* type plane, then by falling use count; the sort and the partition are
\* stable.  The map is rebuilt for them.
TypeID(t) == CHOOSE n \in DOMAIN types : types[n] = t
Precedes(m, n) ==
    LET int(k) == IsInt(values[k][1])
        plane(k) == TypeID(unit.typeOf[values[k][1]])
    IN IF int(m) # int(n) THEN int(m)
       ELSE IF plane(m) # plane(n) THEN plane(m) < plane(n)
       ELSE IF values[m][2] # values[n][2] THEN values[m][2] > values[n][2]
       ELSE m < n

\* Mutants: the map keeps the old slots; integers are not put first.
OptimizeConstantsUnmapped(from, to) ==
    \E p \in [from + 1..to -> from + 1..to] :
        /\ \A m, n \in from + 1..to : m < n => Precedes(p[m], p[n])
        /\ values' = [n \in DOMAIN values |->
                        IF n \in DOMAIN p THEN values[p[n]] ELSE values[n]]
        /\ valueMap' = valueMap
OptimizeConstantsByUse(from, to) ==
    \E p \in [from + 1..to -> from + 1..to] :
        /\ \A m, n \in from + 1..to : m < n =>
             \/ values[p[m]][2] > values[p[n]][2]
             \/ values[p[m]][2] = values[p[n]][2] /\ p[m] < p[n]
        /\ values' = [n \in DOMAIN values |->
                        IF n \in DOMAIN p THEN values[p[n]] ELSE values[n]]
        /\ valueMap' = [v \in DOMAIN valueMap |->
                          IF valueMap[v] \in DOMAIN p
                          THEN CHOOSE n \in DOMAIN p : p[n] = valueMap[v]
                          ELSE valueMap[v]]

OptimizeConstants(from, to) ==
    \E p \in [from + 1..to -> from + 1..to] :
        /\ \A m, n \in from + 1..to : m < n => Precedes(p[m], p[n])
        /\ values' = [n \in DOMAIN values |->
                        IF n \in DOMAIN p THEN values[p[n]] ELSE values[n]]
        /\ valueMap' = [v \in DOMAIN valueMap |->
                          IF valueMap[v] \in DOMAIN p
                          THEN CHOOSE n \in DOMAIN p : p[n] = valueMap[v]
                          ELSE valueMap[v]]

OptimizeModule ==
    /\ phase \in {"constants", "types"} /\ LoopEnds
    /\ fn = Len(unit.functions)
    /\ OptimizeConstants(firstConstant, Len(values))
    /\ Enter("casts", 0, <<>>)
    /\ UNCHANGED <<types, castMap, marks>>

\* The globals and blockaddresses that are elements of an aggregate an
\* initializer reaches: each gets one more slot, for its bitcast.
IsCastElement(v) == v \in Globals \cup unit.blockAddresses
Reached == PartsOf(unit, unit.initializers)

\* Mutant: only the initializers themselves are looked at.
CastElementsFlat ==
    {v \in UNION {Members(unit.operands[a]) :
                    a \in Members(unit.initializers) \cap unit.aggregates} :
       IsCastElement(v)}

CastElements ==
    {v \in UNION {Members(unit.operands[a]) : a \in Reached \cap unit.aggregates} :
       IsCastElement(v)}

ReserveCasts ==
    /\ phase = "casts"
    /\ LET new == IF unit.target <= 140 THEN CastElements \ DOMAIN castMap ELSE {}
       IN IF new # {}
          THEN \E v \in new :
                 /\ values' = Append(values, <<v, 1>>)
                 /\ castMap' = [w \in DOMAIN castMap \cup {v} |->
                      IF w = v THEN Len(values) + 1 ELSE castMap[w]]
                 /\ UNCHANGED <<program, todo, stack>>
          ELSE /\ Enter("pointers", 0, Call("type", unit.pointerTypes))
               /\ UNCHANGED <<values, castMap>>
    /\ UNCHANGED <<types, valueMap, marks>>

\* The typed pointers are in the table: the enumerator is complete.
Complete ==
    /\ phase = "pointers" /\ LoopEnds
    /\ Enter("ready", 0, <<>>)
    /\ UNCHANGED <<tables, castMap, marks>>

\* incorporateFunction: the arguments, the constants of the body, the
\* instructions that have a value.
Incorporate ==
    /\ phase = "ready" /\ fn < Len(unit.functions)
    /\ numModuleValues' = Len(values)
    /\ Enter("args", fn + 1, <<>>)
    /\ UNCHANGED <<tables, castMap, firstConstant, firstFuncConstant, firstInst>>

FunctionConstants ==
    /\ phase = "args" /\ LoopEnds
    /\ firstFuncConstant' = Len(values)
    /\ Enter("consts", fn, <<>>)
    /\ UNCHANGED <<tables, castMap, firstConstant, numModuleValues, firstInst>>

\* Mutant: the module's constants are sorted again.
FunctionInstructionsAll ==
    /\ phase = "consts" /\ LoopEnds
    /\ OptimizeConstants(firstConstant, Len(values))
    /\ firstInst' = Len(values)
    /\ Enter("insts", fn, <<>>)
    /\ UNCHANGED <<types, castMap, firstConstant, numModuleValues,
                   firstFuncConstant>>

FunctionInstructions ==
    /\ phase = "consts" /\ LoopEnds
    /\ OptimizeConstants(firstFuncConstant, Len(values))
    /\ firstInst' = Len(values)
    /\ Enter("insts", fn, <<>>)
    /\ UNCHANGED <<types, castMap, firstConstant, numModuleValues,
                   firstFuncConstant>>

\* The function is incorporated while the writer writes it.
Incorporated == phase = "insts" /\ LoopEnds

\* The map without the values beyond the module's.
PurgedMap ==
    LET purged == {values[n][1] : n \in numModuleValues + 1..Len(values)}
    IN [v \in DOMAIN valueMap \ purged |-> valueMap[v]]

purgeFunction ==
    /\ Incorporated
    /\ valueMap' = PurgedMap
    /\ values' = SubSeq(values, 1, numModuleValues)
    /\ Enter("ready", fn, <<>>)
    /\ UNCHANGED <<types, castMap, marks>>

Init ==
    /\ unit \in Units
    /\ phase = "globals" /\ fn = 0 /\ turn = 0
    /\ todo = IF unit.target <= 140 THEN Call("type", <<unit.opaquePtr>>) ELSE <<>>
    /\ stack = <<>> /\ types = <<>> /\ values = <<>>
    /\ valueMap = <<>> /\ castMap = <<>>
    /\ firstConstant = 0 /\ numModuleValues = 0
    /\ firstFuncConstant = 0 /\ firstInst = 0

Next ==
    \/ Begin \/ Return \/ Descend \/ Leave \/ Turn
    \/ StartConstants \/ NextFunctionTypes \/ OptimizeModule \/ ReserveCasts
    \/ Complete
    \/ Incorporate \/ FunctionConstants \/ FunctionInstructions
    \/ purgeFunction

Spec == Init /\ [][Next]_vars

-----------------------------------------------------------------------------
Constructed == phase \notin {"globals", "constants", "types", "casts", "pointers"}

\* No two types share a number, so a type ID of a record names one type.
TypesDistinct == \A m, n \in DOMAIN types : types[m] = types[n] => m = n

\* Values and ValueMap are inverse to each other, whatever has been sorted,
\* added or purged; a slot that the map does not point back to is the slot of
\* a bitcast, and belongs to one value.
Numbering ==
    /\ \A v \in DOMAIN valueMap : values[valueMap[v]][1] = v
    /\ \A v \in DOMAIN castMap : values[castMap[v]][1] = v
    /\ \A n \in DOMAIN values :
         LET v == values[n][1]
         IN \/ v \in DOMAIN valueMap /\ valueMap[v] = n
            \/ v \in DOMAIN castMap /\ castMap[v] = n
    /\ \A v \in DOMAIN valueMap, w \in DOMAIN castMap : valueMap[v] # castMap[w]

\* "Enumerated in an order that can be directly built": the reader meets the
\* parts of a type before the type.
TypesBuildable ==
    \A n \in DOMAIN types : \A k \in DOMAIN unit.subtypes[types[n]] :
        \E m \in 1..n - 1 : types[m] = unit.subtypes[types[n]][k]

\* The type table is one its reader can build entry after entry, and no type
\* is in it twice.
TypeTable == TypesDistinct /\ TypesBuildable

\* The reader numbers globals in the order of their records, and everything
\* else after them.
GlobalsFirst ==
    phase # "globals" =>
        /\ firstConstant = Len(unit.globals)
        /\ \A n \in DOMAIN unit.globals : valueMap[unit.globals[n]] = n

\* The instructions of the function with a value, among the first n.
WithValue(n) == Cardinality({k \in 1..n : ~Fn.code[k].void})

\* It numbers the arguments, the constants block and the instructions of a
\* function in that order, and only instructions that have a value.
LocalsInOrder ==
    Incorporated =>
        /\ \A n \in DOMAIN Fn.args :
             valueMap[Fn.args[n]] = numModuleValues + n
        /\ firstFuncConstant = numModuleValues + Len(Fn.args)
        /\ \A n \in DOMAIN Fn.code :
             ~Fn.code[n].void =>
               valueMap[Fn.code[n].id] = firstInst + WithValue(n)
        /\ Len(values) = firstInst + WithValue(Len(Fn.code))

\* The numbers the records use are those the reader counts.
ReaderNumbering == GlobalsFirst /\ LocalsInOrder

\* Whatever a record of the function names has a number: every operand, its
\* type, and every type the instruction names.
EverythingNumbered ==
    Incorporated =>
        \A k \in DOMAIN Fn.code :
            LET i == Fn.code[k]
            IN /\ Members(i.ops) \cup Members(i.cases) \subseteq DOMAIN valueMap
               /\ Members(i.types) \cup Members(i.call)
                    \cup {unit.typeOf[v] : v \in Members(i.ops)}
                    \subseteq Members(types)

\* In each pool integers come first, "so that GEP structure indices come
\* before gep constant exprs", and a type's constants are together, so that
\* SETTYPE is written once per type.
PoolOrdered(from, to) ==
    \A m, n \in from + 1..to :
        m < n =>
          /\ IsInt(values[n][1]) => IsInt(values[m][1])
          /\ unit.typeOf[values[m][1]] = unit.typeOf[values[n][1]] =>
               \A k \in m..n :
                 unit.typeOf[values[k][1]] = unit.typeOf[values[n][1]]
PoolsOrdered ==
    /\ phase = "ready" =>
         PoolOrdered(firstConstant, Len(values) - Cardinality(DOMAIN castMap))
    /\ Incorporated => PoolOrdered(firstFuncConstant, firstInst)

\* Every pointer an aggregate of the module names directly has a bitcast slot
\* that the writer refers to in its place, after all other constants.
AggregatesBridged ==
    Constructed /\ unit.target <= 140 =>
        \A a \in DOMAIN valueMap \cap unit.aggregates :
            \A v \in {w \in Members(unit.operands[a]) : IsCastElement(w)} :
                /\ v \in DOMAIN castMap
                /\ \A w \in DOMAIN valueMap :
                     valueMap[w] < castMap[v] \/ valueMap[w] > numModuleValues

\* The type table is written before the functions, so incorporating one may
\* not need another type ...
TypesFrozen == [][Constructed => types' = types]_vars

\* ... and the module's values are written with the numbers they had: no
\* function changes them, while it is there or when it is purged.
NumbersFrozen ==
    [][Constructed =>
         \A v \in DOMAIN valueMap :
            phase = "ready" \/ valueMap[v] <= numModuleValues =>
              v \in DOMAIN valueMap' /\ valueMap'[v] = valueMap[v]]_vars
=============================================================================
