----------------------- MODULE ValueEnumeratorProofs -----------------------
(***************************************************************************)
(* Theorems about the enumerator, for every module that ModuleFields       *)
(* describes and whose constants nest: any number of types, values,        *)
(* functions and instructions.                                             *)
(***************************************************************************)
EXTENDS LegacyReader, SequenceTheorems, FiniteSetTheorems, TLAPS

TypeCalls == {"type"} \X Types
ValueCalls == {"value", "operand", "pooled"} \X Values
Calls == TypeCalls \cup ValueCalls
Frames == ({"type"} \X Types \X Nat)
          \cup ({"value", "operand", "pooled"} \X Values \X Nat)

InFunction == phase \in {"types", "args", "consts", "insts"}
TypeInv ==
    /\ unit \in Units
    /\ phase \in {"globals", "constants", "casts", "pointers", "ready"} \/ InFunction
    /\ fn \in Nat /\ fn <= Len(unit.functions)
    /\ InFunction => fn > 0
    /\ turn \in Nat
    /\ todo \in Seq(Calls)
    /\ stack \in Seq(Frames)
    /\ types \in Seq(Types)

-----------------------------------------------------------------------------
(* What the activations and the loops call *)

\* Each element of a sequence becomes one call.
LEMMA CallOfSeq ==
    ASSUME NEW kind, NEW S, NEW s \in Seq(S)
    PROVE  /\ Call(kind, s) \in Seq({kind} \X S)
           /\ Len(Call(kind, s)) = Len(s)
           /\ \A n \in 1 .. Len(s) : Call(kind, s)[n] = <<kind, s[n]>>
<1>1. Len(s) \in Nat /\ DOMAIN s = 1 .. Len(s)
    OBVIOUS
<1>2. \A n \in 1 .. Len(s) : <<kind, s[n]>> \in {kind} \X S
    OBVIOUS
<1> QED  BY <1>1, <1>2 DEF Call

\* Calls of the two sorts are calls.
LEMMA CallsTyped ==
    /\ \A s \in Seq(Types) : Call("type", s) \in Seq(Calls)
    /\ \A s \in Seq(Values), kind \in {"value", "operand", "pooled"} :
          Call(kind, s) \in Seq(Calls)
<1>1. ASSUME NEW s \in Seq(Types) PROVE Call("type", s) \in Seq(Calls)
  <2>1. Call("type", s) \in Seq(TypeCalls)
      BY CallOfSeq DEF TypeCalls
  <2> QED  BY <2>1, SeqMonotonic DEF Calls
<1>2. ASSUME NEW s \in Seq(Values), NEW kind \in {"value", "operand", "pooled"}
      PROVE  Call(kind, s) \in Seq(Calls)
  <2>1. Call(kind, s) \in Seq({kind} \X Values)
      BY CallOfSeq
  <2>2. {kind} \X Values \subseteq Calls
      BY DEF Calls, ValueCalls
  <2> QED  BY <2>1, <2>2, SeqMonotonic
<1> QED  BY <1>1, <1>2

\* The fields of the module.
LEMMA UnitFields ==
    ASSUME unit \in Units
    PROVE  /\ unit.subtypes \in [Types -> Seq(Types)]
           /\ unit.typeOf \in [Values -> Types]
           /\ unit.operands \in [Values -> Seq(Values)]
           /\ unit.sourceTypes \in [Values -> Seq(Types)]
           /\ unit.globalTypes \in [Values -> Seq(Types)]
           /\ unit.typeAttributes \in [Values -> Seq(Types)]
           /\ unit.globals \in Seq(Values) /\ unit.initializers \in Seq(Values)
           /\ unit.aliasees \in Seq(Values) /\ unit.opaquePtr \in Types
           /\ unit.metadata \in Seq(Values)
           /\ unit.pointerTypes \in Seq(Types)
           /\ unit.functions \in Seq(Functions)
           /\ unit.aggregates \subseteq Values
<1>1. unit \in ModuleFields
    BY UnitsAssumption
<1>2. /\ unit.subtypes \in [Types -> Seq(Types)]
      /\ unit.typeOf \in [Values -> Types]
      /\ unit.operands \in [Values -> Seq(Values)]
      /\ unit.sourceTypes \in [Values -> Seq(Types)]
      /\ unit.globalTypes \in [Values -> Seq(Types)]
      /\ unit.typeAttributes \in [Values -> Seq(Types)]
    BY <1>1 DEF ModuleFields
<1>3. /\ unit.globals \in Seq(Values) /\ unit.initializers \in Seq(Values)
      /\ unit.aliasees \in Seq(Values) /\ unit.metadata \in Seq(Values)
      /\ unit.opaquePtr \in Types /\ unit.pointerTypes \in Seq(Types)
      /\ unit.functions \in Seq(Functions)
      /\ unit.aggregates \subseteq Values
    BY <1>1 DEF ModuleFields
<1> QED  BY <1>2, <1>3

\* What an activation calls.
LEMMA ChildrenTyped ==
    ASSUME unit \in Units, NEW f \in Frames PROVE Children(f) \in Seq(Calls)
<1> USE UnitFields
<1>1. CASE f[1] = "type"
  <2>1. unit.subtypes[f[2]] \in Seq(Types)
      BY <1>1 DEF Frames
  <2> QED  BY <1>1, <2>1, CallsTyped DEF Children
<1>2. CASE f[1] \in {"value", "operand"}
  <2>1. f[2] \in Values
      BY <1>2 DEF Frames
  <2>2. Call("type", <<unit.typeOf[f[2]]>>) \in Seq(Calls)
    <3>1. <<unit.typeOf[f[2]]>> \in Seq(Types)
        BY <2>1
    <3> QED  BY <3>1, CallsTyped
  <2>3. Call(f[1], Operands(f[2])) \in Seq(Calls)
    <3>1. Operands(f[2]) \in Seq(Values)
        BY <2>1 DEF Operands
    <3> QED  BY <1>2, <3>1, CallsTyped
  <2>4. SourceTypes(f) \in Seq(Calls)
    <3>1. unit.sourceTypes[f[2]] \in Seq(Types)
        BY <2>1
    <3> QED  BY <3>1, CallsTyped DEF SourceTypes
  <2>5. Call("type", <<unit.typeOf[f[2]]>>) \o Call(f[1], Operands(f[2])) \in Seq(Calls)
      BY <2>2, <2>3, ConcatProperties
  <2>6. Call("type", <<unit.typeOf[f[2]]>>) \o Call(f[1], Operands(f[2]))
          \o SourceTypes(f) \in Seq(Calls)
      BY <2>4, <2>5, ConcatProperties
  <2> QED  BY <1>2, <2>6 DEF Children
<1>3. CASE f[1] = "pooled"
  <2>1. <<f[2]>> \in Seq(Values)
      BY <1>3 DEF Frames
  <2>2. Call("value", <<f[2]>>) \in Seq(Calls)
      BY <2>1, CallsTyped
  <2> QED  BY <1>3, <2>2 DEF Children
<1> QED  BY <1>1, <1>2, <1>3 DEF Frames

\* The parts of a function and of an instruction.
LEMMA FunctionFields ==
    ASSUME TypeInv, NEW f \in 1 .. Len(unit.functions)
    PROVE  /\ unit.functions[f].args \in Seq(Values)
           /\ unit.functions[f].code \in Seq(Instructions)
<1>1. unit.functions \in Seq(Functions)
    BY UnitFields DEF TypeInv
<1>2. unit.functions[f] \in Functions
    BY <1>1, ElementOfSeq
<1> QED  BY <1>2 DEF Functions

\* What an instruction of a function is made of.
LEMMA InstructionFields ==
    ASSUME NEW i \in Instructions
    PROVE  /\ i.id \in Values /\ i.ops \in Seq(Values) /\ i.cases \in Seq(Values)
           /\ i.types \in Seq(Types) /\ i.call \in Seq(Types)
BY DEF Instructions

\* What attributes call.
LEMMA AttributesTyped ==
    ASSUME unit \in Units, NEW v \in Values
    PROVE  EnumerateAttributes(v) \in Seq(Calls)
<1>1. unit.typeAttributes[v] \in Seq(Types)
    BY UnitFields
<1>2. <<>> \in Seq(Calls)
    OBVIOUS
<1> QED  BY <1>1, <1>2, CallsTyped DEF EnumerateAttributes

\* What an iteration of a loop calls.
LEMMA BodyTyped ==
    ASSUME TypeInv, NEW n \in 1 .. Turns PROVE Body(n) \in Seq(Calls)
<1> USE DEF TypeInv
<1>1. CASE phase = "globals"
  <2>1. n \in 1 .. Len(unit.globals)
      BY <1>1 DEF Turns
  <2> DEFINE g == unit.globals[n]
  <2>2. g \in Values
      BY <2>1, UnitFields, ElementOfSeq
  <2>3. Call("value", <<g>>) \in Seq(Calls)
    <3>1. <<g>> \in Seq(Values)
        BY <2>2
    <3> QED  BY <3>1, CallsTyped
  <2>4. Call("type", unit.globalTypes[g]) \in Seq(Calls)
      BY <2>2, UnitFields, CallsTyped
  <2>5. EnumerateAttributes(g) \in Seq(Calls)
      BY <2>2, AttributesTyped
  <2> HIDE DEF g
  <2>6. GlobalCalls(g) \in Seq(Calls)
      BY <2>3, <2>4, <2>5, ConcatProperties DEF GlobalCalls
  <2> QED  BY <1>1, <2>6 DEF Body, g
<1>2. CASE phase = "args"
  <2>1. n \in 1 .. Len(Fn.args) /\ Fn.args \in Seq(Values)
      BY <1>2, FunctionFields DEF Turns, Fn, InFunction
  <2> DEFINE a == Fn.args[n]
  <2>2. a \in Values
      BY <2>1, ElementOfSeq
  <2>3. Call("value", <<a>>) \in Seq(Calls)
    <3>1. <<a>> \in Seq(Values)
        BY <2>2
    <3> QED  BY <3>1, CallsTyped
  <2>4. EnumerateAttributes(a) \in Seq(Calls)
      BY <2>2, AttributesTyped
  <2> HIDE DEF a
  <2>5. ArgumentCalls(a) \in Seq(Calls)
      BY <2>3, <2>4, ConcatProperties DEF ArgumentCalls
  <2> QED  BY <1>2, <2>5 DEF Body, a
<1>3. CASE phase \in {"types", "consts", "insts"}
  <2>1. n \in 1 .. Len(Fn.code) /\ Fn.code \in Seq(Instructions)
      BY <1>3, FunctionFields DEF Turns, Fn, InFunction
  <2> DEFINE i == Fn.code[n]
  <2>2. i \in Instructions
      BY <2>1, ElementOfSeq
  <2> HIDE DEF i
  <2>3. i.id \in Values /\ <<i.id>> \in Seq(Values)
      BY <2>2, InstructionFields
  <2>4. <<unit.typeOf[i.id]>> \in Seq(Types)
    <3>1. unit.typeOf[i.id] \in Types
        BY <2>3, UnitFields
    <3> QED  BY <3>1
  <2>5. Call("operand", i.ops) \in Seq(Calls) /\ Call("pooled", i.ops) \in Seq(Calls)
        /\ Call("value", i.cases) \in Seq(Calls)
        /\ Call("value", <<i.id>>) \in Seq(Calls)
      BY <2>2, <2>3, InstructionFields, CallsTyped
  <2>6. Call("type", i.types) \in Seq(Calls) /\ Call("type", i.call) \in Seq(Calls)
        /\ Call("type", <<unit.typeOf[i.id]>>) \in Seq(Calls)
      BY <2>2, <2>4, InstructionFields, CallsTyped
  <2>7. EnumerateAttributes(i.id) \in Seq(Calls)
      BY <2>3, AttributesTyped
  <2>8. FuncConstantCalls(i) \in Seq(Calls)
      BY <2>5, ConcatProperties DEF FuncConstantCalls
  <2>9. InstructionCalls(i) \in Seq(Calls)
      BY <2>5, EmptySeq DEF InstructionCalls
  <2>10. BodyTypeCalls(i) \in Seq(Calls)
    <3>1. Call("operand", i.ops) \o Call("type", i.types) \in Seq(Calls)
        BY <2>5, <2>6, ConcatProperties
    <3>2. Call("operand", i.ops) \o Call("type", i.types)
            \o Call("type", <<unit.typeOf[i.id]>>) \in Seq(Calls)
        BY <3>1, <2>6, ConcatProperties
    <3>3. Call("operand", i.ops) \o Call("type", i.types)
            \o Call("type", <<unit.typeOf[i.id]>>) \o EnumerateAttributes(i.id)
            \in Seq(Calls)
        BY <3>2, <2>7, ConcatProperties
    <3> QED  BY <3>3, <2>6, ConcatProperties DEF BodyTypeCalls
  <2> QED  BY <1>3, <2>8, <2>9, <2>10 DEF Body, i
<1>4. CASE phase \notin {"globals", "args", "types", "consts", "insts"}
  <2>1. Turns = 0
      BY <1>4 DEF Turns
  <2> QED  BY <2>1
<1> QED  BY <1>1, <1>2, <1>3, <1>4

\* The constants of the module, and the types of arguments.
LEMMA ConstantCallsTyped == ASSUME unit \in Units PROVE ConstantCalls \in Seq(Calls)
<1>1. /\ Call("value", unit.initializers) \in Seq(Calls)
      /\ Call("value", unit.aliasees) \in Seq(Calls)
      /\ Call("value", unit.globals) \in Seq(Calls)
      /\ Call("value", unit.metadata) \in Seq(Calls)
    BY UnitFields, CallsTyped
<1> QED  BY <1>1, ConcatProperties DEF ConstantCalls

\* The types of arguments are types.
LEMMA ArgumentTypesTyped ==
    ASSUME TypeInv, NEW f \in 1 .. Len(unit.functions)
    PROVE  ArgumentTypes(unit.functions[f]) \in Seq(Calls)
<1> DEFINE args == unit.functions[f].args
<1>1. args \in Seq(Values) /\ DOMAIN args = 1 .. Len(args) /\ Len(args) \in Nat
    BY FunctionFields
<1>2. \A k \in 1 .. Len(args) : unit.typeOf[args[k]] \in Types
    BY <1>1, UnitFields, ElementOfSeq DEF TypeInv
<1>3. [k \in DOMAIN args |-> unit.typeOf[args[k]]] \in Seq(Types)
    BY <1>1, <1>2
<1> QED  BY <1>3, CallsTyped DEF ArgumentTypes

-----------------------------------------------------------------------------
(* Types *)

\* The stack without its top.
LEMMA TopOfStack ==
    ASSUME TypeInv, stack # <<>>
    PROVE  /\ Len(stack) \in Nat /\ Len(stack) > 0
           /\ Top \in Frames
           /\ Below \in Seq(Frames) /\ Len(Below) = Len(stack) - 1
           /\ \A d \in 1 .. Len(stack) - 1 : Below[d] = stack[d]
<1>1. stack \in Seq(Frames) /\ Len(stack) \in Nat /\ Len(stack) > 0
    BY EmptySeq DEF TypeInv
<1>2. \A d \in 1 .. Len(stack) : stack[d] \in Frames
    BY <1>1, ElementOfSeq
<1>3. /\ Below \in Seq(Frames) /\ Len(Below) = Len(stack) - 1
      /\ \A d \in 1 .. Len(stack) - 1 : Below[d] = stack[d]
  <2>1. \A d \in 1 .. Len(stack) - 1 : stack[d] \in Frames
      BY <1>1, <1>2
  <2> DEFINE n == Len(stack) - 1
  <2>2. n \in Nat
      BY <1>1
  <2> HIDE DEF n
  <2>3. /\ SubSeq(stack, 1, n) \in Seq(Frames)
        /\ Len(SubSeq(stack, 1, n)) = IF 1 <= n THEN n - 1 + 1 ELSE 0
        /\ \A d \in 1 .. n - 1 + 1 : SubSeq(stack, 1, n)[d] = stack[1 + d - 1]
      BY <2>1, <2>2, SubSeqProperties DEF n
  <2>4. n - 1 + 1 = n /\ (n >= 1 \/ n = 0)
      BY <2>2
  <2>5. \A d \in 1 .. n : 1 + d - 1 = d
      BY <2>2
  <2>6. Len(SubSeq(stack, 1, n)) = n
      BY <2>3, <2>4
  <2> QED  BY <2>3, <2>4, <2>5, <2>6 DEF Below, n
<1> QED  BY <1>1, <1>2, <1>3 DEF Top

\* The activation below counts the call, and the new one is above it.
LEMMA DescendedStack ==
    ASSUME TypeInv, Descend
    PROVE  /\ stack' \in Seq(Frames)
           /\ Len(stack') = Len(stack) + 1
           /\ \A d \in 1 .. Len(stack) - 1 : stack'[d] = stack[d]
           /\ stack'[Len(stack)] = <<Top[1], Top[2], Top[3] + 1>>
           /\ stack'[Len(stack) + 1] = Frame(Children(Top)[Top[3] + 1])
           /\ Children(Top)[Top[3] + 1] \in Calls
<1>1. stack # <<>> /\ Top[3] < Len(Children(Top))
    BY DEF Descend
<1>2. /\ Len(stack) \in Nat /\ Len(stack) > 0 /\ Top \in Frames
      /\ Below \in Seq(Frames) /\ Len(Below) = Len(stack) - 1
      /\ \A d \in 1 .. Len(stack) - 1 : Below[d] = stack[d]
    BY <1>1, TopOfStack
<1>3. Top[3] \in Nat /\ Children(Top) \in Seq(Calls)
    BY <1>2, ChildrenTyped DEF Frames, TypeInv
<1> DEFINE c == Children(Top)[Top[3] + 1]
           counted == <<Top[1], Top[2], Top[3] + 1>>
<1>4. c \in Calls
    BY <1>1, <1>3, ElementOfSeq
<1>5. Frame(c) \in Frames
    BY <1>4 DEF Frame, Calls, TypeCalls, ValueCalls, Frames
<1>6. counted \in Frames
    BY <1>2, <1>3 DEF Frames
<1>7. stack' = Append(Append(Below, counted), Frame(c))
    BY DEF Descend
<1> HIDE DEF c, counted
<1>8. /\ Append(Below, counted) \in Seq(Frames)
      /\ Len(Append(Below, counted)) = Len(stack)
      /\ \A d \in 1 .. Len(stack) - 1 : Append(Below, counted)[d] = stack[d]
      /\ Append(Below, counted)[Len(stack)] = counted
    BY <1>2, <1>6, AppendProperties
<1>9. /\ stack' \in Seq(Frames)
      /\ Len(stack') = Len(stack) + 1
      /\ \A d \in 1 .. Len(stack) : stack'[d] = Append(Below, counted)[d]
      /\ stack'[Len(stack) + 1] = Frame(c)
    BY <1>2, <1>5, <1>7, <1>8, AppendProperties
<1> QED  BY <1>2, <1>4, <1>8, <1>9 DEF c, counted

\* A type that is left is in the table, behind those that were there.
LEMMA WithTypeProperties ==
    ASSUME types \in Seq(Types), NEW t \in Types
    PROVE  /\ WithType(t) \in Seq(Types)
           /\ Len(WithType(t)) \in {Len(types), Len(types) + 1}
           /\ \A n \in 1 .. Len(types) : WithType(t)[n] = types[n]
           /\ t \in Members(WithType(t))
           /\ Len(WithType(t)) = Len(types) + 1 =>
                ~InTypes(t) /\ WithType(t)[Len(types) + 1] = t
BY AppendProperties DEF WithType, InTypes, Members

\* One step, by the parts of the state it changes.
LEMMA TypePreserved == ASSUME TypeInv, [Next]_vars PROVE TypeInv'
<1>1. CASE Begin
  <2>1. todo \in Seq(Calls) /\ todo # <<>>
      BY <1>1 DEF Begin, TypeInv
  <2>2. Head(todo) \in Calls /\ Tail(todo) \in Seq(Calls)
      BY <2>1, HeadTailProperties
  <2>3. Frame(Head(todo)) \in Frames
      BY <2>2 DEF Frame, Calls, TypeCalls, ValueCalls, Frames
  <2>4. <<Frame(Head(todo))>> \in Seq(Frames)
      BY <2>3
  <2> QED  BY <1>1, <2>2, <2>4 DEF Begin, TypeInv, program, tables, InFunction
<1>2. CASE Return
    BY <1>2, TopOfStack DEF Return, TypeInv, program, InFunction
<1>3. CASE Descend
    BY <1>3, DescendedStack DEF Descend, TypeInv, program, tables, InFunction
<1>4. CASE Leave
  <2>1. Below \in Seq(Frames) /\ Top \in Frames
      BY <1>4, TopOfStack DEF Leave
  <2>2. types' \in Seq(Types)
      BY <1>4, <2>1, WithTypeProperties DEF Leave, TypeInv, Frames
  <2> QED  BY <1>4, <2>1, <2>2 DEF Leave, TypeInv, program, InFunction
<1>5. CASE Turn
  <2>1. turn + 1 \in 1 .. Turns
    <3>1. turn \in Nat /\ turn < Turns
        BY <1>5 DEF Turn, TypeInv
    <3>2. Turns \in Nat
      <4>1. CASE phase = "globals"
          BY <4>1, UnitFields DEF Turns, TypeInv
      <4>2. CASE InFunction
        <5>1. fn \in 1 .. Len(unit.functions)
            BY <4>2 DEF TypeInv
        <5>2. Fn.args \in Seq(Values) /\ Fn.code \in Seq(Instructions)
            BY <5>1, FunctionFields DEF Fn
        <5>3. Len(Fn.args) \in Nat /\ Len(Fn.code) \in Nat
            BY <5>2
        <5> QED  BY <4>2, <5>3 DEF Turns, InFunction
      <4> QED  BY <4>1, <4>2 DEF Turns, InFunction
    <3> QED  BY <3>1, <3>2
  <2>2. Body(turn + 1) \in Seq(Calls)
      BY <2>1, BodyTyped
  <2> QED  BY <1>5, <2>2 DEF Turn, TypeInv, tables, InFunction
<1>6. CASE StartConstants
    BY <1>6, ConstantCallsTyped
       DEF StartConstants, Enter, TypeInv, tables, InFunction
<1>7. CASE NextFunctionTypes
    BY <1>7, ArgumentTypesTyped
       DEF NextFunctionTypes, Enter, TypeInv, tables, InFunction
<1>8. CASE OptimizeModule
    BY <1>8 DEF OptimizeModule, Enter, TypeInv, InFunction
<1>9. CASE ReserveCasts
  <2>1. Call("type", unit.pointerTypes) \in Seq(Calls)
      BY UnitFields, CallsTyped DEF TypeInv
  <2>2. \/ UNCHANGED <<program, todo, stack>>
        \/ Enter("pointers", 0, Call("type", unit.pointerTypes))
      BY <1>9 DEF ReserveCasts
  <2>3. types' = types
      BY <1>9 DEF ReserveCasts
  <2> QED  BY <2>1, <2>2, <2>3 DEF Enter, TypeInv, program, InFunction
<1>10. CASE Complete
    BY <1>10 DEF Complete, Enter, TypeInv, tables, InFunction
<1>11. CASE Incorporate
    BY <1>11 DEF Incorporate, Enter, TypeInv, tables, InFunction
<1>12. CASE FunctionConstants
    BY <1>12 DEF FunctionConstants, Enter, TypeInv, tables, InFunction
<1>13. CASE FunctionInstructions
    BY <1>13 DEF FunctionInstructions, Enter, TypeInv, InFunction
<1>14. CASE purgeFunction
    BY <1>14 DEF purgeFunction, Enter, TypeInv, InFunction
<1>15. CASE UNCHANGED vars
    BY <1>15 DEF vars, program, tables, TypeInv, InFunction
<1> QED
    BY <1>1, <1>2, <1>3, <1>4, <1>5, <1>6, <1>7, <1>8, <1>9, <1>10, <1>11, <1>12,
       <1>13, <1>14, <1>15 DEF Next

\* The constructor begins with the opaque pointer type, for old targets.
LEMMA InitTyped == Init => TypeInv
<1> SUFFICES ASSUME Init PROVE TypeInv
    OBVIOUS
<1>1. unit \in Units /\ unit.functions \in Seq(Functions)
    BY UnitFields DEF Init
<1>2. todo \in Seq(Calls)
  <2>1. <<unit.opaquePtr>> \in Seq(Types)
    <3>1. unit.opaquePtr \in Types
        BY <1>1, UnitFields
    <3> QED  BY <3>1
  <2>2. Call("type", <<unit.opaquePtr>>) \in Seq(Calls)
      BY <2>1, CallsTyped
  <2> QED  BY <2>2, EmptySeq DEF Init
<1>3. Len(unit.functions) \in Nat
    BY <1>1
<1>4. stack \in Seq(Frames) /\ types \in Seq(Types)
    BY EmptySeq DEF Init
<1> QED  BY <1>1, <1>2, <1>3, <1>4 DEF Init, TypeInv, InFunction

-----------------------------------------------------------------------------
(* The type table *)

\* The parts of a type that is being enumerated are in the table as far as
\* they have been called, but for the one whose activation is above it.
PartsCalled(u, s, table, d) ==
    s[d][1] = "type" =>
        LET parts == u.subtypes[s[d][2]]
        IN /\ s[d][3] <= Len(parts)
           /\ \A k \in 1 .. s[d][3] :
                \/ parts[k] \in Members(table)
                \/ /\ k = s[d][3] /\ d < Len(s)
                   /\ s[d + 1][1] = "type" /\ s[d + 1][2] = parts[k]
PartsInTable == \A d \in 1 .. Len(stack) : PartsCalled(unit, stack, types, d)

TableInv == TypeInv /\ PartsInTable /\ TypeTable

\* An activation is left when its type is in the table: every other keeps its
\* parts, the one below has one more.
LEMMA PartsWithoutTop ==
    ASSUME TypeInv, PartsInTable, stack # <<>>, stack' = Below,
           unit' = unit, Members(types) \subseteq Members(types'),
           Top[1] = "type" => Top[2] \in Members(types')
    PROVE  PartsInTable'
<1>1. /\ Len(stack) \in Nat /\ Len(stack) > 0
      /\ Len(stack') = Len(stack) - 1
      /\ \A d \in 1 .. Len(stack) - 1 : stack'[d] = stack[d]
    BY TopOfStack
<1>2. ASSUME NEW d \in 1 .. Len(stack'), stack[d][1] = "type",
             NEW k \in 1 .. stack[d][3]
      PROVE  LET part == unit.subtypes[stack[d][2]][k]
             IN \/ part \in Members(types')
                \/ /\ k = stack[d][3] /\ d < Len(stack')
                   /\ stack'[d + 1][1] = "type" /\ stack'[d + 1][2] = part
  <2> DEFINE part == unit.subtypes[stack[d][2]][k]
  <2>1. d \in 1 .. Len(stack)
      BY <1>1
  <2>2. CASE part \in Members(types)
      BY <2>2
  <2>3. CASE /\ k = stack[d][3] /\ d < Len(stack)
             /\ stack[d + 1][1] = "type" /\ stack[d + 1][2] = part
    <3>1. CASE d + 1 = Len(stack)
        BY <2>3, <3>1 DEF Top
    <3>2. CASE d + 1 # Len(stack)
      <4>1. d + 1 \in 1 .. Len(stack) - 1 /\ d < Len(stack')
          BY <1>1, <1>2, <3>2
      <4> QED  BY <1>1, <2>3, <4>1
    <3> QED  BY <3>1, <3>2
  <2> QED  BY <1>2, <2>1, <2>2, <2>3 DEF PartsInTable, PartsCalled
<1>3. ASSUME NEW d \in 1 .. Len(stack')
      PROVE  PartsCalled(unit, stack', types', d)
  <2>1. d \in 1 .. Len(stack) /\ stack'[d] = stack[d]
      BY <1>1
  <2>2. stack[d][1] = "type" => stack[d][3] <= Len(unit.subtypes[stack[d][2]])
      BY <2>1 DEF PartsInTable, PartsCalled
  <2> QED  BY <1>2, <2>1, <2>2 DEF PartsCalled
<1> QED  BY <1>3 DEF PartsInTable

\* A call adds one activation, for the part that is next.
LEMMA PartsDescended ==
    ASSUME TypeInv, PartsInTable, Descend
    PROVE  PartsInTable'
<1>1. /\ Len(stack) \in Nat /\ Len(stack) > 0 /\ Top \in Frames
      /\ Len(stack') = Len(stack) + 1
      /\ \A d \in 1 .. Len(stack) - 1 : stack'[d] = stack[d]
      /\ stack'[Len(stack)] = <<Top[1], Top[2], Top[3] + 1>>
      /\ stack'[Len(stack) + 1] = Frame(Children(Top)[Top[3] + 1])
    BY DescendedStack, TopOfStack DEF Descend
<1>2. unit' = unit /\ types' = types /\ Top[3] < Len(Children(Top))
    BY DEF Descend, program, tables
<1>3. ASSUME NEW d \in 1 .. Len(stack')
      PROVE  PartsCalled(unit, stack', types, d)
  <2>1. CASE d = Len(stack) + 1
    <3>1. Frame(Children(Top)[Top[3] + 1])[3] = 0
        BY DEF Frame
    <3>2. stack'[d][1] = "type" => unit.subtypes[stack'[d][2]] \in Seq(Types)
      <4>1. stack'[d] \in Frames
          BY <1>1, <2>1, DescendedStack, ElementOfSeq
      <4> QED  BY <4>1, UnitFields DEF Frames, TypeInv
    <3> QED  BY <1>1, <2>1, <3>1, <3>2 DEF PartsCalled
  <2>2. CASE d = Len(stack)
    <3>1. CASE Top[1] = "type"
      <4> DEFINE parts == unit.subtypes[Top[2]]
      <4>1. parts \in Seq(Types) /\ Top[3] \in Nat
          BY <1>1, <3>1, UnitFields DEF Frames, TypeInv
      <4>2. Children(Top) = Call("type", parts)
          BY <3>1 DEF Children
      <4>3. /\ Len(Children(Top)) = Len(parts)
            /\ Children(Top)[Top[3] + 1] = <<"type", parts[Top[3] + 1]>>
        <5> HIDE DEF parts
        <5>1. /\ Len(Call("type", parts)) = Len(parts)
              /\ \A n \in 1 .. Len(parts) : Call("type", parts)[n] = <<"type", parts[n]>>
            BY <4>1, CallOfSeq
        <5>2. Top[3] + 1 \in 1 .. Len(parts)
            BY <1>2, <4>1, <4>2, <5>1
        <5> QED  BY <4>2, <5>1, <5>2
      <4>4. stack'[d + 1][1] = "type" /\ stack'[d + 1][2] = parts[Top[3] + 1]
          BY <1>1, <2>2, <4>3 DEF Frame
      <4>5. \A k \in 1 .. Top[3] : parts[k] \in Members(types)
          BY <1>1, <3>1 DEF PartsInTable, PartsCalled, Top
      <4>6. /\ stack'[d][1] = "type" /\ stack'[d][2] = Top[2]
            /\ stack'[d][3] = Top[3] + 1
          BY <1>1, <2>2, <3>1
      <4> HIDE DEF parts
      <4>7. \A k \in 1 .. Top[3] + 1 : k \in 1 .. Top[3] \/ k = Top[3] + 1
          BY <4>1
      <4>8. Top[3] + 1 <= Len(parts) /\ d < Len(stack')
          BY <1>1, <1>2, <2>2, <4>1, <4>3
      <4>9. \A k \in 1 .. stack'[d][3] :
              \/ parts[k] \in Members(types)
              \/ /\ k = stack'[d][3] /\ d < Len(stack')
                 /\ stack'[d + 1][1] = "type" /\ stack'[d + 1][2] = parts[k]
          BY <4>4, <4>5, <4>6, <4>7, <4>8
      <4>10. unit.subtypes[stack'[d][2]] = parts
          BY <4>6 DEF parts
      <4> QED  BY <4>6, <4>8, <4>9, <4>10, <1>2 DEF PartsCalled
    <3>2. CASE Top[1] # "type"
        BY <1>1, <2>2, <3>2 DEF PartsCalled
    <3> QED  BY <3>1, <3>2
  <2>3. CASE d \in 1 .. Len(stack) - 1
    <3>1. PartsCalled(unit, stack, types, d) /\ stack'[d] = stack[d]
        BY <1>1, <2>3 DEF PartsInTable
    <3>2. d + 1 # Len(stack) => stack'[d + 1] = stack[d + 1]
        BY <1>1, <2>3
    <3>3. stack'[d + 1][1] = stack[d + 1][1] /\ stack'[d + 1][2] = stack[d + 1][2]
        BY <1>1, <3>2 DEF Top
    <3> QED  BY <1>1, <2>3, <3>1, <3>3 DEF PartsCalled
  <2> QED  BY <1>1, <2>1, <2>2, <2>3
<1> QED  BY <1>2, <1>3 DEF PartsInTable

\* A type that is left has its parts before it, and is new.
LEMMA TableExtended ==
    ASSUME TableInv, Leave
    PROVE  TypeTable' /\ Members(types) \subseteq Members(types')
<1>1. Top \in Frames /\ Top[3] = Len(Children(Top)) /\ unit' = unit
    BY TopOfStack DEF Leave, TableInv, program
<1>2. CASE Top[1] # "type"
    BY <1>1, <1>2 DEF Leave, TableInv, TypeTable, TypesDistinct, TypesBuildable
<1>3. CASE Top[1] = "type" /\ InTypes(Top[2])
    BY <1>1, <1>3 DEF Leave, WithType, TableInv, TypeTable, TypesDistinct, TypesBuildable
<1>4. CASE Top[1] = "type" /\ ~InTypes(Top[2])
  <2> DEFINE t == Top[2]
             parts == unit.subtypes[t]
  <2>1. t \in Types /\ parts \in Seq(Types)
      BY <1>1, <1>4, UnitFields DEF Frames, TableInv, TypeInv
  <2>2. /\ types \in Seq(Types) /\ types' = Append(types, t)
        /\ t \notin Members(types)
      BY <1>4 DEF Leave, WithType, InTypes, TableInv, TypeInv
  <2>3. Top[3] = Len(parts)
      BY <1>1, <1>4, <2>1, CallOfSeq DEF Children
  <2>4. \A k \in 1 .. Len(parts) : parts[k] \in Members(types)
    <3>1. PartsCalled(unit, stack, types, Len(stack)) /\ Len(stack) \in Nat
        BY TopOfStack DEF TableInv, PartsInTable, Leave
    <3> QED  BY <1>4, <2>3, <3>1 DEF PartsCalled, Top
  <2> HIDE DEF t, parts
  <2>5. /\ Len(types') = Len(types) + 1 /\ Len(types) \in Nat
        /\ DOMAIN types = 1 .. Len(types) /\ DOMAIN types' = 1 .. Len(types) + 1
        /\ \A n \in 1 .. Len(types) : types'[n] = types[n]
        /\ types'[Len(types) + 1] = t
      BY <2>1, <2>2, AppendProperties
  <2>6. TypesDistinct'
      BY <2>2, <2>5 DEF TypesDistinct, TableInv, TypeTable, Members
  <2>7. Members(types) \subseteq Members(types')
      BY <2>5 DEF Members
  <2>8. TypesBuildable'
    <3>1. ASSUME NEW n \in 1 .. Len(types), NEW k \in DOMAIN unit.subtypes[types[n]]
          PROVE  \E m \in 1 .. n - 1 : types'[m] = unit.subtypes[types[n]][k]
      <4>1. PICK m \in 1 .. n - 1 : types[m] = unit.subtypes[types[n]][k]
          BY <2>5, <3>1 DEF TypesBuildable, TableInv, TypeTable
      <4> QED  BY <2>5, <4>1
    <3>2. ASSUME NEW k \in DOMAIN parts
          PROVE  \E m \in 1 .. Len(types) : types'[m] = parts[k]
        BY <2>1, <2>4, <2>5 DEF Members
    <3> QED  BY <1>1, <2>5, <3>1, <3>2 DEF TypesBuildable, parts
  <2> QED  BY <2>6, <2>7, <2>8 DEF TypeTable
<1> QED  BY <1>2, <1>3, <1>4

\* Steps that neither call nor return leave an empty stack, or no change.
LEMMA TablePreserved == ASSUME TableInv, [Next]_vars PROVE TableInv'
<1> USE DEF TableInv
<1>1. TypeInv'
    BY TypePreserved
<1>2. CASE Begin
  <2>1. unit' = unit /\ types' = types
      BY <1>2 DEF Begin, program, tables
  <2>2. todo \in Seq(Calls) /\ todo # <<>> /\ stack' = <<Frame(Head(todo))>>
      BY <1>2 DEF Begin, TypeInv
  <2>3. Len(stack') = 1 /\ stack'[1][3] = 0 /\ stack'[1] \in Frames
      BY <1>1, <2>2, ElementOfSeq DEF Frame, TypeInv
  <2>4. stack'[1][1] = "type" => unit.subtypes[stack'[1][2]] \in Seq(Types)
      BY <2>3, UnitFields DEF Frames, TypeInv
  <2>5. PartsInTable'
      BY <2>1, <2>3, <2>4 DEF PartsInTable, PartsCalled
  <2> QED  BY <1>1, <2>1, <2>5 DEF TypeTable, TypesDistinct, TypesBuildable
<1>3. CASE Return
  <2>1. /\ unit' = unit /\ types' = types /\ stack # <<>> /\ stack' = Below
        /\ Known(Top)
      BY <1>3 DEF Return, program
  <2>2. Top[1] = "type" => Top[2] \in Members(types')
      BY <2>1 DEF Known, InTypes
  <2>3. PartsInTable'
      BY <2>1, <2>2, PartsWithoutTop
  <2> QED  BY <1>1, <2>1, <2>3 DEF TypeTable, TypesDistinct, TypesBuildable
<1>4. CASE Descend
  <2>1. unit' = unit /\ types' = types
      BY <1>4 DEF Descend, program, tables
  <2> QED  BY <1>1, <1>4, <2>1, PartsDescended DEF TypeTable, TypesDistinct, TypesBuildable
<1>5. CASE Leave
  <2>1. unit' = unit /\ stack # <<>> /\ stack' = Below
      BY <1>5 DEF Leave, program
  <2>2. Top[1] = "type" => Top[2] \in Members(types')
    <3>1. Top \in Frames
        BY <2>1, TopOfStack
    <3> QED  BY <1>5, <3>1, WithTypeProperties DEF Leave, Frames, TypeInv
  <2>3. TypeTable' /\ Members(types) \subseteq Members(types')
      BY <1>5, TableExtended
  <2>4. PartsInTable'
      BY <2>1, <2>2, <2>3, PartsWithoutTop
  <2> QED  BY <1>1, <2>3, <2>4
<1>6. CASE UNCHANGED <<unit, stack, types>>
    BY <1>1, <1>6 DEF PartsInTable, TypeTable, TypesDistinct, TypesBuildable
<1>7. Begin \/ Return \/ Descend \/ Leave \/ UNCHANGED <<unit, stack, types>>
    BY DEF Next, vars, program, tables, Turn, StartConstants, NextFunctionTypes,
       OptimizeModule, ReserveCasts, Complete, Incorporate, FunctionConstants,
       FunctionInstructions, purgeFunction, Enter
<1> QED  BY <1>2, <1>3, <1>4, <1>5, <1>6, <1>7

\* The type table holds no type twice, and every type after its parts: the
\* reader, which numbers the entries as they come, can build each of them.
THEOREM TypeTableCorrect == Spec => []TypeTable
<1>1. Init => TableInv
    BY InitTyped, EmptySeq
       DEF Init, TableInv, PartsInTable, TypeTable, TypesDistinct, TypesBuildable
<1>2. TableInv /\ [Next]_vars => TableInv'
    BY TablePreserved
<1>3. TableInv => TypeTable
    BY DEF TableInv
<1> QED  BY <1>1, <1>2, <1>3, PTL DEF Spec

-----------------------------------------------------------------------------
(* Values *)

\* A map gives the slots of the list to some values.
SlotsOf(map, list) ==
    DOMAIN map \subseteq Values /\ \A v \in DOMAIN map : map[v] \in 1 .. Len(list)
ValuesTyped ==
    /\ values \in Seq(Values \X Nat)
    /\ SlotsOf(valueMap, values) /\ SlotsOf(castMap, values)
    /\ firstConstant \in Nat /\ numModuleValues \in Nat /\ firstFuncConstant \in Nat

\* Slots of bitcasts come after the sort of the module's constants, and before
\* everything a function adds and sorts.
ModuleSlots ==
    /\ phase \in {"globals", "constants", "types"} => DOMAIN castMap = {}
    /\ phase \in {"args", "consts", "insts"} =>
         /\ numModuleValues <= Len(values)
         /\ \A v \in DOMAIN castMap : castMap[v] <= numModuleValues
    /\ phase = "consts" => numModuleValues <= firstFuncConstant

\* A value gets its number only once: while it is being enumerated nobody else
\* can have given it one, because the values above it on the stack are its
\* parts.
IsOpen(s, d) == s[d][1] = "value" /\ s[d][3] > 0
PartOf(s, d, e) ==
    /\ s[d][1] = "value" \/ (s[d][1] = "pooled" /\ d = 1)
    /\ s[d][1] = "value" =>
         Nesting(unit)[s[e][2]] < Nesting(unit)[s[d][2]]
OpenValues ==
    /\ \A d \in 1 .. Len(stack) :
         /\ IsOpen(stack, d) => stack[d][2] \notin DOMAIN valueMap
         /\ stack[d][1] = "pooled" => d = 1
         /\ d < Len(stack) => stack[d][3] > 0
    /\ \A d, e \in 1 .. Len(stack) :
         d < e /\ stack[e][1] = "value" => PartOf(stack, d, e)

NumberingInv == TypeInv /\ ValuesTyped /\ ModuleSlots /\ OpenValues /\ Numbering

\* No slot comes before itself in the order of the sort.
LEMMA PrecedesIrreflexive == ASSUME NEW n \in Nat PROVE ~Precedes(n, n)
BY DEF Precedes

\* So the sort is a permutation: each slot goes to one place, and every place
\* is taken.
LEMMA SortPermutes ==
    ASSUME NEW from \in Nat, NEW to \in Nat,
           NEW p \in [from + 1 .. to -> from + 1 .. to],
           \A m, n \in from + 1 .. to : m < n => Precedes(p[m], p[n])
    PROVE  /\ \A m, n \in from + 1 .. to : p[m] = p[n] => m = n
           /\ \A k \in from + 1 .. to : \E n \in from + 1 .. to : p[n] = k
<1> DEFINE R == from + 1 .. to
<1>1. ASSUME NEW m \in R, NEW n \in R, p[m] = p[n] PROVE m = n
  <2>1. p[m] \in Nat /\ ~Precedes(p[m], p[m])
      BY <1>1, PrecedesIrreflexive
  <2>2. ~(m < n) /\ ~(n < m)
      BY <1>1, <2>1
  <2> QED  BY <1>1, <2>2
<1>2. IsFiniteSet(R)
    BY FS_Interval
<1> HIDE DEF R
<1>3. p \in Injection(R, R)
    BY <1>1 DEF Injection, IsInjective, R
<1>4. p \in Surjection(R, R)
    BY <1>2, <1>3, FS_Injection
<1> QED  BY <1>1, <1>4 DEF Surjection, R

\* Sorting the slots beyond `from' leaves list and map inverse to each other.
LEMMA SortKeepsNumbering ==
    ASSUME ValuesTyped, Numbering, NEW from \in Nat,
           \A v \in DOMAIN castMap : castMap[v] <= from,
           OptimizeConstants(from, Len(values)), castMap' = castMap
    PROVE  /\ values' \in Seq(Values \X Nat) /\ Len(values') = Len(values)
           /\ DOMAIN valueMap' = DOMAIN valueMap
           /\ SlotsOf(valueMap', values') /\ Numbering'
<1> DEFINE to == Len(values)
           R == from + 1 .. to
<1>1. to \in Nat /\ DOMAIN values = 1 .. to /\ R \subseteq 1 .. to
    BY DEF ValuesTyped
<1>2. PICK p \in [R -> R] :
        /\ \A m, n \in R : m < n => Precedes(p[m], p[n])
        /\ values' = [n \in DOMAIN values |->
                        IF n \in DOMAIN p THEN values[p[n]] ELSE values[n]]
        /\ valueMap' = [v \in DOMAIN valueMap |->
                          IF valueMap[v] \in DOMAIN p
                          THEN CHOOSE n \in DOMAIN p : p[n] = valueMap[v]
                          ELSE valueMap[v]]
    BY DEF OptimizeConstants
<1>3. /\ \A m, n \in R : p[m] = p[n] => m = n
      /\ \A k \in R : \E n \in R : p[n] = k
  <2> HIDE DEF to
  <2>1. /\ p \in [from + 1 .. to -> from + 1 .. to]
        /\ \A m, n \in from + 1 .. to : m < n => Precedes(p[m], p[n])
      BY <1>2
  <2>2. /\ \A m, n \in from + 1 .. to : p[m] = p[n] => m = n
        /\ \A k \in from + 1 .. to : \E n \in from + 1 .. to : p[n] = k
      BY <1>1, <2>1, SortPermutes, ZenonT(30)
  <2> QED  BY <2>2
<1>4. /\ DOMAIN p = R /\ \A n \in R : p[n] \in R
      /\ \A n \in 1 .. to : n \in R \/ n \notin R
    BY <1>2
<1> HIDE DEF R, to
<1>5. /\ DOMAIN values' = 1 .. to
      /\ \A n \in R : values'[n] = values[p[n]]
      /\ \A n \in 1 .. to : n \notin R => values'[n] = values[n]
    BY <1>1, <1>2, <1>4
<1>6. /\ DOMAIN valueMap' = DOMAIN valueMap
      /\ \A v \in DOMAIN valueMap :
           /\ valueMap[v] \notin R => valueMap'[v] = valueMap[v]
           /\ valueMap[v] \in R => valueMap'[v] \in R /\ p[valueMap'[v]] = valueMap[v]
    BY <1>2, <1>3, <1>4
<1>7. \A n \in 1 .. to : values[n] \in Values \X Nat
    BY <1>1, ElementOfSeq DEF ValuesTyped, to
<1>8. values' \in Seq(Values \X Nat) /\ Len(values') = to
  <2>1. ASSUME NEW n \in 1 .. to PROVE values'[n] \in Values \X Nat
    <3>1. CASE n \in R
      <4>1. p[n] \in 1 .. to
          BY <1>1, <1>4, <3>1
      <4> QED  BY <1>5, <1>7, <3>1, <4>1
    <3>2. CASE n \notin R
        BY <1>5, <1>7, <3>2
    <3> QED  BY <3>1, <3>2
  <2>2. values' = [n \in 1 .. to |-> values'[n]]
      BY <1>1, <1>2
  <2> QED  BY <1>1, <2>1, <2>2
<1>9. SlotsOf(valueMap', values')
    BY <1>1, <1>6, <1>8 DEF SlotsOf, ValuesTyped, to
<1>10. ASSUME NEW v \in DOMAIN valueMap PROVE values'[valueMap'[v]][1] = v
  <2>1. valueMap[v] \in 1 .. to /\ values[valueMap[v]][1] = v
      BY DEF Numbering, SlotsOf, ValuesTyped, to
  <2>2. CASE valueMap[v] \in R
    <3>1. valueMap'[v] \in R /\ p[valueMap'[v]] = valueMap[v]
        BY <1>6, <2>2
    <3>2. values'[valueMap'[v]] = values[p[valueMap'[v]]]
        BY <1>5, <3>1
    <3> QED  BY <2>1, <3>1, <3>2
  <2>3. CASE valueMap[v] \notin R
      BY <1>5, <1>6, <2>1, <2>3
  <2> QED  BY <2>2, <2>3
<1>11. \A v \in DOMAIN castMap : castMap[v] \in 1 .. to /\ castMap[v] \notin R
    BY <1>1 DEF SlotsOf, ValuesTyped, R, to
<1>12. \A v \in DOMAIN castMap' : values'[castMap'[v]][1] = v
    BY <1>5, <1>11 DEF Numbering
<1>13. ASSUME NEW n \in 1 .. to
       PROVE  LET v == values'[n][1]
              IN \/ v \in DOMAIN valueMap' /\ valueMap'[v] = n
                 \/ v \in DOMAIN castMap' /\ castMap'[v] = n
  <2>1. CASE n \in R
    <3> DEFINE v == values[p[n]][1]
    <3>1. p[n] \in R /\ p[n] \in 1 .. to /\ values'[n][1] = v
        BY <1>1, <1>4, <1>5, <2>1
    <3>2. v \in DOMAIN valueMap /\ valueMap[v] = p[n]
        BY <1>1, <1>11, <3>1 DEF Numbering
    <3> HIDE DEF v
    <3>3. valueMap'[v] \in R /\ p[valueMap'[v]] = p[n]
        BY <1>6, <3>1, <3>2
    <3>4. valueMap'[v] = n
        BY <1>3, <2>1, <3>3
    <3> QED  BY <1>6, <3>1, <3>2, <3>4
  <2>2. CASE n \notin R
      BY <1>1, <1>5, <1>6, <2>2 DEF Numbering
  <2> QED  BY <2>1, <2>2
<1>14. \A v \in DOMAIN valueMap', w \in DOMAIN castMap' : valueMap'[v] # castMap'[w]
    BY <1>6, <1>11 DEF Numbering
<1> QED  BY <1>5, <1>6, <1>8, <1>9, <1>10, <1>12, <1>13, <1>14 DEF Numbering, to

\* A value that is met again only gets a higher use count.
LEMMA ReturnKeepsNumbering ==
    ASSUME TypeInv, ValuesTyped, Numbering, Return
    PROVE  /\ values' \in Seq(Values \X Nat) /\ Len(values') = Len(values)
           /\ Numbering'
<1>1. valueMap' = valueMap /\ castMap' = castMap
    BY DEF Return
<1>2. CASE Top[1] # "value"
    BY <1>1, <1>2 DEF Return, Numbering, ValuesTyped
<1>3. CASE Top[1] = "value"
  <2> DEFINE slot == valueMap[Top[2]]
             entry == <<values[slot][1], values[slot][2] + 1>>
  <2>1. slot \in 1 .. Len(values) /\ values' = [values EXCEPT ![slot] = entry]
      BY <1>3 DEF Return, Known, ValuesTyped, SlotsOf
  <2>2. values[slot] \in Values \X Nat
      BY <2>1, ElementOfSeq DEF ValuesTyped
  <2>3. entry \in Values \X Nat
      BY <2>2
  <2> HIDE DEF slot, entry
  <2>4. /\ values' \in Seq(Values \X Nat) /\ Len(values') = Len(values)
        /\ \A n \in 1 .. Len(values) : values'[n] = IF n = slot THEN entry ELSE values[n]
      BY <2>1, <2>3, ExceptSeq DEF ValuesTyped
  <2>5. \A n \in 1 .. Len(values) : values'[n][1] = values[n][1]
    <3>1. entry[1] = values[slot][1]
        BY DEF entry
    <3> QED  BY <2>4, <3>1
  <2>6. DOMAIN values' = 1 .. Len(values) /\ DOMAIN values = 1 .. Len(values)
      BY <2>4 DEF ValuesTyped
  <2>7. /\ \A v \in DOMAIN valueMap : valueMap[v] \in 1 .. Len(values)
        /\ \A v \in DOMAIN castMap : castMap[v] \in 1 .. Len(values)
      BY DEF ValuesTyped, SlotsOf
  <2>8. Numbering'
      BY <1>1, <2>5, <2>6, <2>7 DEF Numbering
  <2> QED  BY <2>4, <2>8
<1> QED  BY <1>2, <1>3

\* A value that is left has no number yet.
LEMMA LeftIsNew ==
    ASSUME TypeInv, OpenValues, Leave, Top[1] = "value"
    PROVE  Top[2] \notin DOMAIN valueMap
<1>1. Top \in Frames /\ Len(stack) \in Nat /\ Len(stack) > 0
    BY TopOfStack DEF Leave
<1>2. Top[3] \in Nat
    BY <1>1 DEF Frames
<1>3. CASE Top[3] = 0
    BY <1>3 DEF Leave, Known
<1>4. CASE Top[3] > 0
    BY <1>1, <1>4 DEF OpenValues, IsOpen, Top
<1> QED  BY <1>2, <1>3, <1>4

\* A value that is left gets the slot behind all others, and its first one.
LEMMA LeaveKeepsNumbering ==
    ASSUME TypeInv, ValuesTyped, OpenValues, Numbering, Leave
    PROVE  ValuesTyped' /\ Numbering' /\ Len(values') >= Len(values)
<1>1. /\ castMap' = castMap /\ firstConstant' = firstConstant
      /\ numModuleValues' = numModuleValues /\ firstFuncConstant' = firstFuncConstant
    BY DEF Leave, marks
<1>2. values \in Seq(Values \X Nat) /\ Len(values) \in Nat
    BY DEF ValuesTyped
<1>3. CASE Top[1] # "value"
  <2>1. values' = values /\ valueMap' = valueMap
      BY <1>3 DEF Leave
  <2> QED  BY <1>1, <1>2, <2>1 DEF Numbering, ValuesTyped, SlotsOf
<1>4. CASE Top[1] = "value"
  <2> DEFINE v == Top[2]
             slot == Len(values) + 1
  <2>1. /\ values' = Append(values, <<v, 1>>)
        /\ valueMap' = [w \in DOMAIN valueMap \cup {v} |->
                          IF w = v THEN slot ELSE valueMap[w]]
      BY <1>4 DEF Leave
  <2>2. v \in Values /\ Len(stack) \in Nat /\ Len(stack) > 0 /\ Top[3] \in Nat
    <3>1. Top \in Frames /\ Len(stack) \in Nat /\ Len(stack) > 0
        BY TopOfStack DEF Leave
    <3> QED  BY <1>4, <3>1 DEF Frames
  <2>3. v \notin DOMAIN valueMap
      BY <1>4, LeftIsNew
  <2> HIDE DEF v
  <2>4. <<v, 1>> \in Values \X Nat
      BY <2>2
  <2>5. /\ values' \in Seq(Values \X Nat) /\ Len(values') = slot
        /\ \A n \in 1 .. Len(values) : values'[n] = values[n]
        /\ values'[slot] = <<v, 1>>
      BY <1>2, <2>1, <2>4, AppendProperties
  <2>6. /\ DOMAIN valueMap' = DOMAIN valueMap \cup {v} /\ valueMap'[v] = slot
        /\ \A w \in DOMAIN valueMap : valueMap'[w] = valueMap[w]
      BY <2>1, <2>3
  <2>7. /\ \A w \in DOMAIN valueMap : valueMap[w] \in 1 .. Len(values)
        /\ \A w \in DOMAIN castMap : castMap[w] \in 1 .. Len(values)
        /\ DOMAIN valueMap \subseteq Values /\ DOMAIN castMap \subseteq Values
      BY DEF ValuesTyped, SlotsOf
  <2>8. ValuesTyped'
      BY <1>1, <1>2, <2>2, <2>5, <2>6, <2>7 DEF ValuesTyped, SlotsOf
  <2>9. DOMAIN values = 1 .. Len(values) /\ DOMAIN values' = 1 .. slot
      BY <1>2, <2>5
  <2>10. \A n \in 1 .. slot : n \in 1 .. Len(values) \/ n = slot
      BY <1>2
  <2>11. \A w \in DOMAIN valueMap' : values'[valueMap'[w]][1] = w
      BY <2>5, <2>6, <2>7 DEF Numbering
  <2>12. \A w \in DOMAIN castMap' : values'[castMap'[w]][1] = w
      BY <1>1, <2>5, <2>7 DEF Numbering
  <2>13. \A n \in DOMAIN values' :
           LET w == values'[n][1]
           IN \/ w \in DOMAIN valueMap' /\ valueMap'[w] = n
              \/ w \in DOMAIN castMap' /\ castMap'[w] = n
      BY <1>1, <2>5, <2>6, <2>9, <2>10 DEF Numbering
  <2>14. \A w \in DOMAIN valueMap', x \in DOMAIN castMap' : valueMap'[w] # castMap'[x]
      BY <1>1, <1>2, <2>6, <2>7 DEF Numbering
  <2> QED  BY <1>2, <2>5, <2>8, <2>11, <2>12, <2>13, <2>14 DEF Numbering
<1> QED  BY <1>3, <1>4

\* A bitcast gets the slot behind all others.
LEMMA CastsKeepNumbering ==
    ASSUME TypeInv, ValuesTyped, Numbering, ReserveCasts
    PROVE  ValuesTyped' /\ Numbering'
<1>1. /\ valueMap' = valueMap /\ firstConstant' = firstConstant
      /\ numModuleValues' = numModuleValues /\ firstFuncConstant' = firstFuncConstant
    BY DEF ReserveCasts, marks
<1>2. values \in Seq(Values \X Nat) /\ Len(values) \in Nat
    BY DEF ValuesTyped
<1>3. \/ values' = values /\ castMap' = castMap
      \/ \E v \in CastElements \ DOMAIN castMap :
           /\ values' = Append(values, <<v, 1>>)
           /\ castMap' = [w \in DOMAIN castMap \cup {v} |->
                            IF w = v THEN Len(values) + 1 ELSE castMap[w]]
    BY DEF ReserveCasts
<1>4. CASE values' = values /\ castMap' = castMap
    BY <1>1, <1>4 DEF Numbering, ValuesTyped, SlotsOf
<1>5. ASSUME NEW v \in CastElements \ DOMAIN castMap,
             values' = Append(values, <<v, 1>>),
             castMap' = [w \in DOMAIN castMap \cup {v} |->
                           IF w = v THEN Len(values) + 1 ELSE castMap[w]]
      PROVE  ValuesTyped' /\ Numbering'
  <2> DEFINE slot == Len(values) + 1
  <2>1. v \in Values
    <3>1. PICK a \in unit.aggregates : v \in Members(unit.operands[a])
        BY <1>5 DEF CastElements
    <3>2. a \in Values /\ unit.operands[a] \in Seq(Values)
        BY <3>1, UnitFields DEF TypeInv
    <3> QED  BY <3>1, <3>2, ElementOfSeq DEF Members
  <2>2. <<v, 1>> \in Values \X Nat
      BY <2>1
  <2>3. /\ values' \in Seq(Values \X Nat) /\ Len(values') = slot
        /\ \A n \in 1 .. Len(values) : values'[n] = values[n]
        /\ values'[slot] = <<v, 1>>
      BY <1>2, <1>5, <2>2, AppendProperties
  <2>4. /\ DOMAIN castMap' = DOMAIN castMap \cup {v} /\ castMap'[v] = slot
        /\ \A w \in DOMAIN castMap : castMap'[w] = castMap[w]
      BY <1>5
  <2>5. /\ \A w \in DOMAIN valueMap : valueMap[w] \in 1 .. Len(values)
        /\ \A w \in DOMAIN castMap : castMap[w] \in 1 .. Len(values)
        /\ DOMAIN valueMap \subseteq Values /\ DOMAIN castMap \subseteq Values
      BY DEF ValuesTyped, SlotsOf
  <2>6. ValuesTyped'
      BY <1>1, <1>2, <2>1, <2>3, <2>4, <2>5 DEF ValuesTyped, SlotsOf
  <2>7. DOMAIN values = 1 .. Len(values) /\ DOMAIN values' = 1 .. slot
      BY <1>2, <2>3
  <2>8. \A n \in 1 .. slot : n \in 1 .. Len(values) \/ n = slot
      BY <1>2
  <2>9. \A w \in DOMAIN castMap' : values'[castMap'[w]][1] = w
      BY <2>3, <2>4, <2>5 DEF Numbering
  <2>10. \A w \in DOMAIN valueMap' : values'[valueMap'[w]][1] = w
      BY <1>1, <2>3, <2>5 DEF Numbering
  <2>11. \A n \in DOMAIN values' :
           LET w == values'[n][1]
           IN \/ w \in DOMAIN valueMap' /\ valueMap'[w] = n
              \/ w \in DOMAIN castMap' /\ castMap'[w] = n
      BY <1>1, <2>3, <2>4, <2>7, <2>8 DEF Numbering
  <2>12. \A w \in DOMAIN valueMap', x \in DOMAIN castMap' : valueMap'[w] # castMap'[x]
      BY <1>1, <1>2, <2>4, <2>5 DEF Numbering
  <2> QED  BY <2>6, <2>9, <2>10, <2>11, <2>12 DEF Numbering
<1> QED  BY <1>3, <1>4, <1>5

\* Purging takes the slots beyond the module's, and nothing of what is below
\* them: no value is in both.
LEMMA PurgeKeepsNumbering ==
    ASSUME ValuesTyped, ModuleSlots, Numbering, purgeFunction
    PROVE  ValuesTyped' /\ Numbering'
<1> DEFINE last == numModuleValues
           purged == {values[n][1] : n \in last + 1 .. Len(values)}
<1>1. /\ castMap' = castMap /\ firstConstant' = firstConstant
      /\ numModuleValues' = numModuleValues /\ firstFuncConstant' = firstFuncConstant
      /\ values' = SubSeq(values, 1, last)
      /\ valueMap' = [v \in DOMAIN valueMap \ purged |-> valueMap[v]]
    BY DEF purgeFunction, PurgedMap, marks
<1>2. /\ values \in Seq(Values \X Nat) /\ Len(values) \in Nat
      /\ last \in Nat /\ last <= Len(values)
      /\ DOMAIN values = 1 .. Len(values)
      /\ \A v \in DOMAIN castMap : castMap[v] \in 1 .. last
    BY DEF ValuesTyped, ModuleSlots, SlotsOf, purgeFunction, Incorporated
<1> HIDE DEF last
<1>3. /\ values' \in Seq(Values \X Nat) /\ Len(values') = last
      /\ \A n \in 1 .. last : values'[n] = values[n]
  <2>1. \A n \in 1 .. last : values[n] \in Values \X Nat
      BY <1>2, ElementOfSeq
  <2>2. /\ SubSeq(values, 1, last) \in Seq(Values \X Nat)
        /\ Len(SubSeq(values, 1, last)) = IF 1 <= last THEN last - 1 + 1 ELSE 0
        /\ \A n \in 1 .. last - 1 + 1 : SubSeq(values, 1, last)[n] = values[1 + n - 1]
      BY <1>2, <2>1, SubSeqProperties
  <2>3. last - 1 + 1 = last /\ (last >= 1 \/ last = 0)
      BY <1>2
  <2>4. \A n \in 1 .. last : 1 + n - 1 = n
      BY <1>2
  <2>5. Len(SubSeq(values, 1, last)) = last
      BY <2>2, <2>3
  <2> QED  BY <1>1, <2>2, <2>3, <2>4, <2>5
<1>4. \A v \in DOMAIN valueMap :
        valueMap[v] \in 1 .. Len(values) /\ values[valueMap[v]][1] = v
    BY DEF ValuesTyped, SlotsOf, Numbering
<1>5. ASSUME NEW n \in last + 1 .. Len(values) PROVE valueMap[values[n][1]] = n
  <2>1. n \in DOMAIN values /\ n \notin 1 .. last
      BY <1>2
  <2>2. ~(values[n][1] \in DOMAIN castMap /\ castMap[values[n][1]] = n)
      BY <1>2, <2>1
  <2> QED  BY <2>1, <2>2 DEF Numbering
<1>6. \A v \in DOMAIN valueMap : v \notin purged <=> valueMap[v] \in 1 .. last
  <2>1. \A v \in purged : valueMap[v] \in last + 1 .. Len(values)
      BY <1>5
  <2>2. \A v \in DOMAIN valueMap : valueMap[v] \in last + 1 .. Len(values) => v \in purged
      BY <1>4
  <2>3. \A v \in DOMAIN valueMap :
          valueMap[v] \in 1 .. last <=> valueMap[v] \notin last + 1 .. Len(values)
      BY <1>2, <1>4
  <2> QED  BY <2>1, <2>2, <2>3
<1> HIDE DEF purged
<1>7. /\ DOMAIN valueMap' = {v \in DOMAIN valueMap : valueMap[v] \in 1 .. last}
      /\ \A v \in DOMAIN valueMap' : valueMap'[v] = valueMap[v]
    BY <1>1, <1>6
<1>8. ValuesTyped'
    BY <1>1, <1>2, <1>3, <1>7 DEF ValuesTyped, SlotsOf
<1>9. DOMAIN values' = 1 .. last /\ 1 .. last \subseteq DOMAIN values
    BY <1>2, <1>3
<1>10. \A v \in DOMAIN valueMap' : values'[valueMap'[v]][1] = v
    BY <1>3, <1>4, <1>7
<1>11. \A v \in DOMAIN castMap' : values'[castMap'[v]][1] = v
    BY <1>1, <1>2, <1>3 DEF Numbering
<1>12. \A n \in DOMAIN values' :
         LET v == values'[n][1]
         IN \/ v \in DOMAIN valueMap' /\ valueMap'[v] = n
            \/ v \in DOMAIN castMap' /\ castMap'[v] = n
    BY <1>1, <1>3, <1>7, <1>9 DEF Numbering
<1>13. \A v \in DOMAIN valueMap', w \in DOMAIN castMap' : valueMap'[v] # castMap'[w]
    BY <1>1, <1>7 DEF Numbering
<1> QED  BY <1>8, <1>10, <1>11, <1>12, <1>13 DEF Numbering

\* The cutoffs move only at the ends of loops.
LEMMA SlotsPreserved ==
    ASSUME NumberingInv, ValuesTyped', Len(values') >= Len(values),
           [Next]_vars, ~purgeFunction
    PROVE  ModuleSlots'
<1>1. Len(values) \in Nat /\ Len(values') \in Nat /\ numModuleValues \in Nat
      /\ firstFuncConstant \in Nat
      /\ \A v \in DOMAIN castMap : castMap[v] \in 1 .. Len(values)
    BY DEF NumberingInv, ValuesTyped, SlotsOf
<1>2. CASE phase' = phase /\ castMap' = castMap /\ numModuleValues' = numModuleValues
           /\ firstFuncConstant' = firstFuncConstant
    BY <1>1, <1>2 DEF NumberingInv, ModuleSlots
<1>3. CASE StartConstants
    BY <1>3 DEF StartConstants, Enter, NumberingInv, ModuleSlots
<1>4. CASE NextFunctionTypes
    BY <1>4 DEF NextFunctionTypes, Enter, NumberingInv, ModuleSlots
<1>5. CASE OptimizeModule
    BY <1>5 DEF OptimizeModule, Enter, ModuleSlots
<1>6. CASE ReserveCasts
  <2>1. phase' = phase \/ phase' = "pointers"
      BY <1>6 DEF ReserveCasts, Enter, program
  <2> QED  BY <1>6, <2>1 DEF ReserveCasts, ModuleSlots
<1>7. CASE Complete
    BY <1>7 DEF Complete, Enter, ModuleSlots
<1>8. CASE Incorporate
    BY <1>1, <1>8 DEF Incorporate, Enter, tables, ModuleSlots
<1>9. CASE FunctionConstants
    BY <1>1, <1>9 DEF FunctionConstants, Enter, tables, NumberingInv, ModuleSlots
<1>10. CASE FunctionInstructions
    BY <1>1, <1>10 DEF FunctionInstructions, Enter, NumberingInv, ModuleSlots
<1>11. Begin \/ Return \/ Descend \/ Leave \/ Turn \/ UNCHANGED vars =>
         phase' = phase /\ castMap' = castMap /\ numModuleValues' = numModuleValues
         /\ firstFuncConstant' = firstFuncConstant
    BY DEF Begin, Return, Descend, Leave, Turn, vars, program, marks
<1> QED  BY <1>2, <1>3, <1>4, <1>5, <1>6, <1>7, <1>8, <1>9, <1>10, <1>11 DEF Next

-----------------------------------------------------------------------------
(* No value is given a number while it is being enumerated *)

\* The members of a sequence.
LEMMA MembersOfSeq == ASSUME NEW S, NEW s \in Seq(S) PROVE Members(s) \subseteq S
<1>1. Len(s) \in Nat /\ DOMAIN s = 1 .. Len(s) /\ \A n \in 1 .. Len(s) : s[n] \in S
    BY ElementOfSeq
<1> QED  BY <1>1 DEF Members

\* A sequence is one of whatever set its members are in.
LEMMA SeqOfMembers ==
    ASSUME NEW S, NEW T, NEW s \in Seq(S), \A x \in Members(s) : x \in T
    PROVE  s \in Seq(T)
<1>1. Len(s) \in Nat /\ DOMAIN s = 1 .. Len(s) /\ s = [n \in 1 .. Len(s) |-> s[n]]
    OBVIOUS
<1>2. \A n \in 1 .. Len(s) : s[n] \in T
    BY <1>1 DEF Members
<1> QED  BY <1>1, <1>2

\* What an activation calls is never a loop's own call, and a value is called
\* by the value it is part of, or by the loop over a body's operands.
LEMMA ChildKind ==
    ASSUME unit \in Units, NEW f \in Frames, NEW n \in 1 .. Len(Children(f))
    PROVE  LET c == Children(f)[n]
           IN /\ c[1] # "pooled"
              /\ c[1] = "value" => f[1] \in {"value", "pooled"}
              /\ c[1] = "value" /\ f[1] = "value" =>
                   Nesting(unit)[c[2]] < Nesting(unit)[f[2]]
<1> USE UnitFields
<1> DEFINE types1 == Call("type", <<unit.typeOf[f[2]]>>)
           parts == Call(f[1], Operands(f[2]))
<1>1. CASE f[1] = "type"
  <2>1. unit.subtypes[f[2]] \in Seq(Types)
      BY <1>1 DEF Frames
  <2>2. Children(f) \in Seq({"type"} \X Types)
      BY <1>1, <2>1, CallOfSeq DEF Children
  <2> QED  BY <1>1, <2>2, ElementOfSeq
<1>2. CASE f[1] \in {"value", "operand"}
  <2> DEFINE V == {v \in Values : f[1] = "value" =>
                                    Nesting(unit)[v] < Nesting(unit)[f[2]]}
             C == ({"type"} \X Types) \cup ({f[1]} \X V)
  <2>1. f[2] \in Values
      BY <1>2 DEF Frames
  <2>2. Operands(f[2]) \in Seq(V)
    <3>1. CASE ~IsPooled(f[2])
      <4>1. <<>> \in Seq(V)
          OBVIOUS
      <4> QED  BY <3>1, <4>1 DEF Operands
    <3>2. CASE IsPooled(f[2])
      <4>1. Operands(f[2]) = unit.operands[f[2]] /\ unit.operands[f[2]] \in Seq(Values)
          BY <2>1, <3>2 DEF Operands
      <4>2. f[2] \notin Members(unit.globals)
          BY <3>2 DEF IsPooled, Globals
      <4>3. \A w \in Members(unit.operands[f[2]]) :
              Nesting(unit)[w] < Nesting(unit)[f[2]]
          BY <2>1, <4>2, NestingAssumption
      <4>4. Members(unit.operands[f[2]]) \subseteq Values
          BY <4>1, MembersOfSeq
      <4>5. \A w \in Members(unit.operands[f[2]]) : w \in V
          BY <4>3, <4>4
      <4> HIDE DEF V
      <4> QED  BY <4>1, <4>5, SeqOfMembers
    <3> QED  BY <3>1, <3>2
  <2> HIDE DEF V
  <2>3. parts \in Seq(C)
    <3>1. parts \in Seq({f[1]} \X V)
        BY <2>2, CallOfSeq
    <3> QED  BY <3>1, SeqMonotonic
  <2>4. types1 \in Seq(C)
    <3>1. unit.typeOf[f[2]] \in Types
        BY <2>1
    <3>2. <<unit.typeOf[f[2]]>> \in Seq(Types)
        BY <3>1
    <3>3. types1 \in Seq({"type"} \X Types)
        BY <3>2, CallOfSeq
    <3> QED  BY <3>3, SeqMonotonic
  <2>5. SourceTypes(f) \in Seq(C)
    <3>1. unit.sourceTypes[f[2]] \in Seq(Types)
        BY <2>1
    <3>2. Call("type", unit.sourceTypes[f[2]]) \in Seq({"type"} \X Types)
        BY <3>1, CallOfSeq
    <3>3. Call("type", unit.sourceTypes[f[2]]) \in Seq(C) /\ <<>> \in Seq(C)
        BY <3>2, SeqMonotonic
    <3> QED  BY <3>3 DEF SourceTypes
  <2>6. Children(f) = types1 \o parts \o SourceTypes(f)
      BY <1>2 DEF Children
  <2> HIDE DEF C, types1, parts
  <2>7. types1 \o parts \in Seq(C)
      BY <2>3, <2>4, ConcatProperties
  <2>8. Children(f) \in Seq(C)
      BY <2>5, <2>6, <2>7, ConcatProperties
  <2>9. Children(f)[n] \in C
      BY <2>8, ElementOfSeq
  <2> QED  BY <1>2, <2>9 DEF C, V
<1>3. CASE f[1] = "pooled"
  <2>1. f[2] \in Values
      BY <1>3 DEF Frames
  <2>2. <<f[2]>> \in Seq(Values)
      BY <2>1
  <2>3. Call("value", <<f[2]>>) \in Seq({"value"} \X Values)
      BY <2>2, CallOfSeq
  <2>4. Children(f) \in Seq({"value"} \X Values)
      BY <1>3, <2>3 DEF Children
  <2>5. Children(f)[n] \in {"value"} \X Values
      BY <2>4, ElementOfSeq
  <2> QED  BY <1>3, <2>5
<1> QED  BY <1>1, <1>2, <1>3 DEF Frames

\* How deeply constants nest is a number.
LEMMA NestingTyped ==
    ASSUME unit \in Units, NEW v \in Values PROVE Nesting(unit)[v] \in Nat
BY NestingAssumption

\* A call puts a part above the value it is part of.
LEMMA OpenDescended ==
    ASSUME NumberingInv, Descend PROVE OpenValues'
<1> DEFINE len == Len(stack)
<1>1. /\ unit' = unit /\ valueMap' = valueMap /\ ~Known(Top)
      /\ Top[3] < Len(Children(Top)) /\ stack # <<>>
    BY DEF Descend, program, tables
<1>2. /\ len \in Nat /\ len > 0 /\ Top \in Frames /\ Top = stack[len]
      /\ \A d \in 1 .. len : stack[d] \in Frames
    BY <1>1, TopOfStack, ElementOfSeq DEF NumberingInv, TypeInv, Top
<1>3. /\ Top[3] \in Nat
      /\ \A d \in 1 .. len : stack[d][1] = "value" => stack[d][2] \in Values
    BY <1>2 DEF Frames
<1> DEFINE c == Children(Top)[Top[3] + 1]
<1>4. /\ Len(stack') = len + 1
      /\ \A d \in 1 .. len - 1 : stack'[d] = stack[d]
      /\ stack'[len] = <<Top[1], Top[2], Top[3] + 1>>
      /\ stack'[len + 1] = Frame(c) /\ c \in Calls
    BY DescendedStack DEF NumberingInv
<1>5. /\ c[1] # "pooled"
      /\ c[1] = "value" => Top[1] \in {"value", "pooled"}
      /\ c[1] = "value" /\ Top[1] = "value" =>
           Nesting(unit)[c[2]] < Nesting(unit)[Top[2]]
  <2>1. Children(Top) \in Seq(Calls)
      BY <1>2, ChildrenTyped DEF NumberingInv, TypeInv
  <2>2. Top[3] + 1 \in 1 .. Len(Children(Top))
      BY <1>1, <1>3, <2>1
  <2> QED  BY <1>2, <2>2, ChildKind DEF NumberingInv, TypeInv
<1>6. c[1] = "value" => c[2] \in Values
    BY <1>4 DEF Calls, TypeCalls, ValueCalls
<1> HIDE DEF c
<1>7. stack'[len + 1][1] = c[1] /\ stack'[len + 1][2] = c[2] /\ stack'[len + 1][3] = 0
    BY <1>4 DEF Frame
<1>8. \A d \in 1 .. len : stack'[d][1] = stack[d][1] /\ stack'[d][2] = stack[d][2]
  <2>1. \A d \in 1 .. len : d \in 1 .. len - 1 \/ d = len
      BY <1>2
  <2> QED  BY <1>2, <1>4, <2>1
<1> HIDE DEF len
<1>9. ASSUME NEW d \in 1 .. len + 1
      PROVE  /\ IsOpen(stack', d) => stack'[d][2] \notin DOMAIN valueMap
             /\ stack'[d][1] = "pooled" => d = 1
             /\ d < len + 1 => stack'[d][3] > 0
  <2>1. CASE d \in 1 .. len - 1
      BY <1>2, <1>4, <2>1 DEF NumberingInv, OpenValues, IsOpen, len
  <2>2. CASE d = len
    <3>1. Top[1] = "value" => Top[2] \notin DOMAIN valueMap
      <4>1. CASE Top[3] = 0
          BY <1>1, <4>1 DEF Known
      <4>2. CASE Top[3] > 0
          BY <1>2, <4>2 DEF NumberingInv, OpenValues, IsOpen, len
      <4> QED  BY <1>3, <4>1, <4>2
    <3>2. Top[1] = "pooled" => d = 1
        BY <1>2, <2>2 DEF NumberingInv, OpenValues, len
    <3> QED  BY <1>3, <1>4, <2>2, <3>1, <3>2 DEF IsOpen
  <2>3. CASE d = len + 1
      BY <1>5, <1>7, <2>3 DEF IsOpen
  <2> QED  BY <1>2, <2>1, <2>2, <2>3
<1>10. ASSUME NEW d \in 1 .. len, NEW e \in 1 .. len + 1, d < e, stack'[e][1] = "value"
       PROVE  /\ stack[d][1] = "value" \/ (stack[d][1] = "pooled" /\ d = 1)
              /\ stack[d][1] = "value" =>
                   Nesting(unit)[stack'[e][2]] < Nesting(unit)[stack[d][2]]
  <2>1. CASE e \in 1 .. len
      BY <1>8, <1>10, <2>1 DEF NumberingInv, OpenValues, PartOf, len
  <2>2. CASE e = len + 1 /\ d = len
    <3>1. Top[1] \in {"value", "pooled"} /\ (Top[1] = "pooled" => d = 1)
        BY <1>2, <1>5, <1>7, <1>10, <2>2 DEF NumberingInv, OpenValues, len
    <3> QED  BY <1>2, <1>5, <1>7, <1>10, <2>2, <3>1
  <2>3. CASE e = len + 1 /\ d < len
    <3>1. c[1] = "value" /\ Top[1] = "value"
      <4>1. Top[1] = "pooled" => len = 1
        <5>1. len \in 1 .. Len(stack) /\ stack[len][1] = Top[1]
            BY <1>2 DEF len
        <5> QED  BY <5>1 DEF NumberingInv, OpenValues
      <4> QED  BY <1>5, <1>7, <1>10, <2>3, <4>1
    <3>2. /\ stack[d][1] = "value" \/ (stack[d][1] = "pooled" /\ d = 1)
          /\ stack[d][1] = "value" =>
               Nesting(unit)[Top[2]] < Nesting(unit)[stack[d][2]]
        BY <1>2, <2>3, <3>1 DEF NumberingInv, OpenValues, PartOf, len
    <3>3. Nesting(unit)[c[2]] < Nesting(unit)[Top[2]]
        BY <1>5, <3>1
    <3>4. /\ Nesting(unit)[c[2]] \in Nat /\ Nesting(unit)[Top[2]] \in Nat
          /\ stack[d][1] = "value" => Nesting(unit)[stack[d][2]] \in Nat
      <4>1. c[2] \in Values /\ Top[2] \in Values
          BY <1>2, <1>3, <1>6, <3>1
      <4>2. stack[d][1] = "value" => stack[d][2] \in Values
          BY <1>3
      <4>3. unit \in Units
          BY DEF NumberingInv, TypeInv
      <4> QED  BY <4>1, <4>2, <4>3, NestingTyped
    <3> QED  BY <1>7, <2>3, <3>2, <3>3, <3>4
  <2> QED  BY <1>2, <2>1, <2>2, <2>3
<1>11. \A d \in 1 .. len + 1, e \in 1 .. len + 1 : d < e => d \in 1 .. len
    BY <1>2
<1> QED  BY <1>1, <1>4, <1>8, <1>9, <1>10, <1>11 DEF OpenValues, PartOf, len

\* A value that gets its number is part of those below it, and none of them.
LEMMA OpenPopped ==
    ASSUME NumberingInv, Return \/ Leave PROVE OpenValues'
<1>1. stack # <<>> /\ unit' = unit /\ stack' = Below
    BY DEF Return, Leave, program
<1>2. /\ Len(stack) \in Nat /\ Len(stack) > 0 /\ Top \in Frames
      /\ Len(stack') = Len(stack) - 1
      /\ \A d \in 1 .. Len(stack) - 1 : stack'[d] = stack[d]
    BY <1>1, TopOfStack DEF NumberingInv
<1>3. /\ Top[1] = "value" => DOMAIN valueMap' \subseteq DOMAIN valueMap \cup {Top[2]}
      /\ Top[1] # "value" => DOMAIN valueMap' = DOMAIN valueMap
    BY DEF Return, Leave
<1>4. ASSUME NEW d \in 1 .. Len(stack) - 1, IsOpen(stack, d)
      PROVE  stack[d][2] \notin DOMAIN valueMap'
  <2>1. stack[d][2] \notin DOMAIN valueMap
      BY <1>2, <1>4 DEF NumberingInv, OpenValues
  <2>2. CASE Top[1] = "value"
    <3>1. Nesting(unit)[Top[2]] < Nesting(unit)[stack[d][2]]
        BY <1>2, <1>4, <2>2 DEF NumberingInv, OpenValues, PartOf, IsOpen, Top
    <3>2. Nesting(unit)[Top[2]] \in Nat
      <4>1. Top[2] \in Values
          BY <1>2, <2>2 DEF Frames
      <4> QED  BY <4>1, NestingTyped DEF NumberingInv, TypeInv
    <3>3. stack[d][2] # Top[2]
        BY <3>1, <3>2
    <3> QED  BY <1>3, <2>1, <2>2, <3>3
  <2>3. CASE Top[1] # "value"
      BY <1>3, <2>1, <2>3
  <2> QED  BY <2>2, <2>3
<1>5. ASSUME NEW d \in 1 .. Len(stack) - 1
      PROVE  /\ stack[d][1] = "pooled" => d = 1
             /\ stack[d][3] > 0
    BY <1>2 DEF NumberingInv, OpenValues
<1>6. \A d, e \in 1 .. Len(stack) - 1 :
        d < e /\ stack[e][1] = "value" => PartOf(stack, d, e)
    BY <1>2 DEF NumberingInv, OpenValues
<1> QED  BY <1>1, <1>2, <1>4, <1>5, <1>6 DEF OpenValues, PartOf, IsOpen

\* Every step keeps the invariant.
LEMMA NumberingPreserved == ASSUME NumberingInv, [Next]_vars PROVE NumberingInv'
<1> USE DEF NumberingInv
<1>1. TypeInv'
    BY TypePreserved
<1>2. CASE Begin
  <2>1. UNCHANGED <<unit, values, valueMap, castMap, marks>>
      BY <1>2 DEF Begin, program, tables
  <2>2. todo \in Seq(Calls) /\ todo # <<>> /\ stack' = <<Frame(Head(todo))>>
      BY <1>2 DEF Begin, TypeInv
  <2>3. Len(stack') = 1 /\ stack'[1][3] = 0
      BY <2>2 DEF Frame
  <2>4. OpenValues'
      BY <2>3 DEF OpenValues, IsOpen
  <2>5. ValuesTyped' /\ Numbering' /\ Len(values') >= Len(values)
      BY <2>1 DEF ValuesTyped, SlotsOf, Numbering, marks
  <2>6. ModuleSlots'
      BY <1>2, <2>5, SlotsPreserved DEF Begin, purgeFunction, Incorporated, LoopEnds, Idle
  <2> QED  BY <1>1, <2>4, <2>5, <2>6
<1>3. CASE Return
  <2>1. values' \in Seq(Values \X Nat) /\ Len(values') = Len(values) /\ Numbering'
      BY <1>3, ReturnKeepsNumbering
  <2>2. UNCHANGED <<valueMap, castMap, firstConstant, numModuleValues, firstFuncConstant>>
      BY <1>3 DEF Return, marks
  <2>3. ValuesTyped' /\ Len(values') >= Len(values)
      BY <2>1, <2>2 DEF ValuesTyped, SlotsOf
  <2>4. ModuleSlots'
      BY <1>3, <2>3, SlotsPreserved DEF Return, purgeFunction, Incorporated, LoopEnds, Idle
  <2> QED  BY <1>1, <1>3, <2>1, <2>3, <2>4, OpenPopped
<1>4. CASE Descend
  <2>1. UNCHANGED <<unit, values, valueMap, castMap, marks>>
      BY <1>4 DEF Descend, program, tables
  <2>2. ValuesTyped' /\ Numbering' /\ Len(values') >= Len(values)
      BY <2>1 DEF ValuesTyped, SlotsOf, Numbering, marks
  <2>3. ModuleSlots'
      BY <1>4, <2>2, SlotsPreserved DEF Descend, purgeFunction, Incorporated, LoopEnds, Idle
  <2> QED  BY <1>1, <1>4, <2>2, <2>3, OpenDescended
<1>5. CASE Leave
  <2>1. ValuesTyped' /\ Numbering' /\ Len(values') >= Len(values)
      BY <1>5, LeaveKeepsNumbering
  <2>2. ModuleSlots'
      BY <1>5, <2>1, SlotsPreserved DEF Leave, purgeFunction, Incorporated, LoopEnds, Idle
  <2> QED  BY <1>1, <1>5, <2>1, <2>2, OpenPopped
<1>6. CASE OptimizeModule \/ FunctionInstructions
  <2> DEFINE from == IF OptimizeModule THEN firstConstant ELSE firstFuncConstant
  <2>1. /\ OptimizeConstants(from, Len(values)) /\ from \in Nat
        /\ \A v \in DOMAIN castMap : castMap[v] <= from
        /\ UNCHANGED <<unit, castMap, stack, firstConstant, numModuleValues,
                       firstFuncConstant>>
        /\ stack = <<>>
    <3>1. CASE OptimizeModule
        BY <3>1 DEF OptimizeModule, Enter, marks, ModuleSlots, ValuesTyped,
                    LoopEnds, Idle
    <3>2. CASE FunctionInstructions /\ ~OptimizeModule
      <4>1. \A v \in DOMAIN castMap : castMap[v] <= firstFuncConstant
          BY <3>2 DEF FunctionInstructions, ModuleSlots, ValuesTyped, SlotsOf
      <4> QED  BY <3>2, <4>1
               DEF FunctionInstructions, Enter, ValuesTyped, LoopEnds, Idle
    <3> QED  BY <1>6, <3>1, <3>2
  <2> HIDE DEF from
  <2>2. /\ values' \in Seq(Values \X Nat) /\ Len(values') = Len(values)
        /\ DOMAIN valueMap' = DOMAIN valueMap
        /\ SlotsOf(valueMap', values') /\ Numbering'
      BY <2>1, SortKeepsNumbering
  <2>3. ValuesTyped' /\ Len(values') >= Len(values)
      BY <2>1, <2>2 DEF ValuesTyped, SlotsOf
  <2>4. OpenValues'
      BY <2>1 DEF OpenValues
  <2>5. ModuleSlots'
      BY <1>6, <2>3, SlotsPreserved
         DEF OptimizeModule, FunctionInstructions, purgeFunction, Incorporated
  <2> QED  BY <1>1, <2>2, <2>3, <2>4, <2>5
<1>7. CASE ReserveCasts
  <2>1. ValuesTyped' /\ Numbering'
      BY <1>7, CastsKeepNumbering
  <2>2. UNCHANGED <<unit, stack, valueMap>>
      BY <1>7 DEF ReserveCasts, Enter, program
  <2>3. OpenValues'
      BY <2>2 DEF OpenValues, IsOpen, PartOf
  <2>4. Len(values') >= Len(values)
    <3>1. values' = values \/ \E v : values' = Append(values, <<v, 1>>)
        BY <1>7 DEF ReserveCasts
    <3> QED  BY <3>1 DEF ValuesTyped
  <2>5. ModuleSlots'
      BY <1>7, <2>1, <2>4, SlotsPreserved DEF ReserveCasts, purgeFunction, Incorporated
  <2> QED  BY <1>1, <2>1, <2>3, <2>5
<1>8. CASE purgeFunction
  <2>1. ValuesTyped' /\ Numbering'
      BY <1>8, PurgeKeepsNumbering
  <2>2. stack' = <<>> /\ phase' = "ready"
      BY <1>8 DEF purgeFunction, Enter, Incorporated, LoopEnds, Idle
  <2> QED  BY <1>1, <2>1, <2>2 DEF OpenValues, ModuleSlots
<1>9. CASE ~purgeFunction /\ UNCHANGED <<unit, stack, values, valueMap, castMap>>
           /\ ValuesTyped'
  <2>1. Numbering' /\ OpenValues' /\ Len(values') >= Len(values)
      BY <1>9 DEF Numbering, OpenValues, IsOpen, PartOf, ValuesTyped
  <2>2. ModuleSlots'
      BY <1>9, <2>1, SlotsPreserved
  <2> QED  BY <1>1, <1>9, <2>1, <2>2
<1>10. ASSUME Turn \/ StartConstants \/ NextFunctionTypes \/ Complete \/ Incorporate
              \/ FunctionConstants \/ UNCHANGED vars
       PROVE  UNCHANGED <<unit, stack, values, valueMap, castMap>> /\ ValuesTyped'
  <2>1. UNCHANGED <<unit, stack, values, valueMap, castMap>>
      BY <1>10 DEF Turn, StartConstants, NextFunctionTypes, Complete, Incorporate,
         FunctionConstants, vars, program, tables, Enter
  <2>2. /\ firstConstant' = firstConstant \/ firstConstant' = Len(values)
        /\ numModuleValues' = numModuleValues \/ numModuleValues' = Len(values)
        /\ firstFuncConstant' = firstFuncConstant \/ firstFuncConstant' = Len(values)
      BY <1>10 DEF Turn, StartConstants, NextFunctionTypes, Complete, Incorporate,
         FunctionConstants, vars, marks
  <2> QED  BY <2>1, <2>2 DEF ValuesTyped, SlotsOf
<1> QED  BY <1>2, <1>3, <1>4, <1>5, <1>6, <1>7, <1>8, <1>9, <1>10 DEF Next

\* At first there is nothing to number.
LEMMA NumberingStarts == ASSUME Init PROVE NumberingInv
<1>1. values = <<>> /\ valueMap = <<>> /\ castMap = <<>> /\ stack = <<>>
      /\ phase = "globals" /\ firstConstant = 0 /\ numModuleValues = 0
      /\ firstFuncConstant = 0
    BY DEF Init
<1> QED  BY <1>1, InitTyped
         DEF NumberingInv, ValuesTyped, SlotsOf, ModuleSlots, OpenValues, Numbering

\* The list of values and the map that numbers them are inverse to each other
\* whatever is enumerated, sorted, bridged or purged: a number in a record is
\* the number of one value, and the slots left over are those of bitcasts.
THEOREM NumberingCorrect == Spec => []Numbering
<1>1. Init => NumberingInv
    BY NumberingStarts
<1>2. NumberingInv /\ [Next]_vars => NumberingInv'
    BY NumberingPreserved
<1>3. NumberingInv => Numbering
    BY DEF NumberingInv
<1> QED  BY <1>1, <1>2, <1>3, PTL DEF Spec

\* A step of a function changes no number of the module's values.
LEMMA NumbersKept ==
    ASSUME NumberingInv, [Next]_vars, Constructed, NEW v \in DOMAIN valueMap,
           phase = "ready" \/ valueMap[v] <= numModuleValues
    PROVE  v \in DOMAIN valueMap' /\ valueMap'[v] = valueMap[v]
<1>1. /\ values \in Seq(Values \X Nat) /\ Len(values) \in Nat
      /\ valueMap[v] \in 1 .. Len(values) /\ values[valueMap[v]][1] = v
      /\ numModuleValues \in Nat /\ firstFuncConstant \in Nat
    BY DEF NumberingInv, ValuesTyped, SlotsOf, Numbering
<1>2. CASE Leave
    BY <1>2, LeftIsNew DEF Leave, NumberingInv
<1>3. CASE OptimizeModule
    BY <1>3 DEF OptimizeModule, Constructed
<1>4. CASE FunctionInstructions
  <2>1. valueMap[v] <= firstFuncConstant
      BY <1>1, <1>4 DEF FunctionInstructions, NumberingInv, ModuleSlots
  <2>2. valueMap[v] \notin firstFuncConstant + 1 .. Len(values)
      BY <1>1, <2>1
  <2>3. OptimizeConstants(firstFuncConstant, Len(values))
      BY <1>4 DEF FunctionInstructions
  <2> QED  BY <2>2, <2>3 DEF OptimizeConstants
<1>5. CASE purgeFunction
  <2>1. /\ valueMap[v] <= numModuleValues
        /\ \A w \in DOMAIN castMap : castMap[w] <= numModuleValues
      BY <1>5 DEF purgeFunction, Incorporated, NumberingInv, ModuleSlots
  <2>2. ASSUME NEW n \in numModuleValues + 1 .. Len(values) PROVE values[n][1] # v
    <3>1. n \in DOMAIN values /\ ~(n <= numModuleValues)
        BY <1>1
    <3>2. values[n][1] \notin DOMAIN castMap \/ castMap[values[n][1]] # n
        BY <2>1, <3>1
    <3>3. valueMap[values[n][1]] = n
        BY <3>1, <3>2 DEF NumberingInv, Numbering
    <3> QED  BY <2>1, <3>1, <3>3
  <2>3. valueMap' = PurgedMap
      BY <1>5 DEF purgeFunction
  <2> QED  BY <2>2, <2>3 DEF PurgedMap
<1>6. CASE valueMap' = valueMap
    BY <1>6
<1> QED  BY <1>2, <1>3, <1>4, <1>5, <1>6
         DEF Next, vars, tables, Begin, Return, Descend, Turn, StartConstants,
             NextFunctionTypes, ReserveCasts, Complete, Incorporate,
             FunctionConstants

\* The module's records are written with numbers that no function changes,
\* neither while it is incorporated nor when it is purged.
THEOREM ModuleNumbersKept == Spec => NumbersFrozen
<1>1. Init => NumberingInv
    BY NumberingStarts
<1>2. NumberingInv /\ [Next]_vars => NumberingInv'
    BY NumberingPreserved
<1>3. NumberingInv /\ [Next]_vars =>
        [Constructed =>
           \A v \in DOMAIN valueMap :
              phase = "ready" \/ valueMap[v] <= numModuleValues =>
                v \in DOMAIN valueMap' /\ valueMap'[v] = valueMap[v]]_vars
    BY NumbersKept
<1> QED  BY <1>1, <1>2, <1>3, PTL DEF Spec, NumbersFrozen

-----------------------------------------------------------------------------
(* What the loops call, and what their calls call *)

\* Three loops list values of their own: the globals, the arguments of a
\* function and its instructions that have a value.
Listing == phase \in {"globals", "args", "insts"}
Item(u, p, f, n) == CASE p = "globals" -> u.globals[n]
                      [] p = "args" -> u.functions[f].args[n]
                      [] p = "insts" -> u.functions[f].code[n].id
Listed(u, p, f, n) == p = "insts" => ~u.functions[f].code[n].void
\* The call, or the activation, for what an iteration lists.
Lists(n, c) == /\ n > 0 /\ Listed(unit, phase, fn, n)
               /\ c[1] = "value" /\ c[2] = Item(unit, phase, fn, n)

\* Such a loop makes this call first, and then only walks types; the other
\* loops number nothing that is inside of a function.
TurnsTaken == turn <= Turns
CallsOfTurn ==
    Listing =>
        /\ \A n \in 1 .. Len(todo) :
             todo[n][1] = "type" \/ (n = 1 /\ stack = <<>> /\ Lists(turn, todo[1]))
        /\ \A d \in 1 .. Len(stack) :
             stack[d][1] = "type" \/ (d = 1 /\ Lists(turn, stack[1]))
ConstantsOnly ==
    phase \notin {"args", "insts"} =>
        /\ \A n \in 1 .. Len(todo) : todo[n][1] = "value" => todo[n][2] \notin Locals
        /\ \A d \in 1 .. Len(stack) : stack[d][1] = "value" => stack[d][2] \notin Locals
TypesOnly ==
    /\ phase \in {"casts", "ready"} => stack = <<>> /\ todo = <<>>
    /\ phase = "pointers" =>
         /\ \A n \in 1 .. Len(todo) : todo[n][1] = "type"
         /\ \A d \in 1 .. Len(stack) : stack[d][1] = "type"
LoopsInv == TypeInv /\ TurnsTaken /\ CallsOfTurn /\ ConstantsOnly /\ TypesOnly

\* Calls for types, alone and after a call for a value.
AllTypes(s) == \A m \in 1 .. Len(s) : s[m][1] = "type"
Headed(s, v) == /\ Len(s) > 0 /\ s[1] = <<"value", v>>
                /\ \A m \in 2 .. Len(s) : s[m][1] = "type"

\* Calling for each type of a sequence makes calls for types only.
LEMMA TypeCallsOnly ==
    ASSUME NEW s \in Seq(Types)
    PROVE  Call("type", s) \in Seq(Calls) /\ AllTypes(Call("type", s))
<1>1. Call("type", s) \in Seq(Calls)
    BY CallsTyped
<1>2. /\ Len(Call("type", s)) = Len(s)
      /\ \A n \in 1 .. Len(s) : Call("type", s)[n] = <<"type", s[n]>>
    BY CallOfSeq
<1> QED  BY <1>1, <1>2 DEF AllTypes

\* Calls that begin with one for a value do so with more types behind them.
LEMMA HeadedConcat ==
    ASSUME NEW v, NEW s \in Seq(Calls), NEW t \in Seq(Calls), Headed(s, v), AllTypes(t)
    PROVE  s \o t \in Seq(Calls) /\ Headed(s \o t, v)
<1>1. /\ s \o t \in Seq(Calls) /\ Len(s \o t) = Len(s) + Len(t)
      /\ \A m \in 1 .. Len(s) + Len(t) :
           (s \o t)[m] = IF m <= Len(s) THEN s[m] ELSE t[m - Len(s)]
      /\ Len(s) \in Nat /\ Len(t) \in Nat
    BY ConcatProperties
<1>2. Len(s) > 0 /\ s[1] = <<"value", v>>
    BY DEF Headed
<1>3. ASSUME NEW m \in 2 .. Len(s \o t) PROVE (s \o t)[m][1] = "type"
  <2>1. CASE m <= Len(s)
    <3>1. m \in 2 .. Len(s) /\ (s \o t)[m] = s[m]
        BY <1>1, <2>1
    <3> QED  BY <3>1 DEF Headed
  <2>2. CASE m > Len(s)
    <3>1. m - Len(s) \in 1 .. Len(t) /\ (s \o t)[m] = t[m - Len(s)]
        BY <1>1, <2>2
    <3> QED  BY <3>1 DEF AllTypes
  <2> QED  BY <1>1, <2>1, <2>2
<1>4. 1 \in 1 .. Len(s) + Len(t) /\ 1 <= Len(s) /\ Len(s \o t) > 0
    BY <1>1, <1>2
<1>5. (s \o t)[1] = s[1]
    BY <1>1, <1>4
<1> QED  BY <1>1, <1>2, <1>3, <1>4, <1>5 DEF Headed

\* The calls of attributes are for types.
LEMMA AttributesAreTypes ==
    ASSUME unit \in Units, NEW v \in Values
    PROVE  EnumerateAttributes(v) \in Seq(Calls) /\ AllTypes(EnumerateAttributes(v))
<1>1. unit.typeAttributes[v] \in Seq(Types)
    BY UnitFields
<1>2. AllTypes(<<>>)
    BY DEF AllTypes
<1> QED  BY <1>1, <1>2, TypeCallsOnly, AttributesTyped DEF EnumerateAttributes

\* The call for one value.
LEMMA OneValue ==
    ASSUME NEW v \in Values
    PROVE  Call("value", <<v>>) \in Seq(Calls) /\ Headed(Call("value", <<v>>), v)
<1>1. <<v>> \in Seq(Values) /\ Len(<<v>>) = 1 /\ <<v>>[1] = v
    OBVIOUS
<1>2. Len(Call("value", <<v>>)) = 1 /\ Call("value", <<v>>)[1] = <<"value", v>>
  <2>1. /\ Len(Call("value", <<v>>)) = Len(<<v>>)
        /\ \A n \in 1 .. Len(<<v>>) : Call("value", <<v>>)[n] = <<"value", <<v>>[n]>>
      BY <1>1, CallOfSeq
  <2> QED  BY <1>1, <2>1
<1>3. Call("value", <<v>>) \in Seq(Calls)
    BY <1>1, CallsTyped
<1> QED  BY <1>2, <1>3 DEF Headed

\* An iteration of a loop that lists values begins with the value it lists.
LEMMA ListingBody ==
    ASSUME TypeInv, Listing, NEW n \in 1 .. Turns
    PROVE  /\ Item(unit, phase, fn, n) \in Values
           /\ Listed(unit, phase, fn, n) => Headed(Body(n), Item(unit, phase, fn, n))
           /\ ~Listed(unit, phase, fn, n) => Body(n) = <<>>
<1> USE DEF TypeInv
<1>1. CASE phase = "globals"
  <2>1. n \in 1 .. Len(unit.globals)
      BY <1>1 DEF Turns
  <2> DEFINE g == unit.globals[n]
  <2>2. g \in Values
      BY <2>1, UnitFields, ElementOfSeq
  <2>3. Call("value", <<g>>) \in Seq(Calls) /\ Headed(Call("value", <<g>>), g)
      BY <2>2, OneValue
  <2>4. /\ Call("type", unit.globalTypes[g]) \in Seq(Calls)
        /\ AllTypes(Call("type", unit.globalTypes[g]))
      BY <2>2, UnitFields, TypeCallsOnly
  <2>5. EnumerateAttributes(g) \in Seq(Calls) /\ AllTypes(EnumerateAttributes(g))
      BY <2>2, AttributesAreTypes
  <2>6. Item(unit, phase, fn, n) = g /\ Body(n) = GlobalCalls(g) /\ Listed(unit, phase, fn, n)
      BY <1>1 DEF Item, Body, Listed, Fn
  <2> HIDE DEF g
  <2>7. Headed(GlobalCalls(g), g)
      BY <2>3, <2>4, <2>5, HeadedConcat DEF GlobalCalls
  <2> QED  BY <2>2, <2>6, <2>7
<1>2. CASE phase = "args"
  <2>1. n \in 1 .. Len(Fn.args) /\ Fn.args \in Seq(Values)
      BY <1>2, FunctionFields DEF Turns, Fn, InFunction
  <2> DEFINE a == Fn.args[n]
  <2>2. a \in Values
      BY <2>1, ElementOfSeq
  <2>3. Call("value", <<a>>) \in Seq(Calls) /\ Headed(Call("value", <<a>>), a)
      BY <2>2, OneValue
  <2>4. EnumerateAttributes(a) \in Seq(Calls) /\ AllTypes(EnumerateAttributes(a))
      BY <2>2, AttributesAreTypes
  <2>5. /\ Item(unit, phase, fn, n) = a /\ Body(n) = ArgumentCalls(a)
        /\ Listed(unit, phase, fn, n)
      BY <1>2 DEF Item, Body, Listed, Fn
  <2> HIDE DEF a
  <2>6. Headed(ArgumentCalls(a), a)
      BY <2>3, <2>4, HeadedConcat DEF ArgumentCalls
  <2> QED  BY <2>2, <2>5, <2>6
<1>3. CASE phase = "insts"
  <2>1. n \in 1 .. Len(Fn.code) /\ Fn.code \in Seq(Instructions)
      BY <1>3, FunctionFields DEF Turns, Fn, InFunction
  <2> DEFINE i == Fn.code[n]
  <2>2. i \in Instructions
      BY <2>1, ElementOfSeq
  <2>3. /\ Item(unit, phase, fn, n) = i.id /\ Body(n) = InstructionCalls(i)
        /\ Listed(unit, phase, fn, n) <=> ~i.void
      BY <1>3 DEF Item, Body, Listed, Fn
  <2> HIDE DEF i
  <2>4. i.id \in Values
      BY <2>2, InstructionFields
  <2> QED  BY <2>3, <2>4, OneValue DEF InstructionCalls
<1> QED  BY <1>1, <1>2, <1>3 DEF Listing

\* What a loop lists is no constant of a pool.
LEMMA ItemScope ==
    ASSUME TypeInv, Listing, NEW n \in 1 .. Turns
    PROVE  /\ phase = "globals" => Item(unit, phase, fn, n) \in Globals
           /\ phase # "globals" => Item(unit, phase, fn, n) \in Locals
           /\ ~IsPooled(Item(unit, phase, fn, n))
<1>1. CASE phase = "globals"
  <2>1. n \in DOMAIN unit.globals
      BY <1>1, UnitFields DEF Turns, TypeInv
  <2> QED  BY <1>1, <2>1 DEF Item, Globals, Members, IsPooled
<1>2. CASE phase \in {"args", "insts"}
  <2>1. /\ fn \in 1 .. Len(unit.functions) /\ fn \in DOMAIN unit.functions
        /\ Fn.args \in Seq(Values) /\ Fn.code \in Seq(Instructions)
    <3>1. fn \in 1 .. Len(unit.functions) /\ unit.functions \in Seq(Functions)
        BY <1>2, UnitFields DEF TypeInv, InFunction
    <3> QED  BY <3>1, FunctionFields DEF Fn
  <2>2. Item(unit, phase, fn, n) \in LocalsOf(Fn)
    <3>1. CASE phase = "args"
      <4>1. n \in DOMAIN Fn.args
          BY <2>1, <3>1 DEF Turns
      <4> QED  BY <3>1, <4>1 DEF Item, Fn, LocalsOf, Members
    <3>2. CASE phase = "insts"
      <4>1. n \in DOMAIN Fn.code
          BY <2>1, <3>2 DEF Turns
      <4> QED  BY <3>2, <4>1 DEF Item, Fn, LocalsOf
    <3> QED  BY <1>2, <3>1, <3>2
  <2>3. Item(unit, phase, fn, n) \in Locals
      BY <2>1, <2>2 DEF Locals, LocalsIn, Fn
  <2> QED  BY <1>2, <2>3 DEF IsPooled, IsConstant
<1> QED  BY <1>1, <1>2 DEF Listing

\* No call for a value that is inside of a function.
NoneLocal(s) == \A m \in 1 .. Len(s) : s[m][1] = "value" => s[m][2] \notin Locals

\* If neither of two lists of calls is for a local value, both together are not.
LEMMA NoneLocalConcat ==
    ASSUME NEW s \in Seq(Calls), NEW t \in Seq(Calls), NoneLocal(s), NoneLocal(t)
    PROVE  s \o t \in Seq(Calls) /\ NoneLocal(s \o t)
<1>1. /\ s \o t \in Seq(Calls) /\ Len(s \o t) = Len(s) + Len(t)
      /\ \A m \in 1 .. Len(s) + Len(t) :
           (s \o t)[m] = IF m <= Len(s) THEN s[m] ELSE t[m - Len(s)]
      /\ Len(s) \in Nat /\ Len(t) \in Nat
    BY ConcatProperties
<1>2. ASSUME NEW m \in 1 .. Len(s \o t), (s \o t)[m][1] = "value"
      PROVE  (s \o t)[m][2] \notin Locals
  <2>1. CASE m <= Len(s)
    <3>1. m \in 1 .. Len(s) /\ (s \o t)[m] = s[m]
        BY <1>1, <2>1
    <3> QED  BY <1>2, <3>1 DEF NoneLocal
  <2>2. CASE m > Len(s)
    <3>1. m - Len(s) \in 1 .. Len(t) /\ (s \o t)[m] = t[m - Len(s)]
        BY <1>1, <2>2
    <3> QED  BY <1>2, <3>1 DEF NoneLocal
  <2> QED  BY <1>1, <2>1, <2>2
<1> QED  BY <1>1, <1>2 DEF NoneLocal

\* Calls for types are not for local values ...
LEMMA TypesNoneLocal ==
    ASSUME NEW s \in Seq(Types)
    PROVE  Call("type", s) \in Seq(Calls) /\ NoneLocal(Call("type", s))
BY TypeCallsOnly DEF AllTypes, NoneLocal

\* ... and those for values are not if the values are not local.
LEMMA ValuesNoneLocal ==
    ASSUME NEW kind \in {"value", "operand", "pooled"}, NEW s \in Seq(Values),
           kind = "value" => Members(s) \cap Locals = {}
    PROVE  Call(kind, s) \in Seq(Calls) /\ NoneLocal(Call(kind, s))
<1>1. /\ Len(Call(kind, s)) = Len(s)
      /\ \A n \in 1 .. Len(s) : Call(kind, s)[n] = <<kind, s[n]>>
    BY CallOfSeq
<1>2. DOMAIN s = 1 .. Len(s)
    OBVIOUS
<1>3. Call(kind, s) \in Seq(Calls)
    BY CallsTyped
<1> QED  BY <1>1, <1>2, <1>3 DEF NoneLocal, Members

\* Neither the module's constants nor those of a body are inside of a function.
LEMMA ConstantCallsScope == ASSUME unit \in Units PROVE NoneLocal(ConstantCalls)
<1>1. /\ Members(unit.globals) \cap Locals = {}
      /\ Members(unit.initializers) \cap Locals = {}
      /\ Members(unit.aliasees) \cap Locals = {}
      /\ Members(unit.metadata) \cap Locals = {}
    BY ScopesAssumption DEF Locals
<1>2. /\ Call("value", unit.initializers) \in Seq(Calls)
      /\ NoneLocal(Call("value", unit.initializers))
      /\ Call("value", unit.aliasees) \in Seq(Calls)
      /\ NoneLocal(Call("value", unit.aliasees))
      /\ Call("value", unit.globals) \in Seq(Calls)
      /\ NoneLocal(Call("value", unit.globals))
      /\ Call("value", unit.metadata) \in Seq(Calls)
      /\ NoneLocal(Call("value", unit.metadata))
    BY <1>1, UnitFields, ValuesNoneLocal
<1> QED  BY <1>2, NoneLocalConcat DEF ConstantCalls

\* Neither the walk over the types of a body nor that over its constants calls
\* for a local value.
LEMMA BodyScope ==
    ASSUME TypeInv, phase \in {"types", "consts"}, NEW n \in 1 .. Turns
    PROVE  NoneLocal(Body(n))
<1>1. /\ n \in 1 .. Len(Fn.code) /\ Fn.code \in Seq(Instructions)
      /\ fn \in DOMAIN unit.functions
  <2>1. unit.functions \in Seq(Functions)
      BY UnitFields DEF TypeInv
  <2> QED  BY <2>1, FunctionFields DEF Turns, Fn, InFunction, TypeInv
<1> DEFINE i == Fn.code[n]
<1>2. i \in Instructions /\ n \in DOMAIN Fn.code
    BY <1>1, ElementOfSeq
<1>3. Members(i.cases) \cap Locals = {}
    BY <1>1, <1>2, ScopesAssumption DEF Locals, Fn, TypeInv
<1> HIDE DEF i
<1>4. CASE phase = "types"
  <2>1. <<unit.typeOf[i.id]>> \in Seq(Types)
    <3>1. unit.typeOf[i.id] \in Types
        BY <1>2, InstructionFields, UnitFields DEF TypeInv
    <3> QED  BY <3>1
  <2>2. /\ Call("operand", i.ops) \in Seq(Calls) /\ NoneLocal(Call("operand", i.ops))
        /\ Call("type", i.types) \in Seq(Calls) /\ NoneLocal(Call("type", i.types))
        /\ Call("type", <<unit.typeOf[i.id]>>) \in Seq(Calls)
        /\ NoneLocal(Call("type", <<unit.typeOf[i.id]>>))
        /\ Call("type", i.call) \in Seq(Calls) /\ NoneLocal(Call("type", i.call))
      BY <1>2, <2>1, InstructionFields, TypesNoneLocal, ValuesNoneLocal
  <2>3. EnumerateAttributes(i.id) \in Seq(Calls) /\ NoneLocal(EnumerateAttributes(i.id))
      BY <1>2, InstructionFields, AttributesAreTypes DEF AllTypes, NoneLocal, TypeInv
  <2>4. NoneLocal(BodyTypeCalls(i))
      BY <2>2, <2>3, NoneLocalConcat DEF BodyTypeCalls
  <2> QED  BY <1>4, <2>4 DEF Body, i
<1>5. CASE phase = "consts"
  <2>1. /\ Call("pooled", i.ops) \in Seq(Calls) /\ NoneLocal(Call("pooled", i.ops))
        /\ Call("value", i.cases) \in Seq(Calls) /\ NoneLocal(Call("value", i.cases))
      BY <1>2, <1>3, InstructionFields, ValuesNoneLocal
  <2>2. NoneLocal(FuncConstantCalls(i))
      BY <2>1, NoneLocalConcat DEF FuncConstantCalls
  <2> QED  BY <1>5, <2>2 DEF Body, i
<1> QED  BY <1>4, <1>5

\* Constants are made of constants; a type, a global and what is inside of a
\* function call for types only.
LEMMA ChildScope ==
    ASSUME unit \in Units, NEW f \in Frames, NEW n \in 1 .. Len(Children(f))
    PROVE  LET c == Children(f)[n]
           IN /\ c[1] = "value" => c[2] \notin Locals
              /\ f[1] = "type" \/ (f[1] = "value" /\ ~IsPooled(f[2])) => c[1] = "type"
<1> USE UnitFields
<1>1. CASE f[1] = "type"
  <2>1. unit.subtypes[f[2]] \in Seq(Types)
      BY <1>1 DEF Frames
  <2>2. Children(f) \in Seq({"type"} \X Types)
      BY <1>1, <2>1, CallOfSeq DEF Children
  <2> QED  BY <1>1, <2>2, ElementOfSeq
<1>2. CASE f[1] \in {"value", "operand"}
  <2> DEFINE V == {v \in Values : IsPooled(f[2]) /\ v \notin Locals}
             C == ({"type"} \X Types) \cup ({f[1]} \X V)
             first == Call("type", <<unit.typeOf[f[2]]>>)
             parts == Call(f[1], Operands(f[2]))
  <2>1. f[2] \in Values
      BY <1>2 DEF Frames
  <2>2. Operands(f[2]) \in Seq(V)
    <3>1. CASE ~IsPooled(f[2])
      <4>1. <<>> \in Seq(V)
          OBVIOUS
      <4> QED  BY <3>1, <4>1 DEF Operands
    <3>2. CASE IsPooled(f[2])
      <4>1. Operands(f[2]) = unit.operands[f[2]] /\ unit.operands[f[2]] \in Seq(Values)
          BY <2>1, <3>2 DEF Operands
      <4>2. f[2] \in Values \ LocalsIn(unit)
          BY <2>1, <3>2 DEF IsPooled, IsConstant, Locals
      <4>3. \A w \in Members(unit.operands[f[2]]) : w \in V
          BY <3>2, <4>2, ScopesAssumption DEF Locals
      <4> HIDE DEF V
      <4> QED  BY <4>1, <4>3, SeqOfMembers
    <3> QED  BY <3>1, <3>2
  <2> HIDE DEF V
  <2>3. parts \in Seq(C)
    <3>1. parts \in Seq({f[1]} \X V)
        BY <2>2, CallOfSeq
    <3> QED  BY <3>1, SeqMonotonic
  <2>4. first \in Seq(C)
    <3>1. unit.typeOf[f[2]] \in Types
        BY <2>1
    <3>2. <<unit.typeOf[f[2]]>> \in Seq(Types)
        BY <3>1
    <3>3. first \in Seq({"type"} \X Types)
        BY <3>2, CallOfSeq
    <3> QED  BY <3>3, SeqMonotonic
  <2>5. SourceTypes(f) \in Seq(C)
    <3>1. unit.sourceTypes[f[2]] \in Seq(Types)
        BY <2>1
    <3>2. Call("type", unit.sourceTypes[f[2]]) \in Seq({"type"} \X Types)
        BY <3>1, CallOfSeq
    <3>3. Call("type", unit.sourceTypes[f[2]]) \in Seq(C) /\ <<>> \in Seq(C)
        BY <3>2, SeqMonotonic
    <3> QED  BY <3>3 DEF SourceTypes
  <2>6. Children(f) = first \o parts \o SourceTypes(f)
      BY <1>2 DEF Children
  <2> HIDE DEF C, first, parts
  <2>7. first \o parts \in Seq(C)
      BY <2>3, <2>4, ConcatProperties
  <2>8. Children(f) \in Seq(C)
      BY <2>5, <2>6, <2>7, ConcatProperties
  <2>9. Children(f)[n] \in C
      BY <2>8, ElementOfSeq
  <2> QED  BY <1>2, <2>9 DEF C, V
<1>3. CASE f[1] = "pooled"
  <2>1. f[2] \in Values
      BY <1>3 DEF Frames
  <2>2. CASE IsPooled(f[2])
    <3>1. <<f[2]>> \in Seq({v \in Values : v \notin Locals})
        BY <2>1, <2>2 DEF IsPooled, IsConstant
    <3>2. Children(f) \in Seq({"value"} \X {v \in Values : v \notin Locals})
        BY <1>3, <2>2, <3>1, CallOfSeq DEF Children
    <3>3. Children(f)[n] \in {"value"} \X {v \in Values : v \notin Locals}
        BY <3>2, ElementOfSeq
    <3> QED  BY <1>3, <3>3
  <2>3. CASE ~IsPooled(f[2])
    <3>1. Children(f) = <<>>
        BY <1>3, <2>3 DEF Children
    <3> QED  BY <3>1
  <2> QED  BY <2>2, <2>3
<1> QED  BY <1>1, <1>2, <1>3 DEF Frames

\* The number of iterations of a loop.
LEMMA TurnsTyped == TypeInv => Turns \in Nat
<1> SUFFICES ASSUME TypeInv PROVE Turns \in Nat
    OBVIOUS
<1>1. CASE phase = "globals"
    BY <1>1, UnitFields DEF Turns, TypeInv
<1>2. CASE InFunction
  <2>1. fn \in 1 .. Len(unit.functions)
      BY <1>2 DEF TypeInv
  <2>2. Fn.args \in Seq(Values) /\ Fn.code \in Seq(Instructions)
      BY <2>1, FunctionFields DEF Fn
  <2> QED  BY <1>2, <2>2 DEF Turns, InFunction
<1> QED  BY <1>1, <1>2 DEF Turns, InFunction

\* So it is after a step.
LEMMA NextTurnsTyped == TypeInv' => (Turns \in Nat)'
BY TurnsTyped, PTL

\* A loop's next call begins.
LEMMA BegunCall ==
    ASSUME TypeInv, Begin
    PROVE  /\ Len(stack') = 1 /\ stack'[1] = <<todo[1][1], todo[1][2], 0>>
           /\ todo[1] \in Calls /\ todo[1] = <<todo[1][1], todo[1][2]>>
           /\ Len(todo) \in Nat /\ Len(todo) > 0 /\ Len(todo') = Len(todo) - 1
           /\ \A n \in 1 .. Len(todo) - 1 : todo'[n] = todo[n + 1]
<1>1. todo \in Seq(Calls) /\ todo # <<>> /\ todo' = Tail(todo)
      /\ stack' = <<Frame(Head(todo))>>
    BY DEF Begin, TypeInv
<1>2. /\ Len(todo) \in Nat /\ Len(todo) > 0 /\ Head(todo) = todo[1]
      /\ Len(todo') = Len(todo) - 1
      /\ \A n \in 1 .. Len(todo) - 1 : todo'[n] = todo[n + 1]
    BY <1>1
<1>3. todo[1] \in Calls
    BY <1>1, <1>2, ElementOfSeq
<1>4. todo[1] = <<todo[1][1], todo[1][2]>>
    BY <1>3 DEF Calls, TypeCalls, ValueCalls
<1> QED  BY <1>1, <1>2, <1>3, <1>4 DEF Frame

\* No step calls for anything else.
LEMMA LoopsPreserved == ASSUME LoopsInv, [Next]_vars PROVE LoopsInv'
<1> USE DEF LoopsInv
<1>1. TypeInv'
    BY TypePreserved
<1>2. CASE Begin
  <2>1. UNCHANGED program
      BY <1>2 DEF Begin
  <2>2. /\ Len(stack') = 1 /\ stack'[1] = <<todo[1][1], todo[1][2], 0>>
        /\ Len(todo) \in Nat /\ Len(todo) > 0 /\ Len(todo') = Len(todo) - 1
        /\ \A n \in 1 .. Len(todo) - 1 : todo'[n] = todo[n + 1]
      BY <1>2, BegunCall
  <2>3. /\ 1 \in 1 .. Len(todo) /\ stack' # <<>>
        /\ \A n \in 1 .. Len(todo') : n + 1 \in 1 .. Len(todo) /\ n + 1 # 1
        /\ \A d \in 1 .. Len(stack') : d = 1
        /\ stack'[1][1] = todo[1][1] /\ stack'[1][2] = todo[1][2]
    <3>1. stack' # <<>>
        BY <1>2 DEF Begin
    <3>2. \A n \in 1 .. Len(todo') : n + 1 \in 1 .. Len(todo) /\ n + 1 # 1
        BY <2>2
    <3>3. 1 \in 1 .. Len(todo) /\ \A d \in 1 .. Len(stack') : d = 1
        BY <2>2
    <3>4. stack'[1][1] = todo[1][1] /\ stack'[1][2] = todo[1][2]
        BY <2>2
    <3> QED  BY <3>1, <3>2, <3>3, <3>4
  <2>4. CallsOfTurn'
      BY <2>1, <2>2, <2>3 DEF CallsOfTurn, Listing, Lists, program
  <2>5. ConstantsOnly'
      BY <2>1, <2>2, <2>3, SMTT(30) DEF ConstantsOnly, Locals, program
  <2>6. TypesOnly'
      BY <1>2, <2>1, <2>2, <2>3 DEF TypesOnly, program, Begin
  <2>7. TurnsTaken'
      BY <2>1 DEF TurnsTaken, program, Turns, Fn
  <2> QED  BY <1>1, <2>4, <2>5, <2>6, <2>7
<1>3. CASE Return \/ Leave
  <2>1. UNCHANGED <<program, todo>> /\ stack # <<>> /\ stack' = Below
      BY <1>3 DEF Return, Leave
  <2>2. /\ Len(stack) \in Nat /\ Len(stack') = Len(stack) - 1
        /\ \A d \in 1 .. Len(stack) - 1 : stack'[d] = stack[d]
      BY <2>1, TopOfStack
  <2>3. \A d \in 1 .. Len(stack') : d \in 1 .. Len(stack) /\ stack'[d] = stack[d]
      BY <2>2
  <2>4. CallsOfTurn'
    <3>1. \A n \in 1 .. Len(todo) : Listing => todo[n][1] = "type"
        BY <2>1 DEF CallsOfTurn
    <3> QED  BY <2>1, <2>3, <3>1 DEF CallsOfTurn, Listing, Lists, program
  <2>5. ConstantsOnly'
      BY <2>1, <2>3 DEF ConstantsOnly, Locals, program
  <2>6. TypesOnly'
      BY <2>1, <2>3 DEF TypesOnly, program
  <2>7. TurnsTaken'
      BY <2>1 DEF TurnsTaken, program, Turns, Fn
  <2> QED  BY <1>1, <2>4, <2>5, <2>6, <2>7
<1>4. CASE Descend
  <2> DEFINE c == Children(Top)[Top[3] + 1]
             len == Len(stack)
  <2>1. UNCHANGED <<program, todo>> /\ stack # <<>> /\ Top[3] < Len(Children(Top))
      BY <1>4 DEF Descend
  <2>2. /\ len \in Nat /\ len > 0 /\ Top \in Frames /\ Top = stack[len]
        /\ Len(stack') = len + 1
        /\ \A d \in 1 .. len - 1 : stack'[d] = stack[d]
        /\ stack'[len] = <<Top[1], Top[2], Top[3] + 1>>
        /\ stack'[len + 1] = Frame(c)
      BY <1>4, <2>1, DescendedStack, TopOfStack DEF Top
  <2>3. Top[3] + 1 \in 1 .. Len(Children(Top))
    <3>1. Children(Top) \in Seq(Calls) /\ Top[3] \in Nat
        BY <2>2, ChildrenTyped DEF TypeInv, Frames
    <3> QED  BY <2>1, <3>1
  <2>4. /\ c[1] = "value" => c[2] \notin Locals
        /\ Top[1] = "type" \/ (Top[1] = "value" /\ ~IsPooled(Top[2])) => c[1] = "type"
      BY <2>2, <2>3, ChildScope DEF TypeInv
  <2> HIDE DEF c
  <2>5. stack'[len + 1][1] = c[1] /\ stack'[len + 1][2] = c[2]
      BY <2>2 DEF Frame
  <2>6. \A d \in 1 .. len : stack'[d][1] = stack[d][1] /\ stack'[d][2] = stack[d][2]
    <3>1. \A d \in 1 .. len : d \in 1 .. len - 1 \/ d = len
        BY <2>2
    <3> QED  BY <2>2, <3>1
  <2>7. \A d \in 1 .. Len(stack') : d \in 1 .. len \/ d = len + 1
      BY <2>2
  <2>8. len \in 1 .. len /\ 1 \in 1 .. len /\ stack' # <<>>
      BY <2>2
  <2>9. CallsOfTurn'
    <3>1. Listing => c[1] = "type"
      <4> SUFFICES ASSUME Listing PROVE c[1] = "type"
          OBVIOUS
      <4>1. Top[1] = "type" \/ (len = 1 /\ Lists(turn, Top))
          BY <2>2, <2>8 DEF CallsOfTurn, len
      <4>2. Lists(turn, Top) => Top[1] = "value" /\ ~IsPooled(Top[2])
        <5>1. Lists(turn, Top) => turn \in 1 .. Turns
            BY TurnsTyped DEF Lists, TurnsTaken, TypeInv
        <5> QED  BY <5>1, ItemScope DEF Lists
      <4> QED  BY <2>4, <4>1, <4>2
    <3> HIDE DEF len
    <3>2. Listing => \A d \in 1 .. len :
                       stack[d][1] = "type" \/ (d = 1 /\ Lists(turn, stack[1]))
        BY DEF CallsOfTurn, len
    <3>3. \A n \in 1 .. Len(todo) : Listing => todo[n][1] = "type"
        BY <2>1 DEF CallsOfTurn
    <3> QED  BY <2>1, <2>5, <2>6, <2>7, <2>8, <3>1, <3>2, <3>3
             DEF CallsOfTurn, Listing, Lists, program
  <2>10. ConstantsOnly'
      BY <2>1, <2>4, <2>5, <2>6, <2>7 DEF ConstantsOnly, Locals, program, len
  <2>11. TypesOnly'
      BY <2>1, <2>2, <2>4, <2>5, <2>6, <2>7, <2>8 DEF TypesOnly, program, len
  <2>12. TurnsTaken'
      BY <2>1 DEF TurnsTaken, program, Turns, Fn
  <2> QED  BY <1>1, <2>9, <2>10, <2>11, <2>12
<1>5. CASE Turn
  <2>1. UNCHANGED <<unit, phase, fn>> /\ turn < Turns /\ turn' = turn + 1
        /\ todo' = Body(turn + 1) /\ stack = <<>> /\ stack' = <<>>
      BY <1>5 DEF Turn, Idle
  <2>2. turn + 1 \in 1 .. Turns /\ turn \in Nat
      BY <2>1, TurnsTyped DEF TypeInv
  <2>3. CallsOfTurn'
    <3>1. ASSUME Listing PROVE \A n \in 1 .. Len(todo') :
            todo'[n][1] = "type" \/ (n = 1 /\ Lists(turn + 1, todo'[1]))
      <4>1. CASE Listed(unit, phase, fn, turn + 1)
        <5>1. Headed(todo', Item(unit, phase, fn, turn + 1))
            BY <2>1, <2>2, <3>1, <4>1, ListingBody
        <5>2. \A n \in 1 .. Len(todo') : n = 1 \/ n \in 2 .. Len(todo')
          <6>1. Len(todo') \in Nat
              BY <1>1 DEF TypeInv
          <6> QED  BY <6>1
        <5> QED  BY <2>2, <4>1, <5>1, <5>2 DEF Headed, Lists
      <4>2. CASE ~Listed(unit, phase, fn, turn + 1)
        <5>1. todo' = <<>>
            BY <2>1, <2>2, <3>1, <4>2, ListingBody
        <5> QED  BY <5>1
      <4> QED  BY <4>1, <4>2
    <3> QED  BY <2>1, <3>1 DEF CallsOfTurn, Listing, Lists
  <2>4. ConstantsOnly'
    <3>1. CASE phase \in {"types", "consts"}
      <4>1. NoneLocal(todo')
          BY <2>1, <2>2, <3>1, BodyScope
      <4> QED  BY <2>1, <4>1 DEF NoneLocal, ConstantsOnly, Locals
    <3>2. CASE phase = "globals"
      <4>1. \A n \in 1 .. Len(todo') : todo'[n][1] = "type" \/ Lists(turn + 1, todo'[n])
          BY <2>1, <2>3, <3>2 DEF CallsOfTurn, Listing, Lists
      <4>2. Item(unit, phase, fn, turn + 1) \in Globals
          BY <2>2, <3>2, ItemScope DEF Listing
      <4>3. Globals \cap Locals = {}
          BY ScopesAssumption DEF Globals, Locals, TypeInv
      <4>4. NoneLocal(todo')
          BY <4>1, <4>2, <4>3 DEF NoneLocal, Lists
      <4> QED  BY <2>1, <4>4 DEF NoneLocal, ConstantsOnly, Locals
    <3>3. CASE phase \notin {"globals", "types", "args", "consts", "insts"}
        BY <2>2, <3>3 DEF Turns
    <3> QED  BY <2>1, <3>1, <3>2, <3>3 DEF ConstantsOnly
  <2>5. TypesOnly'
      BY <2>1, <2>2 DEF TypesOnly, Turns
  <2>6. TurnsTaken'
    <3>1. Turns' = Turns
        BY <2>1 DEF Turns, Fn
    <3> QED  BY <2>1, <2>2, <3>1 DEF TurnsTaken
  <2> QED  BY <1>1, <2>3, <2>4, <2>5, <2>6
<1>6. CASE StartConstants
  <2>1. unit' = unit /\ phase' = "constants" /\ stack = <<>> /\ stack' = <<>>
        /\ todo' = ConstantCalls /\ turn' = 0
      BY <1>6 DEF StartConstants, Enter, LoopEnds, Idle
  <2>2. NoneLocal(todo')
      BY <2>1, ConstantCallsScope DEF TypeInv
  <2> QED  BY <1>1, <2>1, <2>2, TurnsTyped
           DEF NoneLocal, CallsOfTurn, Listing, ConstantsOnly, TypesOnly, TurnsTaken,
               Turns, Locals
<1>7. CASE NextFunctionTypes
  <2>1. unit' = unit /\ phase' = "types" /\ stack = <<>> /\ stack' = <<>>
        /\ todo' = ArgumentTypes(unit.functions[fn + 1]) /\ turn' = 0
        /\ fn + 1 \in 1 .. Len(unit.functions)
      BY <1>7 DEF NextFunctionTypes, Enter, LoopEnds, Idle, TypeInv
  <2> DEFINE args == unit.functions[fn + 1].args
  <2>2. [k \in DOMAIN args |-> unit.typeOf[args[k]]] \in Seq(Types)
    <3>1. args \in Seq(Values) /\ DOMAIN args = 1 .. Len(args) /\ Len(args) \in Nat
        BY <2>1, FunctionFields
    <3>2. \A k \in 1 .. Len(args) : unit.typeOf[args[k]] \in Types
        BY <3>1, UnitFields, ElementOfSeq DEF TypeInv
    <3> QED  BY <3>1, <3>2
  <2>3. NoneLocal(todo')
      BY <2>1, <2>2, TypesNoneLocal DEF ArgumentTypes
  <2>4. TurnsTaken'
    <3>1. Turns' \in Nat
        BY <1>1, NextTurnsTyped
    <3> QED  BY <2>1, <3>1 DEF TurnsTaken
  <2> QED  BY <1>1, <2>1, <2>3, <2>4
           DEF NoneLocal, CallsOfTurn, Listing, ConstantsOnly, TypesOnly, Locals
<1>8. CASE \/ OptimizeModule \/ Complete \/ Incorporate \/ FunctionConstants
           \/ FunctionInstructions \/ purgeFunction
  <2>1. unit' = unit /\ turn' = 0 /\ stack' = <<>> /\ todo' = <<>>
    <3>1. CASE Incorporate
        BY <3>1 DEF Incorporate, Enter, TypesOnly
    <3> QED  BY <1>8, <3>1 DEF OptimizeModule, Complete, FunctionConstants,
             FunctionInstructions, purgeFunction, Enter, Incorporated, LoopEnds, Idle
  <2>2. TurnsTaken'
    <3>1. Turns' \in Nat
        BY <1>1, NextTurnsTyped
    <3> QED  BY <2>1, <3>1 DEF TurnsTaken
  <2> QED  BY <1>1, <2>1, <2>2 DEF CallsOfTurn, ConstantsOnly, TypesOnly
<1>9. CASE ReserveCasts
  <2>1. phase = "casts" /\ stack = <<>> /\ todo = <<>> /\ unit' = unit
      BY <1>9 DEF ReserveCasts, TypesOnly, Enter, program
  <2>2. CASE UNCHANGED <<program, todo, stack>>
      BY <1>1, <2>1, <2>2 DEF CallsOfTurn, Listing, ConstantsOnly, TypesOnly, TurnsTaken,
               Turns, Fn, program
  <2>3. CASE Enter("pointers", 0, Call("type", unit.pointerTypes))
    <3>1. AllTypes(Call("type", unit.pointerTypes))
        BY UnitFields, TypeCallsOnly DEF TypeInv
    <3>2. todo' = Call("type", unit.pointerTypes) /\ stack' = <<>> /\ turn' = 0
          /\ phase' = "pointers"
        BY <2>1, <2>3 DEF Enter
    <3> QED  BY <1>1, <3>1, <3>2 DEF AllTypes, CallsOfTurn, Listing, ConstantsOnly,
             TypesOnly, TurnsTaken, Turns
  <2> QED  BY <1>9, <2>2, <2>3 DEF ReserveCasts
<1>10. CASE UNCHANGED vars
    BY <1>1, <1>10 DEF vars, program, CallsOfTurn, Listing, Lists, ConstantsOnly,
       TypesOnly, TurnsTaken, Turns, Fn, Locals
<1> QED  BY <1>2, <1>3, <1>4, <1>5, <1>6, <1>7, <1>8, <1>9, <1>10 DEF Next

\* At first only the opaque pointer type may be called for.
LEMMA LoopsStart == ASSUME Init PROVE LoopsInv
<1>1. TypeInv /\ phase = "globals" /\ turn = 0 /\ stack = <<>>
    BY InitTyped DEF Init
<1>2. AllTypes(todo)
  <2>1. <<unit.opaquePtr>> \in Seq(Types)
    <3>1. unit.opaquePtr \in Types
        BY <1>1, UnitFields DEF TypeInv
    <3> QED  BY <3>1
  <2>2. AllTypes(Call("type", <<unit.opaquePtr>>))
      BY <2>1, TypeCallsOnly
  <2>3. AllTypes(<<>>)
      BY DEF AllTypes
  <2> QED  BY <2>2, <2>3 DEF Init
<1> QED  BY <1>1, <1>2, TurnsTyped DEF LoopsInv, AllTypes, CallsOfTurn, ConstantsOnly,
         TypesOnly, TurnsTaken

-----------------------------------------------------------------------------
(* The numbers of globals, arguments and instructions *)

\* Among the first n.
Count(u, p, f, n) == Cardinality({k \in 1 .. n : Listed(u, p, f, k)})
FirstSlot == CASE phase = "globals" -> 0
               [] phase = "args" -> numModuleValues
               [] phase = "insts" -> firstInst
\* The value of this iteration has no number yet.
Pending == \/ stack = <<>> /\ todo # <<>> /\ todo[1][1] = "value"
           \/ stack # <<>> /\ stack[1][1] = "value"
ListedInOrder ==
    Listing =>
        /\ Len(values) = FirstSlot + Count(unit, phase, fn, turn)
                         - (IF Pending THEN 1 ELSE 0)
        /\ \A n \in 1 .. Turns :
             Listed(unit, phase, fn, n) =>
               LET v == Item(unit, phase, fn, n)
               IN IF n < turn \/ (n = turn /\ ~Pending)
                  THEN /\ v \in DOMAIN valueMap
                       /\ valueMap[v] = FirstSlot + Count(unit, phase, fn, n)
                  ELSE v \notin DOMAIN valueMap

\* What was listed keeps its numbers until it is purged.
GlobalsKept ==
    /\ phase # "globals" =>
         /\ firstConstant = Len(unit.globals)
         /\ \A n \in 1 .. Len(unit.globals) :
              /\ unit.globals[n] \in DOMAIN valueMap
              /\ valueMap[unit.globals[n]] = n
    /\ phase \in {"args", "consts", "insts"} => firstConstant <= numModuleValues
ArgumentsKept ==
    phase \in {"consts", "insts"} =>
        /\ firstFuncConstant = numModuleValues + Len(Fn.args)
        /\ \A n \in 1 .. Len(Fn.args) :
             /\ Fn.args[n] \in DOMAIN valueMap
             /\ valueMap[Fn.args[n]] = numModuleValues + n

\* Only the function that is incorporated has numbers for what is inside, and
\* they are beyond the module's.
LocalsScoped ==
    \A v \in DOMAIN valueMap \cap Locals :
        /\ phase \in {"args", "consts", "insts"}
        /\ valueMap[v] > numModuleValues
        /\ phase # "insts" => v \in Members(Fn.args)

ScopesInv ==
    /\ NumberingInv /\ LoopsInv /\ firstInst \in Nat
    /\ ListedInOrder /\ GlobalsKept /\ ArgumentsKept /\ LocalsScoped

\* Each listed item counts once.
LEMMA CountStarts == \A u, p, f : Count(u, p, f, 0) = 0
<1>1. \A u, p, f : {k \in 1 .. 0 : Listed(u, p, f, k)} = {}
    OBVIOUS
<1> QED  BY <1>1, FS_EmptySet DEF Count

\* What is counted is finite.
LEMMA CountFinite ==
    ASSUME NEW u, NEW p, NEW f, NEW n \in Nat
    PROVE  /\ IsFiniteSet({k \in 1 .. n : Listed(u, p, f, k)})
           /\ Count(u, p, f, n) \in Nat
<1>1. IsFiniteSet(1 .. n)
    BY FS_Interval
<1>2. {k \in 1 .. n : Listed(u, p, f, k)} \subseteq 1 .. n
    OBVIOUS
<1> QED  BY <1>1, <1>2, FS_Subset, FS_CardinalityType DEF Count

\* An iteration counts if it lists a value.
LEMMA CountStep ==
    ASSUME NEW u, NEW p, NEW f, NEW n \in Nat
    PROVE  Count(u, p, f, n + 1) =
             Count(u, p, f, n) + (IF Listed(u, p, f, n + 1) THEN 1 ELSE 0)
<1> DEFINE S == {k \in 1 .. n : Listed(u, p, f, k)}
           T == {k \in 1 .. n + 1 : Listed(u, p, f, k)}
<1>1. IsFiniteSet(S) /\ Cardinality(S) \in Nat
    BY CountFinite DEF Count
<1>2. \A k : k \in 1 .. n + 1 <=> k \in 1 .. n \/ k = n + 1
    OBVIOUS
<1>3. CASE Listed(u, p, f, n + 1)
  <2>1. T = S \cup {n + 1}
      BY <1>2, <1>3
  <2>2. n + 1 \notin S
      OBVIOUS
  <2>3. Cardinality(S \cup {n + 1}) = Cardinality(S) + 1
      BY <1>1, <2>2, FS_AddElement
  <2> QED  BY <1>3, <2>1, <2>3 DEF Count
<1>4. CASE ~Listed(u, p, f, n + 1)
  <2>1. T = S
      BY <1>2, <1>4
  <2> QED  BY <1>1, <1>4, <2>1 DEF Count
<1> QED  BY <1>3, <1>4

\* Every global and every argument is listed.
LEMMA CountAll ==
    ASSUME NEW u, NEW p, NEW f, NEW n \in Nat, p # "insts"
    PROVE  Count(u, p, f, n) = n
<1>1. {k \in 1 .. n : Listed(u, p, f, k)} = 1 .. n
    BY DEF Listed
<1>2. Cardinality(1 .. n) = n
    BY FS_Interval
<1> QED  BY <1>1, <1>2 DEF Count

\* No loop lists a value twice.
LEMMA ItemsDistinct ==
    ASSUME TypeInv, Listing, NEW m \in 1 .. Turns, NEW n \in 1 .. Turns,
           Item(unit, phase, fn, m) = Item(unit, phase, fn, n)
    PROVE  m = n
<1>1. unit \in Units
    BY DEF TypeInv
<1>2. CASE phase = "globals"
  <2>1. m \in DOMAIN unit.globals /\ n \in DOMAIN unit.globals
    <3>1. Turns = Len(unit.globals) /\ unit.globals \in Seq(Values)
        BY <1>1, <1>2, UnitFields DEF Turns
    <3> QED  BY <3>1
  <2>2. Distinct(unit.globals)
      BY <1>1, ScopesAssumption
  <2> QED  BY <1>2, <2>1, <2>2 DEF Distinct, Item
<1>3. CASE phase \in {"args", "insts"}
  <2>1. /\ fn \in 1 .. Len(unit.functions) /\ fn \in DOMAIN unit.functions
        /\ Fn.args \in Seq(Values) /\ Fn.code \in Seq(Instructions)
    <3>1. fn \in 1 .. Len(unit.functions) /\ unit.functions \in Seq(Functions)
      <4>1. unit.functions \in Seq(Functions)
          BY <1>1, UnitFields
      <4>2. fn \in Nat /\ fn > 0 /\ fn <= Len(unit.functions)
          BY <1>3 DEF TypeInv, InFunction
      <4> QED  BY <4>1, <4>2
    <3>2. fn \in DOMAIN unit.functions
        BY <3>1
    <3>3. Fn.args \in Seq(Values) /\ Fn.code \in Seq(Instructions)
        BY <3>1, FunctionFields DEF Fn
    <3> QED  BY <3>1, <3>2, <3>3
  <2> DEFINE args == Fn.args
             ids == [k \in DOMAIN Fn.code |-> Fn.code[k].id]
             all == args \o ids
  <2>2. Distinct(all)
      BY <1>1, <2>1, ScopesAssumption DEF Fn
  <2>3. ids \in Seq(Values) /\ Len(ids) = Len(Fn.code)
        /\ \A k \in 1 .. Len(Fn.code) : ids[k] = Fn.code[k].id
    <3>1. \A k \in 1 .. Len(Fn.code) : Fn.code[k].id \in Values
        BY <2>1, ElementOfSeq, InstructionFields
    <3>2. DOMAIN Fn.code = 1 .. Len(Fn.code) /\ Len(Fn.code) \in Nat
        BY <2>1
    <3> QED  BY <3>1, <3>2
  <2>4. args \in Seq(Values)
      BY <2>1
  <2> HIDE DEF args, ids
  <2>5. /\ all \in Seq(Values) /\ Len(all) = Len(args) + Len(ids)
        /\ DOMAIN all = 1 .. Len(args) + Len(ids)
        /\ \A k \in 1 .. Len(args) + Len(ids) :
             all[k] = IF k <= Len(args) THEN args[k] ELSE ids[k - Len(args)]
        /\ Len(args) \in Nat /\ Len(ids) \in Nat
    <3>1. /\ all \in Seq(Values) /\ Len(all) = Len(args) + Len(ids)
          /\ \A k \in 1 .. Len(args) + Len(ids) :
               all[k] = IF k <= Len(args) THEN args[k] ELSE ids[k - Len(args)]
      <4>1. \A s, t \in Seq(Values) :
               /\ s \o t \in Seq(Values) /\ Len(s \o t) = Len(s) + Len(t)
               /\ \A k \in 1 .. Len(s) + Len(t) :
                    (s \o t)[k] = IF k <= Len(s) THEN s[k] ELSE t[k - Len(s)]
          BY ConcatProperties
      <4>2. args \in Seq(Values) /\ ids \in Seq(Values)
          BY <2>3, <2>4
      <4> QED  BY <4>1, <4>2
    <3> QED  BY <2>3, <2>4, <3>1
  <2> HIDE DEF all
  <2>6. CASE phase = "args"
    <3>1. m \in 1 .. Len(args) /\ n \in 1 .. Len(args)
        BY <2>6 DEF Turns, args
    <3>2. all[m] = args[m] /\ all[n] = args[n]
        BY <2>5, <3>1
    <3>3. args[m] = args[n]
        BY <2>6 DEF Item, args, Fn
    <3>4. m \in DOMAIN all /\ n \in DOMAIN all
        BY <2>5, <3>1
    <3> QED  BY <2>2, <3>2, <3>3, <3>4 DEF Distinct
  <2>7. CASE phase = "insts"
    <3>1. m \in 1 .. Len(ids) /\ n \in 1 .. Len(ids)
        BY <2>3, <2>7 DEF Turns
    <3>2. /\ m + Len(args) \in DOMAIN all /\ n + Len(args) \in DOMAIN all
          /\ all[m + Len(args)] = ids[m] /\ all[n + Len(args)] = ids[n]
      <4>1. m + Len(args) \in DOMAIN all /\ ~(m + Len(args) <= Len(args))
            /\ m + Len(args) - Len(args) = m
          BY <2>5, <3>1
      <4>2. n + Len(args) \in DOMAIN all /\ ~(n + Len(args) <= Len(args))
            /\ n + Len(args) - Len(args) = n
          BY <2>5, <3>1
      <4> QED  BY <2>5, <4>1, <4>2
    <3>3. ids[m] = ids[n]
        BY <2>3, <2>7, <3>1 DEF Item, Fn
    <3>4. m + Len(args) = n + Len(args)
        BY <2>2, <3>2, <3>3 DEF Distinct
    <3> QED  BY <2>5, <3>1, <3>4
  <2> QED  BY <1>3, <2>6, <2>7
<1> QED  BY <1>2, <1>3 DEF Listing

\* An instruction is no argument.
LEMMA NoArgument ==
    ASSUME unit \in Units, NEW f \in 1 .. Len(unit.functions),
           NEW k \in 1 .. Len(unit.functions[f].code)
    PROVE  unit.functions[f].code[k].id \notin Members(unit.functions[f].args)
<1> DEFINE args == unit.functions[f].args
           code == unit.functions[f].code
           ids == [j \in DOMAIN code |-> code[j].id]
           all == args \o ids
<1>1. /\ args \in Seq(Values) /\ code \in Seq(Instructions) /\ f \in DOMAIN unit.functions
  <2>1. unit.functions \in Seq(Functions)
      BY UnitFields
  <2>2. unit.functions[f] \in Functions
      BY <2>1, ElementOfSeq
  <2> QED  BY <2>1, <2>2 DEF Functions
<1>2. Distinct(all)
    BY <1>1, ScopesAssumption
<1>3. ids \in Seq(Values) /\ Len(ids) = Len(code) /\ ids[k] = code[k].id
  <2>1. \A j \in 1 .. Len(code) : code[j].id \in Values
      BY <1>1, ElementOfSeq, InstructionFields
  <2>2. DOMAIN code = 1 .. Len(code) /\ Len(code) \in Nat
      BY <1>1
  <2> QED  BY <2>1, <2>2
<1> HIDE DEF args, ids, code
<1>4. /\ all \in Seq(Values) /\ Len(all) = Len(args) + Len(ids)
      /\ \A j \in 1 .. Len(args) + Len(ids) :
           all[j] = IF j <= Len(args) THEN args[j] ELSE ids[j - Len(args)]
  <2>1. args \in Seq(Values) /\ ids \in Seq(Values)
      BY <1>1, <1>3
  <2> QED  BY <2>1, ConcatProperties
<1>5. DOMAIN all = 1 .. Len(args) + Len(ids) /\ Len(args) \in Nat /\ Len(ids) \in Nat
      /\ DOMAIN args = 1 .. Len(args)
    BY <1>1, <1>3, <1>4
<1> HIDE DEF all
<1>6. k \in 1 .. Len(ids)
    BY <1>3 DEF code
<1>7. k + Len(args) \in DOMAIN all /\ all[k + Len(args)] = ids[k]
  <2>1. k + Len(args) \in 1 .. Len(args) + Len(ids) /\ ~(k + Len(args) <= Len(args))
        /\ k + Len(args) - Len(args) = k
      BY <1>5, <1>6
  <2> QED  BY <1>4, <1>5, <2>1
<1>8. ASSUME NEW j \in 1 .. Len(args), args[j] = ids[k] PROVE FALSE
  <2>1. j \in DOMAIN all /\ all[j] = args[j]
      BY <1>4, <1>5
  <2>2. j = k + Len(args)
      BY <1>2, <1>7, <1>8, <2>1 DEF Distinct
  <2> QED  BY <1>5, <1>6, <2>2
<1> QED  BY <1>3, <1>5, <1>8 DEF Members, args, code

\* Calls and returns leave the loops where they are.
LEMMA QuietSteps ==
    ASSUME Begin \/ Return \/ Descend \/ Leave \/ UNCHANGED vars
    PROVE  UNCHANGED <<unit, phase, fn, turn, castMap, firstConstant, numModuleValues,
                       firstFuncConstant, firstInst>>
BY DEF Begin, Return, Descend, Leave, vars, program, marks

\* Nothing but a sort or a purge changes a number, and they only those of the
\* slots they are about.
LEMMA SlotKept ==
    ASSUME NumberingInv, [Next]_vars, NEW v \in DOMAIN valueMap,
           OptimizeModule => valueMap[v] <= firstConstant,
           FunctionInstructions => valueMap[v] <= firstFuncConstant,
           purgeFunction => valueMap[v] <= numModuleValues
    PROVE  v \in DOMAIN valueMap' /\ valueMap'[v] = valueMap[v]
<1>1. /\ values \in Seq(Values \X Nat) /\ Len(values) \in Nat
      /\ valueMap[v] \in 1 .. Len(values) /\ values[valueMap[v]][1] = v
      /\ firstConstant \in Nat /\ numModuleValues \in Nat /\ firstFuncConstant \in Nat
    BY DEF NumberingInv, ValuesTyped, SlotsOf, Numbering
<1>2. CASE Leave
    BY <1>2, LeftIsNew DEF Leave, NumberingInv
<1>3. CASE OptimizeModule
  <2>1. valueMap[v] \notin firstConstant + 1 .. Len(values)
      BY <1>1, <1>3
  <2>2. OptimizeConstants(firstConstant, Len(values))
      BY <1>3 DEF OptimizeModule
  <2> QED  BY <2>1, <2>2 DEF OptimizeConstants
<1>4. CASE FunctionInstructions
  <2>1. valueMap[v] \notin firstFuncConstant + 1 .. Len(values)
      BY <1>1, <1>4
  <2>2. OptimizeConstants(firstFuncConstant, Len(values))
      BY <1>4 DEF FunctionInstructions
  <2> QED  BY <2>1, <2>2 DEF OptimizeConstants
<1>5. CASE purgeFunction
  <2>1. \A w \in DOMAIN castMap : castMap[w] <= numModuleValues
      BY <1>5 DEF purgeFunction, Incorporated, NumberingInv, ModuleSlots
  <2>2. ASSUME NEW n \in numModuleValues + 1 .. Len(values) PROVE values[n][1] # v
    <3>1. n \in DOMAIN values /\ ~(n <= numModuleValues)
        BY <1>1
    <3>2. values[n][1] \notin DOMAIN castMap \/ castMap[values[n][1]] # n
        BY <2>1, <3>1
    <3>3. valueMap[values[n][1]] = n
        BY <3>1, <3>2 DEF NumberingInv, Numbering
    <3> QED  BY <1>5, <3>1, <3>3
  <2>3. valueMap' = PurgedMap
      BY <1>5 DEF purgeFunction
  <2> QED  BY <2>2, <2>3 DEF PurgedMap
<1>6. CASE valueMap' = valueMap
    BY <1>6
<1> QED  BY <1>2, <1>3, <1>4, <1>5, <1>6
         DEF Next, vars, tables, Begin, Return, Descend, Turn, StartConstants,
             NextFunctionTypes, ReserveCasts, Complete, Incorporate,
             FunctionConstants

\* What a loop that ended has listed.
LEMMA ListingEnds ==
    ASSUME ScopesInv, Listing, LoopEnds
    PROVE  /\ Len(values) = FirstSlot + Count(unit, phase, fn, Turns)
           /\ \A n \in 1 .. Turns :
                Listed(unit, phase, fn, n) =>
                  /\ Item(unit, phase, fn, n) \in DOMAIN valueMap
                  /\ valueMap[Item(unit, phase, fn, n)]
                       = FirstSlot + Count(unit, phase, fn, n)
<1>1. turn = Turns /\ ~Pending
    BY DEF LoopEnds, Idle, Pending
<1>2. Turns \in Nat /\ \A n \in 1 .. Turns : n < Turns \/ n = Turns
    BY TurnsTyped DEF ScopesInv, LoopsInv
<1>3. Count(unit, phase, fn, Turns) \in Nat /\ FirstSlot \in Nat
    BY <1>2, CountFinite DEF FirstSlot, Listing, ScopesInv, NumberingInv, ValuesTyped
<1>4. Len(values) = FirstSlot + Count(unit, phase, fn, Turns)
    BY <1>1, <1>3 DEF ScopesInv, ListedInOrder
<1>5. \A n \in 1 .. Turns :
        Listed(unit, phase, fn, n) =>
          /\ Item(unit, phase, fn, n) \in DOMAIN valueMap
          /\ valueMap[Item(unit, phase, fn, n)]
               = FirstSlot + Count(unit, phase, fn, n)
    BY <1>1, <1>2 DEF ScopesInv, ListedInOrder
<1> QED  BY <1>4, <1>5

\* The globals have the first slots.
LEMMA GlobalsPreserved == ASSUME ScopesInv, [Next]_vars PROVE GlobalsKept'
<1> DEFINE len == Len(unit.globals)
<1>1. /\ len \in Nat /\ Len(values) \in Nat
      /\ firstConstant \in Nat /\ numModuleValues \in Nat
      /\ firstFuncConstant \in Nat /\ NumberingInv
      /\ \A v \in DOMAIN valueMap : valueMap[v] \in 1 .. Len(values)
  <2>1. unit.globals \in Seq(Values)
      BY UnitFields DEF ScopesInv, NumberingInv, TypeInv
  <2> QED  BY <2>1 DEF ScopesInv, NumberingInv, ValuesTyped, SlotsOf
<1>2. unit' = unit
    BY DEF Next, vars, program, Begin, Return, Descend, Leave, Turn, StartConstants,
       NextFunctionTypes, OptimizeModule, ReserveCasts, Complete, Incorporate,
       FunctionConstants, FunctionInstructions, purgeFunction, Enter
<1>3. CASE phase = "globals"
  <2>1. CASE StartConstants
    <3>1. Listing /\ LoopEnds /\ FirstSlot = 0 /\ Turns = len
        BY <1>3, <2>1 DEF StartConstants, Listing, FirstSlot, Turns
    <3>2. \A n \in 1 .. len : /\ Listed(unit, phase, fn, n)
                              /\ Item(unit, phase, fn, n) = unit.globals[n]
                              /\ Count(unit, phase, fn, n) = n
        BY <1>1, <1>3, CountAll DEF Listed, Item
    <3>3. Count(unit, phase, fn, len) = len
        BY <1>1, <1>3, CountAll
    <3>4. /\ Len(values) = len
          /\ \A n \in 1 .. len : /\ unit.globals[n] \in DOMAIN valueMap
                                 /\ valueMap[unit.globals[n]] = n
        BY <1>1, <3>1, <3>2, <3>3, ListingEnds
    <3>5. firstConstant' = Len(values) /\ valueMap' = valueMap
          /\ phase' = "constants"
        BY <2>1 DEF StartConstants, Enter, tables
    <3> QED  BY <1>2, <3>4, <3>5 DEF GlobalsKept
  <2>2. CASE ~StartConstants
    <3>1. phase' = "globals"
        BY <1>3, <2>2, QuietSteps
           DEF Next, Turn, NextFunctionTypes, OptimizeModule, ReserveCasts, Complete,
               Incorporate, FunctionConstants, FunctionInstructions, purgeFunction,
               Incorporated
    <3> QED  BY <3>1 DEF GlobalsKept
  <2> QED  BY <2>1, <2>2
<1>4. CASE phase # "globals"
  <2>1. /\ firstConstant = len
        /\ \A n \in 1 .. len : /\ unit.globals[n] \in DOMAIN valueMap
                               /\ valueMap[unit.globals[n]] = n
        /\ phase \in {"args", "consts", "insts"} => firstConstant <= numModuleValues
      BY <1>4 DEF ScopesInv, GlobalsKept
  <2>2. firstConstant' = firstConstant
      BY <1>4, QuietSteps
         DEF Next, Turn, StartConstants, NextFunctionTypes, OptimizeModule, ReserveCasts,
             Complete, Incorporate, FunctionConstants, FunctionInstructions,
             purgeFunction, marks
  <2>3. ASSUME NEW n \in 1 .. len
        PROVE  unit.globals[n] \in DOMAIN valueMap' /\ valueMap'[unit.globals[n]] = n
    <3> DEFINE g == unit.globals[n]
    <3>1. g \in DOMAIN valueMap /\ valueMap[g] = n /\ n <= firstConstant
        BY <2>1
    <3>2. FunctionInstructions => n <= firstFuncConstant
      <4>1. FunctionInstructions => phase = "consts"
          BY DEF FunctionInstructions
      <4>2. phase = "consts" => numModuleValues <= firstFuncConstant
          BY DEF ScopesInv, NumberingInv, ModuleSlots
      <4> QED  BY <1>1, <2>1, <3>1, <4>1, <4>2
    <3>3. purgeFunction => n <= numModuleValues
      <4>1. purgeFunction => phase = "insts"
          BY DEF purgeFunction, Incorporated
      <4> QED  BY <1>1, <2>1, <3>1, <4>1
    <3> HIDE DEF g
    <3>4. g \in DOMAIN valueMap' /\ valueMap'[g] = valueMap[g]
        BY <1>1, <3>1, <3>2, <3>3, SlotKept
    <3> QED  BY <3>1, <3>4 DEF g
  <2>4. phase' \in {"args", "consts", "insts"} => firstConstant <= numModuleValues'
    <3>1. CASE Incorporate
      <4>1. numModuleValues' = Len(values)
          BY <3>1 DEF Incorporate
      <4>2. len > 0 => len \in 1 .. Len(values)
        <5>1. len > 0 => len \in 1 .. len
            BY <1>1
        <5> QED  BY <1>1, <2>1, <5>1
      <4> QED  BY <1>1, <2>1, <4>1, <4>2
    <3>2. CASE ~Incorporate
      <4>1. numModuleValues' = numModuleValues
          BY <3>2, QuietSteps
             DEF Next, Turn, StartConstants, NextFunctionTypes, OptimizeModule,
                 ReserveCasts, Complete, FunctionConstants, FunctionInstructions,
                 purgeFunction, marks
      <4>2. phase' \in {"args", "consts", "insts"} => phase \in {"args", "consts", "insts"}
          BY <3>2, QuietSteps
             DEF Next, Turn, StartConstants, NextFunctionTypes, OptimizeModule,
                 ReserveCasts, Complete, FunctionConstants, FunctionInstructions,
                 purgeFunction, Enter, program
      <4> QED  BY <2>1, <4>1, <4>2
    <3> QED  BY <3>1, <3>2
  <2> QED  BY <1>2, <2>1, <2>2, <2>3, <2>4 DEF GlobalsKept
<1> QED  BY <1>3, <1>4

\* The arguments have the slots behind the module's.
LEMMA ArgumentsPreserved == ASSUME ScopesInv, [Next]_vars PROVE ArgumentsKept'
<1>1. /\ NumberingInv /\ numModuleValues \in Nat /\ firstFuncConstant \in Nat
      /\ Len(values) \in Nat
    BY DEF ScopesInv, NumberingInv, ValuesTyped
<1>2. phase \in {"args", "consts", "insts"} => Len(Fn.args) \in Nat
  <2>1. phase \in {"args", "consts", "insts"} => fn \in 1 .. Len(unit.functions)
      BY DEF ScopesInv, NumberingInv, TypeInv, InFunction
  <2> QED  BY <2>1, FunctionFields DEF Fn, ScopesInv, NumberingInv
<1>3. CASE FunctionConstants
  <2>1. phase = "args" /\ LoopEnds /\ firstFuncConstant' = Len(values)
        /\ UNCHANGED <<unit, fn, valueMap, numModuleValues>>
      BY <1>3 DEF FunctionConstants, Enter, tables
  <2>2. Listing /\ FirstSlot = numModuleValues /\ Turns = Len(Fn.args)
      BY <2>1 DEF Listing, FirstSlot, Turns
  <2>3. \A n \in 1 .. Len(Fn.args) : /\ Listed(unit, phase, fn, n)
                                     /\ Item(unit, phase, fn, n) = Fn.args[n]
                                     /\ Count(unit, phase, fn, n) = n
      BY <1>2, <2>1, CountAll DEF Listed, Item, Fn
  <2>4. Count(unit, phase, fn, Len(Fn.args)) = Len(Fn.args)
      BY <1>2, <2>1, CountAll
  <2>5. /\ Len(values) = numModuleValues + Len(Fn.args)
        /\ \A n \in 1 .. Len(Fn.args) :
             /\ Fn.args[n] \in DOMAIN valueMap
             /\ valueMap[Fn.args[n]] = numModuleValues + n
      BY <2>1, <2>2, <2>3, <2>4, ListingEnds
  <2>6. Fn' = Fn
      BY <2>1 DEF Fn
  <2> QED  BY <2>1, <2>5, <2>6 DEF ArgumentsKept
<1>4. CASE phase \in {"consts", "insts"} /\ phase' \in {"consts", "insts"}
  <2>1. UNCHANGED <<unit, fn, numModuleValues, firstFuncConstant>> /\ ~purgeFunction
        /\ ~OptimizeModule
      BY <1>4, QuietSteps
         DEF Next, Turn, StartConstants, NextFunctionTypes, OptimizeModule,
             ReserveCasts, Complete, Incorporate, FunctionConstants,
             FunctionInstructions, purgeFunction, Enter, marks
  <2>2. /\ firstFuncConstant = numModuleValues + Len(Fn.args)
        /\ \A n \in 1 .. Len(Fn.args) :
             /\ Fn.args[n] \in DOMAIN valueMap
             /\ valueMap[Fn.args[n]] = numModuleValues + n
      BY <1>4 DEF ScopesInv, ArgumentsKept
  <2>3. ASSUME NEW n \in 1 .. Len(Fn.args)
        PROVE  /\ Fn.args[n] \in DOMAIN valueMap'
               /\ valueMap'[Fn.args[n]] = numModuleValues + n
    <3> DEFINE a == Fn.args[n]
    <3>1. a \in DOMAIN valueMap /\ valueMap[a] = numModuleValues + n
          /\ valueMap[a] <= firstFuncConstant
        BY <1>1, <1>2, <1>4, <2>2
    <3> HIDE DEF a
    <3>2. a \in DOMAIN valueMap' /\ valueMap'[a] = valueMap[a]
        BY <1>1, <2>1, <3>1, SlotKept
    <3> QED  BY <3>1, <3>2 DEF a
  <2>4. Fn' = Fn
      BY <2>1 DEF Fn
  <2> QED  BY <2>1, <2>2, <2>3, <2>4 DEF ArgumentsKept
<1>5. CASE ~FunctionConstants /\ phase \notin {"consts", "insts"}
  <2>1. phase' \notin {"consts", "insts"}
      BY <1>5, QuietSteps
         DEF Next, Turn, StartConstants, NextFunctionTypes, OptimizeModule,
             ReserveCasts, Complete, Incorporate, FunctionInstructions,
             purgeFunction, Incorporated, Enter, program
  <2> QED  BY <2>1 DEF ArgumentsKept
<1>6. CASE phase' \notin {"consts", "insts"}
    BY <1>6 DEF ArgumentsKept
<1> QED  BY <1>3, <1>4, <1>5, <1>6

\* Before and after a step.
LEMMA ItemIsLocal ==
    TypeInv /\ phase \in {"args", "insts"} =>
      \A n \in 1 .. Turns : Item(unit, phase, fn, n) \in Locals
BY ItemScope DEF Listing

\* So it is after a step.
LEMMA NextItemIsLocal ==
    TypeInv' /\ phase' \in {"args", "insts"} =>
      \A n \in (1 .. Turns)' : Item(unit', phase', fn', n) \in Locals'
<1>1. (TypeInv /\ phase \in {"args", "insts"})' =>
        (\A n \in 1 .. Turns : Item(unit, phase, fn, n) \in Locals)'
    BY ItemIsLocal, PTL
<1> QED  BY <1>1

\* A value that is given a number by a loop that lists is the one it lists.
LEMMA LeftIsListed ==
    ASSUME ScopesInv, Return \/ Leave, Listing, Top[1] = "value"
    PROVE  /\ Leave /\ Pending /\ Len(stack) = 1
           /\ turn \in 1 .. Turns /\ Lists(turn, Top)
<1>1. /\ TypeInv /\ stack # <<>> /\ Len(stack) \in Nat /\ Len(stack) > 0
      /\ Top = stack[Len(stack)] /\ Top \in Frames
  <2>1. TypeInv /\ stack # <<>>
      BY DEF ScopesInv, NumberingInv, Return, Leave
  <2> QED  BY <2>1, TopOfStack DEF Top
<1>2. Len(stack) = 1 /\ Lists(turn, Top)
  <2>1. Len(stack) \in 1 .. Len(stack) /\ stack[Len(stack)][1] # "type"
      BY <1>1
  <2> QED  BY <1>1, <2>1 DEF ScopesInv, LoopsInv, CallsOfTurn
<1>3. turn \in 1 .. Turns
    BY <1>1, <1>2, TurnsTyped DEF Lists, ScopesInv, LoopsInv, TurnsTaken, TypeInv
<1>4. Pending
    BY <1>1, <1>2 DEF Pending
<1>5. Top[2] \notin DOMAIN valueMap
    BY <1>2, <1>3, <1>4 DEF Lists, ScopesInv, ListedInOrder
<1>6. Leave
    BY <1>5 DEF Return, Known
<1> QED  BY <1>2, <1>3, <1>4, <1>6

\* Only the incorporated function has numbers, all beyond the module's.
LEMMA LocalsPreserved == ASSUME ScopesInv, [Next]_vars PROVE LocalsScoped'
<1>1. /\ NumberingInv /\ TypeInv /\ numModuleValues \in Nat /\ Len(values) \in Nat
      /\ firstFuncConstant \in Nat
      /\ \A v \in DOMAIN valueMap :
           valueMap[v] \in 1 .. Len(values) /\ values[valueMap[v]][1] = v
    BY DEF ScopesInv, NumberingInv, ValuesTyped, SlotsOf, Numbering
<1>2. unit' = unit
    BY DEF Next, vars, program, Begin, Return, Descend, Leave, Turn, StartConstants,
       NextFunctionTypes, OptimizeModule, ReserveCasts, Complete, Incorporate,
       FunctionConstants, FunctionInstructions, purgeFunction, Enter
<1>3. ASSUME NEW v \in DOMAIN valueMap \cap Locals, v \in DOMAIN valueMap'
      PROVE  /\ phase' \in {"args", "consts", "insts"}
             /\ valueMap'[v] > numModuleValues'
             /\ phase' # "insts" => v \in Members(Fn.args)'
  <2>1. /\ phase \in {"args", "consts", "insts"} /\ valueMap[v] > numModuleValues
        /\ phase # "insts" => v \in Members(Fn.args)
      BY DEF ScopesInv, LocalsScoped
  <2>2. ~purgeFunction
    <3> SUFFICES ASSUME purgeFunction PROVE FALSE
        OBVIOUS
    <3>1. valueMap[v] \in numModuleValues + 1 .. Len(values)
          /\ values[valueMap[v]][1] = v
        BY <1>1, <2>1
    <3>2. v \notin DOMAIN PurgedMap
        BY <3>1 DEF PurgedMap
    <3> QED  BY <1>3, <3>2 DEF purgeFunction
  <2>3. /\ numModuleValues' = numModuleValues /\ fn' = fn
        /\ phase' \in {"args", "consts", "insts"}
        /\ phase' # "insts" => phase # "insts"
        /\ ~OptimizeModule
      BY <2>1, <2>2, QuietSteps
         DEF Next, Turn, StartConstants, NextFunctionTypes, OptimizeModule,
             ReserveCasts, Complete, Incorporate, FunctionConstants,
             FunctionInstructions, Enter, marks, program
  <2>4. FunctionInstructions => valueMap[v] <= firstFuncConstant
    <3> SUFFICES ASSUME FunctionInstructions PROVE valueMap[v] <= firstFuncConstant
        OBVIOUS
    <3>1. phase = "consts" /\ v \in Members(Fn.args)
        BY <2>1 DEF FunctionInstructions
    <3>2. fn \in 1 .. Len(unit.functions)
        BY <1>1, <3>1 DEF TypeInv, InFunction
    <3>3. Fn.args \in Seq(Values)
        BY <1>1, <3>2, FunctionFields DEF Fn
    <3>4. PICK n \in 1 .. Len(Fn.args) : v = Fn.args[n]
        BY <3>1, <3>3 DEF Members
    <3>5. valueMap[v] = numModuleValues + n
          /\ firstFuncConstant = numModuleValues + Len(Fn.args)
        BY <3>1, <3>4 DEF ScopesInv, ArgumentsKept
    <3> QED  BY <1>1, <3>3, <3>4, <3>5
  <2>5. valueMap'[v] = valueMap[v]
      BY <1>1, <2>2, <2>3, <2>4, SlotKept
  <2>6. Members(Fn.args)' = Members(Fn.args)
      BY <1>2, <2>3 DEF Fn, Members
  <2> QED  BY <2>1, <2>3, <2>5, <2>6
<1>4. ASSUME NEW v \in DOMAIN valueMap' \cap Locals, v \notin DOMAIN valueMap
      PROVE  /\ phase' \in {"args", "consts", "insts"}
             /\ valueMap'[v] > numModuleValues'
             /\ phase' # "insts" => v \in Members(Fn.args)'
  <2>1. Leave /\ Top[1] = "value" /\ v = Top[2]
    <3>1. CASE Leave
        BY <1>4, <3>1 DEF Leave
    <3>2. CASE ~Leave
      <4>1. \A w \in DOMAIN valueMap' : w \in DOMAIN valueMap
          BY <3>2 DEF Next, vars, tables, Begin, Return, Descend, Turn, StartConstants,
             NextFunctionTypes, OptimizeModule, ReserveCasts, Complete, Incorporate,
             FunctionConstants, FunctionInstructions, purgeFunction, OptimizeConstants,
             PurgedMap
      <4> QED  BY <1>4, <4>1
    <3> QED  BY <3>1, <3>2
  <2>2. UNCHANGED <<unit, phase, fn, numModuleValues>>
        /\ valueMap'[v] = Len(values) + 1
      BY <2>1 DEF Leave, program, marks
  <2>3. phase \in {"args", "insts"}
    <3>1. Len(stack) \in 1 .. Len(stack)
        BY <1>1, <2>1, TopOfStack DEF Leave
    <3> QED  BY <1>4, <2>1, <3>1 DEF ScopesInv, LoopsInv, ConstantsOnly, Top
  <2>4. numModuleValues <= Len(values)
      BY <2>3 DEF ScopesInv, NumberingInv, ModuleSlots
  <2>5. phase = "args" => v \in Members(Fn.args)
    <3> SUFFICES ASSUME phase = "args" PROVE v \in Members(Fn.args)
        OBVIOUS
    <3>1. turn \in 1 .. Turns /\ v = Item(unit, phase, fn, turn)
        BY <2>1, LeftIsListed DEF Listing, Lists
    <3>2. fn \in 1 .. Len(unit.functions)
        BY <1>1 DEF TypeInv, InFunction
    <3>3. Fn.args \in Seq(Values) /\ Turns = Len(Fn.args)
        BY <1>1, <3>2, FunctionFields DEF Fn, Turns
    <3>4. turn \in DOMAIN Fn.args /\ v = Fn.args[turn]
        BY <3>1, <3>3 DEF Item, Fn
    <3> QED  BY <3>4 DEF Members
  <2>6. Members(Fn.args)' = Members(Fn.args)
      BY <2>2 DEF Fn, Members
  <2> QED  BY <1>1, <2>2, <2>3, <2>4, <2>5, <2>6
<1>5. \A v \in DOMAIN valueMap' \cap Locals :
        /\ phase' \in {"args", "consts", "insts"}
        /\ valueMap'[v] > numModuleValues'
        /\ phase' # "insts" => v \in Members(Fn.args)'
    BY <1>3, <1>4
<1>6. Locals' = Locals
    BY <1>2 DEF Locals
<1> QED  BY <1>5, <1>6 DEF LocalsScoped

\* A step that neither ends a loop nor gives a number.
LEMMA ListingQuiet ==
    ASSUME ScopesInv, UNCHANGED <<unit, phase, fn, turn, valueMap, numModuleValues,
                                  firstInst>>,
           Len(values') = Len(values), Listing => (Pending' <=> Pending)
    PROVE  ListedInOrder'
<1>1. Turns' = Turns /\ FirstSlot' = FirstSlot /\ (Listing' <=> Listing)
    BY DEF Turns, Fn, FirstSlot, Listing
<1> QED  BY <1>1 DEF ScopesInv, ListedInOrder

\* Each iteration gives one number, the next one, and none before its turn.
LEMMA ListingPreserved == ASSUME ScopesInv, [Next]_vars PROVE ListedInOrder'
<1>1. /\ NumberingInv /\ TypeInv /\ LoopsInv
      /\ Len(values) \in Nat /\ numModuleValues \in Nat /\ firstInst \in Nat
      /\ turn \in Nat /\ Turns \in Nat
    BY TurnsTyped DEF ScopesInv, NumberingInv, ValuesTyped, TypeInv
<1>2. Listing => FirstSlot \in Nat /\ \A n \in Nat : Count(unit, phase, fn, n) \in Nat
    BY <1>1, CountFinite DEF FirstSlot, Listing
<1>3. CASE Begin
  <2>1. Listing => (Pending' <=> Pending)
    <3>1. /\ stack = <<>> /\ todo # <<>> /\ stack' # <<>> /\ stack'[1][1] = todo[1][1]
      <4>1. stack'[1][1] = todo[1][1]
          BY <1>1, <1>3, BegunCall
      <4> QED  BY <1>3, <4>1 DEF Begin
    <3> QED  BY <3>1 DEF Pending
  <2> QED  BY <1>3, <2>1, ListingQuiet DEF Begin, program, tables, marks
<1>4. CASE Descend
  <2>1. Listing => (Pending' <=> Pending)
    <3>1. stack # <<>> /\ Len(stack) \in Nat /\ Len(stack) > 0
        BY <1>1, <1>4, TopOfStack DEF Descend
    <3>2. stack'[1][1] = stack[1][1] /\ stack' # <<>>
      <4>1. /\ Len(stack') = Len(stack) + 1
            /\ \A d \in 1 .. Len(stack) - 1 : stack'[d] = stack[d]
            /\ stack'[Len(stack)] = <<Top[1], Top[2], Top[3] + 1>>
          BY <1>1, <1>4, DescendedStack
      <4>2. stack'[1][1] = stack[1][1]
        <5>1. CASE Len(stack) = 1
            BY <4>1, <5>1 DEF Top
        <5>2. CASE Len(stack) > 1
          <6>1. 1 \in 1 .. Len(stack) - 1
              BY <3>1, <5>2
          <6> QED  BY <4>1, <6>1
        <5> QED  BY <3>1, <5>1, <5>2
      <4>3. stack' # <<>>
        <5>1. Len(stack') # 0
            BY <3>1, <4>1
        <5> QED  BY <5>1
      <4> QED  BY <4>2, <4>3
    <3> QED  BY <3>1, <3>2 DEF Pending
  <2> QED  BY <1>4, <2>1, ListingQuiet DEF Descend, program, tables, marks
<1>5. ASSUME Return \/ Leave, Listing => Top[1] # "value"
      PROVE  Listing => (Pending' <=> Pending)
  <2> SUFFICES ASSUME Listing PROVE Pending' <=> Pending
      OBVIOUS
  <2>1. /\ stack # <<>> /\ stack' = Below /\ todo' = todo
        /\ Len(stack) \in Nat /\ Len(stack) > 0 /\ Len(stack') = Len(stack) - 1
        /\ \A d \in 1 .. Len(stack) - 1 : stack'[d] = stack[d]
    <3>1. stack # <<>> /\ stack' = Below /\ todo' = todo
        BY <1>5 DEF Return, Leave
    <3> QED  BY <1>1, <3>1, TopOfStack
  <2>2. todo # <<>> => todo[1][1] = "type"
    <3>1. todo # <<>> => 1 \in 1 .. Len(todo)
        BY <1>1 DEF TypeInv
    <3> QED  BY <1>1, <2>1, <3>1 DEF LoopsInv, CallsOfTurn
  <2>3. CASE Len(stack) = 1
    <3>1. stack' = <<>>
        BY <1>1, <2>1, <2>3, TopOfStack
    <3>2. stack[1][1] # "value"
        BY <1>5, <2>3 DEF Top
    <3> QED  BY <2>1, <2>2, <3>1, <3>2 DEF Pending
  <2>4. CASE Len(stack) # 1
    <3>1. 1 \in 1 .. Len(stack) - 1
        BY <2>1, <2>4
    <3>2. stack'[1] = stack[1] /\ stack' # <<>>
      <4>1. Len(stack') # 0
          BY <2>1, <2>4
      <4> QED  BY <2>1, <3>1, <4>1
    <3> QED  BY <2>1, <3>2 DEF Pending
  <2> QED  BY <2>3, <2>4
<1>6. CASE Return
  <2>1. Listing => Top[1] # "value"
    <3>1. ~Leave
        BY <1>6 DEF Return, Leave
    <3> QED  BY <1>6, <3>1, LeftIsListed
  <2>2. Listing => (Pending' <=> Pending)
      BY <1>5, <1>6, <2>1
  <2>3. Len(values') = Len(values)
      BY <1>1, <1>6, ReturnKeepsNumbering DEF NumberingInv
  <2> QED  BY <1>6, <2>2, <2>3, ListingQuiet DEF Return, program, marks
<1>7. CASE Leave /\ Top[1] # "value"
  <2>1. Listing => (Pending' <=> Pending)
      BY <1>5, <1>7
  <2> QED  BY <1>7, <2>1, ListingQuiet DEF Leave, program, marks
<1>8. CASE Leave /\ Top[1] = "value" /\ Listing
  <2> DEFINE v == Top[2]
  <2>1. /\ Pending /\ Len(stack) = 1 /\ turn \in 1 .. Turns
        /\ Listed(unit, phase, fn, turn) /\ v = Item(unit, phase, fn, turn)
      BY <1>8, LeftIsListed DEF Lists
  <2>2. /\ UNCHANGED <<unit, phase, fn, turn, todo, numModuleValues, firstInst>>
        /\ stack' = Below /\ values' = Append(values, <<v, 1>>)
        /\ valueMap' = [w \in DOMAIN valueMap \cup {v} |->
                          IF w = v THEN Len(values) + 1 ELSE valueMap[w]]
      BY <1>8 DEF Leave, program, marks
  <2>3. ~Pending'
    <3>1. stack' = <<>>
        BY <1>1, <1>8, <2>1, <2>2, TopOfStack DEF Leave
    <3>2. todo # <<>> => todo[1][1] = "type"
      <4>1. todo # <<>> => 1 \in 1 .. Len(todo)
          BY <1>1 DEF TypeInv
      <4> QED  BY <1>1, <1>8, <4>1 DEF LoopsInv, CallsOfTurn, Leave
    <3> QED  BY <2>2, <3>1, <3>2 DEF Pending
  <2>4. /\ Len(values) = FirstSlot + Count(unit, phase, fn, turn) - 1
        /\ \A n \in 1 .. Turns :
             Listed(unit, phase, fn, n) =>
               LET w == Item(unit, phase, fn, n)
               IN IF n < turn
                  THEN /\ w \in DOMAIN valueMap
                       /\ valueMap[w] = FirstSlot + Count(unit, phase, fn, n)
                  ELSE w \notin DOMAIN valueMap
      BY <1>8, <2>1 DEF ScopesInv, ListedInOrder
  <2>5. Len(values') = Len(values) + 1
      BY <1>1, <2>2 DEF NumberingInv, ValuesTyped
  <2> HIDE DEF v
  <2>6. /\ DOMAIN valueMap' = DOMAIN valueMap \cup {v} /\ valueMap'[v] = Len(values) + 1
        /\ \A w \in DOMAIN valueMap : w # v => valueMap'[w] = valueMap[w]
      BY <2>2
  <2>7. Len(values) + 1 = FirstSlot + Count(unit, phase, fn, turn)
      BY <1>1, <1>2, <1>8, <2>4
  <2>8. ASSUME NEW n \in 1 .. Turns, Listed(unit, phase, fn, n)
        PROVE  LET w == Item(unit, phase, fn, n)
               IN IF n < turn \/ n = turn
                  THEN /\ w \in DOMAIN valueMap'
                       /\ valueMap'[w] = FirstSlot + Count(unit, phase, fn, n)
                  ELSE w \notin DOMAIN valueMap'
    <3>1. CASE n = turn
        BY <2>1, <2>6, <2>7, <3>1
    <3>2. CASE n # turn
      <4>1. Item(unit, phase, fn, n) # v
          BY <1>1, <1>8, <2>1, <3>2, ItemsDistinct
      <4> QED  BY <2>4, <2>6, <2>8, <3>2, <4>1
    <3> QED  BY <3>1, <3>2
  <2>9. Turns' = Turns /\ FirstSlot' = FirstSlot
      BY <2>2 DEF Turns, Fn, FirstSlot
  <2>10. Len(values') = FirstSlot + Count(unit, phase, fn, turn) - 0
      BY <1>1, <1>2, <1>8, <2>5, <2>7
  <2> QED  BY <2>2, <2>3, <2>8, <2>9, <2>10 DEF ListedInOrder
<1>9. CASE Leave /\ ~Listing
    BY <1>9 DEF Leave, program, ListedInOrder, Listing
<1>10. CASE Turn
  <2>1. /\ UNCHANGED <<unit, phase, fn, valueMap, values, numModuleValues, firstInst>>
        /\ turn' = turn + 1 /\ turn + 1 \in 1 .. Turns
        /\ todo' = Body(turn + 1) /\ stack' = <<>> /\ ~Pending
      BY <1>1, <1>10 DEF Turn, Idle, Pending, tables, marks
  <2> SUFFICES ASSUME Listing PROVE ListedInOrder'
      BY <2>1 DEF ListedInOrder, Listing
  <2>2. Pending' <=> Listed(unit, phase, fn, turn + 1)
    <3>1. CASE Listed(unit, phase, fn, turn + 1)
      <4>1. Headed(todo', Item(unit, phase, fn, turn + 1))
          BY <1>1, <2>1, <3>1, ListingBody
      <4>2. todo' # <<>> /\ todo'[1][1] = "value"
          BY <4>1 DEF Headed
      <4> QED  BY <2>1, <3>1, <4>2 DEF Pending
    <3>2. CASE ~Listed(unit, phase, fn, turn + 1)
      <4>1. todo' = <<>>
          BY <1>1, <2>1, <3>2, ListingBody
      <4> QED  BY <2>1, <3>2, <4>1 DEF Pending
    <3> QED  BY <3>1, <3>2
  <2>3. /\ Len(values) = FirstSlot + Count(unit, phase, fn, turn)
        /\ \A n \in 1 .. Turns :
             Listed(unit, phase, fn, n) =>
               LET v == Item(unit, phase, fn, n)
               IN IF n < turn + 1
                  THEN /\ v \in DOMAIN valueMap
                       /\ valueMap[v] = FirstSlot + Count(unit, phase, fn, n)
                  ELSE v \notin DOMAIN valueMap
    <3>1. Len(values) = FirstSlot + Count(unit, phase, fn, turn)
        BY <1>1, <1>2, <2>1 DEF ScopesInv, ListedInOrder
    <3>2. \A n \in 1 .. Turns : n < turn + 1 <=> n < turn \/ n = turn
        BY <1>1
    <3> QED  BY <2>1, <3>1, <3>2 DEF ScopesInv, ListedInOrder
  <2>4. Len(values) = FirstSlot + Count(unit, phase, fn, turn + 1)
                      - (IF Pending' THEN 1 ELSE 0)
    <3>1. Count(unit, phase, fn, turn + 1) =
            Count(unit, phase, fn, turn)
            + (IF Listed(unit, phase, fn, turn + 1) THEN 1 ELSE 0)
        BY <1>1, CountStep
    <3>2. FirstSlot \in Nat /\ Count(unit, phase, fn, turn) \in Nat
          /\ Len(values) = FirstSlot + Count(unit, phase, fn, turn)
        BY <1>1, <1>2, <2>3
    <3>3. CASE Listed(unit, phase, fn, turn + 1)
        BY <2>2, <3>1, <3>2, <3>3
    <3>4. CASE ~Listed(unit, phase, fn, turn + 1)
        BY <2>2, <3>1, <3>2, <3>4
    <3> QED  BY <3>3, <3>4
  <2>5. Turns' = Turns /\ FirstSlot' = FirstSlot
      BY <2>1 DEF Turns, Fn, FirstSlot
  <2>6. ASSUME NEW n \in 1 .. Turns, Listed(unit, phase, fn, n)
        PROVE  LET v == Item(unit, phase, fn, n)
               IN IF n < turn + 1 \/ (n = turn + 1 /\ ~Pending')
                  THEN /\ v \in DOMAIN valueMap
                       /\ valueMap[v] = FirstSlot + Count(unit, phase, fn, n)
                  ELSE v \notin DOMAIN valueMap
      BY <2>2, <2>3, <2>6
  <2> QED  BY <2>1, <2>4, <2>5, <2>6 DEF ListedInOrder
<1>11. CASE Incorporate
  <2>1. /\ phase' = "args" /\ turn' = 0 /\ unit' = unit /\ phase = "ready"
        /\ UNCHANGED <<valueMap, values>> /\ numModuleValues' = Len(values)
        /\ todo' = <<>> /\ stack' = stack
      BY <1>11 DEF Incorporate, Enter, tables
  <2>2. ~Pending' /\ FirstSlot' = Len(values)
      BY <1>1, <2>1 DEF Pending, FirstSlot, LoopsInv, TypesOnly
  <2>3. ASSUME NEW n \in (1 .. Turns)'
        PROVE  Item(unit', phase', fn', n) \notin DOMAIN valueMap
    <3>1. Item(unit', phase', fn', n) \in Locals'
        BY <1>1, <2>1, <2>3, TypePreserved, NextItemIsLocal
    <3>2. DOMAIN valueMap \cap Locals = {}
        BY <2>1 DEF ScopesInv, LocalsScoped
    <3> QED  BY <2>1, <3>1, <3>2 DEF Locals
  <2>4. \A n \in (1 .. Turns)' : ~(n < 0 \/ n = 0)
      BY <1>1, NextTurnsTyped, TypePreserved
  <2>5. Count(unit', phase', fn', 0) = 0
      BY CountStarts
  <2> QED  BY <1>1, <2>1, <2>2, <2>3, <2>4, <2>5 DEF ListedInOrder
<1>12. CASE FunctionInstructions
  <2>1. /\ phase' = "insts" /\ turn' = 0 /\ unit' = unit /\ phase = "consts"
        /\ firstInst' = Len(values) /\ fn' = fn
        /\ todo' = <<>> /\ stack' = <<>>
      BY <1>12 DEF FunctionInstructions, Enter, LoopEnds, Idle
  <2>2. ~Pending' /\ FirstSlot' = Len(values)
      BY <1>1, <2>1 DEF Pending, FirstSlot
  <2>3. DOMAIN valueMap' = DOMAIN valueMap /\ Len(values') = Len(values)
      BY <1>1, <1>12 DEF FunctionInstructions, OptimizeConstants, NumberingInv, ValuesTyped
  <2>4. ASSUME NEW n \in (1 .. Turns)'
        PROVE  Item(unit', phase', fn', n) \notin DOMAIN valueMap
    <3>1. Item(unit', phase', fn', n) \in Locals'
        BY <1>1, <2>1, <2>4, TypePreserved, NextItemIsLocal
    <3>2. fn \in 1 .. Len(unit.functions) /\ unit \in Units
        BY <1>1, <2>1 DEF TypeInv, InFunction
    <3>3. n \in 1 .. Len(unit.functions[fn].code)
        BY <2>1, <2>4 DEF Turns, Fn
    <3>4. Item(unit', phase', fn', n) = unit.functions[fn].code[n].id
        BY <2>1 DEF Item
    <3>5. Item(unit', phase', fn', n) \notin Members(Fn.args)
        BY <3>2, <3>3, <3>4, NoArgument DEF Fn
    <3>6. DOMAIN valueMap \cap Locals \subseteq Members(Fn.args)
        BY <2>1 DEF ScopesInv, LocalsScoped
    <3> QED  BY <2>1, <3>1, <3>5, <3>6 DEF Locals
  <2>5. \A n \in (1 .. Turns)' : ~(n < 0 \/ n = 0)
      BY <1>1, NextTurnsTyped, TypePreserved
  <2>6. Count(unit', phase', fn', 0) = 0
      BY CountStarts
  <2> QED  BY <1>1, <2>1, <2>2, <2>3, <2>4, <2>5, <2>6 DEF ListedInOrder
<1>13. CASE UNCHANGED vars
  <2>1. Pending' <=> Pending
      BY <1>13 DEF vars, Pending
  <2> QED  BY <1>13, <2>1, ListingQuiet DEF vars, program, tables, marks
<1>14. CASE \/ StartConstants \/ NextFunctionTypes \/ OptimizeModule \/ ReserveCasts
            \/ Complete \/ FunctionConstants \/ purgeFunction
  <2>1. phase' \notin {"globals", "args", "insts"}
      BY <1>14 DEF StartConstants, NextFunctionTypes, OptimizeModule, ReserveCasts,
         Complete, FunctionConstants, purgeFunction, Enter, program
  <2> QED  BY <2>1 DEF ListedInOrder, Listing
<1> QED  BY <1>3, <1>4, <1>6, <1>7, <1>8, <1>9, <1>10, <1>11, <1>12, <1>13, <1>14 DEF Next

\* The parts of the invariant together.
LEMMA ScopesPreserved == ASSUME ScopesInv, [Next]_vars PROVE ScopesInv'
<1>1. NumberingInv' /\ LoopsInv'
    BY NumberingPreserved, LoopsPreserved DEF ScopesInv
<1>2. firstInst' \in Nat
  <2>1. firstInst' = firstInst \/ firstInst' = Len(values)
      BY DEF Next, vars, marks, Begin, Return, Descend, Leave, Turn, StartConstants,
         NextFunctionTypes, OptimizeModule, ReserveCasts, Complete, Incorporate,
         FunctionConstants, FunctionInstructions, purgeFunction
  <2> QED  BY <2>1 DEF ScopesInv, NumberingInv, ValuesTyped
<1>3. ListedInOrder' /\ GlobalsKept' /\ ArgumentsKept' /\ LocalsScoped'
    BY ListingPreserved, GlobalsPreserved, ArgumentsPreserved, LocalsPreserved
<1> QED  BY <1>1, <1>2, <1>3 DEF ScopesInv

\* At first no value is listed.
LEMMA ScopesStart == ASSUME Init PROVE ScopesInv
<1>1. NumberingInv /\ LoopsInv /\ TypeInv
    BY NumberingStarts, LoopsStart DEF LoopsInv
<1>2. /\ phase = "globals" /\ turn = 0 /\ stack = <<>> /\ values = <<>>
      /\ DOMAIN valueMap = {} /\ firstInst = 0
    BY DEF Init
<1>3. ListedInOrder
  <2>1. todo # <<>> => todo[1][1] = "type"
    <3>1. todo # <<>> => 1 \in 1 .. Len(todo)
        BY <1>1 DEF TypeInv
    <3> QED  BY <1>1, <1>2, <3>1 DEF LoopsInv, CallsOfTurn, Listing, Lists
  <2>2. ~Pending /\ FirstSlot = 0 /\ Count(unit, phase, fn, turn) = 0
      BY <1>2, <2>1, CountStarts DEF Pending, FirstSlot
  <2>3. \A n \in 1 .. Turns : ~(n < turn \/ n = turn)
      BY <1>1, <1>2, TurnsTyped
  <2> QED  BY <1>2, <2>2, <2>3 DEF ListedInOrder
<1> QED  BY <1>1, <1>2, <1>3 DEF ScopesInv, GlobalsKept, ArgumentsKept, LocalsScoped

\* The reader counts as the loops have listed.
LEMMA CountedAlike == ASSUME ScopesInv PROVE ReaderNumbering
<1>1. TypeInv /\ unit \in Units
    BY DEF ScopesInv, NumberingInv, TypeInv
<1>2. GlobalsFirst
  <2>1. DOMAIN unit.globals = 1 .. Len(unit.globals)
    <3>1. unit.globals \in Seq(Values)
        BY <1>1, UnitFields
    <3> QED  BY <3>1
  <2> QED  BY <2>1 DEF ScopesInv, GlobalsKept, GlobalsFirst
<1>3. LocalsInOrder
  <2> SUFFICES ASSUME Incorporated PROVE LocalsInOrder
      BY DEF LocalsInOrder
  <2>1. phase = "insts" /\ LoopEnds
      BY DEF Incorporated
  <2>2. fn \in 1 .. Len(unit.functions)
      BY <1>1, <2>1 DEF TypeInv, InFunction
  <2>3. /\ DOMAIN Fn.args = 1 .. Len(Fn.args) /\ DOMAIN Fn.code = 1 .. Len(Fn.code)
        /\ Turns = Len(Fn.code)
    <3>1. Fn.args \in Seq(Values) /\ Fn.code \in Seq(Instructions)
        BY <1>1, <2>2, FunctionFields DEF Fn
    <3>2. Turns = Len(Fn.code)
        BY <2>1 DEF Turns
    <3> QED  BY <3>1, <3>2
  <2>4. \A n : Count(unit, phase, fn, n) = WithValue(n)
      BY <2>1 DEF Count, WithValue, Listed, Fn
  <2>5. \A n : /\ Listed(unit, phase, fn, n) <=> ~Fn.code[n].void
               /\ Item(unit, phase, fn, n) = Fn.code[n].id
      BY <2>1 DEF Listed, Item, Fn
  <2>6. FirstSlot = firstInst /\ Listing
      BY <2>1 DEF FirstSlot, Listing
  <2>7. /\ Len(values) = firstInst + WithValue(Len(Fn.code))
        /\ \A n \in 1 .. Len(Fn.code) :
             ~Fn.code[n].void => valueMap[Fn.code[n].id] = firstInst + WithValue(n)
      BY <2>1, <2>3, <2>4, <2>5, <2>6, ListingEnds
  <2>8. /\ firstFuncConstant = numModuleValues + Len(Fn.args)
        /\ \A n \in 1 .. Len(Fn.args) : valueMap[Fn.args[n]] = numModuleValues + n
      BY <2>1 DEF ScopesInv, ArgumentsKept
  <2> QED  BY <2>3, <2>7, <2>8 DEF LocalsInOrder
<1> QED  BY <1>2, <1>3 DEF ReaderNumbering

\* The reader numbers the globals first and, in a function, the arguments, the
\* constants and the instructions with a value, each in the order of its
\* records: these are the numbers the records use.
THEOREM ReaderNumberingCorrect == Spec => []ReaderNumbering
<1>1. Init => ScopesInv
    BY ScopesStart
<1>2. ScopesInv /\ [Next]_vars => ScopesInv'
    BY ScopesPreserved
<1>3. ScopesInv => ReaderNumbering
    BY CountedAlike
<1> QED  BY <1>1, <1>2, <1>3, PTL DEF Spec

-----------------------------------------------------------------------------
(* What was called for is there *)

\* A call is settled by the tables: a type and the type of an operand are
\* among the types, a value among those that have a number.
SettledIn(u, table, known, c) ==
    CASE c[1] = "type" -> c[2] \in Members(table)
      [] c[1] = "operand" -> u.typeOf[c[2]] \in Members(table)
      [] c[1] = "value" -> c[2] \in known
      [] c[1] = "pooled" ->
           c[2] \notin LocalsIn(u) /\ c[2] \notin Members(u.globals) => c[2] \in known

\* The first thing a value or an operand calls for is its type, and a constant
\* of a body calls for itself: that is settled, or right above on the stack.
FirstCalled(u, s, table, known, d) ==
    /\ s[d][1] \in {"value", "operand"} /\ s[d][3] > 0 =>
         \/ u.typeOf[s[d][2]] \in Members(table)
         \/ /\ s[d][3] = 1 /\ d < Len(s)
            /\ s[d + 1][1] = "type" /\ s[d + 1][2] = u.typeOf[s[d][2]]
    /\ s[d][1] = "pooled" /\ s[d][3] > 0 =>
         \/ s[d][2] \in known
         \/ /\ s[d][3] = 1 /\ d < Len(s)
            /\ s[d + 1][1] = "value" /\ s[d + 1][2] = s[d][2]
FirstsCalled ==
    \A d \in 1 .. Len(stack) : FirstCalled(unit, stack, types, DOMAIN valueMap, d)

\* What the two loops over a body call for with an instruction: the types it
\* needs, and the constants.
Needs(p, i) ==
    CASE p = "types" ->
           {<<"operand", v>> : v \in Members(i.ops)}
           \cup {<<"type", t>> : t \in Members(i.types) \cup Members(i.call)}
      [] p = "consts" ->
           {<<"pooled", v>> : v \in Members(i.ops)}
           \cup {<<"value", v>> : v \in Members(i.cases)}
CallsSettled ==
    phase \in {"types", "consts"} =>
        \A k \in 1 .. turn : \A c \in Needs(phase, unit.functions[fn].code[k]) :
            \/ SettledIn(unit, types, DOMAIN valueMap, c)
            \/ /\ k = turn
               /\ \/ c \in Members(todo)
                  \/ stack # <<>> /\ c = <<stack[1][1], stack[1][2]>>

\* So it is of every body whose loop is over.
BodyWalked(u, f, p, table, known) ==
    \A k \in 1 .. Len(u.functions[f].code) :
        \A c \in Needs(p, u.functions[f].code[k]) : SettledIn(u, table, known, c)
TypesWalked ==
    \A f \in 1 .. Len(unit.functions) :
        phase \notin {"globals", "constants"} /\ (phase = "types" => f < fn) =>
            BodyWalked(unit, f, "types", types, {})
ConstantsWalked ==
    phase = "insts" => BodyWalked(unit, fn, "consts", types, DOMAIN valueMap)

ValuesHaveTypes == \A v \in DOMAIN valueMap : unit.typeOf[v] \in Members(types)
CallsInv ==
    /\ ScopesInv /\ (phase = "constants" => fn = 0) /\ FirstsCalled /\ CallsSettled
    /\ TypesWalked /\ ConstantsWalked /\ ValuesHaveTypes

\* The module stays the same, its types only become more, and its values
\* until a function is purged.
LEMMA UnitStays == ASSUME [Next]_vars PROVE unit' = unit
BY DEF Next, vars, program, Begin, Return, Descend, Leave, Turn, StartConstants,
   NextFunctionTypes, OptimizeModule, ReserveCasts, Complete, Incorporate,
   FunctionConstants, FunctionInstructions, purgeFunction, Enter

\* No type leaves the table ...
LEMMA TypesGrow ==
    ASSUME TypeInv, [Next]_vars PROVE Members(types) \subseteq Members(types')
<1>1. CASE Leave /\ Top[1] = "type"
  <2>1. Top \in Frames /\ types \in Seq(Types)
      BY <1>1, TopOfStack DEF Leave, TypeInv
  <2>2. Top[2] \in Types /\ types' = WithType(Top[2])
      BY <1>1, <2>1 DEF Leave, Frames
  <2>3. /\ WithType(Top[2]) \in Seq(Types)
        /\ Len(WithType(Top[2])) \in {Len(types), Len(types) + 1}
        /\ \A n \in 1 .. Len(types) : WithType(Top[2])[n] = types[n]
      BY <2>1, <2>2, WithTypeProperties
  <2>4. /\ DOMAIN types = 1 .. Len(types) /\ DOMAIN types' = 1 .. Len(types')
        /\ 1 .. Len(types) \subseteq 1 .. Len(types')
      BY <2>1, <2>2, <2>3
  <2> QED  BY <2>2, <2>3, <2>4 DEF Members
<1>2. CASE ~(Leave /\ Top[1] = "type")
  <2>1. types' = types
      BY <1>2 DEF Next, vars, tables, Begin, Return, Descend, Leave, Turn,
         StartConstants, NextFunctionTypes, OptimizeModule, ReserveCasts, Complete,
         Incorporate, FunctionConstants, FunctionInstructions, purgeFunction
  <2> QED  BY <2>1
<1> QED  BY <1>1, <1>2

\* ... and no value loses its number but when a function is purged.
LEMMA KnownGrows ==
    ASSUME [Next]_vars, ~purgeFunction PROVE DOMAIN valueMap \subseteq DOMAIN valueMap'
BY DEF Next, vars, tables, Begin, Return, Descend, Leave, Turn, StartConstants,
   NextFunctionTypes, OptimizeModule, ReserveCasts, Complete, Incorporate,
   FunctionConstants, FunctionInstructions, OptimizeConstants

\* A settled call stays settled.
LEMMA SettledGrows ==
    ASSUME NEW u, NEW S, NEW T, NEW K, NEW L, NEW c \in Calls,
           Members(S) \subseteq Members(T), K \subseteq L, SettledIn(u, S, K, c)
    PROVE  SettledIn(u, T, L, c)
<1>1. c[1] \in {"type", "value", "operand", "pooled"}
    BY DEF Calls, TypeCalls, ValueCalls
<1> QED  BY <1>1 DEF SettledIn

\* The calls of an activation for a value or an operand begin with its type.
LEMMA FirstChild ==
    ASSUME unit \in Units, NEW f \in Frames, f[1] # "type"
    PROVE  /\ f[1] \in {"value", "operand"} =>
                /\ Len(Children(f)) > 0
                /\ Children(f)[1] = <<"type", unit.typeOf[f[2]]>>
           /\ f[1] = "pooled" /\ IsPooled(f[2]) =>
                /\ Len(Children(f)) = 1 /\ Children(f)[1] = <<"value", f[2]>>
           /\ f[1] = "pooled" /\ ~IsPooled(f[2]) => Children(f) = <<>>
<1>1. f[2] \in Values /\ f[1] \in {"value", "operand", "pooled"}
    BY DEF Frames
<1>2. CASE f[1] \in {"value", "operand"}
  <2> DEFINE t == unit.typeOf[f[2]]
             first == Call("type", <<t>>)
             parts == Call(f[1], Operands(f[2]))
  <2>1. t \in Types
      BY <1>1, UnitFields
  <2>2. first \in Seq(Calls) /\ Len(first) = 1 /\ first[1] = <<"type", t>>
    <3> HIDE DEF t
    <3>1. <<t>> \in Seq(Types) /\ Len(<<t>>) = 1 /\ <<t>>[1] = t
        BY <2>1
    <3>2. /\ Len(Call("type", <<t>>)) = Len(<<t>>)
          /\ \A n \in 1 .. Len(<<t>>) : Call("type", <<t>>)[n] = <<"type", <<t>>[n]>>
        BY <3>1, CallOfSeq
    <3>3. Call("type", <<t>>) \in Seq(Calls)
        BY <3>1, CallsTyped
    <3> QED  BY <3>1, <3>2, <3>3
  <2>3. parts \in Seq(Calls)
    <3>1. Operands(f[2]) \in Seq(Values)
        BY <1>1, UnitFields DEF Operands
    <3> QED  BY <1>2, <3>1, CallsTyped
  <2>4. SourceTypes(f) \in Seq(Calls)
    <3>1. unit.sourceTypes[f[2]] \in Seq(Types)
        BY <1>1, UnitFields
    <3> QED  BY <3>1, CallsTyped DEF SourceTypes
  <2>5. Children(f) = first \o parts \o SourceTypes(f)
      BY <1>2 DEF Children
  <2> HIDE DEF t, first, parts
  <2>6. /\ first \o parts \in Seq(Calls)
        /\ Len(first \o parts) = Len(first) + Len(parts)
        /\ \A n \in 1 .. Len(first) + Len(parts) :
             (first \o parts)[n] = IF n <= Len(first) THEN first[n]
                                   ELSE parts[n - Len(first)]
      BY <2>2, <2>3, ConcatProperties
  <2>7. Len(parts) \in Nat /\ Len(SourceTypes(f)) \in Nat
      BY <2>3, <2>4
  <2>8. Len(first \o parts) > 0 /\ (first \o parts)[1] = <<"type", t>>
    <3>1. 1 \in 1 .. Len(first) + Len(parts) /\ 1 <= Len(first)
        BY <2>2, <2>7
    <3> QED  BY <2>2, <2>6, <2>7, <3>1
  <2>9. /\ Len(Children(f)) = Len(first \o parts) + Len(SourceTypes(f))
        /\ \A n \in 1 .. Len(first \o parts) + Len(SourceTypes(f)) :
             Children(f)[n] = IF n <= Len(first \o parts) THEN (first \o parts)[n]
                              ELSE SourceTypes(f)[n - Len(first \o parts)]
      BY <2>4, <2>5, <2>6, ConcatProperties
  <2>10. 1 \in 1 .. Len(first \o parts) + Len(SourceTypes(f))
         /\ 1 <= Len(first \o parts) /\ Len(Children(f)) > 0
      BY <2>2, <2>6, <2>7, <2>8, <2>9
  <2> QED  BY <1>2, <2>8, <2>9, <2>10 DEF t
<1>3. CASE f[1] = "pooled"
  <2> DEFINE v == f[2]
  <2>1. /\ Len(Call("value", <<v>>)) = 1
        /\ Call("value", <<v>>)[1] = <<"value", v>>
    <3>0. v \in Values
        BY <1>1
    <3> HIDE DEF v
    <3>1. <<v>> \in Seq(Values) /\ Len(<<v>>) = 1 /\ <<v>>[1] = v
        BY <3>0
    <3>2. /\ Len(Call("value", <<v>>)) = Len(<<v>>)
          /\ \A n \in 1 .. Len(<<v>>) : Call("value", <<v>>)[n] = <<"value", <<v>>[n]>>
        BY <3>1, CallOfSeq
    <3> QED  BY <3>1, <3>2
  <2> QED  BY <1>3, <2>1 DEF Children
<1> QED  BY <1>1, <1>2, <1>3

\* An activation that ends has settled what it was called for.
LEMMA EndSettles ==
    ASSUME TypeInv, FirstsCalled, ValuesHaveTypes, Return \/ Leave
    PROVE  /\ SettledIn(unit, types', DOMAIN valueMap', Top)
           /\ Top[1] = "value" => unit.typeOf[Top[2]] \in Members(types')
<1>1. /\ stack # <<>> /\ Len(stack) \in 1 .. Len(stack) /\ Top \in Frames
      /\ Top = stack[Len(stack)] /\ Len(stack) \in Nat
    BY TopOfStack DEF Return, Leave, Top
<1>2. Members(types) \subseteq Members(types') /\ DOMAIN valueMap \subseteq DOMAIN valueMap'
    BY TypesGrow, KnownGrows
       DEF Next, Return, Leave, purgeFunction, Incorporated, LoopEnds, Idle
<1>3. Top[3] \in Nat
    BY <1>1 DEF Frames
<1>4. /\ Top[1] \in {"value", "operand"} /\ Top[3] > 0 =>
           unit.typeOf[Top[2]] \in Members(types)
      /\ Top[1] = "pooled" /\ Top[3] > 0 => Top[2] \in DOMAIN valueMap
    BY <1>1 DEF FirstsCalled, FirstCalled
<1>5. CASE Return
  <2>1. Known(Top)
      BY <1>5 DEF Return
  <2>2. CASE Top[1] = "type"
      BY <1>2, <2>1, <2>2 DEF Known, InTypes, SettledIn
  <2>3. CASE Top[1] = "value"
    <3>1. Top[2] \in DOMAIN valueMap
        BY <2>1, <2>3 DEF Known
    <3>2. unit.typeOf[Top[2]] \in Members(types)
        BY <3>1 DEF ValuesHaveTypes
    <3> QED  BY <1>2, <2>3, <3>1, <3>2 DEF SettledIn
  <2>4. CASE Top[1] = "operand"
    <3>1. Top[3] > 0
        BY <1>3, <2>1, <2>4 DEF Known
    <3>2. unit.typeOf[Top[2]] \in Members(types')
        BY <1>2, <1>4, <2>4, <3>1
    <3> QED  BY <2>4, <3>2 DEF SettledIn
  <2>5. CASE Top[1] = "pooled"
      BY <2>1, <2>5 DEF Known
  <2> QED  BY <1>1, <2>2, <2>3, <2>4, <2>5 DEF Frames
<1>6. CASE Leave
  <2>1. Top[3] = Len(Children(Top)) /\ unit \in Units
      BY <1>6 DEF Leave, TypeInv
  <2>2. CASE Top[1] = "type"
    <3>1. Top[2] \in Types /\ types' = WithType(Top[2])
        BY <1>1, <1>6, <2>2 DEF Leave, Frames
    <3>2. Top[2] \in Members(types')
        BY <3>1, WithTypeProperties DEF TypeInv
    <3> QED  BY <2>2, <3>2 DEF SettledIn
  <2>3. CASE Top[1] \in {"value", "operand"}
    <3>1. Top[3] > 0
        BY <1>1, <2>1, <2>3, FirstChild
    <3>2. Top[1] = "value" => Top[2] \in DOMAIN valueMap'
        BY <1>6 DEF Leave
    <3> QED  BY <1>2, <1>4, <2>3, <3>1, <3>2 DEF SettledIn
  <2>4. CASE Top[1] = "pooled"
    <3>1. IsPooled(Top[2]) => Top[3] = 1
        BY <1>1, <2>1, <2>4, FirstChild
    <3> QED  BY <1>2, <1>4, <2>4, <3>1
             DEF SettledIn, IsPooled, IsConstant, Locals, Globals
  <2> QED  BY <1>1, <2>2, <2>3, <2>4 DEF Frames
<1> QED  BY <1>5, <1>6

\* An activation is there after its first call; when that ends it is settled.
LEMMA FirstsPreserved == ASSUME CallsInv, [Next]_vars PROVE FirstsCalled'
<1>1. /\ TypeInv /\ unit' = unit /\ unit \in Units
      /\ Members(types) \subseteq Members(types')
      /\ ~purgeFunction => DOMAIN valueMap \subseteq DOMAIN valueMap'
    BY UnitStays, TypesGrow, KnownGrows DEF CallsInv, ScopesInv, NumberingInv, TypeInv
<1>2. CASE Begin
  <2>1. Len(stack') = 1 /\ stack'[1] = <<todo[1][1], todo[1][2], 0>>
      BY <1>1, <1>2, BegunCall
  <2>2. \A d \in 1 .. Len(stack') : ~(stack'[d][3] > 0)
      BY <2>1
  <2> QED  BY <2>2 DEF FirstsCalled, FirstCalled
<1>3. CASE Return \/ Leave
  <2>1. /\ stack # <<>> /\ stack' = Below /\ Len(stack) \in Nat /\ Len(stack) > 0
        /\ Len(stack') = Len(stack) - 1 /\ Top \in Frames
        /\ \A d \in 1 .. Len(stack) - 1 : stack'[d] = stack[d]
    <3>1. stack # <<>> /\ stack' = Below
        BY <1>3 DEF Return, Leave
    <3> QED  BY <1>1, <3>1, TopOfStack
  <2>2. SettledIn(unit, types', DOMAIN valueMap', Top)
      BY <1>1, <1>3, EndSettles DEF CallsInv
  <2>3. DOMAIN valueMap \subseteq DOMAIN valueMap'
      BY <1>1, <1>3 DEF Return, Leave, purgeFunction, Incorporated, LoopEnds, Idle
  <2>4. ASSUME NEW d \in 1 .. Len(stack')
        PROVE  FirstCalled(unit, stack', types', DOMAIN valueMap', d)
    <3>1. d \in 1 .. Len(stack) /\ stack'[d] = stack[d]
        BY <2>1
    <3>2. FirstCalled(unit, stack, types, DOMAIN valueMap, d)
        BY <3>1 DEF CallsInv, FirstsCalled
    <3>3. CASE d + 1 = Len(stack)
      <4>1. stack[d + 1] = Top
          BY <3>3 DEF Top
      <4>2. /\ Top[1] = "type" => Top[2] \in Members(types')
            /\ Top[1] = "value" => Top[2] \in DOMAIN valueMap'
          BY <2>2 DEF SettledIn
      <4> QED  BY <1>1, <2>3, <3>1, <3>2, <4>1, <4>2 DEF FirstCalled
    <3>4. CASE d + 1 # Len(stack)
      <4>1. d < Len(stack') /\ d + 1 \in 1 .. Len(stack) - 1
          BY <2>1, <3>4
      <4>2. stack'[d + 1] = stack[d + 1]
          BY <2>1, <4>1
      <4> QED  BY <1>1, <2>3, <3>1, <3>2, <4>1, <4>2 DEF FirstCalled
    <3> QED  BY <3>3, <3>4
  <2> QED  BY <1>1, <2>4 DEF FirstsCalled
<1>4. CASE Descend
  <2> DEFINE len == Len(stack)
             c == Children(Top)[Top[3] + 1]
  <2>1. /\ stack # <<>> /\ len \in Nat /\ len > 0 /\ Top \in Frames /\ Top = stack[len]
        /\ Top[3] < Len(Children(Top)) /\ UNCHANGED <<types, valueMap>>
      BY <1>1, <1>4, TopOfStack DEF Descend, Top, tables
  <2>2. /\ Len(stack') = len + 1
        /\ \A d \in 1 .. len - 1 : stack'[d] = stack[d]
        /\ stack'[len] = <<Top[1], Top[2], Top[3] + 1>>
        /\ stack'[len + 1] = Frame(c)
      BY <1>1, <1>4, DescendedStack
  <2>3. Top[3] \in Nat
      BY <2>1 DEF Frames
  <2>4. /\ Top[1] \in {"value", "operand"} /\ Top[3] = 0 =>
             c = <<"type", unit.typeOf[Top[2]]>>
        /\ Top[1] = "pooled" /\ Top[3] = 0 => c = <<"value", Top[2]>>
    <3> SUFFICES ASSUME Top[1] # "type", Top[3] = 0
                 PROVE  /\ Top[1] \in {"value", "operand"} =>
                             c = <<"type", unit.typeOf[Top[2]]>>
                        /\ Top[1] = "pooled" => c = <<"value", Top[2]>>
        OBVIOUS
    <3>1. c = Children(Top)[1] /\ Children(Top) # <<>>
      <4>1. Len(Children(Top)) # 0
          BY <2>1
      <4> QED  BY <4>1
    <3> HIDE DEF c
    <3> QED  BY <1>1, <2>1, <3>1, FirstChild
  <2>5. FirstCalled(unit, stack, types, DOMAIN valueMap, len)
    <3>1. len \in 1 .. Len(stack)
        BY <2>1
    <3> QED  BY <3>1 DEF CallsInv, FirstsCalled
  <2>6. /\ stack'[len + 1][1] = c[1] /\ stack'[len + 1][2] = c[2]
        /\ stack'[len + 1][3] = 0
    <3> HIDE DEF c
    <3> QED  BY <2>2 DEF Frame
  <2> HIDE DEF c
  <2>7. FirstCalled(unit, stack', types, DOMAIN valueMap, len + 1)
      BY <2>6 DEF FirstCalled
  <2>8. FirstCalled(unit, stack', types, DOMAIN valueMap, len)
    <3>1. /\ stack'[len][1] = Top[1] /\ stack'[len][2] = Top[2]
          /\ stack'[len][3] = Top[3] + 1
        BY <2>2
    <3>2. CASE Top[3] = 0
      <4>1. len < Len(stack') /\ stack'[len][3] = 1
          BY <2>1, <2>2, <3>1, <3>2
      <4>2. /\ Top[1] \in {"value", "operand"} =>
                 stack'[len + 1][1] = "type"
                 /\ stack'[len + 1][2] = unit.typeOf[Top[2]]
            /\ Top[1] = "pooled" =>
                 stack'[len + 1][1] = "value" /\ stack'[len + 1][2] = Top[2]
          BY <2>4, <2>6, <3>2
      <4> QED  BY <3>1, <4>1, <4>2 DEF FirstCalled
    <3>3. CASE Top[3] > 0
      <4>1. /\ Top[1] \in {"value", "operand"} => unit.typeOf[Top[2]] \in Members(types)
            /\ Top[1] = "pooled" => Top[2] \in DOMAIN valueMap
          BY <2>1, <2>5, <3>3 DEF FirstCalled
      <4> QED  BY <3>1, <4>1 DEF FirstCalled
    <3> QED  BY <2>3, <3>2, <3>3
  <2>9. ASSUME NEW d \in 1 .. len - 1
        PROVE  FirstCalled(unit, stack', types, DOMAIN valueMap, d)
    <3>1. d \in 1 .. Len(stack) /\ stack'[d] = stack[d] /\ d < Len(stack') /\ d < len
        BY <2>1, <2>2
    <3>2. FirstCalled(unit, stack, types, DOMAIN valueMap, d)
        BY <3>1 DEF CallsInv, FirstsCalled
    <3>3. stack'[d + 1][1] = stack[d + 1][1] /\ stack'[d + 1][2] = stack[d + 1][2]
      <4>1. CASE d + 1 = len
          BY <2>1, <2>2, <4>1
      <4>2. CASE d + 1 # len
        <5>1. d + 1 \in 1 .. len - 1
            BY <2>1, <4>2
        <5> QED  BY <2>2, <5>1
      <4> QED  BY <4>1, <4>2
    <3> QED  BY <3>1, <3>2, <3>3 DEF FirstCalled
  <2>10. \A d \in 1 .. Len(stack') : d \in 1 .. len - 1 \/ d = len \/ d = len + 1
      BY <2>1, <2>2
  <2>11. \A d \in 1 .. Len(stack') :
           FirstCalled(unit, stack', types, DOMAIN valueMap, d)
      BY <2>7, <2>8, <2>9, <2>10
  <2> QED  BY <1>1, <2>1, <2>11 DEF FirstsCalled
<1>5. CASE ~(Begin \/ Return \/ Descend \/ Leave)
  <2>1. stack' = <<>> \/ UNCHANGED <<stack, types, valueMap>>
    <3>1. LoopsInv
        BY DEF CallsInv, ScopesInv
    <3>2. phase \in {"casts", "ready"} => stack = <<>>
        BY <3>1 DEF LoopsInv, TypesOnly
    <3> QED  BY <1>5, <3>2 DEF Next, vars, tables, Turn, StartConstants,
             NextFunctionTypes, OptimizeModule, ReserveCasts, Complete, Incorporate,
             FunctionConstants, FunctionInstructions, purgeFunction, Incorporated,
             LoopEnds, Idle, Enter
  <2>2. CASE stack' = <<>>
      BY <2>2 DEF FirstsCalled
  <2>3. CASE UNCHANGED <<stack, types, valueMap>>
      BY <1>1, <2>3 DEF CallsInv, FirstsCalled
  <2> QED  BY <2>1, <2>2, <2>3
<1> QED  BY <1>2, <1>3, <1>4, <1>5

\* The members of two sequences one after the other.
LEMMA MembersOfConcat ==
    ASSUME NEW S, NEW s \in Seq(S), NEW t \in Seq(S)
    PROVE  /\ s \o t \in Seq(S)
           /\ Members(s) \subseteq Members(s \o t) /\ Members(t) \subseteq Members(s \o t)
<1>1. /\ s \o t \in Seq(S) /\ Len(s \o t) = Len(s) + Len(t)
      /\ \A m \in 1 .. Len(s) + Len(t) :
           (s \o t)[m] = IF m <= Len(s) THEN s[m] ELSE t[m - Len(s)]
      /\ Len(s) \in Nat /\ Len(t) \in Nat
    BY ConcatProperties
<1>2. /\ DOMAIN s = 1 .. Len(s) /\ DOMAIN t = 1 .. Len(t)
      /\ DOMAIN (s \o t) = 1 .. Len(s) + Len(t)
    BY <1>1
<1>3. ASSUME NEW n \in 1 .. Len(s) PROVE s[n] \in Members(s \o t)
  <2>1. n \in 1 .. Len(s) + Len(t) /\ n <= Len(s)
      BY <1>1
  <2>2. (s \o t)[n] = s[n]
      BY <1>1, <2>1
  <2> QED  BY <1>2, <2>1, <2>2 DEF Members
<1>4. ASSUME NEW n \in 1 .. Len(t) PROVE t[n] \in Members(s \o t)
  <2>1. Len(s) + n \in 1 .. Len(s) + Len(t) /\ ~(Len(s) + n <= Len(s))
        /\ Len(s) + n - Len(s) = n
      BY <1>1
  <2>2. (s \o t)[Len(s) + n] = t[n]
      BY <1>1, <2>1
  <2> QED  BY <1>2, <2>1, <2>2 DEF Members
<1> QED  BY <1>1, <1>2, <1>3, <1>4 DEF Members

\* The calls for a sequence are one for each member.
LEMMA MembersOfCall ==
    ASSUME NEW kind, NEW S, NEW s \in Seq(S), NEW x \in Members(s)
    PROVE  <<kind, x>> \in Members(Call(kind, s))
<1>1. PICK n \in 1 .. Len(s) : x = s[n]
    BY DEF Members
<1>2. /\ Call(kind, s) \in Seq({kind} \X S) /\ Len(Call(kind, s)) = Len(s)
      /\ \A m \in 1 .. Len(s) : Call(kind, s)[m] = <<kind, s[m]>>
    BY CallOfSeq
<1>3. n \in DOMAIN Call(kind, s) /\ Call(kind, s)[n] = <<kind, x>>
    BY <1>1, <1>2
<1> QED  BY <1>3 DEF Members

\* An iteration over a body calls for all its instruction needs.
LEMMA NeedsTyped ==
    ASSUME NEW i \in Instructions, NEW p \in {"types", "consts"}
    PROVE  Needs(p, i) \subseteq Calls
<1>1. /\ Members(i.ops) \subseteq Values /\ Members(i.cases) \subseteq Values
      /\ Members(i.types) \subseteq Types /\ Members(i.call) \subseteq Types
    BY InstructionFields, MembersOfSeq
<1> QED  BY <1>1 DEF Needs, Calls, TypeCalls, ValueCalls

\* What an instruction needs is among the calls of its iteration.
LEMMA NeedsCalled ==
    ASSUME TypeInv, phase \in {"types", "consts"}, NEW n \in 1 .. Turns
    PROVE  Needs(phase, unit.functions[fn].code[n]) \subseteq Members(Body(n))
<1>1. n \in 1 .. Len(Fn.code) /\ Fn.code \in Seq(Instructions)
  <2>1. fn \in 1 .. Len(unit.functions)
      BY DEF TypeInv, InFunction
  <2>2. Fn.code \in Seq(Instructions) /\ Turns = Len(Fn.code)
      BY <2>1, FunctionFields DEF Fn, Turns
  <2> QED  BY <2>2
<1> DEFINE i == Fn.code[n]
<1>2. i \in Instructions /\ i = unit.functions[fn].code[n]
    BY <1>1, ElementOfSeq DEF Fn
<1> HIDE DEF i
<1>3. /\ i.ops \in Seq(Values) /\ i.cases \in Seq(Values) /\ i.id \in Values
      /\ i.types \in Seq(Types) /\ i.call \in Seq(Types)
    BY <1>2, InstructionFields
<1>4. /\ \A v \in Members(i.ops) : /\ <<"operand", v>> \in Members(Call("operand", i.ops))
                                   /\ <<"pooled", v>> \in Members(Call("pooled", i.ops))
      /\ \A v \in Members(i.cases) : <<"value", v>> \in Members(Call("value", i.cases))
      /\ \A t \in Members(i.types) : <<"type", t>> \in Members(Call("type", i.types))
      /\ \A t \in Members(i.call) : <<"type", t>> \in Members(Call("type", i.call))
    BY <1>3, MembersOfCall
<1>5. CASE phase = "types"
  <2> DEFINE c1 == Call("operand", i.ops)
             c2 == Call("type", i.types)
             c3 == Call("type", <<unit.typeOf[i.id]>>)
             c4 == EnumerateAttributes(i.id)
             c5 == Call("type", i.call)
  <2>1. c1 \in Seq(Calls) /\ c2 \in Seq(Calls) /\ c5 \in Seq(Calls)
      BY <1>3, CallsTyped
  <2>2. c3 \in Seq(Calls)
    <3>1. unit.typeOf[i.id] \in Types
        BY <1>3, UnitFields DEF TypeInv
    <3>2. <<unit.typeOf[i.id]>> \in Seq(Types)
        BY <3>1
    <3> QED  BY <3>2, CallsTyped
  <2>3. c4 \in Seq(Calls)
      BY <1>3, AttributesTyped DEF TypeInv
  <2>4. BodyTypeCalls(i) = c1 \o c2 \o c3 \o c4 \o c5
      BY DEF BodyTypeCalls
  <2>5. \A v \in Members(i.ops) : <<"operand", v>> \in Members(c1)
      BY <1>4
  <2>6. /\ \A t \in Members(i.types) : <<"type", t>> \in Members(c2)
        /\ \A t \in Members(i.call) : <<"type", t>> \in Members(c5)
      BY <1>4
  <2> HIDE DEF c1, c2, c3, c4, c5
  <2>7. /\ c1 \o c2 \in Seq(Calls) /\ Members(c1) \subseteq Members(c1 \o c2)
        /\ Members(c2) \subseteq Members(c1 \o c2)
      BY <2>1, MembersOfConcat
  <2>8. /\ c1 \o c2 \o c3 \in Seq(Calls)
        /\ Members(c1 \o c2) \subseteq Members(c1 \o c2 \o c3)
      BY <2>2, <2>7, MembersOfConcat
  <2>9. /\ c1 \o c2 \o c3 \o c4 \in Seq(Calls)
        /\ Members(c1 \o c2 \o c3) \subseteq Members(c1 \o c2 \o c3 \o c4)
      BY <2>3, <2>8, MembersOfConcat
  <2>10. /\ Members(c1 \o c2 \o c3 \o c4) \subseteq Members(c1 \o c2 \o c3 \o c4 \o c5)
         /\ Members(c5) \subseteq Members(c1 \o c2 \o c3 \o c4 \o c5)
      BY <2>1, <2>9, MembersOfConcat
  <2>11. Members(c1) \cup Members(c2) \cup Members(c5) \subseteq Members(BodyTypeCalls(i))
      BY <2>4, <2>7, <2>8, <2>9, <2>10
  <2>12. Needs("types", i) \subseteq Members(BodyTypeCalls(i))
      BY <2>5, <2>6, <2>11 DEF Needs
  <2>13. Body(n) = BodyTypeCalls(i)
      BY <1>5 DEF Body, i
  <2> QED  BY <1>2, <1>5, <2>12, <2>13
<1>6. CASE phase = "consts"
  <2>1. Call("pooled", i.ops) \in Seq(Calls) /\ Call("value", i.cases) \in Seq(Calls)
      BY <1>3, CallsTyped
  <2>2. /\ Members(Call("pooled", i.ops)) \subseteq Members(FuncConstantCalls(i))
        /\ Members(Call("value", i.cases)) \subseteq Members(FuncConstantCalls(i))
      BY <2>1, MembersOfConcat DEF FuncConstantCalls
  <2>3. Needs("consts", i) \subseteq Members(FuncConstantCalls(i))
      BY <1>4, <2>2 DEF Needs
  <2>4. Body(n) = FuncConstantCalls(i)
      BY <1>6 DEF Body, i
  <2> QED  BY <1>2, <1>6, <2>3, <2>4
<1> QED  BY <1>5, <1>6

\* What is above the first frame leaves the first frame.
LEMMA AboveOne ==
    ASSUME NEW n \in Nat, n > 0
    PROVE  /\ n = 1 \/ n > 1
           /\ n > 1 => 1 \in 1 .. n - 1 /\ n - 1 # 0
<1>1. n = 1 \/ n > 1
    OBVIOUS
<1>2. n > 1 => 1 \in 1 .. n - 1
    OBVIOUS
<1>3. n > 1 => n - 1 # 0
    OBVIOUS
<1> QED  BY <1>1, <1>2, <1>3

\* Each call of an iteration is settled, being made, or still to be made.
LEMMA CallsPreserved == ASSUME CallsInv, [Next]_vars PROVE CallsSettled'
<1>1. /\ TypeInv /\ unit' = unit /\ unit \in Units
      /\ Members(types) \subseteq Members(types')
      /\ ~purgeFunction => DOMAIN valueMap \subseteq DOMAIN valueMap'
    BY UnitStays, TypesGrow, KnownGrows DEF CallsInv, ScopesInv, NumberingInv, TypeInv
<1>2. TurnsTaken /\ Turns \in Nat /\ turn \in Nat
    BY <1>1, TurnsTyped DEF CallsInv, ScopesInv, LoopsInv, TypeInv
<1>3. ASSUME phase \in {"types", "consts"}, NEW k \in 1 .. turn,
             NEW c \in Needs(phase, unit.functions[fn].code[k])
      PROVE  /\ c \in Calls /\ c = <<c[1], c[2]>>
             /\ \/ SettledIn(unit, types, DOMAIN valueMap, c)
                \/ /\ k = turn
                   /\ \/ c \in Members(todo)
                      \/ stack # <<>> /\ c = <<stack[1][1], stack[1][2]>>
  <2>1. fn \in 1 .. Len(unit.functions)
      BY <1>1, <1>3 DEF TypeInv, InFunction
  <2>2. k \in 1 .. Len(unit.functions[fn].code)
        /\ unit.functions[fn].code \in Seq(Instructions)
    <3>1. Turns = Len(Fn.code) /\ Fn.code \in Seq(Instructions)
        BY <1>1, <1>3, <2>1, FunctionFields DEF Turns, Fn
    <3>2. k \in 1 .. Turns
        BY <1>2 DEF TurnsTaken
    <3> QED  BY <3>1, <3>2 DEF Fn
  <2>3. unit.functions[fn].code[k] \in Instructions
      BY <2>2, ElementOfSeq
  <2>4. c \in Calls
      BY <1>3, <2>3, NeedsTyped
  <2>5. c = <<c[1], c[2]>>
      BY <2>4 DEF Calls, TypeCalls, ValueCalls
  <2> QED  BY <1>3, <2>4, <2>5 DEF CallsInv, CallsSettled
<1>4. CASE UNCHANGED <<phase, fn, turn>> /\ phase \in {"types", "consts"}
  <2>1. ~purgeFunction
      BY <1>4 DEF purgeFunction, Incorporated
  <2>2. \A k \in 1 .. turn : \A c \in Needs(phase, unit.functions[fn].code[k]) :
          SettledIn(unit, types, DOMAIN valueMap, c) =>
            SettledIn(unit, types', DOMAIN valueMap', c)
      BY <1>1, <1>3, <1>4, <2>1, SettledGrows
  <2> SUFFICES ASSUME NEW k \in 1 .. turn,
                      NEW c \in Needs(phase, unit.functions[fn].code[k])
               PROVE  \/ SettledIn(unit, types', DOMAIN valueMap', c)
                      \/ /\ k = turn
                         /\ \/ c \in Members(todo')
                            \/ stack' # <<>> /\ c = <<stack'[1][1], stack'[1][2]>>
      BY <1>1, <1>4 DEF CallsSettled
  <2>3. c \in Calls /\ c = <<c[1], c[2]>>
      BY <1>3, <1>4
  <2>4. CASE SettledIn(unit, types, DOMAIN valueMap, c)
      BY <2>2, <2>4
  <2>5. CASE k = turn /\ c \in Members(todo)
    <3>1. CASE Begin
      <4>1. /\ Len(stack') = 1 /\ stack'[1] = <<todo[1][1], todo[1][2], 0>>
            /\ todo[1] = <<todo[1][1], todo[1][2]>>
            /\ Len(todo) \in Nat /\ Len(todo) > 0 /\ Len(todo') = Len(todo) - 1
            /\ \A n \in 1 .. Len(todo) - 1 : todo'[n] = todo[n + 1]
          BY <1>1, <3>1, BegunCall
      <4>2. DOMAIN todo = 1 .. Len(todo) /\ DOMAIN todo' = 1 .. Len(todo')
        <5>1. todo \in Seq(Calls) /\ todo' \in Seq(Calls)
            BY <1>1, TypePreserved DEF TypeInv
        <5> QED  BY <5>1
      <4>3. PICK n \in 1 .. Len(todo) : c = todo[n]
          BY <2>5, <4>2 DEF Members
      <4>4. CASE n = 1
        <5>1. stack' # <<>>
            BY <3>1 DEF Begin
        <5>2. stack'[1][1] = todo[1][1] /\ stack'[1][2] = todo[1][2]
            BY <4>1
        <5> QED  BY <2>5, <4>1, <4>3, <4>4, <5>1, <5>2
      <4>5. CASE n # 1
        <5>1. n - 1 \in 1 .. Len(todo) - 1 /\ n - 1 + 1 = n
            BY <4>1, <4>5
        <5>2. todo'[n - 1] = c /\ n - 1 \in DOMAIN todo'
            BY <4>1, <4>2, <4>3, <5>1
        <5> QED  BY <2>5, <5>2 DEF Members
      <4> QED  BY <4>4, <4>5
    <3>2. CASE ~Begin
      <4>1. todo' = todo
          BY <1>4, <1>2, <3>2 DEF Next, vars, program, Return, Descend, Leave, Turn,
             StartConstants, NextFunctionTypes, OptimizeModule, ReserveCasts, Complete,
             Incorporate, FunctionConstants, FunctionInstructions, purgeFunction,
             Enter, Incorporated
      <4> QED  BY <2>5, <4>1
    <3> QED  BY <3>1, <3>2
  <2>6. CASE k = turn /\ stack # <<>> /\ c = <<stack[1][1], stack[1][2]>>
    <3>1. Len(stack) \in Nat /\ Len(stack) > 0
        BY <1>1, <2>6, TopOfStack
    <3>5. /\ Len(stack) = 1 \/ Len(stack) > 1
          /\ Len(stack) > 1 => 1 \in 1 .. Len(stack) - 1 /\ Len(stack) - 1 # 0
        BY <3>1, AboveOne
    <3>2. CASE Descend
      <4>1. /\ Len(stack') = Len(stack) + 1
            /\ \A d \in 1 .. Len(stack) - 1 : stack'[d] = stack[d]
            /\ stack'[Len(stack)] = <<Top[1], Top[2], Top[3] + 1>>
          BY <1>1, <3>2, DescendedStack
      <4>2. stack'[1][1] = stack[1][1] /\ stack'[1][2] = stack[1][2]
        <5>1. CASE Len(stack) = 1
            BY <4>1, <5>1 DEF Top
        <5>2. CASE Len(stack) > 1
            BY <3>5, <4>1, <5>2
        <5> QED  BY <3>5, <5>1, <5>2
      <4>3. stack' # <<>>
        <5>1. Len(stack') # 0
            BY <3>1, <4>1
        <5> QED  BY <5>1
      <4> QED  BY <2>6, <4>2, <4>3
    <3>3. CASE Return \/ Leave
      <4>1. /\ stack' = Below /\ Len(stack') = Len(stack) - 1
            /\ \A d \in 1 .. Len(stack) - 1 : stack'[d] = stack[d]
        <5>1. stack' = Below
            BY <3>3 DEF Return, Leave
        <5> QED  BY <1>1, <2>6, <5>1, TopOfStack
      <4>2. CASE Len(stack) = 1
        <5>1. SettledIn(unit, types', DOMAIN valueMap', Top)
            BY <1>1, <3>3, EndSettles DEF CallsInv
        <5>2. c[1] = Top[1] /\ c[2] = Top[2]
            BY <2>6, <4>2 DEF Top
        <5> QED  BY <5>1, <5>2 DEF SettledIn
      <4>3. CASE Len(stack) > 1
        <5>1. Len(stack) - 1 # 0 /\ 1 \in 1 .. Len(stack) - 1
            BY <3>5, <4>3
        <5>2. stack'[1] = stack[1]
            BY <4>1, <5>1
        <5>3. stack' # <<>>
          <6>1. Len(stack') # 0
              BY <4>1, <5>1
          <6> QED  BY <6>1
        <5> QED  BY <2>6, <5>2, <5>3
      <4> QED  BY <3>5, <4>2, <4>3
    <3>4. CASE ~(Descend \/ Return \/ Leave)
      <4>1. stack' = stack
          BY <1>4, <2>6, <3>4 DEF Next, vars, program, Begin, Turn,
             StartConstants, NextFunctionTypes, OptimizeModule, ReserveCasts, Complete,
             Incorporate, FunctionConstants, FunctionInstructions, purgeFunction,
             Enter, Incorporated
      <4> QED  BY <2>6, <4>1
    <3> QED  BY <3>2, <3>3, <3>4
  <2> QED  BY <1>3, <1>4, <2>4, <2>5, <2>6
<1>5. CASE Turn /\ phase \in {"types", "consts"}
  <2>1. /\ UNCHANGED <<phase, fn, types, valueMap>> /\ turn' = turn + 1
        /\ todo' = Body(turn + 1) /\ turn + 1 \in 1 .. Turns
        /\ todo = <<>> /\ stack = <<>>
      BY <1>2, <1>5 DEF Turn, Idle, tables
  <2>2. \A k \in 1 .. turn : \A c \in Needs(phase, unit.functions[fn].code[k]) :
          SettledIn(unit, types, DOMAIN valueMap, c)
      BY <1>3, <1>5, <2>1 DEF Members
  <2>3. Needs(phase, unit.functions[fn].code[turn + 1]) \subseteq Members(todo')
      BY <1>1, <1>5, <2>1, NeedsCalled
  <2>4. \A k \in 1 .. turn + 1 : k \in 1 .. turn \/ k = turn + 1
      BY <1>2
  <2> QED  BY <1>1, <2>1, <2>2, <2>3, <2>4 DEF CallsSettled
<1>6. CASE phase' \notin {"types", "consts"} \/ turn' = 0
    BY <1>6 DEF CallsSettled
<1> QED  BY <1>4, <1>5, <1>6 DEF Next, vars, program, Begin, Return, Descend, Leave,
         Turn, StartConstants, NextFunctionTypes, OptimizeModule, ReserveCasts,
         Complete, Incorporate, FunctionConstants, FunctionInstructions,
         purgeFunction, Enter

\* What an instruction needs is a call, and stays settled.
LEMMA WalkGrows ==
    ASSUME NEW u, NEW f, NEW p \in {"types", "consts"}, NEW S, NEW T, NEW K, NEW L,
           Members(S) \subseteq Members(T), p = "types" \/ K \subseteq L,
           BodyWalked(u, f, p, S, K)
    PROVE  BodyWalked(u, f, p, T, L)
<1>1. ASSUME NEW i, NEW c \in Needs(p, i), SettledIn(u, S, K, c)
      PROVE  SettledIn(u, T, L, c)
  <2>1. CASE p = "types"
    <3>1. c[1] \in {"type", "operand"}
        BY <1>1, <2>1 DEF Needs
    <3> QED  BY <1>1, <3>1 DEF SettledIn
  <2>2. CASE p = "consts"
    <3>1. c[1] \in {"pooled", "value"}
        BY <1>1, <2>2 DEF Needs
    <3> QED  BY <1>1, <2>2, <3>1 DEF SettledIn
  <2> QED  BY <2>1, <2>2
<1> QED  BY <1>1 DEF BodyWalked

\* A loop that is over has walked its body.
LEMMA LoopWalks ==
    ASSUME CallsInv, phase \in {"types", "consts"}, LoopEnds
    PROVE  BodyWalked(unit, fn, phase, types, DOMAIN valueMap)
<1>1. turn = Turns /\ stack = <<>> /\ todo = <<>>
    BY DEF LoopEnds, Idle
<1>2. Turns = Len(unit.functions[fn].code)
    BY DEF Turns, Fn
<1>3. Members(todo) = {}
    BY <1>1 DEF Members
<1> QED  BY <1>1, <1>2, <1>3 DEF CallsInv, CallsSettled, BodyWalked

\* The types of a body that was walked stay in the table.
LEMMA TypesWalkedPreserved == ASSUME CallsInv, [Next]_vars PROVE TypesWalked'
<1>1. unit' = unit /\ Members(types) \subseteq Members(types') /\ fn \in Nat
    BY UnitStays, TypesGrow DEF CallsInv, ScopesInv, NumberingInv, TypeInv
<1>2. ASSUME NEW f \in 1 .. Len(unit.functions),
             BodyWalked(unit, f, "types", types, {})
      PROVE  BodyWalked(unit, f, "types", types', {})
    BY <1>1, <1>2, WalkGrows
<1> SUFFICES ASSUME NEW f \in 1 .. Len(unit.functions),
                    phase' \notin {"globals", "constants"}, phase' = "types" => f < fn'
             PROVE  BodyWalked(unit, f, "types", types', {})
    BY <1>1 DEF TypesWalked
<1>3. f \in Nat /\ f > 0
    OBVIOUS
<1>4. CASE phase = "types" /\ LoopEnds /\ f = fn
  <2>1. BodyWalked(unit, f, "types", types, DOMAIN valueMap)
      BY <1>4, LoopWalks
  <2> QED  BY <1>1, <2>1, WalkGrows
<1>5. CASE phase \notin {"globals", "constants"} /\ (phase = "types" => f < fn)
    BY <1>2, <1>5 DEF CallsInv, TypesWalked
<1>6. CASE NextFunctionTypes
  <2>1. phase' = "types" /\ fn' = fn + 1
      BY <1>6 DEF NextFunctionTypes, Enter
  <2>2. f < fn \/ f = fn
      BY <1>1, <2>1
  <2>3. phase = "types" /\ LoopEnds
    <3>1. phase = "constants" => fn = 0
        BY DEF CallsInv
    <3> QED  BY <1>3, <1>6, <2>2, <3>1 DEF NextFunctionTypes
  <2> QED  BY <1>4, <1>5, <2>2, <2>3
<1>7. CASE OptimizeModule
  <2>1. fn = Len(unit.functions) /\ LoopEnds /\ phase \in {"constants", "types"}
      BY <1>7 DEF OptimizeModule
  <2>2. f < fn \/ f = fn
      BY <1>1, <2>1
  <2>3. phase = "types"
    <3>1. phase = "constants" => fn = 0
        BY DEF CallsInv
    <3> QED  BY <1>3, <2>1, <2>2, <3>1
  <2> QED  BY <1>4, <1>5, <2>1, <2>2, <2>3
<1>8. CASE ~(NextFunctionTypes \/ OptimizeModule)
  <2>1. phase \notin {"globals", "constants"} /\ (phase = "types" => f < fn)
      BY <1>8 DEF Next, vars, program, Begin, Return, Descend, Leave, Turn,
         StartConstants, ReserveCasts, Complete, Incorporate, FunctionConstants,
         FunctionInstructions, purgeFunction, Incorporated, Enter
  <2> QED  BY <1>5, <2>1
<1> QED  BY <1>6, <1>7, <1>8

\* The constants of the body keep a number while the function is there.
LEMMA ConstantsWalkedPreserved == ASSUME CallsInv, [Next]_vars PROVE ConstantsWalked'
<1>1. /\ unit' = unit /\ Members(types) \subseteq Members(types')
      /\ ~purgeFunction => DOMAIN valueMap \subseteq DOMAIN valueMap'
    BY UnitStays, TypesGrow, KnownGrows DEF CallsInv, ScopesInv, NumberingInv
<1> SUFFICES ASSUME phase' = "insts"
             PROVE  BodyWalked(unit, fn', "consts", types', DOMAIN valueMap')
    BY <1>1 DEF ConstantsWalked
<1>2. ~purgeFunction
    BY DEF purgeFunction, Enter
<1>3. fn' = fn /\ (phase = "insts" \/ (phase = "consts" /\ LoopEnds))
  <2>1. CASE FunctionInstructions
      BY <2>1 DEF FunctionInstructions, Enter
  <2>2. CASE ~FunctionInstructions
    <3>1. ~ReserveCasts
        BY DEF ReserveCasts, program, Enter
    <3>2. fn' = fn /\ phase' = phase
        BY <2>2, <3>1 DEF Next, vars, program, Begin, Return, Descend, Leave, Turn,
           StartConstants, NextFunctionTypes, OptimizeModule, Complete, Incorporate,
           FunctionConstants, purgeFunction, Enter
    <3> QED  BY <3>2
  <2> QED  BY <2>1, <2>2
<1>4. BodyWalked(unit, fn, "consts", types, DOMAIN valueMap)
    BY <1>3, LoopWalks DEF CallsInv, ConstantsWalked
<1> QED  BY <1>1, <1>2, <1>3, <1>4, WalkGrows

\* A value has its type before it has its number.
LEMMA ValuesHaveTypesPreserved == ASSUME CallsInv, [Next]_vars PROVE ValuesHaveTypes'
<1>1. unit' = unit /\ Members(types) \subseteq Members(types') /\ TypeInv
    BY UnitStays, TypesGrow DEF CallsInv, ScopesInv, NumberingInv
<1>2. CASE Leave /\ Top[1] = "value"
  <2>1. DOMAIN valueMap' = DOMAIN valueMap \cup {Top[2]}
      BY <1>2 DEF Leave
  <2>2. unit.typeOf[Top[2]] \in Members(types')
      BY <1>1, <1>2, EndSettles DEF CallsInv
  <2> QED  BY <1>1, <2>1, <2>2 DEF CallsInv, ValuesHaveTypes
<1>3. CASE ~(Leave /\ Top[1] = "value")
  <2>1. DOMAIN valueMap' \subseteq DOMAIN valueMap
      BY <1>3 DEF Next, vars, tables, Begin, Return, Descend, Leave, Turn,
         StartConstants, NextFunctionTypes, OptimizeModule, ReserveCasts, Complete,
         Incorporate, FunctionConstants, FunctionInstructions, purgeFunction,
         OptimizeConstants, PurgedMap
  <2> QED  BY <1>1, <2>1 DEF CallsInv, ValuesHaveTypes
<1> QED  BY <1>2, <1>3

\* The parts of the invariant together.
LEMMA CallsInvPreserved == ASSUME CallsInv, [Next]_vars PROVE CallsInv'
<1>1. (phase = "constants" => fn = 0)'
    BY DEF CallsInv, Next, vars, program, Begin, Return, Descend, Leave, Turn,
       StartConstants, NextFunctionTypes, OptimizeModule, ReserveCasts, Complete,
       Incorporate, FunctionConstants, FunctionInstructions, purgeFunction, Enter
<1>2. ScopesInv'
    BY ScopesPreserved DEF CallsInv
<1> QED  BY <1>1, <1>2, FirstsPreserved, CallsPreserved, TypesWalkedPreserved,
         ConstantsWalkedPreserved, ValuesHaveTypesPreserved DEF CallsInv

\* At first nothing was called for.
LEMMA CallsInvStarts == ASSUME Init PROVE CallsInv
<1>1. ScopesInv
    BY ScopesStart
<1>2. phase = "globals" /\ fn = 0 /\ stack = <<>> /\ DOMAIN valueMap = {}
    BY DEF Init
<1> QED  BY <1>1, <1>2 DEF CallsInv, FirstsCalled, CallsSettled, TypesWalked,
            ConstantsWalked, ValuesHaveTypes

\* Whatever an incorporated body names has a number: the constants were called
\* for, the globals and the locals are listed.
LEMMA NamedIsNumbered == ASSUME CallsInv PROVE EverythingNumbered
<1> SUFFICES ASSUME Incorporated, NEW k \in DOMAIN Fn.code
             PROVE  LET i == Fn.code[k]
                    IN /\ Members(i.ops) \cup Members(i.cases) \subseteq DOMAIN valueMap
                       /\ Members(i.types) \cup Members(i.call)
                            \cup {unit.typeOf[v] : v \in Members(i.ops)}
                            \subseteq Members(types)
    BY DEF EverythingNumbered
<1>1. phase = "insts" /\ LoopEnds /\ ScopesInv /\ TypeInv /\ unit \in Units
    BY DEF Incorporated, CallsInv, ScopesInv, NumberingInv, TypeInv
<1>2. fn \in 1 .. Len(unit.functions)
    BY <1>1 DEF TypeInv, InFunction
<1>3. /\ Fn.code \in Seq(Instructions) /\ Fn.args \in Seq(Values)
      /\ DOMAIN Fn.args = 1 .. Len(Fn.args)
      /\ DOMAIN Fn.code = 1 .. Len(Fn.code) /\ Turns = Len(Fn.code)
  <2>1. Fn.code \in Seq(Instructions) /\ Fn.args \in Seq(Values)
      BY <1>1, <1>2, FunctionFields DEF Fn
  <2>2. Turns = Len(Fn.code)
      BY <1>1 DEF Turns
  <2> QED  BY <2>1, <2>2
<1> DEFINE i == Fn.code[k]
<1>4. i \in Instructions
    BY <1>3, ElementOfSeq
<1>5. /\ BodyWalked(unit, fn, "types", types, {})
      /\ BodyWalked(unit, fn, "consts", types, DOMAIN valueMap)
    BY <1>1, <1>2 DEF CallsInv, TypesWalked, ConstantsWalked
<1>6. /\ \A c \in Needs("types", i) : SettledIn(unit, types, {}, c)
      /\ \A c \in Needs("consts", i) : SettledIn(unit, types, DOMAIN valueMap, c)
    BY <1>3, <1>5 DEF BodyWalked, Fn
<1> HIDE DEF i
<1>7. /\ Members(i.types) \cup Members(i.call) \subseteq Members(types)
      /\ \A v \in Members(i.ops) : unit.typeOf[v] \in Members(types)
  <2>1. ASSUME NEW t \in Members(i.types) \cup Members(i.call)
        PROVE  t \in Members(types)
    <3>1. <<"type", t>> \in Needs("types", i)
        BY DEF Needs
    <3> QED  BY <1>6, <3>1 DEF SettledIn
  <2>2. ASSUME NEW v \in Members(i.ops) PROVE unit.typeOf[v] \in Members(types)
    <3>1. <<"operand", v>> \in Needs("types", i)
        BY DEF Needs
    <3> QED  BY <1>6, <3>1 DEF SettledIn
  <2> QED  BY <2>1, <2>2
<1>8. Members(i.cases) \subseteq DOMAIN valueMap
  <2>1. ASSUME NEW v \in Members(i.cases) PROVE v \in DOMAIN valueMap
    <3>1. <<"value", v>> \in Needs("consts", i)
        BY DEF Needs
    <3> QED  BY <1>6, <3>1 DEF SettledIn
  <2> QED  BY <2>1
<1>9. ASSUME NEW v \in Members(i.ops) PROVE v \in DOMAIN valueMap
  <2>1. v \notin Locals /\ v \notin Globals => v \in DOMAIN valueMap
    <3>1. <<"pooled", v>> \in Needs("consts", i)
        BY DEF Needs
    <3> QED  BY <1>6, <3>1 DEF SettledIn, Locals, Globals
  <2>2. v \in Globals => v \in DOMAIN valueMap
    <3>1. DOMAIN unit.globals = 1 .. Len(unit.globals)
      <4>1. unit.globals \in Seq(Values)
          BY <1>1, UnitFields
      <4> QED  BY <4>1
    <3> QED  BY <1>1, <3>1 DEF ScopesInv, GlobalsKept, Globals, Members
  <2>3. v \in ValuesOf(Fn) => v \in DOMAIN valueMap
    <3>1. CASE v \in Members(Fn.args)
        BY <1>1, <1>3, <3>1 DEF ScopesInv, ArgumentsKept, Members
    <3>2. CASE \E m \in DOMAIN Fn.code : ~Fn.code[m].void /\ v = Fn.code[m].id
      <4>1. PICK m \in 1 .. Turns : ~Fn.code[m].void /\ v = Fn.code[m].id
          BY <1>3, <3>2
      <4>2. Listed(unit, phase, fn, m) /\ Item(unit, phase, fn, m) = v /\ Listing
          BY <1>1, <4>1 DEF Listed, Item, Listing, Fn
      <4> QED  BY <1>1, <4>1, <4>2, ListingEnds
    <3> QED  BY <3>1, <3>2 DEF ValuesOf
  <2>4. v \in Locals => v \in ValuesOf(Fn)
    <3>1. DOMAIN unit.functions = 1 .. Len(unit.functions)
      <4>1. unit.functions \in Seq(Functions)
          BY <1>1, UnitFields
      <4> QED  BY <4>1
    <3>2. Members(i.ops) \subseteq (Values \ LocalsIn(unit)) \cup ValuesOf(Fn)
        BY <1>1, <1>2, <1>3, <3>1, ScopesAssumption DEF Fn, i
    <3> QED  BY <3>2 DEF Locals
  <2> QED  BY <2>1, <2>2, <2>3, <2>4
<1> QED  BY <1>7, <1>8, <1>9 DEF i

\* When a function is written, whatever its records name has a number: every
\* operand, case value and type was called for before, and kept its place.
THEOREM EverythingNumberedCorrect == Spec => []EverythingNumbered
<1>1. Init => CallsInv
    BY CallsInvStarts
<1>2. CallsInv /\ [Next]_vars => CallsInv'
    BY CallsInvPreserved
<1>3. CallsInv => EverythingNumbered
    BY NamedIsNumbered
<1> QED  BY <1>1, <1>2, <1>3, PTL DEF Spec

-----------------------------------------------------------------------------
(* The pools of constants *)

\* The pool in these slots is in order.
PoolIn(u, list, from, to) ==
    \A m, n \in from + 1 .. to :
        m < n =>
          /\ u.typeOf[list[n][1]] \in u.intTypes => u.typeOf[list[m][1]] \in u.intTypes
          /\ u.typeOf[list[m][1]] = u.typeOf[list[n][1]] =>
               \A k \in m .. n : u.typeOf[list[k][1]] = u.typeOf[list[n][1]]

\* The module's constants are in order from their sort on: before the slots of
\* the bitcasts, and below whatever a function adds.
ModulePool ==
    /\ IsFiniteSet(DOMAIN castMap)
    /\ phase \in {"casts", "pointers", "ready"} =>
         PoolIn(unit, values, firstConstant, Len(values) - Cardinality(DOMAIN castMap))
    /\ phase \in {"args", "consts", "insts"} =>
         PoolIn(unit, values, firstConstant,
                numModuleValues - Cardinality(DOMAIN castMap))
FunctionPool ==
    phase = "insts" => /\ firstInst <= Len(values)
                       /\ PoolIn(unit, values, firstFuncConstant, firstInst)
PoolsInv == CallsInv /\ ModulePool /\ FunctionPool

\* A pool stays in order as long as its slots keep their values.
LEMMA PoolKept ==
    ASSUME NEW u, NEW s, NEW t, NEW from \in Nat, NEW to \in Int,
           \A n \in from + 1 .. to : t[n][1] = s[n][1], PoolIn(u, s, from, to)
    PROVE  PoolIn(u, t, from, to)
<1> SUFFICES ASSUME NEW m \in from + 1 .. to, NEW n \in from + 1 .. to, m < n
             PROVE  /\ u.typeOf[t[n][1]] \in u.intTypes => u.typeOf[t[m][1]] \in u.intTypes
                    /\ u.typeOf[t[m][1]] = u.typeOf[t[n][1]] =>
                         \A k \in m .. n : u.typeOf[t[k][1]] = u.typeOf[t[n][1]]
    BY DEF PoolIn
<1>1. \A k \in m .. n : k \in from + 1 .. to
    OBVIOUS
<1>2. t[m][1] = s[m][1] /\ t[n][1] = s[n][1] /\ \A k \in m .. n : t[k][1] = s[k][1]
    BY <1>1
<1>3. /\ u.typeOf[s[n][1]] \in u.intTypes => u.typeOf[s[m][1]] \in u.intTypes
      /\ u.typeOf[s[m][1]] = u.typeOf[s[n][1]] =>
           \A k \in m .. n : u.typeOf[s[k][1]] = u.typeOf[s[n][1]]
    BY DEF PoolIn
<1> QED  BY <1>2, <1>3

\* A type of the table has a place of its own.
LEMMA PlaneOfType ==
    ASSUME types \in Seq(Types), NEW t \in Members(types)
    PROVE  TypeID(t) \in Nat /\ types[TypeID(t)] = t
<1>1. DOMAIN types = 1 .. Len(types)
    OBVIOUS
<1>2. \E n \in DOMAIN types : types[n] = t
    BY DEF Members
<1>3. TypeID(t) \in DOMAIN types /\ types[TypeID(t)] = t
    BY <1>2 DEF TypeID
<1> QED  BY <1>1, <1>3

\* What the order of the sort says of two slots, and of one between them.
LEMMA PrecedesPlanes ==
    ASSUME types \in Seq(Types), NEW m, NEW n, Precedes(m, n),
           unit.typeOf[values[m][1]] \in Members(types),
           unit.typeOf[values[n][1]] \in Members(types)
    PROVE  /\ IsInt(values[n][1]) => IsInt(values[m][1])
           /\ (IsInt(values[n][1]) <=> IsInt(values[m][1])) =>
                TypeID(unit.typeOf[values[m][1]]) <= TypeID(unit.typeOf[values[n][1]])
<1> DEFINE x == TypeID(unit.typeOf[values[m][1]])
           y == TypeID(unit.typeOf[values[n][1]])
           a == IsInt(values[m][1])
           b == IsInt(values[n][1])
<1>1. x \in Nat /\ y \in Nat
    BY PlaneOfType
<1>2. a \in BOOLEAN /\ b \in BOOLEAN
    BY DEF IsInt
<1>3. /\ a # b => a
      /\ a = b => x = y \/ x < y
    BY DEF Precedes
<1> HIDE DEF x, y, a, b
<1>4. x = y \/ x < y => x <= y
    BY <1>1
<1>5. b => a
    BY <1>2, <1>3
<1>6. (b <=> a) => x <= y
    BY <1>2, <1>3, <1>4
<1> QED  BY <1>5, <1>6 DEF x, y, a, b

\* A slot between two of one type is of that type.
LEMMA BetweenPlanes ==
    ASSUME types \in Seq(Types), NEW m, NEW k, NEW n, Precedes(m, k), Precedes(k, n),
           unit.typeOf[values[m][1]] \in Members(types),
           unit.typeOf[values[k][1]] \in Members(types),
           unit.typeOf[values[m][1]] = unit.typeOf[values[n][1]]
    PROVE  unit.typeOf[values[k][1]] = unit.typeOf[values[n][1]]
<1> DEFINE t == unit.typeOf[values[n][1]]
           s == unit.typeOf[values[k][1]]
<1>1. IsInt(values[m][1]) <=> IsInt(values[n][1])
    BY DEF IsInt
<1>2. /\ IsInt(values[k][1]) => IsInt(values[m][1])
      /\ IsInt(values[n][1]) => IsInt(values[k][1])
    BY PrecedesPlanes
<1>3. TypeID(t) <= TypeID(s) /\ TypeID(s) <= TypeID(t)
    BY <1>1, <1>2, PrecedesPlanes
<1>4. /\ TypeID(t) \in Nat /\ types[TypeID(t)] = t
      /\ TypeID(s) \in Nat /\ types[TypeID(s)] = s
    BY PlaneOfType
<1> HIDE DEF t, s
<1>5. TypeID(t) = TypeID(s)
    BY <1>3, <1>4
<1>6. s = t
    BY <1>4, <1>5
<1> QED  BY <1>6 DEF s, t

\* The sort puts a pool in order.
LEMMA SortOrders ==
    ASSUME types \in Seq(Types), values \in Seq(Values \X Nat), NEW from \in Nat,
           \A n \in from + 1 .. Len(values) :
              unit.typeOf[values[n][1]] \in Members(types),
           OptimizeConstants(from, Len(values))
    PROVE  /\ PoolIn(unit, values', from, Len(values))
           /\ \A n \in 1 .. Len(values) : n <= from => values'[n] = values[n]
           /\ DOMAIN values' = DOMAIN values
<1> DEFINE R == from + 1 .. Len(values)
<1>1. PICK p \in [R -> R] :
        /\ \A m, n \in R : m < n => Precedes(p[m], p[n])
        /\ values' = [n \in DOMAIN values |->
                        IF n \in DOMAIN p THEN values[p[n]] ELSE values[n]]
    BY DEF OptimizeConstants
<1>2. Len(values) \in Nat /\ DOMAIN values = 1 .. Len(values)
    OBVIOUS
<1>3. \A n \in R : values'[n] = values[p[n]] /\ p[n] \in R
  <2>1. \A n \in R : n \in DOMAIN values
      BY <1>2
  <2> QED  BY <1>1, <2>1
<1>4. ASSUME NEW m \in R, NEW n \in R, m < n
      PROVE  /\ IsInt(values'[n][1]) => IsInt(values'[m][1])
             /\ unit.typeOf[values'[m][1]] = unit.typeOf[values'[n][1]] =>
                  \A k \in m .. n :
                    unit.typeOf[values'[k][1]] = unit.typeOf[values'[n][1]]
  <2>1. /\ Precedes(p[m], p[n])
        /\ unit.typeOf[values[p[m]][1]] \in Members(types)
        /\ unit.typeOf[values[p[n]][1]] \in Members(types)
      BY <1>1, <1>3, <1>4
  <2>2. IsInt(values'[n][1]) => IsInt(values'[m][1])
    <3>1. IsInt(values[p[n]][1]) => IsInt(values[p[m]][1])
        BY <2>1, PrecedesPlanes
    <3> QED  BY <1>3, <3>1
  <2>3. ASSUME unit.typeOf[values'[m][1]] = unit.typeOf[values'[n][1]],
               NEW k \in m .. n
        PROVE  unit.typeOf[values'[k][1]] = unit.typeOf[values'[n][1]]
    <3>1. k \in R /\ (k = m \/ k = n \/ (m < k /\ k < n))
        BY <1>2
    <3>2. CASE k = m \/ k = n
        BY <2>3, <3>2
    <3>3. CASE m < k /\ k < n
      <4>1. /\ Precedes(p[m], p[k]) /\ Precedes(p[k], p[n])
            /\ unit.typeOf[values[p[k]][1]] \in Members(types)
          BY <1>1, <1>3, <3>1, <3>3
      <4>2. unit.typeOf[values[p[m]][1]] = unit.typeOf[values[p[n]][1]]
          BY <1>3, <2>3
      <4>3. unit.typeOf[values[p[k]][1]] = unit.typeOf[values[p[n]][1]]
        <5> DEFINE a == p[m]
                   b == p[k]
                   c == p[n]
        <5>1. /\ Precedes(a, b) /\ Precedes(b, c)
              /\ unit.typeOf[values[a][1]] \in Members(types)
              /\ unit.typeOf[values[b][1]] \in Members(types)
              /\ unit.typeOf[values[a][1]] = unit.typeOf[values[c][1]]
            BY <2>1, <4>1, <4>2
        <5> HIDE DEF a, b, c
        <5>2. unit.typeOf[values[b][1]] = unit.typeOf[values[c][1]]
          <6>1. \A x, y, z :
                  /\ Precedes(x, y) /\ Precedes(y, z)
                  /\ unit.typeOf[values[x][1]] \in Members(types)
                  /\ unit.typeOf[values[y][1]] \in Members(types)
                  /\ unit.typeOf[values[x][1]] = unit.typeOf[values[z][1]]
                  => unit.typeOf[values[y][1]] = unit.typeOf[values[z][1]]
              BY BetweenPlanes
          <6> QED  BY <5>1, <6>1
        <5> QED  BY <5>2 DEF b, c
      <4>4. values'[k] = values[p[k]] /\ values'[n] = values[p[n]]
          BY <1>3, <3>1
      <4> QED  BY <4>3, <4>4
    <3> QED  BY <3>1, <3>2, <3>3
  <2> QED  BY <2>2, <2>3
<1>5. PoolIn(unit, values', from, Len(values))
    BY <1>4 DEF PoolIn, IsInt
<1>6. ASSUME NEW n \in 1 .. Len(values), n <= from PROVE values'[n] = values[n]
  <2>1. n \notin R /\ n \in DOMAIN values
      BY <1>2, <1>6
  <2> QED  BY <1>1, <2>1
<1>7. DOMAIN values' = DOMAIN values
    BY <1>1
<1> QED  BY <1>5, <1>6, <1>7

\* Outside of the two sorts a slot keeps its value until it is purged.
LEMMA FirstsKept ==
    ASSUME NumberingInv, [Next]_vars, ~OptimizeModule, NEW n \in 1 .. Len(values),
           FunctionInstructions => n <= firstFuncConstant,
           purgeFunction => n <= numModuleValues
    PROVE  values'[n][1] = values[n][1]
<1>1. /\ values \in Seq(Values \X Nat) /\ Len(values) \in Nat
      /\ DOMAIN values = 1 .. Len(values)
      /\ firstFuncConstant \in Nat /\ numModuleValues \in Nat
    BY DEF NumberingInv, ValuesTyped
<1>2. \A x : Append(values, x)[n] = values[n]
    BY <1>1, AppendProperties
<1>3. CASE Return
  <2>1. \/ values' = values
        \/ values' = [values EXCEPT ![valueMap[Top[2]]] = <<@[1], @[2] + 1>>]
      BY <1>3 DEF Return
  <2> QED  BY <1>1, <2>1
<1>4. CASE Leave
  <2>1. values' = values \/ \E x : values' = Append(values, x)
      BY <1>4 DEF Leave
  <2> QED  BY <1>2, <2>1
<1>5. CASE ReserveCasts
  <2>1. values' = values \/ \E x : values' = Append(values, x)
      BY <1>5 DEF ReserveCasts
  <2> QED  BY <1>2, <2>1
<1>6. CASE FunctionInstructions
  <2>1. n \notin firstFuncConstant + 1 .. Len(values)
      BY <1>1, <1>6
  <2>2. OptimizeConstants(firstFuncConstant, Len(values))
      BY <1>6 DEF FunctionInstructions
  <2>3. values'[n] = values[n]
      BY <1>1, <2>1, <2>2 DEF OptimizeConstants
  <2> QED  BY <2>3
<1>7. CASE purgeFunction
  <2>1. values' = SubSeq(values, 1, numModuleValues) /\ numModuleValues <= Len(values)
      BY <1>7 DEF purgeFunction, Incorporated, NumberingInv, ModuleSlots
  <2>2. n \in 1 .. numModuleValues
      BY <1>1, <1>7
  <2>3. values'[n] = values[n]
    <3>1. /\ 1 \in 1 .. Len(values) + 1 /\ numModuleValues \in 0 .. Len(values)
        BY <1>1, <2>1
    <3> QED  BY <1>1, <2>1, <2>2, <3>1, SubSeqProperties
  <2> QED  BY <2>3
<1>8. CASE values' = values
    BY <1>8
<1> QED  BY <1>3, <1>4, <1>5, <1>6, <1>7, <1>8
         DEF Next, vars, tables, Begin, Descend, Turn, StartConstants,
             NextFunctionTypes, Complete, Incorporate, FunctionConstants

\* A value without a bitcast has its type in the table.
LEMMA SlotsHaveTypes ==
    ASSUME CallsInv, NEW from \in Nat, \A v \in DOMAIN castMap : castMap[v] <= from,
           NEW n \in from + 1 .. Len(values)
    PROVE  unit.typeOf[values[n][1]] \in Members(types)
<1>1. /\ Numbering /\ n \in DOMAIN values /\ ~(n <= from)
      /\ values \in Seq(Values \X Nat)
    BY DEF CallsInv, ScopesInv, NumberingInv, ValuesTyped
<1>2. values[n][1] \in DOMAIN valueMap
    BY <1>1 DEF Numbering
<1> QED  BY <1>2 DEF CallsInv, ValuesHaveTypes

\* A slot for a bitcast is one more slot and one more bitcast.
LEMMA CastsCounted ==
    ASSUME NumberingInv, ModulePool, ReserveCasts
    PROVE  /\ IsFiniteSet(DOMAIN castMap')
           /\ Len(values') - Cardinality(DOMAIN castMap')
                = Len(values) - Cardinality(DOMAIN castMap)
<1>1. /\ IsFiniteSet(DOMAIN castMap) /\ Cardinality(DOMAIN castMap) \in Nat
      /\ values \in Seq(Values \X Nat) /\ Len(values) \in Nat
    BY FS_CardinalityType DEF ModulePool, NumberingInv, ValuesTyped
<1>2. \/ values' = values /\ castMap' = castMap
      \/ \E v \in CastElements \ DOMAIN castMap :
           /\ values' = Append(values, <<v, 1>>)
           /\ DOMAIN castMap' = DOMAIN castMap \cup {v}
    BY DEF ReserveCasts
<1>3. CASE values' = values /\ castMap' = castMap
    BY <1>1, <1>3
<1>4. ASSUME NEW v, v \notin DOMAIN castMap, values' = Append(values, <<v, 1>>),
             DOMAIN castMap' = DOMAIN castMap \cup {v}
      PROVE  /\ IsFiniteSet(DOMAIN castMap')
             /\ Len(values') - Cardinality(DOMAIN castMap')
                  = Len(values) - Cardinality(DOMAIN castMap)
  <2>1. /\ IsFiniteSet(DOMAIN castMap \cup {v})
        /\ Cardinality(DOMAIN castMap \cup {v}) = Cardinality(DOMAIN castMap) + 1
      BY <1>1, <1>4, FS_AddElement
  <2>2. Len(Append(values, <<v, 1>>)) = Len(values) + 1
    <3> DEFINE x == <<v, 1>>
    <3> HIDE DEF x
    <3>1. Len(Append(values, x)) = Len(values) + 1
        BY <1>1
    <3> QED  BY <3>1 DEF x
  <2>3. /\ Len(values') = Len(values) + 1
        /\ Cardinality(DOMAIN castMap') = Cardinality(DOMAIN castMap) + 1
      BY <1>4, <2>1, <2>2
  <2> QED  BY <1>1, <1>4, <2>1, <2>3
<1> QED  BY <1>2, <1>3, <1>4

\* No step disturbs the module's pool ...
LEMMA ModulePoolPreserved == ASSUME PoolsInv, [Next]_vars PROVE ModulePool'
<1>1. /\ NumberingInv /\ TypeInv /\ unit' = unit
      /\ values \in Seq(Values \X Nat) /\ types \in Seq(Types)
      /\ Len(values) \in Nat /\ firstConstant \in Nat /\ numModuleValues \in Nat
      /\ firstFuncConstant \in Nat
    BY UnitStays DEF PoolsInv, CallsInv, ScopesInv, NumberingInv, ValuesTyped, TypeInv
<1>2. IsFiniteSet(DOMAIN castMap) /\ Cardinality(DOMAIN castMap) \in Nat
    BY FS_CardinalityType DEF PoolsInv, ModulePool
<1> DEFINE casts == Cardinality(DOMAIN castMap)
           end == Len(values) - casts
           mend == numModuleValues - casts
<1>3. /\ end \in Int /\ mend \in Int
      /\ \A n \in firstConstant + 1 .. end : n \in 1 .. Len(values)
      /\ \A n \in firstConstant + 1 .. mend : n <= numModuleValues
    BY <1>1, <1>2
<1>4. /\ phase \in {"casts", "pointers", "ready"} =>
           PoolIn(unit, values, firstConstant, end)
      /\ phase \in {"args", "consts", "insts"} =>
           /\ PoolIn(unit, values, firstConstant, mend)
           /\ numModuleValues <= Len(values)
    BY <1>1 DEF PoolsInv, ModulePool, NumberingInv, ModuleSlots
<1>5. /\ ~ReserveCasts => castMap' = castMap
      /\ ~StartConstants => firstConstant' = firstConstant
      /\ ~Incorporate => numModuleValues' = numModuleValues
    BY DEF Next, vars, marks, Begin, Return, Descend, Leave, Turn, StartConstants,
       NextFunctionTypes, OptimizeModule, ReserveCasts, Complete, Incorporate,
       FunctionConstants, FunctionInstructions, purgeFunction
<1>6. CASE OptimizeModule
  <2>1. /\ phase \in {"constants", "types"} /\ phase' = "casts" /\ ~ReserveCasts
        /\ ~StartConstants
        /\ OptimizeConstants(firstConstant, Len(values))
      BY <1>6 DEF OptimizeModule, Enter, ReserveCasts, StartConstants
  <2>2. DOMAIN castMap = {}
      BY <1>1, <2>1 DEF NumberingInv, ModuleSlots
  <2>3. /\ PoolIn(unit, values', firstConstant, Len(values))
        /\ DOMAIN values' = DOMAIN values
    <3>1. \A n \in firstConstant + 1 .. Len(values) :
             unit.typeOf[values[n][1]] \in Members(types)
        BY <1>1, <2>2, SlotsHaveTypes DEF PoolsInv
    <3> QED  BY <1>1, <2>1, <3>1, SortOrders
  <2>4. Len(values') - Cardinality(DOMAIN castMap') = Len(values)
    <3>1. Cardinality(DOMAIN castMap') = 0
        BY <1>5, <2>1, <2>2, FS_EmptySet
    <3>2. Len(values') = Len(values)
      <4>1. \A v \in DOMAIN castMap : castMap[v] <= firstConstant
          BY <2>2
      <4> QED  BY <1>1, <1>5, <2>1, <4>1, SortKeepsNumbering DEF NumberingInv
    <3> QED  BY <1>1, <3>1, <3>2
  <2> QED  BY <1>1, <1>2, <1>5, <2>1, <2>3, <2>4 DEF ModulePool
<1>7. CASE ReserveCasts
  <2>1. /\ phase = "casts" /\ phase' \in {"casts", "pointers"}
        /\ ~OptimizeModule /\ ~FunctionInstructions /\ ~purgeFunction
        /\ ~StartConstants
      BY <1>7 DEF ReserveCasts, Enter, program, OptimizeModule, FunctionInstructions,
         purgeFunction, Incorporated, StartConstants
  <2>2. /\ IsFiniteSet(DOMAIN castMap')
        /\ Len(values') - Cardinality(DOMAIN castMap') = end
      BY <1>1, <1>7, CastsCounted DEF PoolsInv
  <2> HIDE DEF end
  <2>3. \A n \in firstConstant + 1 .. end : values'[n][1] = values[n][1]
      BY <1>1, <1>3, <2>1, FirstsKept
  <2>4. PoolIn(unit, values', firstConstant, end)
      BY <1>1, <1>3, <1>4, <2>1, <2>3, PoolKept
  <2> QED  BY <1>1, <1>5, <2>1, <2>2, <2>4 DEF ModulePool
<1>8. CASE Incorporate
  <2>1. /\ phase = "ready" /\ phase' = "args" /\ values' = values
        /\ numModuleValues' = Len(values) /\ ~ReserveCasts /\ ~StartConstants
      BY <1>8 DEF Incorporate, Enter, tables, ReserveCasts, StartConstants
  <2> QED  BY <1>1, <1>2, <1>4, <1>5, <2>1 DEF ModulePool
<1>9. CASE purgeFunction
  <2>1. /\ phase = "insts" /\ phase' = "ready"
        /\ values' = SubSeq(values, 1, numModuleValues)
        /\ ~ReserveCasts /\ ~StartConstants /\ ~OptimizeModule
        /\ ~FunctionInstructions
      BY <1>9 DEF purgeFunction, Incorporated, Enter, ReserveCasts, StartConstants,
         OptimizeModule, FunctionInstructions
  <2>2. Len(values') = numModuleValues
    <3>1. /\ 1 \in 1 .. Len(values) + 1 /\ numModuleValues \in 0 .. Len(values)
        BY <1>1, <1>4, <2>1
    <3> QED  BY <1>1, <2>1, <3>1, SubSeqProperties
  <2> HIDE DEF mend
  <2>3. \A n \in firstConstant + 1 .. mend : values'[n][1] = values[n][1]
    <3>1. \A n \in firstConstant + 1 .. mend : n \in 1 .. Len(values)
        BY <1>1, <1>2, <1>4, <2>1 DEF mend
    <3> QED  BY <1>1, <1>3, <2>1, <3>1, FirstsKept
  <2>4. PoolIn(unit, values', firstConstant, mend)
      BY <1>1, <1>3, <1>4, <2>1, <2>3, PoolKept
  <2> QED  BY <1>1, <1>2, <1>5, <2>1, <2>2, <2>4 DEF ModulePool, mend
<1>10. CASE phase \in {"args", "consts", "insts"} /\ ~purgeFunction
  <2>1. /\ phase' \in {"args", "consts", "insts"}
        /\ ~ReserveCasts /\ ~StartConstants /\ ~OptimizeModule /\ ~Incorporate
    <3>1. ~ReserveCasts /\ ~StartConstants /\ ~OptimizeModule /\ ~Incorporate
        BY <1>10 DEF ReserveCasts, StartConstants, OptimizeModule, Incorporate
    <3> QED  BY <1>10, <3>1 DEF Next, vars, program, Begin, Return, Descend, Leave,
             Turn, NextFunctionTypes, Complete, FunctionConstants,
             FunctionInstructions, Enter
  <2> HIDE DEF mend
  <2>2. \A n \in firstConstant + 1 .. mend : values'[n][1] = values[n][1]
    <3>1. \A n \in firstConstant + 1 .. mend : n \in 1 .. Len(values)
        BY <1>1, <1>2, <1>4, <1>10 DEF mend
    <3>2. FunctionInstructions => numModuleValues <= firstFuncConstant
        BY <1>1 DEF FunctionInstructions, NumberingInv, ModuleSlots
    <3>3. FunctionInstructions =>
            \A n \in firstConstant + 1 .. mend : n <= firstFuncConstant
        BY <1>1, <1>3, <3>2
    <3> QED  BY <1>1, <1>10, <2>1, <3>1, <3>3, FirstsKept
  <2>3. PoolIn(unit, values', firstConstant, mend)
      BY <1>1, <1>3, <1>4, <1>10, <2>2, PoolKept
  <2> QED  BY <1>1, <1>2, <1>5, <2>1, <2>3 DEF ModulePool, mend
<1>11. CASE phase \in {"pointers", "ready"} /\ ~Incorporate
  <2>1. ~ReserveCasts /\ ~StartConstants /\ ~OptimizeModule /\ ~purgeFunction
        /\ ~FunctionInstructions
      BY <1>11 DEF ReserveCasts, StartConstants, OptimizeModule, purgeFunction,
         Incorporated, FunctionInstructions
  <2>2. phase' \in {"pointers", "ready"}
      BY <1>11, <2>1 DEF Next, vars, program, Begin, Return, Descend, Leave,
         Turn, NextFunctionTypes, Complete, FunctionConstants, Enter
  <2>3. Len(values') = Len(values)
    <3>1. Leave => Top[1] # "value"
      <4>1. LoopsInv
          BY DEF PoolsInv, CallsInv, ScopesInv
      <4>2. Leave => stack # <<>> /\ Len(stack) \in 1 .. Len(stack)
          BY <1>1, TopOfStack DEF Leave
      <4>3. Leave => stack[Len(stack)][1] = "type"
          BY <1>11, <4>1, <4>2 DEF LoopsInv, TypesOnly
      <4> QED  BY <4>3 DEF Top
    <3>2. Return => Len(values') = Len(values)
        BY <1>1, ReturnKeepsNumbering DEF NumberingInv
    <3>3. ~Return => values' = values
        BY <2>1, <1>11, <3>1 DEF Next, vars, tables, Begin, Descend, Leave, Turn,
           NextFunctionTypes, Complete, FunctionConstants
    <3> QED  BY <3>2, <3>3
  <2> HIDE DEF end
  <2>4. \A n \in firstConstant + 1 .. end : values'[n][1] = values[n][1]
      BY <1>1, <1>3, <2>1, FirstsKept
  <2>5. PoolIn(unit, values', firstConstant, end)
      BY <1>1, <1>3, <1>4, <1>11, <2>4, PoolKept
  <2> QED  BY <1>1, <1>2, <1>5, <2>1, <2>2, <2>3, <2>5 DEF ModulePool, end
<1>12. CASE phase \in {"globals", "constants", "types", "casts"}
            /\ ~OptimizeModule /\ ~ReserveCasts
  <2>1. ~Incorporate /\ ~Complete /\ ~FunctionConstants /\ ~FunctionInstructions
        /\ ~purgeFunction
      BY <1>12 DEF Incorporate, Complete, FunctionConstants, FunctionInstructions,
         purgeFunction, Incorporated
  <2>2. \/ phase' \in {"globals", "constants", "types"}
        \/ phase = "casts" /\ UNCHANGED <<phase, values>> /\ ~StartConstants
    <3>1. phase = "casts" => stack = <<>> /\ todo = <<>>
        BY DEF PoolsInv, CallsInv, ScopesInv, LoopsInv, TypesOnly
    <3>2. phase = "casts" => Turns = 0 /\ turn \in Nat
        BY <1>1 DEF Turns, TypeInv
    <3>3. phase = "casts" => ~(turn < Turns)
        BY <3>2
    <3> QED  BY <1>12, <2>1, <3>1, <3>3 DEF Next, vars, program, tables, Begin,
             Return, Descend, Leave, Turn, StartConstants, NextFunctionTypes, Enter
  <2>3. IsFiniteSet(DOMAIN castMap')
      BY <1>2, <1>5, <1>12
  <2> QED  BY <1>1, <1>4, <1>5, <1>12, <2>2, <2>3 DEF ModulePool
<1>13. \/ phase \in {"globals", "constants", "types", "casts"}
       \/ phase \in {"args", "consts", "insts"} \/ phase \in {"pointers", "ready"}
    BY <1>1 DEF TypeInv, InFunction
<1> QED  BY <1>6, <1>7, <1>8, <1>9, <1>10, <1>11, <1>12, <1>13

\* ... nor that of the function that is written.
LEMMA FunctionPoolPreserved == ASSUME PoolsInv, [Next]_vars PROVE FunctionPool'
<1>1. /\ NumberingInv /\ TypeInv /\ unit' = unit
      /\ values \in Seq(Values \X Nat) /\ types \in Seq(Types)
      /\ Len(values) \in Nat /\ firstFuncConstant \in Nat /\ firstInst \in Nat
      /\ numModuleValues \in Nat
    BY UnitStays DEF PoolsInv, CallsInv, ScopesInv, NumberingInv, ValuesTyped, TypeInv
<1> SUFFICES ASSUME phase' = "insts"
             PROVE  /\ firstInst' <= Len(values')
                    /\ PoolIn(unit, values', firstFuncConstant', firstInst')
    BY <1>1 DEF FunctionPool
<1>2. CASE FunctionInstructions
  <2>1. /\ OptimizeConstants(firstFuncConstant, Len(values))
        /\ firstInst' = Len(values) /\ firstFuncConstant' = firstFuncConstant
        /\ castMap' = castMap /\ phase = "consts"
      BY <1>2 DEF FunctionInstructions
  <2>2. \A v \in DOMAIN castMap : castMap[v] <= firstFuncConstant
    <3>1. /\ numModuleValues <= firstFuncConstant
          /\ \A v \in DOMAIN castMap :
               castMap[v] <= numModuleValues /\ castMap[v] \in 1 .. Len(values)
        BY <1>1, <2>1 DEF NumberingInv, ModuleSlots, ValuesTyped, SlotsOf
    <3> QED  BY <1>1, <3>1
  <2>3. \A n \in firstFuncConstant + 1 .. Len(values) :
          unit.typeOf[values[n][1]] \in Members(types)
      BY <1>1, <2>2, SlotsHaveTypes DEF PoolsInv
  <2>4. PoolIn(unit, values', firstFuncConstant, Len(values))
      BY <1>1, <2>1, <2>3, SortOrders
  <2>5. Len(values') = Len(values)
      BY <1>1, <2>1, <2>2, SortKeepsNumbering DEF NumberingInv
  <2> QED  BY <1>1, <2>1, <2>4, <2>5
<1>3. CASE ~FunctionInstructions
  <2>1. ~ReserveCasts /\ ~purgeFunction /\ ~OptimizeModule /\ ~Incorporate
    <3>1. ~ReserveCasts
        BY DEF ReserveCasts, program, Enter
    <3> QED  BY <3>1 DEF purgeFunction, OptimizeModule, Incorporate, Enter
  <2>2. /\ phase = "insts" /\ firstInst' = firstInst
        /\ firstFuncConstant' = firstFuncConstant
      BY <1>3, <2>1 DEF Next, vars, program, marks, Begin, Return, Descend, Leave,
         Turn, StartConstants, NextFunctionTypes, Complete, FunctionConstants, Enter
  <2>3. firstInst <= Len(values) /\ PoolIn(unit, values, firstFuncConstant, firstInst)
      BY <2>2 DEF PoolsInv, FunctionPool
  <2>4. Len(values') \in Nat /\ Len(values') >= Len(values)
    <3>1. Return => Len(values') = Len(values)
        BY <1>1, ReturnKeepsNumbering DEF NumberingInv
    <3>2. Leave => Len(values') >= Len(values)
        BY <1>1, LeaveKeepsNumbering DEF NumberingInv
    <3>3. ~Return /\ ~Leave => values' = values
        BY <1>3, <2>1 DEF Next, vars, tables, Begin, Descend, Turn, StartConstants,
           NextFunctionTypes, Complete, FunctionConstants
    <3>4. Len(values') \in Nat
      <4>1. NumberingInv'
          BY <1>1, NumberingPreserved
      <4> QED  BY <4>1 DEF NumberingInv, ValuesTyped
    <3> QED  BY <1>1, <3>1, <3>2, <3>3, <3>4
  <2>5. \A n \in firstFuncConstant + 1 .. firstInst : n \in 1 .. Len(values)
      BY <1>1, <2>3
  <2>6. \A n \in firstFuncConstant + 1 .. firstInst : values'[n][1] = values[n][1]
      BY <1>1, <1>3, <2>1, <2>5, FirstsKept
  <2>7. PoolIn(unit, values', firstFuncConstant, firstInst)
      BY <1>1, <2>3, <2>6, PoolKept
  <2> QED  BY <1>1, <2>2, <2>3, <2>4, <2>7
<1> QED  BY <1>2, <1>3

\* The constants of the module, and those of the function that is written, are
\* in the order their block wants: integers first, each type in one piece.
THEOREM PoolsOrderedCorrect == Spec => []PoolsOrdered
<1>1. Init => PoolsInv
  <2> SUFFICES ASSUME Init PROVE PoolsInv
      OBVIOUS
  <2>1. phase = "globals" /\ DOMAIN castMap = {}
      BY DEF Init
  <2> QED  BY <2>1, CallsInvStarts, FS_EmptySet DEF PoolsInv, ModulePool, FunctionPool
<1>2. PoolsInv /\ [Next]_vars => PoolsInv'
    BY CallsInvPreserved, ModulePoolPreserved, FunctionPoolPreserved DEF PoolsInv
<1>3. PoolsInv => PoolsOrdered
    BY DEF PoolsInv, ModulePool, FunctionPool, PoolsOrdered, PoolOrdered, PoolIn,
       IsInt, Incorporated
<1> QED  BY <1>1, <1>2, <1>3, PTL DEF Spec

-----------------------------------------------------------------------------
(* What a value is made of *)

\* The least set that has the value and, but for a global, the operands of its
\* members.
ClosedIn(u, S) ==
    \A v \in S \ Members(u.globals) : Members(u.operands[v]) \subseteq S
Least(u, v) ==
    {w \in Values : \A S \in SUBSET Values : v \in S /\ ClosedIn(u, S) => w \in S}

\* It is the value and the same of its operands ...
LEMMA LeastUnfolds ==
    ASSUME NEW u \in Units, NEW v \in Values
    PROVE  Least(u, v) = {v} \cup (IF v \in Members(u.globals) THEN {}
                                   ELSE UNION {Least(u, u.operands[v][k]) :
                                                 k \in DOMAIN u.operands[v]})
<1> DEFINE leaf(w) == w \in Members(u.globals)
           R == {v} \cup (IF v \in Members(u.globals) THEN {}
                          ELSE UNION {Least(u, u.operands[v][k]) :
                                        k \in DOMAIN u.operands[v]})
<1>1. \A w \in Values : Members(u.operands[w]) \subseteq Values
  <2>1. \A w \in Values : u.operands[w] \in Seq(Values)
      BY UnitsAssumption DEF ModuleFields
  <2> QED  BY <2>1, MembersOfSeq
<1>2. \A w \in Values : w \in Least(u, w) /\ Least(u, w) \subseteq Values
    BY DEF Least
<1>3. \A w \in Values : ClosedIn(u, Least(u, w))
  <2> SUFFICES ASSUME NEW w \in Values, NEW x \in Least(u, w), ~leaf(x),
                      NEW y \in Members(u.operands[x])
               PROVE  y \in Least(u, w)
      BY DEF ClosedIn
  <2>1. x \in Values /\ y \in Values
      BY <1>1 DEF Least
  <2>2. ASSUME NEW S \in SUBSET Values, w \in S, ClosedIn(u, S) PROVE y \in S
    <3>1. x \in S
        BY <2>2 DEF Least
    <3> QED  BY <2>2, <3>1 DEF ClosedIn
  <2> QED  BY <2>1, <2>2 DEF Least
<1>4. R \subseteq Least(u, v)
  <2>1. ASSUME ~leaf(v), NEW k \in DOMAIN u.operands[v]
        PROVE  Least(u, u.operands[v][k]) \subseteq Least(u, v)
    <3>1. u.operands[v][k] \in Members(u.operands[v])
        BY DEF Members
    <3>2. ASSUME NEW S \in SUBSET Values, v \in S, ClosedIn(u, S)
          PROVE  u.operands[v][k] \in S
        BY <2>1, <3>1, <3>2 DEF ClosedIn
    <3> QED  BY <3>2 DEF Least
  <2> QED  BY <1>2, <2>1
<1>5. Least(u, v) \subseteq R
  <2>1. R \in SUBSET Values
      BY DEF Least
  <2>2. v \in R
      OBVIOUS
  <2>3. ClosedIn(u, R)
    <3> SUFFICES ASSUME NEW x \in R, ~leaf(x), NEW y \in Members(u.operands[x])
                 PROVE  y \in R
        BY DEF ClosedIn
    <3>1. CASE x = v
      <4>1. PICK k \in DOMAIN u.operands[v] : y = u.operands[v][k]
          BY <3>1 DEF Members
      <4>2. y \in Values
          BY <1>1, <3>1
      <4>3. y \in Least(u, u.operands[v][k])
          BY <1>2, <4>1, <4>2
      <4> QED  BY <3>1, <4>3
    <3>2. CASE x # v
      <4>1. ~leaf(v) /\ \E k \in DOMAIN u.operands[v] : x \in Least(u, u.operands[v][k])
          BY <3>2
      <4>2. PICK k \in DOMAIN u.operands[v] : x \in Least(u, u.operands[v][k])
          BY <4>1
      <4>3. u.operands[v][k] \in Values
          BY <1>1 DEF Members
      <4>4. y \in Least(u, u.operands[v][k])
          BY <1>3, <4>2, <4>3 DEF ClosedIn
      <4> QED  BY <4>1, <4>4
    <3> QED  BY <3>1, <3>2
  <2> HIDE DEF R
  <2> QED  BY <2>1, <2>2, <2>3 DEF Least
<1> QED  BY <1>4, <1>5

\* ... so what a value is made of is the value and what its operands are.
LEMMA MadeOfUnfolds ==
    ASSUME NEW u \in Units, NEW v \in Values
    PROVE  MadeOf(u)[v] = {v} \cup (IF v \in Members(u.globals) THEN {}
                                    ELSE UNION {MadeOf(u)[u.operands[v][k]] :
                                                  k \in DOMAIN u.operands[v]})
<1> DEFINE unfolded(F, w) ==
             {w} \cup (IF w \in Members(u.globals) THEN {}
                       ELSE UNION {F[u.operands[w][k]] : k \in DOMAIN u.operands[w]})
           L == [w \in Values |-> Least(u, w)]
<1>1. L = [w \in Values |-> unfolded(L, w)]
  <2>1. ASSUME NEW w \in Values PROVE Least(u, w) = unfolded(L, w)
    <3>1. \A k \in DOMAIN u.operands[w] : u.operands[w][k] \in Values
      <4>1. u.operands[w] \in Seq(Values)
          BY UnitsAssumption DEF ModuleFields
      <4> QED  BY <4>1
    <3>2. \A k \in DOMAIN u.operands[w] :
            L[u.operands[w][k]] = Least(u, u.operands[w][k])
        BY <3>1
    <3> HIDE DEF L
    <3>3. {L[u.operands[w][k]] : k \in DOMAIN u.operands[w]}
            = {Least(u, u.operands[w][k]) : k \in DOMAIN u.operands[w]}
        BY <3>2
    <3> QED  BY <3>3, LeastUnfolds
  <2> QED  BY <2>1
<1>2. MadeOf(u) = CHOOSE F : F = [w \in Values |-> unfolded(F, w)]
    BY DEF MadeOf
<1> HIDE DEF L
<1>3. MadeOf(u) = [w \in Values |-> unfolded(MadeOf(u), w)]
  <2> DEFINE P(F) == F = [w \in Values |-> unfolded(F, w)]
  <2>1. P(L)
      BY <1>1
  <2>2. MadeOf(u) = CHOOSE F : P(F)
      BY <1>2
  <2> HIDE DEF P
  <2>3. P(MadeOf(u))
      BY <2>1, <2>2
  <2> QED  BY <2>3 DEF P
<1> QED  BY <1>3

-----------------------------------------------------------------------------
(* The calls that are left to make and those that are being made *)

\* What two lists have, one of them has, and what is called for a list is
\* called for one of its members.
LEMMA ConcatMembers ==
    ASSUME NEW S, NEW s \in Seq(S), NEW t \in Seq(S)
    PROVE  s \o t \in Seq(S) /\ Members(s \o t) = Members(s) \cup Members(t)
<1>1. /\ s \o t \in Seq(S) /\ Len(s \o t) = Len(s) + Len(t)
      /\ \A m \in 1 .. Len(s) + Len(t) :
           (s \o t)[m] = IF m <= Len(s) THEN s[m] ELSE t[m - Len(s)]
      /\ Len(s) \in Nat /\ Len(t) \in Nat
    BY ConcatProperties
<1>2. ASSUME NEW m \in 1 .. Len(s) + Len(t)
      PROVE  (s \o t)[m] \in Members(s) \cup Members(t)
  <2>1. CASE m <= Len(s)
    <3>1. m \in DOMAIN s /\ (s \o t)[m] = s[m]
        BY <1>1, <2>1
    <3> QED  BY <3>1 DEF Members
  <2>2. CASE ~(m <= Len(s))
    <3>1. m - Len(s) \in DOMAIN t /\ (s \o t)[m] = t[m - Len(s)]
        BY <1>1, <2>2
    <3> QED  BY <3>1 DEF Members
  <2> QED  BY <2>1, <2>2
<1>3. DOMAIN (s \o t) = 1 .. Len(s) + Len(t)
    BY <1>1
<1>4. Members(s \o t) \subseteq Members(s) \cup Members(t)
    BY <1>2, <1>3 DEF Members
<1> QED  BY <1>1, <1>4, MembersOfConcat

\* Three lists likewise.
LEMMA ConcatMembersOfThree ==
    ASSUME NEW S, NEW r \in Seq(S), NEW s \in Seq(S), NEW t \in Seq(S)
    PROVE  /\ r \o s \o t \in Seq(S)
           /\ Members(r \o s \o t) = Members(r) \cup Members(s) \cup Members(t)
<1> DEFINE q == r \o s
<1>1. q \in Seq(S) /\ Members(q) = Members(r) \cup Members(s)
    BY ConcatMembers
<1> HIDE DEF q
<1>2. q \o t \in Seq(S) /\ Members(q \o t) = Members(q) \cup Members(t)
    BY <1>1, ConcatMembers
<1> QED  BY <1>1, <1>2 DEF q

\* A list of calls has one for each member.
LEMMA CallMembers ==
    ASSUME NEW kind, NEW S, NEW s \in Seq(S)
    PROVE  Members(Call(kind, s)) = {<<kind, x>> : x \in Members(s)}
<1>1. /\ DOMAIN Call(kind, s) = DOMAIN s
      /\ \A n \in DOMAIN s : Call(kind, s)[n] = <<kind, s[n]>>
    BY DEF Call
<1> QED  BY <1>1 DEF Members

\* A call for one.
LEMMA OneCall ==
    ASSUME NEW kind, NEW x
    PROVE  /\ \A S : x \in S => <<x>> \in Seq(S)
           /\ Members(<<x>>) = {x}
           /\ Members(Call(kind, <<x>>)) = {<<kind, x>>}
<1>1. <<x>> \in Seq({x}) /\ DOMAIN <<x>> = {1} /\ <<x>>[1] = x
    OBVIOUS
<1>2. Members(<<x>>) = {x}
    BY <1>1 DEF Members
<1>3. Members(Call(kind, <<x>>)) = {<<kind, y>> : y \in {x}}
    BY <1>1, <1>2, CallMembers
<1> QED  BY <1>2, <1>3

\* The types attributes call for.
AttributeTypes(u, v) == IF u.target >= 140 THEN Members(u.typeAttributes[v]) ELSE {}

\* EnumerateAttributes calls for just these.
LEMMA AttributeMembers ==
    ASSUME unit \in Units, NEW v \in Values
    PROVE  Members(EnumerateAttributes(v)) = {<<"type", t>> : t \in AttributeTypes(unit, v)}
<1>1. unit.typeAttributes[v] \in Seq(Types)
    BY UnitFields
<1>2. Members(Call("type", unit.typeAttributes[v]))
        = {<<"type", t>> : t \in Members(unit.typeAttributes[v])}
    BY <1>1, CallMembers
<1>3. Members(<<>>) = {}
    BY DEF Members
<1> QED  BY <1>2, <1>3 DEF EnumerateAttributes, AttributeTypes

\* The source types an activation calls for.
SourcesCalled(u, kind, v) ==
    IF \/ kind = "value" /\ u.target # 140
       \/ kind = "operand" /\ u.target >= 140
    THEN Members(u.sourceTypes[v]) ELSE {}

\* What an activation calls for.
CalledBy(u, kind, x) ==
    CASE kind = "type" -> {<<"type", t>> : t \in Members(u.subtypes[x])}
      [] kind \in {"value", "operand"} ->
           {<<"type", t>> : t \in {u.typeOf[x]} \cup SourcesCalled(u, kind, x)}
           \cup {<<kind, w>> :
                   w \in IF x \in LocalsIn(u) \cup Members(u.globals) THEN {}
                         ELSE Members(u.operands[x])}
      [] kind = "pooled" ->
           IF x \in LocalsIn(u) \cup Members(u.globals) THEN {} ELSE {<<"value", x>>}

\* Those are its children, whatever their order.
LEMMA ChildMembers ==
    ASSUME unit \in Units, NEW f \in Frames
    PROVE  Members(Children(f)) = CalledBy(unit, f[1], f[2])
<1>0. Members(<<>>) = {}
    BY DEF Members
<1>1. CASE f[1] = "type"
  <2>1. unit.subtypes[f[2]] \in Seq(Types)
      BY <1>1, UnitFields DEF Frames
  <2>2. Members(Call("type", unit.subtypes[f[2]]))
          = {<<"type", t>> : t \in Members(unit.subtypes[f[2]])}
      BY <2>1, CallMembers
  <2> QED  BY <1>1, <2>2 DEF Children, CalledBy
<1>2. CASE f[1] \in {"value", "operand"}
  <2> DEFINE v == f[2]
             kind == f[1]
             first == Call("type", <<unit.typeOf[v]>>)
             parts == Call(kind, Operands(v))
             last == SourceTypes(f)
  <2>1. v \in Values /\ unit.typeOf[v] \in Types /\ unit.sourceTypes[v] \in Seq(Types)
    <3>1. v \in Values
        BY <1>2 DEF Frames
    <3>2. /\ unit.typeOf \in [Values -> Types]
          /\ unit.sourceTypes \in [Values -> Seq(Types)]
        BY UnitFields
    <3> QED  BY <3>1, <3>2
  <2>2. Operands(v) \in Seq(Values)
    <3>1. unit.operands \in [Values -> Seq(Values)]
        BY UnitFields
    <3>2. unit.operands[v] \in Seq(Values)
        BY <2>1, <3>1
    <3>3. <<>> \in Seq(Values)
        OBVIOUS
    <3> QED  BY <3>2, <3>3 DEF Operands
  <2>3. first \in Seq(Calls) /\ parts \in Seq(Calls) /\ last \in Seq(Calls)
    <3>1. <<unit.typeOf[v]>> \in Seq(Types)
        BY <2>1
    <3>2. first \in Seq(Calls) /\ parts \in Seq(Calls)
        BY <1>2, <2>2, <3>1, CallsTyped
    <3>3. last \in Seq(Calls)
        BY <2>1, CallsTyped DEF SourceTypes
    <3> QED  BY <3>2, <3>3
  <2>4. Members(first) = {<<"type", unit.typeOf[v]>>}
      BY OneCall
  <2>5. Members(parts) = {<<kind, w>> : w \in Members(Operands(v))}
      BY <2>2, CallMembers
  <2>6. Members(last) = {<<"type", t>> : t \in SourcesCalled(unit, kind, v)}
    <3>1. Members(Call("type", unit.sourceTypes[v]))
            = {<<"type", t>> : t \in Members(unit.sourceTypes[v])}
        BY <2>1, CallMembers
    <3> QED  BY <1>0, <3>1 DEF SourceTypes, SourcesCalled
  <2>7. Members(Operands(v)) = IF v \in LocalsIn(unit) \cup Members(unit.globals)
                               THEN {} ELSE Members(unit.operands[v])
      BY <1>0 DEF Operands, IsPooled, IsConstant, Locals, Globals
  <2>8. Children(f) = first \o parts \o last
      BY <1>2 DEF Children
  <2> HIDE DEF v, kind, first, parts, last
  <2>10. Members(Children(f)) = Members(first) \cup Members(parts) \cup Members(last)
      BY <2>3, <2>8, ConcatMembersOfThree
  <2>11. kind \in {"value", "operand"}
      BY <1>2 DEF kind
  <2>12. Members(Children(f)) = CalledBy(unit, kind, v)
      BY <2>4, <2>5, <2>6, <2>7, <2>10, <2>11 DEF CalledBy
  <2> QED  BY <2>12 DEF v, kind
<1>3. CASE f[1] = "pooled"
  <2>1. Members(Call("value", <<f[2]>>)) = {<<"value", f[2]>>}
      BY OneCall
  <2> QED  BY <1>0, <1>3, <2>1
           DEF Children, CalledBy, IsPooled, IsConstant, Locals, Globals
<1> QED  BY <1>1, <1>2, <1>3 DEF Frames

\* What an iteration of a loop calls for.
AskedIn(u, p, f, n) ==
    CASE p = "globals" ->
           {<<"value", u.globals[n]>>}
           \cup {<<"type", t>> : t \in Members(u.globalTypes[u.globals[n]])
                                       \cup AttributeTypes(u, u.globals[n])}
      [] p = "args" ->
           LET a == u.functions[f].args[n]
           IN {<<"value", a>>} \cup {<<"type", t>> : t \in AttributeTypes(u, a)}
      [] p = "types" ->
           LET i == u.functions[f].code[n]
           IN {<<"operand", v>> : v \in Members(i.ops)}
              \cup {<<"type", t>> : t \in Members(i.types) \cup {u.typeOf[i.id]}
                                          \cup AttributeTypes(u, i.id)
                                          \cup Members(i.call)}
      [] p = "consts" ->
           LET i == u.functions[f].code[n]
           IN {<<"pooled", v>> : v \in Members(i.ops)}
              \cup {<<"value", v>> : v \in Members(i.cases)}
      [] p = "insts" ->
           LET i == u.functions[f].code[n]
           IN IF i.void THEN {} ELSE {<<"value", i.id>>}

\* An iteration over a body is for one of its instructions.
LEMMA InstructionOfTurn ==
    ASSUME TypeInv, phase \in {"types", "consts", "insts"}, NEW n \in 1 .. Turns
    PROVE  /\ fn \in 1 .. Len(unit.functions) /\ n \in 1 .. Len(Fn.code)
           /\ Fn.code \in Seq(Instructions) /\ Fn.code[n] \in Instructions
<1>1. fn \in 1 .. Len(unit.functions)
    BY DEF TypeInv, InFunction
<1>2. Fn.code \in Seq(Instructions) /\ n \in 1 .. Len(Fn.code)
    BY <1>1, FunctionFields DEF Fn, Turns
<1> QED  BY <1>1, <1>2, ElementOfSeq

\* The body of the loop calls for just that.
LEMMA BodyMembers ==
    ASSUME TypeInv, NEW n \in 1 .. Turns
    PROVE  Members(Body(n)) = AskedIn(unit, phase, fn, n)
<1>0. Members(<<>>) = {} /\ unit \in Units
    BY DEF Members, TypeInv
<1>1. CASE phase = "globals"
  <2> DEFINE g == unit.globals[n]
             c1 == Call("value", <<g>>)
             c2 == Call("type", unit.globalTypes[g])
             c3 == EnumerateAttributes(g)
  <2>1. g \in Values
    <3>1. n \in 1 .. Len(unit.globals)
        BY <1>1 DEF Turns
    <3> QED  BY <1>0, <3>1, UnitFields, ElementOfSeq
  <2>2. Body(n) = c1 \o c2 \o c3
      BY <1>1 DEF Body, GlobalCalls
  <2> HIDE DEF g
  <2>3. unit.globalTypes[g] \in Seq(Types) /\ <<g>> \in Seq(Values)
      BY <1>0, <2>1, UnitFields
  <2>4. c1 \in Seq(Calls) /\ c2 \in Seq(Calls) /\ c3 \in Seq(Calls)
      BY <1>0, <2>1, <2>3, CallsTyped, AttributesTyped
  <2>5. /\ Members(c1) = {<<"value", g>>}
        /\ Members(c2) = {<<"type", t>> : t \in Members(unit.globalTypes[g])}
        /\ Members(c3) = {<<"type", t>> : t \in AttributeTypes(unit, g)}
      BY <1>0, <2>1, <2>3, OneCall, CallMembers, AttributeMembers
  <2> HIDE DEF c1, c2, c3
  <2>7. Members(Body(n)) = Members(c1) \cup Members(c2) \cup Members(c3)
      BY <2>2, <2>4, ConcatMembersOfThree
  <2> QED  BY <1>1, <2>5, <2>7 DEF AskedIn, g
<1>2. CASE phase = "args"
  <2> DEFINE a == Fn.args[n]
             c1 == Call("value", <<a>>)
             c2 == EnumerateAttributes(a)
  <2>1. a \in Values
    <3>1. n \in 1 .. Len(Fn.args) /\ Fn.args \in Seq(Values)
        BY <1>2, FunctionFields DEF Turns, Fn, TypeInv, InFunction
    <3> QED  BY <3>1, ElementOfSeq
  <2>2. Body(n) = c1 \o c2
      BY <1>2 DEF Body, ArgumentCalls
  <2>8. a = unit.functions[fn].args[n]
      BY DEF Fn
  <2> HIDE DEF a
  <2>3. <<a>> \in Seq(Values)
      BY <2>1
  <2>4. c1 \in Seq(Calls) /\ c2 \in Seq(Calls)
      BY <1>0, <2>1, <2>3, CallsTyped, AttributesTyped
  <2>5. /\ Members(c1) = {<<"value", a>>}
        /\ Members(c2) = {<<"type", t>> : t \in AttributeTypes(unit, a)}
      BY <1>0, <2>1, OneCall, AttributeMembers
  <2> HIDE DEF c1, c2
  <2>6. Members(Body(n)) = Members(c1) \cup Members(c2)
      BY <2>2, <2>4, ConcatMembers
  <2> QED  BY <1>2, <2>5, <2>6, <2>8 DEF AskedIn
<1>3. CASE phase \in {"types", "consts", "insts"}
  <2> DEFINE i == Fn.code[n]
  <2>1. i \in Instructions /\ i = unit.functions[fn].code[n]
      BY <1>3, InstructionOfTurn DEF Fn
  <2>2. /\ phase = "types" => Body(n) = BodyTypeCalls(i)
        /\ phase = "consts" => Body(n) = FuncConstantCalls(i)
        /\ phase = "insts" => Body(n) = InstructionCalls(i)
      BY DEF Body
  <2> HIDE DEF i
  <2>3. /\ i.id \in Values /\ i.ops \in Seq(Values) /\ i.cases \in Seq(Values)
        /\ i.types \in Seq(Types) /\ i.call \in Seq(Types) /\ unit.typeOf[i.id] \in Types
      BY <1>0, <2>1, InstructionFields, UnitFields
  <2>4. <<unit.typeOf[i.id]>> \in Seq(Types) /\ <<i.id>> \in Seq(Values)
      BY <2>3
  <2>5. CASE phase = "types"
    <3> DEFINE c1 == Call("operand", i.ops)
               c2 == Call("type", i.types)
               c3 == Call("type", <<unit.typeOf[i.id]>>)
               c4 == EnumerateAttributes(i.id)
               c5 == Call("type", i.call)
    <3>1. /\ c1 \in Seq(Calls) /\ c2 \in Seq(Calls) /\ c3 \in Seq(Calls)
          /\ c4 \in Seq(Calls) /\ c5 \in Seq(Calls)
        BY <1>0, <2>3, <2>4, CallsTyped, AttributesTyped
    <3>2. Body(n) = c1 \o c2 \o c3 \o c4 \o c5
        BY <2>2, <2>5 DEF BodyTypeCalls
    <3>3. /\ Members(c1) = {<<"operand", v>> : v \in Members(i.ops)}
          /\ Members(c2) = {<<"type", t>> : t \in Members(i.types)}
          /\ Members(c3) = {<<"type", unit.typeOf[i.id]>>}
          /\ Members(c4) = {<<"type", t>> : t \in AttributeTypes(unit, i.id)}
          /\ Members(c5) = {<<"type", t>> : t \in Members(i.call)}
        BY <1>0, <2>3, OneCall, CallMembers, AttributeMembers
    <3> HIDE DEF c1, c2, c3, c4, c5
    <3> DEFINE front == c1 \o c2 \o c3
    <3>4. /\ front \in Seq(Calls)
          /\ Members(front) = Members(c1) \cup Members(c2) \cup Members(c3)
        BY <3>1, ConcatMembersOfThree
    <3>5. Body(n) = front \o c4 \o c5
        BY <3>2
    <3> HIDE DEF front
    <3>6. Members(Body(n)) = Members(front) \cup Members(c4) \cup Members(c5)
        BY <3>1, <3>4, <3>5, ConcatMembersOfThree
    <3>7. Members(Body(n)) = Members(c1) \cup Members(c2) \cup Members(c3)
                             \cup Members(c4) \cup Members(c5)
        BY <3>4, <3>6
    <3> QED  BY <2>1, <2>5, <3>3, <3>7 DEF AskedIn
  <2>6. CASE phase = "consts"
    <3>1. Call("pooled", i.ops) \in Seq(Calls) /\ Call("value", i.cases) \in Seq(Calls)
        BY <2>3, CallsTyped
    <3>2. /\ Members(Call("pooled", i.ops)) = {<<"pooled", v>> : v \in Members(i.ops)}
          /\ Members(Call("value", i.cases)) = {<<"value", v>> : v \in Members(i.cases)}
        BY <2>3, CallMembers
    <3>3. Members(FuncConstantCalls(i)) = Members(Call("pooled", i.ops))
                                          \cup Members(Call("value", i.cases))
        BY <3>1, ConcatMembers DEF FuncConstantCalls
    <3> QED  BY <2>1, <2>2, <2>6, <3>2, <3>3 DEF AskedIn
  <2>7. CASE phase = "insts"
    <3>1. Members(Call("value", <<i.id>>)) = {<<"value", i.id>>}
        BY OneCall
    <3> QED  BY <1>0, <2>1, <2>2, <2>7, <3>1 DEF AskedIn, InstructionCalls
  <2> QED  BY <1>3, <2>5, <2>6, <2>7
<1>4. CASE phase \notin {"globals", "args", "types", "consts", "insts"}
  <2>1. Turns = 0
      BY <1>4 DEF Turns
  <2> QED  BY <2>1
<1> QED  BY <1>1, <1>2, <1>3, <1>4

\* The module's constants, and the types of a function's arguments.
ModuleRoots(u) ==
    Members(u.initializers) \cup Members(u.aliasees) \cup Members(u.globals)
      \cup Members(u.metadata)

\* The loops over the constants of the module call for its roots.
LEMMA ConstantMembers ==
    ASSUME unit \in Units
    PROVE  Members(ConstantCalls) = {<<"value", v>> : v \in ModuleRoots(unit)}
<1> DEFINE c1 == Call("value", unit.initializers)
           c2 == Call("value", unit.aliasees)
           c3 == Call("value", unit.globals)
           c4 == Call("value", unit.metadata)
<1>1. c1 \in Seq(Calls) /\ c2 \in Seq(Calls) /\ c3 \in Seq(Calls) /\ c4 \in Seq(Calls)
    BY UnitFields, CallsTyped
<1>2. /\ Members(c1) = {<<"value", v>> : v \in Members(unit.initializers)}
      /\ Members(c2) = {<<"value", v>> : v \in Members(unit.aliasees)}
      /\ Members(c3) = {<<"value", v>> : v \in Members(unit.globals)}
      /\ Members(c4) = {<<"value", v>> : v \in Members(unit.metadata)}
    BY UnitFields, CallMembers
<1>3. ConstantCalls = c1 \o c2 \o c3 \o c4
    BY DEF ConstantCalls
<1> HIDE DEF c1, c2, c3, c4
<1>4. Members(c1 \o c2 \o c3) = Members(c1) \cup Members(c2) \cup Members(c3)
    BY <1>1, ConcatMembersOfThree
<1>5. c1 \o c2 \o c3 \in Seq(Calls)
    BY <1>1, ConcatProperties
<1>6. Members(ConstantCalls) = Members(c1 \o c2 \o c3) \cup Members(c4)
    BY <1>1, <1>3, <1>5, ConcatMembers
<1> QED  BY <1>2, <1>4, <1>6 DEF ModuleRoots

\* The walk over a function starts with the types of its arguments.
LEMMA ArgumentMembers ==
    ASSUME TypeInv, NEW f \in 1 .. Len(unit.functions)
    PROVE  Members(ArgumentTypes(unit.functions[f]))
             = {<<"type", unit.typeOf[a]>> : a \in Members(unit.functions[f].args)}
<1> DEFINE args == unit.functions[f].args
           s == [k \in DOMAIN args |-> unit.typeOf[args[k]]]
<1>1. args \in Seq(Values) /\ DOMAIN args = 1 .. Len(args) /\ Len(args) \in Nat
    BY FunctionFields
<1>2. \A k \in 1 .. Len(args) : unit.typeOf[args[k]] \in Types
    BY <1>1, UnitFields, ElementOfSeq DEF TypeInv
<1>3. s \in Seq(Types)
    BY <1>1, <1>2
<1>4. Members(s) = {unit.typeOf[a] : a \in Members(args)}
    BY DEF Members
<1>5. ArgumentTypes(unit.functions[f]) = Call("type", s)
    BY DEF ArgumentTypes
<1> HIDE DEF s
<1>6. Members(Call("type", s)) = {<<"type", t>> : t \in Members(s)}
    BY <1>3, CallMembers
<1> QED  BY <1>4, <1>5, <1>6

\* The calls that are left to make or under way, as a step changes them.
OpenCalls == Members(todo) \cup {<<stack[d][1], stack[d][2]>> : d \in 1 .. Len(stack)}

\* A call that opens is one of an activation, or one a loop asks for.
LEMMA CallsMove ==
    ASSUME TypeInv, [Next]_vars, NEW c \in OpenCalls'
    PROVE  \/ c \in OpenCalls
           \/ /\ Descend /\ Top \in Frames /\ <<Top[1], Top[2]>> \in OpenCalls
              /\ c \in CalledBy(unit, Top[1], Top[2])
           \/ /\ Turn /\ turn + 1 \in 1 .. Turns
              /\ c \in AskedIn(unit, phase, fn, turn + 1)
           \/ /\ StartConstants
              /\ \E v \in ModuleRoots(unit) : c = <<"value", v>>
           \/ /\ NextFunctionTypes
              /\ \E a \in Members(unit.functions[fn + 1].args) :
                   c = <<"type", unit.typeOf[a]>>
           \/ /\ ReserveCasts
              /\ \E t \in Members(unit.pointerTypes) : c = <<"type", t>>
<1>1. c \in Members(todo') \/ \E d \in 1 .. Len(stack') : c = <<stack'[d][1], stack'[d][2]>>
    BY DEF OpenCalls, Members
<1>2. unit \in Units /\ todo \in Seq(Calls) /\ todo' \in Seq(Calls) /\ stack \in Seq(Frames)
    BY TypePreserved DEF TypeInv
<1>3. CASE Begin
  <2>1. /\ Len(stack') = 1 /\ stack'[1] = <<todo[1][1], todo[1][2], 0>>
        /\ todo[1] = <<todo[1][1], todo[1][2]>>
        /\ Len(todo) \in Nat /\ Len(todo) > 0 /\ Len(todo') = Len(todo) - 1
        /\ \A n \in 1 .. Len(todo) - 1 : todo'[n] = todo[n + 1]
      BY <1>3, BegunCall
  <2>2. CASE c \in Members(todo')
    <3>1. PICK n \in 1 .. Len(todo') : c = todo'[n]
        BY <1>2, <2>2 DEF Members
    <3>2. n + 1 \in 1 .. Len(todo) /\ c = todo[n + 1]
        BY <2>1, <3>1
    <3> QED  BY <1>2, <3>2 DEF OpenCalls, Members
  <2>3. CASE \E d \in 1 .. Len(stack') : c = <<stack'[d][1], stack'[d][2]>>
    <3>1. c = todo[1] /\ 1 \in 1 .. Len(todo)
        BY <2>1, <2>3
    <3> QED  BY <1>2, <3>1 DEF OpenCalls, Members
  <2> QED  BY <1>1, <2>2, <2>3
<1>4. CASE Return \/ Leave
  <2>1. todo' = todo /\ stack # <<>> /\ stack' = Below
      BY <1>4 DEF Return, Leave
  <2>2. /\ Len(stack) \in Nat /\ Len(stack') = Len(stack) - 1
        /\ \A d \in 1 .. Len(stack) - 1 : stack'[d] = stack[d]
      BY <2>1, TopOfStack
  <2>3. ASSUME NEW d \in 1 .. Len(stack')
        PROVE  d \in 1 .. Len(stack) /\ stack'[d] = stack[d]
      BY <2>2
  <2> QED  BY <1>1, <2>1, <2>3 DEF OpenCalls, Members
<1>5. CASE Descend
  <2>1. /\ todo' = todo /\ stack # <<>> /\ Top[3] < Len(Children(Top))
      BY <1>5 DEF Descend
  <2>2. /\ Len(stack) \in Nat /\ Len(stack) > 0 /\ Top \in Frames /\ Top = stack[Len(stack)]
      BY <2>1, TopOfStack DEF Top
  <2>3. /\ Len(stack') = Len(stack) + 1
        /\ \A d \in 1 .. Len(stack) - 1 : stack'[d] = stack[d]
        /\ stack'[Len(stack)] = <<Top[1], Top[2], Top[3] + 1>>
        /\ stack'[Len(stack) + 1] = Frame(Children(Top)[Top[3] + 1])
        /\ Children(Top)[Top[3] + 1] \in Calls
      BY <1>5, DescendedStack
  <2>4. CASE c \in Members(todo')
      BY <2>1, <2>4 DEF OpenCalls
  <2>5. CASE \E d \in 1 .. Len(stack') : c = <<stack'[d][1], stack'[d][2]>>
    <3>1. PICK d \in 1 .. Len(stack') : c = <<stack'[d][1], stack'[d][2]>>
        BY <2>5
    <3>2. CASE d <= Len(stack)
      <4>1. /\ d \in 1 .. Len(stack)
            /\ stack'[d][1] = stack[d][1] /\ stack'[d][2] = stack[d][2]
        <5>1. CASE d = Len(stack)
            BY <2>2, <2>3, <5>1
        <5>2. CASE d # Len(stack)
            BY <2>2, <2>3, <3>2, <5>2
        <5> QED  BY <5>1, <5>2
      <4> QED  BY <3>1, <4>1 DEF OpenCalls
    <3>3. CASE d = Len(stack) + 1
      <4> DEFINE child == Children(Top)[Top[3] + 1]
      <4>1. child = <<child[1], child[2]>>
          BY <2>3 DEF Calls, TypeCalls, ValueCalls
      <4>2. Children(Top) \in Seq(Calls) /\ Top[3] + 1 \in 1 .. Len(Children(Top))
          BY <1>2, <2>1, <2>2, ChildrenTyped DEF Frames
      <4>3. child \in Members(Children(Top))
          BY <4>2 DEF Members
      <4> HIDE DEF child
      <4>4. c = child
          BY <2>3, <3>1, <3>3, <4>1 DEF Frame, child
      <4>5. c \in CalledBy(unit, Top[1], Top[2])
          BY <1>2, <2>2, <4>3, <4>4, ChildMembers
      <4>6. <<Top[1], Top[2]>> \in OpenCalls
          BY <2>2 DEF OpenCalls
      <4> QED  BY <1>5, <2>2, <4>5, <4>6
    <3> QED  BY <2>2, <2>3, <3>1, <3>2, <3>3
  <2> QED  BY <1>1, <2>4, <2>5
<1>6. CASE Turn
  <2>1. stack' = stack /\ todo' = Body(turn + 1) /\ turn + 1 \in 1 .. Turns
    <3>1. Turns \in Nat /\ turn \in Nat
        BY TurnsTyped DEF TypeInv
    <3> QED  BY <1>6, <3>1 DEF Turn
  <2>2. Members(todo') = AskedIn(unit, phase, fn, turn + 1)
      BY <2>1, BodyMembers
  <2> QED  BY <1>1, <1>6, <2>1, <2>2 DEF OpenCalls
<1>7. CASE StartConstants
  <2>1. stack' = stack /\ todo' = ConstantCalls
      BY <1>7 DEF StartConstants, Enter
  <2> QED  BY <1>1, <1>2, <1>7, <2>1, ConstantMembers DEF OpenCalls
<1>8. CASE NextFunctionTypes
  <2>1. stack' = stack /\ todo' = ArgumentTypes(unit.functions[fn + 1])
        /\ fn + 1 \in 1 .. Len(unit.functions)
    <3>1. fn \in Nat /\ Len(unit.functions) \in Nat
        BY <1>2, UnitFields DEF TypeInv
    <3> QED  BY <1>8, <3>1 DEF NextFunctionTypes, Enter
  <2>2. Members(todo') = {<<"type", unit.typeOf[a]>> :
                            a \in Members(unit.functions[fn + 1].args)}
      BY <2>1, ArgumentMembers
  <2> QED  BY <1>1, <1>8, <2>1, <2>2 DEF OpenCalls
<1>9. CASE ReserveCasts
  <2>1. stack' = stack /\ (todo' = todo \/ todo' = Call("type", unit.pointerTypes))
      BY <1>9 DEF ReserveCasts, Enter
  <2>2. Members(Call("type", unit.pointerTypes))
          = {<<"type", t>> : t \in Members(unit.pointerTypes)}
      BY <1>2, UnitFields, CallMembers
  <2> QED  BY <1>1, <1>9, <2>1, <2>2 DEF OpenCalls
<1>10. CASE UNCHANGED <<todo, stack>>
    BY <1>1, <1>10 DEF OpenCalls
<1>11. CASE todo' = <<>> /\ stack' = stack
  <2>1. Members(todo') = {}
      BY <1>11 DEF Members
  <2> QED  BY <1>1, <1>11, <2>1 DEF OpenCalls
<1> QED  BY <1>3, <1>4, <1>5, <1>6, <1>7, <1>8, <1>9, <1>10, <1>11
         DEF Next, vars, OptimizeModule, Complete, Incorporate, FunctionConstants,
             FunctionInstructions, purgeFunction, Enter

-----------------------------------------------------------------------------
(* Where values come from *)

\* What the module's own constants are made of; what is called for belongs to
\* them or to the bodies, unless it is inside of a function.
ModuleParts(u) == UNION {MadeOf(u)[v] : v \in ModuleRoots(u)}
ComesFrom(u, c) ==
    c[1] # "type" /\ c[2] \notin LocalsIn(u) =>
        MadeOf(u)[c[2]] \subseteq IF c[1] = "operand" THEN BodyParts(u)
                                  ELSE ModuleParts(u) \cup BodyParts(u)
CallOrigins == \A c \in OpenCalls : ComesFrom(unit, c)
ValueOrigins ==
    \A v \in DOMAIN valueMap \ Locals :
        MadeOf(unit)[v] \subseteq ModuleParts(unit) \cup BodyParts(unit)

\* The parts of an operand are parts.
LEMMA PartsOfOperand ==
    ASSUME NEW u \in Units, NEW v \in Values, v \notin Members(u.globals),
           NEW w \in Members(u.operands[v])
    PROVE  w \in Values /\ MadeOf(u)[w] \subseteq MadeOf(u)[v]
<1>1. u.operands[v] \in Seq(Values)
    BY UnitsAssumption DEF ModuleFields
<1>2. PICK k \in DOMAIN u.operands[v] : w = u.operands[v][k]
    BY DEF Members
<1>3. MadeOf(u)[v] = {v} \cup UNION {MadeOf(u)[u.operands[v][n]] :
                                       n \in DOMAIN u.operands[v]}
    BY MadeOfUnfolds
<1>4. w \in Values
    BY <1>1, <1>2
<1> QED  BY <1>2, <1>3, <1>4

\* What an instruction uses is part of a body.
LEMMA UsesOfBodies ==
    ASSUME NEW u, NEW f \in DOMAIN u.functions, NEW k \in DOMAIN u.functions[f].code,
           NEW v \in Members(u.functions[f].code[k].ops)
                     \cup Members(u.functions[f].code[k].cases)
    PROVE  MadeOf(u)[v] \subseteq BodyParts(u)
<1>1. MadeOf(u)[v] \subseteq PartsOf(u, u.functions[f].code[k].ops)
                             \cup PartsOf(u, u.functions[f].code[k].cases)
    BY DEF PartsOf
<1>2. MadeOf(u)[v] \subseteq UsesIn(u, u.functions[f])
    BY <1>1 DEF UsesIn
<1> QED  BY <1>2 DEF BodyParts

\* A call is for a part of what is asked for.
LEMMA OriginsPreserved ==
    ASSUME TypeInv, CallOrigins, [Next]_vars PROVE CallOrigins'
<1>1. unit' = unit /\ unit \in Units
    BY UnitStays DEF TypeInv
<1> SUFFICES ASSUME NEW c \in OpenCalls' PROVE ComesFrom(unit, c)
    BY <1>1 DEF CallOrigins
<1>2. CASE c \in OpenCalls
    BY <1>2 DEF CallOrigins
<1>3. CASE /\ Top \in Frames /\ <<Top[1], Top[2]>> \in OpenCalls
           /\ c \in CalledBy(unit, Top[1], Top[2])
  <2> DEFINE v == Top[2]
             kind == Top[1]
  <2>1. ComesFrom(unit, <<kind, v>>) /\ (kind # "type" => v \in Values)
        /\ kind \in {"type", "value", "operand", "pooled"}
      BY <1>3 DEF CallOrigins, Frames
  <2>2. c \in CalledBy(unit, kind, v)
      BY <1>3
  <2> HIDE DEF v, kind
  <2>3. CASE kind \in {"value", "operand"}
    <3>1. CASE c[1] = "type"
        BY <3>1 DEF ComesFrom
    <3>2. CASE /\ v \notin LocalsIn(unit) \cup Members(unit.globals)
               /\ \E w \in Members(unit.operands[v]) : c = <<kind, w>>
      <4>1. PICK w \in Members(unit.operands[v]) : c = <<kind, w>>
          BY <3>2
      <4>2. MadeOf(unit)[w] \subseteq MadeOf(unit)[v]
          BY <1>1, <2>1, <2>3, <3>2, PartsOfOperand
      <4> QED  BY <2>1, <2>3, <3>2, <4>1, <4>2 DEF ComesFrom
    <3>3. \/ \E t : c = <<"type", t>>
          \/ /\ v \notin LocalsIn(unit) \cup Members(unit.globals)
             /\ \E w \in Members(unit.operands[v]) : c = <<kind, w>>
        BY <2>2, <2>3 DEF CalledBy
    <3> QED  BY <3>1, <3>2, <3>3
  <2>4. CASE kind = "pooled"
      BY <2>1, <2>2, <2>4 DEF CalledBy, ComesFrom
  <2>5. CASE kind = "type"
      BY <2>2, <2>5 DEF CalledBy, ComesFrom
  <2> QED  BY <2>1, <2>3, <2>4, <2>5
<1>4. CASE Turn /\ turn + 1 \in 1 .. Turns /\ c \in AskedIn(unit, phase, fn, turn + 1)
  <2>1. CASE c[1] = "type"
      BY <2>1 DEF ComesFrom
  <2>2. CASE phase = "globals" /\ c[1] # "type"
    <3>1. turn + 1 \in 1 .. Len(unit.globals)
        BY <1>4, <2>2 DEF Turns
    <3>2. unit.globals[turn + 1] \in Members(unit.globals)
      <4>1. unit.globals \in Seq(Values)
          BY <1>1, UnitFields
      <4> QED  BY <3>1, <4>1 DEF Members
    <3>3. c = <<"value", unit.globals[turn + 1]>>
        BY <1>4, <2>2 DEF AskedIn
    <3> QED  BY <3>2, <3>3 DEF ComesFrom, ModuleParts, ModuleRoots
  <2>3. CASE phase \in {"args", "insts"} /\ c[1] # "type"
    <3>1. fn \in DOMAIN unit.functions
      <4>1. unit.functions \in Seq(Functions)
          BY <1>1, UnitFields
      <4> QED  BY <2>3, <4>1 DEF TypeInv, InFunction
    <3>2. turn + 1 \in DOMAIN (IF phase = "args" THEN Fn.args ELSE Fn.code)
      <4>1. fn \in 1 .. Len(unit.functions)
          BY <2>3 DEF TypeInv, InFunction
      <4>2. Fn.args \in Seq(Values) /\ Fn.code \in Seq(Instructions)
          BY <4>1, FunctionFields DEF Fn
      <4>3. Turns = Len(IF phase = "args" THEN Fn.args ELSE Fn.code)
          BY <2>3 DEF Turns
      <4> QED  BY <1>4, <4>2, <4>3
    <3>3. c[2] \in LocalsOf(Fn)
      <4>1. CASE phase = "args"
        <5>1. c = <<"value", Fn.args[turn + 1]>>
            BY <1>4, <2>3, <4>1 DEF AskedIn, Fn
        <5> QED  BY <3>2, <4>1, <5>1 DEF LocalsOf, Members
      <4>2. CASE phase = "insts"
        <5>1. c = <<"value", Fn.code[turn + 1].id>>
            BY <1>4, <2>3, <4>2 DEF AskedIn, Fn
        <5> QED  BY <3>2, <4>2, <5>1 DEF LocalsOf
      <4> QED  BY <2>3, <4>1, <4>2
    <3>4. c[2] \in LocalsIn(unit)
        BY <3>1, <3>3 DEF LocalsIn, Fn
    <3> QED  BY <3>4 DEF ComesFrom
  <2>4. CASE phase \in {"types", "consts"} /\ c[1] # "type"
    <3>1. fn \in 1 .. Len(unit.functions) /\ turn + 1 \in 1 .. Len(Fn.code)
          /\ Fn.code \in Seq(Instructions)
        BY <1>4, <2>4, InstructionOfTurn
    <3>2. fn \in DOMAIN unit.functions /\ turn + 1 \in DOMAIN unit.functions[fn].code
      <4>1. unit.functions \in Seq(Functions)
          BY <1>1, UnitFields
      <4> QED  BY <3>1, <4>1 DEF Fn
    <3> DEFINE i == unit.functions[fn].code[turn + 1]
    <3>3. c[2] \in Members(i.ops) \cup Members(i.cases)
        BY <1>4, <2>4 DEF AskedIn
    <3>4. MadeOf(unit)[c[2]] \subseteq BodyParts(unit)
        BY <3>2, <3>3, UsesOfBodies
    <3> QED  BY <3>4 DEF ComesFrom
  <2>5. phase \in {"globals", "args", "insts", "types", "consts"}
    <3>1. Turns # 0
        BY <1>4
    <3> QED  BY <3>1 DEF Turns
  <2> QED  BY <2>1, <2>2, <2>3, <2>4, <2>5
<1>5. CASE \E v \in ModuleRoots(unit) : c = <<"value", v>>
    BY <1>5 DEF ComesFrom, ModuleParts
<1>6. CASE \E t : c = <<"type", t>>
    BY <1>6 DEF ComesFrom
<1>7. TypeInv
    OBVIOUS
<1> QED  BY <1>2, <1>3, <1>4, <1>5, <1>6, <1>7, CallsMove

\* So is what gets a number.
LEMMA ValueOriginsPreserved ==
    ASSUME TypeInv, CallOrigins, ValueOrigins, [Next]_vars PROVE ValueOrigins'
<1>1. unit' = unit /\ unit \in Units
    BY UnitStays DEF TypeInv
<1>2. CASE Leave /\ Top[1] = "value"
  <2>1. DOMAIN valueMap' = DOMAIN valueMap \cup {Top[2]} /\ stack # <<>>
      BY <1>2 DEF Leave
  <2>2. <<Top[1], Top[2]>> \in OpenCalls
    <3>1. Len(stack) \in 1 .. Len(stack)
        BY <2>1, TopOfStack
    <3> QED  BY <3>1 DEF OpenCalls, Top
  <2>3. ComesFrom(unit, <<"value", Top[2]>>)
      BY <1>2, <2>2 DEF CallOrigins
  <2> QED  BY <1>1, <2>1, <2>3 DEF ValueOrigins, ComesFrom, Locals
<1>3. CASE ~(Leave /\ Top[1] = "value")
  <2>1. DOMAIN valueMap' \subseteq DOMAIN valueMap
      BY <1>3 DEF Next, vars, tables, Begin, Return, Descend, Leave, Turn,
         StartConstants, NextFunctionTypes, OptimizeModule, ReserveCasts, Complete,
         Incorporate, FunctionConstants, FunctionInstructions, purgeFunction,
         OptimizeConstants, PurgedMap
  <2> QED  BY <1>1, <2>1 DEF ValueOrigins, Locals
<1> QED  BY <1>2, <1>3

-----------------------------------------------------------------------------
(* The types of whatever a value is made of *)

\* A value has its type in the table, and the source type that is enumerated
\* with it; so have all its parts.
TypedPart(u, table, w) ==
    /\ u.typeOf[w] \in Members(table)
    /\ u.target # 140 => Members(u.sourceTypes[w]) \subseteq Members(table)
PartsTyped(u, table, v) == \A w \in MadeOf(u)[v] : TypedPart(u, table, w)

\* A value has all its types when it has its own and its operands have theirs.
LEMMA PartsTypedUnfolds ==
    ASSUME NEW u \in Units, NEW table, NEW v \in Values
    PROVE  PartsTyped(u, table, v) <=>
             /\ TypedPart(u, table, v)
             /\ v \notin Members(u.globals) =>
                  \A w \in Members(u.operands[v]) : PartsTyped(u, table, w)
<1>1. MadeOf(u)[v] = {v} \cup (IF v \in Members(u.globals) THEN {}
                               ELSE UNION {MadeOf(u)[w] : w \in Members(u.operands[v])})
  <2>1. UNION {MadeOf(u)[u.operands[v][k]] : k \in DOMAIN u.operands[v]}
          = UNION {MadeOf(u)[w] : w \in Members(u.operands[v])}
      BY DEF Members
  <2> QED  BY <2>1, MadeOfUnfolds
<1> QED  BY <1>1 DEF PartsTyped

\* More types do not change that.
LEMMA PartsTypedGrows ==
    ASSUME NEW u, NEW S, NEW T, NEW v, Members(S) \subseteq Members(T),
           PartsTyped(u, S, v)
    PROVE  PartsTyped(u, T, v)
BY DEF PartsTyped, TypedPart

\* A call is settled when the tables have what it is for: with an operand, the
\* types of all its parts.
DeepIn(u, table, known, c) ==
    CASE c[1] = "type" -> c[2] \in Members(table)
      [] c[1] = "operand" ->
           IF c[2] \in LocalsIn(u) THEN u.typeOf[c[2]] \in Members(table)
           ELSE PartsTyped(u, table, c[2])
      [] c[1] = "value" -> c[2] \in known
      [] c[1] = "pooled" ->
           c[2] \notin LocalsIn(u) \cup Members(u.globals) => c[2] \in known

\* What is settled stays so while the tables grow.
LEMMA DeepGrows ==
    ASSUME NEW u, NEW S, NEW T, NEW K, NEW L, NEW c \in Calls,
           Members(S) \subseteq Members(T), K \subseteq L, DeepIn(u, S, K, c)
    PROVE  DeepIn(u, T, L, c)
<1>1. c[1] \in {"type", "value", "operand", "pooled"}
    BY DEF Calls, TypeCalls, ValueCalls
<1>2. \A v : PartsTyped(u, S, v) => PartsTyped(u, T, v)
    BY PartsTypedGrows
<1> QED  BY <1>1, <1>2 DEF DeepIn

\* A type is settled when it is in the table.
LEMMA DeepTypes ==
    ASSUME NEW u, NEW table, NEW known, NEW t
    PROVE  DeepIn(u, table, known, <<"type", t>>) <=> t \in Members(table)
BY DEF DeepIn

\* What an activation has called is settled, but for the call above it.
CalledDeep(kids, u, s, table, known, d) ==
    /\ s[d][3] <= Len(kids)
    /\ \A k \in 1 .. s[d][3] :
         \/ DeepIn(u, table, known, kids[k])
         \/ /\ k = s[d][3] /\ d < Len(s)
            /\ s[d + 1][1] = kids[k][1] /\ s[d + 1][2] = kids[k][2]
ChildrenSettled ==
    \A d \in 1 .. Len(stack) :
        CalledDeep(Children(stack[d]), unit, stack, types, DOMAIN valueMap, d)

\* A value with a number has all its types.
ValuesWhole ==
    \A v \in DOMAIN valueMap \ Locals : PartsTyped(unit, types, v)

WholeInv == TableInv /\ CallsInv /\ CallOrigins /\ ChildrenSettled /\ ValuesWhole

\* The calls of an activation depend on what it is for.
LEMMA ChildrenStay ==
    ASSUME unit' = unit, NEW d, NEW f,
           stack'[d][1] = f[1], stack'[d][2] = f[2]
    PROVE  Children(stack[d])' = Children(f)
BY DEF Children, SourceTypes, Operands, IsPooled, IsConstant, Locals, Globals

\* An activation that ends has settled what it was for.
LEMMA EndSettlesDeep ==
    ASSUME WholeInv, Return \/ Leave
    PROVE  /\ DeepIn(unit, types', DOMAIN valueMap', <<Top[1], Top[2]>>)
           /\ Top[1] = "value" /\ Top[2] \notin LocalsIn(unit) =>
                PartsTyped(unit, types', Top[2])
<1>1. /\ stack # <<>> /\ Len(stack) \in 1 .. Len(stack) /\ Top \in Frames
      /\ Top = stack[Len(stack)] /\ Len(stack) \in Nat /\ unit \in Units /\ TypeInv
    BY TopOfStack DEF Return, Leave, Top, WholeInv, TableInv, TypeInv
<1>2. /\ Members(types) \subseteq Members(types')
      /\ DOMAIN valueMap \subseteq DOMAIN valueMap'
    BY <1>1, TypesGrow, KnownGrows
       DEF Next, Return, Leave, purgeFunction, Incorporated, LoopEnds, Idle
<1> DEFINE v == Top[2]
           kind == Top[1]
           kids == Children(Top)
           settled(c) == DeepIn(unit, types, DOMAIN valueMap, c)
<1>3. kids \in Seq(Calls) /\ Top[3] \in Nat /\ (kind # "type" => v \in Values)
      /\ kind \in {"type", "value", "operand", "pooled"}
    BY <1>1, ChildrenTyped DEF Frames
<1>4. \A k \in 1 .. Top[3] : settled(kids[k])
  <2>1. CalledDeep(kids, unit, stack, types, DOMAIN valueMap, Len(stack))
      BY <1>1 DEF WholeInv, ChildrenSettled
  <2> QED  BY <1>1, <2>1 DEF CalledDeep
<1>5. ASSUME kind # "type", v \in DOMAIN valueMap, v \notin LocalsIn(unit)
      PROVE  PartsTyped(unit, types, v)
    BY <1>5 DEF WholeInv, ValuesWhole, Locals
<1>6. CASE Return
  <2>1. Known(Top)
      BY <1>6 DEF Return
  <2>2. CASE kind = "type"
      BY <1>2, <2>1, <2>2 DEF Known, InTypes, DeepIn
  <2>3. CASE kind = "value"
    <3>1. v \in DOMAIN valueMap
        BY <2>1, <2>3 DEF Known
    <3>2. v \notin LocalsIn(unit) => PartsTyped(unit, types', v)
        BY <1>2, <1>5, <2>3, <3>1, PartsTypedGrows
    <3> QED  BY <1>2, <2>3, <3>1, <3>2 DEF DeepIn
  <2>4. CASE kind = "operand"
    <3>1. /\ Top[3] = 1
          /\ v \in LocalsIn(unit) \/ v \in DOMAIN valueMap
        BY <2>1, <2>4 DEF Known, IsConstant, Locals
    <3>2. kids[1] = <<"type", unit.typeOf[v]>>
        BY <1>1, <2>4, FirstChild
    <3>3. unit.typeOf[v] \in Members(types)
      <4>1. settled(kids[1])
          BY <1>4, <3>1
      <4> HIDE DEF kids
      <4> QED  BY <3>2, <4>1, DeepTypes
    <3>4. v \notin LocalsIn(unit) => PartsTyped(unit, types', v)
        BY <1>2, <1>5, <2>4, <3>1, PartsTypedGrows
    <3> QED  BY <1>2, <2>4, <3>3, <3>4 DEF DeepIn
  <2>5. CASE kind = "pooled"
      BY <2>1, <2>5 DEF Known
  <2> QED  BY <1>3, <2>2, <2>3, <2>4, <2>5
<1>7. CASE Leave
  <2>1. Top[3] = Len(kids)
      BY <1>7 DEF Leave
  <2>2. \A c \in CalledBy(unit, kind, v) : settled(c)
    <3>1. Members(kids) = CalledBy(unit, kind, v)
        BY <1>1, ChildMembers
    <3>2. DOMAIN kids = 1 .. Top[3]
        BY <1>3, <2>1
    <3> HIDE DEF kids, settled
    <3> QED  BY <1>4, <3>1, <3>2 DEF Members
  <2>3. CASE kind = "type"
    <3>1. v \in Types /\ types' = WithType(v)
        BY <1>1, <1>7, <2>3 DEF Leave, Frames
    <3>2. v \in Members(types')
        BY <1>1, <3>1, WithTypeProperties DEF TypeInv
    <3> QED  BY <2>3, <3>2 DEF DeepIn
  <2> HIDE DEF v, kind, kids
  <2>4. ASSUME kind \in {"value", "operand"}
        PROVE  /\ unit.typeOf[v] \in Members(types)
               /\ SourcesCalled(unit, kind, v) \subseteq Members(types)
    <3>1. \A t \in {unit.typeOf[v]} \cup SourcesCalled(unit, kind, v) :
            <<"type", t>> \in CalledBy(unit, kind, v)
        BY <2>4 DEF CalledBy
    <3> QED  BY <2>2, <3>1, DeepTypes
  <2>5. ASSUME kind \in {"value", "operand"}, v \notin LocalsIn(unit),
               v \notin Members(unit.globals), NEW w \in Members(unit.operands[v])
        PROVE  PartsTyped(unit, types', w)
    <3>1. <<kind, w>> \in CalledBy(unit, kind, v)
        BY <2>5 DEF CalledBy
    <3>2. w \in Values /\ w \notin LocalsIn(unit)
        BY <1>1, <1>3, <2>5, ScopesAssumption
    <3>3. PartsTyped(unit, types, w)
      <4>1. CASE kind = "value"
        <5>1. w \in DOMAIN valueMap
            BY <2>2, <3>1, <4>1 DEF DeepIn
        <5> QED  BY <3>2, <5>1 DEF WholeInv, ValuesWhole, Locals
      <4>2. CASE kind = "operand"
          BY <2>2, <3>1, <3>2, <4>2 DEF DeepIn
      <4> QED  BY <2>5, <4>1, <4>2
    <3> QED  BY <1>2, <3>3, PartsTypedGrows
  <2>6. ASSUME kind \in {"value", "operand"}, v \notin LocalsIn(unit)
        PROVE  PartsTyped(unit, types', v)
    <3>1. unit.target # 140 => Members(unit.sourceTypes[v]) \subseteq Members(types)
      <4>1. CASE kind = "value" \/ unit.target >= 140
          BY <2>4, <2>6, <4>1 DEF SourcesCalled
      <4>2. CASE kind = "operand" /\ ~(unit.target >= 140)
        <5>1. MadeOf(unit)[v] \subseteq BodyParts(unit)
          <6>1. <<kind, v>> \in OpenCalls
              BY <1>1 DEF OpenCalls, kind, v
          <6>2. ComesFrom(unit, <<kind, v>>)
              BY <6>1 DEF WholeInv, CallOrigins
          <6> QED  BY <2>6, <4>2, <6>2 DEF ComesFrom
        <5>2. v \in MadeOf(unit)[v]
            BY <1>1, <1>3, <2>6, MadeOfUnfolds
        <5>3. unit.target <= 140
          <6>1. unit.target \in {50, 70, 140, 180, 200}
              BY <1>1, UnitsAssumption DEF ModuleFields
          <6> QED  BY <4>2, <6>1
        <5>4. unit.sourceTypes[v] = <<>>
            BY <1>1, <2>6, <5>1, <5>2, <5>3, DemotedAssumption
        <5> QED  BY <5>4 DEF Members
      <4> QED  BY <2>6, <4>1, <4>2
    <3>2. TypedPart(unit, types', v)
        BY <1>2, <2>4, <2>6, <3>1 DEF TypedPart
    <3>3. v \in Values
        BY <1>3, <2>6
    <3> QED  BY <1>1, <2>5, <2>6, <3>2, <3>3, PartsTypedUnfolds
  <2>7. CASE kind = "value"
    <3>1. v \in DOMAIN valueMap'
        BY <1>7, <2>7 DEF Leave, v, kind
    <3> QED  BY <2>6, <2>7, <3>1 DEF DeepIn, v, kind
  <2>8. CASE kind = "operand"
      BY <1>2, <2>4, <2>6, <2>8 DEF DeepIn, v, kind
  <2>9. CASE kind = "pooled"
    <3>1. v \notin LocalsIn(unit) \cup Members(unit.globals) => v \in DOMAIN valueMap
        BY <2>2, <2>9 DEF CalledBy, DeepIn
    <3> QED  BY <1>2, <2>9, <3>1 DEF DeepIn, v, kind
  <2> QED  BY <1>3, <2>3, <2>7, <2>8, <2>9 DEF kind
<1> QED  BY <1>6, <1>7

\* An activation is there after each of its calls; when the call ends it is
\* settled.
LEMMA ChildrenSettledPreserved == ASSUME WholeInv, [Next]_vars PROVE ChildrenSettled'
<1>1. /\ TypeInv /\ TypeInv' /\ unit' = unit /\ unit \in Units
      /\ Members(types) \subseteq Members(types')
      /\ ~purgeFunction => DOMAIN valueMap \subseteq DOMAIN valueMap'
    BY UnitStays, TypesGrow, KnownGrows, TypePreserved DEF WholeInv, TableInv, TypeInv
<1> DEFINE called(d) == CalledDeep(Children(stack[d]), unit, stack, types,
                                   DOMAIN valueMap, d)
           kept(d, f) == CalledDeep(Children(f), unit, stack', types',
                                    DOMAIN valueMap', d)
<1>0. ASSUME \A d \in 1 .. Len(stack') : \E f : /\ stack'[d][1] = f[1]
                                                /\ stack'[d][2] = f[2]
                                                /\ kept(d, f)
      PROVE  ChildrenSettled'
  <2> SUFFICES ASSUME NEW d \in 1 .. Len(stack')
               PROVE  CalledDeep(Children(stack[d])', unit, stack', types',
                                 DOMAIN valueMap', d)
      BY <1>1 DEF ChildrenSettled
  <2>1. PICK f : stack'[d][1] = f[1] /\ stack'[d][2] = f[2] /\ kept(d, f)
      BY <1>0
  <2>2. Children(stack[d])' = Children(f)
      BY <1>1, <2>1, ChildrenStay
  <2> QED  BY <2>1, <2>2
<1>2. CASE Begin
  <2>1. Len(stack') = 1 /\ stack'[1] = <<todo[1][1], todo[1][2], 0>>
      BY <1>1, <1>2, BegunCall
  <2>2. stack'[1] \in Frames
    <3>1. stack' \in Seq(Frames) /\ 1 \in 1 .. Len(stack')
        BY <1>1, <2>1 DEF TypeInv
    <3> QED  BY <3>1, ElementOfSeq
  <2>3. Children(stack'[1]) \in Seq(Calls)
      BY <1>1, <2>2, ChildrenTyped
  <2>4. kept(1, stack'[1])
      BY <2>1, <2>3 DEF CalledDeep
  <2> QED  BY <1>0, <2>1, <2>4
<1>3. CASE Return \/ Leave
  <2>1. /\ stack # <<>> /\ stack' = Below /\ Len(stack) \in Nat /\ Len(stack) > 0
        /\ Len(stack') = Len(stack) - 1 /\ Top \in Frames
        /\ \A d \in 1 .. Len(stack) - 1 : stack'[d] = stack[d]
    <3>1. stack # <<>> /\ stack' = Below
        BY <1>3 DEF Return, Leave
    <3> QED  BY <1>1, <3>1, TopOfStack
  <2>2. DeepIn(unit, types', DOMAIN valueMap', <<Top[1], Top[2]>>)
      BY <1>3, EndSettlesDeep
  <2>3. DOMAIN valueMap \subseteq DOMAIN valueMap'
      BY <1>1, <1>3 DEF Return, Leave, purgeFunction, Incorporated, LoopEnds, Idle
  <2>4. ASSUME NEW d \in 1 .. Len(stack') PROVE kept(d, stack[d])
    <3>1. d \in 1 .. Len(stack) /\ stack'[d] = stack[d] /\ stack[d] \in Frames
        BY <1>1, <2>1, ElementOfSeq DEF TypeInv
    <3> DEFINE kids == Children(stack[d])
    <3>2. called(d)
        BY <3>1 DEF WholeInv, ChildrenSettled
    <3>3. kids \in Seq(Calls) /\ stack[d][3] \in Nat
        BY <1>1, <3>1, ChildrenTyped DEF Frames
    <3> HIDE DEF kids
    <3>4. CalledDeep(kids, unit, stack, types, DOMAIN valueMap, d)
        BY <3>2 DEF kids
    <3>5. ASSUME NEW k \in 1 .. stack[d][3]
          PROVE  \/ DeepIn(unit, types', DOMAIN valueMap', kids[k])
                 \/ /\ k = stack[d][3] /\ d < Len(stack')
                    /\ stack'[d + 1][1] = kids[k][1] /\ stack'[d + 1][2] = kids[k][2]
      <4>1. kids[k] \in Calls /\ kids[k] = <<kids[k][1], kids[k][2]>>
        <5>1. k \in 1 .. Len(kids)
            BY <3>3, <3>4 DEF CalledDeep
        <5>2. kids[k] \in Calls
            BY <3>3, <5>1, ElementOfSeq
        <5> QED  BY <5>2 DEF Calls, TypeCalls, ValueCalls
      <4>2. CASE DeepIn(unit, types, DOMAIN valueMap, kids[k])
          BY <1>1, <2>3, <4>1, <4>2, DeepGrows
      <4>3. CASE /\ k = stack[d][3] /\ d < Len(stack)
                 /\ stack[d + 1][1] = kids[k][1] /\ stack[d + 1][2] = kids[k][2]
        <5>1. CASE d + 1 = Len(stack)
          <6>1. Top[1] = kids[k][1] /\ Top[2] = kids[k][2]
              BY <4>3, <5>1 DEF Top
          <6> QED  BY <2>2, <4>1, <6>1
        <5>2. CASE d + 1 # Len(stack)
          <6>1. d < Len(stack') /\ d + 1 \in 1 .. Len(stack) - 1
              BY <2>1, <5>2
          <6> QED  BY <2>1, <4>3, <6>1
        <5> QED  BY <5>1, <5>2
      <4> QED  BY <3>4, <4>2, <4>3 DEF CalledDeep
    <3>6. CalledDeep(kids, unit, stack', types', DOMAIN valueMap', d)
        BY <3>1, <3>4, <3>5 DEF CalledDeep
    <3> QED  BY <3>6 DEF kids
  <2>5. ASSUME NEW d \in 1 .. Len(stack')
        PROVE  stack'[d] = stack[d]
      BY <2>1
  <2> HIDE DEF kept
  <2> QED  BY <1>0, <2>4, <2>5
<1>4. CASE Descend
  <2> DEFINE len == Len(stack)
             kids == Children(Top)
             c == kids[Top[3] + 1]
  <2>1. /\ stack # <<>> /\ len \in Nat /\ len > 0 /\ Top \in Frames /\ Top = stack[len]
        /\ Top[3] < Len(kids) /\ UNCHANGED <<types, valueMap>>
      BY <1>1, <1>4, TopOfStack DEF Descend, Top, tables
  <2>2. /\ Len(stack') = len + 1
        /\ \A d \in 1 .. len - 1 : stack'[d] = stack[d]
        /\ stack'[len] = <<Top[1], Top[2], Top[3] + 1>>
        /\ stack'[len + 1] = Frame(c)
      BY <1>1, <1>4, DescendedStack
  <2>3. Top[3] \in Nat /\ kids \in Seq(Calls)
      BY <1>1, <2>1, ChildrenTyped DEF Frames
  <2>4. called(len)
    <3>1. len \in 1 .. Len(stack)
        BY <2>1
    <3> QED  BY <3>1 DEF WholeInv, ChildrenSettled
  <2> HIDE DEF c
  <2>5. /\ stack'[len + 1][1] = c[1] /\ stack'[len + 1][2] = c[2]
        /\ stack'[len + 1][3] = 0
      BY <2>2 DEF Frame
  <2>6. kept(len + 1, stack'[len + 1])
    <3>1. stack'[len + 1] \in Frames
      <4>1. len + 1 \in 1 .. Len(stack')
          BY <2>1, <2>2
      <4> QED  BY <1>1, <4>1, ElementOfSeq DEF TypeInv
    <3>2. Len(Children(stack'[len + 1])) \in Nat
        BY <1>1, <3>1, ChildrenTyped
    <3> QED  BY <2>5, <3>2 DEF CalledDeep
  <2>7. kept(len, Top)
    <3>1. /\ stack'[len][1] = Top[1] /\ stack'[len][2] = Top[2]
          /\ stack'[len][3] = Top[3] + 1
        BY <2>2
    <3> HIDE DEF kids
    <3>2. CalledDeep(kids, unit, stack, types, DOMAIN valueMap, len)
        BY <2>1, <2>4 DEF kids
    <3>3. \A k \in 1 .. Top[3] : DeepIn(unit, types, DOMAIN valueMap, kids[k])
        BY <2>1, <3>2 DEF CalledDeep
    <3>4. \A k \in 1 .. Top[3] + 1 : k \in 1 .. Top[3] \/ k = Top[3] + 1
        BY <2>3
    <3>5. len < Len(stack') /\ Top[3] + 1 <= Len(kids)
        BY <2>1, <2>2, <2>3
    <3>6. CalledDeep(kids, unit, stack', types, DOMAIN valueMap, len)
        BY <2>5, <3>1, <3>3, <3>4, <3>5 DEF CalledDeep, c
    <3> QED  BY <2>1, <3>6 DEF kids
  <2>8. ASSUME NEW d \in 1 .. len - 1 PROVE kept(d, stack[d])
    <3>1. d \in 1 .. Len(stack) /\ stack'[d] = stack[d] /\ d < Len(stack') /\ d < len
        BY <2>1, <2>2
    <3>2. called(d)
        BY <3>1 DEF WholeInv, ChildrenSettled
    <3>3. stack'[d + 1][1] = stack[d + 1][1] /\ stack'[d + 1][2] = stack[d + 1][2]
      <4>1. CASE d + 1 = len
          BY <2>1, <2>2, <4>1
      <4>2. CASE d + 1 # len
        <5>1. d + 1 \in 1 .. len - 1
            BY <2>1, <4>2
        <5> QED  BY <2>2, <5>1
      <4> QED  BY <4>1, <4>2
    <3> DEFINE below == Children(stack[d])
    <3> HIDE DEF below
    <3>4. CalledDeep(below, unit, stack, types, DOMAIN valueMap, d)
        BY <3>2 DEF below
    <3>5. CalledDeep(below, unit, stack', types, DOMAIN valueMap, d)
        BY <3>1, <3>3, <3>4 DEF CalledDeep
    <3> QED  BY <2>1, <3>5 DEF below
  <2>9. \A d \in 1 .. Len(stack') : d \in 1 .. len - 1 \/ d = len \/ d = len + 1
      BY <2>1, <2>2
  <2>10. stack'[len][1] = Top[1] /\ stack'[len][2] = Top[2]
      BY <2>2
  <2> HIDE DEF kept, len
  <2> QED  BY <1>0, <2>2, <2>6, <2>7, <2>8, <2>9, <2>10
<1>5. CASE ~(Begin \/ Return \/ Descend \/ Leave)
  <2>1. stack' = <<>> \/ UNCHANGED <<stack, types, valueMap>>
    <3>1. LoopsInv
        BY DEF WholeInv, CallsInv, ScopesInv
    <3>2. phase \in {"casts", "ready"} => stack = <<>>
        BY <3>1 DEF LoopsInv, TypesOnly
    <3> QED  BY <1>5, <3>2 DEF Next, vars, tables, Turn, StartConstants,
             NextFunctionTypes, OptimizeModule, ReserveCasts, Complete, Incorporate,
             FunctionConstants, FunctionInstructions, purgeFunction, Incorporated,
             LoopEnds, Idle, Enter
  <2>2. CASE stack' = <<>>
      BY <2>2 DEF ChildrenSettled
  <2>3. CASE UNCHANGED <<stack, types, valueMap>>
    <3>1. \A d \in 1 .. Len(stack') : called(d)
        BY <2>3 DEF WholeInv, ChildrenSettled
    <3>2. \A d \in 1 .. Len(stack') : kept(d, stack[d])
        BY <2>3, <3>1
    <3> HIDE DEF kept, called
    <3> QED  BY <1>0, <2>3, <3>2
  <2> QED  BY <2>1, <2>2, <2>3
<1> QED  BY <1>2, <1>3, <1>4, <1>5

\* A value gets its number when the activation has called for all of it.
LEMMA ValuesWholePreserved == ASSUME WholeInv, [Next]_vars PROVE ValuesWhole'
<1>1. unit' = unit /\ Members(types) \subseteq Members(types')
    BY UnitStays, TypesGrow DEF WholeInv, TableInv
<1>2. \A v : PartsTyped(unit, types, v) => PartsTyped(unit, types', v)
    BY <1>1, PartsTypedGrows
<1>3. CASE Leave /\ Top[1] = "value"
  <2>1. DOMAIN valueMap' = DOMAIN valueMap \cup {Top[2]}
      BY <1>3 DEF Leave
  <2>2. Top[2] \notin LocalsIn(unit) => PartsTyped(unit, types', Top[2])
      BY <1>3, EndSettlesDeep
  <2> QED  BY <1>1, <1>2, <2>1, <2>2 DEF WholeInv, ValuesWhole, Locals
<1>4. CASE ~(Leave /\ Top[1] = "value")
  <2>1. DOMAIN valueMap' \subseteq DOMAIN valueMap
      BY <1>4 DEF Next, vars, tables, Begin, Return, Descend, Leave, Turn,
         StartConstants, NextFunctionTypes, OptimizeModule, ReserveCasts, Complete,
         Incorporate, FunctionConstants, FunctionInstructions, purgeFunction,
         OptimizeConstants, PurgedMap
  <2> QED  BY <1>1, <1>2, <2>1 DEF WholeInv, ValuesWhole, Locals
<1> QED  BY <1>3, <1>4

\* Together they are inductive.
LEMMA WholePreserved == ASSUME WholeInv, [Next]_vars PROVE WholeInv'
BY TablePreserved, CallsInvPreserved, OriginsPreserved, ChildrenSettledPreserved,
   ValuesWholePreserved DEF WholeInv, TableInv

\* Nothing has a number, and the first call is for a type.
LEMMA WholeStarts == ASSUME Init PROVE WholeInv
<1>1. TableInv
    BY InitTyped, EmptySeq
       DEF Init, TableInv, PartsInTable, TypeTable, TypesDistinct, TypesBuildable
<1>2. CallsInv
    BY CallsInvStarts
<1>3. stack = <<>> /\ DOMAIN valueMap = {}
    BY DEF Init
<1>4. \A c \in OpenCalls : c[1] = "type"
  <2>1. Members(<<>>) = {}
      BY DEF Members
  <2>2. Members(Call("type", <<unit.opaquePtr>>)) = {<<"type", unit.opaquePtr>>}
      BY OneCall
  <2>3. Members(todo) \subseteq {<<"type", unit.opaquePtr>>}
      BY <2>1, <2>2 DEF Init
  <2>4. OpenCalls = Members(todo)
      BY <1>3 DEF OpenCalls
  <2> QED  BY <2>3, <2>4
<1> QED  BY <1>1, <1>2, <1>3, <1>4
         DEF WholeInv, CallOrigins, ComesFrom, ChildrenSettled, ValuesWhole

-----------------------------------------------------------------------------
(* The type table does not grow any more *)

\* The types that the loops call for: those in the attributes of a global,
\* those of the arguments of a function, and those of a body.
TypesAsked(u, p, f, k) ==
    CASE p = "globals" /\ k > 0 ->
           {<<"type", t>> : t \in AttributeTypes(u, u.globals[k])}
      [] p = "types" /\ k = 0 ->
           {<<"type", u.typeOf[a]>> : a \in Members(u.functions[f].args)}
      [] p = "types" /\ k > 0 -> AskedIn(u, p, f, k)
      [] OTHER -> {}
AskedSettled(u, table, p, f, n) ==
    \A k \in 0 .. n : \A c \in TypesAsked(u, p, f, k) : DeepIn(u, table, {}, c)

\* Those of the iteration that runs are settled or open, those of every other
\* are settled.
LoopAsked ==
    \A k \in 0 .. turn : \A c \in TypesAsked(unit, phase, fn, k) :
        DeepIn(unit, types, {}, c) \/ (k = turn /\ c \in OpenCalls)
GlobalsAsked ==
    phase # "globals" => AskedSettled(unit, types, "globals", 0, Len(unit.globals))
BodiesAsked ==
    \A f \in 1 .. Len(unit.functions) :
        phase \notin {"globals", "constants"} /\ (phase = "types" => f < fn) =>
            AskedSettled(unit, types, "types", f, Len(unit.functions[f].code))

\* An open call stays open until it ends.
LEMMA CallsStay ==
    ASSUME LoopsInv, [Next]_vars, NEW c \in OpenCalls
    PROVE  \/ c \in OpenCalls'
           \/ (Return \/ Leave) /\ c = <<Top[1], Top[2]>>
<1>1. TypeInv /\ TypeInv' /\ (phase \in {"casts", "ready"} => todo = <<>> /\ stack = <<>>)
    BY TypePreserved DEF LoopsInv, TypesOnly
<1>2. c \in Members(todo) \/ \E d \in 1 .. Len(stack) : c = <<stack[d][1], stack[d][2]>>
    BY DEF OpenCalls
<1>3. todo \in Seq(Calls) /\ todo' \in Seq(Calls)
    BY <1>1 DEF TypeInv
<1>4. CASE Begin
  <2>1. /\ Len(stack') = 1 /\ stack'[1] = <<todo[1][1], todo[1][2], 0>>
        /\ todo[1] = <<todo[1][1], todo[1][2]>>
        /\ Len(todo) \in Nat /\ Len(todo) > 0 /\ Len(todo') = Len(todo) - 1
        /\ \A n \in 1 .. Len(todo) - 1 : todo'[n] = todo[n + 1]
      BY <1>1, <1>4, BegunCall
  <2>2. Len(stack) = 0
      BY <1>4 DEF Begin
  <2>3. PICK n \in 1 .. Len(todo) : c = todo[n]
      BY <1>2, <1>3, <2>2 DEF Members
  <2>4. CASE n = 1
    <3>1. c = <<stack'[1][1], stack'[1][2]>> /\ 1 \in 1 .. Len(stack')
        BY <2>1, <2>3, <2>4
    <3> QED  BY <3>1 DEF OpenCalls
  <2>5. CASE n # 1
    <3>1. n - 1 \in 1 .. Len(todo) - 1 /\ n - 1 + 1 = n
        BY <2>1, <2>5
    <3>2. todo'[n - 1] = c /\ n - 1 \in 1 .. Len(todo')
        BY <2>1, <2>3, <3>1
    <3>3. c \in Members(todo')
        BY <1>3, <3>2 DEF Members
    <3> QED  BY <3>3 DEF OpenCalls
  <2> QED  BY <2>4, <2>5
<1>5. CASE Return \/ Leave
  <2>1. todo' = todo /\ stack # <<>> /\ stack' = Below
      BY <1>5 DEF Return, Leave
  <2>2. /\ Len(stack) \in Nat /\ Len(stack') = Len(stack) - 1
        /\ \A d \in 1 .. Len(stack) - 1 : stack'[d] = stack[d]
      BY <1>1, <2>1, TopOfStack
  <2>3. CASE \E d \in 1 .. Len(stack) : c = <<stack[d][1], stack[d][2]>>
    <3>1. PICK d \in 1 .. Len(stack) : c = <<stack[d][1], stack[d][2]>>
        BY <2>3
    <3>2. CASE d = Len(stack)
        BY <1>5, <3>1, <3>2 DEF Top
    <3>3. CASE d # Len(stack)
      <4>1. d \in 1 .. Len(stack') /\ stack'[d] = stack[d]
          BY <2>2, <3>3
      <4> QED  BY <3>1, <4>1 DEF OpenCalls
    <3> QED  BY <3>2, <3>3
  <2> QED  BY <1>2, <2>1, <2>3 DEF OpenCalls
<1>6. CASE Descend
  <2>1. todo' = todo /\ stack # <<>>
      BY <1>6 DEF Descend
  <2>2. /\ Len(stack) \in Nat /\ Top = stack[Len(stack)]
        /\ Len(stack') = Len(stack) + 1
        /\ \A d \in 1 .. Len(stack) - 1 : stack'[d] = stack[d]
        /\ stack'[Len(stack)] = <<Top[1], Top[2], Top[3] + 1>>
      BY <1>1, <1>6, <2>1, TopOfStack, DescendedStack DEF Top
  <2>3. ASSUME NEW d \in 1 .. Len(stack)
        PROVE  /\ d \in 1 .. Len(stack')
               /\ stack'[d][1] = stack[d][1] /\ stack'[d][2] = stack[d][2]
    <3>1. CASE d = Len(stack)
        BY <2>2, <3>1
    <3>2. CASE d # Len(stack)
        BY <2>2, <3>2
    <3> QED  BY <3>1, <3>2
  <2> QED  BY <1>2, <2>1, <2>3 DEF OpenCalls
<1>7. CASE UNCHANGED <<todo, stack>>
    BY <1>7 DEF OpenCalls
<1>8. CASE todo = <<>> /\ stack = <<>>
    BY <1>2, <1>8 DEF Members
<1>9. CASE ReserveCasts
  <2>1. phase = "casts"
      BY <1>9 DEF ReserveCasts
  <2> QED  BY <1>1, <1>8, <2>1
<1>10. CASE Incorporate
  <2>1. phase = "ready"
      BY <1>10 DEF Incorporate
  <2> QED  BY <1>1, <1>8, <2>1
<1>11. CASE Turn \/ StartConstants \/ NextFunctionTypes \/ OptimizeModule \/ Complete
            \/ FunctionConstants \/ FunctionInstructions \/ purgeFunction
  <2>1. todo = <<>> /\ stack = <<>>
      BY <1>11 DEF Turn, StartConstants, NextFunctionTypes, OptimizeModule, Complete,
         FunctionConstants, FunctionInstructions, purgeFunction, Incorporated, LoopEnds,
         Idle
  <2> QED  BY <1>8, <2>1
<1>12. CASE UNCHANGED vars
    BY <1>7, <1>12 DEF vars
<1> QED  BY <1>4, <1>5, <1>6, <1>9, <1>10, <1>11, <1>12 DEF Next

\* Only types and operands are asked for here: whether they are settled
\* depends on the types alone.
LEMMA AskedKinds ==
    ASSUME NEW u, NEW p, NEW f, NEW k, NEW c \in TypesAsked(u, p, f, k)
    PROVE  /\ c[1] \in {"type", "operand"}
           /\ \A S, T, K : /\ Members(S) \subseteq Members(T)
                           /\ DeepIn(u, S, K, c)
                           => DeepIn(u, T, {}, c)
<1>1. c[1] \in {"type", "operand"}
    BY DEF TypesAsked, AskedIn
<1>2. ASSUME NEW S, NEW T, NEW K, Members(S) \subseteq Members(T), DeepIn(u, S, K, c)
      PROVE  DeepIn(u, T, {}, c)
  <2>1. \A v : PartsTyped(u, S, v) => PartsTyped(u, T, v)
      BY <1>2, PartsTypedGrows
  <2> QED  BY <1>1, <1>2, <2>1 DEF DeepIn
<1> QED  BY <1>1, <1>2

\* An iteration asks; by the next one it has been answered.
LEMMA LoopAskedPreserved ==
    ASSUME WholeInv, LoopAsked, [Next]_vars PROVE LoopAsked'
<1>1. /\ TypeInv /\ TypeInv' /\ LoopsInv /\ unit' = unit /\ unit \in Units
      /\ Members(types) \subseteq Members(types')
    BY UnitStays, TypesGrow, TypePreserved
       DEF WholeInv, TableInv, TypeInv, CallsInv, ScopesInv
<1>2. turn \in Nat
    BY <1>1 DEF TypeInv
<1>3. ASSUME NEW p, NEW f, NEW k, NEW c \in TypesAsked(unit, p, f, k),
             DeepIn(unit, types, {}, c)
      PROVE  DeepIn(unit, types', {}, c)
    BY <1>1, <1>3, AskedKinds
<1>4. CASE UNCHANGED <<phase, fn, turn>>
  <2> SUFFICES ASSUME NEW k \in 0 .. turn, NEW c \in TypesAsked(unit, phase, fn, k)
               PROVE  DeepIn(unit, types', {}, c) \/ (k = turn /\ c \in OpenCalls')
      BY <1>1, <1>4 DEF LoopAsked
  <2>1. CASE DeepIn(unit, types, {}, c)
      BY <1>3, <2>1
  <2>2. CASE k = turn /\ c \in OpenCalls
    <3>1. CASE c \in OpenCalls'
        BY <2>2, <3>1
    <3>2. CASE (Return \/ Leave) /\ c = <<Top[1], Top[2]>>
      <4>1. DeepIn(unit, types', DOMAIN valueMap', c)
          BY <3>2, EndSettlesDeep
      <4> QED  BY <4>1, AskedKinds
    <3> QED  BY <1>1, <2>2, <3>1, <3>2, CallsStay
  <2> QED  BY <2>1, <2>2 DEF LoopAsked
<1>5. CASE Turn
  <2>1. /\ UNCHANGED <<phase, fn, types>> /\ turn' = turn + 1 /\ todo' = Body(turn + 1)
        /\ todo = <<>> /\ stack = <<>> /\ turn + 1 \in 1 .. Turns
    <3>1. Turns \in Nat
        BY <1>1, TurnsTyped
    <3> QED  BY <1>2, <1>5, <3>1 DEF Turn, Idle, tables
  <2>2. OpenCalls = {}
      BY <2>1 DEF OpenCalls, Members
  <2>3. ASSUME NEW k \in 0 .. turn, NEW c \in TypesAsked(unit, phase, fn, k)
        PROVE  DeepIn(unit, types, {}, c)
      BY <2>2 DEF LoopAsked
  <2>4. ASSUME NEW c \in TypesAsked(unit, phase, fn, turn + 1)
        PROVE  c \in OpenCalls'
    <3>1. c \in AskedIn(unit, phase, fn, turn + 1)
        BY <1>2, <2>4 DEF TypesAsked, AskedIn
    <3>2. c \in Members(todo')
        BY <1>1, <2>1, <3>1, BodyMembers
    <3> QED  BY <3>2 DEF OpenCalls
  <2>5. \A k \in 0 .. turn + 1 : k \in 0 .. turn \/ k = turn + 1
      BY <1>2
  <2> QED  BY <1>1, <2>1, <2>3, <2>4, <2>5 DEF LoopAsked
<1>6. CASE turn' = 0 /\ ~NextFunctionTypes /\ ~UNCHANGED <<phase, fn, turn>>
  <2>1. phase' # "types"
    <3>1. CASE StartConstants \/ OptimizeModule \/ Complete \/ Incorporate
              \/ FunctionConstants \/ FunctionInstructions \/ purgeFunction
        BY <3>1 DEF StartConstants, OptimizeModule, Complete, Incorporate,
           FunctionConstants, FunctionInstructions, purgeFunction, Enter
    <3>2. CASE ReserveCasts
        BY <1>6, <3>2 DEF ReserveCasts, Enter, program
    <3>3. ~(Begin \/ Return \/ Descend \/ Leave \/ UNCHANGED vars)
        BY <1>6 DEF Begin, Return, Descend, Leave, vars, program
    <3>4. ~Turn
        BY <1>2, <1>6 DEF Turn
    <3> QED  BY <1>6, <3>1, <3>2, <3>3, <3>4 DEF Next
  <2>2. \A k \in 0 .. turn' : k = 0
      BY <1>6
  <2>3. TypesAsked(unit, phase', fn', 0) = {}
      BY <2>1 DEF TypesAsked
  <2> QED  BY <1>1, <2>2, <2>3 DEF LoopAsked
<1>7. CASE NextFunctionTypes
  <2>1. /\ phase' = "types" /\ fn' = fn + 1 /\ turn' = 0
        /\ todo' = ArgumentTypes(unit.functions[fn + 1])
        /\ fn + 1 \in 1 .. Len(unit.functions)
    <3>1. fn \in Nat /\ Len(unit.functions) \in Nat
        BY <1>1, UnitFields DEF TypeInv
    <3> QED  BY <1>7, <3>1 DEF NextFunctionTypes, Enter
  <2>2. Members(todo') = TypesAsked(unit, "types", fn + 1, 0)
    <3>1. Members(todo') = {<<"type", unit.typeOf[a]>> :
                              a \in Members(unit.functions[fn + 1].args)}
        BY <1>1, <2>1, ArgumentMembers
    <3> QED  BY <3>1 DEF TypesAsked
  <2>3. TypesAsked(unit, "types", fn + 1, 0) \subseteq OpenCalls'
      BY <2>2 DEF OpenCalls
  <2>4. \A k \in 0 .. turn' : k = turn'
      BY <2>1
  <2> QED  BY <1>1, <2>1, <2>3, <2>4 DEF LoopAsked
<1>8. UNCHANGED <<phase, fn, turn>> \/ Turn \/ turn' = 0
    BY DEF Next, vars, program, Begin, Return, Descend, Leave, StartConstants,
       NextFunctionTypes, OptimizeModule, ReserveCasts, Complete, Incorporate,
       FunctionConstants, FunctionInstructions, purgeFunction, Enter
<1> QED  BY <1>4, <1>5, <1>6, <1>7, <1>8

\* A loop that is over has nothing open.
LEMMA LoopSettles ==
    ASSUME LoopAsked, LoopEnds
    PROVE  AskedSettled(unit, types, phase, fn, Turns)
<1>1. turn = Turns /\ stack = <<>> /\ todo = <<>>
    BY DEF LoopEnds, Idle
<1>2. OpenCalls = {}
    BY <1>1 DEF OpenCalls, Members
<1> QED  BY <1>1, <1>2 DEF LoopAsked, AskedSettled

\* It stays so.
LEMMA AskedGrows ==
    ASSUME NEW u, NEW S, NEW T, NEW p, NEW f, NEW n, Members(S) \subseteq Members(T),
           AskedSettled(u, S, p, f, n)
    PROVE  AskedSettled(u, T, p, f, n)
BY AskedKinds DEF AskedSettled

\* The loop over the globals has them all ...
LEMMA GlobalsAskedPreserved ==
    ASSUME WholeInv, LoopAsked, GlobalsAsked, [Next]_vars PROVE GlobalsAsked'
<1>1. unit' = unit /\ Members(types) \subseteq Members(types')
    BY UnitStays, TypesGrow DEF WholeInv, TableInv
<1>2. CASE phase # "globals"
    BY <1>1, <1>2, AskedGrows DEF GlobalsAsked
<1>3. CASE phase = "globals" /\ phase' # "globals"
  <2>1. LoopEnds
      BY <1>3 DEF Next, vars, program, Begin, Return, Descend, Leave, Turn,
         StartConstants, NextFunctionTypes, OptimizeModule, ReserveCasts, Complete,
         Incorporate, FunctionConstants, FunctionInstructions, purgeFunction,
         Incorporated
  <2>2. AskedSettled(unit, types, "globals", fn, Len(unit.globals))
      BY <1>3, <2>1, LoopSettles DEF Turns
  <2>3. AskedSettled(unit, types, "globals", 0, Len(unit.globals))
      BY <2>2 DEF AskedSettled, TypesAsked
  <2> QED  BY <1>1, <2>3, AskedGrows DEF GlobalsAsked
<1> QED  BY <1>2, <1>3 DEF GlobalsAsked

\* ... and so have the walks over the bodies, one function after the other.
LEMMA BodiesAskedPreserved ==
    ASSUME WholeInv, LoopAsked, BodiesAsked, [Next]_vars PROVE BodiesAsked'
<1>1. /\ unit' = unit /\ Members(types) \subseteq Members(types') /\ fn \in Nat
      /\ (phase = "constants" => fn = 0)
    BY UnitStays, TypesGrow DEF WholeInv, TableInv, TypeInv, CallsInv
<1> SUFFICES ASSUME NEW f \in 1 .. Len(unit.functions),
                    phase' \notin {"globals", "constants"}, phase' = "types" => f < fn'
             PROVE  AskedSettled(unit, types', "types", f, Len(unit.functions[f].code))
    BY <1>1 DEF BodiesAsked
<1>2. f \in Nat /\ f > 0
    OBVIOUS
<1>3. CASE phase \notin {"globals", "constants"} /\ (phase = "types" => f < fn)
    BY <1>1, <1>3, AskedGrows DEF BodiesAsked
<1>4. CASE phase = "types" /\ LoopEnds /\ f = fn
  <2>1. AskedSettled(unit, types, "types", f, Len(unit.functions[f].code))
      BY <1>4, LoopSettles DEF Turns, Fn
  <2> QED  BY <1>1, <2>1, AskedGrows
<1>5. CASE NextFunctionTypes
  <2>1. fn' = fn + 1 /\ LoopEnds /\ phase \in {"constants", "types"} /\ phase' = "types"
      BY <1>5 DEF NextFunctionTypes, Enter
  <2>2. f < fn \/ f = fn
      BY <1>1, <2>1
  <2> QED  BY <1>1, <1>2, <1>3, <1>4, <2>1, <2>2
<1>6. CASE OptimizeModule
  <2>1. fn = Len(unit.functions) /\ LoopEnds /\ phase \in {"constants", "types"}
      BY <1>6 DEF OptimizeModule
  <2>2. f < fn \/ f = fn
      BY <1>1, <2>1
  <2> QED  BY <1>1, <1>2, <1>3, <1>4, <2>1, <2>2
<1>7. CASE ~(NextFunctionTypes \/ OptimizeModule)
  <2>1. phase \notin {"globals", "constants"} /\ (phase = "types" => f < fn)
      BY <1>7 DEF Next, vars, program, Begin, Return, Descend, Leave, Turn,
         StartConstants, ReserveCasts, Complete, Incorporate, FunctionConstants,
         FunctionInstructions, purgeFunction, Incorporated, Enter
  <2> QED  BY <1>3, <2>1
<1> QED  BY <1>5, <1>6, <1>7

-----------------------------------------------------------------------------

\* A call that adds no type: all that it can reach is in the table.
Quiet(u, table, c) ==
    CASE c[1] = "type" -> c[2] \in Members(table)
      [] c[1] = "value" ->
           IF c[2] \in LocalsIn(u) THEN TypedPart(u, table, c[2])
           ELSE PartsTyped(u, table, c[2])
      [] c[1] = "pooled" -> c[2] \notin LocalsIn(u) => PartsTyped(u, table, c[2])
      [] OTHER -> FALSE

\* No other is open once the enumerator is complete.
AllQuiet == Constructed => \A c \in OpenCalls : Quiet(unit, types, c)

FrozenInv == WholeInv /\ LoopAsked /\ GlobalsAsked /\ BodiesAsked /\ AllQuiet

\* What a quiet call calls is quiet.
LEMMA QuietCalls ==
    ASSUME TypeInv, TypeTable, NEW f \in Frames, Quiet(unit, types, <<f[1], f[2]>>),
           NEW c \in CalledBy(unit, f[1], f[2])
    PROVE  Quiet(unit, types, c)
<1>1. unit \in Units
    BY DEF TypeInv
<1>2. \A x : <<f[1], x>>[1] = f[1] /\ <<f[1], x>>[2] = x
    OBVIOUS
<1>3. CASE f[1] = "type"
  <2>1. f[2] \in Members(types)
      BY <1>2, <1>3 DEF Quiet
  <2>2. PICK n \in DOMAIN types : f[2] = types[n]
      BY <2>1 DEF Members
  <2>3. PICK t \in Members(unit.subtypes[f[2]]) : c = <<"type", t>>
      BY <1>3 DEF CalledBy
  <2>4. PICK k \in DOMAIN unit.subtypes[types[n]] : t = unit.subtypes[types[n]][k]
      BY <2>2, <2>3 DEF Members
  <2>5. PICK m \in 1 .. n - 1 : types[m] = t
      BY <2>2, <2>4 DEF TypeTable, TypesBuildable
  <2>6. m \in DOMAIN types
      BY <2>2, <2>5 DEF TypeInv
  <2>7. t \in Members(types)
      BY <2>5, <2>6 DEF Members
  <2> QED  BY <2>3, <2>7 DEF Quiet
<1>4. CASE f[1] = "value"
  <2>1. f[2] \in Values
      BY <1>4 DEF Frames
  <2> DEFINE v == f[2]
  <2>2. /\ TypedPart(unit, types, v)
        /\ v \notin LocalsIn(unit) /\ v \notin Members(unit.globals) =>
             \A w \in Members(unit.operands[v]) : PartsTyped(unit, types, w)
      BY <1>1, <1>2, <1>4, <2>1, PartsTypedUnfolds DEF Quiet
  <2>3. CASE \E t \in {unit.typeOf[v]} \cup SourcesCalled(unit, "value", v) : c = <<"type", t>>
    <3>1. PICK t \in {unit.typeOf[v]} \cup SourcesCalled(unit, "value", v) : c = <<"type", t>>
        BY <2>3
    <3>2. t \in Members(types)
        BY <2>2, <3>1 DEF SourcesCalled, TypedPart
    <3> QED  BY <3>1, <3>2 DEF Quiet
  <2>4. CASE ~\E t \in {unit.typeOf[v]} \cup SourcesCalled(unit, "value", v) : c = <<"type", t>>
    <3>1. PICK w \in IF v \in LocalsIn(unit) \cup Members(unit.globals) THEN {}
                     ELSE Members(unit.operands[v]) : c = <<"value", w>>
        BY <1>4, <2>4 DEF CalledBy
    <3>2. v \notin LocalsIn(unit) /\ v \notin Members(unit.globals)
        BY <3>1
    <3>3. w \in Members(unit.operands[v]) /\ PartsTyped(unit, types, w)
        BY <2>2, <3>1, <3>2
    <3>4. w \notin LocalsIn(unit)
        BY <1>1, <2>1, <3>2, <3>3, ScopesAssumption
    <3> QED  BY <3>1, <3>3, <3>4 DEF Quiet
  <2> QED  BY <2>3, <2>4
<1>5. CASE f[1] = "pooled"
  <2>1. c = <<"value", f[2]>> /\ f[2] \notin LocalsIn(unit) \cup Members(unit.globals)
      BY <1>5 DEF CalledBy
  <2> QED  BY <1>2, <1>5, <2>1 DEF Quiet
<1>6. f[1] # "operand"
    BY <1>2 DEF Quiet
<1> QED  BY <1>3, <1>4, <1>5, <1>6 DEF Frames

\* An argument has its type in the table, and those of its attributes.
LEMMA ArgumentQuiet ==
    ASSUME TypeInv, GlobalsAsked, BodiesAsked, phase = "args", NEW n \in 1 .. Turns,
           NEW c \in AskedIn(unit, phase, fn, n)
    PROVE  Quiet(unit, types, c)
<1>1. /\ unit \in Units /\ fn \in 1 .. Len(unit.functions) /\ Fn.args \in Seq(Values)
      /\ n \in 1 .. Len(Fn.args) /\ DOMAIN unit.functions = 1 .. Len(unit.functions)
  <2>1. fn \in 1 .. Len(unit.functions) /\ unit \in Units
      BY DEF TypeInv, InFunction
  <2> QED  BY <2>1, UnitFields, FunctionFields DEF Turns, Fn
<1> DEFINE a == Fn.args[n]
<1>2. a \in Members(Fn.args) /\ a \in Values /\ a \in LocalsIn(unit)
    BY <1>1 DEF Members, Fn, LocalsIn, LocalsOf
<1>3. CASE c = <<"value", a>>
  <2>1. AskedSettled(unit, types, "types", fn, Len(unit.functions[fn].code))
      BY <1>1 DEF BodiesAsked
  <2>2. Len(unit.functions[fn].code) \in Nat
      BY <1>1, FunctionFields
  <2>3. <<"type", unit.typeOf[a]>> \in TypesAsked(unit, "types", fn, 0)
      BY <1>2 DEF TypesAsked, Fn
  <2>4. unit.typeOf[a] \in Members(types)
      BY <2>1, <2>2, <2>3, DeepTypes DEF AskedSettled
  <2>5. unit.sourceTypes[a] = <<>>
      BY <1>1, <1>2, ConstantsAssumption
  <2>6. TypedPart(unit, types, a)
      BY <2>4, <2>5 DEF TypedPart, Members
  <2> QED  BY <1>2, <1>3, <2>6 DEF Quiet
<1>4. CASE \E t \in AttributeTypes(unit, a) : c = <<"type", t>>
  <2>1. PICK t \in AttributeTypes(unit, a) : c = <<"type", t>>
      BY <1>4
  <2>2. unit.target >= 140 /\ t \in Members(unit.typeAttributes[a])
      BY <2>1 DEF AttributeTypes
  <2>3. PICK g \in Members(unit.globals) : t \in Members(unit.typeAttributes[g])
      BY <1>1, <1>2, <2>2, ArgumentsAssumption DEF Fn
  <2>4. PICK k \in 1 .. Len(unit.globals) : g = unit.globals[k]
      BY <1>1, UnitFields DEF Members
  <2>5. Len(unit.globals) \in Nat
      BY <1>1, UnitFields
  <2>6. <<"type", t>> \in TypesAsked(unit, "globals", 0, k)
      BY <2>2, <2>3, <2>4 DEF TypesAsked, AttributeTypes
  <2>7. t \in Members(types)
      BY <2>4, <2>5, <2>6, DeepTypes DEF GlobalsAsked, AskedSettled
  <2> QED  BY <2>1, <2>7 DEF Quiet
<1> QED  BY <1>3, <1>4 DEF AskedIn, Fn

\* So has an instruction what its body uses and what it is.
LEMMA InstructionQuiet ==
    ASSUME TypeInv, TypeTable, BodiesAsked, phase \in {"consts", "insts"},
           NEW n \in 1 .. Turns, NEW c \in AskedIn(unit, phase, fn, n)
    PROVE  Quiet(unit, types, c)
<1>1. /\ unit \in Units /\ fn \in 1 .. Len(unit.functions) /\ n \in 1 .. Len(Fn.code)
      /\ Fn.code \in Seq(Instructions) /\ Fn.code[n] \in Instructions
      /\ fn \in DOMAIN unit.functions /\ n \in DOMAIN Fn.code
    BY InstructionOfTurn, UnitFields DEF TypeInv
<1> DEFINE i == unit.functions[fn].code[n]
<1>2. /\ i = Fn.code[n] /\ Len(unit.functions[fn].code) \in Nat
      /\ n \in 1 .. Len(unit.functions[fn].code)
    BY <1>1 DEF Fn
<1>3. ASSUME NEW d \in AskedIn(unit, "types", fn, n)
      PROVE  DeepIn(unit, types, {}, d)
  <2>1. AskedSettled(unit, types, "types", fn, Len(unit.functions[fn].code))
      BY <1>1 DEF BodiesAsked
  <2>2. n \in 0 .. Len(unit.functions[fn].code) /\ n > 0
      BY <1>2
  <2>3. d \in TypesAsked(unit, "types", fn, n)
      BY <1>3, <2>2 DEF TypesAsked
  <2> QED  BY <2>1, <2>2, <2>3 DEF AskedSettled
<1>4. ASSUME NEW v \in Members(i.ops), v \notin LocalsIn(unit)
      PROVE  PartsTyped(unit, types, v)
  <2>1. <<"operand", v>> \in AskedIn(unit, "types", fn, n)
      BY DEF AskedIn
  <2> QED  BY <1>3, <1>4, <2>1 DEF DeepIn
<1>5. ASSUME NEW v \in Members(i.ops) PROVE unit.typeOf[v] \in Members(types)
  <2>1. CASE v \in LocalsIn(unit)
    <3>1. <<"operand", v>> \in AskedIn(unit, "types", fn, n)
        BY DEF AskedIn
    <3> QED  BY <1>3, <2>1, <3>1 DEF DeepIn
  <2>2. CASE v \notin LocalsIn(unit)
    <3>1. v \in Values
        BY <1>1, <1>2, InstructionFields, MembersOfSeq
    <3> QED  BY <1>1, <1>4, <2>2, <3>1, PartsTypedUnfolds DEF TypedPart
  <2> QED  BY <2>1, <2>2
<1>6. ASSUME NEW t \in Members(i.types)
      PROVE  t \in Members(types) /\ Members(unit.subtypes[t]) \subseteq Members(types)
  <2>1. <<"type", t>> \in AskedIn(unit, "types", fn, n)
      BY DEF AskedIn
  <2>2. t \in Members(types)
      BY <1>3, <2>1, DeepTypes
  <2>3. t \in Types
      BY <1>1, <1>2, InstructionFields, MembersOfSeq
  <2> DEFINE f == <<"type", t, 0>>
  <2>4. f \in Frames /\ f[1] = "type" /\ f[2] = t
      BY <2>3 DEF Frames
  <2>5. Quiet(unit, types, <<f[1], f[2]>>)
      BY <2>2 DEF Quiet
  <2>6. ASSUME NEW s \in Members(unit.subtypes[t]) PROVE s \in Members(types)
    <3>1. <<"type", s>> \in CalledBy(unit, f[1], f[2])
        BY <2>4 DEF CalledBy
    <3>2. Quiet(unit, types, <<"type", s>>)
        BY <2>4, <2>5, <3>1, QuietCalls
    <3> QED  BY <3>2 DEF Quiet
  <2> QED  BY <2>2, <2>6
<1>7. CASE phase = "consts" /\ \E v \in Members(i.ops) : c = <<"pooled", v>>
    BY <1>4, <1>7 DEF Quiet
<1>8. CASE phase = "consts" /\ \E v \in Members(i.cases) : c = <<"value", v>>
  <2>1. PICK v \in Members(i.cases) : c = <<"value", v>>
      BY <1>8
  <2>2. v \notin LocalsIn(unit)
      BY <1>1, <1>2, <2>1, ScopesAssumption DEF Fn
  <2>3. ASSUME NEW w \in MadeOf(unit)[v] PROVE TypedPart(unit, types, w)
    <3>1. w \in PartsOf(unit, i.cases)
        BY <2>1 DEF PartsOf
    <3>2. /\ unit.sourceTypes[w] = <<>>
          /\ unit.typeOf[w] \in {unit.typeOf[x] : x \in Members(i.ops)}
                                \cup Members(i.types)
                                \cup UNION {Members(unit.subtypes[t]) : t \in Members(i.types)}
        BY <1>1, <1>2, <3>1, CasesAssumption DEF Fn
    <3>3. unit.typeOf[w] \in Members(types)
        BY <1>5, <1>6, <3>2
    <3> QED  BY <3>2, <3>3 DEF TypedPart, Members
  <2> QED  BY <2>1, <2>2, <2>3 DEF Quiet, PartsTyped
<1>9. CASE phase = "insts"
  <2>1. c = <<"value", i.id>>
      BY <1>9 DEF AskedIn
  <2>2. i.id \in LocalsIn(unit)
      BY <1>1 DEF LocalsIn, LocalsOf, Fn
  <2>3. <<"type", unit.typeOf[i.id]>> \in AskedIn(unit, "types", fn, n)
      BY DEF AskedIn
  <2>4. unit.typeOf[i.id] \in Members(types)
      BY <1>3, <2>3, DeepTypes
  <2>5. unit.sourceTypes[i.id] = <<>>
      BY <1>1, <2>2, ConstantsAssumption
  <2>6. TypedPart(unit, types, i.id)
      BY <2>4, <2>5 DEF TypedPart, Members
  <2> QED  BY <2>1, <2>2, <2>6 DEF Quiet
<1> QED  BY <1>7, <1>8, <1>9 DEF AskedIn

\* A quiet call leaves the types as they are.
LEMMA QuietStep ==
    ASSUME TypeInv, AllQuiet, Constructed, [Next]_vars
    PROVE  types' = types
<1>1. CASE Leave /\ Top[1] = "type"
  <2>1. stack # <<>> /\ types' = WithType(Top[2])
      BY <1>1 DEF Leave
  <2>2. Len(stack) \in 1 .. Len(stack) /\ Top = stack[Len(stack)]
      BY <2>1, TopOfStack DEF Top
  <2>3. <<"type", Top[2]>> \in OpenCalls
      BY <1>1, <2>2 DEF OpenCalls
  <2>4. InTypes(Top[2])
      BY <2>3 DEF AllQuiet, Quiet, InTypes
  <2> QED  BY <2>1, <2>4 DEF WithType
<1>2. CASE ~(Leave /\ Top[1] = "type")
    BY <1>2 DEF Next, vars, tables, Begin, Return, Descend, Leave, Turn, StartConstants,
       NextFunctionTypes, OptimizeModule, ReserveCasts, Complete, Incorporate,
       FunctionConstants, FunctionInstructions, purgeFunction
<1> QED  BY <1>1, <1>2

\* Arguments, constants and instructions open quiet calls only.
LEMMA QuietPreserved ==
    ASSUME FrozenInv, [Next]_vars PROVE AllQuiet'
<1>1. TypeInv /\ TypeTable /\ unit' = unit /\ unit \in Units
    BY UnitStays DEF FrozenInv, WholeInv, TableInv, TypeInv
<1> SUFFICES ASSUME Constructed', NEW c \in OpenCalls'
             PROVE  Quiet(unit, types', c)
    BY <1>1 DEF AllQuiet
<1>2. CASE Constructed
  <2>1. types' = types
      BY <1>1, <1>2, QuietStep DEF FrozenInv
  <2>2. CASE c \in OpenCalls
      BY <1>2, <2>1, <2>2 DEF FrozenInv, AllQuiet
  <2>3. CASE /\ Top \in Frames /\ <<Top[1], Top[2]>> \in OpenCalls
             /\ c \in CalledBy(unit, Top[1], Top[2])
    <3>1. Quiet(unit, types, <<Top[1], Top[2]>>)
        BY <1>2, <2>3 DEF FrozenInv, AllQuiet
    <3> QED  BY <1>1, <2>1, <2>3, <3>1, QuietCalls
  <2>4. CASE turn + 1 \in 1 .. Turns /\ c \in AskedIn(unit, phase, fn, turn + 1)
    <3>1. phase \in {"args", "consts", "insts"}
        BY <1>2, <2>4 DEF Constructed, Turns
    <3> QED  BY <1>1, <2>1, <2>4, <3>1, ArgumentQuiet, InstructionQuiet DEF FrozenInv
  <2>5. ~StartConstants /\ ~NextFunctionTypes /\ ~ReserveCasts
      BY <1>2 DEF Constructed, StartConstants, NextFunctionTypes, ReserveCasts
  <2> QED  BY <1>1, <2>2, <2>3, <2>4, <2>5, CallsMove
<1>3. CASE ~Constructed
  <2>1. Complete
      BY <1>3 DEF Constructed, Next, vars, program, Begin, Return, Descend, Leave, Turn,
         StartConstants, NextFunctionTypes, OptimizeModule, ReserveCasts, Incorporate,
         FunctionConstants, FunctionInstructions, purgeFunction, Incorporated, Enter
  <2>2. stack' = <<>> /\ todo' = <<>>
      BY <2>1 DEF Complete, Enter, LoopEnds, Idle
  <2> QED  BY <2>2 DEF OpenCalls, Members
<1> QED  BY <1>2, <1>3

\* No loop has asked for anything yet.
LEMMA FrozenStarts == ASSUME Init PROVE FrozenInv
<1>1. WholeInv /\ phase = "globals" /\ turn = 0 /\ fn = 0
    BY WholeStarts DEF Init
<1>2. \A k \in 0 .. turn : k = 0
    BY <1>1
<1>3. LoopAsked
    BY <1>1, <1>2 DEF LoopAsked, TypesAsked
<1> QED  BY <1>1, <1>3 DEF FrozenInv, GlobalsAsked, BodiesAsked, AllQuiet, Constructed

\* Together they are inductive.
LEMMA FrozenPreserved == ASSUME FrozenInv, [Next]_vars PROVE FrozenInv'
BY WholePreserved, LoopAskedPreserved, GlobalsAskedPreserved, BodiesAskedPreserved,
   QuietPreserved DEF FrozenInv

\* The type table is written before the functions, and incorporating one never
\* needs another type: what the walk over the bodies has added is all that
\* their arguments, constants and instructions have.
THEOREM TypesFrozenCorrect == Spec => TypesFrozen
<1>1. Init => FrozenInv
    BY FrozenStarts
<1>2. FrozenInv /\ [Next]_vars => FrozenInv'
    BY FrozenPreserved
<1>3. FrozenInv /\ [Next]_vars => [Constructed => types' = types]_vars
    BY QuietStep DEF FrozenInv, WholeInv, TableInv
<1> QED  BY <1>1, <1>2, <1>3, PTL DEF Spec, TypesFrozen

-----------------------------------------------------------------------------
(* Bitcasts for the pointers in aggregates *)

InBody == phase \in {"args", "consts", "insts"}

\* Whatever a reached aggregate points to has a slot, beyond every module value
\* and before whatever a function adds.
CastsReserved ==
    phase \notin {"globals", "constants", "types", "casts"} /\ unit.target <= 140 =>
        CastElements \subseteq DOMAIN castMap
CastsLast ==
    \A v \in DOMAIN castMap, w \in DOMAIN valueMap :
        valueMap[w] < castMap[v] \/ (InBody /\ valueMap[w] > numModuleValues)
BridgesInv ==
    /\ NumberingInv /\ LoopsInv /\ CallOrigins /\ ValueOrigins
    /\ CastsReserved /\ CastsLast

\* The loop over the aggregates ends when all of them have their slots.
LEMMA CastsReservedPreserved ==
    ASSUME BridgesInv, [Next]_vars PROVE CastsReserved'
<1>1. unit' = unit /\ CastElements' = CastElements
    BY UnitStays DEF CastElements, Reached, IsCastElement, Globals
<1> SUFFICES ASSUME phase' \notin {"globals", "constants", "types", "casts"},
                    unit.target <= 140
             PROVE  CastElements \subseteq DOMAIN castMap'
    BY <1>1 DEF CastsReserved
<1>2. CASE phase \notin {"globals", "constants", "types", "casts"}
  <2>1. castMap' = castMap
      BY <1>2 DEF Next, vars, Begin, Return, Descend, Leave, Turn, StartConstants,
         NextFunctionTypes, OptimizeModule, ReserveCasts, Complete, Incorporate,
         FunctionConstants, FunctionInstructions, purgeFunction
  <2> QED  BY <1>2, <2>1 DEF BridgesInv, CastsReserved
<1>3. CASE phase \in {"globals", "constants", "types", "casts"}
  <2>1. ReserveCasts
    <3>1. phase' # phase
        BY <1>3
    <3>2. ~(Begin \/ Return \/ Descend \/ Leave \/ Turn \/ UNCHANGED vars)
        BY <3>1 DEF Begin, Return, Descend, Leave, Turn, vars, program
    <3>3. ~(StartConstants \/ NextFunctionTypes \/ OptimizeModule)
        BY DEF StartConstants, NextFunctionTypes, OptimizeModule, Enter
    <3>4. ~(Complete \/ Incorporate \/ FunctionConstants \/ FunctionInstructions
            \/ purgeFunction)
        BY <1>3 DEF Complete, Incorporate, FunctionConstants, FunctionInstructions,
           purgeFunction, Incorporated
    <3> QED  BY <3>2, <3>3, <3>4 DEF Next
  <2>2. phase = "casts" /\ phase' # "casts"
      BY <2>1 DEF ReserveCasts
  <2>3. CastElements \ DOMAIN castMap = {} /\ castMap' = castMap
      BY <2>1, <2>2 DEF ReserveCasts, program
  <2> QED  BY <2>3
<1> QED  BY <1>2, <1>3

\* A new slot is the last one; a function adds, sorts and purges behind them.
LEMMA CastsLastPreserved ==
    ASSUME BridgesInv, [Next]_vars PROVE CastsLast'
<1>1. /\ values \in Seq(Values \X Nat) /\ Len(values) \in Nat /\ TypeInv
      /\ \A v \in DOMAIN valueMap : valueMap[v] \in 1 .. Len(values)
      /\ \A v \in DOMAIN castMap : castMap[v] \in 1 .. Len(values)
      /\ numModuleValues \in Nat /\ firstFuncConstant \in Nat
      /\ phase \in {"globals", "constants", "types"} => DOMAIN castMap = {}
      /\ InBody => numModuleValues <= Len(values)
      /\ phase = "consts" => numModuleValues <= firstFuncConstant
      /\ CastsLast
    BY DEF BridgesInv, NumberingInv, ValuesTyped, SlotsOf, ModuleSlots, InBody
<1>2. CASE Leave /\ Top[1] = "value"
  <2>1. /\ castMap' = castMap /\ phase' = phase /\ numModuleValues' = numModuleValues
        /\ DOMAIN valueMap' = DOMAIN valueMap \cup {Top[2]}
        /\ \A w \in DOMAIN valueMap' :
             valueMap'[w] = IF w = Top[2] THEN Len(values) + 1 ELSE valueMap[w]
      BY <1>2 DEF Leave, program, marks
  <2>2. CASE DOMAIN castMap = {}
      BY <2>1, <2>2 DEF CastsLast
  <2>3. CASE InBody
      BY <1>1, <2>1, <2>3 DEF CastsLast, InBody
  <2>4. DOMAIN castMap = {} \/ InBody
    <3>1. stack # <<>>
        BY <1>2 DEF Leave
    <3>2. Len(stack) \in 1 .. Len(stack) /\ Top = stack[Len(stack)]
        BY <1>1, <3>1, TopOfStack DEF Top
    <3>3. Top[1] = "value"
        BY <1>2
    <3>4. phase \notin {"casts", "ready"}
        BY <3>1 DEF BridgesInv, LoopsInv, TypesOnly
    <3>5. phase # "pointers"
        BY <3>2, <3>3 DEF BridgesInv, LoopsInv, TypesOnly
    <3> QED  BY <1>1, <3>4, <3>5 DEF TypeInv, InFunction, InBody
  <2> QED  BY <2>2, <2>3, <2>4
<1>3. CASE ReserveCasts
  <2>1. valueMap' = valueMap /\ phase = "casts" /\ ~InBody
      BY <1>3 DEF ReserveCasts, InBody
  <2>2. \A v \in DOMAIN castMap, w \in DOMAIN valueMap : valueMap[w] < castMap[v]
      BY <1>1, <2>1 DEF CastsLast
  <2>3. ASSUME NEW v \in DOMAIN castMap'
        PROVE  \/ v \in DOMAIN castMap /\ castMap'[v] = castMap[v]
               \/ castMap'[v] = Len(values) + 1
    <3>1. CASE castMap' = castMap
        BY <3>1
    <3>2. CASE castMap' # castMap
      <4>1. PICK x : castMap' = [w \in DOMAIN castMap \cup {x} |->
                                   IF w = x THEN Len(values) + 1 ELSE castMap[w]]
          BY <1>3, <3>2 DEF ReserveCasts
      <4> QED  BY <4>1
    <3> QED  BY <3>1, <3>2
  <2>4. \A w \in DOMAIN valueMap : valueMap[w] < Len(values) + 1
      BY <1>1
  <2> QED  BY <2>1, <2>2, <2>3, <2>4 DEF CastsLast
<1>4. CASE Incorporate
  <2>1. valueMap' = valueMap /\ castMap' = castMap /\ ~InBody
      BY <1>4 DEF Incorporate, tables, InBody
  <2> QED  BY <1>1, <2>1 DEF CastsLast
<1>5. CASE OptimizeModule
  <2>1. castMap' = castMap /\ DOMAIN castMap = {}
      BY <1>1, <1>5 DEF OptimizeModule
  <2> QED  BY <2>1 DEF CastsLast
<1>6. CASE FunctionInstructions
  <2> DEFINE R == firstFuncConstant + 1 .. Len(values)
  <2>1. /\ castMap' = castMap /\ numModuleValues' = numModuleValues
        /\ phase = "consts" /\ phase' = "insts"
        /\ OptimizeConstants(firstFuncConstant, Len(values))
      BY <1>6 DEF FunctionInstructions, Enter
  <2>2. PICK p \in [R -> R] :
          /\ \A m, n \in R : m < n => Precedes(p[m], p[n])
          /\ valueMap' = [v \in DOMAIN valueMap |->
                            IF valueMap[v] \in DOMAIN p
                            THEN CHOOSE n \in DOMAIN p : p[n] = valueMap[v]
                            ELSE valueMap[v]]
      BY <2>1 DEF OptimizeConstants
  <2>3. \A k \in R : \E n \in R : p[n] = k
      BY <1>1, <2>2, SortPermutes
  <2>4. ASSUME NEW w \in DOMAIN valueMap, valueMap[w] \in R
        PROVE  valueMap'[w] > numModuleValues
    <3>1. valueMap'[w] = CHOOSE n \in R : p[n] = valueMap[w]
        BY <2>2, <2>4
    <3>2. valueMap'[w] \in R
        BY <2>3, <2>4, <3>1
    <3> QED  BY <1>1, <2>1, <3>2
  <2>5. ASSUME NEW w \in DOMAIN valueMap, valueMap[w] \notin R
        PROVE  valueMap'[w] = valueMap[w]
      BY <2>2, <2>5
  <2>6. DOMAIN valueMap' = DOMAIN valueMap
      BY <2>2
  <2> QED  BY <1>1, <2>1, <2>4, <2>5, <2>6 DEF CastsLast, InBody
<1>7. CASE purgeFunction
  <2>1. /\ castMap' = castMap /\ valueMap' = PurgedMap
        /\ phase = "insts" /\ numModuleValues' = numModuleValues
      BY <1>7 DEF purgeFunction, Incorporated, marks
  <2>2. ASSUME NEW w \in DOMAIN valueMap'
        PROVE  /\ w \in DOMAIN valueMap /\ valueMap'[w] = valueMap[w]
               /\ ~(valueMap[w] > numModuleValues)
    <3>1. /\ w \in DOMAIN valueMap /\ valueMap'[w] = valueMap[w]
          /\ w \notin {values[n][1] : n \in numModuleValues + 1 .. Len(values)}
        BY <2>1 DEF PurgedMap
    <3>2. values[valueMap[w]][1] = w
        BY <3>1 DEF BridgesInv, NumberingInv, Numbering
    <3>3. valueMap[w] \notin numModuleValues + 1 .. Len(values)
        BY <3>1, <3>2
    <3> QED  BY <1>1, <3>1, <3>3
  <2> QED  BY <1>1, <2>1, <2>2 DEF CastsLast
<1>8. CASE FunctionConstants
  <2>1. /\ valueMap' = valueMap /\ castMap' = castMap /\ numModuleValues' = numModuleValues
        /\ phase = "args" /\ phase' = "consts"
      BY <1>8 DEF FunctionConstants, Enter, tables
  <2> QED  BY <1>1, <2>1 DEF CastsLast, InBody
<1>9. CASE Complete \/ StartConstants \/ NextFunctionTypes
  <2>1. valueMap' = valueMap /\ castMap' = castMap /\ ~InBody
      BY <1>9 DEF Complete, StartConstants, NextFunctionTypes, tables, InBody
  <2> QED  BY <1>1, <2>1 DEF CastsLast
<1>10. CASE Begin \/ Return \/ Descend \/ Turn \/ (Leave /\ Top[1] # "value")
            \/ UNCHANGED vars
  <2>1. /\ valueMap' = valueMap /\ castMap' = castMap /\ phase' = phase
        /\ numModuleValues' = numModuleValues
      BY <1>10 DEF Begin, Return, Descend, Leave, Turn, vars, tables, program, marks
  <2> QED  BY <1>1, <2>1 DEF CastsLast, InBody
<1> QED  BY <1>2, <1>3, <1>4, <1>5, <1>6, <1>7, <1>8, <1>9, <1>10 DEF Next

\* Together they are inductive.
LEMMA BridgesPreserved == ASSUME BridgesInv, [Next]_vars PROVE BridgesInv'
<1>1. TypeInv
    BY DEF BridgesInv, NumberingInv
<1> QED  BY <1>1, NumberingPreserved, LoopsPreserved, OriginsPreserved,
            ValueOriginsPreserved, CastsReservedPreserved, CastsLastPreserved
         DEF BridgesInv

\* There are no slots yet.
LEMMA BridgesStart == ASSUME Init PROVE BridgesInv
<1>1. NumberingInv /\ LoopsInv /\ CallOrigins
    BY NumberingStarts, LoopsStart, WholeStarts DEF WholeInv
<1>2. phase = "globals" /\ DOMAIN valueMap = {} /\ DOMAIN castMap = {}
    BY DEF Init
<1> QED  BY <1>1, <1>2 DEF BridgesInv, ValueOrigins, CastsReserved, CastsLast

\* An aggregate that only an aliasee, the data of a function or metadata is made
\* of, and that points somewhere: the loop over the initializers does not meet it.
DataGap ==
    \E a \in (PartsOf(unit, unit.aliasees) \cup PartsOf(unit, unit.metadata))
                \cap unit.aggregates :
        /\ a \notin Reached
        /\ \E v \in Members(unit.operands[a]) : IsCastElement(v)

\* An aggregate with a number is part of an initializer, or points nowhere.
LEMMA BridgesHold ==
    ASSUME BridgesInv, ~DataGap PROVE AggregatesBridged
<1>1. unit \in Units
    BY DEF BridgesInv, NumberingInv, TypeInv
<1> SUFFICES ASSUME Constructed, unit.target <= 140,
                    NEW a \in DOMAIN valueMap \cap unit.aggregates,
                    NEW v \in Members(unit.operands[a]), IsCastElement(v)
             PROVE  /\ v \in DOMAIN castMap
                    /\ \A w \in DOMAIN valueMap :
                         valueMap[w] < castMap[v] \/ valueMap[w] > numModuleValues
    BY DEF AggregatesBridged
<1>2. a \notin LocalsIn(unit) /\ a \notin Members(unit.globals) /\ a \in Values
    BY <1>1, ConstantsAssumption
       DEF BridgesInv, NumberingInv, ValuesTyped, SlotsOf
<1>3. a \in ModuleParts(unit) \cup BodyParts(unit)
  <2>1. a \in MadeOf(unit)[a]
      BY <1>1, <1>2, MadeOfUnfolds
  <2> QED  BY <1>2, <2>1 DEF BridgesInv, ValueOrigins, Locals
<1>4. a \notin BodyParts(unit)
    BY <1>1, <1>2, DemotedAssumption DEF IsCastElement, Globals
<1>5. PICK r \in ModuleRoots(unit) : a \in MadeOf(unit)[r]
    BY <1>3, <1>4 DEF ModuleParts
<1>6. r \notin Members(unit.globals)
  <2>1. ASSUME r \in Members(unit.globals) PROVE FALSE
    <3>1. r \in Values
        BY <1>1, <2>1, UnitFields, MembersOfSeq
    <3>2. MadeOf(unit)[r] = {r}
        BY <1>1, <2>1, <3>1, MadeOfUnfolds
    <3> QED  BY <1>2, <1>5, <2>1, <3>2
  <2> QED  BY <2>1
<1>7. a \in Reached
  <2>1. CASE r \in Members(unit.initializers)
      BY <1>5, <2>1 DEF Reached, PartsOf
  <2>2. CASE r \in Members(unit.aliasees)
    <3>1. a \in PartsOf(unit, unit.aliasees)
        BY <1>5, <2>2 DEF PartsOf
    <3> QED  BY <3>1 DEF DataGap
  <2>3. CASE r \in Members(unit.metadata)
    <3>1. a \in PartsOf(unit, unit.metadata)
        BY <1>5, <2>3 DEF PartsOf
    <3> QED  BY <3>1 DEF DataGap
  <2> QED  BY <1>5, <1>6, <2>1, <2>2, <2>3 DEF ModuleRoots
<1>8. v \in CastElements
    BY <1>7 DEF CastElements
<1>9. v \in DOMAIN castMap
    BY <1>8 DEF BridgesInv, CastsReserved, Constructed
<1> QED  BY <1>9 DEF BridgesInv, CastsLast

\* Every pointer an aggregate names directly has a bitcast, after the other
\* constants of the module: the writer refers to it in the place of the
\* pointer, as those that read typed pointers expect.  Only the aggregates that
\* nothing but an aliasee, the data of a function or metadata is made of are not met.
THEOREM AggregatesBridgedCorrect == Spec => [](~DataGap => AggregatesBridged)
<1>1. Init => BridgesInv
    BY BridgesStart
<1>2. BridgesInv /\ [Next]_vars => BridgesInv'
    BY BridgesPreserved
<1>3. BridgesInv => (~DataGap => AggregatesBridged)
    BY BridgesHold
<1> QED  BY <1>1, <1>2, <1>3, PTL DEF Spec

-----------------------------------------------------------------------------
(* The writer and its reader leave the enumerator's state to the           *)
(* enumerator: each of their steps is a step of it, or none.  What is      *)
(* proved of the numbers therefore holds of the numbers in the stream.     *)

\* What the writer does on its own, what it has the enumerator do.
LEMMA WriterSteps == ASSUME WNext PROVE [Next]_vars
<1>1. CASE Enumerate
    BY <1>1 DEF Enumerate, Next
<1>2. CASE BeginModule \/ WriteModuleInfo \/ WriteGlobalValueSymbolTable \/ WriteTables
    BY <1>2 DEF BeginModule, WriteModuleInfo, WriteGlobalValueSymbolTable, WriteTables
<1>3. CASE WriteTypeTable \/ WriteModuleConstants \/ WriteFunctionConstants
           \/ WriteInstruction
    BY <1>3 DEF WriteTypeTable, WriteModuleConstants, WriteFunctionConstants,
                WriteInstruction, Reject
<1>4. CASE BeginFunction \/ EndFunction
    BY <1>4 DEF BeginFunction, EndFunction, Next
<1> QED  BY <1>1, <1>2, <1>3, <1>4 DEF WNext

\* The reader of the old release only reads.
LEMMA ReaderSteps == ASSUME [RNext]_rvars PROVE [Next]_vars
<1>1. CASE WNext
    BY <1>1, WriterSteps
<1>2. CASE Read \/ UNCHANGED rvars
    BY <1>2 DEF Read, rvars, wvars
<1> QED  BY <1>1, <1>2 DEF RNext

\* Writing a module enumerates it.
THEOREM WritingEnumerates == RSpec => Spec
<1>1. RInit => Init
    BY DEF RInit, WInit
<1>2. [RNext]_rvars => [Next]_vars
    BY ReaderSteps
<1> QED  BY <1>1, <1>2, PTL DEF RSpec, Spec

\* So the type table that is written can be built entry after entry ...
THEOREM WrittenTypeTable == RSpec => []TypeTable
BY WritingEnumerates, TypeTableCorrect, PTL

\* ... a number in a record is the number of one value ...
THEOREM WrittenNumbers == RSpec => []Numbering
BY WritingEnumerates, NumberingCorrect, PTL

\* ... and what the module's records refer to by number, the functions still
\* refer to by that number.
THEOREM WrittenNumbersKept == RSpec => NumbersFrozen
BY WritingEnumerates, ModuleNumbersKept

\* ... they are the numbers this reader counts ...
THEOREM WrittenReaderNumbering == RSpec => []ReaderNumbering
BY WritingEnumerates, ReaderNumberingCorrect, PTL

\* ... no record names a value or a type without one ...
THEOREM WrittenEverythingNumbered == RSpec => []EverythingNumbered
BY WritingEnumerates, EverythingNumberedCorrect, PTL

\* ... and the constants blocks list their constants in the order they need.
THEOREM WrittenPoolsOrdered == RSpec => []PoolsOrdered
BY WritingEnumerates, PoolsOrderedCorrect, PTL

\* The type table is written before the functions: no function needs another
\* type ...
THEOREM WrittenTypesFrozen == RSpec => TypesFrozen
BY WritingEnumerates, TypesFrozenCorrect

\* ... and where pointers are typed, an aggregate the reader meets finds a
\* bitcast in the place of each pointer, unless only the data of a function or
\* an aliasee is made of it.
THEOREM WrittenAggregatesBridged == RSpec => [](~DataGap => AggregatesBridged)
BY WritingEnumerates, AggregatesBridgedCorrect, PTL
=============================================================================
