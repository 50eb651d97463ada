------------------------- MODULE MetadataEnumerator -------------------------
(***************************************************************************)
(* src/ValueEnumerator200.cpp (and its siblings): the numbering of         *)
(* metadata.  The constructor walks the graph from each root, tags what    *)
(* only one function reaches with that function, and organizeMetadata      *)
(* sorts the tagged part into a range per function; incorporateFunction    *)
(* adds a function's range and its local metadata to the module's,         *)
(* purgeFunction takes them away.                                          *)
(*                                                                         *)
(* EnumerateMetadata is a loop over an explicit worklist; an action is the *)
(* visit of one operand, or the end of one node.  Functions are numbered   *)
(* from 1, and 0 is the module.                                            *)
(***************************************************************************)
EXTENDS Naturals, Sequences, FiniteSets, SequencesExt

CONSTANTS Metadata, Null, Units

\* A module: the kind and the operands of metadata, the roots in the order in
\* which the constructor meets them with the function they are met in, and,
\* per function, the local metadata of its instructions in order.
Kinds == {"string", "constant", "uniqued", "distinct", "local", "list"}
ModuleFields == [kind : [Metadata -> Kinds],
                 ops : [Metadata -> Seq(Metadata \cup {Null})],
                 roots : Seq([f : Nat, md : Metadata]),
                 locals : Seq(Seq(Metadata))]
ASSUME UnitsAssumption == Units \subseteq ModuleFields
ASSUME NullAssumption == Null \notin Metadata /\ IsFiniteSet(Metadata)

\* FnLocalMDVector, then ArgListMDVector: the locals of a function, and
\* those in its lists, before the lists; a list's constants before it.
LocalsFirst(u, f) ==
    LET s == u.locals[f]
        Parts(list, k) ==
            FlattenSeq([n \in DOMAIN u.ops[list] |->
                IF u.kind[u.ops[list][n]] = k THEN <<u.ops[list][n]>> ELSE <<>>])
    IN FlattenSeq([n \in DOMAIN s |->
           IF u.kind[s[n]] = "local" THEN <<s[n]>> ELSE Parts(s[n], "local")])
       \o FlattenSeq([n \in DOMAIN s |->
           IF u.kind[s[n]] = "list"
           THEN Append(Parts(s[n], "constant"), s[n]) ELSE <<>>])
\* The constructor meets the constants in a function's lists with the function.
ASSUME ListsAssumption ==
    \A u \in Units : \A f \in DOMAIN u.locals :
        \A md \in ToSet(LocalsFirst(u, f)) :
            u.kind[md] = "constant" => [f |-> f, md |-> md] \in ToSet(u.roots)

\* What belongs to a body is named by instructions only: no node has it as an
\* operand, and only lists are made of it.
Shared(u) == {md \in Metadata : u.kind[md] \notin {"local", "list"}}
ASSUME GraphAssumption ==
    \A u \in Units :
        /\ \A md \in Metadata :
             CASE u.kind[md] \in {"uniqued", "distinct"} ->
                    ToSet(u.ops[md]) \subseteq Shared(u) \cup {Null}
               [] u.kind[md] = "list" ->
                    \A x \in ToSet(u.ops[md]) :
                        x # Null /\ u.kind[x] \in {"constant", "local"}
               [] OTHER -> u.ops[md] = <<>>
        /\ \A r \in ToSet(u.roots) : r.md \in Shared(u) /\ r.f <= Len(u.locals)
        /\ \A f \in DOMAIN u.locals :
             ToSet(u.locals[f]) \subseteq Metadata \ Shared(u)

VARIABLES
    unit,      \* the module
    phase,     \* "walking", "ready", "incorporated"
    done,      \* the roots, and then the functions, that have been begun
    worklist,  \* Worklist: <<node, operands visited>>
    delayed,   \* DelayedDistinctNodes
    mds,       \* MDs
    index,     \* MetadataMap: metadata -> [f, id]; an id of 0 is none yet
    valued,    \* the metadata whose value has been given to EnumerateValue
    functionMDs, ranges,           \* FunctionMDs, FunctionMDInfo
    numModuleMDs, numStrings,      \* NumModuleMDs, NumMDStrings
    todo       \* the local metadata still to be incorporated

program == <<unit, phase, done>>
walk == <<worklist, delayed>>
functions == <<functionMDs, ranges, numModuleMDs, numStrings, todo>>
vars == <<program, walk, mds, index, valued, functions>>

Kind(md) == unit.kind[md]
IsNode(md) == Kind(md) \in {"uniqued", "distinct"}
IsDistinct(md) == Kind(md) = "distinct"
Ops(md) == {unit.ops[md][n] : n \in DOMAIN unit.ops[md]} \ {Null}
NoRange == [first |-> 0, last |-> 0, strings |-> 0]
RangeOf(f) == IF f \in DOMAIN ranges THEN ranges[f] ELSE NoRange
Top == Last(worklist)

\* What S reaches along the arcs of a graph: metadata -> set of metadata.
Closure(S, arcs) ==
    LET From[n \in 0..Cardinality(Metadata)] ==
          IF n = 0 THEN S
          ELSE LET T == From[n - 1] IN T \cup UNION {arcs[x] : x \in T}
    IN From[Cardinality(Metadata)]

-----------------------------------------------------------------------------
(* Function tags *)

\* Mutant: only the node itself loses its tag.
dropFunctionOnce(md) == [index EXCEPT ![md].f = 0]

\* dropFunctionFromMetadata: md loses its tag, and so does what it reaches
\* through tagged metadata (whose operands are all in the map if it has its
\* ID).
dropFunctionFromMetadata(md) ==
    LET Tagged(S) == {x \in S : x \in DOMAIN index /\ index[x].f # 0}
        HasID(x) == x \in DOMAIN index /\ index[x].id # 0
        arcs == [x \in Metadata |->
                   IF HasID(x) /\ IsNode(x) THEN Tagged(Ops(x)) ELSE {}]
        reached == Closure({md}, arcs)
    IN [x \in DOMAIN index |->
          IF x \in reached THEN [index[x] EXCEPT !.f = 0] ELSE index[x]]

\* enumerateMetadataImpl for what is already in the map ...
Meet(f, md) ==
    /\ md \in DOMAIN index
    /\ index' = IF index[md].f \notin {0, f}
                THEN dropFunctionFromMetadata(md) ELSE index
    /\ UNCHANGED <<mds, valued>>

\* ... for a string or a constant, which gets its number at once ...
With(md, entry) == [x \in DOMAIN index \cup {md} |->
                      IF x = md THEN entry ELSE index[x]]
Number(f, md) ==
    /\ md \notin DOMAIN index /\ ~IsNode(md)
    /\ mds' = Append(mds, md)
    /\ index' = With(md, [f |-> f, id |-> Len(mds) + 1])
    /\ valued' = IF Kind(md) = "constant" THEN valued \cup {md} ELSE valued

\* ... and for a node, which is to be traversed first.
Discover(f, md) ==
    /\ md \notin DOMAIN index /\ IsNode(md)
    /\ index' = With(md, [f |-> f, id |-> 0])
    /\ UNCHANGED <<mds, valued>>

-----------------------------------------------------------------------------
(* The walk of the constructor *)

Walking == phase = "walking" /\ worklist # <<>>
F == unit.roots[done].f

\* The call of EnumerateMetadata with the next root.
EnumerateMetadata ==
    /\ phase = "walking" /\ worklist = <<>> /\ done < Len(unit.roots)
    /\ done' = done + 1
    /\ LET root == unit.roots[done + 1]
       IN \/ /\ Meet(root.f, root.md) \/ Number(root.f, root.md)
             /\ UNCHANGED worklist
          \/ /\ Discover(root.f, root.md)
             /\ worklist' = <<<<root.md, 0>>>>
    /\ UNCHANGED <<unit, phase, delayed, functions>>

Operand == unit.ops[Top[1]][Top[2] + 1]
HasOperand == Walking /\ Top[2] < Len(unit.ops[Top[1]])
Advanced == Append(Front(worklist), <<Top[1], Top[2] + 1>>)

\* An operand that needs no traversal.
Skip ==
    /\ HasOperand
    /\ \/ Operand = Null /\ UNCHANGED <<mds, index, valued>>
       \/ Operand # Null /\ (Meet(F, Operand) \/ Number(F, Operand))
    /\ worklist' = Advanced
    /\ UNCHANGED <<program, delayed, functions>>

\* Mutant: a distinct node is traversed wherever it is met.
DescendAtOnce ==
    /\ HasOperand /\ Operand # Null
    /\ Discover(F, Operand)
    /\ worklist' = Append(Advanced, <<Operand, 0>>)
    /\ UNCHANGED <<program, delayed, functions>>

\* A new node: a distinct one met in a uniqued one has to wait.
Descend ==
    /\ HasOperand /\ Operand # Null
    /\ Discover(F, Operand)
    /\ IF IsDistinct(Operand) /\ ~IsDistinct(Top[1])
       THEN delayed' = Append(delayed, Operand) /\ worklist' = Advanced
       ELSE worklist' = Append(Advanced, <<Operand, 0>>) /\ UNCHANGED delayed
    /\ UNCHANGED <<program, functions>>

\* All operands have been visited: the node gets its number.  After the last
\* node of a uniqued subgraph the delayed nodes have their turn.
Leave ==
    /\ Walking /\ Top[2] = Len(unit.ops[Top[1]])
    /\ mds' = Append(mds, Top[1])
    /\ index' = [index EXCEPT ![Top[1]].id = Len(mds) + 1]
    /\ LET rest == Front(worklist)
       IN IF rest = <<>> \/ IsDistinct(Last(rest)[1])
          THEN /\ worklist' = rest \o [n \in DOMAIN delayed |-> <<delayed[n], 0>>]
               /\ delayed' = <<>>
          ELSE worklist' = rest /\ UNCHANGED delayed
    /\ UNCHANGED <<program, valued, functions>>

-----------------------------------------------------------------------------
(* organizeMetadata *)

getMetadataTypeOrder(md) ==
    CASE Kind(md) = "string" -> 0 [] Kind(md) = "distinct" -> 2
      [] Kind(md) = "uniqued" -> 3 [] OTHER -> 1

\* The order of the sort: by function, by kind, by the number so far.
Precedes(x, y) ==
    LET order(md) == getMetadataTypeOrder(md)
    IN \/ index[x].f < index[y].f
       \/ /\ index[x].f = index[y].f
          /\ \/ order(x) < order(y)
             \/ order(x) = order(y) /\ index[x].id < index[y].id

\* Where the sort puts metadata, and what it makes of the list.
Place(md) == 1 + Cardinality({x \in ToSet(mds) : Precedes(x, md)})
Sorted == [n \in DOMAIN mds |-> CHOOSE md \in ToSet(mds) : Place(md) = n]

\* Those of a lower function, and the strings of one function.
Before(f) == Cardinality({md \in ToSet(mds) : index[md].f < f})
Strings(f) ==
    Cardinality({md \in ToSet(mds) : index[md].f = f /\ Kind(md) = "string"})

\* The module's part stays in MDs; FunctionMDs holds one range after the
\* other, and IDs go on from the module's in each of them.
organizeMetadata ==
    /\ phase = "walking" /\ worklist = <<>> /\ done = Len(unit.roots)
    /\ mds' = SubSeq(Sorted, 1, Before(1))
    /\ functionMDs' = SubSeq(Sorted, Before(1) + 1, Len(mds))
    /\ ranges' = [f \in {index[md].f : md \in ToSet(mds)} \ {0} |->
                    [first |-> Before(f) - Before(1),
                     last |-> Before(f + 1) - Before(1), strings |-> Strings(f)]]
    /\ numStrings' = Strings(0)
    /\ index' = [md \in DOMAIN index |->
                   LET f == index[md].f
                   IN [f |-> f, id |-> Place(md) - Before(f)
                                       + (IF f = 0 THEN 0 ELSE Before(1))]]
    /\ phase' = "ready" /\ done' = 0
    /\ UNCHANGED <<unit, walk, valued, numModuleMDs, todo>>

-----------------------------------------------------------------------------
(* incorporateFunction and purgeFunction *)

\* incorporateFunctionMetadata, and the walk over the instructions.
incorporateFunction ==
    /\ phase = "ready" /\ done < Len(unit.locals)
    /\ done' = done + 1
    /\ numModuleMDs' = Len(mds)
    /\ LET r == RangeOf(done + 1)
       IN /\ numStrings' = r.strings
          /\ mds' = mds \o SubSeq(functionMDs, r.first + 1, r.last)
    /\ todo' = LocalsFirst(unit, done + 1)
    /\ phase' = "incorporated"
    /\ UNCHANGED <<unit, walk, index, valued, functionMDs, ranges>>

\* EnumerateFunctionLocalMetadata and EnumerateFunctionLocalListMetadata: a
\* local or a list is numbered the first time it is met.
Local(md) ==
    /\ Kind(md) # "constant"
    /\ IF md \in DOMAIN index
       THEN UNCHANGED <<mds, index, valued>>
       ELSE /\ mds' = Append(mds, md)
            /\ index' = With(md, [f |-> done, id |-> Len(mds) + 1])
            /\ valued' = IF Kind(md) = "local" THEN valued \cup {md} ELSE valued

\* The constants of a list go through EnumerateMetadata once more.
ListConstant(md) ==
    /\ Kind(md) = "constant"
    /\ Meet(done, md) \/ Number(done, md)

EnumerateFunctionLocal ==
    /\ phase = "incorporated" /\ todo # <<>>
    /\ todo' = Tail(todo)
    /\ Local(Head(todo)) \/ ListConstant(Head(todo))
    /\ UNCHANGED <<program, walk, functionMDs, ranges, numModuleMDs, numStrings>>

\* Mutant: local metadata stays in the map.
PurgedRangeOnly ==
    [md \in DOMAIN index \ ToSet(functionMDs) |-> index[md]]

\* The map without the metadata beyond the module's.
Purged ==
    LET gone == {mds[n] : n \in numModuleMDs + 1..Len(mds)}
    IN [md \in DOMAIN index \ gone |-> index[md]]

purgeFunction ==
    /\ phase = "incorporated" /\ todo = <<>>
    /\ index' = Purged
    /\ mds' = SubSeq(mds, 1, numModuleMDs)
    /\ numStrings' = 0
    /\ phase' = "ready"
    /\ UNCHANGED <<unit, done, walk, valued, functionMDs, ranges, numModuleMDs,
                   todo>>

Init ==
    /\ unit \in Units
    /\ phase = "walking" /\ done = 0
    /\ worklist = <<>> /\ delayed = <<>>
    /\ mds = <<>> /\ index = <<>> /\ valued = {}
    /\ functionMDs = <<>> /\ ranges = <<>>
    /\ numModuleMDs = 0 /\ numStrings = 0 /\ todo = <<>>

Next ==
    \/ EnumerateMetadata \/ Skip \/ Descend \/ Leave \/ organizeMetadata
    \/ incorporateFunction \/ EnumerateFunctionLocal \/ purgeFunction

Spec == Init /\ [][Next]_vars

-----------------------------------------------------------------------------
\* MDs and MetadataMap are inverse to each other, through the sort and every
\* function that comes and goes: an entry without a number is a node the walk
\* has yet to leave, and nothing is left of a function that has been purged.
Current == IF phase = "incorporated" THEN {0, done} ELSE {0}
MetadataNumbering ==
    /\ \A n \in DOMAIN mds : mds[n] \in DOMAIN index /\ index[mds[n]].id = n
    /\ phase = "walking" =>
         \A md \in DOMAIN index :
            IF index[md].id = 0
            THEN md \in {worklist[n][1] : n \in DOMAIN worklist} \cup ToSet(delayed)
            ELSE mds[index[md].id] = md
    /\ phase # "walking" =>
         \A md \in DOMAIN index :
            /\ index[md].f \in Current => mds[index[md].id] = md
            /\ index[md].f \in Current \/ index[md].f > done

\* What the roots of some functions reach.
Reached(fs) ==
    Closure({unit.roots[n].md : n \in {m \in DOMAIN unit.roots : unit.roots[m].f \in fs}},
            [x \in Metadata |-> Ops(x)])
AllFunctions == 0..Len(unit.locals)

\* A function keeps to itself exactly what nothing else reaches, however the
\* walks of several functions met each other.
TagsExact ==
    phase = "ready" /\ done = 0 =>
        \A md \in DOMAIN index, f \in AllFunctions \ {0} :
            index[md].f = f <=>
                md \in Reached({f}) /\ md \notin Reached(AllFunctions \ {f})

\* The reader resolves an operand among the module's metadata and those of
\* the function it is in: nothing written refers to another function's, the
\* module's own refers to the module's only, and a list, which cannot be
\* patched, to what stands before it.
Resolvable ==
    phase # "walking" =>
        /\ \A n \in DOMAIN mds : \A x \in Ops(mds[n]) :
             /\ x \in DOMAIN index /\ index[x].f \in Current
             /\ index[mds[n]].f = 0 => index[x].f = 0
             /\ Kind(mds[n]) = "list" => index[x].id < n
        /\ phase = "incorporated" /\ todo = <<>> =>
             \A x \in {unit.roots[n].md : n \in {m \in DOMAIN unit.roots :
                                                   unit.roots[m].f = done}}
                      \cup ToSet(unit.locals[done]) :
                x \in DOMAIN index /\ index[x].f \in Current

Visible == TagsExact /\ Resolvable

\* getMDStrings and getNonMDStrings cut a block's metadata at numStrings.
StringsFirst ==
    LET cut(from) == \A n \in from + 1..Len(mds) :
                        Kind(mds[n]) = "string" <=> n <= from + numStrings
    IN /\ phase = "ready" /\ done = 0 => cut(0)
       /\ phase = "incorporated" => cut(numModuleMDs)

\* "It's vital for reader efficiency that uniqued subgraphs are done in
\* post-order": a uniqued operand of a uniqued node stands before it, unless
\* they are on a cycle of uniqued nodes.
Uniqued(S) == {x \in S : Kind(x) = "uniqued"}
OnCycle(x, y) == y \in Closure({x}, [z \in Metadata |-> Uniqued(Ops(z))])
PostOrder ==
    \A n \in DOMAIN mds : Kind(mds[n]) = "uniqued" =>
        \A x \in Uniqued(Ops(mds[n])) :
            \/ x \in DOMAIN index /\ index[x].id \in 1..n - 1
            \/ OnCycle(x, mds[n])

ReaderOrder == StringsFirst /\ PostOrder
=============================================================================
