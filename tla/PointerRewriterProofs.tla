----------------------- MODULE PointerRewriterProofs -----------------------
(***************************************************************************)
(* The theorems about the pointer rewriter, for every module that LLVM's   *)
(* own verifier accepts (ModulesAssumption, PlacementAssumption,           *)
(* TypesAssumption): whatever its passes have rewritten so far has all the *)
(* bridges that the next pass and the map rely on (RewriterInv),           *)
(* buildPointerMap gives no value two types (MapSound), no pass puts       *)
(* anything where the verifier would not let it stand (Placement), a       *)
(* legacy verifier accepts the types of the result (WellTyped), a reader   *)
(* meets no typed pointer ahead of its definition (ForwardRefsOpaque), and *)
(* what the module computes is left as it was (MeaningKept).               *)
(*                                                                         *)
(* The argument has six parts.  What an insertion does to a body is        *)
(* settled once for the builder (Rewritten and the lemmas up to            *)
(* CastPassShapes): old instructions keep their operands but for the ones  *)
(* moved to a new one, and new ones have names of their own.  One lemma    *)
(* per pass shows what it establishes and that it spoils nothing a pass    *)
(* before it established.  Of the map it is then enough that two facts     *)
(* about one value come from the same source, or from two that agree.      *)
(* For the placement the order of the instructions matters: a rewritten    *)
(* block is laid out piece by piece (Layout), and what reached a use       *)
(* before it still reaches it there.  Then the types: no pass changes      *)
(* the type a value had while pointers were opaque (TypedInv), and the map *)
(* retypes exactly the operands of which a legacy verifier wants more.     *)
(* The meaning comes last: a table of what each defined value stands for   *)
(* is extended by every pass, and is the one that Meaning computes because *)
(* a cast ranks behind what it casts (MeansInv).                           *)
(***************************************************************************)
EXTENDS TypedModule, SequenceLemmas, FiniteSetTheorems

-----------------------------------------------------------------------------
(* What a pass makes of the body *)

Instruction(i) ==
    /\ DOMAIN i = {"id", "op", "ops", "ty", "inc"}
    /\ i.ops \in Seq(Range(i.ops)) /\ i.inc \in Seq(Range(i.inc))

\* The body as a pass finds it.
BodyInv ==
    /\ unit \in Modules /\ DOMAIN body = DOMAIN unit.body
    /\ \A b \in DOMAIN body : body[b] \in Seq(Range(body[b]))
    /\ \A i \in Instrs : Instruction(i)

\* An inserted instruction after the uses have been replaced.
MovedInstr(after, e) ==
    [e EXCEPT !.ops = [k \in DOMAIN @ |-> Replaced(after, @[k])]]

LEMMA CodeAtSequence ==
    ASSUME NEW C, NEW code, \A s \in DOMAIN code : code[s] \in Seq(C), NEW i, NEW k
    PROVE  /\ CodeAt(code, i, k) \in Seq(C)
           /\ \A e : e \in Range(CodeAt(code, i, k)) <=>
                     <<i, k>> \in DOMAIN code /\ e \in Range(code[<<i, k>>])
<1>1. <<>> \in Seq(C) /\ Range(<<>>) = {}
  BY EmptySeq DEF Range
<1> QED BY <1>1 DEF CodeAt

LEMMA BeforeElements ==
    ASSUME NEW C, NEW code, \A s \in DOMAIN code : code[s] \in Seq(C),
           NEW i, Instruction(i)
    PROVE  /\ Before(code, i) \in Seq(C)
           /\ \A e : e \in Range(Before(code, i)) <=>
                /\ i.op # "phi"
                /\ \E k \in DOMAIN i.ops : /\ <<i, k>> \in DOMAIN code
                                           /\ e \in Range(code[<<i, k>>])
<1>1. CASE i.op = "phi"
  <2>1. <<>> \in Seq(C) /\ Range(<<>>) = {}
    BY EmptySeq DEF Range
  <2> QED BY <1>1, <2>1 DEF Before
<1>2. CASE i.op # "phi"
  <2> DEFINE ss == [k \in DOMAIN i.ops |-> CodeAt(code, i, k)]
  <2>1. Len(i.ops) \in Nat /\ DOMAIN i.ops = 1 .. Len(i.ops)
    BY LenProperties DEF Instruction
  <2>2. \A k : CodeAt(code, i, k) \in Seq(C)
    BY CodeAtSequence
  <2>3. ss \in Seq(Seq(C)) /\ DOMAIN ss = DOMAIN i.ops
    <3> DEFINE n == Len(i.ops)
    <3>1. DOMAIN ss = 1 .. n /\ ss = [k \in 1 .. n |-> ss[k]]
          /\ \A k \in 1 .. n : ss[k] \in Seq(C)
      BY <2>1, <2>2
    <3>2. n \in Nat
      BY <2>1
    <3> HIDE DEF ss, n
    <3> QED BY <2>1, <3>1, <3>2, IsSequence DEF n
  <2>4. Before(code, i) = FlattenSeq(ss)
    BY <1>2 DEF Before
  <2>5. \A k \in DOMAIN i.ops : ss[k] = CodeAt(code, i, k)
    OBVIOUS
  <2> HIDE DEF ss
  <2>6. /\ FlattenSeq(ss) \in Seq(C)
        /\ \A e : e \in Range(FlattenSeq(ss)) <=>
                   \E k \in DOMAIN ss : e \in Range(ss[k])
    BY <2>3, RangeFlatten
  <2>7. \A k, e : e \in Range(CodeAt(code, i, k)) <=>
                   <<i, k>> \in DOMAIN code /\ e \in Range(code[<<i, k>>])
    BY CodeAtSequence
  <2> QED BY <1>2, <2>3, <2>4, <2>5, <2>6, <2>7
<1> QED BY <1>1, <1>2

LEMMA AtEndElements ==
    ASSUME NEW C, NEW code, \A s \in DOMAIN code : code[s] \in Seq(C),
           BodyInv, ModulesAssumption, NEW b
    PROVE  /\ AtEnd(code, b) \in Seq(C)
           /\ \A e \in Range(AtEnd(code, b)) :
                \E s \in DOMAIN code : e \in Range(code[s])
<1> DEFINE For(i, k) == IF i.inc[k] = b THEN CodeAt(code, i, k) ELSE <<>>
           Phi(i) == FlattenSeq([k \in DOMAIN i.inc |-> For(i, k)])
           Block(d) == FlattenSeq([j \in DOMAIN body[d] |-> Phi(body[d][j])])
           Coded(e) == \E s \in DOMAIN code : e \in Range(code[s])
<1>1. AtEnd(code, b) = FlattenSeq([n \in DOMAIN unit.layout |-> Block(unit.layout[n])])
  BY DEF AtEnd
<1>2. unit.layout \in Seq(DOMAIN body)
  BY DEF BodyInv, ModulesAssumption, WellFormed, WellFormedBody
<1>3. \A i, k : For(i, k) \in Seq(C) /\ \A e \in Range(For(i, k)) : Coded(e)
  <2>1. <<>> \in Seq(C) /\ Range(<<>>) = {}
    BY EmptySeq DEF Range
  <2>2. \A i, k : CodeAt(code, i, k) \in Seq(C)
                  /\ \A e \in Range(CodeAt(code, i, k)) : Coded(e)
    BY CodeAtSequence
  <2> QED BY <2>1, <2>2
<1> HIDE DEF For, Coded
<1>4. ASSUME NEW i, Instruction(i)
      PROVE  Phi(i) \in Seq(C) /\ \A e \in Range(Phi(i)) : Coded(e)
  <2> DEFINE ss == [k \in DOMAIN i.inc |-> For(i, k)]
             n == Len(i.inc)
  <2>1. n \in Nat /\ DOMAIN i.inc = 1 .. n
    BY <1>4, LenProperties DEF Instruction
  <2>2. DOMAIN ss = 1 .. n /\ ss = [k \in 1 .. n |-> ss[k]]
        /\ \A k \in 1 .. n : ss[k] \in Seq(C) /\ \A e \in Range(ss[k]) : Coded(e)
    BY <1>3, <2>1
  <2> HIDE DEF ss, n
  <2>3. ss \in Seq(Seq(C))
    BY <2>1, <2>2, IsSequence
  <2>4. /\ FlattenSeq(ss) \in Seq(C)
        /\ \A e : e \in Range(FlattenSeq(ss)) <=>
                   \E k \in DOMAIN ss : e \in Range(ss[k])
    BY <2>3, RangeFlatten
  <2> QED BY <2>2, <2>4 DEF ss
<1> HIDE DEF Phi
<1>5. ASSUME NEW d \in DOMAIN body
      PROVE  Block(d) \in Seq(C) /\ \A e \in Range(Block(d)) : Coded(e)
  <2> DEFINE ss == [j \in DOMAIN body[d] |-> Phi(body[d][j])]
             n == Len(body[d])
  <2>1. n \in Nat /\ DOMAIN body[d] = 1 .. n
    BY LenProperties DEF BodyInv
  <2>2. \A j \in 1 .. n : Instruction(body[d][j])
    BY <2>1 DEF BodyInv, Instrs, Range
  <2>3. DOMAIN ss = 1 .. n /\ ss = [k \in 1 .. n |-> ss[k]]
        /\ \A k \in 1 .. n : ss[k] \in Seq(C) /\ \A e \in Range(ss[k]) : Coded(e)
    BY <1>4, <2>1, <2>2
  <2> HIDE DEF ss, n
  <2>4. ss \in Seq(Seq(C))
    BY <2>1, <2>3, IsSequence
  <2>5. /\ FlattenSeq(ss) \in Seq(C)
        /\ \A e : e \in Range(FlattenSeq(ss)) <=>
                   \E k \in DOMAIN ss : e \in Range(ss[k])
    BY <2>4, RangeFlatten
  <2> QED BY <2>3, <2>5 DEF ss
<1> HIDE DEF Block
<1> DEFINE ss == [m \in DOMAIN unit.layout |-> Block(unit.layout[m])]
           n == Len(unit.layout)
<1>6. n \in Nat /\ DOMAIN unit.layout = 1 .. n
      /\ \A m \in 1 .. n : unit.layout[m] \in DOMAIN body
  BY <1>2, LenProperties, ElementOfSeq
<1>7. DOMAIN ss = 1 .. n /\ ss = [k \in 1 .. n |-> ss[k]]
      /\ \A k \in 1 .. n : ss[k] \in Seq(C) /\ \A e \in Range(ss[k]) : Coded(e)
  BY <1>5, <1>6
<1> HIDE DEF ss, n
<1>8. ss \in Seq(Seq(C))
  BY <1>6, <1>7, IsSequence
<1>9. /\ FlattenSeq(ss) \in Seq(C)
      /\ \A e : e \in Range(FlattenSeq(ss)) <=>
                 \E k \in DOMAIN ss : e \in Range(ss[k])
  BY <1>8, RangeFlatten
<1> QED BY <1>1, <1>7, <1>9 DEF ss, Coded

LEMMA MovedElements ==
    ASSUME NEW C, NEW s \in Seq(C), NEW after
    PROVE  /\ DOMAIN Moved(after, s) = DOMAIN s
           /\ Moved(after, s) \in Seq({MovedInstr(after, e) : e \in C})
           /\ \A j : j \in Range(Moved(after, s)) <=>
                     \E e \in Range(s) : j = MovedInstr(after, e)
<1> DEFINE T == {MovedInstr(after, e) : e \in C}
           m == Moved(after, s)
           n == Len(s)
<1>1. m = [k \in DOMAIN s |-> MovedInstr(after, s[k])]
  BY DEF Moved, MovedInstr
<1>2. n \in Nat /\ DOMAIN s = 1 .. n /\ \A k \in 1 .. n : s[k] \in C
  BY LenProperties, ElementOfSeq
<1> HIDE DEF m, n
<1>3. DOMAIN m = 1 .. n /\ m = [k \in 1 .. n |-> m[k]] /\ \A k \in 1 .. n : m[k] \in T
  BY <1>1, <1>2
<1>4. m \in Seq(T)
  <2> HIDE DEF T
  <2> QED BY <1>2, <1>3, IsSequence
<1>5. \A j : j \in Range(m) <=> \E e \in Range(s) : j = MovedInstr(after, e)
  BY <1>1 DEF Range
<1> QED BY <1>2, <1>3, <1>4, <1>5 DEF m

\* Where an instruction of the rewritten body comes from: it is one of before,
\* with its operands replaced, an inserted one, or a cast of a definition.
Comes(code, after, j) ==
    \/ \E i \in Instrs : j = New(code, after, i)
    \/ \E s \in DOMAIN code : \E e \in Range(code[s]) : j = MovedInstr(after, e)
    \/ \E i \in Instrs : i.id \in after /\ j = Cast(<<"post", i.id>>, i.id)

\* What becomes of an instruction.
Goes(code, after, i, R) ==
    /\ New(code, after, i) \in R
    /\ i.id \in after => Cast(<<"post", i.id>>, i.id) \in R
    /\ \A k \in DOMAIN i.ops : i.op # "phi" /\ <<i, k>> \in DOMAIN code =>
         \A e \in Range(code[<<i, k>>]) : MovedInstr(after, e) \in R

LEMMA PieceElements ==
    ASSUME NEW C, NEW code, \A s \in DOMAIN code : code[s] \in Seq(C), NEW after,
           BodyInv, ModulesAssumption,
           NEW b \in DOMAIN body, NEW n \in DOMAIN body[b]
    PROVE  /\ \E S : Piece(code, after, b, n) \in Seq(S)
           /\ \A j \in Range(Piece(code, after, b, n)) : Comes(code, after, j)
           /\ Goes(code, after, body[b][n], Range(Piece(code, after, b, n)))
<1> DEFINE i == body[b][n]
           M == {MovedInstr(after, e) : e \in C}
           p1 == IF n = Len(body[b]) THEN Moved(after, AtEnd(code, b)) ELSE <<>>
           p2 == Moved(after, Before(code, i))
           p3 == <<New(code, after, i)>>
           p4 == Appended(after, i)
           c == Cast(<<"post", i.id>>, i.id)
           S == M \cup {New(code, after, i), c}
<1>1. i \in Instrs /\ Instruction(i)
  BY DEF BodyInv, Instrs, Range
<1>2. Piece(code, after, b, n) = ((p1 \o p2) \o p3) \o p4
  BY DEF Piece
<1>3. /\ p1 \in Seq(M)
      /\ \A j \in Range(p1) : \E s \in DOMAIN code : \E e \in Range(code[s]) :
                                j = MovedInstr(after, e)
  <2>1. CASE n = Len(body[b])
    <3>1. /\ AtEnd(code, b) \in Seq(C)
          /\ \A e \in Range(AtEnd(code, b)) : \E s \in DOMAIN code : e \in Range(code[s])
      BY AtEndElements
    <3>2. /\ Moved(after, AtEnd(code, b)) \in Seq(M)
          /\ \A j : j \in Range(Moved(after, AtEnd(code, b))) <=>
                     \E e \in Range(AtEnd(code, b)) : j = MovedInstr(after, e)
      <4> DEFINE a == AtEnd(code, b)
      <4> HIDE DEF a
      <4>1. a \in Seq(C)
        BY <3>1 DEF a
      <4>2. /\ Moved(after, a) \in Seq(M)
            /\ \A j : j \in Range(Moved(after, a)) <=>
                       \E e \in Range(a) : j = MovedInstr(after, e)
        BY <4>1, MovedElements
      <4> QED BY <4>2 DEF a
    <3> QED BY <2>1, <3>1, <3>2
  <2>2. CASE n # Len(body[b])
    <3>1. <<>> \in Seq(M) /\ Range(<<>>) = {}
      BY EmptySeq DEF Range
    <3> QED BY <2>2, <3>1
  <2> QED BY <2>1, <2>2
<1>4. /\ p2 \in Seq(M)
      /\ \A j : j \in Range(p2) <=>
           /\ i.op # "phi"
           /\ \E k \in DOMAIN i.ops : /\ <<i, k>> \in DOMAIN code
                /\ \E e \in Range(code[<<i, k>>]) : j = MovedInstr(after, e)
  <2> HIDE DEF i
  <2>1. /\ Before(code, i) \in Seq(C)
        /\ \A e : e \in Range(Before(code, i)) <=>
             /\ i.op # "phi"
             /\ \E k \in DOMAIN i.ops : /\ <<i, k>> \in DOMAIN code
                                        /\ e \in Range(code[<<i, k>>])
    BY <1>1, BeforeElements
  <2>2. /\ Moved(after, Before(code, i)) \in Seq(M)
        /\ \A j : j \in Range(Moved(after, Before(code, i))) <=>
                   \E e \in Range(Before(code, i)) : j = MovedInstr(after, e)
    BY <2>1, MovedElements
  <2> QED BY <2>1, <2>2
<1>5. p3 \in Seq({New(code, after, i)}) /\ Range(p3) = {New(code, after, i)}
  BY DEF Range
<1>6. /\ p4 \in Seq({c})
      /\ \A j : j \in Range(p4) <=> i.id \in after /\ j = c
  <2>1. <<>> \in Seq({c}) /\ Range(<<>>) = {}
    BY EmptySeq DEF Range
  <2>2. <<c>> \in Seq({c}) /\ Range(<<c>>) = {c}
    <3> HIDE DEF c
    <3> QED BY DEF Range
  <2> HIDE DEF i
  <2>3. p4 = IF i.id \in after THEN <<c>> ELSE <<>>
    BY DEF Appended
  <2> HIDE DEF c, p4
  <2> QED BY <2>1, <2>2, <2>3
<1> HIDE DEF i, p1, p2, p3, p4, c, M
<1>7. p1 \in Seq(S) /\ p2 \in Seq(S) /\ p3 \in Seq(S) /\ p4 \in Seq(S)
  <2>1. M \subseteq S /\ {New(code, after, i)} \subseteq S /\ {c} \subseteq S
    OBVIOUS
  <2> HIDE DEF S
  <2> QED BY <1>3, <1>4, <1>5, <1>6, <2>1, SeqMonotonic
<1> HIDE DEF S
<1>8. p1 \o p2 \in Seq(S) /\ Range(p1 \o p2) = Range(p1) \cup Range(p2)
  BY <1>7, ConcatProperties, RangeConcatenation
<1>9. /\ (p1 \o p2) \o p3 \in Seq(S)
      /\ Range((p1 \o p2) \o p3) = Range(p1 \o p2) \cup Range(p3)
  <2> DEFINE q == p1 \o p2
  <2> HIDE DEF q
  <2>1. q \in Seq(S)
    BY <1>8 DEF q
  <2>2. q \o p3 \in Seq(S) /\ Range(q \o p3) = Range(q) \cup Range(p3)
    BY <1>7, <2>1, ConcatProperties, RangeConcatenation
  <2> QED BY <2>2 DEF q
<1>10. /\ ((p1 \o p2) \o p3) \o p4 \in Seq(S)
       /\ Range(((p1 \o p2) \o p3) \o p4) = Range((p1 \o p2) \o p3) \cup Range(p4)
  <2> DEFINE q == (p1 \o p2) \o p3
  <2> HIDE DEF q
  <2>1. q \in Seq(S)
    BY <1>9 DEF q
  <2>2. q \o p4 \in Seq(S) /\ Range(q \o p4) = Range(q) \cup Range(p4)
    BY <1>7, <2>1, ConcatProperties, RangeConcatenation
  <2> QED BY <2>2 DEF q
<1>11. Range(Piece(code, after, b, n)) =
          Range(p1) \cup Range(p2) \cup Range(p3) \cup Range(p4)
  BY <1>2, <1>8, <1>9, <1>10
<1>12. \E T : Piece(code, after, b, n) \in Seq(T)
  BY <1>2, <1>10
<1>13. ASSUME NEW j \in Range(Piece(code, after, b, n)) PROVE Comes(code, after, j)
  <2>1. CASE j \in Range(p1)
    BY <1>3, <2>1 DEF Comes
  <2>2. CASE j \in Range(p2)
    BY <1>4, <2>2 DEF Comes
  <2>3. CASE j \in Range(p3)
    BY <1>1, <1>5, <2>3 DEF Comes
  <2>4. CASE j \in Range(p4)
    BY <1>1, <1>6, <2>4 DEF Comes, c
  <2> QED BY <1>11, <2>1, <2>2, <2>3, <2>4
<1>14. Goes(code, after, i, Range(Piece(code, after, b, n)))
  <2>1. New(code, after, i) \in Range(Piece(code, after, b, n))
    BY <1>5, <1>11
  <2>2. i.id \in after => Cast(<<"post", i.id>>, i.id) \in Range(Piece(code, after, b, n))
    BY <1>6, <1>11 DEF c
  <2>3. ASSUME NEW k \in DOMAIN i.ops, i.op # "phi", <<i, k>> \in DOMAIN code,
               NEW e \in Range(code[<<i, k>>])
        PROVE  MovedInstr(after, e) \in Range(Piece(code, after, b, n))
    BY <1>4, <1>11, <2>3
  <2> QED BY <2>1, <2>2, <2>3 DEF Goes
<1> QED BY <1>12, <1>13, <1>14 DEF i

\* The instructions of a rewritten body.
InstrsIn(W) == UNION {Range(W[b]) : b \in DOMAIN W}
LEMMA RewrittenInstrs ==
    ASSUME NEW C, NEW code, \A s \in DOMAIN code : code[s] \in Seq(C), NEW after,
           BodyInv, ModulesAssumption, NEW W, W = Rewritten(code, after),
           NEW R, R = InstrsIn(W)
    PROVE  /\ DOMAIN W = DOMAIN body
           /\ \A b \in DOMAIN body : W[b] \in Seq(Range(W[b]))
           /\ \A j \in R : Comes(code, after, j)
           /\ \A i \in Instrs : Goes(code, after, i, R)
<1> DEFINE ss(b) == [n \in DOMAIN body[b] |-> Piece(code, after, b, n)]
<1>1. DOMAIN W = DOMAIN body /\ \A b \in DOMAIN body : W[b] = FlattenSeq(ss(b))
  BY DEF Rewritten
<1>2. ASSUME NEW b \in DOMAIN body
      PROVE  /\ W[b] \in Seq(Range(W[b]))
             /\ \A j \in Range(W[b]) : Comes(code, after, j)
             /\ \A n \in DOMAIN body[b] : Goes(code, after, body[b][n], Range(W[b]))
  <2> DEFINE S == UNION {Range(Piece(code, after, b, n)) : n \in DOMAIN body[b]}
             N == Len(body[b])
  <2>1. N \in Nat /\ DOMAIN body[b] = 1 .. N
    BY LenProperties DEF BodyInv
  <2>2. ASSUME NEW n \in DOMAIN body[b]
        PROVE  /\ Piece(code, after, b, n) \in Seq(S)
               /\ \A j \in Range(Piece(code, after, b, n)) : Comes(code, after, j)
               /\ Goes(code, after, body[b][n], Range(Piece(code, after, b, n)))
    <3>1. /\ \E T : Piece(code, after, b, n) \in Seq(T)
          /\ \A j \in Range(Piece(code, after, b, n)) : Comes(code, after, j)
          /\ Goes(code, after, body[b][n], Range(Piece(code, after, b, n)))
      BY PieceElements
    <3> DEFINE q == Piece(code, after, b, n)
    <3>2. PICK T : q \in Seq(T)
      BY <3>1
    <3>3. Range(q) \subseteq S
      OBVIOUS
    <3> HIDE DEF q, S
    <3>4. q \in Seq(Range(q))
      BY <3>2, SeqOfRange
    <3>5. q \in Seq(S)
      BY <3>3, <3>4, SeqMonotonic
    <3> QED BY <3>1, <3>5 DEF q
  <2> HIDE DEF S
  <2> DEFINE q == ss(b)
  <2>3. DOMAIN q = 1 .. N /\ q = [n \in 1 .. N |-> q[n]]
        /\ \A n \in 1 .. N : q[n] = Piece(code, after, b, n) /\ q[n] \in Seq(S)
    BY <2>1, <2>2
  <2> HIDE DEF q, N
  <2>4. q \in Seq(Seq(S))
    BY <2>1, <2>3, IsSequence
  <2>5. /\ FlattenSeq(q) \in Seq(S)
        /\ \A j : j \in Range(FlattenSeq(q)) <=> \E n \in DOMAIN q : j \in Range(q[n])
    BY <2>4, RangeFlatten
  <2>6. W[b] = FlattenSeq(q)
    BY <1>1 DEF q
  <2>7. W[b] \in Seq(Range(W[b]))
    BY <2>5, <2>6, SeqOfRange
  <2>8. ASSUME NEW j \in Range(W[b]) PROVE Comes(code, after, j)
    <3>1. PICK n \in 1 .. N : j \in Range(q[n])
      BY <2>3, <2>5, <2>6
    <3> QED BY <2>1, <2>2, <2>3, <3>1
  <2>9. ASSUME NEW n \in DOMAIN body[b]
        PROVE  Goes(code, after, body[b][n], Range(W[b]))
    <3>1. Range(Piece(code, after, b, n)) \subseteq Range(W[b])
      BY <2>1, <2>3, <2>5, <2>6
    <3>2. Goes(code, after, body[b][n], Range(Piece(code, after, b, n)))
      BY <2>2
    <3> QED BY <3>1, <3>2 DEF Goes
  <2> QED BY <2>7, <2>8, <2>9
<1>3. \A j \in R : Comes(code, after, j)
  BY <1>1, <1>2 DEF InstrsIn
<1>4. ASSUME NEW i \in Instrs PROVE Goes(code, after, i, R)
  <2>1. PICK b \in DOMAIN body : i \in Range(body[b])
    BY DEF Instrs
  <2>2. PICK n \in DOMAIN body[b] : i = body[b][n]
    BY <2>1 DEF Range
  <2>3. Goes(code, after, i, Range(W[b]))
    BY <1>2, <2>2
  <2>4. Range(W[b]) \subseteq R
    BY <1>1 DEF InstrsIn
  <2> QED BY <2>3, <2>4 DEF Goes
<1> QED BY <1>1, <1>2, <1>3, <1>4

-----------------------------------------------------------------------------
(* The constants that become instructions *)

\* What the expansion of an operand is made of.
Expanded(i, k, f, c) ==
    FlattenSeq([n \in DOMAIN unit.consts[c].ops |->
                  IF Demotable(unit.consts[c].ops[n])
                  THEN f[unit.consts[c].ops[n][2]] ELSE <<>>])
    \o <<Materialized(i, k, c)>>
Materials(i, k) == {Materialized(i, k, c) : c \in DOMAIN unit.consts}

\* Constants are ranked: what a demoted one is made of comes before it.
Ranked(rank, N) ==
    /\ N \in Nat /\ rank \in [DOMAIN unit.consts -> 0 .. N]
    /\ \A c \in DOMAIN unit.consts :
         /\ unit.consts[c].ops \in Seq(Range(unit.consts[c].ops))
         /\ \A n \in DOMAIN unit.consts[c].ops : Demotable(unit.consts[c].ops[n]) =>
              /\ unit.consts[c].ops[n][2] \in DOMAIN unit.consts
              /\ rank[unit.consts[c].ops[n][2]] < rank[c]

LEMMA ConstantsRanked ==
    ASSUME unit \in Modules, ModulesAssumption
    PROVE  \E rank, N : Ranked(rank, N)
<1> DEFINE D == DOMAIN unit.consts
           N == Cardinality(D)
<1>1. PICK rank \in [D -> 0 .. N] :
          \A c \in D :
            /\ unit.consts[c].op \in ConstantOps
            /\ unit.consts[c].ops \in Seq(Range(unit.consts[c].ops))
            /\ 1 .. Arity(unit.consts[c].op) \subseteq DOMAIN unit.consts[c].ops
            /\ \A v \in Range(unit.consts[c].ops) :
                 /\ v \in Values(unit) /\ v[1] # "arg"
                 /\ v[1] = "const" => rank[v[2]] < rank[c]
  BY DEF ModulesAssumption, WellFormed, WellFormedConstants
<1>2. \A v \in Values(unit) : v[1] = "const" => v[2] \in D
  BY DEF Values
<1>3. N \in Nat
  BY FS_CardinalityType DEF ModulesAssumption, WellFormed, WellFormedConstants
<1> HIDE DEF N
<1>4. ASSUME NEW c \in D, NEW n \in DOMAIN unit.consts[c].ops,
             Demotable(unit.consts[c].ops[n])
      PROVE  /\ unit.consts[c].ops[n][2] \in D
             /\ rank[unit.consts[c].ops[n][2]] < rank[c]
  <2> DEFINE v == unit.consts[c].ops[n]
  <2>1. v \in Range(unit.consts[c].ops)
    BY DEF Range
  <2>2. v[1] = "const"
    BY <1>4 DEF Demotable
  <2> HIDE DEF v
  <2>3. v \in Values(unit) /\ rank[v[2]] < rank[c]
    BY <1>1, <2>1, <2>2
  <2> QED BY <1>2, <2>2, <2>3 DEF v
<1> QED BY <1>1, <1>3, <1>4 DEF Ranked

LEMMA PartsSequence ==
    ASSUME NEW M, NEW f \in [DOMAIN unit.consts -> Seq(M)], NEW c \in DOMAIN unit.consts,
           unit.consts[c].ops \in Seq(Range(unit.consts[c].ops)),
           \A n \in DOMAIN unit.consts[c].ops : Demotable(unit.consts[c].ops[n]) =>
              unit.consts[c].ops[n][2] \in DOMAIN unit.consts
    PROVE  FlattenSeq([n \in DOMAIN unit.consts[c].ops |->
                         IF Demotable(unit.consts[c].ops[n])
                         THEN f[unit.consts[c].ops[n][2]] ELSE <<>>]) \in Seq(M)
<1> DEFINE ops == unit.consts[c].ops
           N == Len(ops)
           ss == [n \in DOMAIN ops |->
                    IF Demotable(ops[n]) THEN f[ops[n][2]] ELSE <<>>]
<1>1. N \in Nat /\ DOMAIN ops = 1 .. N
  BY LenProperties
<1>2. \A n \in DOMAIN ops : Demotable(ops[n]) => f[ops[n][2]] \in Seq(M)
  OBVIOUS
<1>3. <<>> \in Seq(M)
  BY EmptySeq
<1> HIDE DEF ops, N
<1>4. DOMAIN ss = 1 .. N /\ ss = [n \in 1 .. N |-> ss[n]]
      /\ \A n \in 1 .. N : ss[n] \in Seq(M)
  BY <1>1, <1>2, <1>3
<1> HIDE DEF ss
<1>5. ss \in Seq(Seq(M))
  BY <1>1, <1>4, IsSequence
<1>6. FlattenSeq(ss) \in Seq(M)
  BY <1>5, RangeFlatten
<1> QED BY <1>6 DEF ss, ops

LEMMA ExpandedSequence ==
    ASSUME NEW i, NEW k, NEW f \in [DOMAIN unit.consts -> Seq(Materials(i, k))],
           NEW c \in DOMAIN unit.consts,
           unit.consts[c].ops \in Seq(Range(unit.consts[c].ops)),
           \A n \in DOMAIN unit.consts[c].ops : Demotable(unit.consts[c].ops[n]) =>
              unit.consts[c].ops[n][2] \in DOMAIN unit.consts
    PROVE  Expanded(i, k, f, c) \in Seq(Materials(i, k))
<1> DEFINE M == Materials(i, k)
           m == Materialized(i, k, c)
           q == FlattenSeq([n \in DOMAIN unit.consts[c].ops |->
                              IF Demotable(unit.consts[c].ops[n])
                              THEN f[unit.consts[c].ops[n][2]] ELSE <<>>])
<1>1. m \in M
  BY DEF Materials
<1> HIDE DEF M, m
<1>2. q \in Seq(M)
  BY PartsSequence DEF M
<1>3. <<m>> \in Seq(M)
  BY <1>1
<1>4. Expanded(i, k, f, c) = q \o <<m>>
  BY DEF Expanded, m
<1> HIDE DEF q
<1>5. q \o <<m>> \in Seq(M)
  BY <1>2, <1>3, ConcatProperties
<1> QED BY <1>4, <1>5 DEF M

\* Such an expansion exists ...
LEMMA ExpandedExists ==
    ASSUME NEW i, NEW k, NEW rank, NEW N, Ranked(rank, N)
    PROVE  \E f \in [DOMAIN unit.consts -> Seq(Materials(i, k))] :
             \A c \in DOMAIN unit.consts : f[c] = Expanded(i, k, f, c)
<1> DEFINE D == DOMAIN unit.consts
           M == Materials(i, k)
           E(f, c) == Expanded(i, k, f, c)
           Good == {n \in 0 .. N + 1 : \E f \in [D -> Seq(M)] :
                      \A c \in D : rank[c] < n => f[c] = E(f, c)}
<1>1. N \in Nat /\ \A c \in D : rank[c] \in 0 .. N
  BY DEF Ranked
<1>2. 0 \in Good
  <2> DEFINE f == [c \in D |-> <<>>]
  <2>1. f \in [D -> Seq(M)]
    BY EmptySeq
  <2>2. \A c \in D : ~(rank[c] < 0)
    BY <1>1
  <2> HIDE DEF f, E, M
  <2> QED BY <1>1, <2>1, <2>2
<1>3. ASSUME NEW f \in [D -> Seq(M)], NEW c \in D PROVE E(f, c) \in Seq(M)
  BY ExpandedSequence DEF Ranked
<1>4. ASSUME NEW n \in 1 .. N + 1, n - 1 \in Good PROVE n \in Good
  <2>1. PICK f \in [D -> Seq(M)] : \A c \in D : rank[c] < n - 1 => f[c] = E(f, c)
    BY <1>4
  <2> DEFINE g == [c \in D |-> IF rank[c] = n - 1 THEN E(f, c) ELSE f[c]]
  <2>2. g \in [D -> Seq(M)]
    <3> HIDE DEF E, M
    <3> QED BY <1>3
  <2>3. ASSUME NEW c \in D, rank[c] < n PROVE g[c] = E(g, c)
    <3>1. rank[c] \in Nat /\ n \in Nat /\ (rank[c] = n - 1 \/ rank[c] < n - 1)
      <4>1. rank[c] \in Nat /\ n \in Nat
        BY <1>1
      <4> HIDE DEF E, M, g
      <4> QED BY <2>3, <4>1
    <3>2. ASSUME NEW d \in D, rank[d] < rank[c] PROVE g[d] = f[d]
      <4>1. rank[d] \in Nat /\ rank[d] # n - 1
        BY <1>1, <2>3, <3>2
      <4> HIDE DEF E
      <4> QED BY <4>1
    <3>3. E(g, c) = E(f, c)
      <4> HIDE DEF g
      <4>1. \A m \in DOMAIN unit.consts[c].ops : Demotable(unit.consts[c].ops[m]) =>
               g[unit.consts[c].ops[m][2]] = f[unit.consts[c].ops[m][2]]
        BY <3>2 DEF Ranked
      <4>2. [m \in DOMAIN unit.consts[c].ops |->
               IF Demotable(unit.consts[c].ops[m])
               THEN g[unit.consts[c].ops[m][2]] ELSE <<>>] =
            [m \in DOMAIN unit.consts[c].ops |->
               IF Demotable(unit.consts[c].ops[m])
               THEN f[unit.consts[c].ops[m][2]] ELSE <<>>]
        BY <4>1
      <4> QED BY <4>2, Zenon DEF Expanded
    <3> HIDE DEF E
    <3>4. g[c] = E(f, c)
      BY <2>1, <3>1
    <3> QED BY <3>3, <3>4
  <2> HIDE DEF g, E, M
  <2> QED BY <1>1, <1>4, <2>2, <2>3
<1> HIDE DEF Good
<1>5. 0 .. N + 1 \subseteq Good
  BY <1>1, <1>2, <1>4, AllNumbers
<1>6. N + 1 \in Good
  BY <1>1, <1>5
<1>7. PICK f \in [D -> Seq(M)] : \A c \in D : rank[c] < N + 1 => f[c] = E(f, c)
  BY <1>6 DEF Good
<1>8. \A c \in D : rank[c] < N + 1
  BY <1>1
<1> HIDE DEF M, E
<1>9. \A c \in D : f[c] = E(f, c)
  BY <1>7, <1>8
<1> QED BY <1>9 DEF M, E

\* ... and is the only one: the rewriter's expansion is of that kind.
LEMMA ExpansionIs ==
    ASSUME unit \in Modules, ModulesAssumption, NEW i, NEW k,
           i.ops[k][2] \in DOMAIN unit.consts
    PROVE  \E f \in [DOMAIN unit.consts -> Seq(Materials(i, k))] :
             /\ \A c \in DOMAIN unit.consts : f[c] = Expanded(i, k, f, c)
             /\ Expansion(i, k) = f[i.ops[k][2]]
<1> DEFINE D == DOMAIN unit.consts
           M == Materials(i, k)
           E(f, c) == Expanded(i, k, f, c)
           c0 == i.ops[k][2]
           Of == CHOOSE f : f = [c \in D |-> E(f, c)]
<1>1. PICK rank, N : Ranked(rank, N)
  BY ConstantsRanked
<1>2. N \in Nat /\ \A c \in D : rank[c] \in 0 .. N
  BY <1>1 DEF Ranked
<1>3. PICK f \in [D -> Seq(M)] : \A c \in D : f[c] = E(f, c)
  BY <1>1, ExpandedExists
<1>4. f = [c \in D |-> E(f, c)]
  <2> HIDE DEF E
  <2> QED BY <1>3
<1>5. Expansion(i, k) = Of[c0]
  BY DEF Expansion, Expanded
<1>6. Of = [c \in D |-> E(Of, c)]
  <2> HIDE DEF E
  <2> QED BY <1>4
<1> HIDE DEF Of
<1>7. \A c \in D : Of[c] = E(Of, c)
  <2> HIDE DEF E
  <2> QED BY <1>6
<1> DEFINE Good == {n \in 0 .. N + 1 : \A c \in D : rank[c] < n => Of[c] = f[c]}
<1>8. 0 \in Good
  BY <1>2
<1>9. ASSUME NEW n \in 1 .. N + 1, n - 1 \in Good PROVE n \in Good
  <2>1. ASSUME NEW c \in D, rank[c] < n PROVE Of[c] = f[c]
    <3>1. ASSUME NEW d \in D, rank[d] < rank[c] PROVE Of[d] = f[d]
      <4>1. rank[d] < n - 1
        BY <1>2, <2>1, <3>1
      <4> QED BY <1>9, <4>1
    <3>2. \A m \in DOMAIN unit.consts[c].ops : Demotable(unit.consts[c].ops[m]) =>
             Of[unit.consts[c].ops[m][2]] = f[unit.consts[c].ops[m][2]]
      BY <1>1, <3>1 DEF Ranked
    <3>3. [m \in DOMAIN unit.consts[c].ops |->
             IF Demotable(unit.consts[c].ops[m])
             THEN Of[unit.consts[c].ops[m][2]] ELSE <<>>] =
          [m \in DOMAIN unit.consts[c].ops |->
             IF Demotable(unit.consts[c].ops[m])
             THEN f[unit.consts[c].ops[m][2]] ELSE <<>>]
      BY <3>2
    <3>4. E(Of, c) = E(f, c)
      BY <3>3, Zenon DEF Expanded
    <3> HIDE DEF E
    <3> QED BY <1>3, <1>7, <3>4
  <2>2. n \in 0 .. N + 1
    BY <1>2
  <2> QED BY <2>1, <2>2
<1> HIDE DEF Good
<1>10. 0 .. N + 1 \subseteq Good
  <2> DEFINE P == N + 1
  <2>1. P \in Nat
    BY <1>2
  <2>2. \A n \in 1 .. P : n - 1 \in Good => n \in Good
    BY <1>9
  <2> HIDE DEF P
  <2>3. 0 .. P \subseteq Good
    BY <1>8, <2>1, <2>2, AllNumbers
  <2> QED BY <2>3 DEF P
<1>11. N + 1 \in Good
  BY <1>2, <1>10
<1>12. c0 \in D /\ rank[c0] < N + 1
  BY <1>2
<1>13. Of[c0] = f[c0]
  BY <1>11, <1>12 DEF Good
<1> HIDE DEF E, M, c0
<1>14. Expansion(i, k) = f[c0]
  BY <1>5, <1>13
<1> QED BY <1>3, <1>14 DEF E, M, c0

\* It ends with what the operand itself becomes.
LEMMA ExpansionInstrs ==
    ASSUME unit \in Modules, ModulesAssumption, NEW i, NEW k,
           i.ops[k][2] \in DOMAIN unit.consts
    PROVE  /\ Expansion(i, k) \in Seq(Materials(i, k))
           /\ Len(Expansion(i, k)) > 0
           /\ Last(Expansion(i, k)) = Materialized(i, k, i.ops[k][2])
<1> DEFINE M == Materials(i, k)
           c0 == i.ops[k][2]
<1>1. PICK rank, N : Ranked(rank, N)
  BY ConstantsRanked
<1>3. PICK f \in [DOMAIN unit.consts -> Seq(M)] :
         /\ \A c \in DOMAIN unit.consts : f[c] = Expanded(i, k, f, c)
         /\ Expansion(i, k) = f[c0]
  BY ExpansionIs
<1>2. c0 \in DOMAIN unit.consts
  OBVIOUS
<1> HIDE DEF c0
<1> DEFINE ss == [n \in DOMAIN unit.consts[c0].ops |->
                    IF Demotable(unit.consts[c0].ops[n])
                    THEN f[unit.consts[c0].ops[n][2]] ELSE <<>>]
           m == Materialized(i, k, c0)
<1>14. f[c0] = FlattenSeq(ss) \o <<m>>
  <2>1. f[c0] = Expanded(i, k, f, c0)
    <3> HIDE DEF ss, m
    <3> QED BY <1>2, <1>3
  <2> QED BY <2>1, Zenon DEF Expanded
<1>15. FlattenSeq(ss) \in Seq(M)
  BY <1>1, <1>2, PartsSequence DEF Ranked
<1>16. m \in M /\ <<m>> \in Seq(M) /\ Len(<<m>>) = 1 /\ <<m>>[1] = m
  <2>1. m \in M
    BY <1>2 DEF Materials
  <2> HIDE DEF m, M
  <2> QED BY <2>1
<1> HIDE DEF ss, m, M
<1> DEFINE q == FlattenSeq(ss)
<1> HIDE DEF q
<1>17. q \in Seq(M) /\ Len(q) \in Nat
  BY <1>15, LenProperties DEF q
<1>18. q \o <<m>> \in Seq(M) /\ Len(q \o <<m>>) = Len(q) + 1
  BY <1>16, <1>17, ConcatProperties
<1>19. (q \o <<m>>)[Len(q) + 1] = m
  BY <1>16, <1>17
<1>20. Last(q \o <<m>>) = m /\ Len(q \o <<m>>) > 0
  BY <1>17, <1>18, <1>19 DEF Last
<1>21. Expansion(i, k) = q \o <<m>>
  BY <1>3, <1>14 DEF q, c0
<1> HIDE DEF q
<1>22. m = Materialized(i, k, i.ops[k][2]) /\ M = Materials(i, k)
  BY DEF m, M, c0
<1> QED BY <1>18, <1>20, <1>21, <1>22

-----------------------------------------------------------------------------
(* The invariant *)

\* The passes a step comes after.
Passed(s) ==
    CASE s \in {"demote", "globals"} -> {}
      [] s = "blocks" -> {"globals"}
      [] s = "operands" -> {"globals", "blocks"}
      [] s = "calls" -> {"globals", "blocks", "operands"}
      [] s = "args" -> {"globals", "blocks", "operands", "calls"}
      [] OTHER -> {"globals", "blocks", "operands", "calls", "args"}
Retypes(i) == i.op \in {"gep", "alloca"}

\* Each instruction has a name of its own, which says where it comes from.
Names ==
    /\ \A i, j \in Instrs : i.id = j.id => i = j
    /\ \A i \in Instrs :
         /\ i.id[1] \in {"inst", "dem", "pre", "post"}
         /\ i.id[1] \in {"pre", "post"} => i = Cast(i.id, i.ops[1])
         /\ i.id[1] = "pre" => i.id[2] \in Passed(step)
         /\ i.id[1] = "post" =>
              /\ i.id = <<"post", i.ops[1]>> /\ i.ops[1][1] \in {"inst", "dem"}
              /\ step \notin {"demote", "globals", "blocks", "operands"}
              /\ step = "calls" =>
                   \E j \in Instrs : j.id = i.ops[1] /\ Retypes(j)
         /\ i.id[1] = "dem" => i.op \in ConstantOps /\ step # "demote"

\* What instructions refer to; calls have an operand beyond their parameters.
Operands ==
    \A i \in Instrs :
      /\ IsCallBase(i) => Len(i.ty[3]) \in Nat /\ Len(i.ops) > Len(i.ty[3])
      /\ 1 .. Arity(i.op) \subseteq DOMAIN i.ops
      /\ \A k \in DOMAIN i.ops :
           \/ i.ops[k] \in Values(unit)
           \/ i.ops[k][1] \in {"inst", "dem", "pre", "post"}
           \/ IsCalleeSlot(i, k) /\ i.ops[k] = <<"asm", i.ty>>

\* After bitcastGlobalValues, only casts and calls use globals.
GlobalsBridged ==
    "globals" \in Passed(step) =>
      \A i \in Instrs : \A k \in DOMAIN i.ops :
        IsGlobal(i.ops[k]) => IsCalleeSlot(i, k) \/ i.id[1] = "pre"

\* After bitcastInstructionOperands, each typed operand has a cast of its own,
\* and what a gep or an alloca gives is only cast.
OperandsBridged ==
    "operands" \in Passed(step) /\ step # "error" =>
      /\ \A i \in Instrs : \A k \in DOMAIN i.ops : PointerSlot(i, k) =>
           i.ops[k] = <<"pre", "operands", i.id, k>> /\ i.ops[k] \in Ids
      /\ \A i \in Instrs : Retypes(i) =>
           /\ <<"post", i.id>> \in Ids
           /\ \A j \in Instrs : \A k \in DOMAIN j.ops :
                j.ops[k] = i.id => j.id = <<"post", i.id>>

\* After bitcastFunctionOperands, so has each retyped argument of a call.
CallsBridged ==
    "calls" \in Passed(step) /\ step # "error" =>
      \A f \in Funcs : \A i \in CallsOf(f) : \A k \in Retyped(f) :
        k \in DOMAIN i.ops /\ i.ops[k] = <<"pre", "calls", i.id, k>>

\* The map is what buildPointerMap makes of the body.
MapInv == map = IF step = "done" THEN PointerFacts ELSE {}

Steps == {"demote", "globals", "blocks", "operands", "calls", "args", "map", "done", "error"}
RewriterInv ==
    /\ BodyInv /\ step \in Steps
    /\ Names /\ Operands
    /\ GlobalsBridged /\ OperandsBridged /\ CallsBridged /\ MapInv

-----------------------------------------------------------------------------
(* A pass that inserts casts *)

CastName(pass, i, k) == <<"pre", pass, i.id, k>>
Became(pass, slots, after, i) ==
    [i EXCEPT !.ops = [k \in DOMAIN i.ops |->
       IF <<i, k>> \in slots THEN CastName(pass, i, k) ELSE Replaced(after, i.ops[k])]]
PostCast(i) == Cast(<<"post", i.id>>, i.id)

LEMMA CastFields ==
    ASSUME NEW id, NEW v
    PROVE  /\ Instruction(Cast(id, v)) /\ Cast(id, v).id = id
           /\ Cast(id, v).op = "bitcast" /\ Cast(id, v).ty = PTR
           /\ Cast(id, v).ops = <<v>> /\ DOMAIN Cast(id, v).ops = {1}
           /\ Len(Cast(id, v).ops) = 1 /\ Cast(id, v).ops[1] = v
           /\ Cast(id, v).inc = <<>>
<1> DEFINE c == Cast(id, v)
<1>1. c = [id |-> id, op |-> "bitcast", ops |-> <<v>>, ty |-> PTR, inc |-> <<>>]
  BY DEF Cast
<1> HIDE DEF c
<1>2. /\ DOMAIN c = {"id", "op", "ops", "ty", "inc"} /\ c.id = id /\ c.op = "bitcast"
      /\ c.ty = PTR /\ c.ops = <<v>> /\ c.inc = <<>>
  BY <1>1
<1>3. <<v>> \in Seq(Range(<<v>>)) /\ DOMAIN <<v>> = {1} /\ Len(<<v>>) = 1 /\ <<v>>[1] = v
  BY DEF Range
<1>4. <<>> \in Seq(Range(<<>>))
  BY EmptySeq
<1> QED BY <1>2, <1>3, <1>4 DEF Instruction, c

LEMMA CastIs ==
    ASSUME NEW i, NEW id, NEW v, DOMAIN i = {"id", "op", "ops", "ty", "inc"},
           i = [x \in DOMAIN i |-> i[x]],
           i.id = id, i.op = "bitcast", i.ops = <<v>>, i.ty = PTR, i.inc = <<>>
    PROVE  i = Cast(id, v)
<1>1. Cast(id, v) = [x \in {"id", "op", "ops", "ty", "inc"} |->
                       IF x = "id" THEN id ELSE IF x = "op" THEN "bitcast"
                       ELSE IF x = "ops" THEN <<v>> ELSE IF x = "ty" THEN PTR ELSE <<>>]
  BY DEF Cast
<1> QED BY <1>1

LEMMA MovedCast ==
    ASSUME NEW after, NEW id, NEW v
    PROVE  MovedInstr(after, Cast(id, v)) = Cast(id, Replaced(after, v))
<1> DEFINE c == Cast(id, v)
           m == MovedInstr(after, c)
           ops == [k \in DOMAIN c.ops |-> Replaced(after, c.ops[k])]
<1>1. /\ Instruction(c) /\ c.id = id /\ c.op = "bitcast" /\ c.ty = PTR
      /\ c.ops = <<v>> /\ DOMAIN c.ops = {1} /\ c.ops[1] = v /\ c.inc = <<>>
  BY CastFields
<1> HIDE DEF c
<1>2. ops = <<Replaced(after, v)>>
  BY <1>1
<1>3. m = [c EXCEPT !.ops = ops]
  BY DEF MovedInstr
<1> HIDE DEF ops, m
<1>4. /\ DOMAIN m = {"id", "op", "ops", "ty", "inc"} /\ m = [x \in DOMAIN m |-> m[x]]
      /\ m.id = id /\ m.op = "bitcast" /\ m.ops = ops /\ m.ty = PTR /\ m.inc = <<>>
  BY <1>1, <1>3 DEF Instruction
<1>5. m = Cast(id, Replaced(after, v))
  BY <1>2, <1>4, CastIs
<1> QED BY <1>5 DEF m, c

LEMMA BecameFields ==
    ASSUME NEW pass, NEW slots, NEW after, NEW i, Instruction(i)
    PROVE  LET j == Became(pass, slots, after, i)
           IN /\ Instruction(j) /\ j.id = i.id /\ j.op = i.op /\ j.ty = i.ty
              /\ j.inc = i.inc /\ DOMAIN j.ops = DOMAIN i.ops
              /\ Len(j.ops) = Len(i.ops) /\ Len(i.ops) \in Nat
              /\ DOMAIN i.ops = 1 .. Len(i.ops)
              /\ \A k \in DOMAIN i.ops :
                   j.ops[k] = IF <<i, k>> \in slots THEN CastName(pass, i, k)
                              ELSE Replaced(after, i.ops[k])
<1> DEFINE j == Became(pass, slots, after, i)
           n == Len(i.ops)
           ops == [k \in DOMAIN i.ops |->
                     IF <<i, k>> \in slots THEN CastName(pass, i, k)
                     ELSE Replaced(after, i.ops[k])]
<1>1. n \in Nat /\ DOMAIN i.ops = 1 .. n
  BY LenProperties DEF Instruction
<1>2. /\ DOMAIN ops = DOMAIN i.ops /\ ops = [k \in 1 .. n |-> ops[k]]
      /\ \A k \in 1 .. n : ops[k] \in Range(ops)
      /\ \A k \in DOMAIN i.ops :
           ops[k] = IF <<i, k>> \in slots THEN CastName(pass, i, k)
                    ELSE Replaced(after, i.ops[k])
  BY <1>1 DEF Range
<1>3. j = [i EXCEPT !.ops = ops]
  BY DEF Became
<1> HIDE DEF ops, j, n
<1>4. ops \in Seq(Range(ops)) /\ Len(ops) = n
  BY <1>1, <1>2, IsSequence
<1>5. /\ DOMAIN j = {"id", "op", "ops", "ty", "inc"}
      /\ j.id = i.id /\ j.op = i.op /\ j.ops = ops /\ j.ty = i.ty /\ j.inc = i.inc
  BY <1>3 DEF Instruction
<1>6. Instruction(j)
  BY <1>4, <1>5 DEF Instruction
<1> QED BY <1>1, <1>2, <1>4, <1>5, <1>6 DEF j, n

\* Where an instruction comes from in such a pass, and what becomes of one.
FromCastPass(pass, slots, after, j) ==
    \/ \E i \in Instrs : j = Became(pass, slots, after, i)
    \/ \E i \in Instrs : \E k \in DOMAIN i.ops : <<i, k>> \in slots /\
         j = Cast(CastName(pass, i, k), Replaced(after, i.ops[k]))
    \/ \E i \in Instrs : i.id \in after /\ j = PostCast(i)
InCastPass(pass, slots, after, i, R) ==
    /\ Became(pass, slots, after, i) \in R
    /\ i.id \in after => PostCast(i) \in R
    /\ \A k \in DOMAIN i.ops : i.op # "phi" /\ <<i, k>> \in slots =>
         Cast(CastName(pass, i, k), Replaced(after, i.ops[k])) \in R

\* The body after such a pass.
LEMMA CastPass ==
    ASSUME NEW pass, NEW slots, slots \subseteq Slots, NEW after,
           BodyInv, ModulesAssumption,
           body' = WithCasts(pass, slots, after), unit' = unit
    PROVE  /\ BodyInv'
           /\ \A j \in Instrs' : FromCastPass(pass, slots, after, j)
           /\ \A i \in Instrs : InCastPass(pass, slots, after, i, Instrs')
<1> DEFINE one(s) == Cast(<<"pre", pass, s[1].id, s[2]>>, s[1].ops[s[2]])
           code == [s \in slots |-> <<one(s)>>]
           C == {one(s) : s \in slots}
           W == Rewritten(code, after)
           R == InstrsIn(W)
<1>1. \A s \in slots : \E i \in Instrs : \E k \in DOMAIN i.ops : s = <<i, k>>
  BY DEF Slots
<1>2. DOMAIN code = slots /\ \A s \in slots : code[s] = <<one(s)>> /\ code[s] \in Seq(C)
  <2> HIDE DEF one
  <2> QED  OBVIOUS
<1>3. \A i \in Instrs : Instruction(i)
  BY DEF BodyInv
<1>4. body' = W
  BY DEF WithCasts
<1> HIDE DEF code, C
<1>5. /\ DOMAIN W = DOMAIN body
      /\ \A b \in DOMAIN body : W[b] \in Seq(Range(W[b]))
      /\ \A j \in R : Comes(code, after, j)
      /\ \A i \in Instrs : Goes(code, after, i, R)
  <2>1. \A s \in DOMAIN code : code[s] \in Seq(C)
    BY <1>2
  <2>2. W = Rewritten(code, after) /\ R = InstrsIn(W)
    OBVIOUS
  <2> HIDE DEF W, R
  <2> QED BY <2>1, <2>2, RewrittenInstrs
<1> HIDE DEF W
<1>6. Instrs' = R
  BY <1>4, <1>5 DEF Instrs, InstrsIn
<1> HIDE DEF R
<1>7. ASSUME NEW i \in Instrs, NEW k \in DOMAIN i.ops, <<i, k>> \in slots
      PROVE  /\ code[<<i, k>>] = <<Cast(CastName(pass, i, k), i.ops[k])>>
             /\ Range(code[<<i, k>>]) = {Cast(CastName(pass, i, k), i.ops[k])}
             /\ Last(code[<<i, k>>]).id = CastName(pass, i, k)
  <2> DEFINE c == Cast(CastName(pass, i, k), i.ops[k])
  <2>1. one(<<i, k>>) = c
    BY DEF CastName
  <2>2. code[<<i, k>>] = <<c>>
    BY <1>2, <1>7, <2>1
  <2>3. c.id = CastName(pass, i, k)
    BY CastFields
  <2> HIDE DEF c
  <2>4. Range(<<c>>) = {c} /\ Last(<<c>>) = c
    BY DEF Range, Last
  <2> QED BY <2>2, <2>3, <2>4 DEF c
<1> HIDE DEF one
<1>8. ASSUME NEW i \in Instrs PROVE New(code, after, i) = Became(pass, slots, after, i)
  <2> DEFINE f == [k \in DOMAIN i.ops |->
                     IF <<i, k>> \in DOMAIN code THEN Last(code[<<i, k>>]).id
                     ELSE Replaced(after, i.ops[k])]
             g == [k \in DOMAIN i.ops |->
                     IF <<i, k>> \in slots THEN CastName(pass, i, k)
                     ELSE Replaced(after, i.ops[k])]
  <2>1. \A k \in DOMAIN i.ops : <<i, k>> \in slots =>
           Last(code[<<i, k>>]).id = CastName(pass, i, k)
    BY <1>7
  <2>2. f = g
    BY <1>2, <2>1
  <2>3. New(code, after, i) = [i EXCEPT !.ops = f]
    BY DEF New
  <2>4. Became(pass, slots, after, i) = [i EXCEPT !.ops = g]
    BY DEF Became
  <2> QED BY <2>2, <2>3, <2>4
<1>9. ASSUME NEW j \in Instrs'
      PROVE  FromCastPass(pass, slots, after, j)
  <2>1. Comes(code, after, j)
    BY <1>5, <1>6
  <2>2. CASE \E i \in Instrs : j = New(code, after, i)
    BY <1>8, <2>2 DEF FromCastPass
  <2>3. CASE \E s \in DOMAIN code : \E e \in Range(code[s]) : j = MovedInstr(after, e)
    <3>0. PICK s \in slots : \E e \in Range(code[s]) : j = MovedInstr(after, e)
      BY <1>2, <2>3
    <3>1. PICK e \in Range(code[s]) : j = MovedInstr(after, e)
      BY <3>0
    <3>5. PICK i \in Instrs : \E k \in DOMAIN i.ops : s = <<i, k>>
      BY <1>1
    <3>2. PICK k \in DOMAIN i.ops : s = <<i, k>>
      BY <3>5
    <3>3. e = Cast(CastName(pass, i, k), i.ops[k])
      BY <1>7, <3>1, <3>2
    <3>4. j = Cast(CastName(pass, i, k), Replaced(after, i.ops[k]))
      BY <3>1, <3>3, MovedCast
    <3> QED BY <1>1, <3>1, <3>2, <3>4 DEF FromCastPass
  <2>4. CASE \E i \in Instrs : i.id \in after /\ j = Cast(<<"post", i.id>>, i.id)
    BY <2>4 DEF FromCastPass, PostCast
  <2> QED BY <2>1, <2>2, <2>3, <2>4 DEF Comes
<1>10. ASSUME NEW i \in Instrs
       PROVE  InCastPass(pass, slots, after, i, Instrs')
  <2>1. Goes(code, after, i, R)
    BY <1>5
  <2>2. Became(pass, slots, after, i) \in R /\ (i.id \in after => PostCast(i) \in R)
    BY <1>8, <2>1 DEF Goes, PostCast
  <2>3. ASSUME NEW k \in DOMAIN i.ops, i.op # "phi", <<i, k>> \in slots
        PROVE  Cast(CastName(pass, i, k), Replaced(after, i.ops[k])) \in R
    <3>1. \A e \in Range(code[<<i, k>>]) : MovedInstr(after, e) \in R
      BY <1>2, <2>1, <2>3 DEF Goes
    <3>2. MovedInstr(after, Cast(CastName(pass, i, k), i.ops[k])) \in R
      BY <1>7, <2>3, <3>1
    <3> QED BY <3>2, MovedCast
  <2> QED BY <1>6, <2>2, <2>3 DEF InCastPass
<1>11. BodyInv'
  <2>1. unit' \in Modules /\ DOMAIN body' = DOMAIN unit'.body
    BY <1>4, <1>5 DEF BodyInv
  <2>2. \A b \in DOMAIN body' : body'[b] \in Seq(Range(body'[b]))
    BY <1>4, <1>5
  <2>3. ASSUME NEW j \in Instrs' PROVE Instruction(j)
    <3>1. \A i \in Instrs : Instruction(Became(pass, slots, after, i))
      BY <1>3, BecameFields
    <3>2. ASSUME NEW id, NEW v PROVE Instruction(Cast(id, v))
      BY CastFields
    <3>3. \A i : Instruction(PostCast(i))
      BY <3>2 DEF PostCast
    <3>4. FromCastPass(pass, slots, after, j)
      BY <1>9
    <3> QED BY <3>1, <3>2, <3>3, <3>4 DEF FromCastPass
  <2> QED BY <2>1, <2>2, <2>3 DEF BodyInv
<1> QED BY <1>9, <1>10, <1>11

\* A cast stays a cast.
LEMMA BecameCast ==
    ASSUME NEW pass, NEW slots, NEW after, NEW id, NEW v
    PROVE  LET c == Cast(id, v)
           IN Became(pass, slots, after, c) =
                Cast(id, IF <<c, 1>> \in slots THEN CastName(pass, c, 1)
                         ELSE Replaced(after, v))
<1> DEFINE c == Cast(id, v)
           j == Became(pass, slots, after, c)
           w == IF <<c, 1>> \in slots THEN CastName(pass, c, 1) ELSE Replaced(after, v)
           ops == [k \in DOMAIN c.ops |->
                     IF <<c, k>> \in slots THEN CastName(pass, c, k)
                     ELSE Replaced(after, c.ops[k])]
<1>1. /\ Instruction(c) /\ c.id = id /\ c.op = "bitcast" /\ c.ty = PTR
      /\ DOMAIN c.ops = {1} /\ c.ops[1] = v /\ c.inc = <<>>
  BY CastFields
<1>2. j = [c EXCEPT !.ops = ops]
  BY DEF Became
<1> HIDE DEF c
<1>3. ops = <<w>>
  BY <1>1
<1> HIDE DEF ops, j, w
<1>4. /\ DOMAIN j = {"id", "op", "ops", "ty", "inc"} /\ j = [x \in DOMAIN j |-> j[x]]
      /\ j.id = id /\ j.op = "bitcast" /\ j.ops = ops /\ j.ty = PTR /\ j.inc = <<>>
  BY <1>1, <1>2 DEF Instruction
<1>5. j = Cast(id, w)
  BY <1>3, <1>4, CastIs
<1> QED BY <1>5 DEF j, w, c

-----------------------------------------------------------------------------
(* Names and operands through the passes *)

\* A pass that inserts casts under its own name keeps the names apart.  It
\* casts no definition twice.
LEMMA CastPassNames ==
    ASSUME NEW pass, NEW slots, slots \subseteq Slots,
           NEW after, after \subseteq Ids,
           BodyInv, ModulesAssumption, Names,
           body' = WithCasts(pass, slots, after), unit' = unit,
           pass \notin Passed(step), Passed(step') = Passed(step) \cup {pass},
           step \in Steps, step # "demote", step' # "demote",
           step' \in {"blocks", "operands"} => step \in {"globals", "blocks"},
           step' # "globals",
           step' \in {"blocks", "operands"} => after = {},
           step' = "calls" => step = "operands"
                /\ \A i \in Instrs : i.id \in after => Retypes(i),
           \A i \in Instrs : i.id \in after =>
                i.id[1] \in {"inst", "dem"} /\ <<"post", i.id>> \notin Ids,
           \A i \in Instrs : i.id[1] = "post" => <<i, 1>> \notin slots
    PROVE  Names'
<1> DEFINE N(i) == Became(pass, slots, after, i)
           K(i, k) == Cast(CastName(pass, i, k), Replaced(after, i.ops[k]))
<1>1. /\ \A j \in Instrs' :
           \/ \E i \in Instrs : j = N(i)
           \/ \E i \in Instrs : \E k \in DOMAIN i.ops : <<i, k>> \in slots /\ j = K(i, k)
           \/ \E i \in Instrs : i.id \in after /\ j = PostCast(i)
      /\ \A i \in Instrs : N(i) \in Instrs'
  <2>1. /\ \A j \in Instrs' : FromCastPass(pass, slots, after, j)
        /\ \A i \in Instrs : InCastPass(pass, slots, after, i, Instrs')
    BY CastPass
  <2> QED BY <2>1 DEF FromCastPass, InCastPass
<1>2. \A i \in Instrs : Instruction(i)
  BY DEF BodyInv
<1>3. \A i \in Instrs : N(i).id = i.id /\ N(i).op = i.op
  BY <1>2, BecameFields
<1>4. \A i, k : K(i, k).id = CastName(pass, i, k) /\ K(i, k) = Cast(K(i, k).id, K(i, k).ops[1])
  <2>1. \A id, v : Cast(id, v).id = id /\ Cast(id, v).ops[1] = v
    BY CastFields
  <2> QED BY <2>1
<1>5. \A i : /\ PostCast(i).id = <<"post", i.id>> /\ PostCast(i).ops[1] = i.id
             /\ PostCast(i) = Cast(PostCast(i).id, PostCast(i).ops[1])
  <2>1. \A id, v : Cast(id, v).id = id /\ Cast(id, v).ops[1] = v
    BY CastFields
  <2> SUFFICES ASSUME NEW i
               PROVE  /\ PostCast(i).id = <<"post", i.id>> /\ PostCast(i).ops[1] = i.id
                      /\ PostCast(i) = Cast(PostCast(i).id, PostCast(i).ops[1])
    OBVIOUS
  <2>2. PostCast(i) = Cast(<<"post", i.id>>, i.id)
    BY DEF PostCast
  <2>3. PostCast(i).id = <<"post", i.id>> /\ PostCast(i).ops[1] = i.id
    BY <2>1, <2>2
  <2> QED BY <2>2, <2>3
<1>8. \A i \in Instrs : i.id[1] \in {"pre", "post"} =>
         /\ N(i) = Cast(N(i).id, N(i).ops[1])
         /\ i.id[1] = "post" => N(i).ops[1] = i.ops[1]
  <2> SUFFICES ASSUME NEW i \in Instrs, i.id[1] \in {"pre", "post"}
               PROVE  /\ N(i) = Cast(N(i).id, N(i).ops[1])
                      /\ i.id[1] = "post" => N(i).ops[1] = i.ops[1]
    OBVIOUS
  <2> DEFINE v == i.ops[1]
             w == IF <<i, 1>> \in slots THEN CastName(pass, i, 1) ELSE Replaced(after, v)
  <2>1. i = Cast(i.id, v)
    BY DEF Names
  <2>2. N(i) = Cast(i.id, w)
    <3> DEFINE id == i.id
    <3> HIDE DEF id, v
    <3>1. Became(pass, slots, after, Cast(id, v)) =
             Cast(id, IF <<Cast(id, v), 1>> \in slots
                      THEN CastName(pass, Cast(id, v), 1) ELSE Replaced(after, v))
      BY BecameCast
    <3>2. Cast(id, v) = i
      BY <2>1 DEF id
    <3> QED BY <3>1, <3>2 DEF id
  <2> HIDE DEF w
  <2>3. N(i).id = i.id /\ N(i).ops[1] = w
    BY <2>2, CastFields
  <2>4. ASSUME i.id[1] = "post" PROVE w = v
    <3>1. <<i, 1>> \notin slots
      BY <2>4
    <3>2. i.id = <<"post", v>>
      BY <2>4 DEF Names
    <3>3. v \notin after
      <4> SUFFICES ASSUME v \in after PROVE FALSE
        OBVIOUS
      <4>1. PICK j \in Instrs : v = j.id
        BY DEF Ids
      <4>2. <<"post", j.id>> \notin Ids
        BY <4>1
      <4> QED BY <3>2, <4>1, <4>2 DEF Ids
    <3> QED BY <3>1, <3>3 DEF w, Replaced
  <2> QED BY <2>2, <2>3, <2>4
<1> HIDE DEF N, K
<1>9. ASSUME NEW i \in Instrs, NEW j \in Instrs, NEW k
      PROVE  N(i).id # K(j, k).id
  <2>1. K(j, k).id[1] = "pre" /\ K(j, k).id[2] = pass
    BY <1>4 DEF CastName
  <2>2. i.id[1] = "pre" => i.id[2] # pass
    BY DEF Names
  <2> QED BY <1>3, <2>1, <2>2
<1>10. ASSUME NEW i \in Instrs, NEW j \in Instrs, j.id \in after
       PROVE  N(i).id # PostCast(j).id
  <2>1. <<"post", j.id>> \notin Ids
    BY <1>10
  <2>2. N(i).id \in Ids
    BY <1>3 DEF Ids
  <2> QED BY <1>5, <2>1, <2>2
<1>11. ASSUME NEW i \in Instrs, NEW j \in Instrs, NEW k
       PROVE  K(i, k).id # PostCast(j).id
  BY <1>4, <1>5 DEF CastName
<1>12. ASSUME NEW i \in Instrs, NEW j \in Instrs, N(i).id = N(j).id PROVE i = j
  BY <1>3, <1>12 DEF Names
<1>13. ASSUME NEW i \in Instrs, NEW j \in Instrs, NEW k, NEW l, K(i, k).id = K(j, l).id
       PROVE  i = j /\ k = l
  <2>1. i.id = j.id /\ k = l
    BY <1>4, <1>13 DEF CastName
  <2> QED BY <2>1 DEF Names
<1>14. ASSUME NEW i \in Instrs, NEW j \in Instrs, PostCast(i).id = PostCast(j).id
       PROVE  i = j
  <2>1. i.id = j.id
    BY <1>5, <1>14
  <2> QED BY <2>1 DEF Names
<1>15. ASSUME NEW i \in Instrs', NEW j \in Instrs', i.id = j.id PROVE i = j
  <2>1. ASSUME NEW d \in Instrs, i = N(d) PROVE i = j
    <3>1. CASE \E e \in Instrs : j = N(e)
      BY <1>12, <1>15, <2>1, <3>1
    <3>2. CASE \E e \in Instrs : \E k \in DOMAIN e.ops : <<e, k>> \in slots /\ j = K(e, k)
      BY <1>9, <1>15, <2>1, <3>2
    <3>3. CASE \E e \in Instrs : e.id \in after /\ j = PostCast(e)
      BY <1>10, <1>15, <2>1, <3>3
    <3> QED BY <1>1, <3>1, <3>2, <3>3
  <2>2. ASSUME NEW d \in Instrs, NEW k \in DOMAIN d.ops, i = K(d, k) PROVE i = j
    <3>1. CASE \E e \in Instrs : j = N(e)
      BY <1>9, <1>15, <2>2, <3>1
    <3>2. CASE \E e \in Instrs : \E l \in DOMAIN e.ops : <<e, l>> \in slots /\ j = K(e, l)
      BY <1>13, <1>15, <2>2, <3>2
    <3>3. CASE \E e \in Instrs : e.id \in after /\ j = PostCast(e)
      BY <1>11, <1>15, <2>2, <3>3
    <3> QED BY <1>1, <3>1, <3>2, <3>3
  <2>3. ASSUME NEW d \in Instrs, d.id \in after, i = PostCast(d) PROVE i = j
    <3>1. CASE \E e \in Instrs : j = N(e)
      BY <1>10, <1>15, <2>3, <3>1
    <3>2. CASE \E e \in Instrs : \E l \in DOMAIN e.ops : <<e, l>> \in slots /\ j = K(e, l)
      BY <1>11, <1>15, <2>3, <3>2
    <3>3. CASE \E e \in Instrs : e.id \in after /\ j = PostCast(e)
      BY <1>14, <1>15, <2>3, <3>3
    <3> QED BY <1>1, <3>1, <3>2, <3>3
  <2> QED BY <1>1, <2>1, <2>2, <2>3
<1> DEFINE Named(j) ==
             /\ j.id[1] \in {"inst", "dem", "pre", "post"}
             /\ j.id[1] \in {"pre", "post"} => j = Cast(j.id, j.ops[1])
             /\ j.id[1] = "pre" => j.id[2] \in Passed(step')
             /\ j.id[1] = "post" =>
                  /\ j.id = <<"post", j.ops[1]>> /\ j.ops[1][1] \in {"inst", "dem"}
                  /\ step' \notin {"demote", "globals", "blocks", "operands"}
                  /\ step' = "calls" =>
                       \E d \in Instrs' : d.id = j.ops[1] /\ Retypes(d)
             /\ j.id[1] = "dem" => j.op \in ConstantOps /\ step' # "demote"
<1>16. ASSUME NEW i \in Instrs PROVE Named(N(i))
  <2>1. /\ i.id[1] \in {"inst", "dem", "pre", "post"}
        /\ i.id[1] = "pre" => i.id[2] \in Passed(step)
        /\ i.id[1] = "post" => /\ i.id = <<"post", i.ops[1]>>
                               /\ i.ops[1][1] \in {"inst", "dem"}
                               /\ step \notin {"demote", "globals", "blocks", "operands"}
        /\ i.id[1] = "dem" => i.op \in ConstantOps
    BY DEF Names
  <2>2. CASE i.id[1] = "post"
    BY <1>3, <1>8, <2>1, <2>2
  <2>3. CASE i.id[1] # "post"
    BY <1>3, <1>8, <2>1, <2>3
  <2> QED BY <2>2, <2>3
<1>17. ASSUME NEW i \in Instrs, NEW k PROVE Named(K(i, k))
  <2>1. K(i, k).id[1] = "pre" /\ K(i, k).id[2] = pass
    BY <1>4 DEF CastName
  <2> QED BY <1>4, <2>1
<1>18. ASSUME NEW i \in Instrs, i.id \in after PROVE Named(PostCast(i))
  <2>1. /\ PostCast(i).id[1] = "post" /\ PostCast(i).id = <<"post", PostCast(i).ops[1]>>
        /\ PostCast(i).ops[1] = i.id
    BY <1>5
  <2>2. step' \notin {"demote", "globals", "blocks", "operands"}
    BY <1>18
  <2>3. ASSUME step' = "calls"
        PROVE  \E d \in Instrs' : d.id = PostCast(i).ops[1] /\ Retypes(d)
    <3>1. Retypes(N(i)) /\ N(i).id = i.id
      BY <1>3, <1>18, <2>3 DEF Retypes
    <3> QED BY <1>1, <2>1, <3>1
  <2>4. i.id[1] \in {"inst", "dem"}
    BY <1>18
  <2> QED BY <1>5, <2>1, <2>2, <2>3, <2>4
<1>19. \A j \in Instrs' : Named(j)
  <2> HIDE DEF Named
  <2> SUFFICES ASSUME NEW j \in Instrs' PROVE Named(j)
    OBVIOUS
  <2>1. CASE \E i \in Instrs : j = N(i)
    BY <1>16, <2>1
  <2>2. CASE \E i \in Instrs : \E k \in DOMAIN i.ops : <<i, k>> \in slots /\ j = K(i, k)
    BY <1>17, <2>2
  <2>3. CASE \E i \in Instrs : i.id \in after /\ j = PostCast(i)
    BY <1>18, <2>3
  <2> QED BY <1>1, <2>1, <2>2, <2>3
<1> QED BY <1>15, <1>19 DEF Names

\* The same, said of the fields: an instruction that was there, a cast for a
\* slot, or a cast of an instruction.
Alike(pass, slots, after, i, j) ==
    /\ j.id = i.id /\ j.op = i.op /\ j.ty = i.ty /\ j.inc = i.inc
    /\ DOMAIN j.ops = DOMAIN i.ops /\ Len(j.ops) = Len(i.ops)
    /\ \A k \in DOMAIN i.ops :
         j.ops[k] = IF <<i, k>> \in slots THEN CastName(pass, i, k)
                    ELSE Replaced(after, i.ops[k])
Casts(j, id, v) ==
    j.id = id /\ j.op = "bitcast" /\ DOMAIN j.ops = {1} /\ j.ops[1] = v
Stems(pass, slots, after, j) ==
    \/ \E i \in Instrs : Alike(pass, slots, after, i, j)
    \/ \E i \in Instrs : \E k \in DOMAIN i.ops : <<i, k>> \in slots /\
         Casts(j, CastName(pass, i, k), Replaced(after, i.ops[k]))
    \/ \E i \in Instrs : i.id \in after /\ Casts(j, <<"post", i.id>>, i.id)

LEMMA CastPassShapes ==
    ASSUME NEW pass, NEW slots, slots \subseteq Slots, NEW after,
           BodyInv, ModulesAssumption,
           body' = WithCasts(pass, slots, after), unit' = unit
    PROVE  /\ \A j \in Instrs' : Stems(pass, slots, after, j)
           /\ \A i \in Instrs : \E j \in Instrs' : Alike(pass, slots, after, i, j)
           /\ \A i \in Instrs : i.id \in after => <<"post", i.id>> \in Ids'
           /\ \A i \in Instrs : \A k \in DOMAIN i.ops :
                i.op # "phi" /\ <<i, k>> \in slots => CastName(pass, i, k) \in Ids'
<1>1. /\ \A j \in Instrs' : FromCastPass(pass, slots, after, j)
      /\ \A i \in Instrs : InCastPass(pass, slots, after, i, Instrs')
  BY CastPass
<1>2. ASSUME NEW i \in Instrs
      PROVE  Alike(pass, slots, after, i, Became(pass, slots, after, i))
  <2>1. Instruction(i)
    BY DEF BodyInv
  <2> QED BY <2>1, BecameFields DEF Alike
<1>3. ASSUME NEW id, NEW v PROVE Casts(Cast(id, v), id, v)
  BY CastFields DEF Casts
<1>4. ASSUME NEW i PROVE Casts(PostCast(i), <<"post", i.id>>, i.id)
  <2>1. PostCast(i) = Cast(<<"post", i.id>>, i.id)
    BY DEF PostCast
  <2> QED BY <1>3, <2>1
<1>5. ASSUME NEW j \in Instrs' PROVE Stems(pass, slots, after, j)
  <2>1. FromCastPass(pass, slots, after, j)
    BY <1>1
  <2>2. CASE \E i \in Instrs : j = Became(pass, slots, after, i)
    BY <1>2, <2>2 DEF Stems
  <2>3. CASE \E i \in Instrs : \E k \in DOMAIN i.ops : <<i, k>> \in slots /\
               j = Cast(CastName(pass, i, k), Replaced(after, i.ops[k]))
    BY <1>3, <2>3 DEF Stems
  <2>4. CASE \E i \in Instrs : i.id \in after /\ j = PostCast(i)
    BY <1>4, <2>4 DEF Stems
  <2> QED BY <2>1, <2>2, <2>3, <2>4 DEF FromCastPass
<1>6. \A j \in Instrs' : j.id \in Ids'
  BY DEF Ids
<1>7. ASSUME NEW i \in Instrs
      PROVE  /\ \E j \in Instrs' : Alike(pass, slots, after, i, j)
             /\ i.id \in after => <<"post", i.id>> \in Ids'
             /\ \A k \in DOMAIN i.ops :
                  i.op # "phi" /\ <<i, k>> \in slots => CastName(pass, i, k) \in Ids'
  <2>1. InCastPass(pass, slots, after, i, Instrs')
    BY <1>1
  <2>2. \E j \in Instrs' : Alike(pass, slots, after, i, j)
    BY <1>2, <2>1 DEF InCastPass
  <2>3. i.id \in after => <<"post", i.id>> \in Ids'
    <3>1. i.id \in after => PostCast(i) \in Instrs'
      BY <2>1 DEF InCastPass
    <3> QED BY <1>4, <1>6, <3>1 DEF Casts
  <2>4. ASSUME NEW k \in DOMAIN i.ops, i.op # "phi", <<i, k>> \in slots
        PROVE  CastName(pass, i, k) \in Ids'
    <3>1. Cast(CastName(pass, i, k), Replaced(after, i.ops[k])) \in Instrs'
      BY <2>1, <2>4 DEF InCastPass
    <3> QED BY <1>3, <1>6, <3>1 DEF Casts
  <2> QED BY <2>2, <2>3, <2>4
<1> QED BY <1>5, <1>7

\* A pass that does not cast inline assembly leaves operands what they were,
\* or makes them names.
Known1(v) == v \in Values(unit) \/ v[1] \in {"inst", "dem", "pre", "post"}
LEMMA CastPassOperands ==
    ASSUME NEW pass, NEW slots, slots \subseteq Slots,
           NEW after, after \subseteq Ids,
           BodyInv, ModulesAssumption, Names, Operands,
           body' = WithCasts(pass, slots, after), unit' = unit,
           \A i \in Instrs : \A k \in DOMAIN i.ops :
              <<i, k>> \in slots => i.ops[k][1] # "asm"
    PROVE  Operands'
<1> DEFINE Right(j) ==
             /\ IsCallBase(j) => Len(j.ty[3]) \in Nat /\ Len(j.ops) > Len(j.ty[3])
             /\ 1 .. Arity(j.op) \subseteq DOMAIN j.ops
             /\ \A k \in DOMAIN j.ops :
                  \/ Known1(j.ops[k])
                  \/ IsCalleeSlot(j, k) /\ j.ops[k] = <<"asm", j.ty>>
<1>1. \A j \in Instrs' : Stems(pass, slots, after, j)
  BY CastPassShapes
<1>5. \A i \in Instrs : Right(i)
  BY DEF Operands, Known1
<1>6. \A i \in Instrs : i.id[1] \in {"inst", "dem", "pre", "post"}
  BY DEF Names
<1>7. \A v : Known1(v) => Known1(Replaced(after, v))
  BY DEF Replaced, Known1
<1>8. \A i, k : Known1(CastName(pass, i, k))
  BY DEF CastName, Known1
<1>9. \A v : v[1] = "asm" => Replaced(after, v) = v
  BY <1>6 DEF Replaced, Ids
<1>10. ASSUME NEW i \in Instrs, NEW j, Alike(pass, slots, after, i, j) PROVE Right(j)
  <2>0. /\ j.op = i.op /\ j.ty = i.ty /\ DOMAIN j.ops = DOMAIN i.ops /\ Len(j.ops) = Len(i.ops)
        /\ \A k \in DOMAIN i.ops :
             j.ops[k] = IF <<i, k>> \in slots THEN CastName(pass, i, k)
                        ELSE Replaced(after, i.ops[k])
    BY <1>10 DEF Alike
  <2>1. IsCallBase(j) => Len(j.ty[3]) \in Nat /\ Len(j.ops) > Len(j.ty[3])
    BY <2>0, <1>5 DEF IsCallBase
  <2>2. ASSUME NEW k \in DOMAIN j.ops
        PROVE  Known1(j.ops[k]) \/ (IsCalleeSlot(j, k) /\ j.ops[k] = <<"asm", j.ty>>)
    <3>1. k \in DOMAIN i.ops
      BY <2>0
    <3>2. Known1(i.ops[k]) \/ (IsCalleeSlot(i, k) /\ i.ops[k] = <<"asm", i.ty>>)
      BY <1>5, <3>1
    <3>3. CASE <<i, k>> \in slots
      BY <2>0, <1>8, <3>1, <3>3
    <3>4. CASE <<i, k>> \notin slots /\ Known1(i.ops[k])
      BY <2>0, <1>7, <3>1, <3>4
    <3>5. CASE <<i, k>> \notin slots /\ IsCalleeSlot(i, k) /\ i.ops[k] = <<"asm", i.ty>>
      <4>1. j.ops[k] = <<"asm", j.ty>>
        BY <2>0, <1>9, <3>1, <3>5
      <4>2. IsCalleeSlot(j, k)
        BY <2>0, <3>5 DEF IsCalleeSlot, IsCallBase
      <4> QED BY <4>1, <4>2
    <3> QED BY <3>2, <3>3, <3>4, <3>5
  <2>3. 1 .. Arity(j.op) \subseteq DOMAIN j.ops
    BY <1>5, <2>0
  <2> QED BY <2>1, <2>2, <2>3
<1>11. ASSUME NEW j, NEW id, NEW v, Casts(j, id, v), Known1(v) PROVE Right(j)
  BY <1>11 DEF Casts, IsCallBase, Arity
<1>13. ASSUME NEW j \in Instrs' PROVE Right(j)
  <2> HIDE DEF Right
  <2>0. Stems(pass, slots, after, j)
    BY <1>1
  <2>1. CASE \E i \in Instrs : Alike(pass, slots, after, i, j)
    BY <1>10, <2>1
  <2>2. CASE \E i \in Instrs : \E k \in DOMAIN i.ops : <<i, k>> \in slots /\
               Casts(j, CastName(pass, i, k), Replaced(after, i.ops[k]))
    <3>1. PICK i \in Instrs : \E k \in DOMAIN i.ops : <<i, k>> \in slots /\
                 Casts(j, CastName(pass, i, k), Replaced(after, i.ops[k]))
      BY <2>2
    <3>2. PICK k \in DOMAIN i.ops : <<i, k>> \in slots /\
                 Casts(j, CastName(pass, i, k), Replaced(after, i.ops[k]))
      BY <3>1
    <3>3. Known1(i.ops[k])
      BY <1>5, <3>2 DEF Right
    <3> QED BY <1>7, <1>11, <3>2, <3>3
  <2>3. CASE \E i \in Instrs : i.id \in after /\ Casts(j, <<"post", i.id>>, i.id)
    <3>1. PICK i \in Instrs : i.id \in after /\ Casts(j, <<"post", i.id>>, i.id)
      BY <2>3
    <3>2. Known1(i.id)
      BY <1>6 DEF Known1
    <3> QED BY <1>11, <3>1, <3>2
  <2> QED BY <2>0, <2>1, <2>2, <2>3 DEF Stems
<1>14. Values(unit)' = Values(unit)
  BY DEF Values
<1> QED BY <1>13, <1>14 DEF Operands, Known1

\* A pass leaves the uses of globals to casts and calls, if it casts all
\* others or there are none.
LEMMA CastPassGlobals ==
    ASSUME NEW pass, NEW slots, slots \subseteq Slots,
           NEW after, after \subseteq Ids,
           BodyInv, ModulesAssumption, Names,
           body' = WithCasts(pass, slots, after), unit' = unit,
           \A i \in Instrs : \A k \in DOMAIN i.ops :
              IsGlobal(i.ops[k]) => IsCalleeSlot(i, k) \/ i.id[1] = "pre" \/ <<i, k>> \in slots
    PROVE  GlobalsBridged'
<1> DEFINE Right(j) == \A k \in DOMAIN j.ops :
                         IsGlobal(j.ops[k]) => IsCalleeSlot(j, k) \/ j.id[1] = "pre"
<1>1. \A j \in Instrs' : Stems(pass, slots, after, j)
  BY CastPassShapes
<1>5. ASSUME NEW i \in Instrs, NEW j, Alike(pass, slots, after, i, j) PROVE Right(j)
  <2>0. /\ j.op = i.op /\ j.id = i.id
        /\ DOMAIN j.ops = DOMAIN i.ops /\ Len(j.ops) = Len(i.ops)
        /\ \A k \in DOMAIN i.ops :
             j.ops[k] = IF <<i, k>> \in slots THEN CastName(pass, i, k)
                        ELSE Replaced(after, i.ops[k])
    BY <1>5 DEF Alike
  <2> SUFFICES ASSUME NEW k \in DOMAIN i.ops, IsGlobal(j.ops[k])
               PROVE  IsCalleeSlot(j, k) \/ j.id[1] = "pre"
    BY <2>0
  <2>3. ~IsGlobal(CastName(pass, i, k)) /\ \A v : IsGlobal(Replaced(after, v)) => IsGlobal(v)
    BY DEF IsGlobal, CastName, Replaced
  <2>1. <<i, k>> \notin slots /\ IsGlobal(i.ops[k])
    BY <2>0, <2>3
  <2>2. IsCalleeSlot(i, k) \/ i.id[1] = "pre"
    BY <2>1
  <2> QED BY <2>0, <2>2 DEF IsCalleeSlot, IsCallBase
<1>6. ASSUME NEW i \in Instrs, NEW k, NEW v, NEW j, Casts(j, CastName(pass, i, k), v)
      PROVE  Right(j)
  <2>1. j.id[1] = "pre"
    BY <1>6 DEF CastName, Casts
  <2> QED BY <2>1
<1>7. ASSUME NEW i \in Instrs, NEW id, NEW j, Casts(j, id, i.id) PROVE Right(j)
  <2>1. ~IsGlobal(i.id)
    BY DEF Names, IsGlobal
  <2> QED BY <1>7, <2>1 DEF Casts
<1>8. ASSUME NEW j \in Instrs' PROVE Right(j)
  <2> HIDE DEF Right
  <2>0. Stems(pass, slots, after, j)
    BY <1>1
  <2> QED BY <2>0, <1>5, <1>6, <1>7 DEF Stems
<1> QED BY <1>8 DEF GlobalsBridged

\* What a pass makes a pointer operand was one, unless it is an uncast callee.
LEMMA PointerSlotKept ==
    ASSUME NEW pass, NEW slots, NEW after,
           \A v \in after : v[1] # "glob" /\ v[1] # "asm",
           NEW i, NEW j, Alike(pass, slots, after, i, j),
           NEW k \in DOMAIN i.ops,
           IsCalleeSlot(i, k) /\ <<i, k>> \in slots => PointerSlot(i, k),
           PointerSlot(j, k)
    PROVE  PointerSlot(i, k)
<1>1. /\ j.op = i.op /\ j.ty = i.ty /\ Len(j.ops) = Len(i.ops)
      /\ j.ops[k] = IF <<i, k>> \in slots THEN CastName(pass, i, k)
                    ELSE Replaced(after, i.ops[k])
  BY DEF Alike
<1>2. CASE i.op # "call"
  BY <1>1, <1>2 DEF PointerSlot
<1>3. CASE i.op = "call"
  <2>1. k = Len(i.ops) /\ k = Len(j.ops) /\ ~IsDirect(j) /\ Callee(j)[1] # "asm"
    BY <1>1, <1>3 DEF PointerSlot
  <2>2. Callee(i) = i.ops[k] /\ Callee(j) = j.ops[k]
    BY <2>1 DEF Callee, Last
  <2>3. IsCalleeSlot(i, k)
    BY <1>3, <2>1 DEF IsCalleeSlot, IsCallBase
  <2> SUFFICES ASSUME ~PointerSlot(i, k) PROVE FALSE
    OBVIOUS
  <2>4. Callee(j) = Replaced(after, Callee(i))
    BY <1>1, <2>2, <2>3
  <2>5. IsDirect(i) \/ Callee(i)[1] = "asm"
    BY <1>3, <2>1 DEF PointerSlot
  <2>6. Callee(i)[1] = "glob" \/ Callee(i)[1] = "asm"
    BY <2>5 DEF IsDirect, IsFunc
  <2>7. Callee(j) = Callee(i)
    BY <2>4, <2>6 DEF Replaced
  <2> QED BY <1>1, <2>1, <2>5, <2>7 DEF IsDirect
<1> QED BY <1>2, <1>3

\* Heads of names.
LEMMA NamesHeads ==
    ASSUME Names
    PROVE  /\ \A v \in Ids : v[1] \in {"inst", "dem", "pre", "post"}
           /\ \A i \in Instrs : i.op # "bitcast" => i.id[1] \in {"inst", "dem"}
<1>1. \A v \in Ids : v[1] \in {"inst", "dem", "pre", "post"}
  BY DEF Names, Ids
<1>2. ASSUME NEW i \in Instrs, i.op # "bitcast" PROVE i.id[1] \in {"inst", "dem"}
  <2>1. i.id[1] \in {"inst", "dem", "pre", "post"}
        /\ (i.id[1] \in {"pre", "post"} => i = Cast(i.id, i.ops[1]))
    BY DEF Names
  <2>2. \A id, v : Cast(id, v).op = "bitcast"
    BY CastFields
  <2> QED BY <1>2, <2>1, <2>2
<1> QED BY <1>1, <1>2

\* The pass that gives the typed operands their casts.
LEMMA OperandsPassBridges ==
    ASSUME NEW slots, slots = {s \in Slots : PointerSlot(s[1], s[2])},
           NEW after, after = {i.id : i \in {j \in Instrs : j.op \in {"gep", "alloca"}}},
           BodyInv, ModulesAssumption, Names, step = "operands",
           body' = WithCasts("operands", slots, after), unit' = unit
    PROVE  OperandsBridged'
<1> DEFINE Right1(j) == \A k \in DOMAIN j.ops : PointerSlot(j, k) =>
             j.ops[k] = <<"pre", "operands", j.id, k>> /\ j.ops[k] \in Ids'
           Right2(i, j) == \A k \in DOMAIN j.ops : j.ops[k] = i.id => j.id = <<"post", i.id>>
<1>0. slots \subseteq Slots /\ after \subseteq Ids
  BY DEF Ids
<1>1. /\ \A j \in Instrs' : Stems("operands", slots, after, j)
      /\ \A i \in Instrs : i.id \in after => <<"post", i.id>> \in Ids'
      /\ \A i \in Instrs : \A k \in DOMAIN i.ops :
           i.op # "phi" /\ <<i, k>> \in slots => CastName("operands", i, k) \in Ids'
  BY <1>0, CastPassShapes
<1>2. \A v \in after : v[1] \in {"inst", "dem"}
  BY NamesHeads
<1>3. \A i \in Instrs : \A k \in DOMAIN i.ops : <<i, k>> \in slots <=> PointerSlot(i, k)
  BY DEF Slots
<1>4. \A v : Replaced(after, v) \notin after
  BY <1>2 DEF Replaced
<1>5. \A i, k : CastName("operands", i, k) \notin after
  BY <1>2 DEF CastName
<1>6. ASSUME NEW i \in Instrs, NEW j, Alike("operands", slots, after, i, j) PROVE Right1(j)
  <2> SUFFICES ASSUME NEW k \in DOMAIN j.ops, PointerSlot(j, k)
               PROVE  j.ops[k] = <<"pre", "operands", j.id, k>> /\ j.ops[k] \in Ids'
    OBVIOUS
  <2>1. k \in DOMAIN i.ops
    BY <1>6 DEF Alike
  <2>2. \A v \in after : v[1] # "glob" /\ v[1] # "asm"
    BY <1>2
  <2>3. IsCalleeSlot(i, k) /\ <<i, k>> \in slots => PointerSlot(i, k)
    BY <1>3, <2>1
  <2>4. PointerSlot(i, k)
    BY <1>6, <2>1, <2>2, <2>3, PointerSlotKept
  <2>5. i.op # "phi"
    BY <2>4 DEF PointerSlot
  <2>6. j.ops[k] = CastName("operands", i, k) /\ j.id = i.id
    BY <1>3, <1>6, <2>1, <2>4 DEF Alike
  <2>7. CastName("operands", i, k) \in Ids'
    BY <1>1, <1>3, <2>1, <2>4, <2>5
  <2> QED BY <2>6, <2>7 DEF CastName
<1>7. ASSUME NEW j, NEW id, NEW v, Casts(j, id, v) PROVE Right1(j) /\ ~Retypes(j)
  BY <1>7 DEF Casts, PointerSlot, Retypes
<1>8. ASSUME NEW j \in Instrs' PROVE Right1(j)
  <2> HIDE DEF Right1
  <2>1. Stems("operands", slots, after, j)
    BY <1>1
  <2> QED BY <1>6, <1>7, <2>1 DEF Stems
<1>9. ASSUME NEW i, i.id \in after, NEW j \in Instrs' PROVE Right2(i, j)
  <2> SUFFICES ASSUME NEW k \in DOMAIN j.ops, j.ops[k] = i.id
               PROVE  j.id = <<"post", i.id>>
    OBVIOUS
  <2>1. Stems("operands", slots, after, j)
    BY <1>1
  <2>2. ASSUME NEW e \in Instrs, Alike("operands", slots, after, e, j) PROVE FALSE
    <3>1. \/ j.ops[k] = CastName("operands", e, k)
          \/ j.ops[k] = Replaced(after, e.ops[k])
      BY <2>2 DEF Alike
    <3> QED BY <1>4, <1>5, <1>9, <3>1
  <2>3. ASSUME NEW id, NEW v, Casts(j, id, Replaced(after, v)) PROVE FALSE
    <3>1. j.ops[k] = Replaced(after, v)
      BY <2>3 DEF Casts
    <3> QED BY <1>4, <1>9, <3>1
  <2>4. ASSUME NEW e \in Instrs, Casts(j, <<"post", e.id>>, e.id)
        PROVE  j.id = <<"post", i.id>>
    <3>1. j.ops[k] = e.id /\ j.id = <<"post", e.id>>
      BY <2>4 DEF Casts
    <3> QED BY <3>1
  <2> QED BY <2>1, <2>2, <2>3, <2>4 DEF Stems
<1>10. ASSUME NEW i \in Instrs', Retypes(i) PROVE i.id \in after /\ <<"post", i.id>> \in Ids'
  <2>1. Stems("operands", slots, after, i)
    BY <1>1
  <2>2. PICK e \in Instrs : Alike("operands", slots, after, e, i)
    BY <1>7, <1>10, <2>1 DEF Stems
  <2>3. i.id = e.id /\ e.op \in {"gep", "alloca"}
    BY <1>10, <2>2 DEF Alike, Retypes
  <2>4. e.id \in after
    BY <2>3
  <2> QED BY <1>1, <2>3, <2>4
<1> HIDE DEF Right1
<1>11. \A i \in Instrs' : Retypes(i) =>
          /\ <<"post", i.id>> \in Ids'
          /\ \A j \in Instrs' : \A k \in DOMAIN j.ops :
               j.ops[k] = i.id => j.id = <<"post", i.id>>
  BY <1>9, <1>10
<1>12. \A j \in Instrs' : \A k \in DOMAIN j.ops : PointerSlot(j, k)' =>
             j.ops[k] = <<"pre", "operands", j.id, k>> /\ j.ops[k] \in Ids'
  <2>1. \A j, k : PointerSlot(j, k)' <=> PointerSlot(j, k)
    BY DEF PointerSlot, IsDirect, IsFunc, Funcs, Callee
  <2> QED BY <1>8, <2>1 DEF Right1
<1> QED BY <1>11, <1>12 DEF OperandsBridged

\* The passes after it leave those casts alone.
LEMMA CastPassBridges ==
    ASSUME NEW pass, NEW slots, slots \subseteq Slots,
           NEW after, after \subseteq Ids,
           BodyInv, ModulesAssumption, Names, OperandsBridged,
           "operands" \in Passed(step), step # "error",
           body' = WithCasts(pass, slots, after), unit' = unit,
           \A i \in Instrs : \A k \in DOMAIN i.ops : <<i, k>> \in slots =>
              ~PointerSlot(i, k) /\ ~IsCalleeSlot(i, k) /\ i.id[1] # "post",
           \A i \in Instrs : i.id \in after => ~Retypes(i),
           \A v \in after : v[1] \in {"inst", "dem"}
    PROVE  OperandsBridged'
<1> DEFINE Right1(j) == \A k \in DOMAIN j.ops : PointerSlot(j, k) =>
             j.ops[k] = <<"pre", "operands", j.id, k>> /\ j.ops[k] \in Ids'
           Right2(i, j) == \A k \in DOMAIN j.ops : j.ops[k] = i.id => j.id = <<"post", i.id>>
<1>1. /\ \A j \in Instrs' : Stems(pass, slots, after, j)
      /\ \A i \in Instrs : \E j \in Instrs' : Alike(pass, slots, after, i, j)
  BY CastPassShapes
<1>2. /\ \A i \in Instrs : \A k \in DOMAIN i.ops : PointerSlot(i, k) =>
           i.ops[k] = <<"pre", "operands", i.id, k>> /\ i.ops[k] \in Ids
      /\ \A i \in Instrs : Retypes(i) =>
           /\ <<"post", i.id>> \in Ids
           /\ \A j \in Instrs : \A k \in DOMAIN j.ops :
                j.ops[k] = i.id => j.id = <<"post", i.id>>
  BY DEF OperandsBridged
<1>3. Ids \subseteq Ids'
  BY <1>1 DEF Ids, Alike
<1>6. ASSUME NEW i \in Instrs, NEW j, Alike(pass, slots, after, i, j) PROVE Right1(j)
  <2> SUFFICES ASSUME NEW k \in DOMAIN j.ops, PointerSlot(j, k)
               PROVE  j.ops[k] = <<"pre", "operands", j.id, k>> /\ j.ops[k] \in Ids'
    OBVIOUS
  <2>1. k \in DOMAIN i.ops
    BY <1>6 DEF Alike
  <2>2. \A v \in after : v[1] # "glob" /\ v[1] # "asm"
    OBVIOUS
  <2>3. IsCalleeSlot(i, k) /\ <<i, k>> \in slots => PointerSlot(i, k)
    BY <2>1
  <2>4. PointerSlot(i, k)
    BY <1>6, <2>1, <2>2, <2>3, PointerSlotKept
  <2>5. i.ops[k] = <<"pre", "operands", i.id, k>> /\ i.ops[k] \in Ids
    BY <1>2, <2>1, <2>4
  <2>6. j.ops[k] = Replaced(after, i.ops[k]) /\ j.id = i.id
    BY <1>6, <2>1, <2>4 DEF Alike
  <2>7. i.ops[k] \notin after
    BY <2>5
  <2> QED BY <1>3, <2>5, <2>6, <2>7 DEF Replaced
<1>7. ASSUME NEW j, NEW id, NEW v, Casts(j, id, v) PROVE Right1(j) /\ ~Retypes(j)
  BY <1>7 DEF Casts, PointerSlot, Retypes
<1>8. ASSUME NEW j \in Instrs' PROVE Right1(j)
  <2> HIDE DEF Right1
  <2>1. Stems(pass, slots, after, j)
    BY <1>1
  <2> QED BY <1>6, <1>7, <2>1 DEF Stems
<1>4. ASSUME NEW i \in Instrs, Retypes(i)
      PROVE  i.id[1] \in {"inst", "dem"} /\ i.id \notin after
  BY <1>4, NamesHeads DEF Retypes
<1>9. ASSUME NEW i \in Instrs, Retypes(i), NEW j \in Instrs' PROVE Right2(i, j)
  <2> SUFFICES ASSUME NEW k \in DOMAIN j.ops, j.ops[k] = i.id
               PROVE  j.id = <<"post", i.id>>
    OBVIOUS
  <2>0. i.id[1] \in {"inst", "dem"} /\ i.id \notin after
    BY <1>4, <1>9
  <2>1. Stems(pass, slots, after, j)
    BY <1>1
  <2>5. \A v : Replaced(after, v) = i.id => v = i.id
    BY <2>0 DEF Replaced
  <2>6. \A e \in Instrs : \A l \in DOMAIN e.ops : e.ops[l] = i.id => e.id = <<"post", i.id>>
    BY <1>2, <1>9
  <2>2. ASSUME NEW e \in Instrs, Alike(pass, slots, after, e, j)
        PROVE  j.id = <<"post", i.id>>
    <3>1. /\ k \in DOMAIN e.ops /\ j.id = e.id
          /\ \/ j.ops[k] = CastName(pass, e, k)
             \/ j.ops[k] = Replaced(after, e.ops[k])
      BY <2>2 DEF Alike
    <3>2. j.ops[k] # CastName(pass, e, k)
      BY <2>0 DEF CastName
    <3>3. e.ops[k] = i.id
      BY <2>5, <3>1, <3>2
    <3> QED BY <2>6, <3>1, <3>3
  <2>3. ASSUME NEW e \in Instrs, NEW l \in DOMAIN e.ops, <<e, l>> \in slots, NEW id,
               Casts(j, id, Replaced(after, e.ops[l]))
        PROVE  FALSE
    <3>1. j.ops[k] = Replaced(after, e.ops[l])
      BY <2>3 DEF Casts
    <3>2. e.id = <<"post", i.id>>
      BY <2>5, <2>6, <3>1
    <3> QED BY <2>3, <3>2
  <2>4. ASSUME NEW e \in Instrs, e.id \in after, Casts(j, <<"post", e.id>>, e.id) PROVE FALSE
    <3>1. j.ops[k] = e.id
      BY <2>4 DEF Casts
    <3> QED BY <2>0, <2>4, <3>1
  <2> QED BY <2>1, <2>2, <2>3, <2>4 DEF Stems
<1>10. ASSUME NEW i \in Instrs', Retypes(i)
       PROVE  \E e \in Instrs : e.id = i.id /\ Retypes(e)
  <2>1. Stems(pass, slots, after, i)
    BY <1>1
  <2>2. PICK e \in Instrs : Alike(pass, slots, after, e, i)
    BY <1>7, <1>10, <2>1 DEF Stems
  <2> QED BY <1>10, <2>2 DEF Alike, Retypes
<1> HIDE DEF Right1
<1>11. ASSUME NEW i \in Instrs', Retypes(i)
       PROVE  /\ <<"post", i.id>> \in Ids'
              /\ \A j \in Instrs' : \A k \in DOMAIN j.ops :
                   j.ops[k] = i.id => j.id = <<"post", i.id>>
  <2>1. PICK e \in Instrs : e.id = i.id /\ Retypes(e)
    BY <1>10, <1>11
  <2>2. <<"post", e.id>> \in Ids'
    BY <1>2, <1>3, <2>1
  <2>3. \A j \in Instrs' : Right2(e, j)
    BY <1>9, <2>1
  <2> QED BY <2>1, <2>2, <2>3
<1>12. \A j \in Instrs' : \A k \in DOMAIN j.ops : PointerSlot(j, k)' =>
             j.ops[k] = <<"pre", "operands", j.id, k>> /\ j.ops[k] \in Ids'
  <2>1. \A j, k : PointerSlot(j, k)' <=> PointerSlot(j, k)
    BY DEF PointerSlot, IsDirect, IsFunc, Funcs, Callee
  <2> QED BY <1>8, <2>1 DEF Right1
<1> QED BY <1>11, <1>12 DEF OperandsBridged

\* After it, a call that uses a function calls it, with its own type.
LEMMA CallsDirect ==
    ASSUME BodyInv, Names, Operands, GlobalsBridged, OperandsBridged,
           "operands" \in Passed(step), "globals" \in Passed(step), step # "error",
           unit \in Modules, ModulesAssumption,
           NEW f \in Funcs, NEW i \in CallsOf(f)
    PROVE  /\ i \in Instrs /\ i.op = "call" /\ Callee(i) = <<"glob", f>> /\ IsDirect(i)
           /\ \A k \in Retyped(f) : /\ k \in DOMAIN i.ops /\ ~IsCalleeSlot(i, k)
                                    /\ ~PointerSlot(i, k)
<1>1. i \in Instrs /\ i.op = "call" /\ <<"glob", f>> \in Range(i.ops)
  BY DEF CallsOf
<1>2. PICK n \in DOMAIN i.ops : i.ops[n] = <<"glob", f>>
  BY <1>1 DEF Range
<1>3. i.id[1] \in {"inst", "dem"}
  BY <1>1, NamesHeads
<1>4. IsCalleeSlot(i, n)
  BY <1>1, <1>2, <1>3 DEF GlobalsBridged, IsGlobal
<1>5. n = Len(i.ops) /\ Callee(i) = <<"glob", f>>
  BY <1>2, <1>4 DEF IsCalleeSlot, Callee, Last
<1>6. IsDirect(i)
  <2> SUFFICES ASSUME ~IsDirect(i) PROVE FALSE
    OBVIOUS
  <2>1. PointerSlot(i, n)
    BY <1>1, <1>5 DEF PointerSlot
  <2>2. i.ops[n] = <<"pre", "operands", i.id, n>>
    BY <1>1, <2>1 DEF OperandsBridged
  <2> QED BY <1>2, <2>2
<1>7. i.ty = FN(unit.funcs[f].ret, unit.funcs[f].params) /\ i.ty[3] = unit.funcs[f].params
  BY <1>5, <1>6 DEF IsDirect, UntypedSig, FN
<1>8. unit.funcs[f].params \in Seq(Range(unit.funcs[f].params))
  BY DEF ModulesAssumption, WellFormed, WellFormedSymbols, Funcs
<1>9. /\ Len(i.ty[3]) \in Nat /\ DOMAIN unit.funcs[f].params = 1 .. Len(i.ty[3])
  <2> DEFINE p == unit.funcs[f].params
  <2> HIDE DEF p
  <2>1. p \in Seq(Range(p)) /\ i.ty[3] = p
    BY <1>7, <1>8 DEF p
  <2>2. Len(p) \in Nat /\ DOMAIN p = 1 .. Len(p)
    BY <2>1, LenProperties
  <2> QED BY <2>1, <2>2 DEF p
<1>10. Len(i.ops) > Len(i.ty[3])
  BY <1>1 DEF Operands, IsCallBase
<1>11. DOMAIN i.ops = 1 .. Len(i.ops) /\ Len(i.ops) \in Nat
  BY <1>1, LenProperties DEF BodyInv, Instruction
<1>12. ASSUME NEW k \in Retyped(f) PROVE k \in DOMAIN i.ops /\ k # Len(i.ops)
  <2>1. k \in DOMAIN unit.funcs[f].params
    BY DEF Retyped
  <2> QED BY <1>9, <1>10, <1>11, <2>1
<1>13. ASSUME NEW k \in Retyped(f)
       PROVE k \in DOMAIN i.ops /\ ~IsCalleeSlot(i, k) /\ ~PointerSlot(i, k)
  BY <1>1, <1>12 DEF IsCalleeSlot, PointerSlot
<1> QED BY <1>1, <1>5, <1>6, <1>13

\* A call of a function was one before the pass.
LEMMA CallsAlike ==
    ASSUME NEW pass, NEW slots, slots \subseteq Slots, NEW after,
           BodyInv, ModulesAssumption,
           body' = WithCasts(pass, slots, after), unit' = unit,
           NEW f, NEW j \in Instrs', j.op = "call", <<"glob", f>> \in Range(j.ops)
    PROVE  \E i \in CallsOf(f) : Alike(pass, slots, after, i, j)
<1>1. \A x \in Instrs' : Stems(pass, slots, after, x)
  BY CastPassShapes
<1>2. \A id, v : ~Casts(j, id, v)
  BY DEF Casts
<1>3. PICK i \in Instrs : Alike(pass, slots, after, i, j)
  BY <1>1, <1>2 DEF Stems
<1>4. PICK n \in DOMAIN j.ops : j.ops[n] = <<"glob", f>>
  BY DEF Range
<1>5. n \in DOMAIN i.ops /\ i.op = "call"
      /\ (j.ops[n] = CastName(pass, i, n) \/ j.ops[n] = Replaced(after, i.ops[n]))
  BY <1>3, <1>4 DEF Alike
<1>6. i.ops[n] = <<"glob", f>>
  BY <1>4, <1>5 DEF CastName, Replaced
<1>7. i \in CallsOf(f)
  BY <1>5, <1>6 DEF CallsOf, Range
<1> QED BY <1>3, <1>7

\* The pass that casts the arguments of calls.
LEMMA CallsPassBridges ==
    ASSUME NEW slots, slots \subseteq Slots,
           \A f \in Funcs : \A i \in CallsOf(f) : \A k \in Retyped(f) : <<i, k>> \in slots,
           NEW after, after \subseteq Ids,
           BodyInv, ModulesAssumption, Names,
           body' = WithCasts("calls", slots, after), unit' = unit,
           \A f \in Funcs : \A i \in CallsOf(f) : \A k \in Retyped(f) : k \in DOMAIN i.ops
    PROVE  CallsBridged'
<1>2. ASSUME NEW f \in Funcs, NEW j \in Instrs', j.op = "call", <<"glob", f>> \in Range(j.ops)
      PROVE  \E i \in CallsOf(f) : Alike("calls", slots, after, i, j)
  BY <1>2, CallsAlike
<1>3. ASSUME NEW f \in Funcs, NEW j \in Instrs', j.op = "call", <<"glob", f>> \in Range(j.ops),
             NEW k \in Retyped(f)
      PROVE  k \in DOMAIN j.ops /\ j.ops[k] = <<"pre", "calls", j.id, k>>
  <2>1. PICK i \in CallsOf(f) : Alike("calls", slots, after, i, j)
    BY <1>2, <1>3
  <2>2. k \in DOMAIN i.ops /\ <<i, k>> \in slots
    OBVIOUS
  <2> QED BY <2>1, <2>2 DEF Alike, CastName
<1>4. Funcs' = Funcs /\ \A f : Retyped(f)' = Retyped(f)
  BY DEF Funcs, Retyped
<1>5. \A f : \A j \in CallsOf(f)' :
         j \in Instrs' /\ j.op = "call" /\ <<"glob", f>> \in Range(j.ops)
  BY DEF CallsOf
<1>6. ASSUME NEW f \in Funcs', NEW j \in CallsOf(f)', NEW k \in Retyped(f)'
      PROVE  k \in DOMAIN j.ops /\ j.ops[k] = <<"pre", "calls", j.id, k>>
  BY <1>3, <1>4, <1>5
<1> QED BY <1>6 DEF CallsBridged

\* The pass after it, which has no cast and no call to make anew.
LEMMA ArgsPassBridges ==
    ASSUME NEW slots, slots \subseteq Slots,
           \A i \in Instrs : \A k \in DOMAIN i.ops : <<i, k>> \in slots => i.ops[k][1] = "arg",
           BodyInv, ModulesAssumption, Names, CallsBridged,
           "calls" \in Passed(step), step # "error",
           body' = WithCasts("args", slots, {}), unit' = unit
    PROVE  CallsBridged'
<1>2. ASSUME NEW f \in Funcs, NEW j \in Instrs', j.op = "call", <<"glob", f>> \in Range(j.ops)
      PROVE  \E i \in CallsOf(f) : Alike("args", slots, {}, i, j)
  BY <1>2, CallsAlike
<1>3. ASSUME NEW f \in Funcs, NEW j \in Instrs', j.op = "call", <<"glob", f>> \in Range(j.ops),
             NEW k \in Retyped(f)
      PROVE  k \in DOMAIN j.ops /\ j.ops[k] = <<"pre", "calls", j.id, k>>
  <2>1. PICK i \in CallsOf(f) : Alike("args", slots, {}, i, j)
    BY <1>2, <1>3
  <2>2. k \in DOMAIN i.ops /\ i.ops[k] = <<"pre", "calls", i.id, k>> /\ i \in Instrs
    BY DEF CallsBridged, CallsOf
  <2>3. <<i, k>> \notin slots
    BY <2>2
  <2> QED BY <2>1, <2>2, <2>3 DEF Alike, Replaced
<1>4. Funcs' = Funcs /\ \A f : Retyped(f)' = Retyped(f)
  BY DEF Funcs, Retyped
<1>5. \A f : \A j \in CallsOf(f)' :
         j \in Instrs' /\ j.op = "call" /\ <<"glob", f>> \in Range(j.ops)
  BY DEF CallsOf
<1>6. ASSUME NEW f \in Funcs', NEW j \in CallsOf(f)', NEW k \in Retyped(f)'
      PROVE  k \in DOMAIN j.ops /\ j.ops[k] = <<"pre", "calls", j.id, k>>
  BY <1>3, <1>4, <1>5
<1> QED BY <1>6 DEF CallsBridged

-----------------------------------------------------------------------------
(* The passes preserve the invariant *)

LEMMA GlobalsStep ==
    ASSUME RewriterInv, ModulesAssumption, bitcastGlobalValues
    PROVE  RewriterInv'
<1> DEFINE slots == {s \in Slots : /\ IsGlobal(s[1].ops[s[2]]) /\ ~IsCalleeSlot(s[1], s[2])}
<1>0. /\ step = "globals" /\ body' = WithCasts("globals", slots, {})
      /\ step' = "blocks" /\ unit' = unit /\ map' = map
  BY DEF bitcastGlobalValues
<1>1. /\ slots \subseteq Slots
      /\ \A i \in Instrs : \A k \in DOMAIN i.ops :
           <<i, k>> \in slots <=> IsGlobal(i.ops[k]) /\ ~IsCalleeSlot(i, k)
  BY DEF Slots
<1>2. /\ BodyInv /\ Names /\ Operands /\ MapInv
  BY DEF RewriterInv
<1>3. \A i \in Instrs : i.id[1] # "post" /\ i.id[1] # "pre"
  BY <1>0, <1>2 DEF Names, Passed
<1> HIDE DEF slots
<1>4. BodyInv'
  BY <1>0, <1>1, <1>2, CastPass
<1>5. Names'
  <2>1. /\ "globals" \notin Passed(step) /\ Passed(step') = Passed(step) \cup {"globals"}
        /\ step \in Steps
    BY <1>0 DEF Passed, Steps
  <2>2. {} \subseteq Ids
    OBVIOUS
  <2>3. \A i \in Instrs : i.id[1] = "post" => <<i, 1>> \notin slots
    BY <1>3
  <2>4. \A i \in Instrs : i.id \in {} =>
           i.id[1] \in {"inst", "dem"} /\ <<"post", i.id>> \notin Ids
    OBVIOUS
  <2>5. /\ step # "demote" /\ step' # "demote" /\ step' # "globals"
        /\ step' \in {"blocks", "operands"} => step \in {"globals", "blocks"}
        /\ step' \in {"blocks", "operands"} => {} = {}
        /\ step' = "calls" => step = "operands"
                /\ \A i \in Instrs : i.id \in {} => Retypes(i)
    BY <1>0
  <2> QED BY <1>0, <1>1, <1>2, <2>1, <2>2, <2>3, <2>4, <2>5, CastPassNames
<1>6. Operands'
  <2>1. \A i \in Instrs : \A k \in DOMAIN i.ops :
              <<i, k>> \in slots => i.ops[k][1] # "asm"
    BY <1>1 DEF IsGlobal
  <2>2. {} \subseteq Ids
    OBVIOUS
  <2> QED BY <1>0, <1>1, <1>2, <2>1, <2>2, CastPassOperands
<1>7. GlobalsBridged'
  <2>1. \A i \in Instrs : \A k \in DOMAIN i.ops :
              IsGlobal(i.ops[k]) => IsCalleeSlot(i, k) \/ i.id[1] = "pre" \/ <<i, k>> \in slots
    BY <1>1
  <2>2. {} \subseteq Ids
    OBVIOUS
  <2> QED BY <1>0, <1>1, <1>2, <2>1, <2>2, CastPassGlobals
<1>8. OperandsBridged' /\ CallsBridged' /\ MapInv' /\ step' \in Steps
  BY <1>0, <1>2 DEF OperandsBridged, CallsBridged, MapInv, Passed, Steps
<1> QED BY <1>4, <1>5, <1>6, <1>7, <1>8 DEF RewriterInv

LEMMA BlocksStep ==
    ASSUME RewriterInv, ModulesAssumption, bitcastBlockAddresses
    PROVE  RewriterInv'
<1> DEFINE slots == {s \in Slots : /\ s[1].ops[s[2]][1] = "block"
                                   /\ ~IsCalleeSlot(s[1], s[2])}
<1>0. /\ step = "blocks" /\ body' = WithCasts("blocks", slots, {})
      /\ step' = "operands" /\ unit' = unit /\ map' = map
  BY DEF bitcastBlockAddresses
<1>1. /\ slots \subseteq Slots
      /\ \A i \in Instrs : \A k \in DOMAIN i.ops :
           <<i, k>> \in slots <=> i.ops[k][1] = "block" /\ ~IsCalleeSlot(i, k)
  BY DEF Slots
<1>2. /\ BodyInv /\ Names /\ Operands /\ MapInv /\ GlobalsBridged
  BY DEF RewriterInv
<1>3. \A i \in Instrs : i.id[1] # "post"
  BY <1>0, <1>2 DEF Names
<1> HIDE DEF slots
<1>4. BodyInv'
  BY <1>0, <1>1, <1>2, CastPass
<1>5. Names'
  <2>1. /\ "blocks" \notin Passed(step) /\ Passed(step') = Passed(step) \cup {"blocks"}
        /\ step \in Steps
    BY <1>0 DEF Passed, Steps
  <2>2. {} \subseteq Ids
    OBVIOUS
  <2>3. \A i \in Instrs : i.id[1] = "post" => <<i, 1>> \notin slots
    BY <1>3
  <2>4. \A i \in Instrs : i.id \in {} =>
           i.id[1] \in {"inst", "dem"} /\ <<"post", i.id>> \notin Ids
    OBVIOUS
  <2>5. /\ step # "demote" /\ step' # "demote" /\ step' # "globals"
        /\ step' \in {"blocks", "operands"} => step \in {"globals", "blocks"}
        /\ step' \in {"blocks", "operands"} => {} = {}
        /\ step' = "calls" => step = "operands"
                /\ \A i \in Instrs : i.id \in {} => Retypes(i)
    BY <1>0
  <2> QED BY <1>0, <1>1, <1>2, <2>1, <2>2, <2>3, <2>4, <2>5, CastPassNames
<1>6. Operands'
  <2>1. \A i \in Instrs : \A k \in DOMAIN i.ops :
              <<i, k>> \in slots => i.ops[k][1] # "asm"
    BY <1>1
  <2>2. {} \subseteq Ids
    OBVIOUS
  <2> QED BY <1>0, <1>1, <1>2, <2>1, <2>2, CastPassOperands
<1>7. GlobalsBridged'
  <2>1. \A i \in Instrs : \A k \in DOMAIN i.ops :
              IsGlobal(i.ops[k]) => IsCalleeSlot(i, k) \/ i.id[1] = "pre" \/ <<i, k>> \in slots
    BY <1>0, <1>2 DEF GlobalsBridged, Passed
  <2>2. {} \subseteq Ids
    OBVIOUS
  <2> QED BY <1>0, <1>1, <1>2, <2>1, <2>2, CastPassGlobals
<1>8. OperandsBridged' /\ CallsBridged' /\ MapInv' /\ step' \in Steps
  BY <1>0, <1>2 DEF OperandsBridged, CallsBridged, MapInv, Passed, Steps
<1> QED BY <1>4, <1>5, <1>6, <1>7, <1>8 DEF RewriterInv

LEMMA OperandsStep ==
    ASSUME RewriterInv, ModulesAssumption, bitcastInstructionOperands
    PROVE  RewriterInv'
<1> DEFINE slots == {s \in Slots : PointerSlot(s[1], s[2])}
           after == {i.id : i \in {j \in Instrs : j.op \in {"gep", "alloca"}}}
<1>0. /\ step = "operands" /\ body' = WithCasts("operands", slots, after)
      /\ step' = "calls" /\ unit' = unit /\ map' = map
  BY DEF bitcastInstructionOperands
<1>1. /\ slots \subseteq Slots /\ after \subseteq Ids
      /\ \A i \in Instrs : \A k \in DOMAIN i.ops : <<i, k>> \in slots <=> PointerSlot(i, k)
  BY DEF Slots, Ids
<1>2. /\ BodyInv /\ Names /\ Operands /\ MapInv /\ GlobalsBridged
  BY DEF RewriterInv
<1>3. \A i \in Instrs : i.id[1] # "post"
  BY <1>0, <1>2 DEF Names
<1>9. OperandsBridged'
  BY <1>0, <1>2, OperandsPassBridges
<1>10. /\ \A i \in Instrs : i.id \in after => Retypes(i)
       /\ \A i \in Instrs : i.id \in after => i.id[1] \in {"inst", "dem"}
  <2>1. \A v \in after : \E j \in Instrs : v = j.id /\ j.op \in {"gep", "alloca"}
    OBVIOUS
  <2>2. ASSUME NEW i \in Instrs, i.id \in after PROVE i.op \in {"gep", "alloca"}
    BY <1>2, <2>1, <2>2 DEF Names
  <2> QED BY <1>2, <2>2, NamesHeads DEF Retypes
<1> HIDE DEF slots, after
<1>4. BodyInv'
  BY <1>0, <1>1, <1>2, CastPass
<1>5. Names'
  <2>1. /\ "operands" \notin Passed(step) /\ Passed(step') = Passed(step) \cup {"operands"}
        /\ step \in Steps
    BY <1>0 DEF Passed, Steps
  <2>3. \A i \in Instrs : i.id[1] = "post" => <<i, 1>> \notin slots
    BY <1>3
  <2>4. \A i \in Instrs : i.id \in after =>
           i.id[1] \in {"inst", "dem"} /\ <<"post", i.id>> \notin Ids
    BY <1>3, <1>10 DEF Ids
  <2>5. /\ step # "demote" /\ step' # "demote" /\ step' # "globals"
        /\ step' \in {"blocks", "operands"} => step \in {"globals", "blocks"}
        /\ step' \in {"blocks", "operands"} => after = {}
        /\ step' = "calls" => step = "operands"
                /\ \A i \in Instrs : i.id \in after => Retypes(i)
    BY <1>0, <1>10
  <2> QED BY <1>0, <1>1, <1>2, <2>1, <2>3, <2>4, <2>5, CastPassNames
<1>6. Operands'
  <2>1. ASSUME NEW i \in Instrs, NEW k \in DOMAIN i.ops, <<i, k>> \in slots
        PROVE  i.ops[k][1] # "asm"
    <3>1. PointerSlot(i, k)
      BY <1>1, <2>1
    <3>2. CASE IsCalleeSlot(i, k)
      BY <3>1, <3>2 DEF PointerSlot, IsCalleeSlot, IsCallBase, Callee, Last
    <3>3. CASE ~IsCalleeSlot(i, k)
      BY <1>2, <3>3 DEF Operands, Values
    <3> QED BY <3>2, <3>3
  <2> QED BY <1>0, <1>1, <1>2, <2>1, CastPassOperands
<1>7. GlobalsBridged'
  <2>1. \A i \in Instrs : \A k \in DOMAIN i.ops :
              IsGlobal(i.ops[k]) => IsCalleeSlot(i, k) \/ i.id[1] = "pre" \/ <<i, k>> \in slots
    BY <1>0, <1>2 DEF GlobalsBridged, Passed
  <2> QED BY <1>0, <1>1, <1>2, <2>1, CastPassGlobals
<1>8. CallsBridged' /\ MapInv' /\ step' \in Steps
  BY <1>0, <1>2 DEF CallsBridged, MapInv, Passed, Steps
<1> QED BY <1>4, <1>5, <1>6, <1>7, <1>8, <1>9 DEF RewriterInv

LEMMA CallsStep ==
    ASSUME RewriterInv, ModulesAssumption, bitcastFunctionOperands
    PROVE  RewriterInv'
<1> DEFINE slots == UNION {{<<i, k>> : i \in CallsOf(f), k \in Retyped(f)} : f \in Funcs}
           after == UNION {{i.id : i \in {j \in CallsOf(f) : HasUses(j.id)}} :
                              f \in {g \in Funcs : TypedSig(unit.funcs[g])[2]
                                                     # unit.funcs[g].ret}}
<1>0. /\ step = "calls" /\ body' = WithCasts("calls", slots, after)
      /\ step' = "args" /\ unit' = unit /\ map' = map
  BY DEF bitcastFunctionOperands
<1>2. /\ BodyInv /\ Names /\ Operands /\ MapInv /\ GlobalsBridged /\ OperandsBridged
  BY DEF RewriterInv
<1>3. "operands" \in Passed(step) /\ "globals" \in Passed(step) /\ step # "error"
  BY <1>0 DEF Passed
<1>4. unit \in Modules
  BY <1>2 DEF BodyInv
<1>5. \A f \in Funcs : \A i \in CallsOf(f) :
         /\ i \in Instrs /\ i.op = "call"
         /\ \A k \in Retyped(f) : /\ k \in DOMAIN i.ops /\ ~IsCalleeSlot(i, k)
                                  /\ ~PointerSlot(i, k)
  BY <1>2, <1>3, <1>4, CallsDirect
<1>6. /\ \A s \in slots : \E f \in Funcs : \E i \in CallsOf(f) : \E k \in Retyped(f) :
           s = <<i, k>>
      /\ \A f \in Funcs : \A i \in CallsOf(f) : \A k \in Retyped(f) : <<i, k>> \in slots
  OBVIOUS
<1>7. \A v \in after : \E f \in Funcs : \E i \in CallsOf(f) : v = i.id
  OBVIOUS
<1> HIDE DEF slots, after
<1>8. slots \subseteq Slots /\ after \subseteq Ids
  <2>1. slots \subseteq Slots
    BY <1>5, <1>6 DEF Slots
  <2>2. after \subseteq Ids
    BY <1>5, <1>7 DEF Ids
  <2> QED BY <2>1, <2>2
<1>9. ASSUME NEW i \in Instrs, NEW k \in DOMAIN i.ops, <<i, k>> \in slots
      PROVE  i.op = "call" /\ ~IsCalleeSlot(i, k) /\ ~PointerSlot(i, k)
  BY <1>5, <1>6, <1>9
<1>10. ASSUME NEW i \in Instrs, i.id \in after PROVE i.op = "call"
  <2>1. PICK f \in Funcs : \E j \in CallsOf(f) : i.id = j.id
    BY <1>7, <1>10
  <2>2. PICK j \in CallsOf(f) : i.id = j.id
    BY <2>1
  <2> QED BY <1>2, <1>5, <2>2 DEF Names
<1>11. \A i \in Instrs : i.id \in after => ~Retypes(i) /\ i.id[1] \in {"inst", "dem"}
  BY <1>2, <1>10, NamesHeads DEF Retypes
<1>12. \A v \in after : v[1] \in {"inst", "dem"}
  BY <1>8, <1>11 DEF Ids
<1>13. \A i \in Instrs : i.id[1] = "post" => i.op = "bitcast"
  BY <1>2, CastFields DEF Names
<1>14. BodyInv'
  BY <1>0, <1>8, <1>2, CastPass
<1>15. Names'
  <2>1. /\ "calls" \notin Passed(step) /\ Passed(step') = Passed(step) \cup {"calls"}
        /\ step \in Steps
    BY <1>0 DEF Passed, Steps
  <2>3. ASSUME NEW i \in Instrs, i.id[1] = "post" PROVE <<i, 1>> \notin slots
    <3>1. i.op = "bitcast"
      BY <1>13, <2>3
    <3>2. \A k : <<i, k>> \in slots => i.op = "call"
      BY <1>5, <1>6
    <3> QED BY <3>1, <3>2
  <2>4. ASSUME NEW i \in Instrs, i.id \in after
        PROVE  i.id[1] \in {"inst", "dem"} /\ <<"post", i.id>> \notin Ids
    <3>1. i.id[1] \in {"inst", "dem"} /\ ~Retypes(i)
      BY <1>11, <2>4
    <3> SUFFICES ASSUME <<"post", i.id>> \in Ids PROVE FALSE
      BY <3>1
    <3>2. PICK j \in Instrs : j.id = <<"post", i.id>>
      BY DEF Ids
    <3>3. \E e \in Instrs : e.id = j.ops[1] /\ Retypes(e)
      BY <1>0, <1>2, <3>2 DEF Names
    <3>4. j.id = <<"post", j.ops[1]>>
      BY <1>2, <3>2 DEF Names
    <3>5. j.ops[1] = i.id
      BY <3>2, <3>4
    <3> QED BY <1>2, <3>1, <3>3, <3>5 DEF Names
  <2>5. /\ step # "demote" /\ step' # "demote" /\ step' # "globals"
        /\ step' \in {"blocks", "operands"} => step \in {"globals", "blocks"}
        /\ step' \in {"blocks", "operands"} => after = {}
        /\ step' = "calls" => step = "operands"
                /\ \A i \in Instrs : i.id \in after => Retypes(i)
    BY <1>0
  <2> QED BY <1>0, <1>2, <1>8, <2>1, <2>3, <2>4, <2>5, CastPassNames
<1>16. Operands'
  <2>1. ASSUME NEW i \in Instrs, NEW k \in DOMAIN i.ops, <<i, k>> \in slots
        PROVE  i.ops[k][1] # "asm"
    <3>1. ~IsCalleeSlot(i, k)
      BY <1>9, <2>1
    <3> QED BY <1>2, <3>1 DEF Operands, Values
  <2> QED BY <1>0, <1>8, <1>2, <2>1, CastPassOperands
<1>17. GlobalsBridged'
  <2>1. \A i \in Instrs : \A k \in DOMAIN i.ops :
              IsGlobal(i.ops[k]) => IsCalleeSlot(i, k) \/ i.id[1] = "pre" \/ <<i, k>> \in slots
    BY <1>3, <1>2 DEF GlobalsBridged
  <2> QED BY <1>0, <1>8, <1>2, <2>1, CastPassGlobals
<1>18. OperandsBridged'
  <2>1. \A i \in Instrs : \A k \in DOMAIN i.ops : <<i, k>> \in slots =>
              ~PointerSlot(i, k) /\ ~IsCalleeSlot(i, k) /\ i.id[1] # "post"
    BY <1>9, <1>13
  <2>2. \A i \in Instrs : i.id \in after => ~Retypes(i)
    BY <1>11
  <2> QED BY <1>0, <1>2, <1>3, <1>8, <1>12, <2>1, <2>2, CastPassBridges
<1>19. CallsBridged'
  <2>1. \A f \in Funcs : \A i \in CallsOf(f) : \A k \in Retyped(f) : k \in DOMAIN i.ops
    BY <1>5
  <2> QED BY <1>0, <1>2, <1>6, <1>8, <2>1, CallsPassBridges
<1>20. MapInv' /\ step' \in Steps
  BY <1>0, <1>2 DEF MapInv, Steps
<1> QED BY <1>14, <1>15, <1>16, <1>17, <1>18, <1>19, <1>20 DEF RewriterInv

LEMMA ArgsStep ==
    ASSUME RewriterInv, ModulesAssumption, bitcastTypedArguments
    PROVE  RewriterInv'
<1> DEFINE slots == {s \in Slots : /\ s[1].ops[s[2]] \in TypedArgs
                                   /\ ~IsCalleeSlot(s[1], s[2])}
<1>0. /\ step = "args" /\ body' = WithCasts("args", slots, {})
      /\ step' = "map" /\ unit' = unit /\ map' = map
  BY DEF bitcastTypedArguments
<1>1. /\ slots \subseteq Slots
      /\ \A i \in Instrs : \A k \in DOMAIN i.ops :
           <<i, k>> \in slots => i.ops[k][1] = "arg" /\ ~IsCalleeSlot(i, k)
  <2>1. \A v \in TypedArgs : v[1] = "arg"
    BY DEF TypedArgs
  <2> QED BY <2>1 DEF Slots
<1>2. /\ BodyInv /\ Names /\ Operands /\ MapInv /\ GlobalsBridged /\ OperandsBridged
      /\ CallsBridged
  BY DEF RewriterInv
<1>3. /\ "calls" \in Passed(step) /\ "operands" \in Passed(step)
      /\ "globals" \in Passed(step) /\ step # "error"
  BY <1>0 DEF Passed
<1>4. \A i \in Instrs : i.id[1] = "post" => i.ops[1][1] # "arg"
  BY <1>2 DEF Names
<1>5. {} \subseteq Ids
  OBVIOUS
<1>6. \A i \in Instrs : i.id[1] = "post" => DOMAIN i.ops = {1}
  <2>1. \A i \in Instrs : i.id[1] = "post" => i = Cast(i.id, i.ops[1])
    BY <1>2 DEF Names
  <2>2. \A id, v : DOMAIN Cast(id, v).ops = {1}
    BY CastFields
  <2> QED BY <2>1, <2>2
<1> HIDE DEF slots
<1>14. BodyInv'
  BY <1>0, <1>1, <1>2, CastPass
<1>15. Names'
  <2>1. /\ "args" \notin Passed(step) /\ Passed(step') = Passed(step) \cup {"args"}
        /\ step \in Steps
    BY <1>0 DEF Passed, Steps
  <2>3. \A i \in Instrs : i.id[1] = "post" => <<i, 1>> \notin slots
    BY <1>1, <1>4, <1>6
  <2>4. \A i \in Instrs : i.id \in {} =>
           i.id[1] \in {"inst", "dem"} /\ <<"post", i.id>> \notin Ids
    OBVIOUS
  <2>5. /\ step # "demote" /\ step' # "demote" /\ step' # "globals"
        /\ step' \in {"blocks", "operands"} => step \in {"globals", "blocks"}
        /\ step' \in {"blocks", "operands"} => {} = {}
        /\ step' = "calls" => step = "operands"
                /\ \A i \in Instrs : i.id \in {} => Retypes(i)
    BY <1>0
  <2> QED BY <1>0, <1>1, <1>2, <1>5, <2>1, <2>3, <2>4, <2>5, CastPassNames
<1>16. Operands'
  <2>1. \A i \in Instrs : \A k \in DOMAIN i.ops :
              <<i, k>> \in slots => i.ops[k][1] # "asm"
    BY <1>1
  <2> QED BY <1>0, <1>1, <1>2, <1>5, <2>1, CastPassOperands
<1>17. GlobalsBridged'
  <2>1. \A i \in Instrs : \A k \in DOMAIN i.ops :
              IsGlobal(i.ops[k]) => IsCalleeSlot(i, k) \/ i.id[1] = "pre" \/ <<i, k>> \in slots
    BY <1>3, <1>2 DEF GlobalsBridged
  <2> QED BY <1>0, <1>1, <1>2, <1>5, <2>1, CastPassGlobals
<1>18. OperandsBridged'
  <2>1. ASSUME NEW i \in Instrs, NEW k \in DOMAIN i.ops, <<i, k>> \in slots
        PROVE  ~PointerSlot(i, k) /\ ~IsCalleeSlot(i, k) /\ i.id[1] # "post"
    <3>1. i.ops[k][1] = "arg" /\ ~IsCalleeSlot(i, k)
      BY <1>1, <2>1
    <3>2. PointerSlot(i, k) => i.ops[k] = <<"pre", "operands", i.id, k>>
      BY <1>2, <1>3 DEF OperandsBridged
    <3>3. i.id[1] = "post" => k = 1
      BY <1>6
    <3> QED BY <1>4, <3>1, <3>2, <3>3
  <2>2. \A i \in Instrs : i.id \in {} => ~Retypes(i)
    OBVIOUS
  <2>3. \A v \in {} : v[1] \in {"inst", "dem"}
    OBVIOUS
  <2> QED BY <1>0, <1>1, <1>2, <1>3, <1>5, <2>1, <2>2, <2>3, CastPassBridges
<1>19. CallsBridged'
  <2>1. \A i \in Instrs : \A k \in DOMAIN i.ops : <<i, k>> \in slots => i.ops[k][1] = "arg"
    BY <1>1
  <2> QED BY <1>0, <1>1, <1>2, <1>3, <2>1, ArgsPassBridges
<1>20. MapInv' /\ step' \in Steps
  BY <1>0, <1>2 DEF MapInv, Steps
<1> QED BY <1>14, <1>15, <1>16, <1>17, <1>18, <1>19, <1>20 DEF RewriterInv

\* What a demoted constant becomes.
LEMMA MaterializedFields ==
    ASSUME unit \in Modules, ModulesAssumption, NEW i, NEW k, NEW c \in DOMAIN unit.consts,
           NEW m, m = Materialized(i, k, c)
    PROVE  /\ Instruction(m) /\ MovedInstr({}, m) = m
           /\ 1 .. Arity(m.op) \subseteq DOMAIN m.ops
           /\ m.id = <<"dem", i.id, k, c>> /\ m.op \in ConstantOps
           /\ \A n \in DOMAIN m.ops : m.ops[n] \in Values(unit) \/ m.ops[n][1] = "dem"
<1> DEFINE d == unit.consts[c]
           ops == [n \in DOMAIN d.ops |->
                     IF Demotable(d.ops[n]) THEN <<"dem", i.id, k, d.ops[n][2]>>
                     ELSE d.ops[n]]
<1>1. /\ d.op \in ConstantOps /\ d.ops \in Seq(Range(d.ops))
      /\ 1 .. Arity(d.op) \subseteq DOMAIN d.ops
      /\ \A v \in Range(d.ops) : v \in Values(unit)
  BY DEF ModulesAssumption, WellFormed, WellFormedConstants
<1>2. m = [id |-> <<"dem", i.id, k, c>>, op |-> d.op, ty |-> d.ty, inc |-> <<>>, ops |-> ops]
  BY DEF Materialized
<1>3. \A n \in DOMAIN d.ops : d.ops[n] \in Values(unit)
  BY <1>1 DEF Range
<1> HIDE DEF d
<1>4. /\ DOMAIN ops = DOMAIN d.ops /\ ops = [n \in DOMAIN d.ops |-> ops[n]]
      /\ \A n \in DOMAIN ops : /\ ops[n] \in Values(unit) \/ ops[n][1] = "dem"
                               /\ ops[n] \in Range(ops)
  BY <1>3 DEF Range
<1>5. Len(d.ops) \in Nat /\ DOMAIN d.ops = 1 .. Len(d.ops)
  BY <1>1, LenProperties
<1> HIDE DEF ops
<1>6. ops \in Seq(Range(ops))
  BY <1>4, <1>5, IsSequence
<1>7. /\ DOMAIN m = {"id", "op", "ops", "ty", "inc"} /\ m.id = <<"dem", i.id, k, c>>
      /\ m.op = d.op /\ m.ops = ops /\ m.inc = <<>>
  BY <1>2
<1>8. <<>> \in Seq(Range(<<>>))
  BY EmptySeq
<1>9. Instruction(m)
  BY <1>6, <1>7, <1>8 DEF Instruction
<1>10. MovedInstr({}, m) = m
  <2> DEFINE moved == [n \in DOMAIN m.ops |-> Replaced({}, m.ops[n])]
  <2>1. moved = ops
    BY <1>4, <1>7 DEF Replaced
  <2>2. MovedInstr({}, m) = [m EXCEPT !.ops = moved]
    BY DEF MovedInstr
  <2>3. m = [x \in DOMAIN m |-> m[x]]
    BY <1>2
  <2> HIDE DEF moved
  <2> QED BY <1>7, <2>1, <2>2, <2>3
<1> QED BY <1>1, <1>4, <1>7, <1>9, <1>10

LEMMA MaterializedFor ==
    ASSUME NEW i, NEW j, NEW k, NEW c, i.id = j.id
    PROVE  Materialized(i, k, c) = Materialized(j, k, c)
<1> DEFINE d == unit.consts[c]
           f == [n \in DOMAIN d.ops |->
                   IF Demotable(d.ops[n]) THEN <<"dem", i.id, k, d.ops[n][2]>>
                   ELSE d.ops[n]]
           g == [n \in DOMAIN d.ops |->
                   IF Demotable(d.ops[n]) THEN <<"dem", j.id, k, d.ops[n][2]>>
                   ELSE d.ops[n]]
<1>1. f = g
  OBVIOUS
<1>2. /\ Materialized(i, k, c) = [id |-> <<"dem", i.id, k, c>>, op |-> d.op, ty |-> d.ty,
                                  inc |-> <<>>, ops |-> f]
      /\ Materialized(j, k, c) = [id |-> <<"dem", j.id, k, c>>, op |-> d.op, ty |-> d.ty,
                                  inc |-> <<>>, ops |-> g]
  BY DEF Materialized
<1> HIDE DEF f, g
<1> QED BY <1>1, <1>2

\* What an instruction becomes when its constants are demoted.
LEMMA DemotedFields ==
    ASSUME NEW code, NEW i, Instruction(i), NEW j, j = New(code, {}, i)
    PROVE  /\ Instruction(j) /\ j.id = i.id /\ j.op = i.op /\ j.ty = i.ty
           /\ DOMAIN j.ops = DOMAIN i.ops /\ Len(j.ops) = Len(i.ops)
           /\ \A k \in DOMAIN i.ops :
                j.ops[k] = IF <<i, k>> \in DOMAIN code THEN Last(code[<<i, k>>]).id
                           ELSE i.ops[k]
<1> DEFINE n == Len(i.ops)
           ops == [k \in DOMAIN i.ops |->
                     IF <<i, k>> \in DOMAIN code THEN Last(code[<<i, k>>]).id
                     ELSE Replaced({}, i.ops[k])]
<1>1. n \in Nat /\ DOMAIN i.ops = 1 .. n
  BY LenProperties DEF Instruction
<1>2. /\ DOMAIN ops = DOMAIN i.ops /\ ops = [k \in 1 .. n |-> ops[k]]
      /\ \A k \in 1 .. n : ops[k] \in Range(ops)
      /\ \A k \in DOMAIN i.ops :
           ops[k] = IF <<i, k>> \in DOMAIN code THEN Last(code[<<i, k>>]).id
                    ELSE i.ops[k]
  BY <1>1 DEF Range, Replaced
<1>3. j = [i EXCEPT !.ops = ops]
  BY DEF New
<1> HIDE DEF ops, n
<1>4. ops \in Seq(Range(ops)) /\ Len(ops) = n
  BY <1>1, <1>2, IsSequence
<1>5. /\ DOMAIN j = {"id", "op", "ops", "ty", "inc"}
      /\ j.id = i.id /\ j.op = i.op /\ j.ops = ops /\ j.ty = i.ty /\ j.inc = i.inc
  BY <1>3 DEF Instruction
<1>6. Instruction(j)
  BY <1>4, <1>5 DEF Instruction
<1> QED BY <1>2, <1>4, <1>5, <1>6 DEF n

LEMMA DemoteStep ==
    ASSUME RewriterInv, ModulesAssumption, demotePointerConstants
    PROVE  RewriterInv'
<1> DEFINE slots == {s \in Slots : Demotable(s[1].ops[s[2]])}
           code == [s \in slots |-> Expansion(s[1], s[2])]
           C == UNION {Materials(s[1], s[2]) : s \in slots}
           W == Rewritten(code, {})
           R == InstrsIn(W)
<1>0. /\ step = "demote" /\ body' = W /\ step' = "globals" /\ unit' = unit /\ map' = map
  BY DEF demotePointerConstants
<1>1. /\ \A s \in slots : \E i \in Instrs : \E k \in DOMAIN i.ops :
           s = <<i, k>> /\ Demotable(i.ops[k])
  BY DEF Slots
<1>2. /\ BodyInv /\ Names /\ Operands /\ MapInv
  BY DEF RewriterInv
<1>3. /\ \A i, j \in Instrs : i.id = j.id => i = j
      /\ \A i \in Instrs : i.id[1] = "inst"
  BY <1>0, <1>2 DEF Names, Passed
<1>4. DOMAIN code = slots /\ \A s \in slots : code[s] = Expansion(s[1], s[2])
  OBVIOUS
<1>5. unit \in Modules /\ \A i \in Instrs : Instruction(i)
  BY <1>2 DEF BodyInv
<1>6. \A s \in slots : Materials(s[1], s[2]) \subseteq C
  OBVIOUS
<1>7. \A m \in C : \E s \in slots : m \in Materials(s[1], s[2])
  OBVIOUS
<1> HIDE DEF slots, code, C
<1>8. ASSUME NEW s \in slots
      PROVE  \E c \in DOMAIN unit.consts :
               /\ code[s] \in Seq(Materials(s[1], s[2])) /\ code[s] \in Seq(C)
               /\ Last(code[s]).id = <<"dem", s[1].id, s[2], c>>
  <2>1. PICK i \in Instrs : \E k \in DOMAIN i.ops : s = <<i, k>> /\ Demotable(i.ops[k])
    BY <1>1
  <2>2. PICK k \in DOMAIN i.ops : s = <<i, k>> /\ Demotable(i.ops[k])
    BY <2>1
  <2>3. i.ops[k][1] = "const"
    BY <2>2 DEF Demotable
  <2>4. i.ops[k] \in Values(unit)
    BY <1>2, <2>3 DEF Operands
  <2>5. i.ops[k][2] \in DOMAIN unit.consts
    BY <2>3, <2>4 DEF Values
  <2>6. /\ Expansion(i, k) \in Seq(Materials(i, k))
        /\ Last(Expansion(i, k)) = Materialized(i, k, i.ops[k][2])
    BY <1>5, <2>5, ExpansionInstrs
  <2>7. code[s] = Expansion(i, k)
    BY <1>4, <2>2
  <2>8. Last(code[s]).id = <<"dem", i.id, k, i.ops[k][2]>>
    BY <1>5, <2>5, <2>6, <2>7, MaterializedFields
  <2>9. Materials(i, k) \subseteq C
    BY <1>6, <2>2
  <2>10. code[s] \in Seq(C)
    <3> DEFINE q == code[s]
               M == Materials(i, k)
    <3>1. q \in Seq(M) /\ M \subseteq C
      BY <2>6, <2>7, <2>9
    <3> HIDE DEF q, M
    <3>2. Len(q) \in Nat /\ DOMAIN q = 1 .. Len(q) /\ q \in [1 .. Len(q) -> M]
      BY <3>1, LenProperties
    <3>3. q \in [1 .. Len(q) -> C]
      BY <3>1, <3>2
    <3>4. q \in Seq(C)
      BY <3>2, <3>3, SeqDef
    <3> QED BY <3>4 DEF q
  <2> QED BY <2>2, <2>5, <2>6, <2>7, <2>8, <2>10
<1>9. /\ DOMAIN W = DOMAIN body
      /\ \A b \in DOMAIN body : W[b] \in Seq(Range(W[b]))
      /\ \A j \in R : Comes(code, {}, j)
  <2>1. \A s \in DOMAIN code : code[s] \in Seq(C)
    BY <1>4, <1>8
  <2>2. W = Rewritten(code, {}) /\ R = InstrsIn(W)
    OBVIOUS
  <2> HIDE DEF W, R
  <2> QED BY <1>2, <2>1, <2>2, RewrittenInstrs
<1> HIDE DEF W
<1>10. Instrs' = R
  BY <1>0, <1>9 DEF Instrs, InstrsIn
<1> HIDE DEF R
<1> DEFINE IsNew(j) == \E i \in Instrs : j = New(code, {}, i)
           IsMaterial(j) == \E s \in slots : \E c \in DOMAIN unit.consts :
                              j = Materialized(s[1], s[2], c)
           Fit(j) ==
             /\ Instruction(j) /\ j.op \in ConstantOps
             /\ 1 .. Arity(j.op) \subseteq DOMAIN j.ops
             /\ \A n \in DOMAIN j.ops : j.ops[n] \in Values(unit) \/ j.ops[n][1] = "dem"
<1>11. ASSUME NEW j \in R PROVE IsNew(j) \/ IsMaterial(j)
  <2>1. Comes(code, {}, j)
    BY <1>9
  <2>2. CASE \E s \in DOMAIN code : \E e \in Range(code[s]) : j = MovedInstr({}, e)
    <3>1. PICK s \in slots : \E e \in Range(code[s]) : j = MovedInstr({}, e)
      BY <1>4, <2>2
    <3>2. PICK e \in Range(code[s]) : j = MovedInstr({}, e)
      BY <3>1
    <3>3. code[s] \in Seq(Materials(s[1], s[2]))
      BY <1>8
    <3>4. e \in Materials(s[1], s[2])
      <4> DEFINE q == code[s]
                 M == Materials(s[1], s[2])
      <4>1. q \in Seq(M) /\ e \in Range(q)
        BY <3>2, <3>3
      <4> HIDE DEF q, M
      <4>2. e \in M
        BY <4>1, ElementOfSeq, LenProperties DEF Range
      <4> QED BY <4>2 DEF M
    <3>5. PICK c \in DOMAIN unit.consts : e = Materialized(s[1], s[2], c)
      BY <3>4 DEF Materials
    <3>6. MovedInstr({}, e) = e
      BY <1>5, <3>5, MaterializedFields
    <3> QED BY <3>2, <3>5, <3>6
  <2> QED BY <2>1, <2>2 DEF Comes
<1>12. ASSUME NEW i \in Instrs, NEW j, j = New(code, {}, i)
       PROVE  /\ Instruction(j) /\ j.id = i.id /\ j.op = i.op /\ j.ty = i.ty
              /\ DOMAIN j.ops = DOMAIN i.ops /\ Len(j.ops) = Len(i.ops)
              /\ \A k \in DOMAIN i.ops : j.ops[k] = i.ops[k] \/ j.ops[k][1] = "dem"
  <2>1. Instruction(i)
    BY <1>5
  <2>2. /\ Instruction(j) /\ j.id = i.id /\ j.op = i.op /\ j.ty = i.ty
        /\ DOMAIN j.ops = DOMAIN i.ops /\ Len(j.ops) = Len(i.ops)
        /\ \A k \in DOMAIN i.ops :
             j.ops[k] = IF <<i, k>> \in DOMAIN code THEN Last(code[<<i, k>>]).id
                        ELSE i.ops[k]
    BY <1>12, <2>1, DemotedFields
  <2>3. \A s \in DOMAIN code : Last(code[s]).id[1] = "dem"
    BY <1>4, <1>8
  <2> QED BY <2>2, <2>3
<1>13. ASSUME NEW s \in slots, NEW c \in DOMAIN unit.consts,
              NEW j, j = Materialized(s[1], s[2], c)
       PROVE  Fit(j) /\ j.id = <<"dem", s[1].id, s[2], c>>
  BY <1>5, <1>13, MaterializedFields
<1>20. ASSUME NEW j, IsMaterial(j) PROVE Fit(j) /\ j.id[1] = "dem"
  <2> HIDE DEF Fit
  <2>1. PICK s \in slots : \E c \in DOMAIN unit.consts : j = Materialized(s[1], s[2], c)
    BY <1>20
  <2>2. PICK c \in DOMAIN unit.consts : j = Materialized(s[1], s[2], c)
    BY <2>1
  <2>3. Fit(j) /\ j.id = <<"dem", s[1].id, s[2], c>>
    BY <1>13, <2>2
  <2> QED BY <2>3
<1>18. ASSUME NEW j, IsNew(j) PROVE j.id[1] = "inst"
  BY <1>3, <1>12, <1>18
<1>19. ASSUME NEW j, IsMaterial(j) PROVE j.id[1] = "dem" /\ j.op \in ConstantOps
  BY <1>19, <1>20
<1>14. BodyInv'
  <2>1. \A j \in Instrs' : Instruction(j)
    <3> HIDE DEF IsMaterial
    <3> QED BY <1>10, <1>11, <1>12, <1>20
  <2> QED BY <1>0, <1>2, <1>9, <2>1 DEF BodyInv
<1>15. Names'
  <2>1. ASSUME NEW i \in Instrs', NEW j \in Instrs', i.id = j.id PROVE i = j
    <3>1. CASE IsNew(i) /\ IsNew(j)
      <4>1. PICK d \in Instrs : i = New(code, {}, d)
        BY <3>1
      <4>2. PICK e \in Instrs : j = New(code, {}, e)
        BY <3>1
      <4>3. i.id = d.id /\ j.id = e.id
        BY <1>12, <4>1, <4>2
      <4>4. d = e
        BY <1>3, <2>1, <4>3
      <4> QED BY <4>1, <4>2, <4>4
    <3>2. CASE IsMaterial(i) /\ IsMaterial(j)
      <4>1. PICK s \in slots : \E c \in DOMAIN unit.consts : i = Materialized(s[1], s[2], c)
        BY <3>2
      <4>2. PICK c \in DOMAIN unit.consts : i = Materialized(s[1], s[2], c)
        BY <4>1
      <4>3. PICK t \in slots : \E x \in DOMAIN unit.consts : j = Materialized(t[1], t[2], x)
        BY <3>2
      <4>4. PICK d \in DOMAIN unit.consts : j = Materialized(t[1], t[2], d)
        BY <4>3
      <4>5. i.id = <<"dem", s[1].id, s[2], c>> /\ j.id = <<"dem", t[1].id, t[2], d>>
        BY <1>13, <4>2, <4>4
      <4>8. <<"dem", s[1].id, s[2], c>> = <<"dem", t[1].id, t[2], d>>
        BY <2>1, <4>5
      <4>6. s[1].id = t[1].id /\ s[2] = t[2] /\ c = d
        BY <4>8
      <4>7. Materialized(s[1], s[2], c) = Materialized(t[1], s[2], c)
        BY <4>6, MaterializedFor
      <4> QED BY <4>2, <4>4, <4>6, <4>7
    <3> HIDE DEF IsNew, IsMaterial
    <3> QED BY <1>10, <1>11, <1>18, <1>19, <2>1, <3>1, <3>2
  <2>2. ASSUME NEW j \in Instrs'
        PROVE  \/ j.id[1] = "inst"
               \/ j.id[1] = "dem" /\ j.op \in ConstantOps
    <3> HIDE DEF IsNew, IsMaterial
    <3> QED BY <1>10, <1>11, <1>18, <1>19
  <2> QED BY <1>0, <2>1, <2>2 DEF Names
<1>16. Operands'
  <2> DEFINE Right(j) ==
               /\ IsCallBase(j) => Len(j.ty[3]) \in Nat /\ Len(j.ops) > Len(j.ty[3])
               /\ 1 .. Arity(j.op) \subseteq DOMAIN j.ops
               /\ \A k \in DOMAIN j.ops :
                    \/ j.ops[k] \in Values(unit)
                    \/ j.ops[k][1] \in {"inst", "dem", "pre", "post"}
                    \/ IsCalleeSlot(j, k) /\ j.ops[k] = <<"asm", j.ty>>
  <2>1. ASSUME NEW i \in Instrs, NEW j, j = New(code, {}, i) PROVE Right(j)
    <3>1. /\ j.op = i.op /\ j.ty = i.ty
          /\ DOMAIN j.ops = DOMAIN i.ops /\ Len(j.ops) = Len(i.ops)
          /\ \A k \in DOMAIN i.ops : j.ops[k] = i.ops[k] \/ j.ops[k][1] = "dem"
      BY <1>12, <2>1
    <3>2. Right(i)
      BY <1>2 DEF Operands
    <3>3. IsCallBase(j) <=> IsCallBase(i)
      BY <3>1 DEF IsCallBase
    <3>4. \A k : IsCalleeSlot(j, k) <=> IsCalleeSlot(i, k)
      BY <3>1, <3>3 DEF IsCalleeSlot
    <3> QED BY <3>1, <3>2, <3>3, <3>4
  <2>2. ASSUME NEW j, IsMaterial(j) PROVE Right(j)
    <3>1. /\ j.op \in ConstantOps
          /\ 1 .. Arity(j.op) \subseteq DOMAIN j.ops
          /\ \A n \in DOMAIN j.ops : j.ops[n] \in Values(unit) \/ j.ops[n][1] = "dem"
      BY <1>20, <2>2
    <3>2. ~IsCallBase(j)
      BY <3>1 DEF IsCallBase, ConstantOps
    <3> QED BY <3>1, <3>2
  <2> HIDE DEF Right, IsMaterial
  <2>3. \A j \in Instrs' : Right(j)
    BY <1>10, <1>11, <2>1, <2>2
  <2>4. Values(unit)' = Values(unit)
    BY <1>0 DEF Values
  <2> QED BY <2>3, <2>4 DEF Operands, Right
<1>17. GlobalsBridged' /\ OperandsBridged' /\ CallsBridged' /\ MapInv' /\ step' \in Steps
  BY <1>0, <1>2 DEF GlobalsBridged, OperandsBridged, CallsBridged, MapInv, Passed, Steps
<1> QED BY <1>14, <1>15, <1>16, <1>17 DEF RewriterInv

\* The steps that leave the body alone.
LEMMA OtherSteps ==
    ASSUME RewriterInv, unit' = unit, body' = body,
           \/ step = "operands" /\ step' = "error" /\ map' = map
           \/ step = "map" /\ step' = "error" /\ map' = map
           \/ step = "map" /\ step' = "done" /\ map' = PointerFacts
           \/ step' = step /\ map' = map
    PROVE  RewriterInv'
<1>1. /\ BodyInv /\ step \in Steps /\ Names /\ Operands
      /\ GlobalsBridged /\ OperandsBridged /\ CallsBridged /\ MapInv
  BY DEF RewriterInv
<1>2. Instrs' = Instrs /\ Ids' = Ids
  BY DEF Instrs, Ids
<1>3. BodyInv'
  BY <1>1, <1>2 DEF BodyInv
<1>4. step' \in Steps
  BY <1>1 DEF Steps
<1>5. Passed(step) \subseteq Passed(step')
  BY DEF Passed
<1>6. Names'
  BY <1>1, <1>2, <1>5 DEF Names
<1>7. Operands'
  BY <1>1, <1>2 DEF Operands, Values
<1>8. GlobalsBridged'
  BY <1>1, <1>2 DEF GlobalsBridged, Passed
<1>9. \A i, k : PointerSlot(i, k)' <=> PointerSlot(i, k)
  BY DEF PointerSlot, IsDirect, IsFunc, Funcs, Callee
<1>10. OperandsBridged'
  BY <1>1, <1>2, <1>9 DEF OperandsBridged, Passed
<1>11. Funcs' = Funcs /\ \A f : Retyped(f)' = Retyped(f) /\ CallsOf(f)' = CallsOf(f)
  BY <1>2 DEF Funcs, Retyped, TypedSig, Pointees, CallsOf
<1>12. CallsBridged'
  BY <1>1, <1>11 DEF CallsBridged, Passed
<1>13. PointerFacts' = PointerFacts
  <2>1. Globals' = Globals /\ \A f : TypedSig(f)' = TypedSig(f)
    BY DEF Globals, TypedSig, Pointees
  <2>2. GlobalValueType' = GlobalValueType
    BY <1>11, <2>1 DEF GlobalValueType
  <2>3. BlockAddresses' = BlockAddresses
    <3>1. InitializerBlocks' = InitializerBlocks
      BY <2>1 DEF InitializerBlocks, Initializers
    <3> QED BY <1>2, <3>1 DEF BlockAddresses, Slots
  <2>4. \A i : FromInstr(i)' = FromInstr(i)
    BY DEF FromInstr, IsDirect, IsFunc, Funcs
  <2>5. ASSUME NEW f PROVE FromFunction(f)' = FromFunction(f)
    <3> DEFINE calls == {j \in CallsOf(f) : Callee(j) = <<"glob", f>>}
               own == {<<<<"glob", f>>, TP(TypedSig(unit.funcs[f]))>>}
    <3>1. CallsOf(f)' = CallsOf(f) /\ Retyped(f)' = Retyped(f)
      BY <1>11
    <3>2. calls' = calls
      BY <3>1
    <3>3. own' = own
      OBVIOUS
    <3>4. FromFunction(f) = own \cup {<<i.ops[k], TypedSig(unit.funcs[f])[3][k]>> :
                                        i \in calls, k \in Retyped(f)}
      BY DEF FromFunction
    <3>5. FromFunction(f)' = own' \cup {<<i.ops[k], TypedSig(unit'.funcs[f])[3][k]>> :
                                          i \in calls', k \in Retyped(f)'}
      BY DEF FromFunction
    <3> HIDE DEF calls, own
    <3> QED BY <3>1, <3>2, <3>3, <3>4, <3>5
  <2> DEFINE globals == {<<<<"glob", g>>, TP(GlobalValueType[g])>> : g \in Globals}
             blocks == {<<v, TP(I8)>> : v \in BlockAddresses}
             instrs == UNION {FromInstr(i) : i \in Instrs}
             functions == UNION {FromFunction(f) : f \in Funcs}
             args == {<<<<"arg", unit.funcs[unit.main].args[k]>>,
                        TypedSig(unit.funcs[unit.main])[3][k]>> : k \in Retyped(unit.main)}
  <2>6. globals' = globals
    BY <2>1, <2>2
  <2>7. blocks' = blocks
    BY <2>3
  <2>8. instrs' = instrs
    BY <1>2, <2>4
  <2>9. functions' = functions
    BY <1>11, <2>5
  <2>10. args' = args
    BY <1>11, <2>1
  <2>11. PointerFacts = globals \cup blocks \cup instrs \cup functions \cup args
    BY DEF PointerFacts
  <2>12. PointerFacts' = globals' \cup blocks' \cup instrs' \cup functions' \cup args'
    BY DEF PointerFacts
  <2> HIDE DEF globals, blocks, instrs, functions, args
  <2> QED BY <2>6, <2>7, <2>8, <2>9, <2>10, <2>11, <2>12
<1>14. MapInv'
  BY <1>1, <1>13 DEF MapInv
<1> QED BY <1>3, <1>4, <1>6, <1>7, <1>8, <1>10, <1>12, <1>14 DEF RewriterInv

\* What the verifier has made sure of is the invariant of the unprepared body.
LEMMA RewriterInit ==
    ASSUME Init, ModulesAssumption
    PROVE  RewriterInv
<1>1. /\ unit \in Modules /\ body = unit.body /\ step = "demote" /\ map = {}
  BY DEF Init
<1>2. WellFormedBody(unit)
  BY <1>1 DEF ModulesAssumption, WellFormed
<1>3. Instrs = InstrsOf(unit)
  BY <1>1 DEF Instrs, InstrsOf
<1>4. \A b \in DOMAIN body : body[b] \in Seq(Range(body[b]))
  BY <1>1, <1>2 DEF WellFormedBody
<1>5. \A i, j \in Instrs : i.id = j.id => i = j
  BY <1>2, <1>3 DEF WellFormedBody
<1>6. \A i \in Instrs :
         /\ DOMAIN i = {"id", "op", "ops", "ty", "inc"} /\ i.id[1] = "inst"
         /\ i.ops \in Seq(Range(i.ops)) /\ i.inc \in Seq(DOMAIN unit.body)
         /\ 1 .. Arity(i.op) \subseteq DOMAIN i.ops
         /\ IsCallBase(i) => i.ty[3] \in Seq(Range(i.ty[3]))
                             /\ Len(i.ops) > Len(i.ty[3])
         /\ \A k \in DOMAIN i.ops :
              \/ i.ops[k] \in Values(unit) \cup {j.id : j \in InstrsOf(unit)}
              \/ IsCalleeSlot(i, k) /\ i.ops[k] = <<"asm", i.ty>>
  BY <1>2, <1>3 DEF WellFormedBody
<1>7. \A S, s : s \in Seq(S) => s \in Seq(Range(s)) /\ Len(s) \in Nat
  <2> SUFFICES ASSUME NEW S, NEW s \in Seq(S) PROVE s \in Seq(Range(s)) /\ Len(s) \in Nat
    OBVIOUS
  <2>1. Len(s) \in Nat /\ DOMAIN s = 1 .. Len(s) /\ s = [n \in 1 .. Len(s) |-> s[n]]
    BY LenProperties
  <2>2. \A n \in 1 .. Len(s) : s[n] \in Range(s)
    BY <2>1 DEF Range
  <2> QED BY <2>1, <2>2, IsSequence
<1>8. \A i \in Instrs : Instruction(i)
  BY <1>6, <1>7 DEF Instruction
<1>9. BodyInv
  BY <1>1, <1>4, <1>8 DEF BodyInv
<1>10. Names
  BY <1>1, <1>5, <1>6 DEF Names
<1>11. Operands
  <2>1. \A i \in Instrs : IsCallBase(i) => Len(i.ty[3]) \in Nat /\ Len(i.ops) > Len(i.ty[3])
    BY <1>6, <1>7
  <2>2. \A v : v \in {j.id : j \in InstrsOf(unit)} => v[1] = "inst"
    BY <1>3, <1>6
  <2>3. ASSUME NEW i \in Instrs, NEW k \in DOMAIN i.ops
        PROVE  \/ i.ops[k] \in Values(unit)
               \/ i.ops[k][1] \in {"inst", "dem", "pre", "post"}
               \/ IsCalleeSlot(i, k) /\ i.ops[k] = <<"asm", i.ty>>
    BY <1>6, <2>2
  <2> QED BY <1>6, <2>1, <2>3 DEF Operands
<1>12. GlobalsBridged /\ OperandsBridged /\ CallsBridged /\ MapInv /\ step \in Steps
  BY <1>1 DEF GlobalsBridged, OperandsBridged, CallsBridged, MapInv, Passed, Steps
<1> QED BY <1>9, <1>10, <1>11, <1>12 DEF RewriterInv

\* The invariant: every instruction is named after what it stands for, every
\* pass leaves behind the casts the later ones and the map rely on.
THEOREM RewriterCorrect == Spec => []RewriterInv
<1>1. Init => RewriterInv
  BY RewriterInit, ModulesAssumption
<1>2. RewriterInv /\ [Next]_vars => RewriterInv'
  <2> SUFFICES ASSUME RewriterInv, [Next]_vars PROVE RewriterInv'
    OBVIOUS
  <2>1. CASE demotePointerConstants
    BY <2>1, DemoteStep, ModulesAssumption
  <2>2. CASE bitcastGlobalValues
    BY <2>2, GlobalsStep, ModulesAssumption
  <2>3. CASE bitcastBlockAddresses
    BY <2>3, BlocksStep, ModulesAssumption
  <2>4. CASE bitcastInstructionOperands
    BY <2>4, OperandsStep, ModulesAssumption
  <2>5. CASE bitcastFunctionOperands
    BY <2>5, CallsStep, ModulesAssumption
  <2>6. CASE bitcastTypedArguments
    BY <2>6, ArgsStep, ModulesAssumption
  <2>7. CASE rejectVectorGEP
    BY <2>7, OtherSteps DEF rejectVectorGEP
  <2>8. CASE buildPointerMap
    BY <2>8, OtherSteps DEF buildPointerMap
  <2>9. CASE rejectCyclicGlobals
    BY <2>9, OtherSteps DEF rejectCyclicGlobals
  <2>10. CASE UNCHANGED vars
    BY <2>10, OtherSteps DEF vars
  <2> QED BY <2>1, <2>2, <2>3, <2>4, <2>5, <2>6, <2>7, <2>8, <2>9, <2>10 DEF Next
<1> QED BY <1>1, <1>2, PTL DEF Spec

-----------------------------------------------------------------------------
(* The pointer map *)

\* What its entries are: each kind has keys of its own, which say the type.
OfGlobal(p) == \E g \in Globals : p = <<<<"glob", g>>, TP(GlobalValueType[g])>>
OfFunction(p) == \E f \in Funcs : p = <<<<"glob", f>>, TP(TypedSig(unit.funcs[f]))>>
OfBlock(p) == p[1][1] = "block" /\ p[2] = TP(I8) /\ p = <<p[1], p[2]>>
OfOperand(p) == \E i \in Instrs : \E k \in DOMAIN i.ops :
                  PointerSlot(i, k) /\ p = <<<<"pre", "operands", i.id, k>>, TP(i.ty)>>
OfAsm(p) == \E i \in Instrs : p = <<<<"asm", i.ty>>, TP(i.ty)>>
\* The pointee of what a GEP or an alloca makes.
OwnPointee(i) == IF i.op = "gep" THEN ResultElementType(i) ELSE i.ty
OfResult(p) == \E i \in Instrs : /\ i.id[1] \in {"inst", "dem"} /\ Retypes(i)
                                 /\ p = <<i.id, TP(OwnPointee(i))>>
OfArgument(p) ==
    \E f \in Funcs : \E i \in CallsOf(f) : \E k \in Retyped(f) :
      /\ Callee(i) = <<"glob", f>>
      /\ p = <<<<"pre", "calls", i.id, k>>, TypedSig(unit.funcs[f])[3][k]>>
OfParameter(p) ==
    \E k \in Retyped(unit.main) :
      p = <<<<"arg", unit.funcs[unit.main].args[k]>>,
            TypedSig(unit.funcs[unit.main])[3][k]>>

\* The values orderedPointerTypes visits.
Visited ==
    {<<"glob", g>> : g \in Globals \cup Funcs}
    \cup Initializers \cup InitializerBlocks
    \cup {i.id : i \in Instrs} \cup {s[1].ops[s[2]] : s \in Slots}

\* What an instruction gives: an entry for its cast operand, for inline
\* assembly, or for itself.
LEMMA InstrEntries ==
    ASSUME RewriterInv, step \in {"map", "done"},
           NEW i \in Instrs, NEW p \in FromInstr(i)
    PROVE  (OfOperand(p) \/ OfAsm(p) \/ OfResult(p)) /\ p[1] \in Visited
<1>1. /\ BodyInv /\ Names /\ Operands /\ OperandsBridged
      /\ "operands" \in Passed(step) /\ step # "error"
  BY DEF RewriterInv, Passed
<1>2. /\ DOMAIN i.ops = 1 .. Len(i.ops) /\ Len(i.ops) \in Nat
  BY <1>1, LenProperties DEF BodyInv, Instruction
<1>3. /\ IsCallBase(i) => Len(i.ty[3]) \in Nat /\ Len(i.ops) > Len(i.ty[3])
      /\ 1 .. Arity(i.op) \subseteq DOMAIN i.ops
      /\ \A k \in DOMAIN i.ops :
           \/ i.ops[k] \in Values(unit)
           \/ i.ops[k][1] \in {"inst", "dem", "pre", "post"}
           \/ IsCalleeSlot(i, k) /\ i.ops[k] = <<"asm", i.ty>>
  BY <1>1 DEF Operands
<1>4. ASSUME NEW k \in DOMAIN i.ops PROVE i.ops[k] \in Visited
  <2>1. <<i, k>> \in Slots
    BY DEF Slots
  <2> QED BY <2>1 DEF Visited
<1>5. i.id \in Visited
  BY DEF Visited
<1>6. ASSUME NEW k \in DOMAIN i.ops, PointerSlot(i, k), p = <<i.ops[k], TP(i.ty)>>
      PROVE  OfOperand(p) /\ p[1] \in Visited
  <2>1. i.ops[k] = <<"pre", "operands", i.id, k>>
    BY <1>1, <1>6 DEF OperandsBridged
  <2>2. p[1] = i.ops[k]
    BY <1>6
  <2>3. p = <<<<"pre", "operands", i.id, k>>, TP(i.ty)>>
    BY <1>6, <2>1
  <2> QED BY <1>4, <1>6, <2>2, <2>3 DEF OfOperand
<1>7. ASSUME i.op \in {"gep", "alloca"}, p = <<i.id, TP(OwnPointee(i))>>
      PROVE  OfResult(p) /\ p[1] \in Visited
  <2>1. i.id[1] \in {"inst", "dem"}
    BY <1>1, <1>7, NamesHeads
  <2> QED BY <1>5, <1>7, <2>1 DEF OfResult, Retypes
<1>8. CASE i.op \in {"load", "rmw", "cmpxchg"}
  <2>1. p = <<i.ops[1], TP(i.ty)>>
    BY <1>8 DEF FromInstr
  <2>2. 1 \in DOMAIN i.ops /\ PointerSlot(i, 1)
    BY <1>3, <1>8 DEF Arity, PointerSlot
  <2> QED BY <1>6, <2>1, <2>2
<1>9. CASE i.op = "store"
  <2>1. p = <<i.ops[2], TP(i.ty)>>
    BY <1>9 DEF FromInstr
  <2>2. 2 \in DOMAIN i.ops /\ PointerSlot(i, 2)
    BY <1>3, <1>9 DEF Arity, PointerSlot
  <2> QED BY <1>6, <2>1, <2>2
<1>10. CASE i.op = "gep"
  <2>1. p = <<i.ops[1], TP(i.ty)>> \/ p = <<i.id, TP(OwnPointee(i))>>
    BY <1>10 DEF FromInstr, OwnPointee
  <2>2. 1 \in DOMAIN i.ops /\ PointerSlot(i, 1)
    BY <1>3, <1>10 DEF Arity, PointerSlot
  <2> QED BY <1>6, <1>7, <1>10, <2>1, <2>2
<1>11. CASE i.op = "alloca"
  <2>1. p = <<i.id, TP(OwnPointee(i))>>
    BY <1>11 DEF FromInstr, OwnPointee
  <2> QED BY <1>7, <1>11, <2>1
<1>12. CASE i.op = "call" /\ ~IsDirect(i)
  <2> DEFINE n == Len(i.ops)
  <2>1. p = <<Callee(i), TP(i.ty)>> /\ Callee(i) = i.ops[n]
    BY <1>12 DEF FromInstr, Callee, Last
  <2>2. n \in DOMAIN i.ops
    BY <1>2, <1>3, <1>12 DEF IsCallBase
  <2> HIDE DEF n
  <2>3. CASE Callee(i)[1] = "asm"
    <3>1. i.ops[n] = <<"asm", i.ty>>
      BY <1>3, <2>1, <2>2, <2>3 DEF Values
    <3> QED BY <1>4, <2>1, <2>2, <3>1 DEF OfAsm
  <2>4. CASE Callee(i)[1] # "asm"
    <3>1. PointerSlot(i, n)
      BY <1>12, <2>4 DEF PointerSlot, n
    <3> QED BY <1>6, <2>1, <2>2, <3>1
  <2> QED BY <2>3, <2>4
<1> QED BY <1>8, <1>9, <1>10, <1>11, <1>12 DEF FromInstr

\* A function gives an entry for itself and for its calls' arguments.
LEMMA FunctionEntries ==
    ASSUME RewriterInv, step \in {"map", "done"},
           NEW f \in Funcs, NEW p \in FromFunction(f)
    PROVE  (OfFunction(p) \/ OfArgument(p)) /\ p[1] \in Visited
<1>1. /\ CallsBridged /\ "calls" \in Passed(step) /\ step # "error"
  BY DEF RewriterInv, Passed
<1>2. CASE p = <<<<"glob", f>>, TP(TypedSig(unit.funcs[f]))>>
  <2>1. p[1] = <<"glob", f>>
    BY <1>2
  <2>2. p[1] \in Visited
    BY <2>1 DEF Visited
  <2> QED BY <1>2, <2>2 DEF OfFunction
<1>3. ASSUME NEW i \in CallsOf(f), NEW k \in Retyped(f), Callee(i) = <<"glob", f>>,
             p = <<i.ops[k], TypedSig(unit.funcs[f])[3][k]>>
      PROVE  OfArgument(p) /\ p[1] \in Visited
  <2>1. k \in DOMAIN i.ops /\ i.ops[k] = <<"pre", "calls", i.id, k>> /\ i \in Instrs
    BY <1>1 DEF CallsBridged, CallsOf
  <2>2. p[1] = i.ops[k]
    BY <1>3
  <2>3. <<i, k>> \in Slots
    BY <2>1 DEF Slots
  <2>4. i.ops[k] \in Visited
    BY <2>3 DEF Visited
  <2>5. p = <<<<"pre", "calls", i.id, k>>, TypedSig(unit.funcs[f])[3][k]>>
    BY <1>3, <2>1
  <2> QED BY <1>3, <2>2, <2>4, <2>5 DEF OfArgument
<1> QED BY <1>2, <1>3 DEF FromFunction

LEMMA Entries ==
    ASSUME RewriterInv, step \in {"map", "done"}, NEW p \in PointerFacts
    PROVE  /\ \/ OfGlobal(p) \/ OfFunction(p) \/ OfBlock(p) \/ OfOperand(p)
              \/ OfAsm(p) \/ OfResult(p) \/ OfArgument(p) \/ OfParameter(p)
           /\ p[1] \in Visited \/ OfParameter(p)
<1>1. CASE \E g \in Globals : p = <<<<"glob", g>>, TP(GlobalValueType[g])>>
  <2>1. OfGlobal(p)
    BY <1>1 DEF OfGlobal
  <2>2. \E g \in Globals : p[1] = <<"glob", g>>
    BY <1>1
  <2>3. p[1] \in Visited
    BY <2>2 DEF Visited
  <2> QED BY <2>1, <2>3
<1>2. CASE \E v \in BlockAddresses : p = <<v, TP(I8)>>
  <2>1. PICK v \in BlockAddresses : p = <<v, TP(I8)>>
    BY <1>2
  <2>2. v[1] = "block" /\ v \in Visited
    <3>1. \A w \in InitializerBlocks : w[1] = "block"
      BY DEF InitializerBlocks
    <3> QED BY <3>1 DEF BlockAddresses, Visited
  <2> QED BY <2>1, <2>2 DEF OfBlock
<1>3. CASE \E i \in Instrs : p \in FromInstr(i)
  BY <1>3, InstrEntries
<1>4. CASE \E f \in Funcs : p \in FromFunction(f)
  BY <1>4, FunctionEntries
<1>5. CASE OfParameter(p)
  BY <1>5
<1>6. \/ \E g \in Globals : p = <<<<"glob", g>>, TP(GlobalValueType[g])>>
      \/ \E v \in BlockAddresses : p = <<v, TP(I8)>>
      \/ \E i \in Instrs : p \in FromInstr(i)
      \/ \E f \in Funcs : p \in FromFunction(f)
      \/ OfParameter(p)
  <2> DEFINE A == {<<<<"glob", g>>, TP(GlobalValueType[g])>> : g \in Globals}
             B == {<<v, TP(I8)>> : v \in BlockAddresses}
             C == UNION {FromInstr(i) : i \in Instrs}
             D == UNION {FromFunction(f) : f \in Funcs}
             E == {<<<<"arg", unit.funcs[unit.main].args[k]>>,
                     TypedSig(unit.funcs[unit.main])[3][k]>> : k \in Retyped(unit.main)}
  <2>1. PointerFacts = A \cup B \cup C \cup D \cup E
    BY DEF PointerFacts
  <2>2. p \in E => OfParameter(p)
    BY DEF OfParameter
  <2>3. /\ p \in A => \E g \in Globals : p = <<<<"glob", g>>, TP(GlobalValueType[g])>>
        /\ p \in B => \E v \in BlockAddresses : p = <<v, TP(I8)>>
    OBVIOUS
  <2>4. /\ p \in C => \E i \in Instrs : p \in FromInstr(i)
        /\ p \in D => \E f \in Funcs : p \in FromFunction(f)
    OBVIOUS
  <2> HIDE DEF A, B, C, D, E
  <2> QED BY <2>1, <2>2, <2>3, <2>4
<1> QED BY <1>1, <1>2, <1>3, <1>4, <1>5, <1>6

\* Where an entry comes from shows in its key.
LEMMA Keys ==
    ASSUME NEW p
    PROVE  /\ OfGlobal(p) => p[1][1] = "glob" /\ p[1][2] \in Globals
           /\ OfFunction(p) => p[1][1] = "glob" /\ p[1][2] \in Funcs
           /\ OfBlock(p) => p[1][1] = "block"
           /\ OfOperand(p) => p[1][1] = "pre" /\ p[1][2] = "operands"
           /\ OfAsm(p) => p[1][1] = "asm"
           /\ OfResult(p) => p[1][1] \in {"inst", "dem"}
           /\ OfArgument(p) => p[1][1] = "pre" /\ p[1][2] = "calls"
           /\ OfParameter(p) => p[1][1] = "arg"
<1>1. OfGlobal(p) => p[1][1] = "glob" /\ p[1][2] \in Globals
  BY DEF OfGlobal
<1>2. OfFunction(p) => p[1][1] = "glob" /\ p[1][2] \in Funcs
  BY DEF OfFunction
<1>3. OfBlock(p) => p[1][1] = "block"
  BY DEF OfBlock
<1>4. OfOperand(p) => p[1][1] = "pre" /\ p[1][2] = "operands"
  BY DEF OfOperand
<1>5. OfAsm(p) => p[1][1] = "asm"
  BY DEF OfAsm
<1>6. OfResult(p) => p[1][1] \in {"inst", "dem"}
  BY DEF OfResult
<1>7. OfArgument(p) => p[1][1] = "pre" /\ p[1][2] = "calls"
  BY DEF OfArgument
<1>8. OfParameter(p) => p[1][1] = "arg"
  BY DEF OfParameter
<1> QED BY <1>1, <1>2, <1>3, <1>4, <1>5, <1>6, <1>7, <1>8

\* ... and two entries of a kind with one key have one type.
LEMMA KeysType ==
    ASSUME RewriterInv, ModulesAssumption, NEW p, NEW q, p[1] = q[1],
           \/ OfGlobal(p) /\ OfGlobal(q)
           \/ OfFunction(p) /\ OfFunction(q)
           \/ OfBlock(p) /\ OfBlock(q)
           \/ OfOperand(p) /\ OfOperand(q)
           \/ OfAsm(p) /\ OfAsm(q)
           \/ OfResult(p) /\ OfResult(q)
           \/ OfArgument(p) /\ OfArgument(q)
           \/ OfParameter(p) /\ OfParameter(q)
    PROVE  p[2] = q[2]
<1>1. \A i, j \in Instrs : i.id = j.id => i = j
  BY DEF RewriterInv, Names
<1>2. CASE OfGlobal(p) /\ OfGlobal(q)
  BY <1>2 DEF OfGlobal
<1>3. CASE OfFunction(p) /\ OfFunction(q)
  BY <1>3 DEF OfFunction
<1>4. CASE OfBlock(p) /\ OfBlock(q)
  BY <1>4 DEF OfBlock
<1>5. CASE OfOperand(p) /\ OfOperand(q)
  BY <1>1, <1>5 DEF OfOperand
<1>6. CASE OfAsm(p) /\ OfAsm(q)
  BY <1>6 DEF OfAsm
<1>7. CASE OfResult(p) /\ OfResult(q)
  BY <1>1, <1>7 DEF OfResult
<1>8. CASE OfArgument(p) /\ OfArgument(q)
  <2>1. PICK f \in Funcs : \E i \in CallsOf(f) : \E k \in Retyped(f) :
          /\ Callee(i) = <<"glob", f>>
          /\ p = <<<<"pre", "calls", i.id, k>>, TypedSig(unit.funcs[f])[3][k]>>
    BY <1>8 DEF OfArgument
  <2>2. PICK i \in CallsOf(f) : \E k \in Retyped(f) :
          /\ Callee(i) = <<"glob", f>>
          /\ p = <<<<"pre", "calls", i.id, k>>, TypedSig(unit.funcs[f])[3][k]>>
    BY <2>1
  <2>3. PICK k \in Retyped(f) :
          p = <<<<"pre", "calls", i.id, k>>, TypedSig(unit.funcs[f])[3][k]>>
    BY <2>2
  <2>4. PICK g \in Funcs : \E j \in CallsOf(g) : \E l \in Retyped(g) :
          /\ Callee(j) = <<"glob", g>>
          /\ q = <<<<"pre", "calls", j.id, l>>, TypedSig(unit.funcs[g])[3][l]>>
    BY <1>8 DEF OfArgument
  <2>5. PICK j \in CallsOf(g) : \E l \in Retyped(g) :
          /\ Callee(j) = <<"glob", g>>
          /\ q = <<<<"pre", "calls", j.id, l>>, TypedSig(unit.funcs[g])[3][l]>>
    BY <2>4
  <2>6. PICK l \in Retyped(g) :
          q = <<<<"pre", "calls", j.id, l>>, TypedSig(unit.funcs[g])[3][l]>>
    BY <2>5
  <2>7. i.id = j.id /\ k = l
    BY <2>3, <2>6
  <2>8. i = j
    BY <1>1, <2>7 DEF CallsOf
  <2>9. f = g
    BY <2>2, <2>5, <2>8
  <2> QED BY <2>3, <2>6, <2>7, <2>9
<1>9. CASE OfParameter(p) /\ OfParameter(q)
  <2> DEFINE a == unit.funcs[unit.main].args
             s == TypedSig(unit.funcs[unit.main])[3]
  <2>8. \A r : OfParameter(r) =
             (\E k \in Retyped(unit.main) : r = <<<<"arg", a[k]>>, s[k]>>)
    BY Zenon DEF OfParameter
  <2>9. /\ \E k \in Retyped(unit.main) : p = <<<<"arg", a[k]>>, s[k]>>
        /\ \E l \in Retyped(unit.main) : q = <<<<"arg", a[l]>>, s[l]>>
    <3> HIDE DEF a, s
    <3> QED BY <1>9, <2>8
  <2>1. PICK k \in Retyped(unit.main) : p = <<<<"arg", a[k]>>, s[k]>>
    <3> HIDE DEF a, s
    <3> QED BY <2>9
  <2>2. PICK l \in Retyped(unit.main) : q = <<<<"arg", a[l]>>, s[l]>>
    <3> HIDE DEF a, s
    <3> QED BY <2>9
  <2>3. \A m \in Retyped(unit.main) : m \in DOMAIN unit.funcs[unit.main].params
    BY DEF Retyped
  <2>4. unit \in Modules
    BY DEF RewriterInv, BodyInv
  <2>5. /\ DOMAIN a = DOMAIN unit.funcs[unit.main].params
        /\ \A m, n \in DOMAIN a : a[m] = a[n] => m = n
    BY <2>4 DEF ModulesAssumption, WellFormed, WellFormedSymbols
  <2> HIDE DEF a, s
  <2>6. a[k] = a[l]
    BY <2>1, <2>2
  <2>7. k = l
    BY <2>3, <2>5, <2>6
  <2> QED BY <2>1, <2>2, <2>7
<1> QED BY <1>2, <1>3, <1>4, <1>5, <1>6, <1>7, <1>8, <1>9

\* No value is mapped to two types.
LEMMA MapFunction ==
    ASSUME RewriterInv, ModulesAssumption
    PROVE  MapIsFunction
<1> SUFFICES ASSUME NEW p \in map, NEW q \in map, p[1] = q[1] PROVE p[2] = q[2]
  BY DEF MapIsFunction
<1>1. map = PointerFacts /\ step = "done"
  BY DEF RewriterInv, MapInv
<1>2. \A x \in PointerFacts :
         \/ OfGlobal(x) \/ OfFunction(x) \/ OfBlock(x) \/ OfOperand(x)
         \/ OfAsm(x) \/ OfResult(x) \/ OfArgument(x) \/ OfParameter(x)
  BY <1>1, Entries
<1>3. Globals \cap Funcs = {}
  <2>1. unit \in Modules
    BY DEF RewriterInv, BodyInv
  <2> QED BY <2>1 DEF ModulesAssumption, WellFormed, WellFormedSymbols, Globals, Funcs
<1>4. \/ OfGlobal(p) /\ OfGlobal(q)
      \/ OfFunction(p) /\ OfFunction(q)
      \/ OfBlock(p) /\ OfBlock(q)
      \/ OfOperand(p) /\ OfOperand(q)
      \/ OfAsm(p) /\ OfAsm(q)
      \/ OfResult(p) /\ OfResult(q)
      \/ OfArgument(p) /\ OfArgument(q)
      \/ OfParameter(p) /\ OfParameter(q)
  BY <1>1, <1>2, <1>3, Keys
<1> QED BY <1>4, KeysType

\* What the assertions of buildPointerMap look at.
LEMMA MapAsserted ==
    ASSUME RewriterInv
    PROVE  MapAssertions
<1> DEFINE Asserted1(i) == \A k \in DOMAIN i.ops : PointerSlot(i, k) =>
                             i.ops[k] \in Ids /\ Def(i.ops[k]).op = "bitcast"
           Asserted2(i) == i.op \in {"gep", "alloca"} =>
                             \E s \in Slots : /\ s[1].op = "bitcast" /\ s[1].id[1] = "post"
                                              /\ \A t \in Slots :
                                                   t[1].ops[t[2]] = i.id <=> t = s
<1>0. MapAssertions <=> (step = "map" => \A i \in Instrs : Asserted1(i) /\ Asserted2(i))
  BY Zenon DEF MapAssertions
<1> SUFFICES ASSUME step = "map", NEW i \in Instrs PROVE Asserted1(i) /\ Asserted2(i)
  <2> HIDE DEF Asserted1, Asserted2
  <2> QED BY <1>0
<1>1. Names /\ OperandsBridged /\ "operands" \in Passed(step) /\ step # "error"
  BY DEF RewriterInv, Passed
<1>2. \A j \in Instrs : j.id[1] \in {"pre", "post"} => j.op = "bitcast" /\ DOMAIN j.ops = {1}
  <2>1. \A j \in Instrs : j.id[1] \in {"pre", "post"} => j = Cast(j.id, j.ops[1])
    BY <1>1 DEF Names
  <2>2. \A id, v : Cast(id, v).op = "bitcast" /\ DOMAIN Cast(id, v).ops = {1}
    BY CastFields
  <2> QED BY <2>1, <2>2
<1>3. ASSUME NEW k \in DOMAIN i.ops, PointerSlot(i, k)
      PROVE  i.ops[k] \in Ids /\ Def(i.ops[k]).op = "bitcast"
  <2>1. i.ops[k] = <<"pre", "operands", i.id, k>> /\ i.ops[k] \in Ids
    BY <1>1, <1>3 DEF OperandsBridged
  <2>2. \E j \in Instrs : j.id = i.ops[k]
    BY <2>1 DEF Ids
  <2>3. Def(i.ops[k]) \in Instrs /\ Def(i.ops[k]).id = i.ops[k]
    BY <2>2 DEF Def
  <2>4. Def(i.ops[k]).id[1] = "pre"
    BY <2>1, <2>3
  <2> QED BY <1>2, <2>1, <2>3, <2>4
<1>4. ASSUME i.op \in {"gep", "alloca"}
      PROVE  \E s \in Slots : /\ s[1].op = "bitcast" /\ s[1].id[1] = "post"
                              /\ \A t \in Slots : t[1].ops[t[2]] = i.id <=> t = s
  <2>1. /\ <<"post", i.id>> \in Ids
        /\ \A j \in Instrs : \A k \in DOMAIN j.ops :
             j.ops[k] = i.id => j.id = <<"post", i.id>>
    BY <1>1, <1>4 DEF OperandsBridged, Retypes
  <2>2. PICK c \in Instrs : c.id = <<"post", i.id>>
    BY <2>1 DEF Ids
  <2>3. c.op = "bitcast" /\ DOMAIN c.ops = {1} /\ c.id[1] = "post"
    BY <1>2, <2>2
  <2>4. <<c, 1>> \in Slots
    BY <2>3 DEF Slots
  <2>5. ASSUME NEW t \in Slots, t[1].ops[t[2]] = i.id PROVE t = <<c, 1>>
    <3>1. PICK j \in Instrs : \E k \in DOMAIN j.ops : t = <<j, k>>
      BY DEF Slots
    <3>2. PICK k \in DOMAIN j.ops : t = <<j, k>>
      BY <3>1
    <3>3. j.id = c.id
      BY <2>1, <2>2, <2>5, <3>2
    <3>4. j = c
      BY <1>1, <3>3 DEF Names
    <3> QED BY <2>3, <3>2, <3>4
  <2>6. c.ops[1] = i.id
    <3>1. c.id = <<"post", c.ops[1]>>
      BY <1>1, <2>3 DEF Names
    <3> QED BY <2>2, <3>1
  <2>7. \A t \in Slots : t[1].ops[t[2]] = i.id <=> t = <<c, 1>>
    BY <2>5, <2>6
  <2> QED BY <2>3, <2>4, <2>7
<1> QED BY <1>3, <1>4

\* The types of the map are enumerated, or are parts of the function's own.
LEMMA MapEnumerated ==
    ASSUME RewriterInv, ModulesAssumption
    PROVE  MapTypesEnumerated
<1> SUFFICES ASSUME Done, NEW p \in map
             PROVE  \E t \in OrderedPointerTypes : p[2] \in Parts(t)
  BY DEF MapTypesEnumerated
<1>1. map = PointerFacts /\ step = "done"
  BY DEF RewriterInv, MapInv, Done
<1>2. \A q \in map : q[1] \in Visited => q[2] \in OrderedPointerTypes
  BY DEF OrderedPointerTypes, Visited
<1>3. CASE p[1] \in Visited
  <2>1. p[2] \in Parts(p[2])
    BY DEF Parts
  <2> QED BY <1>2, <1>3, <2>1
<1>4. CASE OfParameter(p)
  <2> DEFINE f == unit.main
             sig == TypedSig(unit.funcs[f])
             q == <<<<"glob", f>>, TP(sig)>>
  <2>1. f \in Funcs
    <3>1. unit \in Modules
      BY DEF RewriterInv, BodyInv
    <3> QED BY <3>1 DEF ModulesAssumption, WellFormed, WellFormedSymbols, Funcs
  <2>2. q \in FromFunction(f)
    BY DEF FromFunction
  <2>3. q \in map
    BY <1>1, <2>1, <2>2 DEF PointerFacts
  <2>4. q[1] \in Visited
    BY <2>1 DEF Visited
  <2>5. q[2] \in OrderedPointerTypes /\ q[2] = TP(sig)
    BY <1>2, <2>3, <2>4
  <2>6. PICK k \in Retyped(f) : p = <<<<"arg", unit.funcs[f].args[k]>>, sig[3][k]>>
    BY <1>4 DEF OfParameter
  <2>7. sig[1] = "fn" /\ k \in DOMAIN sig[3]
    BY DEF TypedSig, FN, Retyped
  <2> HIDE DEF sig
  <2>8. p[2] \in Range(sig[3])
    BY <2>6, <2>7 DEF Range
  <2>9. p[2] \in Parts(TP(sig))
    BY <2>7, <2>8 DEF Parts, TP
  <2> QED BY <2>5, <2>9
<1> QED BY <1>1, <1>3, <1>4, Entries

\* The assertions of buildPointerMap hold where it makes them, what it builds
\* is a function, and its types are all enumerated: for any function whose
\* body the verifier accepts.
THEOREM MapSoundCorrect == Spec => []MapSound
<1>1. RewriterInv => MapSound
  BY MapAsserted, MapFunction, MapEnumerated, ModulesAssumption DEF MapSound
<1> QED BY <1>1, RewriterCorrect, PTL

-----------------------------------------------------------------------------
(* Where the pieces of a flattened sequence stand *)

\* Whatever is in such a sequence stands behind the beginning of the code of
\* its slot.
Runs(code, T, z) ==
    \A x \in DOMAIN z : \E s \in T : \E r \in DOMAIN code[s] :
        /\ r <= x /\ z[x] = code[s][r]
        /\ \A q \in 1 .. r : z[x - r + q] = code[s][q]

LEMMA RunsFlatten ==
    ASSUME NEW C, NEW ss \in Seq(Seq(C)), NEW code, NEW T,
           \A s \in T : code[s] \in Seq(C),
           \A n \in DOMAIN ss : Runs(code, T, ss[n])
    PROVE  Runs(code, T, FlattenSeq(ss))
<1>1. PICK off : Offsets(ss, off)
  BY OffsetsExist
<1>2. DOMAIN ss = 1 .. Len(ss) /\ \A n \in DOMAIN ss : ss[n] \in Seq(C)
  BY LenProperties, ElementOfSeq
<1>3. \A n \in DOMAIN ss : Len(ss[n]) \in Nat /\ DOMAIN ss[n] = 1 .. Len(ss[n])
  BY <1>2, LenProperties
<1> DEFINE z == FlattenSeq(ss)
<1> SUFFICES ASSUME NEW x \in DOMAIN z
             PROVE  \E s \in T : \E r \in DOMAIN code[s] :
                      /\ r <= x /\ z[x] = code[s][r]
                      /\ \A q \in 1 .. r : z[x - r + q] = code[s][q]
  BY DEF Runs
<1>4. PICK n \in DOMAIN ss : \E p \in 1 .. Len(ss[n]) : x = off[n] + p
  <2>1. \A q \in DOMAIN z : \E n \in 1 .. Len(ss) : \E p \in 1 .. Len(ss[n]) : q = off[n] + p
    BY <1>1 DEF Offsets
  <2> HIDE DEF z
  <2> QED BY <1>2, <2>1
<1>5. PICK p \in 1 .. Len(ss[n]) : x = off[n] + p
  BY <1>4
<1>6. /\ off[n] \in Nat /\ Len(ss[n]) \in Nat
      /\ \A y \in 1 .. Len(ss[n]) : z[off[n] + y] = ss[n][y]
  BY <1>1, <1>2, <1>3 DEF Offsets
<1>7. PICK s \in T : \E r \in DOMAIN code[s] :
         /\ r <= p /\ ss[n][p] = code[s][r]
         /\ \A q \in 1 .. r : ss[n][p - r + q] = code[s][q]
  <2>1. Runs(code, T, ss[n]) /\ p \in DOMAIN ss[n]
    BY <1>3
  <2> QED BY <2>1 DEF Runs
<1>8. PICK r \in DOMAIN code[s] :
         /\ r <= p /\ ss[n][p] = code[s][r]
         /\ \A q \in 1 .. r : ss[n][p - r + q] = code[s][q]
  BY <1>7
<1>9. r \in Nat /\ r >= 1
  BY LenProperties
<1> HIDE DEF z
<1>10. ASSUME NEW q \in 1 .. r PROVE z[x - r + q] = code[s][q]
  <2>1. p - r + q \in 1 .. Len(ss[n]) /\ x - r + q = off[n] + (p - r + q)
    <3> DEFINE a == off[n]
               e == Len(ss[n])
    <3>1. a \in Nat /\ e \in Nat /\ p \in 1 .. e /\ x = a + p /\ r <= p
      BY <1>5, <1>6, <1>8
    <3> HIDE DEF a, e
    <3>2. p - r + q \in 1 .. e /\ x - r + q = a + (p - r + q)
      BY <1>9, <3>1
    <3> QED BY <3>2 DEF a, e
  <2> QED BY <1>6, <1>8, <2>1
<1>11. r <= x /\ z[x] = code[s][r]
  BY <1>5, <1>6, <1>8, <1>9
<1> QED BY <1>10, <1>11

\* The code of one slot is such a sequence, ...
LEMMA CodeAtRuns ==
    ASSUME NEW C, NEW code, \A s \in DOMAIN code : code[s] \in Seq(C), NEW T,
           NEW i, NEW k, <<i, k>> \in DOMAIN code => <<i, k>> \in T
    PROVE  Runs(code, T, CodeAt(code, i, k)) /\ Runs(code, T, <<>>)
<1>1. Runs(code, T, <<>>)
  BY DEF Runs
<1>2. CASE <<i, k>> \in DOMAIN code
  <2> DEFINE s == <<i, k>>
  <2>1. CodeAt(code, i, k) = code[s] /\ s \in T /\ code[s] \in Seq(C)
    BY <1>2 DEF CodeAt
  <2> HIDE DEF s
  <2>2. \A x \in DOMAIN code[s] : x \in Nat
    BY <2>1, LenProperties
  <2>3. ASSUME NEW x \in DOMAIN code[s], NEW q \in 1 .. x PROVE x - x + q = q
    BY <2>2
  <2>4. Runs(code, T, code[s])
    BY <2>1, <2>2, <2>3 DEF Runs
  <2> QED BY <1>1, <2>1, <2>4
<1>3. CASE <<i, k>> \notin DOMAIN code
  BY <1>1, <1>3 DEF CodeAt
<1> QED BY <1>2, <1>3

\* ... and so is what stands before an instruction ...
LEMMA BeforeRuns ==
    ASSUME NEW C, NEW code, \A s \in DOMAIN code : code[s] \in Seq(C),
           NEW i, Instruction(i),
           NEW T, T \subseteq DOMAIN code,
           \A k : i.op # "phi" /\ <<i, k>> \in DOMAIN code => <<i, k>> \in T
    PROVE  Runs(code, T, Before(code, i))
<1>1. CASE i.op = "phi"
  BY <1>1 DEF Before, Runs
<1>2. CASE i.op # "phi"
  <2> DEFINE ss == [k \in DOMAIN i.ops |-> CodeAt(code, i, k)]
             n == Len(i.ops)
  <2>1. n \in Nat /\ DOMAIN i.ops = 1 .. n
    BY LenProperties DEF Instruction
  <2>2. \A k : CodeAt(code, i, k) \in Seq(C)
    BY CodeAtSequence
  <2>3. \A k : Runs(code, T, CodeAt(code, i, k))
    BY <1>2, CodeAtRuns
  <2>4. DOMAIN ss = 1 .. n /\ ss = [k \in 1 .. n |-> ss[k]]
        /\ \A k \in 1 .. n : ss[k] \in Seq(C) /\ Runs(code, T, ss[k])
    BY <2>1, <2>2, <2>3
  <2>5. Before(code, i) = FlattenSeq(ss)
    BY <1>2 DEF Before
  <2> HIDE DEF ss, n
  <2>6. ss \in Seq(Seq(C))
    BY <2>1, <2>4, IsSequence
  <2>7. Runs(code, T, FlattenSeq(ss))
    <3>1. \A s \in T : code[s] \in Seq(C)
      OBVIOUS
    <3>2. \A k \in DOMAIN ss : Runs(code, T, ss[k])
      BY <2>4
    <3> QED BY <2>6, <3>1, <3>2, RunsFlatten
  <2> QED BY <2>5, <2>7
<1> QED BY <1>1, <1>2

\* ... and at the end of a block, where the code of all its phi uses is.
LEMMA AtEndRuns ==
    ASSUME NEW C, NEW code, \A s \in DOMAIN code : code[s] \in Seq(C),
           BodyInv, ModulesAssumption, NEW b,
           NEW T, T \subseteq DOMAIN code,
           \A i \in Instrs : \A k \in DOMAIN i.inc :
              i.inc[k] = b /\ <<i, k>> \in DOMAIN code => <<i, k>> \in T
    PROVE  /\ AtEnd(code, b) \in Seq(C) /\ Runs(code, T, AtEnd(code, b))
           /\ \A i \in Instrs : \A k \in DOMAIN i.inc :
                i.inc[k] = b /\ <<i, k>> \in DOMAIN code =>
                  \A e \in Range(code[<<i, k>>]) : e \in Range(AtEnd(code, b))
<1> DEFINE For(i, k) == IF i.inc[k] = b THEN CodeAt(code, i, k) ELSE <<>>
           Phi(i) == FlattenSeq([k \in DOMAIN i.inc |-> For(i, k)])
           Block(d) == FlattenSeq([j \in DOMAIN body[d] |-> Phi(body[d][j])])
           All == FlattenSeq([n \in DOMAIN unit.layout |-> Block(unit.layout[n])])
           Needs(i, e) == \E k \in DOMAIN i.inc : /\ i.inc[k] = b /\ <<i, k>> \in DOMAIN code
                                                   /\ e \in Range(code[<<i, k>>])
           Coded(z) == z \in Seq(C) /\ Runs(code, T, z)
<1>1. AtEnd(code, b) = All
  BY DEF AtEnd
<1>2. unit.layout \in Seq(DOMAIN body) /\ Range(unit.layout) = DOMAIN body
  BY DEF BodyInv, ModulesAssumption, WellFormed, WellFormedBody
<1>3. ASSUME NEW i \in Instrs, NEW k \in DOMAIN i.inc
      PROVE  /\ Coded(For(i, k))
             /\ i.inc[k] = b /\ <<i, k>> \in DOMAIN code =>
                  \A e \in Range(code[<<i, k>>]) : e \in Range(For(i, k))
  <2>1. CASE i.inc[k] = b
    <3>1. For(i, k) = CodeAt(code, i, k)
      BY <2>1
    <3> HIDE DEF For
    <3>2. <<i, k>> \in DOMAIN code => <<i, k>> \in T
      BY <2>1
    <3>3. CodeAt(code, i, k) \in Seq(C) /\ Runs(code, T, CodeAt(code, i, k))
      BY <3>2, CodeAtSequence, CodeAtRuns
    <3>4. <<i, k>> \in DOMAIN code => CodeAt(code, i, k) = code[<<i, k>>]
      BY DEF CodeAt
    <3> QED BY <3>1, <3>3, <3>4
  <2>2. CASE i.inc[k] # b
    <3>1. For(i, k) = <<>>
      BY <2>2
    <3>2. <<>> \in Seq(C) /\ Runs(code, T, <<>>)
      BY EmptySeq DEF Runs
    <3> QED BY <2>2, <3>1, <3>2
  <2> QED BY <2>1, <2>2
<1> HIDE DEF For
<1>4. ASSUME NEW n \in Nat, NEW ss, DOMAIN ss = 1 .. n, ss = [k \in 1 .. n |-> ss[k]],
             \A k \in 1 .. n : Coded(ss[k])
      PROVE  /\ Coded(FlattenSeq(ss))
             /\ \A k \in 1 .. n : \A e \in Range(ss[k]) : e \in Range(FlattenSeq(ss))
  <2>1. ss \in Seq(Seq(C))
    BY <1>4, IsSequence
  <2>2. \A s \in T : code[s] \in Seq(C)
    OBVIOUS
  <2>3. \A k \in DOMAIN ss : Runs(code, T, ss[k])
    BY <1>4
  <2>4. Runs(code, T, FlattenSeq(ss))
    BY <2>1, <2>2, <2>3, RunsFlatten
  <2>5. /\ FlattenSeq(ss) \in Seq(C)
        /\ \A e : e \in Range(FlattenSeq(ss)) <=> \E k \in DOMAIN ss : e \in Range(ss[k])
    BY <2>1, RangeFlatten
  <2> QED BY <1>4, <2>4, <2>5
<1> HIDE DEF Coded
<1>5. ASSUME NEW i \in Instrs
      PROVE  Coded(Phi(i)) /\ \A e : Needs(i, e) => e \in Range(Phi(i))
  <2> DEFINE ss == [k \in DOMAIN i.inc |-> For(i, k)]
             n == Len(i.inc)
  <2>1. n \in Nat /\ DOMAIN i.inc = 1 .. n
    BY LenProperties DEF Instruction, BodyInv
  <2>2. DOMAIN ss = 1 .. n /\ ss = [k \in 1 .. n |-> ss[k]]
        /\ \A k \in 1 .. n : ss[k] = For(i, k) /\ Coded(ss[k])
    BY <1>3, <2>1
  <2> HIDE DEF ss, n
  <2>3. /\ Coded(FlattenSeq(ss))
        /\ \A k \in 1 .. n : \A e \in Range(ss[k]) : e \in Range(FlattenSeq(ss))
    BY <1>4, <2>1, <2>2
  <2>4. ASSUME NEW e, Needs(i, e) PROVE e \in Range(FlattenSeq(ss))
    <3>1. PICK k \in DOMAIN i.inc : /\ i.inc[k] = b /\ <<i, k>> \in DOMAIN code
                                     /\ e \in Range(code[<<i, k>>])
      BY <2>4
    <3>2. e \in Range(For(i, k))
      BY <1>3, <3>1
    <3> QED BY <2>1, <2>2, <2>3, <3>2
  <2> QED BY <2>3, <2>4 DEF ss
<1> HIDE DEF Phi, Needs
<1>6. ASSUME NEW d \in DOMAIN body
      PROVE  Coded(Block(d))
             /\ \A i \in Range(body[d]) : \A e : Needs(i, e) => e \in Range(Block(d))
  <2> DEFINE ss == [j \in DOMAIN body[d] |-> Phi(body[d][j])]
             n == Len(body[d])
  <2>1. n \in Nat /\ DOMAIN body[d] = 1 .. n
    BY LenProperties DEF BodyInv
  <2>2. \A j \in 1 .. n : body[d][j] \in Instrs
    BY <2>1 DEF Instrs, Range
  <2>3. DOMAIN ss = 1 .. n /\ ss = [k \in 1 .. n |-> ss[k]]
        /\ \A k \in 1 .. n : ss[k] = Phi(body[d][k]) /\ Coded(ss[k])
    BY <1>5, <2>1, <2>2
  <2> HIDE DEF ss, n
  <2>4. /\ Coded(FlattenSeq(ss))
        /\ \A k \in 1 .. n : \A e \in Range(ss[k]) : e \in Range(FlattenSeq(ss))
    BY <1>4, <2>1, <2>3
  <2>5. ASSUME NEW i \in Range(body[d]), NEW e, Needs(i, e)
        PROVE  e \in Range(FlattenSeq(ss))
    <3>1. PICK j \in 1 .. n : i = body[d][j]
      BY <2>1 DEF Range
    <3>2. e \in Range(ss[j])
      BY <1>5, <2>2, <2>3, <2>5, <3>1
    <3> QED BY <2>4, <3>2
  <2> QED BY <2>4, <2>5 DEF ss
<1> HIDE DEF Block
<1> DEFINE ss == [m \in DOMAIN unit.layout |-> Block(unit.layout[m])]
           n == Len(unit.layout)
<1>7. n \in Nat /\ DOMAIN unit.layout = 1 .. n
      /\ \A m \in 1 .. n : unit.layout[m] \in DOMAIN body
  BY <1>2, LenProperties, ElementOfSeq
<1>8. DOMAIN ss = 1 .. n /\ ss = [k \in 1 .. n |-> ss[k]]
      /\ \A k \in 1 .. n : ss[k] = Block(unit.layout[k]) /\ Coded(ss[k])
  BY <1>6, <1>7
<1>9. All = FlattenSeq(ss)
  OBVIOUS
<1> HIDE DEF ss, n, All
<1>10. /\ Coded(FlattenSeq(ss))
       /\ \A k \in 1 .. n : \A e \in Range(ss[k]) : e \in Range(FlattenSeq(ss))
  BY <1>4, <1>7, <1>8
<1>11. ASSUME NEW i \in Instrs, NEW e, Needs(i, e) PROVE e \in Range(AtEnd(code, b))
  <2>1. PICK d \in DOMAIN body : i \in Range(body[d])
    BY DEF Instrs
  <2>2. PICK m \in 1 .. n : unit.layout[m] = d
    BY <1>2, <1>7 DEF Range
  <2>3. e \in Range(Block(d))
    BY <1>6, <1>11, <2>1
  <2>4. e \in Range(ss[m])
    BY <1>8, <2>2, <2>3
  <2> QED BY <1>1, <1>9, <1>10, <2>4
<1> QED BY <1>1, <1>9, <1>10, <1>11 DEF Coded, Needs

-----------------------------------------------------------------------------
(* Where the instructions of a rewritten body stand *)

\* Only phis have incoming blocks, one for each operand.
PhisInv ==
    \A i \in Instrs :
        /\ i.op = "phi" => /\ DOMAIN i.inc = DOMAIN i.ops
                           /\ \A k \in DOMAIN i.inc : i.inc[k] \in DOMAIN body
        /\ i.op # "phi" => DOMAIN i.inc = {}

\* What stands behind place o for instruction i: l instructions of the code of
\* slots, each behind what comes before it in its code, then i, then its cast.
Width(after, i) == IF i.id \in after THEN 2 ELSE 1
Inserted(code, after, w, i, o, x) ==
    \E s \in DOMAIN code : \E r \in DOMAIN code[s] :
        /\ r <= x
        /\ s[1].op = "phi" \/ s[1] = i
        /\ w[o + x] = MovedInstr(after, code[s][r])
        /\ \A q \in 1 .. r : w[o + (x - r + q)] = MovedInstr(after, code[s][q])
Found(after, w, o, l, c) ==
    \A e \in Range(c) : \E x \in 1 .. l : w[o + x] = MovedInstr(after, e)
Standing(code, after, w, i, o, l) ==
    /\ \A p \in 1 .. l + Width(after, i) : o + p \in DOMAIN w
    /\ \A x \in 1 .. l : Inserted(code, after, w, i, o, x)
    /\ w[o + (l + 1)] = New(code, after, i)
    /\ i.id \in after => w[o + (l + 2)] = PostCast(i)
    /\ i.op # "phi" => \A k \in DOMAIN i.ops :
         <<i, k>> \in DOMAIN code => Found(after, w, o, l, code[<<i, k>>])
EndStanding(code, after, w, b, o, l) ==
    \A i \in Instrs : \A k \in DOMAIN i.inc :
        i.inc[k] = b /\ <<i, k>> \in DOMAIN code => Found(after, w, o, l, code[<<i, k>>])

\* A moved sequence.
LEMMA MovedAt ==
    ASSUME NEW C, NEW s \in Seq(C), NEW after
    PROVE  /\ Len(Moved(after, s)) = Len(s) /\ Len(s) \in Nat
           /\ DOMAIN s = 1 .. Len(s) /\ DOMAIN Moved(after, s) = 1 .. Len(s)
           /\ \A x \in 1 .. Len(s) : Moved(after, s)[x] = MovedInstr(after, s[x])
<1> DEFINE T == {MovedInstr(after, e) : e \in C}
           m == Moved(after, s)
<1>1. m = [k \in DOMAIN s |-> MovedInstr(after, s[k])]
  BY DEF Moved, MovedInstr
<1>2. Len(s) \in Nat /\ DOMAIN s = 1 .. Len(s)
  BY LenProperties
<1>3. m \in Seq(T)
  BY MovedElements
<1> HIDE DEF m, T
<1>4. DOMAIN m = DOMAIN s /\ DOMAIN m = 1 .. Len(m) /\ Len(m) \in Nat
  BY <1>1, <1>3, LenProperties
<1>5. Len(m) = Len(s)
  BY <1>2, <1>4
<1>6. \A x \in 1 .. Len(s) : m[x] = MovedInstr(after, s[x])
  BY <1>1, <1>2
<1> QED BY <1>2, <1>4, <1>5, <1>6 DEF m

\* What is inserted is so in a longer sequence, ...
LEMMA InsertedShifted ==
    ASSUME NEW code, NEW after, NEW i, NEW z, NEW w, NEW o \in Nat, NEW x \in Nat,
           \A s \in DOMAIN code : \A r \in DOMAIN code[s] : r \in Nat /\ r >= 1,
           Inserted(code, after, z, i, 0, x),
           \A y \in 1 .. x : w[o + y] = z[y]
    PROVE  /\ Inserted(code, after, w, i, o, x)
           /\ Inserted(code, after, w, i, 0, o + x)
<1>1. PICK s \in DOMAIN code : \E r \in DOMAIN code[s] :
         /\ r <= x
         /\ s[1].op = "phi" \/ s[1] = i
         /\ z[0 + x] = MovedInstr(after, code[s][r])
         /\ \A q \in 1 .. r : z[0 + (x - r + q)] = MovedInstr(after, code[s][q])
  BY DEF Inserted
<1>2. PICK r \in DOMAIN code[s] :
         /\ r <= x
         /\ s[1].op = "phi" \/ s[1] = i
         /\ z[0 + x] = MovedInstr(after, code[s][r])
         /\ \A q \in 1 .. r : z[0 + (x - r + q)] = MovedInstr(after, code[s][q])
  BY <1>1
<1>3. r \in Nat /\ r >= 1 /\ r <= x
  BY <1>2
<1>4. \A y \in 1 .. x : z[0 + y] = w[o + y] /\ w[0 + (o + y)] = w[o + y]
  <2> TAKE y \in 1 .. x
  <2>1. 0 + y = y /\ 0 + (o + y) = o + y
    OBVIOUS
  <2> QED BY <2>1
<1>5. ASSUME NEW q \in 1 .. r
      PROVE  /\ w[o + (x - r + q)] = MovedInstr(after, code[s][q])
             /\ w[0 + ((o + x) - r + q)] = MovedInstr(after, code[s][q])
  <2>1. x - r + q \in 1 .. x /\ (o + x) - r + q = o + (x - r + q)
    BY <1>3
  <2>2. z[0 + (x - r + q)] = MovedInstr(after, code[s][q])
    BY <1>2
  <2> QED BY <1>4, <2>1, <2>2
<1>6. r <= o + x
  BY <1>3
<1>7. /\ w[o + x] = MovedInstr(after, code[s][r])
      /\ w[0 + (o + x)] = MovedInstr(after, code[s][r])
  <2>1. x \in 1 .. x
    BY <1>3
  <2> QED BY <1>2, <1>4, <2>1
<1>8. Inserted(code, after, w, i, o, x)
  BY <1>2, <1>5, <1>7 DEF Inserted
<1>9. Inserted(code, after, w, i, 0, o + x)
  BY <1>2, <1>5, <1>6, <1>7 DEF Inserted
<1> QED BY <1>8, <1>9

\* ... and what is moved as a sequence is.
LEMMA RunsInserted ==
    ASSUME NEW C, NEW code, NEW after, NEW i, NEW s \in Seq(C),
           \A t \in DOMAIN code : \A r \in DOMAIN code[t] : r \in Nat /\ r >= 1,
           NEW T, T \subseteq DOMAIN code, \A t \in T : t[1].op = "phi" \/ t[1] = i,
           Runs(code, T, s), NEW x \in 1 .. Len(s)
    PROVE  Inserted(code, after, Moved(after, s), i, 0, x)
<1>1. /\ Len(s) \in Nat /\ DOMAIN s = 1 .. Len(s)
      /\ \A y \in 1 .. Len(s) : Moved(after, s)[y] = MovedInstr(after, s[y])
  BY MovedAt
<1>2. PICK t \in T : \E r \in DOMAIN code[t] :
         /\ r <= x /\ s[x] = code[t][r]
         /\ \A q \in 1 .. r : s[x - r + q] = code[t][q]
  BY <1>1 DEF Runs
<1>3. PICK r \in DOMAIN code[t] :
         /\ r <= x /\ s[x] = code[t][r]
         /\ \A q \in 1 .. r : s[x - r + q] = code[t][q]
  BY <1>2
<1> DEFINE n == Len(s)
           m == Moved(after, s)
<1>4. r \in Nat /\ r >= 1 /\ r <= x /\ n \in Nat /\ x \in 1 .. n
  BY <1>1, <1>3
<1>5. \A y \in 1 .. n : m[y] = MovedInstr(after, s[y])
  BY <1>1
<1> HIDE DEF n, m
<1>6. ASSUME NEW q \in 1 .. r
      PROVE  m[0 + (x - r + q)] = MovedInstr(after, code[t][q])
  <2>1. x - r + q \in 1 .. n /\ 0 + (x - r + q) = x - r + q
    BY <1>4
  <2>2. s[x - r + q] = code[t][q]
    BY <1>3
  <2> QED BY <1>5, <2>1, <2>2
<1>7. m[0 + x] = MovedInstr(after, code[t][r])
  <2>1. 0 + x = x
    BY <1>4
  <2> QED BY <1>3, <1>4, <1>5, <2>1
<1>8. t \in DOMAIN code /\ (t[1].op = "phi" \/ t[1] = i)
  OBVIOUS
<1> QED BY <1>4, <1>6, <1>7, <1>8 DEF Inserted, m

\* The same pieces stand in a longer sequence.
LEMMA StandingShifted ==
    ASSUME NEW code, NEW after, NEW i, NEW l \in Nat, NEW z, NEW w, NEW o \in Nat,
           \A s \in DOMAIN code : \A r \in DOMAIN code[s] : r \in Nat /\ r >= 1,
           Standing(code, after, z, i, 0, l),
           \A p \in 1 .. l + Width(after, i) : o + p \in DOMAIN w /\ w[o + p] = z[p]
    PROVE  /\ Standing(code, after, w, i, o, l)
           /\ \A c : Found(after, z, 0, l, c) => Found(after, w, o, l, c)
<1> DEFINE N == l + Width(after, i)
<1>1. N \in Nat /\ l + 1 <= N /\ (i.id \in after => l + 2 <= N)
  <2>1. Width(after, i) \in {1, 2} /\ (i.id \in after => Width(after, i) = 2)
    BY DEF Width
  <2> DEFINE w1 == Width(after, i)
  <2> HIDE DEF w1
  <2>2. l + w1 \in Nat /\ l + 1 <= l + w1 /\ (i.id \in after => l + 2 <= l + w1)
    BY <2>1 DEF w1
  <2> QED BY <2>2 DEF w1
<1>2. \A p \in 1 .. N : o + p \in DOMAIN w /\ z[0 + p] = w[o + p]
  <2> SUFFICES ASSUME NEW p \in 1 .. N PROVE o + p \in DOMAIN w /\ z[0 + p] = w[o + p]
    OBVIOUS
  <2>1. o + p \in DOMAIN w /\ w[o + p] = z[p]
    OBVIOUS
  <2>2. 0 + p = p
    <3> HIDE DEF N
    <3> QED BY <1>1
  <2> QED BY <2>1, <2>2
<1> HIDE DEF N
<1>3. ASSUME NEW x \in 1 .. l PROVE Inserted(code, after, w, i, o, x)
  <2>1. Inserted(code, after, z, i, 0, x)
    BY DEF Standing
  <2>2. x \in Nat /\ x <= N
    BY <1>1
  <2>3. \A y \in 1 .. x : y \in 1 .. N /\ 0 + y = y
    BY <1>1, <2>2
  <2>4. \A y \in 1 .. x : w[o + y] = z[y]
    BY <1>2, <2>3
  <2> QED BY <2>1, <2>2, <2>4, InsertedShifted
<1>4. ASSUME NEW c, Found(after, z, 0, l, c) PROVE Found(after, w, o, l, c)
  <2> SUFFICES ASSUME NEW e \in Range(c)
               PROVE  \E x \in 1 .. l : w[o + x] = MovedInstr(after, e)
    BY DEF Found
  <2>1. PICK x \in 1 .. l : z[0 + x] = MovedInstr(after, e)
    BY <1>4 DEF Found
  <2>2. x \in 1 .. N
    BY <1>1
  <2> QED BY <1>2, <2>1, <2>2
<1>5. w[o + (l + 1)] = New(code, after, i)
  <2>1. l + 1 \in 1 .. N
    BY <1>1
  <2>2. z[0 + (l + 1)] = New(code, after, i)
    BY DEF Standing
  <2> QED BY <1>2, <2>1, <2>2
<1>6. ASSUME i.id \in after PROVE w[o + (l + 2)] = PostCast(i)
  <2>1. l + 2 \in 1 .. N
    BY <1>1, <1>6
  <2>2. z[0 + (l + 2)] = PostCast(i)
    BY <1>6 DEF Standing
  <2> QED BY <1>2, <2>1, <2>2
<1>7. i.op # "phi" => \A k \in DOMAIN i.ops :
         <<i, k>> \in DOMAIN code => Found(after, w, o, l, code[<<i, k>>])
  BY <1>4 DEF Standing
<1> QED BY <1>2, <1>3, <1>4, <1>5, <1>6, <1>7 DEF Standing, N

\* What four sequences make up.
LEMMA FourPlaces ==
    ASSUME NEW S, NEW p1 \in Seq(S), NEW p2 \in Seq(S), NEW p3 \in Seq(S),
           NEW p4 \in Seq(S), NEW z, z = ((p1 \o p2) \o p3) \o p4
    PROVE  /\ z \in Seq(S) /\ Len(z) = Len(p1) + Len(p2) + Len(p3) + Len(p4)
           /\ \A x \in 1 .. Len(p1) : z[x] = p1[x]
           /\ \A x \in 1 .. Len(p2) : z[Len(p1) + x] = p2[x]
           /\ \A x \in 1 .. Len(p3) : z[Len(p1) + Len(p2) + x] = p3[x]
           /\ \A x \in 1 .. Len(p4) : z[Len(p1) + Len(p2) + Len(p3) + x] = p4[x]
<1> DEFINE a1 == Len(p1)
           a2 == Len(p2)
           a3 == Len(p3)
           a4 == Len(p4)
           y == p1 \o p2
           w == y \o p3
<1>1. a1 \in Nat /\ a2 \in Nat /\ a3 \in Nat /\ a4 \in Nat
  BY LenProperties
<1>2. /\ y \in Seq(S) /\ Len(y) = a1 + a2
      /\ \A x \in 1 .. a1 : y[x] = p1[x]
      /\ \A x \in 1 .. a2 : y[a1 + x] = p2[x]
  BY JoinPlaces, ConcatProperties
<1>3. z = w \o p4
  OBVIOUS
<1> HIDE DEF y
<1>4. /\ w \in Seq(S) /\ Len(w) = Len(y) + a3
      /\ \A x \in 1 .. Len(y) : w[x] = y[x]
      /\ \A x \in 1 .. a3 : w[Len(y) + x] = p3[x]
  <2>1. y \in Seq(S)
    BY <1>2
  <2> QED BY <2>1, JoinPlaces, ConcatProperties
<1> HIDE DEF w
<1>5. /\ z \in Seq(S) /\ Len(z) = Len(w) + a4
      /\ \A x \in 1 .. Len(w) : z[x] = w[x]
      /\ \A x \in 1 .. a4 : z[Len(w) + x] = p4[x]
  <2>1. w \in Seq(S)
    BY <1>4
  <2>2. /\ w \o p4 \in Seq(S) /\ Len(w \o p4) = Len(w) + Len(p4)
        /\ \A x \in 1 .. Len(w) : (w \o p4)[x] = w[x]
        /\ \A x \in 1 .. Len(p4) : (w \o p4)[Len(w) + x] = p4[x]
    BY <2>1, JoinPlaces, ConcatProperties
  <2> QED BY <1>3, <2>2
<1> HIDE DEF a1, a2, a3, a4
<1>6. Len(y) = a1 + a2 /\ Len(w) = a1 + a2 + a3 /\ Len(z) = a1 + a2 + a3 + a4
  BY <1>2, <1>4, <1>5
<1>7. ASSUME NEW x \in 1 .. a1 PROVE z[x] = p1[x]
  <2>1. x \in 1 .. a1 + a2 /\ x \in 1 .. a1 + a2 + a3
    BY <1>1
  <2> QED BY <1>2, <1>4, <1>5, <1>6, <2>1
<1>8. ASSUME NEW x \in 1 .. a2 PROVE z[a1 + x] = p2[x]
  <2>1. a1 + x \in 1 .. a1 + a2 /\ a1 + x \in 1 .. a1 + a2 + a3
    BY <1>1
  <2> QED BY <1>2, <1>4, <1>5, <1>6, <2>1
<1>9. ASSUME NEW x \in 1 .. a3 PROVE z[a1 + a2 + x] = p3[x]
  <2>1. a1 + a2 + x \in 1 .. a1 + a2 + a3
    BY <1>1
  <2> QED BY <1>4, <1>5, <1>6, <2>1
<1>10. \A x \in 1 .. a4 : z[a1 + a2 + a3 + x] = p4[x]
  BY <1>5, <1>6
<1> QED BY <1>5, <1>6, <1>7, <1>8, <1>9, <1>10 DEF a1, a2, a3, a4

\* How a piece is laid out.
PieceLaid(code, after, b, n, i, z, l) ==
    /\ Len(z) = l + Width(after, i) /\ Standing(code, after, z, i, 0, l)
    /\ n = Len(body[b]) => EndStanding(code, after, z, b, 0, l)
    /\ i.op = "phi" /\ n # Len(body[b]) => l = 0

LEMMA PieceStanding ==
    ASSUME NEW C, NEW code, \A s \in DOMAIN code : code[s] \in Seq(C), NEW after,
           BodyInv, ModulesAssumption, PhisInv,
           NEW b \in DOMAIN body, NEW n \in DOMAIN body[b],
           NEW i, i = body[b][n], NEW z, z = Piece(code, after, b, n)
    PROVE  \E l \in Nat : PieceLaid(code, after, b, n, i, z, l)
<1> DEFINE M == {MovedInstr(after, e) : e \in C}
           c == PostCast(i)
           S == M \cup {New(code, after, i), c}
           atEnd == AtEnd(code, b)
           before == Before(code, i)
           p1 == IF n = Len(body[b]) THEN Moved(after, atEnd) ELSE <<>>
           p2 == Moved(after, before)
           p3 == <<New(code, after, i)>>
           p4 == Appended(after, i)
           T1 == {s \in DOMAIN code : s[1].op = "phi"}
           T2 == {s \in DOMAIN code : s[1] = i}
<1>1. i \in Instrs /\ Instruction(i)
  BY DEF BodyInv, Instrs, Range
<1>2. z = ((p1 \o p2) \o p3) \o p4
  BY DEF Piece
<1>3. \A t \in DOMAIN code : \A r \in DOMAIN code[t] : r \in Nat /\ r >= 1
  <2> TAKE t \in DOMAIN code
  <2>1. Len(code[t]) \in Nat /\ DOMAIN code[t] = 1 .. Len(code[t])
    BY LenProperties
  <2> QED BY <2>1
<1>4. /\ atEnd \in Seq(C) /\ Runs(code, T1, atEnd)
      /\ \A j \in Instrs : \A k \in DOMAIN j.inc : j.inc[k] = b /\ <<j, k>> \in DOMAIN code =>
           \A e \in Range(code[<<j, k>>]) : e \in Range(atEnd)
  <2>1. T1 \subseteq DOMAIN code
    OBVIOUS
  <2>2. \A j \in Instrs : \A k \in DOMAIN j.inc :
           j.inc[k] = b /\ <<j, k>> \in DOMAIN code => <<j, k>> \in T1
    BY DEF PhisInv
  <2> HIDE DEF T1
  <2> QED BY <2>1, <2>2, AtEndRuns
<1>5. before \in Seq(C) /\ Runs(code, T2, before)
  <2>1. T2 \subseteq DOMAIN code
    OBVIOUS
  <2>2. \A k : i.op # "phi" /\ <<i, k>> \in DOMAIN code => <<i, k>> \in T2
    OBVIOUS
  <2> HIDE DEF T2
  <2>3. Runs(code, T2, Before(code, i))
    BY <1>1, <2>1, <2>2, BeforeRuns
  <2>4. Before(code, i) \in Seq(C)
    BY <1>1, BeforeElements
  <2> QED BY <2>3, <2>4
<1>6. i.op # "phi" => \A k \in DOMAIN i.ops : <<i, k>> \in DOMAIN code =>
         \A e \in Range(code[<<i, k>>]) : e \in Range(before)
  BY <1>1, BeforeElements
<1>7. i.op = "phi" => before = <<>>
  BY DEF Before
<1>8. \A s \in T1 : s \in DOMAIN code /\ s[1].op = "phi"
  OBVIOUS
<1>9. \A s \in T2 : s \in DOMAIN code /\ s[1] = i
  OBVIOUS
<1> HIDE DEF T1, T2, atEnd, before
<1>10. \A q \in Seq(C) : Moved(after, q) \in Seq(M)
  BY MovedElements
<1>11. ASSUME NEW q \in Seq(C)
       PROVE  /\ Len(Moved(after, q)) = Len(q) /\ Len(q) \in Nat
              /\ \A e \in Range(q) : \E x \in 1 .. Len(q) :
                   Moved(after, q)[x] = MovedInstr(after, e)
  <2>1. /\ Len(Moved(after, q)) = Len(q) /\ Len(q) \in Nat /\ DOMAIN q = 1 .. Len(q)
        /\ \A x \in 1 .. Len(q) : Moved(after, q)[x] = MovedInstr(after, q[x])
    BY MovedAt
  <2> QED BY <2>1 DEF Range
<1> DEFINE a == Len(p1)
           k2 == Len(p2)
<1>12. /\ p1 \in Seq(M) /\ a \in Nat
       /\ \A x \in 1 .. a : Inserted(code, after, p1, i, 0, x)
       /\ n # Len(body[b]) => a = 0
       /\ n = Len(body[b]) => \A e \in Range(atEnd) : \E x \in 1 .. a :
                                p1[x] = MovedInstr(after, e)
  <2>1. CASE n = Len(body[b])
    <3>1. p1 = Moved(after, atEnd) /\ a = Len(atEnd)
      BY <1>4, <1>11, <2>1
    <3>2. \A x \in 1 .. Len(atEnd) : Inserted(code, after, Moved(after, atEnd), i, 0, x)
      <4>1. \A s \in T1 : s[1].op = "phi" \/ s[1] = i
        BY <1>8
      <4>2. T1 \subseteq DOMAIN code /\ Runs(code, T1, atEnd) /\ atEnd \in Seq(C)
        BY <1>4, <1>8
      <4> QED BY <1>3, <4>1, <4>2, RunsInserted
    <3> HIDE DEF p1
    <3> QED BY <1>4, <1>10, <1>11, <2>1, <3>1, <3>2
  <2>2. CASE n # Len(body[b])
    <3>1. p1 = <<>> /\ a = 0
      BY <2>2
    <3>2. <<>> \in Seq(M)
      BY EmptySeq
    <3> HIDE DEF p1, a, M
    <3> QED BY <2>2, <3>1, <3>2
  <2> QED BY <2>1, <2>2
<1>13. /\ p2 \in Seq(M) /\ k2 \in Nat
       /\ \A x \in 1 .. k2 : Inserted(code, after, p2, i, 0, x)
       /\ i.op = "phi" => k2 = 0
       /\ \A e \in Range(before) : \E x \in 1 .. k2 : p2[x] = MovedInstr(after, e)
  <2>1. k2 = Len(before)
    BY <1>5, <1>11
  <2>2. \A x \in 1 .. Len(before) : Inserted(code, after, p2, i, 0, x)
    <3>1. \A s \in T2 : s[1].op = "phi" \/ s[1] = i
      BY <1>9
    <3>2. T2 \subseteq DOMAIN code /\ Runs(code, T2, before) /\ before \in Seq(C)
      BY <1>5, <1>9
    <3> QED BY <1>3, <3>1, <3>2, RunsInserted
  <2>3. before = <<>> => Len(before) = 0
    OBVIOUS
  <2> HIDE DEF M
  <2> QED BY <1>5, <1>7, <1>10, <1>11, <2>1, <2>2, <2>3
<1>14. p3 \in Seq(S) /\ Len(p3) = 1 /\ p3[1] = New(code, after, i)
  <2>1. New(code, after, i) \in S
    OBVIOUS
  <2> HIDE DEF S
  <2> QED BY <2>1
<1>15. /\ p4 \in Seq(S) /\ 1 + Len(p4) = Width(after, i)
       /\ i.id \in after => Len(p4) = 1 /\ p4[1] = c
  <2>1. c \in S
    OBVIOUS
  <2>2. p4 = IF i.id \in after THEN <<c>> ELSE <<>>
    BY DEF Appended, PostCast
  <2> HIDE DEF S, c, p4
  <2> QED BY <2>1, <2>2 DEF Width
<1>16. p1 \in Seq(S) /\ p2 \in Seq(S)
  <2>1. M \subseteq S
    OBVIOUS
  <2> HIDE DEF S, M, p1, p2
  <2> QED BY <1>12, <1>13, <2>1, SeqMonotonic
<1> HIDE DEF p1, p2, p3, p4, S, c, M
<1>17. /\ Len(z) = a + k2 + 1 + Len(p4)
       /\ \A x \in 1 .. a : z[x] = p1[x]
       /\ \A x \in 1 .. k2 : z[a + x] = p2[x]
       /\ z[a + k2 + 1] = New(code, after, i)
       /\ i.id \in after => z[a + k2 + 1 + 1] = c
  <2>1. /\ Len(z) = Len(p1) + Len(p2) + Len(p3) + Len(p4)
        /\ \A x \in 1 .. Len(p1) : z[x] = p1[x]
        /\ \A x \in 1 .. Len(p2) : z[Len(p1) + x] = p2[x]
        /\ \A x \in 1 .. Len(p3) : z[Len(p1) + Len(p2) + x] = p3[x]
        /\ \A x \in 1 .. Len(p4) : z[Len(p1) + Len(p2) + Len(p3) + x] = p4[x]
    <3>1. p1 \in Seq(S) /\ p2 \in Seq(S) /\ p3 \in Seq(S) /\ p4 \in Seq(S)
      BY <1>14, <1>15, <1>16
    <3> QED BY <1>2, <3>1, FourPlaces, SMTT(30)
  <2>2. 1 \in 1 .. 1
    OBVIOUS
  <2> QED BY <1>14, <1>15, <2>1, <2>2
<1> DEFINE l == a + k2
<1>18. l \in Nat /\ a \in Nat /\ k2 \in Nat
  BY <1>12, <1>13
<1>19. Len(z) = l + Width(after, i) /\ DOMAIN z = 1 .. Len(z)
  <2>1. z \in Seq(S)
    BY <1>2, <1>14, <1>15, <1>16, FourPlaces
  <2>2. DOMAIN z = 1 .. Len(z)
    BY <2>1, LenProperties
  <2>3. Len(p4) \in Nat
    BY <1>15, LenProperties
  <2> DEFINE b4 == Len(p4)
             w1 == Width(after, i)
  <2>4. b4 \in Nat /\ 1 + b4 = w1 /\ Len(z) = a + k2 + 1 + b4
    BY <1>15, <1>17, <2>3
  <2> HIDE DEF a, k2, b4, w1
  <2>5. Len(z) = (a + k2) + w1
    BY <1>18, <2>4
  <2> QED BY <2>2, <2>5 DEF w1
<1> HIDE DEF a, k2
<1>20. ASSUME NEW x \in 1 .. l PROVE Inserted(code, after, z, i, 0, x)
  <2>1. CASE x \in 1 .. a
    <3>1. \A y \in 1 .. x : y \in 1 .. a /\ 0 + y = y
      BY <1>18, <2>1
    <3>2. \A y \in 1 .. x : z[0 + y] = p1[y]
      BY <1>17, <3>1
    <3>3. Inserted(code, after, p1, i, 0, x) /\ x \in Nat /\ 0 \in Nat
      BY <1>12, <2>1 DEF a
    <3> QED BY <1>3, <3>2, <3>3, InsertedShifted
  <2>2. CASE x \notin 1 .. a
    <3> DEFINE y == x - a
    <3>1. y \in 1 .. k2 /\ y \in Nat /\ a + y = x
      BY <1>18, <2>2
    <3> HIDE DEF y
    <3>2. \A v \in 1 .. y : v \in 1 .. k2
      BY <1>18, <3>1
    <3>3. \A v \in 1 .. y : z[a + v] = p2[v]
      BY <1>17, <3>2
    <3>4. Inserted(code, after, p2, i, 0, y)
      BY <1>13, <3>1 DEF k2
    <3>5. Inserted(code, after, z, i, 0, a + y)
      BY <1>3, <1>18, <3>1, <3>3, <3>4, InsertedShifted
    <3> QED BY <3>1, <3>5
  <2> QED BY <2>1, <2>2
<1>21. \A p \in 1 .. l + Width(after, i) : 0 + p \in DOMAIN z
  <2> DEFINE w1 == l + Width(after, i)
  <2>1. DOMAIN z = 1 .. w1
    BY <1>19
  <2> HIDE DEF w1
  <2>2. \A p \in 1 .. w1 : 0 + p = p
    OBVIOUS
  <2>3. \A p \in 1 .. w1 : 0 + p \in DOMAIN z
    BY <2>1, <2>2
  <2> QED BY <2>3 DEF w1
<1>22. ASSUME NEW e, \/ n = Len(body[b]) /\ e \in Range(atEnd)
                     \/ e \in Range(before)
       PROVE  \E x \in 1 .. l : z[0 + x] = MovedInstr(after, e)
  <2>1. CASE n = Len(body[b]) /\ e \in Range(atEnd)
    <3>1. PICK x \in 1 .. a : p1[x] = MovedInstr(after, e)
      BY <1>12, <2>1 DEF a
    <3>2. x \in 1 .. l /\ 0 + x = x
      BY <1>18
    <3> QED BY <1>17, <3>1, <3>2
  <2>2. CASE e \in Range(before)
    <3>1. PICK x \in 1 .. k2 : p2[x] = MovedInstr(after, e)
      BY <1>13, <2>2 DEF k2
    <3>2. a + x \in 1 .. l /\ 0 + (a + x) = a + x
      BY <1>18
    <3>3. z[a + x] = MovedInstr(after, e)
      BY <1>17, <3>1
    <3> QED BY <3>2, <3>3
  <2> QED BY <1>22, <2>1, <2>2
<1>23. i.op # "phi" => \A k \in DOMAIN i.ops :
          <<i, k>> \in DOMAIN code => Found(after, z, 0, l, code[<<i, k>>])
  BY <1>6, <1>22 DEF Found
<1>24. n = Len(body[b]) => EndStanding(code, after, z, b, 0, l)
  BY <1>4, <1>22 DEF Found, EndStanding
<1>25. /\ z[0 + (l + 1)] = New(code, after, i)
       /\ i.id \in after => z[0 + (l + 2)] = c
  <2>1. 0 + (l + 1) = a + k2 + 1 /\ 0 + (l + 2) = a + k2 + 1 + 1
    BY <1>18
  <2> HIDE DEF l
  <2> QED BY <1>17, <2>1
<1>26. i.op = "phi" /\ n # Len(body[b]) => l = 0
  BY <1>12, <1>13 DEF a, k2
<1> HIDE DEF l
<1>27. Standing(code, after, z, i, 0, l)
  BY <1>20, <1>21, <1>23, <1>25 DEF Standing, c
<1>28. PieceLaid(code, after, b, n, i, z, l)
  BY <1>19, <1>24, <1>26, <1>27 DEF PieceLaid
<1> QED BY <1>18, <1>28

\* How a block is laid out: piece n stands behind place off[n].
BlockStanding(code, after, w, b, off, l) ==
    /\ off \in [DOMAIN body[b] -> Nat] /\ l \in [DOMAIN body[b] -> Nat]
    /\ \A n \in DOMAIN body[b] :
         /\ Standing(code, after, w, body[b][n], off[n], l[n])
         /\ n = Len(body[b]) => EndStanding(code, after, w, b, off[n], l[n])
         /\ body[b][n].op = "phi" /\ n # Len(body[b]) => l[n] = 0
    /\ \A m, n \in DOMAIN body[b] :
         m < n => off[m] + (l[m] + Width(after, body[b][m])) <= off[n]
    /\ \A q \in DOMAIN w : \E n \in DOMAIN body[b] :
         \E p \in 1 .. l[n] + Width(after, body[b][n]) : q = off[n] + p

LEMMA BlockStandingExists ==
    ASSUME NEW C, NEW code, \A s \in DOMAIN code : code[s] \in Seq(C), NEW after,
           BodyInv, ModulesAssumption, PhisInv,
           NEW b \in DOMAIN body, NEW w, w = Rewritten(code, after)[b]
    PROVE  \E off, l : BlockStanding(code, after, w, b, off, l)
<1> DEFINE N == Len(body[b])
           z(n) == Piece(code, after, b, n)
           ss == [n \in DOMAIN body[b] |-> z(n)]
           S == UNION {Range(z(n)) : n \in DOMAIN body[b]}
           Laid(n, k) == /\ Len(z(n)) = k + Width(after, body[b][n])
                         /\ Standing(code, after, z(n), body[b][n], 0, k)
                         /\ n = N => EndStanding(code, after, z(n), b, 0, k)
                         /\ body[b][n].op = "phi" /\ n # N => k = 0
<1>1. w = FlattenSeq(ss)
  BY DEF Rewritten
<1>2. N \in Nat /\ DOMAIN body[b] = 1 .. N
  BY LenProperties DEF BodyInv
<1>3. ASSUME NEW n \in DOMAIN body[b] PROVE \E k \in Nat : Laid(n, k)
  <2>1. PICK i : i = body[b][n]
    OBVIOUS
  <2>2. PICK y : y = Piece(code, after, b, n)
    OBVIOUS
  <2>3. \E k \in Nat : PieceLaid(code, after, b, n, i, y, k)
    <3>1. \A s \in DOMAIN code : code[s] \in Seq(C)
      OBVIOUS
    <3> HIDE DEF ss, S, N, z, Laid
    <3> QED BY <2>1, <2>2, <3>1, PieceStanding
  <2>4. i = body[b][n] /\ y = z(n) /\ N = Len(body[b])
    BY <2>1, <2>2
  <2> HIDE DEF z, N, ss, S
  <2> QED BY <2>3, <2>4 DEF PieceLaid
<1>4. ASSUME NEW n \in DOMAIN body[b] PROVE z(n) \in Seq(S)
  <2>1. PICK T : z(n) \in Seq(T)
    BY PieceElements
  <2> DEFINE q == z(n)
  <2>2. Range(q) \subseteq S
    OBVIOUS
  <2> HIDE DEF q, S
  <2>3. q \in Seq(Range(q))
    BY <2>1, SeqOfRange DEF q
  <2>4. q \in Seq(S)
    BY <2>2, <2>3, SeqMonotonic
  <2> QED BY <2>4 DEF q
<1>5. DOMAIN ss = 1 .. N /\ ss = [n \in 1 .. N |-> ss[n]]
      /\ \A n \in 1 .. N : ss[n] = z(n) /\ ss[n] \in Seq(S)
  BY <1>2, <1>4
<1> HIDE DEF ss, S, N
<1>6. ss \in Seq(Seq(S)) /\ Len(ss) = N
  BY <1>2, <1>5, IsSequence
<1>7. PICK off : Offsets(ss, off)
  BY <1>6, OffsetsExist
<1> DEFINE l == [n \in DOMAIN body[b] |-> CHOOSE k \in Nat : Laid(n, k)]
<1>8. \A n \in DOMAIN body[b] : l[n] \in Nat /\ Laid(n, l[n])
  <2> HIDE DEF Laid
  <2> QED BY <1>3
<1>9. l \in [DOMAIN body[b] -> Nat]
  <2>1. \A n \in DOMAIN body[b] : (CHOOSE k \in Nat : Laid(n, k)) \in Nat
    <3> HIDE DEF Laid
    <3> QED BY <1>3
  <2> HIDE DEF Laid
  <2> QED BY <2>1
<1> HIDE DEF l
<1>10. off \in [1 .. N -> Nat]
  BY <1>6, <1>7 DEF Offsets
<1>11. ASSUME NEW n \in 1 .. N
       PROVE  /\ \A p \in 1 .. l[n] + Width(after, body[b][n]) :
                    off[n] + p \in DOMAIN w /\ w[off[n] + p] = z(n)[p]
              /\ Len(ss[n]) = l[n] + Width(after, body[b][n])
  <2>1. Len(ss[n]) = l[n] + Width(after, body[b][n])
    BY <1>2, <1>5, <1>8
  <2>2. \A p \in 1 .. Len(ss[n]) :
           off[n] + p \in DOMAIN FlattenSeq(ss) /\ FlattenSeq(ss)[off[n] + p] = ss[n][p]
    BY <1>6, <1>7 DEF Offsets
  <2> QED BY <1>1, <1>5, <2>1, <2>2
<1>12. \A s \in DOMAIN code : \A r \in DOMAIN code[s] : r \in Nat /\ r >= 1
  <2> TAKE s \in DOMAIN code
  <2>1. Len(code[s]) \in Nat /\ DOMAIN code[s] = 1 .. Len(code[s])
    BY LenProperties
  <2> QED BY <2>1
<1>13. ASSUME NEW n \in 1 .. N
       PROVE  /\ Standing(code, after, w, body[b][n], off[n], l[n])
              /\ n = N => EndStanding(code, after, w, b, off[n], l[n])
              /\ body[b][n].op = "phi" /\ n # N => l[n] = 0
  <2> DEFINE y == z(n)
             o == off[n]
             k == l[n]
             i == body[b][n]
  <2>1. /\ Standing(code, after, y, i, 0, k)
        /\ n = N => EndStanding(code, after, y, b, 0, k)
        /\ i.op = "phi" /\ n # N => k = 0
        /\ k \in Nat /\ o \in Nat
    BY <1>2, <1>8, <1>10
  <2>2. \A p \in 1 .. k + Width(after, i) : o + p \in DOMAIN w /\ w[o + p] = y[p]
    BY <1>11
  <2> HIDE DEF y, o, k, i
  <2>3. /\ Standing(code, after, w, i, o, k)
        /\ \A c : Found(after, y, 0, k, c) => Found(after, w, o, k, c)
    BY <1>12, <2>1, <2>2, StandingShifted
  <2>4. n = N => EndStanding(code, after, w, b, o, k)
    BY <2>1, <2>3 DEF EndStanding
  <2> QED BY <2>1, <2>3, <2>4 DEF o, k, i
<1>14. \A m, n \in 1 .. N : m < n => off[m] + (l[m] + Width(after, body[b][m])) <= off[n]
  <2>1. \A m, n \in 1 .. N : m < n => off[m] + Len(ss[m]) <= off[n]
    BY <1>6, <1>7 DEF Offsets
  <2> QED BY <1>11, <2>1
<1>15. \A q \in DOMAIN w : \E n \in 1 .. N :
          \E p \in 1 .. l[n] + Width(after, body[b][n]) : q = off[n] + p
  <2>1. \A q \in DOMAIN FlattenSeq(ss) :
           \E n \in 1 .. N : \E p \in 1 .. Len(ss[n]) : q = off[n] + p
    BY <1>6, <1>7 DEF Offsets
  <2> QED BY <1>1, <1>11, <2>1
<1>16. BlockStanding(code, after, w, b, off, l)
  BY <1>2, <1>9, <1>10, <1>13, <1>14, <1>15, Zenon DEF BlockStanding, N
<1> QED BY <1>16

\* What a pass may insert: plain instructions that use nothing local but what
\* stands before them in the code of their slot, or the operand of the slot
\* itself; and what it may follow by a cast.
Terminators == {"br", "ret", "invoke"}
Ordinary(i) == i.op # "phi" /\ i.op \notin Terminators
FitsAt(code, after, s, r, c) ==
    /\ Instruction(c) /\ Ordinary(c) /\ DOMAIN c.inc = {} /\ c.id \notin after
    /\ \A k \in DOMAIN c.ops :
         \/ ~IsLocal(c.ops[k])
         \/ \E q \in 1 .. r - 1 : c.ops[k] = code[s][q].id
         \/ s[1].op # "phi" /\ c.ops[k] = s[1].ops[s[2]]
AfterFits(after) ==
    /\ \A v \in after : IsLocal(v)
    /\ \A i \in Instrs : i.id \in after => Ordinary(i)
CodeFits(code, after) ==
    \A s \in DOMAIN code :
        /\ s \in Slots /\ Len(code[s]) > 0
        /\ \A r \in DOMAIN code[s] : FitsAt(code, after, s, r, code[s][r])

LEMMA ReplacedLocal ==
    ASSUME NEW after, \A v \in after : IsLocal(v), NEW v
    PROVE  IsLocal(Replaced(after, v)) <=> IsLocal(v)
<1>1. <<"post", v>>[1] = "post"
  OBVIOUS
<1> QED BY <1>1 DEF Replaced, IsLocal, IsInserted

LEMMA MovedFields ==
    ASSUME NEW after, NEW e, Instruction(e), NEW m, m = MovedInstr(after, e)
    PROVE  /\ m.id = e.id /\ m.op = e.op /\ m.inc = e.inc
           /\ DOMAIN m.ops = DOMAIN e.ops
           /\ \A k \in DOMAIN e.ops : m.ops[k] = Replaced(after, e.ops[k])
<1> DEFINE o == [k \in DOMAIN e.ops |-> Replaced(after, e.ops[k])]
<1>1. m = [e EXCEPT !.ops = o]
  BY DEF MovedInstr
<1>2. /\ DOMAIN o = DOMAIN e.ops
      /\ \A k \in DOMAIN e.ops : o[k] = Replaced(after, e.ops[k])
  OBVIOUS
<1> HIDE DEF o
<1>3. m.id = e.id /\ m.op = e.op /\ m.inc = e.inc /\ m.ops = o
  BY <1>1 DEF Instruction
<1> QED BY <1>2, <1>3

LEMMA NewFields ==
    ASSUME NEW code, NEW after, NEW i, Instruction(i), NEW m, m = New(code, after, i)
    PROVE  /\ m.id = i.id /\ m.op = i.op /\ m.inc = i.inc
           /\ DOMAIN m.ops = DOMAIN i.ops
           /\ \A k \in DOMAIN i.ops :
                m.ops[k] = IF <<i, k>> \in DOMAIN code THEN Last(code[<<i, k>>]).id
                           ELSE Replaced(after, i.ops[k])
<1> DEFINE o == [k \in DOMAIN i.ops |->
                   IF <<i, k>> \in DOMAIN code THEN Last(code[<<i, k>>]).id
                   ELSE Replaced(after, i.ops[k])]
<1>1. m = [i EXCEPT !.ops = o]
  BY DEF New
<1>2. /\ DOMAIN o = DOMAIN i.ops
      /\ \A k \in DOMAIN i.ops :
           o[k] = IF <<i, k>> \in DOMAIN code THEN Last(code[<<i, k>>]).id
                  ELSE Replaced(after, i.ops[k])
  OBVIOUS
<1> HIDE DEF o
<1>3. m.id = i.id /\ m.op = i.op /\ m.inc = i.inc /\ m.ops = o
  BY <1>1 DEF Instruction
<1> QED BY <1>2, <1>3

\* How the rewritten body is laid out.
Layout(code, after, W, off, l) ==
    /\ DOMAIN W = DOMAIN body
    /\ \A b \in DOMAIN body :
         /\ Len(W[b]) \in Nat /\ DOMAIN W[b] = 1 .. Len(W[b])
         /\ BlockStanding(code, after, W[b], b, off[b], l[b])

LEMMA LayoutExists ==
    ASSUME NEW C, NEW code, \A s \in DOMAIN code : code[s] \in Seq(C), NEW after,
           BodyInv, ModulesAssumption, PhisInv, NEW W, W = Rewritten(code, after)
    PROVE  \E off, l : Layout(code, after, W, off, l)
<1>1. DOMAIN W = DOMAIN body /\ \A b \in DOMAIN body : W[b] \in Seq(Range(W[b]))
  <2>1. PICK R : R = InstrsIn(W)
    OBVIOUS
  <2> QED BY <2>1, RewrittenInstrs
<1>2. \A b \in DOMAIN body : Len(W[b]) \in Nat /\ DOMAIN W[b] = 1 .. Len(W[b])
  BY <1>1, LenProperties
<1> DEFINE Stands(b, p) == BlockStanding(code, after, W[b], b, p[1], p[2])
<1>3. ASSUME NEW b \in DOMAIN body PROVE \E p : Stands(b, p)
  <2>1. PICK w : w = W[b]
    OBVIOUS
  <2>2. \E o, k : BlockStanding(code, after, w, b, o, k)
    BY <2>1, BlockStandingExists
  <2>3. PICK o : \E k : BlockStanding(code, after, w, b, o, k)
    BY <2>2
  <2>4. PICK k : BlockStanding(code, after, w, b, o, k)
    BY <2>3
  <2>5. <<o, k>>[1] = o /\ <<o, k>>[2] = k
    OBVIOUS
  <2>6. BlockStanding(code, after, w, b, <<o, k>>[1], <<o, k>>[2])
    BY <2>4, <2>5
  <2> QED BY <2>1, <2>6
<1> DEFINE both == [b \in DOMAIN body |-> CHOOSE p : Stands(b, p)]
           off == [b \in DOMAIN body |-> both[b][1]]
           l == [b \in DOMAIN body |-> both[b][2]]
<1>4. ASSUME NEW b \in DOMAIN body
      PROVE  BlockStanding(code, after, W[b], b, off[b], l[b])
  <2>1. Stands(b, CHOOSE p : Stands(b, p))
    <3> HIDE DEF Stands
    <3> QED BY <1>3
  <2>2. both[b] = CHOOSE p : Stands(b, p)
    OBVIOUS
  <2>3. off[b] = both[b][1] /\ l[b] = both[b][2]
    OBVIOUS
  <2> HIDE DEF both, off, l
  <2>4. Stands(b, both[b])
    <3> HIDE DEF Stands
    <3> QED BY <2>1, <2>2
  <2> QED BY <2>3, <2>4
<1> HIDE DEF off, l, both
<1> QED BY <1>1, <1>2, <1>4 DEF Layout

\* What a value that is defined has become is defined behind it.
LEMMA DefinitionKept ==
    ASSUME NEW code, NEW after, NEW W, NEW off, NEW l, BodyInv,
           Layout(code, after, W, off, l),
           NEW d \in DOMAIN body, NEW p \in DOMAIN body[d]
    PROVE  \E x \in DOMAIN W[d] :
             /\ W[d][x].id = Replaced(after, body[d][p].id)
             /\ x <= off[d][p] + (l[d][p] + Width(after, body[d][p])) /\ x \in Nat
             /\ x > off[d][p]
<1>1. PICK i : i = body[d][p]
  OBVIOUS
<1>2. i \in Instrs /\ Instruction(i)
  BY <1>1 DEF BodyInv, Instrs, Range
<1>3. PICK w, o, k : w = W[d] /\ o = off[d][p] /\ k = l[d][p]
  OBVIOUS
<1>4. Standing(code, after, w, i, o, k) /\ o \in Nat /\ k \in Nat
  BY <1>1, <1>3 DEF Layout, BlockStanding
<1>5. /\ w[o + (k + 1)] = New(code, after, i)
      /\ i.id \in after => w[o + (k + 2)] = PostCast(i)
      /\ \A y \in 1 .. k + Width(after, i) : o + y \in DOMAIN w
  BY <1>4 DEF Standing
<1>6. CASE i.id \in after
  <2>1. Width(after, i) = 2 /\ k + 2 \in 1 .. k + 2
    BY <1>4, <1>6 DEF Width
  <2>2. o + (k + 2) \in DOMAIN w /\ w[o + (k + 2)].id = <<"post", i.id>>
    BY <1>5, <1>6, <2>1, CastFields DEF PostCast
  <2>3. PICK x : x = o + (k + 2)
    OBVIOUS
  <2>4. x \in Nat /\ x > o /\ x <= o + (k + Width(after, i))
    BY <1>4, <2>1, <2>3
  <2>5. Replaced(after, i.id) = <<"post", i.id>>
    BY <1>6 DEF Replaced
  <2>6. x \in DOMAIN w /\ w[x].id = Replaced(after, i.id)
    BY <2>2, <2>3, <2>5
  <2> QED BY <1>1, <1>3, <2>4, <2>6
<1>7. CASE i.id \notin after
  <2>1. Width(after, i) = 1 /\ k + 1 \in 1 .. k + 1
    BY <1>4, <1>7 DEF Width
  <2>2. New(code, after, i).id = i.id
    BY <1>2, NewFields
  <2>3. PICK x : x = o + (k + 1)
    OBVIOUS
  <2>4. x \in Nat /\ x > o /\ x <= o + (k + Width(after, i))
    BY <1>4, <2>1, <2>3
  <2>5. Replaced(after, i.id) = i.id
    BY <1>7 DEF Replaced
  <2>6. x \in DOMAIN w /\ w[x].id = Replaced(after, i.id)
    BY <1>5, <2>1, <2>2, <2>3, <2>5
  <2> QED BY <1>1, <1>3, <2>4, <2>6
<1> QED BY <1>6, <1>7

\* So what is available to an instruction is available to what stands for it, ...
LEMMA Carried ==
    ASSUME NEW code, NEW after, NEW W, NEW off, NEW l, BodyInv,
           Layout(code, after, W, off, l),
           NEW b \in DOMAIN body, NEW n \in DOMAIN body[b], NEW v,
           Available(unit, body, v, b, n), NEW m \in Nat, off[b][n] < m
    PROVE  Available(unit, W, Replaced(after, v), b, m)
<1>1. DOMAIN W = DOMAIN body
  BY DEF Layout
<1>2. PICK d \in DOMAIN body : \E p \in DOMAIN body[d] :
         body[d][p].id = v /\ IF d = b THEN p < n ELSE d \in unit.dom[b]
  BY DEF Available
<1>3. PICK p \in DOMAIN body[d] :
         body[d][p].id = v /\ IF d = b THEN p < n ELSE d \in unit.dom[b]
  BY <1>2
<1>4. PICK x \in DOMAIN W[d] :
         /\ W[d][x].id = Replaced(after, v)
         /\ x <= off[d][p] + (l[d][p] + Width(after, body[d][p])) /\ x \in Nat
  BY <1>3, DefinitionKept
<1>5. ASSUME d = b PROVE x < m
  <2>1. p < n /\ p \in DOMAIN body[b]
    BY <1>3, <1>5
  <2>2. BlockStanding(code, after, W[b], b, off[b], l[b])
    BY DEF Layout
  <2>3. off[b][p] + (l[b][p] + Width(after, body[b][p])) <= off[b][n]
        /\ off[b][p] \in Nat /\ l[b][p] \in Nat /\ off[b][n] \in Nat
    BY <2>1, <2>2 DEF BlockStanding
  <2>4. Width(after, body[b][p]) \in Nat
    BY DEF Width
  <2> QED BY <1>4, <1>5, <2>3, <2>4
<1> QED BY <1>1, <1>3, <1>4, <1>5 DEF Available

\* ... and what is at the end of a block is so there.
LEMMA CarriedToEnd ==
    ASSUME NEW code, NEW after, NEW W, NEW off, NEW l, BodyInv,
           Layout(code, after, W, off, l),
           NEW b \in DOMAIN body, NEW v,
           Available(unit, body, v, b, Len(body[b]) + 1)
    PROVE  Available(unit, W, Replaced(after, v), b, Len(W[b]) + 1)
<1>1. DOMAIN W = DOMAIN body
  BY DEF Layout
<1>2. PICK d \in DOMAIN body : \E p \in DOMAIN body[d] :
         body[d][p].id = v /\ (d # b => d \in unit.dom[b])
  BY DEF Available
<1>3. PICK p \in DOMAIN body[d] : body[d][p].id = v /\ (d # b => d \in unit.dom[b])
  BY <1>2
<1>4. PICK x \in DOMAIN W[d] : W[d][x].id = Replaced(after, v)
  BY <1>3, DefinitionKept
<1>5. ASSUME d = b PROVE x < Len(W[b]) + 1
  <2>1. x \in 1 .. Len(W[b]) /\ Len(W[b]) \in Nat
    BY <1>5 DEF Layout
  <2> QED BY <2>1
<1> QED BY <1>1, <1>3, <1>4, <1>5 DEF Available

\* What can stand in a rewritten block at place off[n] + p.
LEMMA Places ==
    ASSUME NEW code, NEW after, NEW W, NEW off, NEW l, BodyInv,
           Layout(code, after, W, off, l),
           NEW b \in DOMAIN body, NEW q \in DOMAIN W[b]
    PROVE  \E n \in DOMAIN body[b] : \E p \in 1 .. l[b][n] + Width(after, body[b][n]) :
             /\ q = off[b][n] + p /\ off[b][n] \in Nat /\ l[b][n] \in Nat
             /\ \/ p \in 1 .. l[b][n]
                     /\ Inserted(code, after, W[b], body[b][n], off[b][n], p)
                \/ p = l[b][n] + 1 /\ W[b][q] = New(code, after, body[b][n])
                \/ /\ p = l[b][n] + 2 /\ body[b][n].id \in after
                   /\ W[b][q] = PostCast(body[b][n])
<1>1. BlockStanding(code, after, W[b], b, off[b], l[b])
  BY DEF Layout
<1>2. PICK n \in DOMAIN body[b] : \E p \in 1 .. l[b][n] + Width(after, body[b][n]) :
         q = off[b][n] + p
  BY <1>1 DEF BlockStanding
<1>3. PICK p \in 1 .. l[b][n] + Width(after, body[b][n]) : q = off[b][n] + p
  BY <1>2
<1>4. PICK w, i, o, k : w = W[b] /\ i = body[b][n] /\ o = off[b][n] /\ k = l[b][n]
  OBVIOUS
<1>5. o \in Nat /\ k \in Nat /\ Standing(code, after, w, i, o, k)
  BY <1>1, <1>4 DEF BlockStanding
<1>6. q = o + p /\ p \in 1 .. k + Width(after, i)
  BY <1>3, <1>4
<1>7. \/ p \in 1 .. k
      \/ p = k + 1
      \/ p = k + 2 /\ i.id \in after
  <2>1. Width(after, i) = 1 \/ (Width(after, i) = 2 /\ i.id \in after)
    BY DEF Width
  <2> QED BY <1>5, <1>6, <2>1
<1>8. \/ p \in 1 .. k /\ Inserted(code, after, w, i, o, p)
      \/ p = k + 1 /\ w[q] = New(code, after, i)
      \/ p = k + 2 /\ i.id \in after /\ w[q] = PostCast(i)
  BY <1>5, <1>6, <1>7 DEF Standing
<1> QED BY <1>3, <1>4, <1>5, <1>8

LEMMA DefinedBefore ==
    ASSUME NEW u, NEW B, NEW b \in DOMAIN B, NEW x \in DOMAIN B[b], NEW n, x < n
    PROVE  Available(u, B, B[b][x].id, b, n)
BY DEF Available

\* What an inserted instruction uses is available to it ...
LEMMA InsertedReaches ==
    ASSUME NEW code, NEW after, NEW W, NEW off, NEW l, BodyInv, Placement,
           Layout(code, after, W, off, l), AfterFits(after), CodeFits(code, after),
           \A s \in DOMAIN code : \A r \in DOMAIN code[s] : r \in Nat /\ r >= 1,
           \A s \in DOMAIN code : \A r \in DOMAIN code[s] : \A q \in 1 .. r : q \in DOMAIN code[s],
           NEW b \in DOMAIN body, NEW n \in DOMAIN body[b], NEW x \in 1 .. l[b][n],
           off[b][n] \in Nat, l[b][n] \in Nat,
           Inserted(code, after, W[b], body[b][n], off[b][n], x),
           NEW q, q = off[b][n] + x, NEW k \in DOMAIN W[b][q].ops, IsLocal(W[b][q].ops[k])
    PROVE  Ordinary(W[b][q]) /\ Available(unit, W, W[b][q].ops[k], b, q)
<1>1. PICK w, i, o : w = W[b] /\ i = body[b][n] /\ o = off[b][n]
  OBVIOUS
<1>2. PICK s \in DOMAIN code : \E r \in DOMAIN code[s] :
        /\ r <= x
        /\ s[1].op = "phi" \/ s[1] = i
        /\ w[o + x] = MovedInstr(after, code[s][r])
        /\ \A y \in 1 .. r : w[o + (x - r + y)] = MovedInstr(after, code[s][y])
  BY <1>1 DEF Inserted
<1>3. PICK r \in DOMAIN code[s] :
        /\ r <= x
        /\ s[1].op = "phi" \/ s[1] = i
        /\ w[o + x] = MovedInstr(after, code[s][r])
        /\ \A y \in 1 .. r : w[o + (x - r + y)] = MovedInstr(after, code[s][y])
  BY <1>2
<1>4. PICK c : c = code[s][r]
  OBVIOUS
<1>5. FitsAt(code, after, s, r, c) /\ s \in Slots
  BY <1>4 DEF CodeFits
<1>6. Instruction(c) /\ Ordinary(c)
  BY <1>5 DEF FitsAt
<1>7. PICK j : j = w[q]
  OBVIOUS
<1>8. /\ j.op = c.op /\ DOMAIN j.ops = DOMAIN c.ops
      /\ \A y \in DOMAIN c.ops : j.ops[y] = Replaced(after, c.ops[y])
  <2>1. j = MovedInstr(after, c)
    BY <1>1, <1>3, <1>4, <1>7
  <2> QED BY <1>6, <2>1, MovedFields
<1>9. Ordinary(j)
  BY <1>6, <1>8 DEF Ordinary
<1>10. k \in DOMAIN c.ops /\ IsLocal(c.ops[k]) /\ j.ops[k] = Replaced(after, c.ops[k])
  <2>1. k \in DOMAIN c.ops /\ j.ops[k] = Replaced(after, c.ops[k]) /\ IsLocal(j.ops[k])
    BY <1>1, <1>7, <1>8
  <2> QED BY <2>1, ReplacedLocal DEF AfterFits
<1>11. \A y \in 1 .. l[b][n] : o + y \in DOMAIN w
  <2>1. Standing(code, after, w, i, o, l[b][n])
    BY <1>1 DEF Layout, BlockStanding
  <2>2. Width(after, i) \in Nat
    BY DEF Width
  <2>3. \A y \in 1 .. l[b][n] : y \in 1 .. l[b][n] + Width(after, i)
    BY <2>2
  <2> QED BY <2>1, <2>3 DEF Standing
<1>12. DOMAIN W = DOMAIN body
  BY DEF Layout
<1>13. CASE \E y \in 1 .. r - 1 : c.ops[k] = code[s][y].id
  <2>1. PICK y \in 1 .. r - 1 : c.ops[k] = code[s][y].id
    BY <1>13
  <2>2. r \in Nat /\ y \in 1 .. r /\ y < r /\ y \in Nat
    OBVIOUS
  <2>3. PICK e : e = code[s][y]
    OBVIOUS
  <2>4. FitsAt(code, after, s, y, e)
    <3>1. y \in DOMAIN code[s]
      BY <2>2
    <3> QED BY <2>3, <3>1 DEF CodeFits
  <2>5. Instruction(e) /\ e.id \notin after
    BY <2>4 DEF FitsAt
  <2>6. PICK z : z = o + (x - r + y)
    OBVIOUS
  <2>7. w[z] = MovedInstr(after, e)
    BY <1>3, <2>2, <2>3, <2>6
  <2>8. w[z].id = e.id
    BY <2>5, <2>7, MovedFields
  <2>9. x - r + y \in 1 .. l[b][n] /\ z < q
    BY <1>1, <1>3, <2>2, <2>6
  <2>10. z \in DOMAIN w
    BY <1>11, <2>6, <2>9
  <2>11. Available(unit, W, W[b][z].id, b, q)
    BY <1>1, <1>12, <2>9, <2>10, DefinedBefore
  <2>12. j.ops[k] = e.id
    BY <1>10, <2>1, <2>3, <2>5 DEF Replaced
  <2> QED BY <1>1, <1>7, <1>9, <2>8, <2>11, <2>12
<1>14. CASE s[1].op # "phi" /\ c.ops[k] = s[1].ops[s[2]]
  <2>1. s[1] = i /\ i.op # "phi" /\ s[2] \in DOMAIN i.ops
    BY <1>3, <1>5, <1>14 DEF Slots
  <2>2. Available(unit, body, c.ops[k], b, n)
    BY <1>1, <1>10, <1>14, <2>1 DEF Placement, Placed, Dominance
  <2>3. q \in Nat /\ off[b][n] < q
    OBVIOUS
  <2>4. Available(unit, W, Replaced(after, c.ops[k]), b, q)
    BY <2>2, <2>3, Carried
  <2> QED BY <1>1, <1>7, <1>9, <1>10, <2>4
<1> QED BY <1>5, <1>10, <1>13, <1>14 DEF FitsAt

\* ... and so is what an instruction uses that was there, ...
LEMMA NewReaches ==
    ASSUME NEW code, NEW after, NEW W, NEW off, NEW l, BodyInv, PhisInv, Placement,
           Layout(code, after, W, off, l), AfterFits(after), CodeFits(code, after),
           \A s \in DOMAIN code : Last(code[s]) \in Range(code[s]),
           NEW b \in DOMAIN body, NEW n \in DOMAIN body[b],
           off[b][n] \in Nat, l[b][n] \in Nat,
           NEW q, q = off[b][n] + (l[b][n] + 1),
           NEW j, j = New(code, after, body[b][n]),
           NEW k \in DOMAIN j.ops, IsLocal(j.ops[k])
    PROVE  IF j.op = "phi"
           THEN Available(unit, W, j.ops[k], j.inc[k], Len(W[j.inc[k]]) + 1)
           ELSE Available(unit, W, j.ops[k], b, q)
<1>1. PICK i : i = body[b][n]
  OBVIOUS
<1>2. i \in Instrs /\ Instruction(i)
  BY <1>1 DEF BodyInv, Instrs, Range
<1>3. /\ j.op = i.op /\ j.inc = i.inc /\ k \in DOMAIN i.ops
      /\ j.ops[k] = IF <<i, k>> \in DOMAIN code THEN Last(code[<<i, k>>]).id
                    ELSE Replaced(after, i.ops[k])
  <2>1. j = New(code, after, i)
    BY <1>1
  <2> QED BY <1>2, <2>1, NewFields
<1>4. DOMAIN W = DOMAIN body /\ BlockStanding(code, after, W[b], b, off[b], l[b])
  BY DEF Layout
<1>5. i.op = "phi" => k \in DOMAIN i.inc /\ i.inc[k] \in DOMAIN body
  BY <1>2, <1>3 DEF PhisInv
<1>6. CASE <<i, k>> \in DOMAIN code
  <2>1. PICK s : s = <<i, k>>
    OBVIOUS
  <2>2. PICK e : e = Last(code[s])
    OBVIOUS
  <2>3. e \in Range(code[s]) /\ j.ops[k] = e.id
    BY <1>3, <1>6, <2>1, <2>2
  <2>4. Instruction(e)
    <3>1. PICK r \in DOMAIN code[s] : e = code[s][r]
      BY <2>3 DEF Range
    <3>2. FitsAt(code, after, s, r, e)
      BY <1>6, <2>1, <3>1 DEF CodeFits
    <3> QED BY <3>2 DEF FitsAt
  <2>5. MovedInstr(after, e).id = e.id
    BY <2>4, MovedFields
  <2>6. CASE i.op = "phi"
    <3>1. PICK d : d = i.inc[k]
      OBVIOUS
    <3>2. d \in DOMAIN body /\ d \in DOMAIN W
      BY <1>4, <1>5, <2>6, <3>1
    <3>3. PICK N : N = Len(body[d])
      OBVIOUS
    <3>4. N \in DOMAIN body[d]
      <4>1. Len(body[d]) > 0
        BY <3>2 DEF Placement, Placed, BlockShape
      <4>2. Len(body[d]) \in Nat /\ DOMAIN body[d] = 1 .. Len(body[d])
        BY <3>2, LenProperties DEF BodyInv
      <4> QED BY <3>3, <4>1, <4>2
    <3>5. PICK w, o, m : w = W[d] /\ o = off[d][N] /\ m = l[d][N]
      OBVIOUS
    <3>6. /\ EndStanding(code, after, w, d, o, m) /\ Standing(code, after, w, body[d][N], o, m)
          /\ m \in Nat
      BY <3>2, <3>3, <3>4, <3>5 DEF Layout, BlockStanding
    <3>7. Found(after, w, o, m, code[<<i, k>>])
      BY <1>2, <1>5, <1>6, <2>6, <3>1, <3>6 DEF EndStanding
    <3>8. PICK x \in 1 .. m : w[o + x] = MovedInstr(after, e)
      BY <2>1, <2>3, <3>7 DEF Found
    <3>9. o + x \in DOMAIN w
      <4>1. Width(after, body[d][N]) \in Nat
        BY DEF Width
      <4>2. x \in 1 .. m + Width(after, body[d][N])
        BY <3>6, <4>1
      <4> QED BY <3>6, <4>2 DEF Standing
    <3>10. o + x < Len(w) + 1
      <4>1. o + x \in 1 .. Len(w) /\ Len(w) \in Nat
        BY <3>2, <3>5, <3>9 DEF Layout
      <4> QED BY <4>1
    <3>11. Available(unit, W, W[d][o + x].id, d, Len(W[d]) + 1)
      BY <3>2, <3>5, <3>9, <3>10, DefinedBefore
    <3> QED BY <1>3, <2>3, <2>5, <2>6, <3>1, <3>5, <3>8, <3>11
  <2>7. CASE i.op # "phi"
    <3>1. PICK w, o, m : w = W[b] /\ o = off[b][n] /\ m = l[b][n]
      OBVIOUS
    <3>2. Standing(code, after, w, i, o, m)
      BY <1>1, <1>4, <3>1 DEF BlockStanding
    <3>3. Found(after, w, o, m, code[<<i, k>>])
      BY <1>3, <1>6, <2>7, <3>2 DEF Standing
    <3>4. PICK x \in 1 .. m : w[o + x] = MovedInstr(after, e)
      BY <2>1, <2>3, <3>3 DEF Found
    <3>5. o + x \in DOMAIN w
      <4>1. Width(after, i) \in Nat
        BY DEF Width
      <4>2. x \in 1 .. m + Width(after, i)
        BY <3>1, <4>1
      <4> QED BY <3>2, <4>2 DEF Standing
    <3>6. o + x < q
      BY <3>1
    <3>7. Available(unit, W, W[b][o + x].id, b, q)
      BY <1>4, <3>1, <3>5, <3>6, DefinedBefore
    <3> QED BY <1>3, <2>3, <2>5, <2>7, <3>1, <3>4, <3>7
  <2> QED BY <2>6, <2>7
<1>7. CASE <<i, k>> \notin DOMAIN code
  <2>1. j.ops[k] = Replaced(after, i.ops[k]) /\ IsLocal(i.ops[k])
    <3>1. j.ops[k] = Replaced(after, i.ops[k])
      BY <1>3, <1>7
    <3> QED BY <3>1, ReplacedLocal DEF AfterFits
  <2>2. Dominance(unit, body)
    BY DEF Placement, Placed
  <2>3. CASE i.op = "phi"
    <3>1. PICK d : d = i.inc[k]
      OBVIOUS
    <3>2. Available(unit, body, i.ops[k], d, Len(body[d]) + 1) /\ d \in DOMAIN body
      BY <1>1, <1>3, <1>5, <2>1, <2>2, <2>3, <3>1 DEF Dominance
    <3>3. Available(unit, W, Replaced(after, i.ops[k]), d, Len(W[d]) + 1)
      BY <3>2, CarriedToEnd
    <3> QED BY <1>3, <2>1, <2>3, <3>1, <3>3
  <2>4. CASE i.op # "phi"
    <3>1. Available(unit, body, i.ops[k], b, n)
      BY <1>1, <1>3, <2>1, <2>2, <2>4 DEF Dominance
    <3>2. q \in Nat /\ off[b][n] < q
      OBVIOUS
    <3>3. Available(unit, W, Replaced(after, i.ops[k]), b, q)
      BY <3>1, <3>2, Carried
    <3> QED BY <1>3, <2>1, <2>4, <3>3
  <2> QED BY <2>3, <2>4
<1> QED BY <1>6, <1>7

\* ... so whatever a rewritten body uses is available.
LEMMA DominanceKept ==
    ASSUME NEW code, NEW after, NEW W, NEW off, NEW l, BodyInv, PhisInv, Placement,
           Layout(code, after, W, off, l), AfterFits(after), CodeFits(code, after),
           \A s \in DOMAIN code : \A r \in DOMAIN code[s] : r \in Nat /\ r >= 1,
           \A s \in DOMAIN code : \A r \in DOMAIN code[s] : \A q \in 1 .. r : q \in DOMAIN code[s],
           \A s \in DOMAIN code : Last(code[s]) \in Range(code[s])
    PROVE  Dominance(unit, W)
<1> SUFFICES ASSUME NEW b \in DOMAIN W, NEW q \in DOMAIN W[b], NEW k \in DOMAIN W[b][q].ops,
                    IsLocal(W[b][q].ops[k])
             PROVE  IF W[b][q].op = "phi"
                    THEN Available(unit, W, W[b][q].ops[k], W[b][q].inc[k],
                                   Len(W[W[b][q].inc[k]]) + 1)
                    ELSE Available(unit, W, W[b][q].ops[k], b, q)
  BY DEF Dominance
<1>1. b \in DOMAIN body
  BY DEF Layout
<1>2. PICK n \in DOMAIN body[b] : \E p \in 1 .. l[b][n] + Width(after, body[b][n]) :
        /\ q = off[b][n] + p /\ off[b][n] \in Nat /\ l[b][n] \in Nat
        /\ \/ p \in 1 .. l[b][n]
                /\ Inserted(code, after, W[b], body[b][n], off[b][n], p)
           \/ p = l[b][n] + 1 /\ W[b][q] = New(code, after, body[b][n])
           \/ /\ p = l[b][n] + 2 /\ body[b][n].id \in after
              /\ W[b][q] = PostCast(body[b][n])
  BY <1>1, Places
<1>3. PICK p \in 1 .. l[b][n] + Width(after, body[b][n]) :
        /\ q = off[b][n] + p /\ off[b][n] \in Nat /\ l[b][n] \in Nat
        /\ \/ p \in 1 .. l[b][n]
                /\ Inserted(code, after, W[b], body[b][n], off[b][n], p)
           \/ p = l[b][n] + 1 /\ W[b][q] = New(code, after, body[b][n])
           \/ /\ p = l[b][n] + 2 /\ body[b][n].id \in after
              /\ W[b][q] = PostCast(body[b][n])
  BY <1>2
<1>4. off[b][n] \in Nat /\ l[b][n] \in Nat
  BY <1>3
<1>5. CASE p \in 1 .. l[b][n] /\ Inserted(code, after, W[b], body[b][n], off[b][n], p)
  <2>1. q = off[b][n] + p /\ p \in 1 .. l[b][n]
    BY <1>3, <1>5
  <2>2. Ordinary(W[b][q]) /\ Available(unit, W, W[b][q].ops[k], b, q)
    BY <1>1, <1>4, <1>5, <2>1, InsertedReaches
  <2> QED BY <2>2 DEF Ordinary
<1>6. CASE p = l[b][n] + 1 /\ W[b][q] = New(code, after, body[b][n])
  <2>1. PICK j : j = W[b][q]
    OBVIOUS
  <2>2. j = New(code, after, body[b][n]) /\ q = off[b][n] + (l[b][n] + 1)
    BY <1>3, <1>6, <2>1
  <2>3. k \in DOMAIN j.ops /\ IsLocal(j.ops[k])
    BY <2>1
  <2>4. IF j.op = "phi"
        THEN Available(unit, W, j.ops[k], j.inc[k], Len(W[j.inc[k]]) + 1)
        ELSE Available(unit, W, j.ops[k], b, q)
    BY <1>1, <1>4, <2>2, <2>3, NewReaches
  <2> QED BY <2>1, <2>4
<1>7. CASE /\ p = l[b][n] + 2 /\ body[b][n].id \in after
           /\ W[b][q] = PostCast(body[b][n])
  <2>1. PICK i : i = body[b][n]
    OBVIOUS
  <2>2. i \in Instrs /\ Instruction(i)
    BY <1>1, <2>1 DEF BodyInv, Instrs, Range
  <2>3. W[b][q].op = "bitcast" /\ k = 1 /\ W[b][q].ops[k] = i.id
    BY <1>7, <2>1, CastFields DEF PostCast
  <2>4. PICK x : x = off[b][n] + (l[b][n] + 1)
    OBVIOUS
  <2>5. x \in DOMAIN W[b] /\ W[b][x] = New(code, after, i)
    <3>1. Standing(code, after, W[b], i, off[b][n], l[b][n])
      BY <1>1, <2>1 DEF Layout, BlockStanding
    <3>2. l[b][n] + 1 \in 1 .. l[b][n] + Width(after, i)
      BY <1>4 DEF Width
    <3> QED BY <2>4, <3>1, <3>2 DEF Standing
  <2>6. W[b][x].id = i.id
    BY <2>2, <2>5, NewFields
  <2>7. x < q
    BY <1>3, <1>4, <1>7, <2>4
  <2>8. Available(unit, W, W[b][x].id, b, q)
    BY <2>5, <2>7, DefinedBefore
  <2> QED BY <2>3, <2>6, <2>8
<1> QED BY <1>3, <1>5, <1>6, <1>7

\* Only an instruction that was there is a phi or ends the block.
LEMMA OnlyOldBound ==
    ASSUME NEW code, NEW after, NEW W, NEW off, NEW l, BodyInv,
           Layout(code, after, W, off, l), AfterFits(after), CodeFits(code, after),
           NEW b \in DOMAIN body, NEW q \in DOMAIN W[b]
    PROVE  \E n \in DOMAIN body[b] : \E p \in 1 .. l[b][n] + Width(after, body[b][n]) :
             /\ q = off[b][n] + p /\ off[b][n] \in Nat /\ l[b][n] \in Nat
             /\ \/ Ordinary(W[b][q])
                \/ /\ p = l[b][n] + 1 /\ W[b][q] = New(code, after, body[b][n])
                   /\ W[b][q].op = body[b][n].op
<1>1. PICK n \in DOMAIN body[b] : \E p \in 1 .. l[b][n] + Width(after, body[b][n]) :
        /\ q = off[b][n] + p /\ off[b][n] \in Nat /\ l[b][n] \in Nat
        /\ \/ p \in 1 .. l[b][n]
                /\ Inserted(code, after, W[b], body[b][n], off[b][n], p)
           \/ p = l[b][n] + 1 /\ W[b][q] = New(code, after, body[b][n])
           \/ /\ p = l[b][n] + 2 /\ body[b][n].id \in after
              /\ W[b][q] = PostCast(body[b][n])
  BY Places
<1>2. PICK p \in 1 .. l[b][n] + Width(after, body[b][n]) :
        /\ q = off[b][n] + p /\ off[b][n] \in Nat /\ l[b][n] \in Nat
        /\ \/ p \in 1 .. l[b][n]
                /\ Inserted(code, after, W[b], body[b][n], off[b][n], p)
           \/ p = l[b][n] + 1 /\ W[b][q] = New(code, after, body[b][n])
           \/ /\ p = l[b][n] + 2 /\ body[b][n].id \in after
              /\ W[b][q] = PostCast(body[b][n])
  BY <1>1
<1>3. CASE p \in 1 .. l[b][n] /\ Inserted(code, after, W[b], body[b][n], off[b][n], p)
  <2>0. PICK s \in DOMAIN code : \E r \in DOMAIN code[s] : W[b][q] = MovedInstr(after, code[s][r])
    BY <1>2, <1>3 DEF Inserted
  <2>1. PICK r \in DOMAIN code[s] : W[b][q] = MovedInstr(after, code[s][r])
    BY <2>0
  <2>2. PICK c : c = code[s][r]
    OBVIOUS
  <2>3. Instruction(c) /\ Ordinary(c)
    BY <2>2 DEF CodeFits, FitsAt
  <2>4. W[b][q].op = c.op
    BY <2>1, <2>2, <2>3, MovedFields
  <2>5. Ordinary(W[b][q])
    BY <2>3, <2>4 DEF Ordinary
  <2> QED BY <1>2, <2>5
<1>4. CASE p = l[b][n] + 1 /\ W[b][q] = New(code, after, body[b][n])
  <2>1. PICK i : i = body[b][n]
    OBVIOUS
  <2>2. Instruction(i)
    BY <2>1 DEF BodyInv, Instrs, Range
  <2>3. W[b][q].op = i.op
    BY <1>4, <2>1, <2>2, NewFields
  <2> QED BY <1>2, <1>4, <2>1, <2>3
<1>5. CASE W[b][q] = PostCast(body[b][n])
  <2>1. W[b][q].op = "bitcast"
    BY <1>5, CastFields DEF PostCast
  <2>2. Ordinary(W[b][q])
    BY <2>1 DEF Ordinary, Terminators
  <2> QED BY <1>2, <2>2
<1> QED BY <1>2, <1>3, <1>4, <1>5

LEMMA BlockShapeKept ==
    ASSUME NEW code, NEW after, NEW W, NEW off, NEW l, BodyInv, Placement,
           Layout(code, after, W, off, l), AfterFits(after), CodeFits(code, after)
    PROVE  BlockShape(W)
<1>1. DOMAIN W = DOMAIN body
  BY DEF Layout
<1> SUFFICES ASSUME NEW b \in DOMAIN body
             PROVE  /\ Len(W[b]) > 0
                    /\ \A q \in DOMAIN W[b] :
                         /\ W[b][q].op = "phi" => \A x \in 1 .. q : W[b][x].op = "phi"
                         /\ W[b][q].op \in Terminators <=> q = Len(W[b])
  BY <1>1 DEF BlockShape, Terminators
<1>2. PICK w, s, o, k, N, L :
         w = W[b] /\ s = body[b] /\ o = off[b] /\ k = l[b] /\ N = Len(body[b]) /\ L = Len(W[b])
  OBVIOUS
<1>3. /\ L \in Nat /\ DOMAIN w = 1 .. L /\ N \in Nat /\ DOMAIN s = 1 .. N
      /\ BlockStanding(code, after, w, b, o, k)
  <2>1. Len(body[b]) \in Nat /\ DOMAIN body[b] = 1 .. Len(body[b])
    BY LenProperties DEF BodyInv
  <2> QED BY <1>2, <2>1 DEF Layout
<1>4. /\ N > 0
      /\ \A n \in 1 .. N :
           /\ s[n].op = "phi" => \A p \in 1 .. n : s[p].op = "phi"
           /\ s[n].op \in Terminators <=> n = N
  BY <1>2, <1>3 DEF Placement, Placed, BlockShape, Terminators
<1>5. \A n \in 1 .. N : s[n] \in Instrs /\ Instruction(s[n])
  BY <1>2, <1>3 DEF BodyInv, Instrs, Range
<1> DEFINE v(n) == Width(after, s[n])
<1>6. \A n \in 1 .. N : o[n] \in Nat /\ k[n] \in Nat /\ v(n) \in {1, 2}
  BY <1>2, <1>3 DEF BlockStanding, Width
<1>7. \A n \in 1 .. N : ~Ordinary(s[n]) => v(n) = 1
  BY <1>5 DEF AfterFits, Width
<1>8. \A m, n \in 1 .. N : m < n => o[m] + (k[m] + v(m)) <= o[n]
  BY <1>2, <1>3 DEF BlockStanding
<1>9. \A n \in 1 .. N : s[n].op = "phi" /\ n # N => k[n] = 0
  BY <1>2, <1>3 DEF BlockStanding
<1>10. \A n \in 1 .. N : \A p \in 1 .. k[n] + v(n) : o[n] + p \in 1 .. L
  <2>1. \A n \in 1 .. N : Standing(code, after, w, s[n], o[n], k[n])
    BY <1>2, <1>3 DEF BlockStanding
  <2> QED BY <1>3, <2>1 DEF Standing
<1>11. \A n \in 1 .. N : w[o[n] + (k[n] + 1)].op = s[n].op
  <2> TAKE n \in 1 .. N
  <2>1. Standing(code, after, w, s[n], o[n], k[n])
    BY <1>2, <1>3 DEF BlockStanding
  <2>2. w[o[n] + (k[n] + 1)] = New(code, after, s[n])
    BY <2>1 DEF Standing
  <2> QED BY <1>5, <2>2, NewFields
<1>12. ASSUME NEW q \in 1 .. L
       PROVE  \E n \in 1 .. N : \E p \in 1 .. k[n] + v(n) :
                /\ q = o[n] + p
                /\ Ordinary(w[q]) \/ (p = k[n] + 1 /\ w[q].op = s[n].op)
  <2>1. q \in DOMAIN W[b]
    BY <1>2, <1>3
  <2>2. PICK n \in DOMAIN body[b] : \E p \in 1 .. l[b][n] + Width(after, body[b][n]) :
          /\ q = off[b][n] + p /\ off[b][n] \in Nat /\ l[b][n] \in Nat
          /\ \/ Ordinary(W[b][q])
             \/ /\ p = l[b][n] + 1 /\ W[b][q] = New(code, after, body[b][n])
                /\ W[b][q].op = body[b][n].op
    BY <2>1, OnlyOldBound
  <2> QED BY <1>2, <1>3, <2>2
<1>13. \A n \in 1 .. N : ~Ordinary(s[n]) <=> s[n].op = "phi" \/ s[n].op \in Terminators
  BY DEF Ordinary
<1>14. \A q : ~Ordinary(w[q]) <=> w[q].op = "phi" \/ w[q].op \in Terminators
  BY DEF Ordinary
<1>15. "phi" \notin Terminators
  BY DEF Terminators
<1> HIDE DEF v
<1>16. N \in 1 .. N /\ s[N].op \in Terminators /\ v(N) = 1
  BY <1>3, <1>4, <1>7, <1>13
<1>17. L = o[N] + (k[N] + 1)
  <2>1. o[N] + (k[N] + 1) \in 1 .. L
    <3>1. k[N] + 1 \in 1 .. k[N] + v(N)
      BY <1>6, <1>16
    <3> QED BY <1>10, <1>16, <3>1
  <2>2. L \in 1 .. L
    BY <1>3, <2>1
  <2>3. PICK n \in 1 .. N : \E p \in 1 .. k[n] + v(n) : L = o[n] + p
    BY <1>12, <2>2
  <2>4. PICK p \in 1 .. k[n] + v(n) : L = o[n] + p
    BY <2>3
  <2>5. CASE n = N
    <3>1. p <= k[N] + 1 /\ p \in Nat /\ o[N] \in Nat /\ k[N] \in Nat
      BY <1>6, <1>16, <2>4, <2>5
    <3> QED BY <1>3, <2>1, <2>4, <2>5, <3>1
  <2>6. CASE n # N
    <3>1. n < N
      BY <1>3, <2>6
    <3>2. o[n] + (k[n] + v(n)) <= o[N]
      BY <1>8, <1>16, <3>1
    <3>3. o[n] \in Nat /\ o[N] \in Nat /\ k[N] \in Nat
      BY <1>6, <1>16
    <3> DEFINE e == k[n] + v(n)
    <3>4. e \in Nat
      <4>1. k[n] \in Nat /\ v(n) \in {1, 2}
        BY <1>6
      <4> QED BY <4>1
    <3>5. p \in 1 .. e /\ o[n] + e <= o[N] /\ L = o[n] + p
      BY <2>4, <3>2
    <3>6. o[N] + (k[N] + 1) <= L
      BY <1>3, <2>1
    <3> DEFINE a == o[n]
               d == o[N]
               g == k[N]
    <3>7. /\ a \in Nat /\ d \in Nat /\ g \in Nat /\ p \in 1 .. e
          /\ a + e <= d /\ L = a + p /\ d + (g + 1) <= L
      BY <3>3, <3>5, <3>6
    <3> HIDE DEF e, a, d, g
    <3> QED BY <3>4, <3>7
  <2> QED BY <2>5, <2>6
<1>18. L > 0
  BY <1>6, <1>16, <1>17
<1>19. ASSUME NEW q \in 1 .. L PROVE w[q].op \in Terminators <=> q = L
  <2>1. q = L => w[q].op \in Terminators
    BY <1>11, <1>16, <1>17
  <2>2. ASSUME w[q].op \in Terminators PROVE q = L
    <3>1. \E n \in 1 .. N : \E p \in 1 .. k[n] + v(n) :
             q = o[n] + p /\ p = k[n] + 1 /\ w[q].op = s[n].op
      BY <1>12, <1>14, <2>2
    <3>2. PICK n \in 1 .. N : \E p \in 1 .. k[n] + v(n) :
             q = o[n] + p /\ p = k[n] + 1 /\ w[q].op = s[n].op
      BY <3>1
    <3>3. q = o[n] + (k[n] + 1) /\ w[q].op = s[n].op
      BY <3>2
    <3>4. n = N
      BY <1>4, <2>2, <3>3
    <3> QED BY <1>17, <3>3, <3>4
  <2> QED BY <2>1, <2>2
<1>20. ASSUME NEW q \in 1 .. L, w[q].op = "phi", NEW x \in 1 .. q PROVE w[x].op = "phi"
  <2>0. PICK n \in 1 .. N : \E p \in 1 .. k[n] + v(n) :
           q = o[n] + p /\ p = k[n] + 1 /\ w[q].op = s[n].op
    BY <1>12, <1>14, <1>20
  <2>1. PICK p \in 1 .. k[n] + v(n) : q = o[n] + p /\ p = k[n] + 1 /\ w[q].op = s[n].op
    BY <2>0
  <2>2. s[n].op = "phi" /\ \A m \in 1 .. n : s[m].op = "phi"
    BY <1>4, <1>20, <2>1
  <2>3. x \in 1 .. L
    BY <1>3
  <2>11. PICK m \in 1 .. N : \E y \in 1 .. k[m] + v(m) : x = o[m] + y
    BY <1>12, <2>3
  <2>4. PICK y \in 1 .. k[m] + v(m) : x = o[m] + y
    BY <2>11
  <2>5. /\ y \in Nat /\ y >= 1 /\ o[m] \in Nat /\ k[m] \in Nat /\ o[n] \in Nat /\ k[n] \in Nat
        /\ p \in Nat /\ x <= q /\ y <= k[m] + v(m)
    BY <1>6, <2>1, <2>4
  <2>6. m <= n
    <3> SUFFICES ASSUME m > n PROVE FALSE
      BY <1>3
    <3>1. o[n] + (k[n] + v(n)) <= o[m]
      BY <1>8, <1>3
    <3>2. v(n) \in {1, 2} /\ q = o[n] + (k[n] + 1)
      BY <1>6, <2>1
    <3> QED BY <2>4, <2>5, <3>1, <3>2
  <2>7. s[m].op = "phi" /\ m # N
    <3>1. m \in 1 .. n
      BY <2>6, <1>3
    <3>2. s[m].op = "phi"
      BY <2>2, <3>1
    <3> QED BY <1>15, <1>16, <3>2
  <2>8. k[m] = 0 /\ v(m) = 1
    BY <1>7, <1>9, <1>13, <2>7
  <2>9. y = 0 + 1
    BY <2>4, <2>5, <2>8
  <2>10. x = o[m] + (k[m] + 1)
    BY <2>4, <2>8, <2>9
  <2> QED BY <1>11, <2>7, <2>10
<1> QED BY <1>2, <1>3, <1>18, <1>19, <1>20

\* What a demoted constant is made of stands before it.
InOrder(i, k, z) ==
    \A r \in DOMAIN z : \E c \in DOMAIN unit.consts :
        /\ z[r] = Materialized(i, k, c)
        /\ \A n \in DOMAIN unit.consts[c].ops : Demotable(unit.consts[c].ops[n]) =>
             \E q \in 1 .. r - 1 : z[q] = Materialized(i, k, unit.consts[c].ops[n][2])

LEMMA InOrderFlatten ==
    ASSUME NEW M, NEW ss \in Seq(Seq(M)), NEW i, NEW k,
           \A n \in DOMAIN ss : InOrder(i, k, ss[n])
    PROVE  InOrder(i, k, FlattenSeq(ss))
<1>1. PICK off : Offsets(ss, off)
  BY OffsetsExist
<1>2. DOMAIN ss = 1 .. Len(ss) /\ \A n \in DOMAIN ss : ss[n] \in Seq(M)
  BY LenProperties, ElementOfSeq
<1>3. \A n \in DOMAIN ss : Len(ss[n]) \in Nat /\ DOMAIN ss[n] = 1 .. Len(ss[n])
  BY <1>2, LenProperties
<1>4. PICK z : z = FlattenSeq(ss)
  OBVIOUS
<1> SUFFICES ASSUME NEW x \in DOMAIN z
             PROVE  \E c \in DOMAIN unit.consts :
                      /\ z[x] = Materialized(i, k, c)
                      /\ \A n \in DOMAIN unit.consts[c].ops :
                           Demotable(unit.consts[c].ops[n]) =>
                             \E q \in 1 .. x - 1 :
                               z[q] = Materialized(i, k, unit.consts[c].ops[n][2])
  BY <1>4 DEF InOrder
<1>5. PICK n \in DOMAIN ss : \E p \in 1 .. Len(ss[n]) : x = off[n] + p
  BY <1>1, <1>2, <1>4 DEF Offsets
<1>6. PICK p \in 1 .. Len(ss[n]) : x = off[n] + p
  BY <1>5
<1>7. /\ off[n] \in Nat /\ Len(ss[n]) \in Nat
      /\ \A y \in 1 .. Len(ss[n]) : z[off[n] + y] = ss[n][y]
  BY <1>1, <1>2, <1>3, <1>4 DEF Offsets
<1>8. PICK c \in DOMAIN unit.consts :
         /\ ss[n][p] = Materialized(i, k, c)
         /\ \A m \in DOMAIN unit.consts[c].ops : Demotable(unit.consts[c].ops[m]) =>
              \E q \in 1 .. p - 1 : ss[n][q] = Materialized(i, k, unit.consts[c].ops[m][2])
  <2>1. p \in DOMAIN ss[n] /\ InOrder(i, k, ss[n])
    BY <1>3
  <2> QED BY <2>1 DEF InOrder
<1>9. ASSUME NEW m \in DOMAIN unit.consts[c].ops, Demotable(unit.consts[c].ops[m])
      PROVE  \E q \in 1 .. x - 1 : z[q] = Materialized(i, k, unit.consts[c].ops[m][2])
  <2>1. PICK q \in 1 .. p - 1 : ss[n][q] = Materialized(i, k, unit.consts[c].ops[m][2])
    BY <1>8, <1>9
  <2>2. q \in 1 .. Len(ss[n]) /\ off[n] + q \in 1 .. x - 1
    BY <1>6, <1>7
  <2> QED BY <1>7, <2>1, <2>2
<1> QED BY <1>6, <1>7, <1>8, <1>9

LEMMA InOrderExpanded ==
    ASSUME NEW i, NEW k, NEW f \in [DOMAIN unit.consts -> Seq(Materials(i, k))],
           \A c \in DOMAIN unit.consts : f[c] = Expanded(i, k, f, c),
           NEW rank, NEW N, Ranked(rank, N),
           NEW c \in DOMAIN unit.consts,
           \A d \in DOMAIN unit.consts : rank[d] < rank[c] =>
              InOrder(i, k, f[d]) /\ Materialized(i, k, d) \in Range(f[d])
    PROVE  InOrder(i, k, f[c]) /\ Materialized(i, k, c) \in Range(f[c])
<1> DEFINE M == Materials(i, k)
           ops == unit.consts[c].ops
           L == Len(ops)
           ss == [n \in DOMAIN ops |-> IF Demotable(ops[n]) THEN f[ops[n][2]] ELSE <<>>]
           m == Materialized(i, k, c)
           q == FlattenSeq(ss)
<1>1. ops \in Seq(Range(ops)) /\ L \in Nat /\ DOMAIN ops = 1 .. L
  BY LenProperties DEF Ranked
<1>2. \A n \in DOMAIN ops : Demotable(ops[n]) =>
         /\ ops[n][2] \in DOMAIN unit.consts
         /\ InOrder(i, k, f[ops[n][2]])
         /\ Materialized(i, k, ops[n][2]) \in Range(f[ops[n][2]])
         /\ f[ops[n][2]] \in Seq(M)
  <2> SUFFICES ASSUME NEW n \in DOMAIN ops, Demotable(ops[n])
               PROVE  /\ ops[n][2] \in DOMAIN unit.consts
                      /\ InOrder(i, k, f[ops[n][2]])
                      /\ Materialized(i, k, ops[n][2]) \in Range(f[ops[n][2]])
                      /\ f[ops[n][2]] \in Seq(M)
    OBVIOUS
  <2>1. ops[n][2] \in DOMAIN unit.consts /\ rank[ops[n][2]] < rank[c]
    BY DEF Ranked
  <2> HIDE DEF M, ops
  <2>2. f \in [DOMAIN unit.consts -> Seq(M)]
    BY DEF M
  <2> QED BY <2>1, <2>2
<1>3. InOrder(i, k, <<>>) /\ <<>> \in Seq(M)
  BY EmptySeq DEF InOrder
<1>4. f[c] = q \o <<m>>
  BY Zenon DEF Expanded
<1>5. m \in M
  BY DEF Materials
<1>6. DOMAIN ss = 1 .. L /\ ss = [n \in 1 .. L |-> ss[n]]
      /\ \A n \in 1 .. L : ss[n] = IF Demotable(ops[n]) THEN f[ops[n][2]] ELSE <<>>
  BY <1>1
<1> HIDE DEF ss, m, M, L
<1>7. ss \in Seq(Seq(M))
  <2>1. \A n \in 1 .. L : ss[n] \in Seq(M)
    BY <1>1, <1>2, <1>3, <1>6
  <2> QED BY <1>1, <1>6, <2>1, IsSequence
<1>8. InOrder(i, k, q)
  <2>1. \A n \in DOMAIN ss : InOrder(i, k, ss[n])
    BY <1>1, <1>2, <1>3, <1>6
  <2> QED BY <1>7, <2>1, InOrderFlatten
<1>9. /\ q \in Seq(M)
      /\ \A n \in DOMAIN ops : Demotable(ops[n]) =>
           Materialized(i, k, ops[n][2]) \in Range(q)
  <2>1. q \in Seq(M) /\ \A x : x \in Range(q) <=> \E n \in DOMAIN ss : x \in Range(ss[n])
    BY <1>7, RangeFlatten
  <2> QED BY <1>1, <1>2, <1>6, <2>1
<1> HIDE DEF q
<1>10. PICK s : s = <<m>>
  OBVIOUS
<1>11. s \in Seq(M) /\ Len(s) = 1 /\ s[1] = m
  BY <1>5, <1>10
<1>12. PICK z : z = f[c]
  OBVIOUS
<1>13. /\ Len(z) = Len(q) + 1 /\ Len(q) \in Nat
       /\ \A y \in 1 .. Len(q) : z[y] = q[y]
       /\ z[Len(q) + 1] = m
       /\ DOMAIN z = 1 .. Len(q) + 1 /\ DOMAIN q = 1 .. Len(q)
  <2>1. /\ Len(q \o s) = Len(q) + Len(s)
        /\ \A y \in 1 .. Len(q) : (q \o s)[y] = q[y]
        /\ \A p \in 1 .. Len(s) : (q \o s)[Len(q) + p] = s[p]
    <3>1. q \in Seq(M) /\ s \in Seq(M)
      BY <1>9, <1>11
    <3> QED BY <3>1, JoinPlaces
  <2>2. q \o s \in Seq(M)
    BY <1>9, <1>11, ConcatProperties
  <2>3. z = q \o s
    BY <1>4, <1>10, <1>12
  <2>4. 1 \in 1 .. Len(s)
    BY <1>11
  <2> QED BY <1>9, <1>11, <2>1, <2>2, <2>3, <2>4, LenProperties
<1>14. m \in Range(z)
  <2>1. Len(q) + 1 \in DOMAIN z
    BY <1>13
  <2> QED BY <1>13, <2>1 DEF Range
<1>15. ASSUME NEW r \in DOMAIN z
       PROVE  \E d \in DOMAIN unit.consts :
                /\ z[r] = Materialized(i, k, d)
                /\ \A n \in DOMAIN unit.consts[d].ops : Demotable(unit.consts[d].ops[n]) =>
                     \E y \in 1 .. r - 1 : z[y] = Materialized(i, k, unit.consts[d].ops[n][2])
  <2>1. CASE r \in 1 .. Len(q)
    <3>1. PICK d \in DOMAIN unit.consts :
             /\ q[r] = Materialized(i, k, d)
             /\ \A n \in DOMAIN unit.consts[d].ops : Demotable(unit.consts[d].ops[n]) =>
                  \E y \in 1 .. r - 1 : q[y] = Materialized(i, k, unit.consts[d].ops[n][2])
      <4>1. r \in DOMAIN q
        BY <1>13, <2>1
      <4> QED BY <1>8, <4>1 DEF InOrder
    <3>2. \A y \in 1 .. r - 1 : z[y] = q[y]
      BY <1>13, <2>1
    <3>3. z[r] = q[r]
      BY <1>13, <2>1
    <3>4. \A n \in DOMAIN unit.consts[d].ops : Demotable(unit.consts[d].ops[n]) =>
            \E y \in 1 .. r - 1 : z[y] = Materialized(i, k, unit.consts[d].ops[n][2])
      BY <3>1, <3>2
    <3> QED BY <3>1, <3>3, <3>4
  <2>2. CASE r = Len(q) + 1
    <3>1. z[r] = Materialized(i, k, c)
      BY <1>13, <2>2 DEF m
    <3>2. ASSUME NEW n \in DOMAIN ops, Demotable(ops[n])
          PROVE  \E y \in 1 .. r - 1 : z[y] = Materialized(i, k, ops[n][2])
      <4>1. Materialized(i, k, ops[n][2]) \in Range(q)
        BY <1>9, <3>2
      <4>2. PICK y \in DOMAIN q : q[y] = Materialized(i, k, ops[n][2])
        BY <4>1 DEF Range
      <4>3. y \in 1 .. r - 1 /\ z[y] = q[y]
        BY <1>13, <2>2
      <4> QED BY <4>2, <4>3
    <3> QED BY <3>1, <3>2
  <2> QED BY <1>13, <2>1, <2>2
<1>16. InOrder(i, k, z)
  BY <1>15 DEF InOrder
<1> QED BY <1>12, <1>14, <1>16 DEF m

LEMMA ExpansionInOrder ==
    ASSUME unit \in Modules, ModulesAssumption, NEW i, NEW k,
           i.ops[k][2] \in DOMAIN unit.consts
    PROVE  InOrder(i, k, Expansion(i, k))
<1> DEFINE D == DOMAIN unit.consts
           Fine(f, c) == InOrder(i, k, f[c]) /\ Materialized(i, k, c) \in Range(f[c])
<1>1. PICK rank, N : Ranked(rank, N)
  BY ConstantsRanked
<1>2. N \in Nat /\ \A c \in D : rank[c] \in 0 .. N
  BY <1>1 DEF Ranked
<1>3. PICK f \in [D -> Seq(Materials(i, k))] :
         /\ \A c \in D : f[c] = Expanded(i, k, f, c)
         /\ Expansion(i, k) = f[i.ops[k][2]]
  BY ExpansionIs
<1> DEFINE Good == {n \in 0 .. N + 1 : \A c \in D : rank[c] < n => Fine(f, c)}
<1>4. 0 \in Good
  BY <1>2
<1>5. ASSUME NEW n \in 1 .. N + 1, n - 1 \in Good PROVE n \in Good
  <2>1. ASSUME NEW c \in D, rank[c] < n PROVE Fine(f, c)
    <3>1. \A d \in D : rank[d] < rank[c] => Fine(f, d)
      <4>1. \A d \in D : rank[d] < rank[c] => rank[d] < n - 1
        BY <1>2, <2>1
      <4> HIDE DEF Fine
      <4> QED BY <1>5, <4>1
    <3>2. \A d \in D : f[d] = Expanded(i, k, f, d)
      BY <1>3
    <3> QED BY <1>1, <3>1, <3>2, InOrderExpanded
  <2>2. n \in 0 .. N + 1
    BY <1>2
  <2> HIDE DEF Fine
  <2> QED BY <2>1, <2>2
<1> HIDE DEF Good, Fine
<1>6. 0 .. N + 1 \subseteq Good
  <2> DEFINE P == N + 1
  <2>1. P \in Nat
    BY <1>2
  <2>2. \A n \in 1 .. P : n - 1 \in Good => n \in Good
    BY <1>5
  <2> HIDE DEF P
  <2>3. 0 .. P \subseteq Good
    BY <1>4, <2>1, <2>2, AllNumbers
  <2> QED BY <2>3 DEF P
<1>7. N + 1 \in Good /\ rank[i.ops[k][2]] < N + 1
  BY <1>2, <1>6
<1>8. Fine(f, i.ops[k][2])
  BY <1>7 DEF Good
<1> QED BY <1>3, <1>8 DEF Fine

-----------------------------------------------------------------------------
(* What stands close to its use *)

\* A cast made for an instruction other than a phi stands before it in its own
\* block, and so does what an appended cast casts.
Before1(B, v, b, n) == \E p \in DOMAIN B[b] : p < n /\ B[b][p].id = v
Near(B) ==
    \A b \in DOMAIN B : \A n \in DOMAIN B[b] : \A k \in DOMAIN B[b][n].ops :
        LET i == B[b][n]
        IN (i.op # "phi" /\ i.ops[k][1] = "pre") \/ i.id[1] = "post"
           => Before1(B, i.ops[k], b, n)
CastsNear == Near(body)

\* What stood before an instruction stands before what is inserted for it.
LEMMA CarriedNear ==
    ASSUME NEW code, NEW after, NEW W, NEW off, NEW l, BodyInv,
           Layout(code, after, W, off, l),
           NEW b \in DOMAIN body, NEW n \in DOMAIN body[b], NEW v,
           Before1(body, v, b, n), NEW m \in Nat, off[b][n] < m
    PROVE  Before1(W, Replaced(after, v), b, m)
<1>1. PICK p \in DOMAIN body[b] : p < n /\ body[b][p].id = v
  BY DEF Before1
<1>2. PICK x \in DOMAIN W[b] :
         /\ W[b][x].id = Replaced(after, v)
         /\ x <= off[b][p] + (l[b][p] + Width(after, body[b][p])) /\ x \in Nat
  BY <1>1, DefinitionKept
<1>3. BlockStanding(code, after, W[b], b, off[b], l[b])
  BY DEF Layout
<1>4. off[b][p] + (l[b][p] + Width(after, body[b][p])) <= off[b][n]
      /\ off[b][p] \in Nat /\ l[b][p] \in Nat /\ off[b][n] \in Nat
  BY <1>1, <1>3 DEF BlockStanding
<1>5. Width(after, body[b][p]) \in Nat
  BY DEF Width
<1>6. x < m
  BY <1>2, <1>4, <1>5
<1> QED BY <1>2, <1>6 DEF Before1

\* An inserted instruction that uses a cast is no phi and has it before it, ...
LEMMA InsertedNear ==
    ASSUME NEW code, NEW after, NEW W, NEW off, NEW l, BodyInv, CastsNear,
           Layout(code, after, W, off, l), AfterFits(after), CodeFits(code, after),
           \A s \in DOMAIN code : \A r \in DOMAIN code[s] : r \in Nat /\ r >= 1,
           \A s \in DOMAIN code : \A r \in DOMAIN code[s] : \A q \in 1 .. r : q \in DOMAIN code[s],
           \A s \in DOMAIN code : \A r \in DOMAIN code[s] : code[s][r].id[1] # "post",
           NEW b \in DOMAIN body, NEW n \in DOMAIN body[b], NEW x \in 1 .. l[b][n],
           off[b][n] \in Nat, l[b][n] \in Nat,
           Inserted(code, after, W[b], body[b][n], off[b][n], x),
           NEW q, q = off[b][n] + x, NEW k \in DOMAIN W[b][q].ops
    PROVE  /\ W[b][q].id[1] # "post"
           /\ W[b][q].ops[k][1] = "pre" => Before1(W, W[b][q].ops[k], b, q)
<1>1. PICK w, i, o : w = W[b] /\ i = body[b][n] /\ o = off[b][n]
  OBVIOUS
<1>2. PICK s \in DOMAIN code : \E r \in DOMAIN code[s] :
        /\ r <= x
        /\ s[1].op = "phi" \/ s[1] = i
        /\ w[o + x] = MovedInstr(after, code[s][r])
        /\ \A y \in 1 .. r : w[o + (x - r + y)] = MovedInstr(after, code[s][y])
  BY <1>1 DEF Inserted
<1>3. PICK r \in DOMAIN code[s] :
        /\ r <= x
        /\ s[1].op = "phi" \/ s[1] = i
        /\ w[o + x] = MovedInstr(after, code[s][r])
        /\ \A y \in 1 .. r : w[o + (x - r + y)] = MovedInstr(after, code[s][y])
  BY <1>2
<1>4. PICK c : c = code[s][r]
  OBVIOUS
<1>5. FitsAt(code, after, s, r, c) /\ s \in Slots
  BY <1>4 DEF CodeFits
<1>6. Instruction(c)
  BY <1>5 DEF FitsAt
<1>7. PICK j : j = w[q]
  OBVIOUS
<1>8. /\ j.id = c.id /\ DOMAIN j.ops = DOMAIN c.ops
      /\ \A y \in DOMAIN c.ops : j.ops[y] = Replaced(after, c.ops[y])
  <2>1. j = MovedInstr(after, c)
    BY <1>1, <1>3, <1>4, <1>7
  <2> QED BY <1>6, <2>1, MovedFields
<1>9. j.id[1] # "post"
  BY <1>4, <1>8
<1> SUFFICES ASSUME j.ops[k][1] = "pre" PROVE Before1(W, j.ops[k], b, q)
  BY <1>1, <1>7, <1>9
<1>10. k \in DOMAIN c.ops /\ j.ops[k] = c.ops[k] /\ c.ops[k][1] = "pre"
  <2>1. k \in DOMAIN c.ops /\ j.ops[k] = Replaced(after, c.ops[k])
    BY <1>1, <1>7, <1>8
  <2> QED BY <2>1 DEF Replaced
<1>11. \A y \in 1 .. l[b][n] : o + y \in DOMAIN w
  <2>1. Standing(code, after, w, i, o, l[b][n])
    BY <1>1 DEF Layout, BlockStanding
  <2>2. Width(after, i) \in Nat
    BY DEF Width
  <2>3. \A y \in 1 .. l[b][n] : y \in 1 .. l[b][n] + Width(after, i)
    BY <2>2
  <2> QED BY <2>1, <2>3 DEF Standing
<1>13. CASE \E y \in 1 .. r - 1 : c.ops[k] = code[s][y].id
  <2>1. PICK y \in 1 .. r - 1 : c.ops[k] = code[s][y].id
    BY <1>13
  <2>2. r \in Nat /\ y \in 1 .. r /\ y < r /\ y \in Nat
    OBVIOUS
  <2>3. PICK e : e = code[s][y]
    OBVIOUS
  <2>4. FitsAt(code, after, s, y, e)
    <3>1. y \in DOMAIN code[s]
      BY <2>2
    <3> QED BY <2>3, <3>1 DEF CodeFits
  <2>5. Instruction(e)
    BY <2>4 DEF FitsAt
  <2>6. PICK z : z = o + (x - r + y)
    OBVIOUS
  <2>7. w[z] = MovedInstr(after, e)
    BY <1>3, <2>2, <2>3, <2>6
  <2>8. w[z].id = e.id
    BY <2>5, <2>7, MovedFields
  <2>9. x - r + y \in 1 .. l[b][n] /\ z < q
    BY <1>1, <1>3, <2>2, <2>6
  <2>10. z \in DOMAIN w
    BY <1>11, <2>6, <2>9
  <2> QED BY <1>1, <1>10, <2>1, <2>3, <2>8, <2>9, <2>10 DEF Before1
<1>14. CASE s[1].op # "phi" /\ c.ops[k] = s[1].ops[s[2]]
  <2>1. s[1] = i /\ i.op # "phi" /\ s[2] \in DOMAIN i.ops
    BY <1>3, <1>5, <1>14 DEF Slots
  <2>2. Before1(body, c.ops[k], b, n)
    BY <1>1, <1>10, <1>14, <2>1 DEF CastsNear, Near
  <2>3. q \in Nat /\ off[b][n] < q
    OBVIOUS
  <2>4. Before1(W, Replaced(after, c.ops[k]), b, q)
    BY <2>2, <2>3, CarriedNear
  <2>5. Replaced(after, c.ops[k]) = j.ops[k]
    BY <1>1, <1>7, <1>8, <1>10
  <2> QED BY <2>4, <2>5
<1> QED BY <1>5, <1>10, <1>13, <1>14 DEF FitsAt, IsLocal, IsInserted

\* ... one that was there still has, ...
LEMMA NewNear ==
    ASSUME NEW code, NEW after, NEW W, NEW off, NEW l, BodyInv, CastsNear,
           Layout(code, after, W, off, l), AfterFits(after), CodeFits(code, after),
           \A s \in DOMAIN code : Last(code[s]) \in Range(code[s]),
           \A i \in Instrs : i.id[1] = "post" => i.op # "phi",
           NEW b \in DOMAIN body, NEW n \in DOMAIN body[b],
           off[b][n] \in Nat, l[b][n] \in Nat,
           NEW q, q = off[b][n] + (l[b][n] + 1),
           NEW j, j = New(code, after, body[b][n]),
           NEW k \in DOMAIN j.ops,
           (j.op # "phi" /\ j.ops[k][1] = "pre") \/ j.id[1] = "post"
    PROVE  Before1(W, j.ops[k], b, q)
<1>1. PICK i : i = body[b][n]
  OBVIOUS
<1>2. i \in Instrs /\ Instruction(i)
  BY <1>1 DEF BodyInv, Instrs, Range
<1>3. /\ j.id = i.id /\ j.op = i.op /\ k \in DOMAIN i.ops
      /\ j.ops[k] = IF <<i, k>> \in DOMAIN code THEN Last(code[<<i, k>>]).id
                    ELSE Replaced(after, i.ops[k])
  <2>1. j = New(code, after, i)
    BY <1>1
  <2> QED BY <1>2, <2>1, NewFields
<1>4. BlockStanding(code, after, W[b], b, off[b], l[b])
  BY DEF Layout
<1>5. i.op # "phi"
  BY <1>2, <1>3
<1>6. CASE <<i, k>> \in DOMAIN code
  <2>1. PICK s : s = <<i, k>>
    OBVIOUS
  <2>2. PICK e : e = Last(code[s])
    OBVIOUS
  <2>3. e \in Range(code[s]) /\ j.ops[k] = e.id
    BY <1>3, <1>6, <2>1, <2>2
  <2>4. Instruction(e)
    <3>1. PICK r \in DOMAIN code[s] : e = code[s][r]
      BY <2>3 DEF Range
    <3>2. FitsAt(code, after, s, r, e)
      BY <1>6, <2>1, <3>1 DEF CodeFits
    <3> QED BY <3>2 DEF FitsAt
  <2>5. MovedInstr(after, e).id = e.id
    BY <2>4, MovedFields
  <2>6. PICK w, o, m : w = W[b] /\ o = off[b][n] /\ m = l[b][n]
    OBVIOUS
  <2>7. Standing(code, after, w, i, o, m)
    BY <1>1, <1>4, <2>6 DEF BlockStanding
  <2>8. Found(after, w, o, m, code[<<i, k>>])
    BY <1>3, <1>5, <1>6, <2>7 DEF Standing
  <2>9. PICK x \in 1 .. m : w[o + x] = MovedInstr(after, e)
    BY <2>1, <2>3, <2>8 DEF Found
  <2>10. o + x \in DOMAIN w
    <3>1. Width(after, i) \in Nat
      BY DEF Width
    <3>2. x \in 1 .. m + Width(after, i)
      BY <2>6, <3>1
    <3> QED BY <2>7, <3>2 DEF Standing
  <2>11. o + x < q
    BY <2>6
  <2> QED BY <2>3, <2>5, <2>6, <2>9, <2>10, <2>11 DEF Before1
<1>7. CASE <<i, k>> \notin DOMAIN code
  <2>1. j.ops[k] = Replaced(after, i.ops[k])
    BY <1>3, <1>7
  <2>2. i.ops[k][1] = "pre" \/ i.id[1] = "post"
    BY <1>3, <2>1 DEF Replaced
  <2>3. Before1(body, i.ops[k], b, n)
    BY <1>1, <1>3, <1>5, <2>2 DEF CastsNear, Near
  <2>4. q \in Nat /\ off[b][n] < q
    OBVIOUS
  <2>5. Before1(W, Replaced(after, i.ops[k]), b, q)
    BY <2>3, <2>4, CarriedNear
  <2> QED BY <2>1, <2>5
<1> QED BY <1>6, <1>7

\* ... and so the rewritten body is like that.
LEMMA NearKept ==
    ASSUME NEW code, NEW after, NEW W, NEW off, NEW l, BodyInv, CastsNear,
           Layout(code, after, W, off, l), AfterFits(after), CodeFits(code, after),
           \A s \in DOMAIN code : \A r \in DOMAIN code[s] : r \in Nat /\ r >= 1,
           \A s \in DOMAIN code : \A r \in DOMAIN code[s] : \A q \in 1 .. r : q \in DOMAIN code[s],
           \A s \in DOMAIN code : \A r \in DOMAIN code[s] : code[s][r].id[1] # "post",
           \A s \in DOMAIN code : Last(code[s]) \in Range(code[s]),
           \A i \in Instrs : i.id[1] = "post" => i.op # "phi"
    PROVE  Near(W)
<1> SUFFICES ASSUME NEW b \in DOMAIN W, NEW q \in DOMAIN W[b], NEW k \in DOMAIN W[b][q].ops,
                    \/ W[b][q].op # "phi" /\ W[b][q].ops[k][1] = "pre"
                    \/ W[b][q].id[1] = "post"
             PROVE  Before1(W, W[b][q].ops[k], b, q)
  BY DEF Near
<1>1. b \in DOMAIN body
  BY DEF Layout
<1>2. PICK n \in DOMAIN body[b] : \E p \in 1 .. l[b][n] + Width(after, body[b][n]) :
        /\ q = off[b][n] + p /\ off[b][n] \in Nat /\ l[b][n] \in Nat
        /\ \/ p \in 1 .. l[b][n]
                /\ Inserted(code, after, W[b], body[b][n], off[b][n], p)
           \/ p = l[b][n] + 1 /\ W[b][q] = New(code, after, body[b][n])
           \/ /\ p = l[b][n] + 2 /\ body[b][n].id \in after
              /\ W[b][q] = PostCast(body[b][n])
  BY <1>1, Places
<1>3. PICK p \in 1 .. l[b][n] + Width(after, body[b][n]) :
        /\ q = off[b][n] + p /\ off[b][n] \in Nat /\ l[b][n] \in Nat
        /\ \/ p \in 1 .. l[b][n]
                /\ Inserted(code, after, W[b], body[b][n], off[b][n], p)
           \/ p = l[b][n] + 1 /\ W[b][q] = New(code, after, body[b][n])
           \/ /\ p = l[b][n] + 2 /\ body[b][n].id \in after
              /\ W[b][q] = PostCast(body[b][n])
  BY <1>2
<1>4. off[b][n] \in Nat /\ l[b][n] \in Nat
  BY <1>3
<1>5. CASE p \in 1 .. l[b][n] /\ Inserted(code, after, W[b], body[b][n], off[b][n], p)
  <2>1. q = off[b][n] + p /\ p \in 1 .. l[b][n]
    BY <1>3, <1>5
  <2>2. /\ W[b][q].id[1] # "post"
        /\ W[b][q].ops[k][1] = "pre" => Before1(W, W[b][q].ops[k], b, q)
    BY <1>1, <1>4, <1>5, <2>1, InsertedNear
  <2> QED BY <2>2
<1>6. CASE p = l[b][n] + 1 /\ W[b][q] = New(code, after, body[b][n])
  <2>1. PICK j : j = W[b][q]
    OBVIOUS
  <2>2. j = New(code, after, body[b][n]) /\ q = off[b][n] + (l[b][n] + 1)
    BY <1>3, <1>6, <2>1
  <2>3. k \in DOMAIN j.ops /\ ((j.op # "phi" /\ j.ops[k][1] = "pre") \/ j.id[1] = "post")
    BY <2>1
  <2>4. Before1(W, j.ops[k], b, q)
    BY <1>1, <1>4, <2>2, <2>3, NewNear
  <2> QED BY <2>1, <2>4
<1>7. CASE /\ p = l[b][n] + 2 /\ body[b][n].id \in after
           /\ W[b][q] = PostCast(body[b][n])
  <2>1. PICK i : i = body[b][n]
    OBVIOUS
  <2>2. i \in Instrs /\ Instruction(i)
    BY <1>1, <2>1 DEF BodyInv, Instrs, Range
  <2>3. k = 1 /\ W[b][q].ops[k] = i.id
    BY <1>7, <2>1, CastFields DEF PostCast
  <2>4. PICK x : x = off[b][n] + (l[b][n] + 1)
    OBVIOUS
  <2>5. x \in DOMAIN W[b] /\ W[b][x] = New(code, after, i)
    <3>1. Standing(code, after, W[b], i, off[b][n], l[b][n])
      BY <1>1, <2>1 DEF Layout, BlockStanding
    <3>2. l[b][n] + 1 \in 1 .. l[b][n] + Width(after, i)
      BY <1>4 DEF Width
    <3> QED BY <2>4, <3>1, <3>2 DEF Standing
  <2>6. W[b][x].id = i.id
    BY <2>2, <2>5, NewFields
  <2>7. x < q
    BY <1>3, <1>4, <1>7, <2>4
  <2> QED BY <2>3, <2>5, <2>6, <2>7 DEF Before1
<1> QED BY <1>3, <1>5, <1>6, <1>7

-----------------------------------------------------------------------------
(* The passes keep the placement *)

LEMMA PlacedKept ==
    ASSUME NEW C, NEW code, \A s \in DOMAIN code : code[s] \in Seq(C), NEW after,
           BodyInv, ModulesAssumption, PhisInv, Placement, CastsNear, Names,
           AfterFits(after), CodeFits(code, after),
           \A s \in DOMAIN code : \A r \in DOMAIN code[s] : code[s][r].id[1] # "post",
           body' = Rewritten(code, after), unit' = unit
    PROVE  Placement' /\ PhisInv' /\ CastsNear'
<1>1. PICK W : W = Rewritten(code, after)
  OBVIOUS
<1>2. \E off, l : Layout(code, after, W, off, l)
  BY <1>1, LayoutExists
<1>3. PICK off : \E l : Layout(code, after, W, off, l)
  BY <1>2
<1>4. PICK l : Layout(code, after, W, off, l)
  BY <1>3
<1>5. \A s \in DOMAIN code : Len(code[s]) \in Nat /\ DOMAIN code[s] = 1 .. Len(code[s])
  BY LenProperties
<1>6. /\ \A s \in DOMAIN code : \A r \in DOMAIN code[s] : r \in Nat /\ r >= 1
      /\ \A s \in DOMAIN code : \A r \in DOMAIN code[s] : \A q \in 1 .. r : q \in DOMAIN code[s]
  BY <1>5
<1>7. \A s \in DOMAIN code : Last(code[s]) \in Range(code[s])
  <2> TAKE s \in DOMAIN code
  <2>1. Len(code[s]) > 0
    BY DEF CodeFits
  <2>2. Len(code[s]) \in DOMAIN code[s]
    BY <1>5, <2>1
  <2> QED BY <2>2 DEF Last, Range
<1>8. Dominance(unit, W)
  BY <1>4, <1>6, <1>7, DominanceKept
<1>9. BlockShape(W)
  BY <1>4, BlockShapeKept
<1>10. Placement'
  BY <1>1, <1>8, <1>9 DEF Placement, Placed
<1>11. PICK R : R = InstrsIn(W)
  OBVIOUS
<1>12. DOMAIN W = DOMAIN body /\ \A j \in R : Comes(code, after, j)
  BY <1>1, <1>11, RewrittenInstrs
<1>13. Instrs' = R /\ DOMAIN body' = DOMAIN body
  BY <1>1, <1>11, <1>12 DEF Instrs, InstrsIn
<1>14. ASSUME NEW j \in R
       PROVE  /\ j.op = "phi" => /\ DOMAIN j.inc = DOMAIN j.ops
                                 /\ \A k \in DOMAIN j.inc : j.inc[k] \in DOMAIN body
              /\ j.op # "phi" => DOMAIN j.inc = {}
  <2>1. CASE \E i \in Instrs : j = New(code, after, i)
    <3>1. PICK i \in Instrs : j = New(code, after, i)
      BY <2>1
    <3>2. j.op = i.op /\ j.inc = i.inc /\ DOMAIN j.ops = DOMAIN i.ops
      BY <3>1, NewFields DEF BodyInv
    <3> QED BY <3>2 DEF PhisInv
  <2>2. CASE \E s \in DOMAIN code : \E e \in Range(code[s]) : j = MovedInstr(after, e)
    <3>1. PICK s \in DOMAIN code : \E e \in Range(code[s]) : j = MovedInstr(after, e)
      BY <2>2
    <3>2. PICK r \in DOMAIN code[s] : j = MovedInstr(after, code[s][r])
      BY <3>1 DEF Range
    <3>3. PICK c : c = code[s][r]
      OBVIOUS
    <3>4. Instruction(c) /\ c.op # "phi" /\ DOMAIN c.inc = {}
      BY <3>3 DEF CodeFits, FitsAt, Ordinary
    <3>5. j.op = c.op /\ j.inc = c.inc
      BY <3>2, <3>3, <3>4, MovedFields
    <3> QED BY <3>4, <3>5
  <2>3. CASE \E i \in Instrs : i.id \in after /\ j = Cast(<<"post", i.id>>, i.id)
    <3>1. j.op = "bitcast" /\ j.inc = <<>>
      BY <2>3, CastFields
    <3> QED BY <3>1
  <2> QED BY <1>12, <2>1, <2>2, <2>3 DEF Comes
<1>15. PhisInv'
  BY <1>13, <1>14 DEF PhisInv
<1>16. ASSUME NEW i \in Instrs, i.id[1] = "post" PROVE i.op # "phi"
  <2>1. i = Cast(i.id, i.ops[1])
    BY <1>16 DEF Names
  <2> QED BY <2>1, CastFields
<1>17. Near(W)
  BY <1>4, <1>6, <1>7, <1>16, NearKept
<1>18. CastsNear'
  BY <1>1, <1>17 DEF CastsNear
<1> QED BY <1>10, <1>15, <1>18

\* A pass that inserts casts may do so if no phi uses what is cast for it from
\* where it is defined.
LEMMA CastPassPlaced ==
    ASSUME NEW pass, NEW slots, slots \subseteq Slots, NEW after,
           BodyInv, ModulesAssumption, PhisInv, Placement, CastsNear, Names,
           \A v \in after : v[1] \in {"inst", "dem"},
           \A i \in Instrs : i.id \in after => Ordinary(i),
           \A i \in Instrs : \A k \in DOMAIN i.ops : <<i, k>> \in slots =>
              i.op # "phi" \/ ~IsLocal(i.ops[k]),
           body' = WithCasts(pass, slots, after), unit' = unit
    PROVE  Placement' /\ PhisInv' /\ CastsNear'
<1> DEFINE c(s) == Cast(<<"pre", pass, s[1].id, s[2]>>, s[1].ops[s[2]])
           code == [s \in slots |-> <<c(s)>>]
           C == {c(s) : s \in slots}
<1>1. body' = Rewritten(code, after)
  BY DEF WithCasts
<1>2. DOMAIN code = slots
  OBVIOUS
<1>3. \A s \in slots : Len(code[s]) = 1 /\ DOMAIN code[s] = {1} /\ code[s][1] = c(s)
                       /\ code[s] \in Seq(C)
  <2> TAKE s \in slots
  <2>1. code[s] = <<c(s)>> /\ c(s) \in C
    OBVIOUS
  <2> HIDE DEF code, c, C
  <2> QED BY <2>1
<1> HIDE DEF code, C
<1>4. ASSUME NEW s \in slots, NEW e, e = c(s) 
      PROVE  FitsAt(code, after, s, 1, e) /\ e.id[1] # "post"
  <2>1. PICK i \in Instrs : \E k \in DOMAIN i.ops : s = <<i, k>>
    BY DEF Slots
  <2>2. PICK k \in DOMAIN i.ops : s = <<i, k>>
    BY <2>1
  <2>3. PICK id : id = <<"pre", pass, i.id, k>>
    OBVIOUS
  <2>4. e = Cast(id, i.ops[k])
    BY <1>4, <2>2, <2>3
  <2>5. /\ Instruction(e) /\ e.id = id /\ e.op = "bitcast" /\ DOMAIN e.ops = {1}
        /\ e.ops[1] = i.ops[k] /\ e.inc = <<>>
    BY <2>4, CastFields
  <2>6. id \notin after
    BY <2>3
  <2>7. Ordinary(e) /\ DOMAIN e.inc = {}
    BY <2>5 DEF Ordinary, Terminators
  <2>8. s[1] = i /\ s[2] = k /\ (i.op # "phi" \/ ~IsLocal(i.ops[k]))
    BY <2>2
  <2>9. e.id[1] # "post"
    BY <2>3, <2>5
  <2> QED BY <2>5, <2>6, <2>7, <2>8, <2>9 DEF FitsAt
<1>5. /\ CodeFits(code, after)
      /\ \A s \in DOMAIN code : \A r \in DOMAIN code[s] : code[s][r].id[1] # "post"
  <2> HIDE DEF c
  <2> QED BY <1>2, <1>3, <1>4 DEF CodeFits
<1>6. AfterFits(after)
  BY DEF AfterFits, IsLocal, IsInserted
<1>7. \A s \in DOMAIN code : code[s] \in Seq(C)
  BY <1>2, <1>3
<1> HIDE DEF c
<1> QED BY <1>1, <1>5, <1>6, <1>7, PlacedKept

\* So do the passes that cast what no instruction defines, ...
LEMMA GlobalsPlaced ==
    ASSUME RewriterInv, ModulesAssumption, PhisInv, Placement, CastsNear,
           bitcastGlobalValues
    PROVE  Placement' /\ PhisInv' /\ CastsNear'
<1> DEFINE slots == {s \in Slots : /\ IsGlobal(s[1].ops[s[2]]) /\ ~IsCalleeSlot(s[1], s[2])}
<1>1. body' = WithCasts("globals", slots, {}) /\ unit' = unit
  BY DEF bitcastGlobalValues
<1>2. /\ slots \subseteq Slots
      /\ \A i \in Instrs : \A k \in DOMAIN i.ops : <<i, k>> \in slots =>
           i.op # "phi" \/ ~IsLocal(i.ops[k])
  BY DEF IsGlobal, IsLocal, IsInserted
<1>3. BodyInv /\ Names
  BY DEF RewriterInv
<1>4. (\A v \in {} : v[1] \in {"inst", "dem"}) /\ \A i \in Instrs : i.id \in {} => Ordinary(i)
  OBVIOUS
<1> HIDE DEF slots
<1> QED BY <1>1, <1>2, <1>3, <1>4, CastPassPlaced

LEMMA BlocksPlaced ==
    ASSUME RewriterInv, ModulesAssumption, PhisInv, Placement, CastsNear,
           bitcastBlockAddresses
    PROVE  Placement' /\ PhisInv' /\ CastsNear'
<1> DEFINE slots == {s \in Slots : /\ s[1].ops[s[2]][1] = "block"
                                   /\ ~IsCalleeSlot(s[1], s[2])}
<1>1. body' = WithCasts("blocks", slots, {}) /\ unit' = unit
  BY DEF bitcastBlockAddresses
<1>2. /\ slots \subseteq Slots
      /\ \A i \in Instrs : \A k \in DOMAIN i.ops : <<i, k>> \in slots =>
           i.op # "phi" \/ ~IsLocal(i.ops[k])
  BY DEF IsLocal, IsInserted
<1>3. BodyInv /\ Names
  BY DEF RewriterInv
<1>4. (\A v \in {} : v[1] \in {"inst", "dem"}) /\ \A i \in Instrs : i.id \in {} => Ordinary(i)
  OBVIOUS
<1> HIDE DEF slots
<1> QED BY <1>1, <1>2, <1>3, <1>4, CastPassPlaced

LEMMA ArgsPlaced ==
    ASSUME RewriterInv, ModulesAssumption, PhisInv, Placement, CastsNear,
           bitcastTypedArguments
    PROVE  Placement' /\ PhisInv' /\ CastsNear'
<1> DEFINE slots == {s \in Slots : /\ s[1].ops[s[2]] \in TypedArgs
                                   /\ ~IsCalleeSlot(s[1], s[2])}
<1>1. body' = WithCasts("args", slots, {}) /\ unit' = unit
  BY DEF bitcastTypedArguments
<1>2. /\ slots \subseteq Slots
      /\ \A i \in Instrs : \A k \in DOMAIN i.ops : <<i, k>> \in slots =>
           i.op # "phi" \/ ~IsLocal(i.ops[k])
  <2>1. \A v \in TypedArgs : ~IsLocal(v)
    BY DEF TypedArgs, IsLocal, IsInserted
  <2> QED BY <2>1
<1>3. BodyInv /\ Names
  BY DEF RewriterInv
<1>4. (\A v \in {} : v[1] \in {"inst", "dem"}) /\ \A i \in Instrs : i.id \in {} => Ordinary(i)
  OBVIOUS
<1> HIDE DEF slots
<1> QED BY <1>1, <1>2, <1>3, <1>4, CastPassPlaced

\* ... those that cast for an access or a call, which is no phi, ...
LEMMA OperandsPlaced ==
    ASSUME RewriterInv, ModulesAssumption, PhisInv, Placement, CastsNear,
           bitcastInstructionOperands
    PROVE  Placement' /\ PhisInv' /\ CastsNear'
<1> DEFINE slots == {s \in Slots : PointerSlot(s[1], s[2])}
           after == {i.id : i \in {j \in Instrs : j.op \in {"gep", "alloca"}}}
<1>1. body' = WithCasts("operands", slots, after) /\ unit' = unit
  BY DEF bitcastInstructionOperands
<1>2. /\ slots \subseteq Slots
      /\ \A i \in Instrs : \A k \in DOMAIN i.ops : <<i, k>> \in slots =>
           i.op # "phi" \/ ~IsLocal(i.ops[k])
  BY DEF PointerSlot
<1>3. BodyInv /\ Names
  BY DEF RewriterInv
<1>4. \A v \in after : \E j \in Instrs : v = j.id /\ j.op \in {"gep", "alloca"}
  OBVIOUS
<1>5. \A v \in after : v[1] \in {"inst", "dem"}
  BY <1>3, <1>4, NamesHeads
<1>6. ASSUME NEW i \in Instrs, i.id \in after PROVE Ordinary(i)
  <2>1. i.op \in {"gep", "alloca"}
    BY <1>3, <1>4, <1>6 DEF Names
  <2> QED BY <2>1 DEF Ordinary, Terminators
<1> HIDE DEF slots, after
<1> QED BY <1>1, <1>2, <1>3, <1>5, <1>6, CastPassPlaced

LEMMA CallsPlaced ==
    ASSUME RewriterInv, ModulesAssumption, PhisInv, Placement, CastsNear,
           bitcastFunctionOperands
    PROVE  Placement' /\ PhisInv' /\ CastsNear'
<1> DEFINE slots == UNION {{<<i, k>> : i \in CallsOf(f), k \in Retyped(f)} : f \in Funcs}
           after == UNION {{i.id : i \in {j \in CallsOf(f) : HasUses(j.id)}} :
                              f \in {g \in Funcs : TypedSig(unit.funcs[g])[2]
                                                     # unit.funcs[g].ret}}
<1>1. body' = WithCasts("calls", slots, after) /\ unit' = unit /\ step = "calls"
  BY DEF bitcastFunctionOperands
<1>2. /\ BodyInv /\ Names /\ Operands /\ GlobalsBridged /\ OperandsBridged
  BY DEF RewriterInv
<1>3. /\ "operands" \in Passed(step) /\ "globals" \in Passed(step) /\ step # "error"
      /\ unit \in Modules
  BY <1>1, <1>2 DEF Passed, BodyInv
<1>4. \A f \in Funcs : \A i \in CallsOf(f) :
         i \in Instrs /\ i.op = "call" /\ \A k \in Retyped(f) : k \in DOMAIN i.ops
  BY <1>2, <1>3, CallsDirect
<1>5. \A s \in slots : \E f \in Funcs : \E i \in CallsOf(f) : \E k \in Retyped(f) : s = <<i, k>>
  OBVIOUS
<1>6. \A v \in after : \E f \in Funcs : \E i \in CallsOf(f) : v = i.id
  OBVIOUS
<1> HIDE DEF slots, after
<1>7. slots \subseteq Slots
  BY <1>4, <1>5 DEF Slots
<1>8. \A i \in Instrs : \A k \in DOMAIN i.ops : <<i, k>> \in slots =>
         i.op # "phi" \/ ~IsLocal(i.ops[k])
  BY <1>4, <1>5
<1>9. \A v \in after : \E i \in Instrs : v = i.id /\ i.op = "call"
  BY <1>4, <1>6
<1>10. \A v \in after : v[1] \in {"inst", "dem"}
  BY <1>2, <1>9, NamesHeads
<1>11. ASSUME NEW i \in Instrs, i.id \in after PROVE Ordinary(i)
  <2>1. i.op = "call"
    BY <1>2, <1>9, <1>11 DEF Names
  <2> QED BY <2>1 DEF Ordinary, Terminators
<1> QED BY <1>1, <1>2, <1>7, <1>8, <1>10, <1>11, CastPassPlaced

\* ... and the one that makes instructions of constants, each after those it
\* is made of.
LEMMA DemotePlaced ==
    ASSUME RewriterInv, ModulesAssumption, PhisInv, Placement, CastsNear,
           demotePointerConstants
    PROVE  Placement' /\ PhisInv' /\ CastsNear'
<1> DEFINE slots == {s \in Slots : Demotable(s[1].ops[s[2]])}
           code == [s \in slots |-> Expansion(s[1], s[2])]
           C == UNION {Materials(s[1], s[2]) : s \in slots}
<1>1. body' = Rewritten(code, {}) /\ unit' = unit
  BY DEF demotePointerConstants
<1>2. /\ slots \subseteq Slots
      /\ \A s \in slots : \E i \in Instrs : \E k \in DOMAIN i.ops :
           s = <<i, k>> /\ Demotable(i.ops[k])
  BY DEF Slots
<1>3. DOMAIN code = slots /\ \A s \in slots : code[s] = Expansion(s[1], s[2])
  OBVIOUS
<1>4. \A s \in slots : Materials(s[1], s[2]) \subseteq C
  OBVIOUS
<1>5. BodyInv /\ Names /\ Operands /\ unit \in Modules
  BY DEF RewriterInv, BodyInv
<1> HIDE DEF slots, code, C
<1>6. ASSUME NEW s \in slots
      PROVE  /\ code[s] \in Seq(C) /\ Len(code[s]) > 0
             /\ \A r \in DOMAIN code[s] : /\ FitsAt(code, {}, s, r, code[s][r])
                                          /\ code[s][r].id[1] # "post"
  <2>1. PICK i \in Instrs : \E k \in DOMAIN i.ops : s = <<i, k>> /\ Demotable(i.ops[k])
    BY <1>2
  <2>2. PICK k \in DOMAIN i.ops : s = <<i, k>> /\ Demotable(i.ops[k])
    BY <2>1
  <2>3. i.ops[k][2] \in DOMAIN unit.consts
    <3>1. i.ops[k][1] = "const"
      BY <2>2 DEF Demotable
    <3>2. i.ops[k] \in Values(unit)
      BY <1>5, <3>1 DEF Operands
    <3> QED BY <3>1, <3>2 DEF Values
  <2>4. code[s] = Expansion(i, k)
    BY <1>3, <2>2
  <2>5. /\ code[s] \in Seq(Materials(i, k)) /\ Len(code[s]) > 0
        /\ InOrder(i, k, code[s])
    BY <1>5, <2>3, <2>4, ExpansionInstrs, ExpansionInOrder
  <2>6. code[s] \in Seq(C)
    <3> DEFINE q == code[s]
               M == Materials(i, k)
    <3>1. q \in Seq(M) /\ M \subseteq C
      BY <1>4, <2>2, <2>5
    <3> HIDE DEF q, M
    <3>2. q \in Seq(C)
      BY <3>1, SeqMonotonic
    <3> QED BY <3>2 DEF q
  <2>7. ASSUME NEW r \in DOMAIN code[s]
        PROVE  FitsAt(code, {}, s, r, code[s][r]) /\ code[s][r].id[1] # "post"
    <3>1. PICK c \in DOMAIN unit.consts :
             /\ code[s][r] = Materialized(i, k, c)
             /\ \A n \in DOMAIN unit.consts[c].ops : Demotable(unit.consts[c].ops[n]) =>
                  \E q \in 1 .. r - 1 :
                    code[s][q] = Materialized(i, k, unit.consts[c].ops[n][2])
      BY <2>5 DEF InOrder
    <3>2. PICK m : m = Materialized(i, k, c)
      OBVIOUS
    <3>3. Instruction(m) /\ m.op \in ConstantOps
      BY <1>5, <3>2, MaterializedFields
    <3>4. PICK ops : ops = unit.consts[c].ops
      OBVIOUS
    <3>5. /\ DOMAIN m.inc = {} /\ DOMAIN m.ops = DOMAIN ops
          /\ \A n \in DOMAIN ops :
               m.ops[n] = IF Demotable(ops[n]) THEN <<"dem", i.id, k, ops[n][2]>> ELSE ops[n]
      BY <3>2, <3>4 DEF Materialized
    <3>6. Ordinary(m)
      BY <3>3 DEF ConstantOps, Ordinary, Terminators
    <3>7. ASSUME NEW n \in DOMAIN ops
          PROVE  \/ ~IsLocal(m.ops[n])
                 \/ \E q \in 1 .. r - 1 : m.ops[n] = code[s][q].id
      <4>1. ops[n] \in Values(unit) /\ ops[n][1] # "arg"
        <5>1. ops[n] \in Range(ops)
          BY DEF Range
        <5>2. \A v \in Range(unit.consts[c].ops) : v \in Values(unit) /\ v[1] # "arg"
          BY <1>5 DEF ModulesAssumption, WellFormed, WellFormedConstants
        <5> QED BY <3>4, <5>1, <5>2
      <4>2. CASE Demotable(ops[n])
        <5>1. ops[n][2] \in DOMAIN unit.consts
          BY <4>1, <4>2 DEF Demotable, Values
        <5>2. PICK x : x = ops[n][2]
          OBVIOUS
        <5>3. Materialized(i, k, x).id = <<"dem", i.id, k, x>>
          BY <1>5, <5>1, <5>2, MaterializedFields
        <5>4. PICK q \in 1 .. r - 1 : code[s][q] = Materialized(i, k, x)
          BY <3>1, <3>4, <4>2, <5>2
        <5>5. m.ops[n] = <<"dem", i.id, k, x>>
          BY <3>5, <4>2, <5>2
        <5> QED BY <5>3, <5>4, <5>5
      <4>3. CASE ~Demotable(ops[n])
        <5>1. m.ops[n] = ops[n]
          BY <3>5, <4>3
        <5>2. ops[n][1] \in {"glob", "arg", "const", "block", "null", "int"}
          BY <4>1 DEF Values
        <5>3. ~IsLocal(ops[n])
          BY <5>2 DEF IsLocal, IsInserted
        <5> QED BY <5>1, <5>3
      <4> QED BY <4>2, <4>3
    <3>8. FitsAt(code, {}, s, r, m)
      BY <3>3, <3>5, <3>6, <3>7 DEF FitsAt
    <3>9. m.id[1] # "post"
      <4>1. m.id = <<"dem", i.id, k, c>>
        BY <1>5, <3>2, MaterializedFields
      <4> QED BY <4>1
    <3> QED BY <3>1, <3>2, <3>8, <3>9
  <2> QED BY <2>5, <2>6, <2>7
<1>7. /\ CodeFits(code, {})
      /\ \A s \in DOMAIN code : \A r \in DOMAIN code[s] : code[s][r].id[1] # "post"
  BY <1>2, <1>3, <1>6 DEF CodeFits
<1>8. AfterFits({})
  BY DEF AfterFits
<1>9. \A s \in DOMAIN code : code[s] \in Seq(C)
  BY <1>3, <1>6
<1> QED BY <1>1, <1>5, <1>7, <1>8, <1>9, PlacedKept

\* Where everything stands, with what it takes to show it.
PlacedInv == RewriterInv /\ PhisInv /\ Placement /\ CastsNear

LEMMA PlacedInit ==
    ASSUME Init, ModulesAssumption, PlacementAssumption
    PROVE  PlacedInv
<1>1. RewriterInv
  BY RewriterInit
<1>2. unit \in Modules /\ body = unit.body
  BY DEF Init
<1>3. Placement
  BY <1>2 DEF PlacementAssumption, Placement
<1>4. \A i \in Instrs :
         /\ i.inc \in Seq(DOMAIN body)
         /\ i.op = "phi" => DOMAIN i.inc = DOMAIN i.ops
         /\ i.op # "phi" => i.inc = <<>>
  <2>1. WellFormedBody(unit) /\ Instrs = InstrsOf(unit)
    BY <1>2 DEF ModulesAssumption, WellFormed, Instrs, InstrsOf
  <2> QED BY <1>2, <2>1 DEF WellFormedBody
<1>5. \A i \in Instrs : \A k \in DOMAIN i.inc : i.inc[k] \in DOMAIN body
  BY <1>4, ElementOfSeq, LenProperties
<1>6. PhisInv
  BY <1>4, <1>5 DEF PhisInv
<1>7. CastsNear
  <2> SUFFICES ASSUME NEW b \in DOMAIN body, NEW n \in DOMAIN body[b],
                      NEW i, i = body[b][n], NEW k \in DOMAIN i.ops
               PROVE  i.id[1] # "post" /\ i.ops[k][1] # "pre"
    BY DEF CastsNear, Near
  <2>1. i \in InstrsOf(unit)
    BY <1>2 DEF InstrsOf, Range
  <2>2. /\ i.id[1] = "inst"
        /\ \/ i.ops[k] \in Values(unit) \cup {j.id : j \in InstrsOf(unit)}
           \/ i.ops[k] = <<"asm", i.ty>>
    BY <1>2, <2>1 DEF ModulesAssumption, WellFormed, WellFormedBody
  <2>3. \A j \in InstrsOf(unit) : j.id[1] = "inst"
    BY <1>2 DEF ModulesAssumption, WellFormed, WellFormedBody
  <2>4. i.ops[k][1] # "pre"
    BY <2>2, <2>3 DEF Values
  <2> QED BY <2>2, <2>4
<1> QED BY <1>1, <1>3, <1>6, <1>7 DEF PlacedInv

LEMMA PlacedAlways == Spec => []PlacedInv
<1>1. Init => PlacedInv
  BY PlacedInit, ModulesAssumption, PlacementAssumption
<1>2. PlacedInv /\ [Next]_vars => PlacedInv'
  <2> SUFFICES ASSUME PlacedInv, [Next]_vars
               PROVE  Placement' /\ PhisInv' /\ CastsNear' /\ RewriterInv'
    BY DEF PlacedInv
  <2>1. RewriterInv /\ PhisInv /\ Placement /\ CastsNear
    BY DEF PlacedInv
  <2>2. CASE demotePointerConstants
    BY <2>1, <2>2, DemoteStep, DemotePlaced, ModulesAssumption
  <2>3. CASE bitcastGlobalValues
    BY <2>1, <2>3, GlobalsStep, GlobalsPlaced, ModulesAssumption
  <2>4. CASE bitcastBlockAddresses
    BY <2>1, <2>4, BlocksStep, BlocksPlaced, ModulesAssumption
  <2>5. CASE bitcastInstructionOperands
    BY <2>1, <2>5, OperandsStep, OperandsPlaced, ModulesAssumption
  <2>6. CASE bitcastFunctionOperands
    BY <2>1, <2>6, CallsStep, CallsPlaced, ModulesAssumption
  <2>7. CASE bitcastTypedArguments
    BY <2>1, <2>7, ArgsStep, ArgsPlaced, ModulesAssumption
  <2>8. CASE /\ unit' = unit /\ body' = body
             /\ \/ step = "operands" /\ step' = "error" /\ map' = map
                \/ step = "map" /\ step' = "error" /\ map' = map
                \/ step = "map" /\ step' = "done" /\ map' = PointerFacts
                \/ step' = step /\ map' = map
    <3>1. RewriterInv'
      BY <2>1, <2>8, OtherSteps
    <3>2. Placement' /\ PhisInv' /\ CastsNear'
      BY <2>1, <2>8 DEF Placement, PhisInv, CastsNear, Instrs
    <3> QED BY <3>1, <3>2
  <2> QED BY <2>2, <2>3, <2>4, <2>5, <2>6, <2>7, <2>8
           DEF Next, vars, rejectVectorGEP, buildPointerMap, rejectCyclicGlobals
<1> QED BY <1>1, <1>2, PTL DEF Spec

\* No pass puts a cast out of reach of what it casts or of who uses it, between
\* the phis of a block or behind its terminator: for any function in which the
\* verifier finds everything in its place.
THEOREM PlacementCorrect == Spec => []Placement
<1>1. PlacedInv => Placement
  BY DEF PlacedInv
<1> QED BY <1>1, PlacedAlways, PTL

-----------------------------------------------------------------------------
(* What the passes leave a legacy reader to type *)

\* The type a value has while every pointer is opaque; a demoted constant has
\* the constant's.
BaseType(v) == SourceType(unit, IF v[1] = "dem" THEN <<"const", v[4]>> ELSE v)

\* No pass changes what LLVM's own verifier wants of an operand, or gives it
\* another type, or makes an invoke.
Invoking == \E i \in InstrsOf(unit) : i.op = "invoke"
BaseTyped ==
    \A i \in Instrs :
        /\ i.op = "invoke" => Invoking
        /\ IsOpaque(ResultType(i)) /\ BaseType(i.id) = ResultType(i)
        /\ \A k \in DOMAIN i.ops : \A t \in SourceWanted(i, k) : BaseType(i.ops[k]) = t

\* The casts of bitcastInstructionOperands and bitcastFunctionOperands serve
\* the operand they are named after.
Access(i, k) ==
    \/ i.op \in {"load", "rmw", "cmpxchg", "gep"} /\ k = 1
    \/ i.op = "store" /\ k = 2
    \/ i.op = "call" /\ k = Len(i.ops)
CastsOwned ==
    \A i \in Instrs : \A k \in DOMAIN i.ops : i.ops[k][1] = "pre" =>
      /\ i.ops[k][2] = "operands" =>
           i.ops[k] = <<"pre", "operands", i.id, k>> /\ Access(i, k)
      /\ i.ops[k][2] = "calls" => i.ops[k] = <<"pre", "calls", i.id, k>>

\* After bitcastFunctionOperands, what a call of a function that returns a
\* typed pointer gives is only cast.
ReturnsTyped(f) == TypedSig(unit.funcs[f])[2] # unit.funcs[f].ret
ResultsBridged ==
    "calls" \in Passed(step) /\ step # "error" =>
      \A f \in Funcs : ReturnsTyped(f) =>
        \A i \in CallsOf(f) : \A j \in Instrs : \A k \in DOMAIN j.ops :
          j.ops[k] = i.id => j.id = <<"post", i.id>>

\* After their passes, only casts and calls use blocks and typed arguments.
OnlyCast(S) ==
    \A i \in Instrs : \A k \in DOMAIN i.ops :
      i.ops[k] \in S => IsCalleeSlot(i, k) \/ i.id[1] = "pre"
BlockValues == {<<"block", b>> : b \in DOMAIN unit.body}
BlocksBridged == "blocks" \in Passed(step) => OnlyCast(BlockValues)
ArgsBridged == "args" \in Passed(step) /\ step # "error" => OnlyCast(TypedArgs)

TypedInv ==
    BaseTyped /\ CastsOwned /\ ResultsBridged /\ BlocksBridged /\ ArgsBridged

\* What is wanted of an operand depends on what a pass keeps.
LEMMA WantedAlike ==
    ASSUME NEW i, NEW j, j.op = i.op, j.ty = i.ty, Len(j.ops) = Len(i.ops), NEW k
    PROVE  SourceWanted(j, k) = SourceWanted(i, k) /\ ResultType(j) = ResultType(i)
           /\ (Access(j, k) <=> Access(i, k))
<1>1. \A x : IsCalleeSlot(j, x) <=> IsCalleeSlot(i, x)
  BY DEF IsCalleeSlot, IsCallBase
<1>2. SourceWanted(j, k) = SourceWanted(i, k)
  BY <1>1 DEF SourceWanted, Rule, IsCallBase
<1>3. ResultType(j) = ResultType(i)
  BY DEF ResultType, IsCallBase
<1> QED BY <1>2, <1>3 DEF Access

\* A cast is a pointer, of which nothing is wanted.
LEMMA WantedCast ==
    ASSUME NEW j, j.op = "bitcast", NEW k
    PROVE  SourceWanted(j, k) = {} /\ Wanted(j, k) = {} /\ ResultType(j) = j.ty
<1>1. \A x : ~IsCalleeSlot(j, x)
  BY DEF IsCalleeSlot, IsCallBase
<1> QED BY <1>1 DEF SourceWanted, Wanted, Rule, ResultType, IsCallBase

LEMMA CastType ==
    ASSUME NEW v, v[1] \in {"pre", "post"}
    PROVE  BaseType(v) = PTR
BY DEF BaseType, SourceType

\* A pass that casts pointers only keeps the types there were.
LEMMA CastPassTyped ==
    ASSUME NEW pass, NEW slots, slots \subseteq Slots,
           NEW after, after \subseteq Ids,
           BodyInv, ModulesAssumption, Names, Names', BaseTyped,
           body' = WithCasts(pass, slots, after), unit' = unit,
           \A i \in Instrs : \A k \in DOMAIN i.ops :
              <<i, k>> \in slots => BaseType(i.ops[k]) = PTR,
           \A v \in after : BaseType(v) = PTR
    PROVE  BaseTyped'
<1> DEFINE Right(j) ==
             /\ j.op = "invoke" => Invoking
             /\ IsOpaque(ResultType(j)) /\ BaseType(j.id) = ResultType(j)
             /\ \A k \in DOMAIN j.ops : \A t \in SourceWanted(j, k) : BaseType(j.ops[k]) = t
<1>1. \A j \in Instrs' : Stems(pass, slots, after, j)
  BY CastPassShapes
<1>2. \A v : BaseType(Replaced(after, v)) = BaseType(v)
  <2> SUFFICES ASSUME NEW v \in after PROVE BaseType(<<"post", v>>) = BaseType(v)
    BY DEF Replaced
  <2> QED BY CastType
<1>3. \A i, k : BaseType(CastName(pass, i, k)) = PTR
  BY CastType DEF CastName
<1>4. ASSUME NEW i \in Instrs, NEW j, Alike(pass, slots, after, i, j) PROVE Right(j)
  <2>1. /\ j.id = i.id /\ j.op = i.op /\ j.ty = i.ty /\ Len(j.ops) = Len(i.ops)
        /\ DOMAIN j.ops = DOMAIN i.ops
        /\ \A k \in DOMAIN i.ops :
             j.ops[k] = IF <<i, k>> \in slots THEN CastName(pass, i, k)
                        ELSE Replaced(after, i.ops[k])
    BY <1>4 DEF Alike
  <2>2. ASSUME NEW k \in DOMAIN i.ops PROVE BaseType(j.ops[k]) = BaseType(i.ops[k])
    <3>1. CASE <<i, k>> \in slots
      <4>1. j.ops[k] = CastName(pass, i, k) /\ BaseType(i.ops[k]) = PTR
        BY <2>1, <3>1
      <4> QED BY <1>3, <4>1
    <3>2. CASE <<i, k>> \notin slots
      <4>1. j.ops[k] = Replaced(after, i.ops[k])
        BY <2>1, <3>2
      <4> QED BY <1>2, <4>1
    <3> QED BY <3>1, <3>2
  <2>3. \A k : SourceWanted(j, k) = SourceWanted(i, k) /\ ResultType(j) = ResultType(i)
    BY <2>1, WantedAlike
  <2>4. Right(i)
    BY DEF BaseTyped
  <2>5. ResultType(j) = ResultType(i)
    BY <2>3
  <2> QED BY <2>1, <2>2, <2>3, <2>4, <2>5
<1>5. ASSUME NEW j \in Instrs', j.id[1] \in {"pre", "post"} PROVE Right(j)
  <2>1. j = Cast(j.id, j.ops[1])
    BY <1>5 DEF Names
  <2>2. j.op = "bitcast" /\ j.ty = PTR
    BY <2>1, CastFields
  <2>3. \A k : SourceWanted(j, k) = {} /\ ResultType(j) = PTR
    BY <2>2, WantedCast
  <2>4. BaseType(j.id) = PTR /\ IsOpaque(PTR)
    BY <1>5, CastType DEF IsOpaque, PTR
  <2>5. ResultType(j) = PTR
    BY <2>3
  <2> QED BY <2>2, <2>3, <2>4, <2>5
<1>6. ASSUME NEW j \in Instrs' PROVE Right(j)
  <2> HIDE DEF Right
  <2>1. CASE \E i \in Instrs : Alike(pass, slots, after, i, j)
    BY <1>4, <2>1
  <2>2. CASE j.id[1] \in {"pre", "post"}
    BY <1>5, <2>2
  <2>3. \A i, k : CastName(pass, i, k)[1] = "pre"
    BY DEF CastName
  <2>4. \A i : <<"post", i.id>>[1] = "post"
    OBVIOUS
  <2>5. Stems(pass, slots, after, j)
    BY <1>1
  <2> QED BY <2>1, <2>2, <2>3, <2>4, <2>5 DEF Stems, Casts
<1>7. \A v : BaseType(v)' = BaseType(v)
  <2> SUFFICES ASSUME NEW v PROVE BaseType(v)' = BaseType(v)
    OBVIOUS
  <2> QED BY DEF BaseType
<1>9. Invoking' = Invoking
  BY DEF Invoking, InstrsOf
<1>8. \A j \in Instrs' :
             /\ j.op = "invoke" => Invoking'
             /\ IsOpaque(ResultType(j)) /\ BaseType(j.id)' = ResultType(j)
             /\ \A k \in DOMAIN j.ops : \A t \in SourceWanted(j, k) : BaseType(j.ops[k])' = t
  BY <1>6, <1>7, <1>9
<1> QED BY <1>8 DEF BaseTyped

\* ... and one that casts no cast of the two passes keeps those to themselves.
LEMMA CastPassOwned ==
    ASSUME NEW pass, NEW slots, slots \subseteq Slots, NEW after,
           BodyInv, ModulesAssumption, CastsOwned,
           body' = WithCasts(pass, slots, after), unit' = unit,
           \A i \in Instrs : \A k \in DOMAIN i.ops : <<i, k>> \in slots =>
              /\ i.ops[k][1] = "pre" => i.ops[k][2] \notin {"operands", "calls"}
              /\ pass = "operands" => Access(i, k),
           \A v \in after : v[1] \in {"inst", "dem"}
    PROVE  CastsOwned'
<1> DEFINE Right(j) == \A k \in DOMAIN j.ops : j.ops[k][1] = "pre" =>
             /\ j.ops[k][2] = "operands" =>
                  j.ops[k] = <<"pre", "operands", j.id, k>> /\ Access(j, k)
             /\ j.ops[k][2] = "calls" => j.ops[k] = <<"pre", "calls", j.id, k>>
<1>1. \A j \in Instrs' : Stems(pass, slots, after, j)
  BY CastPassShapes
<1>2. \A v : Replaced(after, v)[1] = "pre" => Replaced(after, v) = v
  BY DEF Replaced
<1>3. ASSUME NEW i \in Instrs, NEW j, Alike(pass, slots, after, i, j) PROVE Right(j)
  <2>1. /\ j.id = i.id /\ j.op = i.op /\ j.ty = i.ty /\ Len(j.ops) = Len(i.ops)
        /\ DOMAIN j.ops = DOMAIN i.ops
        /\ \A k \in DOMAIN i.ops :
             j.ops[k] = IF <<i, k>> \in slots THEN CastName(pass, i, k)
                        ELSE Replaced(after, i.ops[k])
    BY <1>3 DEF Alike
  <2>2. \A k : Access(j, k) <=> Access(i, k)
    BY <2>1, WantedAlike
  <2> SUFFICES ASSUME NEW k \in DOMAIN i.ops, j.ops[k][1] = "pre"
               PROVE  /\ j.ops[k][2] = "operands" =>
                           j.ops[k] = <<"pre", "operands", i.id, k>> /\ Access(i, k)
                      /\ j.ops[k][2] = "calls" => j.ops[k] = <<"pre", "calls", i.id, k>>
    BY <2>1, <2>2
  <2>3. CASE <<i, k>> \in slots
    <3>1. j.ops[k] = <<"pre", pass, i.id, k>>
      BY <2>1, <2>3 DEF CastName
    <3>2. j.ops[k][2] = pass
      BY <3>1
    <3> QED BY <2>3, <3>1, <3>2
  <2>4. CASE <<i, k>> \notin slots
    <3>1. j.ops[k] = i.ops[k]
      BY <1>2, <2>1, <2>4
    <3> QED BY <3>1 DEF CastsOwned
  <2> QED BY <2>3, <2>4
<1>4. ASSUME NEW i \in Instrs, NEW k \in DOMAIN i.ops, <<i, k>> \in slots, NEW j, NEW id,
             Casts(j, id, Replaced(after, i.ops[k]))
      PROVE  Right(j)
  BY <1>2, <1>4 DEF Casts
<1>5. ASSUME NEW v \in after, NEW j, NEW id, Casts(j, id, v) PROVE Right(j)
  BY <1>5 DEF Casts
<1>6. ASSUME NEW j \in Instrs' PROVE Right(j)
  <2> HIDE DEF Right
  <2>1. Stems(pass, slots, after, j)
    BY <1>1
  <2> QED BY <1>3, <1>4, <1>5, <2>1 DEF Stems
<1> QED BY <1>6 DEF CastsOwned

\* A pass leaves the uses of some values to casts and calls, if it casts all
\* others or there are none.
LEMMA CastPassOnly ==
    ASSUME NEW pass, NEW slots, slots \subseteq Slots,
           NEW after, after \subseteq Ids,
           BodyInv, ModulesAssumption, Names,
           body' = WithCasts(pass, slots, after), unit' = unit,
           NEW S, \A v \in S : v[1] \notin {"inst", "dem", "pre", "post"},
           \A i \in Instrs : \A k \in DOMAIN i.ops :
              i.ops[k] \in S => IsCalleeSlot(i, k) \/ i.id[1] = "pre" \/ <<i, k>> \in slots
    PROVE  OnlyCast(S)'
<1> DEFINE Right(j) == \A k \in DOMAIN j.ops :
                         j.ops[k] \in S => IsCalleeSlot(j, k) \/ j.id[1] = "pre"
<1>1. \A j \in Instrs' : Stems(pass, slots, after, j)
  BY CastPassShapes
<1>2. \A i, k : CastName(pass, i, k) \notin S
  <2>1. \A i, k : CastName(pass, i, k)[1] = "pre"
    BY DEF CastName
  <2> QED BY <2>1
<1>3. \A v : Replaced(after, v) \in S => Replaced(after, v) = v
  <2>1. \A v : <<"post", v>>[1] = "post"
    OBVIOUS
  <2>2. \A v : <<"post", v>> \notin S
    BY <2>1
  <2> QED BY <2>2 DEF Replaced
<1>5. ASSUME NEW i \in Instrs, NEW j, Alike(pass, slots, after, i, j) PROVE Right(j)
  <2>0. /\ j.op = i.op /\ j.id = i.id
        /\ DOMAIN j.ops = DOMAIN i.ops /\ Len(j.ops) = Len(i.ops)
        /\ \A k \in DOMAIN i.ops :
             j.ops[k] = IF <<i, k>> \in slots THEN CastName(pass, i, k)
                        ELSE Replaced(after, i.ops[k])
    BY <1>5 DEF Alike
  <2> SUFFICES ASSUME NEW k \in DOMAIN i.ops, j.ops[k] \in S
               PROVE  IsCalleeSlot(j, k) \/ j.id[1] = "pre"
    BY <2>0
  <2>1. <<i, k>> \notin slots /\ i.ops[k] \in S
    BY <1>2, <1>3, <2>0
  <2>2. IsCalleeSlot(i, k) \/ i.id[1] = "pre"
    BY <2>1
  <2> QED BY <2>0, <2>2 DEF IsCalleeSlot, IsCallBase
<1>6. ASSUME NEW i \in Instrs, NEW k, NEW v, NEW j, Casts(j, CastName(pass, i, k), v)
      PROVE  Right(j)
  <2>1. j.id[1] = "pre"
    BY <1>6 DEF CastName, Casts
  <2> QED BY <2>1
<1>7. ASSUME NEW i \in Instrs, NEW id, NEW j, Casts(j, id, i.id) PROVE Right(j)
  <2>1. i.id \notin S
    BY DEF Names
  <2> QED BY <1>7, <2>1 DEF Casts
<1>8. ASSUME NEW j \in Instrs' PROVE Right(j)
  <2> HIDE DEF Right
  <2>0. Stems(pass, slots, after, j)
    BY <1>1
  <2> QED BY <2>0, <1>5, <1>6, <1>7 DEF Stems
<1> QED BY <1>8 DEF OnlyCast

\* What is retyped is a pointer.
LEMMA RetypedPointers ==
    ASSUME unit \in Modules, TypesAssumption, NEW f \in Funcs
    PROVE  /\ \A k \in Retyped(f) : unit.funcs[f].params[k] = PTR
           /\ ReturnsTyped(f) => unit.funcs[f].ret = PTR
<1> DEFINE source == UntypedSig(unit.funcs[f])
           typed == TypedSig(unit.funcs[f])
<1>1. /\ typed[2] # source[2] => source[2] = PTR
      /\ \A k \in DOMAIN source[3] : typed[3][k] # source[3][k] => source[3][k] = PTR
  BY DEF TypesAssumption, TypedSource, Funcs
<1>2. source[2] = unit.funcs[f].ret /\ source[3] = unit.funcs[f].params
  BY DEF UntypedSig, FN
<1> HIDE DEF source
<1>3. ReturnsTyped(f) => unit.funcs[f].ret = PTR
  BY <1>1, <1>2 DEF ReturnsTyped
<1>4. \A k \in Retyped(f) : unit.funcs[f].params[k] = PTR
  BY <1>1, <1>2 DEF Retyped
<1> QED BY <1>3, <1>4

LEMMA TypedArgsPointers ==
    ASSUME unit \in Modules, ModulesAssumption, TypesAssumption, NEW v \in TypedArgs
    PROVE  v[1] = "arg" /\ BaseType(v) = PTR
<1> DEFINE f == unit.main
           a == unit.funcs[f].args
           p == unit.funcs[f].params
<1>1. PICK k \in Retyped(f) : v = <<"arg", a[k]>>
  BY DEF TypedArgs
<1>2. f \in Funcs /\ DOMAIN a = DOMAIN p /\ \A m, n \in DOMAIN a : a[m] = a[n] => m = n
  BY DEF ModulesAssumption, WellFormed, WellFormedSymbols, Funcs
<1>3. p[k] = PTR
  BY <1>2, RetypedPointers
<1>4. k \in DOMAIN a
  BY <1>2 DEF Retyped
<1>5. BaseType(v) = ParamType(unit.funcs[f], a[k])
  <2>1. v[1] = "arg" /\ v[2] = a[k]
    BY <1>1
  <2> HIDE DEF f, a
  <2>2. BaseType(v) = ParamType(unit.funcs[unit.main], v[2])
    BY <2>1 DEF BaseType, SourceType
  <2> QED BY <2>1, <2>2 DEF f
<1>6. ParamType(unit.funcs[f], a[k]) = p[CHOOSE m \in DOMAIN a : a[m] = a[k]]
  BY DEF ParamType
<1>7. (CHOOSE m \in DOMAIN a : a[m] = a[k]) = k
  <2> HIDE DEF a
  <2> QED BY <1>2, <1>4
<1> QED BY <1>1, <1>3, <1>5, <1>6, <1>7

LEMMA SymbolsPointers ==
    ASSUME NEW v, IsGlobal(v) \/ v[1] = "block"
    PROVE  BaseType(v) = PTR
BY DEF BaseType, SourceType, IsGlobal

\* What is local is defined.
LEMMA LocalsDefined ==
    ASSUME Placement, NEW i \in Instrs, NEW k \in DOMAIN i.ops, IsLocal(i.ops[k])
    PROVE  i.ops[k] \in Ids
<1>1. PICK b \in DOMAIN body : i \in Range(body[b])
  BY DEF Instrs
<1>2. PICK n \in DOMAIN body[b] : body[b][n] = i
  BY <1>1 DEF Range
<1>3. \E c, m : Available(unit, body, i.ops[k], c, m)
  BY <1>2 DEF Placement, Placed, Dominance
<1>4. \E d \in DOMAIN body : \E p \in DOMAIN body[d] : body[d][p].id = i.ops[k]
  BY <1>3 DEF Available
<1>7. PICK d \in DOMAIN body : \E p \in DOMAIN body[d] : body[d][p].id = i.ops[k]
  BY <1>4
<1>5. PICK p \in DOMAIN body[d] : body[d][p].id = i.ops[k]
  BY <1>7
<1>6. body[d][p] \in Instrs
  BY DEF Instrs, Range
<1> QED BY <1>5, <1>6 DEF Ids

\* What does not depend on the body.
LEMMA UnitKept ==
    ASSUME unit' = unit
    PROVE  /\ BlockValues' = BlockValues /\ TypedArgs' = TypedArgs /\ Funcs' = Funcs
           /\ \A f : ReturnsTyped(f)' = ReturnsTyped(f) /\ Retyped(f)' = Retyped(f)
           /\ \A v : BaseType(v)' = BaseType(v)
           /\ Invoking' = Invoking
<1>1. Funcs' = Funcs /\ BlockValues' = BlockValues
  BY DEF Funcs, BlockValues
<1>2. \A f : TypedSig(f)' = TypedSig(f)
  BY DEF TypedSig, Pointees
<1>3. ASSUME NEW f PROVE ReturnsTyped(f)' = ReturnsTyped(f) /\ Retyped(f)' = Retyped(f)
  BY <1>2 DEF ReturnsTyped, Retyped
<1>4. Retyped(unit.main)' = Retyped(unit.main)
  <2> DEFINE m == unit.main
  <2>1. m' = m
    OBVIOUS
  <2>2. Retyped(unit.main)' = {k \in DOMAIN unit'.funcs[m'].params :
                 TypedSig(unit'.funcs[m'])[3][k] # unit'.funcs[m'].params[k]}
    BY <1>2 DEF Retyped
  <2>3. Retyped(unit.main) = {k \in DOMAIN unit.funcs[m].params :
                 TypedSig(unit.funcs[m])[3][k] # unit.funcs[m].params[k]}
    BY DEF Retyped
  <2> QED BY <2>2, <2>3
<1>5. TypedArgs' = TypedArgs
  BY <1>4 DEF TypedArgs
<1>6. ASSUME NEW v PROVE BaseType(v)' = BaseType(v)
  BY DEF BaseType
<1>7. Invoking' = Invoking
  BY DEF Invoking, InstrsOf
<1> QED BY <1>1, <1>3, <1>5, <1>6, <1>7

\* The passes that cast what no instruction defines.
LEMMA GlobalsTypes ==
    ASSUME PlacedInv, TypedInv, ModulesAssumption, bitcastGlobalValues
    PROVE  TypedInv'
<1> DEFINE slots == {s \in Slots : /\ IsGlobal(s[1].ops[s[2]]) /\ ~IsCalleeSlot(s[1], s[2])}
<1>0. /\ step = "globals" /\ body' = WithCasts("globals", slots, {})
      /\ step' = "blocks" /\ unit' = unit
  BY DEF bitcastGlobalValues
<1>1. /\ slots \subseteq Slots
      /\ \A i \in Instrs : \A k \in DOMAIN i.ops : <<i, k>> \in slots => IsGlobal(i.ops[k])
  OBVIOUS
<1>2. RewriterInv /\ BodyInv /\ Names /\ BaseTyped /\ CastsOwned
  BY DEF PlacedInv, RewriterInv, TypedInv
<1>3. Names'
  BY <1>2, GlobalsStep DEF RewriterInv
<1>4. {} \subseteq Ids /\ \A v \in {} : v[1] \in {"inst", "dem"} /\ BaseType(v) = PTR
  OBVIOUS
<1> HIDE DEF slots
<1>5. BaseTyped'
  <2>1. \A i \in Instrs : \A k \in DOMAIN i.ops :
              <<i, k>> \in slots => BaseType(i.ops[k]) = PTR
    BY <1>1, SymbolsPointers
  <2> QED BY <1>0, <1>1, <1>2, <1>3, <1>4, <2>1, CastPassTyped
<1>6. CastsOwned'
  <2>1. \A i \in Instrs : \A k \in DOMAIN i.ops : <<i, k>> \in slots =>
              /\ i.ops[k][1] = "pre" => i.ops[k][2] \notin {"operands", "calls"}
              /\ "globals" = "operands" => Access(i, k)
    BY <1>1 DEF IsGlobal
  <2> QED BY <1>0, <1>1, <1>2, <1>4, <2>1, CastPassOwned
<1>7. ResultsBridged' /\ BlocksBridged' /\ ArgsBridged'
  BY <1>0 DEF ResultsBridged, BlocksBridged, ArgsBridged, Passed
<1> QED BY <1>5, <1>6, <1>7 DEF TypedInv

LEMMA BlocksTypes ==
    ASSUME PlacedInv, TypedInv, ModulesAssumption, bitcastBlockAddresses
    PROVE  TypedInv'
<1> DEFINE slots == {s \in Slots : /\ s[1].ops[s[2]][1] = "block"
                                   /\ ~IsCalleeSlot(s[1], s[2])}
<1>0. /\ step = "blocks" /\ body' = WithCasts("blocks", slots, {})
      /\ step' = "operands" /\ unit' = unit
  BY DEF bitcastBlockAddresses
<1>1. /\ slots \subseteq Slots
      /\ \A i \in Instrs : \A k \in DOMAIN i.ops :
           <<i, k>> \in slots <=> i.ops[k][1] = "block" /\ ~IsCalleeSlot(i, k)
  BY DEF Slots
<1>2. RewriterInv /\ BodyInv /\ Names /\ BaseTyped /\ CastsOwned
  BY DEF PlacedInv, RewriterInv, TypedInv
<1>3. Names'
  BY <1>2, BlocksStep DEF RewriterInv
<1>4. {} \subseteq Ids /\ \A v \in {} : v[1] \in {"inst", "dem"} /\ BaseType(v) = PTR
  OBVIOUS
<1> HIDE DEF slots
<1>5. BaseTyped'
  <2>1. \A i \in Instrs : \A k \in DOMAIN i.ops :
              <<i, k>> \in slots => BaseType(i.ops[k]) = PTR
    BY <1>1, SymbolsPointers
  <2> QED BY <1>0, <1>1, <1>2, <1>3, <1>4, <2>1, CastPassTyped
<1>6. CastsOwned'
  <2>1. \A i \in Instrs : \A k \in DOMAIN i.ops : <<i, k>> \in slots =>
              /\ i.ops[k][1] = "pre" => i.ops[k][2] \notin {"operands", "calls"}
              /\ "blocks" = "operands" => Access(i, k)
    BY <1>1
  <2> QED BY <1>0, <1>1, <1>2, <1>4, <2>1, CastPassOwned
<1>7. BlocksBridged'
  <2>1. PICK S : S = BlockValues
    OBVIOUS
  <2>2. \A v \in S : v[1] = "block"
    BY <2>1 DEF BlockValues
  <2>3. \A i \in Instrs : \A k \in DOMAIN i.ops :
           i.ops[k] \in S => IsCalleeSlot(i, k) \/ i.id[1] = "pre" \/ <<i, k>> \in slots
    BY <1>1, <2>2
  <2>4. \A v \in S : v[1] \notin {"inst", "dem", "pre", "post"}
    BY <2>2
  <2>5. OnlyCast(S)'
    BY <1>0, <1>1, <1>2, <1>4, <2>3, <2>4, CastPassOnly
  <2>6. BlockValues' = S
    BY <1>0, <2>1, UnitKept
  <2>7. OnlyCast(BlockValues)'
    BY <2>5, <2>6 DEF OnlyCast
  <2> QED BY <2>7 DEF BlocksBridged
<1>8. ResultsBridged' /\ ArgsBridged'
  BY <1>0 DEF ResultsBridged, ArgsBridged, Passed
<1> QED BY <1>5, <1>6, <1>7, <1>8 DEF TypedInv

\* The uses of blocks stay bridged.
LEMMA BlocksStay ==
    ASSUME NEW pass, NEW slots, slots \subseteq Slots, NEW after, after \subseteq Ids,
           BodyInv, ModulesAssumption, Names, BlocksBridged, "blocks" \in Passed(step),
           body' = WithCasts(pass, slots, after), unit' = unit
    PROVE  BlocksBridged'
<1>1. PICK S : S = BlockValues
  OBVIOUS
<1>2. \A v \in S : v[1] \notin {"inst", "dem", "pre", "post"}
  BY <1>1 DEF BlockValues
<1>3. \A i \in Instrs : \A k \in DOMAIN i.ops :
         i.ops[k] \in S => IsCalleeSlot(i, k) \/ i.id[1] = "pre" \/ <<i, k>> \in slots
  BY <1>1 DEF BlocksBridged, OnlyCast
<1>4. OnlyCast(S)'
  BY <1>2, <1>3, CastPassOnly
<1>5. BlockValues' = S
  BY <1>1, UnitKept
<1>6. OnlyCast(BlockValues)'
  BY <1>4, <1>5 DEF OnlyCast
<1> QED BY <1>6 DEF BlocksBridged

\* What an access wants is a pointer.
LEMMA SlotWants ==
    ASSUME NEW i, NEW k, PointerSlot(i, k)
    PROVE  SourceWanted(i, k) = {PTR} /\ Access(i, k)
<1>1. CASE i.op \in {"load", "rmw", "cmpxchg", "gep"} /\ k = 1
  BY <1>1 DEF SourceWanted, Rule, OpaquePointer, Access, IsCalleeSlot, IsCallBase
<1>2. CASE i.op = "store" /\ k = 2
  BY <1>2 DEF SourceWanted, Rule, OpaquePointer, Access, IsCalleeSlot, IsCallBase
<1>3. CASE i.op = "call" /\ k = Len(i.ops)
  BY <1>3 DEF SourceWanted, Rule, OpaquePointer, Access, IsCalleeSlot, IsCallBase
<1> QED BY <1>1, <1>2, <1>3 DEF PointerSlot

LEMMA OperandsTypes ==
    ASSUME PlacedInv, TypedInv, ModulesAssumption, bitcastInstructionOperands
    PROVE  TypedInv'
<1> DEFINE slots == {s \in Slots : PointerSlot(s[1], s[2])}
           after == {i.id : i \in {j \in Instrs : j.op \in {"gep", "alloca"}}}
<1>0. /\ step = "operands" /\ body' = WithCasts("operands", slots, after)
      /\ step' = "calls" /\ unit' = unit
  BY DEF bitcastInstructionOperands
<1>1. /\ slots \subseteq Slots /\ after \subseteq Ids
      /\ \A i \in Instrs : \A k \in DOMAIN i.ops : <<i, k>> \in slots <=> PointerSlot(i, k)
  BY DEF Slots, Ids
<1>2. RewriterInv /\ BodyInv /\ Names /\ BaseTyped /\ CastsOwned /\ BlocksBridged /\ Placement
  BY DEF PlacedInv, RewriterInv, TypedInv
<1>3. Names'
  BY <1>2, OperandsStep DEF RewriterInv
<1>4. ASSUME NEW v \in after PROVE v[1] \in {"inst", "dem"} /\ BaseType(v) = PTR
  <2>1. PICK j \in Instrs : v = j.id /\ j.op \in {"gep", "alloca"}
    OBVIOUS
  <2>2. v[1] \in {"inst", "dem"}
    BY <1>2, <2>1, NamesHeads
  <2>3. ResultType(j) = PTR
    BY <2>1 DEF ResultType, IsCallBase
  <2> QED BY <1>2, <2>1, <2>2, <2>3 DEF BaseTyped
<1> HIDE DEF slots, after
<1>5. BaseTyped'
  <2>1. ASSUME NEW i \in Instrs, NEW k \in DOMAIN i.ops, <<i, k>> \in slots
        PROVE  BaseType(i.ops[k]) = PTR
    <3>1. SourceWanted(i, k) = {PTR}
      BY <1>1, <2>1, SlotWants
    <3> QED BY <1>2, <3>1 DEF BaseTyped
  <2> QED BY <1>0, <1>1, <1>2, <1>3, <1>4, <2>1, CastPassTyped
<1>6. CastsOwned'
  <2>1. ASSUME NEW i \in Instrs, NEW k \in DOMAIN i.ops, <<i, k>> \in slots
        PROVE  /\ i.ops[k][1] = "pre" => i.ops[k][2] \notin {"operands", "calls"}
               /\ Access(i, k)
    <3>1. Access(i, k)
      BY <1>1, <2>1, SlotWants
    <3>2. ASSUME i.ops[k][1] = "pre" PROVE i.ops[k][2] \notin {"operands", "calls"}
      <4>1. i.ops[k] \in Ids
        BY <1>2, <3>2, LocalsDefined DEF IsLocal, IsInserted
      <4>2. i.ops[k][2] \in Passed(step)
        BY <1>2, <3>2, <4>1 DEF Names, Ids
      <4> QED BY <1>0, <4>2 DEF Passed
    <3> QED BY <3>1, <3>2
  <2>2. \A v \in after : v[1] \in {"inst", "dem"}
    BY <1>4
  <2> QED BY <1>0, <1>1, <1>2, <2>1, <2>2, CastPassOwned
<1>7. BlocksBridged'
  <2>1. "blocks" \in Passed(step)
    BY <1>0 DEF Passed
  <2> QED BY <1>0, <1>1, <1>2, <2>1, BlocksStay
<1>8. ResultsBridged' /\ ArgsBridged'
  BY <1>0 DEF ResultsBridged, ArgsBridged, Passed
<1> QED BY <1>5, <1>6, <1>7, <1>8 DEF TypedInv

\* A pass that casts the results of calls leaves them to their casts.
LEMMA ResultsPass ==
    ASSUME NEW pass, NEW slots, slots \subseteq Slots, NEW after,
           BodyInv, ModulesAssumption, Names,
           body' = WithCasts(pass, slots, after), unit' = unit,
           \A v \in after : v[1] \in {"inst", "dem"},
           \A f \in Funcs : ReturnsTyped(f) =>
              \A i \in CallsOf(f) : HasUses(i.id) => i.id \in after
    PROVE  ResultsBridged'
<1>1. \A j \in Instrs' : Stems(pass, slots, after, j)
  BY CastPassShapes
<1>2. ASSUME NEW f \in Funcs, NEW j \in Instrs', j.op = "call", <<"glob", f>> \in Range(j.ops)
      PROVE  \E i \in CallsOf(f) : i.id = j.id
  <2>1. \E i \in CallsOf(f) : Alike(pass, slots, after, i, j)
    BY <1>2, CallsAlike
  <2> QED BY <2>1 DEF Alike
<1>3. ASSUME NEW f \in Funcs, ReturnsTyped(f), NEW i \in CallsOf(f),
             NEW x \in Instrs', NEW k \in DOMAIN x.ops, x.ops[k] = i.id
      PROVE  x.id = <<"post", i.id>>
  <2>1. i.id[1] \in {"inst", "dem"}
    BY NamesHeads DEF CallsOf
  <2>2. ASSUME NEW e \in Instrs, NEW l \in DOMAIN e.ops PROVE Replaced(after, e.ops[l]) # i.id
    <3> SUFFICES ASSUME Replaced(after, e.ops[l]) = i.id PROVE FALSE
      OBVIOUS
    <3>1. e.ops[l] = i.id /\ i.id \notin after
      BY <2>1 DEF Replaced
    <3>2. <<e, l>> \in Slots
      BY DEF Slots
    <3>3. HasUses(i.id)
      BY <3>1, <3>2 DEF HasUses
    <3> QED BY <1>3, <3>1, <3>3
  <2>3. \A e : CastName(pass, e, k) # i.id
    BY <2>1 DEF CastName
  <2>4. CASE \E e \in Instrs : Alike(pass, slots, after, e, x)
    BY <1>3, <2>2, <2>3, <2>4 DEF Alike
  <2>5. CASE \E e \in Instrs : \E l \in DOMAIN e.ops : <<e, l>> \in slots /\
               Casts(x, CastName(pass, e, l), Replaced(after, e.ops[l]))
    BY <1>3, <2>2, <2>5 DEF Casts
  <2>6. CASE \E e \in Instrs : e.id \in after /\ Casts(x, <<"post", e.id>>, e.id)
    BY <1>3, <2>6 DEF Casts
  <2>7. Stems(pass, slots, after, x)
    BY <1>1
  <2> QED BY <2>4, <2>5, <2>6, <2>7 DEF Stems
<1>4. Funcs' = Funcs /\ \A f : ReturnsTyped(f)' = ReturnsTyped(f)
  BY UnitKept
<1>5. \A f : \A j \in CallsOf(f)' :
         j \in Instrs' /\ j.op = "call" /\ <<"glob", f>> \in Range(j.ops)
  BY DEF CallsOf
<1>6. ASSUME NEW f \in Funcs', ReturnsTyped(f)', NEW j \in CallsOf(f)',
             NEW x \in Instrs', NEW k \in DOMAIN x.ops, x.ops[k] = j.id
      PROVE  x.id = <<"post", j.id>>
  <2>1. f \in Funcs /\ ReturnsTyped(f)
    BY <1>4, <1>6
  <2>2. PICK i \in CallsOf(f) : i.id = j.id
    BY <1>2, <1>5, <2>1
  <2> QED BY <1>3, <1>6, <2>1, <2>2
<1> QED BY <1>6 DEF ResultsBridged

LEMMA CallsTypes ==
    ASSUME PlacedInv, TypedInv, ModulesAssumption, TypesAssumption, bitcastFunctionOperands
    PROVE  TypedInv'
<1> DEFINE slots == UNION {{<<i, k>> : i \in CallsOf(f), k \in Retyped(f)} : f \in Funcs}
           after == UNION {{i.id : i \in {j \in CallsOf(f) : HasUses(j.id)}} :
                              f \in {g \in Funcs : TypedSig(unit.funcs[g])[2]
                                                     # unit.funcs[g].ret}}
<1>0. /\ step = "calls" /\ body' = WithCasts("calls", slots, after)
      /\ step' = "args" /\ unit' = unit
  BY DEF bitcastFunctionOperands
<1>2. /\ RewriterInv /\ BodyInv /\ Names /\ Operands /\ GlobalsBridged /\ OperandsBridged
      /\ BaseTyped /\ CastsOwned /\ BlocksBridged /\ Placement /\ unit \in Modules
  BY DEF PlacedInv, RewriterInv, TypedInv, BodyInv
<1>3. Names'
  BY <1>2, CallsStep DEF RewriterInv
<1>4. "operands" \in Passed(step) /\ "globals" \in Passed(step) /\ step # "error"
  BY <1>0 DEF Passed
<1>5. \A f \in Funcs : \A i \in CallsOf(f) :
         /\ i \in Instrs /\ i.op = "call" /\ Callee(i) = <<"glob", f>> /\ IsDirect(i)
         /\ \A k \in Retyped(f) : k \in DOMAIN i.ops /\ ~IsCalleeSlot(i, k)
  BY <1>2, <1>4, CallsDirect
<1>6. \A f \in Funcs : \A i \in CallsOf(f) :
         i.ty[2] = unit.funcs[f].ret /\ i.ty[3] = unit.funcs[f].params
  <2> SUFFICES ASSUME NEW f \in Funcs, NEW i \in CallsOf(f)
               PROVE  i.ty[2] = unit.funcs[f].ret /\ i.ty[3] = unit.funcs[f].params
    OBVIOUS
  <2>1. i.ty = UntypedSig(unit.funcs[f])
    BY <1>5 DEF IsDirect
  <2> QED BY <2>1 DEF UntypedSig, FN
<1>7. \A s \in slots : \E f \in Funcs : \E i \in CallsOf(f) : \E k \in Retyped(f) : s = <<i, k>>
  OBVIOUS
<1>8. /\ \A v \in after : \E f \in Funcs : \E i \in CallsOf(f) : ReturnsTyped(f) /\ v = i.id
      /\ \A f \in Funcs : ReturnsTyped(f) =>
           \A i \in CallsOf(f) : HasUses(i.id) => i.id \in after
  BY DEF ReturnsTyped
<1> HIDE DEF slots, after
<1>9. slots \subseteq Slots /\ after \subseteq Ids
  <2>1. slots \subseteq Slots
    BY <1>5, <1>7 DEF Slots
  <2>2. after \subseteq Ids
    BY <1>5, <1>8 DEF Ids
  <2> QED BY <2>1, <2>2
<1>10. ASSUME NEW i \in Instrs, NEW k \in DOMAIN i.ops, <<i, k>> \in slots
       PROVE  /\ BaseType(i.ops[k]) = PTR
              /\ i.ops[k][1] = "pre" => i.ops[k][2] \notin {"operands", "calls"}
  <2>1. PICK f \in Funcs : i \in CallsOf(f) /\ k \in Retyped(f)
    BY <1>7, <1>10
  <2>2. i.op = "call" /\ ~IsCalleeSlot(i, k)
    BY <1>5, <2>1
  <2>3. i.ty[3] = unit.funcs[f].params /\ k \in DOMAIN unit.funcs[f].params
        /\ unit.funcs[f].params[k] = PTR
    BY <1>2, <1>6, <2>1, RetypedPointers DEF Retyped
  <2>4. SourceWanted(i, k) = {i.ty[3][k]}
    BY <2>2, <2>3 DEF SourceWanted, Rule, IsCallBase
  <2>5. BaseType(i.ops[k]) = PTR
    BY <1>2, <2>3, <2>4 DEF BaseTyped
  <2>6. ASSUME i.ops[k][1] = "pre" PROVE i.ops[k][2] \notin {"operands", "calls"}
    <3>1. i.ops[k] \in Ids
      BY <1>2, <2>6, LocalsDefined DEF IsLocal, IsInserted
    <3>2. i.ops[k][2] \in Passed(step)
      BY <1>2, <2>6, <3>1 DEF Names, Ids
    <3>3. ~Access(i, k)
      BY <2>2 DEF Access, IsCalleeSlot, IsCallBase
    <3>4. i.ops[k][2] # "operands"
      BY <1>2, <2>6, <3>3 DEF CastsOwned
    <3> QED BY <1>0, <3>2, <3>4 DEF Passed
  <2> QED BY <2>5, <2>6
<1>11. ASSUME NEW v \in after PROVE v[1] \in {"inst", "dem"} /\ BaseType(v) = PTR
  <2>1. PICK f \in Funcs : \E i \in CallsOf(f) : ReturnsTyped(f) /\ v = i.id
    BY <1>8
  <2>2. PICK i \in CallsOf(f) : ReturnsTyped(f) /\ v = i.id
    BY <2>1
  <2>3. i \in Instrs /\ i.op = "call" /\ i.ty[2] = unit.funcs[f].ret
    BY <1>5, <1>6
  <2>4. v[1] \in {"inst", "dem"}
    BY <1>2, <2>2, <2>3, NamesHeads
  <2>5. unit.funcs[f].ret = PTR
    BY <1>2, <2>2, RetypedPointers
  <2>6. ResultType(i) = PTR
    BY <2>3, <2>5 DEF ResultType, IsCallBase
  <2> QED BY <1>2, <2>2, <2>3, <2>4, <2>6 DEF BaseTyped
<1>12. BaseTyped'
  BY <1>0, <1>2, <1>3, <1>9, <1>10, <1>11, CastPassTyped
<1>13. CastsOwned'
  <2>1. \A i \in Instrs : \A k \in DOMAIN i.ops : <<i, k>> \in slots =>
              /\ i.ops[k][1] = "pre" => i.ops[k][2] \notin {"operands", "calls"}
              /\ "calls" = "operands" => Access(i, k)
    BY <1>10
  <2>2. \A v \in after : v[1] \in {"inst", "dem"}
    BY <1>11
  <2> QED BY <1>0, <1>2, <1>9, <2>1, <2>2, CastPassOwned
<1>14. BlocksBridged'
  <2>1. "blocks" \in Passed(step)
    BY <1>0 DEF Passed
  <2> QED BY <1>0, <1>2, <1>9, <2>1, BlocksStay
<1>15. ResultsBridged'
  <2>1. \A v \in after : v[1] \in {"inst", "dem"}
    BY <1>11
  <2> QED BY <1>0, <1>2, <1>8, <1>9, <2>1, ResultsPass
<1>16. ArgsBridged'
  BY <1>0 DEF ArgsBridged, Passed
<1> QED BY <1>12, <1>13, <1>14, <1>15, <1>16 DEF TypedInv

\* ... and a pass that casts none of them leaves them there.
LEMMA ResultsStay ==
    ASSUME NEW pass, NEW slots, slots \subseteq Slots,
           BodyInv, ModulesAssumption, Names, ResultsBridged,
           "calls" \in Passed(step), step # "error",
           body' = WithCasts(pass, slots, {}), unit' = unit,
           \A i \in Instrs : \A k \in DOMAIN i.ops : <<i, k>> \in slots => i.ops[k][1] = "arg"
    PROVE  ResultsBridged'
<1>1. \A j \in Instrs' : Stems(pass, slots, {}, j)
  BY CastPassShapes
<1>2. ASSUME NEW f \in Funcs, NEW j \in Instrs', j.op = "call", <<"glob", f>> \in Range(j.ops)
      PROVE  \E i \in CallsOf(f) : i.id = j.id
  <2>1. \E i \in CallsOf(f) : Alike(pass, slots, {}, i, j)
    BY <1>2, CallsAlike
  <2> QED BY <2>1 DEF Alike
<1>3. ASSUME NEW f \in Funcs, ReturnsTyped(f), NEW i \in CallsOf(f),
             NEW x \in Instrs', NEW k \in DOMAIN x.ops, x.ops[k] = i.id
      PROVE  x.id = <<"post", i.id>>
  <2>1. i.id[1] \in {"inst", "dem"}
    BY NamesHeads DEF CallsOf
  <2>2. \A v : Replaced({}, v) = v
    BY DEF Replaced
  <2>3. \A e : CastName(pass, e, k) # i.id
    BY <2>1 DEF CastName
  <2>4. ASSUME NEW e \in Instrs, Alike(pass, slots, {}, e, x) PROVE x.id = <<"post", i.id>>
    <3>1. k \in DOMAIN e.ops /\ e.ops[k] = i.id /\ x.id = e.id
      BY <1>3, <2>2, <2>3, <2>4 DEF Alike
    <3> QED BY <1>3, <3>1 DEF ResultsBridged
  <2>5. CASE \E e \in Instrs : \E l \in DOMAIN e.ops : <<e, l>> \in slots /\
               Casts(x, CastName(pass, e, l), Replaced({}, e.ops[l]))
    BY <1>3, <2>1, <2>2, <2>5 DEF Casts
  <2>6. Stems(pass, slots, {}, x)
    BY <1>1
  <2> QED BY <2>4, <2>5, <2>6 DEF Stems
<1>4. Funcs' = Funcs /\ \A f : ReturnsTyped(f)' = ReturnsTyped(f)
  BY UnitKept
<1>5. \A f : \A j \in CallsOf(f)' :
         j \in Instrs' /\ j.op = "call" /\ <<"glob", f>> \in Range(j.ops)
  BY DEF CallsOf
<1>6. ASSUME NEW f \in Funcs', ReturnsTyped(f)', NEW j \in CallsOf(f)',
             NEW x \in Instrs', NEW k \in DOMAIN x.ops, x.ops[k] = j.id
      PROVE  x.id = <<"post", j.id>>
  <2>1. f \in Funcs /\ ReturnsTyped(f)
    BY <1>4, <1>6
  <2>2. PICK i \in CallsOf(f) : i.id = j.id
    BY <1>2, <1>5, <2>1
  <2> QED BY <1>3, <1>6, <2>1, <2>2
<1> QED BY <1>6 DEF ResultsBridged

LEMMA ArgsTypes ==
    ASSUME PlacedInv, TypedInv, ModulesAssumption, TypesAssumption, bitcastTypedArguments
    PROVE  TypedInv'
<1> DEFINE slots == {s \in Slots : /\ s[1].ops[s[2]] \in TypedArgs
                                   /\ ~IsCalleeSlot(s[1], s[2])}
<1>0. /\ step = "args" /\ body' = WithCasts("args", slots, {})
      /\ step' = "map" /\ unit' = unit
  BY DEF bitcastTypedArguments
<1>1. /\ slots \subseteq Slots
      /\ \A i \in Instrs : \A k \in DOMAIN i.ops :
           <<i, k>> \in slots <=> i.ops[k] \in TypedArgs /\ ~IsCalleeSlot(i, k)
  BY DEF Slots
<1>2. /\ RewriterInv /\ BodyInv /\ Names /\ BaseTyped /\ CastsOwned
      /\ BlocksBridged /\ ResultsBridged /\ unit \in Modules
  BY DEF PlacedInv, RewriterInv, TypedInv, BodyInv
<1>3. Names'
  BY <1>2, ArgsStep DEF RewriterInv
<1>4. {} \subseteq Ids /\ \A v \in {} : v[1] \in {"inst", "dem"} /\ BaseType(v) = PTR
  OBVIOUS
<1>5. \A v \in TypedArgs : v[1] = "arg" /\ BaseType(v) = PTR
  BY <1>2, TypedArgsPointers
<1> HIDE DEF slots
<1>6. BaseTyped'
  <2>1. \A i \in Instrs : \A k \in DOMAIN i.ops :
              <<i, k>> \in slots => BaseType(i.ops[k]) = PTR
    BY <1>1, <1>5
  <2> QED BY <1>0, <1>1, <1>2, <1>3, <1>4, <2>1, CastPassTyped
<1>7. CastsOwned'
  <2>1. \A i \in Instrs : \A k \in DOMAIN i.ops : <<i, k>> \in slots =>
              /\ i.ops[k][1] = "pre" => i.ops[k][2] \notin {"operands", "calls"}
              /\ "args" = "operands" => Access(i, k)
    BY <1>1, <1>5
  <2> QED BY <1>0, <1>1, <1>2, <1>4, <2>1, CastPassOwned
<1>8. BlocksBridged'
  <2>1. "blocks" \in Passed(step)
    BY <1>0 DEF Passed
  <2> QED BY <1>0, <1>1, <1>2, <1>4, <2>1, BlocksStay
<1>9. ResultsBridged'
  <2>1. "calls" \in Passed(step) /\ step # "error"
    BY <1>0 DEF Passed
  <2>2. \A i \in Instrs : \A k \in DOMAIN i.ops : <<i, k>> \in slots => i.ops[k][1] = "arg"
    BY <1>1, <1>5
  <2> QED BY <1>0, <1>1, <1>2, <2>1, <2>2, ResultsStay
<1>10. ArgsBridged'
  <2>1. PICK S : S = TypedArgs
    OBVIOUS
  <2>2. \A v \in S : v[1] \notin {"inst", "dem", "pre", "post"}
    BY <1>5, <2>1
  <2>3. \A i \in Instrs : \A k \in DOMAIN i.ops :
           i.ops[k] \in S => IsCalleeSlot(i, k) \/ i.id[1] = "pre" \/ <<i, k>> \in slots
    BY <1>1, <2>1
  <2>4. OnlyCast(S)'
    BY <1>0, <1>1, <1>2, <1>4, <2>2, <2>3, CastPassOnly
  <2>5. TypedArgs' = S
    BY <1>0, <2>1, UnitKept
  <2>6. OnlyCast(TypedArgs)'
    BY <2>4, <2>5 DEF OnlyCast
  <2> QED BY <2>6 DEF ArgsBridged
<1> QED BY <1>6, <1>7, <1>8, <1>9, <1>10 DEF TypedInv

\* Where an instruction comes from when the constants are demoted.
LEMMA DemotedInstrs ==
    ASSUME RewriterInv, ModulesAssumption, demotePointerConstants, NEW j \in Instrs'
    PROVE  \/ \E i \in Instrs :
                /\ j.id = i.id /\ j.op = i.op /\ j.ty = i.ty
                /\ DOMAIN j.ops = DOMAIN i.ops /\ Len(j.ops) = Len(i.ops)
                /\ \A k \in DOMAIN i.ops :
                     j.ops[k] = IF Demotable(i.ops[k])
                                THEN <<"dem", i.id, k, i.ops[k][2]>> ELSE i.ops[k]
           \/ \E i \in Instrs : \E k \in DOMAIN i.ops : \E c \in DOMAIN unit.consts :
                j = Materialized(i, k, c)
<1> DEFINE slots == {s \in Slots : Demotable(s[1].ops[s[2]])}
           code == [s \in slots |-> Expansion(s[1], s[2])]
           C == UNION {Materials(s[1], s[2]) : s \in slots}
           W == Rewritten(code, {})
           R == InstrsIn(W)
<1>0. step = "demote" /\ body' = W /\ unit' = unit
  BY DEF demotePointerConstants
<1>1. /\ \A i \in Instrs : \A k \in DOMAIN i.ops :
           <<i, k>> \in slots <=> Demotable(i.ops[k])
      /\ \A s \in slots : \E i \in Instrs : \E k \in DOMAIN i.ops :
           s = <<i, k>> /\ Demotable(i.ops[k])
  BY DEF Slots
<1>2. BodyInv /\ Operands /\ unit \in Modules /\ \A i \in Instrs : Instruction(i)
  BY DEF RewriterInv, BodyInv
<1>3. DOMAIN code = slots /\ \A s \in slots : code[s] = Expansion(s[1], s[2])
  OBVIOUS
<1>4. \A s \in slots : Materials(s[1], s[2]) \subseteq C
  OBVIOUS
<1> HIDE DEF slots, code, C
<1>5. ASSUME NEW i \in Instrs, NEW k \in DOMAIN i.ops, Demotable(i.ops[k])
      PROVE  /\ code[<<i, k>>] \in Seq(Materials(i, k)) /\ code[<<i, k>>] \in Seq(C)
             /\ Last(code[<<i, k>>]).id = <<"dem", i.id, k, i.ops[k][2]>>
  <2>1. i.ops[k][1] = "const" /\ <<i, k>> \in slots
    BY <1>1, <1>5 DEF Demotable
  <2>2. i.ops[k] \in Values(unit)
    BY <1>2, <2>1 DEF Operands
  <2>3. i.ops[k][2] \in DOMAIN unit.consts
    BY <2>1, <2>2 DEF Values
  <2>4. /\ Expansion(i, k) \in Seq(Materials(i, k))
        /\ Last(Expansion(i, k)) = Materialized(i, k, i.ops[k][2])
    BY <1>2, <2>3, ExpansionInstrs
  <2>5. code[<<i, k>>] = Expansion(i, k) /\ Materials(i, k) \subseteq C
    <3>1. PICK s \in slots : s = <<i, k>>
      BY <2>1
    <3> QED BY <1>3, <1>4, <3>1
  <2>6. Last(code[<<i, k>>]).id = <<"dem", i.id, k, i.ops[k][2]>>
    BY <1>2, <2>3, <2>4, <2>5, MaterializedFields
  <2>7. code[<<i, k>>] \in Seq(C)
    <3> DEFINE q == code[<<i, k>>]
               M == Materials(i, k)
    <3>1. q \in Seq(M) /\ M \subseteq C
      BY <2>4, <2>5
    <3> HIDE DEF q, M
    <3>2. q \in Seq(C)
      BY <3>1, SeqMonotonic
    <3> QED BY <3>2 DEF q
  <2> QED BY <2>4, <2>5, <2>6, <2>7
<1>6. Comes(code, {}, j)
  <2>1. \A s \in DOMAIN code : code[s] \in Seq(C)
    BY <1>1, <1>3, <1>5
  <2>2. W = Rewritten(code, {}) /\ R = InstrsIn(W)
    OBVIOUS
  <2> HIDE DEF W, R
  <2>3. DOMAIN W = DOMAIN body /\ \A x \in R : Comes(code, {}, x)
    BY <1>2, <2>1, <2>2, RewrittenInstrs
  <2>4. j \in R
    BY <1>0, <2>2, <2>3 DEF Instrs, InstrsIn
  <2> QED BY <2>3, <2>4
<1> HIDE DEF W, R
<1>7. CASE \E i \in Instrs : j = New(code, {}, i)
  <2>1. PICK i \in Instrs : j = New(code, {}, i)
    BY <1>7
  <2>2. /\ j.id = i.id /\ j.op = i.op /\ j.ty = i.ty
        /\ DOMAIN j.ops = DOMAIN i.ops /\ Len(j.ops) = Len(i.ops)
        /\ \A k \in DOMAIN i.ops :
             j.ops[k] = IF <<i, k>> \in DOMAIN code THEN Last(code[<<i, k>>]).id
                        ELSE i.ops[k]
    BY <1>2, <2>1, DemotedFields
  <2>3. ASSUME NEW k \in DOMAIN i.ops
        PROVE  j.ops[k] = IF Demotable(i.ops[k])
                          THEN <<"dem", i.id, k, i.ops[k][2]>> ELSE i.ops[k]
    <3>1. CASE Demotable(i.ops[k])
      <4>1. j.ops[k] = Last(code[<<i, k>>]).id
        BY <1>1, <1>3, <2>2, <3>1
      <4> QED BY <1>5, <3>1, <4>1
    <3>2. CASE ~Demotable(i.ops[k])
      BY <1>1, <1>3, <2>2, <3>2
    <3> QED BY <3>1, <3>2
  <2> QED BY <2>2, <2>3
<1>8. CASE \E s \in DOMAIN code : \E e \in Range(code[s]) : j = MovedInstr({}, e)
  <2>1. PICK s \in slots : \E e \in Range(code[s]) : j = MovedInstr({}, e)
    BY <1>3, <1>8
  <2>2. PICK e \in Range(code[s]) : j = MovedInstr({}, e)
    BY <2>1
  <2>3. PICK i \in Instrs : \E k \in DOMAIN i.ops : s = <<i, k>> /\ Demotable(i.ops[k])
    BY <1>1
  <2>4. PICK k \in DOMAIN i.ops : s = <<i, k>> /\ Demotable(i.ops[k])
    BY <2>3
  <2>5. e \in Materials(i, k)
    <3> DEFINE q == code[s]
               M == Materials(i, k)
    <3>1. q \in Seq(M) /\ e \in Range(q)
      BY <1>5, <2>2, <2>4
    <3> HIDE DEF q, M
    <3>2. e \in M
      BY <3>1, ElementOfSeq, LenProperties DEF Range
    <3> QED BY <3>2 DEF M
  <2>6. PICK c \in DOMAIN unit.consts : e = Materialized(i, k, c)
    BY <2>5 DEF Materials
  <2>7. MovedInstr({}, e) = e
    BY <1>2, <2>6, MaterializedFields
  <2> QED BY <2>2, <2>6, <2>7
<1> QED BY <1>6, <1>7, <1>8 DEF Comes

\* The demoted constants have the constants' types.
LEMMA DemoteTypes ==
    ASSUME PlacedInv, TypedInv, ModulesAssumption, TypesAssumption, demotePointerConstants
    PROVE  TypedInv'
<1>0. step = "demote" /\ step' = "globals" /\ unit' = unit
  BY DEF demotePointerConstants
<1>1. RewriterInv /\ BaseTyped /\ CastsOwned /\ unit \in Modules
  BY DEF PlacedInv, RewriterInv, TypedInv, BodyInv
<1> DEFINE Typ(j) ==
             /\ j.op = "invoke" => Invoking
             /\ IsOpaque(ResultType(j)) /\ BaseType(j.id) = ResultType(j)
             /\ \A k \in DOMAIN j.ops : \A t \in SourceWanted(j, k) : BaseType(j.ops[k]) = t
           Own(j) == \A k \in DOMAIN j.ops : j.ops[k][1] = "pre" =>
             /\ j.ops[k][2] = "operands" =>
                  j.ops[k] = <<"pre", "operands", j.id, k>> /\ Access(j, k)
             /\ j.ops[k][2] = "calls" => j.ops[k] = <<"pre", "calls", j.id, k>>
           Seen(v, w) == w = v \/ (v[1] = "const" /\ w[1] = "dem" /\ w[4] = v[2])
<1>2. ASSUME NEW v, NEW w, Seen(v, w), v[1] # "dem" \/ w = v PROVE BaseType(w) = BaseType(v)
  <2>1. CASE w # v
    <3>1. v[1] = "const" /\ w[1] = "dem" /\ w[4] = v[2]
      BY <1>2, <2>1
    <3>2. SourceType(unit, <<"const", w[4]>>) = SourceType(unit, v)
      BY <3>1 DEF SourceType
    <3> QED BY <3>1, <3>2 DEF BaseType
  <2> QED BY <2>1
<1>3. ASSUME NEW i \in Instrs, NEW j,
             j.id = i.id, j.op = i.op, j.ty = i.ty,
             DOMAIN j.ops = DOMAIN i.ops, Len(j.ops) = Len(i.ops),
             \A k \in DOMAIN i.ops :
                j.ops[k] = IF Demotable(i.ops[k])
                           THEN <<"dem", i.id, k, i.ops[k][2]>> ELSE i.ops[k]
      PROVE  Typ(j) /\ Own(j)
  <2>1. ASSUME NEW k \in DOMAIN i.ops PROVE Seen(i.ops[k], j.ops[k])
    <3>1. CASE Demotable(i.ops[k])
      <4>1. PICK c : c = i.ops[k][2]
        OBVIOUS
      <4>2. j.ops[k] = <<"dem", i.id, k, c>> /\ i.ops[k][1] = "const"
        BY <1>3, <3>1, <4>1 DEF Demotable
      <4>3. j.ops[k][1] = "dem" /\ j.ops[k][4] = c
        BY <4>2
      <4> QED BY <4>1, <4>2, <4>3
    <3>2. CASE ~Demotable(i.ops[k])
      BY <1>3, <3>2
    <3> QED BY <3>1, <3>2
  <2>2. \A k \in DOMAIN i.ops : BaseType(j.ops[k]) = BaseType(i.ops[k])
    BY <1>2, <2>1
  <2>3. \A k : /\ SourceWanted(j, k) = SourceWanted(i, k)
               /\ ResultType(j) = ResultType(i)
               /\ Access(j, k) <=> Access(i, k)
    BY <1>3, WantedAlike
  <2>4. Typ(i) /\ Own(i)
    BY <1>1 DEF BaseTyped, CastsOwned
  <2>5. ResultType(j) = ResultType(i)
    BY <2>3
  <2>6. Typ(j)
    BY <1>3, <2>2, <2>3, <2>4, <2>5
  <2>7. \A k \in DOMAIN i.ops : j.ops[k][1] = "pre" => j.ops[k] = i.ops[k]
    BY <2>1
  <2>8. Own(j)
    BY <1>3, <2>3, <2>4, <2>7
  <2> QED BY <2>6, <2>8
<1>4. ASSUME NEW i, NEW k, NEW c \in DOMAIN unit.consts, NEW j, j = Materialized(i, k, c)
      PROVE  Typ(j) /\ Own(j)
  <2>1. PICK d : d = unit.consts[c]
    OBVIOUS
  <2>2. /\ j.op = d.op /\ j.ty = d.ty /\ DOMAIN j.ops = DOMAIN d.ops
        /\ \A n \in DOMAIN d.ops :
             j.ops[n] = IF Demotable(d.ops[n]) THEN <<"dem", i.id, k, d.ops[n][2]>>
                        ELSE d.ops[n]
    BY <1>4, <2>1 DEF Materialized
  <2>3. j.id = <<"dem", i.id, k, c>> /\ j.op \in ConstantOps
    BY <1>1, <1>4, MaterializedFields
  <2>4. ~IsCallBase(j) /\ ~IsCallBase(d)
    BY <2>2, <2>3 DEF IsCallBase, ConstantOps
  <2>5. \A n : SourceWanted(j, n) = SourceWanted(d, n)
    BY <2>2, <2>4 DEF SourceWanted, Rule, IsCalleeSlot
  <2>6. ResultType(j) = ResultType(d)
    BY <2>2, <2>4 DEF ResultType
  <2>7. Typed(unit, d)
    BY <1>1, <2>1 DEF TypesAssumption, TypedSource
  <2>8. \A n \in DOMAIN d.ops : d.ops[n] \in Values(unit)
    <3>1. \A v \in Range(unit.consts[c].ops) : v \in Values(unit)
      BY <1>1 DEF ModulesAssumption, WellFormed, WellFormedConstants
    <3> QED BY <2>1, <3>1 DEF Range
  <2>9. ASSUME NEW n \in DOMAIN d.ops
        PROVE  /\ BaseType(j.ops[n]) = SourceType(unit, d.ops[n])
               /\ j.ops[n][1] # "pre"
    <3>1. d.ops[n][1] \in {"glob", "arg", "const", "block", "null", "int"}
      BY <2>8 DEF Values
    <3>2. Seen(d.ops[n], j.ops[n])
      <4>1. CASE Demotable(d.ops[n])
        <5>1. PICK e : e = d.ops[n][2]
          OBVIOUS
        <5>2. j.ops[n] = <<"dem", i.id, k, e>> /\ d.ops[n][1] = "const"
          BY <2>2, <4>1, <5>1 DEF Demotable
        <5>3. j.ops[n][1] = "dem" /\ j.ops[n][4] = e
          BY <5>2
        <5> QED BY <5>1, <5>2, <5>3
      <4>2. CASE ~Demotable(d.ops[n])
        BY <2>2, <4>2
      <4> QED BY <4>1, <4>2
    <3>3. BaseType(j.ops[n]) = BaseType(d.ops[n])
      BY <1>2, <3>1, <3>2
    <3>4. BaseType(d.ops[n]) = SourceType(unit, d.ops[n])
      BY <3>1 DEF BaseType
    <3> QED BY <3>1, <3>2, <3>3, <3>4
  <2>10. BaseType(j.id) = ResultType(d)
    <3>1. j.id[1] = "dem" /\ j.id[4] = c
      BY <2>3
    <3>2. BaseType(j.id) = SourceType(unit, <<"const", c>>)
      BY <3>1 DEF BaseType
    <3> QED BY <2>1, <3>2 DEF SourceType
  <2>11. Typ(j)
    BY <2>2, <2>4, <2>5, <2>6, <2>7, <2>9, <2>10 DEF Typed, IsCallBase
  <2>12. Own(j)
    BY <2>2, <2>9
  <2> QED BY <2>11, <2>12
<1>5. ASSUME NEW j \in Instrs' PROVE Typ(j) /\ Own(j)
  <2> HIDE DEF Typ, Own
  <2>1. CASE \E i \in Instrs : \E k \in DOMAIN i.ops : \E c \in DOMAIN unit.consts :
                j = Materialized(i, k, c)
    BY <1>4, <2>1
  <2>2. CASE \E i \in Instrs :
                /\ j.id = i.id /\ j.op = i.op /\ j.ty = i.ty
                /\ DOMAIN j.ops = DOMAIN i.ops /\ Len(j.ops) = Len(i.ops)
                /\ \A k \in DOMAIN i.ops :
                     j.ops[k] = IF Demotable(i.ops[k])
                                THEN <<"dem", i.id, k, i.ops[k][2]>> ELSE i.ops[k]
    BY <1>3, <2>2
  <2> QED BY <1>1, <2>1, <2>2, DemotedInstrs
<1>6. Invoking' = Invoking /\ \A v : BaseType(v)' = BaseType(v)
  BY <1>0, UnitKept
<1>7. \A j \in Instrs' :
             /\ j.op = "invoke" => Invoking'
             /\ IsOpaque(ResultType(j)) /\ BaseType(j.id)' = ResultType(j)
             /\ \A k \in DOMAIN j.ops : \A t \in SourceWanted(j, k) : BaseType(j.ops[k])' = t
  BY <1>5, <1>6
<1>8. BaseTyped'
  BY <1>7 DEF BaseTyped
<1>9. CastsOwned'
  BY <1>5 DEF CastsOwned
<1>10. ResultsBridged' /\ BlocksBridged' /\ ArgsBridged'
  BY <1>0 DEF ResultsBridged, BlocksBridged, ArgsBridged, Passed
<1> QED BY <1>8, <1>9, <1>10 DEF TypedInv

\* What is parsed is typed, and nothing is cast yet.
LEMMA TypedInit ==
    ASSUME Init, ModulesAssumption, TypesAssumption
    PROVE  TypedInv
<1>1. unit \in Modules /\ Instrs = InstrsOf(unit) /\ step = "demote"
  BY DEF Init, Instrs, InstrsOf
<1>2. WellFormedBody(unit) /\ TypedSource(unit)
  BY <1>1 DEF ModulesAssumption, WellFormed, TypesAssumption
<1>3. \A i, j \in InstrsOf(unit) : i.id = j.id => i = j
  BY <1>2 DEF WellFormedBody
<1>4. \A i \in InstrsOf(unit) :
         /\ i.id[1] = "inst"
         /\ \A k \in DOMAIN i.ops :
              \/ i.ops[k] \in Values(unit) \cup {j.id : j \in InstrsOf(unit)}
              \/ i.ops[k] = <<"asm", i.ty>>
  BY <1>2 DEF WellFormedBody
<1>5. \A i \in InstrsOf(unit) : \A k \in DOMAIN i.ops : i.ops[k][1] \notin {"dem", "pre"}
  BY <1>4 DEF Values
<1>6. \A v : v[1] # "dem" => BaseType(v) = SourceType(unit, v)
  BY DEF BaseType
<1>7. ASSUME NEW i \in InstrsOf(unit) PROVE BaseType(i.id) = ResultType(i)
  <2>1. (CHOOSE j \in InstrsOf(unit) : j.id = i.id) = i
    BY <1>3
  <2>2. i.id[1] = "inst"
    BY <1>4
  <2>3. BaseType(i.id) = SourceType(unit, i.id)
    BY <1>6, <2>2
  <2> QED BY <2>1, <2>2, <2>3 DEF SourceType
<1>8. BaseTyped
  <2> SUFFICES ASSUME NEW i \in InstrsOf(unit)
               PROVE  /\ i.op = "invoke" => Invoking
                      /\ IsOpaque(ResultType(i)) /\ BaseType(i.id) = ResultType(i)
                      /\ \A k \in DOMAIN i.ops : \A t \in SourceWanted(i, k) :
                           BaseType(i.ops[k]) = t
    BY <1>1 DEF BaseTyped
  <2>1. Typed(unit, i)
    BY <1>2 DEF TypedSource
  <2> QED BY <1>5, <1>6, <1>7, <2>1 DEF Typed, Invoking
<1>9. CastsOwned
  BY <1>1, <1>5 DEF CastsOwned
<1> QED BY <1>1, <1>8, <1>9 DEF TypedInv, ResultsBridged, BlocksBridged, ArgsBridged, Passed

\* The steps that leave the body alone.
LEMMA TypedOther ==
    ASSUME TypedInv, unit' = unit, body' = body,
           \/ step = "operands" /\ step' = "error"
           \/ step = "map" /\ step' \in {"error", "done"}
           \/ step' = step
    PROVE  TypedInv'
<1>1. Instrs' = Instrs
  BY DEF Instrs
<1>2. /\ BlockValues' = BlockValues /\ TypedArgs' = TypedArgs /\ Funcs' = Funcs
      /\ \A f : ReturnsTyped(f)' = ReturnsTyped(f)
      /\ \A v : BaseType(v)' = BaseType(v)
      /\ Invoking' = Invoking
  BY UnitKept
<1>3. \A f : CallsOf(f)' = CallsOf(f)
  BY <1>1 DEF CallsOf
<1>4. BaseTyped' /\ CastsOwned'
  BY <1>1, <1>2 DEF TypedInv, BaseTyped, CastsOwned
<1>5. ResultsBridged'
  BY <1>1, <1>2, <1>3 DEF TypedInv, ResultsBridged, Passed
<1>6. \A S : OnlyCast(S)' <=> OnlyCast(S)
  BY <1>1 DEF OnlyCast
<1>7. OnlyCast(BlockValues)' <=> OnlyCast(BlockValues)
  BY <1>1, <1>2 DEF OnlyCast
<1>8. OnlyCast(TypedArgs)' <=> OnlyCast(TypedArgs)
  BY <1>1, <1>2 DEF OnlyCast
<1>9. BlocksBridged' /\ ArgsBridged'
  BY <1>7, <1>8 DEF TypedInv, BlocksBridged, ArgsBridged, Passed
<1> QED BY <1>4, <1>5, <1>9 DEF TypedInv

LEMMA TypedAlways == Spec => [](PlacedInv /\ TypedInv)
<1>1. Init => TypedInv
  BY TypedInit, ModulesAssumption, TypesAssumption
<1>2. PlacedInv /\ TypedInv /\ [Next]_vars => TypedInv'
  <2> SUFFICES ASSUME PlacedInv, TypedInv, [Next]_vars PROVE TypedInv'
    OBVIOUS
  <2>1. CASE demotePointerConstants
    BY <2>1, DemoteTypes, ModulesAssumption, TypesAssumption
  <2>2. CASE bitcastGlobalValues
    BY <2>2, GlobalsTypes, ModulesAssumption
  <2>3. CASE bitcastBlockAddresses
    BY <2>3, BlocksTypes, ModulesAssumption
  <2>4. CASE bitcastInstructionOperands
    BY <2>4, OperandsTypes, ModulesAssumption
  <2>5. CASE bitcastFunctionOperands
    BY <2>5, CallsTypes, ModulesAssumption, TypesAssumption
  <2>6. CASE bitcastTypedArguments
    BY <2>6, ArgsTypes, ModulesAssumption, TypesAssumption
  <2>7. CASE /\ unit' = unit /\ body' = body
             /\ \/ step = "operands" /\ step' = "error"
                \/ step = "map" /\ step' \in {"error", "done"}
                \/ step' = step
    BY <2>7, TypedOther
  <2> QED BY <2>1, <2>2, <2>3, <2>4, <2>5, <2>6, <2>7
           DEF Next, vars, rejectVectorGEP, buildPointerMap, rejectCyclicGlobals
<1> QED BY <1>1, <1>2, PlacedAlways, PTL DEF Spec

-----------------------------------------------------------------------------
(* The types a legacy reader finds *)

\* A value has the type of its entry in the map.
LEMMA LegacyMapped ==
    ASSUME RewriterInv, ModulesAssumption, step = "done", NEW p \in PointerFacts
    PROVE  LegacyType(p[1]) = p[2]
<1>1. MapIsFunction /\ map = PointerFacts
  BY MapFunction DEF RewriterInv, MapInv
<1>2. p[2] \in Mapped(p[1])
  BY <1>1 DEF Mapped
<1>3. LegacyType(p[1]) \in Mapped(p[1])
  BY <1>2 DEF LegacyType
<1>4. PICK q \in map : q[1] = p[1] /\ q[2] = LegacyType(p[1])
  BY <1>3 DEF Mapped
<1> QED BY <1>1, <1>4 DEF MapIsFunction

LEMMA LegacyEntry ==
    ASSUME RewriterInv, ModulesAssumption, step = "done", NEW v, Mapped(v) # {}
    PROVE  \E p \in PointerFacts : p[1] = v /\ LegacyType(v) = p[2]
<1>1. map = PointerFacts
  BY DEF RewriterInv, MapInv
<1>2. PICK p \in map : p[1] = v
  BY DEF Mapped
<1> QED BY <1>1, <1>2, LegacyMapped

\* A function that is called directly is one of those the module has.
LEMMA CalleeOf ==
    ASSUME Operands, BodyInv, NEW i \in Instrs, i.op = "call", IsDirect(i)
    PROVE  \E f \in Funcs : Callee(i) = <<"glob", f>> /\ i \in CallsOf(f)
                            /\ i.ty = UntypedSig(unit.funcs[f])
<1>1. Len(i.ty[3]) \in Nat /\ Len(i.ops) > Len(i.ty[3])
      /\ \A k \in DOMAIN i.ops :
           \/ i.ops[k] \in Values(unit)
           \/ i.ops[k][1] \in {"inst", "dem", "pre", "post"}
           \/ i.ops[k] = <<"asm", i.ty>>
  BY DEF Operands, IsCallBase
<1>2. Len(i.ops) \in Nat /\ DOMAIN i.ops = 1 .. Len(i.ops)
  BY LenProperties DEF BodyInv, Instruction
<1>3. PICK n : n = Len(i.ops)
  OBVIOUS
<1>4. n \in DOMAIN i.ops /\ Callee(i) = i.ops[n]
  BY <1>1, <1>2, <1>3 DEF Callee, Last
<1>5. i.ops[n][1] = "glob" /\ i.ops[n][2] \in Funcs
  BY <1>4 DEF IsDirect, IsFunc
<1>6. i.ops[n] \in Values(unit)
  BY <1>1, <1>4, <1>5
<1>7. \E g : i.ops[n] = <<"glob", g>>
  BY <1>5, <1>6 DEF Values
<1>8. PICK f : i.ops[n] = <<"glob", f>>
  BY <1>7
<1>9. f \in Funcs
  BY <1>5, <1>8
<1>10. i \in CallsOf(f)
  BY <1>4, <1>8 DEF CallsOf, Range
<1>11. i.ty = UntypedSig(unit.funcs[f])
  BY <1>4, <1>8 DEF IsDirect
<1> QED BY <1>4, <1>8, <1>9, <1>10, <1>11

\* What no entry types has its type of before, but for what only a cast uses.
LEMMA LegacyUnmapped ==
    ASSUME PlacedInv, TypedInv, step = "done",
           NEW i \in Instrs, NEW k \in DOMAIN i.ops, Mapped(i.ops[k]) = {}
    PROVE  LegacyType(i.ops[k]) = BaseType(i.ops[k]) \/ i.id = <<"post", i.ops[k]>>
<1>1. /\ Placement /\ Operands /\ BodyInv /\ BaseTyped /\ ResultsBridged
      /\ "calls" \in Passed(step) /\ step # "error"
  BY DEF PlacedInv, RewriterInv, TypedInv, Passed
<1>2. PICK v : v = i.ops[k]
  OBVIOUS
<1>3. CASE v \notin Ids
  <2>1. v[1] # "dem"
    BY <1>1, <1>2, <1>3, LocalsDefined DEF IsLocal, IsInserted
  <2>2. BaseType(v) = SourceType(unit, v)
    BY <2>1 DEF BaseType
  <2>3. LegacyType(v) = SourceType(unit, v)
    BY <1>2, <1>3 DEF LegacyType
  <2> QED BY <1>2, <2>2, <2>3
<1>4. CASE v \in Ids
  <2>1. PICK d : d = Def(v)
    OBVIOUS
  <2>2. d \in Instrs /\ d.id = v
    <3>1. \E j \in Instrs : j.id = v
      BY <1>4 DEF Ids
    <3> QED BY <2>1, <3>1 DEF Def
  <2>3. BaseType(v) = ResultType(d)
    BY <1>1, <2>2 DEF BaseTyped
  <2>4. LegacyType(v) = IF IsCallBase(d) THEN CalleeType(d)[2] ELSE ResultType(d)
    BY <1>2, <1>4, <2>1 DEF LegacyType
  <2>5. CASE ~(d.op = "call" /\ IsDirect(d))
    <3>1. CalleeType(d) = d.ty
      BY <2>5 DEF CalleeType
    <3> QED BY <1>2, <2>3, <2>4, <3>1 DEF ResultType
  <2>6. CASE d.op = "call" /\ IsDirect(d)
    <3>1. PICK f \in Funcs : Callee(d) = <<"glob", f>> /\ d \in CallsOf(f)
                              /\ d.ty = UntypedSig(unit.funcs[f])
      BY <1>1, <2>2, <2>6, CalleeOf
    <3>2. CASE ReturnsTyped(f)
      BY <1>1, <1>2, <2>2, <3>1, <3>2 DEF ResultsBridged
    <3>3. CASE ~ReturnsTyped(f)
      <4>1. Callee(d)[2] = f
        BY <3>1
      <4>2. CalleeType(d) = TypedSig(unit.funcs[f])
        BY <2>6, <4>1 DEF CalleeType
      <4>3. d.ty[2] = unit.funcs[f].ret
        BY <3>1 DEF UntypedSig, FN
      <4>4. TypedSig(unit.funcs[f])[2] = unit.funcs[f].ret
        BY <3>3 DEF ReturnsTyped
      <4>5. ResultType(d) = d.ty[2] /\ IsCallBase(d)
        BY <2>6 DEF ResultType, IsCallBase
      <4> QED BY <1>2, <2>3, <2>4, <4>2, <4>3, <4>4, <4>5
    <3> QED BY <3>2, <3>3
  <2> QED BY <2>5, <2>6
<1> QED BY <1>3, <1>4

\* A retyped value that an instruction gives stands before its one use.
LEMMA RetypedNear ==
    ASSUME PlacedInv, TypedInv, ModulesAssumption, step = "done",
           NEW b \in DOMAIN body, NEW n \in DOMAIN body[b],
           NEW k \in DOMAIN body[b][n].ops,
           body[b][n].ops[k] \in Ids, ~IsOpaque(LegacyType(body[b][n].ops[k]))
    PROVE  Before1(body, body[b][n].ops[k], b, n)
<1>1. /\ RewriterInv /\ Names /\ Operands /\ CastsNear /\ OperandsBridged
      /\ BaseTyped /\ CastsOwned /\ ResultsBridged
      /\ "operands" \in Passed(step) /\ step # "error"
  BY DEF PlacedInv, RewriterInv, TypedInv, Passed
<1>2. PICK i : i = body[b][n]
  OBVIOUS
<1>3. i \in Instrs /\ k \in DOMAIN i.ops
  BY <1>2 DEF Instrs, Range
<1>4. PICK v : v = i.ops[k]
  OBVIOUS
<1>5. v \in Ids /\ ~IsOpaque(LegacyType(v))
  BY <1>2, <1>4
<1>6. (i.op # "phi" /\ v[1] = "pre") \/ i.id[1] = "post" => Before1(body, v, b, n)
  BY <1>1, <1>2, <1>3, <1>4 DEF CastsNear, Near
<1>7. CASE Mapped(v) = {}
  <2>1. PICK d \in Instrs : d.id = v
    BY <1>5 DEF Ids
  <2>2. IsOpaque(BaseType(v))
    BY <1>1, <2>1 DEF BaseTyped
  <2>3. i.id = <<"post", v>>
    BY <1>3, <1>4, <1>5, <1>7, <2>2, LegacyUnmapped
  <2>4. i.id[1] = "post"
    BY <2>3
  <2> QED BY <1>2, <1>4, <1>6, <2>4
<1>8. CASE Mapped(v) # {}
  <2>1. PICK p \in PointerFacts : p[1] = v
    BY <1>1, <1>8, LegacyEntry
  <2>2. v[1] \in {"inst", "dem", "pre", "post"}
    BY <1>1, <1>5, NamesHeads
  <2>3. OfOperand(p) \/ OfResult(p) \/ OfArgument(p)
    BY <1>1, <2>1, <2>2, Entries, Keys
  <2>4. CASE OfOperand(p)
    <3>1. v[1] = "pre" /\ v[2] = "operands"
      BY <2>1, <2>4, Keys
    <3>2. Access(i, k)
      BY <1>1, <1>3, <1>4, <3>1 DEF CastsOwned
    <3>3. i.op # "phi"
      BY <3>2 DEF Access
    <3> QED BY <1>2, <1>4, <1>6, <3>1, <3>3
  <2>5. CASE OfArgument(p)
    <3>1. v[1] = "pre" /\ v[2] = "calls"
      BY <2>1, <2>5, Keys
    <3>2. v = <<"pre", "calls", i.id, k>>
      BY <1>1, <1>3, <1>4, <3>1 DEF CastsOwned
    <3>3. \E f \in Funcs : \E j \in CallsOf(f) : \E l : v = <<"pre", "calls", j.id, l>>
      BY <2>1, <2>5 DEF OfArgument
    <3>4. PICK f \in Funcs : \E j \in CallsOf(f) : \E l : v = <<"pre", "calls", j.id, l>>
      BY <3>3
    <3>5. PICK j \in CallsOf(f) : \E l : v = <<"pre", "calls", j.id, l>>
      BY <3>4
    <3>6. i.id = j.id
      BY <3>2, <3>5
    <3>7. i.op = "call"
      BY <1>1, <1>3, <3>6 DEF Names, CallsOf
    <3> QED BY <1>2, <1>4, <1>6, <3>1, <3>7
  <2>6. CASE OfResult(p)
    <3>1. PICK j \in Instrs : Retypes(j) /\ p = <<j.id, TP(OwnPointee(j))>>
      BY <2>6 DEF OfResult
    <3>2. v = j.id
      BY <2>1, <3>1
    <3>3. i.id = <<"post", v>>
      BY <1>1, <1>3, <1>4, <3>1, <3>2 DEF OperandsBridged
    <3>4. i.id[1] = "post"
      BY <3>3
    <3> QED BY <1>2, <1>4, <1>6, <3>4
  <2> QED BY <2>3, <2>4, <2>5, <2>6
<1> QED BY <1>7, <1>8

\* Whatever a reader makes of a pointer it has not read yet, it makes right:
\* each value the writer gives a typed pointer to is defined ahead of its use in
\* the use's own block, in whichever order the blocks are written.
THEOREM ForwardRefsCorrect == Spec => []ForwardRefsOpaque
<1>1. ASSUME PlacedInv, TypedInv PROVE ForwardRefsOpaque
  <2> SUFFICES ASSUME step = "done", NEW b \in DOMAIN body, NEW n \in DOMAIN body[b],
                      NEW v \in Range(body[b][n].ops) \cap Ids,
                      ~IsOpaque(LegacyType(v))
               PROVE  ReadBefore(v, b, n)
    BY DEF ForwardRefsOpaque, Done
  <2>1. PICK k \in DOMAIN body[b][n].ops : v = body[b][n].ops[k]
    BY DEF Range
  <2>2. Before1(body, v, b, n)
    BY <1>1, <2>1, RetypedNear, ModulesAssumption
  <2> QED BY <2>2 DEF Before1, ReadBefore
<1> QED BY <1>1, TypedAlways, PTL

\* A typed operand is written with the pointer to what it accesses.
LEMMA PointerSlotTyped ==
    ASSUME PlacedInv, ModulesAssumption, step = "done",
           NEW i \in Instrs, NEW k \in DOMAIN i.ops, PointerSlot(i, k)
    PROVE  LegacyType(i.ops[k]) = TP(i.ty) /\ Wanted(i, k) = {TP(i.ty)}
<1>1. RewriterInv
  BY DEF PlacedInv
<1>2. PICK p : p = <<i.ops[k], TP(i.ty)>>
  OBVIOUS
<1>3. p \in FromInstr(i) /\ Wanted(i, k) = {TP(i.ty)}
  <2>1. CASE i.op \in {"load", "rmw", "cmpxchg", "gep"} /\ k = 1
    BY <1>2, <2>1 DEF FromInstr, Wanted, Rule, IsCalleeSlot, IsCallBase
  <2>2. CASE i.op = "store" /\ k = 2
    BY <1>2, <2>2 DEF FromInstr, Wanted, Rule, IsCalleeSlot, IsCallBase
  <2>3. CASE i.op = "call" /\ k = Len(i.ops) /\ ~IsDirect(i)
    <3>1. p \in FromInstr(i)
      BY <1>2, <2>3 DEF FromInstr, Callee, Last
    <3>2. CalleeType(i) = i.ty
      BY <2>3 DEF CalleeType
    <3>3. Wanted(i, k) = {TP(i.ty)}
      BY <2>3, <3>2 DEF Wanted, Rule, IsCalleeSlot, IsCallBase
    <3> QED BY <3>1, <3>3
  <2> QED BY <2>1, <2>2, <2>3 DEF PointerSlot
<1>4. p \in PointerFacts
  BY <1>3 DEF PointerFacts
<1>5. LegacyType(p[1]) = p[2]
  BY <1>1, <1>4, LegacyMapped
<1> QED BY <1>2, <1>3, <1>5

\* A callee is written with the signature the call record has.
LEMMA CalleeTyped ==
    ASSUME PlacedInv, ModulesAssumption, step = "done",
           NEW i \in Instrs, NEW k \in DOMAIN i.ops, i.op = "call", k = Len(i.ops)
    PROVE  LegacyType(i.ops[k]) = TP(CalleeType(i)) /\ Wanted(i, k) = {TP(CalleeType(i))}
<1>1. RewriterInv /\ Operands /\ BodyInv
  BY DEF PlacedInv, RewriterInv
<1>2. Wanted(i, k) = {TP(CalleeType(i))}
  BY DEF Wanted, Rule, IsCalleeSlot, IsCallBase
<1>3. i.ops[k] = Callee(i)
  BY DEF Callee, Last
<1>4. CASE IsDirect(i)
  <2>1. PICK f \in Funcs : Callee(i) = <<"glob", f>>
    BY <1>1, <1>4, CalleeOf
  <2>2. PICK p : p = <<<<"glob", f>>, TP(TypedSig(unit.funcs[f]))>>
    OBVIOUS
  <2>3. p \in FromFunction(f)
    BY <2>2 DEF FromFunction
  <2>4. p \in PointerFacts
    BY <2>3 DEF PointerFacts
  <2>5. LegacyType(p[1]) = p[2]
    BY <1>1, <2>4, LegacyMapped
  <2>6. Callee(i)[2] = f
    BY <2>1
  <2>7. CalleeType(i) = TypedSig(unit.funcs[f])
    BY <1>4, <2>6 DEF CalleeType
  <2> QED BY <1>2, <1>3, <2>1, <2>2, <2>5, <2>7
<1>5. CASE ~IsDirect(i)
  <2>1. PICK p : p = <<i.ops[k], TP(i.ty)>>
    OBVIOUS
  <2>2. p \in FromInstr(i)
    BY <1>3, <1>5, <2>1 DEF FromInstr
  <2>3. p \in PointerFacts
    BY <2>2 DEF PointerFacts
  <2>4. LegacyType(p[1]) = p[2]
    BY <1>1, <2>3, LegacyMapped
  <2>5. CalleeType(i) = i.ty
    BY <1>5 DEF CalleeType
  <2> QED BY <1>2, <2>1, <2>4, <2>5
<1> QED BY <1>4, <1>5

\* A retyped argument is written with the type of the parameter.
LEMMA ArgumentTyped ==
    ASSUME PlacedInv, ModulesAssumption, step = "done",
           NEW f \in Funcs, NEW i \in CallsOf(f), NEW k \in Retyped(f)
    PROVE  /\ LegacyType(i.ops[k]) = TypedSig(unit.funcs[f])[3][k]
           /\ Wanted(i, k) = {TypedSig(unit.funcs[f])[3][k]}
<1>1. /\ RewriterInv /\ Operands /\ BodyInv /\ Names /\ GlobalsBridged /\ OperandsBridged
      /\ "operands" \in Passed(step) /\ "globals" \in Passed(step) /\ step # "error"
      /\ unit \in Modules
  BY DEF PlacedInv, RewriterInv, BodyInv, Passed
<1>2. /\ i \in Instrs /\ i.op = "call" /\ Callee(i) = <<"glob", f>> /\ IsDirect(i)
      /\ k \in DOMAIN i.ops /\ ~IsCalleeSlot(i, k)
  BY <1>1, CallsDirect
<1>3. PICK sig : sig = TypedSig(unit.funcs[f])
  OBVIOUS
<1>4. PICK p : p = <<i.ops[k], sig[3][k]>>
  OBVIOUS
<1>5. p \in FromFunction(f)
  BY <1>2, <1>3, <1>4 DEF FromFunction
<1>6. p \in PointerFacts
  BY <1>5 DEF PointerFacts
<1>7. LegacyType(p[1]) = p[2]
  BY <1>1, <1>6, LegacyMapped
<1>8. Callee(i)[2] = f
  BY <1>2
<1>9. CalleeType(i) = sig
  BY <1>2, <1>3, <1>8 DEF CalleeType
<1>10. k \in DOMAIN sig[3]
  BY <1>3 DEF Retyped, TypedSig, FN
<1>11. Wanted(i, k) = {sig[3][k]}
  BY <1>2, <1>9, <1>10 DEF Wanted, Rule, IsCallBase
<1> QED BY <1>3, <1>4, <1>7, <1>11

\* Any other operand keeps the type it had, of which the same is wanted.
LEMMA OtherTyped ==
    ASSUME PlacedInv, TypedInv, ModulesAssumption, step = "done",
           NEW i \in Instrs, NEW k \in DOMAIN i.ops,
           i.id[1] \in {"inst", "dem"}, i.op # "invoke",
           ~PointerSlot(i, k), ~IsCalleeSlot(i, k),
           \A f \in Funcs : i \in CallsOf(f) => k \notin Retyped(f)
    PROVE  /\ LegacyType(i.ops[k]) = BaseType(i.ops[k])
           /\ Wanted(i, k) = SourceWanted(i, k)
<1>1. /\ RewriterInv /\ Operands /\ BodyInv /\ Names /\ GlobalsBridged /\ OperandsBridged
      /\ CastsOwned /\ BlocksBridged /\ ArgsBridged
      /\ Passed(step) = {"globals", "blocks", "operands", "calls", "args"} /\ step # "error"
  BY DEF PlacedInv, RewriterInv, TypedInv, Passed
<1>2. PICK v : v = i.ops[k]
  OBVIOUS
<1>3. ASSUME NEW p \in PointerFacts, p[1] = v PROVE FALSE
  <2>1. CASE OfGlobal(p) \/ OfFunction(p)
    <3>1. v[1] = "glob"
      BY <1>3, <2>1, Keys
    <3> QED BY <1>1, <1>2, <3>1 DEF GlobalsBridged, IsGlobal
  <2>2. CASE OfBlock(p)
    <3>1. v[1] = "block"
      BY <1>3, <2>2, Keys
    <3>2. v \in Values(unit)
      BY <1>1, <1>2, <3>1 DEF Operands
    <3>3. v \in {<<"block", b>> : b \in DOMAIN unit.body}
      BY <3>1, <3>2 DEF Values
    <3> QED BY <1>1, <1>2, <3>3 DEF BlocksBridged, OnlyCast, BlockValues
  <2>3. CASE OfOperand(p)
    <3>1. PICK j \in Instrs : \E l \in DOMAIN j.ops :
             PointerSlot(j, l) /\ p = <<<<"pre", "operands", j.id, l>>, TP(j.ty)>>
      BY <2>3 DEF OfOperand
    <3>2. PICK l \in DOMAIN j.ops :
             PointerSlot(j, l) /\ p = <<<<"pre", "operands", j.id, l>>, TP(j.ty)>>
      BY <3>1
    <3>3. v = <<"pre", "operands", j.id, l>>
      BY <1>3, <3>2
    <3>4. v = <<"pre", "operands", i.id, k>>
      <4>1. v[1] = "pre" /\ v[2] = "operands"
        BY <3>3
      <4> QED BY <1>1, <1>2, <4>1 DEF CastsOwned
    <3>5. j.id = i.id /\ l = k
      BY <3>3, <3>4
    <3>6. j = i
      BY <1>1, <3>5 DEF Names
    <3> QED BY <3>2, <3>5, <3>6
  <2>4. CASE OfAsm(p)
    <3>1. v[1] = "asm"
      BY <1>3, <2>4, Keys
    <3> QED BY <1>1, <1>2, <3>1 DEF Operands, Values
  <2>5. CASE OfResult(p)
    <3>1. PICK j \in Instrs : Retypes(j) /\ p = <<j.id, TP(OwnPointee(j))>>
      BY <2>5 DEF OfResult
    <3>2. i.ops[k] = j.id
      BY <1>2, <1>3, <3>1
    <3>3. i.id = <<"post", j.id>>
      BY <1>1, <3>1, <3>2 DEF OperandsBridged
    <3>4. i.id[1] = "post"
      BY <3>3
    <3> QED BY <3>4
  <2>6. CASE OfArgument(p)
    <3>1. PICK f \in Funcs : \E j \in CallsOf(f) : \E l \in Retyped(f) :
             p[1] = <<"pre", "calls", j.id, l>>
      BY <2>6 DEF OfArgument
    <3>2. PICK j \in CallsOf(f) : \E l \in Retyped(f) : p[1] = <<"pre", "calls", j.id, l>>
      BY <3>1
    <3>3. PICK l \in Retyped(f) : v = <<"pre", "calls", j.id, l>>
      BY <1>3, <3>2
    <3>4. v = <<"pre", "calls", i.id, k>>
      <4>1. v[1] = "pre" /\ v[2] = "calls"
        BY <3>3
      <4> QED BY <1>1, <1>2, <4>1 DEF CastsOwned
    <3>5. j.id = i.id /\ l = k
      BY <3>3, <3>4
    <3>6. j = i
      BY <1>1, <3>5 DEF Names, CallsOf
    <3> QED BY <3>5, <3>6
  <2>7. CASE OfParameter(p)
    <3>1. v \in TypedArgs
      <4>1. PICK a : a = unit.funcs[unit.main].args
        OBVIOUS
      <4>2. \E l \in Retyped(unit.main) : p[1] = <<"arg", a[l]>>
        BY <2>7, <4>1 DEF OfParameter
      <4> QED BY <1>3, <4>1, <4>2 DEF TypedArgs
    <3> QED BY <1>1, <1>2, <3>1 DEF ArgsBridged, OnlyCast
  <2> QED BY <1>1, <1>3, <2>1, <2>2, <2>3, <2>4, <2>5, <2>6, <2>7, Entries
<1>4. Mapped(v) = {}
  BY <1>1, <1>3, LegacyEntry
<1>5. LegacyType(v) = BaseType(v)
  <2>1. \A x : <<"post", x>>[1] = "post"
    OBVIOUS
  <2>2. i.id # <<"post", v>>
    BY <2>1
  <2> QED BY <1>2, <1>4, <2>2, LegacyUnmapped
<1>6. Wanted(i, k) = SourceWanted(i, k)
  <2>1. CASE i.op # "call"
    <3>1. ~IsCallBase(i)
      BY <2>1 DEF IsCallBase
    <3> QED BY <3>1 DEF PointerSlot, Wanted, SourceWanted, Rule, IsCalleeSlot
  <2>2. CASE i.op = "call" /\ ~IsDirect(i)
    <3>1. CalleeType(i) = i.ty
      BY <2>2 DEF CalleeType
    <3> QED BY <2>2, <3>1 DEF Wanted, SourceWanted, Rule
  <2>3. CASE i.op = "call" /\ IsDirect(i)
    <3>1. PICK f \in Funcs : Callee(i) = <<"glob", f>> /\ i \in CallsOf(f)
                              /\ i.ty = UntypedSig(unit.funcs[f])
      BY <1>1, <2>3, CalleeOf
    <3>2. PICK sig : sig = TypedSig(unit.funcs[f])
      OBVIOUS
    <3>3. Callee(i)[2] = f
      BY <3>1
    <3>4. CalleeType(i) = sig
      BY <2>3, <3>2, <3>3 DEF CalleeType
    <3>5. i.ty[3] = unit.funcs[f].params /\ DOMAIN sig[3] = DOMAIN unit.funcs[f].params
      BY <3>1, <3>2 DEF UntypedSig, TypedSig, FN
    <3>6. k \in DOMAIN i.ty[3] => sig[3][k] = i.ty[3][k]
      BY <3>1, <3>2, <3>5 DEF Retyped
    <3> QED BY <2>3, <3>4, <3>5, <3>6 DEF Wanted, SourceWanted, Rule, IsCallBase
  <2> QED BY <2>1, <2>2, <2>3
<1> QED BY <1>2, <1>5, <1>6

\* A cast aside, every operand has the type wanted of it.
LEMMA SlotTyped ==
    ASSUME PlacedInv, TypedInv, ModulesAssumption, step = "done",
           NEW i \in Instrs, i.op # "invoke", NEW k \in DOMAIN i.ops, Wanted(i, k) # {}
    PROVE  LegacyType(i.ops[k]) \in Wanted(i, k)
<1>1. Names /\ BaseTyped
  BY DEF PlacedInv, RewriterInv, TypedInv
<1>2. i.id[1] \in {"inst", "dem"}
  BY <1>1, WantedCast, NamesHeads
<1>3. CASE PointerSlot(i, k)
  BY <1>3, PointerSlotTyped
<1>4. CASE IsCalleeSlot(i, k)
  BY <1>4, CalleeTyped DEF IsCalleeSlot, IsCallBase
<1>5. CASE \E f \in Funcs : i \in CallsOf(f) /\ k \in Retyped(f)
  BY <1>5, ArgumentTyped
<1>6. CASE /\ ~PointerSlot(i, k) /\ ~IsCalleeSlot(i, k)
           /\ \A f \in Funcs : i \in CallsOf(f) => k \notin Retyped(f)
  <2>1. LegacyType(i.ops[k]) = BaseType(i.ops[k]) /\ Wanted(i, k) = SourceWanted(i, k)
    BY <1>2, <1>6, OtherTyped
  <2>2. \A t \in SourceWanted(i, k) : BaseType(i.ops[k]) = t
    BY <1>1 DEF BaseTyped
  <2> QED BY <2>1, <2>2
<1> QED BY <1>3, <1>4, <1>5, <1>6

-----------------------------------------------------------------------------
(* The value types of globals *)

\* What the type of a global is derived from, having seen some: the ways f
\* says the globals it refers to are typed.
Derivations == (Globals \cup Funcs) \X SUBSET Globals
Refers(g, seen) ==
    /\ g \notin Funcs /\ unit.globals[g].ty = PTR /\ g \notin seen
    /\ unit.globals[g].kind # "ifunc" /\ IsGlobal(unit.globals[g].init)
Derived(f, p) ==
    LET g == p[1]
        seen == p[2]
        init == unit.globals[g].init
    IN IF g \in Funcs THEN TypedSig(unit.funcs[g])
       ELSE IF unit.globals[g].ty # PTR THEN unit.globals[g].ty
       ELSE IF g \in seen THEN Cyclic
       ELSE IF unit.globals[g].kind = "ifunc" THEN PTR
       ELSE IF IsGlobal(init) THEN Pointee(f[<<init[2], seen \cup {g}>>])
       ELSE IF init[1] = "block" THEN TP(I8)
       ELSE PTR
Unseen(p) == Cardinality(Globals \ p[2])

\* There are fewer left to see each time.
LEMMA UnseenRank ==
    ASSUME unit \in Modules, ModulesAssumption
    PROVE  /\ Cardinality(Globals) \in Nat
           /\ \A p \in Derivations : Unseen(p) \in 0 .. Cardinality(Globals)
<1>1. IsFiniteSet(Globals)
  BY DEF ModulesAssumption, WellFormed, WellFormedSymbols, Globals
<1>2. Cardinality(Globals) \in Nat
  BY <1>1, FS_CardinalityType
<1>3. ASSUME NEW p \in Derivations PROVE Unseen(p) \in 0 .. Cardinality(Globals)
  <2>1. Globals \ p[2] \subseteq Globals
    OBVIOUS
  <2>2. IsFiniteSet(Globals \ p[2]) /\ Cardinality(Globals \ p[2]) <= Cardinality(Globals)
    BY <1>1, <2>1, FS_Subset
  <2>3. Cardinality(Globals \ p[2]) \in Nat
    BY <2>2, FS_CardinalityType
  <2> QED BY <1>2, <2>2, <2>3 DEF Unseen
<1> QED BY <1>2, <1>3

LEMMA Referred ==
    ASSUME unit \in Modules, ModulesAssumption, TypesAssumption,
           NEW g \in Globals \cup Funcs, NEW seen \in SUBSET Globals, Refers(g, seen)
    PROVE  /\ g \in Globals
           /\ <<unit.globals[g].init[2], seen \cup {g}>> \in Derivations
           /\ Unseen(<<unit.globals[g].init[2], seen \cup {g}>>) < Unseen(<<g, seen>>)
<1>1. g \in Globals /\ g \notin seen
  BY DEF Refers
<1>2. PICK init : init = unit.globals[g].init
  OBVIOUS
<1>3. \/ unit.globals[g].ty # PTR \/ unit.globals[g].kind = "ifunc" \/ init = NoType
      \/ init \in Values(unit) /\ init[1] # "arg" /\ SourceType(unit, init) = PTR
  BY <1>1, <1>2 DEF TypesAssumption, TypedSource, Globals
<1>4. init[1] = "glob"
  BY <1>2 DEF Refers, IsGlobal
<1>5. init # NoType
  BY <1>4 DEF NoType
<1>6. init \in Values(unit)
  BY <1>3, <1>5 DEF Refers
<1>7. init[2] \in Globals \cup Funcs
  BY <1>4, <1>6 DEF Values, Globals, Funcs
<1>8. PICK rest : rest = Globals \ seen
  OBVIOUS
<1>9. IsFiniteSet(rest)
  <2>1. IsFiniteSet(Globals)
    BY DEF ModulesAssumption, WellFormed, WellFormedSymbols, Globals
  <2> QED BY <1>8, <2>1, FS_Subset
<1>10. g \in rest /\ Globals \ (seen \cup {g}) = rest \ {g}
  BY <1>1, <1>8
<1>11. Cardinality(rest \ {g}) = Cardinality(rest) - 1 /\ Cardinality(rest) \in Nat
  BY <1>9, <1>10, FS_RemoveElement, FS_CardinalityType
<1>12. Unseen(<<init[2], seen \cup {g}>>) < Unseen(<<g, seen>>)
  BY <1>8, <1>10, <1>11 DEF Unseen
<1> QED BY <1>1, <1>2, <1>7, <1>12 DEF Derivations

\* A derivation looks at others of fewer unseen ones only.
LEMMA DerivedAlike ==
    ASSUME unit \in Modules, ModulesAssumption, TypesAssumption,
           NEW p \in Derivations, NEW e, NEW f,
           \A q \in Derivations : Unseen(q) < Unseen(p) => e[q] = f[q]
    PROVE  Derived(e, p) = Derived(f, p)
<1>1. PICK g \in Globals \cup Funcs : \E seen \in SUBSET Globals : p = <<g, seen>>
  BY DEF Derivations
<1>2. PICK seen \in SUBSET Globals : p = <<g, seen>>
  BY <1>1
<1>3. p[1] = g /\ p[2] = seen
  BY <1>2
<1>4. Refers(g, seen) =>
        LET q == <<unit.globals[g].init[2], seen \cup {g}>> IN e[q] = f[q]
  BY <1>2, Referred
<1> QED BY <1>3, <1>4 DEF Derived, Refers

LEMMA DerivationsExist ==
    ASSUME unit \in Modules, ModulesAssumption, TypesAssumption
    PROVE  \E f : f = [p \in Derivations |-> Derived(f, p)]
<1> DEFINE D == Derivations
           N == Cardinality(Globals)
           Good == {n \in 0 .. N + 1 : \E f :
                      \A p \in D : Unseen(p) < n => f[p] = Derived(f, p)}
<1>1. N \in Nat /\ \A p \in D : Unseen(p) \in 0 .. N
  BY UnseenRank
<1> HIDE DEF N, D
<1>2. 0 \in Good
  BY <1>1
<1>3. ASSUME NEW n \in 1 .. N + 1, n - 1 \in Good PROVE n \in Good
  <2>1. PICK f : \A p \in D : Unseen(p) < n - 1 => f[p] = Derived(f, p)
    BY <1>3
  <2> DEFINE g == [p \in D |-> IF Unseen(p) = n - 1 THEN Derived(f, p) ELSE f[p]]
  <2>2. ASSUME NEW p \in D, Unseen(p) < n PROVE g[p] = Derived(g, p)
    <3>1. Unseen(p) \in Nat /\ n \in Nat
      BY <1>1
    <3>2. Unseen(p) = n - 1 \/ Unseen(p) < n - 1
      BY <2>2, <3>1
    <3>3. g[p] = Derived(f, p)
      BY <2>1, <3>2
    <3>4. ASSUME NEW q \in D, Unseen(q) < Unseen(p) PROVE g[q] = f[q]
      <4>1. Unseen(q) \in Nat
        BY <1>1
      <4>2. Unseen(q) # n - 1
        BY <2>2, <3>1, <3>4, <4>1
      <4> QED BY <4>2
    <3> HIDE DEF g
    <3>5. Derived(g, p) = Derived(f, p)
      BY <3>4, DerivedAlike DEF D
    <3> QED BY <3>3, <3>5
  <2>3. n \in 0 .. N + 1
    BY <1>1
  <2> HIDE DEF g
  <2> QED BY <2>2, <2>3
<1> HIDE DEF Good
<1>4. 0 .. N + 1 \subseteq Good
  <2> DEFINE P == N + 1
  <2>1. P \in Nat /\ \A n \in 1 .. P : n - 1 \in Good => n \in Good
    BY <1>1, <1>3
  <2> HIDE DEF P
  <2>2. 0 .. P \subseteq Good
    BY <1>2, <2>1, AllNumbers
  <2> QED BY <2>2 DEF P
<1>5. N + 1 \in Good
  BY <1>1, <1>4
<1>6. PICK f : \A p \in D : Unseen(p) < N + 1 => f[p] = Derived(f, p)
  BY <1>5 DEF Good
<1>7. \A p \in D : f[p] = Derived(f, p)
  BY <1>1, <1>6
<1> DEFINE h == [p \in D |-> f[p]]
<1>8. \A p \in D : h[p] = f[p]
  OBVIOUS
<1>9. h = [p \in D |-> h[p]]
  OBVIOUS
<1> HIDE DEF h
<1>10. \A p \in D : h[p] = Derived(h, p)
  <2> SUFFICES ASSUME NEW p \in D PROVE h[p] = Derived(h, p)
    OBVIOUS
  <2>1. Derived(h, p) = Derived(f, p)
    BY <1>8, DerivedAlike DEF D
  <2> QED BY <1>7, <1>8, <2>1
<1>11. h = [p \in D |-> Derived(h, p)]
  BY <1>9, <1>10
<1> QED BY <1>11 DEF D

LEMMA ValueTypes ==
    ASSUME unit \in Modules, ModulesAssumption, TypesAssumption
    PROVE  \E f : /\ \A p \in Derivations : f[p] = Derived(f, p)
                  /\ \A g \in Globals \cup Funcs :
                       GlobalValueType[g] =
                         IF g \in Globals /\ unit.globals[g].kind = "ifunc"
                         THEN unit.globals[g].ty ELSE f[<<g, {}>>]
<1> DEFINE Of == CHOOSE f : f = [p \in Derivations |-> Derived(f, p)]
<1>1. Of = [p \in Derivations |-> Derived(Of, p)]
  BY DerivationsExist
<1>2. GlobalValueType = [g \in Globals \cup Funcs |->
          IF g \in Globals /\ unit.globals[g].kind = "ifunc"
          THEN unit.globals[g].ty ELSE Of[<<g, {}>>]]
  BY DEF GlobalValueType, Derivations, Derived
<1> HIDE DEF Of
<1> QED BY <1>1, <1>2

\* A derivation that finds no cycle does not depend on what it has seen.
LEMMA DerivedAnyway ==
    ASSUME unit \in Modules, ModulesAssumption, TypesAssumption,
           NEW f, \A p \in Derivations : f[p] = Derived(f, p),
           NEW h \in Globals \cup Funcs, NEW T \in SUBSET Globals, NEW S \in SUBSET T,
           f[<<h, T>>] # Cyclic
    PROVE  f[<<h, S>>] = f[<<h, T>>]
<1> DEFINE N == Cardinality(Globals)
           Good == {n \in 0 .. N + 1 : \A g \in Globals \cup Funcs :
                      \A U \in SUBSET Globals : \A V \in SUBSET U :
                        Unseen(<<g, U>>) < n /\ f[<<g, U>>] # Cyclic
                        => f[<<g, V>>] = f[<<g, U>>]}
<1>1. N \in Nat /\ \A p \in Derivations : Unseen(p) \in 0 .. N
  BY UnseenRank
<1>2. \A g \in Globals \cup Funcs : \A U \in SUBSET Globals : <<g, U>> \in Derivations
  BY DEF Derivations
<1> HIDE DEF N
<1>3. 0 \in Good
  BY <1>1, <1>2
<1>4. ASSUME NEW n \in 1 .. N + 1, n - 1 \in Good PROVE n \in Good
  <2>1. ASSUME NEW g \in Globals \cup Funcs, NEW U \in SUBSET Globals, NEW V \in SUBSET U,
               Unseen(<<g, U>>) < n, f[<<g, U>>] # Cyclic
        PROVE  f[<<g, V>>] = f[<<g, U>>]
    <3>1. /\ <<g, U>> \in Derivations /\ <<g, V>> \in Derivations
          /\ f[<<g, U>>] = Derived(f, <<g, U>>) /\ f[<<g, V>>] = Derived(f, <<g, V>>)
      BY <1>2
    <3>2. CASE Refers(g, U)
      <4>1. PICK x : x = unit.globals[g].init[2]
        OBVIOUS
      <4>2. Refers(g, V)
        BY <3>2 DEF Refers
      <4>3. g \in Globals /\ <<x, U \cup {g}>> \in Derivations
            /\ Unseen(<<x, U \cup {g}>>) < Unseen(<<g, U>>)
        BY <3>2, <4>1, Referred
      <4>4. /\ f[<<g, U>>] = Pointee(f[<<x, U \cup {g}>>])
            /\ f[<<g, V>>] = Pointee(f[<<x, V \cup {g}>>])
        BY <3>1, <3>2, <4>1, <4>2 DEF Derived, Refers
      <4>5. f[<<x, U \cup {g}>>] # Cyclic
        BY <2>1, <4>4 DEF Pointee
      <4>6. Unseen(<<x, U \cup {g}>>) < n - 1
        BY <1>1, <2>1, <3>1, <4>3
      <4>7. x \in Globals \cup Funcs /\ U \cup {g} \in SUBSET Globals
            /\ V \cup {g} \in SUBSET (U \cup {g})
        BY <4>3 DEF Derivations
      <4>8. f[<<x, V \cup {g}>>] = f[<<x, U \cup {g}>>]
        BY <1>4, <4>5, <4>6, <4>7
      <4> QED BY <4>4, <4>8
    <3>3. CASE ~Refers(g, U)
      <4>1. ~(g \notin Funcs /\ unit.globals[g].ty = PTR /\ g \in U)
        BY <2>1, <3>1 DEF Derived
      <4> QED BY <3>1, <3>3, <4>1 DEF Derived, Refers
    <3> QED BY <3>2, <3>3
  <2>2. n \in 0 .. N + 1
    BY <1>1
  <2> QED BY <2>1, <2>2
<1> HIDE DEF Good
<1>5. 0 .. N + 1 \subseteq Good
  <2> DEFINE P == N + 1
  <2>1. P \in Nat /\ \A n \in 1 .. P : n - 1 \in Good => n \in Good
    BY <1>1, <1>4
  <2> HIDE DEF P
  <2>2. 0 .. P \subseteq Good
    BY <1>3, <2>1, AllNumbers
  <2> QED BY <2>2 DEF P
<1>6. N + 1 \in Good
  BY <1>1, <1>5
<1>7. Unseen(<<h, T>>) < N + 1
  BY <1>1, <1>2
<1> QED BY <1>6, <1>7 DEF Good

\* What a global that points somewhere is written with.
LEMMA GlobalDerived ==
    ASSUME unit \in Modules, ModulesAssumption, TypesAssumption,
           NEW g \in Globals, NEW init, init = unit.globals[g].init,
           unit.globals[g].kind # "ifunc", unit.globals[g].ty = PTR,
           GlobalValueType[g] # Cyclic
    PROVE  GlobalValueType[g] =
             IF IsGlobal(init) THEN TP(GlobalValueType[init[2]])
             ELSE IF init[1] = "block" THEN TP(I8) ELSE PTR
<1>1. PICK f : /\ \A p \in Derivations : f[p] = Derived(f, p)
               /\ \A x \in Globals \cup Funcs :
                    GlobalValueType[x] =
                      IF x \in Globals /\ unit.globals[x].kind = "ifunc"
                      THEN unit.globals[x].ty ELSE f[<<x, {}>>]
  BY ValueTypes
<1>2. g \notin Funcs /\ GlobalValueType[g] = f[<<g, {}>>]
  BY <1>1 DEF ModulesAssumption, WellFormed, WellFormedSymbols, Globals, Funcs
<1>3. <<g, {}>> \in Derivations /\ f[<<g, {}>>] = Derived(f, <<g, {}>>)
  BY <1>1 DEF Derivations
<1>4. CASE ~IsGlobal(init)
  BY <1>2, <1>3, <1>4 DEF Derived
<1>5. CASE IsGlobal(init)
  <2>1. PICK h : h = init[2]
    OBVIOUS
  <2>2. Refers(g, {})
    BY <1>2, <1>5 DEF Refers
  <2>3. <<h, {g}>> \in Derivations
    <3>1. <<h, {} \cup {g}>> \in Derivations
      BY <2>1, <2>2, Referred
    <3>2. {} \cup {g} = {g}
      OBVIOUS
    <3> QED BY <3>1, <3>2
  <2>4. h \in Globals \cup Funcs /\ {g} \in SUBSET Globals /\ {} \in SUBSET {g}
    BY <2>3 DEF Derivations
  <2>5. f[<<g, {}>>] = Pointee(f[<<h, {g}>>])
    <3>1. Derived(f, <<g, {}>>) = Pointee(f[<<h, {} \cup {g}>>])
      BY <2>1, <2>2 DEF Derived, Refers
    <3>2. {} \cup {g} = {g}
      OBVIOUS
    <3> QED BY <1>3, <3>1, <3>2
  <2>6. f[<<h, {g}>>] # Cyclic
    BY <1>2, <2>5 DEF Pointee
  <2>7. GlobalValueType[g] = TP(f[<<h, {g}>>])
    BY <1>2, <2>5, <2>6 DEF Pointee
  <2>8. f[<<h, {}>>] = f[<<h, {g}>>]
    BY <1>1, <2>4, <2>6, DerivedAnyway
  <2>9. f[<<h, {}>>] = GlobalValueType[h]
    <3>1. CASE h \in Globals /\ unit.globals[h].kind = "ifunc"
      <4>1. h \notin Funcs
        BY <3>1 DEF ModulesAssumption, WellFormed, WellFormedSymbols, Globals, Funcs
      <4>2. <<h, {}>> \in Derivations
        BY <2>4 DEF Derivations
      <4>3. f[<<h, {}>>] = Derived(f, <<h, {}>>)
        BY <1>1, <4>2
      <4>4. Derived(f, <<h, {}>>) = unit.globals[h].ty
        BY <3>1, <4>1 DEF Derived
      <4> QED BY <1>1, <2>4, <3>1, <4>3, <4>4
    <3>2. CASE ~(h \in Globals /\ unit.globals[h].kind = "ifunc")
      BY <1>1, <2>4, <3>2
    <3> QED BY <3>1, <3>2
  <2> QED BY <1>5, <2>1, <2>7, <2>8, <2>9
<1> QED BY <1>4, <1>5

\* The map is built only if no global's type is derived from itself.
Acyclic == step = "done" => \A g \in Globals : GlobalValueType[g] # Cyclic
LEMMA AcyclicAlways == Spec => []Acyclic
<1>1. Init => Acyclic
  BY DEF Init, Acyclic
<1>2. Acyclic /\ [Next]_vars => Acyclic'
  <2> SUFFICES ASSUME Acyclic, [Next]_vars, step' = "done"
               PROVE  \A g \in Globals' : GlobalValueType'[g] # Cyclic
    BY DEF Acyclic
  <2>1. unit' = unit /\ (buildPointerMap \/ step = "done")
    BY DEF Next, vars, demotePointerConstants, bitcastGlobalValues, bitcastBlockAddresses,
           bitcastInstructionOperands, rejectVectorGEP, bitcastFunctionOperands,
           bitcastTypedArguments, buildPointerMap, rejectCyclicGlobals
  <2>2. \A g \in Globals : GlobalValueType[g] # Cyclic
    BY <2>1 DEF Acyclic, buildPointerMap
  <2>3. Globals' = Globals /\ Funcs' = Funcs /\ \A f : TypedSig(f)' = TypedSig(f)
    BY <2>1 DEF Globals, Funcs, TypedSig, Pointees
  <2>4. GlobalValueType' = GlobalValueType
    BY <2>1, <2>3 DEF GlobalValueType
  <2> QED BY <2>2, <2>3, <2>4
<1> QED BY <1>1, <1>2, PTL DEF Spec

\* A global is written with what its initializer is written with.
LEMMA GlobalTyped ==
    ASSUME PlacedInv, TypedInv, Acyclic, ModulesAssumption, TypesAssumption, step = "done",
           NEW g \in Globals, NEW init, init = unit.globals[g].init,
           unit.globals[g].kind # "ifunc", unit.globals[g].ty = PTR, init # NoType
    PROVE  LegacyType(<<"glob", g>>) = TP(LegacyType(init))
<1>1. RewriterInv /\ unit \in Modules /\ Names
  BY DEF PlacedInv, RewriterInv, BodyInv
<1>2. GlobalValueType[g] =
        IF IsGlobal(init) THEN TP(GlobalValueType[init[2]])
        ELSE IF init[1] = "block" THEN TP(I8) ELSE PTR
  BY <1>1, GlobalDerived DEF Acyclic
<1>3. \A h \in Globals : LegacyType(<<"glob", h>>) = TP(GlobalValueType[h])
  <2> SUFFICES ASSUME NEW h \in Globals
               PROVE  LegacyType(<<"glob", h>>) = TP(GlobalValueType[h])
    OBVIOUS
  <2>1. PICK p : p = <<<<"glob", h>>, TP(GlobalValueType[h])>>
    OBVIOUS
  <2>2. p \in PointerFacts
    BY <2>1 DEF PointerFacts
  <2>3. LegacyType(p[1]) = p[2]
    BY <1>1, <2>2, LegacyMapped
  <2> QED BY <2>1, <2>3
<1>4. init \in Values(unit) /\ init[1] # "arg" /\ SourceType(unit, init) = PTR
  BY <1>1 DEF TypesAssumption, TypedSource, Globals
<1>5. CASE IsGlobal(init)
  <2>1. PICK h \in Globals \cup Funcs : init = <<"glob", h>>
    BY <1>4, <1>5 DEF IsGlobal, Values, Globals, Funcs
  <2>2. LegacyType(<<"glob", g>>) = TP(TP(GlobalValueType[h]))
    BY <1>2, <1>3, <1>5, <2>1
  <2>3. CASE h \in Globals
    BY <1>3, <2>1, <2>2, <2>3
  <2>4. CASE h \in Funcs
    <3>1. h \notin Globals
      BY <1>1, <2>4 DEF ModulesAssumption, WellFormed, WellFormedSymbols, Globals, Funcs
    <3>2. PICK p : p = <<<<"glob", h>>, TP(TypedSig(unit.funcs[h]))>>
      OBVIOUS
    <3>3. p \in FromFunction(h)
      BY <3>2 DEF FromFunction
    <3>4. p \in PointerFacts
      BY <2>4, <3>3 DEF PointerFacts
    <3>5. LegacyType(p[1]) = p[2]
      BY <1>1, <3>4, LegacyMapped
    <3>6. GlobalValueType[h] = TypedSig(unit.funcs[h])
      <4>1. PICK f : /\ \A q \in Derivations : f[q] = Derived(f, q)
                     /\ \A x \in Globals \cup Funcs :
                          GlobalValueType[x] =
                            IF x \in Globals /\ unit.globals[x].kind = "ifunc"
                            THEN unit.globals[x].ty ELSE f[<<x, {}>>]
        BY <1>1, TypesAssumption, ValueTypes
      <4>2. <<h, {}>> \in Derivations
        BY <2>4 DEF Derivations
      <4>3. f[<<h, {}>>] = Derived(f, <<h, {}>>)
        BY <4>1, <4>2
      <4>4. Derived(f, <<h, {}>>) = TypedSig(unit.funcs[h])
        BY <2>4 DEF Derived
      <4> QED BY <2>4, <3>1, <4>1, <4>3, <4>4
    <3> QED BY <2>1, <2>2, <3>2, <3>5, <3>6
  <2> QED BY <2>3, <2>4
<1>6. CASE init[1] = "block"
  <2>1. LegacyType(<<"glob", g>>) = TP(TP(I8))
    BY <1>2, <1>3, <1>6 DEF IsGlobal
  <2>2. PICK p : p = <<init, TP(I8)>>
    OBVIOUS
  <2>3. init \in BlockAddresses
    <3>1. unit.globals[g].kind = "var"
      BY <1>1, <1>6 DEF TypesAssumption, TypedSource, Globals
    <3>2. init \in Initializers
      BY <1>1, <3>1 DEF Initializers
    <3>3. init \in InitializerBlocks
      BY <1>6, <3>2 DEF InitializerBlocks
    <3> QED BY <3>3 DEF BlockAddresses
  <2>4. p \in PointerFacts
    BY <2>2, <2>3 DEF PointerFacts
  <2>5. LegacyType(p[1]) = p[2]
    BY <1>1, <2>4, LegacyMapped
  <2> QED BY <2>1, <2>2, <2>5
<1>7. CASE ~IsGlobal(init) /\ init[1] # "block"
  <2>1. LegacyType(<<"glob", g>>) = TP(PTR)
    BY <1>2, <1>3, <1>7
  <2>2. init[1] \in {"const", "null", "int"}
    BY <1>4, <1>7 DEF Values, IsGlobal
  <2>3. init \notin Ids
    BY <1>1, <2>2, NamesHeads
  <2>4. Mapped(init) = {}
    <3> SUFFICES ASSUME NEW p \in PointerFacts, p[1] = init PROVE FALSE
      BY <1>1, LegacyEntry
    <3>1. \/ OfGlobal(p) \/ OfFunction(p) \/ OfBlock(p) \/ OfOperand(p)
          \/ OfAsm(p) \/ OfResult(p) \/ OfArgument(p) \/ OfParameter(p)
      BY <1>1, Entries
    <3> QED BY <2>2, <3>1, Keys
  <2>5. LegacyType(init) = PTR
    BY <1>4, <2>3, <2>4 DEF LegacyType
  <2> QED BY <2>1, <2>5
<1> QED BY <1>5, <1>6, <1>7

\* In any function every global fits its initializer and every operand its
\* instruction, but for the operands of invokes.
SlotsTyped ==
    Done => \A i \in Instrs : \A k \in DOMAIN i.ops :
              i.op # "invoke" /\ Wanted(i, k) # {} => LegacyType(i.ops[k]) \in Wanted(i, k)
THEOREM SlotsTypedCorrect == Spec => [](GlobalsTyped /\ SlotsTyped)
<1>1. ASSUME PlacedInv, TypedInv, Acyclic PROVE GlobalsTyped /\ SlotsTyped
  <2>1. SlotsTyped
    BY <1>1, SlotTyped, ModulesAssumption DEF SlotsTyped, Done
  <2>2. GlobalsTyped
    <3> SUFFICES ASSUME step = "done", NEW g \in Globals,
                        unit.globals[g].kind # "ifunc", unit.globals[g].init # NoType,
                        unit.globals[g].ty = PTR
                 PROVE  LegacyType(<<"glob", g>>) = TP(LegacyType(unit.globals[g].init))
      BY DEF GlobalsTyped, Done
    <3> QED BY <1>1, GlobalTyped, ModulesAssumption, TypesAssumption
  <2> QED BY <2>1, <2>2
<1> QED BY <1>1, TypedAlways, AcyclicAlways, PTL

\* A legacy verifier accepts the types of what the rewriter hands over: in a
\* function without invokes every operand has the type that is wanted of it,
\* and every global that of its initializer.
THEOREM WellTypedCorrect == Spec => [](~Invoking => WellTyped)
<1>1. ASSUME TypedInv, GlobalsTyped, SlotsTyped, ~Invoking PROVE WellTyped
  <2>1. \A i \in Instrs : i.op # "invoke"
    BY <1>1 DEF TypedInv, BaseTyped
  <2>2. ASSUME step = "done", NEW s \in Slots, Wanted(s[1], s[2]) # {}
        PROVE  LegacyType(s[1].ops[s[2]]) \in Wanted(s[1], s[2])
    <3>1. s[1] \in Instrs /\ s[2] \in DOMAIN s[1].ops
      BY DEF Slots
    <3> QED BY <1>1, <2>1, <2>2, <3>1 DEF SlotsTyped, Done
  <2> QED BY <1>1, <2>2 DEF WellTyped, Done
<1> QED BY <1>1, TypedAlways, SlotsTypedCorrect, PTL

-----------------------------------------------------------------------------
(* What the function computes *)

\* What a value of the rewritten body stands for, by a table of what is
\* defined there.
Val(f, v) == IF IsLocal(v) THEN f[v] ELSE v

\* The table says what Meaning makes of each instruction of T; what a cast
\* casts is before it in the order r.
Sees(T, f, r) ==
    \A i \in T :
        /\ r[i.id] \in Nat
        /\ i.id[1] \in {"inst", "dem", "pre", "post"}
        /\ i.id[1] = "dem" => f[i.id] = <<"const", i.id[4]>>
        /\ i.id[1] = "inst" => f[i.id] = i.id
        /\ i.id[1] \in {"pre", "post"} =>
             /\ 1 \in DOMAIN i.ops /\ f[i.id] = Val(f, i.ops[1])
             /\ IsLocal(i.ops[1]) => r[i.ops[1]] < r[i.id]
Closed(T) ==
    /\ \A i, j \in T : i.id = j.id => i = j
    /\ \A i \in T : \A k \in DOMAIN i.ops :
         IsLocal(i.ops[k]) => \E j \in T : j.id = i.ops[k]
PlainAs(f, i) == [i EXCEPT !.ops = [k \in DOMAIN i.ops |-> Val(f, i.ops[k])]]
KeptAs(f, i) == IF IsInserted(i.id) THEN <<>> ELSE <<PlainAs(f, i)>>

\* A table that says so is the one that Meaning computes.
LEMMA MeaningIs ==
    ASSUME NEW B, NEW T, T = InstrsIn(B), NEW f, NEW r, Sees(T, f, r), Closed(T)
    PROVE  Meaning(B) = [b \in DOMAIN B |->
                           FlattenSeq([n \in DOMAIN B[b] |-> KeptAs(f, B[b][n])])]
<1> DEFINE ids == {i.id : i \in T}
           op1(v) == (CHOOSE i \in T : i.id = v).ops[1]
           Step(g, v) ==
             IF v[1] = "dem" THEN <<"const", v[4]>>
             ELSE IF ~IsInserted(v) THEN v
             ELSE IF op1(v) \in ids THEN g[op1(v)] ELSE op1(v)
           Of == CHOOSE g : g = [v \in ids |-> Step(g, v)]
           Seen(v) == IF v \in ids THEN Of[v] ELSE v
           Plain(i) == [i EXCEPT !.ops = [k \in DOMAIN i.ops |-> Seen(i.ops[k])]]
           Kept(i) == IF IsInserted(i.id) THEN <<>> ELSE <<Plain(i)>>
<1>1. Meaning(B) = [b \in DOMAIN B |-> FlattenSeq([n \in DOMAIN B[b] |-> Kept(B[b][n])])]
  BY DEF Meaning, InstrsIn
<1>2. ASSUME NEW i \in T PROVE op1(i.id) = i.ops[1]
  <2>1. \A j \in T : j.id = i.id => j = i
    BY DEF Closed
  <2>2. (CHOOSE j \in T : j.id = i.id) = i
    BY <2>1
  <2> QED BY <2>2
<1>3. ASSUME NEW i \in T PROVE IsLocal(i.id) /\ i.id \in ids
  BY DEF Sees, IsLocal, IsInserted
<1>4. \A v \in ids : IsLocal(v)
  BY <1>3
<1>5. ASSUME NEW i \in T, NEW k \in DOMAIN i.ops
      PROVE  i.ops[k] \in ids <=> IsLocal(i.ops[k])
  BY <1>4 DEF Closed
<1> HIDE DEF op1
<1>6. ASSUME NEW i \in T PROVE f[i.id] = Step(f, i.id)
  <2>1. CASE i.id[1] = "dem"
    BY <2>1 DEF Sees
  <2>2. CASE i.id[1] = "inst"
    BY <2>2 DEF Sees, IsInserted
  <2>3. CASE i.id[1] \in {"pre", "post"}
    <3>1. 1 \in DOMAIN i.ops /\ f[i.id] = Val(f, i.ops[1])
      BY <2>3 DEF Sees
    <3>2. i.ops[1] \in ids <=> IsLocal(i.ops[1])
      BY <1>5, <3>1
    <3>3. Step(f, i.id) = IF i.ops[1] \in ids THEN f[i.ops[1]] ELSE i.ops[1]
      <4> HIDE DEF ids
      <4> QED BY <1>2, <2>3 DEF IsInserted
    <3> QED BY <3>1, <3>2, <3>3 DEF Val
  <2> QED BY <2>1, <2>2, <2>3 DEF Sees
<1>7. \A v \in ids : f[v] = Step(f, v)
  <2> HIDE DEF Step
  <2> QED BY <1>6
<1> DEFINE F == [v \in ids |-> f[v]]
<1>8. F = [v \in ids |-> Step(F, v)]
  <2>1. \A v \in ids : F[v] = f[v]
    OBVIOUS
  <2>2. \A v \in ids : Step(F, v) = Step(f, v)
    BY <2>1
  <2>3. F = [v \in ids |-> F[v]]
    OBVIOUS
  <2> HIDE DEF F, Step, ids
  <2> QED BY <1>7, <2>1, <2>2, <2>3
<1>9. Of = [v \in ids |-> Step(Of, v)]
  <2> HIDE DEF F, Step, ids
  <2> QED BY <1>8
<1> HIDE DEF Of
<1>10. \A v \in ids : Of[v] = Step(Of, v)
  <2> HIDE DEF Step, ids
  <2> QED BY <1>9
<1>11. ASSUME NEW j \in T PROVE Of[j.id] = f[j.id]
  <2> DEFINE N == r[j.id]
             Good == {n \in 0 .. N + 1 : \A i \in T : r[i.id] < n => Of[i.id] = f[i.id]}
  <2>1. N \in Nat /\ \A i \in T : r[i.id] \in Nat
    BY DEF Sees
  <2> HIDE DEF N
  <2>2. 0 \in Good
    BY <2>1
  <2>3. ASSUME NEW n \in 1 .. N + 1, n - 1 \in Good PROVE n \in Good
    <3>1. ASSUME NEW i \in T, r[i.id] < n PROVE Of[i.id] = f[i.id]
      <4>1. Of[i.id] = Step(Of, i.id) /\ f[i.id] = Step(f, i.id)
        <5> HIDE DEF Step
        <5> QED BY <1>6, <1>10
      <4>2. CASE i.id[1] \in {"dem", "inst"}
        <5>1. ~(i.id[1] \in {"pre", "post"})
          BY <4>2
        <5> QED BY <4>1, <4>2, <5>1 DEF IsInserted
      <4>3. CASE i.id[1] \in {"pre", "post"}
        <5>1. 1 \in DOMAIN i.ops /\ (IsLocal(i.ops[1]) => r[i.ops[1]] < r[i.id])
          BY <4>3 DEF Sees
        <5>2. op1(i.id) = i.ops[1]
          BY <1>2
        <5>3. i.ops[1] \in ids => Of[i.ops[1]] = f[i.ops[1]]
          <6>1. SUFFICES ASSUME i.ops[1] \in ids PROVE Of[i.ops[1]] = f[i.ops[1]]
            OBVIOUS
          <6>2. PICK h \in T : h.id = i.ops[1]
            BY <6>1
          <6>3. r[h.id] < r[i.id]
            BY <1>5, <5>1, <6>1, <6>2
          <6>4. r[h.id] < n - 1
            BY <2>1, <3>1, <6>3
          <6> QED BY <2>3, <6>2, <6>4
        <5> HIDE DEF ids
        <5> QED BY <4>1, <4>3, <5>2, <5>3 DEF IsInserted
      <4> QED BY <4>2, <4>3 DEF Sees
    <3>2. n \in 0 .. N + 1
      BY <2>1
    <3> QED BY <3>1, <3>2
  <2> HIDE DEF Good
  <2> DEFINE P == N + 1
  <2>4. P \in Nat /\ \A n \in 1 .. P : n - 1 \in Good => n \in Good
    BY <2>1, <2>3
  <2>5. P \in 0 .. P
    BY <2>4
  <2>6. r[j.id] < P
    BY <2>1 DEF N
  <2> HIDE DEF P
  <2>7. P \in Good
    BY <2>2, <2>4, <2>5, AllNumbers
  <2> QED BY <2>6, <2>7 DEF Good
<1>12. ASSUME NEW i \in T PROVE Kept(i) = KeptAs(f, i)
  <2>1. \A k \in DOMAIN i.ops : Seen(i.ops[k]) = Val(f, i.ops[k])
    <3> SUFFICES ASSUME NEW k \in DOMAIN i.ops PROVE Seen(i.ops[k]) = Val(f, i.ops[k])
      OBVIOUS
    <3>1. CASE IsLocal(i.ops[k])
      <4>1. PICK j \in T : j.id = i.ops[k]
        BY <1>5, <3>1
      <4>2. i.ops[k] \in ids /\ Of[i.ops[k]] = f[i.ops[k]]
        BY <1>11, <4>1
      <4> QED BY <3>1, <4>2 DEF Val
    <3>2. CASE ~IsLocal(i.ops[k])
      BY <1>5, <3>2 DEF Val
    <3> QED BY <3>1, <3>2
  <2>2. [k \in DOMAIN i.ops |-> Seen(i.ops[k])] = [k \in DOMAIN i.ops |-> Val(f, i.ops[k])]
    <3> HIDE DEF Seen
    <3> QED BY <2>1
  <2>3. Plain(i) = PlainAs(f, i)
    BY <2>2, Zenon DEF PlainAs
  <2> HIDE DEF Plain
  <2> QED BY <2>3 DEF KeptAs
<1> HIDE DEF Kept
<1>13. ASSUME NEW b \in DOMAIN B
       PROVE  [n \in DOMAIN B[b] |-> Kept(B[b][n])] =
              [n \in DOMAIN B[b] |-> KeptAs(f, B[b][n])]
  <2>1. \A n \in DOMAIN B[b] : B[b][n] \in T
    BY DEF InstrsIn, Range
  <2> QED BY <1>12, <2>1
<1> DEFINE s1(b) == [n \in DOMAIN B[b] |-> Kept(B[b][n])]
           s2(b) == [n \in DOMAIN B[b] |-> KeptAs(f, B[b][n])]
<1>14. \A b \in DOMAIN B : s1(b) = s2(b)
  BY <1>13
<1>15. Meaning(B) = [b \in DOMAIN B |-> FlattenSeq(s1(b))]
  BY <1>1
<1> HIDE DEF s1, s2
<1>16. Meaning(B) = [b \in DOMAIN B |-> FlattenSeq(s2(b))]
  BY <1>14, <1>15
<1> QED BY <1>16 DEF s2

\* Instruction j is what instruction i of the parsed body is now.
Fields == {"id", "op", "ops", "ty", "inc"}
Same(f, i, j) ==
    /\ DOMAIN i = Fields /\ DOMAIN j = Fields
    /\ j.id = i.id /\ j.op = i.op /\ j.ty = i.ty /\ j.inc = i.inc
    /\ DOMAIN j.ops = DOMAIN i.ops
    /\ \A k \in DOMAIN i.ops : Val(f, j.ops[k]) = i.ops[k]

\* What is not inserted in a block are the parsed instructions, in their order.
Keeps(f, old, new, pos) ==
    /\ pos \in [DOMAIN old -> DOMAIN new]
    /\ \A m, n \in DOMAIN old : m < n => pos[m] < pos[n]
    /\ \A n \in DOMAIN old : ~IsInserted(old[n].id) /\ Same(f, old[n], new[pos[n]])
    /\ \A q \in DOMAIN new : IsInserted(new[q].id) \/ \E n \in DOMAIN old : pos[n] = q
Plain(i) == [i EXCEPT !.ops = [k \in DOMAIN i.ops |-> i.ops[k]]]
AsParsed(old) == [b \in DOMAIN old |-> [n \in DOMAIN old[b] |-> Plain(old[b][n])]]

LEMMA PlainSame ==
    ASSUME NEW f, NEW i, NEW j, Same(f, i, j)
    PROVE  PlainAs(f, j) = Plain(i)
<1> DEFINE o == [k \in DOMAIN i.ops |-> i.ops[k]]
           p == [k \in DOMAIN j.ops |-> Val(f, j.ops[k])]
<1>1. o = p
  BY DEF Same
<1>2. PlainAs(f, j) = [j EXCEPT !.ops = p] /\ Plain(i) = [i EXCEPT !.ops = o]
  BY DEF PlainAs, Plain
<1> HIDE DEF o, p
<1>3. /\ DOMAIN i = Fields /\ DOMAIN j = Fields
      /\ j.id = i.id /\ j.op = i.op /\ j.ty = i.ty /\ j.inc = i.inc
  BY DEF Same
<1>4. [j EXCEPT !.ops = p] = [x \in Fields |-> IF x = "ops" THEN p ELSE j[x]]
  BY <1>3
<1>5. [i EXCEPT !.ops = o] = [x \in Fields |-> IF x = "ops" THEN o ELSE i[x]]
  BY <1>3
<1>6. \A x \in Fields : (IF x = "ops" THEN p ELSE j[x]) = (IF x = "ops" THEN o ELSE i[x])
  BY <1>1, <1>3 DEF Fields
<1> QED BY <1>2, <1>4, <1>5, <1>6

LEMMA KeptBlock ==
    ASSUME NEW f, NEW A, NEW old \in Seq(A), NEW E, NEW new \in Seq(E), NEW pos,
           Keeps(f, old, new, pos)
    PROVE  FlattenSeq([n \in DOMAIN new |-> KeptAs(f, new[n])]) =
           [n \in DOMAIN old |-> Plain(old[n])]
<1> DEFINE ss == [n \in DOMAIN new |-> KeptAs(f, new[n])]
           xs == [n \in DOMAIN old |-> Plain(old[n])]
           X == {PlainAs(f, new[n]) : n \in DOMAIN new} \cup {Plain(old[n]) : n \in DOMAIN old}
           L == Len(new)
           N == Len(old)
<1>1. L \in Nat /\ N \in Nat /\ DOMAIN new = 1 .. L /\ DOMAIN old = 1 .. N
  BY LenProperties
<1>2. xs \in Seq(X) /\ Len(xs) = N /\ \A n \in 1 .. N : xs[n] = Plain(old[n])
  <2>1. /\ DOMAIN xs = 1 .. N /\ xs = [n \in 1 .. N |-> xs[n]]
        /\ \A n \in 1 .. N : xs[n] \in X /\ xs[n] = Plain(old[n])
    BY <1>1
  <2> HIDE DEF xs, X, N
  <2> QED BY <1>1, <2>1, IsSequence
<1>3. ASSUME NEW n \in 1 .. L PROVE ss[n] \in Seq(X) /\ ss[n] = KeptAs(f, new[n])
  <2>1. ss[n] = KeptAs(f, new[n]) /\ PlainAs(f, new[n]) \in X
    BY <1>1
  <2>2. <<>> \in Seq(X) /\ <<PlainAs(f, new[n])>> \in Seq(X)
    <3> HIDE DEF X
    <3> QED BY <2>1, EmptySeq
  <2> QED BY <2>1, <2>2 DEF KeptAs
<1>4. ss \in Seq(Seq(X)) /\ Len(ss) = L
  <2>1. DOMAIN ss = 1 .. L /\ ss = [n \in 1 .. L |-> ss[n]]
    BY <1>1
  <2> HIDE DEF ss, X, L
  <2> QED BY <1>1, <1>3, <2>1, IsSequence
<1>5. /\ pos \in [1 .. N -> 1 .. L]
      /\ \A m, n \in 1 .. N : m < n => pos[m] < pos[n]
  BY <1>1 DEF Keeps
<1>6. ASSUME NEW n \in 1 .. N PROVE ss[pos[n]] = <<xs[n]>>
  <2>1. PICK j : j = new[pos[n]]
    OBVIOUS
  <2>2. ~IsInserted(old[n].id) /\ Same(f, old[n], j)
    BY <1>1, <2>1 DEF Keeps
  <2>3. ~IsInserted(j.id)
    BY <2>2 DEF Same
  <2>4. PlainAs(f, j) = Plain(old[n])
    BY <2>2, PlainSame
  <2>5. ss[pos[n]] = KeptAs(f, j)
    BY <1>3, <1>5, <2>1
  <2> HIDE DEF ss, xs
  <2> QED BY <1>2, <2>3, <2>4, <2>5 DEF KeptAs
<1>7. ASSUME NEW m \in 1 .. L, \A n \in 1 .. N : pos[n] # m PROVE ss[m] = <<>>
  <2>1. IsInserted(new[m].id)
    BY <1>1, <1>7 DEF Keeps
  <2> QED BY <1>3, <2>1 DEF KeptAs
<1> HIDE DEF ss, xs, X, L, N
<1>8. FlattenSeq(ss) = xs
  BY <1>2, <1>4, <1>5, <1>6, <1>7, SinglesFlatten
<1> QED BY <1>8 DEF ss, xs

\* So the parsed instructions, seen through the casts, are all there is.
LEMMA MeaningFound ==
    ASSUME NEW B, NEW T, T = InstrsIn(B), NEW f, NEW r, Sees(T, f, r), Closed(T),
           \A b \in DOMAIN B : B[b] \in Seq(Range(B[b])),
           NEW old, DOMAIN old = DOMAIN B,
           \A b \in DOMAIN B : old[b] \in Seq(Range(old[b])),
           \A b \in DOMAIN B : \E pos : Keeps(f, old[b], B[b], pos)
    PROVE  Meaning(B) = AsParsed(old)
<1> DEFINE s(b) == FlattenSeq([n \in DOMAIN B[b] |-> KeptAs(f, B[b][n])])
           t(b) == [n \in DOMAIN old[b] |-> Plain(old[b][n])]
<1>1. Meaning(B) = [b \in DOMAIN B |-> s(b)]
  BY MeaningIs
<1>2. ASSUME NEW b \in DOMAIN B PROVE s(b) = t(b)
  <2>1. PICK pos : Keeps(f, old[b], B[b], pos)
    OBVIOUS
  <2>2. PICK o, w : o = old[b] /\ w = B[b]
    OBVIOUS
  <2>3. o \in Seq(Range(o)) /\ w \in Seq(Range(w)) /\ Keeps(f, o, w, pos)
    BY <2>1, <2>2
  <2>4. FlattenSeq([n \in DOMAIN w |-> KeptAs(f, w[n])]) = [n \in DOMAIN o |-> Plain(o[n])]
    BY <2>3, KeptBlock
  <2> QED BY <2>2, <2>4
<1> HIDE DEF s, t
<1>3. Meaning(B) = [b \in DOMAIN B |-> t(b)]
  BY <1>1, <1>2
<1> QED BY <1>3 DEF t, AsParsed

\* The invariant: there is such a table for the body.
MeansInv ==
    \E f, r : /\ Sees(Instrs, f, r)
              /\ \A b \in DOMAIN body : \E pos : Keeps(f, unit.body[b], body[b], pos)

\* What the parsed body defines stands for itself.
LEMMA ParsedSees ==
    ASSUME unit \in Modules, ModulesAssumption, PlacementAssumption
    PROVE  \E f, r : /\ Sees(InstrsOf(unit), f, r) /\ Closed(InstrsOf(unit))
                     /\ \A b \in DOMAIN unit.body :
                          /\ unit.body[b] \in Seq(Range(unit.body[b]))
                          /\ \E pos : Keeps(f, unit.body[b], unit.body[b], pos)
<1> DEFINE U == InstrsOf(unit)
           D == {i.id : i \in U}
           f == [v \in D |-> v]
           r == [v \in D |-> 0]
<1>1. /\ \A b \in DOMAIN unit.body : unit.body[b] \in Seq(Range(unit.body[b]))
      /\ \A i, j \in U : i.id = j.id => i = j
      /\ \A i \in U : DOMAIN i = Fields /\ i.id[1] = "inst"
  BY DEF ModulesAssumption, WellFormed, WellFormedBody, Fields
<1>2. ASSUME NEW b \in DOMAIN unit.body, NEW n \in DOMAIN unit.body[b] PROVE unit.body[b][n] \in U
  BY DEF InstrsOf, Range
<1>3. ASSUME NEW i \in U, NEW k \in DOMAIN i.ops, IsLocal(i.ops[k])
      PROVE  \E j \in U : j.id = i.ops[k]
  <2>1. PICK b \in DOMAIN unit.body : i \in Range(unit.body[b])
    BY DEF InstrsOf
  <2>2. PICK n \in DOMAIN unit.body[b] : unit.body[b][n] = i
    BY <2>1 DEF Range
  <2>3. Dominance(unit, unit.body)
    BY DEF PlacementAssumption, Placed
  <2>4. \E c, m : Available(unit, unit.body, i.ops[k], c, m)
    BY <1>3, <2>2, <2>3 DEF Dominance
  <2>5. PICK d \in DOMAIN unit.body : \E p \in DOMAIN unit.body[d] :
           unit.body[d][p].id = i.ops[k]
    BY <2>4 DEF Available
  <2> QED BY <1>2, <2>5
<1>4. Closed(U)
  BY <1>1, <1>3 DEF Closed
<1>5. \A i \in U : i.id \in D /\ f[i.id] = i.id /\ r[i.id] = 0
  OBVIOUS
<1> HIDE DEF D, f, r
<1>6. Sees(U, f, r)
  <2>1. \A i \in U : i.id[1] \notin {"pre", "post", "dem"} /\ r[i.id] \in Nat
    BY <1>1, <1>5
  <2> QED BY <1>1, <1>5, <2>1 DEF Sees
<1>7. ASSUME NEW i \in U PROVE ~IsInserted(i.id) /\ Same(f, i, i)
  <2>1. \A k \in DOMAIN i.ops : Val(f, i.ops[k]) = i.ops[k]
    BY <1>3, <1>5 DEF Val
  <2>2. ~IsInserted(i.id)
    BY <1>1 DEF IsInserted
  <2> QED BY <1>1, <2>1, <2>2 DEF Same
<1>8. ASSUME NEW b \in DOMAIN unit.body
      PROVE  \E pos : Keeps(f, unit.body[b], unit.body[b], pos)
  <2> DEFINE w == unit.body[b]
             pos == [n \in DOMAIN w |-> n]
  <2>1. \A n \in DOMAIN w : w[n] \in U
    BY <1>2
  <2> HIDE DEF w
  <2>2. pos \in [DOMAIN w -> DOMAIN w] /\ \A n \in DOMAIN w : pos[n] = n
    OBVIOUS
  <2> HIDE DEF pos
  <2>3. Keeps(f, w, w, pos)
    BY <1>7, <2>1, <2>2 DEF Keeps
  <2> QED BY <2>3 DEF w
<1> HIDE DEF U
<1> QED BY <1>1, <1>4, <1>6, <1>8 DEF U

\* A body for which there is one means what was parsed.
LEMMA BodyClosed ==
    ASSUME Names, Placement
    PROVE  Closed(Instrs)
BY LocalsDefined DEF Names, Ids, Closed

LEMMA MeansKept ==
    ASSUME MeansInv, PlacedInv, ModulesAssumption, PlacementAssumption
    PROVE  MeaningKept
<1>1. BodyInv /\ Names /\ Placement
  BY DEF PlacedInv, RewriterInv
<1>2. Closed(Instrs)
  BY <1>1, BodyClosed
<1>3. /\ unit \in Modules /\ DOMAIN body = DOMAIN unit.body
      /\ \A b \in DOMAIN body : body[b] \in Seq(Range(body[b]))
  BY <1>1 DEF BodyInv
<1>4. \E f, r : /\ Sees(InstrsOf(unit), f, r) /\ Closed(InstrsOf(unit))
                /\ \A b \in DOMAIN unit.body :
                     /\ unit.body[b] \in Seq(Range(unit.body[b]))
                     /\ \E pos : Keeps(f, unit.body[b], unit.body[b], pos)
  BY <1>3, ParsedSees
<1>5. Meaning(unit.body) = AsParsed(unit.body)
  <2>1. PICK B, T : B = unit.body /\ T = InstrsOf(unit)
    OBVIOUS
  <2>2. T = InstrsIn(B)
    BY <2>1 DEF InstrsIn, InstrsOf
  <2>3. PICK f, r : /\ Sees(T, f, r) /\ Closed(T)
                    /\ \A b \in DOMAIN B : /\ B[b] \in Seq(Range(B[b]))
                                           /\ \E pos : Keeps(f, B[b], B[b], pos)
    BY <1>4, <2>1
  <2>4. /\ \A b \in DOMAIN B : B[b] \in Seq(Range(B[b]))
        /\ \A b \in DOMAIN B : \E pos : Keeps(f, B[b], B[b], pos)
    BY <2>3
  <2>5. Meaning(B) = AsParsed(B)
    BY <2>2, <2>3, <2>4, MeaningFound
  <2> QED BY <1>3, <2>1, <2>5
<1>6. Meaning(body) = AsParsed(unit.body)
  <2>1. PICK B, T, old : B = body /\ T = Instrs /\ old = unit.body
    OBVIOUS
  <2>2. T = InstrsIn(B) /\ DOMAIN old = DOMAIN B /\ Closed(T)
    BY <1>2, <1>3, <2>1 DEF InstrsIn, Instrs
  <2>3. PICK f, r : /\ Sees(T, f, r)
                    /\ \A b \in DOMAIN B : \E pos : Keeps(f, old[b], B[b], pos)
    BY <2>1 DEF MeansInv
  <2>4. /\ \A b \in DOMAIN B : old[b] \in Seq(Range(old[b]))
        /\ \A b \in DOMAIN B : B[b] \in Seq(Range(B[b]))
    BY <1>3, <1>4, <2>1
  <2>5. Meaning(B) = AsParsed(old)
    BY <2>2, <2>3, <2>4, MeaningFound
  <2> QED BY <2>1, <2>5
<1> QED BY <1>5, <1>6 DEF MeaningKept

\* The parsed instructions stay, if the new operands stand for what the old did.
LEMMA SameNew ==
    ASSUME NEW code, NEW after, NEW i, NEW j, Instruction(j), NEW m, m = New(code, after, j),
           NEW f, Same(f, i, j), NEW g,
           \A k \in DOMAIN j.ops : Val(g, m.ops[k]) = Val(f, j.ops[k])
    PROVE  Same(g, i, m)
<1> DEFINE o == [k \in DOMAIN j.ops |->
                   IF <<j, k>> \in DOMAIN code THEN Last(code[<<j, k>>]).id
                   ELSE Replaced(after, j.ops[k])]
<1>1. m = [j EXCEPT !.ops = o]
  BY DEF New
<1> HIDE DEF o
<1>2. DOMAIN m = Fields /\ m.ty = j.ty
  BY <1>1 DEF Instruction, Fields
<1>3. m.id = j.id /\ m.op = j.op /\ m.inc = j.inc /\ DOMAIN m.ops = DOMAIN j.ops
  BY NewFields
<1> QED BY <1>2, <1>3 DEF Same

AllInserted(code) ==
    \A s \in DOMAIN code : \A r \in DOMAIN code[s] :
        Instruction(code[s][r]) /\ IsInserted(code[s][r].id)
Stays(code, after, f, g) ==
    \A i \in Instrs : \A k \in DOMAIN i.ops :
        Val(g, New(code, after, i).ops[k]) = Val(f, i.ops[k])

LEMMA KeepsCarried ==
    ASSUME NEW C, NEW code, \A s \in DOMAIN code : code[s] \in Seq(C), NEW after,
           BodyInv, ModulesAssumption, PhisInv, NEW W, W = Rewritten(code, after),
           AllInserted(code), NEW f, NEW g, Stays(code, after, f, g), NEW old, NEW b \in DOMAIN body, NEW pos0, Keeps(f, old, body[b], pos0)
    PROVE  \E pos : Keeps(g, old, W[b], pos)
<1>1. \E off, l : Layout(code, after, W, off, l)
  BY LayoutExists
<1>2. PICK off : \E l : Layout(code, after, W, off, l)
  BY <1>1
<1>3. PICK l : Layout(code, after, W, off, l)
  BY <1>2
<1>4. PICK w, y, o, h : w = W[b] /\ y = body[b] /\ o = off[b] /\ h = l[b]
  OBVIOUS
<1>5. /\ o \in [DOMAIN y -> Nat] /\ h \in [DOMAIN y -> Nat]
      /\ \A n \in DOMAIN y : Standing(code, after, w, y[n], o[n], h[n])
      /\ \A m, n \in DOMAIN y : m < n => o[m] + (h[m] + Width(after, y[m])) <= o[n]
  BY <1>3, <1>4 DEF Layout, BlockStanding
<1>6. ASSUME NEW n \in DOMAIN y
      PROVE  /\ o[n] + (h[n] + 1) \in DOMAIN w /\ w[o[n] + (h[n] + 1)] = New(code, after, y[n])
             /\ y[n] \in Instrs /\ Instruction(y[n])
  <2>1. h[n] + 1 \in 1 .. h[n] + Width(after, y[n])
    BY <1>5 DEF Width
  <2>2. y[n] \in Instrs
    BY <1>4 DEF Instrs, Range
  <2> QED BY <1>5, <2>1, <2>2 DEF Standing, BodyInv
<1>7. Keeps(f, old, y, pos0)
  BY <1>4
<1>8. pos0 \in [DOMAIN old -> DOMAIN y]
  BY <1>7 DEF Keeps
<1> DEFINE pos == [n \in DOMAIN old |-> o[pos0[n]] + (h[pos0[n]] + 1)]
<1>9. /\ pos \in [DOMAIN old -> DOMAIN w]
      /\ \A n \in DOMAIN old : /\ pos[n] = o[pos0[n]] + (h[pos0[n]] + 1)
                               /\ pos0[n] \in DOMAIN y
  BY <1>6, <1>8
<1> HIDE DEF pos
<1>10. ASSUME NEW m \in DOMAIN old, NEW n \in DOMAIN old, m < n PROVE pos[m] < pos[n]
  <2>1. PICK p, q : p = pos0[m] /\ q = pos0[n]
    OBVIOUS
  <2>2. p < q /\ p \in DOMAIN y /\ q \in DOMAIN y
    BY <1>7, <1>8, <1>10, <2>1 DEF Keeps
  <2>3. /\ o[p] + (h[p] + Width(after, y[p])) <= o[q]
        /\ o[p] \in Nat /\ h[p] \in Nat /\ o[q] \in Nat /\ h[q] \in Nat
    BY <1>5, <2>2
  <2>4. Width(after, y[p]) \in Nat /\ Width(after, y[p]) >= 1
    BY DEF Width
  <2>5. o[p] + (h[p] + 1) < o[q] + (h[q] + 1)
    BY <2>3, <2>4
  <2> QED BY <1>9, <2>1, <2>5
<1>11. ASSUME NEW n \in DOMAIN old PROVE ~IsInserted(old[n].id) /\ Same(g, old[n], w[pos[n]])
  <2>1. PICK i, j, m : i = old[n] /\ j = y[pos0[n]] /\ m = w[pos[n]]
    OBVIOUS
  <2>2. ~IsInserted(i.id) /\ Same(f, i, j)
    BY <1>7, <2>1 DEF Keeps
  <2>3. m = New(code, after, j) /\ j \in Instrs /\ Instruction(j)
    BY <1>6, <1>9, <2>1
  <2>4. \A k \in DOMAIN j.ops : Val(g, m.ops[k]) = Val(f, j.ops[k])
    BY <2>3 DEF Stays
  <2>5. Same(g, i, m)
    BY <2>2, <2>3, <2>4, SameNew
  <2> QED BY <2>1, <2>2, <2>5
<1>12. ASSUME NEW q \in DOMAIN w PROVE IsInserted(w[q].id) \/ \E n \in DOMAIN old : pos[n] = q
  <2>1. PICK n \in DOMAIN y : \E p \in 1 .. h[n] + Width(after, y[n]) :
           /\ q = o[n] + p
           /\ \/ p \in 1 .. h[n] /\ Inserted(code, after, w, y[n], o[n], p)
              \/ p = h[n] + 1 /\ w[q] = New(code, after, y[n])
              \/ p = h[n] + 2 /\ w[q] = PostCast(y[n])
    BY <1>3, <1>4, Places
  <2>2. PICK p \in 1 .. h[n] + Width(after, y[n]) :
           /\ q = o[n] + p
           /\ \/ p \in 1 .. h[n] /\ Inserted(code, after, w, y[n], o[n], p)
              \/ p = h[n] + 1 /\ w[q] = New(code, after, y[n])
              \/ p = h[n] + 2 /\ w[q] = PostCast(y[n])
    BY <2>1
  <2>3. CASE Inserted(code, after, w, y[n], o[n], p)
    <3>1. PICK s \in DOMAIN code : \E r \in DOMAIN code[s] :
             w[o[n] + p] = MovedInstr(after, code[s][r])
      BY <2>3 DEF Inserted
    <3>2. PICK r \in DOMAIN code[s] : w[o[n] + p] = MovedInstr(after, code[s][r])
      BY <3>1
    <3>3. PICK e : e = code[s][r]
      OBVIOUS
    <3>4. w[q] = MovedInstr(after, e) /\ Instruction(e) /\ IsInserted(e.id)
      BY <2>2, <3>2, <3>3 DEF AllInserted
    <3>5. w[q].id = e.id
      BY <3>4, MovedFields
    <3> QED BY <3>4, <3>5
  <2>4. CASE p = h[n] + 1
    <3>1. w[q].id = y[n].id
      BY <1>6, <2>2, <2>4, NewFields
    <3>2. IsInserted(y[n].id) \/ \E m \in DOMAIN old : pos0[m] = n
      BY <1>7 DEF Keeps
    <3> QED BY <1>9, <2>2, <2>4, <3>1, <3>2
  <2>5. CASE w[q] = PostCast(y[n])
    <3>1. w[q].id = <<"post", y[n].id>>
      BY <2>5, CastFields DEF PostCast
    <3> QED BY <3>1 DEF IsInserted
  <2> QED BY <2>2, <2>3, <2>4, <2>5
<1>13. Keeps(g, old, w, pos)
  BY <1>9, <1>10, <1>11, <1>12 DEF Keeps
<1> QED BY <1>4, <1>13

\* The same, its hypotheses on the inserted code under one name.
Woven(C, code, after, W, f, g) ==
    /\ \A s \in DOMAIN code : code[s] \in Seq(C)
    /\ AllInserted(code) /\ W = Rewritten(code, after) /\ Stays(code, after, f, g)

LEMMA WovenKeeps ==
    ASSUME BodyInv, PhisInv, ModulesAssumption, NEW C, NEW code, NEW after, NEW W, NEW f, NEW g,
           Woven(C, code, after, W, f, g),
           NEW old, NEW b \in DOMAIN body, NEW pos0, Keeps(f, old, body[b], pos0)
    PROVE  \E pos : Keeps(g, old, W[b], pos)
<1>1. \A s \in DOMAIN code : code[s] \in Seq(C)
  BY DEF Woven
<1>2. AllInserted(code)
  BY DEF Woven
<1>3. W = Rewritten(code, after)
  BY DEF Woven
<1>4. Stays(code, after, f, g)
  BY DEF Woven
<1> QED BY <1>1, <1>2, <1>3, <1>4, KeepsCarried

\* What a value stood for, it stands for after a pass that inserts casts.
LEMMA DominanceDefines ==
    ASSUME NEW u, NEW B, Dominance(u, B), NEW T, T = InstrsIn(B),
           NEW i \in T, NEW k \in DOMAIN i.ops, IsLocal(i.ops[k])
    PROVE  \E j \in T : j.id = i.ops[k]
<1>1. PICK b \in DOMAIN B : i \in Range(B[b])
  BY DEF InstrsIn
<1>2. PICK n \in DOMAIN B[b] : B[b][n] = i
  BY <1>1 DEF Range
<1>3. \E c, m : Available(u, B, i.ops[k], c, m)
  BY <1>2 DEF Dominance
<1>4. PICK d \in DOMAIN B : \E p \in DOMAIN B[d] : B[d][p].id = i.ops[k]
  BY <1>3 DEF Available
<1>5. PICK p \in DOMAIN B[d] : B[d][p].id = i.ops[k]
  BY <1>4
<1>6. B[d][p] \in T
  BY DEF InstrsIn, Range
<1> QED BY <1>5, <1>6

\* What the fresh names of a pass that inserts casts are casts of.
Origin(v) == IF v[1] = "post" THEN v[2] ELSE Def(v[3]).ops[v[4]]
Freshly(D, f, v) == IF v \in D THEN f[v] ELSE Val(f, Origin(v))
FreshRank(D, r, v) ==
    IF v \in D THEN 3 * r[v] + 1
    ELSE IF ~IsLocal(Origin(v)) THEN 0
    ELSE IF v[1] = "post" THEN 3 * r[Origin(v)] + 2 ELSE 3 * r[Origin(v)] + 3

LEMMA FreshNames ==
    ASSUME NEW pass, NEW slots, slots \subseteq Slots, NEW after,
           BodyInv, ModulesAssumption, Names, BodyInv', Placement', unit' = unit,
           body' = WithCasts(pass, slots, after), pass \notin Passed(step),
           \A v \in after : v \in Ids /\ v[1] \in {"inst", "dem"} /\ <<"post", v>> \notin Ids
    PROVE  /\ \A i \in Instrs : \A k \in DOMAIN i.ops : <<i, k>> \in slots =>
                /\ CastName(pass, i, k) \in Ids' /\ CastName(pass, i, k) \notin Ids
                /\ Origin(CastName(pass, i, k)) = i.ops[k]
           /\ \A v \in after : /\ <<"post", v>> \in Ids' /\ <<"post", v>> \notin Ids
                               /\ Origin(<<"post", v>>) = v
           /\ Ids \subseteq Ids'
<1>1. \A i \in Instrs : InCastPass(pass, slots, after, i, Instrs') /\ Instruction(i)
  BY CastPass DEF BodyInv
<1>2. PICK B, T : B = body' /\ T = Instrs'
  OBVIOUS
<1>3. T = InstrsIn(B)
  BY <1>2 DEF Instrs, InstrsIn
<1>4. Dominance(unit', B)
  BY <1>2 DEF Placement, Placed
<1>6. \A j \in T : j.id \in Ids'
  BY <1>2 DEF Ids
<1>7. ASSUME NEW i \in Instrs
      PROVE  /\ Became(pass, slots, after, i) \in T
             /\ Became(pass, slots, after, i).id = i.id
             /\ DOMAIN Became(pass, slots, after, i).ops = DOMAIN i.ops
             /\ \A k \in DOMAIN i.ops : <<i, k>> \in slots =>
                  Became(pass, slots, after, i).ops[k] = CastName(pass, i, k)
  BY <1>1, <1>2, BecameFields DEF InCastPass
<1>8. ASSUME NEW i \in Instrs, NEW k \in DOMAIN i.ops, <<i, k>> \in slots
      PROVE  /\ CastName(pass, i, k) \in Ids' /\ CastName(pass, i, k) \notin Ids
             /\ Origin(CastName(pass, i, k)) = i.ops[k]
  <2>1. PICK j, v : j = Became(pass, slots, after, i) /\ v = CastName(pass, i, k)
    OBVIOUS
  <2>2. j \in T /\ k \in DOMAIN j.ops /\ j.ops[k] = v
    BY <1>7, <1>8, <2>1
  <2>3. v[1] = "pre" /\ v[2] = pass /\ v[3] = i.id /\ v[4] = k
    BY <2>1 DEF CastName
  <2>4. IsLocal(v)
    BY <2>3 DEF IsLocal, IsInserted
  <2>5. \E h \in T : h.id = v
    BY <1>3, <1>4, <2>2, <2>4, DominanceDefines
  <2>6. v \notin Ids
    BY <2>3 DEF Names, Ids
  <2>7. Def(i.id) = i
    BY DEF Def, Names
  <2> QED BY <1>6, <2>1, <2>3, <2>5, <2>6, <2>7 DEF Origin
<1>9. ASSUME NEW v \in after
      PROVE  <<"post", v>> \in Ids' /\ <<"post", v>> \notin Ids /\ Origin(<<"post", v>>) = v
  <2>1. PICK i \in Instrs : i.id = v
    BY DEF Ids
  <2>2. PostCast(i) \in Instrs'
    BY <1>1, <2>1 DEF InCastPass
  <2>3. PostCast(i).id = <<"post", v>>
    BY <2>1, CastFields DEF PostCast
  <2>4. <<"post", v>>[1] = "post" /\ <<"post", v>>[2] = v
    OBVIOUS
  <2> QED BY <1>2, <1>6, <2>2, <2>3, <2>4 DEF Origin
<1>10. \A v \in Ids : v \in Ids'
  BY <1>6, <1>7 DEF Ids
<1> QED BY <1>8, <1>9, <1>10

LEMMA CastPassMeans ==
    ASSUME NEW pass, NEW slots, slots \subseteq Slots, NEW after,
           PlacedInv, PlacedInv', MeansInv, ModulesAssumption, unit' = unit,
           body' = WithCasts(pass, slots, after), pass \notin Passed(step),
           \A v \in after : v \in Ids /\ v[1] \in {"inst", "dem"} /\ <<"post", v>> \notin Ids
    PROVE  MeansInv'
<1>1. /\ BodyInv /\ Names /\ Placement /\ PhisInv /\ BodyInv' /\ Placement'
      /\ DOMAIN body' = DOMAIN unit.body /\ DOMAIN body = DOMAIN unit.body
  BY DEF PlacedInv, RewriterInv, BodyInv
<1>2. \A i \in Instrs : \A k \in DOMAIN i.ops : IsLocal(i.ops[k]) => i.ops[k] \in Ids
  BY <1>1, LocalsDefined
<1>3. PICK f : \E r : /\ Sees(Instrs, f, r)
                      /\ \A b \in DOMAIN body : \E pos : Keeps(f, unit.body[b], body[b], pos)
  BY DEF MeansInv
<1>4. PICK r : /\ Sees(Instrs, f, r)
               /\ \A b \in DOMAIN body : \E pos : Keeps(f, unit.body[b], body[b], pos)
  BY <1>3
<1>5. PICK D, S, T : D = Ids /\ S = Ids' /\ T = Instrs'
  OBVIOUS
<1> DEFINE g == [v \in S |-> Freshly(D, f, v)]
           q == [v \in S |-> FreshRank(D, r, v)]
<1>6. \A v \in S : g[v] = Freshly(D, f, v) /\ q[v] = FreshRank(D, r, v)
  OBVIOUS
<1> HIDE DEF g, q
<1>7. /\ \A i \in Instrs : \A k \in DOMAIN i.ops : <<i, k>> \in slots =>
           /\ CastName(pass, i, k) \in S /\ CastName(pass, i, k) \notin D
           /\ Origin(CastName(pass, i, k)) = i.ops[k]
      /\ \A v \in after : /\ <<"post", v>> \in S /\ <<"post", v>> \notin D
                          /\ Origin(<<"post", v>>) = v
      /\ D \subseteq S
  <2>1. /\ \A i \in Instrs : \A k \in DOMAIN i.ops : <<i, k>> \in slots =>
             /\ CastName(pass, i, k) \in Ids' /\ CastName(pass, i, k) \notin Ids
             /\ Origin(CastName(pass, i, k)) = i.ops[k]
        /\ \A v \in after : /\ <<"post", v>> \in Ids' /\ <<"post", v>> \notin Ids
                            /\ Origin(<<"post", v>>) = v
        /\ Ids \subseteq Ids'
    <3>1. BodyInv /\ Names /\ BodyInv' /\ Placement'
      BY <1>1
    <3> QED BY <3>1, FreshNames
  <2> QED BY <1>5, <2>1
<1>8. \A v \in D : IsLocal(v) /\ r[v] \in Nat
  BY <1>4, <1>5 DEF Ids, Sees, IsLocal, IsInserted
<1>9. \A v \in D : g[v] = f[v] /\ q[v] = 3 * r[v] + 1
  BY <1>6, <1>7 DEF Freshly, FreshRank
<1>10. ASSUME NEW v \in after
       PROVE  /\ g[<<"post", v>>] = f[v] /\ q[<<"post", v>>] = 3 * r[v] + 2
              /\ v \in D /\ IsLocal(<<"post", v>>)
  <2>1. v \in D /\ IsLocal(v)
    BY <1>5, <1>8
  <2>2. <<"post", v>>[1] = "post"
    OBVIOUS
  <2>3. PICK w : w = <<"post", v>>
    OBVIOUS
  <2>4. w \in S /\ w \notin D /\ Origin(w) = v /\ w[1] = "post"
    BY <1>7, <2>2, <2>3
  <2>5. g[w] = f[v] /\ q[w] = 3 * r[v] + 2 /\ IsLocal(w)
    BY <1>6, <2>1, <2>4 DEF Freshly, FreshRank, Val, IsLocal, IsInserted
  <2> QED BY <2>1, <2>3, <2>5
<1>11. ASSUME NEW i \in Instrs, NEW k \in DOMAIN i.ops, <<i, k>> \in slots,
              NEW v, v = i.ops[k], NEW w, w = CastName(pass, i, k)
       PROVE  /\ g[w] = Val(f, v) /\ IsLocal(w)
              /\ q[w] = IF IsLocal(v) THEN 3 * r[v] + 3 ELSE 0
  <2>1. w \in S /\ w \notin D /\ Origin(w) = v /\ w[1] = "pre"
    BY <1>7, <1>11 DEF CastName
  <2> QED BY <1>6, <2>1 DEF Freshly, FreshRank, IsLocal, IsInserted
<1>12. ASSUME NEW i \in Instrs, NEW k \in DOMAIN i.ops, NEW v, v = i.ops[k],
              NEW w, w = Replaced(after, v)
       PROVE  /\ Val(g, w) = Val(f, v) /\ (IsLocal(w) <=> IsLocal(v))
              /\ IsLocal(v) => v \in D /\ r[v] \in Nat /\ q[w] \in {3 * r[v] + 1, 3 * r[v] + 2}
  <2>1. CASE v \in after
    <3>1. w = <<"post", v>>
      BY <1>12, <2>1 DEF Replaced
    <3>2. v \in D /\ IsLocal(v) /\ r[v] \in Nat
      BY <1>8, <1>10, <2>1
    <3>3. g[w] = f[v] /\ q[w] = 3 * r[v] + 2 /\ IsLocal(w)
      BY <1>10, <2>1, <3>1
    <3> QED BY <3>2, <3>3 DEF Val
  <2>2. CASE v \notin after
    <3>1. w = v
      BY <1>12, <2>2 DEF Replaced
    <3>2. IsLocal(v) => v \in D /\ r[v] \in Nat
      BY <1>2, <1>5, <1>8, <1>12
    <3> QED BY <1>9, <3>1, <3>2 DEF Val
  <2> QED BY <2>1, <2>2
<1>13. ASSUME NEW i \in Instrs, NEW j, j = Became(pass, slots, after, i)
       PROVE  /\ j.id = i.id /\ DOMAIN j.ops = DOMAIN i.ops
              /\ \A k \in DOMAIN i.ops : Val(g, j.ops[k]) = Val(f, i.ops[k])
              /\ \A k \in DOMAIN i.ops : IsLocal(j.ops[k]) =>
                   \/ q[j.ops[k]] = 0
                   \/ /\ IsLocal(i.ops[k]) /\ r[i.ops[k]] \in Nat
                      /\ q[j.ops[k]] \in {3 * r[i.ops[k]] + 1, 3 * r[i.ops[k]] + 2,
                                          3 * r[i.ops[k]] + 3}
  <2>1. /\ j.id = i.id /\ DOMAIN j.ops = DOMAIN i.ops
        /\ \A k \in DOMAIN i.ops :
             j.ops[k] = IF <<i, k>> \in slots THEN CastName(pass, i, k)
                        ELSE Replaced(after, i.ops[k])
    BY <1>1, <1>13, BecameFields DEF BodyInv
  <2>2. ASSUME NEW k \in DOMAIN i.ops
        PROVE  /\ Val(g, j.ops[k]) = Val(f, i.ops[k])
               /\ IsLocal(j.ops[k]) =>
                   \/ q[j.ops[k]] = 0
                   \/ /\ IsLocal(i.ops[k]) /\ r[i.ops[k]] \in Nat
                      /\ q[j.ops[k]] \in {3 * r[i.ops[k]] + 1, 3 * r[i.ops[k]] + 2,
                                          3 * r[i.ops[k]] + 3}
    <3>1. PICK v, w : v = i.ops[k] /\ w = j.ops[k]
      OBVIOUS
    <3>2. IsLocal(v) => r[v] \in Nat
      BY <1>2, <1>5, <1>8, <3>1
    <3>3. CASE <<i, k>> \in slots
      <4>1. w = CastName(pass, i, k)
        BY <2>1, <3>1, <3>3
      <4>2. g[w] = Val(f, v) /\ IsLocal(w) /\ q[w] = IF IsLocal(v) THEN 3 * r[v] + 3 ELSE 0
        BY <1>11, <3>1, <3>3, <4>1
      <4> QED BY <3>1, <3>2, <4>2 DEF Val
    <3>4. CASE <<i, k>> \notin slots
      <4>1. w = Replaced(after, v)
        BY <2>1, <3>1, <3>4
      <4>2. /\ Val(g, w) = Val(f, v) /\ (IsLocal(w) <=> IsLocal(v))
            /\ IsLocal(v) => q[w] \in {3 * r[v] + 1, 3 * r[v] + 2}
        BY <1>12, <3>1, <4>1
      <4> QED BY <3>1, <3>2, <4>2
    <3> QED BY <3>3, <3>4
  <2> QED BY <2>1, <2>2
<1>14. ASSUME NEW j \in T
       PROVE  /\ q[j.id] \in Nat
              /\ j.id[1] \in {"inst", "dem", "pre", "post"}
              /\ j.id[1] = "dem" => g[j.id] = <<"const", j.id[4]>>
              /\ j.id[1] = "inst" => g[j.id] = j.id
              /\ j.id[1] \in {"pre", "post"} =>
                   /\ 1 \in DOMAIN j.ops /\ g[j.id] = Val(g, j.ops[1])
                   /\ IsLocal(j.ops[1]) => q[j.ops[1]] < q[j.id]
  <2>1. FromCastPass(pass, slots, after, j)
    BY <1>1, <1>5, CastPass
  <2>2. CASE \E i \in Instrs : j = Became(pass, slots, after, i)
    <3>1. PICK i \in Instrs : j = Became(pass, slots, after, i)
      BY <2>2
    <3>2. /\ r[i.id] \in Nat
          /\ i.id[1] \in {"inst", "dem", "pre", "post"}
          /\ i.id[1] = "dem" => f[i.id] = <<"const", i.id[4]>>
          /\ i.id[1] = "inst" => f[i.id] = i.id
          /\ i.id[1] \in {"pre", "post"} =>
               /\ 1 \in DOMAIN i.ops /\ f[i.id] = Val(f, i.ops[1])
               /\ IsLocal(i.ops[1]) => r[i.ops[1]] < r[i.id]
      BY <1>4 DEF Sees
    <3>3. j.id = i.id /\ i.id \in D /\ g[i.id] = f[i.id] /\ q[i.id] = 3 * r[i.id] + 1
      BY <1>5, <1>9, <1>13, <3>1 DEF Ids
    <3>4. ASSUME i.id[1] \in {"pre", "post"}
          PROVE  /\ 1 \in DOMAIN j.ops /\ g[j.id] = Val(g, j.ops[1])
                 /\ IsLocal(j.ops[1]) => q[j.ops[1]] < q[j.id]
      <4>1. PICK v, w : v = i.ops[1] /\ w = j.ops[1]
        OBVIOUS
      <4>2. /\ 1 \in DOMAIN j.ops /\ Val(g, w) = Val(f, v)
            /\ IsLocal(w) => \/ q[w] = 0
                             \/ /\ IsLocal(v) /\ r[v] \in Nat
                                /\ q[w] \in {3 * r[v] + 1, 3 * r[v] + 2, 3 * r[v] + 3}
        BY <1>13, <3>1, <3>2, <3>4, <4>1
      <4>3. IsLocal(v) => r[v] < r[i.id]
        BY <3>2, <3>4, <4>1
      <4>4. IsLocal(w) => q[w] < 3 * r[i.id] + 1
        BY <3>2, <4>2, <4>3
      <4> QED BY <3>2, <3>3, <3>4, <4>1, <4>2, <4>4
    <3>5. q[j.id] \in Nat
      BY <3>2, <3>3
    <3> QED BY <3>2, <3>3, <3>4, <3>5
  <2>3. CASE \E i \in Instrs : \E k \in DOMAIN i.ops : <<i, k>> \in slots /\
               j = Cast(CastName(pass, i, k), Replaced(after, i.ops[k]))
    <3>1. PICK i \in Instrs : \E k \in DOMAIN i.ops : <<i, k>> \in slots /\
               j = Cast(CastName(pass, i, k), Replaced(after, i.ops[k]))
      BY <2>3
    <3>2. PICK k \in DOMAIN i.ops : <<i, k>> \in slots /\
               j = Cast(CastName(pass, i, k), Replaced(after, i.ops[k]))
      BY <3>1
    <3>3. PICK v, w, x : v = i.ops[k] /\ w = Replaced(after, v) /\ x = CastName(pass, i, k)
      OBVIOUS
    <3>4. j = Cast(x, w)
      BY <3>2, <3>3
    <3>5. j.id = x /\ DOMAIN j.ops = {1} /\ j.ops[1] = w /\ x[1] = "pre"
      BY <3>3, <3>4, CastFields DEF CastName
    <3>6. g[x] = Val(f, v) /\ q[x] = IF IsLocal(v) THEN 3 * r[v] + 3 ELSE 0
      BY <1>11, <3>2, <3>3
    <3>7. /\ Val(g, w) = Val(f, v) /\ (IsLocal(w) <=> IsLocal(v))
          /\ IsLocal(v) => r[v] \in Nat /\ q[w] \in {3 * r[v] + 1, 3 * r[v] + 2}
      BY <1>12, <3>3
    <3> QED BY <3>5, <3>6, <3>7
  <2>4. CASE \E i \in Instrs : i.id \in after /\ j = PostCast(i)
    <3>1. PICK i \in Instrs : i.id \in after /\ j = PostCast(i)
      BY <2>4
    <3>2. PICK v : v = i.id
      OBVIOUS
    <3>3. j = Cast(<<"post", v>>, v)
      BY <3>1, <3>2 DEF PostCast
    <3>4. j.id = <<"post", v>> /\ DOMAIN j.ops = {1} /\ j.ops[1] = v /\ j.id[1] = "post"
      BY <3>3, CastFields
    <3>5. g[j.id] = f[v] /\ q[j.id] = 3 * r[v] + 2 /\ v \in D
      BY <1>10, <3>1, <3>2, <3>4
    <3>6. g[v] = f[v] /\ q[v] = 3 * r[v] + 1 /\ r[v] \in Nat /\ IsLocal(v)
      BY <1>8, <1>9, <3>5
    <3> QED BY <3>4, <3>5, <3>6 DEF Val
  <2> QED BY <2>1, <2>2, <2>3, <2>4 DEF FromCastPass
<1>15. Sees(T, g, q)
  BY <1>14 DEF Sees
<1> DEFINE c(s) == Cast(<<"pre", pass, s[1].id, s[2]>>, s[1].ops[s[2]])
           code == [s \in slots |-> <<c(s)>>]
           C == {c(s) : s \in slots}
<1>16. body' = Rewritten(code, after) /\ DOMAIN code = slots
  BY DEF WithCasts
<1>17. \A s \in slots : /\ code[s] = <<c(s)>> /\ Len(code[s]) = 1 /\ DOMAIN code[s] = {1}
                        /\ code[s][1] = c(s) /\ code[s] \in Seq(C)
  <2> TAKE s \in slots
  <2>1. code[s] = <<c(s)>> /\ c(s) \in C
    OBVIOUS
  <2> HIDE DEF code, c, C
  <2> QED BY <2>1
<1> HIDE DEF code, C
<1>18. ASSUME NEW s \in slots
       PROVE  /\ Instruction(c(s)) /\ IsInserted(c(s).id)
              /\ c(s).id = <<"pre", pass, s[1].id, s[2]>>
  <2>1. PICK x, v : x = <<"pre", pass, s[1].id, s[2]>> /\ v = s[1].ops[s[2]]
    OBVIOUS
  <2>2. Instruction(Cast(x, v)) /\ Cast(x, v).id = x
    BY CastFields
  <2>3. IsInserted(x)
    BY <2>1 DEF IsInserted
  <2> QED BY <2>1, <2>2, <2>3
<1> HIDE DEF c
<1>19. ASSUME NEW i \in Instrs, NEW k \in DOMAIN i.ops
       PROVE  Val(g, New(code, after, i).ops[k]) = Val(f, i.ops[k])
  <2>1. PICK j : j = Became(pass, slots, after, i)
    OBVIOUS
  <2>2. /\ Val(g, j.ops[k]) = Val(f, i.ops[k])
        /\ j.ops[k] = IF <<i, k>> \in slots THEN CastName(pass, i, k)
                      ELSE Replaced(after, i.ops[k])
    BY <1>1, <1>13, <2>1, BecameFields DEF BodyInv
  <2>3. New(code, after, i).ops[k] = IF <<i, k>> \in slots THEN Last(code[<<i, k>>]).id
                                     ELSE Replaced(after, i.ops[k])
    BY <1>1, <1>16, NewFields DEF BodyInv
  <2>4. <<i, k>> \in slots => Last(code[<<i, k>>]).id = CastName(pass, i, k)
    <3>1. <<i, k>>[1] = i /\ <<i, k>>[2] = k
      OBVIOUS
    <3> QED BY <1>17, <1>18, <3>1 DEF Last, CastName
  <2> QED BY <2>2, <2>3, <2>4
<1>20. \A b \in DOMAIN body : \E pos : Keeps(g, unit.body[b], body'[b], pos)
  <2> SUFFICES ASSUME NEW b \in DOMAIN body
               PROVE  \E pos : Keeps(g, unit.body[b], body'[b], pos)
    OBVIOUS
  <2>1. PICK W, old : W = Rewritten(code, after) /\ old = unit.body[b]
    OBVIOUS
  <2>2. PICK pos0 : Keeps(f, old, body[b], pos0)
    BY <1>4, <2>1
  <2>3. (\A s \in DOMAIN code : code[s] \in Seq(C)) /\ AllInserted(code)
    BY <1>16, <1>17, <1>18 DEF AllInserted
  <2>4. Woven(C, code, after, W, f, g)
    <3>1. Stays(code, after, f, g)
      BY <1>19 DEF Stays
    <3> QED BY <2>1, <2>3, <3>1 DEF Woven
  <2>5. BodyInv /\ PhisInv
    BY <1>1
  <2>6. \E pos : Keeps(g, old, W[b], pos)
    BY <2>2, <2>4, <2>5, WovenKeeps
  <2> QED BY <1>16, <2>1, <2>6
<1>21. /\ Sees(Instrs', g, q)
       /\ \A b \in DOMAIN body' : \E pos : Keeps(g, unit'.body[b], body'[b], pos)
  BY <1>1, <1>5, <1>15, <1>20
<1> HIDE DEF MeansInv
<1> QED BY <1>21 DEF MeansInv

\* Each pass that inserts casts is one of these.
LEMMA GlobalsMeans ==
    ASSUME PlacedInv, PlacedInv', MeansInv, ModulesAssumption, bitcastGlobalValues
    PROVE  MeansInv'
<1> DEFINE slots == {s \in Slots : /\ IsGlobal(s[1].ops[s[2]]) /\ ~IsCalleeSlot(s[1], s[2])}
<1>1. body' = WithCasts("globals", slots, {}) /\ unit' = unit /\ step = "globals"
  BY DEF bitcastGlobalValues
<1>2. slots \subseteq Slots /\ "globals" \notin Passed(step)
  BY <1>1 DEF Passed
<1>3. \A v \in {} : v \in Ids /\ v[1] \in {"inst", "dem"} /\ <<"post", v>> \notin Ids
  OBVIOUS
<1> HIDE DEF slots
<1> QED BY <1>1, <1>2, <1>3, CastPassMeans

LEMMA BlocksMeans ==
    ASSUME PlacedInv, PlacedInv', MeansInv, ModulesAssumption, bitcastBlockAddresses
    PROVE  MeansInv'
<1> DEFINE slots == {s \in Slots : /\ s[1].ops[s[2]][1] = "block"
                                   /\ ~IsCalleeSlot(s[1], s[2])}
<1>1. body' = WithCasts("blocks", slots, {}) /\ unit' = unit /\ step = "blocks"
  BY DEF bitcastBlockAddresses
<1>2. slots \subseteq Slots /\ "blocks" \notin Passed(step)
  BY <1>1 DEF Passed
<1>3. \A v \in {} : v \in Ids /\ v[1] \in {"inst", "dem"} /\ <<"post", v>> \notin Ids
  OBVIOUS
<1> HIDE DEF slots
<1> QED BY <1>1, <1>2, <1>3, CastPassMeans

LEMMA ArgsMeans ==
    ASSUME PlacedInv, PlacedInv', MeansInv, ModulesAssumption, bitcastTypedArguments
    PROVE  MeansInv'
<1> DEFINE slots == {s \in Slots : /\ s[1].ops[s[2]] \in TypedArgs
                                   /\ ~IsCalleeSlot(s[1], s[2])}
<1>1. body' = WithCasts("args", slots, {}) /\ unit' = unit /\ step = "args"
  BY DEF bitcastTypedArguments
<1>2. slots \subseteq Slots /\ "args" \notin Passed(step)
  BY <1>1 DEF Passed
<1>3. \A v \in {} : v \in Ids /\ v[1] \in {"inst", "dem"} /\ <<"post", v>> \notin Ids
  OBVIOUS
<1> HIDE DEF slots
<1> QED BY <1>1, <1>2, <1>3, CastPassMeans

LEMMA OperandsMeans ==
    ASSUME PlacedInv, PlacedInv', MeansInv, ModulesAssumption, bitcastInstructionOperands
    PROVE  MeansInv'
<1> DEFINE slots == {s \in Slots : PointerSlot(s[1], s[2])}
           after == {i.id : i \in {j \in Instrs : j.op \in {"gep", "alloca"}}}
<1>1. body' = WithCasts("operands", slots, after) /\ unit' = unit /\ step = "operands"
  BY DEF bitcastInstructionOperands
<1>2. slots \subseteq Slots /\ "operands" \notin Passed(step)
  BY <1>1 DEF Passed
<1>3. BodyInv /\ Names
  BY DEF PlacedInv, RewriterInv
<1>4. \A v \in after : \E j \in Instrs : v = j.id /\ j.op \in {"gep", "alloca"}
  OBVIOUS
<1>5. \A v \in after : v \in Ids /\ v[1] \in {"inst", "dem"}
  BY <1>3, <1>4, NamesHeads DEF Ids
<1>6. \A v : <<"post", v>> \notin Ids
  <2>1. \A i \in Instrs : i.id[1] # "post"
    BY <1>1, <1>3 DEF Names
  <2> QED BY <2>1 DEF Ids
<1> HIDE DEF slots, after
<1> QED BY <1>1, <1>2, <1>5, <1>6, CastPassMeans

LEMMA CallsMeans ==
    ASSUME PlacedInv, PlacedInv', MeansInv, ModulesAssumption, bitcastFunctionOperands
    PROVE  MeansInv'
<1> DEFINE slots == UNION {{<<i, k>> : i \in CallsOf(f), k \in Retyped(f)} : f \in Funcs}
           after == UNION {{i.id : i \in {j \in CallsOf(f) : HasUses(j.id)}} :
                              f \in {g \in Funcs : TypedSig(unit.funcs[g])[2]
                                                     # unit.funcs[g].ret}}
<1>1. body' = WithCasts("calls", slots, after) /\ unit' = unit /\ step = "calls"
  BY DEF bitcastFunctionOperands
<1>2. /\ BodyInv /\ Names /\ Operands /\ GlobalsBridged /\ OperandsBridged
  BY DEF PlacedInv, RewriterInv
<1>3. /\ "operands" \in Passed(step) /\ "globals" \in Passed(step) /\ step # "error"
      /\ unit \in Modules /\ "calls" \notin Passed(step)
  BY <1>1, <1>2 DEF Passed, BodyInv
<1>4. \A f \in Funcs : \A i \in CallsOf(f) :
         i \in Instrs /\ i.op = "call" /\ \A k \in Retyped(f) : k \in DOMAIN i.ops
  BY <1>2, <1>3, CallsDirect
<1>5. \A s \in slots : \E f \in Funcs : \E i \in CallsOf(f) : \E k \in Retyped(f) : s = <<i, k>>
  OBVIOUS
<1>6. \A v \in after : \E f \in Funcs : \E i \in CallsOf(f) : v = i.id
  OBVIOUS
<1> HIDE DEF slots, after
<1>7. slots \subseteq Slots
  BY <1>4, <1>5 DEF Slots
<1>8. \A v \in after : \E i \in Instrs : v = i.id /\ i.op = "call"
  BY <1>4, <1>6
<1>9. ASSUME NEW v \in after
      PROVE  v \in Ids /\ v[1] \in {"inst", "dem"} /\ <<"post", v>> \notin Ids
  <2>1. PICK i \in Instrs : v = i.id /\ i.op = "call"
    BY <1>8
  <2>2. v \in Ids /\ v[1] \in {"inst", "dem"}
    BY <1>2, <2>1, NamesHeads DEF Ids
  <2> SUFFICES ASSUME <<"post", v>> \in Ids PROVE FALSE
    BY <2>2
  <2>3. PICK j \in Instrs : j.id = <<"post", v>>
    BY DEF Ids
  <2>4. j.id = <<"post", j.ops[1]>> /\ \E e \in Instrs : e.id = j.ops[1] /\ Retypes(e)
    BY <1>1, <1>2, <2>3 DEF Names
  <2>5. j.ops[1] = v
    BY <2>3, <2>4
  <2>6. Retypes(i)
    BY <1>2, <2>1, <2>4, <2>5 DEF Names
  <2> QED BY <2>1, <2>6 DEF Retypes
<1> QED BY <1>1, <1>3, <1>7, <1>9, CastPassMeans

\* A constant that became an instruction stands for the constant.
Stands(v) == IF v[1] = "dem" THEN <<"const", v[4]>> ELSE v
LEMMA DemoteMeans ==
    ASSUME PlacedInv, PlacedInv', MeansInv, ModulesAssumption, demotePointerConstants
    PROVE  MeansInv'
<1> DEFINE slots == {s \in Slots : Demotable(s[1].ops[s[2]])}
           code == [s \in slots |-> Expansion(s[1], s[2])]
           C == UNION {Materials(s[1], s[2]) : s \in slots}
<1>1. body' = Rewritten(code, {}) /\ unit' = unit /\ step = "demote"
  BY DEF demotePointerConstants
<1>2. /\ BodyInv /\ Names /\ Operands /\ Placement /\ PhisInv /\ Placement'
      /\ unit \in Modules /\ DOMAIN body' = DOMAIN unit.body
  BY <1>1 DEF PlacedInv, RewriterInv, BodyInv
<1>3. /\ \A s \in slots : \E i \in Instrs : \E k \in DOMAIN i.ops :
           s = <<i, k>> /\ Demotable(i.ops[k])
      /\ DOMAIN code = slots /\ \A s \in slots : code[s] = Expansion(s[1], s[2])
      /\ \A s \in slots : Materials(s[1], s[2]) \subseteq C
  BY DEF Slots
<1> HIDE DEF slots, code, C
<1>4. \A i \in Instrs : i.id[1] = "inst" /\ Instruction(i)
  BY <1>1, <1>2 DEF Names, Passed, BodyInv
<1>5. ASSUME NEW i \in Instrs, NEW k \in DOMAIN i.ops, <<i, k>> \in slots
      PROVE  /\ i.ops[k] = <<"const", i.ops[k][2]>> /\ i.ops[k][2] \in DOMAIN unit.consts
             /\ code[<<i, k>>] \in Seq(Materials(i, k)) /\ Len(code[<<i, k>>]) > 0
             /\ code[<<i, k>>] \in Seq(C)
             /\ Last(code[<<i, k>>]).id = <<"dem", i.id, k, i.ops[k][2]>>
  <2>1. Demotable(i.ops[k])
    <3>1. PICK j \in Instrs : \E h \in DOMAIN j.ops : <<i, k>> = <<j, h>> /\ Demotable(j.ops[h])
      BY <1>3, <1>5
    <3> QED BY <3>1
  <2>2. i.ops[k][1] = "const" /\ i.ops[k] \in Values(unit)
    <3>1. i.ops[k][1] = "const"
      BY <2>1 DEF Demotable
    <3> QED BY <1>2, <3>1 DEF Operands
  <2>3. i.ops[k] = <<"const", i.ops[k][2]>> /\ i.ops[k][2] \in DOMAIN unit.consts
    BY <2>2 DEF Values
  <2>4. code[<<i, k>>] = Expansion(i, k) /\ Materials(i, k) \subseteq C
    <3>1. <<i, k>>[1] = i /\ <<i, k>>[2] = k
      OBVIOUS
    <3> QED BY <1>3, <1>5, <3>1
  <2>5. /\ Expansion(i, k) \in Seq(Materials(i, k)) /\ Len(Expansion(i, k)) > 0
        /\ Last(Expansion(i, k)) = Materialized(i, k, i.ops[k][2])
    BY <1>2, <2>3, ExpansionInstrs
  <2>6. Materialized(i, k, i.ops[k][2]).id = <<"dem", i.id, k, i.ops[k][2]>>
    BY <1>2, <2>3, MaterializedFields
  <2>7. Expansion(i, k) \in Seq(C)
    BY <2>4, <2>5, SeqMonotonic
  <2> QED BY <2>3, <2>4, <2>5, <2>6, <2>7
<1>6. \A s \in slots : code[s] \in Seq(C)
  BY <1>3, <1>5
<1>7. ASSUME NEW s \in slots, NEW h \in DOMAIN code[s]
      PROVE  /\ Instruction(code[s][h]) /\ MovedInstr({}, code[s][h]) = code[s][h]
             /\ code[s][h].id[1] = "dem"
  <2>1. PICK i \in Instrs : \E k \in DOMAIN i.ops : s = <<i, k>> /\ Demotable(i.ops[k])
    BY <1>3
  <2>2. PICK k \in DOMAIN i.ops : s = <<i, k>>
    BY <2>1
  <2>3. code[s] \in Seq(Materials(i, k))
    BY <1>5, <2>2
  <2>4. code[s][h] \in Materials(i, k)
    BY <2>3, ElementOfSeq, LenProperties
  <2>5. PICK c \in DOMAIN unit.consts : code[s][h] = Materialized(i, k, c)
    BY <2>4 DEF Materials
  <2>6. PICK m : m = code[s][h]
    OBVIOUS
  <2>7. Instruction(m) /\ MovedInstr({}, m) = m /\ m.id = <<"dem", i.id, k, c>>
    BY <1>2, <2>5, <2>6, MaterializedFields
  <2> QED BY <2>6, <2>7
<1>8. AllInserted(code)
  BY <1>3, <1>7 DEF AllInserted, IsInserted
<1>9. PICK W, T : W = Rewritten(code, {}) /\ T = InstrsIn(W)
  OBVIOUS
<1>10. /\ \A j \in T : Comes(code, {}, j)
       /\ \A i \in Instrs : Goes(code, {}, i, T)
  BY <1>2, <1>3, <1>6, <1>9, RewrittenInstrs
<1>11. T = Instrs' /\ W = body' /\ Dominance(unit, W)
  BY <1>1, <1>2, <1>9 DEF Instrs, InstrsIn, Placement, Placed
<1> DEFINE S == {j.id : j \in T}
           g == [v \in S |-> Stands(v)]
           q == [v \in S |-> 0]
<1>12. \A j \in T : j.id \in S /\ g[j.id] = Stands(j.id) /\ q[j.id] = 0
  OBVIOUS
<1> HIDE DEF S, g, q
<1>13. ASSUME NEW j \in T PROVE j.id[1] \in {"inst", "dem"}
  <2>1. CASE \E i \in Instrs : j = New(code, {}, i)
    BY <1>4, <2>1, NewFields
  <2>2. CASE \E s \in DOMAIN code : \E e \in Range(code[s]) : j = MovedInstr({}, e)
    <3>1. PICK s \in DOMAIN code : \E e \in Range(code[s]) : j = MovedInstr({}, e)
      BY <2>2
    <3>2. PICK h \in DOMAIN code[s] : j = MovedInstr({}, code[s][h])
      BY <3>1 DEF Range
    <3> QED BY <1>3, <1>7, <3>2
  <2> QED BY <1>10, <2>1, <2>2 DEF Comes
<1>14. Sees(T, g, q)
  <2>1. ASSUME NEW j \in T
        PROVE  /\ q[j.id] \in Nat
               /\ j.id[1] \in {"inst", "dem", "pre", "post"}
               /\ j.id[1] \notin {"pre", "post"}
               /\ j.id[1] = "inst" => g[j.id] = j.id
               /\ j.id[1] = "dem" => g[j.id] = <<"const", j.id[4]>>
    <3>1. g[j.id] = Stands(j.id) /\ q[j.id] = 0 /\ j.id[1] \in {"inst", "dem"}
      BY <1>12, <1>13
    <3>2. CASE j.id[1] = "inst"
      BY <3>1, <3>2 DEF Stands
    <3>3. CASE j.id[1] = "dem"
      BY <3>1, <3>3 DEF Stands
    <3> QED BY <3>1, <3>2, <3>3
  <2> QED BY <2>1 DEF Sees
<1>15. PICK f : \E r : /\ Sees(Instrs, f, r)
                       /\ \A b \in DOMAIN body : \E pos : Keeps(f, unit.body[b], body[b], pos)
  BY DEF MeansInv
<1>16. PICK r : /\ Sees(Instrs, f, r)
                /\ \A b \in DOMAIN body : \E pos : Keeps(f, unit.body[b], body[b], pos)
  BY <1>15
<1>17. ASSUME NEW i \in Instrs, NEW k \in DOMAIN i.ops
       PROVE  Val(g, New(code, {}, i).ops[k]) = Val(f, i.ops[k])
  <2>1. PICK j, v, w : j = New(code, {}, i) /\ v = i.ops[k] /\ w = j.ops[k]
    OBVIOUS
  <2>2. /\ j \in T /\ k \in DOMAIN j.ops
        /\ w = IF <<i, k>> \in slots THEN Last(code[<<i, k>>]).id ELSE Replaced({}, v)
    BY <1>3, <1>4, <1>10, <2>1, NewFields DEF Goes
  <2>3. ASSUME IsLocal(w) PROVE g[w] = Stands(w)
    <3>1. \E h \in T : h.id = w
      BY <1>9, <1>11, <2>1, <2>2, <2>3, DominanceDefines
    <3> QED BY <1>12, <3>1
  <2>4. CASE <<i, k>> \in slots
    <3>1. w = <<"dem", i.id, k, v[2]>> /\ v = <<"const", v[2]>>
      BY <1>5, <2>1, <2>2, <2>4
    <3>2. IsLocal(w) /\ ~IsLocal(v) /\ Stands(w) = <<"const", v[2]>>
      <4>1. w[1] = "dem" /\ w[4] = v[2] /\ v[1] = "const"
        BY <3>1
      <4> QED BY <4>1 DEF IsLocal, IsInserted, Stands
    <3> QED BY <2>1, <2>3, <3>1, <3>2 DEF Val
  <2>5. CASE <<i, k>> \notin slots
    <3>1. w = v
      BY <2>2, <2>5 DEF Replaced
    <3>2. ASSUME IsLocal(v) PROVE f[v] = v /\ Stands(v) = v
      <4>1. v \in Ids
        BY <1>2, <2>1, <3>2, LocalsDefined
      <4>2. PICK h \in Instrs : h.id = v
        BY <4>1 DEF Ids
      <4> QED BY <1>4, <1>16, <4>2 DEF Sees, Stands
    <3> QED BY <2>1, <2>3, <3>1, <3>2 DEF Val
  <2> QED BY <2>4, <2>5
<1>18. Stays(code, {}, f, g)
  BY <1>17 DEF Stays
<1>19. ASSUME NEW b \in DOMAIN body PROVE \E pos : Keeps(g, unit.body[b], W[b], pos)
  <2>1. PICK old : old = unit.body[b]
    OBVIOUS
  <2>2. PICK pos0 : Keeps(f, old, body[b], pos0)
    BY <1>16, <2>1
  <2>3. Woven(C, code, {}, W, f, g)
    BY <1>3, <1>6, <1>8, <1>9, <1>18 DEF Woven
  <2>4. BodyInv /\ PhisInv
    BY <1>2
  <2>5. \E pos : Keeps(g, old, W[b], pos)
    BY <2>2, <2>3, <2>4, WovenKeeps
  <2> QED BY <2>1, <2>5
<1>20. DOMAIN body' = DOMAIN body
  BY <1>2 DEF BodyInv
<1>21. /\ Sees(Instrs', g, q)
       /\ \A b \in DOMAIN body' : \E pos : Keeps(g, unit'.body[b], body'[b], pos)
  BY <1>1, <1>11, <1>14, <1>19, <1>20
<1> QED BY <1>21 DEF MeansInv

LEMMA MeansInit ==
    ASSUME Init, ModulesAssumption, PlacementAssumption
    PROVE  MeansInv
<1>1. unit \in Modules /\ body = unit.body
  BY DEF Init
<1>2. Instrs = InstrsOf(unit)
  BY <1>1 DEF Instrs, InstrsOf
<1>3. \E f, r : /\ Sees(InstrsOf(unit), f, r) /\ Closed(InstrsOf(unit))
                /\ \A b \in DOMAIN unit.body :
                     /\ unit.body[b] \in Seq(Range(unit.body[b]))
                     /\ \E pos : Keeps(f, unit.body[b], unit.body[b], pos)
  BY <1>1, ParsedSees
<1> QED BY <1>1, <1>2, <1>3 DEF MeansInv

\* Whatever the passes insert, the function computes what it did when it was
\* parsed: each parsed instruction is still there, in its order, with operands
\* that stand for the ones it had, for any function the verifier accepts.
THEOREM MeaningKeptCorrect == Spec => []MeaningKept
<1>1. Init => MeansInv
  BY MeansInit, ModulesAssumption, PlacementAssumption
<1>2. PlacedInv /\ PlacedInv' /\ MeansInv /\ [Next]_vars => MeansInv'
  <2> SUFFICES ASSUME PlacedInv, PlacedInv', MeansInv, [Next]_vars PROVE MeansInv'
    OBVIOUS
  <2>1. CASE demotePointerConstants
    BY <2>1, DemoteMeans, ModulesAssumption
  <2>2. CASE bitcastGlobalValues
    BY <2>2, GlobalsMeans, ModulesAssumption
  <2>3. CASE bitcastBlockAddresses
    BY <2>3, BlocksMeans, ModulesAssumption
  <2>4. CASE bitcastInstructionOperands
    BY <2>4, OperandsMeans, ModulesAssumption
  <2>5. CASE bitcastFunctionOperands
    BY <2>5, CallsMeans, ModulesAssumption
  <2>6. CASE bitcastTypedArguments
    BY <2>6, ArgsMeans, ModulesAssumption
  <2>7. CASE unit' = unit /\ body' = body
    <3>1. Instrs' = Instrs
      BY <2>7 DEF Instrs
    <3> QED BY <2>7, <3>1 DEF MeansInv
  <2> QED BY <2>1, <2>2, <2>3, <2>4, <2>5, <2>6, <2>7
           DEF Next, vars, rejectVectorGEP, buildPointerMap, rejectCyclicGlobals
<1>3. MeansInv /\ PlacedInv => MeaningKept
  BY MeansKept, ModulesAssumption, PlacementAssumption
<1> QED BY <1>1, <1>2, <1>3, PlacedAlways, PTL DEF Spec
=============================================================================
