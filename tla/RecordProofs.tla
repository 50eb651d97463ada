---------------------------- MODULE RecordProofs ----------------------------
(***************************************************************************)
(* The ways in which numbers are written into records, and that the reader *)
(* finds its way back, for every width of the numbers: lemmas that every   *)
(* record with operands rests on, wherever in the record they stand.       *)
(***************************************************************************)
EXTENDS NodeReader, SequenceTheorems, TLAPS
W50 == INSTANCE Writer50
D50 == INSTANCE Debug50

\* Taking a difference modulo a width, and undoing it.
LEMMA SmallModulus ==
    ASSUME NEW w \in Nat \ {0}, NEW a \in Int, 0 <= a, a < w PROVE a % w = a
BY SMTT(30)

\* The modulus of a negative number.
LEMMA NegativeModulus ==
    ASSUME NEW w \in Nat \ {0}, NEW a \in Int, 0 - w <= a, a < 0
    PROVE  a % w = a + w
BY SMTT(30)

\* A difference modulo n added back gives the number.
LEMMA DifferenceUndone ==
    ASSUME NEW w \in Nat \ {0}, NEW v \in 0 .. w - 1, NEW at \in 0 .. w - 1
    PROVE  /\ (at - v) % w \in 0 .. w - 1
           /\ (at - ((at - v) % w)) % w = v
<1>1. CASE at >= v
  <2>1. (at - v) % w = at - v
      BY <1>1, SmallModulus
  <2> QED  BY <1>1, <2>1, SmallModulus
<1>2. CASE at < v
  <2>1. (at - v) % w = at - v + w
      BY <1>2, NegativeModulus
  <2>2. at - (at - v + w) = v - w
      OBVIOUS
  <2>3. (v - w) % w = v - w + w
      BY NegativeModulus
  <2> QED  BY <1>2, <2>1, <2>2, <2>3
<1> QED  BY <1>1, <1>2

\* Two numbers one after the other, and one alone.
LEMMA NumbersInARow ==
    ASSUME NEW x, NEW y
    PROVE  /\ Len(<<x>> \o <<>>) = 1 /\ (<<x>> \o <<>>)[1] = x
           /\ Len(<<x>> \o <<y>>) = 2 /\ (<<x>> \o <<y>>)[1] = x
<1>1. <<x>> \in Seq({x, y}) /\ <<y>> \in Seq({x, y}) /\ <<>> \in Seq({x, y})
    OBVIOUS
<1>2. Len(<<x>>) = 1 /\ Len(<<y>>) = 1 /\ <<x>>[1] = x
    OBVIOUS
<1> DEFINE a == <<x>> b == <<y>> c == <<>>
<1>3. Len(c) = 0
    OBVIOUS
<1> HIDE DEF a, b, c
<1>4. Len(a \o c) = 1 /\ (a \o c)[1] = x /\ Len(a \o b) = 2 /\ (a \o b)[1] = x
    BY <1>1, <1>2, <1>3, ConcatProperties DEF a, b, c
<1> QED  BY <1>4 DEF a, b, c

\* The numbers of an operand: its distance and, behind that of a forward
\* reference, a type.
LEMMA OperandNumbers ==
    ASSUME NEW v \in Int, NEW at \in Int
    PROVE  /\ W50!PushValueAndType(v, at)[1] = (at - v) % Width
           /\ Len(W50!PushValueAndType(v, at)) = IF v >= at THEN 2 ELSE 1
           /\ W50!PushValueSigned(v, at)[1] =
                IF at >= v THEN 2 * (at - v) ELSE 2 * (v - at) + 1
<1> DEFINE n == (at - v) % Width
           t == TypeID[ValueType[v]]
<1>1. W50!PushValueAndType(v, at) = <<n>> \o (IF v >= at THEN <<t>> ELSE <<>>)
    BY DEF W50!PushValueAndType, W50!PushTyped, W50!PushValue, W50!If
<1> HIDE DEF n, t
<1>2. /\ v >= at => W50!PushValueAndType(v, at) = <<n>> \o <<t>>
      /\ ~(v >= at) => W50!PushValueAndType(v, at) = <<n>> \o <<>>
    BY <1>1
<1>3. /\ W50!PushValueAndType(v, at)[1] = n
      /\ Len(W50!PushValueAndType(v, at)) = IF v >= at THEN 2 ELSE 1
  <2> DEFINE w == W50!PushValueAndType(v, at)
  <2>1. (v >= at => w = <<n>> \o <<t>>) /\ (~(v >= at) => w = <<n>> \o <<>>)
      BY <1>2
  <2> HIDE DEF w
  <2>2. CASE v >= at
    <3>1. Len(<<n>> \o <<t>>) = 2 /\ (<<n>> \o <<t>>)[1] = n
        BY NumbersInARow
    <3> QED  BY <2>1, <2>2, <3>1 DEF w
  <2>3. CASE ~(v >= at)
    <3>1. Len(<<n>> \o <<>>) = 1 /\ (<<n>> \o <<>>)[1] = n
        BY NumbersInARow
    <3> QED  BY <2>1, <2>3, <3>1 DEF w
  <2> QED  BY <2>2, <2>3 DEF w
<1>4. W50!PushValueSigned(v, at)[1] =
        IF at >= v THEN 2 * (at - v) ELSE 2 * (v - at) + 1
    BY DEF W50!PushValueSigned
<1> QED  BY <1>3, <1>4 DEF n

\* The reader takes a type after an operand exactly if the writer wrote one,
\* and gets the operand's number back: for any numbers of values, in any
\* record, also if the difference wraps.
THEOREM OperandReadBack ==
    ASSUME NEW v \in 0 .. Width - 1, NEW at \in 0 .. Width - 1,
           NEW ops, NEW pos \in Nat, NEW release, NEW role, NEW item,
           LET written == W50!PushValueAndType(v, at)
           IN /\ pos + Len(written) - 1 <= Len(ops) /\ Len(ops) \in Nat
              /\ \A n \in 1 .. Len(written) : ops[pos + n - 1] = written[n]
    PROVE  /\ SizeOf("VT", ops, pos, at) = Len(W50!PushValueAndType(v, at))
           /\ Value(release, Field("VT", role), item, ops, pos, at) = v
<1> DEFINE written == W50!PushValueAndType(v, at)
<1>1. Width \in Nat \ {0} /\ v \in Int /\ at \in Int
    BY WidthAssumption
<1>2. written[1] = (at - v) % Width /\ Len(written) = IF v >= at THEN 2 ELSE 1
    BY <1>1, OperandNumbers
<1> HIDE DEF written
<1>3. ops[pos] = (at - v) % Width /\ pos <= Len(ops)
  <2>1. /\ pos + Len(written) - 1 <= Len(ops)
        /\ \A n \in 1 .. Len(written) : ops[pos + n - 1] = written[n]
      BY DEF written
  <2>2. 1 \in 1 .. Len(written) /\ pos + 1 - 1 = pos
      BY <1>2
  <2> QED  BY <1>2, <2>1, <2>2
<1>4. (at - ((at - v) % Width)) % Width = v
    BY <1>1, DifferenceUndone
<1>5. (at - ops[pos]) % Width = v
    BY <1>3, <1>4
<1>6. SizeOf("VT", ops, pos, at) = Len(written)
    BY <1>2, <1>5 DEF SizeOf, Typed
<1>7. Value(release, Field("VT", role), item, ops, pos, at) = v
    BY <1>3, <1>5 DEF Value, Field
<1> QED  BY <1>6, <1>7 DEF written

\* A phi's operand, whose sign is in the lowest bit.
THEOREM IncomingReadBack ==
    ASSUME NEW v \in Nat, NEW at \in Nat
    PROVE  Signed(W50!PushValueSigned(v, at)[1], at) = v
<1>1. CASE at >= v
  <2>1. W50!PushValueSigned(v, at)[1] = 2 * (at - v)
      BY <1>1, OperandNumbers
  <2>2. (2 * (at - v)) % 2 = 0 /\ (2 * (at - v)) \div 2 = at - v
      OBVIOUS
  <2> QED  BY <2>1, <2>2 DEF Signed
<1>2. CASE ~(at >= v)
  <2>1. W50!PushValueSigned(v, at)[1] = 2 * (v - at) + 1
      BY <1>2, OperandNumbers
  <2>2. (2 * (v - at) + 1) % 2 = 1 /\ (2 * (v - at) + 1) \div 2 = v - at
      OBVIOUS
  <2> QED  BY <2>1, <2>2 DEF Signed
<1> QED  BY <1>1, <1>2

\* A number of a debug info node, with its sign in the lowest bit.
THEOREM NumberReadBack ==
    ASSUME NEW v \in Int PROVE UnrotateSign(D50!RotateSign(v)) = v
BY DEF UnrotateSign, D50!RotateSign

\* An integer constant, also the least one, whose number without the sign is
\* nothing.
THEOREM IntegerReadBack ==
    ASSUME NEW v \in Int, - IntRange <= 2 * v, 2 * v < IntRange
    PROVE  SignedOf(W50!EmitSigned(v)[1]) = v
<1>1. CASE v >= 0
  <2>1. (2 * v) % IntRange = 2 * v
      BY <1>1, SmallModulus, WidthAssumption
  <2>2. W50!EmitSigned(v)[1] = 2 * v
      BY <1>1, <2>1 DEF W50!EmitSigned
  <2> QED  BY <1>1, <2>2 DEF SignedOf
<1>2. CASE v < 0 /\ - IntRange < 2 * v
  <2>1. (2 * (- v)) % IntRange = 2 * (- v)
      BY <1>2, SmallModulus, WidthAssumption
  <2>2. W50!EmitSigned(v)[1] = 2 * (- v) + 1
      BY <1>2, <2>1 DEF W50!EmitSigned
  <2> QED  BY <1>2, <2>2 DEF SignedOf
<1>3. CASE - IntRange = 2 * v
  <2>1. IntRange = 2 * (- v) /\ v < 0 /\ IntRange \div 2 = - v
      BY <1>3, WidthAssumption
  <2>2. (2 * (- v)) % IntRange = 0
    <3>1. \A w \in Nat \ {0} : w % w = 0
        BY SMTT(30)
    <3> QED  BY <2>1, <3>1, WidthAssumption
  <2>3. W50!EmitSigned(v)[1] = 1
      BY <2>1, <2>2 DEF W50!EmitSigned
  <2> QED  BY <2>1, <2>3 DEF SignedOf
<1> QED  BY <1>1, <1>2, <1>3, WidthAssumption
=============================================================================
