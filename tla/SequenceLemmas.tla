--------------------------- MODULE SequenceLemmas ---------------------------
(***************************************************************************)
(* What the proofs about the models need of numbers and sequences: the     *)
(* induction over the numbers up to one, and what FlattenSeq and RemoveAt  *)
(* of the community modules make of a sequence.                            *)
(***************************************************************************)
EXTENDS Integers, Sequences, SequencesExt, SequenceTheorems,
        WellFoundedInduction, TLAPS

-----------------------------------------------------------------------------
(* Numbers *)

\* A set of numbers has a least one: the induction of this module.
LEMMA LeastNumber ==
    ASSUME NEW S, S \subseteq Nat, S # {}
    PROVE  \E n \in S : \A m \in S : n <= m
<1> DEFINE R == {ss \in Nat \X Nat : ss[1] < ss[2]}
<1>1. IsWellFoundedOn(R, Nat)
  BY NatLessThanWellFounded DEF OpToRel
<1>2. \A x, y \in Nat : y < x => <<y, x>> \in R
  OBVIOUS
<1> HIDE DEF R
<1>3. PICK n \in S : \A m \in S : <<m, n>> \notin R
  BY <1>1, WFMin
<1>4. ASSUME NEW m \in S PROVE n <= m
  <2>1. m \in Nat /\ n \in Nat
    OBVIOUS
  <2>2. ~(m < n)
    BY <1>2, <1>3, <2>1
  <2> QED BY <2>1, <2>2
<1> QED BY <1>4

\* A set that has the first number, and the next after each, has them all.
LEMMA AllNumbers ==
    ASSUME NEW N \in Nat, NEW S, 0 \in S, \A n \in 1 .. N : n - 1 \in S => n \in S
    PROVE  0 .. N \subseteq S
<1> DEFINE Bad == (0 .. N) \ S
<1> SUFFICES ASSUME Bad # {} PROVE FALSE
  OBVIOUS
<1>1. PICK n \in Bad : \A m \in Bad : n <= m
  <2>1. Bad \subseteq Nat
    OBVIOUS
  <2> HIDE DEF Bad
  <2> QED BY <2>1, LeastNumber
<1>2. n \in 1 .. N /\ n \notin S
  BY <1>1
<1>3. n - 1 \notin Bad
  <2>1. ~(n <= n - 1)
    BY <1>2
  <2> HIDE DEF Bad
  <2> QED BY <1>1, <2>1
<1> QED BY <1>2, <1>3

-----------------------------------------------------------------------------
(* Sequences *)

\* A function on the numbers up to one is a sequence.
LEMMA IsSequence ==
    ASSUME NEW S, NEW n \in Nat, NEW f, DOMAIN f = 1 .. n,
           f = [k \in 1 .. n |-> f[k]], \A k \in 1 .. n : f[k] \in S
    PROVE  f \in Seq(S) /\ Len(f) = n
<1>1. f \in [1 .. n -> S]
  OBVIOUS
<1> QED BY <1>1, SeqDef, LenProperties

\* A sequence without its pth element.
LEMMA Removed ==
  ASSUME NEW S, NEW fs \in Seq(S), NEW p \in 1 .. Len(fs)
  PROVE  /\ RemoveAt(fs, p) \in Seq(S) /\ Len(RemoveAt(fs, p)) = Len(fs) - 1
         /\ \A n \in 1 .. Len(fs) - 1 :
              RemoveAt(fs, p)[n] = IF n < p THEN fs[n] ELSE fs[n + 1]
<1> DEFINE a == SubSeq(fs, 1, p - 1)
           b == SubSeq(fs, p + 1, Len(fs))
<1>1. Len(fs) \in Nat /\ p \in Nat /\ 1 <= p /\ p <= Len(fs)
  OBVIOUS
<1>2. a \in Seq(S) /\ Len(a) = p - 1 /\ \A n \in 1 .. p - 1 : a[n] = fs[n]
  <2>1. \A n \in 1 .. p - 1 : fs[n] \in S
    BY <1>1
  <2> QED BY <2>1, <1>1, SubSeqProperties
<1>3. b \in Seq(S) /\ Len(b) = Len(fs) - p /\ \A n \in 1 .. Len(fs) - p : b[n] = fs[n + p]
  <2>1. \A n \in p + 1 .. Len(fs) : fs[n] \in S
    BY <1>1
  <2>2. b \in Seq(S) /\ Len(b) = IF p + 1 <= Len(fs) THEN Len(fs) - (p + 1) + 1 ELSE 0
    BY <2>1, <1>1, SubSeqProperties
  <2>3. \A n \in 1 .. Len(fs) - (p + 1) + 1 : b[n] = fs[(p + 1) + n - 1]
    BY <2>1, <1>1, SubSeqProperties
  <2> QED BY <2>2, <2>3, <1>1
<1>4. RemoveAt(fs, p) = a \o b
  BY DEF RemoveAt
<1> HIDE DEF a, b
<1>5. /\ a \o b \in Seq(S) /\ Len(a \o b) = Len(a) + Len(b)
      /\ \A n \in 1 .. Len(a) + Len(b) :
           (a \o b)[n] = IF n <= Len(a) THEN a[n] ELSE b[n - Len(a)]
  BY <1>2, <1>3, ConcatProperties
<1>6. ASSUME NEW n \in 1 .. Len(fs) - 1
      PROVE  (a \o b)[n] = IF n < p THEN fs[n] ELSE fs[n + 1]
  <2>1. (a \o b)[n] = IF n <= p - 1 THEN a[n] ELSE b[n - (p - 1)]
    BY <1>1, <1>2, <1>3, <1>5, SMTT(30)
  <2>2. CASE n < p
    BY <2>1, <2>2, <1>1, <1>2
  <2>3. CASE ~ (n < p)
    <3>1. n - (p - 1) \in 1 .. Len(fs) - p /\ n - (p - 1) + p = n + 1
      BY <2>3, <1>1
    <3> QED BY <2>1, <2>3, <3>1, <1>1, <1>3
  <2> QED BY <2>2, <2>3
<1>7. a \o b \in Seq(S) /\ Len(a \o b) = Len(fs) - 1
  <2>1. Len(a) + Len(b) = Len(fs) - 1
    BY <1>1, <1>2, <1>3
  <2> QED BY <1>5, <2>1
<1> QED BY <1>4, <1>6, <1>7

-----------------------------------------------------------------------------
(* Flattened sequences *)

\* The sequences that the first pieces of ss make up, one after the other.
Concats(ss, F) ==
    F[0] = <<>> /\ \A n \in 1 .. Len(ss) : F[n] = F[n - 1] \o ss[n]

\* They can be put together, however many they are.
LEMMA ConcatsExist ==
    ASSUME NEW S, NEW ss \in Seq(Seq(S))
    PROVE  \E F \in [0 .. Len(ss) -> Seq(S)] : Concats(ss, F)
<1> DEFINE N == Len(ss)
           Steps(F, n) == F[0] = <<>> /\ \A m \in 1 .. n : F[m] = F[m - 1] \o ss[m]
           Good == {n \in 0 .. N : \E F \in [0 .. n -> Seq(S)] : Steps(F, n)}
<1>1. N \in Nat /\ \A n \in 1 .. N : ss[n] \in Seq(S)
  BY LenProperties, ElementOfSeq
<1>2. 0 \in Good
  <2> DEFINE F == [n \in 0 .. 0 |-> <<>>]
  <2>1. F[0] = <<>> /\ <<>> \in Seq(S)
    BY EmptySeq
  <2>2. F \in [0 .. 0 -> Seq(S)]
    BY <2>1
  <2>3. Steps(F, 0)
    BY <2>1
  <2>4. 0 \in 0 .. N
    BY <1>1
  <2> HIDE DEF F, Steps
  <2> QED BY <2>2, <2>3, <2>4
<1>3. ASSUME NEW n \in 1 .. N, n - 1 \in Good PROVE n \in Good
  <2>1. PICK F \in [0 .. n - 1 -> Seq(S)] : Steps(F, n - 1)
    BY <1>3
  <2> DEFINE G == [k \in 0 .. n |-> IF k = n THEN F[n - 1] \o ss[n] ELSE F[k]]
  <2>2. F[n - 1] \in Seq(S) /\ ss[n] \in Seq(S)
    BY <1>1, <1>3
  <2>3. F[n - 1] \o ss[n] \in Seq(S)
    BY <2>2, ConcatProperties
  <2>4. /\ G \in [0 .. n -> Seq(S)] /\ G[n] = F[n - 1] \o ss[n]
        /\ \A k \in 0 .. n - 1 : G[k] = F[k]
    <3> DEFINE T == F[n - 1] \o ss[n]
    <3> HIDE DEF T, Steps
    <3>1. G = [k \in 0 .. n |-> IF k = n THEN T ELSE F[k]]
      BY DEF T
    <3>2. T \in Seq(S)
      BY <2>3 DEF T
    <3> HIDE DEF G
    <3>3. G \in [0 .. n -> Seq(S)]
      BY <1>3, <3>1, <3>2
    <3>4. G[n] = T
      BY <1>3, <3>1
    <3>5. \A k \in 0 .. n - 1 : G[k] = F[k]
      BY <1>3, <3>1
    <3> QED BY <3>3, <3>4, <3>5 DEF T
  <2> HIDE DEF G
  <2>5. G[0] = <<>>
    BY <1>3, <2>1, <2>4
  <2>6. ASSUME NEW k \in 1 .. n PROVE G[k] = G[k - 1] \o ss[k]
    <3>1. k - 1 \in 0 .. n - 1 /\ G[k - 1] = F[k - 1]
      BY <1>3, <2>4
    <3>2. CASE k = n
      BY <2>4, <3>1, <3>2
    <3>3. CASE k # n
      <4>1. k \in 1 .. n - 1 /\ k \in 0 .. n - 1
        BY <1>3, <3>3
      <4> QED BY <2>1, <2>4, <3>1, <4>1
    <3> QED BY <3>2, <3>3
  <2>7. Steps(G, n)
    BY <2>5, <2>6
  <2>8. n \in 0 .. N
    BY <1>1, <1>3
  <2> HIDE DEF Steps
  <2> QED BY <2>4, <2>7, <2>8
<1> HIDE DEF Good
<1>4. 0 .. N \subseteq Good
  <2> HIDE DEF N
  <2> QED BY <1>1, <1>2, <1>3, AllNumbers
<1>5. N \in Good
  BY <1>1, <1>4
<1>6. PICK F \in [0 .. N -> Seq(S)] : Steps(F, N)
  BY <1>5 DEF Good
<1> QED BY <1>6 DEF Concats

\* A flattened sequence is what they come to.
LEMMA FlattenConcats ==
    ASSUME NEW S, NEW ss \in Seq(Seq(S)), NEW F \in [0 .. Len(ss) -> Seq(S)],
           Concats(ss, F)
    PROVE  FlattenSeq(ss) = F[Len(ss)]
<1> DEFINE N == Len(ss)
           Of(f) == [i \in 1 .. N |-> IF i = 1 THEN ss[i] ELSE f[i - 1] \o ss[i]]
           From == CHOOSE f : f = Of(f)
<1>1. N \in Nat /\ \A n \in 1 .. N : ss[n] \in Seq(S)
  BY LenProperties, ElementOfSeq
<1>2. CASE N = 0
  <2>1. ss = <<>>
    BY <1>2, EmptySeq
  <2>2. FlattenSeq(ss) = ss
    BY <1>2 DEF FlattenSeq
  <2> QED BY <1>2, <2>1, <2>2 DEF Concats
<1>3. CASE N # 0
  <2>1. FlattenSeq(ss) = From[N]
    BY <1>3 DEF FlattenSeq
  <2> DEFINE G == [i \in 1 .. N |-> F[i]]
  <2>2. G = Of(G)
    <3>1. ASSUME NEW i \in 1 .. N
          PROVE  G[i] = IF i = 1 THEN ss[i] ELSE G[i - 1] \o ss[i]
      <4>1. G[i] = F[i] /\ F[i] = F[i - 1] \o ss[i]
        BY DEF Concats
      <4>2. CASE i = 1
        <5>1. F[i - 1] = <<>>
          BY <4>2 DEF Concats
        <5>2. <<>> \o ss[i] = ss[i]
          BY <1>1, ConcatEmptySeq
        <5> QED BY <4>1, <4>2, <5>1, <5>2
      <4>3. CASE i # 1
        <5>1. i - 1 \in 1 .. N
          BY <1>1, <4>3
        <5> QED BY <4>1, <4>3, <5>1
      <4> QED BY <4>2, <4>3
    <3> HIDE DEF N
    <3>2. G = [i \in 1 .. N |-> G[i]]
      OBVIOUS
    <3> HIDE DEF G
    <3> QED BY <3>1, <3>2
  <2> HIDE DEF G
  <2>3. From = Of(From)
    <3> HIDE DEF Of
    <3> QED BY <2>2
  <2> HIDE DEF From
  <2>4. ASSUME NEW i \in 1 .. N
        PROVE  From[i] = IF i = 1 THEN ss[i] ELSE From[i - 1] \o ss[i]
    <3> HIDE DEF N
    <3> QED BY <2>3
  <2> HIDE DEF Of
  <2> DEFINE Good == {n \in 0 .. N : n > 0 => From[n] = F[n]}
  <2>5. 0 \in Good
    BY <1>1
  <2>6. ASSUME NEW n \in 1 .. N, n - 1 \in Good PROVE n \in Good
    <3>1. F[n] = F[n - 1] \o ss[n]
      BY DEF Concats
    <3>2. CASE n = 1
      <4>1. F[n - 1] = <<>>
        BY <3>2 DEF Concats
      <4>2. <<>> \o ss[n] = ss[n]
        BY <1>1, ConcatEmptySeq
      <4> QED BY <1>1, <2>4, <3>1, <3>2, <4>1, <4>2
    <3>3. CASE n # 1
      <4>1. n - 1 > 0
        BY <1>1, <3>3
      <4>2. From[n - 1] = F[n - 1]
        BY <2>6, <4>1
      <4>3. From[n] = F[n]
        BY <2>4, <3>1, <3>3, <4>2
      <4>4. n \in 0 .. N
        BY <1>1
      <4> QED BY <4>3, <4>4
    <3> QED BY <3>2, <3>3
  <2> HIDE DEF Good
  <2>7. 0 .. N \subseteq Good
    <3> HIDE DEF N
    <3> QED BY <1>1, <2>5, <2>6, AllNumbers
  <2>8. N \in Good
    BY <1>1, <2>7
  <2> QED BY <1>1, <1>3, <2>1, <2>8 DEF Good
<1> QED BY <1>2, <1>3

\* It has the elements of its pieces, and no others.
LEMMA RangeFlatten ==
    ASSUME NEW S, NEW ss \in Seq(Seq(S))
    PROVE  /\ FlattenSeq(ss) \in Seq(S)
           /\ \A x : x \in Range(FlattenSeq(ss)) <=>
                     \E n \in DOMAIN ss : x \in Range(ss[n])
<1> DEFINE N == Len(ss)
<1>1. PICK F \in [0 .. N -> Seq(S)] : Concats(ss, F)
  BY ConcatsExist
<1>2. FlattenSeq(ss) = F[N]
  BY <1>1, FlattenConcats
<1>3. N \in Nat /\ DOMAIN ss = 1 .. N /\ \A n \in 1 .. N : ss[n] \in Seq(S)
  BY LenProperties, ElementOfSeq
<1>4. F[0] = <<>> /\ \A n \in 1 .. N : F[n] = F[n - 1] \o ss[n]
  BY <1>1 DEF Concats
<1> HIDE DEF N
<1> DEFINE Has(n) == \A x : x \in Range(F[n]) <=> \E m \in 1 .. n : x \in Range(ss[m])
           Good == {n \in 0 .. N : Has(n)}
<1>5. 0 \in Good
  <2>1. Range(<<>>) = {}
    BY DEF Range
  <2>2. 1 .. 0 = {}
    OBVIOUS
  <2> QED BY <1>3, <1>4, <2>1, <2>2
<1>6. ASSUME NEW n \in 1 .. N, n - 1 \in Good PROVE n \in Good
  <2>1. F[n - 1] \in Seq(S) /\ ss[n] \in Seq(S)
    BY <1>3
  <2>2. Range(F[n]) = Range(F[n - 1]) \cup Range(ss[n])
    <3>1. Range(F[n - 1] \o ss[n]) = Range(F[n - 1]) \cup Range(ss[n])
      BY <2>1, RangeConcatenation
    <3>2. F[n] = F[n - 1] \o ss[n]
      BY <1>4
    <3> QED BY <3>1, <3>2
  <2>3. \A m : m \in 1 .. n <=> m \in 1 .. n - 1 \/ m = n
    BY <1>3
  <2>4. Has(n - 1)
    BY <1>6
  <2>5. n \in 0 .. N
    BY <1>3
  <2>6. Has(n)
    BY <2>2, <2>3, <2>4
  <2> HIDE DEF Has
  <2> QED BY <2>5, <2>6
<1> HIDE DEF Good
<1>7. 0 .. N \subseteq Good
  BY <1>3, <1>5, <1>6, AllNumbers
<1>8. N \in Good
  BY <1>3, <1>7
<1> QED BY <1>2, <1>3, <1>8 DEF Good

\* Piece n stands behind the place off[n], up to where the next one begins.
Offsets(ss, off) ==
    /\ off \in [1 .. Len(ss) -> Nat]
    /\ \A n \in 1 .. Len(ss) : \A p \in 1 .. Len(ss[n]) :
         /\ off[n] + p \in DOMAIN FlattenSeq(ss)
         /\ FlattenSeq(ss)[off[n] + p] = ss[n][p]
    /\ \A m, n \in 1 .. Len(ss) : m < n => off[m] + Len(ss[m]) <= off[n]
    /\ \A q \in DOMAIN FlattenSeq(ss) :
         \E n \in 1 .. Len(ss) : \E p \in 1 .. Len(ss[n]) : q = off[n] + p

LEMMA JoinPlaces ==
    ASSUME NEW S, NEW f \in Seq(S), NEW s \in Seq(S)
    PROVE  /\ Len(f \o s) = Len(f) + Len(s)
           /\ \A q \in 1 .. Len(f) : (f \o s)[q] = f[q]
           /\ \A p \in 1 .. Len(s) : (f \o s)[Len(f) + p] = s[p]
<1>1. /\ Len(f) \in Nat /\ Len(s) \in Nat
      /\ Len(f \o s) = Len(f) + Len(s)
      /\ \A q \in 1 .. Len(f) + Len(s) :
           (f \o s)[q] = IF q <= Len(f) THEN f[q] ELSE s[q - Len(f)]
  BY ConcatProperties, LenProperties
<1> DEFINE a == Len(f)
           k == Len(s)
           g == f \o s
<1>2. a \in Nat /\ k \in Nat /\ \A q \in 1 .. a + k : g[q] = IF q <= a THEN f[q] ELSE s[q - a]
  BY <1>1
<1> HIDE DEF a, k, g
<1>3. \A q \in 1 .. a : g[q] = f[q]
  BY <1>2
<1>4. ASSUME NEW p \in 1 .. k PROVE g[a + p] = s[p]
  <2>1. a + p \in 1 .. a + k /\ ~(a + p <= a) /\ a + p - a = p
    BY <1>2
  <2> QED BY <1>2, <2>1
<1> QED BY <1>1, <1>3, <1>4 DEF a, k, g

LEMMA OffsetsExist ==
    ASSUME NEW S, NEW ss \in Seq(Seq(S))
    PROVE  \E off : Offsets(ss, off)
<1> DEFINE N == Len(ss)
<1>1. PICK F \in [0 .. N -> Seq(S)] : Concats(ss, F)
  BY ConcatsExist
<1>2. FlattenSeq(ss) = F[N]
  BY <1>1, FlattenConcats
<1>3. N \in Nat /\ DOMAIN ss = 1 .. N /\ \A n \in 1 .. N : ss[n] \in Seq(S)
  BY LenProperties, ElementOfSeq
<1>4. F[0] = <<>> /\ \A n \in 1 .. N : F[n] = F[n - 1] \o ss[n]
  BY <1>1 DEF Concats
<1> HIDE DEF N
<1>5. \A n \in 0 .. N : Len(F[n]) \in Nat /\ DOMAIN F[n] = 1 .. Len(F[n])
  BY LenProperties
<1>6. \A n \in 1 .. N : Len(ss[n]) \in Nat /\ DOMAIN ss[n] = 1 .. Len(ss[n])
  BY <1>3, LenProperties
<1> DEFINE L == [n \in 0 .. N |-> Len(F[n])]
           K == [n \in 1 .. N |-> Len(ss[n])]
<1>7. /\ L \in [0 .. N -> Nat] /\ K \in [1 .. N -> Nat]
      /\ \A n \in 0 .. N : L[n] = Len(F[n]) /\ DOMAIN F[n] = 1 .. L[n]
      /\ \A n \in 1 .. N : K[n] = Len(ss[n])
  BY <1>5, <1>6
<1> HIDE DEF L, K
<1>8. ASSUME NEW n \in 1 .. N
      PROVE  /\ n - 1 \in 0 .. N /\ n \in 0 .. N /\ L[n] = L[n - 1] + K[n]
             /\ \A q \in 1 .. L[n - 1] : F[n][q] = F[n - 1][q]
             /\ \A p \in 1 .. K[n] : F[n][L[n - 1] + p] = ss[n][p]
  <2> DEFINE f == F[n - 1]
             s == ss[n]
  <2>1. n - 1 \in 0 .. N /\ n \in 0 .. N
    BY <1>3
  <2>2. f \in Seq(S) /\ s \in Seq(S) /\ Len(f) = L[n - 1] /\ Len(s) = K[n]
        /\ Len(F[n]) = L[n] /\ L[n - 1] \in Nat /\ K[n] \in Nat
    BY <1>3, <1>7, <2>1
  <2>3. F[n] = f \o s
    BY <1>4
  <2> HIDE DEF f, s
  <2>4. /\ Len(f \o s) = Len(f) + Len(s)
        /\ \A q \in 1 .. Len(f) : (f \o s)[q] = f[q]
        /\ \A p \in 1 .. Len(s) : (f \o s)[Len(f) + p] = s[p]
    <3>1. f \in Seq(S) /\ s \in Seq(S)
      BY <2>2
    <3> QED BY <3>1, JoinPlaces
  <2> DEFINE a == L[n - 1]
             k == K[n]
             g == F[n]
  <2>5. /\ L[n] = a + k /\ \A q \in 1 .. a : g[q] = f[q]
        /\ \A p \in 1 .. k : g[a + p] = s[p]
    <3>1. Len(f) = a /\ Len(s) = k /\ Len(g) = L[n] /\ g = f \o s
      BY <2>2, <2>3
    <3> HIDE DEF a, k, g
    <3> QED BY <2>4, <3>1
  <2> HIDE DEF a, k, g
  <2>6. /\ \A q \in 1 .. a : g[q] = F[n - 1][q]
        /\ \A p \in 1 .. k : g[a + p] = ss[n][p]
    BY <2>5 DEF f, s
  <2> QED BY <2>1, <2>5, <2>6 DEF a, k, g
<1> DEFINE Stands(n) == \A m \in 1 .. n : \A p \in 1 .. K[m] :
                          L[m - 1] + p <= L[n] /\ F[n][L[m - 1] + p] = ss[m][p]
           Grows(n) == \A m \in 0 .. n : L[m] <= L[n]
           Met(n) == \A q \in 1 .. L[n] : \E m \in 1 .. n :
                       \E p \in 1 .. K[m] : q = L[m - 1] + p
           Good == {n \in 0 .. N : Stands(n) /\ Grows(n) /\ Met(n)}
<1>9. 0 \in Good
  <2>1. L[0] = 0
    BY <1>3, <1>4, <1>7
  <2> QED BY <1>3, <2>1
<1>10. ASSUME NEW n \in 1 .. N, n - 1 \in Good PROVE n \in Good
  <2>1. Stands(n - 1) /\ Grows(n - 1) /\ Met(n - 1)
    BY <1>10
  <2>2. /\ n \in Nat /\ L[n - 1] \in Nat /\ L[n] \in Nat /\ K[n] \in Nat
        /\ L[n] = L[n - 1] + K[n] /\ n \in 0 .. N
    BY <1>3, <1>7, <1>8
  <2> DEFINE a == L[n - 1]
             k == K[n]
             l == L[n]
  <2>6. a \in Nat /\ k \in Nat /\ l \in Nat /\ l = a + k
    BY <2>2
  <2>3. ASSUME NEW m \in 1 .. n, NEW p \in 1 .. K[m]
        PROVE  L[m - 1] + p <= L[n] /\ F[n][L[m - 1] + p] = ss[m][p]
    <3>1. CASE m = n
      <4>1. p \in 1 .. K[n]
        BY <3>1
      <4>2. F[n][L[n - 1] + p] = ss[n][p]
        BY <1>8, <4>1
      <4>3. a + p <= l
        <5>1. p \in 1 .. k
          BY <4>1
        <5> HIDE DEF a, k, l
        <5> QED BY <2>6, <5>1
      <4> QED BY <3>1, <4>2, <4>3
    <3>2. CASE m # n
      <4>1. m \in 1 .. n - 1 /\ m \in 1 .. N /\ m - 1 \in 0 .. N
        BY <1>3, <2>2, <3>2
      <4>2. L[m - 1] + p <= L[n - 1] /\ F[n - 1][L[m - 1] + p] = ss[m][p]
        BY <2>1, <4>1
      <4>3. L[m - 1] \in Nat /\ K[m] \in Nat
        BY <1>7, <4>1
      <4> DEFINE c == L[m - 1]
                 d == K[m]
      <4>4. c + p \in 1 .. a /\ c + p <= l
        <5>1. c \in Nat /\ d \in Nat /\ p \in 1 .. d /\ c + p <= a
          BY <4>2, <4>3
        <5> HIDE DEF a, k, l, c, d
        <5> QED BY <2>6, <5>1
      <4>5. F[n][L[m - 1] + p] = F[n - 1][L[m - 1] + p]
        BY <1>8, <4>4
      <4> QED BY <4>2, <4>4, <4>5
    <3> QED BY <3>1, <3>2
  <2>4. ASSUME NEW m \in 0 .. n PROVE L[m] <= L[n]
    <3>1. CASE m = n
      BY <2>2, <3>1
    <3>2. CASE m # n
      <4>1. m \in 0 .. n - 1 /\ m \in 0 .. N
        BY <1>3, <2>2, <3>2
      <4>2. L[m] <= L[n - 1] /\ L[m] \in Nat
        BY <1>7, <2>1, <4>1
      <4> QED BY <2>2, <4>2
    <3> QED BY <3>1, <3>2
  <2>5. ASSUME NEW q \in 1 .. L[n]
        PROVE  \E m \in 1 .. n : \E p \in 1 .. K[m] : q = L[m - 1] + p
    <3>1. CASE q <= L[n - 1]
      <4>1. q \in 1 .. L[n - 1]
        BY <2>2, <3>1
      <4>2. PICK m \in 1 .. n - 1 : \E p \in 1 .. K[m] : q = L[m - 1] + p
        BY <2>1, <4>1
      <4>3. m \in 1 .. n
        BY <2>2
      <4> QED BY <4>2, <4>3
    <3>2. CASE ~(q <= L[n - 1])
      <4>1. q - L[n - 1] \in 1 .. K[n] /\ q = L[n - 1] + (q - L[n - 1])
        BY <2>2, <3>2
      <4>2. n \in 1 .. n
        BY <2>2
      <4> QED BY <4>1, <4>2
    <3> QED BY <3>1, <3>2
  <2> QED BY <2>2, <2>3, <2>4, <2>5
<1> HIDE DEF Good
<1>11. 0 .. N \subseteq Good
  BY <1>3, <1>9, <1>10, AllNumbers
<1>12. Stands(N) /\ Met(N) /\ \A n \in 0 .. N : Grows(n)
  <2>1. N \in Good /\ \A n \in 0 .. N : n \in Good
    BY <1>3, <1>11
  <2> QED BY <2>1 DEF Good
<1> DEFINE off == [n \in 1 .. N |-> L[n - 1]]
<1>13. off \in [1 .. N -> Nat] /\ \A n \in 1 .. N : off[n] = L[n - 1]
  BY <1>7, <1>8
<1> HIDE DEF off
<1>14. ASSUME NEW n \in 1 .. N, NEW p \in 1 .. K[n]
       PROVE  off[n] + p \in DOMAIN F[N] /\ F[N][off[n] + p] = ss[n][p]
  <2>1. L[n - 1] + p <= L[N] /\ F[N][L[n - 1] + p] = ss[n][p]
    BY <1>12
  <2>2. /\ L[n - 1] \in Nat /\ L[N] \in Nat /\ K[n] \in Nat
        /\ DOMAIN F[N] = 1 .. L[N] /\ off[n] = L[n - 1]
    BY <1>3, <1>7, <1>8, <1>13
  <2> DEFINE a == L[n - 1]
             k == K[n]
             e == L[N]
  <2>3. a \in Nat /\ e \in Nat /\ k \in Nat /\ p \in 1 .. k /\ a + p <= e
    BY <2>1, <2>2
  <2>4. a + p \in 1 .. e
    <3> HIDE DEF a, k, e
    <3> QED BY <2>3
  <2> QED BY <2>1, <2>2, <2>4
<1>15. ASSUME NEW m \in 1 .. N, NEW n \in 1 .. N, m < n
       PROVE  off[m] + K[m] <= off[n]
  <2>1. L[m] = L[m - 1] + K[m]
    BY <1>8
  <2>2. n - 1 \in 0 .. N /\ m \in 0 .. n - 1
    BY <1>3, <1>15
  <2>3. L[m] <= L[n - 1]
    BY <1>12, <2>2
  <2> QED BY <1>13, <2>1, <2>3
<1>16. ASSUME NEW q \in DOMAIN F[N]
       PROVE  \E n \in 1 .. N : \E p \in 1 .. K[n] : q = off[n] + p
  <2>1. q \in 1 .. L[N]
    BY <1>3, <1>7
  <2>2. PICK n \in 1 .. N : \E p \in 1 .. K[n] : q = L[n - 1] + p
    BY <1>12, <2>1
  <2> QED BY <1>13, <2>2
<1>17. \A n \in 1 .. N : K[n] = Len(ss[n])
  BY <1>7
<1>18. Offsets(ss, off)
  <2>1. N = Len(ss)
    BY DEF N
  <2> DEFINE z == FlattenSeq(ss)
  <2>2. z = F[N]
    BY <1>2
  <2>3. \A n \in 1 .. N : \A p \in 1 .. Len(ss[n]) :
           off[n] + p \in DOMAIN z /\ z[off[n] + p] = ss[n][p]
    BY <1>14, <1>17, <2>2
  <2>4. \A m, n \in 1 .. N : m < n => off[m] + Len(ss[m]) <= off[n]
    BY <1>15, <1>17
  <2>5. \A q \in DOMAIN z : \E n \in 1 .. N : \E p \in 1 .. Len(ss[n]) : q = off[n] + p
    BY <1>16, <1>17, <2>2
  <2> QED BY <1>13, <2>1, <2>3, <2>4, <2>5 DEF Offsets
<1> QED BY <1>18

\* Pieces that are empty but for those of one element come to these elements.
LEMMA SinglesFlatten ==
    ASSUME NEW X, NEW ss \in Seq(Seq(X)), NEW xs \in Seq(X),
           NEW pos \in [1 .. Len(xs) -> 1 .. Len(ss)],
           \A m, n \in 1 .. Len(xs) : m < n => pos[m] < pos[n],
           \A n \in 1 .. Len(xs) : ss[pos[n]] = <<xs[n]>>,
           \A m \in 1 .. Len(ss) : (\A n \in 1 .. Len(xs) : pos[n] # m) => ss[m] = <<>>
    PROVE  FlattenSeq(ss) = xs
<1> DEFINE L == Len(ss)
           N == Len(xs)
           Pre(c) == [n \in 1 .. c |-> xs[n]]
<1>1. L \in Nat /\ N \in Nat /\ DOMAIN xs = 1 .. N /\ xs \in [1 .. N -> X]
  BY LenProperties
<1>2. PICK F \in [0 .. L -> Seq(X)] : Concats(ss, F)
  BY ConcatsExist
<1>3. FlattenSeq(ss) = F[L]
  BY <1>2, FlattenConcats
<1>4. F[0] = <<>> /\ \A m \in 1 .. L : F[m] = F[m - 1] \o ss[m]
  BY <1>2 DEF Concats
<1>5. /\ pos \in [1 .. N -> 1 .. L] /\ \A m, n \in 1 .. N : m < n => pos[m] < pos[n]
      /\ \A n \in 1 .. N : ss[pos[n]] = <<xs[n]>>
      /\ \A m \in 1 .. L : (\A n \in 1 .. N : pos[n] # m) => ss[m] = <<>>
  OBVIOUS
<1> HIDE DEF L, N
<1>0. \A n \in 1 .. N : n \in Int /\ pos[n] \in Int /\ 1 <= pos[n] /\ pos[n] <= L
  BY <1>1, <1>5
<1>6. ASSUME NEW c \in 0 .. N
      PROVE  /\ Pre(c) \in Seq(X) /\ Len(Pre(c)) = c
             /\ \A n \in 1 .. c : Pre(c)[n] = xs[n]
  <2>1. c \in Nat /\ \A n \in 1 .. c : xs[n] \in X
    BY <1>1
  <2>2. DOMAIN Pre(c) = 1 .. c /\ Pre(c) = [n \in 1 .. c |-> Pre(c)[n]]
        /\ \A n \in 1 .. c : Pre(c)[n] = xs[n]
    OBVIOUS
  <2> QED BY <2>1, <2>2, IsSequence
<1>7. ASSUME NEW c \in 1 .. N PROVE Pre(c - 1) \o <<xs[c]>> = Pre(c)
  <2>1. c - 1 \in 0 .. N /\ c \in 0 .. N /\ xs[c] \in X
    BY <1>1
  <2>2. PICK p, q : p = Pre(c - 1) /\ q = Pre(c)
    OBVIOUS
  <2>3. /\ p \in Seq(X) /\ Len(p) = c - 1 /\ \A n \in 1 .. c - 1 : p[n] = xs[n]
        /\ q \in Seq(X) /\ Len(q) = c /\ \A n \in 1 .. c : q[n] = xs[n]
    BY <1>6, <2>1, <2>2
  <2>4. PICK e : e = <<xs[c]>>
    OBVIOUS
  <2>5. e \in Seq(X) /\ Len(e) = 1 /\ e[1] = xs[c]
    BY <2>1, <2>4
  <2>6. /\ p \o e \in Seq(X) /\ Len(p \o e) = c
        /\ \A n \in 1 .. c - 1 : (p \o e)[n] = xs[n]
        /\ (p \o e)[(c - 1) + 1] = xs[c]
    <3>1. 1 \in 1 .. Len(e) /\ (c - 1) + 1 = c
      BY <2>1, <2>5
    <3>2. /\ Len(p \o e) = Len(p) + Len(e)
          /\ \A n \in 1 .. Len(p) : (p \o e)[n] = p[n]
          /\ \A n \in 1 .. Len(e) : (p \o e)[Len(p) + n] = e[n]
      <4>1. p \in Seq(X) /\ e \in Seq(X)
        BY <2>3, <2>5
      <4> QED BY <4>1, JoinPlaces
    <3>3. p \o e \in Seq(X)
      BY <2>3, <2>5, ConcatProperties
    <3> QED BY <2>3, <2>5, <3>1, <3>2, <3>3
  <2>7. \A n \in 1 .. c : (p \o e)[n] = q[n]
    <3>1. (c - 1) + 1 = c /\ \A n \in 1 .. c : n = c \/ n \in 1 .. c - 1
      BY <1>1
    <3> QED BY <2>3, <2>6, <3>1
  <2>8. p \o e = q
    BY <2>3, <2>6, <2>7, SeqEqual
  <2> QED BY <2>2, <2>4, <2>8
<1> DEFINE Upto(m, c) == (\A n \in 1 .. N : n <= c <=> pos[n] <= m) /\ F[m] = Pre(c)
           Good == {m \in 0 .. L : \E c \in 0 .. N : Upto(m, c)}
<1> HIDE DEF Pre
<1>8. 0 \in Good
  <2>1. 0 \in 0 .. L /\ 0 \in 0 .. N
    BY <1>1
  <2>2. \A n \in 1 .. N : n <= 0 <=> pos[n] <= 0
    BY <1>1, <1>5
  <2>3. Pre(0) = <<>>
    <3>1. Pre(0) \in Seq(X) /\ Len(Pre(0)) = 0
      BY <1>6, <2>1
    <3> QED BY <3>1, EmptySeq
  <2> QED BY <1>4, <2>1, <2>2, <2>3
<1>9. ASSUME NEW m \in 1 .. L, m - 1 \in Good PROVE m \in Good
  <2>1. PICK c \in 0 .. N : Upto(m - 1, c)
    BY <1>9
  <2>2. m \in 0 .. L /\ F[m] = Pre(c) \o ss[m] /\ c \in Nat /\ m \in Nat
    <3>1. m \in Nat /\ m \in 0 .. L /\ c \in Nat
      BY <1>1, <2>1
    <3> QED BY <1>4, <2>1, <3>1
  <2>3. CASE \E n \in 1 .. N : pos[n] = m
    <3>1. PICK n \in 1 .. N : pos[n] = m
      BY <2>3
    <3>2. ~(n <= c) /\ n \in Nat
      BY <2>1, <2>2, <3>1
    <3>3. n = c + 1
      <4>1. c + 1 \in 1 .. N
        BY <1>1, <2>2, <3>1, <3>2
      <4>2. CASE c + 1 < n
        <5>1. pos[c + 1] < pos[n] /\ pos[c + 1] \in Nat
          BY <1>0, <1>1, <1>5, <4>1, <4>2
        <5>2. pos[c + 1] <= m - 1
          BY <2>2, <3>1, <5>1
        <5> QED BY <2>1, <2>2, <4>1, <5>2
      <4> QED BY <2>2, <3>2, <4>2
    <3>4. F[m] = Pre(n)
      <4>1. ss[m] = <<xs[n]>>
        BY <1>5, <3>1
      <4>2. n - 1 = c
        BY <2>2, <3>3
      <4> QED BY <1>7, <2>2, <4>1, <4>2
    <3>5. ASSUME NEW h \in 1 .. N PROVE h <= n <=> pos[h] <= m
      <4>0. /\ h \in Int /\ n \in Int /\ pos[h] \in Int /\ pos[n] \in Int
            /\ h < n => pos[h] < pos[n]
            /\ n < h => pos[n] < pos[h]
        BY <1>0, <1>5, <3>1
      <4>1. CASE h < n
        BY <2>2, <3>1, <4>0, <4>1
      <4>2. CASE h = n
        BY <2>2, <3>1, <4>0, <4>2
      <4>3. CASE h > n
        BY <2>2, <3>1, <4>0, <4>3
      <4> QED BY <4>0, <4>1, <4>2, <4>3
    <3>6. n \in 0 .. N
      BY <3>1
    <3> QED BY <2>2, <3>4, <3>5, <3>6
  <2>4. CASE \A n \in 1 .. N : pos[n] # m
    <3>1. F[m] = Pre(c)
      <4>1. ss[m] = <<>>
        BY <1>5, <2>4
      <4>2. Pre(c) \o <<>> = Pre(c)
        BY <1>6, <2>1, ConcatEmptySeq
      <4> QED BY <2>2, <4>1, <4>2
    <3>2. ASSUME NEW n \in 1 .. N PROVE n <= c <=> pos[n] <= m
      <4>1. pos[n] \in Int /\ pos[n] # m /\ (n <= c <=> pos[n] <= m - 1)
        BY <1>0, <2>1, <2>4
      <4>2. pos[n] <= m <=> pos[n] <= m - 1
        BY <2>2, <4>1
      <4> QED BY <4>1, <4>2
    <3> QED BY <2>1, <2>2, <3>1, <3>2
  <2> QED BY <2>3, <2>4
<1> HIDE DEF Good
<1>10. 0 .. L \subseteq Good
  BY <1>1, <1>8, <1>9, AllNumbers
<1>11. L \in Good
  BY <1>1, <1>10
<1>12. PICK c \in 0 .. N : Upto(L, c)
  BY <1>11 DEF Good
<1>13. c = N
  <2>1. CASE N = 0
    BY <2>1
  <2>2. CASE N # 0
    <3>1. N \in 1 .. N /\ pos[N] <= L
      BY <1>1, <1>5, <2>2
    <3> QED BY <1>1, <1>12, <3>1
  <2> QED BY <2>1, <2>2
<1>14. Pre(N) = xs
  BY <1>1 DEF Pre
<1> QED BY <1>3, <1>12, <1>13, <1>14

\* A piece that is empty can be left out.
LEMMA FlattenWithout ==
  ASSUME NEW S, NEW ss \in Seq(Seq(S)), NEW p \in 1 .. Len(ss), ss[p] = <<>>
  PROVE  FlattenSeq(RemoveAt(ss, p)) = FlattenSeq(ss)
<1> DEFINE L == Len(ss)
           t == RemoveAt(ss, p)
<1>1. L \in Nat /\ p \in Nat /\ 1 <= p /\ p <= L
  OBVIOUS
<1>2. /\ t \in Seq(Seq(S)) /\ Len(t) = L - 1
      /\ \A n \in 1 .. L - 1 : t[n] = IF n < p THEN ss[n] ELSE ss[n + 1]
  BY Removed
<1>3. PICK F \in [0 .. L -> Seq(S)] : Concats(ss, F)
  BY ConcatsExist
<1>4. F[0] = <<>> /\ \A n \in 1 .. L : F[n] = F[n - 1] \o ss[n]
  BY <1>3 DEF Concats
<1>5. FlattenSeq(ss) = F[L]
  BY <1>3, FlattenConcats
<1>6. ss[p] = <<>>
  OBVIOUS
<1> HIDE DEF L, t
<1>7. F[p] = F[p - 1]
  <2>1. F[p - 1] \in Seq(S)
    BY <1>1, <1>3
  <2>2. F[p] = F[p - 1] \o <<>>
    <3>1. p \in 1 .. L
      BY <1>1
    <3> QED BY <1>4, <1>6, <3>1
  <2> QED BY <2>1, <2>2, ConcatEmptySeq
<1> DEFINE G == [m \in 0 .. L - 1 |-> IF m < p THEN F[m] ELSE F[m + 1]]
<1>8. G \in [0 .. L - 1 -> Seq(S)]
  BY <1>1, <1>3
<1>9. \A m \in 0 .. L - 1 : G[m] = IF m < p THEN F[m] ELSE F[m + 1]
  OBVIOUS
<1> HIDE DEF G
<1>10. ASSUME NEW n \in 1 .. L - 1 PROVE G[n] = G[n - 1] \o t[n]
  <2>1. n \in 1 .. L /\ n + 1 \in 1 .. L /\ n \in 0 .. L - 1 /\ n - 1 \in 0 .. L - 1
    BY <1>1
  <2>2. CASE n < p
    <3>1. n - 1 < p /\ n \in 0 .. L - 1 /\ n - 1 \in 0 .. L - 1
      BY <1>1, <2>1, <2>2
    <3>2. G[n] = F[n] /\ G[n - 1] = F[n - 1]
      BY <1>9, <2>2, <3>1
    <3>3. t[n] = ss[n]
      BY <1>2, <2>2
    <3>4. F[n] = F[n - 1] \o ss[n]
      BY <1>4, <2>1
    <3> QED BY <3>2, <3>3, <3>4
  <2>3. CASE ~ (n < p)
    <3>1. G[n] = F[n + 1] /\ t[n] = ss[n + 1] /\ (n + 1) - 1 = n
      <4>1. (n + 1) - 1 = n
        BY <2>1
      <4>2. G[n] = F[n + 1]
        BY <1>9, <2>1, <2>3
      <4> QED BY <1>2, <2>3, <4>1, <4>2
    <3>2. G[n - 1] = F[n]
      <4>1. CASE n = p
        <5>1. n - 1 < p /\ F[n] = F[n - 1]
          BY <1>1, <1>7, <4>1
        <5>2. G[n - 1] = F[n - 1]
          BY <1>9, <2>1, <5>1
        <5> QED BY <5>1, <5>2
      <4>2. CASE n # p
        <5>1. ~ (n - 1 < p) /\ (n - 1) + 1 = n
          BY <1>1, <2>3, <4>2
        <5> QED BY <1>9, <2>1, <5>1
      <4> QED BY <4>1, <4>2
    <3>3. F[n + 1] = F[n] \o ss[n + 1]
      BY <1>4, <2>1, <3>1
    <3> QED BY <3>1, <3>2, <3>3
  <2> QED BY <2>2, <2>3
<1>11. Concats(t, G)
  <2>1. G[0] = <<>>
    BY <1>1, <1>4, <1>9
  <2> QED BY <1>2, <1>10, <2>1 DEF Concats
<1>12. FlattenSeq(t) = G[L - 1]
  BY <1>2, <1>8, <1>11, FlattenConcats
<1>13. G[L - 1] = F[L]
  <2>1. L - 1 \in 0 .. L - 1 /\ (L - 1) + 1 = L
    BY <1>1
  <2>2. CASE p = L
    <3>1. L - 1 < p /\ F[L] = F[L - 1]
      BY <1>1, <1>7, <2>2
    <3>2. G[L - 1] = F[L - 1]
      BY <1>9, <2>1, <3>1
    <3> QED BY <3>1, <3>2
  <2>3. CASE p # L
    <3>1. ~ (L - 1 < p)
      BY <1>1, <2>3
    <3> QED BY <1>9, <2>1, <3>1
  <2> QED BY <2>2, <2>3
<1> QED BY <1>5, <1>12, <1>13 DEF t
=============================================================================
