---------------------- MODULE MetadataEnumeratorProofs ----------------------
(***************************************************************************)
(* The theorems about the numbering of metadata, for every graph and every *)
(* list of roots: MDs and MetadataMap stay inverse to each other, what is  *)
(* written resolves in the reader, and it stands in the order the reader   *)
(* counts on.                                                              *)
(***************************************************************************)
EXTENDS MetadataEnumerator, SequenceLemmas, Integers, FiniteSetTheorems

Entries == [f : Nat, id : Nat]
TypeInv ==
    /\ unit \in Units
    /\ phase \in {"walking", "ready", "incorporated"}
    /\ done \in Nat /\ (phase = "walking" => done <= Len(unit.roots))
    /\ worklist \in Seq(Metadata \X Nat) /\ delayed \in Seq(Metadata)
    /\ mds \in Seq(Metadata) /\ functionMDs \in Seq(Metadata)
    /\ index \in [DOMAIN index -> Entries] /\ DOMAIN index \subseteq Metadata
    /\ numModuleMDs \in Nat /\ todo \in Seq(Metadata)

-----------------------------------------------------------------------------
(* The walk *)

\* List and map are inverse to each other, but for what waits for its number.
Matching(ix, list) ==
    /\ \A n \in 1 .. Len(list) : list[n] \in DOMAIN ix /\ ix[list[n]].id = n
    /\ \A md \in DOMAIN ix :
         ix[md].id # 0 => ix[md].id \in 1 .. Len(list) /\ list[ix[md].id] = md

\* What waits is in the map without a number, on the worklist or delayed, in
\* one place only.
Waiting(ix, work, late) ==
    /\ \A n \in 1 .. Len(work) : work[n][1] \in DOMAIN ix /\ ix[work[n][1]].id = 0
    /\ \A n \in 1 .. Len(late) : late[n] \in DOMAIN ix /\ ix[late[n]].id = 0
    /\ \A m, n \in 1 .. Len(work) : work[m][1] = work[n][1] => m = n
    /\ \A m, n \in 1 .. Len(late) : late[m] = late[n] => m = n
    /\ \A m \in 1 .. Len(work), n \in 1 .. Len(late) : work[m][1] # late[n]
    /\ \A md \in DOMAIN ix : ix[md].id = 0 =>
         \/ \E n \in 1 .. Len(work) : work[n][1] = md
         \/ \E n \in 1 .. Len(late) : late[n] = md

\* A root belongs to its function or, if another one reaches it, to the module.
Rooted(ix, r) == r.md \in DOMAIN ix /\ ix[r.md].f \in {0, r.f}

WalkInv ==
    phase = "walking" =>
        /\ Matching(index, mds)
        /\ Waiting(index, worklist, delayed)
        /\ worklist = <<>> => delayed = <<>>
        /\ worklist # <<>> => done > 0
        /\ \A n \in 1 .. done : Rooted(index, unit.roots[n])

-----------------------------------------------------------------------------
(* The functions *)

\* The slots from + 1 .. to hold what is tagged with f, and that only, under
\* the numbers from base + 1 on.
Holds(ix, list, from, to, f, base) ==
    /\ \A n \in from + 1 .. to :
         /\ list[n] \in DOMAIN ix
         /\ ix[list[n]] = [f |-> f, id |-> base + n - from]
    /\ \A md \in DOMAIN ix : ix[md].f = f => \E n \in from + 1 .. to : list[n] = md

ModuleEnd == IF phase = "incorporated" THEN numModuleMDs ELSE Len(mds)
RangeHolds(ix, f, base) ==
    LET r == RangeOf(f)
    IN /\ r.first \in Nat /\ r.last \in Nat
       /\ r.first <= r.last /\ r.last <= Len(functionMDs)
       /\ Holds(ix, functionMDs, r.first, r.last, f, base)

\* Of the functions only those still to come and the one that is there have
\* metadata in the map.
FunctionsInv ==
    phase # "walking" =>
        /\ Holds(index, mds, 0, ModuleEnd, 0, 0)
        /\ \A f \in Nat : f > done => RangeHolds(index, f, ModuleEnd)
        /\ phase = "incorporated" =>
             /\ done > 0 /\ numModuleMDs <= Len(mds)
             /\ Holds(index, mds, numModuleMDs, Len(mds), done, numModuleMDs)
             /\ \A n \in 1 .. Len(todo) :
                  Kind(todo[n]) = "constant" =>
                    [f |-> done, md |-> todo[n]] \in ToSet(unit.roots)
        /\ \A md \in DOMAIN index :
             index[md].f > done \/ index[md].f = 0
               \/ (phase = "incorporated" /\ index[md].f = done)
        /\ \A r \in ToSet(unit.roots) :
             r.f > done \/ (phase = "incorporated" /\ r.f = done) => Rooted(index, r)

NumberingInv == TypeInv /\ WalkInv /\ FunctionsInv

-----------------------------------------------------------------------------
(* Closures *)

\* The steps of a closure.
Steps(Fs, S, arcs, N) ==
    /\ Fs[0] = S
    /\ \A n \in 1 .. N : Fs[n] = Fs[n - 1] \cup UNION {arcs[x] : x \in Fs[n - 1]}

\* The steps of a closure can be taken, however many they are.
LEMMA StepsExist ==
    ASSUME NEW S \in SUBSET Metadata, NEW arcs \in [Metadata -> SUBSET Metadata],
           NEW N \in Nat
    PROVE  \E Fs \in [0 .. N -> SUBSET Metadata] : Steps(Fs, S, arcs, N)
<1> DEFINE Good == {n \in Nat : \E Fs \in [0 .. n -> SUBSET Metadata] : Steps(Fs, S, arcs, n)}
<1>1. 0 \in Good
  <2>1. /\ [n \in 0 .. 0 |-> S] \in [0 .. 0 -> SUBSET Metadata]
        /\ [n \in 0 .. 0 |-> S][0] = S
      OBVIOUS
  <2>2. Steps([n \in 0 .. 0 |-> S], S, arcs, 0)
    <3> DEFINE Fs == [n \in 0 .. 0 |-> S]
    <3>1. Fs[0] = S /\ \A n \in 1 .. 0 : FALSE
        OBVIOUS
    <3> HIDE DEF Fs
    <3>2. Steps(Fs, S, arcs, 0)
        BY <3>1 DEF Steps
    <3> QED  BY <3>2 DEF Fs
  <2> QED  BY <2>1, <2>2
<1>2. ASSUME NEW n \in 1 .. N, n - 1 \in Good PROVE n \in Good
  <2>1. PICK Fs \in [0 .. n - 1 -> SUBSET Metadata] : Steps(Fs, S, arcs, n - 1)
      BY <1>2
  <2> DEFINE T == Fs[n - 1] \cup UNION {arcs[x] : x \in Fs[n - 1]}
             G == [k \in 0 .. n |-> IF k = n THEN T ELSE Fs[k]]
  <2>2. Fs[n - 1] \in SUBSET Metadata
      BY <1>2
  <2>3. T \in SUBSET Metadata
      BY <2>2
  <2> HIDE DEF T
  <2>4. G \in [0 .. n -> SUBSET Metadata] /\ G[n] = T /\ \A k \in 0 .. n - 1 : G[k] = Fs[k]
      BY <1>2, <2>3
  <2> HIDE DEF G
  <2>5. G[0] = S
      BY <1>2, <2>1, <2>4 DEF Steps
  <2>6. ASSUME NEW k \in 1 .. n
        PROVE  G[k] = G[k - 1] \cup UNION {arcs[x] : x \in G[k - 1]}
    <3>1. k - 1 \in 0 .. n - 1 /\ G[k - 1] = Fs[k - 1]
        BY <1>2, <2>4
    <3>2. CASE k = n
        BY <2>4, <3>1, <3>2 DEF T
    <3>3. CASE k # n
      <4>1. k \in 1 .. n - 1 /\ k \in 0 .. n - 1
          BY <1>2, <3>3
      <4> QED  BY <2>1, <2>4, <3>1, <4>1 DEF Steps
    <3> QED  BY <3>2, <3>3
  <2>7. Steps(G, S, arcs, n)
      BY <2>5, <2>6 DEF Steps
  <2>8. n \in Nat
      BY <1>2
  <2> QED  BY <2>4, <2>7, <2>8
<1> HIDE DEF Good
<1>3. 0 .. N \subseteq Good
    BY <1>1, <1>2, AllNumbers
<1>4. N \in Good
    BY <1>3
<1> QED  BY <1>4 DEF Good

\* A closure is what its steps come to.
LEMMA ClosureSteps ==
    ASSUME NEW S \in SUBSET Metadata, NEW arcs \in [Metadata -> SUBSET Metadata],
           NEW N, N = Cardinality(Metadata)
    PROVE  /\ N \in Nat
           /\ \E Fs \in [0 .. N -> SUBSET Metadata] :
                 Steps(Fs, S, arcs, N) /\ Closure(S, arcs) = Fs[N]
<1>1. N \in Nat
    BY NullAssumption, FS_CardinalityType
<1> DEFINE More(T) == T \cup UNION {arcs[x] : x \in T}
           From == CHOOSE Fs : Fs = [n \in 0 .. N |-> IF n = 0 THEN S ELSE More(Fs[n - 1])]
<1>2. Closure(S, arcs) = From[N]
    BY DEF Closure
<1>3. PICK Fs \in [0 .. N -> SUBSET Metadata] : Steps(Fs, S, arcs, N)
    BY <1>1, StepsExist
<1>4. Fs = [n \in 0 .. N |-> IF n = 0 THEN S ELSE More(Fs[n - 1])]
  <2>1. ASSUME NEW n \in 0 .. N PROVE Fs[n] = IF n = 0 THEN S ELSE More(Fs[n - 1])
    <3>1. CASE n = 0
        BY <1>3, <3>1 DEF Steps
    <3>2. CASE n # 0
      <4>1. n \in 1 .. N
          BY <1>1, <3>2
      <4> QED  BY <1>3, <3>2, <4>1 DEF Steps
    <3> QED  BY <3>1, <3>2
  <2> HIDE DEF More
  <2> QED  BY <2>1
<1>5. From = [n \in 0 .. N |-> IF n = 0 THEN S ELSE More(From[n - 1])]
  <2> HIDE DEF More
  <2> QED  BY <1>4
<1> HIDE DEF From
<1>6. ASSUME NEW n \in 0 .. N PROVE From[n] = IF n = 0 THEN S ELSE More(From[n - 1])
  <2> HIDE DEF More
  <2> QED  BY <1>5
<1>7. ASSUME NEW n \in 1 .. N PROVE From[n] = More(From[n - 1])
  <2>1. n \in 0 .. N /\ n # 0
      BY <1>1
  <2> HIDE DEF More
  <2> QED  BY <1>6, <2>1
<1>8. Steps(From, S, arcs, N)
  <2>1. 0 \in 0 .. N
      BY <1>1
  <2>2. From[0] = S
    <3> HIDE DEF More
    <3> QED  BY <1>6, <2>1
  <2> QED  BY <1>7, <2>2 DEF Steps
<1>9. From \in [0 .. N -> SUBSET Metadata]
  <2> DEFINE Good == {n \in 0 .. N : From[n] = Fs[n]}
  <2>1. 0 \in Good
      BY <1>1, <1>3, <1>8 DEF Steps
  <2>2. ASSUME NEW n \in 1 .. N, n - 1 \in Good PROVE n \in Good
    <3>1. n \in 0 .. N /\ From[n - 1] = Fs[n - 1]
        BY <1>1, <2>2
    <3>2. From[n] = Fs[n]
        BY <1>3, <1>8, <3>1 DEF Steps
    <3> QED  BY <3>1, <3>2
  <2>3. 0 .. N \subseteq Good
    <3> HIDE DEF Good
    <3> QED  BY <1>1, <2>1, <2>2, AllNumbers
  <2>4. \A n \in 0 .. N : From[n] \in SUBSET Metadata
      BY <1>3, <2>3
  <2> QED  BY <1>5, <2>4
<1> QED  BY <1>1, <1>2, <1>8, <1>9

\* A closure has what it starts from and what its members lead to ...
LEMMA ClosureClosed ==
    ASSUME NEW S \in SUBSET Metadata, NEW arcs \in [Metadata -> SUBSET Metadata]
    PROVE  /\ S \subseteq Closure(S, arcs) /\ Closure(S, arcs) \subseteq Metadata
           /\ \A x \in Closure(S, arcs) : arcs[x] \subseteq Closure(S, arcs)
<1> DEFINE N == Cardinality(Metadata)
           More(T) == T \cup UNION {arcs[x] : x \in T}
<1>1. /\ N \in Nat
      /\ \E Fs \in [0 .. N -> SUBSET Metadata] :
            Steps(Fs, S, arcs, N) /\ Closure(S, arcs) = Fs[N]
  <2> HIDE DEF N
  <2> QED  BY ClosureSteps DEF N
<1>2. PICK Fs \in [0 .. N -> SUBSET Metadata] :
              Steps(Fs, S, arcs, N) /\ Closure(S, arcs) = Fs[N]
    BY <1>1
<1>3. IsFiniteSet(Metadata)
    BY NullAssumption
<1>4. \A n \in 0 .. N : /\ Fs[n] \subseteq Metadata /\ IsFiniteSet(Fs[n])
                        /\ Cardinality(Fs[n]) \in Nat
  <2>1. \A n \in 0 .. N : Fs[n] \in SUBSET Metadata
      OBVIOUS
  <2> QED  BY <1>3, <2>1, FS_Subset, FS_CardinalityType
<1> HIDE DEF N
<1>5. \A n \in 1 .. N : n \in 0 .. N /\ n - 1 \in 0 .. N /\ Fs[n] = More(Fs[n - 1])
    BY <1>1, <1>2 DEF Steps
<1>6. 0 \in 0 .. N /\ N \in 0 .. N /\ Fs[0] = S
    BY <1>1, <1>2 DEF Steps
<1>7. S \subseteq Fs[N]
  <2> DEFINE Good == {n \in 0 .. N : S \subseteq Fs[n]}
  <2>1. 0 \in Good
      BY <1>6
  <2>2. ASSUME NEW n \in 1 .. N, n - 1 \in Good PROVE n \in Good
      BY <1>5, <2>2
  <2>3. 0 .. N \subseteq Good
    <3> HIDE DEF Good
    <3> QED  BY <1>1, <2>1, <2>2, AllNumbers
  <2> QED  BY <1>6, <2>3
<1>8. More(Fs[N]) \subseteq Fs[N]
  <2> SUFFICES ASSUME ~(More(Fs[N]) \subseteq Fs[N]) PROVE FALSE
      OBVIOUS
  <2> HIDE DEF More
  <2>1. ASSUME NEW k \in 0 .. N, More(Fs[k]) = Fs[k] PROVE FALSE
    <3> DEFINE Good == {n \in 0 .. N : n >= k => Fs[n] = Fs[k]}
    <3>1. 0 \in Good
      <4>1. 0 >= k => k = 0
          OBVIOUS
      <4> QED  BY <1>6, <4>1
    <3>2. ASSUME NEW n \in 1 .. N, n - 1 \in Good PROVE n \in Good
      <4>1. CASE n - 1 >= k
        <5>1. Fs[n - 1] = Fs[k]
            BY <3>2, <4>1
        <5> QED  BY <1>5, <2>1, <5>1
      <4>2. CASE n = k
          BY <1>5, <4>2
      <4>3. CASE n < k
          BY <1>5, <4>3
      <4> QED  BY <1>1, <4>1, <4>2, <4>3
    <3>3. 0 .. N \subseteq Good
      <4> HIDE DEF Good
      <4> QED  BY <1>1, <3>1, <3>2, AllNumbers
    <3>4. Fs[N] = Fs[k]
        BY <1>1, <1>6, <3>3
    <3> QED  BY <2>1, <3>4
  <2>2. \A T : T \subseteq More(T)
      BY DEF More
  <2> DEFINE Good == {n \in 0 .. N : Cardinality(Fs[n]) >= n}
  <2>3. 0 \in Good
      BY <1>4, <1>6
  <2>4. ASSUME NEW n \in 1 .. N, n - 1 \in Good PROVE n \in Good
    <3>1. Fs[n - 1] \subseteq Fs[n] /\ Fs[n - 1] # Fs[n]
        BY <1>5, <2>1, <2>2
    <3>2. /\ IsFiniteSet(Fs[n]) /\ Cardinality(Fs[n]) \in Nat
          /\ Cardinality(Fs[n - 1]) \in Nat /\ Cardinality(Fs[n - 1]) >= n - 1
        BY <1>4, <1>5, <2>4
    <3>3. /\ Cardinality(Fs[n - 1]) <= Cardinality(Fs[n])
          /\ Cardinality(Fs[n]) # Cardinality(Fs[n - 1])
        BY <3>1, <3>2, FS_Subset
    <3>4. Cardinality(Fs[n]) >= n
        BY <3>2, <3>3
    <3> QED  BY <1>5, <3>4
  <2>5. 0 .. N \subseteq Good
    <3> HIDE DEF Good
    <3> QED  BY <1>1, <2>3, <2>4, AllNumbers
  <2>6. Cardinality(Fs[N]) >= N /\ Cardinality(Fs[N]) \in Nat
      BY <1>4, <1>6, <2>5
  <2>7. Cardinality(Fs[N]) <= Cardinality(Metadata) /\ Fs[N] \in SUBSET Metadata
      BY <1>3, <1>4, <1>6, FS_Subset
  <2>8. Cardinality(Fs[N]) = Cardinality(Metadata)
      BY <1>1, <2>6, <2>7 DEF N
  <2>9. Fs[N] = Metadata
      BY <1>3, <2>7, <2>8, FS_Subset
  <2>10. More(Fs[N]) \subseteq Metadata
      BY <2>9 DEF More
  <2> QED  BY <2>9, <2>10
<1>9. Fs[N] \subseteq Metadata
    BY <1>4, <1>6
<1> QED  BY <1>2, <1>7, <1>8, <1>9

\* ... and nothing else: it is part of every set that has as much.
LEMMA ClosureLeast ==
    ASSUME NEW S \in SUBSET Metadata, NEW arcs \in [Metadata -> SUBSET Metadata],
           NEW T, S \subseteq T, \A x \in Metadata : x \in T => arcs[x] \subseteq T
    PROVE  Closure(S, arcs) \subseteq T
<1> DEFINE N == Cardinality(Metadata)
<1>1. /\ N \in Nat
      /\ \E Fs \in [0 .. N -> SUBSET Metadata] :
            Steps(Fs, S, arcs, N) /\ Closure(S, arcs) = Fs[N]
  <2> HIDE DEF N
  <2> QED  BY ClosureSteps DEF N
<1>2. PICK Fs \in [0 .. N -> SUBSET Metadata] :
              Steps(Fs, S, arcs, N) /\ Closure(S, arcs) = Fs[N]
    BY <1>1
<1> HIDE DEF N
<1> DEFINE Good == {n \in 0 .. N : Fs[n] \subseteq T}
<1>3. 0 \in Good
    BY <1>1, <1>2 DEF Steps
<1>4. ASSUME NEW n \in 1 .. N, n - 1 \in Good PROVE n \in Good
  <2>1. n \in 0 .. N /\ n - 1 \in 0 .. N
      BY <1>1
  <2>2. Fs[n - 1] \subseteq T /\ Fs[n - 1] \in SUBSET Metadata
      BY <1>4, <2>1
  <2>3. Fs[n] = Fs[n - 1] \cup UNION {arcs[x] : x \in Fs[n - 1]}
      BY <1>2 DEF Steps
  <2> QED  BY <2>1, <2>2, <2>3
<1>5. 0 .. N \subseteq Good
  <2> HIDE DEF Good
  <2> QED  BY <1>1, <1>3, <1>4, AllNumbers
<1> QED  BY <1>1, <1>2, <1>5

-----------------------------------------------------------------------------
(* Sequences of sequences *)

\* A concatenation has the members of both.
LEMMA MembersOfBoth ==
    ASSUME NEW S, NEW a \in Seq(S), NEW b \in Seq(S)
    PROVE  \A x : x \in ToSet(a \o b) <=> x \in ToSet(a) \/ x \in ToSet(b)
<1>1. /\ Len(a) \in Nat /\ Len(b) \in Nat
      /\ DOMAIN a = 1 .. Len(a) /\ DOMAIN b = 1 .. Len(b)
      /\ DOMAIN (a \o b) = 1 .. Len(a) + Len(b)
      /\ \A n \in 1 .. Len(a) + Len(b) :
           (a \o b)[n] = IF n <= Len(a) THEN a[n] ELSE b[n - Len(a)]
    BY ConcatProperties
<1>2. \A n \in 1 .. Len(a) : n \in 1 .. Len(a) + Len(b) /\ (a \o b)[n] = a[n]
    BY <1>1
<1>3. \A n \in 1 .. Len(b) : /\ Len(a) + n \in 1 .. Len(a) + Len(b)
                              /\ (a \o b)[Len(a) + n] = b[n]
    BY <1>1
<1>4. \A n \in 1 .. Len(a) + Len(b) :
         \/ n \in 1 .. Len(a)
         \/ \E m \in 1 .. Len(b) : n = Len(a) + m
  <2>1. ASSUME NEW n \in 1 .. Len(a) + Len(b), ~(n <= Len(a)) PROVE n - Len(a) \in 1 .. Len(b)
      BY <1>1, <2>1
  <2>2. \A n \in 1 .. Len(a) + Len(b) : n = Len(a) + (n - Len(a))
      BY <1>1
  <2> QED  BY <1>1, <2>1, <2>2
<1>5. /\ ToSet(a) = {a[n] : n \in 1 .. Len(a)} /\ ToSet(b) = {b[n] : n \in 1 .. Len(b)}
      /\ ToSet(a \o b) = {(a \o b)[n] : n \in 1 .. Len(a) + Len(b)}
    BY <1>1 DEF ToSet
<1>6. ASSUME NEW x \in ToSet(a \o b) PROVE x \in ToSet(a) \/ x \in ToSet(b)
  <2>1. PICK n \in 1 .. Len(a) + Len(b) : x = (a \o b)[n]
      BY <1>5
  <2>2. CASE n \in 1 .. Len(a)
      BY <1>2, <1>5, <2>1, <2>2
  <2>3. CASE \E m \in 1 .. Len(b) : n = Len(a) + m
      BY <1>3, <1>5, <2>1, <2>3
  <2> QED  BY <1>4, <2>2, <2>3
<1>7. ASSUME NEW x \in ToSet(a) PROVE x \in ToSet(a \o b)
    BY <1>2, <1>5
<1>8. ASSUME NEW x \in ToSet(b) PROVE x \in ToSet(a \o b)
  <2>1. PICK n \in 1 .. Len(b) : x = b[n]
      BY <1>5
  <2> QED  BY <1>3, <1>5, <2>1
<1> QED  BY <1>6, <1>7, <1>8

\* The steps of flattening.
Pieces(Fs, s, N) == Fs[0] = <<>> /\ \A n \in 1 .. N : Fs[n] = Fs[n - 1] \o s[n]

\* Sequences can be strung together, however many they are.
LEMMA PiecesExist ==
    ASSUME NEW S, NEW s \in Seq(Seq(S))
    PROVE  \E Fs \in [0 .. Len(s) -> Seq(S)] : Pieces(Fs, s, Len(s))
<1> DEFINE N == Len(s)
           Good == {n \in Nat : \E Fs \in [0 .. n -> Seq(S)] : Pieces(Fs, s, n)}
<1>1. N \in Nat /\ \A n \in 1 .. N : s[n] \in Seq(S)
    OBVIOUS
<1> HIDE DEF N
<1>2. 0 \in Good
  <2> DEFINE Fs == [n \in 0 .. 0 |-> <<>>]
  <2>1. Fs \in [0 .. 0 -> Seq(S)] /\ Fs[0] = <<>> /\ \A n \in 1 .. 0 : FALSE
      OBVIOUS
  <2> HIDE DEF Fs
  <2>2. Pieces(Fs, s, 0)
      BY <2>1 DEF Pieces
  <2> QED  BY <2>1, <2>2
<1>3. ASSUME NEW n \in 1 .. N, n - 1 \in Good PROVE n \in Good
  <2>1. PICK Fs \in [0 .. n - 1 -> Seq(S)] : Pieces(Fs, s, n - 1)
      BY <1>3
  <2> DEFINE T == Fs[n - 1] \o s[n]
             G == [k \in 0 .. n |-> IF k = n THEN T ELSE Fs[k]]
  <2>2. T \in Seq(S)
    <3>1. Fs[n - 1] \in Seq(S) /\ s[n] \in Seq(S)
        BY <1>1, <1>3
    <3> QED  BY <3>1, ConcatProperties
  <2> HIDE DEF T
  <2>3. G \in [0 .. n -> Seq(S)] /\ G[n] = T /\ \A k \in 0 .. n - 1 : G[k] = Fs[k]
    <3> DEFINE U == Seq(S)
    <3>1. T \in U /\ Fs \in [0 .. n - 1 -> U]
        BY <2>2
    <3> HIDE DEF U, Good
    <3>2. \A k \in 0 .. n : k = n \/ k \in 0 .. n - 1
        BY <1>1, <1>3
    <3>3. G \in [0 .. n -> U] /\ G[n] = T /\ \A k \in 0 .. n - 1 : G[k] = Fs[k]
        BY <1>1, <1>3, <3>1, <3>2
    <3> QED  BY <3>3 DEF U
  <2> HIDE DEF G
  <2>4. G[0] = <<>>
    <3>1. 0 \in 0 .. n - 1
        BY <1>1, <1>3
    <3>2. G[0] = Fs[0]
        BY <2>3, <3>1
    <3> QED  BY <2>1, <3>2 DEF Pieces
  <2>5. ASSUME NEW k \in 1 .. n PROVE G[k] = G[k - 1] \o s[k]
    <3>1. k - 1 \in 0 .. n - 1 /\ G[k - 1] = Fs[k - 1]
        BY <1>1, <1>3, <2>3
    <3>2. CASE k = n
        BY <2>3, <3>1, <3>2 DEF T
    <3>3. CASE k # n
      <4>1. k \in 1 .. n - 1 /\ k \in 0 .. n - 1
          BY <1>1, <1>3, <3>3
      <4> QED  BY <2>1, <2>3, <3>1, <4>1 DEF Pieces
    <3> QED  BY <3>2, <3>3
  <2>6. Pieces(G, s, n)
      BY <2>4, <2>5 DEF Pieces
  <2> QED  BY <1>1, <1>3, <2>3, <2>6
<1> HIDE DEF Good
<1>4. 0 .. N \subseteq Good
    BY <1>1, <1>2, <1>3, AllNumbers
<1>5. N \in Good
    BY <1>1, <1>4
<1> QED  BY <1>5 DEF Good, N

\* FlattenSeq is what they come to.
LEMMA FlattenedPieces ==
    ASSUME NEW S, NEW s \in Seq(Seq(S))
    PROVE  \E Fs \in [0 .. Len(s) -> Seq(S)] :
              Pieces(Fs, s, Len(s)) /\ FlattenSeq(s) = Fs[Len(s)]
<1>1. PICK Fs \in [0 .. Len(s) -> Seq(S)] : Pieces(Fs, s, Len(s))
    BY PiecesExist
<1>2. CASE s = <<>>
    BY <1>1, <1>2 DEF FlattenSeq, Pieces
<1>3. CASE s # <<>>
  <2> DEFINE N == Len(s)
             From == CHOOSE G : G = [n \in 1 .. N |-> IF n = 1 THEN s[n] ELSE G[n - 1] \o s[n]]
             H == [n \in 1 .. N |-> Fs[n]]
  <2>1. FlattenSeq(s) = From[N] /\ N \in Nat \ {0}
      BY <1>3 DEF FlattenSeq
  <2>2. \A n \in 1 .. N : s[n] \in Seq(S)
      OBVIOUS
  <2>3. Fs \in [0 .. N -> Seq(S)] /\ Fs[0] = <<>> /\ \A n \in 1 .. N : Fs[n] = Fs[n - 1] \o s[n]
      BY <1>1 DEF Pieces
  <2> HIDE DEF N
  <2>4. H = [n \in 1 .. N |-> IF n = 1 THEN s[n] ELSE H[n - 1] \o s[n]]
    <3>1. ASSUME NEW n \in 1 .. N
          PROVE  H[n] = IF n = 1 THEN s[n] ELSE H[n - 1] \o s[n]
      <4>1. CASE n = 1
        <5>1. <<>> \o s[1] = s[1]
            BY <2>2, <3>1, <4>1, ConcatEmptySeq
        <5>2. Fs[1] = Fs[0] \o s[1] /\ Fs[0] = <<>>
          <6>1. 1 \in 1 .. N /\ 1 - 1 = 0
              BY <3>1, <4>1
          <6>2. Fs[1] = Fs[1 - 1] \o s[1] /\ Fs[0] = <<>>
              BY <1>1, <6>1 DEF Pieces, N
          <6> QED  BY <6>1, <6>2
        <5>3. Fs[1] = s[1]
            BY <5>1, <5>2
        <5> QED  BY <3>1, <4>1, <5>3
      <4>2. CASE n # 1
        <5>1. n - 1 \in 1 .. N
            BY <2>1, <4>2
        <5> QED  BY <2>3, <4>2, <5>1
      <4> QED  BY <4>1, <4>2
    <3> HIDE DEF H
    <3>2. H = [n \in 1 .. N |-> H[n]]
        BY DEF H
    <3> QED  BY <3>1, <3>2
  <2>5. From = [n \in 1 .. N |-> IF n = 1 THEN s[n] ELSE From[n - 1] \o s[n]]
    <3> HIDE DEF H
    <3> QED  BY <2>4
  <2> HIDE DEF From
  <2>6. ASSUME NEW n \in 1 .. N
        PROVE  From[n] = IF n = 1 THEN s[n] ELSE From[n - 1] \o s[n]
      BY <2>5
  <2> DEFINE Good == {n \in 0 .. N : n # 0 => From[n] = Fs[n]}
  <2>7. 0 \in Good
      BY <2>1
  <2>8. ASSUME NEW n \in 1 .. N, n - 1 \in Good PROVE n \in Good
    <3>1. CASE n = 1
      <4>1. H[1] = s[1] /\ Fs[1] = H[1]
          BY <2>4, <3>1
      <4> QED  BY <2>6, <3>1, <4>1
    <3>2. CASE n # 1
      <4>1. n \in 0 .. N /\ From[n - 1] = Fs[n - 1]
          BY <2>1, <2>8, <3>2
      <4>2. From[n] = Fs[n]
          BY <2>3, <2>6, <3>2, <4>1
      <4> QED  BY <4>1, <4>2
    <3> QED  BY <3>1, <3>2
  <2>9. 0 .. N \subseteq Good
    <3> HIDE DEF Good
    <3> QED  BY <2>1, <2>7, <2>8, AllNumbers
  <2>10. From[N] = Fs[N]
      BY <2>1, <2>9
  <2> QED  BY <1>1, <2>1, <2>10 DEF N
<1> QED  BY <1>2, <1>3

\* It has what its parts have ...
LEMMA FlattenedMembers ==
    ASSUME NEW S, NEW s \in Seq(Seq(S))
    PROVE  /\ FlattenSeq(s) \in Seq(S)
           /\ \A x : x \in ToSet(FlattenSeq(s)) <=>
                        \E n \in 1 .. Len(s) : x \in ToSet(s[n])
<1> DEFINE N == Len(s)
<1>1. PICK Fs \in [0 .. N -> Seq(S)] : Pieces(Fs, s, N) /\ FlattenSeq(s) = Fs[N]
    BY FlattenedPieces
<1>2. N \in Nat /\ \A n \in 1 .. N : s[n] \in Seq(S)
    OBVIOUS
<1> HIDE DEF N
<1> DEFINE Good == {n \in 0 .. N : \A x : x \in ToSet(Fs[n]) <=>
                                     \E k \in 1 .. n : x \in ToSet(s[k])}
<1>3. 0 \in Good
  <2>1. Fs[0] = <<>>
      BY <1>1 DEF Pieces
  <2>2. ToSet(Fs[0]) = {}
      BY <2>1 DEF ToSet
  <2> QED  BY <1>2, <2>2
<1>4. ASSUME NEW n \in 1 .. N, n - 1 \in Good PROVE n \in Good
  <2>1. /\ Fs[n] = Fs[n - 1] \o s[n] /\ Fs[n - 1] \in Seq(S) /\ s[n] \in Seq(S)
        /\ n \in 0 .. N
    <3> DEFINE U == Seq(S)
    <3>1. Fs \in [0 .. N -> U] /\ s[n] \in U
        BY <1>1, <1>2
    <3> HIDE DEF U, Good
    <3>2. n \in 0 .. N /\ n - 1 \in 0 .. N
        BY <1>2
    <3>3. Fs[n - 1] \in U
        BY <3>1, <3>2
    <3>4. Fs[n] = Fs[n - 1] \o s[n]
        BY <1>1 DEF Pieces
    <3> QED  BY <3>1, <3>2, <3>3, <3>4 DEF U
  <2>2. \A x : x \in ToSet(Fs[n]) <=> x \in ToSet(Fs[n - 1]) \/ x \in ToSet(s[n])
    <3> DEFINE a == Fs[n - 1]
               b == s[n]
    <3>1. a \in Seq(S) /\ b \in Seq(S)
        BY <2>1
    <3> HIDE DEF a, b
    <3>2. \A x : x \in ToSet(a \o b) <=> x \in ToSet(a) \/ x \in ToSet(b)
        BY <3>1, MembersOfBoth
    <3> QED  BY <2>1, <3>2 DEF a, b
  <2>3. \A k : k \in 1 .. n <=> k \in 1 .. n - 1 \/ k = n
      BY <1>2
  <2> QED  BY <1>4, <2>1, <2>2, <2>3
<1>5. 0 .. N \subseteq Good
  <2> HIDE DEF Good
  <2> QED  BY <1>2, <1>3, <1>4, AllNumbers
<1>6. N \in 0 .. N /\ N \in Good
    BY <1>2, <1>5
<1> QED  BY <1>1, <1>6 DEF N

-----------------------------------------------------------------------------
(* The local metadata of a function *)

\* A list comes after its constants.
ConstantsBefore(u, t) ==
    \A p \in 1 .. Len(t) : u.kind[t[p]] = "list" =>
        \A x \in ToSet(u.ops[t[p]]) : u.kind[x] = "constant" =>
            \E q \in 1 .. p - 1 : t[q] = x

\* A list's constants stand before it in both, so also in one after the other.
LEMMA OrderOfBoth ==
    ASSUME NEW u, NEW a \in Seq(Metadata), NEW b \in Seq(Metadata),
           ConstantsBefore(u, a), ConstantsBefore(u, b)
    PROVE  ConstantsBefore(u, a \o b)
<1>1. /\ Len(a) \in Nat /\ Len(b) \in Nat /\ Len(a \o b) = Len(a) + Len(b)
      /\ \A n \in 1 .. Len(a) + Len(b) :
           (a \o b)[n] = IF n <= Len(a) THEN a[n] ELSE b[n - Len(a)]
    BY ConcatProperties
<1> DEFINE c == a \o b
<1>2. \A n \in 1 .. Len(a) : c[n] = a[n]
    BY <1>1
<1>3. \A n \in 1 .. Len(b) : c[Len(a) + n] = b[n]
    BY <1>1
<1>4. Len(c) = Len(a) + Len(b)
    BY <1>1
<1> HIDE DEF c
<1>5. ASSUME NEW p \in 1 .. Len(c), u.kind[c[p]] = "list",
             NEW x \in ToSet(u.ops[c[p]]), u.kind[x] = "constant"
      PROVE  \E q \in 1 .. p - 1 : c[q] = x
  <2>1. CASE p <= Len(a)
    <3>1. p \in 1 .. Len(a) /\ c[p] = a[p]
        BY <1>1, <1>2, <1>4, <2>1
    <3>2. PICK q \in 1 .. p - 1 : a[q] = x
        BY <1>5, <3>1 DEF ConstantsBefore
    <3>3. q \in 1 .. Len(a)
        BY <1>1, <3>1
    <3> QED  BY <1>2, <3>2, <3>3
  <2>2. CASE ~(p <= Len(a))
    <3> DEFINE m == p - Len(a)
    <3>1. m \in 1 .. Len(b) /\ p = Len(a) + m
        BY <1>1, <1>4, <2>2
    <3> HIDE DEF m
    <3>2. c[p] = b[m]
        BY <1>3, <3>1
    <3>3. PICK q \in 1 .. m - 1 : b[q] = x
        BY <1>5, <3>1, <3>2 DEF ConstantsBefore
    <3>4. q \in 1 .. Len(b) /\ Len(a) + q \in 1 .. p - 1
        BY <1>1, <3>1
    <3> QED  BY <1>3, <3>3, <3>4
  <2> QED  BY <2>1, <2>2
<1> QED  BY <1>5 DEF ConstantsBefore, c

\* ... and in as many as there are.
LEMMA OrderOfAll ==
    ASSUME NEW u, NEW s \in Seq(Seq(Metadata)), \A n \in 1 .. Len(s) : ConstantsBefore(u, s[n])
    PROVE  ConstantsBefore(u, FlattenSeq(s))
<1> DEFINE N == Len(s)
<1>1. PICK Fs \in [0 .. N -> Seq(Metadata)] : Pieces(Fs, s, N) /\ FlattenSeq(s) = Fs[N]
    BY FlattenedPieces
<1>2. N \in Nat /\ \A n \in 1 .. N : s[n] \in Seq(Metadata) /\ ConstantsBefore(u, s[n])
    OBVIOUS
<1> HIDE DEF N
<1> DEFINE Good == {n \in 0 .. N : ConstantsBefore(u, Fs[n])}
<1>3. 0 \in Good
  <2>1. Fs[0] = <<>>
      BY <1>1 DEF Pieces
  <2>2. ConstantsBefore(u, <<>>)
      BY DEF ConstantsBefore
  <2> QED  BY <1>2, <2>1, <2>2
<1>4. ASSUME NEW n \in 1 .. N, n - 1 \in Good PROVE n \in Good
  <2> DEFINE a == Fs[n - 1]
             b == s[n]
             U == Seq(Metadata)
  <2>1. n \in 0 .. N /\ n - 1 \in 0 .. N
      BY <1>2
  <2>2. Fs \in [0 .. N -> U] /\ b \in U
      BY <1>2
  <2> HIDE DEF U
  <2>3. a \in U
      BY <2>1, <2>2
  <2>4. Fs[n] = a \o b
      BY <1>1 DEF Pieces
  <2>5. ConstantsBefore(u, a) /\ ConstantsBefore(u, b)
      BY <1>2, <1>4
  <2> HIDE DEF a, b
  <2>6. ConstantsBefore(u, a \o b)
      BY <2>2, <2>3, <2>5, OrderOfBoth DEF U
  <2> QED  BY <2>1, <2>4, <2>6
<1>5. 0 .. N \subseteq Good
  <2> HIDE DEF Good
  <2> QED  BY <1>2, <1>3, <1>4, AllNumbers
<1>6. N \in 0 .. N /\ N \in Good
    BY <1>2, <1>5
<1> QED  BY <1>1, <1>6 DEF N

\* The parts of a list of one kind.
PartsOf(u, list, k) ==
    FlattenSeq([n \in DOMAIN u.ops[list] |->
        IF u.kind[u.ops[list][n]] = k THEN <<u.ops[list][n]>> ELSE <<>>])

\* What GraphAssumption says of one module.
LEMMA PartsTyped ==
    ASSUME NEW u \in Units, NEW list \in Metadata, u.kind[list] = "list", NEW k
    PROVE  /\ PartsOf(u, list, k) \in Seq(Metadata)
           /\ \A x : x \in ToSet(PartsOf(u, list, k)) <=>
                        x \in ToSet(u.ops[list]) /\ u.kind[x] = k
<1> DEFINE ops == u.ops[list]
           s == [n \in 1 .. Len(ops) |->
                   IF u.kind[ops[n]] = k THEN <<ops[n]>> ELSE <<>>]
<1>1. /\ ops \in Seq(Metadata \cup {Null}) /\ DOMAIN ops = 1 .. Len(ops)
      /\ Len(ops) \in Nat
    BY UnitsAssumption DEF ModuleFields
<1>2. \A n \in 1 .. Len(ops) : ops[n] \in Metadata
  <2>1. \A x \in ToSet(ops) : x # Null
      BY GraphAssumption
  <2>2. \A n \in 1 .. Len(ops) : ops[n] \in ToSet(ops) /\ ops[n] \in Metadata \cup {Null}
      BY <1>1 DEF ToSet
  <2> QED  BY <2>1, <2>2
<1>3. PartsOf(u, list, k) = FlattenSeq(s)
    BY <1>1 DEF PartsOf
<1>4. ToSet(ops) = {ops[n] : n \in 1 .. Len(ops)}
    BY <1>1 DEF ToSet
<1> HIDE DEF ops
<1>5. /\ s \in Seq(Seq(Metadata)) /\ Len(s) = Len(ops)
  <2>1. \A n \in 1 .. Len(ops) :
           (IF u.kind[ops[n]] = k THEN <<ops[n]>> ELSE <<>>) \in Seq(Metadata)
    <3>1. \A n \in 1 .. Len(ops) : <<ops[n]>> \in Seq(Metadata)
        BY <1>2
    <3>2. <<>> \in Seq(Metadata)
        OBVIOUS
    <3> QED  BY <3>1, <3>2
  <2> DEFINE e(n) == IF u.kind[ops[n]] = k THEN <<ops[n]>> ELSE <<>>
             U == Seq(Metadata)
  <2>2. \A n \in 1 .. Len(ops) : e(n) \in U
      BY <2>1
  <2> HIDE DEF e, U
  <2>3. /\ [n \in 1 .. Len(ops) |-> e(n)] \in Seq(U)
        /\ Len([n \in 1 .. Len(ops) |-> e(n)]) = Len(ops)
      BY <1>1, <2>2
  <2> QED  BY <2>3 DEF e, U
<1>6. /\ FlattenSeq(s) \in Seq(Metadata)
      /\ \A x : x \in ToSet(FlattenSeq(s)) <=> \E n \in 1 .. Len(s) : x \in ToSet(s[n])
  <2> HIDE DEF s
  <2> QED  BY <1>5, FlattenedMembers
<1>7. \A n \in 1 .. Len(ops) : \A x :
         x \in ToSet(s[n]) <=> u.kind[ops[n]] = k /\ x = ops[n]
  <2>1. \A y, x : x \in ToSet(<<y>>) <=> x = y
      BY DEF ToSet
  <2>2. \A x : x \notin ToSet(<<>>)
      BY DEF ToSet
  <2>3. \A n \in 1 .. Len(ops) :
           s[n] = IF u.kind[ops[n]] = k THEN <<ops[n]>> ELSE <<>>
      OBVIOUS
  <2> HIDE DEF s
  <2>4. ASSUME NEW n \in 1 .. Len(ops), NEW x
        PROVE  x \in ToSet(s[n]) <=> u.kind[ops[n]] = k /\ x = ops[n]
    <3>1. CASE u.kind[ops[n]] = k
      <4>1. s[n] = <<ops[n]>>
          BY <2>3, <3>1
      <4> QED  BY <2>1, <3>1, <4>1
    <3>2. CASE u.kind[ops[n]] # k
      <4>1. s[n] = <<>>
          BY <2>3, <3>2
      <4> QED  BY <2>2, <3>2, <4>1
    <3> QED  BY <3>1, <3>2
  <2> HIDE DEF s
  <2> QED  BY <2>4
<1>8. \A x : x \in ToSet(FlattenSeq(s)) <=> x \in ToSet(ops) /\ u.kind[x] = k
  <2> HIDE DEF s
  <2>1. ASSUME NEW x \in ToSet(FlattenSeq(s)) PROVE x \in ToSet(ops) /\ u.kind[x] = k
    <3>1. PICK n \in 1 .. Len(ops) : x \in ToSet(s[n])
        BY <1>5, <1>6
    <3> QED  BY <1>4, <1>7, <3>1
  <2>2. ASSUME NEW x \in ToSet(ops), u.kind[x] = k PROVE x \in ToSet(FlattenSeq(s))
    <3>1. PICK n \in 1 .. Len(ops) : x = ops[n]
        BY <1>4
    <3>2. x \in ToSet(s[n])
        BY <1>7, <2>2, <3>1
    <3> QED  BY <1>5, <1>6, <3>2
  <2> QED  BY <2>1, <2>2
<1> QED  BY <1>3, <1>6, <1>8 DEF ops

\* The local metadata of a function is all there, and a list after its parts.
LEMMA LocalsOrdered ==
    ASSUME NEW u \in Units, NEW f \in DOMAIN u.locals
    PROVE  /\ LocalsFirst(u, f) \in Seq(Metadata)
           /\ \A x \in ToSet(LocalsFirst(u, f)) : u.kind[x] \in {"constant", "local", "list"}
           /\ \A x \in ToSet(u.locals[f]) : x \in ToSet(LocalsFirst(u, f))
           /\ \A p \in 1 .. Len(LocalsFirst(u, f)) :
                 u.kind[LocalsFirst(u, f)[p]] = "list" =>
                    \A x \in ToSet(u.ops[LocalsFirst(u, f)[p]]) :
                       \E q \in 1 .. p - 1 : LocalsFirst(u, f)[q] = x
<1> DEFINE s == u.locals[f]
           K(x) == u.kind[x]
           ea(n) == IF K(s[n]) = "local" THEN <<s[n]>> ELSE PartsOf(u, s[n], "local")
           eb(n) == IF K(s[n]) = "list"
                    THEN Append(PartsOf(u, s[n], "constant"), s[n]) ELSE <<>>
           sa == [n \in 1 .. Len(s) |-> ea(n)]
           sb == [n \in 1 .. Len(s) |-> eb(n)]
           a == FlattenSeq(sa)
           b == FlattenSeq(sb)
           U == Seq(Metadata)
<1>1. s \in Seq(Metadata) /\ Len(s) \in Nat /\ DOMAIN s = 1 .. Len(s)
  <2>1. u.locals \in Seq(Seq(Metadata))
      BY UnitsAssumption DEF ModuleFields
  <2> QED  BY <2>1
<1>2. \A n \in 1 .. Len(s) : s[n] \in Metadata /\ K(s[n]) \in {"local", "list"}
  <2>1. ToSet(s) \subseteq Metadata \ Shared(u)
      BY GraphAssumption
  <2>2. \A n \in 1 .. Len(s) : s[n] \in ToSet(s)
      BY <1>1 DEF ToSet
  <2> QED  BY <2>1, <2>2 DEF Shared
<1>3. ToSet(s) = {s[n] : n \in 1 .. Len(s)}
    BY <1>1 DEF ToSet
<1>4. LocalsFirst(u, f) = a \o b
    BY <1>1 DEF LocalsFirst, PartsOf
<1> HIDE DEF s
<1>5. \A n \in 1 .. Len(s) :
         /\ ea(n) \in U
         /\ \A x : x \in ToSet(ea(n)) <=>
               \/ K(s[n]) = "local" /\ x = s[n]
               \/ K(s[n]) = "list" /\ x \in ToSet(u.ops[s[n]]) /\ K(x) = "local"
  <2> SUFFICES ASSUME NEW n \in 1 .. Len(s)
               PROVE  /\ ea(n) \in U
                      /\ \A x : x \in ToSet(ea(n)) <=>
                           \/ K(s[n]) = "local" /\ x = s[n]
                           \/ K(s[n]) = "list" /\ x \in ToSet(u.ops[s[n]]) /\ K(x) = "local"
      OBVIOUS
  <2>1. CASE K(s[n]) = "local"
    <3>1. ea(n) = <<s[n]>> /\ <<s[n]>> \in U
        BY <1>2, <2>1
    <3>2. \A x : x \in ToSet(<<s[n]>>) <=> x = s[n]
        BY DEF ToSet
    <3> HIDE DEF ea, U
    <3> QED  BY <2>1, <3>1, <3>2
  <2>2. CASE K(s[n]) = "list"
    <3>1. ea(n) = PartsOf(u, s[n], "local")
        BY <2>2
    <3>2. /\ PartsOf(u, s[n], "local") \in U
          /\ \A x : x \in ToSet(PartsOf(u, s[n], "local")) <=>
                       x \in ToSet(u.ops[s[n]]) /\ K(x) = "local"
        BY <1>2, <2>2, PartsTyped
    <3> HIDE DEF ea, U
    <3> QED  BY <2>2, <3>1, <3>2
  <2> QED  BY <1>2, <2>1, <2>2
<1>6. \A n \in 1 .. Len(s) :
         /\ eb(n) \in U
         /\ \A x \in ToSet(eb(n)) :
               /\ K(s[n]) = "list"
               /\ x = s[n] \/ K(x) = "constant"
         /\ K(s[n]) = "list" => s[n] \in ToSet(eb(n))
         /\ ConstantsBefore(u, eb(n))
  <2> SUFFICES ASSUME NEW n \in 1 .. Len(s)
               PROVE  /\ eb(n) \in U
                      /\ \A x \in ToSet(eb(n)) :
                            /\ K(s[n]) = "list"
                            /\ x = s[n] \/ K(x) = "constant"
                      /\ K(s[n]) = "list" => s[n] \in ToSet(eb(n))
                      /\ ConstantsBefore(u, eb(n))
      OBVIOUS
  <2>1. CASE K(s[n]) # "list"
    <3>1. eb(n) = <<>> /\ <<>> \in U
        BY <2>1
    <3>2. ToSet(<<>>) = {} /\ ConstantsBefore(u, <<>>)
        BY DEF ToSet, ConstantsBefore
    <3> HIDE DEF eb, U
    <3> QED  BY <2>1, <3>1, <3>2
  <2>2. CASE K(s[n]) = "list"
    <3> DEFINE p == PartsOf(u, s[n], "constant")
               list == s[n]
    <3>1. eb(n) = Append(p, list)
        BY <2>2
    <3>2. /\ p \in U
          /\ \A x : x \in ToSet(p) <=> x \in ToSet(u.ops[list]) /\ K(x) = "constant"
        BY <1>2, <2>2, PartsTyped
    <3>3. list \in Metadata /\ K(list) = "list"
        BY <1>2, <2>2
    <3> HIDE DEF eb, p, list
    <3>4. /\ Append(p, list) \in U /\ Len(Append(p, list)) = Len(p) + 1 /\ Len(p) \in Nat
          /\ \A m \in 1 .. Len(p) : Append(p, list)[m] = p[m]
          /\ Append(p, list)[Len(p) + 1] = list
        BY <3>2, <3>3, AppendProperties
    <3> DEFINE c == Append(p, list)
    <3>5. /\ ToSet(p) = {p[m] : m \in 1 .. Len(p)}
          /\ ToSet(c) = {c[m] : m \in 1 .. Len(p) + 1}
        BY <3>2, <3>4 DEF ToSet
    <3> HIDE DEF c
    <3>6. \A m \in 1 .. Len(p) + 1 : m \in 1 .. Len(p) \/ m = Len(p) + 1
        BY <3>4
    <3>7. \A x \in ToSet(c) : x = list \/ x \in ToSet(p)
        BY <3>4, <3>5, <3>6 DEF c
    <3>8. list \in ToSet(c)
        BY <3>4, <3>5 DEF c
    <3>9. ConstantsBefore(u, c)
      <4> SUFFICES ASSUME NEW m \in 1 .. Len(c), K(c[m]) = "list",
                          NEW x \in ToSet(u.ops[c[m]]), K(x) = "constant"
                   PROVE  \E q \in 1 .. m - 1 : c[q] = x
          BY DEF ConstantsBefore
      <4>1. m \notin 1 .. Len(p)
        <5>1. ASSUME m \in 1 .. Len(p) PROVE FALSE
          <6>1. c[m] = p[m] /\ p[m] \in ToSet(p)
              BY <3>4, <3>5, <5>1 DEF c
          <6>2. K(c[m]) = "constant"
              BY <3>2, <6>1
          <6> QED  BY <6>2
        <5> QED  BY <5>1
      <4>2. m = Len(p) + 1 /\ c[m] = list
          BY <3>4, <3>6, <4>1 DEF c
      <4>3. PICK q \in 1 .. Len(p) : x = p[q]
          BY <3>2, <3>5, <4>2
      <4> QED  BY <3>4, <4>2, <4>3 DEF c
    <3> QED  BY <2>2, <3>1, <3>2, <3>4, <3>7, <3>8, <3>9 DEF list, c
  <2> QED  BY <2>1, <2>2
<1> HIDE DEF ea, eb, U
<1>7. /\ sa \in Seq(U) /\ Len(sa) = Len(s) /\ \A n \in 1 .. Len(s) : sa[n] = ea(n)
      /\ sb \in Seq(U) /\ Len(sb) = Len(s) /\ \A n \in 1 .. Len(s) : sb[n] = eb(n)
    BY <1>1, <1>5, <1>6
<1> HIDE DEF sa, sb
<1>8. /\ a \in U /\ b \in U
      /\ \A x : x \in ToSet(a) <=> \E n \in 1 .. Len(s) : x \in ToSet(ea(n))
      /\ \A x : x \in ToSet(b) <=> \E n \in 1 .. Len(s) : x \in ToSet(eb(n))
  <2>1. sa \in Seq(Seq(Metadata)) /\ sb \in Seq(Seq(Metadata))
      BY <1>7 DEF U
  <2>2. /\ a \in Seq(Metadata)
        /\ \A x : x \in ToSet(a) <=> \E n \in 1 .. Len(sa) : x \in ToSet(sa[n])
      BY <2>1, FlattenedMembers
  <2>3. /\ b \in Seq(Metadata)
        /\ \A x : x \in ToSet(b) <=> \E n \in 1 .. Len(sb) : x \in ToSet(sb[n])
      BY <2>1, FlattenedMembers
  <2> HIDE DEF a, b
  <2>4. a \in U /\ b \in U
      BY <2>2, <2>3 DEF U
  <2>5. \A x : x \in ToSet(a) <=> \E n \in 1 .. Len(s) : x \in ToSet(ea(n))
      BY <1>7, <2>2
  <2>6. \A x : x \in ToSet(b) <=> \E n \in 1 .. Len(s) : x \in ToSet(eb(n))
      BY <1>7, <2>3
  <2> QED  BY <2>4, <2>5, <2>6
<1>9. ConstantsBefore(u, b)
  <2>1. sb \in Seq(Seq(Metadata))
      BY <1>7 DEF U
  <2>2. \A n \in 1 .. Len(sb) : ConstantsBefore(u, sb[n])
      BY <1>6, <1>7
  <2> QED  BY <2>1, <2>2, OrderOfAll
<1> HIDE DEF a, b
<1>10. \A x \in ToSet(a) : K(x) = "local"
    BY <1>5, <1>8
<1>11. \A x \in ToSet(b) : K(x) = "constant" \/ (x \in ToSet(s) /\ K(x) = "list")
    BY <1>3, <1>6, <1>8
<1>12. /\ a \o b \in Seq(Metadata)
       /\ \A x : x \in ToSet(a \o b) <=> x \in ToSet(a) \/ x \in ToSet(b)
  <2>1. a \in Seq(Metadata) /\ b \in Seq(Metadata)
      BY <1>8 DEF U
  <2> QED  BY <2>1, MembersOfBoth, ConcatProperties
<1>13. ASSUME NEW x \in ToSet(s) PROVE x \in ToSet(a \o b)
  <2>1. PICK n \in 1 .. Len(s) : x = s[n]
      BY <1>3
  <2> QED  BY <1>2, <1>5, <1>6, <1>8, <1>12, <2>1
<1>14. ASSUME NEW list \in ToSet(s), K(list) = "list",
              NEW x \in ToSet(u.ops[list])
       PROVE  /\ K(x) = "constant" \/ K(x) = "local"
              /\ K(x) = "local" => x \in ToSet(a)
  <2>1. PICK n \in 1 .. Len(s) : list = s[n]
      BY <1>3
  <2>2. list \in Metadata
      BY <1>2, <2>1
  <2>3. K(x) \in {"constant", "local"}
      BY <1>14, <2>2, GraphAssumption
  <2> QED  BY <1>5, <1>8, <1>14, <2>1, <2>3
<1>15. ASSUME NEW p \in 1 .. Len(a \o b), K((a \o b)[p]) = "list",
              NEW x \in ToSet(u.ops[(a \o b)[p]])
       PROVE  \E q \in 1 .. p - 1 : (a \o b)[q] = x
  <2> DEFINE c == a \o b
  <2>1. a \in Seq(Metadata) /\ b \in Seq(Metadata)
      BY <1>8 DEF U
  <2>2. /\ Len(a) \in Nat /\ Len(b) \in Nat /\ Len(c) = Len(a) + Len(b)
        /\ \A n \in 1 .. Len(a) + Len(b) :
             c[n] = IF n <= Len(a) THEN a[n] ELSE b[n - Len(a)]
      BY <2>1, ConcatProperties
  <2>3. /\ ToSet(a) = {a[n] : n \in 1 .. Len(a)} /\ ToSet(b) = {b[n] : n \in 1 .. Len(b)}
      BY <2>1 DEF ToSet
  <2>4. K(c[p]) = "list" /\ x \in ToSet(u.ops[c[p]]) /\ p \in 1 .. Len(c)
      BY <1>15
  <2> HIDE DEF c
  <2>5. ~(p <= Len(a))
    <3>1. ASSUME p <= Len(a) PROVE FALSE
      <4>1. p \in 1 .. Len(a) /\ c[p] = a[p]
          BY <2>2, <2>4, <3>1
      <4> QED  BY <1>10, <2>3, <2>4, <4>1
    <3> QED  BY <3>1
  <2> DEFINE m == p - Len(a)
  <2>6. m \in 1 .. Len(b) /\ c[p] = b[m] /\ p = Len(a) + m
      BY <2>2, <2>4, <2>5
  <2> HIDE DEF m
  <2>7. c[p] \in ToSet(s)
      BY <1>11, <2>3, <2>4, <2>6
  <2>8. CASE K(x) = "constant"
    <3>1. PICK q \in 1 .. m - 1 : b[q] = x
        BY <1>9, <2>4, <2>6, <2>8 DEF ConstantsBefore
    <3> DEFINE k == Len(a) + q
    <3>2. k \in 1 .. Len(a) + Len(b) /\ ~(k <= Len(a)) /\ k - Len(a) = q /\ k \in 1 .. p - 1
        BY <2>2, <2>6
    <3> HIDE DEF k
    <3>3. c[k] = b[q]
        BY <2>2, <3>2
    <3> QED  BY <3>1, <3>2, <3>3 DEF c
  <2>9. CASE K(x) = "local"
    <3>1. x \in ToSet(a)
        BY <1>14, <2>4, <2>7, <2>9
    <3>2. PICK q \in 1 .. Len(a) : a[q] = x
        BY <2>3, <3>1
    <3>3. q \in 1 .. Len(a) + Len(b) /\ q <= Len(a) /\ q \in 1 .. p - 1
        BY <2>2, <2>6
    <3>4. c[q] = a[q]
        BY <2>2, <3>3
    <3> QED  BY <3>2, <3>3, <3>4 DEF c
  <2> QED  BY <1>14, <2>4, <2>7, <2>8, <2>9
<1>16. \A x \in ToSet(a \o b) : K(x) \in {"constant", "local", "list"}
    BY <1>10, <1>11, <1>12
<1> QED  BY <1>4, <1>12, <1>13, <1>15, <1>16 DEF s

-----------------------------------------------------------------------------
(* Types *)

\* The fields of the module.
LEMMA UnitFields ==
    ASSUME unit \in Units
    PROVE  /\ unit.kind \in [Metadata -> Kinds]
           /\ unit.ops \in [Metadata -> Seq(Metadata \cup {Null})]
           /\ unit.roots \in Seq([f : Nat, md : Metadata])
           /\ unit.locals \in Seq(Seq(Metadata))
BY UnitsAssumption DEF ModuleFields

\* The node on top of the worklist, and what is below it.
LEMMA TopOfWorklist ==
    ASSUME worklist \in Seq(Metadata \X Nat), worklist # <<>>
    PROVE  /\ Len(worklist) \in Nat /\ Len(worklist) > 0
           /\ Len(worklist) \in 1 .. Len(worklist)
           /\ Top = worklist[Len(worklist)]
           /\ Top \in Metadata \X Nat /\ Top[1] \in Metadata /\ Top[2] \in Nat
           /\ Front(worklist) \in Seq(Metadata \X Nat)
           /\ Len(Front(worklist)) = Len(worklist) - 1
           /\ \A n \in 1 .. Len(worklist) - 1 : Front(worklist)[n] = worklist[n]
<1>1. Len(worklist) \in Nat /\ Len(worklist) > 0
    BY EmptySeq
<1>2. Len(worklist) \in 1 .. Len(worklist) /\ Top = worklist[Len(worklist)]
    BY <1>1 DEF Top, Last
<1>3. Top \in Metadata \X Nat
    BY <1>2, ElementOfSeq
<1>4. /\ 1 \in 1 .. Len(worklist) + 1 /\ Len(worklist) - 1 \in 0 .. Len(worklist)
    BY <1>1
<1>5. /\ Front(worklist) \in Seq(Metadata \X Nat)
      /\ Len(Front(worklist)) = Len(worklist) - 1
      /\ \A n \in 1 .. Len(worklist) - 1 : Front(worklist)[n] = worklist[n]
  <2> DEFINE last == Len(worklist) - 1
  <2>1. /\ last \in Nat /\ last - 1 + 1 = last
        /\ \A n \in 1 .. last : 1 + n - 1 = n
      BY <1>1
  <2> HIDE DEF last
  <2>2. /\ SubSeq(worklist, 1, last) \in Seq(Metadata \X Nat)
        /\ Len(SubSeq(worklist, 1, last)) = last
        /\ \A n \in 1 .. last : SubSeq(worklist, 1, last)[n] = worklist[n]
      BY <1>4, <2>1, SubSeqProperties DEF last
  <2> QED  BY <2>2 DEF Front, last
<1> QED  BY <1>1, <1>2, <1>3, <1>5

\* One sequence after the other.
LEMMA Concatenated ==
    ASSUME NEW S, NEW s \in Seq(S), NEW t \in Seq(S)
    PROVE  /\ s \o t \in Seq(S) /\ Len(s \o t) = Len(s) + Len(t)
           /\ \A n \in 1 .. Len(s) : (s \o t)[n] = s[n]
           /\ \A n \in 1 .. Len(t) : (s \o t)[Len(s) + n] = t[n]
<1>1. /\ s \o t \in Seq(S) /\ Len(s \o t) = Len(s) + Len(t)
      /\ \A i \in 1 .. Len(s) + Len(t) : (s \o t)[i] =
                     IF i <= Len(s) THEN s[i] ELSE t[i - Len(s)]
    BY ConcatProperties
<1>2. Len(s) \in Nat /\ Len(t) \in Nat
    OBVIOUS
<1>3. ASSUME NEW n \in 1 .. Len(s)
      PROVE  (s \o t)[n] = s[n]
  <2>1. n \in 1 .. Len(s) + Len(t) /\ n <= Len(s)
      BY <1>2
  <2> QED  BY <1>1, <2>1
<1>4. ASSUME NEW n \in 1 .. Len(t)
      PROVE  (s \o t)[Len(s) + n] = t[n]
  <2> DEFINE k == Len(s) + n
  <2>1. k \in 1 .. Len(s) + Len(t) /\ ~ k <= Len(s) /\ k - Len(s) = n
      BY <1>2
  <2> HIDE DEF k
  <2>2. (s \o t)[k] = t[n]
      BY <1>1, <2>1
  <2> QED  BY <2>2 DEF k
<1> QED  BY <1>1, <1>3, <1>4

\* The next operand is metadata, or none.
LEMMA OperandTyped ==
    ASSUME TypeInv, HasOperand
    PROVE  Operand \in Metadata \cup {Null}
<1>1. Top[1] \in Metadata /\ Top[2] \in Nat
    BY TopOfWorklist DEF TypeInv, HasOperand, Walking
<1>2. unit.ops[Top[1]] \in Seq(Metadata \cup {Null})
    BY <1>1, UnitFields DEF TypeInv
<1>3. Top[2] + 1 \in 1 .. Len(unit.ops[Top[1]])
    BY <1>1, <1>2 DEF HasOperand
<1> QED  BY <1>2, <1>3, ElementOfSeq DEF Operand

\* The worklist with one more operand visited, and with one more node.
LEMMA AdvancedTyped ==
    ASSUME worklist \in Seq(Metadata \X Nat), worklist # <<>>
    PROVE  /\ Advanced \in Seq(Metadata \X Nat) /\ Len(Advanced) = Len(worklist)
           /\ \A n \in 1 .. Len(worklist) : Advanced[n][1] = worklist[n][1]
           /\ Advanced # <<>>
<1>1. /\ Len(worklist) \in Nat /\ Len(worklist) > 0
      /\ Top = worklist[Len(worklist)] /\ Top[1] \in Metadata /\ Top[2] \in Nat
      /\ Front(worklist) \in Seq(Metadata \X Nat)
      /\ Len(Front(worklist)) = Len(worklist) - 1
      /\ \A n \in 1 .. Len(worklist) - 1 : Front(worklist)[n] = worklist[n]
    BY TopOfWorklist
<1> DEFINE x == <<Top[1], Top[2] + 1>>
<1>2. x \in Metadata \X Nat /\ x[1] = Top[1]
    BY <1>1
<1> HIDE DEF x
<1>3. /\ Append(Front(worklist), x) \in Seq(Metadata \X Nat)
      /\ Len(Append(Front(worklist), x)) = Len(worklist)
      /\ \A n \in 1 .. Len(worklist) - 1 : Append(Front(worklist), x)[n] = worklist[n]
      /\ Append(Front(worklist), x)[Len(worklist)] = x
    BY <1>1, <1>2, AppendProperties
<1>4. \A n \in 1 .. Len(worklist) : n \in 1 .. Len(worklist) - 1 \/ n = Len(worklist)
    BY <1>1
<1>5. Advanced = Append(Front(worklist), x)
    BY DEF Advanced, x
<1>6. Len(Advanced) # 0
    BY <1>1, <1>3, <1>5
<1> QED  BY <1>1, <1>2, <1>3, <1>4, <1>5, <1>6

\* What is met again may lose its tag, what is new gets an entry.
LEMMA MeetRetags ==
    ASSUME TypeInv, NEW f \in Nat, NEW md, Meet(f, md)
    PROVE  /\ DOMAIN index' = DOMAIN index /\ mds' = mds
           /\ index' \in [DOMAIN index -> Entries]
           /\ \A x \in DOMAIN index : /\ index'[x].id = index[x].id
                                      /\ index'[x].f \in {0, index[x].f}
           /\ index'[md].f \in {0, f}
<1>1. /\ index \in [DOMAIN index -> Entries] /\ md \in DOMAIN index /\ mds' = mds
      /\ index' = IF index[md].f \notin {0, f}
                  THEN dropFunctionFromMetadata(md) ELSE index
    BY DEF TypeInv, Meet
<1>2. \A x \in DOMAIN index : /\ index[x] \in Entries
                              /\ [index[x] EXCEPT !.f = 0] \in Entries
                              /\ [index[x] EXCEPT !.f = 0].f = 0
                              /\ [index[x] EXCEPT !.f = 0].id = index[x].id
    BY <1>1 DEF Entries
<1>3. CASE index[md].f \notin {0, f}
  <2>1. PICK reached : /\ md \in reached
                      /\ index' = [x \in DOMAIN index |->
                                     IF x \in reached THEN [index[x] EXCEPT !.f = 0]
                                     ELSE index[x]]
    <3> DEFINE arcs == [x \in Metadata |->
                          IF (x \in DOMAIN index /\ index[x].id # 0) /\ IsNode(x)
                          THEN {y \in Ops(x) : y \in DOMAIN index /\ index[y].f # 0}
                          ELSE {}]
    <3>1. arcs \in [Metadata -> SUBSET Metadata] /\ md \in Metadata
        BY <1>1 DEF TypeInv
    <3>2. index' = [x \in DOMAIN index |->
                      IF x \in Closure({md}, arcs) THEN [index[x] EXCEPT !.f = 0]
                      ELSE index[x]]
        BY <1>1, <1>3 DEF dropFunctionFromMetadata
    <3> HIDE DEF arcs
    <3>3. md \in Closure({md}, arcs)
        BY <3>1, ClosureClosed
    <3> QED  BY <3>2, <3>3
  <2> QED  BY <1>1, <1>2, <2>1
<1>4. CASE index[md].f \in {0, f}
    BY <1>1, <1>2, <1>4
<1> QED  BY <1>3, <1>4

\* One entry of the map written.
LEMMA WithTyped ==
    ASSUME TypeInv, NEW md \in Metadata, NEW e \in Entries
    PROVE  /\ DOMAIN With(md, e) = DOMAIN index \cup {md}
           /\ With(md, e) \in [DOMAIN index \cup {md} -> Entries]
           /\ With(md, e)[md] = e
           /\ \A x \in DOMAIN index : x # md => With(md, e)[x] = index[x]
BY DEF TypeInv, With

-----------------------------------------------------------------------------
(* The walk keeps list and map inverse, and what waits apart *)

\* The same numbers for what was there, and none for what is new.
LEMMA MatchingExtended ==
    ASSUME NEW ix, NEW iy, NEW list, Matching(ix, list), DOMAIN ix \subseteq DOMAIN iy,
           \A x \in DOMAIN ix : iy[x].id = ix[x].id,
           \A x \in DOMAIN iy \ DOMAIN ix : iy[x].id = 0
    PROVE  Matching(iy, list)
BY DEF Matching

\* The next number for something that had none.
LEMMA MatchingAppended ==
    ASSUME NEW ix, NEW iy, NEW list \in Seq(Metadata), NEW md \in Metadata,
           Matching(ix, list), md \in DOMAIN ix => ix[md].id = 0,
           DOMAIN iy = DOMAIN ix \cup {md}, iy[md].id = Len(list) + 1,
           \A x \in DOMAIN ix : x # md => iy[x].id = ix[x].id
    PROVE  Matching(iy, Append(list, md))
<1> DEFINE next == Append(list, md)
<1>1. /\ Len(list) \in Nat /\ Len(next) = Len(list) + 1
      /\ \A n \in 1 .. Len(list) : next[n] = list[n]
      /\ next[Len(list) + 1] = md
    BY AppendProperties
<1>2. \A n \in 1 .. Len(list) + 1 : n \in 1 .. Len(list) \/ n = Len(list) + 1
    BY <1>1
<1> HIDE DEF next
<1>3. ASSUME NEW n \in 1 .. Len(list)
      PROVE  next[n] \in DOMAIN iy /\ iy[next[n]].id = n
  <2>1. next[n] = list[n] /\ list[n] \in DOMAIN ix /\ ix[list[n]].id = n /\ n # 0
      BY <1>1 DEF Matching
  <2>2. list[n] # md
      BY <2>1
  <2> QED  BY <2>1, <2>2
<1>4. ASSUME NEW x \in DOMAIN iy, iy[x].id # 0
      PROVE  iy[x].id \in 1 .. Len(list) + 1 /\ next[iy[x].id] = x
  <2>1. CASE x = md
      BY <1>1, <2>1
  <2>2. CASE x # md
    <3>1. x \in DOMAIN ix /\ iy[x].id = ix[x].id
        BY <2>2
    <3>2. ix[x].id \in 1 .. Len(list) /\ list[ix[x].id] = x
        BY <1>4, <3>1 DEF Matching
    <3> QED  BY <1>1, <3>1, <3>2
  <2> QED  BY <2>1, <2>2
<1>5. \A n \in 1 .. Len(next) : next[n] \in DOMAIN iy /\ iy[next[n]].id = n
    BY <1>1, <1>2, <1>3
<1>6. Matching(iy, next)
    BY <1>1, <1>4, <1>5 DEF Matching
<1> QED  BY <1>6 DEF next

\* What waits stays where it is: what is new has its number.
LEMMA WaitingKept ==
    ASSUME NEW ix, NEW iy, NEW work, NEW next, NEW late,
           Waiting(ix, work, late), DOMAIN ix \subseteq DOMAIN iy,
           \A x \in DOMAIN ix : iy[x].id = ix[x].id,
           \A x \in DOMAIN iy \ DOMAIN ix : iy[x].id # 0,
           Len(next) = Len(work), \A n \in 1 .. Len(work) : next[n][1] = work[n][1]
    PROVE  Waiting(iy, next, late)
<1>1. \A n \in 1 .. Len(next) : next[n][1] \in DOMAIN iy /\ iy[next[n][1]].id = 0
    BY DEF Waiting
<1>2. \A n \in 1 .. Len(late) : late[n] \in DOMAIN iy /\ iy[late[n]].id = 0
    BY DEF Waiting
<1>3. /\ \A m, n \in 1 .. Len(next) : next[m][1] = next[n][1] => m = n
      /\ \A m, n \in 1 .. Len(late) : late[m] = late[n] => m = n
      /\ \A m \in 1 .. Len(next), n \in 1 .. Len(late) : next[m][1] # late[n]
    BY DEF Waiting
<1>4. ASSUME NEW x \in DOMAIN iy, iy[x].id = 0
      PROVE  \/ \E n \in 1 .. Len(next) : next[n][1] = x
             \/ \E n \in 1 .. Len(late) : late[n] = x
  <2>1. x \in DOMAIN ix /\ ix[x].id = 0
      BY <1>4
  <2> QED  BY <2>1 DEF Waiting
<1> QED  BY <1>1, <1>2, <1>3, <1>4 DEF Waiting

\* A new node waits on top of the worklist ...
LEMMA WaitingPushed ==
    ASSUME NEW ix, NEW iy, NEW work, NEW next, NEW late, NEW md,
           Waiting(ix, work, late), md \notin DOMAIN ix,
           DOMAIN iy = DOMAIN ix \cup {md}, iy[md].id = 0,
           \A x \in DOMAIN ix : iy[x].id = ix[x].id,
           Len(work) \in Nat, Len(next) = Len(work) + 1, next[Len(work) + 1][1] = md,
           \A n \in 1 .. Len(work) : next[n][1] = work[n][1]
    PROVE  Waiting(iy, next, late)
<1>1. \A n \in 1 .. Len(work) + 1 : n \in 1 .. Len(work) \/ n = Len(work) + 1
    OBVIOUS
<1>2. \A n \in 1 .. Len(work) : n \in 1 .. Len(work) + 1 /\ work[n][1] # md
    BY DEF Waiting
<1>3. /\ Len(work) + 1 \in 1 .. Len(work) + 1
      /\ \A n \in 1 .. Len(late) : late[n] # md
    BY DEF Waiting
<1>4. \A n \in 1 .. Len(next) : next[n][1] \in DOMAIN iy /\ iy[next[n][1]].id = 0
    BY <1>1 DEF Waiting
<1>5. \A n \in 1 .. Len(late) : late[n] \in DOMAIN iy /\ iy[late[n]].id = 0
    BY DEF Waiting
<1>6. \A m, n \in 1 .. Len(next) : next[m][1] = next[n][1] => m = n
    BY <1>1, <1>2 DEF Waiting
<1>7. \A m \in 1 .. Len(next), n \in 1 .. Len(late) : next[m][1] # late[n]
    BY <1>1, <1>3 DEF Waiting
<1>8. \A x \in DOMAIN iy : iy[x].id = 0 =>
         \/ \E n \in 1 .. Len(next) : next[n][1] = x
         \/ \E n \in 1 .. Len(late) : late[n] = x
    BY <1>2, <1>3 DEF Waiting
<1> QED  BY <1>4, <1>5, <1>6, <1>7, <1>8 DEF Waiting

\* ... or behind the delayed ones.
LEMMA WaitingDelayed ==
    ASSUME NEW ix, NEW iy, NEW work, NEW next, NEW late, NEW later, NEW md,
           Waiting(ix, work, late), md \notin DOMAIN ix,
           DOMAIN iy = DOMAIN ix \cup {md}, iy[md].id = 0,
           \A x \in DOMAIN ix : iy[x].id = ix[x].id,
           Len(next) = Len(work), \A n \in 1 .. Len(work) : next[n][1] = work[n][1],
           Len(late) \in Nat, Len(later) = Len(late) + 1, later[Len(late) + 1] = md,
           \A n \in 1 .. Len(late) : later[n] = late[n]
    PROVE  Waiting(iy, next, later)
<1>1. \A n \in 1 .. Len(late) + 1 : n \in 1 .. Len(late) \/ n = Len(late) + 1
    OBVIOUS
<1>2. \A n \in 1 .. Len(late) : n \in 1 .. Len(late) + 1 /\ late[n] # md
    BY DEF Waiting
<1>3. /\ Len(late) + 1 \in 1 .. Len(late) + 1
      /\ \A n \in 1 .. Len(work) : work[n][1] # md
    BY DEF Waiting
<1>4. \A n \in 1 .. Len(next) : next[n][1] \in DOMAIN iy /\ iy[next[n][1]].id = 0
    BY DEF Waiting
<1>5. \A n \in 1 .. Len(later) : later[n] \in DOMAIN iy /\ iy[later[n]].id = 0
    BY <1>1 DEF Waiting
<1>6. /\ \A m, n \in 1 .. Len(next) : next[m][1] = next[n][1] => m = n
      /\ \A m, n \in 1 .. Len(later) : later[m] = later[n] => m = n
    BY <1>1, <1>2, SMTT(30) DEF Waiting
<1>7. \A m \in 1 .. Len(next), n \in 1 .. Len(later) : next[m][1] # later[n]
    BY <1>1, <1>3 DEF Waiting
<1>8. \A x \in DOMAIN iy : iy[x].id = 0 =>
         \/ \E n \in 1 .. Len(next) : next[n][1] = x
         \/ \E n \in 1 .. Len(later) : later[n] = x
    BY <1>2, <1>3, SMTT(30) DEF Waiting
<1> QED  BY <1>4, <1>5, <1>6, <1>7, <1>8 DEF Waiting

\* The node on top of the worklist gets its number and waits no more ...
LEMMA WaitingPopped ==
    ASSUME NEW ix, NEW iy, NEW work, NEW rest, NEW late,
           Waiting(ix, work, late), DOMAIN iy = DOMAIN ix,
           Len(work) \in Nat, Len(work) > 0, iy[work[Len(work)][1]].id # 0,
           \A x \in DOMAIN ix : x # work[Len(work)][1] => iy[x].id = ix[x].id,
           Len(rest) = Len(work) - 1, \A n \in 1 .. Len(rest) : rest[n] = work[n]
    PROVE  Waiting(iy, rest, late)
<1> DEFINE md == work[Len(work)][1]
<1>1. /\ Len(work) \in 1 .. Len(work)
      /\ \A n \in 1 .. Len(work) : n \in 1 .. Len(rest) \/ n = Len(work)
      /\ \A n \in 1 .. Len(rest) : n \in 1 .. Len(work) /\ n # Len(work)
    OBVIOUS
<1>2. \A n \in 1 .. Len(rest) : rest[n][1] = work[n][1] /\ work[n][1] # md
    BY <1>1 DEF Waiting
<1>3. ASSUME NEW n \in 1 .. Len(late)
      PROVE  late[n] # md
  <2>1. \A m \in 1 .. Len(work) : work[m][1] # late[n]
      BY DEF Waiting
  <2>2. Len(work) \in 1 .. Len(work)
      BY <1>1
  <2> QED  BY <2>1, <2>2, Zenon
<1>4. ASSUME NEW n \in 1 .. Len(rest)
      PROVE  rest[n][1] \in DOMAIN iy /\ iy[rest[n][1]].id = 0
  <2>1. n \in 1 .. Len(work) /\ rest[n][1] = work[n][1] /\ work[n][1] # md
      BY <1>1, <1>2
  <2>2. work[n][1] \in DOMAIN ix /\ ix[work[n][1]].id = 0
      BY <2>1 DEF Waiting
  <2> QED  BY <2>1, <2>2
<1>5. \A n \in 1 .. Len(late) : late[n] \in DOMAIN iy /\ iy[late[n]].id = 0
    BY <1>3 DEF Waiting
<1>6. /\ \A m, n \in 1 .. Len(rest) : rest[m][1] = rest[n][1] => m = n
      /\ \A m, n \in 1 .. Len(late) : late[m] = late[n] => m = n
      /\ \A m \in 1 .. Len(rest), n \in 1 .. Len(late) : rest[m][1] # late[n]
    BY <1>1, <1>2, SMTT(30) DEF Waiting
<1>7. ASSUME NEW x \in DOMAIN iy, iy[x].id = 0
      PROVE  \/ \E n \in 1 .. Len(rest) : rest[n][1] = x
             \/ \E n \in 1 .. Len(late) : late[n] = x
  <2>1. x # md /\ ix[x].id = 0
      BY <1>7
  <2>2. CASE \E n \in 1 .. Len(late) : late[n] = x
      BY <2>2
  <2>3. CASE \E n \in 1 .. Len(work) : work[n][1] = x
    <3>1. PICK n \in 1 .. Len(work) : work[n][1] = x
        BY <2>3
    <3>2. n \in 1 .. Len(rest)
        BY <1>1, <2>1, <3>1
    <3> QED  BY <1>2, <3>1, <3>2
  <2> QED  BY <2>1, <2>2, <2>3 DEF Waiting
<1> QED  BY <1>4, <1>5, <1>6, <1>7 DEF Waiting

\* ... and the delayed nodes may take its place.
LEMMA WaitingFlushed ==
    ASSUME NEW ix, NEW rest, NEW late, NEW next, Waiting(ix, rest, late),
           Len(rest) \in Nat, Len(late) \in Nat, Len(next) = Len(rest) + Len(late),
           \A n \in 1 .. Len(rest) : next[n][1] = rest[n][1],
           \A n \in 1 .. Len(late) : next[Len(rest) + n][1] = late[n]
    PROVE  Waiting(ix, next, <<>>)
<1>1. ASSUME NEW n \in 1 .. Len(next)
      PROVE  \/ n \in 1 .. Len(rest) /\ next[n][1] = rest[n][1]
             \/ \E k \in 1 .. Len(late) : n = Len(rest) + k /\ next[n][1] = late[k]
  <2>1. n \in 1 .. Len(rest) \/ n - Len(rest) \in 1 .. Len(late)
      OBVIOUS
  <2>2. n = Len(rest) + (n - Len(rest))
      OBVIOUS
  <2> QED  BY <2>1, <2>2
<1>2. /\ \A n \in 1 .. Len(rest) : n \in 1 .. Len(next)
      /\ \A n \in 1 .. Len(late) : Len(rest) + n \in 1 .. Len(next)
    OBVIOUS
<1>3. ASSUME NEW n \in 1 .. Len(next)
      PROVE  next[n][1] \in DOMAIN ix /\ ix[next[n][1]].id = 0
  <2>1. CASE n \in 1 .. Len(rest) /\ next[n][1] = rest[n][1]
      BY <2>1 DEF Waiting
  <2>2. CASE \E k \in 1 .. Len(late) : n = Len(rest) + k /\ next[n][1] = late[k]
      BY <2>2 DEF Waiting
  <2> QED  BY <1>1, <2>1, <2>2
<1>4. ASSUME NEW m \in 1 .. Len(next), NEW n \in 1 .. Len(next), next[m][1] = next[n][1]
      PROVE  m = n
  <2>1. CASE /\ m \in 1 .. Len(rest) /\ next[m][1] = rest[m][1]
             /\ n \in 1 .. Len(rest) /\ next[n][1] = rest[n][1]
      BY <1>4, <2>1 DEF Waiting
  <2>2. CASE /\ \E k \in 1 .. Len(late) : m = Len(rest) + k /\ next[m][1] = late[k]
             /\ \E k \in 1 .. Len(late) : n = Len(rest) + k /\ next[n][1] = late[k]
    <3>1. PICK j \in 1 .. Len(late) : m = Len(rest) + j /\ next[m][1] = late[j]
        BY <2>2
    <3>2. PICK k \in 1 .. Len(late) : n = Len(rest) + k /\ next[n][1] = late[k]
        BY <2>2
    <3>3. j = k
        BY <1>4, <3>1, <3>2 DEF Waiting
    <3> QED  BY <3>1, <3>2, <3>3
  <2>3. CASE /\ m \in 1 .. Len(rest) /\ next[m][1] = rest[m][1]
             /\ \E k \in 1 .. Len(late) : n = Len(rest) + k /\ next[n][1] = late[k]
      BY <1>4, <2>3 DEF Waiting
  <2>4. CASE /\ n \in 1 .. Len(rest) /\ next[n][1] = rest[n][1]
             /\ \E k \in 1 .. Len(late) : m = Len(rest) + k /\ next[m][1] = late[k]
      BY <1>4, <2>4 DEF Waiting
  <2> QED  BY <1>1, <2>1, <2>2, <2>3, <2>4
<1>5. ASSUME NEW x \in DOMAIN ix, ix[x].id = 0
      PROVE  \E n \in 1 .. Len(next) : next[n][1] = x
  <2>1. CASE \E n \in 1 .. Len(rest) : rest[n][1] = x
      BY <1>2, <2>1
  <2>2. CASE \E n \in 1 .. Len(late) : late[n] = x
      BY <1>2, <2>2
  <2> QED  BY <1>5, <2>1, <2>2 DEF Waiting
<1>6. 1 .. Len(<<>>) = {}
    OBVIOUS
<1> QED  BY <1>3, <1>4, <1>5, <1>6 DEF Waiting

-----------------------------------------------------------------------------
(* The steps of the walk *)

\* A root stays with its function or goes to the module.
LEMMA RootedKept ==
    ASSUME NEW ix, NEW iy, NEW r, Rooted(ix, r), DOMAIN ix \subseteq DOMAIN iy,
           \A x \in DOMAIN ix : iy[x].f \in {0, ix[x].f}
    PROVE  Rooted(iy, r)
BY DEF Rooted

\* Metadata that is met again keeps its number.
LEMMA MeetWalks ==
    ASSUME TypeInv, NEW f \in Nat, NEW md, Meet(f, md), NEW next,
           Matching(index, mds), Waiting(index, worklist, delayed),
           Len(next) = Len(worklist),
           \A n \in 1 .. Len(worklist) : next[n][1] = worklist[n][1]
    PROVE  /\ mds' = mds /\ index' \in [DOMAIN index' -> Entries]
           /\ DOMAIN index' = DOMAIN index
           /\ Matching(index', mds') /\ Waiting(index', next, delayed)
           /\ \A r : Rooted(index, r) => Rooted(index', r)
           /\ Rooted(index', [f |-> f, md |-> md])
<1>1. /\ DOMAIN index' = DOMAIN index /\ mds' = mds
      /\ index' \in [DOMAIN index -> Entries]
      /\ \A x \in DOMAIN index : /\ index'[x].id = index[x].id
                                 /\ index'[x].f \in {0, index[x].f}
      /\ index'[md].f \in {0, f}
    BY MeetRetags
<1>2. Matching(index', mds)
    BY <1>1, MatchingExtended
<1>3. Waiting(index', next, delayed)
    BY <1>1, WaitingKept
<1>4. \A r : Rooted(index, r) => Rooted(index', r)
    BY <1>1, RootedKept
<1>5. Rooted(index', [f |-> f, md |-> md])
    BY <1>1 DEF Rooted, Meet
<1> QED  BY <1>1, <1>2, <1>3, <1>4, <1>5

\* A string or a constant gets the next number.
LEMMA NumberWalks ==
    ASSUME TypeInv, NEW f \in Nat, NEW md \in Metadata, Number(f, md), NEW next,
           Matching(index, mds), Waiting(index, worklist, delayed),
           Len(next) = Len(worklist),
           \A n \in 1 .. Len(worklist) : next[n][1] = worklist[n][1]
    PROVE  /\ mds' = Append(mds, md) /\ index' \in [DOMAIN index' -> Entries]
           /\ DOMAIN index' = DOMAIN index \cup {md}
           /\ Matching(index', mds') /\ Waiting(index', next, delayed)
           /\ \A r : Rooted(index, r) => Rooted(index', r)
           /\ Rooted(index', [f |-> f, md |-> md])
<1> DEFINE e == [f |-> f, id |-> Len(mds) + 1]
<1>1. /\ mds \in Seq(Metadata) /\ Len(mds) \in Nat
      /\ index \in [DOMAIN index -> Entries]
    BY DEF TypeInv
<1>2. /\ e \in Entries /\ e.id = Len(mds) + 1 /\ e.id # 0 /\ e.f = f
      /\ md \notin DOMAIN index /\ mds' = Append(mds, md) /\ index' = With(md, e)
    BY <1>1 DEF Number, Entries
<1> HIDE DEF e
<1>3. /\ DOMAIN index' = DOMAIN index \cup {md}
      /\ index' \in [DOMAIN index \cup {md} -> Entries]
      /\ index'[md] = e
      /\ \A x \in DOMAIN index : x # md /\ index'[x] = index[x]
  <2>1. /\ DOMAIN With(md, e) = DOMAIN index \cup {md}
        /\ With(md, e) \in [DOMAIN index \cup {md} -> Entries]
        /\ With(md, e)[md] = e
        /\ \A x \in DOMAIN index : x # md => With(md, e)[x] = index[x]
      BY <1>2, WithTyped
  <2>2. \A x \in DOMAIN index : x # md
      BY <1>2
  <2> QED  BY <1>2, <2>1, <2>2
<1>4. Matching(index', mds')
    BY <1>1, <1>2, <1>3, MatchingAppended
<1>5. Waiting(index', next, delayed)
    BY <1>2, <1>3, WaitingKept
<1>6. \A r : Rooted(index, r) => Rooted(index', r)
    BY <1>3, RootedKept
<1>7. Rooted(index', [f |-> f, md |-> md])
    BY <1>2, <1>3 DEF Rooted
<1> QED  BY <1>2, <1>3, <1>4, <1>5, <1>6, <1>7

\* A new node comes into the map without a number.
LEMMA DiscoverWalks ==
    ASSUME TypeInv, NEW f \in Nat, NEW md \in Metadata, Discover(f, md),
           Matching(index, mds)
    PROVE  /\ mds' = mds /\ index' \in [DOMAIN index' -> Entries]
           /\ md \notin DOMAIN index /\ DOMAIN index' = DOMAIN index \cup {md}
           /\ index'[md].id = 0
           /\ \A x \in DOMAIN index : index'[x].id = index[x].id
           /\ Matching(index', mds')
           /\ \A r : Rooted(index, r) => Rooted(index', r)
           /\ Rooted(index', [f |-> f, md |-> md])
<1> DEFINE e == [f |-> f, id |-> 0]
<1>1. /\ e \in Entries /\ e.id = 0 /\ e.f = f
      /\ md \notin DOMAIN index /\ mds' = mds /\ index' = With(md, e)
    BY DEF Discover, Entries
<1> HIDE DEF e
<1>2. /\ DOMAIN index' = DOMAIN index \cup {md}
      /\ index' \in [DOMAIN index \cup {md} -> Entries]
      /\ index'[md] = e
      /\ \A x \in DOMAIN index : x # md /\ index'[x] = index[x]
  <2>1. /\ DOMAIN With(md, e) = DOMAIN index \cup {md}
        /\ With(md, e) \in [DOMAIN index \cup {md} -> Entries]
        /\ With(md, e)[md] = e
        /\ \A x \in DOMAIN index : x # md => With(md, e)[x] = index[x]
      BY <1>1, WithTyped
  <2>2. \A x \in DOMAIN index : x # md
      BY <1>1
  <2> QED  BY <1>1, <2>1, <2>2
<1>3. Matching(index', mds)
    BY <1>1, <1>2, MatchingExtended
<1>4. \A r : Rooted(index, r) => Rooted(index', r)
  <2>1. index \in [DOMAIN index -> Entries]
      BY DEF TypeInv
  <2> QED  BY <1>2, RootedKept
<1>5. Rooted(index', [f |-> f, md |-> md])
    BY <1>1, <1>2 DEF Rooted
<1> QED  BY <1>1, <1>2, <1>3, <1>4, <1>5

\* The function of the root that is being walked.
LEMMA FunctionTyped ==
    ASSUME TypeInv, NEW n \in 1 .. Len(unit.roots)
    PROVE  /\ unit.roots[n] \in [f : Nat, md : Metadata]
           /\ unit.roots[n] = [f |-> unit.roots[n].f, md |-> unit.roots[n].md]
           /\ unit.roots[n].f \in Nat /\ unit.roots[n].md \in Metadata
<1>1. unit.roots \in Seq([f : Nat, md : Metadata])
    BY UnitFields DEF TypeInv
<1>2. unit.roots[n] \in [f : Nat, md : Metadata]
    BY <1>1, ElementOfSeq
<1> QED  BY <1>2

\* An operand is visited with the function of a root that has been begun.
LEMMA WalkingTyped ==
    ASSUME TypeInv, WalkInv, Walking
    PROVE  F \in Nat
<1>1. done \in 1 .. Len(unit.roots)
  <2>1. done \in Nat /\ done > 0 /\ done <= Len(unit.roots) /\ unit.roots \in Seq([f : Nat, md : Metadata])
      BY UnitFields DEF TypeInv, WalkInv, Walking
  <2> QED  BY <2>1
<1> QED  BY <1>1, FunctionTyped DEF F

\* The next root: met, numbered at once, or alone on the worklist.
LEMMA EnumerateMetadataSteps ==
    ASSUME TypeInv, WalkInv, EnumerateMetadata
    PROVE  TypeInv' /\ WalkInv'
<1> DEFINE root == unit.roots[done + 1]
<1>1. /\ phase = "walking" /\ worklist = <<>> /\ done < Len(unit.roots)
      /\ done' = done + 1 /\ unit' = unit /\ phase' = phase /\ delayed' = delayed
      /\ functionMDs' = functionMDs /\ numModuleMDs' = numModuleMDs /\ todo' = todo
    BY DEF EnumerateMetadata, functions
<1>2. done \in Nat /\ Len(unit.roots) \in Nat
    BY UnitFields DEF TypeInv
<1>3. done + 1 \in 1 .. Len(unit.roots) /\ done' \in Nat /\ done' <= Len(unit.roots)
    BY <1>1, <1>2
<1>4. /\ root = [f |-> root.f, md |-> root.md] /\ root.f \in Nat /\ root.md \in Metadata
    BY <1>3, FunctionTyped
<1>5. /\ Matching(index, mds) /\ Waiting(index, worklist, delayed) /\ delayed = <<>>
      /\ \A n \in 1 .. done : Rooted(index, unit.roots[n])
    BY <1>1 DEF WalkInv
<1>6. \/ (Meet(root.f, root.md) \/ Number(root.f, root.md)) /\ worklist' = worklist
      \/ Discover(root.f, root.md) /\ worklist' = <<<<root.md, 0>>>>
    BY DEF EnumerateMetadata
<1>7. /\ worklist \in Seq(Metadata \X Nat) /\ delayed \in Seq(Metadata)
      /\ mds \in Seq(Metadata) /\ DOMAIN index \subseteq Metadata
      /\ functionMDs \in Seq(Metadata) /\ numModuleMDs \in Nat /\ todo \in Seq(Metadata)
    BY DEF TypeInv
<1>8. ASSUME /\ mds' \in Seq(Metadata) /\ worklist' \in Seq(Metadata \X Nat)
             /\ index' \in [DOMAIN index' -> Entries]
             /\ DOMAIN index' \subseteq Metadata
             /\ Matching(index', mds') /\ Waiting(index', worklist', delayed)
             /\ \A r : Rooted(index, r) => Rooted(index', r)
             /\ Rooted(index', root)
      PROVE  TypeInv' /\ WalkInv'
  <2>1. TypeInv'
      BY <1>1, <1>3, <1>7, <1>8 DEF TypeInv
  <2>2. \A n \in 1 .. done + 1 : n \in 1 .. done \/ n = done + 1
      BY <1>2
  <2>3. \A n \in 1 .. done + 1 : Rooted(index', unit.roots[n])
      BY <1>5, <1>8, <2>2
  <2> QED  BY <1>1, <1>2, <1>5, <1>8, <2>1, <2>3 DEF WalkInv
<1> HIDE DEF root
<1>9. CASE Meet(root.f, root.md) /\ worklist' = worklist
  <2>1. /\ mds' = mds /\ index' \in [DOMAIN index' -> Entries]
        /\ DOMAIN index' = DOMAIN index
        /\ Matching(index', mds') /\ Waiting(index', worklist, delayed)
        /\ \A r : Rooted(index, r) => Rooted(index', r)
        /\ Rooted(index', root)
      BY <1>4, <1>5, <1>9, MeetWalks
  <2> QED  BY <1>7, <1>8, <1>9, <2>1
<1>10. CASE Number(root.f, root.md) /\ worklist' = worklist
  <2>1. /\ mds' = Append(mds, root.md) /\ index' \in [DOMAIN index' -> Entries]
        /\ DOMAIN index' = DOMAIN index \cup {root.md}
        /\ Matching(index', mds') /\ Waiting(index', worklist, delayed)
        /\ \A r : Rooted(index, r) => Rooted(index', r)
        /\ Rooted(index', root)
      BY <1>4, <1>5, <1>10, NumberWalks
  <2> QED  BY <1>4, <1>7, <1>8, <1>10, <2>1
<1>11. CASE Discover(root.f, root.md) /\ worklist' = <<<<root.md, 0>>>>
  <2>1. /\ mds' = mds /\ index' \in [DOMAIN index' -> Entries]
        /\ root.md \notin DOMAIN index /\ DOMAIN index' = DOMAIN index \cup {root.md}
        /\ index'[root.md].id = 0
        /\ \A x \in DOMAIN index : index'[x].id = index[x].id
        /\ Matching(index', mds')
        /\ \A r : Rooted(index, r) => Rooted(index', r)
        /\ Rooted(index', root)
      BY <1>4, <1>5, <1>11, DiscoverWalks
  <2>2. /\ <<<<root.md, 0>>>> \in Seq(Metadata \X Nat) /\ Len(<<<<root.md, 0>>>>) = 1
        /\ <<<<root.md, 0>>>>[1][1] = root.md /\ Len(<<>>) = 0
      BY <1>4
  <2>3. /\ Len(worklist) = 0 /\ Len(worklist) \in Nat
        /\ Len(worklist') = Len(worklist) + 1
        /\ worklist'[Len(worklist) + 1][1] = root.md
        /\ \A n \in 1 .. Len(worklist) : worklist'[n][1] = worklist[n][1]
      BY <1>1, <1>11, <2>2
  <2>4. Waiting(index', worklist', delayed)
      BY <1>5, <2>1, <2>3, WaitingPushed
  <2> QED  BY <1>4, <1>7, <1>8, <1>11, <2>1, <2>2, <2>4
<1> QED  BY <1>6, <1>9, <1>10, <1>11

\* The facts about a visit of an operand that the three kinds of it share.
LEMMA VisitSteps ==
    ASSUME TypeInv, WalkInv, Walking,
           unit' = unit, phase' = phase, done' = done,
           functionMDs' = functionMDs, numModuleMDs' = numModuleMDs, todo' = todo,
           worklist' \in Seq(Metadata \X Nat), delayed' \in Seq(Metadata),
           mds' \in Seq(Metadata), index' \in [DOMAIN index' -> Entries],
           DOMAIN index' \subseteq Metadata,
           Matching(index', mds'), Waiting(index', worklist', delayed'),
           \A r : Rooted(index, r) => Rooted(index', r),
           worklist' = <<>> => delayed' = <<>>
    PROVE  TypeInv' /\ WalkInv'
<1>1. TypeInv'
    BY DEF TypeInv
<1>2. WalkInv'
    BY DEF WalkInv, Walking
<1> QED  BY <1>1, <1>2

\* An operand that needs no traversal.
LEMMA SkipSteps ==
    ASSUME TypeInv, WalkInv, Skip
    PROVE  TypeInv' /\ WalkInv'
<1>1. /\ HasOperand /\ Walking /\ worklist' = Advanced /\ delayed' = delayed
      /\ unit' = unit /\ phase' = phase /\ done' = done
      /\ functionMDs' = functionMDs /\ numModuleMDs' = numModuleMDs /\ todo' = todo
    BY DEF Skip, HasOperand, program, functions
<1>2. /\ Operand \in Metadata \cup {Null} /\ F \in Nat
    BY <1>1, OperandTyped, WalkingTyped
<1>3. /\ worklist \in Seq(Metadata \X Nat) /\ delayed \in Seq(Metadata)
      /\ mds \in Seq(Metadata) /\ DOMAIN index \subseteq Metadata
      /\ index \in [DOMAIN index -> Entries]
      /\ worklist # <<>> /\ phase = "walking"
    BY <1>1 DEF TypeInv, Walking
<1>4. /\ Advanced \in Seq(Metadata \X Nat) /\ Len(Advanced) = Len(worklist)
      /\ \A n \in 1 .. Len(worklist) : Advanced[n][1] = worklist[n][1]
      /\ Advanced # <<>>
    BY <1>3, AdvancedTyped
<1>5. Matching(index, mds) /\ Waiting(index, worklist, delayed)
    BY <1>3 DEF WalkInv
<1>6. ASSUME /\ mds' \in Seq(Metadata) /\ index' \in [DOMAIN index' -> Entries]
             /\ DOMAIN index' \subseteq Metadata
             /\ Matching(index', mds') /\ Waiting(index', Advanced, delayed)
             /\ \A r : Rooted(index, r) => Rooted(index', r)
      PROVE  TypeInv' /\ WalkInv'
    BY <1>1, <1>3, <1>4, <1>6, VisitSteps
<1>7. CASE Operand = Null /\ UNCHANGED <<mds, index, valued>>
  <2>1. Waiting(index, Advanced, delayed)
      BY <1>4, <1>5, WaitingKept
  <2>2. /\ mds' = mds /\ index' = index
      BY <1>7
  <2>3. /\ Matching(index', mds') /\ Waiting(index', Advanced, delayed)
        /\ \A r : Rooted(index, r) => Rooted(index', r)
      BY <1>5, <2>1, <2>2
  <2> QED  BY <1>3, <1>6, <2>2, <2>3
<1>8. CASE Operand # Null /\ Meet(F, Operand)
  <2>1. /\ mds' = mds /\ index' \in [DOMAIN index' -> Entries]
        /\ DOMAIN index' = DOMAIN index
        /\ Matching(index', mds') /\ Waiting(index', Advanced, delayed)
        /\ \A r : Rooted(index, r) => Rooted(index', r)
      BY <1>2, <1>4, <1>5, <1>8, MeetWalks
  <2> QED  BY <1>3, <1>6, <2>1
<1>9. CASE Operand # Null /\ Number(F, Operand)
  <2>1. Operand \in Metadata
      BY <1>2, <1>9
  <2>2. /\ mds' = Append(mds, Operand) /\ index' \in [DOMAIN index' -> Entries]
        /\ DOMAIN index' = DOMAIN index \cup {Operand}
        /\ Matching(index', mds') /\ Waiting(index', Advanced, delayed)
        /\ \A r : Rooted(index, r) => Rooted(index', r)
      BY <1>2, <1>4, <1>5, <1>9, <2>1, NumberWalks
  <2>3. mds' \in Seq(Metadata) /\ DOMAIN index' \subseteq Metadata
      BY <1>3, <2>1, <2>2
  <2> QED  BY <1>6, <2>2, <2>3
<1> QED  BY <1>7, <1>8, <1>9 DEF Skip

\* A new node goes onto the worklist, or has to wait.
LEMMA DescendSteps ==
    ASSUME TypeInv, WalkInv, Descend
    PROVE  TypeInv' /\ WalkInv'
<1>1. /\ HasOperand /\ Walking /\ Operand # Null /\ Discover(F, Operand)
      /\ unit' = unit /\ phase' = phase /\ done' = done
      /\ functionMDs' = functionMDs /\ numModuleMDs' = numModuleMDs /\ todo' = todo
    BY DEF Descend, HasOperand, program, functions
<1>2. \/ delayed' = Append(delayed, Operand) /\ worklist' = Advanced
      \/ worklist' = Append(Advanced, <<Operand, 0>>) /\ delayed' = delayed
    BY DEF Descend
<1>3. Operand \in Metadata /\ F \in Nat
    BY <1>1, OperandTyped, WalkingTyped
<1>4. /\ worklist \in Seq(Metadata \X Nat) /\ delayed \in Seq(Metadata)
      /\ mds \in Seq(Metadata) /\ DOMAIN index \subseteq Metadata
      /\ worklist # <<>> /\ phase = "walking"
      /\ Len(delayed) \in Nat /\ Len(worklist) \in Nat
    BY <1>1 DEF TypeInv, Walking
<1>5. /\ Advanced \in Seq(Metadata \X Nat) /\ Len(Advanced) = Len(worklist)
      /\ \A n \in 1 .. Len(worklist) : Advanced[n][1] = worklist[n][1]
      /\ Advanced # <<>>
    BY <1>4, AdvancedTyped
<1>6. Matching(index, mds) /\ Waiting(index, worklist, delayed)
    BY <1>4 DEF WalkInv
<1>7. /\ mds' = mds /\ index' \in [DOMAIN index' -> Entries]
      /\ Operand \notin DOMAIN index /\ DOMAIN index' = DOMAIN index \cup {Operand}
      /\ index'[Operand].id = 0
      /\ \A x \in DOMAIN index : index'[x].id = index[x].id
      /\ Matching(index', mds')
      /\ \A r : Rooted(index, r) => Rooted(index', r)
    BY <1>1, <1>3, <1>6, DiscoverWalks
<1>8. mds' \in Seq(Metadata) /\ DOMAIN index' \subseteq Metadata
    BY <1>3, <1>4, <1>7
<1>9. CASE delayed' = Append(delayed, Operand) /\ worklist' = Advanced
  <2>1. /\ delayed' \in Seq(Metadata) /\ Len(delayed') = Len(delayed) + 1
        /\ delayed'[Len(delayed) + 1] = Operand
        /\ \A n \in 1 .. Len(delayed) : delayed'[n] = delayed[n]
      BY <1>3, <1>4, <1>9, AppendProperties
  <2>2. Waiting(index', Advanced, delayed')
      BY <1>4, <1>5, <1>6, <1>7, <2>1, WaitingDelayed
  <2> QED  BY <1>1, <1>5, <1>7, <1>8, <1>9, <2>1, <2>2, VisitSteps
<1>10. CASE worklist' = Append(Advanced, <<Operand, 0>>) /\ delayed' = delayed
  <2> DEFINE x == <<Operand, 0>>
  <2>1. x \in Metadata \X Nat /\ x[1] = Operand
      BY <1>3
  <2> HIDE DEF x
  <2>2. /\ Append(Advanced, x) \in Seq(Metadata \X Nat)
        /\ Len(Append(Advanced, x)) = Len(worklist) + 1
        /\ Append(Advanced, x)[Len(worklist) + 1] = x
        /\ \A n \in 1 .. Len(worklist) : Append(Advanced, x)[n] = Advanced[n]
      BY <1>4, <1>5, <2>1, AppendProperties
  <2>3. worklist' = Append(Advanced, x)
      BY <1>10 DEF x
  <2>4. /\ worklist' \in Seq(Metadata \X Nat)
        /\ Len(worklist') = Len(worklist) + 1
        /\ worklist'[Len(worklist) + 1][1] = Operand
        /\ \A n \in 1 .. Len(worklist) : worklist'[n][1] = worklist[n][1]
      BY <1>5, <2>1, <2>2, <2>3
  <2>5. Waiting(index', worklist', delayed)
      BY <1>4, <1>6, <1>7, <2>4, WaitingPushed
  <2>6. worklist' # <<>>
    <3>1. Len(worklist') # 0
        BY <1>4, <2>4
    <3> QED  BY <3>1
  <2> QED  BY <1>1, <1>4, <1>7, <1>8, <1>10, <2>4, <2>5, <2>6, VisitSteps
<1> QED  BY <1>2, <1>9, <1>10

\* A node gets its number, and the delayed ones may follow it.
LEMMA LeaveSteps ==
    ASSUME TypeInv, WalkInv, Leave
    PROVE  TypeInv' /\ WalkInv'
<1> DEFINE md == Top[1]
           rest == Front(worklist)
           flushed == [n \in DOMAIN delayed |-> <<delayed[n], 0>>]
<1>1. /\ Walking /\ phase = "walking" /\ worklist # <<>>
      /\ mds' = Append(mds, md)
      /\ index' = [index EXCEPT ![md].id = Len(mds) + 1]
      /\ unit' = unit /\ phase' = phase /\ done' = done
      /\ functionMDs' = functionMDs /\ numModuleMDs' = numModuleMDs /\ todo' = todo
    BY DEF Leave, Walking, program, functions
<1>2. \/ worklist' = rest \o flushed /\ delayed' = <<>>
      \/ rest # <<>> /\ worklist' = rest /\ delayed' = delayed
    BY DEF Leave
<1>3. /\ worklist \in Seq(Metadata \X Nat) /\ delayed \in Seq(Metadata)
      /\ mds \in Seq(Metadata) /\ DOMAIN index \subseteq Metadata
      /\ index \in [DOMAIN index -> Entries] /\ Len(mds) \in Nat
      /\ Len(delayed) \in Nat /\ DOMAIN delayed = 1 .. Len(delayed)
    BY DEF TypeInv
<1>4. /\ Len(worklist) \in Nat /\ Len(worklist) > 0
      /\ Len(worklist) \in 1 .. Len(worklist)
      /\ md = worklist[Len(worklist)][1] /\ md \in Metadata
      /\ rest \in Seq(Metadata \X Nat)
      /\ Len(rest) = Len(worklist) - 1 /\ Len(rest) \in Nat
      /\ \A n \in 1 .. Len(rest) : rest[n] = worklist[n]
    BY <1>1, <1>3, TopOfWorklist
<1>5. /\ Matching(index, mds) /\ Waiting(index, worklist, delayed)
    BY <1>1 DEF WalkInv
<1> HIDE DEF md, rest
<1>6. md \in DOMAIN index /\ index[md].id = 0
    BY <1>4, <1>5 DEF Waiting
<1>7. /\ DOMAIN index' = DOMAIN index /\ index'[md].id = Len(mds) + 1
      /\ \A x \in DOMAIN index : /\ x # md => index'[x] = index[x]
                                 /\ index'[x].f = index[x].f
                                 /\ index'[x] \in Entries
      /\ index' \in [DOMAIN index' -> Entries] /\ DOMAIN index' \subseteq Metadata
  <2>1. \A x \in DOMAIN index : index[x] \in Entries /\ index[x].f \in Nat
      BY <1>3 DEF Entries
  <2>2. /\ DOMAIN index' = DOMAIN index
        /\ index'[md] = [index[md] EXCEPT !.id = Len(mds) + 1]
        /\ \A x \in DOMAIN index : x # md => index'[x] = index[x]
      BY <1>1, <1>3, <1>6
  <2>3. /\ index'[md] = [f |-> index[md].f, id |-> Len(mds) + 1]
      BY <1>6, <2>1, <2>2 DEF Entries
  <2>4. index'[md] \in Entries /\ index'[md].f = index[md].f
        /\ index'[md].id = Len(mds) + 1
      BY <1>3, <1>6, <2>1, <2>3 DEF Entries
  <2>5. index' = [x \in DOMAIN index' |-> index'[x]]
      BY <1>1, <1>3
  <2>6. \A x \in DOMAIN index : /\ x # md => index'[x] = index[x]
                                /\ index'[x].f = index[x].f
                                /\ index'[x] \in Entries
      BY <2>1, <2>2, <2>4
  <2>7. index' \in [DOMAIN index' -> Entries]
      BY <2>2, <2>5, <2>6
  <2> QED  BY <1>3, <2>2, <2>4, <2>6, <2>7
<1>8. Matching(index', mds') /\ mds' \in Seq(Metadata)
  <2>1. /\ DOMAIN index' = DOMAIN index \cup {md}
        /\ \A x \in DOMAIN index : x # md => index'[x].id = index[x].id
      BY <1>6, <1>7
  <2>2. Matching(index', Append(mds, md))
      BY <1>3, <1>4, <1>5, <1>6, <1>7, <2>1, MatchingAppended
  <2> QED  BY <1>1, <1>3, <1>4, <2>2
<1>9. Waiting(index', rest, delayed)
  <2>1. /\ index'[worklist[Len(worklist)][1]].id # 0
        /\ \A x \in DOMAIN index : x # worklist[Len(worklist)][1] =>
                                     index'[x].id = index[x].id
    <3>1. Len(mds) + 1 # 0
        BY <1>3
    <3> QED  BY <1>4, <1>7, <3>1
  <2>2. /\ Waiting(index, worklist, delayed) /\ DOMAIN index' = DOMAIN index
        /\ Len(worklist) \in Nat /\ Len(worklist) > 0
        /\ Len(rest) = Len(worklist) - 1 /\ \A n \in 1 .. Len(rest) : rest[n] = worklist[n]
      BY <1>4, <1>5, <1>7
  <2> QED  BY <2>1, <2>2, WaitingPopped
<1>10. \A r : Rooted(index, r) => Rooted(index', r)
    BY <1>7, RootedKept
<1>11. CASE worklist' = rest \o flushed /\ delayed' = <<>>
  <2>1. /\ flushed \in Seq(Metadata \X Nat) /\ Len(flushed) = Len(delayed)
        /\ \A n \in 1 .. Len(delayed) : flushed[n][1] = delayed[n]
    <3>1. /\ \A n \in 1 .. Len(delayed) : flushed[n] = <<delayed[n], 0>>
          /\ \A n \in 1 .. Len(delayed) : delayed[n] \in Metadata
        BY <1>3
    <3>2. flushed \in [1 .. Len(delayed) -> Metadata \X Nat]
        BY <1>3, <3>1
    <3>3. flushed \in Seq(Metadata \X Nat) /\ Len(flushed) = Len(delayed)
        BY <1>3, <3>2
    <3> QED  BY <3>1, <3>3
  <2> HIDE DEF flushed
  <2>2. /\ worklist' \in Seq(Metadata \X Nat)
        /\ Len(worklist') = Len(rest) + Len(delayed)
        /\ \A n \in 1 .. Len(rest) : worklist'[n] = rest[n]
        /\ \A n \in 1 .. Len(delayed) : worklist'[Len(rest) + n] = flushed[n]
    <3>1. rest \in Seq(Metadata \X Nat) /\ flushed \in Seq(Metadata \X Nat)
        BY <1>4, <2>1
    <3>2. /\ rest \o flushed \in Seq(Metadata \X Nat)
          /\ Len(rest \o flushed) = Len(rest) + Len(flushed)
          /\ \A n \in 1 .. Len(rest) : (rest \o flushed)[n] = rest[n]
          /\ \A n \in 1 .. Len(flushed) : (rest \o flushed)[Len(rest) + n] = flushed[n]
        BY <3>1, Concatenated
    <3> QED  BY <1>11, <2>1, <3>2
  <2>3. /\ \A n \in 1 .. Len(rest) : worklist'[n][1] = rest[n][1]
        /\ \A n \in 1 .. Len(delayed) : worklist'[Len(rest) + n][1] = delayed[n]
      BY <2>1, <2>2
  <2>4. Waiting(index', worklist', <<>>)
      BY <1>3, <1>4, <1>9, <2>2, <2>3, WaitingFlushed
  <2>5. <<>> \in Seq(Metadata)
      OBVIOUS
  <2> QED  BY <1>1, <1>7, <1>8, <1>10, <1>11, <2>2, <2>4, <2>5, VisitSteps
<1>12. CASE rest # <<>> /\ worklist' = rest /\ delayed' = delayed
    BY <1>1, <1>3, <1>4, <1>7, <1>8, <1>9, <1>10, <1>12, VisitSteps
<1> QED  BY <1>2, <1>11, <1>12

-----------------------------------------------------------------------------
(* organizeMetadata sorts all that is in the map *)

\* Once nothing waits, list and map hold the same metadata, and the numbers
\* tell it apart.
Settled ==
    /\ ToSet(mds) = DOMAIN index /\ Len(mds) \in Nat /\ DOMAIN mds = 1 .. Len(mds)
    /\ IsFiniteSet(ToSet(mds)) /\ Cardinality(ToSet(mds)) = Len(mds)
    /\ \A x \in ToSet(mds) : index[x].f \in Nat /\ index[x].id \in Nat
    /\ \A x, y \in ToSet(mds) : index[x].id = index[y].id => x = y
    /\ ToSet(mds) \subseteq Metadata

\* The walk ends with nothing waiting.
LEMMA NothingWaits ==
    ASSUME TypeInv, WalkInv, phase = "walking", worklist = <<>>
    PROVE  Settled
<1> DEFINE S == ToSet(mds)
           N == Len(mds)
<1>1. /\ mds \in Seq(Metadata) /\ N \in Nat /\ DOMAIN mds = 1 .. N
      /\ index \in [DOMAIN index -> Entries] /\ DOMAIN index \subseteq Metadata
    BY DEF TypeInv
<1>2. Matching(index, mds) /\ Waiting(index, worklist, delayed) /\ delayed = <<>>
    BY DEF WalkInv
<1>3. Len(worklist) = 0 /\ Len(delayed) = 0
    BY <1>2
<1>4. \A md \in DOMAIN index : index[md].id # 0
    BY <1>2, <1>3 DEF Waiting
<1>5. /\ \A n \in 1 .. N : mds[n] \in DOMAIN index /\ index[mds[n]].id = n
      /\ \A md \in DOMAIN index : index[md].id \in 1 .. N /\ mds[index[md].id] = md
    BY <1>2, <1>4 DEF Matching
<1>6. S = DOMAIN index
  <2>1. S = {mds[n] : n \in 1 .. N}
      BY <1>1 DEF ToSet
  <2> QED  BY <1>5, <2>1
<1>7. /\ \A x \in S : index[x].f \in Nat /\ index[x].id \in Nat
      /\ \A x, y \in S : index[x].id = index[y].id => x = y
      /\ S \subseteq Metadata
    BY <1>1, <1>5, <1>6 DEF Entries
<1>8. IsFiniteSet(S) /\ Cardinality(S) = N
  <2> DEFINE g == [x \in S |-> index[x].id]
  <2>1. g \in [S -> 1 .. N] /\ \A x, y \in S : g[x] = g[y] => x = y
      BY <1>5, <1>6, <1>7
  <2>2. \A n \in 1 .. N : \E x \in S : g[x] = n
      BY <1>5, <1>6
  <2> HIDE DEF g, S, N
  <2>3. g \in Injection(S, 1 .. N)
      BY <2>1 DEF Injection, IsInjective
  <2>4. g \in Surjection(S, 1 .. N)
      BY <2>1, <2>2 DEF Surjection
  <2>5. IsFiniteSet(1 .. N) /\ Cardinality(1 .. N) = N
    <3>1. N \in Nat /\ 1 \in Int /\ N \in Int
        BY <1>1
    <3>2. IsFiniteSet(1 .. N) /\ Cardinality(1 .. N) = IF 1 > N THEN 0 ELSE N - 1 + 1
        BY <3>1, FS_Interval
    <3>3. (IF 1 > N THEN 0 ELSE N - 1 + 1) = N
        BY <3>1
    <3> QED  BY <3>2, <3>3
  <2> QED  BY <2>3, <2>4, <2>5, FS_Injection
<1> QED  BY <1>1, <1>6, <1>7, <1>8 DEF Settled

\* The sort has a strict total order.
LEMMA PrecedesOrders ==
    ASSUME Settled
    PROVE  /\ \A x \in ToSet(mds) : ~ Precedes(x, x)
           /\ \A x, y, z \in ToSet(mds) :
                Precedes(x, y) /\ Precedes(y, z) => Precedes(x, z)
           /\ \A x, y \in ToSet(mds) : x # y => Precedes(x, y) \/ Precedes(y, x)
           /\ \A x, y \in ToSet(mds) : index[x].f < index[y].f => Precedes(x, y)
           /\ \A x, y \in ToSet(mds) : Precedes(x, y) => index[x].f <= index[y].f
<1>1. \A md : getMetadataTypeOrder(md) \in Nat
    BY DEF getMetadataTypeOrder
<1>2. /\ \A x \in ToSet(mds) : index[x].f \in Nat /\ index[x].id \in Nat
      /\ \A x, y \in ToSet(mds) : index[x].id = index[y].id => x = y
    BY DEF Settled
<1>3. \A x \in ToSet(mds) : ~ Precedes(x, x)
    BY <1>1, <1>2 DEF Precedes
<1>4. \A x, y, z \in ToSet(mds) : Precedes(x, y) /\ Precedes(y, z) => Precedes(x, z)
    BY <1>1, <1>2 DEF Precedes
<1>5. \A x, y \in ToSet(mds) : x # y => Precedes(x, y) \/ Precedes(y, x)
    BY <1>1, <1>2 DEF Precedes
<1>6. \A x, y \in ToSet(mds) : index[x].f < index[y].f => Precedes(x, y)
    BY DEF Precedes
<1>7. \A x, y \in ToSet(mds) : Precedes(x, y) => index[x].f <= index[y].f
    BY <1>2 DEF Precedes
<1> QED  BY <1>3, <1>4, <1>5, <1>6, <1>7

\* A smaller set has fewer members.
LEMMA FewerMembers ==
    ASSUME NEW S, IsFiniteSet(S), NEW A \in SUBSET S, NEW B \in SUBSET S
    PROVE  /\ Cardinality(A) \in Nat /\ Cardinality(A) <= Cardinality(S)
           /\ A \subseteq B => Cardinality(A) <= Cardinality(B)
           /\ A \subseteq B => \A x \in B \ A : Cardinality(A) < Cardinality(B)
<1>1. IsFiniteSet(A) /\ IsFiniteSet(B) /\ Cardinality(A) <= Cardinality(S)
    BY FS_Subset
<1>2. Cardinality(A) \in Nat /\ Cardinality(B) \in Nat
    BY <1>1, FS_CardinalityType
<1>3. A \subseteq B => Cardinality(A) <= Cardinality(B)
    BY <1>1, FS_Subset
<1>4. A \subseteq B => (Cardinality(B) = Cardinality(A) => B = A)
    BY <1>1, FS_Subset
<1> QED  BY <1>1, <1>2, <1>3, <1>4

\* The places are the numbers of the list, each taken once.
LEMMA PlacesTaken ==
    ASSUME Settled
    PROVE  /\ \A x \in ToSet(mds) : Place(x) \in 1 .. Len(mds)
           /\ \A x, y \in ToSet(mds) : Place(x) = Place(y) => x = y
           /\ \A n \in 1 .. Len(mds) : \E x \in ToSet(mds) : Place(x) = n
           /\ \A x, y \in ToSet(mds) : Precedes(x, y) => Place(x) < Place(y)
<1> DEFINE S == ToSet(mds)
           N == Len(mds)
           Down(md) == {x \in S : Precedes(x, md)}
<1>1. IsFiniteSet(S) /\ Cardinality(S) = N /\ N \in Nat
    BY DEF Settled
<1>2. /\ \A x \in S : ~ Precedes(x, x)
      /\ \A x, y, z \in S : Precedes(x, y) /\ Precedes(y, z) => Precedes(x, z)
      /\ \A x, y \in S : x # y => Precedes(x, y) \/ Precedes(y, x)
    BY PrecedesOrders
<1>3. \A x : Place(x) = 1 + Cardinality(Down(x))
    BY DEF Place
<1>4. ASSUME NEW x \in S
      PROVE  Place(x) \in 1 .. N
  <2>1. Down(x) \in SUBSET S /\ S \in SUBSET S /\ x \in S \ Down(x)
      BY <1>2
  <2> HIDE DEF Down, S, N
  <2>2. Cardinality(Down(x)) \in Nat /\ Cardinality(Down(x)) < Cardinality(S)
      BY <1>1, <2>1, FewerMembers
  <2> QED  BY <1>1, <1>3, <2>2
<1>5. ASSUME NEW x \in S, NEW y \in S, Precedes(x, y)
      PROVE  Place(x) < Place(y)
  <2>1. /\ Down(x) \in SUBSET S /\ Down(y) \in SUBSET S /\ Down(x) \subseteq Down(y)
        /\ x \in Down(y) \ Down(x)
      BY <1>2, <1>5
  <2> HIDE DEF Down, S, N
  <2>2. /\ Cardinality(Down(x)) \in Nat /\ Cardinality(Down(y)) \in Nat
        /\ Cardinality(Down(x)) < Cardinality(Down(y))
      BY <1>1, <2>1, FewerMembers
  <2> QED  BY <1>3, <2>2
<1>6. \A x, y \in S : Place(x) = Place(y) => x = y
  <2> SUFFICES ASSUME NEW x \in S, NEW y \in S, Place(x) = Place(y), x # y
               PROVE  FALSE
      OBVIOUS
  <2>1. Precedes(x, y) \/ Precedes(y, x)
      BY <1>2
  <2>2. Place(x) < Place(y) \/ Place(y) < Place(x)
      BY <1>5, <2>1
  <2> QED  BY <1>4, <2>2
<1> HIDE DEF S, N, Down
<1>7. \A n \in 1 .. N : \E x \in S : Place(x) = n
  <2> DEFINE g == [x \in S |-> Place(x)]
  <2>1. g \in [S -> 1 .. N] /\ \A x, y \in S : g[x] = g[y] => x = y
      BY <1>4, <1>6
  <2>2. \A x \in S : g[x] = Place(x)
      OBVIOUS
  <2> HIDE DEF g
  <2>3. g \in Injection(S, 1 .. N)
      BY <2>1 DEF Injection, IsInjective
  <2>4. IsFiniteSet(1 .. N) /\ Cardinality(1 .. N) = N
      BY <1>1, FS_Interval
  <2>5. g \in Surjection(S, 1 .. N)
      BY <1>1, <2>3, <2>4, FS_Injection
  <2>6. \A n \in 1 .. N : \E x \in S : g[x] = n
      BY <2>5 DEF Surjection
  <2> QED  BY <2>2, <2>6
<1> QED  BY <1>4, <1>5, <1>6, <1>7 DEF S, N

\* The places of a function's metadata are those between its bounds.
LEMMA PlacesOfFunctions ==
    ASSUME Settled
    PROVE  /\ Before(0) = 0
           /\ \A f \in Nat : Before(f) \in Nat /\ Before(f) <= Len(mds)
           /\ \A f, g \in Nat : f <= g => Before(f) <= Before(g)
           /\ \A x \in ToSet(mds) : /\ Before(index[x].f) < Place(x)
                                    /\ Place(x) <= Before(index[x].f + 1)
           /\ \A f \in Nat, x \in ToSet(mds) :
                Before(f) < Place(x) /\ Place(x) <= Before(f + 1) => index[x].f = f
<1> DEFINE S == ToSet(mds)
           N == Len(mds)
           Down(md) == {x \in S : Precedes(x, md)}
           Low(f) == {x \in S : index[x].f < f}
<1>1. IsFiniteSet(S) /\ Cardinality(S) = N /\ N \in Nat
    BY DEF Settled
<1>2. \A x \in S : index[x].f \in Nat
    BY DEF Settled
<1>3. /\ \A x \in S : ~ Precedes(x, x)
      /\ \A x, y \in S : index[x].f < index[y].f => Precedes(x, y)
      /\ \A x, y \in S : Precedes(x, y) => index[x].f <= index[y].f
    BY PrecedesOrders
<1>4. /\ \A f : Before(f) = Cardinality(Low(f))
      /\ \A x : Place(x) = 1 + Cardinality(Down(x))
    BY DEF Before, Place
<1>5. /\ \A f : Low(f) \in SUBSET S
      /\ \A x : Down(x) \in SUBSET S
      /\ S \in SUBSET S
    OBVIOUS
<1>6. Low(0) = {}
    BY <1>2
<1>7. \A f, g \in Nat : f <= g => Low(f) \subseteq Low(g)
    BY <1>2
<1>8. \A x \in S : /\ Low(index[x].f) \subseteq Down(x)
                   /\ Down(x) \subseteq Low(index[x].f + 1)
                   /\ x \in Low(index[x].f + 1) \ Down(x)
    BY <1>2, <1>3
<1> HIDE DEF S, N, Down, Low
<1>9. Before(0) = 0
    BY <1>4, <1>6, FS_EmptySet
<1>10. \A f \in Nat : Before(f) \in Nat /\ Before(f) <= N
    BY <1>1, <1>4, <1>5, FewerMembers
<1>11. \A f, g \in Nat : f <= g => Before(f) <= Before(g)
    BY <1>1, <1>4, <1>5, <1>7, FewerMembers
<1>12. ASSUME NEW x \in S
       PROVE  /\ Before(index[x].f) < Place(x)
              /\ Place(x) <= Before(index[x].f + 1) /\ Place(x) \in Nat
  <2>1. Cardinality(Low(index[x].f)) <= Cardinality(Down(x))
      BY <1>1, <1>5, <1>8, FewerMembers
  <2>2. Cardinality(Down(x)) < Cardinality(Low(index[x].f + 1))
      BY <1>1, <1>5, <1>8, FewerMembers
  <2>3. /\ Cardinality(Down(x)) \in Nat /\ Cardinality(Low(index[x].f)) \in Nat
        /\ Cardinality(Low(index[x].f + 1)) \in Nat
      BY <1>1, <1>5, FewerMembers
  <2> QED  BY <1>4, <2>1, <2>2, <2>3
<1>13. ASSUME NEW f \in Nat, NEW x \in S,
              Before(f) < Place(x), Place(x) <= Before(f + 1)
       PROVE  index[x].f = f
  <2> DEFINE g == index[x].f
  <2>1. g \in Nat /\ g + 1 \in Nat /\ f + 1 \in Nat
      BY <1>2
  <2>2. Before(g) < Place(x) /\ Place(x) <= Before(g + 1) /\ Place(x) \in Nat
      BY <1>12
  <2> HIDE DEF g
  <2>3. /\ Before(f) \in Nat /\ Before(g) \in Nat
        /\ Before(f + 1) \in Nat /\ Before(g + 1) \in Nat
      BY <1>10, <2>1
  <2>4. ~ g + 1 <= f
      BY <1>11, <1>13, <2>1, <2>2, <2>3
  <2>5. ~ f + 1 <= g
      BY <1>11, <1>13, <2>1, <2>2, <2>3
  <2>6. g = f
      BY <2>1, <2>4, <2>5
  <2> QED  BY <2>6 DEF g
<1> QED  BY <1>9, <1>10, <1>11, <1>12, <1>13 DEF S, N

\* The sorted list has each metadata at its place.
LEMMA SortedPlaces ==
    ASSUME Settled
    PROVE  /\ Sorted \in Seq(Metadata) /\ Len(Sorted) = Len(mds)
           /\ \A n \in 1 .. Len(mds) : Sorted[n] \in ToSet(mds) /\ Place(Sorted[n]) = n
           /\ \A x \in ToSet(mds) : Sorted[Place(x)] = x
<1>1. /\ Len(mds) \in Nat /\ DOMAIN mds = 1 .. Len(mds) /\ ToSet(mds) \subseteq Metadata
    BY DEF Settled
<1>2. /\ \A x \in ToSet(mds) : Place(x) \in 1 .. Len(mds)
      /\ \A x, y \in ToSet(mds) : Place(x) = Place(y) => x = y
      /\ \A n \in 1 .. Len(mds) : \E x \in ToSet(mds) : Place(x) = n
    BY PlacesTaken
<1>3. \A n \in 1 .. Len(mds) :
        Sorted[n] = CHOOSE md \in ToSet(mds) : Place(md) = n
    BY <1>1 DEF Sorted
<1>4. \A n \in 1 .. Len(mds) : Sorted[n] \in ToSet(mds) /\ Place(Sorted[n]) = n
    BY <1>2, <1>3
<1>5. Sorted \in [1 .. Len(mds) -> Metadata]
  <2>1. Sorted = [n \in 1 .. Len(mds) |-> Sorted[n]]
      BY <1>1 DEF Sorted
  <2> QED  BY <1>1, <1>4, <2>1
<1>6. Sorted \in Seq(Metadata) /\ Len(Sorted) = Len(mds)
    BY <1>1, <1>5
<1>7. \A x \in ToSet(mds) : Sorted[Place(x)] = x
    BY <1>2, <1>4
<1> QED  BY <1>4, <1>6, <1>7

\* A part of a sequence.
LEMMA PartOf ==
    ASSUME NEW S, NEW s \in Seq(S), NEW a \in Nat, NEW b \in Nat, a <= b, b <= Len(s)
    PROVE  /\ SubSeq(s, a + 1, b) \in Seq(S) /\ Len(SubSeq(s, a + 1, b)) = b - a
           /\ \A n \in 1 .. b - a : SubSeq(s, a + 1, b)[n] = s[a + n]
<1>1. Len(s) \in Nat
    OBVIOUS
<1>2. /\ a + 1 \in 1 .. Len(s) + 1 /\ b \in a .. Len(s) /\ b - (a + 1) + 1 = b - a
      /\ a + 1 \in Int /\ b \in Int
      /\ \A n \in 1 .. b - a : (a + 1) + n - 1 = a + n
      /\ \A i \in a + 1 .. b : i \in 1 .. Len(s)
    BY <1>1
<1>3. \A i \in a + 1 .. b : s[i] \in S
    BY <1>2, ElementOfSeq
<1>4. (IF a + 1 <= b + 1 THEN b - (a + 1) + 1 ELSE 0) = b - a
    BY <1>2
<1> DEFINE m == a + 1
<1>5. m \in Int /\ b \in Int /\ \A i \in m .. b : s[i] \in S
    BY <1>2, <1>3
<1> HIDE DEF m
<1>6. /\ SubSeq(s, m, b) \in Seq(S)
      /\ Len(SubSeq(s, m, b)) = (IF m <= b THEN b - m + 1 ELSE 0)
      /\ \A n \in 1 .. b - m + 1 : SubSeq(s, m, b)[n] = s[m + n - 1]
    BY <1>5, SubSeqProperties
<1>7. (IF m <= b THEN b - m + 1 ELSE 0) = b - a /\ b - m + 1 = b - a
    BY DEF m
<1>8. \A n \in 1 .. b - a : m + n - 1 = a + n
    BY DEF m
<1> QED  BY <1>6, <1>7, <1>8 DEF m

\* After the sort the module's metadata is the list, and each function has its
\* range.
LEMMA OrganizeHolds ==
    ASSUME TypeInv, Settled, organizeMetadata
    PROVE  /\ mds' \in Seq(Metadata) /\ functionMDs' \in Seq(Metadata)
           /\ index' \in [DOMAIN index' -> Entries] /\ DOMAIN index' = DOMAIN index
           /\ \A md \in DOMAIN index : index'[md].f = index[md].f
           /\ Holds(index', mds', 0, Len(mds'), 0, 0)
           /\ \A f \in Nat : f > 0 => RangeHolds(index, f, Len(mds))'
<1> DEFINE N == Len(mds)
           A == Before(1)
           Shift(f) == IF f = 0 THEN 0 ELSE A
<1>1. /\ mds' = SubSeq(Sorted, 1, A) /\ functionMDs' = SubSeq(Sorted, A + 1, N)
      /\ ranges' = [f \in {index[md].f : md \in ToSet(mds)} \ {0} |->
                    [first |-> Before(f) - A, last |-> Before(f + 1) - A,
                     strings |-> Strings(f)]]
      /\ index' = [md \in DOMAIN index |->
                   LET f == index[md].f
                   IN [f |-> f, id |-> Place(md) - Before(f) + Shift(f)]]
    BY DEF organizeMetadata
<1>2. /\ N \in Nat /\ ToSet(mds) = DOMAIN index /\ ToSet(mds) \subseteq Metadata
      /\ \A x \in ToSet(mds) : index[x].f \in Nat
    BY DEF Settled
<1>3. /\ Before(0) = 0
      /\ \A f \in Nat : Before(f) \in Nat /\ Before(f) <= N
      /\ \A f, g \in Nat : f <= g => Before(f) <= Before(g)
      /\ \A x \in ToSet(mds) : /\ Before(index[x].f) < Place(x)
                               /\ Place(x) <= Before(index[x].f + 1)
      /\ \A f \in Nat, x \in ToSet(mds) :
           Before(f) < Place(x) /\ Place(x) <= Before(f + 1) => index[x].f = f
    BY PlacesOfFunctions
<1>4. /\ Sorted \in Seq(Metadata) /\ Len(Sorted) = N
      /\ \A n \in 1 .. N : Sorted[n] \in ToSet(mds) /\ Place(Sorted[n]) = n
      /\ \A x \in ToSet(mds) : Sorted[Place(x)] = x
    BY SortedPlaces
<1>5. \A x \in ToSet(mds) : Place(x) \in 1 .. N
    BY PlacesTaken
<1>6. A \in Nat /\ A <= N
    BY <1>3
<1> HIDE DEF N, A
<1>7. /\ mds' \in Seq(Metadata) /\ Len(mds') = A
      /\ \A n \in 1 .. A : mds'[n] = Sorted[n]
  <2>1. /\ 0 \in Nat /\ 0 <= A /\ 0 + 1 = 1 /\ A - 0 = A
        /\ \A n \in 1 .. A : 0 + n = n
      BY <1>6
  <2>2. /\ SubSeq(Sorted, 0 + 1, A) \in Seq(Metadata)
        /\ Len(SubSeq(Sorted, 0 + 1, A)) = A - 0
        /\ \A n \in 1 .. A - 0 : SubSeq(Sorted, 0 + 1, A)[n] = Sorted[0 + n]
      BY <1>4, <1>6, <2>1, PartOf
  <2> QED  BY <1>1, <2>1, <2>2
<1>8. /\ functionMDs' \in Seq(Metadata) /\ Len(functionMDs') = N - A
      /\ \A n \in 1 .. N - A : functionMDs'[n] = Sorted[A + n]
    BY <1>1, <1>2, <1>4, <1>6, PartOf, SMTT(30)
<1>9. /\ DOMAIN index' = DOMAIN index
      /\ \A md \in DOMAIN index :
           index'[md] = [f |-> index[md].f,
                         id |-> Place(md) - Before(index[md].f) + Shift(index[md].f)]
    BY <1>1
<1>10. \A f \in Nat : Shift(f) \in Nat
    BY <1>6
<1> HIDE DEF Shift
<1>11. \A md \in DOMAIN index : /\ index'[md] \in Entries
                                /\ index'[md].f = index[md].f
  <2> SUFFICES ASSUME NEW md \in DOMAIN index
               PROVE  index'[md] \in Entries /\ index'[md].f = index[md].f
      OBVIOUS
  <2> DEFINE f == index[md].f
             id == Place(md) - Before(f) + Shift(f)
  <2>1. /\ f \in Nat /\ Shift(f) \in Nat /\ Before(f) \in Nat
        /\ Before(f) < Place(md) /\ Place(md) \in Nat
      BY <1>2, <1>3, <1>5, <1>10
  <2>2. index'[md] = [f |-> f, id |-> id]
      BY <1>9
  <2>3. id \in Nat
      BY <2>1
  <2> HIDE DEF f, id
  <2> QED  BY <2>1, <2>2, <2>3 DEF Entries, f
<1>12. index' \in [DOMAIN index' -> Entries]
  <2>1. index' = [md \in DOMAIN index' |-> index'[md]]
      BY <1>1
  <2> QED  BY <1>9, <1>11, <2>1
<1>13. Holds(index', mds', 0, Len(mds'), 0, 0)
  <2>1. ASSUME NEW n \in 0 + 1 .. Len(mds')
        PROVE  /\ mds'[n] \in DOMAIN index'
               /\ index'[mds'[n]] = [f |-> 0, id |-> 0 + n - 0]
    <3>1. n \in 1 .. A /\ n \in 1 .. N /\ n \in Nat /\ n > 0 /\ n <= A /\ 0 + n - 0 = n
        BY <1>2, <1>6, <1>7
    <3>2. mds'[n] = Sorted[n] /\ Sorted[n] \in ToSet(mds) /\ Place(Sorted[n]) = n
        BY <1>4, <1>7, <3>1
    <3>3. index[Sorted[n]].f = 0
      <4>1. Before(0) < Place(Sorted[n]) /\ Place(Sorted[n]) <= Before(0 + 1)
          BY <1>3, <3>1, <3>2 DEF A
      <4> QED  BY <1>3, <3>2, <4>1
    <3>4. n - Before(0) + Shift(0) = n
        BY <1>3, <3>1 DEF Shift
    <3>5. index'[Sorted[n]] = [f |-> 0, id |-> n]
        BY <1>2, <1>9, <3>2, <3>3, <3>4
    <3> QED  BY <1>2, <1>9, <3>1, <3>2, <3>5
  <2>2. ASSUME NEW md \in DOMAIN index', index'[md].f = 0
        PROVE  \E n \in 0 + 1 .. Len(mds') : mds'[n] = md
    <3>1. md \in ToSet(mds) /\ index[md].f = 0
        BY <1>2, <1>9, <1>11, <2>2
    <3>2. Before(0) < Place(md) /\ Place(md) <= Before(0 + 1) /\ Place(md) \in 1 .. N
        BY <1>3, <1>5, <3>1
    <3>3. Place(md) \in 1 .. A /\ Place(md) \in 0 + 1 .. Len(mds')
        BY <1>3, <1>7, <3>2 DEF A
    <3>4. mds'[Place(md)] = md
        BY <1>4, <1>7, <3>1, <3>3
    <3> QED  BY <3>3, <3>4
  <2> QED  BY <2>1, <2>2 DEF Holds
<1>14. ASSUME NEW f \in Nat, f > 0
       PROVE  RangeHolds(index, f, Len(mds))'
  <2> DEFINE r == RangeOf(f)'
             lo == Before(f) - A
             hi == Before(f + 1) - A
  <2>1. /\ Before(f) \in Nat /\ Before(f + 1) \in Nat /\ f + 1 \in Nat
        /\ A <= Before(f) /\ Before(f) <= Before(f + 1) /\ Before(f + 1) <= N
      BY <1>3, <1>14 DEF A
  <2>2. /\ lo \in Nat /\ hi \in Nat /\ lo <= hi /\ hi <= Len(functionMDs')
        /\ Len(functionMDs') \in Nat
      BY <1>2, <1>6, <1>8, <2>1
  <2>3. CASE f \in {index[md].f : md \in ToSet(mds)}
    <3>1. r.first = lo /\ r.last = hi
        BY <1>1, <1>14, <2>3 DEF RangeOf
    <3>2. ASSUME NEW n \in lo + 1 .. hi
          PROVE  /\ functionMDs'[n] \in DOMAIN index'
                 /\ index'[functionMDs'[n]] = [f |-> f, id |-> A + n - lo]
      <4> DEFINE k == A + n
                 x == Sorted[k]
      <4>1. /\ n \in 1 .. N - A /\ k \in 1 .. N
            /\ Before(f) < k /\ k <= Before(f + 1) /\ k \in Nat
            /\ k - Before(f) + A = A + n - lo
          BY <1>2, <1>6, <2>1
      <4> HIDE DEF k
      <4>2. functionMDs'[n] = x /\ x \in ToSet(mds) /\ Place(x) = k
          BY <1>4, <1>8, <4>1 DEF k
      <4>3. index[x].f = f
          BY <1>3, <4>1, <4>2
      <4>4. Shift(f) = A
          BY <1>14 DEF Shift
      <4> HIDE DEF x
      <4>5. index'[x] = [f |-> f, id |-> k - Before(f) + A]
          BY <1>2, <1>9, <4>2, <4>3, <4>4
      <4> QED  BY <1>2, <1>9, <4>1, <4>2, <4>5
    <3>3. ASSUME NEW md \in DOMAIN index', index'[md].f = f
          PROVE  \E n \in lo + 1 .. hi : functionMDs'[n] = md
      <4>1. md \in ToSet(mds) /\ index[md].f = f
          BY <1>2, <1>9, <1>11, <3>3
      <4>2. Before(f) < Place(md) /\ Place(md) <= Before(f + 1) /\ Place(md) \in 1 .. N
          BY <1>3, <1>5, <4>1
      <4> DEFINE n == Place(md) - A
      <4>3. n \in lo + 1 .. hi /\ n \in 1 .. N - A /\ A + n = Place(md)
          BY <1>2, <1>6, <2>1, <4>2
      <4> HIDE DEF n
      <4>4. functionMDs'[n] = md
          BY <1>4, <1>8, <4>1, <4>3
      <4> QED  BY <4>3, <4>4
    <3>4. Holds(index', functionMDs', lo, hi, f, A)
        BY <3>2, <3>3 DEF Holds
    <3> HIDE DEF lo, hi, r
    <3> QED  BY <1>7, <2>2, <3>1, <3>4 DEF RangeHolds, r
  <2>4. CASE f \notin {index[md].f : md \in ToSet(mds)}
    <3>1. r.first = 0 /\ r.last = 0
        BY <1>1, <2>4 DEF RangeOf, NoRange
    <3>2. \A md \in DOMAIN index' : index'[md].f # f
        BY <1>2, <1>9, <1>11, <2>4
    <3>3. Holds(index', functionMDs', 0, 0, f, A)
        BY <3>2 DEF Holds
    <3> HIDE DEF lo, hi, r
    <3> QED  BY <1>7, <2>2, <3>1, <3>3 DEF RangeHolds, r
  <2> QED  BY <2>3, <2>4
<1> QED  BY <1>7, <1>8, <1>9, <1>11, <1>12, <1>13, <1>14

\* After organizeMetadata all functions are still to come.
LEMMA organizeMetadataSteps ==
    ASSUME NumberingInv, organizeMetadata
    PROVE  NumberingInv'
<1>1. /\ phase = "walking" /\ worklist = <<>> /\ done = Len(unit.roots)
      /\ phase' = "ready" /\ done' = 0 /\ unit' = unit /\ worklist' = worklist
      /\ delayed' = delayed /\ numModuleMDs' = numModuleMDs /\ todo' = todo
    BY DEF organizeMetadata, walk
<1>2. TypeInv /\ WalkInv /\ Settled
    BY <1>1, NothingWaits DEF NumberingInv
<1>3. /\ mds' \in Seq(Metadata) /\ functionMDs' \in Seq(Metadata)
      /\ index' \in [DOMAIN index' -> Entries] /\ DOMAIN index' = DOMAIN index
      /\ \A md \in DOMAIN index : index'[md].f = index[md].f
      /\ Holds(index', mds', 0, Len(mds'), 0, 0)
      /\ \A f \in Nat : f > 0 => RangeHolds(index, f, Len(mds))'
    BY <1>2, OrganizeHolds
<1>4. TypeInv'
    BY <1>1, <1>2, <1>3 DEF TypeInv
<1>5. WalkInv'
    BY <1>1 DEF WalkInv
<1>6. \A r \in ToSet(unit.roots) : Rooted(index', r)
  <2>1. unit.roots \in Seq([f : Nat, md : Metadata])
      BY <1>2, UnitFields DEF TypeInv
  <2>2. DOMAIN unit.roots = 1 .. Len(unit.roots)
      BY <2>1
  <2>3. \A n \in 1 .. Len(unit.roots) : Rooted(index, unit.roots[n])
      BY <1>1, <1>2 DEF WalkInv
  <2>4. \A n \in 1 .. Len(unit.roots) : Rooted(index', unit.roots[n])
      BY <1>3, <2>3 DEF Rooted
  <2> QED  BY <2>2, <2>4 DEF ToSet
<1>7. \A md \in DOMAIN index' : index'[md].f \in Nat
    BY <1>3 DEF Entries
<1>8. \A md \in DOMAIN index' : index'[md].f > 0 \/ index'[md].f = 0
    BY <1>7
<1>9. ModuleEnd' = Len(mds')
    BY <1>1 DEF ModuleEnd
<1>10. FunctionsInv'
    BY <1>1, <1>3, <1>6, <1>8, <1>9 DEF FunctionsInv
<1> QED  BY <1>4, <1>5, <1>10 DEF NumberingInv

-----------------------------------------------------------------------------
(* The functions keep out of each other's way *)

\* A range only depends on the metadata with its tag.
LEMMA HoldsKept ==
    ASSUME NEW ix, NEW iy, NEW list, NEW next, NEW from, NEW to, NEW f, NEW base,
           Holds(ix, list, from, to, f, base),
           \A x \in DOMAIN ix : ix[x].f = f => x \in DOMAIN iy /\ iy[x] = ix[x],
           \A x \in DOMAIN iy : iy[x].f = f => x \in DOMAIN ix /\ ix[x].f = f,
           \A n \in from + 1 .. to : next[n] = list[n]
    PROVE  Holds(iy, next, from, to, f, base)
<1>1. ASSUME NEW n \in from + 1 .. to
      PROVE  /\ next[n] \in DOMAIN iy
             /\ iy[next[n]] = [f |-> f, id |-> base + n - from]
  <2>1. /\ list[n] \in DOMAIN ix /\ next[n] = list[n]
        /\ ix[list[n]] = [f |-> f, id |-> base + n - from]
      BY DEF Holds
  <2>2. ix[list[n]].f = f
      BY <2>1
  <2> QED  BY <2>1, <2>2
<1>2. ASSUME NEW x \in DOMAIN iy, iy[x].f = f
      PROVE  \E n \in from + 1 .. to : next[n] = x
  <2>1. \E n \in from + 1 .. to : list[n] = x
      BY <1>2 DEF Holds
  <2> QED  BY <2>1
<1> QED  BY <1>1, <1>2 DEF Holds

\* A range that is copied behind the module's metadata.
LEMMA HoldsMoved ==
    ASSUME NEW ix, NEW list, NEW next, NEW f, NEW a \in Nat, NEW z \in Nat,
           NEW base \in Nat, a <= z, Holds(ix, list, a, z, f, base),
           \A n \in 1 .. z - a : next[base + n] = list[a + n]
    PROVE  Holds(ix, next, base, base + (z - a), f, base)
<1>1. ASSUME NEW n \in base + 1 .. base + (z - a)
      PROVE  /\ next[n] \in DOMAIN ix
             /\ ix[next[n]] = [f |-> f, id |-> base + n - base]
  <2> DEFINE k == n - base
  <2>1. /\ k \in 1 .. z - a /\ base + k = n /\ a + k \in a + 1 .. z
        /\ base + (a + k) - a = n /\ base + n - base = n
      OBVIOUS
  <2> HIDE DEF k
  <2>2. next[n] = list[a + k]
      BY <2>1
  <2>3. /\ list[a + k] \in DOMAIN ix
        /\ ix[list[a + k]] = [f |-> f, id |-> base + (a + k) - a]
      BY <2>1 DEF Holds
  <2> QED  BY <2>1, <2>2, <2>3
<1>2. ASSUME NEW x \in DOMAIN ix, ix[x].f = f
      PROVE  \E n \in base + 1 .. base + (z - a) : next[n] = x
  <2>1. PICK m \in a + 1 .. z : list[m] = x
      BY <1>2 DEF Holds
  <2> DEFINE k == m - a
  <2>2. /\ k \in 1 .. z - a /\ a + k = m /\ base + k \in base + 1 .. base + (z - a)
      OBVIOUS
  <2> HIDE DEF k
  <2>3. next[base + k] = x
      BY <2>1, <2>2
  <2> QED  BY <2>2, <2>3
<1> QED  BY <1>1, <1>2 DEF Holds

\* A function's range moves behind the module's metadata.
LEMMA incorporateFunctionSteps ==
    ASSUME NumberingInv, incorporateFunction
    PROVE  NumberingInv'
<1> DEFINE g == done + 1
           r == RangeOf(g)
           M == Len(mds)
<1>1. /\ phase = "ready" /\ phase' = "incorporated" /\ done' = g
      /\ done < Len(unit.locals)
      /\ numModuleMDs' = M /\ mds' = mds \o SubSeq(functionMDs, r.first + 1, r.last)
      /\ todo' = LocalsFirst(unit, g) /\ unit' = unit
      /\ worklist' = worklist /\ delayed' = delayed /\ index' = index
      /\ functionMDs' = functionMDs /\ ranges' = ranges
    BY DEF incorporateFunction, walk
<1>2. TypeInv /\ FunctionsInv
    BY DEF NumberingInv
<1>3. /\ unit \in Units /\ done \in Nat /\ mds \in Seq(Metadata) /\ M \in Nat
      /\ functionMDs \in Seq(Metadata) /\ g \in Nat /\ g > done /\ g > 0
      /\ index \in [DOMAIN index -> Entries]
    BY <1>2 DEF TypeInv
<1>4. ModuleEnd = M /\ ModuleEnd' = M
    BY <1>1 DEF ModuleEnd
<1>5. /\ Holds(index, mds, 0, M, 0, 0)
      /\ \A f \in Nat : f > done => RangeHolds(index, f, M)
      /\ \A md \in DOMAIN index : index[md].f > done \/ index[md].f = 0
      /\ \A x \in ToSet(unit.roots) : x.f > done => Rooted(index, x)
    BY <1>1, <1>2, <1>4 DEF FunctionsInv
<1>6. g \in DOMAIN unit.locals
  <2>1. unit.locals \in Seq(Seq(Metadata))
      BY <1>3, UnitFields
  <2> QED  BY <1>1, <1>3, <2>1
<1> HIDE DEF g, r, M
<1>7. /\ LocalsFirst(unit, g) \in Seq(Metadata)
      /\ \A md \in ToSet(LocalsFirst(unit, g)) :
           Kind(md) = "constant" => [f |-> g, md |-> md] \in ToSet(unit.roots)
    BY <1>3, <1>6, ListsAssumption, LocalsOrdered DEF Kind
<1>8. /\ r.first \in Nat /\ r.last \in Nat /\ r.first <= r.last
      /\ r.last <= Len(functionMDs)
      /\ Holds(index, functionMDs, r.first, r.last, g, M)
    BY <1>3, <1>5 DEF RangeHolds, r
<1> DEFINE part == SubSeq(functionMDs, r.first + 1, r.last)
<1>9. /\ part \in Seq(Metadata) /\ Len(part) = r.last - r.first
      /\ \A n \in 1 .. r.last - r.first : part[n] = functionMDs[r.first + n]
  <2> DEFINE a == r.first
             z == r.last
  <2>1. /\ functionMDs \in Seq(Metadata) /\ a \in Nat /\ z \in Nat /\ a <= z
        /\ z <= Len(functionMDs)
      BY <1>3, <1>8
  <2> HIDE DEF a, z
  <2>2. /\ SubSeq(functionMDs, a + 1, z) \in Seq(Metadata)
        /\ Len(SubSeq(functionMDs, a + 1, z)) = z - a
        /\ \A n \in 1 .. z - a : SubSeq(functionMDs, a + 1, z)[n] = functionMDs[a + n]
      BY <2>1, PartOf
  <2> QED  BY <2>2 DEF a, z
<1> HIDE DEF part
<1>10. /\ mds' \in Seq(Metadata) /\ Len(mds') = M + (r.last - r.first)
       /\ \A n \in 1 .. M : mds'[n] = mds[n]
       /\ \A n \in 1 .. r.last - r.first : mds'[M + n] = functionMDs[r.first + n]
  <2>1. mds' = mds \o part
      BY <1>1 DEF part
  <2>2. /\ mds \o part \in Seq(Metadata) /\ Len(mds \o part) = M + Len(part)
        /\ \A n \in 1 .. M : (mds \o part)[n] = mds[n]
        /\ \A n \in 1 .. Len(part) : (mds \o part)[M + n] = part[n]
    <3>1. mds \in Seq(Metadata) /\ part \in Seq(Metadata)
        BY <1>3, <1>9
    <3> QED  BY <3>1, Concatenated DEF M
  <2> QED  BY <1>9, <2>1, <2>2
<1>11. TypeInv'
  <2>1. "incorporated" # "walking"
      OBVIOUS
  <2> QED  BY <1>1, <1>2, <1>3, <1>7, <1>10, <2>1 DEF TypeInv
<1>12. WalkInv'
    BY <1>1 DEF WalkInv
<1>13. Holds(index', mds', 0, ModuleEnd', 0, 0)
  <2>1. \A n \in 0 + 1 .. M : mds'[n] = mds[n]
      BY <1>10
  <2>2. Holds(index, mds', 0, M, 0, 0)
      BY <1>5, <2>1, HoldsKept
  <2> QED  BY <1>1, <1>4, <2>2
<1>14. \A f \in Nat : f > done' => RangeHolds(index, f, ModuleEnd)'
  <2> SUFFICES ASSUME NEW f \in Nat, f > done'
               PROVE  RangeHolds(index, f, ModuleEnd)'
      OBVIOUS
  <2>1. RangeHolds(index, f, M) /\ RangeOf(f)' = RangeOf(f)
      BY <1>1, <1>3, <1>5 DEF RangeOf, g
  <2> QED  BY <1>1, <1>4, <2>1 DEF RangeHolds
<1>15. done' > 0 /\ numModuleMDs' <= Len(mds')
    BY <1>1, <1>3, <1>8, <1>10
<1>16. Holds(index', mds', numModuleMDs', Len(mds'), done', numModuleMDs')
  <2>1. M \in Nat
      BY <1>3
  <2>2. Holds(index, mds', M, M + (r.last - r.first), g, M)
      BY <1>8, <1>10, <2>1, HoldsMoved
  <2> QED  BY <1>1, <1>10, <2>2
<1>17. \A n \in 1 .. Len(todo') :
         Kind(todo[n])' = "constant" =>
            [f |-> done', md |-> todo'[n]] \in ToSet(unit'.roots)
  <2>1. todo' \in Seq(Metadata)
      BY <1>1, <1>7
  <2>2. \A n \in 1 .. Len(todo') : todo'[n] \in ToSet(todo')
      BY <2>1 DEF ToSet
  <2> QED  BY <1>1, <1>7, <2>2 DEF Kind
<1>18. \A md \in DOMAIN index' : index'[md].f > done' \/ index'[md].f = 0 \/ index'[md].f = done'
  <2>1. \A md \in DOMAIN index : index[md].f \in Nat
      BY <1>3 DEF Entries
  <2> QED  BY <1>1, <1>3, <1>5, <2>1 DEF g
<1>19. \A x \in ToSet(unit'.roots) : x.f > done' \/ x.f = done' => Rooted(index', x)
  <2>1. \A x \in ToSet(unit.roots) : x.f \in Nat
    <3>1. unit.roots \in Seq([f : Nat, md : Metadata])
        BY <1>3, UnitFields
    <3>2. DOMAIN unit.roots = 1 .. Len(unit.roots)
        BY <3>1
    <3>3. \A n \in 1 .. Len(unit.roots) : unit.roots[n] \in [f : Nat, md : Metadata]
        BY <3>1, ElementOfSeq
    <3>4. \A n \in 1 .. Len(unit.roots) : unit.roots[n].f \in Nat
        BY <3>3
    <3> QED  BY <3>2, <3>4 DEF ToSet
  <2>2. \A x \in ToSet(unit.roots) : x.f > g \/ x.f = g => x.f > done
      BY <1>3, <2>1 DEF g
  <2> QED  BY <1>1, <1>5, <2>2
<1>20. FunctionsInv'
    BY <1>1, <1>13, <1>14, <1>15, <1>16, <1>17, <1>18, <1>19 DEF FunctionsInv
<1> QED  BY <1>11, <1>12, <1>20 DEF NumberingInv

\* Local metadata goes behind what the function has, a constant is there.
LEMMA EnumerateFunctionLocalSteps ==
    ASSUME NumberingInv, EnumerateFunctionLocal
    PROVE  NumberingInv'
<1> DEFINE md == Head(todo)
           M == numModuleMDs
           N == Len(mds)
<1>1. /\ phase = "incorporated" /\ todo # <<>> /\ todo' = Tail(todo)
      /\ unit' = unit /\ phase' = phase /\ done' = done
      /\ worklist' = worklist /\ delayed' = delayed /\ numModuleMDs' = numModuleMDs
      /\ functionMDs' = functionMDs /\ ranges' = ranges
      /\ Local(md) \/ ListConstant(md)
    BY DEF EnumerateFunctionLocal, walk, program
<1>2. TypeInv /\ FunctionsInv
    BY DEF NumberingInv
<1>3. /\ unit \in Units /\ done \in Nat /\ mds \in Seq(Metadata) /\ N \in Nat
      /\ index \in [DOMAIN index -> Entries] /\ DOMAIN index \subseteq Metadata
      /\ todo \in Seq(Metadata) /\ M \in Nat
    BY <1>2 DEF TypeInv
<1>4. ModuleEnd = M /\ ModuleEnd' = M
    BY <1>1 DEF ModuleEnd
<1>5. /\ Holds(index, mds, 0, M, 0, 0)
      /\ \A f \in Nat : f > done => RangeHolds(index, f, M)
      /\ done > 0 /\ M <= N /\ Holds(index, mds, M, N, done, M)
      /\ \A n \in 1 .. Len(todo) :
           Kind(todo[n]) = "constant" =>
             [f |-> done, md |-> todo[n]] \in ToSet(unit.roots)
      /\ \A x \in DOMAIN index :
           index[x].f > done \/ index[x].f = 0 \/ index[x].f = done
      /\ \A x \in ToSet(unit.roots) :
           x.f > done \/ x.f = done => Rooted(index, x)
    BY <1>1, <1>2, <1>4 DEF FunctionsInv
<1>6. /\ md \in Metadata /\ 1 \in 1 .. Len(todo) /\ md = todo[1]
      /\ Tail(todo) \in Seq(Metadata) /\ Len(Tail(todo)) = Len(todo) - 1
      /\ \A n \in 1 .. Len(todo) - 1 : Tail(todo)[n] = todo[n + 1]
      /\ Len(todo) \in Nat
    BY <1>1, <1>3, EmptySeq, HeadTailProperties
<1> HIDE DEF md, M, N
<1>7. \A n \in 1 .. Len(todo') :
        Kind(todo[n])' = "constant" =>
            [f |-> done', md |-> todo'[n]] \in ToSet(unit'.roots)
  <2>1. \A n \in 1 .. Len(todo') : n + 1 \in 1 .. Len(todo) /\ todo'[n] = todo[n + 1]
      BY <1>1, <1>6
  <2> QED  BY <1>1, <1>5, <2>1 DEF Kind
<1>8. WalkInv'
    BY <1>1 DEF WalkInv
<1>9. CASE mds' = mds /\ index' = index
  <2>1. TypeInv'
      BY <1>1, <1>2, <1>6, <1>9 DEF TypeInv
  <2>2. \A f \in Nat : f > done' => RangeHolds(index, f, ModuleEnd)'
    <3> SUFFICES ASSUME NEW f \in Nat, f > done'
                 PROVE  RangeHolds(index, f, ModuleEnd)'
        OBVIOUS
    <3>1. RangeHolds(index, f, M) /\ RangeOf(f)' = RangeOf(f)
        BY <1>1, <1>5 DEF RangeOf
    <3> QED  BY <1>1, <1>4, <1>9, <3>1 DEF RangeHolds
  <2>3. FunctionsInv'
      BY <1>1, <1>4, <1>5, <1>7, <1>9, <2>2 DEF FunctionsInv, M, N
  <2> QED  BY <1>8, <2>1, <2>3 DEF NumberingInv
<1>10. CASE /\ md \notin DOMAIN index /\ mds' = Append(mds, md)
            /\ index' = With(md, [f |-> done, id |-> Len(mds) + 1])
  <2> DEFINE e == [f |-> done, id |-> N + 1]
  <2>1. e \in Entries /\ e.f = done /\ e.id = N + 1
      BY <1>3 DEF Entries
  <2>2. index' = With(md, e)
      BY <1>10 DEF N
  <2> HIDE DEF e
  <2>3. /\ DOMAIN index' = DOMAIN index \cup {md}
        /\ index' \in [DOMAIN index \cup {md} -> Entries]
        /\ index'[md] = e
        /\ \A x \in DOMAIN index : x # md /\ index'[x] = index[x]
    <3>1. TypeInv /\ md \in Metadata /\ e \in Entries /\ md \notin DOMAIN index
        BY <1>2, <1>6, <1>10, <2>1
    <3> QED  BY <2>2, <3>1, WithTyped
  <2>4. /\ mds' \in Seq(Metadata) /\ Len(mds') = N + 1 /\ mds'[N + 1] = md
        /\ \A n \in 1 .. N : mds'[n] = mds[n]
      BY <1>3, <1>6, <1>10, AppendProperties DEF N
  <2>5. TypeInv'
      BY <1>1, <1>2, <1>3, <1>6, <2>3, <2>4 DEF TypeInv
  <2>6. Holds(index', mds', 0, M, 0, 0)
    <3>1. /\ \A x \in DOMAIN index : index[x].f = 0 =>
                                       x \in DOMAIN index' /\ index'[x] = index[x]
          /\ \A x \in DOMAIN index' : index'[x].f = 0 =>
                                       x \in DOMAIN index /\ index[x].f = 0
          /\ \A n \in 0 + 1 .. M : mds'[n] = mds[n]
        BY <1>3, <1>5, <2>1, <2>3, <2>4
    <3> QED  BY <1>5, <3>1, HoldsKept
  <2>7. \A f \in Nat : f > done' => RangeHolds(index, f, ModuleEnd)'
    <3> SUFFICES ASSUME NEW f \in Nat, f > done'
                 PROVE  RangeHolds(index, f, ModuleEnd)'
        OBVIOUS
    <3>1. /\ \A x \in DOMAIN index : index[x].f = f =>
                                       x \in DOMAIN index' /\ index'[x] = index[x]
          /\ \A x \in DOMAIN index' : index'[x].f = f =>
                                       x \in DOMAIN index /\ index[x].f = f
        BY <1>1, <1>3, <2>1, <2>3
    <3>2. RangeHolds(index, f, M) /\ RangeOf(f)' = RangeOf(f)
        BY <1>1, <1>5 DEF RangeOf
    <3>3. Holds(index', functionMDs, RangeOf(f).first, RangeOf(f).last, f, M)
        BY <3>1, <3>2, HoldsKept DEF RangeHolds
    <3> QED  BY <1>1, <1>4, <3>2, <3>3 DEF RangeHolds
  <2>8. Holds(index', mds', M, N + 1, done, M)
    <3>1. ASSUME NEW n \in M + 1 .. N + 1
          PROVE  /\ mds'[n] \in DOMAIN index'
                 /\ index'[mds'[n]] = [f |-> done, id |-> M + n - M]
      <4>1. CASE n \in M + 1 .. N
        <5>1. n \in 1 .. N
            BY <1>3, <4>1
        <5>2. /\ mds[n] \in DOMAIN index
              /\ index[mds[n]] = [f |-> done, id |-> M + n - M]
            BY <1>5, <4>1 DEF Holds
        <5> QED  BY <2>3, <2>4, <5>1, <5>2
      <4>2. CASE n = N + 1
        <5>1. M + n - M = N + 1
            BY <1>3, <4>2
        <5>2. mds'[n] = md /\ index'[md] = [f |-> done, id |-> N + 1]
            BY <2>3, <2>4, <4>2 DEF e
        <5> QED  BY <2>3, <5>1, <5>2
      <4>3. n \in M + 1 .. N \/ n = N + 1
          BY <1>3
      <4> QED  BY <4>1, <4>2, <4>3
    <3>2. ASSUME NEW x \in DOMAIN index', index'[x].f = done
          PROVE  \E n \in M + 1 .. N + 1 : mds'[n] = x
      <4>1. CASE x = md
        <5>1. N + 1 \in M + 1 .. N + 1
            BY <1>3, <1>5
        <5> QED  BY <2>4, <4>1, <5>1
      <4>2. CASE x # md
        <5>1. x \in DOMAIN index /\ index[x].f = done
            BY <2>3, <3>2, <4>2
        <5>2. PICK n \in M + 1 .. N : mds[n] = x
            BY <1>5, <5>1 DEF Holds
        <5>3. n \in M + 1 .. N + 1 /\ n \in 1 .. N
            BY <1>3
        <5> QED  BY <2>4, <5>2, <5>3
      <4> QED  BY <4>1, <4>2
    <3> QED  BY <3>1, <3>2 DEF Holds
  <2>9. M <= N + 1
      BY <1>3, <1>5
  <2>10. \A x \in DOMAIN index' :
           index'[x].f > done \/ index'[x].f = 0 \/ index'[x].f = done
      BY <1>5, <2>1, <2>3
  <2>11. \A x \in ToSet(unit.roots) :
           x.f > done \/ x.f = done => Rooted(index', x)
      BY <1>5, <2>3 DEF Rooted
  <2>12. FunctionsInv'
      BY <1>1, <1>4, <1>5, <1>7, <2>4, <2>6, <2>7, <2>8, <2>9, <2>10, <2>11
      DEF FunctionsInv, M
  <2> QED  BY <1>8, <2>5, <2>12 DEF NumberingInv
<1>11. CASE Local(md)
    BY <1>9, <1>10, <1>11 DEF Local
<1>12. CASE ListConstant(md)
  <2>1. Rooted(index, [f |-> done, md |-> md])
      BY <1>5, <1>6, <1>12 DEF ListConstant
  <2>2. md \in DOMAIN index /\ index[md].f \in {0, done}
      BY <2>1 DEF Rooted
  <2>3. ~ Number(done, md)
      BY <2>2 DEF Number
  <2>4. mds' = mds /\ index' = index
      BY <1>12, <2>2, <2>3 DEF ListConstant, Meet
  <2> QED  BY <1>9, <2>4
<1> QED  BY <1>1, <1>11, <1>12

\* The function's metadata goes, that of the module and of the functions to
\* come stays.
LEMMA purgeFunctionSteps ==
    ASSUME NumberingInv, purgeFunction
    PROVE  NumberingInv'
<1> DEFINE M == numModuleMDs
           N == Len(mds)
           gone == {mds[n] : n \in M + 1 .. N}
<1>1. /\ phase = "incorporated" /\ phase' = "ready"
      /\ index' = [md \in DOMAIN index \ gone |-> index[md]]
      /\ mds' = SubSeq(mds, 1, M) /\ numModuleMDs' = numModuleMDs /\ todo' = todo
      /\ unit' = unit /\ done' = done /\ worklist' = worklist /\ delayed' = delayed
      /\ functionMDs' = functionMDs /\ ranges' = ranges
    BY DEF purgeFunction, walk, Purged
<1>2. TypeInv /\ FunctionsInv
    BY DEF NumberingInv
<1>3. /\ done \in Nat /\ mds \in Seq(Metadata) /\ N \in Nat /\ M \in Nat
      /\ index \in [DOMAIN index -> Entries] /\ DOMAIN index \subseteq Metadata
    BY <1>2 DEF TypeInv
<1>4. ModuleEnd = M
    BY <1>1 DEF ModuleEnd
<1>5. /\ Holds(index, mds, 0, M, 0, 0)
      /\ \A f \in Nat : f > done => RangeHolds(index, f, M)
      /\ done > 0 /\ M <= N /\ Holds(index, mds, M, N, done, M)
      /\ \A x \in DOMAIN index :
           index[x].f > done \/ index[x].f = 0 \/ index[x].f = done
      /\ \A x \in ToSet(unit.roots) :
           x.f > done \/ x.f = done => Rooted(index, x)
    BY <1>1, <1>2, <1>4 DEF FunctionsInv
<1>6. \A x \in DOMAIN index : x \in gone <=> index[x].f = done
  <2>1. ASSUME NEW n \in M + 1 .. N
        PROVE  index[mds[n]].f = done
    <3>1. index[mds[n]] = [f |-> done, id |-> M + n - M]
        BY <1>5 DEF Holds
    <3> QED  BY <3>1
  <2>2. \A x \in DOMAIN index : index[x].f = done => \E n \in M + 1 .. N : mds[n] = x
      BY <1>5 DEF Holds
  <2> QED  BY <2>1, <2>2
<1> HIDE DEF gone, M, N
<1>7. /\ DOMAIN index' = {x \in DOMAIN index : index[x].f # done}
      /\ \A x \in DOMAIN index' : index'[x] = index[x]
      /\ index' = [x \in DOMAIN index' |-> index'[x]]
  <2>1. /\ DOMAIN index' = DOMAIN index \ gone
        /\ \A x \in DOMAIN index' : index'[x] = index[x]
        /\ index' = [x \in DOMAIN index' |-> index'[x]]
      BY <1>1
  <2> QED  BY <1>6, <2>1
<1>8. /\ mds' \in Seq(Metadata) /\ Len(mds') = M
      /\ \A n \in 1 .. M : mds'[n] = mds[n]
  <2>1. /\ 0 \in Nat /\ 0 <= M /\ 0 + 1 = 1 /\ M - 0 = M /\ M <= Len(mds)
        /\ \A n \in 1 .. M : 0 + n = n
      BY <1>3, <1>5 DEF N
  <2>2. /\ SubSeq(mds, 0 + 1, M) \in Seq(Metadata)
        /\ Len(SubSeq(mds, 0 + 1, M)) = M - 0
        /\ \A n \in 1 .. M - 0 : SubSeq(mds, 0 + 1, M)[n] = mds[0 + n]
      BY <1>3, <2>1, PartOf
  <2> QED  BY <1>1, <2>1, <2>2
<1>9. ModuleEnd' = M
    BY <1>1, <1>8 DEF ModuleEnd
<1>10. TypeInv'
  <2>1. index' \in [DOMAIN index' -> Entries] /\ DOMAIN index' \subseteq Metadata
      BY <1>3, <1>7
  <2>2. "ready" # "walking"
      OBVIOUS
  <2> QED  BY <1>1, <1>2, <1>8, <2>1, <2>2 DEF TypeInv
<1>11. WalkInv'
    BY <1>1 DEF WalkInv
<1>12. Holds(index', mds', 0, M, 0, 0)
  <2>1. /\ \A x \in DOMAIN index : index[x].f = 0 =>
                                     x \in DOMAIN index' /\ index'[x] = index[x]
        /\ \A x \in DOMAIN index' : index'[x].f = 0 =>
                                     x \in DOMAIN index /\ index[x].f = 0
        /\ \A n \in 0 + 1 .. M : mds'[n] = mds[n]
      BY <1>3, <1>5, <1>7, <1>8
  <2> QED  BY <1>5, <2>1, HoldsKept
<1>13. \A f \in Nat : f > done => RangeHolds(index, f, ModuleEnd)'
  <2> SUFFICES ASSUME NEW f \in Nat, f > done
               PROVE  RangeHolds(index, f, ModuleEnd)'
      OBVIOUS
  <2>1. /\ \A x \in DOMAIN index : index[x].f = f =>
                                     x \in DOMAIN index' /\ index'[x] = index[x]
        /\ \A x \in DOMAIN index' : index'[x].f = f =>
                                     x \in DOMAIN index /\ index[x].f = f
      BY <1>3, <1>7
  <2>2. RangeHolds(index, f, M) /\ RangeOf(f)' = RangeOf(f)
      BY <1>1, <1>5 DEF RangeOf
  <2>3. Holds(index', functionMDs, RangeOf(f).first, RangeOf(f).last, f, M)
      BY <2>1, <2>2, HoldsKept DEF RangeHolds
  <2> QED  BY <1>1, <1>9, <2>2, <2>3 DEF RangeHolds
<1>14. \A x \in DOMAIN index' : index'[x].f > done \/ index'[x].f = 0
    BY <1>5, <1>7
<1>15. \A x \in ToSet(unit.roots) : x.f > done => Rooted(index', x)
  <2> SUFFICES ASSUME NEW x \in ToSet(unit.roots), x.f > done
               PROVE  Rooted(index', x)
      OBVIOUS
  <2>1. x.md \in DOMAIN index /\ index[x.md].f \in {0, x.f}
      BY <1>5 DEF Rooted
  <2>2. 0 # done /\ x.f # done
      BY <1>3, <1>5
  <2> QED  BY <1>7, <2>1, <2>2 DEF Rooted
<1>16. FunctionsInv'
    BY <1>1, <1>8, <1>9, <1>12, <1>13, <1>14, <1>15 DEF FunctionsInv
<1> QED  BY <1>10, <1>11, <1>16 DEF NumberingInv

-----------------------------------------------------------------------------
(* The theorem *)

\* The invariant holds at first ...
LEMMA NumberingInvStarts == Init => NumberingInv
<1> SUFFICES ASSUME Init
             PROVE  NumberingInv
    OBVIOUS
<1>1. /\ unit \in Units /\ phase = "walking" /\ done = 0
      /\ worklist = <<>> /\ delayed = <<>> /\ mds = <<>> /\ index = <<>>
      /\ functionMDs = <<>> /\ numModuleMDs = 0 /\ todo = <<>>
    BY DEF Init
<1>2. /\ Len(<<>>) = 0 /\ <<>> \in Seq(Metadata) /\ <<>> \in Seq(Metadata \X Nat)
      /\ DOMAIN <<>> = {} /\ 1 .. 0 = {}
    OBVIOUS
<1>3. Len(unit.roots) \in Nat
    BY <1>1, UnitFields
<1>4. index \in [DOMAIN index -> Entries] /\ DOMAIN index \subseteq Metadata
  <2>1. index = [x \in {} |-> x] /\ DOMAIN index = {}
      BY <1>1
  <2> QED  BY <2>1
<1>5. TypeInv
    BY <1>1, <1>2, <1>3, <1>4 DEF TypeInv
<1>6. Matching(index, mds) /\ Waiting(index, worklist, delayed)
    BY <1>1, <1>2 DEF Matching, Waiting
<1>7. WalkInv
    BY <1>1, <1>2, <1>6 DEF WalkInv
<1>8. FunctionsInv
    BY <1>1 DEF FunctionsInv
<1> QED  BY <1>5, <1>7, <1>8 DEF NumberingInv

\* ... and every step keeps it.
LEMMA NumberingInvKept == NumberingInv /\ [Next]_vars => NumberingInv'
<1> SUFFICES ASSUME NumberingInv, [Next]_vars
             PROVE  NumberingInv'
    OBVIOUS
<1>1. TypeInv /\ WalkInv
    BY DEF NumberingInv
<1>2. ASSUME TypeInv', WalkInv', phase' = "walking"
      PROVE  NumberingInv'
    BY <1>2 DEF NumberingInv, FunctionsInv
<1>3. CASE EnumerateMetadata
  <2>1. phase' = "walking"
      BY <1>3 DEF EnumerateMetadata
  <2> QED  BY <1>1, <1>2, <1>3, <2>1, EnumerateMetadataSteps
<1>4. CASE Skip
  <2>1. phase' = "walking"
      BY <1>4 DEF Skip, HasOperand, Walking, program
  <2> QED  BY <1>1, <1>2, <1>4, <2>1, SkipSteps
<1>5. CASE Descend
  <2>1. phase' = "walking"
      BY <1>5 DEF Descend, HasOperand, Walking, program
  <2> QED  BY <1>1, <1>2, <1>5, <2>1, DescendSteps
<1>6. CASE Leave
  <2>1. phase' = "walking"
      BY <1>6 DEF Leave, Walking, program
  <2> QED  BY <1>1, <1>2, <1>6, <2>1, LeaveSteps
<1>7. CASE organizeMetadata
    BY <1>7, organizeMetadataSteps
<1>8. CASE incorporateFunction
    BY <1>8, incorporateFunctionSteps
<1>9. CASE EnumerateFunctionLocal
    BY <1>9, EnumerateFunctionLocalSteps
<1>10. CASE purgeFunction
    BY <1>10, purgeFunctionSteps
<1>11. CASE UNCHANGED vars
  <2>1. /\ unit' = unit /\ phase' = phase /\ done' = done /\ worklist' = worklist
        /\ delayed' = delayed /\ mds' = mds /\ index' = index
        /\ functionMDs' = functionMDs /\ ranges' = ranges
        /\ numModuleMDs' = numModuleMDs /\ todo' = todo
      BY <1>11 DEF vars, program, walk, functions
  <2>2. TypeInv' /\ WalkInv'
      BY <1>1, <2>1 DEF TypeInv, WalkInv
  <2>3. FunctionsInv'
      BY <2>1 DEF NumberingInv, FunctionsInv, ModuleEnd, RangeHolds, RangeOf, Kind
  <2> QED  BY <2>2, <2>3 DEF NumberingInv
<1> QED  BY <1>3, <1>4, <1>5, <1>6, <1>7, <1>8, <1>9, <1>10, <1>11 DEF Next

\* What a range holds is numbered by its slots.
LEMMA HoldsNumbers ==
    ASSUME NEW ix, NEW list, NEW from \in Nat, NEW to \in Nat, NEW f,
           Holds(ix, list, from, to, f, from)
    PROVE  /\ \A n \in from + 1 .. to : list[n] \in DOMAIN ix /\ ix[list[n]].id = n
           /\ \A md \in DOMAIN ix : ix[md].f = f => list[ix[md].id] = md
<1>1. \A n \in from + 1 .. to : from + n - from = n
    OBVIOUS
<1>2. ASSUME NEW n \in from + 1 .. to
      PROVE  list[n] \in DOMAIN ix /\ ix[list[n]].id = n
  <2>1. /\ list[n] \in DOMAIN ix
        /\ ix[list[n]] = [f |-> f, id |-> from + n - from]
      BY DEF Holds
  <2> QED  BY <1>1, <2>1
<1>3. \A md \in DOMAIN ix : ix[md].f = f => list[ix[md].id] = md
  <2> SUFFICES ASSUME NEW md \in DOMAIN ix, ix[md].f = f
               PROVE  list[ix[md].id] = md
      OBVIOUS
  <2>1. PICK n \in from + 1 .. to : list[n] = md
      BY DEF Holds
  <2> QED  BY <1>2, <2>1
<1> QED  BY <1>2, <1>3

\* The invariant says what is to be shown.
LEMMA NumberingFollows == NumberingInv => MetadataNumbering
<1> SUFFICES ASSUME NumberingInv
             PROVE  MetadataNumbering
    OBVIOUS
<1>1. TypeInv /\ WalkInv /\ FunctionsInv
    BY DEF NumberingInv
<1>2. /\ mds \in Seq(Metadata) /\ DOMAIN mds = 1 .. Len(mds) /\ Len(mds) \in Nat
      /\ worklist \in Seq(Metadata \X Nat) /\ DOMAIN worklist = 1 .. Len(worklist)
      /\ delayed \in Seq(Metadata) /\ DOMAIN delayed = 1 .. Len(delayed)
      /\ numModuleMDs \in Nat
      /\ phase \in {"walking", "ready", "incorporated"}
    BY <1>1 DEF TypeInv
<1>3. CASE phase = "walking"
  <2>1. Matching(index, mds) /\ Waiting(index, worklist, delayed)
      BY <1>1, <1>3 DEF WalkInv
  <2>2. \A n \in DOMAIN mds : mds[n] \in DOMAIN index /\ index[mds[n]].id = n
      BY <1>2, <2>1 DEF Matching
  <2>3. ASSUME NEW md \in DOMAIN index
        PROVE  IF index[md].id = 0
               THEN md \in {worklist[n][1] : n \in DOMAIN worklist} \cup ToSet(delayed)
               ELSE mds[index[md].id] = md
    <3>1. CASE index[md].id = 0
      <4>1. \/ \E n \in 1 .. Len(worklist) : worklist[n][1] = md
            \/ \E n \in 1 .. Len(delayed) : delayed[n] = md
          BY <2>1, <3>1 DEF Waiting
      <4> QED  BY <1>2, <3>1, <4>1 DEF ToSet
    <3>2. CASE index[md].id # 0
        BY <2>1, <3>2 DEF Matching
    <3> QED  BY <3>1, <3>2
  <2> QED  BY <1>3, <2>2, <2>3 DEF MetadataNumbering
<1>4. CASE phase = "ready"
  <2>1. /\ Holds(index, mds, 0, Len(mds), 0, 0)
        /\ \A md \in DOMAIN index : index[md].f > done \/ index[md].f = 0
      BY <1>1, <1>4 DEF FunctionsInv, ModuleEnd
  <2>2. 0 \in Nat /\ \A n \in 1 .. Len(mds) : n \in 0 + 1 .. Len(mds)
      OBVIOUS
  <2>3. /\ \A n \in 0 + 1 .. Len(mds) : mds[n] \in DOMAIN index /\ index[mds[n]].id = n
        /\ \A md \in DOMAIN index : index[md].f = 0 => mds[index[md].id] = md
    <3>1. Len(mds) \in Nat /\ 0 \in Nat
        BY <1>2
    <3> QED  BY <2>1, <3>1, HoldsNumbers
  <2> QED  BY <1>2, <1>4, <2>1, <2>2, <2>3 DEF MetadataNumbering, Current
<1>5. CASE phase = "incorporated"
  <2>1. /\ Holds(index, mds, 0, numModuleMDs, 0, 0) /\ numModuleMDs <= Len(mds)
        /\ Holds(index, mds, numModuleMDs, Len(mds), done, numModuleMDs)
        /\ \A md \in DOMAIN index :
             index[md].f > done \/ index[md].f = 0 \/ index[md].f = done
      BY <1>1, <1>5 DEF FunctionsInv, ModuleEnd
  <2>2. /\ 0 \in Nat
        /\ \A n \in 1 .. Len(mds) :
             n \in 0 + 1 .. numModuleMDs \/ n \in numModuleMDs + 1 .. Len(mds)
      BY <1>2
  <2>3. /\ \A n \in 0 + 1 .. numModuleMDs :
             mds[n] \in DOMAIN index /\ index[mds[n]].id = n
        /\ \A md \in DOMAIN index : index[md].f = 0 => mds[index[md].id] = md
      BY <1>2, <2>1, <2>2, HoldsNumbers, SMTT(30)
  <2>4. /\ \A n \in numModuleMDs + 1 .. Len(mds) :
             mds[n] \in DOMAIN index /\ index[mds[n]].id = n
        /\ \A md \in DOMAIN index : index[md].f = done => mds[index[md].id] = md
    <3>1. numModuleMDs \in Nat /\ Len(mds) \in Nat
        BY <1>2
    <3>2. Holds(index, mds, numModuleMDs, Len(mds), done, numModuleMDs)
        BY <2>1
    <3> QED  BY <3>1, <3>2, HoldsNumbers
  <2> QED  BY <1>2, <1>5, <2>1, <2>2, <2>3, <2>4 DEF MetadataNumbering, Current
<1> QED  BY <1>2, <1>3, <1>4, <1>5

\* MDs and MetadataMap are inverse to each other while the constructor walks
\* the graph, through organizeMetadata's sort and through every function that
\* is incorporated and purged, for every graph of metadata, cyclic or not.
THEOREM MetadataNumberingCorrect == Spec => []MetadataNumbering
<1>1. Spec => []NumberingInv
  <2>1. Init => NumberingInv
      BY NumberingInvStarts
  <2>2. NumberingInv /\ [Next]_vars => NumberingInv'
      BY NumberingInvKept
  <2> QED  BY <2>1, <2>2, PTL DEF Spec
<1> QED  BY <1>1, NumberingFollows, PTL

-----------------------------------------------------------------------------
(* What a function can see *)

\* What the roots of one function reach.
Arcs(u) == [x \in Metadata |-> {u.ops[x][n] : n \in DOMAIN u.ops[x]} \ {Null}]
RootsOf(u, fs) == {u.roots[n].md : n \in {m \in DOMAIN u.roots : u.roots[m].f \in fs}}
Reach(u, g) == Closure(RootsOf(u, {g}), Arcs(u))
ReachOthers(u, f) == Closure(RootsOf(u, (0 .. Len(u.locals)) \ {f}), Arcs(u))

\* A tag is right as far as it goes: a tagged node is reached from its
\* function, an untagged one from the module or from two functions.
Justified(u, ix, x) ==
    /\ ix[x].f <= Len(u.locals)
    /\ IF ix[x].f # 0 THEN x \in Reach(u, ix[x].f)
       ELSE \/ x \in Reach(u, 0)
            \/ \E g, h \in 0 .. Len(u.locals) : g # h /\ x \in Reach(u, g) /\ x \in Reach(u, h)

\* The first k operands of a node are in the map, and where it can see them.
Sees(u, ix, x, k) ==
    \A n \in 1 .. k : u.ops[x][n] # Null =>
        u.ops[x][n] \in DOMAIN ix /\ ix[u.ops[x][n]].f \in {0, ix[x].f}

\* So do all nodes that have been left.
Tags(u, ix) ==
    /\ DOMAIN ix \subseteq Shared(u)
    /\ \A x \in DOMAIN ix :
         Justified(u, ix, x) /\ (ix[x].id # 0 => Sees(u, ix, x, Len(u.ops[x])))

\* What waits belongs to the function g of the root that is walked.
Own(u, ix, g, x) == ix[x].f = g /\ x \in Reach(u, g)
OwnAll(u, ix, g, work, late) ==
    /\ \A n \in 1 .. Len(work) :
         /\ Own(u, ix, g, work[n][1])
         /\ work[n][2] <= Len(u.ops[work[n][1]])
         /\ Sees(u, ix, work[n][1], work[n][2])
    /\ \A n \in 1 .. Len(late) : Own(u, ix, g, late[n])
TagsInv ==
    phase = "walking" =>
        Tags(unit, index) /\ OwnAll(unit, index, F, worklist, delayed)

\* Exact tags, with the module and the map named.
Exact(u, ix) ==
    \A md \in DOMAIN ix, f \in 1 .. Len(u.locals) :
        ix[md].f = f <=> md \in Reach(u, f) /\ md \notin ReachOthers(u, f)

\* A list comes after its parts, and like them into the current function only.
ListSees(u, ix, d, x) ==
    \A y \in ToSet(u.ops[x]) :
        y \in DOMAIN ix /\ ix[y].f \in {0, d} /\ ix[y].id < ix[x].id
Seen(u, ix, d, x) ==
    IF u.kind[x] = "list" THEN ListSees(u, ix, d, x) ELSE Sees(u, ix, x, Len(u.ops[x]))
\* The local metadata that is through.
Through(ix, d, list, rest) ==
    \E k \in 0 .. Len(list) :
        /\ rest = SubSeq(list, k + 1, Len(list))
        /\ \A n \in 1 .. k : list[n] \in DOMAIN ix /\ ix[list[n]].f \in {0, d}
SeesInv ==
    phase # "walking" =>
        /\ phase = "ready" /\ done = 0 => Exact(unit, index)
        /\ \A x \in DOMAIN index :
             /\ x \notin Shared(unit) => phase = "incorporated" /\ index[x].f = done
             /\ Seen(unit, index, done, x)
        /\ phase = "incorporated" =>
             /\ done \in 1 .. Len(unit.locals)
             /\ Through(index, done, LocalsFirst(unit, done), todo)
VisibleInv == NumberingInv /\ TagsInv /\ SeesInv

\* The graph of a module.
LEMMA GraphFields ==
    ASSUME NEW u \in Units
    PROVE  /\ Arcs(u) \in [Metadata -> SUBSET Metadata]
           /\ \A x \in Metadata : /\ Len(u.ops[x]) \in Nat
                                  /\ DOMAIN u.ops[x] = 1 .. Len(u.ops[x])
           /\ \A x \in Metadata : \A n \in 1 .. Len(u.ops[x]) :
                /\ u.ops[x][n] \in Metadata \cup {Null}
                /\ u.ops[x][n] # Null => u.ops[x][n] \in Arcs(u)[x]
           /\ \A x \in Metadata : \A y \in Arcs(u)[x] :
                y # Null /\ \E n \in 1 .. Len(u.ops[x]) : u.ops[x][n] = y
           /\ \A x \in Shared(u) : Arcs(u)[x] \subseteq Shared(u)
           /\ \A x \in Metadata :
                u.kind[x] \notin {"uniqued", "distinct", "list"} => Len(u.ops[x]) = 0
           /\ \A n \in 1 .. Len(u.roots) :
                u.roots[n].md \in Shared(u) /\ u.roots[n].f <= Len(u.locals)
           /\ DOMAIN u.roots = 1 .. Len(u.roots) /\ Len(u.locals) \in Nat
<1>1. /\ u.kind \in [Metadata -> Kinds] /\ u.ops \in [Metadata -> Seq(Metadata \cup {Null})]
      /\ u.roots \in Seq([f : Nat, md : Metadata]) /\ u.locals \in Seq(Seq(Metadata))
    BY UnitsAssumption DEF ModuleFields
<1>2. \A x \in Metadata : /\ u.ops[x] \in Seq(Metadata \cup {Null})
                          /\ Len(u.ops[x]) \in Nat
                          /\ DOMAIN u.ops[x] = 1 .. Len(u.ops[x])
    BY <1>1
<1>3. \A x \in Metadata : \A n \in 1 .. Len(u.ops[x]) :
         u.ops[x][n] \in Metadata \cup {Null} /\ u.ops[x][n] \in ToSet(u.ops[x])
    BY <1>2, ElementOfSeq DEF ToSet
<1>4. \A x \in Metadata : Arcs(u)[x] = ToSet(u.ops[x]) \ {Null}
    BY DEF Arcs, ToSet
<1>5. Arcs(u) \in [Metadata -> SUBSET Metadata]
  <2>1. \A x \in Metadata : {u.ops[x][n] : n \in DOMAIN u.ops[x]} \ {Null} \in SUBSET Metadata
      BY <1>2, <1>3
  <2> QED  BY <2>1 DEF Arcs
<1>6. \A x \in Metadata : \A y \in Arcs(u)[x] :
         y # Null /\ \E n \in 1 .. Len(u.ops[x]) : u.ops[x][n] = y
    BY <1>2, <1>4 DEF ToSet
<1>7. \A x \in Metadata : /\ u.kind[x] \in {"uniqued", "distinct"} =>
                               ToSet(u.ops[x]) \subseteq Shared(u) \cup {Null}
                          /\ u.kind[x] \notin {"uniqued", "distinct", "list"} =>
                               u.ops[x] = <<>>
    BY GraphAssumption
<1>8. \A x \in Metadata : u.kind[x] \notin {"uniqued", "distinct", "list"} => Len(u.ops[x]) = 0
    BY <1>7
<1>9. \A x \in Shared(u) : Arcs(u)[x] \subseteq Shared(u)
  <2> SUFFICES ASSUME NEW x \in Shared(u), NEW y \in Arcs(u)[x] PROVE y \in Shared(u)
      OBVIOUS
  <2>1. x \in Metadata /\ u.kind[x] \notin {"local", "list"}
      BY DEF Shared
  <2>2. PICK n \in 1 .. Len(u.ops[x]) : u.ops[x][n] = y
      BY <1>6, <2>1
  <2>3. Len(u.ops[x]) # 0
      BY <1>2, <2>1
  <2>4. u.kind[x] \in {"uniqued", "distinct"}
      BY <1>8, <2>1, <2>3
  <2> QED  BY <1>4, <1>7, <2>1, <2>4
<1>10. \A n \in 1 .. Len(u.roots) :
          u.roots[n].md \in Shared(u) /\ u.roots[n].f <= Len(u.locals)
  <2>1. \A n \in 1 .. Len(u.roots) : u.roots[n] \in ToSet(u.roots)
      BY <1>1 DEF ToSet
  <2> QED  BY <2>1, GraphAssumption
<1> QED  BY <1>1, <1>2, <1>3, <1>4, <1>5, <1>6, <1>8, <1>9, <1>10

\* What roots reach is metadata, closed, and has them; more roots reach more.
LEMMA ReachClosed ==
    ASSUME NEW u \in Units, NEW g
    PROVE  /\ RootsOf(u, g) \in SUBSET Metadata
           /\ RootsOf(u, g) \subseteq Closure(RootsOf(u, g), Arcs(u))
           /\ Closure(RootsOf(u, g), Arcs(u)) \subseteq Metadata
           /\ \A x \in Closure(RootsOf(u, g), Arcs(u)) :
                Arcs(u)[x] \subseteq Closure(RootsOf(u, g), Arcs(u))
<1>1. RootsOf(u, g) \in SUBSET Metadata
  <2>1. \A n \in 1 .. Len(u.roots) : u.roots[n].md \in Metadata
      BY GraphFields DEF Shared
  <2>2. DOMAIN u.roots = 1 .. Len(u.roots)
      BY GraphFields
  <2> QED  BY <2>1, <2>2 DEF RootsOf
<1>2. Arcs(u) \in [Metadata -> SUBSET Metadata]
    BY GraphFields
<1> QED  BY <1>1, <1>2, ClosureClosed

\* ... whatever is closed and has the roots has all of it.
LEMMA ReachLeast ==
    ASSUME NEW u \in Units, NEW g, NEW T, RootsOf(u, g) \subseteq T,
           \A x \in Metadata : x \in T => Arcs(u)[x] \subseteq T
    PROVE  Closure(RootsOf(u, g), Arcs(u)) \subseteq T
<1>1. RootsOf(u, g) \in SUBSET Metadata
    BY ReachClosed
<1>2. Arcs(u) \in [Metadata -> SUBSET Metadata]
    BY GraphFields
<1> QED  BY <1>1, <1>2, ClosureLeast

\* What is reached from another function than f is reached from the others.
LEMMA ReachOfOthers ==
    ASSUME NEW u \in Units, NEW f, NEW g \in 0 .. Len(u.locals), g # f
    PROVE  Reach(u, g) \subseteq ReachOthers(u, f)
<1> DEFINE T == ReachOthers(u, f)
           fs == (0 .. Len(u.locals)) \ {f}
<1>1. RootsOf(u, {g}) \subseteq RootsOf(u, fs)
    BY DEF RootsOf
<1>2. /\ RootsOf(u, fs) \subseteq T
      /\ \A x \in T : Arcs(u)[x] \subseteq T
    BY ReachClosed DEF ReachOthers
<1> HIDE DEF T, fs
<1>3. Closure(RootsOf(u, {g}), Arcs(u)) \subseteq T
    BY <1>1, <1>2, ReachLeast
<1> QED  BY <1>3 DEF T, Reach

\* What was seen is still seen when tags are dropped along the arcs of the
\* nodes that have a number.
LEMMA SeesRetagged ==
    ASSUME NEW u \in Units, NEW ix, NEW iy, NEW D,
           DOMAIN ix \subseteq Shared(u), DOMAIN iy = DOMAIN ix,
           \A x \in DOMAIN ix : iy[x].f = IF x \in D THEN 0 ELSE ix[x].f,
           \A x \in D : x \in DOMAIN ix /\ \A y \in Arcs(u)[x] :
              y \in DOMAIN ix /\ ix[y].f # 0 => y \in D,
           NEW x \in DOMAIN ix, NEW k \in Nat, k <= Len(u.ops[x]), Sees(u, ix, x, k)
    PROVE  Sees(u, iy, x, k)
<1> SUFFICES ASSUME NEW n \in 1 .. k, u.ops[x][n] # Null
             PROVE  u.ops[x][n] \in DOMAIN iy /\ iy[u.ops[x][n]].f \in {0, iy[x].f}
    BY DEF Sees
<1> DEFINE y == u.ops[x][n]
<1>1. y \in DOMAIN ix /\ ix[y].f \in {0, ix[x].f}
    BY DEF Sees
<1>2. y \in Arcs(u)[x]
  <2>1. x \in Metadata /\ Len(u.ops[x]) \in Nat
      BY GraphFields DEF Shared
  <2>2. n \in 1 .. Len(u.ops[x])
      BY <2>1
  <2> QED  BY <2>1, <2>2, GraphFields
<1> HIDE DEF y
<1>3. x \in D => iy[y].f = 0
    BY <1>1, <1>2
<1>4. x \notin D => iy[y].f \in {0, iy[x].f}
    BY <1>1
<1> QED  BY <1>1, <1>3, <1>4 DEF y

\* Metadata that another function meets: what it reaches through numbered
\* nodes with its tag is reached by both.
LEMMA MeetDrops ==
    ASSUME TypeInv, Tags(unit, index), NEW f \in Nat, f <= Len(unit.locals),
           NEW md \in Metadata, md \in Reach(unit, f), Meet(f, md),
           index[md].f \notin {0, f},
           \A x \in DOMAIN index : index[x].id = 0 => index[x].f = f
    PROVE  \E D \in SUBSET DOMAIN index :
             /\ \A x \in DOMAIN index : /\ index'[x].f = IF x \in D THEN 0 ELSE index[x].f
                                        /\ index'[x].id = index[x].id
             /\ \A x \in D : \A y \in Arcs(unit)[x] :
                  y \in DOMAIN index /\ index[y].f # 0 => y \in D
             /\ \A x \in D : index[x].f # f /\ \E g \in 0 .. Len(unit.locals) :
                  g # f /\ x \in Reach(unit, g) /\ x \in Reach(unit, f)
<1> DEFINE arcs == [x \in Metadata |->
                      IF (x \in DOMAIN index /\ index[x].id # 0) /\ IsNode(x)
                      THEN {y \in Ops(x) : y \in DOMAIN index /\ index[y].f # 0}
                      ELSE {}]
           g == index[md].f
           D == Closure({md}, arcs)
           T == {x \in DOMAIN index : /\ index[x].f = g /\ x \in Reach(unit, g)
                                      /\ x \in Reach(unit, f)}
<1>1. /\ index \in [DOMAIN index -> Entries] /\ unit \in Units /\ md \in DOMAIN index
      /\ DOMAIN index \subseteq Metadata
      /\ index' = dropFunctionFromMetadata(md)
    BY DEF TypeInv, Meet
<1>2. index' = [x \in DOMAIN index |->
                  IF x \in D THEN [index[x] EXCEPT !.f = 0] ELSE index[x]]
    BY <1>1 DEF dropFunctionFromMetadata
<1>3. \A x \in Metadata : Ops(x) = Arcs(unit)[x]
    BY DEF Ops, Arcs
<1>4. /\ arcs \in [Metadata -> SUBSET Metadata] /\ {md} \in SUBSET Metadata
      /\ \A x \in Metadata : arcs[x] \subseteq Arcs(unit)[x]
      /\ \A x \in Metadata : arcs[x] # {} => x \in DOMAIN index /\ index[x].id # 0
      /\ \A x \in Metadata : \A y \in arcs[x] : y \in DOMAIN index /\ index[y].f # 0
  <2>1. \A x \in Metadata : Arcs(unit)[x] \in SUBSET Metadata
      BY <1>1, GraphFields
  <2> QED  BY <1>3, <2>1
<1>5. \A x \in DOMAIN index : IsNode(x) /\ index[x].id # 0 =>
         \A y \in Arcs(unit)[x] : y \in DOMAIN index /\ index[y].f # 0 => y \in arcs[x]
    BY <1>1, <1>3
<1> HIDE DEF arcs
<1>6. g \in 0 .. Len(unit.locals) /\ g # 0 /\ g # f /\ md \in Reach(unit, g)
  <2>1. Justified(unit, index, md) /\ index[md].f \in Nat /\ Len(unit.locals) \in Nat
      BY <1>1, GraphFields DEF Tags, Entries
  <2> QED  BY <2>1 DEF Justified
<1>7. md \in T
    BY <1>1, <1>6
<1>8. ASSUME NEW x \in Metadata, x \in T
      PROVE  arcs[x] \subseteq T
  <2> SUFFICES ASSUME NEW y \in arcs[x] PROVE y \in T
      OBVIOUS
  <2>1. /\ x \in DOMAIN index /\ index[x].id # 0 /\ index[x].f = g
        /\ y \in Arcs(unit)[x] /\ y \in DOMAIN index /\ index[y].f # 0
      BY <1>4, <1>8
  <2>2. index[y].f \in {0, g}
    <3>1. Sees(unit, index, x, Len(unit.ops[x]))
        BY <2>1 DEF Tags
    <3>2. PICK n \in 1 .. Len(unit.ops[x]) : unit.ops[x][n] = y /\ y # Null
        BY <1>1, <2>1, GraphFields
    <3> QED  BY <2>1, <3>1, <3>2 DEF Sees
  <2>3. y \in Reach(unit, g) /\ y \in Reach(unit, f)
    <3>1. x \in Reach(unit, g) /\ x \in Reach(unit, f)
        BY <1>8
    <3> QED  BY <1>1, <2>1, <3>1, ReachClosed DEF Reach
  <2> HIDE DEF g
  <2> QED  BY <2>1, <2>2, <2>3
<1>9. D \subseteq T
  <2> HIDE DEF T
  <2> QED  BY <1>4, <1>7, <1>8, ClosureLeast
<1>10. \A x \in D : arcs[x] \subseteq D
    BY <1>4, ClosureClosed
<1>11. ASSUME NEW x \in D, NEW y \in Arcs(unit)[x], y \in DOMAIN index, index[y].f # 0
       PROVE  y \in D
  <2>1. x \in DOMAIN index /\ index[x].f = g /\ x \in Metadata
      BY <1>1, <1>9
  <2>2. index[x].id # 0
      BY <1>6, <2>1
  <2>3. IsNode(x)
    <3>1. PICK n \in 1 .. Len(unit.ops[x]) : unit.ops[x][n] = y
        BY <1>1, <2>1, GraphFields
    <3>2. Len(unit.ops[x]) # 0
        BY <1>1, <2>1, <3>1, GraphFields
    <3>3. unit.kind[x] # "list"
        BY <2>1 DEF Tags, Shared
    <3>4. unit.kind[x] \in {"uniqued", "distinct"}
        BY <1>1, <2>1, <3>2, <3>3, GraphFields
    <3> QED  BY <3>4 DEF IsNode, Kind
  <2>4. y \in arcs[x]
      BY <1>5, <1>11, <2>1, <2>2, <2>3
  <2> QED  BY <1>10, <2>4
<1> HIDE DEF D
<1>12. \A x \in DOMAIN index : /\ index'[x].f = IF x \in D THEN 0 ELSE index[x].f
                               /\ index'[x].id = index[x].id
  <2> SUFFICES ASSUME NEW x \in DOMAIN index
               PROVE  /\ index'[x].f = IF x \in D THEN 0 ELSE index[x].f
                      /\ index'[x].id = index[x].id
      OBVIOUS
  <2>1. index[x] \in Entries
      BY <1>1
  <2>2. /\ [index[x] EXCEPT !.f = 0].f = 0
        /\ [index[x] EXCEPT !.f = 0].id = index[x].id
      BY <2>1 DEF Entries
  <2> QED  BY <1>2, <2>2
<1>13. D \in SUBSET DOMAIN index
    BY <1>9
<1>14. \A x \in D : index[x].f # f /\ \E h \in 0 .. Len(unit.locals) :
          h # f /\ x \in Reach(unit, h) /\ x \in Reach(unit, f)
  <2>1. \A x \in D : index[x].f = g /\ x \in Reach(unit, g) /\ x \in Reach(unit, f)
      BY <1>9
  <2> HIDE DEF g
  <2> QED  BY <1>6, <2>1
<1> QED  BY <1>11, <1>12, <1>13, <1>14

\* Without a number is only what the function of the walk has.
LEMMA WaitingOwned ==
    ASSUME NEW u, NEW ix, NEW g, NEW work, NEW late,
           Waiting(ix, work, late), OwnAll(u, ix, g, work, late)
    PROVE  \A x \in DOMAIN ix : ix[x].id = 0 => ix[x].f = g
<1> SUFFICES ASSUME NEW x \in DOMAIN ix, ix[x].id = 0 PROVE ix[x].f = g
    OBVIOUS
<1>1. \/ \E n \in 1 .. Len(work) : work[n][1] = x
      \/ \E n \in 1 .. Len(late) : late[n] = x
    BY DEF Waiting
<1> QED  BY <1>1 DEF OwnAll, Own

\* Tags stay right for what a walk meets again ...
LEMMA MeetTags ==
    ASSUME TypeInv, Tags(unit, index), NEW f \in Nat, f <= Len(unit.locals),
           NEW md \in Metadata, md \in Reach(unit, f), Meet(f, md),
           Waiting(index, worklist, delayed), OwnAll(unit, index, f, worklist, delayed)
    PROVE  /\ Tags(unit, index') /\ OwnAll(unit, index', f, worklist, delayed)
           /\ md \in DOMAIN index' /\ index'[md].f \in {0, f}
<1>1. /\ index \in [DOMAIN index -> Entries] /\ unit \in Units /\ md \in DOMAIN index
      /\ DOMAIN index' = DOMAIN index /\ index'[md].f \in {0, f}
    BY MeetRetags DEF TypeInv, Meet
<1>2. CASE index[md].f \in {0, f}
  <2>1. index' = index
      BY <1>2 DEF Meet
  <2> QED  BY <1>1, <2>1
<1>3. CASE index[md].f \notin {0, f}
  <2>1. \A x \in DOMAIN index : index[x].id = 0 => index[x].f = f
      BY WaitingOwned
  <2>2. PICK D \in SUBSET DOMAIN index :
           /\ \A x \in DOMAIN index : /\ index'[x].f = IF x \in D THEN 0 ELSE index[x].f
                                      /\ index'[x].id = index[x].id
           /\ \A x \in D : \A y \in Arcs(unit)[x] :
                y \in DOMAIN index /\ index[y].f # 0 => y \in D
           /\ \A x \in D : index[x].f # f /\ \E g \in 0 .. Len(unit.locals) :
                g # f /\ x \in Reach(unit, g) /\ x \in Reach(unit, f)
      BY <1>3, <2>1, MeetDrops
  <2>3. DOMAIN index \subseteq Shared(unit)
      BY DEF Tags
  <2>4. \A x \in DOMAIN index, k \in Nat :
           k <= Len(unit.ops[x]) /\ Sees(unit, index, x, k) => Sees(unit, index', x, k)
    <3> SUFFICES ASSUME NEW x \in DOMAIN index, NEW k \in Nat,
                        k <= Len(unit.ops[x]), Sees(unit, index, x, k)
                 PROVE  Sees(unit, index', x, k)
        OBVIOUS
    <3>1. /\ \A z \in DOMAIN index : index'[z].f = IF z \in D THEN 0 ELSE index[z].f
          /\ \A z \in D : z \in DOMAIN index /\ \A y \in Arcs(unit)[z] :
                y \in DOMAIN index /\ index[y].f # 0 => y \in D
        BY <2>2
    <3> QED  BY <1>1, <2>3, <3>1, SeesRetagged
  <2>5. ASSUME NEW x \in DOMAIN index
        PROVE  Justified(unit, index', x) /\ (index'[x].id # 0 => Sees(unit, index', x, Len(unit.ops[x])))
    <3>1. /\ Justified(unit, index, x)
          /\ index[x].id # 0 => Sees(unit, index, x, Len(unit.ops[x]))
        BY DEF Tags
    <3>2. Len(unit.ops[x]) \in Nat /\ Len(unit.ops[x]) <= Len(unit.ops[x])
        BY <1>1, <2>3, GraphFields DEF Shared
    <3>3. index'[x].id # 0 => Sees(unit, index', x, Len(unit.ops[x]))
        BY <2>2, <2>4, <3>1, <3>2
    <3>4. CASE x \notin D
      <4>1. index'[x].f = index[x].f
          BY <2>2, <3>4
      <4> QED  BY <3>1, <3>3, <4>1 DEF Justified
    <3>5. CASE x \in D
      <4>1. index'[x].f = 0 /\ 0 <= Len(unit.locals) /\ f \in 0 .. Len(unit.locals)
          BY <1>1, <2>2, <3>5, GraphFields
      <4>2. PICK g \in 0 .. Len(unit.locals) :
               g # f /\ x \in Reach(unit, g) /\ x \in Reach(unit, f)
          BY <2>2, <3>5
      <4>3. Justified(unit, index', x)
          BY <4>1, <4>2 DEF Justified
      <4> QED  BY <3>3, <4>3
    <3> QED  BY <3>4, <3>5
  <2>6. Tags(unit, index')
      BY <1>1, <2>3, <2>5 DEF Tags
  <2>7. ASSUME NEW x \in DOMAIN index, Own(unit, index, f, x)
        PROVE  Own(unit, index', f, x)
    <3>1. index[x].f = f /\ x \in Reach(unit, f)
        BY <2>7 DEF Own
    <3>2. x \notin D
        BY <2>2, <3>1
    <3>3. index'[x].f = f
        BY <2>2, <3>1, <3>2
    <3> QED  BY <3>1, <3>3 DEF Own
  <2>8. OwnAll(unit, index', f, worklist, delayed)
    <3>1. ASSUME NEW n \in 1 .. Len(worklist)
          PROVE  /\ Own(unit, index', f, worklist[n][1])
                 /\ worklist[n][2] <= Len(unit.ops[worklist[n][1]])
                 /\ Sees(unit, index', worklist[n][1], worklist[n][2])
      <4>1. /\ Own(unit, index, f, worklist[n][1])
            /\ worklist[n][2] <= Len(unit.ops[worklist[n][1]])
            /\ Sees(unit, index, worklist[n][1], worklist[n][2])
          BY DEF OwnAll
      <4>2. worklist[n][1] \in DOMAIN index
          BY DEF Waiting
      <4>3. worklist[n][2] \in Nat
        <5>1. worklist \in Seq(Metadata \X Nat)
            BY DEF TypeInv
        <5>2. worklist[n] \in Metadata \X Nat
            BY <5>1, ElementOfSeq
        <5> QED  BY <5>2
      <4> QED  BY <2>4, <2>7, <4>1, <4>2, <4>3
    <3>2. ASSUME NEW n \in 1 .. Len(delayed)
          PROVE  Own(unit, index', f, delayed[n])
      <4>1. Own(unit, index, f, delayed[n]) /\ delayed[n] \in DOMAIN index
          BY DEF OwnAll, Waiting
      <4> QED  BY <2>7, <4>1
    <3> QED  BY <3>1, <3>2 DEF OwnAll
  <2> QED  BY <1>1, <2>6, <2>8
<1> QED  BY <1>2, <1>3

\* ... and for what is new: a node without a number, or something without
\* operands.
LEMMA NewTags ==
    ASSUME TypeInv, Tags(unit, index), NEW f \in Nat, f <= Len(unit.locals),
           NEW md \in Shared(unit), md \in Reach(unit, f), md \notin DOMAIN index,
           NEW e \in Entries, e.f = f, e.id # 0 => Len(unit.ops[md]) = 0,
           index' = With(md, e),
           Waiting(index, worklist, delayed), OwnAll(unit, index, f, worklist, delayed)
    PROVE  /\ Tags(unit, index') /\ OwnAll(unit, index', f, worklist, delayed)
           /\ md \in DOMAIN index' /\ index'[md].f = f /\ Own(unit, index', f, md)
<1>1. /\ DOMAIN index' = DOMAIN index \cup {md} /\ index'[md] = e
      /\ \A x \in DOMAIN index : x # md /\ index'[x] = index[x]
  <2>1. /\ DOMAIN With(md, e) = DOMAIN index \cup {md}
        /\ With(md, e)[md] = e
        /\ \A x \in DOMAIN index : x # md => With(md, e)[x] = index[x]
    <3>1. md \in Metadata
        BY DEF Shared
    <3> QED  BY <3>1, WithTyped
  <2> QED  BY <2>1
<1>2. Own(unit, index', f, md) /\ index'[md].f = f
    BY <1>1 DEF Own
<1>3. \A x \in DOMAIN index : \A k : Sees(unit, index, x, k) => Sees(unit, index', x, k)
    BY <1>1 DEF Sees
<1>4. \A x \in DOMAIN index : Justified(unit, index, x) => Justified(unit, index', x)
    BY <1>1 DEF Justified
<1>5. Justified(unit, index', md)
  <2>1. f # 0 \/ f = 0
      OBVIOUS
  <2> QED  BY <1>2, <2>1 DEF Justified
<1>6. index'[md].id # 0 => Sees(unit, index', md, Len(unit.ops[md]))
  <2>1. ASSUME Len(unit.ops[md]) = 0
        PROVE  Sees(unit, index', md, Len(unit.ops[md]))
      BY <2>1 DEF Sees
  <2> QED  BY <1>1, <2>1
<1>7. Tags(unit, index')
    BY <1>1, <1>3, <1>4, <1>5, <1>6 DEF Tags
<1>8. OwnAll(unit, index', f, worklist, delayed)
  <2>1. \A x \in DOMAIN index : Own(unit, index, f, x) => Own(unit, index', f, x)
      BY <1>1 DEF Own
  <2>2. ASSUME NEW n \in 1 .. Len(worklist)
        PROVE  /\ Own(unit, index', f, worklist[n][1])
               /\ worklist[n][2] <= Len(unit.ops[worklist[n][1]])
               /\ Sees(unit, index', worklist[n][1], worklist[n][2])
    <3>1. /\ Own(unit, index, f, worklist[n][1]) /\ worklist[n][1] \in DOMAIN index
          /\ worklist[n][2] <= Len(unit.ops[worklist[n][1]])
          /\ Sees(unit, index, worklist[n][1], worklist[n][2])
        BY DEF OwnAll, Waiting
    <3> QED  BY <1>3, <2>1, <3>1
  <2>3. ASSUME NEW n \in 1 .. Len(delayed)
        PROVE  Own(unit, index', f, delayed[n])
    <3>1. Own(unit, index, f, delayed[n]) /\ delayed[n] \in DOMAIN index
        BY DEF OwnAll, Waiting
    <3> QED  BY <2>1, <3>1
  <2> QED  BY <2>2, <2>3 DEF OwnAll
<1> QED  BY <1>1, <1>2, <1>7, <1>8

-----------------------------------------------------------------------------
(* The steps of the walk keep the tags right *)

\* The worklist with one more operand visited.
LEMMA AdvancedEntries ==
    ASSUME worklist \in Seq(Metadata \X Nat), worklist # <<>>
    PROVE  /\ Len(Advanced) = Len(worklist)
           /\ \A n \in 1 .. Len(worklist) - 1 : Advanced[n] = worklist[n]
           /\ Advanced[Len(worklist)] = <<Top[1], Top[2] + 1>>
<1>1. /\ Len(worklist) \in Nat /\ Len(worklist) > 0
      /\ Top[1] \in Metadata /\ Top[2] \in Nat
      /\ Front(worklist) \in Seq(Metadata \X Nat)
      /\ Len(Front(worklist)) = Len(worklist) - 1
      /\ \A n \in 1 .. Len(worklist) - 1 : Front(worklist)[n] = worklist[n]
    BY TopOfWorklist
<1> DEFINE x == <<Top[1], Top[2] + 1>>
<1>2. x \in Metadata \X Nat
    BY <1>1
<1> HIDE DEF x
<1>3. /\ Len(Append(Front(worklist), x)) = Len(worklist)
      /\ \A n \in 1 .. Len(worklist) - 1 : Append(Front(worklist), x)[n] = worklist[n]
      /\ Append(Front(worklist), x)[Len(worklist)] = x
    BY <1>1, <1>2, AppendProperties
<1> QED  BY <1>3 DEF Advanced, x

\* The operand that is visited counts as seen.
LEMMA AdvancedOwned ==
    ASSUME worklist \in Seq(Metadata \X Nat), worklist # <<>>, NEW ix, NEW g, NEW late,
           OwnAll(unit, ix, g, worklist, late), Top[2] < Len(unit.ops[Top[1]]),
           Len(unit.ops[Top[1]]) \in Nat,
           Operand # Null => Operand \in DOMAIN ix /\ ix[Operand].f \in {0, g}
    PROVE  OwnAll(unit, ix, g, Advanced, late)
<1>1. /\ Len(Advanced) = Len(worklist)
      /\ \A n \in 1 .. Len(worklist) - 1 : Advanced[n] = worklist[n]
      /\ Advanced[Len(worklist)] = <<Top[1], Top[2] + 1>>
    BY AdvancedEntries
<1>2. /\ Len(worklist) \in Nat /\ Len(worklist) > 0 /\ Top = worklist[Len(worklist)]
      /\ Len(worklist) \in 1 .. Len(worklist) /\ Top[2] \in Nat
    BY TopOfWorklist
<1>3. Own(unit, ix, g, Top[1]) /\ Sees(unit, ix, Top[1], Top[2])
    BY <1>2 DEF OwnAll
<1>4. Sees(unit, ix, Top[1], Top[2] + 1)
  <2> SUFFICES ASSUME NEW n \in 1 .. Top[2] + 1, unit.ops[Top[1]][n] # Null
               PROVE  /\ unit.ops[Top[1]][n] \in DOMAIN ix
                      /\ ix[unit.ops[Top[1]][n]].f \in {0, ix[Top[1]].f}
      BY DEF Sees
  <2>1. n \in 1 .. Top[2] \/ n = Top[2] + 1
      BY <1>2
  <2>2. CASE n \in 1 .. Top[2]
      BY <1>3, <2>2 DEF Sees
  <2>3. CASE n = Top[2] + 1
      BY <1>3, <2>3 DEF Operand, Own
  <2> QED  BY <2>1, <2>2, <2>3
<1>5. Top[2] + 1 <= Len(unit.ops[Top[1]])
    BY <1>2
<1>6. ASSUME NEW n \in 1 .. Len(Advanced)
      PROVE  /\ Own(unit, ix, g, Advanced[n][1])
             /\ Advanced[n][2] <= Len(unit.ops[Advanced[n][1]])
             /\ Sees(unit, ix, Advanced[n][1], Advanced[n][2])
  <2>1. n \in 1 .. Len(worklist) - 1 \/ n = Len(worklist)
      BY <1>1, <1>2
  <2>2. CASE n \in 1 .. Len(worklist) - 1
    <3>1. n \in 1 .. Len(worklist) /\ Advanced[n] = worklist[n]
        BY <1>1, <1>2, <2>2
    <3> QED  BY <3>1 DEF OwnAll
  <2>3. CASE n = Len(worklist)
    <3>1. Advanced[n][1] = Top[1] /\ Advanced[n][2] = Top[2] + 1
        BY <1>1, <2>3
    <3> QED  BY <1>3, <1>4, <1>5, <3>1
  <2> QED  BY <2>1, <2>2, <2>3
<1> QED  BY <1>6 DEF OwnAll

\* One more node waits.
LEMMA PushedOwned ==
    ASSUME NEW u \in Units, NEW ix, NEW g, NEW work \in Seq(Metadata \X Nat),
           NEW late \in Seq(Metadata), NEW md \in Metadata,
           OwnAll(u, ix, g, work, late), Own(u, ix, g, md)
    PROVE  /\ OwnAll(u, ix, g, Append(work, <<md, 0>>), late)
           /\ OwnAll(u, ix, g, work, Append(late, md))
<1> DEFINE x == <<md, 0>>
           more == Append(work, x)
           later == Append(late, md)
<1>1. x \in Metadata \X Nat /\ x[1] = md /\ x[2] = 0
    OBVIOUS
<1> HIDE DEF x
<1>2. /\ Len(more) = Len(work) + 1 /\ more[Len(work) + 1] = x
      /\ \A n \in 1 .. Len(work) : more[n] = work[n]
      /\ Len(later) = Len(late) + 1 /\ later[Len(late) + 1] = md
      /\ \A n \in 1 .. Len(late) : later[n] = late[n]
      /\ Len(work) \in Nat /\ Len(late) \in Nat
    BY <1>1, AppendProperties
<1> HIDE DEF more, later
<1>3. Sees(u, ix, md, 0) /\ 0 <= Len(u.ops[md])
  <2>1. Len(u.ops[md]) \in Nat
      BY GraphFields
  <2> QED  BY <2>1 DEF Sees
<1>4. ASSUME NEW n \in 1 .. Len(more)
      PROVE  /\ Own(u, ix, g, more[n][1])
             /\ more[n][2] <= Len(u.ops[more[n][1]])
             /\ Sees(u, ix, more[n][1], more[n][2])
  <2>1. n \in 1 .. Len(work) \/ n = Len(work) + 1
      BY <1>2
  <2>2. CASE n \in 1 .. Len(work)
      BY <1>2, <2>2 DEF OwnAll
  <2>3. CASE n = Len(work) + 1
      BY <1>1, <1>2, <1>3, <2>3
  <2> QED  BY <2>1, <2>2, <2>3
<1>5. ASSUME NEW n \in 1 .. Len(later)
      PROVE  Own(u, ix, g, later[n])
  <2>1. n \in 1 .. Len(late) \/ n = Len(late) + 1
      BY <1>2
  <2>2. CASE n \in 1 .. Len(late)
      BY <1>2, <2>2 DEF OwnAll
  <2>3. CASE n = Len(late) + 1
      BY <1>2, <2>3
  <2> QED  BY <2>1, <2>2, <2>3
<1>6. OwnAll(u, ix, g, more, late) /\ OwnAll(u, ix, g, work, later)
    BY <1>4, <1>5 DEF OwnAll
<1> QED  BY <1>6 DEF more, later, x

\* The function of a root, and what the root reaches.
LEMMA RootReached ==
    ASSUME TypeInv, NEW n \in 1 .. Len(unit.roots)
    PROVE  /\ unit.roots[n].f \in Nat /\ unit.roots[n].f <= Len(unit.locals)
           /\ unit.roots[n].md \in Shared(unit) /\ unit.roots[n].md \in Metadata
           /\ unit.roots[n].md \in Reach(unit, unit.roots[n].f)
<1>1. unit \in Units /\ unit.roots[n].f \in Nat
    BY FunctionTyped DEF TypeInv
<1>2. /\ unit.roots[n].md \in Shared(unit) /\ unit.roots[n].f <= Len(unit.locals)
      /\ DOMAIN unit.roots = 1 .. Len(unit.roots)
    BY <1>1, GraphFields
<1>3. unit.roots[n].md \in RootsOf(unit, {unit.roots[n].f})
    BY <1>2 DEF RootsOf
<1>4. unit.roots[n].md \in Reach(unit, unit.roots[n].f)
    BY <1>1, <1>3, ReachClosed DEF Reach
<1> QED  BY <1>1, <1>2, <1>4 DEF Shared

\* The next root.
LEMMA EnumerateMetadataTags ==
    ASSUME TypeInv, WalkInv, TagsInv, EnumerateMetadata
    PROVE  TagsInv'
<1> DEFINE root == unit.roots[done + 1]
<1>1. /\ phase = "walking" /\ worklist = <<>> /\ done < Len(unit.roots)
      /\ done' = done + 1 /\ unit' = unit /\ phase' = phase /\ delayed' = delayed
    BY DEF EnumerateMetadata
<1>2. done + 1 \in 1 .. Len(unit.roots)
  <2>1. done \in Nat /\ Len(unit.roots) \in Nat
      BY UnitFields DEF TypeInv
  <2> QED  BY <1>1, <2>1
<1>3. /\ root.f \in Nat /\ root.f <= Len(unit.locals)
      /\ root.md \in Shared(unit) /\ root.md \in Metadata /\ root.md \in Reach(unit, root.f)
    BY <1>2, RootReached
<1>4. /\ delayed = <<>> /\ Len(<<>>) = 0 /\ Waiting(index, worklist, delayed)
      /\ Tags(unit, index) /\ unit \in Units /\ Len(mds) \in Nat
    BY <1>1 DEF WalkInv, TagsInv, TypeInv
<1>5. OwnAll(unit, index, root.f, worklist, delayed)
    BY <1>1, <1>4 DEF OwnAll
<1>6. F' = root.f
    BY <1>1 DEF F
<1>7. \/ (Meet(root.f, root.md) \/ Number(root.f, root.md)) /\ worklist' = worklist
      \/ Discover(root.f, root.md) /\ worklist' = <<<<root.md, 0>>>>
    BY DEF EnumerateMetadata
<1> HIDE DEF root
<1>8. CASE Meet(root.f, root.md) /\ worklist' = worklist
  <2>1. Tags(unit, index') /\ OwnAll(unit, index', root.f, worklist, delayed)
      BY <1>3, <1>4, <1>5, <1>8, MeetTags
  <2> QED  BY <1>1, <1>6, <1>8, <2>1 DEF TagsInv
<1>9. CASE Number(root.f, root.md) /\ worklist' = worklist
  <2> DEFINE e == [f |-> root.f, id |-> Len(mds) + 1]
  <2>1. /\ e \in Entries /\ e.f = root.f /\ index' = With(root.md, e)
        /\ root.md \notin DOMAIN index /\ ~ IsNode(root.md)
      BY <1>3, <1>4, <1>9 DEF Number, Entries
  <2>2. Len(unit.ops[root.md]) = 0
      BY <1>3, <1>4, <2>1, GraphFields DEF IsNode, Kind, Shared
  <2> HIDE DEF e
  <2>3. Tags(unit, index') /\ OwnAll(unit, index', root.f, worklist, delayed)
      BY <1>3, <1>4, <1>5, <2>1, <2>2, NewTags
  <2> QED  BY <1>1, <1>6, <1>9, <2>3 DEF TagsInv
<1>10. CASE Discover(root.f, root.md) /\ worklist' = <<<<root.md, 0>>>>
  <2> DEFINE e == [f |-> root.f, id |-> 0]
  <2>1. /\ e \in Entries /\ e.f = root.f /\ e.id = 0 /\ index' = With(root.md, e)
        /\ root.md \notin DOMAIN index
      BY <1>3, <1>10 DEF Discover, Entries
  <2> HIDE DEF e
  <2>2. /\ Tags(unit, index') /\ OwnAll(unit, index', root.f, worklist, delayed)
        /\ Own(unit, index', root.f, root.md)
      BY <1>3, <1>4, <1>5, <2>1, NewTags
  <2>3. worklist \in Seq(Metadata \X Nat) /\ delayed \in Seq(Metadata)
      BY DEF TypeInv
  <2>4. OwnAll(unit, index', root.f, Append(worklist, <<root.md, 0>>), delayed)
      BY <1>3, <1>4, <2>2, <2>3, PushedOwned
  <2>5. worklist' = Append(worklist, <<root.md, 0>>)
      BY <1>1, <1>10
  <2> QED  BY <1>1, <1>6, <2>2, <2>4, <2>5 DEF TagsInv
<1> QED  BY <1>7, <1>8, <1>9, <1>10

\* The walk, the operand and what it is reached from.
LEMMA OperandReached ==
    ASSUME TypeInv, WalkInv, TagsInv, HasOperand
    PROVE  /\ phase = "walking" /\ unit \in Units /\ worklist # <<>>
           /\ worklist \in Seq(Metadata \X Nat) /\ delayed \in Seq(Metadata)
           /\ Waiting(index, worklist, delayed) /\ Tags(unit, index)
           /\ OwnAll(unit, index, F, worklist, delayed)
           /\ F \in Nat /\ F <= Len(unit.locals)
           /\ Len(unit.ops[Top[1]]) \in Nat /\ Top[2] < Len(unit.ops[Top[1]])
           /\ Top[1] \in Metadata /\ Top[1] \in DOMAIN index
           /\ Own(unit, index, F, Top[1])
           /\ Operand # Null =>
                /\ Operand \in Shared(unit) /\ Operand \in Metadata
                /\ Operand \in Arcs(unit)[Top[1]] /\ Operand \in Reach(unit, F)
<1>1. /\ phase = "walking" /\ worklist # <<>> /\ unit \in Units
      /\ worklist \in Seq(Metadata \X Nat) /\ delayed \in Seq(Metadata)
      /\ Top[2] < Len(unit.ops[Top[1]])
    BY DEF HasOperand, Walking, TypeInv
<1>2. /\ Waiting(index, worklist, delayed) /\ Tags(unit, index)
      /\ OwnAll(unit, index, F, worklist, delayed)
    BY <1>1 DEF WalkInv, TagsInv
<1>3. F \in Nat /\ F <= Len(unit.locals)
  <2>1. done \in 1 .. Len(unit.roots)
    <3>1. /\ done \in Nat /\ done > 0 /\ done <= Len(unit.roots)
          /\ unit.roots \in Seq([f : Nat, md : Metadata])
        BY <1>1, UnitFields DEF TypeInv, WalkInv
    <3> QED  BY <3>1
  <2> QED  BY <2>1, RootReached DEF F
<1>4. /\ Len(worklist) \in 1 .. Len(worklist) /\ Top = worklist[Len(worklist)]
      /\ Top[1] \in Metadata /\ Top[2] \in Nat
    BY <1>1, TopOfWorklist
<1>5. Own(unit, index, F, Top[1]) /\ Top[1] \in DOMAIN index
    BY <1>2, <1>4 DEF OwnAll, Waiting
<1>6. Len(unit.ops[Top[1]]) \in Nat
    BY <1>1, <1>4, GraphFields
<1>7. ASSUME Operand # Null
      PROVE  /\ Operand \in Shared(unit) /\ Operand \in Metadata
             /\ Operand \in Arcs(unit)[Top[1]] /\ Operand \in Reach(unit, F)
  <2>1. Top[2] + 1 \in 1 .. Len(unit.ops[Top[1]])
      BY <1>1, <1>4, <1>6
  <2>2. Operand \in Arcs(unit)[Top[1]]
      BY <1>1, <1>4, <1>7, <2>1, GraphFields DEF Operand
  <2>3. Top[1] \in Shared(unit)
      BY <1>2, <1>5 DEF Tags
  <2>4. Operand \in Shared(unit)
      BY <1>1, <2>2, <2>3, GraphFields
  <2>5. Operand \in Reach(unit, F)
    <3>1. Top[1] \in Reach(unit, F)
        BY <1>5 DEF Own
    <3> QED  BY <1>1, <2>2, <3>1, ReachClosed DEF Reach
  <2> QED  BY <2>2, <2>4, <2>5 DEF Shared
<1> QED  BY <1>1, <1>2, <1>3, <1>4, <1>5, <1>6, <1>7

\* An operand that needs no traversal.
LEMMA SkipTags ==
    ASSUME TypeInv, WalkInv, TagsInv, Skip
    PROVE  TagsInv'
<1>1. /\ HasOperand /\ worklist' = Advanced /\ delayed' = delayed
      /\ unit' = unit /\ phase' = phase /\ done' = done
    BY DEF Skip, program
<1>2. /\ phase = "walking" /\ unit \in Units /\ worklist # <<>>
      /\ worklist \in Seq(Metadata \X Nat) /\ delayed \in Seq(Metadata)
      /\ Waiting(index, worklist, delayed) /\ Tags(unit, index)
      /\ OwnAll(unit, index, F, worklist, delayed)
      /\ F \in Nat /\ F <= Len(unit.locals)
      /\ Len(unit.ops[Top[1]]) \in Nat /\ Top[2] < Len(unit.ops[Top[1]])
      /\ Operand # Null =>
           Operand \in Shared(unit) /\ Operand \in Metadata /\ Operand \in Reach(unit, F)
    BY <1>1, OperandReached
<1>3. F' = F
    BY <1>1 DEF F
<1>4. ASSUME Tags(unit, index'), OwnAll(unit, index', F, worklist, delayed),
             Operand # Null => Operand \in DOMAIN index' /\ index'[Operand].f \in {0, F}
      PROVE  TagsInv'
  <2> DEFINE g == F
             iy == index'
  <2>1. OwnAll(unit, iy, g, worklist, delayed)
      BY <1>4
  <2>2. Operand # Null => Operand \in DOMAIN iy /\ iy[Operand].f \in {0, g}
      BY <1>4
  <2> HIDE DEF g, iy
  <2>3. OwnAll(unit, iy, g, Advanced, delayed)
      BY <1>2, <2>1, <2>2, AdvancedOwned
  <2> QED  BY <1>1, <1>3, <1>4, <2>3 DEF TagsInv, g, iy
<1>5. CASE Operand = Null /\ UNCHANGED <<mds, index, valued>>
  <2>1. index' = index
      BY <1>5
  <2> QED  BY <1>2, <1>4, <1>5, <2>1
<1>6. CASE Operand # Null /\ Meet(F, Operand)
  <2>1. /\ Tags(unit, index') /\ OwnAll(unit, index', F, worklist, delayed)
        /\ Operand \in DOMAIN index' /\ index'[Operand].f \in {0, F}
      BY <1>2, <1>6, MeetTags
  <2> QED  BY <1>4, <2>1
<1>7. CASE Operand # Null /\ Number(F, Operand)
  <2> DEFINE e == [f |-> F, id |-> Len(mds) + 1]
  <2>1. Len(mds) \in Nat
      BY DEF TypeInv
  <2>2. /\ e \in Entries /\ e.f = F /\ index' = With(Operand, e)
        /\ Operand \notin DOMAIN index /\ ~ IsNode(Operand)
      BY <1>2, <1>7, <2>1 DEF Number, Entries
  <2>3. Len(unit.ops[Operand]) = 0
      BY <1>2, <1>7, <2>2, GraphFields DEF IsNode, Kind, Shared
  <2> HIDE DEF e
  <2>4. /\ Tags(unit, index') /\ OwnAll(unit, index', F, worklist, delayed)
        /\ Operand \in DOMAIN index' /\ index'[Operand].f = F
      BY <1>2, <1>7, <2>2, <2>3, NewTags
  <2> QED  BY <1>4, <2>4
<1> QED  BY <1>5, <1>6, <1>7 DEF Skip

\* A new node.
LEMMA DescendTags ==
    ASSUME TypeInv, WalkInv, TagsInv, Descend
    PROVE  TagsInv'
<1>1. /\ HasOperand /\ Operand # Null /\ Discover(F, Operand)
      /\ unit' = unit /\ phase' = phase /\ done' = done
    BY DEF Descend, program
<1>2. \/ delayed' = Append(delayed, Operand) /\ worklist' = Advanced
      \/ worklist' = Append(Advanced, <<Operand, 0>>) /\ delayed' = delayed
    BY DEF Descend
<1>3. /\ phase = "walking" /\ unit \in Units /\ worklist # <<>>
      /\ worklist \in Seq(Metadata \X Nat) /\ delayed \in Seq(Metadata)
      /\ Waiting(index, worklist, delayed) /\ Tags(unit, index)
      /\ OwnAll(unit, index, F, worklist, delayed)
      /\ F \in Nat /\ F <= Len(unit.locals)
      /\ Len(unit.ops[Top[1]]) \in Nat /\ Top[2] < Len(unit.ops[Top[1]])
      /\ Operand \in Shared(unit) /\ Operand \in Metadata /\ Operand \in Reach(unit, F)
    BY <1>1, OperandReached
<1>4. F' = F
    BY <1>1 DEF F
<1> DEFINE e == [f |-> F, id |-> 0]
<1>5. /\ e \in Entries /\ e.f = F /\ e.id = 0 /\ index' = With(Operand, e)
      /\ Operand \notin DOMAIN index
    BY <1>1, <1>3 DEF Discover, Entries
<1> HIDE DEF e
<1>6. /\ Tags(unit, index') /\ OwnAll(unit, index', F, worklist, delayed)
      /\ Operand \in DOMAIN index' /\ index'[Operand].f = F
      /\ Own(unit, index', F, Operand)
    BY <1>3, <1>5, NewTags
<1> DEFINE g == F
           iy == index'
<1>7. /\ OwnAll(unit, iy, g, worklist, delayed) /\ Own(unit, iy, g, Operand)
      /\ Operand \in DOMAIN iy /\ iy[Operand].f \in {0, g}
    BY <1>6
<1> HIDE DEF g, iy
<1>8. OwnAll(unit, iy, g, Advanced, delayed)
    BY <1>3, <1>7, AdvancedOwned
<1>9. Advanced \in Seq(Metadata \X Nat)
    BY <1>3, AdvancedTyped
<1>10. /\ OwnAll(unit, iy, g, Append(Advanced, <<Operand, 0>>), delayed)
       /\ OwnAll(unit, iy, g, Advanced, Append(delayed, Operand))
    BY <1>3, <1>7, <1>8, <1>9, PushedOwned
<1>11. OwnAll(unit, index', F, worklist', delayed')
    BY <1>2, <1>10 DEF g, iy
<1> QED  BY <1>1, <1>4, <1>6, <1>11 DEF TagsInv

\* A node that is left has seen all its operands; the delayed ones have seen
\* none of theirs.
LEMMA LeaveTags ==
    ASSUME TypeInv, WalkInv, TagsInv, Leave
    PROVE  TagsInv'
<1> DEFINE md == Top[1]
           rest == Front(worklist)
           flushed == [n \in DOMAIN delayed |-> <<delayed[n], 0>>]
<1>1. /\ Walking /\ phase = "walking" /\ worklist # <<>>
      /\ index' = [index EXCEPT ![md].id = Len(mds) + 1]
      /\ Top[2] = Len(unit.ops[md])
      /\ unit' = unit /\ phase' = phase /\ done' = done
    BY DEF Leave, Walking, program
<1>2. \/ worklist' = rest \o flushed /\ delayed' = <<>>
      \/ rest # <<>> /\ worklist' = rest /\ delayed' = delayed
    BY DEF Leave
<1>3. /\ worklist \in Seq(Metadata \X Nat) /\ delayed \in Seq(Metadata)
      /\ index \in [DOMAIN index -> Entries] /\ unit \in Units
      /\ Len(delayed) \in Nat /\ DOMAIN delayed = 1 .. Len(delayed)
    BY DEF TypeInv
<1>4. /\ Len(worklist) \in Nat /\ Len(worklist) > 0
      /\ Len(worklist) \in 1 .. Len(worklist) /\ Top = worklist[Len(worklist)]
      /\ md \in Metadata /\ rest \in Seq(Metadata \X Nat)
      /\ Len(rest) = Len(worklist) - 1
      /\ \A n \in 1 .. Len(rest) : rest[n] = worklist[n]
    BY <1>1, <1>3, TopOfWorklist
<1>5. /\ Waiting(index, worklist, delayed) /\ Tags(unit, index)
      /\ OwnAll(unit, index, F, worklist, delayed)
    BY <1>1 DEF WalkInv, TagsInv
<1>6. F' = F
    BY <1>1 DEF F
<1>7. md \in DOMAIN index /\ Sees(unit, index, md, Len(unit.ops[md]))
    BY <1>1, <1>4, <1>5 DEF Waiting, OwnAll
<1> HIDE DEF md, rest
<1>8. /\ DOMAIN index' = DOMAIN index
      /\ \A x \in DOMAIN index : /\ index'[x].f = index[x].f
                                 /\ x # md => index'[x] = index[x]
  <2>1. /\ DOMAIN index' = DOMAIN index
        /\ index'[md] = [index[md] EXCEPT !.id = Len(mds) + 1]
        /\ \A x \in DOMAIN index : x # md => index'[x] = index[x]
      BY <1>1, <1>3, <1>7
  <2>2. index[md] \in Entries
      BY <1>3, <1>7
  <2>3. [index[md] EXCEPT !.id = Len(mds) + 1].f = index[md].f
      BY <2>2 DEF Entries
  <2> QED  BY <2>1, <2>3
<1>9. \A x \in DOMAIN index : \A k : Sees(unit, index, x, k) => Sees(unit, index', x, k)
    BY <1>8 DEF Sees
<1>10. Tags(unit, index')
  <2>1. \A x \in DOMAIN index : Justified(unit, index', x)
      BY <1>5, <1>8 DEF Tags, Justified
  <2>2. \A x \in DOMAIN index : index'[x].id # 0 => Sees(unit, index', x, Len(unit.ops[x]))
      BY <1>5, <1>7, <1>8, <1>9 DEF Tags
  <2> QED  BY <1>5, <1>8, <2>1, <2>2 DEF Tags
<1>11. \A x \in DOMAIN index : Own(unit, index, F, x) => Own(unit, index', F, x)
    BY <1>8 DEF Own
<1>12. OwnAll(unit, index', F, rest, delayed)
  <2>1. ASSUME NEW n \in 1 .. Len(rest)
        PROVE  /\ Own(unit, index', F, rest[n][1])
               /\ rest[n][2] <= Len(unit.ops[rest[n][1]])
               /\ Sees(unit, index', rest[n][1], rest[n][2])
    <3>1. n \in 1 .. Len(worklist) /\ rest[n] = worklist[n]
        BY <1>4
    <3>2. /\ Own(unit, index, F, rest[n][1]) /\ rest[n][1] \in DOMAIN index
          /\ rest[n][2] <= Len(unit.ops[rest[n][1]])
          /\ Sees(unit, index, rest[n][1], rest[n][2])
        BY <1>5, <3>1 DEF OwnAll, Waiting
    <3> QED  BY <1>9, <1>11, <3>2
  <2>2. ASSUME NEW n \in 1 .. Len(delayed)
        PROVE  Own(unit, index', F, delayed[n])
    <3>1. Own(unit, index, F, delayed[n]) /\ delayed[n] \in DOMAIN index
        BY <1>5 DEF OwnAll, Waiting
    <3> QED  BY <1>11, <3>1
  <2> QED  BY <2>1, <2>2 DEF OwnAll
<1>13. OwnAll(unit, index', F, rest \o flushed, <<>>)
  <2>1. /\ flushed \in Seq(Metadata \X Nat) /\ Len(flushed) = Len(delayed)
        /\ \A n \in 1 .. Len(delayed) : flushed[n] = <<delayed[n], 0>>
    <3>1. /\ \A n \in 1 .. Len(delayed) : flushed[n] = <<delayed[n], 0>>
          /\ \A n \in 1 .. Len(delayed) : delayed[n] \in Metadata
        BY <1>3
    <3>2. flushed \in [1 .. Len(delayed) -> Metadata \X Nat]
        BY <1>3, <3>1
    <3>3. flushed \in Seq(Metadata \X Nat) /\ Len(flushed) = Len(delayed)
        BY <1>3, <3>2
    <3> QED  BY <3>1, <3>3
  <2> HIDE DEF flushed
  <2> DEFINE next == rest \o flushed
  <2>2. /\ Len(next) = Len(rest) + Len(delayed)
        /\ \A n \in 1 .. Len(rest) : next[n] = rest[n]
        /\ \A n \in 1 .. Len(delayed) : next[Len(rest) + n] = flushed[n]
    <3>1. rest \in Seq(Metadata \X Nat) /\ flushed \in Seq(Metadata \X Nat)
        BY <1>4, <2>1
    <3>2. /\ Len(rest \o flushed) = Len(rest) + Len(flushed)
          /\ \A n \in 1 .. Len(rest) : (rest \o flushed)[n] = rest[n]
          /\ \A n \in 1 .. Len(flushed) : (rest \o flushed)[Len(rest) + n] = flushed[n]
        BY <3>1, Concatenated
    <3> QED  BY <2>1, <3>2
  <2> HIDE DEF next
  <2>3. ASSUME NEW n \in 1 .. Len(next)
        PROVE  /\ Own(unit, index', F, next[n][1])
               /\ next[n][2] <= Len(unit.ops[next[n][1]])
               /\ Sees(unit, index', next[n][1], next[n][2])
    <3>1. CASE n \in 1 .. Len(rest)
        BY <1>12, <2>2, <3>1 DEF OwnAll
    <3>2. CASE n \notin 1 .. Len(rest)
      <4> DEFINE k == n - Len(rest)
      <4>1. k \in 1 .. Len(delayed) /\ n = Len(rest) + k
        <5>1. Len(rest) \in Nat
            BY <1>4
        <5> QED  BY <1>3, <2>2, <3>2, <5>1
      <4> HIDE DEF k
      <4>2. next[n][1] = delayed[k] /\ next[n][2] = 0 /\ delayed[k] \in Metadata
        <5>1. next[n] = <<delayed[k], 0>>
            BY <2>1, <2>2, <4>1
        <5> QED  BY <1>3, <4>1, <5>1
      <4>3. Own(unit, index', F, delayed[k])
          BY <1>12, <4>1 DEF OwnAll
      <4>4. 0 <= Len(unit.ops[delayed[k]])
          BY <1>3, <4>2, GraphFields
      <4>5. Sees(unit, index', delayed[k], 0)
          BY DEF Sees
      <4> QED  BY <4>2, <4>3, <4>4, <4>5
    <3> QED  BY <3>1, <3>2
  <2>4. OwnAll(unit, index', F, next, <<>>)
      BY <2>3 DEF OwnAll
  <2> QED  BY <2>4 DEF next
<1>14. OwnAll(unit, index', F, worklist', delayed')
    BY <1>2, <1>12, <1>13
<1> QED  BY <1>1, <1>6, <1>10, <1>14 DEF TagsInv

-----------------------------------------------------------------------------
(* After the walk the tags are exact, and every operand is in sight *)

\* Once nothing waits, a tag says which function alone reaches the metadata.
LEMMA TagsBecomeExact ==
    ASSUME NEW u \in Units, NEW ix, Tags(u, ix), \A x \in DOMAIN ix : ix[x].f \in Nat,
           \A x \in DOMAIN ix : ix[x].id # 0,
           \A n \in 1 .. Len(u.roots) : Rooted(ix, u.roots[n])
    PROVE  Exact(u, ix)
<1> SUFFICES ASSUME NEW md \in DOMAIN ix, NEW f \in 1 .. Len(u.locals)
             PROVE  ix[md].f = f <=> md \in Reach(u, f) /\ md \notin ReachOthers(u, f)
    BY DEF Exact
<1>1. /\ DOMAIN u.roots = 1 .. Len(u.roots) /\ Len(u.locals) \in Nat
      /\ f \in 0 .. Len(u.locals) /\ f # 0
    BY GraphFields
<1>2. ASSUME NEW x \in DOMAIN ix, NEW y \in Arcs(u)[x]
      PROVE  y \in DOMAIN ix /\ ix[y].f \in {0, ix[x].f}
  <2>1. x \in Metadata /\ Sees(u, ix, x, Len(u.ops[x]))
      BY DEF Tags, Shared
  <2>2. PICK n \in 1 .. Len(u.ops[x]) : u.ops[x][n] = y /\ y # Null
      BY <2>1, GraphFields
  <2> QED  BY <2>1, <2>2 DEF Sees
<1>3. Justified(u, ix, md)
    BY DEF Tags
<1>4. ASSUME ix[md].f = f
      PROVE  md \in Reach(u, f) /\ md \notin ReachOthers(u, f)
  <2> DEFINE T == {x \in DOMAIN ix : ix[x].f # f}
             fs == (0 .. Len(u.locals)) \ {f}
  <2>1. RootsOf(u, fs) \subseteq T
    <3>1. ASSUME NEW n \in 1 .. Len(u.roots), u.roots[n].f \in fs
          PROVE  u.roots[n].md \in T
      <4>1. u.roots[n].md \in DOMAIN ix /\ ix[u.roots[n].md].f \in {0, u.roots[n].f}
          BY DEF Rooted
      <4> QED  BY <1>1, <3>1, <4>1
    <3> QED  BY <1>1, <3>1 DEF RootsOf
  <2>2. \A x \in Metadata : x \in T => Arcs(u)[x] \subseteq T
      BY <1>1, <1>2
  <2> HIDE DEF T, fs
  <2>3. Closure(RootsOf(u, fs), Arcs(u)) \subseteq T
      BY <2>1, <2>2, ReachLeast
  <2>4. md \notin T
      BY <1>4 DEF T
  <2>5. md \in Reach(u, f)
      BY <1>1, <1>3, <1>4 DEF Justified
  <2> QED  BY <2>3, <2>4, <2>5 DEF ReachOthers, fs
<1>5. ASSUME md \in Reach(u, f), md \notin ReachOthers(u, f)
      PROVE  ix[md].f = f
  <2> DEFINE T == {x \in DOMAIN ix : ix[x].f \in {0, f}}
  <2>1. RootsOf(u, {f}) \subseteq T
      BY <1>1 DEF RootsOf, Rooted
  <2>2. \A x \in Metadata : x \in T => Arcs(u)[x] \subseteq T
      BY <1>2
  <2> HIDE DEF T
  <2>3. Closure(RootsOf(u, {f}), Arcs(u)) \subseteq T
      BY <2>1, <2>2, ReachLeast
  <2>4. ix[md].f \in {0, f}
      BY <1>5, <2>3 DEF Reach, T
  <2>5. ASSUME ix[md].f = 0
        PROVE  FALSE
    <3>1. PICK g \in 0 .. Len(u.locals) : g # f /\ md \in Reach(u, g)
      <4>1. 0 \in 0 .. Len(u.locals)
          BY <1>1
      <4> QED  BY <1>1, <1>3, <2>5, <4>1 DEF Justified
    <3> QED  BY <1>5, <3>1, ReachOfOthers
  <2> QED  BY <2>4, <2>5
<1> QED  BY <1>4, <1>5

\* What is seen stays in sight of a node when the map only grows ...
LEMMA SeenKept ==
    ASSUME NEW u, NEW ix, NEW iy, NEW d, NEW x \in DOMAIN ix, Seen(u, ix, d, x),
           \A y \in DOMAIN ix : y \in DOMAIN iy /\ iy[y] = ix[y]
    PROVE  Seen(u, iy, d, x)
<1>1. Sees(u, ix, x, Len(u.ops[x])) => Sees(u, iy, x, Len(u.ops[x]))
    BY DEF Sees
<1>2. ListSees(u, ix, d, x) => ListSees(u, iy, d, x)
    BY DEF ListSees
<1> QED  BY <1>1, <1>2 DEF Seen

\* What belongs to no body is no list.
LEMMA SeenByNode ==
    ASSUME NEW u, NEW ix, NEW d, NEW x \in Shared(u)
    PROVE  Seen(u, ix, d, x) <=> Sees(u, ix, x, Len(u.ops[x]))
BY DEF Seen, Shared

\* organizeMetadata keeps the tags.
LEMMA organizeMetadataSees ==
    ASSUME NumberingInv, TagsInv, organizeMetadata
    PROVE  SeesInv'
<1>1. /\ phase = "walking" /\ worklist = <<>> /\ done = Len(unit.roots)
      /\ phase' = "ready" /\ done' = 0 /\ unit' = unit
    BY DEF organizeMetadata
<1>2. TypeInv /\ WalkInv /\ Settled /\ unit \in Units
    BY <1>1, NothingWaits DEF NumberingInv, TypeInv
<1>3. /\ DOMAIN index' = DOMAIN index /\ index' \in [DOMAIN index' -> Entries]
      /\ \A md \in DOMAIN index : index'[md].f = index[md].f
    BY <1>2, OrganizeHolds
<1>4. /\ Tags(unit, index) /\ Waiting(index, worklist, delayed) /\ delayed = <<>>
      /\ \A n \in 1 .. Len(unit.roots) : Rooted(index, unit.roots[n])
    BY <1>1, <1>2 DEF TagsInv, WalkInv
<1>5. \A x \in DOMAIN index : index[x].id # 0 /\ index[x].f \in Nat
  <2>1. Len(worklist) = 0 /\ Len(delayed) = 0
      BY <1>1, <1>4
  <2>2. index \in [DOMAIN index -> Entries]
      BY <1>2 DEF TypeInv
  <2> QED  BY <1>4, <2>1, <2>2 DEF Waiting, Entries
<1>6. Exact(unit, index)
    BY <1>2, <1>4, <1>5, TagsBecomeExact
<1>7. Exact(unit, index')
    BY <1>3, <1>6 DEF Exact
<1>8. ASSUME NEW x \in DOMAIN index'
      PROVE  x \in Shared(unit) /\ Seen(unit, index', done', x)
  <2>1. x \in DOMAIN index /\ x \in Shared(unit) /\ Sees(unit, index, x, Len(unit.ops[x]))
      BY <1>3, <1>4, <1>5 DEF Tags
  <2>2. Sees(unit, index', x, Len(unit.ops[x]))
      BY <1>3, <2>1 DEF Sees
  <2> QED  BY <2>1, <2>2, SeenByNode
<1> QED  BY <1>1, <1>7, <1>8 DEF SeesInv

\* incorporateFunction leaves the map alone.
LEMMA incorporateFunctionSees ==
    ASSUME NumberingInv, SeesInv, incorporateFunction
    PROVE  SeesInv'
<1> DEFINE list == LocalsFirst(unit, done + 1)
<1>1. /\ phase = "ready" /\ phase' = "incorporated" /\ done' = done + 1
      /\ done < Len(unit.locals) /\ todo' = list /\ unit' = unit /\ index' = index
    BY DEF incorporateFunction
<1>2. unit \in Units /\ done \in Nat /\ unit.locals \in Seq(Seq(Metadata))
    BY UnitFields DEF NumberingInv, TypeInv
<1>3. done + 1 \in 1 .. Len(unit.locals) /\ done + 1 \in DOMAIN unit.locals
    BY <1>1, <1>2
<1>4. list \in Seq(Metadata)
    BY <1>2, <1>3, LocalsOrdered
<1>5. Through(index', done', list, todo')
  <2> HIDE DEF list
  <2>1. Len(list) \in Nat /\ 0 \in 0 .. Len(list) /\ 0 + 1 = 1
      BY <1>4
  <2>2. list = SubSeq(list, 1, Len(list))
      BY <1>4, SubSeqFull
  <2>3. list = SubSeq(list, 0 + 1, Len(list))
      BY <2>1, <2>2
  <2> QED  BY <1>1, <2>1, <2>3 DEF Through
<1>6. \A x \in DOMAIN index : x \in Shared(unit) /\ Seen(unit, index, done, x)
    BY <1>1 DEF SeesInv
<1>7. \A x \in DOMAIN index : Seen(unit, index, done + 1, x)
    BY <1>6, SeenByNode
<1> QED  BY <1>1, <1>3, <1>5, <1>6, <1>7 DEF SeesInv

\* What is in the list is numbered by its slots, and the current function's.
LEMMA NumbersOfCurrent ==
    ASSUME NumberingInv, phase # "walking"
    PROVE  /\ \A x \in DOMAIN index : index[x].f \in Current =>
                 index[x].id \in 1 .. Len(mds) /\ mds[index[x].id] = x
           /\ \A n \in 1 .. Len(mds) : /\ mds[n] \in DOMAIN index
                                       /\ index[mds[n]].f \in Current
                                       /\ index[mds[n]].id = n
<1>1. /\ phase \in {"ready", "incorporated"} /\ numModuleMDs \in Nat
      /\ mds \in Seq(Metadata) /\ Len(mds) \in Nat
    BY DEF NumberingInv, TypeInv
<1> DEFINE N == Len(mds)
           M == ModuleEnd
<1>2. /\ M \in Nat /\ M <= N /\ Holds(index, mds, 0, M, 0, 0)
      /\ phase = "incorporated" => Holds(index, mds, M, N, done, M)
      /\ phase = "ready" => M = N
    BY <1>1 DEF NumberingInv, FunctionsInv, ModuleEnd
<1> HIDE DEF M, N
<1>3. /\ \A n \in 1 .. M : mds[n] \in DOMAIN index /\ index[mds[n]] = [f |-> 0, id |-> n]
      /\ \A x \in DOMAIN index : index[x].f = 0 => \E n \in 1 .. M : mds[n] = x
  <2>1. 0 + 1 = 1 /\ \A n \in 1 .. M : 0 + n - 0 = n
      BY <1>2
  <2> QED  BY <1>2, <2>1 DEF Holds
<1>4. ASSUME phase = "incorporated"
      PROVE  /\ \A n \in M + 1 .. N :
                  mds[n] \in DOMAIN index /\ index[mds[n]] = [f |-> done, id |-> n]
             /\ \A x \in DOMAIN index : index[x].f = done => \E n \in M + 1 .. N : mds[n] = x
  <2>1. N \in Nat /\ \A n \in M + 1 .. N : M + n - M = n
      BY <1>1, <1>2 DEF N
  <2> QED  BY <1>2, <1>4, <2>1 DEF Holds
<1>5. N \in Nat /\ \A n \in 1 .. N : n \in 1 .. M \/ n \in M + 1 .. N
    BY <1>1, <1>2 DEF N
<1>6. /\ \A n \in 1 .. M : n \in 1 .. N
      /\ \A n \in M + 1 .. N : n \in 1 .. N
    BY <1>2, <1>5
<1>7. /\ \A n \in 1 .. M : index[mds[n]].f = 0 /\ index[mds[n]].id = n
      /\ phase = "incorporated" =>
           \A n \in M + 1 .. N : index[mds[n]].f = done /\ index[mds[n]].id = n
  <2>1. ASSUME NEW n \in 1 .. M
        PROVE  index[mds[n]].f = 0 /\ index[mds[n]].id = n
    <3>1. index[mds[n]] = [f |-> 0, id |-> n]
        BY <1>3
    <3> QED  BY <3>1
  <2>2. ASSUME phase = "incorporated", NEW n \in M + 1 .. N
        PROVE  index[mds[n]].f = done /\ index[mds[n]].id = n
    <3>1. index[mds[n]] = [f |-> done, id |-> n]
        BY <1>4, <2>2
    <3> QED  BY <3>1
  <2> QED  BY <2>1, <2>2
<1>8. ASSUME NEW n \in 1 .. N
      PROVE  mds[n] \in DOMAIN index /\ index[mds[n]].f \in Current /\ index[mds[n]].id = n
  <2>1. CASE n \in 1 .. M
    <3>1. 0 \in Current
        BY DEF Current
    <3> QED  BY <1>3, <1>7, <2>1, <3>1
  <2>2. CASE n \notin 1 .. M
    <3>1. n \in M + 1 .. N
        BY <1>5, <2>2
    <3>2. phase = "incorporated"
      <4>1. phase = "ready" => n \in 1 .. M
          BY <1>2
      <4> QED  BY <1>1, <2>2, <4>1
    <3>3. done \in Current
        BY <3>2 DEF Current
    <3> QED  BY <1>4, <1>7, <3>1, <3>2, <3>3
  <2> QED  BY <2>1, <2>2
<1>9. ASSUME NEW x \in DOMAIN index, index[x].f \in Current
      PROVE  \E n \in 1 .. N : mds[n] = x
  <2>1. index[x].f = 0 \/ (phase = "incorporated" /\ index[x].f = done)
      BY <1>9 DEF Current
  <2> QED  BY <1>3, <1>4, <1>6, <2>1
<1>10. ASSUME NEW x \in DOMAIN index, index[x].f \in Current
       PROVE  index[x].id \in 1 .. N /\ mds[index[x].id] = x
  <2>1. PICK n \in 1 .. N : mds[n] = x
      BY <1>9, <1>10
  <2> QED  BY <1>8, <2>1
<1> QED  BY <1>8, <1>10 DEF N

\* The next of the local metadata sees what went before it.
LEMMA EnumerateFunctionLocalSees ==
    ASSUME NumberingInv, SeesInv, EnumerateFunctionLocal
    PROVE  SeesInv'
<1> DEFINE md == Head(todo)
           list == LocalsFirst(unit, done)
           N == Len(list)
<1>1. /\ phase = "incorporated" /\ todo # <<>> /\ todo' = Tail(todo)
      /\ unit' = unit /\ phase' = phase /\ done' = done
      /\ Local(md) \/ ListConstant(md)
    BY DEF EnumerateFunctionLocal, program
<1>2. /\ unit \in Units /\ done \in Nat /\ index \in [DOMAIN index -> Entries]
      /\ todo \in Seq(Metadata) /\ Len(mds) \in Nat /\ TypeInv /\ FunctionsInv
      /\ unit.locals \in Seq(Seq(Metadata))
    BY UnitFields DEF NumberingInv, TypeInv
<1>3. /\ done \in 1 .. Len(unit.locals) /\ Through(index, done, list, todo)
      /\ \A x \in DOMAIN index : /\ x \notin Shared(unit) => index[x].f = done
                                 /\ Seen(unit, index, done, x)
    BY <1>1 DEF SeesInv
<1>4. done \in DOMAIN unit.locals
    BY <1>2, <1>3
<1>5. /\ list \in Seq(Metadata)
      /\ \A x \in ToSet(list) : unit.kind[x] \in {"constant", "local", "list"}
      /\ \A p \in 1 .. N : unit.kind[list[p]] = "list" =>
           \A x \in ToSet(unit.ops[list[p]]) : \E q \in 1 .. p - 1 : list[q] = x
    BY <1>2, <1>4, LocalsOrdered
<1>6. md \in Metadata /\ md = todo[1] /\ 1 \in 1 .. Len(todo)
    BY <1>1, <1>2, EmptySeq, HeadTailProperties
<1> HIDE DEF list, md
<1>7. N \in Nat
    BY <1>5
<1>8. PICK k \in 0 .. N :
        /\ todo = SubSeq(list, k + 1, N)
        /\ \A n \in 1 .. k : list[n] \in DOMAIN index /\ index[list[n]].f \in {0, done}
    BY <1>3 DEF Through
<1> HIDE DEF N
<1>9. k < N
  <2>1. ASSUME k = N
        PROVE  FALSE
    <3>1. SubSeq(list, k + 1, N) = <<>>
        BY <1>7, <2>1, SubSeqEmpty
    <3> QED  BY <1>1, <1>8, <3>1
  <2> QED  BY <1>7, <2>1
<1> DEFINE p == k + 1
<1>10. p \in 1 .. N /\ N \in p .. N /\ p \in Nat /\ p - 1 = k /\ p \in 0 .. N
    BY <1>7, <1>9
<1>11. md = list[p] /\ todo' = SubSeq(list, p + 1, N)
  <2>1. /\ Head(SubSeq(list, p, N)) = list[p]
        /\ Tail(SubSeq(list, p, N)) = SubSeq(list, p + 1, N)
    <3> HIDE DEF p
    <3> QED  BY <1>5, <1>10, HeadTailOfSubSeq DEF N
  <2> QED  BY <1>1, <1>8, <2>1 DEF md
<1>12. \A n \in 1 .. p : n \in 1 .. k \/ n = p
    BY <1>10
<1> HIDE DEF p
<1>13. unit.kind[md] \in {"constant", "local", "list"}
  <2>1. md \in ToSet(list)
      BY <1>5, <1>10, <1>11 DEF ToSet, N
  <2> QED  BY <1>5, <2>1
<1>14. ASSUME \A x \in DOMAIN index : x \in DOMAIN index' /\ index'[x] = index[x],
              md \in DOMAIN index' /\ index'[md].f \in {0, done},
              \A x \in DOMAIN index' : x \in DOMAIN index \/ x = md,
              md \notin DOMAIN index => index'[md].f = done /\ Seen(unit, index', done, md)
       PROVE  SeesInv'
  <2>1. Through(index', done, list, todo')
    <3>1. \A n \in 1 .. p : list[n] \in DOMAIN index' /\ index'[list[n]].f \in {0, done}
      <4> SUFFICES ASSUME NEW n \in 1 .. p
                   PROVE  list[n] \in DOMAIN index' /\ index'[list[n]].f \in {0, done}
          OBVIOUS
      <4>1. CASE n \in 1 .. k
          BY <1>8, <1>14, <4>1
      <4>2. CASE n = p
          BY <1>11, <1>14, <4>2
      <4> QED  BY <1>12, <4>1, <4>2
    <3> QED  BY <1>10, <1>11, <3>1 DEF Through, N
  <2>2. ASSUME NEW x \in DOMAIN index'
        PROVE  /\ x \notin Shared(unit) => index'[x].f = done
               /\ Seen(unit, index', done, x)
    <3>1. CASE x \in DOMAIN index
      <4>1. Seen(unit, index, done, x) /\ index'[x] = index[x]
          BY <1>3, <1>14, <3>1
      <4>2. Seen(unit, index', done, x)
          BY <1>14, <3>1, <4>1, SeenKept
      <4> QED  BY <1>3, <3>1, <4>1, <4>2
    <3>2. CASE x \notin DOMAIN index
        BY <1>14, <3>2
    <3> QED  BY <3>1, <3>2
  <2>3. "incorporated" # "ready" /\ "incorporated" # "walking"
      OBVIOUS
  <2> QED  BY <1>1, <1>3, <2>1, <2>2, <2>3 DEF SeesInv, list
<1>15. CASE Local(md) /\ md \in DOMAIN index
  <2>1. index' = index
      BY <1>15 DEF Local
  <2>2. md \notin Shared(unit)
      BY <1>13, <1>15 DEF Local, Kind, Shared
  <2> QED  BY <1>3, <1>14, <1>15, <2>1, <2>2
<1>16. CASE Local(md) /\ md \notin DOMAIN index
  <2> DEFINE e == [f |-> done, id |-> Len(mds) + 1]
  <2>1. e \in Entries /\ e.f = done /\ e.id = Len(mds) + 1 /\ index' = With(md, e)
      BY <1>2, <1>16 DEF Local, Entries
  <2> HIDE DEF e
  <2>2. /\ DOMAIN index' = DOMAIN index \cup {md} /\ index'[md] = e
        /\ \A x \in DOMAIN index : x # md => index'[x] = index[x]
    <3>1. /\ DOMAIN With(md, e) = DOMAIN index \cup {md} /\ With(md, e)[md] = e
          /\ \A x \in DOMAIN index : x # md => With(md, e)[x] = index[x]
        BY <1>2, <1>6, <2>1, WithTyped
    <3> QED  BY <2>1, <3>1
  <2>3. \A x \in DOMAIN index : x # md /\ index'[x] = index[x]
      BY <1>16, <2>2
  <2>4. Seen(unit, index', done, md)
    <3>1. CASE unit.kind[md] # "list"
      <4>1. unit.kind[md] \notin {"uniqued", "distinct", "list"}
          BY <1>13, <3>1
      <4>2. Len(unit.ops[md]) = 0
          BY <1>2, <1>6, <4>1, GraphFields
      <4>3. Sees(unit, index', md, Len(unit.ops[md]))
          BY <4>2 DEF Sees
      <4> QED  BY <3>1, <4>3 DEF Seen
    <3>2. CASE unit.kind[md] = "list"
      <4>1. ASSUME NEW y \in ToSet(unit.ops[md])
            PROVE  y \in DOMAIN index' /\ index'[y].f \in {0, done} /\ index'[y].id < index'[md].id
        <5>1. PICK q \in 1 .. k : list[q] = y
            BY <1>5, <1>10, <1>11, <3>2 DEF N
        <5>2. y \in DOMAIN index /\ index[y].f \in {0, done}
            BY <1>8, <5>1
        <5>3. index[y].f \in Current
            BY <1>1, <5>2 DEF Current
        <5>4. index[y].id \in 1 .. Len(mds)
            BY <1>1, <5>2, <5>3, NumbersOfCurrent
        <5>5. index[y].id < Len(mds) + 1
            BY <1>2, <5>4
        <5> QED  BY <2>1, <2>2, <2>3, <5>2, <5>5
      <4>2. ListSees(unit, index', done, md)
          BY <4>1 DEF ListSees
      <4> QED  BY <3>2, <4>2 DEF Seen
    <3> QED  BY <3>1, <3>2
  <2> QED  BY <1>14, <2>1, <2>2, <2>3, <2>4
<1>17. CASE ListConstant(md)
  <2>1. [f |-> done, md |-> md] \in ToSet(unit.roots)
    <3>1. \A n \in 1 .. Len(todo) : Kind(todo[n]) = "constant" =>
             [f |-> done, md |-> todo[n]] \in ToSet(unit.roots)
        BY <1>1, <1>2 DEF FunctionsInv
    <3> QED  BY <1>6, <1>17, <3>1 DEF ListConstant
  <2>2. Rooted(index, [f |-> done, md |-> md])
    <3>1. \A r \in ToSet(unit.roots) : r.f = done => Rooted(index, r)
        BY <1>1, <1>2 DEF FunctionsInv
    <3> QED  BY <2>1, <3>1
  <2>3. md \in DOMAIN index /\ index[md].f \in {0, done}
      BY <2>2 DEF Rooted
  <2>4. index' = index
    <3>1. ~ Number(done, md)
        BY <2>3 DEF Number
    <3> QED  BY <1>17, <2>3, <3>1 DEF ListConstant, Meet
  <2> QED  BY <1>14, <2>3, <2>4
<1> QED  BY <1>1, <1>15, <1>16, <1>17

\* What a function leaves behind does not see what goes with it.
LEMMA purgeFunctionSees ==
    ASSUME NumberingInv, SeesInv, purgeFunction
    PROVE  SeesInv'
<1>1. /\ phase = "incorporated" /\ phase' = "ready" /\ index' = Purged
      /\ unit' = unit /\ done' = done
    BY DEF purgeFunction
<1>2. /\ done \in Nat /\ done > 0 /\ numModuleMDs \in Nat /\ Len(mds) \in Nat
      /\ numModuleMDs <= Len(mds)
      /\ Holds(index, mds, numModuleMDs, Len(mds), done, numModuleMDs)
    BY <1>1 DEF NumberingInv, TypeInv, FunctionsInv
<1> DEFINE gone == {mds[n] : n \in numModuleMDs + 1 .. Len(mds)}
<1>3. /\ DOMAIN index' = DOMAIN index \ gone
      /\ \A x \in DOMAIN index' : index'[x] = index[x]
    BY <1>1 DEF Purged
<1>4. \A x \in DOMAIN index : x \in gone <=> index[x].f = done
  <2>1. ASSUME NEW n \in numModuleMDs + 1 .. Len(mds)
        PROVE  index[mds[n]].f = done
    <3>1. index[mds[n]] = [f |-> done, id |-> numModuleMDs + n - numModuleMDs]
        BY <1>2 DEF Holds
    <3> QED  BY <3>1
  <2>2. \A x \in DOMAIN index : index[x].f = done =>
           \E n \in numModuleMDs + 1 .. Len(mds) : mds[n] = x
      BY <1>2 DEF Holds
  <2> QED  BY <2>1, <2>2
<1> HIDE DEF gone
<1>5. ASSUME NEW x \in DOMAIN index'
      PROVE  x \in Shared(unit) /\ Seen(unit, index', done', x)
  <2>1. x \in DOMAIN index /\ index[x].f # done /\ index'[x] = index[x]
      BY <1>3, <1>4
  <2>2. x \in Shared(unit) /\ Seen(unit, index, done, x)
      BY <1>1, <2>1 DEF SeesInv
  <2>3. Sees(unit, index, x, Len(unit.ops[x]))
      BY <2>2, SeenByNode
  <2>4. Sees(unit, index', x, Len(unit.ops[x]))
    <3> SUFFICES ASSUME NEW n \in 1 .. Len(unit.ops[x]), unit.ops[x][n] # Null
                 PROVE  /\ unit.ops[x][n] \in DOMAIN index'
                        /\ index'[unit.ops[x][n]].f \in {0, index'[x].f}
        BY DEF Sees
    <3>1. unit.ops[x][n] \in DOMAIN index /\ index[unit.ops[x][n]].f \in {0, index[x].f}
        BY <2>3 DEF Sees
    <3>2. index[unit.ops[x][n]].f # done
        BY <1>2, <2>1, <3>1
    <3> QED  BY <1>3, <1>4, <2>1, <3>1, <3>2
  <2> QED  BY <2>2, <2>4, SeenByNode
<1> QED  BY <1>1, <1>2, <1>5 DEF SeesInv

\* The tags are right at first ...
LEMMA VisibleInvStarts == Init => VisibleInv
<1> SUFFICES ASSUME Init
             PROVE  VisibleInv
    OBVIOUS
<1>1. NumberingInv
    BY NumberingInvStarts
<1>2. /\ phase = "walking" /\ worklist = <<>> /\ delayed = <<>> /\ index = <<>>
    BY DEF Init
<1>3. Len(<<>>) = 0 /\ DOMAIN <<>> = {}
    OBVIOUS
<1>4. Tags(unit, index) /\ OwnAll(unit, index, F, worklist, delayed)
    BY <1>2, <1>3 DEF Tags, OwnAll
<1> QED  BY <1>1, <1>2, <1>4 DEF VisibleInv, TagsInv, SeesInv

\* ... and every step keeps them, and what is seen in sight.
LEMMA VisibleInvKept == VisibleInv /\ [Next]_vars => VisibleInv'
<1> SUFFICES ASSUME VisibleInv, [Next]_vars
             PROVE  VisibleInv'
    OBVIOUS
<1>1. NumberingInv /\ TypeInv /\ WalkInv /\ TagsInv /\ SeesInv
    BY DEF VisibleInv, NumberingInv
<1>2. NumberingInv'
    BY <1>1, NumberingInvKept
<1>3. ASSUME phase' = phase, phase = "walking", TagsInv'
      PROVE  VisibleInv'
    BY <1>2, <1>3 DEF VisibleInv, SeesInv
<1>4. ASSUME phase' # "walking", SeesInv'
      PROVE  VisibleInv'
    BY <1>2, <1>4 DEF VisibleInv, TagsInv
<1>5. CASE EnumerateMetadata
  <2>1. phase' = phase /\ phase = "walking"
      BY <1>5 DEF EnumerateMetadata
  <2> QED  BY <1>1, <1>3, <1>5, <2>1, EnumerateMetadataTags
<1>6. CASE Skip
  <2>1. phase' = phase /\ phase = "walking"
      BY <1>6 DEF Skip, HasOperand, Walking, program
  <2> QED  BY <1>1, <1>3, <1>6, <2>1, SkipTags
<1>7. CASE Descend
  <2>1. phase' = phase /\ phase = "walking"
      BY <1>7 DEF Descend, HasOperand, Walking, program
  <2> QED  BY <1>1, <1>3, <1>7, <2>1, DescendTags
<1>8. CASE Leave
  <2>1. phase' = phase /\ phase = "walking"
      BY <1>8 DEF Leave, Walking, program
  <2> QED  BY <1>1, <1>3, <1>8, <2>1, LeaveTags
<1>9. CASE organizeMetadata
  <2>1. phase' # "walking"
      BY <1>9 DEF organizeMetadata
  <2> QED  BY <1>1, <1>4, <1>9, <2>1, organizeMetadataSees
<1>10. CASE incorporateFunction
  <2>1. phase' # "walking"
      BY <1>10 DEF incorporateFunction
  <2> QED  BY <1>1, <1>4, <1>10, <2>1, incorporateFunctionSees
<1>11. CASE EnumerateFunctionLocal
  <2>1. phase' # "walking"
      BY <1>11 DEF EnumerateFunctionLocal, program
  <2> QED  BY <1>1, <1>4, <1>11, <2>1, EnumerateFunctionLocalSees
<1>12. CASE purgeFunction
  <2>1. phase' # "walking"
      BY <1>12 DEF purgeFunction
  <2> QED  BY <1>1, <1>4, <1>12, <2>1, purgeFunctionSees
<1>13. CASE UNCHANGED vars
  <2>1. /\ unit' = unit /\ phase' = phase /\ done' = done /\ worklist' = worklist
        /\ delayed' = delayed /\ index' = index /\ todo' = todo
      BY <1>13 DEF vars, program, walk, functions
  <2>2. TagsInv'
      BY <1>1, <2>1 DEF TagsInv, F
  <2>3. SeesInv'
      BY <1>1, <2>1 DEF SeesInv
  <2> QED  BY <1>2, <2>2, <2>3 DEF VisibleInv
<1> QED  BY <1>5, <1>6, <1>7, <1>8, <1>9, <1>10, <1>11, <1>12, <1>13 DEF Next

\* The invariant says what is to be shown.
LEMMA VisibleFollows == VisibleInv => Visible
<1> SUFFICES ASSUME VisibleInv
             PROVE  Visible
    OBVIOUS
<1>1. /\ NumberingInv /\ SeesInv /\ unit \in Units /\ done \in Nat
      /\ phase \in {"walking", "ready", "incorporated"} /\ DOMAIN index \subseteq Metadata
      /\ mds \in Seq(Metadata) /\ DOMAIN mds = 1 .. Len(mds)
    BY DEF VisibleInv, NumberingInv, TypeInv
<1>2. /\ DOMAIN unit.roots = 1 .. Len(unit.roots) /\ Len(unit.locals) \in Nat
      /\ unit.locals \in Seq(Seq(Metadata))
    BY <1>1, GraphFields, UnitFields
<1>3. TagsExact
  <2> SUFFICES ASSUME phase = "ready", done = 0,
                      NEW md \in DOMAIN index, NEW f \in AllFunctions \ {0}
               PROVE  index[md].f = f <=>
                         md \in Reached({f}) /\ md \notin Reached(AllFunctions \ {f})
      BY DEF TagsExact
  <2>1. Exact(unit, index)
      BY <1>1 DEF SeesInv
  <2>2. f \in 1 .. Len(unit.locals)
      BY <1>2 DEF AllFunctions
  <2>3. index[md].f = f <=> md \in Reach(unit, f) /\ md \notin ReachOthers(unit, f)
      BY <2>1, <2>2 DEF Exact
  <2>4. \A fs : Reached(fs) = Closure(RootsOf(unit, fs), Arcs(unit))
      BY DEF Reached, RootsOf, Arcs, Ops
  <2> QED  BY <2>3, <2>4 DEF Reach, ReachOthers, AllFunctions
<1>4. ASSUME phase # "walking", NEW n \in DOMAIN mds, NEW x \in Ops(mds[n])
      PROVE  /\ x \in DOMAIN index /\ index[x].f \in Current
             /\ index[mds[n]].f = 0 => index[x].f = 0
             /\ Kind(mds[n]) = "list" => index[x].id < n
  <2> DEFINE z == mds[n]
  <2>1. z \in DOMAIN index /\ index[z].f \in Current /\ index[z].id = n /\ z \in Metadata
    <3>1. n \in 1 .. Len(mds)
        BY <1>1
    <3>2. mds[n] \in DOMAIN index /\ index[mds[n]].f \in Current /\ index[mds[n]].id = n
        BY <1>1, <1>4, <3>1, NumbersOfCurrent
    <3> QED  BY <1>1, <3>2
  <2>2. /\ z \notin Shared(unit) => phase = "incorporated" /\ index[z].f = done
        /\ Seen(unit, index, done, z)
      BY <1>1, <1>4, <2>1 DEF SeesInv
  <2>3. x \in Ops(z)
      OBVIOUS
  <2> HIDE DEF z
  <2>4. x # Null /\ x \in ToSet(unit.ops[z]) /\ \E m \in 1 .. Len(unit.ops[z]) : unit.ops[z][m] = x
    <3>1. DOMAIN unit.ops[z] = 1 .. Len(unit.ops[z])
        BY <1>1, <2>1, GraphFields
    <3> QED  BY <2>3, <3>1 DEF Ops, ToSet
  <2>5. CASE unit.kind[z] = "list"
    <3>1. z \notin Shared(unit)
        BY <2>5 DEF Shared
    <3>2. phase = "incorporated" /\ index[z].f = done /\ done # 0
      <4>1. done > 0
          BY <1>1, <2>2, <3>1 DEF NumberingInv, FunctionsInv
      <4> QED  BY <1>1, <2>2, <3>1, <4>1
    <3>3. x \in DOMAIN index /\ index[x].f \in {0, done} /\ index[x].id < index[z].id
        BY <2>2, <2>4, <2>5 DEF Seen, ListSees
    <3> QED  BY <2>1, <3>2, <3>3 DEF Current, z
  <2>6. CASE unit.kind[z] # "list"
    <3>1. x \in DOMAIN index /\ index[x].f \in {0, index[z].f}
        BY <2>2, <2>4, <2>6 DEF Seen, Sees
    <3>2. 0 \in Current
        BY DEF Current
    <3> QED  BY <2>1, <2>6, <3>1, <3>2 DEF Kind, z
  <2> QED  BY <2>5, <2>6
<1>5. ASSUME phase = "incorporated", todo = <<>>,
             NEW x \in {unit.roots[n].md : n \in {m \in DOMAIN unit.roots :
                                                    unit.roots[m].f = done}}
                       \cup ToSet(unit.locals[done])
      PROVE  x \in DOMAIN index /\ index[x].f \in Current
  <2>1. Current = {0, done}
      BY <1>5 DEF Current
  <2>2. CASE x \in ToSet(unit.locals[done])
    <3> DEFINE list == LocalsFirst(unit, done)
               N == Len(list)
    <3>1. done \in 1 .. Len(unit.locals) /\ Through(index, done, list, todo)
        BY <1>1, <1>5 DEF SeesInv
    <3>2. done \in DOMAIN unit.locals
        BY <1>2, <3>1
    <3>3. list \in Seq(Metadata) /\ x \in ToSet(list)
        BY <1>1, <2>2, <3>2, LocalsOrdered
    <3> HIDE DEF list
    <3>4. N \in Nat /\ DOMAIN list = 1 .. N
        BY <3>3
    <3> HIDE DEF N
    <3>5. PICK k \in 0 .. N :
            /\ todo = SubSeq(list, k + 1, N)
            /\ \A n \in 1 .. k : list[n] \in DOMAIN index /\ index[list[n]].f \in {0, done}
        BY <3>1 DEF Through, N
    <3>6. k = N
      <4>1. ASSUME k < N
            PROVE  FALSE
        <5>1. /\ k + 1 \in Int /\ N \in Int /\ k + 1 <= N /\ N - (k + 1) + 1 > 0
              /\ \A i \in k + 1 .. N : i \in 1 .. N
            BY <3>4, <4>1
        <5>2. \A i \in k + 1 .. N : list[i] \in Metadata
            BY <3>3, <3>4, <5>1
        <5> DEFINE m == k + 1
        <5>3. m \in Int /\ N \in Int /\ m <= N /\ \A i \in m .. N : list[i] \in Metadata
            BY <5>1, <5>2
        <5> HIDE DEF m
        <5>4. Len(SubSeq(list, m, N)) = N - m + 1
            BY <5>3, SubSeqProperties
        <5>5. Len(todo) # 0
            BY <3>5, <5>1, <5>4 DEF m
        <5> QED  BY <1>5, <5>5
      <4> QED  BY <3>4, <4>1
    <3>7. PICK n \in 1 .. N : list[n] = x
        BY <3>3, <3>4 DEF ToSet
    <3> QED  BY <2>1, <3>5, <3>6, <3>7
  <2>3. CASE x \in {unit.roots[n].md : n \in {m \in DOMAIN unit.roots : unit.roots[m].f = done}}
    <3>1. PICK n \in DOMAIN unit.roots : unit.roots[n].f = done /\ unit.roots[n].md = x
        BY <2>3
    <3>2. unit.roots[n] \in ToSet(unit.roots)
        BY DEF ToSet
    <3>3. Rooted(index, unit.roots[n])
        BY <1>1, <1>5, <3>1, <3>2 DEF NumberingInv, FunctionsInv
    <3> QED  BY <2>1, <3>1, <3>3 DEF Rooted
  <2> QED  BY <2>2, <2>3
<1>6. Resolvable
    BY <1>4, <1>5 DEF Resolvable
<1> QED  BY <1>3, <1>6 DEF Visible

\* A function keeps to itself exactly the metadata that nothing else reaches,
\* and whatever is written while a function is in the enumerator refers to the
\* module's metadata and that function's only: the tags that
\* enumerateMetadataImpl gives and dropFunctionFromMetadata takes away, the
\* ranges of organizeMetadata and the lists of incorporateFunction, for every
\* graph and every order of the roots.
THEOREM VisibleCorrect == Spec => []Visible
<1>1. Spec => []VisibleInv
  <2>1. Init => VisibleInv
      BY VisibleInvStarts
  <2>2. VisibleInv /\ [Next]_vars => VisibleInv'
      BY VisibleInvKept
  <2> QED  BY <2>1, <2>2, PTL DEF Spec
<1> QED  BY <1>1, VisibleFollows, PTL

-----------------------------------------------------------------------------
(* The order of what is written *)

\* y leads back to x over uniqued nodes.
UniquedArcs(u) == [z \in Metadata |-> {x \in Arcs(u)[z] : u.kind[x] = "uniqued"}]
Leads(u, y, x) == x \in Closure({y}, UniquedArcs(u))

\* The uniqued operands of a uniqued node that has been left have a smaller
\* number, or are on a cycle with it.
Left(u, ix) ==
    \A x \in DOMAIN ix : u.kind[x] = "uniqued" /\ ix[x].id # 0 =>
        \A y \in UniquedArcs(u)[x] :
           Leads(u, y, x) \/ (y \in DOMAIN ix /\ ix[y].id \in 1 .. ix[x].id - 1)

\* Those of a node on the worklist that have been visited have a number, are
\* on a cycle with it, or right above it.
Passed(u, ix, work, n) ==
    \A m \in 1 .. work[n][2] :
        LET y == u.ops[work[n][1]][m]
        IN y # Null /\ u.kind[y] = "uniqued" =>
             \/ y \in DOMAIN ix /\ ix[y].id # 0
             \/ Leads(u, y, work[n][1])
             \/ n < Len(work) /\ work[n + 1][1] = y

\* Above a uniqued node the worklist only has uniqued ones that it leads to:
\* distinct ones are delayed.
Stacked(u, ix, work, late) ==
    /\ \A n \in 1 .. Len(work) :
         u.kind[work[n][1]] = "uniqued" => Passed(u, ix, work, n)
    /\ \A m, n \in 1 .. Len(work) : m < n /\ u.kind[work[m][1]] = "uniqued" =>
         u.kind[work[n][1]] = "uniqued" /\ Leads(u, work[m][1], work[n][1])
    /\ \A n \in 1 .. Len(late) : u.kind[late[n]] = "distinct"

\* After the sort this holds within the module and within each function.
Preceded(u, ix) ==
    \A x \in DOMAIN ix : u.kind[x] = "uniqued" =>
        \A y \in UniquedArcs(u)[x] :
           \/ Leads(u, y, x)
           \/ y \in DOMAIN ix /\ (ix[y].f = ix[x].f => ix[y].id \in 1 .. ix[x].id - 1)
OrderInv ==
    /\ phase = "walking" => Left(unit, index) /\ Stacked(unit, index, worklist, delayed)
    /\ phase # "walking" => Preceded(unit, index)

\* The graph of uniqued nodes.
LEMMA UniquedGraph ==
    ASSUME NEW u \in Units
    PROVE  /\ UniquedArcs(u) \in [Metadata -> SUBSET Metadata]
           /\ \A x \in Metadata : Leads(u, x, x)
           /\ \A x \in Metadata, y \in Metadata :
                Leads(u, x, y) => \A z \in UniquedArcs(u)[y] : Leads(u, x, z)
<1>1. Arcs(u) \in [Metadata -> SUBSET Metadata]
    BY GraphFields
<1>2. UniquedArcs(u) \in [Metadata -> SUBSET Metadata]
    BY <1>1 DEF UniquedArcs
<1>3. ASSUME NEW x \in Metadata
      PROVE  /\ x \in Closure({x}, UniquedArcs(u))
             /\ \A y \in Closure({x}, UniquedArcs(u)) :
                  UniquedArcs(u)[y] \subseteq Closure({x}, UniquedArcs(u))
  <2>1. {x} \in SUBSET Metadata
      OBVIOUS
  <2> QED  BY <1>2, <2>1, ClosureClosed
<1> QED  BY <1>2, <1>3 DEF Leads

\* What the map gets in addition changes nothing for the nodes in it.
LEMMA OrderKept ==
    ASSUME NEW u, NEW ix, NEW iy, NEW work, NEW late,
           Left(u, ix), Stacked(u, ix, work, late), DOMAIN ix \subseteq DOMAIN iy,
           \A x \in DOMAIN ix : iy[x].id = ix[x].id,
           \A x \in DOMAIN iy \ DOMAIN ix : u.kind[x] # "uniqued" \/ iy[x].id = 0
    PROVE  Left(u, iy) /\ Stacked(u, iy, work, late)
<1>1. ASSUME NEW x \in DOMAIN iy, u.kind[x] = "uniqued", iy[x].id # 0,
             NEW y \in UniquedArcs(u)[x]
      PROVE  Leads(u, y, x) \/ (y \in DOMAIN iy /\ iy[y].id \in 1 .. iy[x].id - 1)
  <2>1. x \in DOMAIN ix /\ iy[x].id = ix[x].id
      BY <1>1
  <2>2. Leads(u, y, x) \/ (y \in DOMAIN ix /\ ix[y].id \in 1 .. ix[x].id - 1)
      BY <1>1, <2>1 DEF Left
  <2> QED  BY <2>1, <2>2
<1>2. \A n : Passed(u, ix, work, n) => Passed(u, iy, work, n)
    BY DEF Passed
<1>3. Stacked(u, iy, work, late)
    BY <1>2 DEF Stacked
<1> QED  BY <1>1, <1>3 DEF Left

\* One more operand visited: it has a number, is on a cycle with the node, is
\* about to go above it, or does not matter.
LEMMA AdvancedStacked ==
    ASSUME worklist \in Seq(Metadata \X Nat), worklist # <<>>, unit \in Units,
           NEW ix, NEW late, Stacked(unit, ix, worklist, late),
           NEW next \in Seq(Metadata \X Nat), Len(next) \in Nat, Len(next) >= Len(worklist),
           \A n \in 1 .. Len(worklist) : next[n] = Advanced[n],
           Operand # Null /\ unit.kind[Operand] = "uniqued" =>
             \/ Operand \in DOMAIN ix /\ ix[Operand].id # 0
             \/ Leads(unit, Operand, Top[1])
             \/ Len(next) > Len(worklist) /\ next[Len(worklist) + 1][1] = Operand
    PROVE  /\ \A n \in 1 .. Len(worklist) :
                /\ next[n][1] = worklist[n][1]
                /\ unit.kind[next[n][1]] = "uniqued" => Passed(unit, ix, next, n)
           /\ \A m, n \in 1 .. Len(worklist) : m < n /\ unit.kind[next[m][1]] = "uniqued" =>
                unit.kind[next[n][1]] = "uniqued" /\ Leads(unit, next[m][1], next[n][1])
<1> DEFINE N == Len(worklist)
<1>1. /\ N \in Nat /\ N > 0 /\ Top = worklist[N] /\ N \in 1 .. N /\ Top[2] \in Nat
    BY TopOfWorklist
<1>2. /\ Len(Advanced) = N
      /\ \A n \in 1 .. N - 1 : Advanced[n] = worklist[n]
      /\ Advanced[N] = <<Top[1], Top[2] + 1>>
    BY AdvancedEntries
<1>3. /\ \A n \in 1 .. N - 1 : next[n] = worklist[n]
      /\ next[N][1] = Top[1] /\ next[N][2] = Top[2] + 1
  <2>1. \A n \in 1 .. N - 1 : n \in 1 .. N
      BY <1>1
  <2> QED  BY <1>1, <1>2, <2>1
<1>4. Len(next) \in Nat /\ Len(next) >= N
    OBVIOUS
<1>5. /\ \A n \in 1 .. N : unit.kind[worklist[n][1]] = "uniqued" => Passed(unit, ix, worklist, n)
      /\ \A m, n \in 1 .. N : m < n /\ unit.kind[worklist[m][1]] = "uniqued" =>
           unit.kind[worklist[n][1]] = "uniqued" /\ Leads(unit, worklist[m][1], worklist[n][1])
    BY DEF Stacked
<1>6. Operand # Null /\ unit.kind[Operand] = "uniqued" =>
        \/ Operand \in DOMAIN ix /\ ix[Operand].id # 0
        \/ Leads(unit, Operand, Top[1])
        \/ N < Len(next) /\ next[N + 1][1] = Operand
  <2>1. Len(next) > Len(worklist) => N < Len(next)
      BY <1>1, <1>4
  <2> QED  BY <2>1
<1> HIDE DEF N
<1>7. \A n \in 1 .. N : next[n][1] = worklist[n][1]
  <2>1. \A n \in 1 .. N : n \in 1 .. N - 1 \/ n = N
      BY <1>1
  <2> QED  BY <1>1, <1>3, <2>1
<1>8. ASSUME NEW n \in 1 .. N, unit.kind[next[n][1]] = "uniqued"
      PROVE  Passed(unit, ix, next, n)
  <2>1. Passed(unit, ix, worklist, n)
      BY <1>5, <1>7, <1>8
  <2>2. CASE n # N
    <3>1. n \in 1 .. N - 1 /\ n + 1 \in 1 .. N /\ n < N /\ n < Len(next)
      <4>1. n \in Nat /\ n < N
          BY <1>1, <2>2
      <4>2. n \in 1 .. N - 1 /\ n + 1 \in 1 .. N
          BY <1>1, <4>1
      <4>3. n < Len(next)
          BY <1>1, <1>4, <4>1
      <4> QED  BY <4>1, <4>2, <4>3
    <3>2. next[n] = worklist[n] /\ next[n + 1][1] = worklist[n + 1][1]
        BY <1>3, <1>7, <3>1
    <3> QED  BY <2>1, <3>1, <3>2 DEF Passed
  <2>3. CASE n = N
    <3> SUFFICES ASSUME NEW m \in 1 .. next[n][2],
                        unit.ops[next[n][1]][m] # Null,
                        unit.kind[unit.ops[next[n][1]][m]] = "uniqued"
                 PROVE  LET y == unit.ops[next[n][1]][m]
                        IN \/ y \in DOMAIN ix /\ ix[y].id # 0
                           \/ Leads(unit, y, next[n][1])
                           \/ n < Len(next) /\ next[n + 1][1] = y
        BY DEF Passed
    <3>1. m \in 1 .. Top[2] \/ m = Top[2] + 1
      <4>1. next[n][2] = Top[2] + 1
          BY <1>3, <2>3
      <4>2. m \in 1 .. Top[2] + 1
          BY <4>1
      <4>3. Top[2] \in Nat
          BY <1>1
      <4> QED  BY <4>2, <4>3
    <3>2. CASE m \in 1 .. Top[2]
      <4>1. worklist[n][2] = Top[2] /\ worklist[n][1] = next[n][1]
          BY <1>1, <1>7, <2>3
      <4>2. ~ n < Len(worklist)
          BY <1>1, <2>3 DEF N
      <4> QED  BY <2>1, <3>2, <4>1, <4>2 DEF Passed
    <3>3. CASE m = Top[2] + 1
      <4>1. unit.ops[next[n][1]][m] = Operand
          BY <1>3, <2>3, <3>3 DEF Operand
      <4> QED  BY <1>3, <1>6, <2>3, <4>1
    <3> QED  BY <3>1, <3>2, <3>3
  <2> QED  BY <2>2, <2>3
<1> QED  BY <1>5, <1>7, <1>8 DEF N

\* The next root.
LEMMA EnumerateMetadataOrder ==
    ASSUME TypeInv, WalkInv, OrderInv, EnumerateMetadata
    PROVE  OrderInv'
<1> DEFINE root == unit.roots[done + 1]
<1>1. /\ phase = "walking" /\ worklist = <<>> /\ done < Len(unit.roots)
      /\ done' = done + 1 /\ unit' = unit /\ phase' = phase /\ delayed' = delayed
    BY DEF EnumerateMetadata
<1>2. done + 1 \in 1 .. Len(unit.roots)
  <2>1. done \in Nat /\ Len(unit.roots) \in Nat
      BY UnitFields DEF TypeInv
  <2> QED  BY <1>1, <2>1
<1>3. root.f \in Nat /\ root.md \in Metadata
    BY <1>2, FunctionTyped
<1>4. /\ delayed = <<>> /\ Len(<<>>) = 0 /\ Left(unit, index) /\ Len(mds) \in Nat
      /\ Stacked(unit, index, worklist, delayed)
    BY <1>1 DEF WalkInv, OrderInv, TypeInv
<1>5. \/ (Meet(root.f, root.md) \/ Number(root.f, root.md)) /\ worklist' = worklist
      \/ Discover(root.f, root.md) /\ worklist' = <<<<root.md, 0>>>>
    BY DEF EnumerateMetadata
<1> HIDE DEF root
<1>6. ASSUME DOMAIN index \subseteq DOMAIN index',
             \A x \in DOMAIN index : index'[x].id = index[x].id,
             \A x \in DOMAIN index' \ DOMAIN index :
                unit.kind[x] # "uniqued" \/ index'[x].id = 0
      PROVE  Left(unit, index') /\ Stacked(unit, index', <<>>, delayed)
    BY <1>1, <1>4, <1>6, OrderKept
<1>7. CASE Meet(root.f, root.md) /\ worklist' = worklist
  <2>1. DOMAIN index' = DOMAIN index /\ \A x \in DOMAIN index : index'[x].id = index[x].id
      BY <1>3, <1>7, MeetRetags
  <2> QED  BY <1>1, <1>6, <1>7, <2>1 DEF OrderInv
<1>8. CASE Number(root.f, root.md) /\ worklist' = worklist
  <2>1. \A x \in DOMAIN index' \ DOMAIN index : unit.kind[x] # "uniqued"
      BY <1>8 DEF Number, With, IsNode, Kind
  <2>2. DOMAIN index \subseteq DOMAIN index' /\ \A x \in DOMAIN index : index'[x].id = index[x].id
      BY <1>8 DEF Number, With
  <2> QED  BY <1>1, <1>6, <1>8, <2>1, <2>2 DEF OrderInv
<1>9. CASE Discover(root.f, root.md) /\ worklist' = <<<<root.md, 0>>>>
  <2>1. DOMAIN index \subseteq DOMAIN index' /\ \A x \in DOMAIN index : index'[x].id = index[x].id
      BY <1>9 DEF Discover, With
  <2>2. \A x \in DOMAIN index' \ DOMAIN index : index'[x].id = 0
      BY <1>9 DEF Discover, With
  <2>3. Left(unit, index')
      BY <1>6, <2>1, <2>2
  <2>4. Stacked(unit, index', worklist', delayed')
    <3>1. Len(worklist') = 1 /\ worklist'[1][2] = 0
        BY <1>9
    <3>2. Passed(unit, index', worklist', 1)
        BY <3>1 DEF Passed
    <3>3. \A n \in 1 .. Len(worklist') : n = 1
        BY <3>1
    <3>4. \A m, n \in 1 .. Len(worklist') : ~ m < n
        BY <3>1
    <3>5. Len(delayed') = 0
        BY <1>1, <1>4
    <3> QED  BY <3>2, <3>3, <3>4, <3>5 DEF Stacked
  <2> QED  BY <1>1, <2>3, <2>4 DEF OrderInv
<1> QED  BY <1>5, <1>7, <1>8, <1>9

\* A uniqued operand that is met again has a number, or is below on the
\* worklist: on a cycle.
LEMMA SkipOrder ==
    ASSUME TypeInv, WalkInv, TagsInv, OrderInv, Skip
    PROVE  OrderInv'
<1>1. /\ HasOperand /\ worklist' = Advanced /\ delayed' = delayed
      /\ unit' = unit /\ phase' = phase /\ done' = done
      /\ \/ Operand = Null /\ index' = index
         \/ Operand # Null /\ (Meet(F, Operand) \/ Number(F, Operand))
    BY DEF Skip, program
<1>2. /\ phase = "walking" /\ unit \in Units /\ worklist # <<>>
      /\ worklist \in Seq(Metadata \X Nat) /\ Waiting(index, worklist, delayed)
      /\ F \in Nat /\ Top[1] \in Metadata
      /\ Operand # Null => Operand \in Metadata
    BY <1>1, OperandReached
<1>3. Left(unit, index) /\ Stacked(unit, index, worklist, delayed)
    BY <1>2 DEF OrderInv
<1>4. /\ DOMAIN index \subseteq DOMAIN index'
      /\ \A x \in DOMAIN index : index'[x].id = index[x].id
      /\ \A x \in DOMAIN index' \ DOMAIN index : unit.kind[x] # "uniqued"
      /\ Operand # Null /\ unit.kind[Operand] = "uniqued" => Operand \in DOMAIN index
  <2>1. CASE Operand = Null /\ index' = index
      BY <2>1
  <2>2. CASE Operand # Null /\ Meet(F, Operand)
    <3>1. DOMAIN index' = DOMAIN index /\ \A x \in DOMAIN index : index'[x].id = index[x].id
        BY <1>2, <2>2, MeetRetags
    <3> QED  BY <2>2, <3>1 DEF Meet
  <2>3. CASE Operand # Null /\ Number(F, Operand)
    <3>1. unit.kind[Operand] # "uniqued"
        BY <2>3 DEF Number, IsNode, Kind
    <3>2. /\ DOMAIN index \subseteq DOMAIN index'
          /\ \A x \in DOMAIN index : index'[x].id = index[x].id
          /\ \A x \in DOMAIN index' \ DOMAIN index : x = Operand
        BY <2>3 DEF Number, With
    <3> QED  BY <3>1, <3>2
  <2> QED  BY <1>1, <2>1, <2>2, <2>3
<1>5. Left(unit, index') /\ Stacked(unit, index', worklist, delayed)
    BY <1>3, <1>4, OrderKept
<1>6. ASSUME Operand # Null, unit.kind[Operand] = "uniqued"
      PROVE  index'[Operand].id # 0 \/ Leads(unit, Operand, Top[1])
  <2>1. Operand \in DOMAIN index
      BY <1>4, <1>6
  <2>2. CASE index[Operand].id # 0
      BY <1>4, <2>1, <2>2
  <2>3. CASE index[Operand].id = 0
    <3>1. \A n \in 1 .. Len(delayed) : delayed[n] # Operand
        BY <1>3, <1>6 DEF Stacked
    <3>2. PICK m \in 1 .. Len(worklist) : worklist[m][1] = Operand
        BY <1>2, <2>1, <2>3, <3>1 DEF Waiting
    <3>3. /\ Len(worklist) \in 1 .. Len(worklist) /\ Len(worklist) \in Nat
          /\ Top = worklist[Len(worklist)]
        BY <1>2, TopOfWorklist
    <3>4. CASE m < Len(worklist)
        BY <1>3, <1>6, <3>2, <3>3, <3>4 DEF Stacked
    <3>5. CASE m = Len(worklist)
        BY <1>2, <3>2, <3>3, <3>5, UniquedGraph
    <3> QED  BY <3>3, <3>4, <3>5
  <2> QED  BY <2>2, <2>3
<1>7. Operand # Null /\ unit.kind[Operand] = "uniqued" =>
        \/ Operand \in DOMAIN index' /\ index'[Operand].id # 0
        \/ Leads(unit, Operand, Top[1])
    BY <1>4, <1>6
<1>8. /\ Advanced \in Seq(Metadata \X Nat) /\ Len(Advanced) = Len(worklist)
      /\ Len(Advanced) \in Nat /\ Len(Advanced) >= Len(worklist)
  <2>1. Len(worklist) \in Nat
      BY <1>2
  <2> QED  BY <1>2, <2>1, AdvancedTyped
<1> DEFINE iy == index'
<1>9. /\ Stacked(unit, iy, worklist, delayed)
      /\ Operand # Null /\ unit.kind[Operand] = "uniqued" =>
            \/ Operand \in DOMAIN iy /\ iy[Operand].id # 0
            \/ Leads(unit, Operand, Top[1])
    BY <1>5, <1>7
<1> HIDE DEF iy
<1>10. /\ \A n \in 1 .. Len(worklist) :
            unit.kind[Advanced[n][1]] = "uniqued" => Passed(unit, iy, Advanced, n)
       /\ \A m, n \in 1 .. Len(worklist) : m < n /\ unit.kind[Advanced[m][1]] = "uniqued" =>
            unit.kind[Advanced[n][1]] = "uniqued" /\ Leads(unit, Advanced[m][1], Advanced[n][1])
    BY <1>2, <1>8, <1>9, AdvancedStacked
<1>11. Stacked(unit, index', worklist', delayed')
  <2>1. \A n \in 1 .. Len(delayed) : unit.kind[delayed[n]] = "distinct"
      BY <1>3 DEF Stacked
  <2> QED  BY <1>1, <1>8, <1>10, <2>1 DEF Stacked, iy
<1> QED  BY <1>1, <1>2, <1>5, <1>11 DEF OrderInv

\* Only a uniqued node goes above a uniqued one.
LEMMA DescendOrder ==
    ASSUME TypeInv, WalkInv, TagsInv, OrderInv, Descend
    PROVE  OrderInv'
<1>1. /\ HasOperand /\ Operand # Null /\ Discover(F, Operand)
      /\ unit' = unit /\ phase' = phase
      /\ IF IsDistinct(Operand) /\ ~IsDistinct(Top[1])
         THEN delayed' = Append(delayed, Operand) /\ worklist' = Advanced
         ELSE worklist' = Append(Advanced, <<Operand, 0>>) /\ delayed' = delayed
    BY DEF Descend, program
<1>2. /\ phase = "walking" /\ unit \in Units /\ worklist # <<>>
      /\ worklist \in Seq(Metadata \X Nat) /\ delayed \in Seq(Metadata)
      /\ Waiting(index, worklist, delayed) /\ Top[1] \in Metadata
      /\ Operand \in Metadata /\ Operand \in Arcs(unit)[Top[1]]
      /\ Len(worklist) \in Nat /\ Len(delayed) \in Nat
    BY <1>1, OperandReached
<1>3. Left(unit, index) /\ Stacked(unit, index, worklist, delayed)
    BY <1>2 DEF OrderInv
<1>4. /\ DOMAIN index \subseteq DOMAIN index'
      /\ \A x \in DOMAIN index : index'[x].id = index[x].id
      /\ \A x \in DOMAIN index' \ DOMAIN index : index'[x].id = 0
      /\ unit.kind[Operand] \in {"uniqued", "distinct"}
    BY <1>1 DEF Discover, With, IsNode, Kind
<1>5. Left(unit, index') /\ Stacked(unit, index', worklist, delayed)
    BY <1>3, <1>4, OrderKept
<1> DEFINE iy == index'
           N == Len(worklist)
<1>6. Stacked(unit, iy, worklist, delayed)
    BY <1>5
<1> HIDE DEF iy
<1>7. Advanced \in Seq(Metadata \X Nat) /\ Len(Advanced) = N
    BY <1>2, AdvancedTyped
<1>8. CASE IsDistinct(Operand) /\ ~IsDistinct(Top[1])
  <2>1. worklist' = Advanced /\ delayed' = Append(delayed, Operand)
      BY <1>1, <1>8
  <2>2. unit.kind[Operand] # "uniqued" /\ unit.kind[Operand] = "distinct"
      BY <1>8 DEF IsDistinct, Kind
  <2>3. Len(Advanced) >= Len(worklist) /\ Len(Advanced) \in Nat
      BY <1>2, <1>7
  <2>4. /\ \A n \in 1 .. N :
             unit.kind[Advanced[n][1]] = "uniqued" => Passed(unit, iy, Advanced, n)
        /\ \A m, n \in 1 .. N : m < n /\ unit.kind[Advanced[m][1]] = "uniqued" =>
             unit.kind[Advanced[n][1]] = "uniqued" /\ Leads(unit, Advanced[m][1], Advanced[n][1])
      BY <1>2, <1>6, <1>7, <2>2, <2>3, AdvancedStacked
  <2>5. \A n \in 1 .. Len(delayed') : unit.kind[delayed'[n]] = "distinct"
    <3>1. /\ Len(delayed') = Len(delayed) + 1 /\ delayed'[Len(delayed) + 1] = Operand
          /\ \A n \in 1 .. Len(delayed) : delayed'[n] = delayed[n]
        BY <1>2, <2>1, AppendProperties
    <3>2. \A n \in 1 .. Len(delayed) : unit.kind[delayed[n]] = "distinct"
        BY <1>3 DEF Stacked
    <3>3. \A n \in 1 .. Len(delayed') : n \in 1 .. Len(delayed) \/ n = Len(delayed) + 1
        BY <1>2, <3>1
    <3> QED  BY <2>2, <3>1, <3>2, <3>3
  <2>6. Stacked(unit, index', worklist', delayed')
      BY <1>7, <2>1, <2>4, <2>5 DEF Stacked, iy
  <2> QED  BY <1>1, <1>2, <1>5, <2>6 DEF OrderInv
<1>9. CASE ~ (IsDistinct(Operand) /\ ~IsDistinct(Top[1]))
  <2> DEFINE x == <<Operand, 0>>
             next == Append(Advanced, x)
  <2>1. worklist' = next /\ delayed' = delayed
      BY <1>1, <1>9
  <2>2. x \in Metadata \X Nat /\ x[1] = Operand /\ x[2] = 0
      BY <1>2
  <2> HIDE DEF x
  <2>3. /\ next \in Seq(Metadata \X Nat) /\ Len(next) = N + 1 /\ next[N + 1] = x
        /\ \A n \in 1 .. N : next[n] = Advanced[n]
      BY <1>7, <2>2, AppendProperties
  <2> HIDE DEF next
  <2>4. /\ Len(next) \in Nat /\ Len(next) >= Len(worklist) /\ Len(next) > Len(worklist)
        /\ next[Len(worklist) + 1][1] = Operand
      BY <1>2, <2>2, <2>3
  <2>5. /\ \A n \in 1 .. N :
             /\ next[n][1] = worklist[n][1]
             /\ unit.kind[next[n][1]] = "uniqued" => Passed(unit, iy, next, n)
        /\ \A m, n \in 1 .. N : m < n /\ unit.kind[next[m][1]] = "uniqued" =>
             unit.kind[next[n][1]] = "uniqued" /\ Leads(unit, next[m][1], next[n][1])
      BY <1>2, <1>6, <2>3, <2>4, AdvancedStacked
  <2>6. Passed(unit, iy, next, N + 1)
      BY <2>2, <2>3 DEF Passed
  <2>7. N \in 1 .. N /\ next[N][1] = Top[1] /\ next[N + 1][1] = Operand
    <3>1. N \in 1 .. N /\ Top = worklist[N]
        BY <1>2, TopOfWorklist
    <3> QED  BY <2>4, <2>5, <3>1
  <2>8. ASSUME NEW m \in 1 .. N, unit.kind[next[m][1]] = "uniqued"
        PROVE  unit.kind[Operand] = "uniqued" /\ Leads(unit, next[m][1], Operand)
    <3>1. unit.kind[Top[1]] = "uniqued" /\ Leads(unit, next[m][1], Top[1])
      <4>1. CASE m < N
          BY <2>5, <2>7, <2>8, <4>1
      <4>2. CASE m = N
          BY <1>2, <2>7, <2>8, <4>2, UniquedGraph
      <4>3. m < N \/ m = N
          BY <1>2
      <4> QED  BY <4>1, <4>2, <4>3
    <3>2. unit.kind[Operand] = "uniqued"
        BY <1>4, <1>9, <3>1 DEF IsDistinct, Kind
    <3>3. Operand \in UniquedArcs(unit)[Top[1]]
        BY <1>2, <3>2 DEF UniquedArcs
    <3>4. next[m][1] \in Metadata
      <4>1. next[m] \in Metadata \X Nat
        <5>1. m \in 1 .. Len(next)
            BY <1>2, <2>3
        <5> QED  BY <2>3, <5>1, ElementOfSeq
      <4> QED  BY <4>1
    <3> QED  BY <1>2, <3>1, <3>2, <3>3, <3>4, UniquedGraph
  <2>9. \A n \in 1 .. Len(next) : n \in 1 .. N \/ n = N + 1
      BY <1>2, <2>3
  <2>10. \A n \in 1 .. Len(next) :
            unit.kind[next[n][1]] = "uniqued" => Passed(unit, iy, next, n)
      BY <2>5, <2>6, <2>9
  <2>11. ASSUME NEW m \in 1 .. Len(next), NEW n \in 1 .. Len(next), m < n,
                unit.kind[next[m][1]] = "uniqued"
         PROVE  unit.kind[next[n][1]] = "uniqued" /\ Leads(unit, next[m][1], next[n][1])
    <3>1. m \in 1 .. N
        BY <1>2, <2>3, <2>11
    <3>2. CASE n \in 1 .. N
        BY <2>5, <2>11, <3>1, <3>2
    <3>3. CASE n = N + 1
        BY <2>7, <2>8, <2>11, <3>1, <3>3
    <3> QED  BY <2>9, <3>2, <3>3
  <2>12. \A n \in 1 .. Len(delayed) : unit.kind[delayed[n]] = "distinct"
      BY <1>3 DEF Stacked
  <2>13. Stacked(unit, index', worklist', delayed')
      BY <2>1, <2>10, <2>11, <2>12 DEF Stacked, iy
  <2> QED  BY <1>1, <1>2, <1>5, <2>13 DEF OrderInv
<1> QED  BY <1>8, <1>9

\* The node that is left has all its uniqued operands before it, or is on a
\* cycle with them; what was delayed comes only after a whole uniqued subgraph.
LEMMA LeaveOrder ==
    ASSUME TypeInv, WalkInv, OrderInv, Leave
    PROVE  OrderInv'
<1> DEFINE md == Top[1]
           rest == Front(worklist)
           flushed == [n \in DOMAIN delayed |-> <<delayed[n], 0>>]
           N == Len(worklist)
           iy == index'
<1>1. /\ Walking /\ phase = "walking" /\ worklist # <<>>
      /\ iy = [index EXCEPT ![md].id = Len(mds) + 1]
      /\ Top[2] = Len(unit.ops[md])
      /\ unit' = unit /\ phase' = phase /\ done' = done
    BY DEF Leave, Walking, program
<1>2. \/ /\ rest = <<>> \/ unit.kind[Last(rest)[1]] = "distinct"
         /\ worklist' = rest \o flushed /\ delayed' = <<>>
      \/ worklist' = rest /\ delayed' = delayed
    BY DEF Leave, IsDistinct, Kind
<1>3. /\ worklist \in Seq(Metadata \X Nat) /\ delayed \in Seq(Metadata)
      /\ index \in [DOMAIN index -> Entries] /\ unit \in Units
      /\ Len(delayed) \in Nat /\ DOMAIN delayed = 1 .. Len(delayed)
      /\ Len(mds) \in Nat
    BY DEF TypeInv
<1>4. /\ N \in Nat /\ N > 0 /\ N \in 1 .. N /\ md = worklist[N][1]
      /\ Top[2] = worklist[N][2]
      /\ md \in Metadata /\ rest \in Seq(Metadata \X Nat)
      /\ Len(rest) = N - 1 /\ Len(rest) \in Nat
      /\ \A n \in 1 .. Len(rest) : rest[n] = worklist[n]
    BY <1>1, <1>3, TopOfWorklist
<1>5. /\ Waiting(index, worklist, delayed) /\ Matching(index, mds)
      /\ Left(unit, index) /\ Stacked(unit, index, worklist, delayed)
    BY <1>1 DEF WalkInv, OrderInv
<1>6. N = Len(worklist)
    OBVIOUS
<1> HIDE DEF md, rest, N, iy
<1>7. md \in DOMAIN index /\ index[md].id = 0
    BY <1>4, <1>5, <1>6 DEF Waiting
<1>8. /\ DOMAIN iy = DOMAIN index
      /\ iy[md].id = Len(mds) + 1 /\ iy[md].id # 0
      /\ \A x \in DOMAIN index : x # md => iy[x] = index[x]
  <2>1. /\ DOMAIN iy = DOMAIN index
        /\ iy[md] = [index[md] EXCEPT !.id = Len(mds) + 1]
        /\ \A x \in DOMAIN index : x # md => iy[x] = index[x]
      BY <1>1, <1>3, <1>7
  <2>2. index[md] \in Entries
      BY <1>3, <1>7
  <2>3. [index[md] EXCEPT !.id = Len(mds) + 1].id = Len(mds) + 1
      BY <2>2 DEF Entries
  <2>4. Len(mds) + 1 # 0
      BY <1>3
  <2> QED  BY <2>1, <2>3, <2>4
<1>9. \A x \in DOMAIN index : index[x].id # 0 => iy[x].id # 0
    BY <1>8
<1>10. Left(unit, iy)
  <2>1. ASSUME NEW x \in DOMAIN iy, unit.kind[x] = "uniqued", iy[x].id # 0,
               NEW y \in UniquedArcs(unit)[x]
        PROVE  Leads(unit, y, x) \/ (y \in DOMAIN iy /\ iy[y].id \in 1 .. iy[x].id - 1)
    <3>1. CASE x # md
      <4>1. x \in DOMAIN index /\ iy[x] = index[x] /\ index[x].id # 0
          BY <1>8, <2>1, <3>1
      <4>2. Leads(unit, y, x) \/ (y \in DOMAIN index /\ index[y].id \in 1 .. index[x].id - 1)
          BY <1>5, <2>1, <4>1 DEF Left
      <4>3. y \in DOMAIN index /\ index[y].id \in 1 .. index[x].id - 1 => iy[y] = index[y]
        <5>1. 0 \notin 1 .. index[x].id - 1
            OBVIOUS
        <5> QED  BY <1>7, <1>8, <5>1
      <4> QED  BY <1>8, <4>1, <4>2, <4>3
    <3>2. CASE x = md
      <4>1. PICK m \in DOMAIN unit.ops[md] : unit.ops[md][m] = y /\ y # Null
          BY <1>4, <2>1, <3>2 DEF UniquedArcs, Arcs
      <4>2. unit.kind[y] = "uniqued"
          BY <1>4, <2>1, <3>2 DEF UniquedArcs
      <4>3. m \in 1 .. worklist[N][2]
        <5>1. unit.ops[md] \in Seq(Metadata \cup {Null})
          <6>1. unit.ops \in [Metadata -> Seq(Metadata \cup {Null})]
              BY <1>3, UnitFields
          <6> QED  BY <1>4, <6>1
        <5>2. DOMAIN unit.ops[md] = 1 .. Len(unit.ops[md])
            BY <5>1
        <5> QED  BY <1>1, <1>4, <5>2
      <4>4. Passed(unit, index, worklist, N)
          BY <1>4, <1>5, <1>6, <2>1, <3>2 DEF Stacked
      <4>5. ~ N < Len(worklist)
          BY <1>4, <1>6
      <4>6. \/ y \in DOMAIN index /\ index[y].id # 0
            \/ Leads(unit, y, md)
          BY <1>4, <4>1, <4>2, <4>3, <4>4, <4>5 DEF Passed
      <4>7. ASSUME y \in DOMAIN index, index[y].id # 0
            PROVE  y \in DOMAIN iy /\ iy[y].id \in 1 .. iy[md].id - 1
        <5>1. index[y].id \in 1 .. Len(mds) /\ iy[y] = index[y]
            BY <1>5, <1>7, <1>8, <4>7 DEF Matching
        <5>2. iy[md].id - 1 = Len(mds)
            BY <1>3, <1>8
        <5> QED  BY <1>8, <4>7, <5>1, <5>2
      <4> QED  BY <3>2, <4>6, <4>7
    <3> QED  BY <3>1, <3>2
  <2> QED  BY <2>1 DEF Left
<1>11. \A n \in 1 .. Len(rest) : n \in 1 .. N /\ rest[n] = worklist[n]
                                /\ n < N /\ n + 1 \in 1 .. N
    BY <1>4
<1>12. \A m, n \in 1 .. Len(rest) : m < n /\ unit.kind[rest[m][1]] = "uniqued" =>
          unit.kind[rest[n][1]] = "uniqued" /\ Leads(unit, rest[m][1], rest[n][1])
    BY <1>5, <1>6, <1>11 DEF Stacked
<1>13. CASE worklist' = rest /\ delayed' = delayed
  <2>1. ASSUME NEW n \in 1 .. Len(rest), unit.kind[rest[n][1]] = "uniqued"
        PROVE  Passed(unit, iy, rest, n)
    <3>1. Passed(unit, index, worklist, n)
        BY <1>5, <1>6, <1>11, <2>1 DEF Stacked
    <3>2. ASSUME n < Len(worklist)
          PROVE  \/ n < Len(rest) /\ rest[n + 1][1] = worklist[n + 1][1]
                 \/ worklist[n + 1][1] = md
      <4>1. CASE n < Len(rest)
        <5>1. n + 1 \in 1 .. Len(rest)
            BY <1>4, <4>1
        <5> QED  BY <1>11, <4>1, <5>1
      <4>2. CASE n = Len(rest)
        <5>1. n + 1 = N
            BY <1>4, <4>2
        <5> QED  BY <1>4, <5>1
      <4> QED  BY <1>4, <4>1, <4>2
    <3>3. ASSUME NEW m \in 1 .. rest[n][2], NEW y, y = unit.ops[rest[n][1]][m],
                 y # Null, unit.kind[y] = "uniqued"
          PROVE  \/ y \in DOMAIN iy /\ iy[y].id # 0
                 \/ Leads(unit, y, rest[n][1])
                 \/ n < Len(rest) /\ rest[n + 1][1] = y
      <4>1. \/ y \in DOMAIN index /\ index[y].id # 0
            \/ Leads(unit, y, rest[n][1])
            \/ n < Len(worklist) /\ worklist[n + 1][1] = y
          BY <1>11, <3>1, <3>3 DEF Passed
      <4>2. y = md => y \in DOMAIN iy /\ iy[y].id # 0
          BY <1>7, <1>8
      <4> QED  BY <1>8, <1>9, <3>2, <4>1, <4>2
    <3> QED  BY <3>3 DEF Passed
  <2>2. \A n \in 1 .. Len(delayed) : unit.kind[delayed[n]] = "distinct"
      BY <1>5 DEF Stacked
  <2>3. Stacked(unit, iy, rest, delayed)
      BY <1>12, <2>1, <2>2 DEF Stacked
  <2>4. Stacked(unit, iy, worklist', delayed')
      BY <1>13, <2>3
  <2> QED  BY <1>1, <1>10, <2>4 DEF OrderInv, iy
<1>14. CASE /\ rest = <<>> \/ unit.kind[Last(rest)[1]] = "distinct"
            /\ worklist' = rest \o flushed /\ delayed' = <<>>
  <2>1. ASSUME NEW n \in 1 .. Len(rest)
        PROVE  unit.kind[rest[n][1]] # "uniqued"
    <3>1. Len(rest) \in 1 .. Len(rest) /\ n <= Len(rest) /\ rest # <<>>
        BY <1>4
    <3>2. unit.kind[rest[Len(rest)][1]] = "distinct"
        BY <1>14, <3>1 DEF Last
    <3>3. n < Len(rest) \/ n = Len(rest)
        BY <1>4
    <3> QED  BY <1>12, <3>1, <3>2, <3>3
  <2>2. /\ flushed \in Seq(Metadata \X Nat) /\ Len(flushed) = Len(delayed)
        /\ \A n \in 1 .. Len(delayed) : flushed[n][1] = delayed[n]
    <3>1. /\ \A n \in 1 .. Len(delayed) : flushed[n] = <<delayed[n], 0>>
          /\ \A n \in 1 .. Len(delayed) : delayed[n] \in Metadata
        BY <1>3
    <3>2. flushed \in [1 .. Len(delayed) -> Metadata \X Nat]
        BY <1>3, <3>1
    <3>3. flushed \in Seq(Metadata \X Nat) /\ Len(flushed) = Len(delayed)
        BY <1>3, <3>2
    <3> QED  BY <3>1, <3>3
  <2> HIDE DEF flushed
  <2> DEFINE next == rest \o flushed
  <2>3. /\ Len(next) = Len(rest) + Len(delayed)
        /\ \A n \in 1 .. Len(rest) : next[n] = rest[n]
        /\ \A n \in 1 .. Len(delayed) : next[Len(rest) + n] = flushed[n]
    <3>1. rest \in Seq(Metadata \X Nat) /\ flushed \in Seq(Metadata \X Nat)
        BY <1>4, <2>2
    <3>2. /\ Len(rest \o flushed) = Len(rest) + Len(flushed)
          /\ \A n \in 1 .. Len(rest) : (rest \o flushed)[n] = rest[n]
          /\ \A n \in 1 .. Len(flushed) : (rest \o flushed)[Len(rest) + n] = flushed[n]
        BY <3>1, Concatenated
    <3> QED  BY <2>2, <3>2
  <2>4. worklist' = next /\ delayed' = <<>>
      BY <1>14
  <2> HIDE DEF next
  <2>5. ASSUME NEW n \in 1 .. Len(next)
        PROVE  unit.kind[next[n][1]] # "uniqued"
    <3>1. CASE n \in 1 .. Len(rest)
        BY <2>1, <2>3, <3>1
    <3>2. CASE n \notin 1 .. Len(rest)
      <4> DEFINE k == n - Len(rest)
      <4>1. k \in 1 .. Len(delayed) /\ n = Len(rest) + k
        <5>1. Len(rest) \in Nat /\ Len(next) = Len(rest) + Len(delayed)
            BY <1>4, <2>3
        <5> QED  BY <1>3, <3>2, <5>1
      <4> HIDE DEF k
      <4>2. next[n][1] = delayed[k]
          BY <2>2, <2>3, <4>1
      <4>3. unit.kind[delayed[k]] = "distinct"
          BY <1>5, <4>1 DEF Stacked
      <4> QED  BY <4>2, <4>3
    <3> QED  BY <3>1, <3>2
  <2>6. Stacked(unit, iy, next, <<>>)
    <3>1. \A n \in 1 .. Len(<<>>) : FALSE
        OBVIOUS
    <3> QED  BY <2>5, <3>1 DEF Stacked
  <2>7. Stacked(unit, iy, worklist', delayed')
      BY <2>4, <2>6
  <2> QED  BY <1>1, <1>10, <2>7 DEF OrderInv, iy
<1> QED  BY <1>2, <1>13, <1>14

\* The sort keeps the order within the module and within a function.
LEMMA organizeMetadataOrder ==
    ASSUME NumberingInv, OrderInv, organizeMetadata
    PROVE  OrderInv'
<1> DEFINE Shift(f) == IF f = 0 THEN 0 ELSE Before(1)
           Slot(x) == Place(x) - Before(index[x].f) + Shift(index[x].f)
<1>1. /\ phase = "walking" /\ worklist = <<>> /\ phase' = "ready" /\ unit' = unit
      /\ index' = [md \in DOMAIN index |-> [f |-> index[md].f, id |-> Slot(md)]]
    BY DEF organizeMetadata
<1>2. TypeInv /\ WalkInv /\ Settled /\ ToSet(mds) = DOMAIN index
    BY <1>1, NothingWaits DEF NumberingInv, Settled
<1>3. /\ Waiting(index, worklist, delayed) /\ delayed = <<>> /\ Left(unit, index)
      /\ unit \in Units /\ DOMAIN index \subseteq Metadata
    BY <1>1, <1>2 DEF WalkInv, OrderInv, TypeInv
<1>4. \A x \in DOMAIN index : index[x].id # 0 /\ index[x].id \in Nat /\ index[x].f \in Nat
  <2>1. Len(worklist) = 0 /\ Len(delayed) = 0
      BY <1>1, <1>3
  <2>2. \A x \in DOMAIN index : index[x].id # 0
      BY <1>3, <2>1 DEF Waiting
  <2> QED  BY <1>2, <2>2 DEF Settled
<1>5. /\ Before(1) \in Nat /\ \A f \in Nat : Before(f) \in Nat
      /\ \A x \in DOMAIN index : Before(index[x].f) < Place(x) /\ Place(x) \in Nat
      /\ \A x, y \in DOMAIN index : Precedes(y, x) => Place(y) < Place(x)
  <2>1. \A x \in DOMAIN index : Place(x) \in 1 .. Len(mds)
      BY <1>2, PlacesTaken
  <2>2. Len(mds) \in Nat
      BY <1>2 DEF Settled
  <2>3. \A x \in DOMAIN index : Place(x) \in Nat
      BY <2>1, <2>2
  <2>4. \A x, y \in DOMAIN index : Precedes(y, x) => Place(y) < Place(x)
      BY <1>2, PlacesTaken
  <2>5. /\ \A f \in Nat : Before(f) \in Nat
        /\ \A x \in DOMAIN index : Before(index[x].f) < Place(x)
      BY <1>2, PlacesOfFunctions
  <2> QED  BY <2>3, <2>4, <2>5
<1>6. \A x \in DOMAIN index :
        /\ x \in DOMAIN index' /\ index'[x].f = index[x].f /\ index'[x].id = Slot(x)
        /\ Shift(index[x].f) \in Nat
  <2> HIDE DEF Slot
  <2> QED  BY <1>1, <1>5
<1>7. DOMAIN index' = DOMAIN index
    BY <1>1
<1> HIDE DEF Shift
<1>8. ASSUME NEW x \in DOMAIN index, unit.kind[x] = "uniqued", NEW y \in UniquedArcs(unit)[x],
             ~ Leads(unit, y, x)
      PROVE  y \in DOMAIN index /\ (index[y].f = index[x].f => Slot(y) \in 1 .. Slot(x) - 1)
  <2>1. y \in DOMAIN index /\ index[y].id \in 1 .. index[x].id - 1
      BY <1>3, <1>4, <1>8 DEF Left
  <2>2. unit.kind[y] = "uniqued"
    <3>1. x \in Metadata
        BY <1>3
    <3> QED  BY <1>8, <3>1 DEF UniquedArcs
  <2>3. index[y].id < index[x].id
      BY <1>4, <2>1
  <2>4. ASSUME index[y].f = index[x].f
        PROVE  Slot(y) \in 1 .. Slot(x) - 1
    <3>1. getMetadataTypeOrder(x) = getMetadataTypeOrder(y)
        BY <1>8, <2>2 DEF getMetadataTypeOrder, Kind
    <3>2. Precedes(y, x)
        BY <2>3, <2>4, <3>1 DEF Precedes
    <3> DEFINE f == index[x].f
               p == Place(x)
               q == Place(y)
               b == Before(f)
               s == Shift(f)
    <3>3. /\ p \in Nat /\ q \in Nat /\ b \in Nat /\ s \in Nat /\ b < q /\ q < p
        BY <1>4, <1>5, <1>6, <2>1, <2>4, <3>2
    <3>4. Slot(x) = p - b + s /\ Slot(y) = q - b + s
        BY <2>4
    <3> HIDE DEF p, q, b, s, Slot
    <3>5. \A v, w : w = p - b + s /\ v = q - b + s => v \in 1 .. w - 1
        BY <3>3
    <3> QED  BY <3>4, <3>5
  <2> QED  BY <2>1, <2>4
<1> HIDE DEF Slot
<1>9. ASSUME NEW x \in DOMAIN index', unit.kind[x] = "uniqued", NEW y \in UniquedArcs(unit)[x]
      PROVE  \/ Leads(unit, y, x)
             \/ y \in DOMAIN index'
                  /\ (index'[y].f = index'[x].f => index'[y].id \in 1 .. index'[x].id - 1)
  <2>1. x \in DOMAIN index
      BY <1>7
  <2>2. CASE ~ Leads(unit, y, x)
    <3>1. y \in DOMAIN index /\ (index[y].f = index[x].f => Slot(y) \in 1 .. Slot(x) - 1)
        BY <1>8, <1>9, <2>1, <2>2
    <3> QED  BY <1>6, <2>1, <3>1
  <2> QED  BY <2>2
<1>10. Preceded(unit, index')
    BY <1>9 DEF Preceded
<1> QED  BY <1>1, <1>10 DEF OrderInv

\* A function's local metadata is added, and only that.
LEMMA LocalAdded ==
    ASSUME NumberingInv, SeesInv, EnumerateFunctionLocal
    PROVE  LET md == Head(todo)
           IN \/ index' = index /\ mds' = mds
              \/ /\ md \notin DOMAIN index /\ unit.kind[md] \in {"local", "list"}
                 /\ mds' = Append(mds, md) /\ md \in Metadata
                 /\ index' = With(md, [f |-> done, id |-> Len(mds) + 1])
<1> DEFINE md == Head(todo)
           list == LocalsFirst(unit, done)
           N == Len(list)
<1>1. /\ phase = "incorporated" /\ todo # <<>>
      /\ Local(md) \/ ListConstant(md)
    BY DEF EnumerateFunctionLocal
<1>2. /\ unit \in Units /\ done \in Nat /\ todo \in Seq(Metadata) /\ FunctionsInv
      /\ unit.locals \in Seq(Seq(Metadata))
    BY UnitFields DEF NumberingInv, TypeInv
<1>3. done \in 1 .. Len(unit.locals) /\ Through(index, done, list, todo)
    BY <1>1 DEF SeesInv
<1>4. done \in DOMAIN unit.locals
    BY <1>2, <1>3
<1>5. /\ list \in Seq(Metadata)
      /\ \A x \in ToSet(list) : unit.kind[x] \in {"constant", "local", "list"}
    BY <1>2, <1>4, LocalsOrdered
<1>6. md \in Metadata /\ md = todo[1] /\ 1 \in 1 .. Len(todo)
    BY <1>1, <1>2, EmptySeq, HeadTailProperties
<1> HIDE DEF list, md
<1>7. unit.kind[md] \in {"constant", "local", "list"}
  <2>1. N \in Nat /\ DOMAIN list = 1 .. N
      BY <1>5
  <2>2. PICK k \in 0 .. N : todo = SubSeq(list, k + 1, N)
      BY <1>3 DEF Through
  <2> HIDE DEF N
  <2>3. k < N
    <3>1. ASSUME k = N
          PROVE  FALSE
      <4>1. SubSeq(list, k + 1, N) = <<>>
          BY <2>1, <3>1, SubSeqEmpty
      <4> QED  BY <1>1, <2>2, <4>1
    <3> QED  BY <2>1, <3>1
  <2>4. k \in Nat /\ N <= N /\ k <= N /\ 1 \in 1 .. N - k /\ k + 1 \in 1 .. N
      BY <2>1, <2>3
  <2>5. \A n \in 1 .. N - k : SubSeq(list, k + 1, N)[n] = list[k + n]
      BY <1>5, <2>1, <2>4, PartOf DEF N
  <2>6. md = list[k + 1]
      BY <1>6, <2>2, <2>4, <2>5
  <2>7. md \in ToSet(list)
      BY <2>1, <2>4, <2>6 DEF ToSet
  <2> QED  BY <1>5, <2>7
<1>8. CASE Local(md)
    BY <1>6, <1>7, <1>8 DEF Local, Kind, md
<1>9. CASE ListConstant(md)
  <2>1. [f |-> done, md |-> md] \in ToSet(unit.roots)
    <3>1. \A n \in 1 .. Len(todo) : Kind(todo[n]) = "constant" =>
             [f |-> done, md |-> todo[n]] \in ToSet(unit.roots)
        BY <1>1, <1>2 DEF FunctionsInv
    <3> QED  BY <1>6, <1>9, <3>1 DEF ListConstant
  <2>2. Rooted(index, [f |-> done, md |-> md])
    <3>1. \A r \in ToSet(unit.roots) : r.f = done => Rooted(index, r)
        BY <1>1, <1>2 DEF FunctionsInv
    <3> QED  BY <2>1, <3>1
  <2>3. md \in DOMAIN index /\ index[md].f \in {0, done}
      BY <2>2 DEF Rooted
  <2>4. index' = index /\ mds' = mds
    <3>1. ~ Number(done, md)
        BY <2>3 DEF Number
    <3> QED  BY <1>9, <2>3, <3>1 DEF ListConstant, Meet
  <2> QED  BY <2>4
<1> QED  BY <1>1, <1>8, <1>9

\* Local metadata is not uniqued.
LEMMA EnumerateFunctionLocalOrder ==
    ASSUME NumberingInv, SeesInv, OrderInv, EnumerateFunctionLocal
    PROVE  OrderInv'
<1> DEFINE md == Head(todo)
<1>1. phase = "incorporated" /\ phase' = phase /\ unit' = unit
    BY DEF EnumerateFunctionLocal, program
<1>2. Preceded(unit, index)
    BY <1>1 DEF OrderInv
<1>3. /\ DOMAIN index \subseteq DOMAIN index'
      /\ \A x \in DOMAIN index : index'[x] = index[x]
      /\ \A x \in DOMAIN index' \ DOMAIN index : unit.kind[x] # "uniqued"
  <2>1. CASE index' = index
      BY <2>1
  <2>2. CASE /\ md \notin DOMAIN index /\ unit.kind[md] \in {"local", "list"}
             /\ index' = With(md, [f |-> done, id |-> Len(mds) + 1])
    <3> HIDE DEF md
    <3>1. unit.kind[md] # "uniqued"
        BY <2>2
    <3>2. /\ DOMAIN index' = DOMAIN index \cup {md}
          /\ \A x \in DOMAIN index : index'[x] = index[x]
        BY <2>2 DEF With
    <3> QED  BY <3>1, <3>2
  <2> QED  BY <2>1, <2>2, LocalAdded
<1>4. Preceded(unit, index')
    BY <1>2, <1>3 DEF Preceded
<1>5. "incorporated" # "walking"
    OBVIOUS
<1> QED  BY <1>1, <1>4, <1>5 DEF OrderInv

\* What goes with a function is no operand of what stays.
LEMMA purgeFunctionOrder ==
    ASSUME NumberingInv, SeesInv, OrderInv, purgeFunction
    PROVE  OrderInv'
<1>1. /\ phase = "incorporated" /\ phase' = "ready" /\ unit' = unit /\ index' = Purged
    BY DEF purgeFunction
<1>2. /\ done > 0 /\ done \in Nat /\ unit \in Units /\ DOMAIN index \subseteq Metadata
      /\ Holds(index, mds, numModuleMDs, Len(mds), done, numModuleMDs)
    BY <1>1 DEF NumberingInv, TypeInv, FunctionsInv
<1> DEFINE gone == {mds[n] : n \in numModuleMDs + 1 .. Len(mds)}
<1>3. /\ DOMAIN index' = DOMAIN index \ gone
      /\ \A x \in DOMAIN index' : index'[x] = index[x]
    BY <1>1 DEF Purged
<1>4. \A x \in DOMAIN index : x \in gone <=> index[x].f = done
  <2>1. ASSUME NEW n \in numModuleMDs + 1 .. Len(mds)
        PROVE  index[mds[n]].f = done
    <3>1. index[mds[n]] = [f |-> done, id |-> numModuleMDs + n - numModuleMDs]
        BY <1>2 DEF Holds
    <3> QED  BY <3>1
  <2>2. \A x \in DOMAIN index : index[x].f = done =>
           \E n \in numModuleMDs + 1 .. Len(mds) : mds[n] = x
      BY <1>2 DEF Holds
  <2> QED  BY <2>1, <2>2
<1> HIDE DEF gone
<1>5. ASSUME NEW x \in DOMAIN index', unit.kind[x] = "uniqued", NEW y \in UniquedArcs(unit)[x]
      PROVE  \/ Leads(unit, y, x)
             \/ y \in DOMAIN index'
                  /\ (index'[y].f = index'[x].f => index'[y].id \in 1 .. index'[x].id - 1)
  <2>1. /\ x \in DOMAIN index /\ index[x].f # done /\ index'[x] = index[x] /\ x \in Metadata
      BY <1>2, <1>3, <1>4
  <2>2. \/ Leads(unit, y, x)
        \/ y \in DOMAIN index /\ (index[y].f = index[x].f => index[y].id \in 1 .. index[x].id - 1)
      BY <1>1, <1>5, <2>1 DEF OrderInv, Preceded
  <2>3. Sees(unit, index, x, Len(unit.ops[x]))
      BY <1>1, <1>5, <2>1 DEF SeesInv, Seen
  <2>4. \E n \in 1 .. Len(unit.ops[x]) : unit.ops[x][n] = y /\ y # Null
    <3>1. DOMAIN unit.ops[x] = 1 .. Len(unit.ops[x])
        BY <1>2, <2>1, GraphFields
    <3> QED  BY <1>5, <2>1, <3>1 DEF UniquedArcs, Arcs
  <2>5. y \in DOMAIN index /\ index[y].f \in {0, index[x].f}
      BY <2>3, <2>4 DEF Sees
  <2>6. y \in DOMAIN index' /\ index'[y] = index[y]
      BY <1>2, <1>3, <1>4, <2>1, <2>5
  <2> QED  BY <2>1, <2>2, <2>6
<1>6. Preceded(unit, index')
    BY <1>5 DEF Preceded
<1> QED  BY <1>1, <1>6 DEF OrderInv

\* The first strings of a part of a list, and only they, are strings.
CutAt(u, list, from, to, strings) ==
    /\ strings \in Nat /\ from + strings <= to
    /\ \A n \in from + 1 .. to : u.kind[list[n]] = "string" <=> n <= from + strings
StringsInv ==
    phase # "walking" =>
        /\ phase = "ready" /\ done = 0 => CutAt(unit, mds, 0, Len(mds), numStrings)
        /\ \A f \in Nat : f > done =>
             LET r == RangeOf(f) IN CutAt(unit, functionMDs, r.first, r.last, r.strings)
        /\ phase = "incorporated" =>
             CutAt(unit, mds, numModuleMDs, Len(mds), numStrings)

\* The sort puts the strings of a function at the beginning of its metadata.
LEMMA StringsPlaced ==
    ASSUME Settled
    PROVE  /\ \A f \in Nat : Strings(f) \in Nat /\ Before(f) + Strings(f) <= Before(f + 1)
           /\ \A x \in ToSet(mds) :
                Kind(x) = "string" <=> Place(x) <= Before(index[x].f) + Strings(index[x].f)
<1> DEFINE S == ToSet(mds)
           Down(md) == {x \in S : Precedes(x, md)}
           Low(f) == {x \in S : index[x].f < f}
           Str(f) == {x \in S : index[x].f = f /\ Kind(x) = "string"}
           Both(f) == Low(f) \cup Str(f)
<1>1. IsFiniteSet(S) /\ \A x \in S : index[x].f \in Nat
    BY DEF Settled
<1>2. /\ \A f : Before(f) = Cardinality(Low(f)) /\ Strings(f) = Cardinality(Str(f))
      /\ \A x : Place(x) = 1 + Cardinality(Down(x))
    BY DEF Before, Strings, Place
<1>3. ASSUME NEW f \in Nat
      PROVE  /\ Before(f) \in Nat /\ Strings(f) \in Nat
             /\ Cardinality(Both(f)) = Before(f) + Strings(f)
  <2>1. Low(f) \cap Str(f) = {} /\ Low(f) \in SUBSET S /\ Str(f) \in SUBSET S
      BY <1>1
  <2> HIDE DEF Low, Str, S
  <2>2. IsFiniteSet(Low(f)) /\ IsFiniteSet(Str(f))
      BY <1>1, <2>1, FS_Subset
  <2>3. Cardinality(Low(f) \cup Str(f)) =
           Cardinality(Low(f)) + Cardinality(Str(f)) - Cardinality(Low(f) \cap Str(f))
      BY <2>2, FS_Union
  <2>4. Cardinality(Low(f) \cap Str(f)) = 0
      BY <2>1, FS_EmptySet
  <2>5. Cardinality(Low(f)) \in Nat /\ Cardinality(Str(f)) \in Nat
      BY <2>2, FS_CardinalityType
  <2> QED  BY <1>2, <2>3, <2>4, <2>5
<1>4. /\ \A f : Both(f) \in SUBSET S /\ Low(f) \in SUBSET S
      /\ \A x : Down(x) \in SUBSET S
    OBVIOUS
<1>5. \A f \in Nat : Both(f) \subseteq Low(f + 1)
    BY <1>1
<1>6. /\ \A md : getMetadataTypeOrder(md) \in Nat
      /\ \A md : getMetadataTypeOrder(md) = 0 <=> Kind(md) = "string"
    BY DEF getMetadataTypeOrder
<1>7. ASSUME NEW x \in S, Kind(x) = "string"
      PROVE  Down(x) \subseteq Both(index[x].f) /\ x \in Both(index[x].f) \ Down(x)
  <2>1. \A y \in S : Precedes(y, x) =>
           \/ index[y].f < index[x].f
           \/ index[y].f = index[x].f /\ Kind(y) = "string"
      BY <1>6, <1>7 DEF Precedes
  <2>2. ~ Precedes(x, x)
      BY PrecedesOrders
  <2> QED  BY <1>7, <2>1, <2>2
<1>8. ASSUME NEW x \in S, Kind(x) # "string"
      PROVE  Both(index[x].f) \subseteq Down(x)
  <2>1. \A y \in S : index[y].f = index[x].f /\ Kind(y) = "string" => Precedes(y, x)
      BY <1>6, <1>8 DEF Precedes
  <2>2. \A y \in S : index[y].f < index[x].f => Precedes(y, x)
      BY DEF Precedes
  <2> QED  BY <2>1, <2>2
<1> HIDE DEF S, Down, Low, Str, Both
<1>9. ASSUME NEW f \in Nat
      PROVE  Strings(f) \in Nat /\ Before(f) + Strings(f) <= Before(f + 1)
  <2>1. Cardinality(Both(f)) <= Cardinality(Low(f + 1))
      BY <1>1, <1>4, <1>5, FewerMembers
  <2> QED  BY <1>2, <1>3, <2>1
<1>10. ASSUME NEW x \in S
       PROVE  Kind(x) = "string" <=> Place(x) <= Before(index[x].f) + Strings(index[x].f)
  <2> DEFINE f == index[x].f
             c == Cardinality(Both(f))
             d == Cardinality(Down(x))
  <2>1. f \in Nat /\ c = Before(f) + Strings(f) /\ Place(x) = 1 + d /\ c \in Nat /\ d \in Nat
    <3>1. f \in Nat /\ Place(x) = 1 + d
        BY <1>1, <1>2
    <3>2. c = Before(f) + Strings(f)
        BY <1>3, <3>1
    <3>3. c \in Nat /\ d \in Nat
        BY <1>1, <1>4, FewerMembers
    <3> QED  BY <3>1, <3>2, <3>3
  <2>2. CASE Kind(x) = "string"
    <3>1. d < c
        BY <1>1, <1>4, <1>7, <2>2, FewerMembers
    <3>2. 1 + d <= c
        BY <2>1, <3>1
    <3> QED  BY <2>1, <2>2, <3>2
  <2>3. CASE Kind(x) # "string"
    <3>1. c <= d
        BY <1>1, <1>4, <1>8, <2>3, FewerMembers
    <3>2. ~ 1 + d <= c
        BY <2>1, <3>1
    <3> QED  BY <2>1, <2>3, <3>2
  <2> QED  BY <2>2, <2>3
<1> QED  BY <1>9, <1>10 DEF S

\* organizeMetadata writes down how many they are.
LEMMA organizeMetadataStrings ==
    ASSUME NumberingInv, organizeMetadata
    PROVE  StringsInv'
<1> DEFINE N == Len(mds)
           A == Before(1)
<1>1. /\ phase = "walking" /\ worklist = <<>>
      /\ phase' = "ready" /\ done' = 0 /\ unit' = unit /\ numStrings' = Strings(0)
      /\ mds' = SubSeq(Sorted, 1, A) /\ functionMDs' = SubSeq(Sorted, A + 1, N)
      /\ ranges' = [f \in {index[md].f : md \in ToSet(mds)} \ {0} |->
                    [first |-> Before(f) - A, last |-> Before(f + 1) - A,
                     strings |-> Strings(f)]]
    BY DEF organizeMetadata
<1>2. Settled /\ N \in Nat
    BY <1>1, NothingWaits DEF NumberingInv, Settled
<1>3. /\ Before(0) = 0
      /\ \A f \in Nat : Before(f) \in Nat /\ Before(f) <= N
      /\ \A f, g \in Nat : f <= g => Before(f) <= Before(g)
      /\ \A f \in Nat, x \in ToSet(mds) :
           Before(f) < Place(x) /\ Place(x) <= Before(f + 1) => index[x].f = f
    BY <1>2, PlacesOfFunctions
<1>4. /\ Sorted \in Seq(Metadata) /\ Len(Sorted) = N
      /\ \A n \in 1 .. N : Sorted[n] \in ToSet(mds) /\ Place(Sorted[n]) = n
    BY <1>2, SortedPlaces
<1>5. /\ \A f \in Nat : Strings(f) \in Nat /\ Before(f) + Strings(f) <= Before(f + 1)
      /\ \A x \in ToSet(mds) :
           unit.kind[x] = "string" <=> Place(x) <= Before(index[x].f) + Strings(index[x].f)
    BY <1>2, StringsPlaced DEF Kind
<1>6. A \in Nat /\ A <= N
    BY <1>3
<1>7. A = Before(1)
    OBVIOUS
<1> HIDE DEF N, A
<1>8. ASSUME NEW f \in Nat, NEW k \in 1 .. N, Before(f) < k, k <= Before(f + 1)
      PROVE  unit.kind[Sorted[k]] = "string" <=> k <= Before(f) + Strings(f)
  <2>1. Sorted[k] \in ToSet(mds) /\ Place(Sorted[k]) = k
      BY <1>4
  <2>2. index[Sorted[k]].f = f
      BY <1>3, <1>8, <2>1
  <2> QED  BY <1>5, <2>1, <2>2
<1>9. CutAt(unit, mds', 0, Len(mds'), numStrings')
  <2>1. 0 \in Nat /\ 0 <= A /\ 0 + 1 = 1 /\ A - 0 = A /\ \A n \in 1 .. A : 0 + n = n
      BY <1>6
  <2>2. /\ Len(SubSeq(Sorted, 0 + 1, A)) = A - 0
        /\ \A n \in 1 .. A - 0 : SubSeq(Sorted, 0 + 1, A)[n] = Sorted[0 + n]
      BY <1>4, <1>6, <2>1, PartOf
  <2>3. Len(mds') = A /\ \A n \in 1 .. A : mds'[n] = Sorted[n]
      BY <1>1, <2>1, <2>2
  <2>4. Strings(0) \in Nat /\ Strings(0) <= A
      BY <1>3, <1>5, <1>7
  <2>5. ASSUME NEW n \in 1 .. A
        PROVE  unit.kind[Sorted[n]] = "string" <=> n <= Strings(0)
    <3>1. n \in 1 .. N /\ Before(0) < n /\ n <= Before(0 + 1)
        BY <1>2, <1>3, <1>6, <1>7
    <3>2. unit.kind[Sorted[n]] = "string" <=> n <= Before(0) + Strings(0)
        BY <1>8, <3>1
    <3>3. Before(0) + Strings(0) = Strings(0)
        BY <1>3, <2>4
    <3> QED  BY <3>2, <3>3
  <2> DEFINE t == Strings(0)
  <2>6. t \in Nat /\ t <= A /\ \A n \in 1 .. A : unit.kind[mds'[n]] = "string" <=> n <= t
      BY <2>3, <2>4, <2>5
  <2>7. numStrings' = t
      BY <1>1
  <2> HIDE DEF t
  <2>8. 0 + t = t
      BY <2>6
  <2> QED  BY <2>1, <2>3, <2>6, <2>7, <2>8 DEF CutAt
<1>10. \A n \in 1 .. N - A : functionMDs'[n] = Sorted[A + n]
    BY <1>1, <1>2, <1>4, <1>6, PartOf, SMTT(30)
<1>11. ASSUME NEW f \in Nat, f > 0
       PROVE  CutAt(unit, functionMDs', RangeOf(f)'.first, RangeOf(f)'.last, RangeOf(f)'.strings)
  <2> DEFINE r == RangeOf(f)'
             lo == Before(f) - A
             hi == Before(f + 1) - A
             t == Strings(f)
  <2>1. CASE f \in {index[md].f : md \in ToSet(mds)}
    <3>1. r = [first |-> lo, last |-> hi, strings |-> t]
        BY <1>1, <1>11, <2>1 DEF RangeOf
    <3>2. r.first = lo /\ r.last = hi /\ r.strings = t
        BY <3>1
    <3> DEFINE b == Before(f)
               c == Before(f + 1)
    <3>3. /\ b \in Nat /\ c \in Nat /\ t \in Nat /\ A <= b /\ b + t <= c /\ c <= N
          /\ lo = b - A /\ hi = c - A
      <4>1. f + 1 \in Nat /\ 1 <= f
          BY <1>11
      <4> QED  BY <1>3, <1>5, <1>7, <4>1
    <3>4. \A k \in 1 .. N : b < k /\ k <= c =>
            (unit.kind[Sorted[k]] = "string" <=> k <= b + t)
        BY <1>8
    <3> HIDE DEF r, lo, hi, t, b, c
    <3>5. lo + t <= hi
        BY <1>6, <3>3
    <3>6. ASSUME NEW n \in lo + 1 .. hi
          PROVE  unit.kind[functionMDs'[n]] = "string" <=> n <= lo + t
      <4> DEFINE k == A + n
      <4>1. /\ n \in 1 .. N - A /\ k \in 1 .. N /\ b < k /\ k <= c
            /\ k <= b + t <=> n <= lo + t
          BY <1>2, <1>6, <3>3
      <4> HIDE DEF k
      <4>2. functionMDs'[n] = Sorted[k]
          BY <1>10, <4>1 DEF k
      <4> QED  BY <3>4, <4>1, <4>2
    <3>7. CutAt(unit, functionMDs', lo, hi, t)
        BY <3>3, <3>5, <3>6 DEF CutAt
    <3> QED  BY <3>2, <3>7 DEF r
  <2>2. CASE f \notin {index[md].f : md \in ToSet(mds)}
    <3>1. r = NoRange
        BY <1>1, <2>2 DEF RangeOf
    <3>2. r.first = 0 /\ r.last = 0 /\ r.strings = 0
        BY <3>1 DEF NoRange
    <3> HIDE DEF r
    <3>3. CutAt(unit, functionMDs', 0, 0, 0)
      <4>1. 0 \in Nat /\ 0 + 0 <= 0 /\ \A n \in 0 + 1 .. 0 : FALSE
          OBVIOUS
      <4> QED  BY <4>1 DEF CutAt
    <3> QED  BY <3>2, <3>3 DEF r
  <2> QED  BY <2>1, <2>2
<1>12. "ready" # "incorporated"
    OBVIOUS
<1> QED  BY <1>1, <1>9, <1>11, <1>12 DEF StringsInv

\* A range behind the module's metadata is cut where it was.
LEMMA incorporateFunctionStrings ==
    ASSUME NumberingInv, StringsInv, incorporateFunction
    PROVE  StringsInv'
<1> DEFINE g == done + 1
           a == RangeOf(g).first
           b == RangeOf(g).last
           t == RangeOf(g).strings
           M == Len(mds)
           part == SubSeq(functionMDs, a + 1, b)
<1>1. /\ phase = "ready" /\ phase' = "incorporated" /\ done' = g /\ unit' = unit
      /\ numModuleMDs' = M /\ mds' = mds \o part /\ numStrings' = t
      /\ functionMDs' = functionMDs /\ ranges' = ranges
    BY DEF incorporateFunction
<1>2. /\ done \in Nat /\ mds \in Seq(Metadata) /\ functionMDs \in Seq(Metadata)
      /\ M \in Nat /\ g \in Nat /\ g > done
    BY DEF NumberingInv, TypeInv
<1>3. \A f \in Nat : f > done =>
         CutAt(unit, functionMDs, RangeOf(f).first, RangeOf(f).last, RangeOf(f).strings)
    BY <1>1 DEF StringsInv
<1>4. /\ a \in Nat /\ b \in Nat /\ a <= b /\ b <= Len(functionMDs)
      /\ CutAt(unit, functionMDs, a, b, t)
  <2>1. \A f \in Nat : f > done => RangeHolds(index, f, ModuleEnd)
      BY <1>1 DEF NumberingInv, FunctionsInv
  <2>2. RangeHolds(index, g, ModuleEnd)
      BY <1>2, <2>1
  <2> QED  BY <1>2, <1>3, <2>2 DEF RangeHolds
<1>5. g = done + 1
    OBVIOUS
<1> HIDE DEF g, a, b, t, M
<1>6. /\ part \in Seq(Metadata) /\ Len(part) = b - a
      /\ \A n \in 1 .. b - a : part[n] = functionMDs[a + n]
    BY <1>2, <1>4, PartOf
<1> HIDE DEF part
<1>7. /\ Len(mds') = M + (b - a)
      /\ \A n \in 1 .. b - a : mds'[M + n] = functionMDs[a + n]
  <2>1. /\ Len(mds \o part) = M + Len(part)
        /\ \A n \in 1 .. Len(part) : (mds \o part)[M + n] = part[n]
    <3>1. mds \in Seq(Metadata) /\ part \in Seq(Metadata)
        BY <1>2, <1>6
    <3> QED  BY <3>1, Concatenated DEF M
  <2> QED  BY <1>1, <1>6, <2>1
<1>8. /\ t \in Nat /\ a + t <= b
      /\ \A n \in a + 1 .. b : unit.kind[functionMDs[n]] = "string" <=> n <= a + t
    BY <1>4 DEF CutAt
<1>9. CutAt(unit, mds', M, M + (b - a), t)
  <2>1. M + t <= M + (b - a)
      BY <1>2, <1>4, <1>8
  <2>2. ASSUME NEW n \in M + 1 .. M + (b - a)
        PROVE  unit.kind[mds'[n]] = "string" <=> n <= M + t
    <3> DEFINE k == n - M
               i == a + k
    <3>1. /\ k \in 1 .. b - a /\ n = M + k /\ i \in a + 1 .. b
          /\ i <= a + t <=> n <= M + t
        BY <1>2, <1>4, <1>8
    <3> HIDE DEF k
    <3>2. mds'[n] = functionMDs[i]
        BY <1>7, <3>1
    <3> HIDE DEF i
    <3> QED  BY <1>8, <3>1, <3>2
  <2> QED  BY <1>8, <2>1, <2>2 DEF CutAt
<1>10. CutAt(unit', mds', numModuleMDs', Len(mds'), numStrings')
    BY <1>1, <1>7, <1>9
<1>11. ASSUME NEW f \in Nat, f > done'
       PROVE  CutAt(unit', functionMDs', RangeOf(f)'.first, RangeOf(f)'.last, RangeOf(f)'.strings)
  <2>1. RangeOf(f)' = RangeOf(f) /\ f > done
      BY <1>1, <1>2, <1>5, <1>11 DEF RangeOf
  <2> QED  BY <1>1, <1>3, <2>1
<1>12. "ready" # "incorporated"
    OBVIOUS
<1> QED  BY <1>1, <1>10, <1>11, <1>12 DEF StringsInv

\* Local metadata is no string, and goes behind.
LEMMA EnumerateFunctionLocalStrings ==
    ASSUME NumberingInv, SeesInv, StringsInv, EnumerateFunctionLocal
    PROVE  StringsInv'
<1> DEFINE md == Head(todo)
           M == Len(mds)
           from == numModuleMDs
<1>1. /\ phase = "incorporated" /\ phase' = phase /\ unit' = unit /\ done' = done
      /\ functionMDs' = functionMDs /\ ranges' = ranges
      /\ numModuleMDs' = from /\ numStrings' = numStrings
    BY DEF EnumerateFunctionLocal, program
<1>2. mds \in Seq(Metadata) /\ M \in Nat /\ from \in Nat
    BY DEF NumberingInv, TypeInv
<1>3. CutAt(unit, mds, from, M, numStrings)
    BY <1>1 DEF StringsInv
<1>4. CutAt(unit, mds', from, Len(mds'), numStrings)
  <2>1. CASE mds' = mds
      BY <1>3, <2>1
  <2>2. CASE unit.kind[md] \in {"local", "list"} /\ mds' = Append(mds, md) /\ md \in Metadata
    <3> HIDE DEF md
    <3>1. /\ Len(mds') = M + 1 /\ mds'[M + 1] = md
          /\ \A n \in 1 .. M : mds'[n] = mds[n]
        BY <1>2, <2>2, AppendProperties
    <3>2. /\ numStrings \in Nat /\ from + numStrings <= M
          /\ \A n \in from + 1 .. M : unit.kind[mds[n]] = "string" <=> n <= from + numStrings
        BY <1>3 DEF CutAt
    <3> HIDE DEF M, from
    <3>3. ASSUME NEW n \in from + 1 .. M + 1
          PROVE  unit.kind[mds'[n]] = "string" <=> n <= from + numStrings
      <4>1. CASE n = M + 1
        <5>1. ~ n <= from + numStrings
            BY <1>2, <3>2, <4>1
        <5>2. unit.kind[md] # "string"
            BY <2>2
        <5> QED  BY <3>1, <4>1, <5>1, <5>2
      <4>2. CASE n # M + 1
        <5>1. n \in 1 .. M /\ n \in from + 1 .. M
            BY <1>2, <4>2
        <5> QED  BY <3>1, <3>2, <5>1
      <4> QED  BY <4>1, <4>2
    <3>4. from + numStrings <= M + 1
        BY <1>2, <3>2
    <3> QED  BY <3>1, <3>2, <3>3, <3>4 DEF CutAt
  <2> QED  BY <2>1, <2>2, LocalAdded
<1>5. ASSUME NEW f \in Nat, f > done'
      PROVE  CutAt(unit', functionMDs', RangeOf(f)'.first, RangeOf(f)'.last, RangeOf(f)'.strings)
  <2>1. RangeOf(f)' = RangeOf(f)
      BY <1>1 DEF RangeOf
  <2> QED  BY <1>1, <1>5, <2>1 DEF StringsInv
<1>6. "incorporated" # "ready" /\ "incorporated" # "walking"
    OBVIOUS
<1>7. CutAt(unit', mds', numModuleMDs', Len(mds'), numStrings')
    BY <1>1, <1>4
<1> QED  BY <1>1, <1>5, <1>6, <1>7 DEF StringsInv

\* The ranges of the functions still to come stay.
LEMMA purgeFunctionStrings ==
    ASSUME NumberingInv, StringsInv, purgeFunction
    PROVE  StringsInv'
<1>1. /\ phase = "incorporated" /\ phase' = "ready" /\ unit' = unit /\ done' = done
      /\ functionMDs' = functionMDs /\ ranges' = ranges
    BY DEF purgeFunction
<1>2. done # 0
  <2>1. done > 0 /\ done \in Nat
      BY <1>1 DEF NumberingInv, TypeInv, FunctionsInv
  <2> QED  BY <2>1
<1>3. ASSUME NEW f \in Nat, f > done'
      PROVE  CutAt(unit', functionMDs', RangeOf(f)'.first, RangeOf(f)'.last, RangeOf(f)'.strings)
  <2>1. RangeOf(f)' = RangeOf(f)
      BY <1>1 DEF RangeOf
  <2> QED  BY <1>1, <1>3, <2>1 DEF StringsInv
<1>4. "ready" # "incorporated"
    OBVIOUS
<1> QED  BY <1>1, <1>2, <1>3, <1>4 DEF StringsInv

OrderedInv == VisibleInv /\ OrderInv /\ StringsInv

\* Nothing is out of order at first ...
LEMMA OrderedInvStarts == Init => OrderedInv
<1> SUFFICES ASSUME Init
             PROVE  OrderedInv
    OBVIOUS
<1>1. VisibleInv
    BY VisibleInvStarts
<1>2. /\ phase = "walking" /\ worklist = <<>> /\ delayed = <<>> /\ index = <<>>
    BY DEF Init
<1>3. Len(<<>>) = 0 /\ DOMAIN <<>> = {}
    OBVIOUS
<1>4. Left(unit, index) /\ Stacked(unit, index, worklist, delayed)
    BY <1>2, <1>3 DEF Left, Stacked
<1> QED  BY <1>1, <1>2, <1>4 DEF OrderedInv, OrderInv, StringsInv

\* ... and every step keeps the order.
LEMMA OrderedInvKept == OrderedInv /\ [Next]_vars => OrderedInv'
<1> SUFFICES ASSUME OrderedInv, [Next]_vars
             PROVE  OrderedInv'
    OBVIOUS
<1>1. /\ NumberingInv /\ TypeInv /\ WalkInv /\ TagsInv /\ SeesInv /\ OrderInv /\ StringsInv
      /\ VisibleInv'
    BY VisibleInvKept DEF OrderedInv, VisibleInv, NumberingInv
<1>2. ASSUME phase' = phase, phase = "walking", OrderInv'
      PROVE  OrderedInv'
    BY <1>1, <1>2 DEF OrderedInv, StringsInv
<1>3. CASE EnumerateMetadata
  <2>1. phase' = phase /\ phase = "walking"
      BY <1>3 DEF EnumerateMetadata
  <2> QED  BY <1>1, <1>2, <1>3, <2>1, EnumerateMetadataOrder
<1>4. CASE Skip
  <2>1. phase' = phase /\ phase = "walking"
      BY <1>4 DEF Skip, HasOperand, Walking, program
  <2> QED  BY <1>1, <1>2, <1>4, <2>1, SkipOrder
<1>5. CASE Descend
  <2>1. phase' = phase /\ phase = "walking"
      BY <1>5 DEF Descend, HasOperand, Walking, program
  <2> QED  BY <1>1, <1>2, <1>5, <2>1, DescendOrder
<1>6. CASE Leave
  <2>1. phase' = phase /\ phase = "walking"
      BY <1>6 DEF Leave, Walking, program
  <2> QED  BY <1>1, <1>2, <1>6, <2>1, LeaveOrder
<1>7. CASE organizeMetadata
    BY <1>1, <1>7, organizeMetadataOrder, organizeMetadataStrings DEF OrderedInv
<1>8. CASE incorporateFunction
  <2>1. OrderInv'
    <3>1. /\ phase = "ready" /\ phase' = "incorporated" /\ unit' = unit /\ index' = index
        BY <1>8 DEF incorporateFunction
    <3>2. "ready" # "walking" /\ "incorporated" # "walking"
        OBVIOUS
    <3> QED  BY <1>1, <3>1, <3>2 DEF OrderInv
  <2> QED  BY <1>1, <1>8, <2>1, incorporateFunctionStrings DEF OrderedInv
<1>9. CASE EnumerateFunctionLocal
    BY <1>1, <1>9, EnumerateFunctionLocalOrder, EnumerateFunctionLocalStrings DEF OrderedInv
<1>10. CASE purgeFunction
    BY <1>1, <1>10, purgeFunctionOrder, purgeFunctionStrings DEF OrderedInv
<1>11. CASE UNCHANGED vars
  <2>1. /\ unit' = unit /\ phase' = phase /\ done' = done /\ worklist' = worklist
        /\ delayed' = delayed /\ index' = index /\ mds' = mds
        /\ functionMDs' = functionMDs /\ ranges' = ranges
        /\ numModuleMDs' = numModuleMDs /\ numStrings' = numStrings
      BY <1>11 DEF vars, program, walk, functions
  <2>2. OrderInv'
      BY <1>1, <2>1 DEF OrderInv
  <2>3. \A f : RangeOf(f)' = RangeOf(f)
      BY <2>1 DEF RangeOf
  <2>4. StringsInv'
      BY <1>1, <2>1, <2>3 DEF StringsInv
  <2> QED  BY <1>1, <2>2, <2>4 DEF OrderedInv
<1> QED  BY <1>1, <1>3, <1>4, <1>5, <1>6, <1>7, <1>8, <1>9, <1>10, <1>11 DEF Next, OrderedInv, VisibleInv

\* The invariant says what is to be shown: what two parts of the list have is
\* the module's before the function's.
LEMMA ReaderOrderFollows == OrderedInv => ReaderOrder
<1> SUFFICES ASSUME OrderedInv
             PROVE  ReaderOrder
    OBVIOUS
<1>1. /\ NumberingInv /\ SeesInv /\ OrderInv /\ StringsInv /\ WalkInv /\ FunctionsInv
      /\ unit \in Units /\ done \in Nat /\ numModuleMDs \in Nat
      /\ phase \in {"walking", "ready", "incorporated"} /\ DOMAIN index \subseteq Metadata
      /\ mds \in Seq(Metadata) /\ DOMAIN mds = 1 .. Len(mds) /\ Len(mds) \in Nat
    BY DEF OrderedInv, VisibleInv, NumberingInv, TypeInv
<1>2. StringsFirst
  <2>1. ASSUME phase = "ready", done = 0
        PROVE  \A n \in 0 + 1 .. Len(mds) : Kind(mds[n]) = "string" <=> n <= 0 + numStrings
    <3>1. phase # "walking"
        BY <2>1
    <3> QED  BY <1>1, <2>1, <3>1 DEF StringsInv, CutAt, Kind
  <2>2. ASSUME phase = "incorporated"
        PROVE  \A n \in numModuleMDs + 1 .. Len(mds) :
                  Kind(mds[n]) = "string" <=> n <= numModuleMDs + numStrings
    <3>1. phase # "walking"
        BY <2>2
    <3> QED  BY <1>1, <2>2, <3>1 DEF StringsInv, CutAt, Kind
  <2> QED  BY <2>1, <2>2 DEF StringsFirst
<1>3. ASSUME NEW n \in DOMAIN mds, Kind(mds[n]) = "uniqued", NEW y \in Uniqued(Ops(mds[n]))
      PROVE  \/ y \in DOMAIN index /\ index[y].id \in 1 .. n - 1
             \/ OnCycle(y, mds[n])
  <2> DEFINE z == mds[n]
  <2>1. z \in Metadata /\ n \in 1 .. Len(mds) /\ n # 0
      BY <1>1
  <2>2. y \in UniquedArcs(unit)[z] /\ unit.kind[z] = "uniqued" /\ y \in Arcs(unit)[z]
      BY <1>3, <2>1 DEF UniquedArcs, Arcs, Uniqued, Ops, Kind
  <2>3. Leads(unit, y, z) => OnCycle(y, z)
    <3>1. UniquedArcs(unit) = [x \in Metadata |-> Uniqued(Ops(x))]
        BY DEF UniquedArcs, Arcs, Uniqued, Ops, Kind
    <3> QED  BY <3>1 DEF Leads, OnCycle
  <2> SUFFICES ASSUME ~ Leads(unit, y, z)
               PROVE  y \in DOMAIN index /\ index[y].id \in 1 .. n - 1
      BY <2>3
  <2> HIDE DEF z
  <2>4. CASE phase = "walking"
    <3>1. z \in DOMAIN index /\ index[z].id = n
        BY <1>1, <2>1, <2>4 DEF WalkInv, Matching, z
    <3> QED  BY <1>1, <2>1, <2>2, <2>4, <3>1 DEF OrderInv, Left
  <2>5. CASE phase # "walking"
    <3>1. z \in DOMAIN index /\ index[z].f \in Current /\ index[z].id = n
        BY <1>1, <2>1, <2>5, NumbersOfCurrent DEF z
    <3>2. y \in DOMAIN index /\ (index[y].f = index[z].f => index[y].id \in 1 .. n - 1)
        BY <1>1, <2>2, <2>5, <3>1 DEF OrderInv, Preceded
    <3>3. CASE index[y].f # index[z].f
      <4>1. Sees(unit, index, z, Len(unit.ops[z]))
          BY <1>1, <2>2, <2>5, <3>1 DEF SeesInv, Seen
      <4>2. \E m \in 1 .. Len(unit.ops[z]) : unit.ops[z][m] = y /\ y # Null
        <5>1. DOMAIN unit.ops[z] = 1 .. Len(unit.ops[z])
            BY <1>1, <2>1, GraphFields
        <5> QED  BY <2>1, <2>2, <5>1 DEF Arcs
      <4>3. index[y].f = 0 /\ index[z].f # 0
          BY <3>3, <4>1, <4>2 DEF Sees
      <4>4. phase = "incorporated" /\ index[z].f = done
          BY <3>1, <4>3 DEF Current
      <4>5. /\ Holds(index, mds, 0, numModuleMDs, 0, 0)
            /\ Holds(index, mds, numModuleMDs, Len(mds), done, numModuleMDs)
            /\ numModuleMDs <= Len(mds)
          BY <1>1, <2>5, <4>4 DEF FunctionsInv, ModuleEnd
      <4>6. PICK p \in 0 + 1 .. numModuleMDs : mds[p] = y
          BY <3>2, <4>3, <4>5 DEF Holds
      <4>7. PICK q \in numModuleMDs + 1 .. Len(mds) : mds[q] = z
          BY <3>1, <4>4, <4>5 DEF Holds
      <4>8. p \in 1 .. Len(mds) /\ q \in 1 .. Len(mds) /\ p < q /\ p \in Nat /\ p >= 1
          BY <1>1, <4>5
      <4>9. index[y].id = p /\ index[z].id = q
          BY <1>1, <2>5, <4>6, <4>7, <4>8, NumbersOfCurrent
      <4>10. n = q
          BY <3>1, <4>9
      <4>11. p \in 1 .. q - 1
          BY <4>8
      <4> QED  BY <3>2, <4>9, <4>10, <4>11
    <3> QED  BY <3>2, <3>3
  <2> QED  BY <2>4, <2>5
<1>4. PostOrder
    BY <1>3 DEF PostOrder
<1> QED  BY <1>2, <1>4 DEF ReaderOrder

\* getMDStrings and getNonMDStrings cut the metadata of a block where the
\* strings end, and outside cycles a uniqued node is written after its uniqued
\* operands, "vital for reader efficiency": the delayed distinct nodes of
\* EnumerateMetadata, and the keys of the sort in organizeMetadata, for every
\* graph.
THEOREM ReaderOrderCorrect == Spec => []ReaderOrder
<1>1. Spec => []OrderedInv
  <2>1. Init => OrderedInv
      BY OrderedInvStarts
  <2>2. OrderedInv /\ [Next]_vars => OrderedInv'
      BY OrderedInvKept
  <2> QED  BY <2>1, <2>2, PTL DEF Spec
<1> QED  BY <1>1, ReaderOrderFollows, PTL
=============================================================================
