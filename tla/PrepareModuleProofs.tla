------------------------ MODULE PrepareModuleProofs ------------------------
(***************************************************************************)
(* The theorems about the preparation of a module, for every module the    *)
(* verifier accepts and every target: it is rejected exactly if it holds   *)
(* what the target has no form for, its calls go on matching its           *)
(* functions, its intrinsics have the names the target knows, nothing is   *)
(* dropped but hints, and what remains computes with the same values.      *)
(*                                                                         *)
(* The functions, the calls and the flags come first, under one invariant; *)
(* the instructions, which no other pass touches, have the second half and *)
(* an invariant of their own (UsesInv).                                    *)
(***************************************************************************)
EXTENDS PrepareModule, SequenceLemmas, Integers

\* The functions of a list, whatever they are called.
Anonymous(names) == [key : Keys, id : STRING, as : Seq(Nat), bits : Nat, params : Nat,
                     name : names]
List(fs) == \E names : fs \in Seq(Anonymous(names))
TypeInv ==
    /\ unit \in Units /\ target \in Targets
    /\ turn \in 1 .. Len(Passes(target)) + 1 /\ failed \in BOOLEAN
    /\ List(funcs) /\ calls \subseteq Calls /\ flags \in Seq(Flags)

-----------------------------------------------------------------------------
(* Names *)

\* An intrinsic whose name changes between releases.
Known(id) == id \in DOMAIN MangledFrom
With(name, extra) == [base |-> name.base, mangling |-> name.mangling, extra |-> extra]
Tokens == {"p", "pi8", "i"}
Spaces(pointer, list) == [k \in DOMAIN list |-> <<pointer, list[k]>>]
Mangled(t, f) == Spaces(IF t < 150 THEN "pi8" ELSE "p", f.as) \o Widths(f)

\* Spelling, with the target named.
Spelled(t, f) == Named(f.id, IF t < MangledFrom[f.id] THEN <<>> ELSE Mangled(t, f))

\* The renaming looks at the address space of this function.
Looks(t, f) ==
    \/ f.id \in {"thread_pointer", "returnaddress", "clear_cache"}
    \/ t = 180 /\ f.id \in {"vastart", "vaend", "vacopy"}

\* The renaming takes the mangling of this function away and does not look at
\* the address space that goes with it.
Unchecked(t, f) ==
    \/ t <= 140 /\ f.id \in {"vastart", "vaend", "vacopy", "stacksave", "stackrestore"}
    \/ t < 100 /\ f.id = "prefetch"
Gap(t, u) == \E n \in 1 .. Len(u.funcs) :
                Unchecked(t, u.funcs[n]) /\ ~ DefaultAS(u.funcs[n])

\* A function has the name it was parsed with or the one of its target; a
\* number is appended only to names that do not tell address spaces apart.
WellNamed(t, u, f) ==
    Known(f.id) \/ Known(f.name.base) =>
        \E extra :
           /\ Gap(t, u) \/ extra = 0
           /\ \/ f.name = With(Modern(f), extra)
              \/ f.name = With(Spelled(t, f), extra) /\ (Looks(t, f) => DefaultAS(f))
AllNamed(t, u, fs) == \A n \in 1 .. Len(fs) : WellNamed(t, u, fs[n])

\* The name its target has for a function, whatever number it got.
Renamed(t, f) == Known(f.id) => \E extra : f.name = With(Spelled(t, f), extra)

\* What the verifier has seen to of a function whose name changes.
Shaped(f) ==
    /\ f.as \in Seq(Nat) /\ f.bits \in Nat
    /\ Known(f.id) => /\ f.bits # 0 <=> MemIntrinsic(f)
                      /\ f.id = "prefetch" => Len(f.as) = 1

-----------------------------------------------------------------------------
(* The functions *)

\* What a pass keeps of a function.
Same(f, g) == f.key[1] = g.key[1] /\ f.id = g.id /\ f.as = g.as /\ f.bits = g.bits

\* The list fs of a target is the parsed one without lifetime markers; what
\* is rebuilt has one parameter more.
Apart(fs) == \A m, n \in 1 .. Len(fs) : fs[m].key[1] = fs[n].key[1] => m = n
StandsFor(t, f, g) ==
    /\ Same(f, g)
    /\ IF f.key[2] = 0 THEN f.params = g.params
       ELSE t < 70 /\ MemIntrinsic(f) /\ f.params = 5
Parsed(t, u, fs) ==
    \A n \in 1 .. Len(fs) : \E m \in 1 .. Len(u.funcs) : StandsFor(t, fs[n], u.funcs[m])
Kept(u, fs) ==
    \A m \in 1 .. Len(u.funcs) : u.funcs[m].id # "lifetime" =>
        \E n \in 1 .. Len(fs) : Same(fs[n], u.funcs[m])
FunctionsInv ==
    /\ Apart(funcs) /\ Parsed(target, unit, funcs) /\ Kept(unit, funcs)
    /\ AllNamed(target, unit, funcs)

\* A call is a parsed one, and calls what its function has become.
Becomes(d, c, f) ==
    /\ d.at = c.at /\ d.callee[1] = c.callee[1]
    /\ c.callee = f.key /\ c.args = f.params
    /\ c.align = IF c.callee[2] = 0 THEN d.align ELSE <<MinAlign(f, d)>>
Marker(u, d) ==
    \E m \in 1 .. Len(u.funcs) : u.funcs[m].key = d.callee /\ u.funcs[m].id = "lifetime"
CallsMade(u, fs, cs) ==
    \A c \in cs : \E d \in u.calls, n \in 1 .. Len(fs) : Becomes(d, c, fs[n])
CallsLeft(u, cs) ==
    \A d \in u.calls :
        Marker(u, d) \/ \E c \in cs : c.at = d.at /\ c.callee[1] = d.callee[1]
CallsInv == CallsMade(unit, funcs, calls) /\ CallsLeft(unit, calls)

-----------------------------------------------------------------------------
(* The loops *)

Over(t, k, pass) == \E l \in 1 .. k - 1 : Passes(t)[l] = pass
IsTurn(t, k, pass) == k <= Len(Passes(t)) /\ Passes(t)[k] = pass

\* What a loop leaves behind it.
Visited(t, pass, f) ==
    CASE pass = "lifetime" -> f.id # "lifetime"
      [] pass = "align" -> MemIntrinsic(f) => f.params = 5
      [] OTHER -> (Looks(t, f) => DefaultAS(f)) /\ Renamed(t, f)

KeyAt(fs, p) == IF p <= Len(fs) THEN fs[p].key ELSE End
Reached(t, pass, fs, key) ==
    \E p \in 1 .. Len(fs) + 1 :
        key = KeyAt(fs, p) /\ \A n \in 1 .. p - 1 : Visited(t, pass, fs[n])
CursorInv ==
    \A pass \in Loops : IsTurn(target, turn, pass) => Reached(target, pass, funcs, cursor)
AllVisited(t, pass, fs) == \A n \in 1 .. Len(fs) : Visited(t, pass, fs[n])
LoopsInv ==
    \A pass \in Loops : Over(target, turn, pass) => AllVisited(target, pass, funcs)

-----------------------------------------------------------------------------
(* The other passes *)

FlagsInv ==
    /\ Len(flags) = Len(unit.flags)
    /\ \A n \in 1 .. Len(flags) : Representable(flags[n]) <=> Representable(unit.flags[n])
    /\ Over(target, turn, "flags") => \A n \in 1 .. Len(flags) : Representable(flags[n])

\* Inexpressible, with the calls and the target named.
Unspoken(t, cs, f) ==
    /\ \E c \in cs : c.callee = f.key
    /\ \/ t < 70 /\ f.id = "dispatch_ptr"
       \/ f.as # <<>> /\ f.id = "ptrmask"
CheckInv ==
    Over(target, turn, "check") =>
        \A n \in 1 .. Len(funcs) : ~ Unspoken(target, calls, funcs[n])
HintsInv ==
    /\ DOMAIN attrs = DOMAIN unit.attrs
    /\ \A site \in DOMAIN attrs : unit.attrs[site] \ attrs[site] \subseteq RangeKinds
    /\ \A r \in unit.records \ records : r.kind = "declare_value"
Rejected(t, u) ==
    \/ t <= 140 /\ \E n \in 1 .. Len(u.flags) : ~ Representable(u.flags[n])
    \/ \E n \in 1 .. Len(u.funcs) : Looks(t, u.funcs[n]) /\ ~ DefaultAS(u.funcs[n])
    \/ \E n \in 1 .. Len(u.funcs) :
         /\ t <= 70
         /\ u.funcs[n].id = "ptrmask" \/ (u.funcs[n].id = "dispatch_ptr" /\ t < 70)
         /\ \E c \in u.calls : c.callee = u.funcs[n].key

PreparationInv ==
    /\ TypeInv /\ FunctionsInv /\ CallsInv /\ CursorInv /\ LoopsInv
    /\ FlagsInv /\ CheckInv /\ HintsInv
    /\ failed => Rejected(target, unit)

-----------------------------------------------------------------------------
(* How names are told apart *)

\* The intrinsics whose names change.
LEMMA KnownNames ==
  DOMAIN MangledFrom = {"vastart", "vaend", "vacopy", "stacksave", "stackrestore",
        "thread_pointer", "returnaddress", "clear_cache", "prefetch", "memcpy",
        "memmove", "memset"}
BY DEF MangledFrom

\* The ones without a mangling in a target: the renaming looks at their
\* address space, or it is not looked at.
LEMMA Unmangled ==
  ASSUME NEW t \in Targets, NEW f, Known(f.id)
  PROVE  /\ t < MangledFrom[f.id] => Looks(t, f) \/ Unchecked(t, f)
         /\ MemIntrinsic(f) => ~ (t < MangledFrom[f.id])
<1>1. t < MangledFrom[f.id] => Looks(t, f) \/ Unchecked(t, f)
  BY KnownNames DEF Known, MangledFrom, Targets, Looks, Unchecked
<1>2. MemIntrinsic(f) => ~ (t < MangledFrom[f.id])
  BY DEF MangledFrom, Targets, MemIntrinsic
<1> QED BY <1>1, <1>2

\* The mangling of a list of address spaces.
LEMMA SpacesAre ==
  ASSUME NEW list \in Seq(Nat), NEW pointer \in Tokens
  PROVE  /\ Spaces(pointer, list) \in Seq(Tokens \X Nat)
         /\ Len(Spaces(pointer, list)) = Len(list)
         /\ \A k \in 1 .. Len(list) : Spaces(pointer, list)[k] = <<pointer, list[k]>>
<1>1. DOMAIN list = 1 .. Len(list) /\ Len(list) \in Nat
  OBVIOUS
<1>2. \A k \in 1 .. Len(list) : <<pointer, list[k]>> \in Tokens \X Nat
  OBVIOUS
<1> QED BY <1>1, <1>2 DEF Spaces

\* The width of a memory intrinsic.
LEMMA WidthsAre ==
  ASSUME NEW f, f.bits \in Nat
  PROVE  /\ Widths(f) \in Seq(Tokens \X Nat)
         /\ Len(Widths(f)) = IF f.bits = 0 THEN 0 ELSE 1
         /\ f.bits # 0 => Widths(f)[1] = <<"i", f.bits>>
<1>1. CASE f.bits = 0
  BY <1>1 DEF Widths
<1>2. CASE f.bits # 0
  <2>1. Widths(f) = <<Width(f.bits)>> /\ Width(f.bits) = <<"i", f.bits>>
    BY <1>2 DEF Widths, Width
  <2>2. <<"i", f.bits>> \in Tokens \X Nat
    BY DEF Tokens
  <2> QED BY <1>2, <2>1, <2>2
<1> QED BY <1>1, <1>2

\* A mangled name tells the address spaces and the width of a function,
\* whatever it calls its pointers.
LEMMA MangledApart ==
  ASSUME NEW f, NEW g, Shaped(f), Shaped(g), f.id = g.id, Known(f.id),
         Len(f.as) = Len(g.as), NEW p \in Tokens, NEW q \in Tokens,
         Spaces(p, f.as) \o Widths(f) = Spaces(q, g.as) \o Widths(g)
  PROVE  f.as = g.as /\ f.bits = g.bits
<1> DEFINE a == Spaces(p, f.as)
           b == Spaces(q, g.as)
           v == Widths(f)
           w == Widths(g)
           N == Len(f.as)
           S == Tokens \X Nat
<1>1. /\ f.as \in Seq(Nat) /\ g.as \in Seq(Nat) /\ f.bits \in Nat /\ g.bits \in Nat
      /\ f.bits # 0 <=> g.bits # 0
  BY DEF Shaped, MemIntrinsic
<1>2. /\ a \in Seq(S) /\ b \in Seq(S) /\ v \in Seq(S) /\ w \in Seq(S)
      /\ Len(a) = N /\ Len(b) = N /\ N \in Nat
      /\ \A k \in 1 .. N : a[k] = <<p, f.as[k]>> /\ b[k] = <<q, g.as[k]>>
      /\ f.bits # 0 => Len(v) = 1 /\ Len(w) = 1 /\ v[1] = <<"i", f.bits>> /\ w[1] = <<"i", g.bits>>
  <2>1. /\ a \in Seq(S) /\ Len(a) = Len(f.as)
        /\ \A k \in 1 .. Len(f.as) : a[k] = <<p, f.as[k]>>
    BY <1>1, SpacesAre
  <2>2. /\ b \in Seq(S) /\ Len(b) = Len(g.as)
        /\ \A k \in 1 .. Len(g.as) : b[k] = <<q, g.as[k]>>
    BY <1>1, SpacesAre
  <2>3. /\ v \in Seq(S) /\ w \in Seq(S)
        /\ f.bits # 0 => Len(v) = 1 /\ v[1] = <<"i", f.bits>>
        /\ g.bits # 0 => Len(w) = 1 /\ w[1] = <<"i", g.bits>>
    BY <1>1, WidthsAre
  <2>4. Len(f.as) \in Nat
    BY <1>1
  <2> HIDE DEF a, b, v, w, S
  <2> QED BY <1>1, <2>1, <2>2, <2>3, <2>4
<1>3. a \o v = b \o w
  OBVIOUS
<1> HIDE DEF a, b, v, w, N, S
<1>4. /\ \A k \in 1 .. Len(a) + Len(v) :
           (a \o v)[k] = IF k <= Len(a) THEN a[k] ELSE v[k - Len(a)]
      /\ \A k \in 1 .. Len(b) + Len(w) :
           (b \o w)[k] = IF k <= Len(b) THEN b[k] ELSE w[k - Len(b)]
      /\ Len(v) \in Nat /\ Len(w) \in Nat
  <2>1. /\ a \in Seq(S) /\ v \in Seq(S) /\ b \in Seq(S) /\ w \in Seq(S)
        /\ Len(v) \in Nat /\ Len(w) \in Nat
    BY <1>2
  <2>2. \A k \in 1 .. Len(a) + Len(v) :
          (a \o v)[k] = IF k <= Len(a) THEN a[k] ELSE v[k - Len(a)]
    BY <2>1, ConcatProperties
  <2>3. \A k \in 1 .. Len(b) + Len(w) :
          (b \o w)[k] = IF k <= Len(b) THEN b[k] ELSE w[k - Len(b)]
    BY <2>1, ConcatProperties
  <2> QED BY <2>1, <2>2, <2>3
<1>5. ASSUME NEW k \in 1 .. N PROVE f.as[k] = g.as[k]
  <2>1. k \in 1 .. Len(a) + Len(v) /\ k \in 1 .. Len(b) + Len(w) /\ k <= Len(a) /\ k <= Len(b)
    BY <1>2, <1>4
  <2>2. a[k] = b[k]
    BY <1>3, <1>4, <2>1
  <2>3. <<p, f.as[k]>> = <<q, g.as[k]>>
    BY <1>2, <2>2
  <2> QED BY <2>3
<1>6. f.as = g.as
  <2>1. Len(f.as) = Len(g.as) /\ \A k \in 1 .. Len(f.as) : f.as[k] = g.as[k]
    BY <1>5 DEF N
  <2> QED BY <1>1, <2>1, SeqEqual
<1>7. f.bits = g.bits
  <2>1. CASE f.bits # 0
    <3>1. Len(v) = 1 /\ Len(w) = 1 /\ v[1] = <<"i", f.bits>> /\ w[1] = <<"i", g.bits>>
      BY <1>2, <2>1
    <3>2. PICK k \in Nat : k = N + 1
      BY <1>2
    <3>3. /\ k \in 1 .. Len(a) + Len(v) /\ ~ (k <= Len(a)) /\ k - Len(a) = 1
          /\ k \in 1 .. Len(b) + Len(w) /\ ~ (k <= Len(b)) /\ k - Len(b) = 1
      BY <1>2, <3>1, <3>2
    <3>5. (a \o v)[k] = v[1] /\ (b \o w)[k] = w[1]
      <4>1. (a \o v)[k] = v[k - Len(a)] /\ (b \o w)[k] = w[k - Len(b)]
        BY <1>4, <3>3
      <4> QED BY <3>3, <4>1
    <3>6. v[1] = w[1]
      BY <1>3, <3>5
    <3>4. <<"i", f.bits>> = <<"i", g.bits>>
      BY <3>1, <3>6
    <3> QED BY <3>4
  <2>2. CASE f.bits = 0
    BY <1>1, <2>2
  <2> QED BY <2>1, <2>2
<1> QED BY <1>6, <1>7

\* The names of a function, in full.
LEMMA NamesAre ==
  ASSUME NEW f
  PROVE  /\ Modern(f) = Named(f.id, Spaces("p", f.as) \o Widths(f))
         /\ Spelling(f) = Spelled(target, f)
<1>1. [k \in DOMAIN f.as |-> Host(f.as[k])] = Spaces("p", f.as)
  BY DEF Spaces, Host
<1>2. CASE target < 150
  <2>1. [k \in DOMAIN f.as |-> IF target < 150 THEN Typed(f.as[k]) ELSE Host(f.as[k])]
          = Spaces("pi8", f.as)
    BY <1>2 DEF Spaces, Typed
  <2> QED BY <1>1, <1>2, <2>1 DEF Modern, Spelling, Spelled, Mangled
<1>3. CASE ~ (target < 150)
  <2>1. [k \in DOMAIN f.as |-> IF target < 150 THEN Typed(f.as[k]) ELSE Host(f.as[k])]
          = Spaces("p", f.as)
    BY <1>3 DEF Spaces, Host
  <2> QED BY <1>1, <1>3, <2>1 DEF Modern, Spelling, Spelled, Mangled
<1> QED BY <1>2, <1>3

\* Two intrinsics of one kind that could be called the same are the same.
LEMMA SpelledApart ==
  ASSUME NEW t \in Targets, NEW f, NEW g, Shaped(f), Shaped(g), f.id = g.id, Known(f.id),
         Len(f.as) = Len(g.as),
         \/ Spelled(t, f).mangling = Modern(g).mangling
         \/ /\ Spelled(t, f).mangling = Spelled(t, g).mangling
            /\ t < MangledFrom[f.id] => DefaultAS(f) /\ DefaultAS(g)
  PROVE  f.as = g.as /\ f.bits = g.bits
<1>1. /\ f.as \in Seq(Nat) /\ g.as \in Seq(Nat) /\ f.bits \in Nat /\ g.bits \in Nat
      /\ f.bits # 0 <=> g.bits # 0
      /\ f.bits # 0 <=> MemIntrinsic(f)
  BY DEF Shaped, MemIntrinsic
<1>2. Modern(g).mangling = Spaces("p", g.as) \o Widths(g)
  <2>1. Modern(g) = [base |-> g.id, mangling |-> Spaces("p", g.as) \o Widths(g), extra |-> 0]
    BY NamesAre DEF Named
  <2> QED BY <2>1
<1>3. CASE t < MangledFrom[f.id]
  <2>1. f.bits = 0 /\ g.bits = 0
    BY <1>1, <1>3, Unmangled
  <2>2. Spelled(t, f).mangling = <<>>
    BY <1>3 DEF Spelled, Named
  <2>3. CASE Modern(g).mangling = <<>>
    <3>1. Spaces("p", g.as) \in Seq(Tokens \X Nat) /\ Widths(g) \in Seq(Tokens \X Nat)
          /\ Len(Spaces("p", g.as)) = Len(g.as)
      BY <1>1, SpacesAre, WidthsAre DEF Tokens
    <3>2. Len(Spaces("p", g.as) \o Widths(g)) = Len(g.as) + Len(Widths(g))
      <4> DEFINE a == Spaces("p", g.as)
                 w == Widths(g)
                 S == Tokens \X Nat
      <4>1. a \in Seq(S) /\ w \in Seq(S) /\ Len(a) = Len(g.as)
        BY <3>1
      <4> HIDE DEF a, w, S
      <4>2. Len(a \o w) = Len(a) + Len(w)
        BY <4>1, ConcatProperties
      <4> QED BY <4>1, <4>2 DEF a, w
    <3>3. Len(g.as) = 0
      <4>1. Len(g.as) + Len(Widths(g)) = 0
        BY <1>2, <2>3, <3>2
      <4>2. Len(g.as) \in Nat /\ Len(Widths(g)) \in Nat
        BY <1>1, <3>1
      <4> QED BY <4>1, <4>2
    <3>4. f.as = g.as
      BY <1>1, <3>3, SeqEqual
    <3> QED BY <2>1, <3>4
  <2>4. CASE DefaultAS(f) /\ DefaultAS(g)
    <3>1. \A k \in 1 .. Len(f.as) : f.as[k] = 0 /\ g.as[k] = 0
      BY <1>1, <2>4 DEF DefaultAS
    <3>2. f.as = g.as
      BY <1>1, <3>1, SeqEqual
    <3> QED BY <2>1, <3>2
  <2> QED BY <1>3, <2>2, <2>3, <2>4
<1>4. CASE ~ (t < MangledFrom[f.id])
  <2>1. PICK p \in Tokens : /\ Spelled(t, f).mangling = Spaces(p, f.as) \o Widths(f)
                            /\ Spelled(t, g).mangling = Spaces(p, g.as) \o Widths(g)
    <3>1. (IF t < 150 THEN "pi8" ELSE "p") \in Tokens
      BY DEF Tokens
    <3> QED BY <1>4, <3>1 DEF Spelled, Mangled, Named
  <2>2. PICK q \in Tokens : Spaces(p, f.as) \o Widths(f) = Spaces(q, g.as) \o Widths(g)
    <3>1. "p" \in Tokens
      BY DEF Tokens
    <3> QED BY <1>2, <2>1, <3>1
  <2> QED BY <2>2, MangledApart
<1> QED BY <1>3, <1>4

\* The renaming gives an intrinsic the name that the target has for it, or
\* leaves it the one it has.
LEMMA NewNames ==
  ASSUME target \in Targets, NEW f, Shaped(f)
  PROVE  /\ Known(f.id) =>
              \/ NewName(f) = {Spelled(target, f)}
              \/ NewName(f) = {} /\ Spelled(target, f) = Modern(f)
         /\ ~ Known(f.id) => NewName(f) = {}
<1>1. /\ Modern(f) = Named(f.id, Spaces("p", f.as) \o Widths(f))
      /\ ~ (target < MangledFrom[f.id]) /\ ~ (target < 150) => Spelled(target, f) = Modern(f)
      /\ target < MangledFrom[f.id] => Spelled(target, f) = Named(f.id, <<>>)
  BY NamesAre DEF Spelled, Mangled
<1>2. ASSUME ~ Known(f.id) PROVE NewName(f) = {}
  BY <1>2, KnownNames DEF Known, NewName, renamed180, renamed200, legacyIntrinsicName
<1>3. CASE Known(f.id) /\ target = 200
  <2>1. CASE f.id \in {"thread_pointer", "returnaddress", "clear_cache"}
    <3>1. target < MangledFrom[f.id]
      BY <1>3, <2>1 DEF MangledFrom
    <3> QED BY <1>1, <1>3, <2>1, <3>1 DEF NewName, renamed200
  <2>2. CASE f.id \notin {"thread_pointer", "returnaddress", "clear_cache"}
    <3>1. ~ (target < MangledFrom[f.id])
      BY <1>3, <2>2, KnownNames DEF Known, MangledFrom
    <3> QED BY <1>1, <1>3, <2>2, <3>1 DEF NewName, renamed200
  <2> QED BY <2>1, <2>2
<1>4. CASE Known(f.id) /\ target = 180
  <2> DEFINE Bare == {"vastart", "vaend", "vacopy", "thread_pointer", "returnaddress",
                      "clear_cache"}
  <2>1. CASE f.id \in Bare
    <3>1. target < MangledFrom[f.id]
      BY <1>4, <2>1 DEF MangledFrom
    <3> QED BY <1>1, <1>4, <2>1, <3>1 DEF NewName, renamed180
  <2>2. CASE f.id \notin Bare
    <3>1. ~ (target < MangledFrom[f.id])
      BY <1>4, <2>2, KnownNames DEF Known, MangledFrom
    <3> QED BY <1>1, <1>4, <2>2, <3>1 DEF NewName, renamed180
  <2> QED BY <2>1, <2>2
<1>5. CASE Known(f.id) /\ target \in {50, 70, 140}
  <2>1. NewName(f) = legacyIntrinsicName(f)
    BY <1>5 DEF NewName
  <2>2. CASE f.id \in {"vastart", "vaend", "vacopy", "stacksave", "stackrestore",
                       "thread_pointer", "returnaddress", "clear_cache"}
    <3>1. target < MangledFrom[f.id]
      BY <1>5, <2>2 DEF MangledFrom
    <3>2. legacyIntrinsicName(f) = {Named(f.id, <<>>)}
      BY <2>2 DEF legacyIntrinsicName
    <3> QED BY <1>1, <1>5, <2>1, <3>1, <3>2
  <2>3. CASE f.id = "prefetch"
    <3>1. legacyIntrinsicName(f) =
            {Named(f.id, IF Major >= 10 THEN <<Typed(f.as[1])>> ELSE <<>>)}
      BY <2>3 DEF legacyIntrinsicName
    <3>2. CASE target = 140
      <4>1. f.as \in Seq(Nat) /\ Len(f.as) = 1 /\ f.bits = 0
        BY <1>5, <2>3 DEF Shaped, MemIntrinsic
      <4>2. Spaces("pi8", f.as) = <<Typed(f.as[1])>>
        <5>1. Spaces("pi8", f.as) \in Seq(Tokens \X Nat) /\ Len(Spaces("pi8", f.as)) = 1
              /\ Spaces("pi8", f.as)[1] = <<"pi8", f.as[1]>>
          BY <4>1, SpacesAre DEF Tokens
        <5> QED BY <5>1 DEF Typed
      <4>3. Mangled(target, f) = <<Typed(f.as[1])>>
        <5>1. Widths(f) = <<>>
          BY <4>1 DEF Widths
        <5> QED BY <3>2, <4>2, <5>1 DEF Mangled
      <4>4. ~ (target < MangledFrom[f.id]) /\ Major >= 10
        BY <2>3, <3>2 DEF MangledFrom, Major
      <4> QED BY <1>5, <2>1, <3>1, <4>3, <4>4 DEF Spelled
    <3>3. CASE target # 140
      <4>1. target < MangledFrom[f.id] /\ ~ (Major >= 10)
        BY <1>5, <2>3, <3>3 DEF MangledFrom, Major
      <4> QED BY <1>1, <1>5, <2>1, <3>1, <4>1
    <3> QED BY <3>2, <3>3
  <2>4. CASE f.id \in {"memcpy", "memmove", "memset"}
    <3>1. legacyIntrinsicName(f) =
            {Named(f.id, [k \in DOMAIN f.as |-> Typed(f.as[k])] \o <<Width(f.bits)>>)}
      BY <2>4 DEF legacyIntrinsicName
    <3>2. [k \in DOMAIN f.as |-> Typed(f.as[k])] = Spaces("pi8", f.as)
      BY DEF Spaces, Typed
    <3>3. Widths(f) = <<Width(f.bits)>>
      BY <1>5, <2>4 DEF Shaped, MemIntrinsic, Widths
    <3>4. ~ (target < MangledFrom[f.id]) /\ target < 150
      BY <1>5, <2>4 DEF MangledFrom
    <3> QED BY <1>5, <2>1, <3>1, <3>2, <3>3, <3>4 DEF Spelled, Mangled
  <2> QED BY <1>5, <2>2, <2>3, <2>4, KnownNames DEF Known
<1> QED BY <1>2, <1>3, <1>4, <1>5 DEF Targets
-----------------------------------------------------------------------------
(* Lists of functions *)

\* The elements of a list are functions.
LEMMA ListElements ==
  ASSUME NEW fs, List(fs)
  PROVE  /\ Len(fs) \in Nat /\ DOMAIN fs = 1 .. Len(fs)
         /\ \A n \in 1 .. Len(fs) :
              /\ fs[n].key \in Keys /\ fs[n].key # End
              /\ fs[n].id \in STRING /\ fs[n].as \in Seq(Nat)
              /\ fs[n].bits \in Nat /\ fs[n].params \in Nat
<1>1. PICK names : fs \in Seq(Anonymous(names))
  BY DEF List
<1>2. Len(fs) \in Nat /\ DOMAIN fs = 1 .. Len(fs)
  BY <1>1
<1>3. ASSUME NEW n \in 1 .. Len(fs) PROVE fs[n] \in Anonymous(names)
  BY <1>1, <1>3
<1>4. ASSUME NEW k \in Keys PROVE k # End
  BY <1>4 DEF Keys, End
<1> QED BY <1>2, <1>3, <1>4 DEF Anonymous

\* A sequence of elements of a set is one of any larger set.
LEMMA SeqMonotone ==
  ASSUME NEW S, NEW T, S \subseteq T, NEW s \in Seq(S)
  PROVE  s \in Seq(T)
<1>1. Len(s) \in Nat /\ s \in [1 .. Len(s) -> S]
  OBVIOUS
<1>2. s \in [1 .. Len(s) -> T]
  BY <1>1
<1> QED BY <1>1, <1>2, SeqDef

\* The iterator at the head of a list.
LEMMA FirstKey ==
  ASSUME NEW fs, List(fs)
  PROVE  FirstOf(fs) = KeyAt(fs, 1)
<1>1. PICK names : fs \in Seq(Anonymous(names))
  BY DEF List
<1> QED BY <1>1, EmptySeq DEF FirstOf, KeyAt

\* Keys tell the functions of a list apart, so the iterator names one place.
LEMMA CursorPlace ==
  ASSUME List(funcs), Apart(funcs), NEW p \in 1 .. Len(funcs) + 1,
         cursor = KeyAt(funcs, p), cursor # End
  PROVE  /\ p \in 1 .. Len(funcs) /\ Position(cursor) = p
         /\ After(cursor) = KeyAt(funcs, p + 1)
<1>1. PICK names : funcs \in Seq(Anonymous(names))
  BY DEF List
<1>2. p \in 1 .. Len(funcs) /\ cursor = funcs[p].key
  BY <1>1 DEF KeyAt
<1>3. Position(cursor) = p
  <2>1. \A n \in DOMAIN funcs : funcs[n].key = cursor => n = p
    BY <1>1, <1>2 DEF Apart
  <2>2. p \in DOMAIN funcs /\ funcs[p].key = cursor
    BY <1>1, <1>2
  <2> QED BY <2>1, <2>2 DEF Position
<1> DEFINE rest == SubSeq(funcs, p + 1, Len(funcs))
<1>4. /\ rest \in Seq(Anonymous(names))
      /\ Len(rest) = IF p + 1 <= Len(funcs) THEN Len(funcs) - (p + 1) + 1 ELSE 0
  <2>1. \A n \in p + 1 .. Len(funcs) : funcs[n] \in Anonymous(names)
    BY <1>1, <1>2
  <2> QED BY <2>1, <1>1, <1>2, SubSeqProperties
<1>5. p + 1 <= Len(funcs) => rest[1] = funcs[p + 1]
  <2>1. \A n \in p + 1 .. Len(funcs) : funcs[n] \in Anonymous(names)
    BY <1>1, <1>2
  <2>2. \A n \in 1 .. Len(funcs) - (p + 1) + 1 : rest[n] = funcs[(p + 1) + n - 1]
    BY <2>1, <1>1, <1>2, SubSeqProperties
  <2> QED BY <2>2, <1>1, <1>2
<1> HIDE DEF rest
<1>6. FirstOf(rest) = KeyAt(rest, 1)
  BY <1>4, FirstKey DEF List
<1>7. KeyAt(rest, 1) = KeyAt(funcs, p + 1)
  BY <1>1, <1>2, <1>4, <1>5 DEF KeyAt
<1>8. After(cursor) = FirstOf(rest)
  BY <1>3 DEF After, rest
<1> QED BY <1>2, <1>3, <1>6, <1>7, <1>8

\* Beyond the last function the iterator is the end, and only there.
LEMMA CursorEnd ==
  ASSUME NEW fs, List(fs), NEW p \in 1 .. Len(fs) + 1, KeyAt(fs, p) = End
  PROVE  p = Len(fs) + 1
BY ListElements DEF KeyAt

-----------------------------------------------------------------------------
(* The passes of a target *)

\* The passes of each target, in order.
LEMMA PassesAre ==
  ASSUME NEW t \in Targets
  PROVE  /\ t = 50 => Passes(t) =
              <<"freeze", "fneg", "lifetime", "align", "names", "flags", "check">>
         /\ t = 70 => Passes(t) =
              <<"freeze", "fneg", "lifetime", "names", "flags", "check">>
         /\ t = 140 => Passes(t) = <<"attrs", "lifetime", "names", "flags">>
         /\ t = 180 => Passes(t) = <<"attrs", "names", "lifetime">>
         /\ t = 200 => Passes(t) = <<"names", "lifetime", "records">>
BY DEF Passes, Targets

\* Which targets have which pass, and where.
LEMMA PassesOf ==
  ASSUME NEW t \in Targets
  PROVE  /\ t \in Nat /\ Len(Passes(t)) \in Nat
         /\ \A k \in 1 .. Len(Passes(t)) :
              /\ Passes(t)[k] = "check" => k = Len(Passes(t)) /\ t <= 70
              /\ Passes(t)[k] = "flags" => t <= 140
              /\ Passes(t)[k] = "align" => t < 70
         /\ \A pass \in {"lifetime", "names"} : Over(t, Len(Passes(t)) + 1, pass)
         /\ t <= 140 => Over(t, Len(Passes(t)) + 1, "flags")
         /\ t <= 70 => Over(t, Len(Passes(t)) + 1, "check")
         /\ t < 70 => Over(t, Len(Passes(t)) + 1, "align")
<1>1. CASE t = 50
  <2>1. Passes(t) = <<"freeze", "fneg", "lifetime", "align", "names", "flags", "check">>
    BY <1>1, PassesAre
  <2>2. Len(Passes(t)) = 7
    BY <2>1
  <2>3. /\ Passes(t)[3] = "lifetime"
        /\ Passes(t)[4] = "align"
        /\ Passes(t)[5] = "names"
        /\ Passes(t)[6] = "flags"
        /\ Passes(t)[7] = "check"
    BY <2>1
  <2>4. ASSUME NEW k \in 1 .. 7
        PROVE  /\ Passes(t)[k] = "check" => k = 7
    BY <2>1
  <2>5. /\ Over(t, 8, "lifetime")
        /\ Over(t, 8, "align")
        /\ Over(t, 8, "names")
        /\ Over(t, 8, "flags")
        /\ Over(t, 8, "check")
    BY <2>3 DEF Over
  <2>6. Len(Passes(t)) + 1 = 8 /\ Len(Passes(t)) \in Nat
    BY <2>2
  <2>7. \A pass \in {"lifetime", "names"} : Over(t, Len(Passes(t)) + 1, pass)
    BY <2>5, <2>6
  <2>8. ASSUME NEW k \in 1 .. Len(Passes(t))
        PROVE  /\ Passes(t)[k] = "check" => k = Len(Passes(t)) /\ t <= 70
               /\ Passes(t)[k] = "flags" => t <= 140
               /\ Passes(t)[k] = "align" => t < 70
    <3>1. k \in 1 .. 7
      BY <2>2
    <3>2. Passes(t)[k] = "check" => k = 7
      BY <3>1, <2>4
    <3>3. Passes(t)[k] = "check" => k = Len(Passes(t))
      BY <3>2, <2>2
    <3> QED BY <1>1, <3>3
  <2> QED BY <1>1, <2>5, <2>6, <2>7, <2>8
<1>2. CASE t = 70
  <2>1. Passes(t) = <<"freeze", "fneg", "lifetime", "names", "flags", "check">>
    BY <1>2, PassesAre
  <2>2. Len(Passes(t)) = 6
    BY <2>1
  <2>3. /\ Passes(t)[3] = "lifetime"
        /\ Passes(t)[4] = "names"
        /\ Passes(t)[5] = "flags"
        /\ Passes(t)[6] = "check"
    BY <2>1
  <2>4. ASSUME NEW k \in 1 .. 6
        PROVE  /\ Passes(t)[k] = "check" => k = 6
               /\ Passes(t)[k] # "align"
    BY <2>1
  <2>5. /\ Over(t, 7, "lifetime")
        /\ Over(t, 7, "names")
        /\ Over(t, 7, "flags")
        /\ Over(t, 7, "check")
    BY <2>3 DEF Over
  <2>6. Len(Passes(t)) + 1 = 7 /\ Len(Passes(t)) \in Nat
    BY <2>2
  <2>7. \A pass \in {"lifetime", "names"} : Over(t, Len(Passes(t)) + 1, pass)
    BY <2>5, <2>6
  <2>8. ASSUME NEW k \in 1 .. Len(Passes(t))
        PROVE  /\ Passes(t)[k] = "check" => k = Len(Passes(t)) /\ t <= 70
               /\ Passes(t)[k] = "flags" => t <= 140
               /\ Passes(t)[k] = "align" => t < 70
    <3>1. k \in 1 .. 6
      BY <2>2
    <3>2. Passes(t)[k] = "check" => k = 6
      BY <3>1, <2>4
    <3>3. Passes(t)[k] = "check" => k = Len(Passes(t))
      BY <3>2, <2>2
    <3>4. Passes(t)[k] # "align"
      BY <3>1, <2>4
    <3> QED BY <1>2, <3>3, <3>4
  <2> QED BY <1>2, <2>5, <2>6, <2>7, <2>8
<1>3. CASE t = 140
  <2>1. Passes(t) = <<"attrs", "lifetime", "names", "flags">>
    BY <1>3, PassesAre
  <2> QED BY <1>3, <2>1 DEF Over
<1>4. CASE t = 180
  <2>1. Passes(t) = <<"attrs", "names", "lifetime">>
    BY <1>4, PassesAre
  <2> QED BY <1>4, <2>1 DEF Over
<1>5. CASE t = 200
  <2>1. Passes(t) = <<"names", "lifetime", "records">>
    BY <1>5, PassesAre
  <2> QED BY <1>5, <2>1 DEF Over
<1> QED BY <1>1, <1>2, <1>3, <1>4, <1>5 DEF Targets

-----------------------------------------------------------------------------
(* The module as it was parsed *)

\* What the verifier has seen to.
LEMMA UnitFunctions ==
  ASSUME NEW u \in Units
  PROVE  /\ List(u.funcs) /\ u.calls \subseteq Calls /\ u.flags \in Seq(Flags)
         /\ Apart(u.funcs)
         /\ \A n \in 1 .. Len(u.funcs) :
              /\ u.funcs[n].key[2] = 0
              /\ MemIntrinsic(u.funcs[n]) => u.funcs[n].params = 4
              /\ u.funcs[n].id = "ptrmask" => u.funcs[n].as # <<>>
<1>1. Verified(u)
  BY UnitsAssumption
<1>2. u.funcs \in Seq(Functions) /\ u.calls \subseteq Calls /\ u.flags \in Seq(Flags)
  BY <1>1 DEF Verified
<1>3. List(u.funcs)
  BY <1>2 DEF List, Anonymous, Functions
<1>4. DOMAIN u.funcs = 1 .. Len(u.funcs)
  BY <1>2
<1>5. \A n \in 1 .. Len(u.funcs) :
        /\ u.funcs[n].key[2] = 0
        /\ MemIntrinsic(u.funcs[n]) => u.funcs[n].params = 4
        /\ u.funcs[n].id = "ptrmask" => u.funcs[n].as # <<>>
  BY <1>1, <1>4 DEF Verified
<1>6. ASSUME NEW m \in 1 .. Len(u.funcs), NEW n \in 1 .. Len(u.funcs),
             u.funcs[m].key[1] = u.funcs[n].key[1]
      PROVE  m = n
  <2>1. u.funcs[m].key \in Keys /\ u.funcs[n].key \in Keys
    BY <1>3, ListElements
  <2>2. u.funcs[m].key = u.funcs[n].key
    BY <2>1, <1>5, <1>6 DEF Keys
  <2> QED BY <2>2, <1>1, <1>4 DEF Verified
<1> QED BY <1>2, <1>3, <1>5, <1>6 DEF Apart

\* A parsed call calls a parsed function and is the only one at its place.
LEMMA UnitCalls ==
  ASSUME NEW u \in Units, NEW c \in u.calls
  PROVE  /\ c \in Calls /\ \A d \in u.calls : c.at = d.at => c = d
         /\ \E n \in 1 .. Len(u.funcs) :
              /\ c.callee = u.funcs[n].key /\ c.args = u.funcs[n].params
              /\ MemIntrinsic(u.funcs[n]) => Len(c.align) = Pointers(u.funcs[n])
<1>1. Verified(u)
  BY UnitsAssumption
<1>2. u.calls \subseteq Calls /\ DOMAIN u.funcs = 1 .. Len(u.funcs)
  BY <1>1 DEF Verified
<1> QED BY <1>1, <1>2 DEF Verified

\* A parsed intrinsic spells its overloaded types, and no other function has
\* its name.
LEMMA UnitNames ==
  ASSUME NEW u \in Units, NEW n \in 1 .. Len(u.funcs)
  PROVE  /\ Shaped(u.funcs[n])
         /\ Known(u.funcs[n].id) \/ Known(u.funcs[n].name.base) =>
              u.funcs[n].name = Modern(u.funcs[n])
         /\ Known(u.funcs[n].id) =>
              \A m \in 1 .. Len(u.funcs) :
                 u.funcs[m].id = u.funcs[n].id => Len(u.funcs[m].as) = Len(u.funcs[n].as)
         /\ \A m \in 1 .. Len(u.funcs) : u.funcs[m].name = u.funcs[n].name => m = n
<1> DEFINE f == u.funcs[n]
<1>1. Verified(u)
  BY UnitsAssumption
<1>2. DOMAIN u.funcs = 1 .. Len(u.funcs)
  BY <1>1 DEF Verified
<1>3. f.as \in Seq(Nat) /\ f.bits \in Nat
  BY UnitFunctions, ListElements
<1>4. Known(f.id) \/ Known(f.name.base) =>
        /\ f.name = Modern(f)
        /\ f.bits # 0 <=> MemIntrinsic(f)
        /\ f.id = "prefetch" => Len(f.as) = 1
        /\ \A m \in 1 .. Len(u.funcs) : u.funcs[m].id = f.id => Len(u.funcs[m].as) = Len(f.as)
  <2>1. Known(f.id) \/ Known(f.name.base) => {f.id, f.name.base} \cap DOMAIN MangledFrom # {}
    BY DEF Known
  <2> QED BY <1>1, <1>2, <2>1 DEF Verified
<1>5. \A m \in 1 .. Len(u.funcs) : u.funcs[m].name = f.name => m = n
  BY <1>1, <1>2 DEF Verified
<1> QED BY <1>3, <1>4, <1>5 DEF Shaped

\* A call of a list of functions and the parsed one it was.
LEMMA Origin ==
  ASSUME NEW t, NEW u \in Units, NEW fs, NEW cs, List(fs), cs \subseteq Calls,
         Parsed(t, u, fs), CallsMade(u, fs, cs), NEW c \in cs
  PROVE  \E d \in u.calls, n \in 1 .. Len(fs), m \in 1 .. Len(u.funcs) :
            /\ Becomes(d, c, fs[n]) /\ StandsFor(t, fs[n], u.funcs[m])
            /\ d.callee = u.funcs[m].key /\ d.align \in Seq(Nat)
            /\ d.args = u.funcs[m].params
            /\ MemIntrinsic(fs[n]) => Len(d.align) = Pointers(fs[n])
<1>1. PICK d \in u.calls, n \in 1 .. Len(fs) : Becomes(d, c, fs[n])
  BY DEF CallsMade
<1>2. PICK m \in 1 .. Len(u.funcs) : StandsFor(t, fs[n], u.funcs[m])
  BY DEF Parsed
<1>3. /\ d \in Calls
      /\ \E k \in 1 .. Len(u.funcs) :
           /\ d.callee = u.funcs[k].key /\ d.args = u.funcs[k].params
           /\ MemIntrinsic(u.funcs[k]) => Len(d.align) = Pointers(u.funcs[k])
  BY UnitCalls
<1>4. PICK k \in 1 .. Len(u.funcs) :
           /\ d.callee = u.funcs[k].key /\ d.args = u.funcs[k].params
           /\ MemIntrinsic(u.funcs[k]) => Len(d.align) = Pointers(u.funcs[k])
  BY <1>3
<1>5. u.funcs[k].key[1] = u.funcs[m].key[1] /\ u.funcs[m].id = fs[n].id
  BY <1>1, <1>2, <1>4 DEF Becomes, StandsFor, Same
<1>6. k = m
  BY <1>5, UnitFunctions DEF Apart
<1>7. MemIntrinsic(fs[n]) => Len(d.align) = Pointers(fs[n])
  BY <1>4, <1>5, <1>6 DEF MemIntrinsic, Pointers
<1>8. d.align \in Seq(Nat)
  BY <1>3 DEF Calls
<1> QED BY <1>1, <1>2, <1>4, <1>6, <1>7, <1>8

\* The alignment of a call of a memory intrinsic.
LEMMA LeastAlignment ==
  ASSUME NEW f, NEW d, MemIntrinsic(f), d.align \in Seq(Nat), Len(d.align) = Pointers(f)
  PROVE  /\ MinAlign(f, d) \in Nat
         /\ Least(Range(d.align)) = MinAlign(f, d)
<1> DEFINE a == d.align
<1>1. a \in Seq(Nat) /\ Range(a) = {a[k] : k \in 1 .. Len(a)}
  BY DEF Range
<1>2. CASE f.id = "memset"
  <2>1. Len(a) = 1 /\ a[1] \in Nat
    BY <1>1, <1>2 DEF Pointers
  <2>2. Range(a) = {a[1]}
    BY <1>1, <2>1
  <2>3. MinAlign(f, d) = a[1]
    BY <1>2 DEF MinAlign
  <2> QED BY <2>1, <2>2, <2>3 DEF Least
<1>3. CASE f.id # "memset"
  <2>1. Len(a) = 2 /\ a[1] \in Nat /\ a[2] \in Nat
    BY <1>1, <1>3 DEF Pointers
  <2>2. Range(a) = {a[1], a[2]}
    BY <1>1, <2>1
  <2>3. MinAlign(f, d) = IF a[2] < a[1] THEN a[2] ELSE a[1]
    BY <1>3 DEF MinAlign
  <2> DEFINE l == MinAlign(f, d)
  <2>4. l \in Range(a) /\ \A n \in Range(a) : l <= n
    BY <2>1, <2>2, <2>3
  <2>5. \A n \in Range(a) : (\A m \in Range(a) : n <= m) => n = l
    BY <2>1, <2>2, <2>4
  <2>6. Least(Range(a)) = l
    BY <2>4, <2>5 DEF Least
  <2> QED BY <2>6, <2>3, <2>1
<1> QED BY <1>2, <1>3

-----------------------------------------------------------------------------
(* A new name *)

\* What the passes have kept of a parsed function.
LEMMA ShapeKept ==
  ASSUME NEW u \in Units, NEW f, NEW m \in 1 .. Len(u.funcs), Same(f, u.funcs[m])
  PROVE  Shaped(f)
<1>1. Shaped(u.funcs[m])
  BY UnitNames
<1> QED BY <1>1 DEF Same, Shaped, MemIntrinsic

\* Of a module without the gap, a function whose name has lost its mangling
\* has no pointer outside address space 0.
LEMMA UnmangledDefault ==
  ASSUME NEW t \in Targets, NEW u \in Units, NEW f, NEW m \in 1 .. Len(u.funcs),
         Same(f, u.funcs[m]), ~ Gap(t, u), Known(f.id), t < MangledFrom[f.id],
         Looks(t, f) => DefaultAS(f)
  PROVE  DefaultAS(f)
<1>1. CASE Looks(t, f)
  BY <1>1
<1>2. CASE Unchecked(t, f)
  <2>1. Unchecked(t, u.funcs[m])
    BY <1>2 DEF Same, Unchecked
  <2>2. DefaultAS(u.funcs[m])
    BY <2>1 DEF Gap
  <2> QED BY <2>2 DEF DefaultAS, Same
<1> QED BY <1>1, <1>2, Unmangled

\* A name with another number.
LEMMA WithNumber ==
  ASSUME NEW f, NEW t, NEW extra
  PROVE  /\ [Spelled(t, f) EXCEPT !.extra = extra] = With(Spelled(t, f), extra)
         /\ With(Spelled(t, f), 0) = Spelled(t, f)
         /\ With(Modern(f), 0) = Modern(f)
         /\ Spelled(t, f).base = f.id /\ Modern(f).base = f.id
BY DEF Spelled, Modern, Named, With

\* Of a module without the gap no function has the name that another gets.
LEMMA NameFree ==
  ASSUME unit \in Units, target \in Targets, List(funcs), FunctionsInv,
         ~ Gap(target, unit), NEW p \in 1 .. Len(funcs), Known(funcs[p].id),
         Looks(target, funcs[p]) => DefaultAS(funcs[p]),
         NEW o \in 1 .. Len(funcs), funcs[o].name = Spelled(target, funcs[p])
  PROVE  o = p
<1> DEFINE f == funcs[p]
           g == funcs[o]
<1>1. PICK m \in 1 .. Len(unit.funcs), n \in 1 .. Len(unit.funcs) :
        /\ StandsFor(target, f, unit.funcs[m]) /\ StandsFor(target, g, unit.funcs[n])
  BY DEF FunctionsInv, Parsed
<1>2. Same(f, unit.funcs[m]) /\ Same(g, unit.funcs[n])
  BY <1>1 DEF StandsFor
<1>3. Shaped(f) /\ Shaped(g)
  BY <1>2, ShapeKept
<1>4. PICK extra : /\ extra = 0
                   /\ \/ g.name = With(Modern(g), extra)
                      \/ /\ g.name = With(Spelled(target, g), extra)
                         /\ Looks(target, g) => DefaultAS(g)
  <2>1. Known(g.name.base)
    BY WithNumber
  <2>2. WellNamed(target, unit, g)
    BY DEF FunctionsInv, AllNamed
  <2> QED BY <2>1, <2>2 DEF WellNamed
<1>5. \/ g.name = Modern(g)
      \/ g.name = Spelled(target, g) /\ (Looks(target, g) => DefaultAS(g))
  <2>1. With(Modern(g), 0) = Modern(g) /\ With(Spelled(target, g), 0) = Spelled(target, g)
    BY WithNumber
  <2>2. \/ g.name = With(Modern(g), 0)
        \/ g.name = With(Spelled(target, g), 0) /\ (Looks(target, g) => DefaultAS(g))
    BY <1>4
  <2> QED BY <2>1, <2>2
<1>6. g.id = f.id
  <2>1. Spelled(target, f).base = f.id /\ Spelled(target, g).base = g.id /\ Modern(g).base = g.id
    BY WithNumber
  <2>2. g.name = Spelled(target, f)
    OBVIOUS
  <2> QED BY <1>5, <2>1, <2>2
<1>7. Len(f.as) = Len(g.as)
  <2>1. Known(unit.funcs[m].id) /\ unit.funcs[n].id = unit.funcs[m].id
    BY <1>2, <1>6 DEF Same
  <2>2. Len(unit.funcs[n].as) = Len(unit.funcs[m].as)
    BY <2>1, UnitNames
  <2> QED BY <1>2, <2>2 DEF Same
<1>8. \/ Spelled(target, f).mangling = Modern(g).mangling
      \/ /\ Spelled(target, f).mangling = Spelled(target, g).mangling
         /\ target < MangledFrom[f.id] => DefaultAS(f) /\ DefaultAS(g)
  <2>1. CASE g.name = Modern(g)
    BY <2>1
  <2>2. CASE g.name = Spelled(target, g) /\ (Looks(target, g) => DefaultAS(g))
    <3>1. target < MangledFrom[f.id] => DefaultAS(f)
      BY <1>2, UnmangledDefault
    <3>2. target < MangledFrom[g.id] => DefaultAS(g)
      BY <1>2, <1>6, <2>2, UnmangledDefault
    <3> QED BY <1>6, <2>2, <3>1, <3>2
  <2> QED BY <1>5, <2>1, <2>2
<1>9. f.as = g.as /\ f.bits = g.bits
  BY <1>3, <1>6, <1>7, <1>8, SpelledApart
<1>10. unit.funcs[m].name = unit.funcs[n].name
  <2>1. /\ unit.funcs[m].id = unit.funcs[n].id /\ unit.funcs[m].as = unit.funcs[n].as
        /\ unit.funcs[m].bits = unit.funcs[n].bits
    BY <1>2, <1>6, <1>9 DEF Same
  <2>2. Modern(unit.funcs[m]) = Modern(unit.funcs[n])
    BY <2>1 DEF Modern, Widths
  <2>3. Known(unit.funcs[m].id) /\ Known(unit.funcs[n].id)
    BY <1>2, <1>6 DEF Same
  <2> QED BY <2>2, <2>3, UnitNames
<1>11. m = n
  BY <1>10, UnitNames
<1>12. f.key[1] = g.key[1]
  BY <1>2, <1>11 DEF Same
<1> QED BY <1>12 DEF FunctionsInv, Apart

\* The name that setName gives is the wanted one, with a number that is none
\* where the module has no gap.
LEMMA NameSet ==
  ASSUME unit \in Units, target \in Targets, List(funcs), FunctionsInv,
         NEW p \in 1 .. Len(funcs), Known(funcs[p].id),
         Looks(target, funcs[p]) => DefaultAS(funcs[p])
  PROVE  \E extra : /\ Gap(target, unit) \/ extra = 0
                    /\ SetName(funcs[p], Spelled(target, funcs[p]))
                         = With(Spelled(target, funcs[p]), extra)
<1> DEFINE f == funcs[p]
           name == Spelled(target, f)
           taken == {funcs[n].name : n \in {m \in DOMAIN funcs : funcs[m].key # f.key}}
           free == {k \in 0 .. Len(funcs) : [name EXCEPT !.extra = k] \notin taken}
           least == CHOOSE k \in free : \A l \in free : k <= l
<1>1. SetName(f, name) = [name EXCEPT !.extra = least]
  BY DEF SetName
<1> HIDE DEF least
<1>2. SetName(f, name) = With(name, least)
  BY <1>1, WithNumber
<1>3. ASSUME ~ Gap(target, unit) PROVE least = 0
  <2>1. DOMAIN funcs = 1 .. Len(funcs) /\ Len(funcs) \in Nat
    BY ListElements
  <2>2. name \notin taken
    <3>1. SUFFICES ASSUME NEW o \in 1 .. Len(funcs), funcs[o].key # f.key,
                          funcs[o].name = name
                   PROVE  FALSE
      BY <2>1
    <3>2. o = p
      BY <1>3, <3>1, NameFree
    <3> QED BY <3>1, <3>2
  <2>3. [name EXCEPT !.extra = 0] = name
    <3>1. [name EXCEPT !.extra = 0] = With(name, 0)
      BY WithNumber
    <3>2. With(name, 0) = name
      BY WithNumber
    <3> QED BY <3>1, <3>2
  <2>4. 0 \in free
    BY <2>1, <2>2, <2>3
  <2>5. free \subseteq Nat
    BY <2>1
  <2> HIDE DEF free
  <2>6. \A l \in free : 0 <= l
    BY <2>5
  <2>7. least \in free /\ \A l \in free : least <= l
    BY <2>4, <2>6 DEF least
  <2> QED BY <2>4, <2>5, <2>7
<1> QED BY <1>2, <1>3

\* The renaming gives a function the name its target has for it.
LEMMA NewNameRight ==
  ASSUME unit \in Units, target \in Targets, List(funcs), FunctionsInv,
         NEW p \in 1 .. Len(funcs), Looks(target, funcs[p]) => DefaultAS(funcs[p]),
         NEW g, g.id = funcs[p].id, g.as = funcs[p].as, g.bits = funcs[p].bits,
         g.name = IF \E name \in NewName(funcs[p]) : funcs[p].name # name
                  THEN SetName(funcs[p], CHOOSE name \in NewName(funcs[p]) : TRUE)
                  ELSE funcs[p].name
  PROVE  WellNamed(target, unit, g) /\ Renamed(target, g)
<1> DEFINE f == funcs[p]
<1>1. WellNamed(target, unit, f)
  BY DEF FunctionsInv, AllNamed
<1>2. Shaped(f)
  <2>1. PICK m \in 1 .. Len(unit.funcs) : StandsFor(target, f, unit.funcs[m])
    BY DEF FunctionsInv, Parsed
  <2>2. Same(f, unit.funcs[m])
    BY <2>1 DEF StandsFor
  <2> QED BY <2>2, ShapeKept
<1>3. /\ Spelled(target, g) = Spelled(target, f) /\ Modern(g) = Modern(f)
      /\ Looks(target, g) <=> Looks(target, f)
      /\ DefaultAS(g) <=> DefaultAS(f)
  BY DEF Spelled, Mangled, Modern, Widths, Looks, DefaultAS
<1>4. CASE Known(f.id) /\ NewName(f) = {Spelled(target, f)}
  <2>1. PICK extra : /\ Gap(target, unit) \/ extra = 0
                     /\ SetName(f, Spelled(target, f)) = With(Spelled(target, f), extra)
    BY <1>4, NameSet
  <2>2. CASE f.name = Spelled(target, f)
    <3>1. g.name = f.name
      BY <1>4, <2>2
    <3>2. g.name = With(Spelled(target, g), 0)
      BY <1>3, <2>2, <3>1, WithNumber
    <3> QED BY <1>3, <3>2 DEF WellNamed, Renamed
  <2>3. CASE f.name # Spelled(target, f)
    <3>1. (CHOOSE name \in NewName(f) : TRUE) = Spelled(target, f)
      BY <1>4
    <3>2. g.name = SetName(f, Spelled(target, f))
      BY <1>4, <2>3, <3>1
    <3>3. g.name = With(Spelled(target, g), extra)
      BY <1>3, <2>1, <3>2
    <3> QED BY <1>3, <2>1, <3>3 DEF WellNamed, Renamed
  <2> QED BY <2>2, <2>3
<1>5. CASE Known(f.id) /\ NewName(f) = {} /\ Spelled(target, f) = Modern(f)
  <2>1. g.name = f.name
    BY <1>5
  <2>2. WellNamed(target, unit, g)
    BY <1>1, <1>3, <2>1 DEF WellNamed
  <2>3. PICK extra : f.name = With(Spelled(target, f), extra)
    BY <1>1, <1>5 DEF WellNamed
  <2> QED BY <1>3, <2>1, <2>2, <2>3 DEF Renamed
<1>6. CASE ~ Known(f.id)
  <2>1. NewName(f) = {}
    BY <1>2, <1>6, NewNames
  <2>2. g.name = f.name
    BY <2>1
  <2>3. WellNamed(target, unit, g)
    BY <1>1, <1>3, <2>2 DEF WellNamed
  <2> QED BY <1>6, <2>3 DEF Renamed
<1> QED BY <1>2, <1>4, <1>5, <1>6, NewNames

-----------------------------------------------------------------------------
(* A step of any pass *)

\* A step that leaves the lists, the iterator and the flags alone.
LEMMA SameTurn ==
  ASSUME PreparationInv, failed' \in BOOLEAN, failed' => Rejected(target, unit),
         UNCHANGED <<unit, target, turn, cursor, funcs, calls, flags, attrs, records>>
  PROVE  PreparationInv'
<1>1. TypeInv'
  BY DEF PreparationInv, TypeInv
<1>2. FunctionsInv' /\ CallsInv'
  BY DEF PreparationInv, FunctionsInv, CallsInv
<1>3. CursorInv' /\ LoopsInv'
  BY DEF PreparationInv, CursorInv, LoopsInv
<1>4. FlagsInv' /\ CheckInv' /\ HintsInv'
  BY DEF PreparationInv, FlagsInv, CheckInv, HintsInv
<1> QED BY <1>1, <1>2, <1>3, <1>4 DEF PreparationInv

\* What is behind a turn once the pass of this turn has ended.
LEMMA OverNext ==
  ASSUME NEW t, NEW k \in Nat \ {0}, NEW pass, IsTurn(t, k, pass), NEW q
  PROVE  Over(t, k + 1, q) => Over(t, k, q) \/ q = pass
BY DEF Over, IsTurn

\* The end of a pass, which has left behind what it is for.
LEMMA NextTurn ==
  ASSUME PreparationInv, NEW pass, Running(pass), Finish,
         UNCHANGED <<unit, target, failed, funcs, calls>>,
         pass \in Loops => AllVisited(target, pass, funcs),
         pass = "check" => \A n \in 1 .. Len(funcs) : ~ Unspoken(target, calls, funcs[n]),
         flags' \in Seq(Flags), Len(flags') = Len(unit.flags),
         \A n \in 1 .. Len(flags') :
            Representable(flags'[n]) <=> Representable(unit.flags[n]),
         pass = "flags" \/ Over(target, turn, "flags") =>
            \A n \in 1 .. Len(flags') : Representable(flags'[n]),
         HintsInv'
  PROVE  PreparationInv'
<1>1. /\ target \in Targets /\ turn \in Nat \ {0} /\ IsTurn(target, turn, pass)
      /\ turn' = turn + 1 /\ turn' \in 1 .. Len(Passes(target)) + 1
  BY PassesOf DEF PreparationInv, TypeInv, Running, IsTurn, Finish
<1>2. TypeInv'
  BY <1>1 DEF PreparationInv, TypeInv
<1>3. FunctionsInv' /\ CallsInv'
  BY DEF PreparationInv, FunctionsInv, CallsInv
<1>4. ASSUME NEW q, Over(target, turn', q)
      PROVE  Over(target, turn, q) \/ q = pass
  BY <1>1, <1>4, OverNext
<1>5. CursorInv'
  <2>1. List(funcs) /\ cursor' = KeyAt(funcs, 1) /\ Len(funcs) \in Nat
    BY FirstKey, ListElements DEF PreparationInv, TypeInv, Finish
  <2>2. ASSUME NEW q \in Loops PROVE Reached(target, q, funcs, cursor')
    <3>1. 1 \in 1 .. Len(funcs) + 1 /\ \A n \in 1 .. 1 - 1 : Visited(target, q, funcs[n])
      BY <2>1
    <3> QED BY <2>1, <3>1 DEF Reached
  <2> QED BY <2>2 DEF CursorInv
<1>6. LoopsInv'
  <2>1. ASSUME NEW q \in Loops, Over(target, turn', q)
        PROVE  AllVisited(target, q, funcs)
    BY <1>4, <2>1 DEF PreparationInv, LoopsInv
  <2> QED BY <2>1 DEF LoopsInv
<1>7. FlagsInv'
  <2>1. Over(target, turn', "flags") => \A n \in 1 .. Len(flags') : Representable(flags'[n])
    BY <1>4
  <2> QED BY <2>1 DEF FlagsInv
<1>8. CheckInv'
  <2>1. ASSUME Over(target, turn', "check")
        PROVE  \A n \in 1 .. Len(funcs) : ~ Unspoken(target, calls, funcs[n])
    BY <1>4, <2>1 DEF PreparationInv, CheckInv
  <2> QED BY <2>1 DEF CheckInv
<1>9. failed' => Rejected(target', unit')
  BY DEF PreparationInv
<1> QED BY <1>2, <1>3, <1>5, <1>6, <1>7, <1>8, <1>9 DEF PreparationInv

\* A turn of a loop over the functions: nothing an earlier loop has left
\* behind is undone, and the check of the intrinsics comes after every loop.
LEMMA LoopTurn ==
  ASSUME PreparationInv, NEW pass \in Loops, Running(pass),
         UNCHANGED <<unit, target, turn, failed, flags, attrs, records>>,
         List(funcs'), calls' \subseteq Calls, FunctionsInv', CallsInv',
         Reached(target, pass, funcs', cursor'),
         \A q \in Loops : AllVisited(target, q, funcs) => AllVisited(target, q, funcs')
  PROVE  PreparationInv'
<1>1. target \in Targets /\ turn \in 1 .. Len(Passes(target)) /\ Passes(target)[turn] = pass
  BY PassesOf DEF PreparationInv, TypeInv, Running
<1>2. TypeInv'
  BY DEF PreparationInv, TypeInv
<1>3. CursorInv'
  BY <1>1 DEF CursorInv, IsTurn
<1>4. LoopsInv'
  BY DEF PreparationInv, LoopsInv
<1>5. FlagsInv' /\ HintsInv'
  BY DEF PreparationInv, FlagsInv, HintsInv
<1>6. ~ Over(target, turn, "check")
  <2>1. ASSUME NEW l \in 1 .. turn - 1 PROVE Passes(target)[l] # "check"
    <3>1. Len(Passes(target)) \in Nat
      BY <1>1, PassesOf
    <3>2. l \in 1 .. Len(Passes(target)) /\ l # Len(Passes(target))
      BY <1>1, <3>1
    <3> QED BY <1>1, <3>2, PassesOf
  <2> QED BY <2>1 DEF Over
<1>7. CheckInv'
  BY <1>6 DEF CheckInv
<1>8. failed' => Rejected(target', unit')
  BY DEF PreparationInv
<1> QED BY <1>2, <1>3, <1>4, <1>5, <1>7, <1>8 DEF PreparationInv

\* Where a turn of a loop starts.
LEMMA LoopStart ==
  ASSUME PreparationInv, NEW pass \in Loops, Running(pass), cursor # End
  PROVE  \E p \in 1 .. Len(funcs) :
            /\ cursor = funcs[p].key /\ Position(cursor) = p
            /\ After(cursor) = KeyAt(funcs, p + 1)
            /\ \A n \in 1 .. p - 1 : Visited(target, pass, funcs[n])
<1>1. List(funcs) /\ Apart(funcs)
  BY DEF PreparationInv, TypeInv, FunctionsInv
<1>2. Reached(target, pass, funcs, cursor)
  BY DEF PreparationInv, CursorInv, Running, IsTurn
<1>3. PICK p \in 1 .. Len(funcs) + 1 :
        cursor = KeyAt(funcs, p) /\ \A n \in 1 .. p - 1 : Visited(target, pass, funcs[n])
  BY <1>2 DEF Reached
<1>4. /\ p \in 1 .. Len(funcs) /\ Position(cursor) = p
      /\ After(cursor) = KeyAt(funcs, p + 1)
  BY <1>1, <1>3, CursorPlace
<1>5. cursor = funcs[p].key
  BY <1>1, <1>3, <1>4, ListElements DEF KeyAt
<1> QED BY <1>3, <1>4, <1>5

-----------------------------------------------------------------------------
(* The passes without a list to walk *)

\* The renaming looks at an address space where Looks says so.
LEMMA LooksAt ==
  ASSUME target \in Targets, NEW f
  PROVE  ChecksSpace(f) <=> Looks(target, f)
<1>1. CASE target = 200
  BY <1>1 DEF ChecksSpace, NewName, renamed200, Looks
<1>2. CASE target = 180
  BY <1>2 DEF ChecksSpace, NewName, renamed180, Looks
<1>3. CASE target \in {50, 70, 140}
  BY <1>3 DEF ChecksSpace, Looks
<1> QED BY <1>1, <1>2, <1>3 DEF Targets

\* The check looks for what Unspoken says.
LEMMA UnspokenIs ==
  ASSUME target \in Targets, NEW f
  PROVE  Inexpressible(f) <=> Unspoken(target, calls, f)
<1>1. Major < 7 <=> target < 70
  BY DEF Major, Targets
<1> QED BY <1>1 DEF Inexpressible, Unspoken, HasTypedSignature

\* The passes over the instructions touch no function and no call.
LEMMA InstructionsStep ==
  ASSUME PreparationInv, removeFreeze \/ replaceFNeg
  PROVE  PreparationInv'
<1>1. CASE Finish /\ UNCHANGED insts
  <2>1. PICK pass \in {"freeze", "fneg"} : Running(pass)
    BY DEF removeFreeze, replaceFNeg
  <2>2. pass \notin Loops /\ pass # "check" /\ pass # "flags"
    BY <2>1 DEF Loops
  <2>3. UNCHANGED <<unit, target, failed, funcs, calls, flags, attrs, records>>
    BY DEF removeFreeze, replaceFNeg
  <2>4. HintsInv'
    BY <2>3 DEF PreparationInv, HintsInv
  <2>5. /\ flags' \in Seq(Flags) /\ Len(flags') = Len(unit.flags)
        /\ \A n \in 1 .. Len(flags') :
             Representable(flags'[n]) <=> Representable(unit.flags[n])
        /\ Over(target, turn, "flags") =>
             \A n \in 1 .. Len(flags') : Representable(flags'[n])
    BY <2>3 DEF PreparationInv, TypeInv, FlagsInv
  <2> QED BY <1>1, <2>1, <2>2, <2>3, <2>4, <2>5, NextTurn
<1>2. CASE UNCHANGED <<turn, cursor>>
  <2>1. UNCHANGED <<unit, target, turn, cursor, failed, funcs, calls, flags, attrs, records>>
    BY <1>2 DEF removeFreeze, replaceFNeg
  <2>2. failed' \in BOOLEAN /\ (failed' => Rejected(target, unit))
    BY <2>1 DEF PreparationInv, TypeInv
  <2> QED BY <2>1, <2>2, SameTurn
<1> QED BY <1>1, <1>2 DEF removeFreeze, replaceFNeg

\* A loop whose iterator is at the end has visited every function.
LEMMA LoopDoneStep ==
  ASSUME PreparationInv, loopDone
  PROVE  PreparationInv'
<1>1. PICK pass \in Loops : Running(pass)
  BY DEF loopDone
<1>2. UNCHANGED <<unit, target, failed, funcs, calls, flags, attrs, records>> /\ Finish
  BY DEF loopDone, program
<1>3. AllVisited(target, pass, funcs)
  <2>1. Reached(target, pass, funcs, End) /\ List(funcs)
    BY <1>1 DEF loopDone, PreparationInv, TypeInv, CursorInv, Running, IsTurn
  <2>2. PICK p \in 1 .. Len(funcs) + 1 :
          End = KeyAt(funcs, p) /\ \A n \in 1 .. p - 1 : Visited(target, pass, funcs[n])
    BY <2>1 DEF Reached
  <2>3. p = Len(funcs) + 1 /\ Len(funcs) \in Nat
    BY <2>1, <2>2, CursorEnd, ListElements
  <2> QED BY <2>2, <2>3 DEF AllVisited
<1>4. pass # "check" /\ pass # "flags"
  BY <1>1 DEF Loops
<1>5. HintsInv'
  BY <1>2 DEF PreparationInv, HintsInv
<1>6. /\ flags' \in Seq(Flags) /\ Len(flags') = Len(unit.flags)
      /\ \A n \in 1 .. Len(flags') :
           Representable(flags'[n]) <=> Representable(unit.flags[n])
      /\ Over(target, turn, "flags") =>
           \A n \in 1 .. Len(flags') : Representable(flags'[n])
  BY <1>2 DEF PreparationInv, TypeInv, FlagsInv
<1> QED BY <1>1, <1>2, <1>3, <1>4, <1>5, <1>6, NextTurn

\* A flag that has no form rejects the module; the others keep being expressible.
LEMMA FlagsStep ==
  ASSUME PreparationInv, downgradeModuleFlags
  PROVE  PreparationInv'
<1>1. /\ target \in Targets /\ flags \in Seq(Flags) /\ failed \in BOOLEAN
      /\ Len(flags) = Len(unit.flags)
      /\ \A n \in 1 .. Len(flags) : Representable(flags[n]) <=> Representable(unit.flags[n])
  BY DEF PreparationInv, TypeInv, FlagsInv
<1>2. UNCHANGED <<unit, target, funcs, calls, insts, attrs, records>> /\ Running("flags")
  BY DEF downgradeModuleFlags
<1>3. DOMAIN flags = 1 .. Len(flags) /\ Len(flags) \in Nat
  BY <1>1
<1>4. CASE /\ \A n \in DOMAIN flags : Representable(flags[n])
           /\ flags' = [n \in DOMAIN flags |-> LegacyFlag(flags[n])]
           /\ Finish /\ UNCHANGED failed
  <2>1. ASSUME NEW n \in 1 .. Len(flags)
        PROVE  LegacyFlag(flags[n]) \in Flags /\ Representable(LegacyFlag(flags[n]))
    <3>1. flags[n] \in Flags
      BY <1>1
    <3>2. CASE flags[n].behavior <= MaxBehavior
      BY <3>1, <3>2 DEF LegacyFlag, Representable
    <3>3. CASE ~ (flags[n].behavior <= MaxBehavior)
      <4>1. LegacyFlag(flags[n]) = [flags[n] EXCEPT !.behavior = MaxBehavior]
        BY <3>3 DEF LegacyFlag
      <4>2. LegacyFlag(flags[n]) \in Flags /\ LegacyFlag(flags[n]).behavior = MaxBehavior
        BY <4>1, <3>1 DEF Flags, MaxBehavior
      <4> QED BY <4>2 DEF Representable, MaxBehavior
    <3> QED BY <3>2, <3>3
  <2>2. flags' = [n \in 1 .. Len(flags) |-> LegacyFlag(flags[n])]
    BY <1>3, <1>4
  <2>3. /\ flags' \in Seq(Flags) /\ Len(flags') = Len(flags)
        /\ \A n \in 1 .. Len(flags) : Representable(flags'[n])
    BY <1>3, <2>1, <2>2
  <2>4. \A n \in 1 .. Len(flags') :
          Representable(flags'[n]) <=> Representable(unit.flags[n])
    BY <1>1, <1>3, <1>4, <2>3
  <2>5. HintsInv'
    BY <1>2 DEF PreparationInv, HintsInv
  <2>6. Len(flags') = Len(unit.flags) /\ \A n \in 1 .. Len(flags') : Representable(flags'[n])
    BY <2>3, <1>1
  <2>7. "flags" \notin Loops /\ "flags" # "check"
    BY DEF Loops
  <2>8. UNCHANGED <<unit, target, failed, funcs, calls>> /\ Finish
    BY <1>2, <1>4
  <2>9. flags' \in Seq(Flags)
    BY <2>3
  <2> QED BY <1>2, <2>4, <2>5, <2>6, <2>7, <2>8, <2>9, NextTurn
<1>5. CASE /\ \E n \in DOMAIN flags : ~ Representable(flags[n])
           /\ Fail /\ UNCHANGED flags
  <2>1. target <= 140
    BY <1>1, <1>2, PassesOf DEF PreparationInv, TypeInv, Running
  <2>2. \E n \in 1 .. Len(unit.flags) : ~ Representable(unit.flags[n])
    BY <1>1, <1>3, <1>5
  <2>3. Rejected(target, unit)
    BY <2>1, <2>2 DEF Rejected
  <2>4. UNCHANGED <<unit, target, turn, cursor, funcs, calls, flags, attrs, records>>
    BY <1>2, <1>5 DEF Fail
  <2> QED BY <1>5, <2>3, <2>4, SameTurn DEF Fail
<1> QED BY <1>4, <1>5 DEF downgradeModuleFlags

\* The check rejects for a function that was parsed with a call to it.
LEMMA CheckStep ==
  ASSUME PreparationInv, checkIntrinsics
  PROVE  PreparationInv'
<1>1. /\ UNCHANGED <<unit, target, funcs, calls, flags, attrs, records>>
      /\ Running("check")
  BY DEF checkIntrinsics, program
<1>2. /\ target \in Targets /\ unit \in Units /\ List(funcs) /\ calls \subseteq Calls
      /\ Parsed(target, unit, funcs) /\ CallsMade(unit, funcs, calls)
  BY DEF PreparationInv, TypeInv, FunctionsInv, CallsInv
<1>3. DOMAIN funcs = 1 .. Len(funcs)
  BY <1>2, ListElements
<1>4. CASE \E n \in DOMAIN funcs : Inexpressible(funcs[n])
  <2>1. PICK k \in 1 .. Len(funcs) : Unspoken(target, calls, funcs[k])
    BY <1>2, <1>3, <1>4, UnspokenIs
  <2>2. PICK c \in calls : c.callee = funcs[k].key
    BY <2>1 DEF Unspoken
  <2>3. PICK d \in unit.calls, n \in 1 .. Len(funcs), m \in 1 .. Len(unit.funcs) :
          /\ Becomes(d, c, funcs[n]) /\ StandsFor(target, funcs[n], unit.funcs[m])
          /\ d.callee = unit.funcs[m].key
    BY <1>2, <2>2, Origin
  <2>4. funcs[n].key[1] = funcs[k].key[1]
    BY <2>2, <2>3 DEF Becomes
  <2>5. n = k
    BY <2>4 DEF PreparationInv, FunctionsInv, Apart
  <2>6. funcs[k].id = unit.funcs[m].id
    BY <2>3, <2>5 DEF StandsFor, Same
  <2>7. target <= 70
    BY <1>1, <1>2, PassesOf DEF PreparationInv, TypeInv, Running
  <2>8. Rejected(target, unit)
    <3>1. unit.funcs[m].id = "ptrmask" \/ (unit.funcs[m].id = "dispatch_ptr" /\ target < 70)
      BY <2>1, <2>6 DEF Unspoken
    <3> QED BY <2>3, <2>7, <3>1 DEF Rejected
  <2>9. Fail
    BY <1>4 DEF checkIntrinsics
  <2> QED BY <1>1, <2>8, <2>9, SameTurn DEF Fail
<1>5. CASE ~ (\E n \in DOMAIN funcs : Inexpressible(funcs[n]))
  <2>1. Finish /\ UNCHANGED failed
    BY <1>5 DEF checkIntrinsics
  <2>2. \A n \in 1 .. Len(funcs) : ~ Unspoken(target, calls, funcs[n])
    BY <1>2, <1>3, <1>5, UnspokenIs
  <2>3. "check" \notin Loops /\ "check" # "flags"
    BY DEF Loops
  <2>4. HintsInv'
    BY <1>1 DEF PreparationInv, HintsInv
  <2>5. /\ flags' \in Seq(Flags) /\ Len(flags') = Len(unit.flags)
        /\ \A n \in 1 .. Len(flags') :
             Representable(flags'[n]) <=> Representable(unit.flags[n])
        /\ Over(target, turn, "flags") =>
             \A n \in 1 .. Len(flags') : Representable(flags'[n])
    BY <1>1 DEF PreparationInv, TypeInv, FlagsInv
  <2> QED BY <1>1, <2>1, <2>2, <2>3, <2>4, <2>5, NextTurn
<1> QED BY <1>4, <1>5

\* Attributes and debug records lose what they may lose.
LEMMA HintsStep ==
  ASSUME PreparationInv, stripUnsupportedAttrs \/ dropDeclareValueRecords
  PROVE  PreparationInv'
<1>1. PICK pass \in {"attrs", "records"} : Running(pass)
  BY DEF stripUnsupportedAttrs, dropDeclareValueRecords
<1>2. UNCHANGED <<unit, target, failed, funcs, calls, flags>> /\ Finish
  BY DEF stripUnsupportedAttrs, dropDeclareValueRecords
<1>3. pass \notin Loops /\ pass # "check" /\ pass # "flags"
  BY <1>1 DEF Loops
<1>4. HintsInv'
  <2>1. HintsInv
    BY DEF PreparationInv
  <2>2. CASE stripUnsupportedAttrs
    <3>1. UNCHANGED <<unit, records>> /\ attrs' = [site \in DOMAIN attrs |-> attrs[site] \ RangeKinds]
      BY <2>2 DEF stripUnsupportedAttrs
    <3>2. DOMAIN attrs' = DOMAIN attrs
      BY <3>1
    <3>3. \A site \in DOMAIN attrs : attrs'[site] = attrs[site] \ RangeKinds
      BY <3>1
    <3>4. ASSUME NEW site \in DOMAIN attrs
          PROVE  unit.attrs[site] \ attrs'[site] \subseteq RangeKinds
      BY <3>3, <2>1 DEF HintsInv
    <3> QED BY <2>1, <3>1, <3>2, <3>4 DEF HintsInv
  <2>3. CASE dropDeclareValueRecords
    <3>1. /\ UNCHANGED <<unit, attrs>>
          /\ records' = {r \in records : r.kind # "declare_value"}
      BY <2>3 DEF dropDeclareValueRecords
    <3> QED BY <2>1, <3>1 DEF HintsInv
  <2> QED BY <2>2, <2>3
<1>5. /\ flags' \in Seq(Flags) /\ Len(flags') = Len(unit.flags)
      /\ \A n \in 1 .. Len(flags') :
           Representable(flags'[n]) <=> Representable(unit.flags[n])
      /\ Over(target, turn, "flags") =>
           \A n \in 1 .. Len(flags') : Representable(flags'[n])
  BY <1>2 DEF PreparationInv, TypeInv, FlagsInv
<1> QED BY <1>1, <1>2, <1>3, <1>4, <1>5, NextTurn

-----------------------------------------------------------------------------
(* The loops over the functions *)

\* A new name changes nothing else; an address space without a name rejects.
LEMMA RenameStep ==
  ASSUME PreparationInv, renameIntrinsic
  PROVE  PreparationInv'
<1>1. /\ target \in Targets /\ List(funcs) /\ Len(funcs) \in Nat
      /\ calls \subseteq Calls /\ failed \in BOOLEAN
  BY ListElements DEF PreparationInv, TypeInv
<1>2. /\ Running("names") /\ cursor # End /\ "names" \in Loops
      /\ UNCHANGED <<unit, target, calls, insts, flags, attrs, records>>
  BY DEF renameIntrinsic, Loops
<1>3. PICK p \in 1 .. Len(funcs) :
        /\ cursor = funcs[p].key /\ Position(cursor) = p
        /\ After(cursor) = KeyAt(funcs, p + 1)
        /\ \A n \in 1 .. p - 1 : Visited(target, "names", funcs[n])
  BY <1>2, LoopStart
<1> DEFINE f == funcs[p]
<1>4. ChecksSpace(f) <=> Looks(target, f)
  BY <1>1, LooksAt
<1>5. CASE ChecksSpace(f) /\ ~ DefaultAS(f)
  <2>1. Fail /\ UNCHANGED funcs
    BY <1>3, <1>5 DEF renameIntrinsic
  <2>2. PICK m \in 1 .. Len(unit.funcs) : StandsFor(target, f, unit.funcs[m])
    BY DEF PreparationInv, FunctionsInv, Parsed
  <2>3. unit.funcs[m].id = f.id /\ unit.funcs[m].as = f.as
    BY <2>2 DEF StandsFor, Same
  <2>4. Looks(target, unit.funcs[m]) /\ ~ DefaultAS(unit.funcs[m])
    BY <1>4, <1>5, <2>3 DEF Looks, DefaultAS
  <2>5. Rejected(target, unit)
    BY <2>4 DEF Rejected
  <2> QED BY <1>2, <2>1, <2>5, SameTurn DEF Fail
<1>6. CASE ~ (ChecksSpace(f) /\ ~ DefaultAS(f))
  <2>1. PICK name : /\ name = IF \E new \in NewName(f) : f.name # new
                              THEN SetName(f, CHOOSE new \in NewName(f) : TRUE)
                              ELSE f.name
                    /\ funcs' = [funcs EXCEPT ![p].name = name]
                    /\ cursor' = After(cursor) /\ UNCHANGED <<turn, failed>>
    BY <1>3, <1>6 DEF renameIntrinsic
  <2>2. PICK names : funcs \in Seq(Anonymous(names))
    BY <1>1 DEF List
  <2>3. /\ Len(funcs') = Len(funcs) /\ DOMAIN funcs' = 1 .. Len(funcs)
        /\ \A n \in 1 .. Len(funcs) :
             funcs'[n] = IF n = p THEN [f EXCEPT !.name = name] ELSE funcs[n]
    BY <2>1, <2>2
  <2>4. \A n \in 1 .. Len(funcs) : funcs[n] \in Anonymous(names)
    BY <2>2
  <2>5. ASSUME NEW n \in 1 .. Len(funcs)
        PROVE  /\ funcs'[n] \in Anonymous(names \cup {name})
               /\ funcs'[n].key = funcs[n].key /\ funcs'[n].id = funcs[n].id
               /\ funcs'[n].as = funcs[n].as /\ funcs'[n].bits = funcs[n].bits
               /\ funcs'[n].params = funcs[n].params
    <3>1. CASE n = p
      <4>1. funcs'[n] = [funcs[n] EXCEPT !.name = name] /\ funcs[n] \in Anonymous(names)
        BY <3>1, <2>3, <2>4
      <4> QED BY <4>1 DEF Anonymous
    <3>2. CASE n # p
      <4>1. funcs'[n] = funcs[n] /\ funcs[n] \in Anonymous(names)
        BY <3>2, <2>3, <2>4
      <4> QED BY <4>1 DEF Anonymous
    <3> QED BY <3>1, <3>2
  <2>13. /\ WellNamed(target, unit, funcs'[p]) /\ Renamed(target, funcs'[p])
         /\ \A n \in 1 .. Len(funcs) : n # p => funcs'[n] = funcs[n]
    <3>1. funcs'[p].name = name
      <4>1. funcs'[p] = [funcs[p] EXCEPT !.name = name] /\ funcs[p] \in Anonymous(names)
        BY <2>3, <2>4
      <4> QED BY <4>1 DEF Anonymous
    <3>2. Looks(target, f) => DefaultAS(f)
      BY <1>4, <1>6
    <3>3. unit \in Units /\ FunctionsInv
      BY DEF PreparationInv, TypeInv
    <3>4. funcs'[p].id = f.id /\ funcs'[p].as = f.as /\ funcs'[p].bits = f.bits
      BY <2>5
    <3>5. funcs'[p].name = IF \E new \in NewName(f) : f.name # new
                           THEN SetName(f, CHOOSE new \in NewName(f) : TRUE)
                           ELSE f.name
      BY <2>1, <3>1
    <3>6. WellNamed(target, unit, funcs'[p]) /\ Renamed(target, funcs'[p])
      BY <1>1, <3>2, <3>3, <3>4, <3>5, NewNameRight
    <3> QED BY <2>3, <3>6
  <2>6. List(funcs')
    <3>1. funcs \in Seq(Anonymous(names \cup {name}))
      <4>1. Anonymous(names) \subseteq Anonymous(names \cup {name})
        BY DEF Anonymous
      <4> QED BY <4>1, <2>2, SeqMonotone
    <3>2. [f EXCEPT !.name = name] \in Anonymous(names \cup {name})
      BY <2>3, <2>5
    <3>3. funcs' = [funcs EXCEPT ![p] = [f EXCEPT !.name = name]]
      BY <2>1
    <3>4. funcs' \in Seq(Anonymous(names \cup {name}))
      BY <3>1, <3>2, <3>3
    <3> QED BY <3>4 DEF List
  <2>7. FunctionsInv'
    <3>1. Apart(funcs')
      BY <2>3, <2>5 DEF PreparationInv, FunctionsInv, Apart
    <3>2. ASSUME NEW n \in 1 .. Len(funcs), NEW g
          PROVE  /\ StandsFor(target, funcs[n], g) => StandsFor(target, funcs'[n], g)
                 /\ Same(funcs[n], g) => Same(funcs'[n], g)
      BY <2>5 DEF StandsFor, Same, MemIntrinsic
    <3>3. Parsed(target, unit, funcs')
      BY <2>3, <3>2 DEF PreparationInv, FunctionsInv, Parsed
    <3>4. Kept(unit, funcs')
      BY <2>3, <3>2 DEF PreparationInv, FunctionsInv, Kept
    <3>5. AllNamed(target, unit, funcs')
      BY <2>3, <2>13 DEF PreparationInv, FunctionsInv, AllNamed
    <3> QED BY <1>2, <3>1, <3>3, <3>4, <3>5 DEF FunctionsInv
  <2>8. CallsInv'
    <3>1. ASSUME NEW n \in 1 .. Len(funcs), NEW d, NEW c
          PROVE  Becomes(d, c, funcs[n]) => Becomes(d, c, funcs'[n])
      BY <2>5 DEF Becomes, MinAlign
    <3>2. CallsMade(unit, funcs', calls)
      BY <2>3, <3>1 DEF PreparationInv, CallsInv, CallsMade
    <3>3. CallsLeft(unit, calls)
      BY DEF PreparationInv, CallsInv
    <3> QED BY <1>2, <3>2, <3>3 DEF CallsInv
  <2>9. ASSUME NEW pass, NEW n \in 1 .. Len(funcs), Visited(target, pass, funcs[n])
        PROVE  Visited(target, pass, funcs'[n])
    <3>1. CASE n = p
      <4>1. /\ MemIntrinsic(funcs'[p]) <=> MemIntrinsic(f)
            /\ Looks(target, funcs'[p]) <=> Looks(target, f)
            /\ DefaultAS(funcs'[p]) <=> DefaultAS(f)
        BY <2>5 DEF Looks, DefaultAS, MemIntrinsic
      <4> QED BY <2>5, <2>9, <2>13, <3>1, <4>1 DEF Visited
    <3>2. CASE n # p
      BY <2>9, <2>13, <3>2
    <3> QED BY <3>1, <3>2
  <2>10. \A q \in Loops : AllVisited(target, q, funcs) => AllVisited(target, q, funcs')
    BY <2>3, <2>9 DEF AllVisited
  <2>11. Reached(target, "names", funcs', cursor')
    <3>1. Visited(target, "names", funcs'[p])
      <4>1. /\ Looks(target, funcs'[p]) <=> Looks(target, f)
            /\ DefaultAS(funcs'[p]) <=> DefaultAS(f)
        BY <2>5 DEF Looks, DefaultAS
      <4> QED BY <1>4, <1>6, <2>13, <4>1 DEF Visited
    <3>2. ASSUME NEW n \in 1 .. p PROVE Visited(target, "names", funcs'[n])
      <4>1. n \in 1 .. Len(funcs) /\ (n = p \/ n \in 1 .. p - 1)
        BY <1>1
      <4>2. n # p => Visited(target, "names", funcs[n])
        BY <4>1, <1>3
      <4> QED BY <4>1, <4>2, <2>9, <3>1
    <3>3. p + 1 \in 1 .. Len(funcs') + 1 /\ (p + 1) - 1 = p
      BY <1>1, <2>3
    <3>4. cursor' = KeyAt(funcs', p + 1)
      <4>1. cursor' = KeyAt(funcs, p + 1)
        BY <1>3, <2>1
      <4> QED BY <4>1, <1>1, <2>3, <2>5 DEF KeyAt
    <3> QED BY <3>2, <3>3, <3>4 DEF Reached
  <2>12. UNCHANGED <<unit, target, turn, failed, flags, attrs, records>> /\ calls' \subseteq Calls
    BY <1>1, <1>2, <2>1
  <2> QED BY <1>2, <2>6, <2>7, <2>8, <2>10, <2>11, <2>12, LoopTurn
<1> QED BY <1>5, <1>6

\* A turn whose body does nothing.
LEMMA IdleTurn ==
  ASSUME PreparationInv, NEW pass \in Loops, Running(pass), cursor # End,
         Visited(target, pass, funcs[Position(cursor)]), cursor' = After(cursor),
         UNCHANGED <<unit, target, turn, failed, funcs, calls, flags, attrs, records>>
  PROVE  PreparationInv'
<1>1. PICK p \in 1 .. Len(funcs) :
        /\ cursor = funcs[p].key /\ Position(cursor) = p
        /\ After(cursor) = KeyAt(funcs, p + 1)
        /\ \A n \in 1 .. p - 1 : Visited(target, pass, funcs[n])
  BY LoopStart
<1>2. List(funcs) /\ Len(funcs) \in Nat /\ calls \subseteq Calls
  BY ListElements DEF PreparationInv, TypeInv
<1>3. Reached(target, pass, funcs', cursor')
  <2>1. ASSUME NEW n \in 1 .. (p + 1) - 1 PROVE Visited(target, pass, funcs[n])
    <3>1. n = p \/ n \in 1 .. p - 1
      BY <1>2
    <3> QED BY <3>1, <1>1
  <2>2. p + 1 \in 1 .. Len(funcs) + 1 /\ cursor' = KeyAt(funcs, p + 1)
    BY <1>1, <1>2
  <2>3. Reached(target, pass, funcs, cursor')
    BY <2>1, <2>2 DEF Reached
  <2> QED BY <2>3
<1>4. FunctionsInv' /\ CallsInv'
  BY DEF PreparationInv, FunctionsInv, CallsInv
<1> QED BY <1>2, <1>3, <1>4, LoopTurn

\* What taking a function out does to the others.
LEMMA Shortened ==
  ASSUME NEW fs, List(fs), Apart(fs), NEW p \in 1 .. Len(fs)
  PROVE  LET rest == RemoveAt(fs, p)
         IN /\ List(rest) /\ Len(rest) = Len(fs) - 1 /\ Len(fs) \in Nat /\ Apart(rest)
            /\ \A n \in 1 .. Len(rest) : \E o \in 1 .. Len(fs) : o # p /\ rest[n] = fs[o]
            /\ \A o \in 1 .. Len(fs) : o # p => \E n \in 1 .. Len(rest) : rest[n] = fs[o]
            /\ \A n \in 1 .. p - 1 : n \in 1 .. Len(rest) /\ rest[n] = fs[n]
            /\ KeyAt(rest, p) = KeyAt(fs, p + 1)
<1> DEFINE rest == RemoveAt(fs, p)
<1>1. PICK names : fs \in Seq(Anonymous(names))
  BY DEF List
<1>2. /\ rest \in Seq(Anonymous(names)) /\ Len(rest) = Len(fs) - 1
      /\ \A n \in 1 .. Len(fs) - 1 : rest[n] = IF n < p THEN fs[n] ELSE fs[n + 1]
  BY <1>1, Removed
<1>3. Len(fs) \in Nat
  BY <1>1
<1> HIDE DEF rest
<1>4. List(rest)
  BY <1>2 DEF List
<1>5. Apart(rest)
  <2>1. SUFFICES ASSUME NEW m \in 1 .. Len(rest), NEW n \in 1 .. Len(rest),
                        rest[m].key[1] = rest[n].key[1]
                 PROVE  m = n
    BY DEF Apart
  <2> DEFINE at(k) == IF k < p THEN k ELSE k + 1
  <2>2. at(m) \in 1 .. Len(fs) /\ at(n) \in 1 .. Len(fs)
    BY <1>2, <1>3
  <2>3. rest[m] = fs[at(m)] /\ rest[n] = fs[at(n)]
    BY <1>2, <1>3
  <2>4. at(m) = at(n)
    BY <2>1, <2>2, <2>3 DEF Apart
  <2> QED BY <2>4, <1>2, <1>3
<1>6. ASSUME NEW n \in 1 .. Len(rest)
      PROVE  \E o \in 1 .. Len(fs) : o # p /\ rest[n] = fs[o]
  <2>1. CASE n < p
    BY <2>1, <1>2, <1>3
  <2>2. CASE ~ (n < p)
    <3>1. n + 1 \in 1 .. Len(fs) /\ n + 1 # p /\ rest[n] = fs[n + 1]
      BY <2>2, <1>2, <1>3
    <3> QED BY <3>1
  <2> QED BY <2>1, <2>2
<1>7. ASSUME NEW o \in 1 .. Len(fs), o # p
      PROVE  \E n \in 1 .. Len(rest) : rest[n] = fs[o]
  <2>1. CASE o < p
    <3>1. o \in 1 .. Len(rest) /\ rest[o] = fs[o]
      BY <2>1, <1>2, <1>3
    <3> QED BY <3>1
  <2>2. CASE ~ (o < p)
    <3>1. o - 1 \in 1 .. Len(rest) /\ ~ (o - 1 < p) /\ (o - 1) + 1 = o
      BY <2>2, <1>2, <1>3, <1>7
    <3>2. rest[o - 1] = fs[o]
      BY <3>1, <1>2
    <3> QED BY <3>1, <3>2
  <2> QED BY <2>1, <2>2
<1>8. ASSUME NEW n \in 1 .. p - 1 PROVE n \in 1 .. Len(rest) /\ rest[n] = fs[n]
  BY <1>2, <1>3
<1>9. KeyAt(rest, p) = KeyAt(fs, p + 1)
  <2>1. CASE p = Len(fs)
    BY <2>1, <1>2, <1>3 DEF KeyAt
  <2>2. CASE p # Len(fs)
    <3>1. p \in 1 .. Len(fs) - 1 /\ ~ (p < p)
      BY <2>2, <1>3
    <3>2. rest[p] = fs[p + 1]
      BY <3>1, <1>2
    <3> QED BY <3>1, <3>2, <1>2, <1>3 DEF KeyAt
  <2> QED BY <2>1, <2>2
<1> QED BY <1>2, <1>3, <1>4, <1>5, <1>6, <1>7, <1>8, <1>9 DEF rest

\* A lifetime marker goes together with its calls, and the iterator is past it.
LEMMA LifetimeStep ==
  ASSUME PreparationInv, dropLifetimeIntrinsics
  PROVE  PreparationInv'
<1>1. /\ unit \in Units /\ List(funcs) /\ Apart(funcs) /\ calls \subseteq Calls
      /\ Parsed(target, unit, funcs) /\ Kept(unit, funcs)
      /\ CallsMade(unit, funcs, calls) /\ CallsLeft(unit, calls)
  BY DEF PreparationInv, TypeInv, FunctionsInv, CallsInv
<1>2. /\ Running("lifetime") /\ cursor # End /\ "lifetime" \in Loops
      /\ cursor' = After(cursor)
      /\ UNCHANGED <<unit, target, turn, failed, insts, flags, attrs, records>>
  BY DEF dropLifetimeIntrinsics, Loops
<1>3. PICK p \in 1 .. Len(funcs) :
        /\ cursor = funcs[p].key /\ Position(cursor) = p
        /\ After(cursor) = KeyAt(funcs, p + 1)
        /\ \A n \in 1 .. p - 1 : Visited(target, "lifetime", funcs[n])
  BY <1>2, LoopStart
<1> DEFINE f == funcs[p]
           rest == RemoveAt(funcs, p)
<1>4. CASE f.id # "lifetime"
  <2>1. UNCHANGED <<funcs, calls>>
    BY <1>3, <1>4 DEF dropLifetimeIntrinsics
  <2>2. Visited(target, "lifetime", funcs[Position(cursor)])
    BY <1>3, <1>4 DEF Visited
  <2> QED BY <1>2, <2>1, <2>2, IdleTurn
<1>5. CASE f.id = "lifetime"
  <2>1. calls' = {c \in calls : c.callee # f.key} /\ funcs' = rest
    BY <1>3, <1>5 DEF dropLifetimeIntrinsics
  <2>2. /\ List(rest) /\ Len(rest) = Len(funcs) - 1 /\ Len(funcs) \in Nat /\ Apart(rest)
        /\ \A n \in 1 .. Len(rest) : \E o \in 1 .. Len(funcs) : o # p /\ rest[n] = funcs[o]
        /\ \A o \in 1 .. Len(funcs) : o # p => \E n \in 1 .. Len(rest) : rest[n] = funcs[o]
        /\ \A n \in 1 .. p - 1 : n \in 1 .. Len(rest) /\ rest[n] = funcs[n]
        /\ KeyAt(rest, p) = KeyAt(funcs, p + 1)
    BY <1>1, Shortened
  <2> HIDE DEF rest
  <2>3. FunctionsInv'
    <3>1. Parsed(target, unit, rest)
      <4>1. ASSUME NEW n \in 1 .. Len(rest)
            PROVE  \E m \in 1 .. Len(unit.funcs) : StandsFor(target, rest[n], unit.funcs[m])
        <5>1. PICK o \in 1 .. Len(funcs) : rest[n] = funcs[o]
          BY <2>2
        <5> QED BY <5>1, <1>1 DEF Parsed
      <4> QED BY <4>1 DEF Parsed
    <3>2. Kept(unit, rest)
      <4>1. ASSUME NEW m \in 1 .. Len(unit.funcs), unit.funcs[m].id # "lifetime"
            PROVE  \E n \in 1 .. Len(rest) : Same(rest[n], unit.funcs[m])
        <5>1. PICK o \in 1 .. Len(funcs) : Same(funcs[o], unit.funcs[m])
          BY <1>1, <4>1 DEF Kept
        <5>2. o # p
          BY <1>5, <4>1, <5>1 DEF Same
        <5> QED BY <5>1, <5>2, <2>2
      <4> QED BY <4>1 DEF Kept
    <3>3. AllNamed(target, unit, rest)
      BY <2>2 DEF PreparationInv, FunctionsInv, AllNamed
    <3> QED BY <1>2, <2>1, <2>2, <3>1, <3>2, <3>3 DEF FunctionsInv
  <2>4. CallsInv'
    <3>1. ASSUME NEW c \in calls'
          PROVE  \E d \in unit.calls, n \in 1 .. Len(rest) : Becomes(d, c, rest[n])
      <4>1. c \in calls /\ c.callee # f.key
        BY <2>1
      <4>2. PICK d \in unit.calls, o \in 1 .. Len(funcs) : Becomes(d, c, funcs[o])
        BY <1>1, <4>1 DEF CallsMade
      <4>3. o # p
        BY <4>1, <4>2 DEF Becomes
      <4> QED BY <4>2, <4>3, <2>2
    <3>2. ASSUME NEW d \in unit.calls, ~ Marker(unit, d)
          PROVE  \E c \in calls' : c.at = d.at /\ c.callee[1] = d.callee[1]
      <4>1. PICK c \in calls : c.at = d.at /\ c.callee[1] = d.callee[1]
        BY <1>1, <3>2 DEF CallsLeft
      <4>2. PICK m \in 1 .. Len(unit.funcs) : StandsFor(target, f, unit.funcs[m])
        BY <1>1 DEF Parsed
      <4>3. unit.funcs[m].id = "lifetime" /\ unit.funcs[m].key[1] = f.key[1]
        BY <1>5, <4>2 DEF StandsFor, Same
      <4>4. PICK k \in 1 .. Len(unit.funcs) : d.callee = unit.funcs[k].key
        BY <1>1, UnitCalls
      <4>5. k # m
        BY <3>2, <4>3, <4>4 DEF Marker
      <4>6. unit.funcs[k].key[1] # unit.funcs[m].key[1]
        BY <1>1, <4>5, UnitFunctions DEF Apart
      <4>7. c.callee # f.key
        BY <4>1, <4>3, <4>4, <4>6
      <4> QED BY <2>1, <4>1, <4>7
    <3>3. CallsMade(unit, rest, calls') /\ CallsLeft(unit, calls')
      BY <3>1, <3>2 DEF CallsMade, CallsLeft
    <3> QED BY <1>2, <2>1, <3>3 DEF CallsInv
  <2>5. Reached(target, "lifetime", funcs', cursor')
    <3>1. p \in 1 .. Len(rest) + 1 /\ cursor' = KeyAt(rest, p)
      BY <1>2, <1>3, <2>2
    <3>2. \A n \in 1 .. p - 1 : Visited(target, "lifetime", rest[n])
      BY <1>3, <2>2
    <3>3. Reached(target, "lifetime", rest, cursor')
      BY <3>1, <3>2 DEF Reached
    <3> QED BY <3>3, <2>1
  <2>6. \A q \in Loops : AllVisited(target, q, funcs) => AllVisited(target, q, funcs')
    BY <2>1, <2>2 DEF AllVisited
  <2>7. List(funcs') /\ calls' \subseteq Calls
    BY <1>1, <2>1, <2>2
  <2> QED BY <1>2, <2>3, <2>4, <2>5, <2>6, <2>7, LoopTurn
<1> QED BY <1>4, <1>5

\* The rebuilding of a memory intrinsic.
LEMMA CopyOf ==
  ASSUME NEW names, NEW f \in Anonymous(names)
  PROVE  /\ Copy(f) \in Anonymous(names)
         /\ Copy(f).key[1] = f.key[1] /\ Copy(f).key[2] = 1 /\ Copy(f).id = f.id
         /\ Copy(f).as = f.as /\ Copy(f).bits = f.bits /\ Copy(f).params = 5
BY DEF Copy, Anonymous, Keys

\* The rebuilding of one of its calls.
LEMMA RebuiltOf ==
  ASSUME NEW names, NEW f \in Anonymous(names), NEW c \in Calls,
         c.callee = f.key, MinAlign(f, c) \in Nat
  PROVE  /\ Rebuilt(f, c) \in Calls /\ Rebuilt(f, c).at = c.at
         /\ Rebuilt(f, c).callee = Copy(f).key /\ Rebuilt(f, c).args = 5
         /\ Rebuilt(f, c).align = <<MinAlign(f, c)>>
<1> DEFINE made == Copy(f).key
           least == <<MinAlign(f, c)>>
           new == Rebuilt(f, c)
<1>1. made \in Keys
  BY CopyOf DEF Anonymous
<1>2. new = [c EXCEPT !.callee = made, !.args = 5, !.align = least]
  BY DEF Rebuilt
<1>3. least \in Seq(Nat)
  OBVIOUS
<1> HIDE DEF made, least, new
<1>4. new = [at |-> c.at, callee |-> made, align |-> least, args |-> 5] /\ c.at \in Nat
  BY <1>2 DEF Calls
<1>5. new.at = c.at /\ new.callee = made /\ new.args = 5 /\ new.align = least
  BY <1>4
<1>6. new \in Calls
  BY <1>1, <1>3, <1>4 DEF Calls
<1>7. Rebuilt(f, c) = new
  BY DEF new
<1> QED BY <1>5, <1>6, <1>7 DEF made, least

\* The copy of a function stands for it, and so do its calls for the old ones,
\* wherever the iterator goes on: the copy may be the last place it visits.
LEMMA AlignStep ==
  ASSUME PreparationInv, addMemIntrinsicAlignArg
  PROVE  PreparationInv'
<1>1. /\ unit \in Units /\ target \in Targets /\ turn \in 1 .. Len(Passes(target)) + 1
      /\ List(funcs) /\ Apart(funcs) /\ calls \subseteq Calls
      /\ Parsed(target, unit, funcs) /\ Kept(unit, funcs)
      /\ CallsMade(unit, funcs, calls) /\ CallsLeft(unit, calls)
  BY DEF PreparationInv, TypeInv, FunctionsInv, CallsInv
<1>2. /\ Running("align") /\ cursor # End /\ "align" \in Loops
      /\ cursor' = After(cursor)
      /\ UNCHANGED <<unit, target, turn, failed, insts, flags, attrs, records>>
  BY DEF addMemIntrinsicAlignArg, Loops
<1>3. PICK p \in 1 .. Len(funcs) :
        /\ cursor = funcs[p].key /\ Position(cursor) = p
        /\ After(cursor) = KeyAt(funcs, p + 1)
        /\ \A n \in 1 .. p - 1 : Visited(target, "align", funcs[n])
  BY <1>2, LoopStart
<1>4. target < 70
  BY <1>1, <1>2, PassesOf DEF Running
<1> DEFINE f == funcs[p]
           rest == RemoveAt(funcs, p)
           new == Append(rest, Copy(f))
<1>5. PICK m \in 1 .. Len(unit.funcs) : StandsFor(target, f, unit.funcs[m])
  BY <1>1 DEF Parsed
<1>6. CASE ~ (MemIntrinsic(f) /\ f.params = 4)
  <2>1. UNCHANGED <<funcs, calls>>
    BY <1>3, <1>6 DEF addMemIntrinsicAlignArg
  <2>2. MemIntrinsic(f) => f.params = 5
    <3>1. ASSUME MemIntrinsic(f), f.key[2] = 0 PROVE FALSE
      <4>1. f.params = unit.funcs[m].params /\ f.id = unit.funcs[m].id
        BY <1>5, <3>1 DEF StandsFor, Same
      <4>2. MemIntrinsic(unit.funcs[m])
        BY <3>1, <4>1 DEF MemIntrinsic
      <4> QED BY <1>1, <1>6, <3>1, <4>1, <4>2, UnitFunctions
    <3> QED BY <1>5, <3>1 DEF StandsFor
  <2>3. Visited(target, "align", funcs[Position(cursor)])
    BY <1>3, <2>2 DEF Visited
  <2> QED BY <1>2, <2>1, <2>3, IdleTurn
<1>7. CASE MemIntrinsic(f) /\ f.params = 4
  <2>1. calls' = {Rebuilt(f, c) : c \in calls} /\ funcs' = new
    BY <1>3, <1>7 DEF addMemIntrinsicAlignArg
  <2>2. /\ List(rest) /\ Len(rest) = Len(funcs) - 1 /\ Len(funcs) \in Nat /\ Apart(rest)
        /\ \A n \in 1 .. Len(rest) : \E o \in 1 .. Len(funcs) : o # p /\ rest[n] = funcs[o]
        /\ \A o \in 1 .. Len(funcs) : o # p => \E n \in 1 .. Len(rest) : rest[n] = funcs[o]
        /\ \A n \in 1 .. p - 1 : n \in 1 .. Len(rest) /\ rest[n] = funcs[n]
        /\ KeyAt(rest, p) = KeyAt(funcs, p + 1)
    BY <1>1, Shortened
  <2>3. PICK names : funcs \in Seq(Anonymous(names))
    BY <1>1 DEF List
  <2>4. f \in Anonymous(names)
    BY <2>3
  <2>5. /\ Copy(f) \in Anonymous(names)
        /\ Copy(f).key[1] = f.key[1] /\ Copy(f).key[2] = 1 /\ Copy(f).id = f.id
        /\ Copy(f).as = f.as /\ Copy(f).bits = f.bits /\ Copy(f).params = 5
    BY <2>4, CopyOf
  <2>17. /\ Copy(f).name = f.name
         /\ Spelled(target, Copy(f)) = Spelled(target, f) /\ Modern(Copy(f)) = Modern(f)
         /\ Looks(target, Copy(f)) <=> Looks(target, f)
         /\ DefaultAS(Copy(f)) <=> DefaultAS(f)
         /\ MemIntrinsic(Copy(f)) <=> MemIntrinsic(f)
    <3>1. Copy(f).name = f.name
      BY <2>4 DEF Anonymous, Copy
    <3> QED BY <2>5, <3>1 DEF Spelled, Mangled, Modern, Widths, Looks, DefaultAS, MemIntrinsic
  <2>6. rest \in Seq(Anonymous(names)) /\ Len(rest) = Len(funcs) - 1
    BY <2>3, Removed
  <2> HIDE DEF rest
  <2>7. /\ new \in Seq(Anonymous(names)) /\ Len(new) = Len(funcs)
        /\ new[Len(funcs)] = Copy(f) /\ \A n \in 1 .. Len(rest) : new[n] = rest[n]
    BY <2>2, <2>5, <2>6
  <2> HIDE DEF new
  <2>8. f.key[2] = 0
    BY <1>5, <1>7 DEF StandsFor
  <2>9. ASSUME NEW n \in 1 .. Len(funcs)
        PROVE  \/ n = Len(funcs) /\ new[n] = Copy(f)
               \/ n \in 1 .. Len(rest) /\ new[n] = rest[n]
    <3>1. Len(rest) = Len(funcs) - 1 /\ Len(funcs) \in Nat
      BY <2>2
    <3>2. n = Len(funcs) \/ n \in 1 .. Len(rest)
      BY <3>1
    <3> QED BY <3>2, <2>7
  <2>10. FunctionsInv'
    <3>1. Apart(new)
      <4>1. ASSUME NEW n \in 1 .. Len(rest) PROVE rest[n].key[1] # Copy(f).key[1]
        <5>1. PICK o \in 1 .. Len(funcs) : o # p /\ rest[n] = funcs[o]
          BY <2>2
        <5> QED BY <5>1, <1>1, <2>5 DEF Apart
      <4>2. SUFFICES ASSUME NEW m1 \in 1 .. Len(funcs), NEW m2 \in 1 .. Len(funcs),
                            new[m1].key[1] = new[m2].key[1]
                     PROVE  m1 = m2
        BY <2>7 DEF Apart
      <4>3. CASE m1 \in 1 .. Len(rest) /\ m2 \in 1 .. Len(rest)
        <5>1. rest[m1].key[1] = rest[m2].key[1]
          BY <4>2, <4>3, <2>7
        <5> QED BY <5>1, <4>3, <2>2 DEF Apart
      <4>4. CASE m1 = Len(funcs) /\ m2 = Len(funcs)
        BY <4>4
      <4>5. CASE m1 \in 1 .. Len(rest) /\ m2 = Len(funcs)
        BY <4>1, <4>2, <4>5, <2>7
      <4>6. CASE m1 = Len(funcs) /\ m2 \in 1 .. Len(rest)
        BY <4>1, <4>2, <4>6, <2>7
      <4> QED BY <4>3, <4>4, <4>5, <4>6, <2>9
    <3>2. Parsed(target, unit, new)
      <4>1. StandsFor(target, Copy(f), unit.funcs[m])
        BY <1>4, <1>5, <1>7, <2>5 DEF StandsFor, Same, MemIntrinsic
      <4>2. ASSUME NEW n \in 1 .. Len(rest)
            PROVE  \E k \in 1 .. Len(unit.funcs) : StandsFor(target, rest[n], unit.funcs[k])
        <5>1. PICK o \in 1 .. Len(funcs) : rest[n] = funcs[o]
          BY <2>2
        <5> QED BY <5>1, <1>1 DEF Parsed
      <4> QED BY <4>1, <4>2, <2>7, <2>9 DEF Parsed
    <3>3. Kept(unit, new)
      <4>1. ASSUME NEW k \in 1 .. Len(unit.funcs), unit.funcs[k].id # "lifetime"
            PROVE  \E n \in 1 .. Len(new) : Same(new[n], unit.funcs[k])
        <5>1. PICK o \in 1 .. Len(funcs) : Same(funcs[o], unit.funcs[k])
          BY <1>1, <4>1 DEF Kept
        <5>2. CASE o = p
          <6>1. Same(Copy(f), unit.funcs[k])
            BY <5>1, <5>2, <2>5 DEF Same
          <6>2. Len(funcs) \in 1 .. Len(new)
            BY <2>2, <2>7
          <6> QED BY <6>1, <6>2, <2>7
        <5>3. CASE o # p
          <6>1. PICK n \in 1 .. Len(rest) : rest[n] = funcs[o]
            BY <5>3, <2>2
          <6>2. n \in 1 .. Len(new) /\ new[n] = funcs[o]
            BY <6>1, <2>2, <2>7
          <6> QED BY <5>1, <6>2
        <5> QED BY <5>2, <5>3
      <4> QED BY <4>1 DEF Kept
    <3>4. AllNamed(target, unit, new)
      <4>1. AllNamed(target, unit, funcs)
        BY DEF PreparationInv, FunctionsInv
      <4>2. WellNamed(target, unit, Copy(f))
        <5>1. WellNamed(target, unit, f)
          BY <4>1 DEF AllNamed
        <5> QED BY <2>5, <2>17, <5>1 DEF WellNamed
      <4>3. ASSUME NEW n \in 1 .. Len(rest) PROVE WellNamed(target, unit, rest[n])
        BY <2>2, <4>1, <4>3 DEF AllNamed
      <4> QED BY <4>2, <4>3, <2>7, <2>9 DEF AllNamed
    <3> QED BY <1>2, <2>1, <3>1, <3>2, <3>3, <3>4 DEF FunctionsInv
  <2>11. ASSUME NEW c \in calls
         PROVE  /\ Rebuilt(f, c) \in Calls /\ Rebuilt(f, c).at = c.at
                /\ Rebuilt(f, c).callee[1] = c.callee[1]
                /\ \E d \in unit.calls, n \in 1 .. Len(new) :
                      Becomes(d, Rebuilt(f, c), new[n])
    <3>1. PICK d \in unit.calls, o \in 1 .. Len(funcs) :
            /\ Becomes(d, c, funcs[o]) /\ d.align \in Seq(Nat)
            /\ MemIntrinsic(funcs[o]) => Len(d.align) = Pointers(funcs[o])
      BY <1>1, Origin
    <3>2. CASE c.callee = f.key
      <4>1. o = p
        BY <1>1, <3>1, <3>2 DEF Becomes, Apart
      <4>2. c.align = d.align
        BY <2>8, <3>1, <3>2 DEF Becomes
      <4>3. MinAlign(f, c) = MinAlign(f, d) /\ MinAlign(Copy(f), d) = MinAlign(f, d)
        BY <2>5, <4>2 DEF MinAlign
      <4>4. MinAlign(f, c) \in Nat
        BY <1>7, <3>1, <4>1, <4>3, LeastAlignment
      <4>5. /\ Rebuilt(f, c) \in Calls /\ Rebuilt(f, c).at = c.at
            /\ Rebuilt(f, c).callee = Copy(f).key /\ Rebuilt(f, c).args = 5
            /\ Rebuilt(f, c).align = <<MinAlign(f, c)>>
        BY <1>1, <2>4, <3>2, <4>4, RebuiltOf
      <4>6. Len(funcs) \in 1 .. Len(new)
        BY <2>2, <2>7
      <4>7. Becomes(d, Rebuilt(f, c), new[Len(funcs)])
        BY <2>5, <2>7, <3>1, <3>2, <4>3, <4>5 DEF Becomes
      <4> QED BY <3>2, <2>5, <4>5, <4>6, <4>7
    <3>3. CASE c.callee # f.key
      <4>1. Rebuilt(f, c) = c /\ c \in Calls
        BY <1>1, <3>3 DEF Rebuilt
      <4>2. o # p
        BY <3>1, <3>3 DEF Becomes
      <4>3. PICK n \in 1 .. Len(rest) : rest[n] = funcs[o]
        BY <4>2, <2>2
      <4>4. n \in 1 .. Len(new) /\ new[n] = funcs[o]
        BY <4>3, <2>2, <2>7
      <4> QED BY <3>1, <4>1, <4>4
    <3> QED BY <3>2, <3>3
  <2>12. CallsInv'
    <3>1. CallsMade(unit, new, calls')
      BY <2>1, <2>11 DEF CallsMade
    <3>2. ASSUME NEW d \in unit.calls, ~ Marker(unit, d)
          PROVE  \E c \in calls' : c.at = d.at /\ c.callee[1] = d.callee[1]
      <4>1. PICK c \in calls : c.at = d.at /\ c.callee[1] = d.callee[1]
        BY <1>1, <3>2 DEF CallsLeft
      <4> QED BY <4>1, <2>1, <2>11
    <3>3. CallsLeft(unit, calls')
      BY <3>2 DEF CallsLeft
    <3> QED BY <1>2, <2>1, <3>1, <3>3 DEF CallsInv
  <2>13. Visited(target, "align", Copy(f))
    BY <2>5 DEF Visited
  <2>14. Reached(target, "align", new, cursor')
    <3>1. ASSUME NEW n \in 1 .. p - 1 PROVE Visited(target, "align", new[n])
      BY <3>1, <1>3, <2>2, <2>7
    <3>2. CASE p = Len(funcs)
      <4>1. cursor' = KeyAt(new, Len(new) + 1) /\ Len(new) + 1 \in 1 .. Len(new) + 1
        BY <3>2, <1>2, <1>3, <2>2, <2>7 DEF KeyAt
      <4>2. ASSUME NEW n \in 1 .. (Len(new) + 1) - 1 PROVE Visited(target, "align", new[n])
        <5>1. n = p \/ n \in 1 .. p - 1
          BY <3>2, <2>2, <2>7
        <5> QED BY <5>1, <3>1, <3>2, <2>7, <2>13
      <4> QED BY <4>1, <4>2 DEF Reached
    <3>3. CASE p # Len(funcs)
      <4>1. p \in 1 .. Len(rest) /\ p \in 1 .. Len(new) + 1
        BY <3>3, <2>2, <2>7
      <4>2. KeyAt(new, p) = KeyAt(rest, p)
        <5>1. p <= Len(rest) /\ p <= Len(new) /\ new[p] = rest[p]
          <6>1. p \in Nat /\ Len(rest) \in Nat /\ Len(new) = Len(rest) + 1
            BY <2>2, <2>7
          <6>2. p <= Len(rest)
            BY <4>1
          <6>3. p <= Len(new)
            BY <6>1, <6>2
          <6>4. new[p] = rest[p]
            BY <4>1, <2>7
          <6> QED BY <6>2, <6>3, <6>4
        <5> QED BY <5>1 DEF KeyAt
      <4>3. cursor' = KeyAt(new, p)
        BY <4>2, <1>2, <1>3, <2>2
      <4> QED BY <4>1, <4>3, <3>1 DEF Reached
    <3> QED BY <3>2, <3>3
  <2>15. ASSUME NEW q \in Loops, AllVisited(target, q, funcs)
         PROVE  AllVisited(target, q, new)
    <3>1. Visited(target, q, f)
      BY <2>15 DEF AllVisited
    <3>2. Visited(target, q, Copy(f))
      BY <3>1, <2>5, <2>17 DEF Visited, Renamed
    <3>3. ASSUME NEW n \in 1 .. Len(rest) PROVE Visited(target, q, rest[n])
      <4>1. PICK o \in 1 .. Len(funcs) : rest[n] = funcs[o]
        BY <2>2
      <4> QED BY <4>1, <2>15 DEF AllVisited
    <3> QED BY <3>2, <3>3, <2>7, <2>9 DEF AllVisited
  <2>16. List(new) /\ calls' \subseteq Calls
    BY <2>1, <2>7, <2>11 DEF List
  <2> QED BY <1>2, <2>1, <2>10, <2>12, <2>14, <2>15, <2>16, LoopTurn
<1> QED BY <1>6, <1>7

-----------------------------------------------------------------------------
(* Every reachable state *)

\* The module as it was parsed.
LEMMA Prepared ==
  ASSUME Init
  PROVE  PreparationInv
<1>1. /\ unit \in Units /\ target \in Targets /\ turn = 1 /\ failed = FALSE
      /\ cursor = FirstOf(funcs) /\ funcs = unit.funcs /\ calls = unit.calls
      /\ flags = unit.flags /\ attrs = unit.attrs /\ records = unit.records
  BY DEF Init
<1>2. List(funcs) /\ calls \subseteq Calls /\ flags \in Seq(Flags) /\ Apart(funcs)
  <2>1. /\ List(unit.funcs) /\ unit.calls \subseteq Calls /\ unit.flags \in Seq(Flags)
        /\ Apart(unit.funcs)
    BY <1>1, UnitFunctions
  <2> QED BY <1>1, <2>1
<1>11. ASSUME NEW n \in 1 .. Len(unit.funcs) PROVE unit.funcs[n].key[2] = 0
  BY <1>1, UnitFunctions
<1>3. TypeInv
  <2>1. Len(Passes(target)) \in Nat
    BY <1>1, PassesOf
  <2>2. turn \in 1 .. Len(Passes(target)) + 1
    <3>1. turn = 1
      BY <1>1
    <3> QED BY <2>1, <3>1
  <2>3. failed \in BOOLEAN
    BY <1>1
  <2> QED BY <1>1, <1>2, <2>2, <2>3 DEF TypeInv
<1>4. FunctionsInv
  <2>1. Parsed(target, unit, funcs)
    BY <1>1, <1>11 DEF Parsed, StandsFor, Same
  <2>2. Kept(unit, funcs)
    BY <1>1 DEF Kept, Same
  <2>3. AllNamed(target, unit, funcs)
    <3>1. SUFFICES ASSUME NEW n \in 1 .. Len(unit.funcs),
                          Known(unit.funcs[n].id) \/ Known(unit.funcs[n].name.base)
                   PROVE  unit.funcs[n].name = With(Modern(unit.funcs[n]), 0)
      BY <1>1 DEF AllNamed, WellNamed
    <3> QED BY <1>1, <3>1, UnitNames, WithNumber
  <2> QED BY <1>2, <2>1, <2>2, <2>3 DEF FunctionsInv
<1>5. CallsInv
  <2>1. ASSUME NEW c \in calls
        PROVE  \E d \in unit.calls, n \in 1 .. Len(funcs) : Becomes(d, c, funcs[n])
    <3>1. PICK n \in 1 .. Len(unit.funcs) :
            c.callee = unit.funcs[n].key /\ c.args = unit.funcs[n].params
      BY <1>1, UnitCalls
    <3>2. Becomes(c, c, funcs[n])
      BY <1>1, <1>11, <3>1 DEF Becomes
    <3> QED BY <1>1, <3>1, <3>2
  <2> QED BY <1>1, <2>1 DEF CallsInv, CallsMade, CallsLeft
<1>6. ASSUME NEW pass PROVE ~ Over(target, turn, pass)
  BY <1>1 DEF Over
<1>7. CursorInv
  <2>1. cursor = KeyAt(funcs, 1) /\ Len(funcs) \in Nat
    BY <1>1, <1>2, FirstKey, ListElements
  <2>2. 1 \in 1 .. Len(funcs) + 1
    BY <2>1
  <2>3. ASSUME NEW q \in Loops PROVE Reached(target, q, funcs, cursor)
    <3>1. \A n \in 1 .. 1 - 1 : Visited(target, q, funcs[n])
      OBVIOUS
    <3> QED BY <2>1, <2>2, <3>1 DEF Reached
  <2> QED BY <2>3 DEF CursorInv
<1>8. LoopsInv /\ CheckInv
  BY <1>6 DEF LoopsInv, CheckInv
<1>9. FlagsInv
  BY <1>1, <1>6 DEF FlagsInv
<1>10. HintsInv
  BY <1>1 DEF HintsInv
<1> QED BY <1>1, <1>3, <1>4, <1>5, <1>7, <1>8, <1>9, <1>10 DEF PreparationInv

\* Any step of any pass.
LEMMA Preserved ==
  ASSUME PreparationInv, [Next]_vars
  PROVE  PreparationInv'
<1>1. CASE removeFreeze \/ replaceFNeg
  BY <1>1, InstructionsStep
<1>2. CASE loopDone
  BY <1>2, LoopDoneStep
<1>3. CASE dropLifetimeIntrinsics
  BY <1>3, LifetimeStep
<1>4. CASE addMemIntrinsicAlignArg
  BY <1>4, AlignStep
<1>5. CASE renameIntrinsic
  BY <1>5, RenameStep
<1>6. CASE downgradeModuleFlags
  BY <1>6, FlagsStep
<1>7. CASE checkIntrinsics
  BY <1>7, CheckStep
<1>8. CASE stripUnsupportedAttrs \/ dropDeclareValueRecords
  BY <1>8, HintsStep
<1>9. CASE UNCHANGED vars
  <2>1. UNCHANGED <<unit, target, turn, cursor, failed, funcs, calls, flags, attrs, records>>
    BY <1>9 DEF vars, program
  <2>2. failed' \in BOOLEAN /\ (failed' => Rejected(target, unit))
    BY <2>1 DEF PreparationInv, TypeInv
  <2> QED BY <2>1, <2>2, SameTurn
<1> QED BY <1>1, <1>2, <1>3, <1>4, <1>5, <1>6, <1>7, <1>8, <1>9 DEF Next

\* The invariant of prepareModule, for every verified module and every target.
THEOREM PreparationInvariant == Spec => []PreparationInv
<1>1. Init => PreparationInv
  BY Prepared
<1>2. PreparationInv /\ [Next]_vars => PreparationInv'
  BY Preserved
<1> QED BY <1>1, <1>2, PTL DEF Spec

-----------------------------------------------------------------------------
(* What the passes leave when all of them are over *)

\* What the loops, the flags and the check have left behind.
LEMMA AllOver ==
  ASSUME PreparationInv, Done
  PROVE  /\ target <= 140 => Over(target, turn, "flags")
         /\ target <= 70 => Over(target, turn, "check")
         /\ target < 70 => AllVisited(target, "align", funcs)
         /\ AllVisited(target, "lifetime", funcs)
         /\ AllVisited(target, "names", funcs)
<1>1. target \in Targets /\ turn = Len(Passes(target)) + 1
  <2>1. target \in Targets /\ turn \in 1 .. Len(Passes(target)) + 1
    BY DEF PreparationInv, TypeInv
  <2> QED BY <2>1, PassesOf DEF Done
<1>2. /\ \A pass \in {"lifetime", "names"} : Over(target, turn, pass)
      /\ target <= 140 => Over(target, turn, "flags")
      /\ target <= 70 => Over(target, turn, "check")
      /\ target < 70 => Over(target, turn, "align")
  BY <1>1, PassesOf
<1>3. "lifetime" \in Loops /\ "names" \in Loops /\ "align" \in Loops
  BY DEF Loops
<1> QED BY <1>2, <1>3 DEF PreparationInv, LoopsInv

\* What a target rejects is what it has no form for.
LEMMA RejectedIsOffending ==
  ASSUME unit \in Units
  PROVE  Rejected(target, unit) <=> Offending
<1>1. DOMAIN unit.funcs = 1 .. Len(unit.funcs) /\ DOMAIN unit.flags = 1 .. Len(unit.flags)
  <2>1. List(unit.funcs) /\ unit.flags \in Seq(Flags)
    BY UnitFunctions
  <2> QED BY <2>1, ListElements
<1> QED BY <1>1 DEF Rejected, Offending, Looks

\* A module that has been prepared holds nothing its target rejects.
LEMMA NothingRejected ==
  ASSUME PreparationInv, Done
  PROVE  ~ Rejected(target, unit)
<1>1. unit \in Units /\ List(funcs) /\ Kept(unit, funcs)
  BY DEF PreparationInv, TypeInv, FunctionsInv
<1>2. ASSUME target <= 140, NEW n \in 1 .. Len(unit.flags)
      PROVE  Representable(unit.flags[n])
  BY <1>2, AllOver DEF PreparationInv, FlagsInv
<1>3. ASSUME NEW n \in 1 .. Len(unit.funcs), Looks(target, unit.funcs[n])
      PROVE  DefaultAS(unit.funcs[n])
  <2>1. unit.funcs[n].id # "lifetime"
    BY <1>3 DEF Looks
  <2>2. PICK k \in 1 .. Len(funcs) : Same(funcs[k], unit.funcs[n])
    BY <1>1, <2>1 DEF Kept
  <2>3. Looks(target, funcs[k])
    BY <1>3, <2>2 DEF Looks, Same
  <2>4. DefaultAS(funcs[k])
    BY <2>3, AllOver DEF AllVisited, Visited
  <2> QED BY <2>2, <2>4 DEF DefaultAS, Same
<1>4. ASSUME target <= 70, NEW n \in 1 .. Len(unit.funcs), NEW d \in unit.calls,
             d.callee = unit.funcs[n].key,
             unit.funcs[n].id = "ptrmask" \/ (unit.funcs[n].id = "dispatch_ptr" /\ target < 70)
      PROVE  FALSE
  <2>1. unit.funcs[n].id # "lifetime"
    BY <1>4
  <2>2. PICK k \in 1 .. Len(funcs) : Same(funcs[k], unit.funcs[n])
    BY <1>1, <2>1 DEF Kept
  <2>3. ~ Marker(unit, d)
    <3>1. ASSUME NEW m \in 1 .. Len(unit.funcs), unit.funcs[m].key = d.callee
          PROVE  m = n
      BY <1>1, <1>4, <3>1, UnitFunctions DEF Apart
    <3> QED BY <2>1, <3>1 DEF Marker
  <2>4. PICK c \in calls : c.at = d.at /\ c.callee[1] = d.callee[1]
    BY <2>3 DEF PreparationInv, CallsInv, CallsLeft
  <2>5. PICK e \in unit.calls, o \in 1 .. Len(funcs) : Becomes(e, c, funcs[o])
    BY <2>4 DEF PreparationInv, CallsInv, CallsMade
  <2>6. funcs[o].key[1] = funcs[k].key[1]
    BY <1>4, <2>2, <2>4, <2>5 DEF Becomes, Same
  <2>7. o = k
    BY <2>6 DEF PreparationInv, FunctionsInv, Apart
  <2>8. c.callee = funcs[k].key
    BY <2>5, <2>7 DEF Becomes
  <2>9. funcs[k].id = "ptrmask" => funcs[k].as # <<>>
    BY <1>1, <2>2, UnitFunctions DEF Same
  <2>10. Unspoken(target, calls, funcs[k])
    BY <1>4, <2>2, <2>8, <2>9 DEF Unspoken, Same
  <2> QED BY <1>4, <2>10, AllOver DEF PreparationInv, CheckInv
<1> QED BY <1>2, <1>3, <1>4 DEF Rejected

\* A module is rejected exactly if it holds what its target has no form for:
\* no pass before the check erases the evidence, none adds any.
THEOREM RejectsExactlyCorrect == Spec => []RejectsExactly
<1>1. PreparationInv => RejectsExactly
  <2>1. ASSUME PreparationInv PROVE RejectsExactly
    <3>1. unit \in Units
      BY <2>1 DEF PreparationInv, TypeInv
    <3>2. failed => Offending
      BY <2>1, <3>1, RejectedIsOffending DEF PreparationInv
    <3>3. Done => ~ Offending
      BY <2>1, <3>1, RejectedIsOffending, NothingRejected
    <3> QED BY <3>2, <3>3 DEF RejectsExactly
  <2> QED BY <2>1
<1> QED BY <1>1, PreparationInvariant, PTL

\* In a prepared module every call calls a function that is left, with as
\* many arguments as it takes and an alignment both pointers have, although
\* the function it was parsed with may have been erased and rebuilt.
THEOREM CallsMatchCorrect == Spec => []CallsMatch
<1>1. ASSUME PreparationInv, Done, NEW c \in calls
      PROVE  \E f \in FuncsWith(funcs, c.callee) :
               /\ c.args = f.params
               /\ IF target < 70 /\ MemIntrinsic(f)
                  THEN c.align = <<Least(Range(CallAt(c.at).align))>>
                  ELSE c.align = CallAt(c.at).align
  <2>1. /\ unit \in Units /\ List(funcs) /\ calls \subseteq Calls
        /\ Parsed(target, unit, funcs) /\ CallsMade(unit, funcs, calls)
    BY <1>1 DEF PreparationInv, TypeInv, FunctionsInv, CallsInv
  <2>2. PICK d \in unit.calls, n \in 1 .. Len(funcs), m \in 1 .. Len(unit.funcs) :
          /\ Becomes(d, c, funcs[n]) /\ StandsFor(target, funcs[n], unit.funcs[m])
          /\ d.align \in Seq(Nat)
          /\ MemIntrinsic(funcs[n]) => Len(d.align) = Pointers(funcs[n])
    BY <1>1, <2>1, Origin
  <2>3. CallAt(c.at) = d
    <3>1. d.at = c.at /\ \A e \in unit.calls : e.at = c.at => e = d
      BY <2>1, <2>2, UnitCalls DEF Becomes
    <3> QED BY <3>1 DEF CallAt
  <2>4. funcs[n] \in FuncsWith(funcs, c.callee)
    BY <2>1, <2>2, ListElements DEF FuncsWith, Becomes
  <2>5. c.args = funcs[n].params /\ c.callee = funcs[n].key
        /\ c.align = IF c.callee[2] = 0 THEN d.align ELSE <<MinAlign(funcs[n], d)>>
    BY <2>2 DEF Becomes
  <2>6. CASE target < 70 /\ MemIntrinsic(funcs[n])
    <3>1. funcs[n].params = 5
      BY <1>1, <2>6, AllOver DEF AllVisited, Visited
    <3>2. funcs[n].key[2] # 0
      <4>1. MemIntrinsic(unit.funcs[m])
        BY <2>2, <2>6 DEF StandsFor, Same, MemIntrinsic
      <4>2. unit.funcs[m].params = 4
        BY <2>1, <4>1, UnitFunctions
      <4> QED BY <2>2, <3>1, <4>2 DEF StandsFor
    <3>3. Least(Range(d.align)) = MinAlign(funcs[n], d)
      BY <2>2, <2>6, LeastAlignment
    <3> QED BY <2>3, <2>4, <2>5, <2>6, <3>2, <3>3
  <2>7. CASE ~ (target < 70 /\ MemIntrinsic(funcs[n]))
    <3>1. c.callee[2] = 0
      BY <2>2, <2>5, <2>7 DEF StandsFor
    <3> QED BY <2>3, <2>4, <2>5, <2>7, <3>1
  <2> QED BY <2>6, <2>7
<1>2. PreparationInv => CallsMatch
  BY <1>1 DEF CallsMatch
<1> QED BY <1>2, PreparationInvariant, PTL

\* Nothing is dropped from a module but what is a hint to an optimizer: every
\* function but the lifetime markers is left, every call but theirs, every
\* module flag, every attribute but the range ones, every debug record the
\* target has a kind for.
THEOREM OnlyHintsDroppedCorrect == Spec => []OnlyHintsDropped
<1>1. ASSUME PreparationInv, Done PROVE OnlyHintsDropped
  <2>1. /\ unit \in Units /\ List(funcs) /\ calls \subseteq Calls
        /\ Parsed(target, unit, funcs) /\ Kept(unit, funcs)
        /\ CallsMade(unit, funcs, calls) /\ CallsLeft(unit, calls)
    BY <1>1 DEF PreparationInv, TypeInv, FunctionsInv, CallsInv
  <2>2. /\ DOMAIN funcs = 1 .. Len(funcs) /\ DOMAIN unit.funcs = 1 .. Len(unit.funcs)
        /\ Range(funcs) = {funcs[n] : n \in 1 .. Len(funcs)}
    BY <2>1, UnitFunctions, ListElements DEF Range
  <2>3. ASSUME NEW m \in DOMAIN unit.funcs, unit.funcs[m].id # "lifetime"
        PROVE  \E g \in Range(funcs) :
                  /\ g.id = unit.funcs[m].id /\ g.as = unit.funcs[m].as
                  /\ g.bits = unit.funcs[m].bits
    <3>1. PICK n \in 1 .. Len(funcs) : Same(funcs[n], unit.funcs[m])
      BY <2>1, <2>2, <2>3 DEF Kept
    <3> QED BY <2>2, <3>1 DEF Same
  <2> DEFINE Real == {d \in unit.calls :
                \A f \in FuncsWith(unit.funcs, d.callee) : f.id # "lifetime"}
  <2>4. ASSUME NEW c \in calls PROVE \E d \in Real : d.at = c.at
    <3>1. PICK d \in unit.calls, n \in 1 .. Len(funcs), m \in 1 .. Len(unit.funcs) :
            /\ Becomes(d, c, funcs[n]) /\ StandsFor(target, funcs[n], unit.funcs[m])
            /\ d.callee = unit.funcs[m].key
      BY <2>1, Origin
    <3>2. unit.funcs[m].id # "lifetime"
      <4>1. Visited(target, "lifetime", funcs[n])
        BY <1>1, AllOver DEF AllVisited
      <4> QED BY <3>1, <4>1 DEF Visited, StandsFor, Same
    <3>3. ASSUME NEW f \in FuncsWith(unit.funcs, d.callee) PROVE f.id # "lifetime"
      <4>1. PICK k \in 1 .. Len(unit.funcs) : f = unit.funcs[k] /\ f.key = d.callee
        BY <2>2 DEF FuncsWith
      <4>2. k = m
        BY <2>1, <3>1, <4>1, UnitFunctions DEF Apart
      <4> QED BY <3>2, <4>1, <4>2
    <3>4. d \in Real
      BY <3>3
    <3> QED BY <3>1, <3>4 DEF Becomes
  <2>5. ASSUME NEW d \in Real PROVE \E c \in calls : c.at = d.at
    <3>1. ~ Marker(unit, d)
      <4>1. ASSUME NEW m \in 1 .. Len(unit.funcs), unit.funcs[m].key = d.callee
            PROVE  unit.funcs[m].id # "lifetime"
        <5>1. unit.funcs[m] \in FuncsWith(unit.funcs, d.callee)
          BY <2>2, <4>1 DEF FuncsWith
        <5> QED BY <5>1
      <4> QED BY <4>1 DEF Marker
    <3> QED BY <2>1, <3>1 DEF CallsLeft
  <2>6. {c.at : c \in calls} = {c.at : c \in Real}
    <3> HIDE DEF Real
    <3> QED BY <2>4, <2>5
  <2>7. HintsInv /\ Len(flags) = Len(unit.flags)
    BY <1>1 DEF PreparationInv, FlagsInv
  <2> QED BY <2>3, <2>6, <2>7 DEF OnlyHintsDropped, HintsInv
<1>2. PreparationInv => OnlyHintsDropped
  BY <1>1 DEF OnlyHintsDropped
<1> QED BY <1>2, PreparationInvariant, PTL
\* The renaming takes the mangling of a name away although the function takes
\* a pointer outside address space 0.
SpaceGap == Gap(target, unit)

\* Every module but one with such a function is known to the target's reader
\* when its preparation ends: each intrinsic has the very name and parameters
\* its release gave it, whatever the rebuilding of the memory intrinsics did to
\* the list, and no name was taken when it was given.
THEOREM ReaderKnowsCorrect == Spec => [](~ SpaceGap => ReaderKnows)
<1>1. ASSUME PreparationInv, ~ SpaceGap, Done, NEW n \in DOMAIN funcs, Known(funcs[n].id)
      PROVE  LET f == funcs[n]
             IN /\ f.name = Spelling(f)
                /\ target < MangledFrom[f.id] => DefaultAS(f)
                /\ MemIntrinsic(f) => f.params = IF target < 70 THEN 5 ELSE 4
  <2> DEFINE f == funcs[n]
  <2>1. /\ unit \in Units /\ target \in Targets /\ n \in 1 .. Len(funcs)
        /\ ~ Gap(target, unit) /\ WellNamed(target, unit, f)
    <3>1. DOMAIN funcs = 1 .. Len(funcs)
      BY <1>1, ListElements DEF PreparationInv, TypeInv
    <3> QED BY <1>1, <3>1 DEF PreparationInv, TypeInv, FunctionsInv, AllNamed, SpaceGap
  <2>2. PICK m \in 1 .. Len(unit.funcs) : StandsFor(target, f, unit.funcs[m])
    BY <1>1, <2>1 DEF PreparationInv, FunctionsInv, Parsed
  <2>3. (Looks(target, f) => DefaultAS(f)) /\ Renamed(target, f)
    <3>1. Visited(target, "names", f)
      BY <1>1, <2>1, AllOver DEF AllVisited
    <3> QED BY <3>1 DEF Visited
  <2>4. f.name = Spelling(f)
    <3>1. PICK extra : f.name = With(Spelled(target, f), extra)
      BY <1>1, <2>3 DEF Renamed
    <3>2. f.name = With(Modern(f), 0) \/ f.name = With(Spelled(target, f), 0)
      BY <1>1, <2>1 DEF WellNamed
    <3>3. f.name.extra = extra /\ f.name.extra = 0
      <4>1. f.name.extra = extra
        BY <3>1 DEF With
      <4>2. f.name.extra = 0
        BY <3>2 DEF With
      <4> QED BY <4>1, <4>2
    <3> QED BY <3>1, <3>3, WithNumber, NamesAre
  <2>5. target < MangledFrom[f.id] => DefaultAS(f)
    BY <1>1, <2>1, <2>2, <2>3, UnmangledDefault DEF StandsFor
  <2>6. MemIntrinsic(f) => f.params = IF target < 70 THEN 5 ELSE 4
    <3>1. CASE target < 70
      BY <1>1, <2>1, <3>1, AllOver DEF AllVisited, Visited
    <3>2. CASE ~ (target < 70)
      <4>1. f.params = unit.funcs[m].params /\ f.id = unit.funcs[m].id
        BY <2>2, <3>2 DEF StandsFor, Same
      <4>2. MemIntrinsic(f) => unit.funcs[m].params = 4
        BY <2>1, <4>1, UnitFunctions DEF MemIntrinsic
      <4> QED BY <3>2, <4>1, <4>2
    <3> QED BY <3>1, <3>2
  <2> QED BY <2>4, <2>5, <2>6
<1>2. PreparationInv => (~ SpaceGap => ReaderKnows)
  BY <1>1 DEF ReaderKnows, Known
<1> QED BY <1>2, PreparationInvariant, PTL

-----------------------------------------------------------------------------
(* What the values stand for *)

\* The values a list of instructions defines or takes.
ValuesIn(s) == {s[n].id : n \in DOMAIN s} \cup UNION {Range(s[n].ops) : n \in DOMAIN s}
Source(i) == IF i.op = "fsub" THEN i.ops[2] ELSE i.ops[1]
StandsBy(f, i) ==
    CASE i.op = "freeze" -> f[Source(i)]
      [] i.op \in {"fneg", "fsub"} -> Negated(f[Source(i)], i.fmf)
      [] OTHER -> i.id

\* The instructions are well-formed, in any order of the layout: each that
\* another one takes is before it in the order r.
Ordered(s, r) ==
    /\ \A m, n \in DOMAIN s : s[m].id = s[n].id => m = n
    /\ \A n \in DOMAIN s :
         /\ s[n].op \in {"freeze", "fneg", "fsub", "use"} /\ ~IsConst(s[n].id)
         /\ Rewritable(s[n]) => s[n].id[1] = "inst" /\ Len(s[n].ops) = 1
         /\ s[n].op = "fsub" => 2 \in DOMAIN s[n].ops
         /\ r[s[n].id] \in Nat
    /\ \A m, n \in DOMAIN s :
         s[m].op # "use" /\ s[n].op # "use" /\ Source(s[n]) = s[m].id
           => r[s[m].id] < r[s[n].id]

\* The table f says what each value stands for.
Table(s, f) ==
    /\ \A n \in DOMAIN s : f[s[n].id] = StandsBy(f, s[n])
    /\ \A w \in ValuesIn(s) : (\A n \in DOMAIN s : s[n].id # w) => f[w] = w

\* A list of instructions, their operands of whatever sort.
IsList(s) == \E V : s \in Seq(Instructions(V))

LEMMA InstructionFields ==
  ASSUME NEW s, IsList(s)
  PROVE  /\ Len(s) \in Nat /\ DOMAIN s = 1 .. Len(s)
         /\ \A n \in DOMAIN s :
              /\ s[n] = [id |-> s[n].id, op |-> s[n].op, ops |-> s[n].ops, fmf |-> s[n].fmf]
              /\ Len(s[n].ops) \in Nat /\ DOMAIN s[n].ops = 1 .. Len(s[n].ops)
              /\ s[n].ops = [k \in DOMAIN s[n].ops |-> s[n].ops[k]]
              /\ s[n].id \in ValuesIn(s) /\ \A k \in DOMAIN s[n].ops : s[n].ops[k] \in ValuesIn(s)
<1>1. PICK V : s \in Seq(Instructions(V))
  BY DEF IsList
<1>2. Len(s) \in Nat /\ DOMAIN s = 1 .. Len(s) /\ \A n \in DOMAIN s : s[n] \in Instructions(V)
  BY <1>1, LenProperties, ElementOfSeq
<1>3. ASSUME NEW n \in DOMAIN s
      PROVE  /\ s[n] = [id |-> s[n].id, op |-> s[n].op, ops |-> s[n].ops, fmf |-> s[n].fmf]
             /\ s[n].ops \in Seq(V)
  BY <1>2 DEF Instructions
<1>4. ASSUME NEW n \in DOMAIN s
      PROVE  /\ Len(s[n].ops) \in Nat /\ DOMAIN s[n].ops = 1 .. Len(s[n].ops)
             /\ s[n].ops = [k \in DOMAIN s[n].ops |-> s[n].ops[k]]
  BY <1>3, LenProperties
<1>5. ASSUME NEW n \in DOMAIN s
      PROVE  s[n].id \in ValuesIn(s) /\ \A k \in DOMAIN s[n].ops : s[n].ops[k] \in ValuesIn(s)
  BY DEF ValuesIn, Range
<1> QED BY <1>2, <1>3, <1>4, <1>5

\* What an instruction that the passes are about takes is one of the values.
LEMMA SourceTaken ==
  ASSUME NEW s, IsList(s), NEW r, Ordered(s, r), NEW n \in DOMAIN s, s[n].op # "use"
  PROVE  Source(s[n]) \in ValuesIn(s)
<1>1. /\ DOMAIN s[n].ops = 1 .. Len(s[n].ops)
      /\ \A k \in DOMAIN s[n].ops : s[n].ops[k] \in ValuesIn(s)
  <2>1. PICK V : s \in Seq(Instructions(V))
    BY DEF IsList
  <2>2. s[n] \in Instructions(V)
    BY <2>1, LenProperties, ElementOfSeq
  <2>3. s[n].ops \in Seq(V)
    BY <2>2 DEF Instructions
  <2>4. \A k \in DOMAIN s[n].ops : s[n].ops[k] \in ValuesIn(s)
    BY DEF ValuesIn, Range
  <2> QED BY <2>3, <2>4, LenProperties
<1>2. CASE s[n].op = "fsub"
  BY <1>1, <1>2 DEF Source, Ordered
<1>3. CASE s[n].op # "fsub"
  <2>1. Rewritable(s[n])
    BY <1>3 DEF Ordered, Rewritable
  <2>2. 1 \in DOMAIN s[n].ops
    BY <1>1, <2>1 DEF Ordered
  <2> QED BY <1>1, <1>3, <2>2 DEF Source
<1> QED BY <1>2, <1>3

\* A table that says so is what ValueOf computes.
LEMMA ValuesAre ==
  ASSUME NEW s, IsList(s), NEW r, Ordered(s, r), NEW f, Table(s, f), NEW v \in ValuesIn(s)
  PROVE  ValueOf(s, v) = f[v]
<1> DEFINE D == ValuesIn(s)
           defs == {s[n] : n \in DOMAIN s}
           Def(w) == CHOOSE j \in defs : j.id = w
           Step(g, w) ==
             IF \A i \in defs : i.id # w THEN w
             ELSE CASE Def(w).op = "freeze" -> g[Def(w).ops[1]]
                    [] Def(w).op = "fneg" -> Negated(g[Def(w).ops[1]], Def(w).fmf)
                    [] Def(w).op = "fsub" -> Negated(g[Def(w).ops[2]], Def(w).fmf)
                    [] OTHER -> w
           Of == CHOOSE g : g = [w \in D |-> Step(g, w)]
<1>1. ValueOf(s, v) = Of[v]
  <2>1. D = {i.id : i \in defs} \cup UNION {Range(i.ops) : i \in defs}
    <3>1. {s[n].id : n \in DOMAIN s} = {i.id : i \in defs}
      OBVIOUS
    <3>2. {Range(s[n].ops) : n \in DOMAIN s} = {Range(i.ops) : i \in defs}
      OBVIOUS
    <3> QED BY <3>1, <3>2 DEF ValuesIn
  <2> HIDE DEF D
  <2> QED BY <2>1 DEF ValueOf
<1>2. ASSUME NEW n \in DOMAIN s PROVE Def(s[n].id) = s[n]
  <2>1. s[n] \in defs /\ \A j \in defs : j.id = s[n].id => j = s[n]
    BY DEF Ordered
  <2> HIDE DEF defs
  <2> QED BY <2>1
<1>3. \A w : (\A i \in defs : i.id # w) <=> \A n \in DOMAIN s : s[n].id # w
  OBVIOUS
<1> HIDE DEF Def, defs
<1>4. ASSUME NEW g, NEW n \in DOMAIN s PROVE Step(g, s[n].id) = StandsBy(g, s[n])
  <2>1. PICK i : i = s[n]
    OBVIOUS
  <2>2. Def(i.id) = i /\ ~(\A j \in defs : j.id # i.id)
    BY <1>2, <1>3, <2>1
  <2>3. i.op \in {"freeze", "fneg", "fsub", "use"}
    BY <2>1 DEF Ordered
  <2> QED BY <2>1, <2>2, <2>3 DEF StandsBy, Source
<1>5. ASSUME NEW g, NEW w \in D, \A n \in DOMAIN s : s[n].id # w
      PROVE  Step(g, w) = w
  BY <1>3, <1>5
<1> HIDE DEF Step
<1>6. \A w \in D : f[w] = Step(f, w)
  <2> SUFFICES ASSUME NEW w \in D PROVE f[w] = Step(f, w)
    OBVIOUS
  <2>1. CASE \A n \in DOMAIN s : s[n].id # w
    BY <1>5, <2>1 DEF Table
  <2>2. CASE \E n \in DOMAIN s : s[n].id = w
    BY <1>4, <2>2 DEF Table
  <2> QED BY <2>1, <2>2
<1> DEFINE F == [w \in D |-> f[w]]
<1>7. \A w \in D : F[w] = f[w]
  OBVIOUS
<1>8. \A w \in D : Step(F, w) = Step(f, w)
  <2> SUFFICES ASSUME NEW w \in D PROVE Step(F, w) = Step(f, w)
    OBVIOUS
  <2> HIDE DEF F, D
  <2>1. CASE \A n \in DOMAIN s : s[n].id # w
    BY <1>5, <2>1
  <2>2. CASE \E n \in DOMAIN s : s[n].id = w
    <3>1. PICK n \in DOMAIN s : s[n].id = w
      BY <2>2
    <3>2. s[n].op # "use" => Source(s[n]) \in D
      BY SourceTaken DEF D
    <3>3. s[n].op # "use" => F[Source(s[n])] = f[Source(s[n])]
      BY <1>7, <3>2
    <3>4. StandsBy(F, s[n]) = StandsBy(f, s[n])
      <4>1. CASE s[n].op = "use"
        BY <4>1 DEF StandsBy
      <4>2. CASE s[n].op # "use"
        BY <3>3, <4>2 DEF StandsBy
      <4> QED BY <4>1, <4>2
    <3> QED BY <1>4, <3>1, <3>4
  <2> QED BY <2>1, <2>2
<1>9. F = [w \in D |-> Step(F, w)]
  <2>1. F = [w \in D |-> F[w]]
    OBVIOUS
  <2> HIDE DEF F, D
  <2> QED BY <1>6, <1>7, <1>8, <2>1
<1>10. Of = [w \in D |-> Step(Of, w)]
  <2> HIDE DEF F, D
  <2> QED BY <1>9
<1> HIDE DEF Of, F
<1>11. \A w \in D : Of[w] = Step(Of, w)
  <2> HIDE DEF D
  <2> QED BY <1>10
<1>12. ASSUME NEW n \in DOMAIN s PROVE Of[s[n].id] = f[s[n].id]
  <2> DEFINE N == r[s[n].id] + 1
             Good == {k \in 0 .. N : \A m \in DOMAIN s : r[s[m].id] < k => Of[s[m].id] = f[s[m].id]}
  <2>1. N \in Nat /\ r[s[n].id] < N /\ \A m \in DOMAIN s : r[s[m].id] \in Nat
    BY DEF Ordered
  <2> HIDE DEF N
  <2>2. 0 \in Good
    BY <2>1
  <2>3. ASSUME NEW k \in 1 .. N, k - 1 \in Good PROVE k \in Good
    <3>1. ASSUME NEW m \in DOMAIN s, r[s[m].id] < k PROVE Of[s[m].id] = f[s[m].id]
      <4>1. PICK i : i = s[m]
        OBVIOUS
      <4>2. i.id \in D
        BY <4>1, InstructionFields
      <4>3. Of[i.id] = StandsBy(Of, i) /\ f[i.id] = StandsBy(f, i)
        <5>1. f[i.id] = StandsBy(f, i)
          BY <4>1 DEF Table
        <5>2. Of[i.id] = Step(Of, i.id)
          BY <1>11, <4>2
        <5>3. Step(Of, i.id) = StandsBy(Of, i)
          BY <1>4, <4>1
        <5> QED BY <5>1, <5>2, <5>3
      <4>4. CASE i.op = "use"
        BY <4>1, <4>3, <4>4 DEF StandsBy
      <4>5. CASE i.op # "use"
        <5>1. PICK w : w = Source(i)
          OBVIOUS
        <5>2. w \in D
          BY <4>1, <4>5, <5>1, SourceTaken
        <5>3. CASE \A h \in DOMAIN s : s[h].id # w
          <6>1. Of[w] = w /\ f[w] = w
            <7>1. f[w] = w
              BY <5>2, <5>3 DEF Table
            <7> HIDE DEF D
            <7> QED BY <1>5, <1>11, <5>2, <5>3, <7>1
          <6> QED BY <4>1, <4>3, <4>5, <5>1, <6>1 DEF StandsBy
        <5>4. CASE \E h \in DOMAIN s : s[h].id = w
          <6>1. PICK h \in DOMAIN s : s[h].id = w
            BY <5>4
          <6>2. Of[w] = f[w]
            <7>1. CASE s[h].op = "use"
              <8>1. StandsBy(Of, s[h]) = w /\ StandsBy(f, s[h]) = w
                BY <6>1, <7>1 DEF StandsBy
              <8>2. f[w] = w
                BY <6>1, <8>1 DEF Table
              <8>3. Of[w] = w
                <9> HIDE DEF D
                <9> QED BY <1>4, <1>11, <5>2, <6>1, <8>1
              <8> QED BY <8>2, <8>3
            <7>2. CASE s[h].op # "use"
              <8>1. r[s[h].id] < r[s[m].id]
                BY <4>1, <4>5, <5>1, <6>1, <7>2 DEF Ordered
              <8>2. r[s[h].id] < k - 1
                BY <2>1, <3>1, <8>1
              <8> QED BY <2>3, <6>1, <8>2
            <7> QED BY <7>1, <7>2
          <6> QED BY <4>1, <4>3, <4>5, <5>1, <6>2 DEF StandsBy
        <5> QED BY <5>3, <5>4
      <4> QED BY <4>1, <4>4, <4>5
    <3>2. k \in 0 .. N
      BY <2>1
    <3> QED BY <3>1, <3>2
  <2> HIDE DEF Good
  <2>4. N \in 0 .. N
    BY <2>1
  <2>5. N \in Good
    BY <2>1, <2>2, <2>3, <2>4, AllNumbers
  <2> QED BY <2>1, <2>5 DEF Good
<1>13. CASE \A n \in DOMAIN s : s[n].id # v
  <2>1. f[v] = v
    BY <1>13 DEF Table
  <2>2. Of[v] = v
    BY <1>5, <1>11, <1>13
  <2> QED BY <1>1, <2>1, <2>2
<1>14. CASE \E n \in DOMAIN s : s[n].id = v
  BY <1>1, <1>12, <1>14
<1> QED BY <1>13, <1>14

\* Where the instructions come one after the other there is a table: whatever
\* an instruction takes is settled before it.
LEMMA TableExists ==
  ASSUME NEW s, IsList(s), NEW r, Ordered(s, r), NEW N \in Nat,
         \A n \in DOMAIN s : r[s[n].id] < N
  PROVE  \E f : Table(s, f)
<1> DEFINE D == ValuesIn(s)
           Upto(f, k) ==
             /\ \A n \in DOMAIN s : s[n].op = "use" \/ r[s[n].id] < k => f[s[n].id] = StandsBy(f, s[n])
             /\ \A w \in D : (\A n \in DOMAIN s : s[n].id # w) => f[w] = w
           Good == {k \in 0 .. N : \E f : Upto(f, k)}
<1>1. \A n \in DOMAIN s : r[s[n].id] \in Nat /\ s[n].id \in D
  BY DEF Ordered, ValuesIn
<1>2. \A n \in DOMAIN s : s[n].op # "use" => Source(s[n]) \in D
  BY SourceTaken DEF D
<1> HIDE DEF D
<1>3. 0 \in Good
  <2> DEFINE f == [w \in D |-> w]
  <2>1. \A w \in D : f[w] = w
    OBVIOUS
  <2> HIDE DEF f
  <2>2. Upto(f, 0)
    BY <1>1, <2>1 DEF StandsBy
  <2>3. 0 \in 0 .. N
    OBVIOUS
  <2> HIDE DEF Upto
  <2> QED BY <2>2, <2>3
<1>4. ASSUME NEW k \in 1 .. N, k - 1 \in Good PROVE k \in Good
  <2>1. PICK f : Upto(f, k - 1)
    BY <1>4
  <2> DEFINE At(n) == s[n].op # "use" /\ r[s[n].id] = k - 1
             Place(w) == CHOOSE n \in DOMAIN s : s[n].id = w
             g == [w \in D |-> IF \E n \in DOMAIN s : s[n].id = w /\ At(n)
                               THEN StandsBy(f, s[Place(w)]) ELSE f[w]]
  <2>2. ASSUME NEW n \in DOMAIN s PROVE Place(s[n].id) = n
    <3>1. \A m \in DOMAIN s : s[m].id = s[n].id => m = n
      BY DEF Ordered
    <3> QED BY <3>1
  <2>3. ASSUME NEW n \in DOMAIN s
        PROVE  g[s[n].id] = IF At(n) THEN StandsBy(f, s[n]) ELSE f[s[n].id]
    <3>1. (\E m \in DOMAIN s : s[m].id = s[n].id /\ At(m)) <=> At(n)
      BY DEF Ordered
    <3> HIDE DEF At, Place
    <3>2. g[s[n].id] = IF \E m \in DOMAIN s : s[m].id = s[n].id /\ At(m)
                       THEN StandsBy(f, s[Place(s[n].id)]) ELSE f[s[n].id]
      BY <1>1
    <3> QED BY <2>2, <3>1, <3>2
  <2>4. ASSUME NEW w \in D, \A n \in DOMAIN s : s[n].id # w PROVE g[w] = f[w]
    BY <2>4
  <2> HIDE DEF g, Place
  <2>5. k \in 0 .. N /\ k \in Nat
    OBVIOUS
  <2>6. ASSUME NEW n \in DOMAIN s, s[n].op # "use", r[s[n].id] < k
        PROVE  StandsBy(g, s[n]) = StandsBy(f, s[n])
    <3>1. PICK v : v = Source(s[n])
      OBVIOUS
    <3>2. v \in D
      BY <1>2, <2>6, <3>1
    <3>3. g[v] = f[v]
      <4>1. CASE \A m \in DOMAIN s : s[m].id # v
        BY <2>4, <3>2, <4>1
      <4>2. CASE \E m \in DOMAIN s : s[m].id = v
        <5>1. PICK m \in DOMAIN s : s[m].id = v
          BY <4>2
        <5>2. ~ At(m)
          <6>1. s[m].op # "use" => r[s[m].id] < r[s[n].id]
            BY <2>6, <3>1, <5>1 DEF Ordered
          <6> QED BY <1>1, <2>5, <2>6, <6>1
        <5> QED BY <2>3, <5>1, <5>2
      <4> QED BY <4>1, <4>2
    <3> QED BY <3>1, <3>3 DEF StandsBy
  <2>7. ASSUME NEW n \in DOMAIN s, s[n].op = "use" \/ r[s[n].id] < k
        PROVE  g[s[n].id] = StandsBy(g, s[n])
    <3>1. CASE s[n].op = "use"
      <4>1. StandsBy(f, s[n]) = StandsBy(g, s[n])
        BY <3>1 DEF StandsBy
      <4>2. f[s[n].id] = StandsBy(f, s[n])
        BY <2>1, <3>1
      <4> QED BY <2>3, <3>1, <4>1, <4>2
    <3>2. CASE s[n].op # "use"
      <4>1. StandsBy(g, s[n]) = StandsBy(f, s[n])
        BY <2>6, <2>7, <3>2
      <4>2. CASE At(n)
        BY <2>3, <4>1, <4>2
      <4>3. CASE ~ At(n)
        <5>1. r[s[n].id] < k - 1
          BY <1>1, <2>5, <2>7, <3>2, <4>3
        <5>2. f[s[n].id] = StandsBy(f, s[n])
          BY <2>1, <5>1
        <5> QED BY <2>3, <4>1, <4>3, <5>2
      <4> QED BY <4>2, <4>3
    <3> QED BY <3>1, <3>2
  <2>8. \A w \in D : (\A n \in DOMAIN s : s[n].id # w) => g[w] = w
    BY <2>1, <2>4
  <2>9. Upto(g, k)
    BY <2>7, <2>8
  <2> HIDE DEF Upto
  <2> QED BY <2>5, <2>9
<1>5. 0 .. N \subseteq Good
  <2> HIDE DEF Good
  <2> QED BY <1>3, <1>4, AllNumbers
<1>6. N \in Good
  BY <1>5
<1>7. PICK f : Upto(f, N)
  BY <1>6
<1> QED BY <1>7 DEF Table, D

\* What the other instructions are, by a table.
Used(f, i) == [id |-> i.id, ops |-> [k \in DOMAIN i.ops |-> f[i.ops[k]]]]
Piece(f, i) == IF i.op = "use" THEN <<Used(f, i)>> ELSE <<>>
Pieces(f, s) == [n \in DOMAIN s |-> Piece(f, s[n])]
LEMMA MeaningTable ==
  ASSUME NEW s, IsList(s), NEW r, Ordered(s, r), NEW f, Table(s, f)
  PROVE  Meaning(s) = FlattenSeq(Pieces(f, s))
<1> DEFINE used(i) == [id |-> i.id, ops |-> [k \in DOMAIN i.ops |-> ValueOf(s, i.ops[k])]]
<1>1. Meaning(s) = FlattenSeq([n \in DOMAIN s |->
                                 IF s[n].op = "use" THEN <<used(s[n])>> ELSE <<>>])
  BY DEF Meaning
<1>2. ASSUME NEW n \in DOMAIN s PROVE used(s[n]) = Used(f, s[n])
  <2>1. \A k \in DOMAIN s[n].ops : s[n].ops[k] \in ValuesIn(s)
    BY DEF ValuesIn, Range
  <2>2. \A k \in DOMAIN s[n].ops : ValueOf(s, s[n].ops[k]) = f[s[n].ops[k]]
    BY <2>1, ValuesAre
  <2>3. [k \in DOMAIN s[n].ops |-> ValueOf(s, s[n].ops[k])] =
        [k \in DOMAIN s[n].ops |-> f[s[n].ops[k]]]
    BY <2>2
  <2> QED BY <2>3 DEF Used
<1> HIDE DEF used
<1>3. [n \in DOMAIN s |-> IF s[n].op = "use" THEN <<used(s[n])>> ELSE <<>>] = Pieces(f, s)
  <2>1. \A n \in DOMAIN s : Piece(f, s[n]) = IF s[n].op = "use" THEN <<used(s[n])>> ELSE <<>>
    BY <1>2 DEF Piece
  <2> QED BY <2>1 DEF Pieces
<1> QED BY <1>1, <1>3

\* The pieces are sequences.
LEMMA PiecesSequence ==
  ASSUME NEW s, IsList(s), NEW f
  PROVE  \E S : Pieces(f, s) \in Seq(Seq(S)) /\ Len(Pieces(f, s)) = Len(s)
<1> DEFINE S == {Used(f, s[n]) : n \in DOMAIN s}
<1>1. Len(s) \in Nat /\ DOMAIN s = 1 .. Len(s)
  <2>1. PICK V : s \in Seq(Instructions(V))
    BY DEF IsList
  <2> QED BY <2>1, LenProperties
<1>2. ASSUME NEW n \in DOMAIN s PROVE Piece(f, s[n]) \in Seq(S)
  <2>1. Used(f, s[n]) \in S
    OBVIOUS
  <2> HIDE DEF S
  <2> QED BY <2>1 DEF Piece
<1> HIDE DEF S
<1>3. Pieces(f, s) = [n \in 1 .. Len(s) |-> Pieces(f, s)[n]] /\ DOMAIN Pieces(f, s) = 1 .. Len(s)
  BY <1>1 DEF Pieces
<1>4. \A n \in 1 .. Len(s) : Pieces(f, s)[n] \in Seq(S)
  BY <1>1, <1>2 DEF Pieces
<1>5. Pieces(f, s) \in Seq(Seq(S)) /\ Len(Pieces(f, s)) = Len(s)
  BY <1>1, <1>3, <1>4, IsSequence
<1> QED BY <1>5

-----------------------------------------------------------------------------
(* What a pass makes of the instructions *)

\* An instruction whose uses of one value take another.
Moved(i, old, new) ==
    [i EXCEPT !.ops = [k \in DOMAIN @ |-> IF @[k] = old THEN new ELSE @[k]]]
Takes(j, i, old, new) ==
    /\ j.id = i.id /\ j.op = i.op /\ j.fmf = i.fmf
    /\ DOMAIN j.ops = DOMAIN i.ops /\ Len(j.ops) = Len(i.ops)
    /\ \A k \in DOMAIN i.ops : j.ops[k] = IF i.ops[k] = old THEN new ELSE i.ops[k]
LEMMA MovedFields ==
  ASSUME NEW V, NEW i \in Instructions(V), NEW old, NEW new
  PROVE  /\ Takes(Moved(i, old, new), i, old, new)
         /\ Moved(i, old, new) \in Instructions(V \cup {new})
<1> DEFINE o == [k \in DOMAIN i.ops |-> IF i.ops[k] = old THEN new ELSE i.ops[k]]
           j == [i EXCEPT !.ops = o]
<1>1. Moved(i, old, new) = j
  BY DEF Moved
<1>2. /\ i = [id |-> i.id, op |-> i.op, ops |-> i.ops, fmf |-> i.fmf]
      /\ i.id \in V /\ i.op \in Operations /\ i.ops \in Seq(V) /\ i.fmf \in SUBSET STRING
  BY DEF Instructions
<1>3. Len(i.ops) \in Nat /\ DOMAIN i.ops = 1 .. Len(i.ops)
      /\ \A k \in DOMAIN i.ops : i.ops[k] \in V
  BY <1>2, LenProperties, ElementOfSeq
<1>4. o \in Seq(V \cup {new}) /\ Len(o) = Len(i.ops)
  <2>1. \A k \in DOMAIN i.ops : o[k] \in V \cup {new}
    BY <1>3
  <2>2. DOMAIN o = DOMAIN i.ops /\ o = [k \in DOMAIN i.ops |-> o[k]]
    OBVIOUS
  <2> HIDE DEF o
  <2> QED BY <1>3, <2>1, <2>2, IsSequence
<1>5. \A k \in DOMAIN i.ops : o[k] = IF i.ops[k] = old THEN new ELSE i.ops[k]
  OBVIOUS
<1>6. DOMAIN o = DOMAIN i.ops
  OBVIOUS
<1> HIDE DEF o
<1>7. j = [id |-> i.id, op |-> i.op, ops |-> o, fmf |-> i.fmf]
  BY <1>2
<1> HIDE DEF j
<1>8. j \in Instructions(V \cup {new})
  BY <1>2, <1>4, <1>7 DEF Instructions
<1>9. j.id = i.id /\ j.op = i.op /\ j.fmf = i.fmf /\ j.ops = o
  BY <1>7
<1>10. Takes(j, i, old, new)
  BY <1>4, <1>5, <1>6, <1>9 DEF Takes
<1> QED BY <1>1, <1>8, <1>10

\* The list with the uses of one value taking another.
Redirected(t, s, old, new, V) ==
    /\ t \in Seq(Instructions(V \cup {new})) /\ DOMAIN t = DOMAIN s
    /\ \A n \in DOMAIN s : t[n] = Moved(s[n], old, new)
LEMMA ReplacedList ==
  ASSUME NEW V, NEW s \in Seq(Instructions(V)), NEW old, NEW new
  PROVE  Redirected(Replaced(s, old, new), s, old, new, V)
<1> DEFINE t == [n \in DOMAIN s |-> Moved(s[n], old, new)]
<1>1. Replaced(s, old, new) = t
  BY DEF Replaced, Moved
<1>2. /\ Len(s) \in Nat /\ DOMAIN s = 1 .. Len(s)
      /\ \A n \in DOMAIN s : s[n] \in Instructions(V)
  BY LenProperties, ElementOfSeq
<1>3. \A n \in DOMAIN s : t[n] = Moved(s[n], old, new)
  OBVIOUS
<1>4. \A n \in DOMAIN s : t[n] \in Instructions(V \cup {new})
  BY <1>2, <1>3, MovedFields
<1>5. DOMAIN t = DOMAIN s /\ t = [n \in DOMAIN s |-> t[n]]
  OBVIOUS
<1> HIDE DEF t
<1>6. t \in Seq(Instructions(V \cup {new}))
  BY <1>2, <1>4, <1>5, IsSequence
<1> QED BY <1>1, <1>3, <1>5, <1>6 DEF Redirected

\* The pass takes instruction n of s out, or puts the subtraction in its place;
\* what used it takes the value new.  p says which instruction of s each of t was.
Zero == <<"const", "-0.0">>
Subtraction(i) ==
    [id |-> <<"neg", i.id>>, op |-> "fsub", ops |-> <<Zero, Source(i)>>, fmf |-> i.fmf]
Rewrites(s, n, new, t, p) ==
    /\ n \in DOMAIN s /\ Rewritable(s[n])
    /\ p \in [DOMAIN t -> DOMAIN s] /\ \A k, l \in DOMAIN t : p[k] = p[l] => k = l
    /\ \A m \in DOMAIN s : m # n => \E q \in DOMAIN t : p[q] = m
    /\ \A q \in DOMAIN t : p[q] # n => t[q] = Moved(s[p[q]], s[n].id, new)
    /\ \/ /\ s[n].op = "freeze" /\ new = Source(s[n])
          /\ \A q \in DOMAIN t : p[q] # n
       \/ /\ s[n].op = "fneg" /\ IsConst(Source(s[n])) /\ new = <<"const", "-", Source(s[n])>>
          /\ \A q \in DOMAIN t : p[q] # n
       \/ /\ s[n].op = "fneg" /\ new = <<"neg", s[n].id>>
          /\ \E q \in DOMAIN t : p[q] = n
          /\ \A q \in DOMAIN t : p[q] = n => t[q] = Subtraction(s[n])

\* Names that are free: a subtraction is named after an fneg that is gone.
NamesFree(s) ==
    \A w \in ValuesIn(s) : w[1] = "neg" =>
        w[2][1] = "inst" /\ \A n \in DOMAIN s : s[n].id # w[2]

\* What such a step leaves of the instructions.
LEMMA RewritesFields ==
  ASSUME NEW s, IsList(s), NEW r, Ordered(s, r), NamesFree(s),
         NEW n, NEW new, NEW t, NEW p, Rewrites(s, n, new, t, p)
  PROVE  /\ s[n].id \in ValuesIn(s) /\ Source(s[n]) \in ValuesIn(s)
         /\ Source(s[n]) # s[n].id /\ s[n].id[1] = "inst"
         /\ <<"neg", s[n].id>> \notin ValuesIn(s)
         /\ \A q \in DOMAIN t : p[q] # n =>
              /\ t[q].id = s[p[q]].id /\ t[q].op = s[p[q]].op /\ t[q].fmf = s[p[q]].fmf
              /\ DOMAIN t[q].ops = DOMAIN s[p[q]].ops /\ Len(t[q].ops) = Len(s[p[q]].ops)
              /\ \A k \in DOMAIN s[p[q]].ops :
                   /\ t[q].ops[k] = IF s[p[q]].ops[k] = s[n].id THEN new ELSE s[p[q]].ops[k]
                   /\ s[p[q]].ops[k] \in ValuesIn(s)
              /\ s[p[q]].id \in ValuesIn(s) /\ s[p[q]].id # s[n].id
              /\ s[p[q]].op # "use" =>
                   /\ Source(s[p[q]]) \in ValuesIn(s)
                   /\ Source(t[q]) = IF Source(s[p[q]]) = s[n].id THEN new ELSE Source(s[p[q]])
<1>1. n \in DOMAIN s /\ Rewritable(s[n]) /\ p \in [DOMAIN t -> DOMAIN s]
  BY DEF Rewrites
<1>2. \A m \in DOMAIN s : s[m].id \in ValuesIn(s) /\ \A k \in DOMAIN s[m].ops : s[m].ops[k] \in ValuesIn(s)
  BY DEF ValuesIn, Range
<1>3. s[n].op # "use" /\ s[n].op # "fsub" /\ s[n].id[1] = "inst"
  BY <1>1 DEF Rewritable, Ordered
<1>4. Source(s[n]) \in ValuesIn(s)
  BY <1>1, <1>3, SourceTaken
<1>5. Source(s[n]) # s[n].id
  <2>1. SUFFICES ASSUME Source(s[n]) = s[n].id PROVE FALSE
    OBVIOUS
  <2>2. r[s[n].id] < r[s[n].id] /\ r[s[n].id] \in Nat
    BY <1>1, <1>3, <2>1 DEF Ordered
  <2> QED BY <2>2
<1>6. <<"neg", s[n].id>> \notin ValuesIn(s)
  <2>1. PICK w : w = <<"neg", s[n].id>>
    OBVIOUS
  <2>2. w[1] = "neg" /\ w[2] = s[n].id
    BY <2>1
  <2> QED BY <1>1, <2>1, <2>2 DEF NamesFree
<1>7. ASSUME NEW q \in DOMAIN t, p[q] # n
      PROVE  /\ t[q].id = s[p[q]].id /\ t[q].op = s[p[q]].op /\ t[q].fmf = s[p[q]].fmf
             /\ DOMAIN t[q].ops = DOMAIN s[p[q]].ops /\ Len(t[q].ops) = Len(s[p[q]].ops)
             /\ \A k \in DOMAIN s[p[q]].ops :
                  /\ t[q].ops[k] = IF s[p[q]].ops[k] = s[n].id THEN new ELSE s[p[q]].ops[k]
                  /\ s[p[q]].ops[k] \in ValuesIn(s)
             /\ s[p[q]].id \in ValuesIn(s) /\ s[p[q]].id # s[n].id
             /\ s[p[q]].op # "use" =>
                  /\ Source(s[p[q]]) \in ValuesIn(s)
                  /\ Source(t[q]) = IF Source(s[p[q]]) = s[n].id THEN new ELSE Source(s[p[q]])
  <2>1. PICK V : s \in Seq(Instructions(V))
    BY DEF IsList
  <2>2. p[q] \in DOMAIN s /\ s[p[q]] \in Instructions(V) /\ t[q] = Moved(s[p[q]], s[n].id, new)
    BY <1>1, <1>7, <2>1, LenProperties, ElementOfSeq DEF Rewrites
  <2>3. PICK i, j, old : i = s[p[q]] /\ j = t[q] /\ old = s[n].id
    OBVIOUS
  <2>4. /\ j.id = i.id /\ j.op = i.op /\ j.fmf = i.fmf
        /\ DOMAIN j.ops = DOMAIN i.ops /\ Len(j.ops) = Len(i.ops)
        /\ \A k \in DOMAIN i.ops : j.ops[k] = IF i.ops[k] = old THEN new ELSE i.ops[k]
    <3>1. Takes(j, i, old, new)
      BY <2>2, <2>3, MovedFields
    <3>2. j.id = i.id /\ j.op = i.op /\ j.fmf = i.fmf
      BY <3>1 DEF Takes
    <3>3. DOMAIN j.ops = DOMAIN i.ops /\ Len(j.ops) = Len(i.ops)
      BY <3>1 DEF Takes
    <3>4. \A k \in DOMAIN i.ops : j.ops[k] = IF i.ops[k] = old THEN new ELSE i.ops[k]
      BY <3>1 DEF Takes
    <3> QED BY <3>2, <3>3, <3>4
  <2>5. i.id # old
    BY <1>1, <1>7, <2>2, <2>3 DEF Ordered
  <2>6. ASSUME i.op # "use"
        PROVE  /\ Source(i) \in ValuesIn(s)
               /\ Source(j) = IF Source(i) = old THEN new ELSE Source(i)
    <3>1. Source(i) \in ValuesIn(s)
      BY <2>2, <2>3, <2>6, SourceTaken
    <3>2. CASE i.op = "fsub"
      <4>1. 2 \in DOMAIN i.ops
        BY <2>2, <2>3, <3>2 DEF Ordered
      <4> QED BY <2>4, <3>1, <3>2, <4>1 DEF Source
    <3>3. CASE i.op # "fsub"
      <4>1. Len(i.ops) = 1
        BY <2>2, <2>3, <2>6, <3>3 DEF Ordered, Rewritable
      <4>2. DOMAIN i.ops = 1 .. Len(i.ops)
        BY <2>2, <2>3, LenProperties DEF Instructions
      <4>3. 1 \in DOMAIN i.ops
        BY <4>1, <4>2
      <4> QED BY <2>4, <3>1, <3>3, <4>3 DEF Source
    <3> QED BY <3>2, <3>3
  <2> QED BY <1>2, <2>2, <2>3, <2>4, <2>5, <2>6
<1> QED BY <1>1, <1>2, <1>3, <1>4, <1>5, <1>6, <1>7

\* The subtraction in the place of an fneg.
LEMMA SubtractionFields ==
  ASSUME NEW i, NEW j, j = Subtraction(i)
  PROVE  /\ j.id = <<"neg", i.id>> /\ j.op = "fsub" /\ j.fmf = i.fmf
         /\ DOMAIN j.ops = 1 .. 2 /\ j.ops[1] = Zero /\ j.ops[2] = Source(i)
         /\ Source(j) = Source(i)
BY DEF Subtraction, Source

\* Such a step takes one table to another: what is left stands for what it
\* did, and each instruction is still behind the one it takes.
LEMMA RewritesMean ==
  ASSUME NEW s, IsList(s), NEW r, Ordered(s, r), NEW f, Table(s, f), NamesFree(s),
         NEW n, NEW new, NEW t, NEW p, Rewrites(s, n, new, t, p)
  PROVE  /\ NamesFree(t)
         /\ \E g, z : /\ Ordered(t, z) /\ Table(t, g)
                      /\ \A q \in DOMAIN t : p[q] # n => Piece(g, t[q]) = Piece(f, s[p[q]])
<1> DEFINE D == ValuesIn(s)
           E == ValuesIn(t)
           g == [w \in D \cup E \cup {new} |-> IF w = new THEN f[s[n].id]
                                               ELSE IF w \in D THEN f[w] ELSE w]
           z == [w \in D \cup E \cup {new} |-> IF w \in D THEN r[w] ELSE r[s[n].id]]
<1>1. PICK old, v : old = s[n].id /\ v = Source(s[n])
  OBVIOUS
<1>2. /\ n \in DOMAIN s /\ Rewritable(s[n]) /\ p \in [DOMAIN t -> DOMAIN s]
      /\ \A k, l \in DOMAIN t : p[k] = p[l] => k = l
      /\ \A m \in DOMAIN s : m # n => \E q \in DOMAIN t : p[q] = m
  BY DEF Rewrites
<1>3. /\ old \in D /\ v \in D /\ v # old /\ old[1] = "inst" /\ <<"neg", old>> \notin D
      /\ \A q \in DOMAIN t : p[q] # n =>
           /\ t[q].id = s[p[q]].id /\ t[q].op = s[p[q]].op /\ t[q].fmf = s[p[q]].fmf
           /\ DOMAIN t[q].ops = DOMAIN s[p[q]].ops /\ Len(t[q].ops) = Len(s[p[q]].ops)
           /\ \A k \in DOMAIN s[p[q]].ops :
                /\ t[q].ops[k] = IF s[p[q]].ops[k] = old THEN new ELSE s[p[q]].ops[k]
                /\ s[p[q]].ops[k] \in D
           /\ s[p[q]].id \in D /\ s[p[q]].id # old
           /\ s[p[q]].op # "use" =>
                /\ Source(s[p[q]]) \in D
                /\ Source(t[q]) = IF Source(s[p[q]]) = old THEN new ELSE Source(s[p[q]])
  BY <1>1, RewritesFields
<1>4. \/ /\ s[n].op = "freeze" /\ new = v /\ \A q \in DOMAIN t : p[q] # n
      \/ /\ s[n].op = "fneg" /\ IsConst(v) /\ new = <<"const", "-", v>>
         /\ \A q \in DOMAIN t : p[q] # n
      \/ /\ s[n].op = "fneg" /\ new = <<"neg", old>>
         /\ \E q \in DOMAIN t : p[q] = n
         /\ \A q \in DOMAIN t : p[q] = n => t[q] = Subtraction(s[n])
  BY <1>1 DEF Rewrites
<1>5. ASSUME NEW q \in DOMAIN t, p[q] = n
      PROVE  /\ new = <<"neg", old>> /\ new \notin D /\ new[1] = "neg"
             /\ t[q].id = new /\ t[q].op = "fsub" /\ t[q].fmf = s[n].fmf
             /\ DOMAIN t[q].ops = 1 .. 2 /\ t[q].ops[1] = Zero /\ t[q].ops[2] = v
             /\ Source(t[q]) = v /\ s[n].op = "fneg"
  <2>1. s[n].op = "fneg" /\ new = <<"neg", old>> /\ t[q] = Subtraction(s[n])
    BY <1>4, <1>5
  <2>2. PICK j : j = t[q]
    OBVIOUS
  <2>3. /\ j.id = <<"neg", s[n].id>> /\ j.op = "fsub" /\ j.fmf = s[n].fmf
        /\ DOMAIN j.ops = 1 .. 2 /\ j.ops[1] = Zero /\ j.ops[2] = Source(s[n])
        /\ Source(j) = Source(s[n])
    BY <2>1, <2>2, SubtractionFields
  <2> QED BY <1>1, <1>3, <2>1, <2>2, <2>3
<1>6. f[old] = StandsBy(f, s[n]) /\ s[n].op \in {"freeze", "fneg"}
  BY <1>1, <1>2 DEF Table, Rewritable
<1>7. \A w \in D : (\A m \in DOMAIN s : s[m].id # w) => f[w] = w
  BY DEF Table
<1>8. \A m \in DOMAIN s : ~IsConst(s[m].id)
  BY DEF Ordered
<1>9. ASSUME NEW w, IsConst(w), w \in D PROVE f[w] = w
  BY <1>7, <1>8, <1>9
<1>10. /\ \A w \in D \cup E \cup {new} :
            g[w] = IF w = new THEN f[old] ELSE IF w \in D THEN f[w] ELSE w
       /\ \A w \in D \cup E \cup {new} : z[w] = IF w \in D THEN r[w] ELSE r[old]
  BY <1>1
<1> HIDE DEF g, z, D
<1>11. new \in D => f[new] = f[old]
  <2>1. CASE s[n].op = "freeze" /\ new = v
    BY <1>1, <1>6, <2>1 DEF StandsBy
  <2>2. CASE s[n].op = "fneg" /\ IsConst(v) /\ new = <<"const", "-", v>>
    <3>1. f[v] = v
      BY <1>3, <1>9, <2>2
    <3>2. f[old] = new
      BY <1>1, <1>6, <2>2, <3>1 DEF StandsBy, Negated
    <3>3. IsConst(new)
      BY <2>2 DEF IsConst
    <3> QED BY <1>9, <3>2, <3>3
  <2>3. CASE new = <<"neg", old>>
    BY <1>3, <2>3
  <2> QED BY <1>4, <2>1, <2>2, <2>3
<1>12. g[new] = f[old] /\ \A w \in D : g[w] = f[w]
  BY <1>10, <1>11
<1>13. ASSUME NEW q \in DOMAIN t, p[q] # n
       PROVE  \A k \in DOMAIN s[p[q]].ops : g[t[q].ops[k]] = f[s[p[q]].ops[k]]
  BY <1>3, <1>12, <1>13
<1>14. ASSUME NEW q \in DOMAIN t, p[q] # n PROVE Piece(g, t[q]) = Piece(f, s[p[q]])
  <2>1. PICK i, j : i = s[p[q]] /\ j = t[q]
    OBVIOUS
  <2>2. /\ j.id = i.id /\ j.op = i.op /\ DOMAIN j.ops = DOMAIN i.ops
        /\ \A k \in DOMAIN i.ops : g[j.ops[k]] = f[i.ops[k]]
    BY <1>3, <1>13, <1>14, <2>1
  <2>3. [k \in DOMAIN j.ops |-> g[j.ops[k]]] = [k \in DOMAIN i.ops |-> f[i.ops[k]]]
    BY <2>2
  <2>4. Used(g, j) = Used(f, i)
    BY <2>2, <2>3 DEF Used
  <2> QED BY <2>1, <2>2, <2>4 DEF Piece
<1>15. ASSUME NEW q \in DOMAIN t PROVE g[t[q].id] = StandsBy(g, t[q])
  <2>1. CASE p[q] = n
    <3>1. g[new] = f[old] /\ g[v] = f[v]
      BY <1>3, <1>12
    <3>2. f[old] = Negated(f[v], s[n].fmf)
      BY <1>1, <1>5, <1>6, <2>1 DEF StandsBy
    <3> QED BY <1>5, <2>1, <3>1, <3>2 DEF StandsBy
  <2>2. CASE p[q] # n
    <3>1. PICK i, j : i = s[p[q]] /\ j = t[q]
      OBVIOUS
    <3>2. j.id = i.id /\ j.op = i.op /\ j.fmf = i.fmf /\ i.id \in D /\ p[q] \in DOMAIN s
      BY <1>2, <1>3, <2>2, <3>1
    <3>3. g[j.id] = f[i.id] /\ f[i.id] = StandsBy(f, i)
      BY <1>12, <3>1, <3>2 DEF Table
    <3>4. i.op # "use" => g[Source(j)] = f[Source(i)]
      BY <1>3, <1>12, <2>2, <3>1
    <3>5. StandsBy(g, j) = StandsBy(f, i)
      BY <3>2, <3>4 DEF StandsBy
    <3> QED BY <3>1, <3>3, <3>5
  <2> QED BY <2>1, <2>2
<1>16. ASSUME NEW w, w \in D, w # old, \A q \in DOMAIN t : t[q].id # w
       PROVE  f[w] = w
  <2>1. ASSUME NEW m \in DOMAIN s, s[m].id = w PROVE FALSE
    <3>1. m # n
      BY <1>1, <1>16, <2>1
    <3>2. PICK q \in DOMAIN t : p[q] = m
      BY <1>2, <3>1
    <3> QED BY <1>3, <1>16, <2>1, <3>1, <3>2
  <2> QED BY <1>7, <1>16, <2>1
<1>17. IsConst(Zero) /\ Zero[1] = "const"
  BY DEF Zero, IsConst
<1>18. ASSUME NEW w \in E
       PROVE  \/ \E q \in DOMAIN t : t[q].id = w
              \/ w = new \/ w = Zero \/ (w \in D /\ w # old)
  <2>1. CASE \E q \in DOMAIN t : t[q].id = w
    BY <2>1
  <2>2. CASE ~ \E q \in DOMAIN t : t[q].id = w
    <3>1. PICK q \in DOMAIN t : w \in Range(t[q].ops)
      BY <2>2 DEF ValuesIn
    <3>2. PICK k \in DOMAIN t[q].ops : w = t[q].ops[k]
      BY <3>1 DEF Range
    <3>3. CASE p[q] = n
      <4>1. k = 1 \/ k = 2
        BY <1>5, <3>2, <3>3
      <4> QED BY <1>3, <1>5, <3>2, <3>3, <4>1
    <3>4. CASE p[q] # n
      BY <1>3, <3>2, <3>4
    <3> QED BY <3>3, <3>4
  <2> QED BY <2>1, <2>2
<1>19. ASSUME NEW w \in E, \A q \in DOMAIN t : t[q].id # w PROVE g[w] = w
  <2>1. CASE w \in D /\ w # old
    BY <1>12, <1>16, <1>19, <2>1
  <2>2. CASE w = Zero
    <3>1. CASE Zero \in D
      BY <1>9, <1>12, <1>17, <2>2, <3>1
    <3>2. CASE Zero \notin D
      <4>1. CASE Zero = new
        <5>1. CASE new = v
          BY <1>3, <3>2, <4>1, <5>1
        <5>2. CASE IsConst(v) /\ new = <<"const", "-", v>> /\ s[n].op = "fneg"
          <6>1. f[v] = v
            BY <1>3, <1>9, <5>2
          <6>2. f[old] = new
            BY <1>1, <1>6, <5>2, <6>1 DEF StandsBy, Negated
          <6> QED BY <1>12, <2>2, <4>1, <6>2
        <5>3. CASE new = <<"neg", old>>
          <6>1. new[1] = "neg"
            BY <5>3
          <6> QED BY <1>17, <4>1, <6>1
        <5> QED BY <1>4, <5>1, <5>2, <5>3
      <4> QED BY <1>10, <2>2, <3>2, <4>1
    <3> QED BY <3>1, <3>2
  <2>3. CASE w = new
    <3>1. CASE s[n].op = "freeze" /\ new = v
      BY <1>3, <1>12, <1>16, <1>19, <2>3, <3>1
    <3>2. CASE s[n].op = "fneg" /\ IsConst(v) /\ new = <<"const", "-", v>>
      <4>1. f[v] = v
        BY <1>3, <1>9, <3>2
      <4>2. f[old] = new
        BY <1>1, <1>6, <3>2, <4>1 DEF StandsBy, Negated
      <4> QED BY <1>12, <2>3, <4>2
    <3>3. CASE \E q \in DOMAIN t : p[q] = n
      BY <1>5, <1>19, <2>3, <3>3
    <3> QED BY <1>4, <3>1, <3>2, <3>3
  <2> QED BY <1>18, <1>19, <2>1, <2>2, <2>3
<1>20. Table(t, g)
  BY <1>15, <1>19 DEF Table
<1>21. ASSUME NEW q \in DOMAIN t
       PROVE  t[q].id \in E /\ z[t[q].id] = r[s[p[q]].id] /\ p[q] \in DOMAIN s
  <2>1. t[q].id \in E /\ p[q] \in DOMAIN s
    BY <1>2 DEF ValuesIn
  <2>2. CASE p[q] = n
    BY <1>1, <1>5, <1>10, <2>1, <2>2
  <2>3. CASE p[q] # n
    BY <1>3, <1>10, <2>1, <2>3
  <2> QED BY <2>1, <2>2, <2>3
<1> HIDE DEF E
<1>22. ASSUME NEW k \in DOMAIN t, NEW l \in DOMAIN t, t[k].id = t[l].id PROVE k = l
  <2>1. CASE p[k] = n /\ p[l] = n
    BY <1>2, <2>1
  <2>2. CASE p[k] = n /\ p[l] # n
    BY <1>3, <1>5, <1>22, <2>2
  <2>3. CASE p[k] # n /\ p[l] = n
    BY <1>3, <1>5, <1>22, <2>3
  <2>4. CASE p[k] # n /\ p[l] # n
    <3>1. s[p[k]].id = s[p[l]].id /\ p[k] \in DOMAIN s /\ p[l] \in DOMAIN s
      BY <1>3, <1>21, <1>22, <2>4
    <3>2. p[k] = p[l]
      BY <3>1 DEF Ordered
    <3> QED BY <1>2, <3>2
  <2> QED BY <2>1, <2>2, <2>3, <2>4
<1>23. ASSUME NEW q \in DOMAIN t
       PROVE  /\ t[q].op \in {"freeze", "fneg", "fsub", "use"} /\ ~IsConst(t[q].id)
              /\ Rewritable(t[q]) => t[q].id[1] = "inst" /\ Len(t[q].ops) = 1
              /\ t[q].op = "fsub" => 2 \in DOMAIN t[q].ops
              /\ z[t[q].id] \in Nat
  <2>1. z[t[q].id] \in Nat /\ p[q] \in DOMAIN s
    BY <1>21 DEF Ordered
  <2>2. CASE p[q] = n
    BY <1>5, <2>1, <2>2 DEF Rewritable, IsConst
  <2>3. CASE p[q] # n
    <3>1. PICK i, j : i = s[p[q]] /\ j = t[q]
      OBVIOUS
    <3>2. /\ j.id = i.id /\ j.op = i.op /\ DOMAIN j.ops = DOMAIN i.ops
          /\ Len(j.ops) = Len(i.ops)
      BY <1>3, <2>3, <3>1
    <3>3. /\ i.op \in {"freeze", "fneg", "fsub", "use"} /\ ~IsConst(i.id)
          /\ Rewritable(i) => i.id[1] = "inst" /\ Len(i.ops) = 1
          /\ i.op = "fsub" => 2 \in DOMAIN i.ops
      BY <2>1, <3>1 DEF Ordered
    <3> QED BY <2>1, <3>1, <3>2, <3>3 DEF Rewritable
  <2> QED BY <2>2, <2>3
<1>24. ASSUME NEW m \in DOMAIN s, NEW h \in DOMAIN s, s[m].op # "use", s[h].op # "use",
              Source(s[h]) = s[m].id
       PROVE  r[s[m].id] < r[s[h].id]
  BY <1>24 DEF Ordered
<1>25. /\ s[n].op # "use" /\ \A m \in DOMAIN s : r[s[m].id] \in Nat
       /\ \A q \in DOMAIN t : t[q].op # "use" => s[p[q]].op # "use"
  <2>1. \A m \in DOMAIN s : r[s[m].id] \in Nat
    BY DEF Ordered
  <2> QED BY <1>3, <1>6, <2>1
<1>26. ASSUME NEW k \in DOMAIN t, NEW l \in DOMAIN t, t[k].op # "use", t[l].op # "use",
              Source(t[l]) = t[k].id
       PROVE  r[s[p[k]].id] < r[s[p[l]].id]
  <2>1. p[k] \in DOMAIN s /\ p[l] \in DOMAIN s /\ s[p[k]].op # "use" /\ s[p[l]].op # "use"
    BY <1>21, <1>25, <1>26
  <2>2. CASE p[l] = n
    <3>1. t[k].id = v /\ p[k] # n
      BY <1>3, <1>5, <1>26, <2>2
    <3> QED BY <1>1, <1>3, <1>24, <2>1, <2>2, <3>1
  <2>3. CASE p[l] # n /\ Source(s[p[l]]) # old
    <3>1. t[k].id = Source(s[p[l]]) /\ t[k].id \in D
      BY <1>3, <1>26, <2>1, <2>3
    <3>2. p[k] # n
      BY <1>5, <3>1
    <3> QED BY <1>3, <1>24, <2>1, <3>1, <3>2
  <2>4. CASE p[l] # n /\ Source(s[p[l]]) = old
    <3>1. t[k].id = new
      BY <1>3, <1>26, <2>1, <2>4
    <3>2. r[old] < r[s[p[l]].id]
      BY <1>1, <1>2, <1>24, <1>25, <2>1, <2>4
    <3>3. CASE p[k] = n
      BY <1>1, <3>2, <3>3
    <3>4. CASE p[k] # n
      <4>1. new \in D /\ new = s[p[k]].id /\ ~IsConst(new)
        BY <1>3, <1>8, <2>1, <3>1, <3>4
      <4>2. new = v
        <5>1. CASE new = <<"const", "-", v>>
          BY <4>1, <5>1 DEF IsConst
        <5>2. CASE new = <<"neg", old>>
          BY <1>3, <4>1, <5>2
        <5> QED BY <1>4, <5>1, <5>2
      <4>3. r[s[p[k]].id] < r[s[n].id]
        BY <1>1, <1>2, <1>24, <1>25, <2>1, <4>1, <4>2
      <4> QED BY <1>1, <1>2, <1>25, <2>1, <3>2, <4>3
    <3> QED BY <3>3, <3>4
  <2> QED BY <2>2, <2>3, <2>4
<1>27. Ordered(t, z)
  BY <1>21, <1>22, <1>23, <1>26 DEF Ordered
<1>28. NamesFree(t)
  <2> SUFFICES ASSUME NEW w \in ValuesIn(t), w[1] = "neg"
               PROVE  w[2][1] = "inst" /\ \A q \in DOMAIN t : t[q].id # w[2]
    BY DEF NamesFree
  <2>1. CASE w \in D
    <3>1. w[2][1] = "inst" /\ \A m \in DOMAIN s : s[m].id # w[2]
      BY <2>1 DEF NamesFree, D
    <3>2. ASSUME NEW q \in DOMAIN t PROVE t[q].id # w[2]
      <4>1. CASE p[q] = n
        BY <1>5, <3>1, <4>1
      <4>2. CASE p[q] # n
        BY <1>3, <1>21, <3>1, <4>2
      <4> QED BY <4>1, <4>2
    <3> QED BY <3>1, <3>2
  <2>2. CASE w \notin D
    <3>1. w = new
      <4>1. w # Zero
        BY <1>17
      <4>2. CASE \E q \in DOMAIN t : t[q].id = w
        BY <1>3, <1>5, <2>2, <4>2
      <4> QED BY <1>18, <2>2, <4>1, <4>2 DEF E
    <3>2. w = <<"neg", old>>
      <4>1. new # v
        BY <1>3, <2>2, <3>1
      <4>2. CASE new = <<"const", "-", v>>
        BY <3>1, <4>2
      <4> QED BY <1>4, <3>1, <4>1, <4>2
    <3>3. w[2] = old
      BY <3>2
    <3>4. ASSUME NEW q \in DOMAIN t PROVE t[q].id # old
      <4>1. CASE p[q] = n
        BY <1>3, <1>5, <4>1
      <4>2. CASE p[q] # n
        BY <1>3, <4>2
      <4> QED BY <4>1, <4>2
    <3> QED BY <1>3, <3>3, <3>4
  <2> QED BY <2>1, <2>2
<1> QED BY <1>14, <1>20, <1>27, <1>28

\* Neither step makes an instruction of a kind that was gone.
SameKinds(t, s) ==
    \A q \in DOMAIN t : t[q].op = "fsub" \/ \E m \in DOMAIN s : t[q].op = s[m].op
LEMMA KindsLeft ==
  ASSUME NEW s, IsList(s), NEW r, Ordered(s, r), NamesFree(s),
         NEW n, NEW new, NEW t, NEW p, Rewrites(s, n, new, t, p), NEW q \in DOMAIN t
  PROVE  t[q].op = "fsub" \/ \E m \in DOMAIN s : t[q].op = s[m].op
<1>1. p[q] \in DOMAIN s
  BY DEF Rewrites
<1>2. CASE p[q] = n
  <2>1. t[q] = Subtraction(s[n])
    BY <1>2 DEF Rewrites
  <2> QED BY <2>1, SubtractionFields
<1>3. CASE p[q] # n
  <2>1. PICK V : s \in Seq(Instructions(V))
    BY DEF IsList
  <2>2. s[p[q]] \in Instructions(V) /\ t[q] = Moved(s[p[q]], s[n].id, new)
    BY <1>1, <1>3, <2>1, LenProperties, ElementOfSeq DEF Rewrites
  <2>3. Takes(t[q], s[p[q]], s[n].id, new)
    BY <2>2, MovedFields
  <2> QED BY <1>1, <2>3 DEF Takes
<1> QED BY <1>2, <1>3

\* A list that an order and a table explain.
Settled(s) == IsList(s) /\ NamesFree(s) /\ \E r, f : Ordered(s, r) /\ Table(s, f)

LEMMA Successors ==
  ASSUME NEW k \in Int, NEW l \in Int, k + 1 = l + 1
  PROVE  k = l
OBVIOUS

LEMMA InstructionIs ==
  ASSUME NEW V, NEW i \in V, NEW o \in Operations, NEW ops \in Seq(V), NEW fmf \in SUBSET STRING
  PROVE  [id |-> i, op |-> o, ops |-> ops, fmf |-> fmf] \in Instructions(V)
BY DEF Instructions

\* Instructions whose values are of a larger sort are instructions still.
LEMMA InstructionsMonotone ==
  ASSUME NEW V, NEW W, V \subseteq W
  PROVE  Instructions(V) \subseteq Instructions(W)
BY SeqMonotone DEF Instructions

\* What WithoutFreeze and WithFSub make of a list.
Less(s, n, new) == Replaced(RemoveAt(s, n), s[n].id, new)
Subtracted(s, n) ==
    Replaced([s EXCEPT ![n] = Subtraction(s[n])], s[n].id, <<"neg", s[n].id>>)

\* A freeze, or an fneg of a constant, goes and its uses take the value.
InPlaceOf(i, new) ==
    \/ i.op = "freeze" /\ new = Source(i)
    \/ i.op = "fneg" /\ IsConst(Source(i)) /\ new = <<"const", "-", Source(i)>>
LEMMA TakenOut ==
  ASSUME NEW s, Settled(s), NEW n \in DOMAIN s, Rewritable(s[n]), NEW new,
         InPlaceOf(s[n], new), NEW t, t = Less(s, n, new)
  PROVE  Settled(t) /\ Meaning(t) = Meaning(s) /\ SameKinds(t, s)
<1>1. PICK V : s \in Seq(Instructions(V))
  BY DEF Settled, IsList
<1>2. PICK r, f : Ordered(s, r) /\ Table(s, f)
  BY DEF Settled
<1>3. /\ Len(s) \in Nat /\ DOMAIN s = 1 .. Len(s)
      /\ n \in Nat /\ 1 <= n /\ n <= Len(s)
  BY <1>1, LenProperties
<1> DEFINE u == RemoveAt(s, n)
           L == Len(s)
           p == [q \in 1 .. L - 1 |-> IF q < n THEN q ELSE q + 1]
<1>4. /\ u \in Seq(Instructions(V)) /\ Len(u) = L - 1 /\ DOMAIN u = 1 .. L - 1
      /\ \A q \in 1 .. L - 1 : u[q] = IF q < n THEN s[q] ELSE s[q + 1]
  BY <1>1, <1>3, Removed, LenProperties
<1> HIDE DEF u
<1>5. /\ t \in Seq(Instructions(V \cup {new})) /\ DOMAIN t = 1 .. L - 1
      /\ \A q \in 1 .. L - 1 : t[q] = Moved(u[q], s[n].id, new)
  <2> DEFINE old == s[n].id
  <2>1. t = Replaced(u, old, new)
    BY DEF Less, u
  <2> HIDE DEF old
  <2>2. /\ t \in Seq(Instructions(V \cup {new})) /\ DOMAIN t = DOMAIN u
        /\ \A q \in DOMAIN u : t[q] = Moved(u[q], old, new)
    <3>1. Redirected(Replaced(u, old, new), u, old, new, V)
      BY <1>4, ReplacedList
    <3> QED BY <2>1, <3>1 DEF Redirected
  <2> QED BY <1>4, <2>2 DEF old
<1>6. /\ \A q \in 1 .. L - 1 : p[q] = IF q < n THEN q ELSE q + 1
      /\ DOMAIN p = 1 .. L - 1 /\ p = [q \in 1 .. L - 1 |-> p[q]]
  OBVIOUS
<1> HIDE DEF p
<1>7. ASSUME NEW q \in 1 .. L - 1
      PROVE  p[q] \in DOMAIN s /\ p[q] # n /\ u[q] = s[p[q]]
  BY <1>3, <1>4, <1>6
<1>8. Rewrites(s, n, new, t, p)
  <2>1. p \in [DOMAIN t -> DOMAIN s]
    BY <1>5, <1>6, <1>7
  <2>2. ASSUME NEW k \in DOMAIN t, NEW l \in DOMAIN t, p[k] = p[l] PROVE k = l
    <3>1. k \in 1 .. L - 1 /\ l \in 1 .. L - 1
      BY <1>5
    <3>2. p[k] = (IF k < n THEN k ELSE k + 1) /\ p[l] = IF l < n THEN l ELSE l + 1
      BY <1>6, <3>1
    <3> HIDE DEF L
    <3>3. k \in Int /\ l \in Int
      BY <3>1
    <3>4. CASE k < n /\ l < n
      <4>1. p[k] = k /\ p[l] = l
        BY <3>2, <3>4
      <4> QED BY <2>2, <4>1
    <3>5. CASE ~ (k < n) /\ ~ (l < n)
      <4>1. p[k] = k + 1 /\ p[l] = l + 1
        BY <1>3, <3>2, <3>3, <3>5
      <4>2. k + 1 = l + 1
        BY <2>2, <4>1
      <4> QED BY <3>3, <4>2, Successors
    <3>6. CASE k < n /\ ~ (l < n)
      <4>1. k = l + 1
        BY <2>2, <3>2, <3>6
      <4> QED BY <1>3, <3>3, <3>6, <4>1
    <3>7. CASE ~ (k < n) /\ l < n
      <4>1. l = k + 1
        BY <2>2, <3>2, <3>7
      <4> QED BY <1>3, <3>3, <3>7, <4>1
    <3> QED BY <3>4, <3>5, <3>6, <3>7
  <2>3. ASSUME NEW m \in DOMAIN s, m # n PROVE \E q \in DOMAIN t : p[q] = m
    <3>1. CASE m < n
      <4>1. m \in 1 .. L - 1
        BY <1>3, <2>3, <3>1
      <4> QED BY <1>5, <1>6, <3>1, <4>1
    <3>2. CASE m > n
      <4>1. m - 1 \in 1 .. L - 1 /\ ~ (m - 1 < n) /\ (m - 1) + 1 = m
        BY <1>3, <2>3, <3>2
      <4>2. p[m - 1] = m
        BY <1>6, <4>1
      <4> QED BY <1>5, <4>1, <4>2
    <3> QED BY <1>3, <2>3, <3>1, <3>2
  <2>4. \A q \in DOMAIN t : p[q] # n /\ t[q] = Moved(s[p[q]], s[n].id, new)
    BY <1>5, <1>7
  <2>5. \/ /\ s[n].op = "freeze" /\ new = Source(s[n])
           /\ \A q \in DOMAIN t : p[q] # n
        \/ /\ s[n].op = "fneg" /\ IsConst(Source(s[n])) /\ new = <<"const", "-", Source(s[n])>>
           /\ \A q \in DOMAIN t : p[q] # n
    BY <2>4 DEF InPlaceOf
  <2> QED BY <2>1, <2>2, <2>3, <2>4, <2>5 DEF Rewrites
<1>9. PICK g, z : /\ NamesFree(t) /\ Ordered(t, z) /\ Table(t, g)
                  /\ \A q \in DOMAIN t : p[q] # n => Piece(g, t[q]) = Piece(f, s[p[q]])
  BY <1>2, <1>8, RewritesMean DEF Settled
<1>10. IsList(t) /\ IsList(s)
  BY <1>1, <1>5 DEF IsList
<1>11. PICK S : Pieces(f, s) \in Seq(Seq(S)) /\ Len(Pieces(f, s)) = L
  BY <1>10, PiecesSequence
<1>12. Pieces(g, t) = RemoveAt(Pieces(f, s), n)
  <2> DEFINE ss == Pieces(f, s)
             rs == RemoveAt(ss, n)
  <2>1. \A m \in DOMAIN s : ss[m] = Piece(f, s[m])
    BY DEF Pieces
  <2>2. ss \in Seq(Seq(S)) /\ n \in 1 .. Len(ss) /\ Len(ss) = L
    BY <1>3, <1>11
  <2> HIDE DEF ss
  <2>3. /\ rs \in Seq(Seq(S)) /\ Len(rs) = L - 1
        /\ \A q \in 1 .. L - 1 : rs[q] = IF q < n THEN ss[q] ELSE ss[q + 1]
    BY <2>2, Removed
  <2> HIDE DEF rs
  <2>4. DOMAIN rs = 1 .. L - 1 /\ rs = [q \in 1 .. L - 1 |-> rs[q]]
    <3>1. rs \in [1 .. Len(rs) -> Seq(S)]
      BY <2>3
    <3> QED BY <2>3, <3>1
  <2>5. ASSUME NEW q \in 1 .. L - 1 PROVE Piece(g, t[q]) = rs[q]
    <3>1. Piece(g, t[q]) = Piece(f, s[p[q]])
      BY <1>5, <1>7, <1>9
    <3>2. rs[q] = ss[p[q]]
      BY <1>6, <2>3
    <3> QED BY <1>7, <2>1, <3>1, <3>2
  <2>6. Pieces(g, t) = [q \in 1 .. L - 1 |-> Piece(g, t[q])]
    BY <1>5 DEF Pieces
  <2>7. [q \in 1 .. L - 1 |-> Piece(g, t[q])] = [q \in 1 .. L - 1 |-> rs[q]]
    BY <2>5
  <2>8. Pieces(g, t) = rs
    BY <2>4, <2>6, <2>7
  <2> QED BY <2>8 DEF rs, ss
<1>13. Pieces(f, s)[n] = <<>>
  BY DEF Pieces, Piece, Rewritable
<1>14. FlattenSeq(Pieces(g, t)) = FlattenSeq(Pieces(f, s))
  BY <1>3, <1>11, <1>12, <1>13, FlattenWithout
<1>15. Meaning(t) = Meaning(s)
  BY <1>2, <1>9, <1>10, <1>14, MeaningTable
<1>16. SameKinds(t, s)
  <2>1. IsList(s) /\ NamesFree(s)
    BY DEF Settled
  <2> QED BY <1>2, <1>8, <2>1, KindsLeft DEF SameKinds
<1> QED BY <1>9, <1>10, <1>15, <1>16 DEF Settled

\* Another fneg becomes a subtraction, and its uses take that.
LEMMA PutIn ==
  ASSUME NEW s, Settled(s), NEW n \in DOMAIN s, s[n].op = "fneg",
         NEW t, t = Subtracted(s, n)
  PROVE  Settled(t) /\ Meaning(t) = Meaning(s) /\ SameKinds(t, s)
<1>1. PICK V : s \in Seq(Instructions(V))
  BY DEF Settled, IsList
<1>2. PICK r, f : Ordered(s, r) /\ Table(s, f)
  BY DEF Settled
<1>3. PICK old, new, v : old = s[n].id /\ new = <<"neg", old>> /\ v = Source(s[n])
  OBVIOUS
<1>4. /\ Len(s) \in Nat /\ DOMAIN s = 1 .. Len(s)
      /\ \A m \in DOMAIN s : s[m] \in Instructions(V)
  BY <1>1, LenProperties, ElementOfSeq
<1>5. Rewritable(s[n]) /\ s[n].op # "use" /\ s[n].op # "fsub"
  BY DEF Rewritable
<1>6. v # old /\ Zero # old
  <2>1. SUFFICES ASSUME v = old PROVE FALSE
    <3>1. old[1] = "inst" /\ Zero[1] = "const"
      BY <1>2, <1>3, <1>5 DEF Ordered, Zero
    <3> QED BY <3>1
  <2>2. r[s[n].id] < r[s[n].id] /\ r[s[n].id] \in Nat
    BY <1>2, <1>3, <1>5, <2>1 DEF Ordered
  <2> QED BY <2>2
<1> DEFINE W == V \cup {Zero, new, v}
           j == Subtraction(s[n])
           u == [s EXCEPT ![n] = j]
           p == [q \in DOMAIN s |-> q]
<1>7. j \in Instructions(W)
  <2> DEFINE m == s[n].fmf
  <2>1. m \in SUBSET STRING /\ v \in W /\ Zero \in W /\ new \in W
    BY <1>4 DEF Instructions
  <2>2. j = [id |-> new, op |-> "fsub", ops |-> <<Zero, v>>, fmf |-> s[n].fmf]
    BY <1>3 DEF Subtraction
  <2> HIDE DEF W, j, m
  <2>3. <<Zero, v>> \in Seq(W)
    BY <2>1
  <2>4. PICK o : o = <<Zero, v>>
    OBVIOUS
  <2>5. j = [id |-> new, op |-> "fsub", ops |-> o, fmf |-> m]
    BY <2>2, <2>4 DEF m
  <2>6. o \in Seq(W)
    BY <2>3, <2>4
  <2>7. "fsub" \in Operations
    BY DEF Operations
  <2>8. [id |-> new, op |-> "fsub", ops |-> o, fmf |-> m] \in Instructions(W)
    BY <2>1, <2>6, <2>7, InstructionIs
  <2> QED BY <2>5, <2>8
<1>8. j.ops = <<Zero, v>>
  BY <1>3 DEF Subtraction
<1>9. /\ DOMAIN u = DOMAIN s /\ u[n] = j
      /\ \A m \in DOMAIN s : m # n => u[m] = s[m]
  <2> HIDE DEF j
  <2> QED BY <1>1
<1> HIDE DEF j
<1>10. u \in Seq(Instructions(W))
  <2>1. Instructions(V) \subseteq Instructions(W)
    BY InstructionsMonotone
  <2> HIDE DEF W
  <2>2. \A m \in 1 .. Len(s) : u[m] \in Instructions(W)
    BY <1>4, <1>7, <1>9, <2>1
  <2>3. u = [m \in 1 .. Len(s) |-> u[m]]
    BY <1>4
  <2> HIDE DEF u
  <2> QED BY <1>4, <1>9, <2>2, <2>3, IsSequence
<1> HIDE DEF W, u
<1>11. /\ t \in Seq(Instructions(W \cup {new})) /\ DOMAIN t = DOMAIN s
       /\ \A q \in DOMAIN s : t[q] = Moved(u[q], old, new)
  <2>1. t = Replaced(u, old, new)
    BY <1>3 DEF Subtracted, u, j
  <2>2. Redirected(t, u, old, new, W)
    BY <1>10, <2>1, ReplacedList
  <2> QED BY <1>9, <2>2 DEF Redirected
<1>12. t[n] = j
  <2>1. [k \in DOMAIN j.ops |-> IF j.ops[k] = old THEN new ELSE j.ops[k]] = j.ops
    <3>1. DOMAIN j.ops = 1 .. 2 /\ j.ops[1] = Zero /\ j.ops[2] = v
      BY <1>8
    <3>2. \A k \in 1 .. 2 : j.ops[k] # old
      <4>1. \A k \in 1 .. 2 : k = 1 \/ k = 2
        OBVIOUS
      <4> QED BY <1>6, <3>1, <4>1
    <3>3. [k \in DOMAIN j.ops |-> IF j.ops[k] = old THEN new ELSE j.ops[k]]
          = [k \in 1 .. 2 |-> j.ops[k]]
      BY <3>1, <3>2
    <3>4. j.ops = [k \in 1 .. 2 |-> j.ops[k]]
      BY <1>8
    <3> QED BY <3>3, <3>4
  <2>2. Moved(j, old, new) = [j EXCEPT !.ops = j.ops]
    BY <2>1 DEF Moved
  <2>3. j = [id |-> j.id, op |-> j.op, ops |-> j.ops, fmf |-> j.fmf]
    BY <1>7 DEF Instructions
  <2>4. [j EXCEPT !.ops = j.ops] = j
    BY <2>3
  <2> QED BY <1>9, <1>11, <2>2, <2>4
<1>13. \A q \in DOMAIN s : p[q] = q
  OBVIOUS
<1>14. Rewrites(s, n, new, t, p)
  <2>1. p \in [DOMAIN t -> DOMAIN s]
    BY <1>11
  <2> HIDE DEF p
  <2>2. \A k, l \in DOMAIN t : p[k] = p[l] => k = l
    BY <1>11, <1>13
  <2>3. \A m \in DOMAIN s : m # n => \E q \in DOMAIN t : p[q] = m
    BY <1>11, <1>13
  <2>4. \A q \in DOMAIN t : p[q] # n => t[q] = Moved(s[p[q]], old, new)
    BY <1>9, <1>11, <1>13
  <2>5. \E q \in DOMAIN t : p[q] = n
    BY <1>11, <1>13
  <2>6. \A q \in DOMAIN t : p[q] = n => t[q] = Subtraction(s[n])
    BY <1>11, <1>12, <1>13 DEF j
  <2> QED BY <1>3, <1>5, <2>1, <2>2, <2>3, <2>4, <2>5, <2>6 DEF Rewrites
<1> HIDE DEF p
<1>15. PICK g, z : /\ NamesFree(t) /\ Ordered(t, z) /\ Table(t, g)
                   /\ \A q \in DOMAIN t : p[q] # n => Piece(g, t[q]) = Piece(f, s[p[q]])
  <2>1. IsList(s) /\ NamesFree(s)
    BY DEF Settled
  <2> QED BY <1>2, <1>14, <2>1, RewritesMean
<1>16. IsList(t) /\ IsList(s)
  BY <1>1, <1>11 DEF IsList
<1>17. Pieces(g, t) = Pieces(f, s)
  <2>1. ASSUME NEW q \in DOMAIN s PROVE Piece(g, t[q]) = Piece(f, s[q])
    <3>1. CASE q = n
      <4>1. j.op = "fsub"
        BY DEF j, Subtraction
      <4>2. Piece(g, t[q]) = <<>> /\ Piece(f, s[q]) = <<>>
        BY <1>5, <1>12, <3>1, <4>1 DEF Piece
      <4> QED BY <4>2
    <3>2. CASE q # n
      BY <1>11, <1>13, <1>15, <3>2
    <3> QED BY <3>1, <3>2
  <2> QED BY <1>11, <2>1 DEF Pieces
<1>18. Meaning(t) = Meaning(s)
  BY <1>2, <1>15, <1>16, <1>17, MeaningTable
<1>19. SameKinds(t, s)
  <2>1. IsList(s) /\ NamesFree(s)
    BY DEF Settled
  <2> QED BY <1>2, <1>14, <2>1, KindsLeft DEF SameKinds
<1> QED BY <1>15, <1>16, <1>18, <1>19 DEF Settled

-----------------------------------------------------------------------------
(* The instructions of every reachable state *)

\* The passes that take freezes and fnegs out have done so once they are over.
Gone(t, k, s) ==
    t \in {50, 70} =>
        /\ k > 1 => \A n \in DOMAIN s : s[n].op # "freeze"
        /\ k > 2 => \A n \in DOMAIN s : s[n].op # "fneg"
UsesInv ==
    /\ Settled(insts) /\ Meaning(insts) = Meaning(unit.insts)
    /\ Gone(target, turn, insts)

\* The instructions of a parsed module.
LEMMA ChainedSettled ==
  ASSUME NEW s, Chained(s)
  PROVE  Settled(s)
<1>1. /\ s \in Seq(Instructions(Values))
      /\ \A m, n \in DOMAIN s : s[m].id = s[n].id => m = n
      /\ \A n \in DOMAIN s : /\ s[n].id[1] = "inst" /\ s[n].op # "fsub"
                             /\ Rewritable(s[n]) => Len(s[n].ops) = 1
  BY DEF Chained
<1>2. PICK depth \in [DOMAIN s -> 1 .. Len(s)] : \A m, n \in DOMAIN s :
         Rewritable(s[m]) /\ Rewritable(s[n]) /\ s[n].ops[1] = s[m].id
           => depth[m] < depth[n]
  BY DEF Chained
<1>3. /\ Len(s) \in Nat /\ DOMAIN s = 1 .. Len(s)
      /\ \A n \in DOMAIN s : s[n] \in Instructions(Values)
  BY <1>1, LenProperties, ElementOfSeq
<1>4. IsList(s)
  BY <1>1 DEF IsList
<1>5. NamesFree(s)
  <2>1. ASSUME NEW w \in ValuesIn(s) PROVE w \in Values
    <3>1. CASE \E n \in DOMAIN s : w = s[n].id
      BY <1>3, <3>1 DEF Instructions
    <3>2. CASE \E n \in DOMAIN s : w \in Range(s[n].ops)
      <4>1. PICK n \in DOMAIN s : \E k \in DOMAIN s[n].ops : w = s[n].ops[k]
        BY <3>2 DEF Range
      <4>2. s[n].ops \in Seq(Values)
        BY <1>3 DEF Instructions
      <4> QED BY <4>1, <4>2, LenProperties, ElementOfSeq
    <3> QED BY <3>1, <3>2 DEF ValuesIn
  <2>2. \A w \in Values : w[1] # "neg"
    BY DEF Values
  <2> QED BY <2>1, <2>2 DEF NamesFree
<1> DEFINE Place(v) == CHOOSE n \in DOMAIN s : s[n].id = v
           r == [v \in {s[n].id : n \in DOMAIN s} |-> depth[Place(v)]]
<1>6. ASSUME NEW n \in DOMAIN s PROVE r[s[n].id] = depth[n] /\ depth[n] \in 1 .. Len(s)
  <2>1. Place(s[n].id) = n
    BY <1>1
  <2> HIDE DEF Place
  <2> QED BY <2>1
<1> HIDE DEF r
<1>7. ASSUME NEW n \in DOMAIN s
      PROVE  /\ s[n].op \in {"freeze", "fneg", "use"} /\ ~IsConst(s[n].id)
             /\ r[s[n].id] \in Nat /\ r[s[n].id] < Len(s) + 1
             /\ Source(s[n]) = s[n].ops[1]
  <2>1. s[n].op \in {"freeze", "fneg", "use"}
    BY <1>1, <1>3 DEF Instructions, Operations
  <2>2. ~IsConst(s[n].id)
    BY <1>1 DEF IsConst
  <2>3. r[s[n].id] \in Nat /\ r[s[n].id] < Len(s) + 1
    BY <1>3, <1>6
  <2> QED BY <2>1, <2>2, <2>3 DEF Source
<1>8. Ordered(s, r)
  <2>1. ASSUME NEW m \in DOMAIN s, NEW n \in DOMAIN s, s[m].op # "use", s[n].op # "use",
               Source(s[n]) = s[m].id
        PROVE  r[s[m].id] < r[s[n].id]
    <3>1. Rewritable(s[m]) /\ Rewritable(s[n]) /\ s[n].ops[1] = s[m].id
      BY <1>7, <2>1 DEF Rewritable
    <3> QED BY <1>2, <1>6, <3>1
  <2> QED BY <1>1, <1>7, <2>1 DEF Ordered
<1>9. \E f : Table(s, f)
  <2>1. Len(s) + 1 \in Nat
    BY <1>3
  <2> QED BY <1>4, <1>7, <1>8, <2>1, TableExists
<1> QED BY <1>4, <1>5, <1>8, <1>9 DEF Settled

\* The least of the instructions of a kind is one of them.
LEMMA LeastOf ==
  ASSUME NEW s, IsList(s), NEW kind, NEW S, S = {n \in DOMAIN s : s[n].op = kind}, S # {}
  PROVE  Least(S) \in DOMAIN s /\ s[Least(S)].op = kind
<1>1. S \subseteq Nat
  <2>1. PICK V : s \in Seq(Instructions(V))
    BY DEF IsList
  <2> QED BY <2>1, LenProperties
<1>2. Least(S) \in S
  BY <1>1, LeastNumber DEF Least
<1> QED BY <1>2

\* Freeze by freeze and fneg by fneg, the meaning stays.
LEMMA FreezeOut ==
  ASSUME NEW n, Settled(insts), n \in DOMAIN insts, insts[n].op = "freeze"
  PROVE  /\ Settled(WithoutFreeze(n)) /\ Meaning(WithoutFreeze(n)) = Meaning(insts)
         /\ SameKinds(WithoutFreeze(n), insts)
<1>1. WithoutFreeze(n) = Less(insts, n, Source(insts[n]))
  BY DEF WithoutFreeze, Less, Source
<1>2. InPlaceOf(insts[n], Source(insts[n])) /\ Rewritable(insts[n])
  BY DEF InPlaceOf, Rewritable
<1> QED BY <1>1, <1>2, TakenOut

LEMMA FNegOut ==
  ASSUME NEW n, Settled(insts), n \in DOMAIN insts, insts[n].op = "fneg"
  PROVE  /\ Settled(WithFSub(n)) /\ Meaning(WithFSub(n)) = Meaning(insts)
         /\ SameKinds(WithFSub(n), insts)
<1>1. Source(insts[n]) = insts[n].ops[1]
  BY DEF Source
<1>2. CASE IsConst(insts[n].ops[1])
  <2> DEFINE new == <<"const", "-", Source(insts[n])>>
  <2>1. WithFSub(n) = Less(insts, n, new)
    BY <1>1, <1>2 DEF WithFSub, Less
  <2>2. InPlaceOf(insts[n], new) /\ Rewritable(insts[n])
    BY <1>1, <1>2 DEF InPlaceOf, Rewritable
  <2> HIDE DEF new
  <2> QED BY <2>1, <2>2, TakenOut
<1>3. CASE ~ IsConst(insts[n].ops[1])
  <2> DEFINE i == insts[n]
             j == [id |-> <<"neg", i.id>>, op |-> "fsub", fmf |-> i.fmf,
                   ops |-> <<<<"const", "-0.0">>, i.ops[1]>>]
  <2>1. j = Subtraction(i)
    BY <1>1 DEF Subtraction, Zero
  <2>2. WithFSub(n) = Replaced([insts EXCEPT ![n] = j], i.id, <<"neg", i.id>>)
    BY <1>3 DEF WithFSub
  <2> HIDE DEF j
  <2>3. WithFSub(n) = Subtracted(insts, n)
    BY <2>1, <2>2 DEF Subtracted
  <2> QED BY <2>3, PutIn
<1> QED BY <1>2, <1>3

\* Where the two passes are.
LEMMA FirstPasses ==
  ASSUME NEW t \in {50, 70}, NEW k \in 1 .. Len(Passes(t))
  PROVE  /\ Passes(t)[k] = "freeze" => k = 1
         /\ Passes(t)[k] = "fneg" => k = 2
         /\ k = 1 => Passes(t)[k] = "freeze"
         /\ k = 2 => Passes(t)[k] = "fneg"
<1>1. CASE t = 50
  <2>1. Passes(t) = <<"freeze", "fneg", "lifetime", "align", "names", "flags", "check">>
    BY <1>1, PassesAre DEF Targets
  <2>2. Len(Passes(t)) = 7
    BY <2>1
  <2>3. k \in 1 .. 7
    BY <2>2
  <2> QED BY <2>1, <2>2, <2>3
<1>2. CASE t = 70
  <2>1. Passes(t) = <<"freeze", "fneg", "lifetime", "names", "flags", "check">>
    BY <1>2, PassesAre DEF Targets
  <2>2. Len(Passes(t)) = 6
    BY <2>1
  <2>3. k \in 1 .. 6
    BY <2>2
  <2> QED BY <2>1, <2>2, <2>3
<1> QED BY <1>1, <1>2

\* The passes about other things.
LEMMA OtherPass ==
  ASSUME TypeInv, UsesInv, NEW pass, Running(pass), pass # "freeze", pass # "fneg",
         UNCHANGED <<unit, target, insts>>, turn' \in {turn, turn + 1}
  PROVE  UsesInv'
<1>1. turn \in 1 .. Len(Passes(target)) /\ Passes(target)[turn] = pass
  BY DEF TypeInv, Running
<1>2. ASSUME target \in {50, 70} PROVE turn > 2
  <2>1. turn # 1 /\ turn # 2
    BY <1>1, <1>2, FirstPasses
  <2>2. turn \in Nat /\ turn >= 1
    BY <1>1
  <2> QED BY <2>1, <2>2
<1>3. turn \in Nat
  BY <1>1
<1>4. Gone(target, turn', insts)
  <2>1. ASSUME target \in {50, 70}
        PROVE  \A n \in DOMAIN insts : insts[n].op # "freeze" /\ insts[n].op # "fneg"
    <3>1. turn > 1 /\ turn > 2
      BY <1>2, <1>3, <2>1
    <3> QED BY <2>1, <3>1 DEF UsesInv, Gone
  <2> QED BY <2>1 DEF Gone
<1> QED BY <1>4 DEF UsesInv

\* The pass over the freezes.
LEMMA FreezeStep ==
  ASSUME TypeInv, UsesInv, removeFreeze
  PROVE  UsesInv'
<1> DEFINE S == {n \in DOMAIN insts : insts[n].op = "freeze"}
<1>1. /\ Running("freeze") /\ UNCHANGED <<unit, target>>
      /\ IF S = {} THEN Finish /\ UNCHANGED insts
         ELSE insts' = WithoutFreeze(Least(S)) /\ UNCHANGED <<turn, cursor>>
  BY DEF removeFreeze
<1>2. turn \in 1 .. Len(Passes(target)) /\ Passes(target)[turn] = "freeze"
  BY <1>1 DEF TypeInv, Running
<1>3. turn \in Nat /\ (target \in {50, 70} => turn = 1)
  BY <1>2, FirstPasses
<1>4. CASE S = {}
  <2>1. turn' = turn + 1 /\ insts' = insts /\ \A n \in DOMAIN insts : insts[n].op # "freeze"
    BY <1>1, <1>4 DEF Finish
  <2>2. Gone(target, turn', insts)
    BY <1>3, <2>1 DEF Gone
  <2> QED BY <1>1, <2>1, <2>2 DEF UsesInv
<1>5. CASE S # {}
  <2>1. insts' = WithoutFreeze(Least(S)) /\ turn' = turn
    BY <1>1, <1>5
  <2>2. Least(S) \in DOMAIN insts /\ insts[Least(S)].op = "freeze"
    BY <1>5, LeastOf DEF UsesInv, Settled
  <2>3. Settled(insts') /\ Meaning(insts') = Meaning(insts)
    BY <2>1, <2>2, FreezeOut DEF UsesInv
  <2>4. Gone(target, turn', insts')
    BY <1>3, <2>1 DEF Gone
  <2> QED BY <1>1, <2>3, <2>4 DEF UsesInv
<1> QED BY <1>4, <1>5

\* The pass over the fnegs.
LEMMA FNegStep ==
  ASSUME TypeInv, UsesInv, replaceFNeg
  PROVE  UsesInv'
<1> DEFINE S == {n \in DOMAIN insts : insts[n].op = "fneg"}
<1>1. /\ Running("fneg") /\ UNCHANGED <<unit, target>>
      /\ IF S = {} THEN Finish /\ UNCHANGED insts
         ELSE insts' = WithFSub(Least(S)) /\ UNCHANGED <<turn, cursor>>
  BY DEF replaceFNeg
<1>2. turn \in 1 .. Len(Passes(target)) /\ Passes(target)[turn] = "fneg"
  BY <1>1 DEF TypeInv, Running
<1>3. turn \in Nat /\ (target \in {50, 70} => turn = 2)
  BY <1>2, FirstPasses
<1>4. ASSUME target \in {50, 70} PROVE \A n \in DOMAIN insts : insts[n].op # "freeze"
  BY <1>3, <1>4 DEF UsesInv, Gone
<1>5. CASE S = {}
  <2>1. turn' = turn + 1 /\ insts' = insts /\ \A n \in DOMAIN insts : insts[n].op # "fneg"
    BY <1>1, <1>5 DEF Finish
  <2>2. Gone(target, turn', insts)
    BY <1>4, <2>1 DEF Gone
  <2> QED BY <1>1, <2>1, <2>2 DEF UsesInv
<1>6. CASE S # {}
  <2>1. insts' = WithFSub(Least(S)) /\ turn' = turn
    BY <1>1, <1>6
  <2>2. Least(S) \in DOMAIN insts /\ insts[Least(S)].op = "fneg"
    BY <1>6, LeastOf DEF UsesInv, Settled
  <2>3. /\ Settled(insts') /\ Meaning(insts') = Meaning(insts)
        /\ SameKinds(insts', insts)
    BY <2>1, <2>2, FNegOut DEF UsesInv
  <2>4. Gone(target, turn', insts')
    <3>1. SUFFICES ASSUME target \in {50, 70}
                   PROVE  /\ ~ (turn' > 2)
                          /\ \A n \in DOMAIN insts' : insts'[n].op # "freeze"
      BY DEF Gone
    <3>2. turn' = 2
      BY <1>3, <2>1, <3>1
    <3>3. \A n \in DOMAIN insts' : insts'[n].op # "freeze"
      BY <1>4, <2>3, <3>1 DEF SameKinds
    <3> QED BY <3>2, <3>3
  <2> QED BY <1>1, <2>3, <2>4 DEF UsesInv
<1> QED BY <1>5, <1>6

\* The parsed module has it, and every step of every pass keeps it.
LEMMA UsesStart ==
  ASSUME Init
  PROVE  UsesInv
<1>1. unit \in Units /\ insts = unit.insts /\ turn = 1
  BY DEF Init
<1>2. Settled(insts)
  BY <1>1, ChainsAssumption, ChainedSettled
<1>3. Gone(target, turn, insts)
  BY <1>1 DEF Gone
<1> QED BY <1>1, <1>2, <1>3 DEF UsesInv

LEMMA UsesStep ==
  ASSUME TypeInv, UsesInv, [Next]_vars
  PROVE  UsesInv'
<1>1. CASE removeFreeze
  BY <1>1, FreezeStep
<1>2. CASE replaceFNeg
  BY <1>2, FNegStep
<1>3. CASE loopDone
  <2>1. PICK pass \in Loops : Running(pass)
    BY <1>3 DEF loopDone
  <2>2. pass # "freeze" /\ pass # "fneg"
    BY DEF Loops
  <2>3. UNCHANGED <<unit, target, insts>> /\ turn' = turn + 1
    BY <1>3 DEF loopDone, Finish, program
  <2> QED BY <2>1, <2>2, <2>3, OtherPass
<1>4. CASE dropLifetimeIntrinsics
  <2>1. Running("lifetime") /\ UNCHANGED <<unit, target, insts>> /\ turn' = turn
    BY <1>4 DEF dropLifetimeIntrinsics
  <2> QED BY <2>1, OtherPass
<1>5. CASE addMemIntrinsicAlignArg
  <2>1. Running("align") /\ UNCHANGED <<unit, target, insts>> /\ turn' = turn
    BY <1>5 DEF addMemIntrinsicAlignArg
  <2> QED BY <2>1, OtherPass
<1>6. CASE renameIntrinsic
  <2>1. Running("names") /\ UNCHANGED <<unit, target, insts>> /\ turn' = turn
    BY <1>6 DEF renameIntrinsic, Fail
  <2> QED BY <2>1, OtherPass
<1>7. CASE downgradeModuleFlags
  <2>1. /\ Running("flags") /\ UNCHANGED <<unit, target, insts>>
        /\ turn' \in {turn, turn + 1}
    BY <1>7 DEF downgradeModuleFlags, Finish, Fail
  <2> QED BY <2>1, OtherPass
<1>8. CASE checkIntrinsics
  <2>1. /\ Running("check") /\ UNCHANGED <<unit, target, insts>>
        /\ turn' \in {turn, turn + 1}
    BY <1>8 DEF checkIntrinsics, Finish, Fail, program
  <2> QED BY <2>1, OtherPass
<1>9. CASE stripUnsupportedAttrs
  <2>1. /\ Running("attrs") /\ UNCHANGED <<unit, target, insts>> /\ turn' = turn + 1
    BY <1>9 DEF stripUnsupportedAttrs, Finish
  <2> QED BY <2>1, OtherPass
<1>10. CASE dropDeclareValueRecords
  <2>1. /\ Running("records") /\ UNCHANGED <<unit, target, insts>> /\ turn' = turn + 1
    BY <1>10 DEF dropDeclareValueRecords, Finish
  <2> QED BY <2>1, OtherPass
<1>11. CASE UNCHANGED vars
  <2>1. UNCHANGED <<unit, target, turn, insts>>
    BY <1>11 DEF vars, program
  <2> QED BY <2>1 DEF UsesInv
<1> QED BY <1>1, <1>2, <1>3, <1>4, <1>5, <1>6, <1>7, <1>8, <1>9, <1>10, <1>11 DEF Next

\* What every instruction computes with is what it was, freeze by freeze and
\* fneg by fneg, for every module and every target.
THEOREM UsesInvariant == Spec => []UsesInv
<1>1. Init => UsesInv
  BY UsesStart
<1>2. PreparationInv /\ UsesInv /\ [Next]_vars => UsesInv'
  BY UsesStep DEF PreparationInv
<1> QED BY <1>1, <1>2, PreparationInvariant, PTL DEF Spec

\* The prepared module is the parsed one to its reader, for every verified
\* module and every target: no freeze and no fneg is left for a target that has
\* neither, in whatever order and number they were chained, what remains
\* computes with the same values, and whatever else is gone was a hint.
THEOREM MeaningKeptCorrect == Spec => []MeaningKept
<1>1. ASSUME TypeInv, UsesInv PROVE UsesIntact
  <2>1. SUFFICES ASSUME Done, target \in {50, 70}
                 PROVE  /\ \A n \in DOMAIN insts : insts[n].op \notin {"freeze", "fneg"}
                        /\ Meaning(insts) = Meaning(unit.insts)
    BY DEF UsesIntact
  <2>2. turn > 1 /\ turn > 2
    <3>1. turn > Len(Passes(target)) /\ turn \in 1 .. Len(Passes(target)) + 1
      BY <1>1, <2>1 DEF Done, TypeInv
    <3>2. Len(Passes(target)) \in {6, 7}
      BY <2>1, PassesAre DEF Targets
    <3> QED BY <3>1, <3>2
  <2> QED BY <1>1, <2>1, <2>2 DEF UsesInv, Gone
<1>2. PreparationInv /\ UsesInv => UsesIntact
  BY <1>1 DEF PreparationInv
<1>3. UsesIntact /\ OnlyHintsDropped => MeaningKept
  BY DEF MeaningKept
<1> QED BY <1>2, <1>3, PreparationInvariant, UsesInvariant, OnlyHintsDroppedCorrect, PTL

=============================================================================
