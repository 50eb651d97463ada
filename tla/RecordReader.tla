---------------------------- MODULE RecordReader ----------------------------
(***************************************************************************)
(* The bitcode reader of LLVM 5, 7, 14, 18 and 20, record by record.  It   *)
(* is not part of the program: this is what its releases take the numbers  *)
(* of a record for, and how many of them they want.                        *)
(*                                                                         *)
(* A record is described by its fields, <<kind, role, table, default>>.    *)
(* Reading it gives a record of roles, to compare with what was written,   *)
(* or one that is not ok.  A field with a default may be missing.          *)
(***************************************************************************)
EXTENDS Records

Field(kind, role) == <<kind, role, <<>>, <<>>>>
Named(role, table) == <<"name", role, table, <<>>>>
Flag(role, bit) == <<"bit", role, bit, <<>>>>    \* of the number to come
Optional(kind, role, default) == <<kind, role, <<>>, <<default>>>>
\* The rest of the record, and a list after its length.
Rest(kind, role) == <<"list", role, kind, <<"rest">>>>
Counted(kind, role) == <<"list", role, kind, <<"counted">>>>

\* The types the reader's values have: those of the release.
TypeNamed(n) ==
    IF \E t \in DOMAIN TypeID : TypeID[t] = n
    THEN CHOOSE t \in DOMAIN TypeID : TypeID[t] = n ELSE "none"
IsFloat(t) == t \in {"half", "float", "double"}

-----------------------------------------------------------------------------
(* Numbers with a meaning: the enumerations of LLVMBitCodes.h. *)

CastNames == <<"trunc", "zext", "sext", "fptoui", "fptosi", "uitofp", "sitofp",
               "fptrunc", "fpext", "ptrtoint", "inttoptr", "bitcast",
               "addrspacecast">>
IntegerNames == <<"add", "sub", "mul", "udiv", "sdiv", "urem", "srem", "shl",
                  "lshr", "ashr", "and", "or", "xor">>
FloatNames == <<"fadd", "fsub", "fmul", "none", "fdiv", "none", "frem">>
OrderingNames == <<"notatomic", "unordered", "monotonic", "acquire", "release",
                   "acq_rel", "seq_cst">>
ScopeNames == <<"singlethread", "system">>
RMWNames(release) ==
    <<"xchg", "add", "sub", "and", "nand", "or", "xor", "max", "min", "umax",
      "umin">>
    \o If(release >= 140, <<"fadd", "fsub">>)
    \o If(release >= 180, <<"fmax", "fmin", "uinc_wrap", "udec_wrap">>)
    \o If(release >= 200, <<"usub_cond", "usub_sat">>)
Name(table, n) == IF n + 1 \in DOMAIN table THEN table[n + 1] ELSE "none"

FastMathNames(release) ==
    (1 :> "nnan") @@ (2 :> "ninf") @@ (3 :> "nsz") @@ (4 :> "arcp")
    @@ (5 :> "contract")
    @@ IF release = 50 THEN 0 :> "fast" ELSE (6 :> "afn") @@ (7 :> "reassoc")
\* What the bits of a flags field stand for, given what was read before it.
FlagNames(release, item) ==
    LET kind == item.kind
    IN CASE kind \in {"add", "sub", "mul", "shl"} -> (0 :> "nuw") @@ (1 :> "nsw")
         [] kind \in {"udiv", "sdiv", "lshr", "ashr"} -> 0 :> "exact"
         [] kind = "or" /\ release >= 180 -> 0 :> "disjoint"
         [] kind = "zext" /\ release >= 180 -> 0 :> "nneg"
         [] kind = "uitofp" /\ release >= 200 -> 0 :> "nneg"
         [] kind = "trunc" /\ release >= 200 -> (0 :> "nuw") @@ (1 :> "nsw")
         [] kind = "icmp" /\ release >= 200 -> 0 :> "samesign"
         [] kind = "gep" -> (0 :> "inbounds") @@
              IF release >= 200 THEN (1 :> "nusw") @@ (2 :> "nuw") ELSE <<>>
         [] kind \in {"fadd", "fsub", "fmul", "fdiv", "frem", "fneg", "fcmp", "call"}
            \/ (kind \in {"select", "phi"} /\ release >= 140)
            \/ (kind \in {"fptrunc", "fpext"} /\ release >= 200) ->
              FastMathNames(release)
         [] OTHER -> <<>>
FlagsOf(names, n) == {names[b] : b \in BitsOf(n) \cap DOMAIN names}

-----------------------------------------------------------------------------
(* Fields *)

\* Where a field that may have a type with it ends.
Typed(ops, pos, at) == ((at - ops[pos]) % Width) >= at
SizeOf(kind, ops, pos, at) ==
    CASE kind = "VT" -> IF Typed(ops, pos, at) THEN 2 ELSE 1
      [] kind \in {"bit", "tail", "compare"} -> 0
      [] kind \in {"case", "incoming"} -> 2
      [] kind = "clause" ->
           IF pos < Len(ops) /\ Typed(ops, pos + 1, at) THEN 3 ELSE 2
      [] OTHER -> 1
Signed(n, at) == IF n % 2 = 0 THEN at - n \div 2 ELSE at + n \div 2
\* LLVM 14 moved the upper bits of the alignment behind the flags.
AlignmentBits(release, n) ==
    IF release < 140 THEN BitsOf(n) \ {5, 6, 7}
    ELSE (BitsOf(n) \cap 0 .. 4) \cup {b - 3 : b \in BitsOf(n) \cap 8 .. 10}
TailOf(n) == CASE 14 \in BitsOf(n) -> "musttail" [] 16 \in BitsOf(n) -> "notail"
               [] 0 \in BitsOf(n) -> "tail" [] OTHER -> "none"

\* What a field at pos is; `item' is what was read before it.
Value(release, field, item, ops, pos, at) ==
    LET n == IF pos <= Len(ops) THEN ops[pos] ELSE 0
        kind == field[1]
    IN CASE kind \in {"V", "VT"} -> (at - n) % Width
         [] kind = "type" -> TypeNamed(n)
         [] kind = "name" -> Name(field[3], n)
         [] kind = "bool" -> n = 1
         [] kind = "bit" -> field[3] \in BitsOf(n)
         [] kind = "tail" -> TailOf(n)
         [] kind = "cc" -> (n \div 2) % 1024
         [] kind = "plain cc" -> n % 1024
         [] kind = "align" -> n - 1
         [] kind = "alloca align" -> Word(AlignmentBits(release, n)) - 1
         [] kind \in {"flags", "marked flags", "strict flags"} ->
              FlagsOf(FlagNames(release, item), n)
         [] kind = "operation" ->
              Name(IF IsFloat(ValueType[item.lhs]) THEN FloatNames
                   ELSE IntegerNames, n)
         [] kind = "compare" ->
              IF IsFloat(ValueType[item.lhs]) THEN "fcmp" ELSE "icmp"
         [] kind = "case" -> <<n, ops[pos + 1]>>
         [] kind = "incoming" -> <<Signed(n, at), ops[pos + 1]>>
         [] kind = "clause" -> <<IF n = 0 THEN "catch" ELSE "filter",
                                 (at - ops[pos + 1]) % Width>>
         [] OTHER -> n

\* The type of a forward reference is the one the value will have.
TypeFits(kind, ops, pos, at) ==
    LET place == IF kind = "clause" THEN pos + 1 ELSE pos
    IN kind \in {"VT", "clause"} /\ Typed(ops, place, at) =>
         LET v == (at - ops[place]) % Width
         IN v \in DOMAIN ValueType
            /\ TypeNamed(ops[place + 1]) \in {ValueType[v], MappedType[v]}

Fail(got) == [got EXCEPT !.ok = FALSE]
ReadOne(release, got, field, ops, at) ==
    LET size == SizeOf(field[1], ops, got.pos, at)
    IN IF got.pos + size - 1 > Len(ops)
          \/ ~TypeFits(field[1], ops, got.pos, at) THEN Fail(got)
       ELSE [got EXCEPT !.pos = @ + size,
                        !.item = @ @@ (field[2] :> Value(release, field, got.item,
                                                         ops, got.pos, at))]
\* At most n elements of a list, or all of them, after those there are.
Added(list, one) == [one EXCEPT !.item = IF one.ok THEN Append(list, @.element) ELSE list]
ReadElements(release, got, kind, n, ops, at) ==
    LET Another(g, k) ==
            IF ~g.ok \/ (n = Len(ops) /\ g.pos > Len(ops)) THEN g
            ELSE Added(g.item, ReadOne(release, [g EXCEPT !.item = <<>>],
                                       Field(kind, "element"), ops, at))
    IN FoldLeft(Another, got, [k \in 1 .. n |-> k])
\* What was read becomes a role of the item.
InRole(item, role, list) == [list EXCEPT !.item = item @@ (role :> @)]
ReadList(release, got, role, kind, n, ops, at) ==
    InRole(got.item, role,
           ReadElements(release, [got EXCEPT !.item = <<>>], kind, n, ops, at))

\* The arguments of a call: those of the type's parameters, then typed ones.
ReadArguments(release, got, ops, at) ==
    LET fixed == Params[got.item.fnType]
        Argument(g, k) ==
            ReadOne(release, g,
                    Field(IF fixed[k] = "label" THEN "A" ELSE "V", k), ops, at)
    IN InRole(got.item, "args",
              ReadElements(release,
                           FoldLeft(Argument, [got EXCEPT !.item = <<>>],
                                    [k \in DOMAIN fixed |-> k]),
                           "VT", Len(ops), ops, at))

Missing(got, field) ==
    IF field[4] = <<>> THEN Fail(got)
    ELSE [got EXCEPT !.item = @ @@ (field[2] :> field[4][1])]
ReadField(release, got, field, ops, at) ==
    CASE ~got.ok -> got
      [] field[1] = "list" /\ field[4] = <<"rest">> ->
           ReadList(release, got, field[2], field[3], Len(ops), ops, at)
      [] field[1] = "list" /\ field[4] = <<"counted">> ->
           IF got.pos > Len(ops) THEN Fail(got)
           ELSE ReadList(release, [got EXCEPT !.pos = @ + 1], field[2], field[3],
                         ops[got.pos], ops, at)
      [] field[1] = "arguments" -> ReadArguments(release, got, ops, at)
      [] field[1] = "no flags"
         \/ (field[1] = "marked flags" /\ ~got.item.fmf)
         \/ (field[1] = "strict flags" /\ FlagNames(release, got.item) = <<>>) ->
           [got EXCEPT !.item = @ @@ (field[2] :> {})]
      [] got.pos > Len(ops) /\ SizeOf(field[1], ops, got.pos, at) > 0 ->
           Missing(got, field)
      [] OTHER -> ReadOne(release, got, field, ops, at)

\* A record's fields from the first on, with nothing left over.
Whole(got, ops) == IF got.pos = Len(ops) + 1 THEN got ELSE Fail(got)
ReadRecord(release, start, fields, ops, at) ==
    Whole(FoldLeft(LAMBDA g, f : ReadField(release, g, f, ops, at),
                   [ok |-> TRUE, pos |-> 1, item |-> start], fields), ops)

-----------------------------------------------------------------------------
(* Instructions *)

Pointer == <<Field("VT", "ptr")>>
Access == <<Field("align", "align"), Field("bool", "volatile")>>
AtomicOrder == <<Named("ordering", OrderingNames), Named("scope", ScopeNames)>>
Flags == <<Optional("flags", "flags", {})>>
FlagsSince(first, release) ==
    IF release >= first THEN Flags ELSE <<Optional("no flags", "flags", {})>>
Called == <<Field("type", "fnType"), Field("VT", "callee"),
            Field("arguments", "args")>>

\* What a release reads for a code: the item to start from and the fields.
Grammar(release, code) ==
    CASE code = "CAST" ->
         <<[op |-> "cast"],
           <<Field("VT", "value"), Field("type", "type"), Named("kind", CastNames)>>
           \o FlagsSince(180, release)>>
      [] code = "BINOP" ->
         <<[op |-> "binop"],
           <<Field("VT", "lhs"), Field("V", "rhs"), Field("operation", "kind")>>
           \o Flags>>
      [] code = "UNOP" /\ release >= 140 ->
         <<[op |-> "fneg"],
           <<Field("VT", "value"), Named("kind", <<"fneg">>)>> \o Flags>>
      [] code = "GEP" ->
         <<[op |-> "gep", kind |-> "gep"],
           <<Field("flags", "flags"), Field("type", "source"),
             Rest("VT", "operands")>>>>
      [] code = "EXTRACTVAL" ->
         <<[op |-> "extractvalue"],
           <<Field("VT", "value"), Rest("number", "indices")>>>>
      [] code = "INSERTVAL" ->
         <<[op |-> "insertvalue"],
           <<Field("VT", "aggregate"), Field("VT", "value"),
             Rest("number", "indices")>>>>
      [] code = "VSELECT" ->
         <<[op |-> "select", kind |-> "select"],
           <<Field("VT", "true"), Field("V", "false"), Field("VT", "cond")>>
           \o FlagsSince(140, release)>>
      [] code = "EXTRACTELT" ->
         <<[op |-> "extractelement"], <<Field("VT", "vector"), Field("VT", "index")>>>>
      [] code = "INSERTELT" ->
         <<[op |-> "insertelement"],
           <<Field("VT", "vector"), Field("V", "value"), Field("VT", "index")>>>>
      [] code = "SHUFFLEVEC" ->
         <<[op |-> "shufflevector"],
           <<Field("VT", "lhs"), Field("V", "rhs"),
             Field("VT", "mask")>>>>
      [] code = "CMP2" ->
         <<[op |-> "cmp"],
           <<Field("VT", "lhs"), Field("V", "rhs"), Field("compare", "kind"),
             Field("number", "predicate"), Optional("strict flags", "flags", {})>>>>
      [] code = "RET" -> <<[op |-> "ret"], <<Rest("VT", "values")>>>>
      [] code = "SWITCH" ->
         <<[op |-> "switch"],
           <<Field("type", "condType"), Field("V", "cond"),
             Field("number", "default"), Rest("case", "cases")>>>>
      [] code = "INDIRECTBR" ->
         <<[op |-> "indirectbr"],
           <<Field("type", "addressType"), Field("V", "address"),
             Rest("number", "targets")>>>>
      [] code = "INVOKE" ->
         <<[op |-> "invoke"],
           <<Field("number", "attrs"), Flag("explicit", 13),
             Field("plain cc", "cc"), Field("number", "normal"),
             Field("number", "unwind")>> \o Called>>
      [] code = "RESUME" -> <<[op |-> "resume"], <<Field("VT", "value")>>>>
      [] code = "CLEANUPRET" ->
         <<[op |-> "cleanupret"], <<Field("V", "pad"), Rest("number", "unwind")>>>>
      [] code = "CATCHRET" ->
         <<[op |-> "catchret"], <<Field("V", "pad"), Field("number", "target")>>>>
      [] code \in {"CATCHPAD", "CLEANUPPAD"} ->
         <<[op |-> IF code = "CATCHPAD" THEN "catchpad" ELSE "cleanuppad"],
           <<Field("V", "parent"), Counted("VT", "args")>>>>
      [] code = "CATCHSWITCH" ->
         <<[op |-> "catchswitch"],
           <<Field("V", "parent"), Counted("number", "handlers"),
             Rest("number", "unwind")>>>>
      [] code = "UNREACHABLE" -> <<[op |-> "unreachable"], <<>>>>
      [] code = "LANDINGPAD" ->
         <<[op |-> "landingpad"],
           <<Field("type", "type"), Field("bool", "cleanup"),
             Counted("clause", "clauses")>>>>
      [] code = "ALLOCA" ->
         <<[op |-> "alloca"],
           <<Field("type", "type"), Field("type", "sizeType"),
             Field("number", "size"), Flag("inalloca", 5), Flag("explicit", 6),
             Flag("swifterror", 7), Field("alloca align", "align")>>
           \o If(release >= 180, <<Optional("number", "space", NoAddressSpace)>>)>>
      [] code = "LOAD" ->
         <<[op |-> "load", ordering |-> "notatomic", scope |-> "system"],
           Pointer \o <<Field("type", "type")>> \o Access>>
      [] code = "LOADATOMIC" ->
         <<[op |-> "load"],
           Pointer \o <<Field("type", "type")>> \o Access \o AtomicOrder>>
      [] code = "STORE" ->
         <<[op |-> "store", ordering |-> "notatomic", scope |-> "system"],
           Pointer \o <<Field("VT", "value")>> \o Access>>
      [] code = "STOREATOMIC" ->
         <<[op |-> "store"],
           Pointer \o <<Field("VT", "value")>> \o Access \o AtomicOrder>>
      [] code = "CMPXCHG" ->
         <<[op |-> "cmpxchg"],
           Pointer \o <<Field("VT", "cmp"), Field("V", "new"),
             Field("bool", "volatile"), Named("success", OrderingNames),
             Named("scope", ScopeNames), Named("failure", OrderingNames),
             Field("bool", "weak")>>
           \o If(release >= 140, <<Field("align", "align")>>)>>
      [] code = "ATOMICRMW_OLD" ->
         <<[op |-> "atomicrmw"],
           Pointer \o <<Field("V", "value"), Named("operation", RMWNames(release)),
             Field("bool", "volatile")>> \o AtomicOrder>>
      [] code = "ATOMICRMW" /\ release >= 140 ->
         <<[op |-> "atomicrmw"],
           Pointer \o <<Field("VT", "value"), Named("operation", RMWNames(release)),
             Field("bool", "volatile")>> \o AtomicOrder
           \o <<Field("align", "align")>>>>
      [] code = "FENCE" -> <<[op |-> "fence"], AtomicOrder>>
      [] code = "CALL" ->
         <<[op |-> "call", kind |-> "call"],
           <<Field("number", "attrs"), Flag("explicit", 15), Flag("fmf", 17),
             Field("tail", "tail"), Field("cc", "cc"),
             Field("marked flags", "flags")>> \o Called>>
      [] code = "CALLBR" /\ release >= 140 ->
         <<[op |-> "callbr"],
           <<Field("number", "attrs"), Flag("explicit", 15), Field("cc", "cc"),
             Field("number", "default"), Counted("number", "targets")>> \o Called>>
      [] code = "VAARG" ->
         <<[op |-> "vaarg"],
           <<Field("type", "listType"), Field("V", "list"), Field("type", "type")>>>>
      [] code = "FREEZE" /\ release >= 140 ->
         <<[op |-> "freeze"], <<Field("VT", "value")>>>>
      [] OTHER -> <<[op |-> "unknown"], <<Field("VT", "nothing")>>>>

\* Two records whose length says what they are.
ReadBranch(ops, at) ==
    [ok |-> Len(ops) \in {1, 3},
     item |-> [op |-> "br", successors |-> SubSeq(ops, 1, IF Len(ops) = 3 THEN 2 ELSE 1),
               cond |-> If(Len(ops) = 3, <<(at - ops[Len(ops)]) % Width>>)]]
PhiStart(ops) ==
    [ok |-> TRUE, pos |-> 2,
     item |-> [op |-> "phi", kind |-> "phi", type |-> TypeNamed(ops[1])]]
ReadPhi(release, ops, at) ==
    Whole(ReadField(release, ReadList(release, PhiStart(ops), "incoming", "incoming",
                                      (Len(ops) - 1) \div 2, ops, at),
                    FlagsSince(140, release)[1], ops, at), ops)
ReadFields(release, grammar, ops, at) ==
    ReadRecord(release, grammar[1], grammar[2], ops, at)
ReadOther(release, record, at) ==
    ReadFields(release, Grammar(release, record.code), record.ops, at)

LargestAlignment(release) == IF release < 140 THEN 29 ELSE 32
\* What the reader only checks: the types of operands are their own, calls
\* and allocas name their types,
\* and up to LLVM 7 nothing is aligned to more than 2^29.
Checked(release, item) ==
    /\ "align" \in DOMAIN item => item.align <= LargestAlignment(release)
    /\ "explicit" \in DOMAIN item => item.explicit
    /\ "condType" \in DOMAIN item => item.condType = ValueType[item.cond]
    /\ "addressType" \in DOMAIN item => item.addressType = ValueType[item.address]
    /\ "listType" \in DOMAIN item => item.listType = ValueType[item.list]
    /\ "sizeType" \in DOMAIN item => item.sizeType = ValueType[item.size]
Auxiliary == {"explicit", "condType", "addressType", "listType", "sizeType", "fmf"}

ReadBundle(release, record, at) ==
    ReadRecord(release, <<>>, <<Field("number", "tag"), Rest("VT", "inputs")>>,
               record.ops, at)
Calling == {"CALL", "INVOKE", "CALLBR"}
\* The records of one instruction: operand bundles belong to the call after them.
Understood(release, rs, got, bundles) ==
    LET called == Last(rs).code \in Calling
    IN IF got.ok /\ Checked(release, got.item) /\ (Len(rs) > 1 => called)
          /\ \A n \in DOMAIN bundles :
                rs[n].code = "OPERAND_BUNDLE" /\ bundles[n].ok
       THEN Without(got.item, Auxiliary)
            @@ IF called
               THEN [bundles |-> [n \in DOMAIN bundles |-> bundles[n].item]]
               ELSE <<>>
       ELSE [op |-> "malformed"]
ReadInstruction(release, rs, at) ==
    LET record == Last(rs)
    IN Understood(release, rs,
                  CASE record.code = "BR" -> ReadBranch(record.ops, at)
                    [] record.code = "PHI" -> ReadPhi(release, record.ops, at)
                    [] OTHER -> ReadOther(release, record, at),
                  [n \in DOMAIN Front(rs) |-> ReadBundle(release, rs[n], at)])

\* The location of the instruction before; `last' is the location before that.
ReadLocation(release, rs, last) ==
    LET ops == rs[1].ops
    IN IF rs[1].code = "DEBUG_LOC_AGAIN" THEN last
       ELSE IF Len(ops) < 4 THEN [op |-> "malformed"]
       ELSE [line |-> ops[1], column |-> ops[2], scope |-> ops[3], inlinedAt |-> ops[4],
             implicit |-> release >= 140 /\ Len(ops) = 5 /\ ops[5] = 1]
LocationIn(release, loc) == [loc EXCEPT !.implicit = @ /\ release >= 140]

\* A value written for itself is never one that is still to come.
WrapperOf(v) == CHOOSE m \in DOMAIN WrappedValue : WrappedValue[m] = v
Variable(kind, ops, location) ==
    [kind |-> kind, loc |-> ops[1], variable |-> ops[2], expression |-> ops[3],
     location |-> location]
ReadDebugRecord(rs, at) ==
    LET ops == rs[1].ops
        code == rs[1].code
    IN CASE code = "DEBUG_RECORD_LABEL" -> [kind |-> "label", loc |-> ops[1], label |-> ops[2]]
         [] code = "DEBUG_RECORD_VALUE_SIMPLE" /\ ~Typed(ops, 4, at) ->
              Variable("value", ops, WrapperOf(at - ops[4]))
         [] code = "DEBUG_RECORD_VALUE" -> Variable("value", ops, ops[4])
         [] code = "DEBUG_RECORD_DECLARE" -> Variable("declare", ops, ops[4])
         [] code = "DEBUG_RECORD_ASSIGN" ->
              Variable("assign", ops, ops[4])
              @@ [id |-> ops[5], addressExpression |-> ops[6], address |-> ops[7]]
         [] OTHER -> [kind |-> "malformed"]

\* The value of an instruction, if it has one, gets the next number.
Defines(i) == ResultType(i) # "void"

\* What a release has of an instruction.  Flags it does not know, alignments
\* and address spaces it derives, and a pointer's type as PointerMap has it.
FlagsIn(release, i) ==
    LET names == FlagNames(release, i)
    IN (i.flags \cap {names[b] : b \in DOMAIN names})
       \cup IF release = 50 /\ names = FastMathNames(50)
               /\ AllFastMath \subseteq i.flags THEN {"fast"} ELSE {}
Dropped(release, i) ==
    (IF i.op \in {"cmpxchg", "atomicrmw"} /\ release < 140 THEN {"align"} ELSE {})
    \cup (IF i.op = "alloca" /\ release < 180 THEN {"space"} ELSE {})
InRelease(release, i) ==
    LET kept == Without(i, Dropped(release, i))
        flagged == IF "flags" \in DOMAIN i
                   THEN [kept EXCEPT !.flags = FlagsIn(release, i)] ELSE kept
    IN IF i.op = "call" /\ release <= 140 /\ i.callee \in DOMAIN MappedCallee
       THEN [flagged EXCEPT !.fnType = MappedCallee[i.callee]] ELSE flagged

\* What the writer does not refuse though the release does.
TooAligned(release, i) == "align" \in DOMAIN i /\ i.align > LargestAlignment(release)
\* What a release cannot hold, or the writer says it does not support.
Unsupported(release, i) ==
    \/ i.op \in {"freeze", "fneg", "invoke"} /\ release < 140
    \/ i.op = "callbr" /\ release < 180
    \/ i.op = "atomicrmw" /\ i.operation \notin Range(RMWNames(release))

-----------------------------------------------------------------------------
(* Constants: values are absolute here *)

\* The lowest bit is the sign; minus nothing is the least number.
SignedOf(n) ==
    CASE n % 2 = 0 -> n \div 2 [] n = 1 -> -(IntRange \div 2) [] OTHER -> -(n \div 2)
Unsigned(v) == IF v < 0 THEN v + IntRange ELSE v

ConstantFlags(release, kind, n) == FlagsOf(FlagNames(release, [kind |-> kind]), n)
\* Pairs of a type and a value that has it.
TypedPairs(ops) ==
    Len(ops) % 2 = 0
    /\ \A n \in 1 .. Len(ops) \div 2 :
          ops[2 * n] \in DOMAIN ValueType
          /\ TypeNamed(ops[2 * n - 1]) \in {ValueType[ops[2 * n]], MappedType[ops[2 * n]]}
SecondOf(ops) == [n \in 1 .. Len(ops) \div 2 |-> ops[2 * n]]
From(ops, n) == SubSeq(ops, n, Len(ops))

ReadFloat(type, ops) ==
    IF type = "x86_fp80"
    THEN LET s == CHOOSE n \in 1 .. IntRange : n^4 = IntRange
         IN <<((ops[1] * s) % IntRange) + ops[2], ops[1] \div (IntRange \div s)>>
    ELSE ops
ReadText(ops, n) == SubSeq(ops, n + 1, n + ops[n])
ReadAsm(release, type, ops) ==
    LET first == IF release >= 140 THEN 1 ELSE 0
        names == (0 :> "sideeffect") @@ (1 :> "alignstack") @@ (2 :> "intel")
                 @@ IF release >= 140 THEN 3 :> "unwind" ELSE <<>>
        asm == ReadText(ops, first + 2)
    IN [op |-> "asm", type |-> type, flags |-> FlagsOf(names, ops[first + 1]),
        asm |-> asm, constraints |-> ReadText(ops, first + 3 + Len(asm)),
        fnType |-> IF release >= 140 THEN TypeNamed(ops[1]) ELSE "none"]
\* The number of words that are typed pairs starts where the flags end.
ReadGEP(release, code, type, ops) ==
    LET flagged == code # "CE_INBOUNDS_GEP"
        ranged == code = "CE_GEP_WITH_INRANGE"
        pairs == From(ops, 2 + Bit(flagged) + IF ranged THEN 3 ELSE 0)
    IN [op |-> IF TypedPairs(pairs) THEN "gep expr" ELSE "malformed", type |-> type,
        source |-> TypeNamed(ops[1]), operands |-> SecondOf(pairs),
        flags |-> IF flagged THEN ConstantFlags(release, "gep", ops[2]) ELSE {"inbounds"},
        range |-> If(ranged, <<<<ops[3], SignedOf(ops[4]), SignedOf(ops[5])>>>>)]

\* What the reader makes of a constant of the type that was set.
Meaning(release, code, type, ops) ==
    CASE code = "NULL" -> [op |-> "null", type |-> type]
      [] code = "POISON" /\ release >= 140 -> [op |-> "poison", type |-> type]
      [] code = "INTEGER" /\ Len(ops) = 1 ->
           [op |-> "integer", type |-> type, value |-> SignedOf(ops[1])]
      [] code = "WIDE_INTEGER" ->
           [op |-> "wide integer", type |-> type,
            words |-> [n \in DOMAIN ops |-> Unsigned(SignedOf(ops[n]))]]
      [] code = "FLOAT" /\ ops # <<>> ->
           [op |-> "float", type |-> type, words |-> ReadFloat(type, ops)]
      [] code = "STRING" -> [op |-> "string", type |-> type, chars |-> ops]
      [] code = "CSTRING" -> [op |-> "string", type |-> type, chars |-> Append(ops, 0)]
      [] code = "DATA" -> [op |-> "data", type |-> type, elements |-> ops]
      [] code = "AGGREGATE" -> [op |-> "aggregate", type |-> type, operands |-> ops]
      [] code = "CE_CAST" /\ TypedPairs(From(ops, 2)) ->
           [op |-> "cast expr", type |-> type, kind |-> Name(CastNames, ops[1]),
            operands |-> SecondOf(From(ops, 2))]
      [] code = "CE_BINOP" /\ Len(ops) >= 3 ->
           LET kind == Name(IntegerNames, ops[1])
           IN [op |-> "binop expr", type |-> type, kind |-> kind,
               operands |-> SubSeq(ops, 2, 3),
               flags |-> IF Len(ops) > 3 THEN ConstantFlags(release, kind, ops[4]) ELSE {}]
      [] code = "CE_EXTRACTELT" /\ TypedPairs(ops) ->
           [op |-> "extractelement expr", type |-> type, operands |-> SecondOf(ops)]
      [] code = "CE_INSERTELT" /\ TypedPairs(From(ops, 3)) ->
           [op |-> "insertelement expr", type |-> type,
            operands |-> <<ops[1], ops[2], ops[4]>>]
      [] code = "CE_SHUFFLEVEC" /\ type = ValueType[ops[1]] ->
           [op |-> "shufflevector expr", type |-> type, operands |-> ops]
      [] code = "CE_SHUFVEC_EX" /\ TypeNamed(ops[1]) = ValueType[ops[2]] ->
           [op |-> "shufflevector expr", type |-> type, operands |-> From(ops, 2)]
      [] \/ code = "CE_INBOUNDS_GEP"
         \/ code \in {"CE_GEP", "CE_GEP_WITH_INRANGE"} /\ release >= 200 ->
           ReadGEP(release, code, type, ops)
      [] code = "BLOCKADDRESS" /\ TypedPairs(SubSeq(ops, 1, 2)) ->
           [op |-> "blockaddress", type |-> type, function |-> ops[2], block |-> ops[3]]
      [] code = (IF release < 140 THEN "INLINEASM_OLD2" ELSE "INLINEASM") ->
           ReadAsm(release, type, ops)
      [] code = "NO_CFI_VALUE" /\ release >= 140 /\ TypedPairs(ops) ->
           [op |-> "no_cfi", type |-> type, global |-> ops[2]]
      [] code = "DSO_LOCAL_EQUIVALENT" /\ release >= 140 /\ TypedPairs(ops) ->
           [op |-> "dso_local_equivalent", type |-> type, global |-> ops[2]]
      [] code = "PTRAUTH" /\ release >= 200 ->
           [op |-> "ptrauth", type |-> type, operands |-> ops]
      [] OTHER -> [op |-> "undef", type |-> type]    \* whatever it does not know

\* The type to be, and the constant: SETTYPE says what those after it have.
TypeSet(rs, type) == IF Len(rs) = 2 THEN TypeNamed(rs[1].ops[1]) ELSE type
ReadConstant(release, rs, type) ==
    IF Len(rs) \in {1, 2} /\ (Len(rs) = 2 => rs[1].code = "SETTYPE")
    THEN Meaning(release, Last(rs).code, TypeSet(rs, type), Last(rs).ops)
    ELSE [op |-> "malformed"]

\* What a release has of a constant: typed pointers up to LLVM 14, a vector's
\* elements up to LLVM 18, an asm's function type from LLVM 14 on.
OldPointers(release, c) == release <= 140 /\ c.mapped # "none"
Bridged(v) == IF v \in DOMAIN CastSlot THEN CastSlot[v] ELSE v
ConstantIn(release, c) ==
    LET type == IF OldPointers(release, c) /\ c.op # "slot" THEN c.mapped ELSE c.type
        plain == Without([c EXCEPT !.type = type],
                         {"mapped", "pointers", "unbridged", "data", "float"})
        absent == CASE c.op = "cast expr" -> {"flags"} [] c.op = "binop expr" -> {}
                    [] c.op = "gep expr" -> {"kind"} [] OTHER -> {"kind", "flags"}
    IN CASE c.op = "slot" ->
              [op |-> "cast expr", type |-> type, kind |-> "bitcast",
               operands |-> <<c.value>>]
         [] c.op = "poison" /\ release < 140 -> [op |-> "undef", type |-> type]
         [] c.op = "splat" /\ release < 200 ->
              [op |-> "data", type |-> type, elements |-> [n \in 1 .. c.count |-> c.element]]
         [] c.op = "splat" /\ c.float ->
              [op |-> "float", type |-> type, words |-> <<c.element>>]
         [] c.op = "splat" -> [op |-> "integer", type |-> type, value |-> c.element]
         [] c.op = "aggregate" /\ release <= 140 ->
              [plain EXCEPT !.operands = [n \in DOMAIN @ |-> Bridged(@[n])]]
         [] c.op = "asm" /\ release < 140 -> [plain EXCEPT !.fnType = "none"]
         [] c.op = "gep expr" /\ release < 200 ->
              Without([plain EXCEPT !.flags = @ \cap {"inbounds"}, !.range = <<>>], absent)
         [] c.op \in Expressions -> Without(plain, absent)
         [] OTHER -> plain

\* LLVM 18 takes the number of a getelementptr without inbounds for none it
\* knows.
KnownGap(release, c) ==
    release = 180 /\ c.op = "gep expr" /\ "inbounds" \notin c.flags
\* Slots are for typed pointers, and what computes with no pointer has a
\* scalable vector, a type that is refused before.
OccursIn(release, c) ==
    /\ c.op = "slot" => release <= 140
    /\ c.op \in Expressions /\ ~c.pointers => release >= 140
UnsupportedConstant(release, c) ==
    \/ release < 140 /\ \/ c.op = "asm" /\ "unwind" \in c.flags
                        \/ c.op = "float" /\ c.type = "bfloat"
                        \/ c.op \in {"no_cfi", "dso_local_equivalent"}
    \/ c.op = "slot" /\ c.mapped = "none"
    \/ release <= 140 /\ \/ c.op \in Expressions /\ c.pointers
                         \/ c.op = "aggregate" /\ c.unbridged
    \/ release < 200 /\ \/ c.op = "ptrauth"
                        \/ c.op = "splat" /\ ~c.data
=============================================================================
