------------------------------ MODULE MCRecords ------------------------------
(***************************************************************************)
(* Model values for RecordWriter.  Values 0 to 9 are a function and        *)
(* constants, those from 10 on instructions; their types repeat, so that   *)
(* every operand occurs defined and as a forward reference.                *)
(***************************************************************************)
EXTENDS RecordWriter

MCWidth == 2^20
InstTypes == <<"i32", "float", "ptr", "i1", "i64", "token", "vec", "pair">>
MCFirstInst == 10
MCLastInst == 21
MCValueTypes ==
    <<"ptr", "i1", "i32", "i64", "float", "ptr", "vec", "mask", "pair", "token">>
    \o InstTypes \o InstTypes
MCValueType == [n \in 0 .. Len(MCValueTypes) - 1 |-> MCValueTypes[n + 1]]
MCMappedType ==
    [n \in DOMAIN MCValueType |-> IF n \in {5, 12, 20} THEN "i32*" ELSE MCValueType[n]]
FunctionTypes == {"fn", "void fn", "asm fn", "float fn", "mapped fn"}
MCTypeNames ==
    InstTypes \o <<"mask", "fn", "void fn", "asm fn", "float fn", "mapped fn", "i8",
                   "i32*", "double", "void", "half", "bfloat", "x86_fp80", "fp128",
                   "chars", "words", "reals", "i128", "{}">>
MCTypeID == [t \in Range(MCTypeNames) |->
               (CHOOSE n \in DOMAIN MCTypeNames : MCTypeNames[n] = t) - 1]
MCMappedCallee == 0 :> "mapped fn"
MCParams == [t \in FunctionTypes |->
               IF t = "asm fn" THEN <<"value", "label">> ELSE <<"value">>]
MCResultType(i) ==
    CASE i.op \in {"cast", "load", "phi", "landingpad", "vaarg"} -> i.type
      [] i.op = "binop" -> ValueType[i.lhs]
      [] i.op \in {"fneg", "freeze"} -> ValueType[i.value]
      [] i.op = "select" -> ValueType[i.true]
      [] i.op \in {"alloca", "gep"} -> "ptr"
      [] i.op = "cmp" -> "i1"
      [] i.op \in {"insertelement", "shufflevector"} -> "vec"
      [] i.op \in {"insertvalue", "cmpxchg"} -> "pair"
      [] i.op \in {"extractelement", "extractvalue", "atomicrmw"} -> "i32"
      [] i.op \in {"catchpad", "cleanuppad", "catchswitch"} -> "token"
      [] i.op \in {"call", "invoke", "callbr"} ->
           CASE i.fnType = "float fn" -> "float" [] i.fnType \in {"fn", "mapped fn"} -> "i32"
             [] OTHER -> "void"
      [] OTHER -> "void"

Floats == {4, 11}
FMF == {{}, AllFastMath, {"nnan", "arcp"}, {"reassoc", "afn"}}
I32 == {2, 18}
Ptr == {5, 12, 20}
Bool == {1, 13}
Binaries ==
    [op : {"binop"}, kind : {"add", "shl"}, lhs : I32, rhs : {2, 10},
     flags : {{}, {"nsw"}, {"nuw", "nsw"}}]
    \cup [op : {"binop"}, kind : {"sdiv", "lshr"}, lhs : I32, rhs : {2},
          flags : {{}, {"exact"}}]
    \cup [op : {"binop"}, kind : {"or"}, lhs : {10, 18}, rhs : {2},
          flags : {{}, {"disjoint"}}]
    \cup [op : {"binop"}, kind : {"fadd", "fdiv", "frem"}, lhs : Floats, rhs : {4},
          flags : FMF]
    \cup [op : {"fneg"}, kind : {"fneg"}, value : Floats, flags : FMF]
Casts ==
    [op : {"cast"}, kind : {"trunc"}, value : {3, 14}, type : {"i32"},
     flags : {{}, {"nuw"}}]
    \cup [op : {"cast"}, kind : {"zext"}, value : {2, 18}, type : {"i64"},
          flags : {{}, {"nneg"}}]
    \cup [op : {"cast"}, kind : {"uitofp"}, value : {2, 18}, type : {"float"},
          flags : {{}, {"nneg"}, {"nneg", "nnan"}}]
    \cup [op : {"cast"}, kind : {"bitcast"}, value : Ptr, type : {"i32"}, flags : {{}}]
Others ==
    [op : {"gep"}, kind : {"gep"}, source : {"i8"}, operands : {<<5, 2>>, <<12, 18>>},
     flags : {{}, {"inbounds", "nusw"}, {"nuw"}, {"inbounds", "nusw", "nuw"}}]
    \cup [op : {"extractvalue"}, value : {8, 17}, indices : {<<0>>, <<1, 0>>}]
    \cup [op : {"insertvalue"}, aggregate : {8, 17}, value : {2, 18}, indices : {<<0>>}]
    \cup [op : {"select"}, kind : {"select"}, true : Floats, false : {4}, cond : Bool,
          flags : FMF]
    \cup [op : {"extractelement"}, vector : {6, 16}, index : {2, 10}]
    \cup [op : {"insertelement"}, vector : {6, 16}, value : {2, 10}, index : {2, 10}]
    \cup [op : {"shufflevector"}, lhs : {6, 16}, rhs : {6}, mask : {7}]
    \cup [op : {"cmp"}, kind : {"icmp"}, lhs : I32, rhs : {2}, predicate : {40},
          flags : {{}, {"samesign"}}]
    \cup [op : {"cmp"}, kind : {"fcmp"}, lhs : Floats, rhs : {4}, predicate : {1},
          flags : FMF]
    \cup [op : {"freeze"}, value : I32]
Terminators ==
    [op : {"ret"}, values : {<<>>, <<2>>, <<18>>}]
    \cup {[op |-> "br", successors |-> <<1>>, cond |-> <<>>],
          [op |-> "br", successors |-> <<1, 2>>, cond |-> <<13>>]}
    \cup [op : {"switch"}, cond : {10}, default : {0}, cases : {<<>>, <<<<2, 1>>, <<3, 2>>>>}]
    \cup [op : {"indirectbr"}, address : {5, 12}, targets : {<<>>, <<1, 2>>}]
    \cup [op : {"resume"}, value : {17}]
    \cup [op : {"cleanupret"}, pad : {15}, unwind : {<<>>, <<2>>}]
    \cup [op : {"catchret"}, pad : {15}, target : {2}]
    \cup [op : {"catchpad", "cleanuppad"}, parent : {9, 15}, args : {<<>>, <<2, 18>>}]
    \cup [op : {"catchswitch"}, parent : {9}, handlers : {<<1>>, <<1, 2>>},
          unwind : {<<>>, <<3>>}]
    \cup {[op |-> "unreachable"]}
Accesses ==
    [op : {"load"}, ptr : Ptr, type : {"i32"}, align : {0, 3}, volatile : BOOLEAN,
     ordering : {"notatomic", "acquire"}, scope : {"system"}]
    \cup [op : {"store"}, ptr : Ptr, value : {2, 18}, align : {2}, volatile : {FALSE},
          ordering : {"notatomic", "seq_cst"}, scope : {"system"}]
    \cup [op : {"cmpxchg"}, ptr : {12}, cmp : {2, 18}, new : {2}, volatile : {TRUE},
          success : {"acq_rel"}, failure : {"monotonic"},
          scope : {"singlethread"}, weak : BOOLEAN, align : {2}]
    \cup [op : {"atomicrmw"}, ptr : {12}, value : {2, 18},
          operation : {"xchg", "umin", "fadd", "fmin", "uinc_wrap", "usub_sat", "fmaximum"},
          volatile : {FALSE}, ordering : {"release"}, scope : {"system"}, align : {2}]
    \cup [op : {"fence"}, ordering : {"seq_cst"}, scope : {"singlethread"}]
    \cup [op : {"alloca"}, type : {"i32"}, size : {2}, align : {0, 4, 30},
          inalloca : BOOLEAN, swifterror : BOOLEAN, space : {0, 5}]
    \cup [op : {"phi"}, kind : {"phi"}, type : {"float"},
          incoming : {<<<<4, 0>>, <<19, 1>>>>, <<<<11, 2>>>>}, flags : FMF]
    \cup [op : {"landingpad"}, type : {"pair"}, cleanup : BOOLEAN,
          clauses : {<<>>, <<<<"catch", 5>>, <<"filter", 8>>>>}]
Bundle == [tag |-> 1, inputs |-> <<2, 18>>]
Callings ==
    [op : {"call"}, kind : {"call"}, attrs : {3}, cc : {0, 1023},
     tail : {"none", "tail", "musttail", "notail"}, flags : {{}, AllFastMath},
     fnType : {"float fn"}, callee : {5, 12}, args : {<<4>>}, bundles : {<<>>}]
    \cup [op : {"call"}, kind : {"call"}, attrs : {0}, cc : {0}, tail : {"none"},
          flags : {{}}, fnType : {"fn"}, callee : {0, 5}, args : {<<2, 18, 5>>, <<2>>},
          bundles : {<<>>, <<Bundle, Bundle>>}]
    \cup [op : {"call"}, kind : {"call"}, attrs : {0}, cc : {0}, tail : {"none"},
          flags : {{}}, fnType : {"asm fn"}, callee : {5}, args : {<<18, 2>>},
          bundles : {<<>>}]
    \cup [op : {"invoke"}, attrs : {1}, cc : {8}, normal : {1}, unwind : {2},
          fnType : {"void fn"}, callee : {5, 12}, args : {<<18>>, <<18, 2>>},
          bundles : {<<>>, <<Bundle>>}]
    \cup [op : {"callbr"}, attrs : {1}, cc : {0}, default : {1}, targets : {<<2, 3>>},
          fnType : {"void fn"}, callee : {5}, args : {<<2>>}, bundles : {<<>>}]
    \cup [op : {"vaarg"}, list : {12}, type : {"i32"}]
MCInstructions == Binaries \cup Casts \cup Others \cup Terminators \cup Accesses \cup Callings

\* Locations with a scope alone or inlined, and what a debugger is told: the
\* nodes 40 and on hold values.
MCLocations ==
    {[line |-> 7, column |-> 0, scope |-> 3, inlinedAt |-> 0, implicit |-> FALSE],
     [line |-> 7, column |-> 2, scope |-> 3, inlinedAt |-> 9, implicit |-> TRUE]}
MCWrappedValue == (41 :> 2) @@ (42 :> 10) @@ (43 :> 15) @@ (44 :> 20)
About == [kind |-> "value", loc |-> 8, variable |-> 5, expression |-> 6]
MCDebugRecords ==
    {About @@ [location |-> m] : m \in DOMAIN MCWrappedValue \cup {11}}
    \cup {[kind |-> "label", loc |-> 8, label |-> 4],
          [About EXCEPT !.kind = "declare"] @@ [location |-> 42],
          [About EXCEPT !.kind = "assign"]
            @@ [location |-> 43, id |-> 12, addressExpression |-> 6, address |-> 44]}

\* Constants: the numbers of an uint64_t are 256, of a char 256.
MCIntRange == 256
MCCastSlot == 5 :> 9
MCLastVal == 10
OfOp(op, type) == [op |-> op, type |-> type, mapped |-> "none"]
Simples ==
    {OfOp(op, t) : op \in {"null", "undef", "poison"}, t \in {"i32", "vec"}}
    \cup {[OfOp("null", "ptr") EXCEPT !.mapped = "i32*"], OfOp("null", "ptr")}
Numbers ==
    {OfOp("integer", "i32") @@ [value |-> v] : v \in {0, 1, -1, 127, -127, -128}}
    \cup {OfOp("integer", "i1") @@ [value |-> -1]}
    \cup {OfOp("wide integer", "i128") @@ [words |-> <<200, 1>>],
          OfOp("wide integer", "i128") @@ [words |-> <<0, 128>>],
          OfOp("float", "float") @@ [words |-> <<63>>],
          OfOp("float", "half") @@ [words |-> <<12>>],
          OfOp("float", "bfloat") @@ [words |-> <<12>>],
          OfOp("float", "fp128") @@ [words |-> <<1, 200>>],
          OfOp("float", "x86_fp80") @@ [words |-> <<225, 3>>]}
Strings ==
    {OfOp("string", "chars") @@ [chars |-> s] :
       s \in {<<97, 46, 0>>, <<97, 33, 0>>, <<97, 200, 0>>, <<97, 0, 0>>, <<97, 98, 99>>}}
    \cup {OfOp("data", "words") @@ [elements |-> <<255, 0, 3>>]}
    \cup {OfOp("splat", "vec") @@ [count |-> 4, element |-> 3, data |-> d, float |-> FALSE] :
            d \in BOOLEAN}
    \cup {OfOp("splat", "reals") @@ [count |-> 2, element |-> 63, data |-> TRUE, float |-> TRUE]}
Asms ==
    {OfOp("asm", "ptr") @@ [flags |-> f, asm |-> <<110, 111>>, constraints |-> <<114>>,
                            fnType |-> "asm fn"] :
       f \in {{}, {"sideeffect", "intel"}, {"alignstack", "unwind"}}}
Aggregates ==
    {OfOp("aggregate", "pair") @@ [operands |-> s, unbridged |-> FALSE] :
       s \in {<<2, 2>>, <<2, 5>>}}
    \cup {OfOp("aggregate", "pair") @@ [operands |-> <<2, 6>>, unbridged |-> TRUE],
          OfOp("slot", "ptr") @@ [mapped |-> "none", value |-> 5],
          [OfOp("slot", "ptr") EXCEPT !.mapped = "i32*"] @@ [value |-> 5]}
\* Those of pointers, and those a scalable vector leaves in place.
Expr(op, type, kind, flags, operands, pointers) ==
    OfOp(op, type) @@ [kind |-> kind, flags |-> flags, operands |-> operands,
                       pointers |-> pointers]
Exprs ==
    {Expr("cast expr", "i64", "ptrtoint", {}, <<5>>, TRUE),
     Expr("binop expr", "i64", "add", {}, <<3, 3>>, TRUE),
     Expr("binop expr", "i64", "sub", {"nuw", "nsw"}, <<3, 3>>, TRUE),
     Expr("extractelement expr", "i32", "extractelement", {}, <<6, 2>>, TRUE),
     Expr("insertelement expr", "vec", "insertelement", {}, <<6, 2, 3>>, FALSE),
     Expr("shufflevector expr", "vec", "shufflevector", {}, <<6, 6, 7>>, FALSE),
     Expr("shufflevector expr", "mask", "shufflevector", {}, <<6, 6, 7>>, FALSE)}
    \cup {Expr("gep expr", "ptr", "gep", f, <<5, 2>>, TRUE)
            @@ [source |-> "i8", range |-> r] :
            f \in {{}, {"inbounds", "nusw"}, {"nuw"}}, r \in {<<>>, <<<<7, -3, 4>>>>}}
Others2 ==
    {[OfOp("blockaddress", "ptr") EXCEPT !.mapped = m] @@ [function |-> 0, block |-> 1] :
       m \in {"none", "i32*"}}
    \cup {OfOp(op, "ptr") @@ [global |-> 5] : op \in {"no_cfi", "dso_local_equivalent"}}
    \cup {OfOp("ptrauth", "ptr") @@ [operands |-> <<5, 2, 3, 5>>]}
MCConstants ==
    Simples \cup Numbers \cup Strings \cup Asms \cup Aggregates \cup Exprs \cup Others2

\* Types: every kind, the names in and out of the usual characters.
Names == {<<>>, <<97, 46>>, <<97, 33>>}
Struct == [kind |-> "STRUCT", packed |-> FALSE, elements |-> <<>>, literal |-> FALSE,
           opaque |-> FALSE, name |-> <<>>]
MCTypes ==
    [kind : {"VOID", "HALF", "FLOAT", "LABEL", "TOKEN", "BFLOAT", "X86_AMX", "BYTE"}]
    \cup [kind : {"INTEGER"}, width : {1, 128}]
    \cup [kind : {"OPAQUE_POINTER"}, space : {0, 3}]
    \cup [kind : {"POINTER"}, element : {"i32", "i32*"}, space : {0, 3}]
    \cup [kind : {"FUNCTION"}, vararg : BOOLEAN, result : {"void"},
          params : {<<>>, <<"i32", "ptr">>}]
    \cup {[Struct EXCEPT !.packed = p, !.elements = e, !.name = n] :
            p \in BOOLEAN, e \in {<<>>, <<"i32", "{}">>}, n \in Names}
    \cup {[Struct EXCEPT !.opaque = TRUE, !.name = n] : n \in Names}
    \cup {[Struct EXCEPT !.literal = TRUE, !.elements = e] : e \in {<<>>, <<"i32", "ptr">>}}
    \cup [kind : {"ARRAY"}, count : {0, 300}, element : {"{}"}]
    \cup [kind : {"VECTOR"}, count : {4}, element : {"i32"}, scalable : BOOLEAN]
    \cup [kind : {"TARGET_TYPE"}, name : {<<97>>}, types : {<<>>, <<"i32">>},
          ints : {<<>>, <<7, 1>>}]

\* Globals: each differs from the usual one in something.
MCTextSize == ("" :> 0) @@ ("a" :> 1) @@ ("bb" :> 2) @@ ("ccc" :> 3) @@ ("part" :> 4)
Global == [name |-> "a", type |-> "i32", mapped |-> "none", linkage |-> "external",
           visibility |-> "default", unnamed |-> "none", dll |-> "default",
           dsoLocal |-> FALSE, partition |-> "", space |-> 0]
AVariable ==
    Global @@ [constant |-> FALSE, init |-> 3, align |-> 2, section |-> "", tls |-> "none",
               extinit |-> FALSE, comdat |-> 0, attrs |-> 0, sanitizer |-> {}, codeModel |-> 0]
AFunction ==
    [Global EXCEPT !.name = "bb", !.type = "fn"]
    @@ [cc |-> 0, declaration |-> FALSE, attrs |-> 2, align |-> -1, section |-> "", gc |-> "",
        prologue |-> -1, comdat |-> 0, prefix |-> -1, personality |-> -1]
Variables ==
    {AVariable,
     [AVariable EXCEPT !.type = "ptr", !.mapped = "i32*"],
     [AVariable EXCEPT !.constant = TRUE, !.space = 3, !.init = -1, !.align = -1],
     [AVariable EXCEPT !.linkage = "internal", !.dsoLocal = TRUE, !.section = "s1"],
     [AVariable EXCEPT !.visibility = "hidden", !.dsoLocal = TRUE, !.section = "s2"],
     [AVariable EXCEPT !.tls = "local_exec", !.align = 7],
     [AVariable EXCEPT !.unnamed = "unnamed", !.linkage = "linkonce_odr", !.comdat = 1],
     [AVariable EXCEPT !.unnamed = "local_unnamed", !.linkage = "private", !.dsoLocal = TRUE],
     [AVariable EXCEPT !.extinit = TRUE, !.linkage = "common", !.attrs = 1],
     [AVariable EXCEPT !.dll = "export", !.linkage = "weak_any", !.section = "s1"],
     [AVariable EXCEPT !.partition = "part"],
     [AVariable EXCEPT !.sanitizer = {"no_address", "dyninit"}],
     [AVariable EXCEPT !.codeModel = 4, !.dsoLocal = TRUE]}
FunctionsOfModule ==
    {<<>>,
     <<AFunction, [AFunction EXCEPT !.name = "ccc", !.mapped = "mapped fn", !.gc = "g1",
                   !.section = "s2", !.align = 4, !.prologue = 3, !.personality = 0]>>,
     <<[AFunction EXCEPT !.gc = "g2", !.declaration = TRUE, !.linkage = "extern_weak",
        !.dll = "import", !.section = "s1", !.space = 1, !.partition = "part"],
       [AFunction EXCEPT !.name = "ccc", !.gc = "g1", !.comdat = 2, !.prefix = 4, !.cc = 8,
        !.unnamed = "unnamed", !.dsoLocal = TRUE]>>}
Alias ==
    [Global EXCEPT !.name = "part", !.mapped = "i32*", !.type = "ptr",
                   !.visibility = "protected", !.dsoLocal = TRUE, !.partition = "bb"]
    @@ [aliasee |-> 1, tls |-> "initial_exec"]
IFunc ==
    Without([Global EXCEPT !.name = "ccc", !.type = "fn", !.partition = "part"],
            {"dll", "unnamed"}) @@ [resolver |-> 2]
Module ==
    [triple |-> <<120>>, layout |-> <<101>>, asm |-> <<>>, source |-> <<97>>,
     comdats |-> <<[name |-> "a", kind |-> "any"], [name |-> "ccc", kind |-> "largest"]>>,
     globals |-> <<>>, functions |-> <<>>, aliases |-> <<>>, ifuncs |-> <<>>]
MCModules ==
    {[Module EXCEPT !.globals = <<[v EXCEPT !.name = "part"], w>>, !.functions = fs,
                    !.aliases = <<Alias>>, !.ifuncs = <<IFunc>>] :
       v \in {AVariable, [AVariable EXCEPT !.section = "s2", !.align = -1]}, w \in Variables,
       fs \in FunctionsOfModule}
    \cup {[Module EXCEPT !.source = s, !.asm = a, !.triple = <<>>, !.functions = fs] :
            s \in {<<>>, <<97, 33>>, <<97, 200>>}, a \in {<<>>, <<<<110>>, <<111>>>>},
            fs \in FunctionsOfModule}

\* Attributes: kinds every release has, some have and none had, and every way
\* to touch memory.
Kind(k) == [form |-> "enum", kind |-> k]
Number1(k, v) == [form |-> "int", kind |-> k, value |-> v]
Capture(nothing) == [form |-> "captures", kind |-> 102, nothing |-> nothing, value |-> 5]
Named1(name, value) == [form |-> "string", kind |-> 0, name |-> name, text |-> value]
OfType(k) == [form |-> "type", kind |-> k, type |-> "i64"]
Memory(effects) == [form |-> "memory", kind |-> 86, effects |-> effects]
MCSets ==
    {<<Kind(18)>>, <<Kind(55)>>, <<Kind(60)>>, <<Kind(90), Kind(18)>>, <<Kind(101)>>,
     <<Number1(1, 8), Kind(20)>>, <<Number1(74, 3)>>, <<Number1(87, 3)>>, <<Capture(TRUE)>>,
     <<Capture(FALSE)>>, <<Named1(<<97>>, <<>>)>>, <<Named1(<<97>>, <<98, 99>>), Kind(18)>>,
     <<OfType(29)>>, <<OfType(77)>>, <<Kind(21), OfType(3)>>,
     <<[form |-> "range", kind |-> 92, width |-> 8, range |-> <<-3, 4>>]>>,
     <<[form |-> "ranges", kind |-> 94, width |-> 8, ranges |-> <<<<0, 4>>, <<6, 7>>>>]>>}
OneSet == {<<<<n, s>>>> : n \in {0, 1}, s \in MCSets}
          \cup {<<<<FunctionIndex, <<Number1(33, 2)>>>>>>}
TwoSets == {<<<<1, s>>, <<2, t>>>> : s \in MCSets, t \in {<<Kind(18)>>, <<Kind(101)>>}}
SomeEffects ==
    {[place \in Places |-> CASE place \in {"target0", "target1"} -> t
                             [] place = "errno" -> e [] place = "arg" -> x
                             [] place = "inaccessible" -> y [] OTHER -> z] :
       t \in {0, 1}, e \in {0, 2}, x \in 0 .. 3, y \in 0 .. 3, z \in 0 .. 3}
Effects == {<<<<FunctionIndex, s \o <<Memory(e)>>>>>> : s \in {<<>>, <<Kind(18)>>}, e \in SomeEffects}
MCAttributeLists ==
    {<<l>> : l \in TwoSets \cup Effects} \cup {<<l, m>> : l \in OneSet, m \in OneSet}

\* Metadata: every kind of node, once with nothing in it and once with a number
\* of its own in every field.
RolesOf(op) ==
    LET code == CHOOSE code \in DOMAIN Shapes(200) : Shapes(200)[code].op = op
    IN Range(Shapes(200)[code].needed \o Shapes(200)[code].more) \ {"zero"}
EachItsOwn(roles) ==
    FoldSet(LAMBDA role, numbers : numbers @@ (role :> 1 + Cardinality(DOMAIN numbers)),
            <<>>, roles)
Empty(op) == [op |-> op, distinct |-> FALSE] @@ [role \in RolesOf(op) |-> 0]
Full(op) == [op |-> op, distinct |-> TRUE] @@ EachItsOwn(RolesOf(op))
Node2(op) == {Empty(op), Full(op)}
Plain ==
    UNION {Node2(op) : op \in
             {"DISubroutineType", "DIStringType", "DILexicalBlock", "DILexicalBlockFile",
              "DICommonBlock", "DIMacro", "DIMacroFile", "DITemplateTypeParameter",
              "DITemplateValueParameter", "DIGlobalVariable", "DILocalVariable", "DILabel",
              "DIGlobalVariableExpression", "DIObjCProperty", "DIImportedEntity",
              "DIBasicType", "DICompositeType", "DIFile", "DIGenericSubrange", "DIAssignID"}}
    \cup {[n EXCEPT !.addressSpace = a] : n \in Node2("DIDerivedType"), a \in {-1, 0, 3}}
    \cup {[n EXCEPT !.isDecl = b] : n \in Node2("DIModule"), b \in BOOLEAN}
    \cup {n @@ [exportSymbols |-> b] : n \in Node2("DINamespace"), b \in BOOLEAN}
    \cup {[Full("DICompileUnit") EXCEPT !.language = l, !.nameTable = t] :
            l \in {<<12>>, <<3, 1>>, <<4, 1>>}, t \in {0, 1, 2}}
    \cup {[n EXCEPT !.spFlags = f] @@ [virtuality |-> v] :
            n \in Node2("DISubprogram"), v \in 0 .. 2,
            f \in {{}, {"local", "definition"}, {"optimized", "deleted"}}}
    \cup {[op |-> op] : op \in {"DIFixedPointType", "DISubrangeType"}}
MCDWLang == <<3, 1>> :> 33
ALocation == [op |-> "DILocation", distinct |-> FALSE, line |-> 70, column |-> 3, scope |-> 4,
              inlinedAt |-> 0, implicit |-> FALSE]
ATuple == [op |-> "MDTuple", distinct |-> FALSE, operands |-> <<0, 2, 5>>]
Bound == [op |-> "DISubrange", distinct |-> FALSE, count |-> 3, countValue |-> <<>>, lower |-> 4,
          lowerValue |-> <<>>, upper |-> 5, stride |-> 0]
Enumerator == [op |-> "DIEnumerator", distinct |-> FALSE, unsigned |-> FALSE, name |-> 7]
Special ==
    {ALocation, ATuple, [ALocation EXCEPT !.distinct = TRUE, !.inlinedAt = 8, !.implicit = TRUE],
     [ATuple EXCEPT !.distinct = TRUE],
     [op |-> "GenericDINode", distinct |-> TRUE, tag |-> 9, operands |-> <<3, 0>>],
     [op |-> "DIArgList", distinct |-> FALSE, args |-> <<4, 1>>],
     [op |-> "value", value |-> 2, pointer |-> "i32"],
     [op |-> "value", value |-> 5, pointer |-> "i32*"]}
    \cup {[op |-> "DIExpression", distinct |-> FALSE, elements |-> e] : e \in {<<>>, <<6, 159>>}}
    \cup {[Bound EXCEPT !.countValue = c, !.lowerValue = l] :
            c \in {<<>>, <<12>>, <<-1>>}, l \in {<<>>, <<0>>, <<-3>>, <<127>>}}
    \cup {Enumerator @@ w :
            w \in {[width |-> 1, words |-> <<5>>, value |-> <<5>>],
                   [width |-> 1, words |-> <<200>>, value |-> <<-56>>],
                   [width |-> 2, words |-> <<5>>, value |-> <<5>>],
                   [width |-> 2, words |-> <<200>>, value |-> <<>>],
                   [width |-> 2, words |-> <<200, 255>>, value |-> <<-56>>],
                   [width |-> 2, words |-> <<56, 255>>, value |-> <<>>],
                   [width |-> 2, words |-> <<0, 1>>, value |-> <<>>]}}
    \cup {[Enumerator EXCEPT !.unsigned = TRUE] @@ [width |-> 1, words |-> <<0>>, value |-> <<0>>]}
Texts == {<<>>, <<<<97>>>>, <<<<97, 200>>, <<>>, <<98>>>>}
SomeNodes == {<<>>, <<ATuple>>, <<ATuple, ALocation, [op |-> "value", value |-> 2, pointer |-> "i32"]>>}
SomeNames == {<<>>, <<[name |-> <<97>>, nodes |-> <<5, 1>>], [name |-> <<98, 200>>, nodes |-> <<>>]>>}
MCBlocks ==
    {[op |-> "module metadata", strings |-> t, nodes |-> ns, named |-> d, globals |-> g] :
       t \in Texts \ {<<>>}, ns \in SomeNodes, d \in SomeNames,
       g \in {<<>>, <<[global |-> 0, nodes |-> <<<<1, 4>>>>], [global |-> 5, nodes |-> <<<<0, 1>>, <<2, 6>>>>]>>}}
    \cup {[op |-> "function metadata", strings |-> t, nodes |-> ns] :
            t \in Texts, ns \in SomeNodes \ {<<>>}}
    \cup {[op |-> "attachments", function |-> f,
           instructions |-> <<[id |-> 0, nodes |-> <<<<0, 3>>>>],
                              [id |-> 4, nodes |-> <<<<5, 1>>, <<0, 2>>>>]>>] :
            f \in {<<>>, <<<<0, 9>>>>, <<<<0, 9>>, <<3, 1>>>>}}
    \cup {[op |-> op, names |-> <<<<97, 98>>, <<99>>>>] : op \in {"kinds", "tags", "scopes"}}
MCMetadataItems == Plain \cup Special \cup MCBlocks

MCReleases == {50, 70, 140, 180, 200}
=============================================================================
