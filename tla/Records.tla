------------------------------ MODULE Records ------------------------------
(***************************************************************************)
(* What the five writers of src/BitcodeWriter*.cpp share: how a record is  *)
(* put together out of numbers.  The writers of the releases, one module   *)
(* each (Writer50 ... Writer200), say which numbers, in which order; the   *)
(* module RecordReader is the reader that has to understand them.          *)
(*                                                                         *)
(* Values, blocks and metadata are their numbers (ValueEnumerator assigns  *)
(* them), types are names with a number TypeID[t].  An instruction, a      *)
(* constant, a type, a global and a metadata node are records whose fields *)
(* are named for what they hold.                                           *)
(***************************************************************************)
EXTENDS Integers, Sequences, SequencesExt, FiniteSetsExt

\* Width: the numbers of an unsigned (2^32).
\* IntRange: the numbers of an uint64_t (2^64).
CONSTANTS
    Width,
    IntRange,
    TypeID,        \* the number of a type
    ValueType,     \* the type of a value, by its number
    MappedType,    \* PointerMap, or the type
    MappedCallee,  \* PointerMap's function type, of the functions that have one
    Params,        \* the parameters of a function type: "label" or "value"
    ResultType(_), \* the type of an instruction, "void" if it has no value
    CastSlot,      \* the slots of aggregates' pointers: VE.getAggregatePtrCastID
    LastVal,       \* how many values the module's constants end at
    WrappedValue,  \* the value in a metadata node, by the number of the node
    TextSize,      \* how long a name is
    NoAddressSpace, \* the address space of allocas, from the data layout
    DWLang,        \* toDW_LANG: the language a versioned name stands for
    IndexThreshold \* how many metadata records need no index
ASSUME WidthAssumption == Width \in Nat \ {0} /\ IntRange \in Nat \ {0}

\* An instruction nothing is written for: llvmdg::reportError.
Rejected == <<>>

\* One record: its code, the abbreviation it is written with, its numbers.
\* Abbreviation "" is the unabbreviated form.
Record(code, abbrev, ops) == [code |-> code, abbrev |-> abbrev, ops |-> ops]
Only(code, abbrev, ops) == <<Record(code, abbrev, ops)>>

\* Flags are bits of a number.
Word(bits) == MapThenSumSet(LAMBDA b : 2^b, bits)
BitsOf(n) == {b \in 0 .. 20 : (n \div 2^b) % 2 = 1}
Bit(test) == IF test THEN 1 ELSE 0
If(test, ops) == IF test THEN ops ELSE <<>>

\* The bit of each flag that is set, bits being a function from flags.
FlagWord(bits, flags) == Word({bits[f] : f \in flags \cap DOMAIN bits})

\* What isFast() asks for.
AllFastMath == {"reassoc", "nnan", "ninf", "nsz", "arcp", "contract", "afn"}

ValueOps == {"cast", "binop", "gep", "extractvalue", "insertvalue", "select",
             "extractelement", "insertelement", "shufflevector", "cmp", "fneg"}
MemoryOps == {"phi", "landingpad", "alloca", "load", "store", "cmpxchg",
              "atomicrmw", "fence"}
CallOps == {"call", "vaarg", "freeze", "callbr"}
Literals == {"null", "undef", "poison", "asm", "splat", "integer", "wide integer",
             "float", "string", "data"}
Expressions == {"cast expr", "binop expr", "gep expr", "shufflevector expr",
                "extractelement expr", "insertelement expr"}

Each(s, Op(_)) == FlattenSeq([n \in DOMAIN s |-> Op(s[n])])
\* The least number of bits that has room for n values.
Log2Ceil(n) == CHOOSE b \in 0 .. 20 : 2^b >= n /\ (b = 0 \/ 2^(b - 1) < n)
TypeBits == Log2Ceil(Cardinality(DOMAIN TypeID) + 1)
Without(item, roles) == [role \in DOMAIN item \ roles |-> item[role]]
IsChar6(c) == c \in (97 .. 122) \cup (65 .. 90) \cup (48 .. 57) \cup {46, 95}
=============================================================================
