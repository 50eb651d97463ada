------------------------------ MODULE Writer70 ------------------------------
(***************************************************************************)
(* src/BitcodeWriter70.cpp, the writer for LLVM 7.0: what differs from     *)
(* Writer50, and by name what does not.                                    *)
(***************************************************************************)
EXTENDS Records
W50 == INSTANCE Writer50

FastMath ==
    [nnan |-> 1, ninf |-> 2, nsz |-> 3, arcp |-> 4, contract |-> 5, afn |-> 6,
     reassoc |-> 7]
OptimizationFlags(i) ==
    CASE i.kind \in {"add", "sub", "mul", "shl"} ->
           FlagWord(W50!Overflowing, i.flags)
      [] i.kind \in {"udiv", "sdiv", "lshr", "ashr"} ->
           FlagWord(W50!PossiblyExact, i.flags)
      [] OTHER -> FlagWord(FastMath, i.flags)

Values(i, at) ==
    CASE i.op = "binop" -> W50!Binary(i, OptimizationFlags(i), at)
      [] i.op = "cmp" -> W50!Compare(i, OptimizationFlags(i), at)
      [] OTHER -> W50!Values(i, at)
Terminator(i, at) == W50!Terminator(i, at)
Memory(i, at) == W50!Memory(i, at)
Calls(i, at) ==
    IF i.op = "call" THEN W50!Call(i, W50!CalleeType(i), OptimizationFlags(i), at)
    ELSE W50!Calls(i, at)

Instruction(i, at) ==
    CASE i.op \in ValueOps -> Values(i, at)
      [] i.op \in MemoryOps -> Memory(i, at)
      [] i.op \in CallOps -> Calls(i, at)
      [] OTHER -> Terminator(i, at)

DebugLocation(loc, last) == W50!DebugLocation(loc, last)

Abbreviations ==
    [W50!Abbreviations EXCEPT !.BINOP_FLAGS.fields[4] = W50!Fixed(8)]

Literal(c, global) == W50!Literal(c, global)
Composite(c, global) == W50!Composite(c, global)
Constant(c, last, global) ==
    W50!InPool(W50!WrittenType(c), last,
               IF c.op \in Literals THEN Literal(c, global) ELSE Composite(c, global))
=============================================================================
