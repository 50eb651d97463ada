------------------------ MODULE DowngradeCliProofs ------------------------
(***************************************************************************)
(* Theorems about the command-line driver, for every command line, every   *)
(* set of files of any size, and every first buffer and limit.             *)
(*                                                                         *)
(* None of the three properties is inductive: that a file changes only     *)
(* after the whole input was read depends on what readAll left behind many *)
(* steps earlier, and that status 0 promises a complete output on which of *)
(* input, result and message main holds at each location.                  *)
(***************************************************************************)
EXTENDS DowngradeCli, TLAPS

Contents == {"nothing", "ir", "part", "bitcode"}

TypeInv ==
    /\ argv \in Seq(STRING)
    /\ pos \in Nat /\ pos <= Len(argv) + 1
    /\ size \in Nat /\ capacity \in Nat
    /\ data \in BOOLEAN /\ result \in BOOLEAN /\ message \in BOOLEAN
    /\ fs \in [Paths -> [holds : Contents, size : Nat]]

\* Up to the call no file has changed, and none has after a failed one.
Untouched ==
    pc \in {"scan", "open", "read", "call", "report", "create"} =>
        fs = FilesAtStart

\* The buffer: never overrun, and behind readAll it holds all of the input.
BufferInv ==
    /\ size <= capacity
    /\ pc \in {"scan", "open"} => size = 0 /\ capacity = 0
    /\ pc = "read" => input \in Paths /\ size <= Files[input] /\ capacity > 0
    /\ pc \in {"call", "create", "write", "flush", "flushFailed"} =>
           input \in Paths /\ size = Files[input]

\* What main holds at each location: the input, the result, the message.
HeldInv ==
    /\ data => pc \in {"read", "call"}
    /\ result <=> pc \in {"create", "write", "flush", "flushFailed"}
    /\ message => pc = "report"

\* The file under the stream is there while main writes, and a run that came
\* past the scan ends with status 0 only if it holds the bitcode.
OutputInv ==
    /\ pc \in {"write", "flush", "flushFailed"} => OutPath \in Paths
    /\ pc = "exited" /\ exit = 0 /\ pos > Len(argv) =>
           fs[OutPath].holds = "bitcode"

IInv == TypeInv /\ Untouched /\ BufferInv /\ HeldInv /\ OutputInv

\* The files main starts with, one by one.
LEMMA StartFiles ==
    /\ FilesAtStart \in [Paths -> [holds : Contents, size : Nat]]
    /\ \A p \in Paths : FilesAtStart[p].size = Files[p]
<1>1. ASSUME NEW p \in Paths
      PROVE  /\ FilesAtStart[p] \in [holds : Contents, size : Nat]
             /\ FilesAtStart[p].size = Files[p]
    BY FilesAssumption DEF FilesAtStart, Absent, Contents, Paths
<1> QED  BY <1>1 DEF FilesAtStart

\* The start: nothing is read, nothing is held, no file is touched.
LEMMA InitInv == Init => IInv
<1> SUFFICES ASSUME Init PROVE IInv
    OBVIOUS
<1>1. TypeInv
  <2>1. argv \in Seq(STRING) /\ Len(argv) \in Nat
      BY ArgvAssumption DEF Init
  <2>2. fs \in [Paths -> [holds : Contents, size : Nat]]
      BY StartFiles DEF Init
  <2>3. pos \in Nat /\ pos <= Len(argv) + 1
      BY <2>1 DEF Init
  <2>4. /\ size \in Nat /\ capacity \in Nat
        /\ data \in BOOLEAN /\ result \in BOOLEAN /\ message \in BOOLEAN
      BY DEF Init
  <2> QED  BY <2>1, <2>2, <2>3, <2>4 DEF TypeInv
<1>2. Untouched /\ BufferInv /\ HeldInv /\ OutputInv
    BY DEF Init, Untouched, BufferInv, HeldInv, OutputInv
<1> QED  BY <1>1, <1>2 DEF IInv

\* A turn of the loop reads up to the end of the buffer or of the file,
\* whichever comes first, or up to an error before that.
LEMMA ReadTotal ==
    ASSUME IInv, ReadChunk
    PROVE  /\ input \in Paths /\ size' \in Nat
           /\ size' <= capacity /\ size' <= Files[input]
           /\ size' < capacity => size' = Files[input] \/ pc' = "exited"
<1>1. /\ input \in Paths /\ size \in Nat /\ capacity \in Nat
      /\ size <= capacity /\ size <= Files[input]
      /\ fs = FilesAtStart
    BY DEF IInv, TypeInv, Untouched, BufferInv, ReadChunk
<1>2. Files[input] \in Nat /\ fs[input].size = Files[input]
    BY <1>1, StartFiles, FilesAssumption DEF Paths
<1> DEFINE total == size + Least(capacity - size, Files[input] - size)
<1>3. size' = total \/ (size' \in size .. total /\ pc' = "exited")
    BY <1>2 DEF ReadChunk, Exit
<1>4. /\ total \in Nat /\ total <= capacity /\ total <= Files[input]
      /\ total < capacity => total = Files[input]
    BY <1>1, <1>2 DEF Least
<1>5. size' = total \/ (size' \in Nat /\ size' <= total /\ pc' = "exited")
    BY <1>1, <1>3, <1>4
<1>6. capacity \in Nat /\ Files[input] \in Nat /\ input \in Paths
    BY <1>1, <1>2
<1> HIDE DEF total
<1> QED  BY <1>4, <1>5, <1>6

\* Types: the scan never runs past the last argument.
LEMMA TypePreserved == ASSUME IInv, [Next]_vars PROVE TypeInv'
<1> USE DEF IInv, scan, buf, api, TypeInv, Untouched, BufferInv, OutputInv, Contents
<1>1. CASE Inform
    BY <1>1 DEF Inform, Exit, Arg
<1>2. CASE SetVersion
    BY <1>2 DEF SetVersion, HasValue, Arg
<1>3. CASE SetOutput
    BY <1>3 DEF SetOutput, HasValue, Arg
<1>4. CASE SetInput
    BY <1>4 DEF SetInput, Arg
<1>5. CASE BadUsage
    BY <1>5 DEF BadUsage, Exit
<1>6. CASE CheckVersion
    BY <1>6 DEF CheckVersion, Exit
<1>7. CASE Open
    BY <1>7, CapacityAssumption DEF Open, Exit
<1>8. CASE ReadChunk
  <2>1. size' \in Nat
      BY <1>8, ReadTotal DEF ReadChunk
  <2>2. capacity' \in Nat
    <3>1. capacity' = capacity \/ capacity' = 2 * capacity
        BY <1>8 DEF ReadChunk
    <3> QED  BY <3>1
  <2>3. data' \in BOOLEAN
    <3>1. data' = data \/ data' = FALSE
        BY <1>8 DEF ReadChunk
    <3> QED  BY <3>1
  <2>4. UNCHANGED <<argv, pos, result, message, fs>>
      BY <1>8 DEF ReadChunk
  <2> QED  BY <2>1, <2>2, <2>3, <2>4
<1>9. CASE CallApi
    BY <1>9 DEF CallApi
<1>10. CASE Report
    BY <1>10 DEF Report, Exit
<1>11. CASE Create
  <2>1. fs' \in [Paths -> [holds : Contents, size : Nat]]
      BY <1>11 DEF Create
  <2>2. result' \in BOOLEAN
      BY <1>11 DEF Create
  <2> QED  BY <1>11, <2>1, <2>2 DEF Create
<1>12. CASE WriteResult
    BY <1>12 DEF WriteResult
<1>13. CASE Finish
    BY <1>13 DEF Finish, Exit
<1>14. CASE UNCHANGED vars
    BY <1>14 DEF vars
<1> QED
    BY <1>1, <1>2, <1>3, <1>4, <1>5, <1>6, <1>7,
       <1>8, <1>9, <1>10, <1>11, <1>12, <1>13, <1>14 DEF Next

\* Only Create, WriteResult and Finish change a file, and they leave the
\* locations before the result.
LEMMA UntouchedPreserved == ASSUME IInv, [Next]_vars PROVE Untouched'
<1> USE DEF IInv, scan, buf, api, Untouched
<1>1. CASE Inform
    BY <1>1 DEF Inform, Exit, Arg
<1>2. CASE SetVersion
    BY <1>2 DEF SetVersion, HasValue, Arg
<1>3. CASE SetOutput
    BY <1>3 DEF SetOutput, HasValue, Arg
<1>4. CASE SetInput
    BY <1>4 DEF SetInput, Arg
<1>5. CASE BadUsage
    BY <1>5 DEF BadUsage, Exit
<1>6. CASE CheckVersion
    BY <1>6 DEF CheckVersion, Exit
<1>7. CASE Open
    BY <1>7 DEF Open, Exit
<1>8. CASE ReadChunk
    BY <1>8 DEF ReadChunk, Exit, Least
<1>9. CASE CallApi
    BY <1>9 DEF CallApi
<1>10. CASE Report
    BY <1>10 DEF Report, Exit
<1>11. CASE Create
    BY <1>11 DEF Create, Exit
<1>12. CASE WriteResult
    BY <1>12 DEF WriteResult
<1>13. CASE Finish
    BY <1>13 DEF Finish, Exit
<1>14. CASE UNCHANGED vars
    BY <1>14 DEF vars
<1> QED
    BY <1>1, <1>2, <1>3, <1>4, <1>5, <1>6, <1>7,
       <1>8, <1>9, <1>10, <1>11, <1>12, <1>13, <1>14 DEF Next

\* The loop of readAll is left by a short read only, so that the file has
\* ended; until then the buffer doubles.
LEMMA BufferPreserved == ASSUME IInv, [Next]_vars PROVE BufferInv'
<1> USE DEF IInv, scan, buf, api, TypeInv, Untouched, BufferInv, Paths
<1>1. CASE Inform
    BY <1>1 DEF Inform, Exit, Arg
<1>2. CASE SetVersion
    BY <1>2 DEF SetVersion, HasValue, Arg
<1>3. CASE SetOutput
    BY <1>3 DEF SetOutput, HasValue, Arg
<1>4. CASE SetInput
    BY <1>4 DEF SetInput, Arg
<1>5. CASE BadUsage
    BY <1>5 DEF BadUsage, Exit
<1>6. CASE CheckVersion
    BY <1>6 DEF CheckVersion, Exit
<1>7. CASE Open
    BY <1>7, CapacityAssumption, FilesAssumption, StartFiles DEF Open, Exit
<1>8. CASE ReadChunk
  <2>1. /\ input \in Paths /\ size' \in Nat
        /\ size' <= capacity /\ size' <= Files[input]
        /\ size' < capacity => size' = Files[input] \/ pc' = "exited"
      BY <1>8, ReadTotal DEF ReadChunk
  <2>2. input' = input /\ capacity \in Nat /\ capacity > 0
      BY <1>8 DEF ReadChunk
  <2>3. CASE size' < capacity /\ pc' = "call" /\ capacity' = capacity
      BY <2>1, <2>2, <2>3
  <2>4. CASE pc' = "read" /\ capacity' = 2 * capacity
      BY <2>1, <2>2, <2>4
  <2>5. CASE pc' = "exited" /\ capacity' = capacity
      BY <2>1, <2>2, <2>5
  <2> QED  BY <1>8, <2>3, <2>4, <2>5 DEF ReadChunk, Exit
<1>9. CASE CallApi
    BY <1>9, CapacityAssumption, FilesAssumption, StartFiles DEF CallApi
<1>10. CASE Report
    BY <1>10 DEF Report, Exit
<1>11. CASE Create
    BY <1>11 DEF Create, Exit
<1>12. CASE WriteResult
    BY <1>12 DEF WriteResult
<1>13. CASE Finish
    BY <1>13 DEF Finish, Exit
<1>14. CASE UNCHANGED vars
    BY <1>14 DEF vars
<1> QED
    BY <1>1, <1>2, <1>3, <1>4, <1>5, <1>6, <1>7,
       <1>8, <1>9, <1>10, <1>11, <1>12, <1>13, <1>14 DEF Next

\* Every way to the end frees what main holds.
LEMMA HeldPreserved == ASSUME IInv, [Next]_vars PROVE HeldInv'
<1> USE DEF IInv, scan, buf, api, TypeInv, HeldInv
<1>1. CASE Inform
    BY <1>1 DEF Inform, Exit, Arg
<1>2. CASE SetVersion
    BY <1>2 DEF SetVersion, HasValue, Arg
<1>3. CASE SetOutput
    BY <1>3 DEF SetOutput, HasValue, Arg
<1>4. CASE SetInput
    BY <1>4 DEF SetInput, Arg
<1>5. CASE BadUsage
    BY <1>5 DEF BadUsage, Exit
<1>6. CASE CheckVersion
    BY <1>6 DEF CheckVersion, Exit
<1>7. CASE Open
    BY <1>7 DEF Open, Exit
<1>8. CASE ReadChunk
    BY <1>8 DEF ReadChunk, Exit, Least
<1>9. CASE CallApi
    BY <1>9 DEF CallApi
<1>10. CASE Report
    BY <1>10 DEF Report, Exit
<1>11. CASE Create
    BY <1>11 DEF Create, Exit
<1>12. CASE WriteResult
    BY <1>12 DEF WriteResult
<1>13. CASE Finish
    BY <1>13 DEF Finish, Exit
<1>14. CASE UNCHANGED vars
    BY <1>14 DEF vars
<1> QED
    BY <1>1, <1>2, <1>3, <1>4, <1>5, <1>6, <1>7,
       <1>8, <1>9, <1>10, <1>11, <1>12, <1>13, <1>14 DEF Next

\* Status 0 behind the scan comes from Finish alone.
LEMMA OutputPreserved == ASSUME IInv, [Next]_vars PROVE OutputInv'
<1> USE DEF IInv, scan, buf, api, TypeInv, OutputInv, OutPath, Paths
<1>1. CASE Inform
    BY <1>1 DEF Inform, Exit, Arg
<1>2. CASE SetVersion
    BY <1>2 DEF SetVersion, HasValue, Arg
<1>3. CASE SetOutput
    BY <1>3 DEF SetOutput, HasValue, Arg
<1>4. CASE SetInput
    BY <1>4 DEF SetInput, Arg
<1>5. CASE BadUsage
    BY <1>5 DEF BadUsage, Exit
<1>6. CASE CheckVersion
    BY <1>6 DEF CheckVersion, Exit
<1>7. CASE Open
    BY <1>7 DEF Open, Exit
<1>8. CASE ReadChunk
    BY <1>8 DEF ReadChunk, Exit, Least
<1>9. CASE CallApi
    BY <1>9 DEF CallApi
<1>10. CASE Report
    BY <1>10 DEF Report, Exit
<1>11. CASE Create
    BY <1>11, FilesAssumption DEF Create, Exit
<1>12. CASE WriteResult
    BY <1>12 DEF WriteResult
<1>13. CASE Finish
    BY <1>13 DEF Finish, Exit
<1>14. CASE UNCHANGED vars
    BY <1>14 DEF vars
<1> QED
    BY <1>1, <1>2, <1>3, <1>4, <1>5, <1>6, <1>7,
       <1>8, <1>9, <1>10, <1>11, <1>12, <1>13, <1>14 DEF Next

\* The invariant holds throughout.
THEOREM Invariance == Spec => []IInv
<1>1. IInv /\ [Next]_vars => IInv'
    BY TypePreserved, UntouchedPreserved, BufferPreserved, HeldPreserved,
       OutputPreserved DEF IInv
<1> QED  BY InitInv, <1>1, PTL DEF Spec

\* readAll stays inside its buffer, and what reaches the API is the whole
\* file, also one that fills a buffer exactly, for every size.
THEOREM WholeInputRead == Spec => []ReadsWholeInput
<1>1. IInv => ReadsWholeInput
  <2> SUFFICES ASSUME IInv, pc = "call" PROVE size = fs[input].size
      BY DEF IInv, BufferInv, ReadsWholeInput
  <2>1. input \in Paths /\ size = Files[input] /\ fs = FilesAtStart
      BY DEF IInv, BufferInv, Untouched
  <2>2. FilesAtStart[input].size = Files[input]
      BY <2>1, FilesAssumption DEF FilesAtStart, Absent, Paths
  <2> QED  BY <2>1, <2>2
<1> QED  BY Invariance, <1>1, PTL

\* However main ends, everything is freed, and status 0 behind the scan
\* means that the output is complete.
THEOREM ExitsClean == Spec => []ExitContract
<1>1. IInv => ExitContract
    BY DEF IInv, TypeInv, HeldInv, OutputInv, ExitContract
<1> QED  BY Invariance, <1>1, PTL

\* No file changes before a call on the whole input has succeeded: the file
\* named by -o survives every earlier failure, and may be the input.
THEOREM FilesKept == Spec => FilesKeptUntilResult
<1>1. ASSUME IInv, [Next]_vars, fs' # fs PROVE result /\ size = Files[input]
  <2>1. Create \/ WriteResult \/ Finish
      BY <1>1 DEF Next, vars, Inform, SetVersion, SetOutput, SetInput,
         BadUsage, CheckVersion, Open, ReadChunk, CallApi, Report
  <2>2. pc \in {"create", "write", "flush", "flushFailed"}
      BY <2>1 DEF Create, WriteResult, Finish
  <2> QED  BY <1>1, <2>2 DEF IInv, HeldInv, BufferInv, TypeInv
<1>2. IInv /\ [Next]_vars => [fs' # fs => result /\ size = Files[input]]_vars
    BY <1>1
<1> QED  BY Invariance, <1>2, PTL DEF Spec, FilesKeptUntilResult
=============================================================================
