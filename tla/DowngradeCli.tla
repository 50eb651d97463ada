--------------------------- MODULE DowngradeCli ---------------------------
(***************************************************************************)
(* The command-line driver tools/llvm-downgrade.c: the scan of argv, the   *)
(* doubling buffer of readAll, the call of the C API and the writing of    *)
(* the output file, with every early return and every failure of the C     *)
(* library.                                                                *)
(*                                                                         *)
(* A file holds a document and its size in units of the first buffer; the  *)
(* size and the doubling are what readAll's correctness is about.          *)
(***************************************************************************)
EXTENDS Naturals, Sequences

CONSTANTS
    Argvs,        \* the argument vectors, as sequences of strings
    VersionFlag,  \* the version in a --bitcode-version=<v> argument
    OutputFlag,   \* the path in a -o=<path> argument
    Supported,    \* the names LLVMDGGetTargets returns
    Files,        \* path -> the size of the file at that path, at the start
    FirstCapacity,\* the buffer readAll starts with
    MaxCapacity   \* what SIZE_MAX stands for

ASSUME CapacityAssumption ==
    FirstCapacity \in Nat \ {0} /\ MaxCapacity \in Nat
    /\ FirstCapacity <= MaxCapacity

\* Arguments are strings, and main writes to stdout if no -o names a file.
ASSUME ArgvAssumption == \A a \in Argvs : a \in Seq(STRING)
ASSUME FilesAssumption ==
    "stdout" \in DOMAIN Files /\ \A p \in DOMAIN Files : Files[p] \in Nat

VARIABLES
    argv, pos,                   \* the arguments and the index of the scan
    version, input, output, haveInput,
    pc, exit,                    \* where main is, and its exit status
    size, capacity, data,        \* readAll: bytes read, buffer, malloc'ed
    result, message,             \* what the API returned, if not disposed of
    fs                           \* path -> [holds, size]; stdin is "-" and
                                 \* stdout is "stdout"

scan == <<version, input, output, haveInput>>
buf == <<size, capacity, data>>
api == <<result, message>>
vars == <<argv, pos, scan, pc, exit, buf, api, fs>>

NoVersion == "none"
Paths == DOMAIN Files
OutPath == IF output = "-" THEN "stdout" ELSE output
Absent == [holds |-> "nothing", size |-> 0]
FilesAtStart == [p \in Paths |-> IF Files[p] = 0 THEN Absent
                                 ELSE [holds |-> "ir", size |-> Files[p]]]
IsOption(a) == a \in DOMAIN VersionFlag \cup DOMAIN OutputFlag
               \cup {"--bitcode-version", "-o", "--help", "-h", "--version"}
\* A lone "-" is a path; any other word with a dash in front is an option.
Bogus == {"--bogus"}

Init ==
    /\ argv \in Argvs /\ pos = 1
    /\ version = NoVersion /\ input = "-" /\ output = "-" /\ haveInput = FALSE
    /\ pc = "scan" /\ exit = 0
    /\ size = 0 /\ capacity = 0 /\ data = FALSE
    /\ result = FALSE /\ message = FALSE
    /\ fs = FilesAtStart

Exit(status) == pc' = "exited" /\ exit' = status

Arg == argv[pos]
HasValue == pos < Len(argv)

\* --help, -h and --version end the program at once, wherever they stand.
Inform ==
    /\ pc = "scan" /\ pos <= Len(argv)
    /\ Arg \in {"--help", "-h", "--version"}
    /\ Exit(0)
    /\ UNCHANGED <<argv, pos, scan, buf, api, fs>>

\* The two spellings of each option: the last one given wins, and the
\* two-word spelling takes the next argument whatever it looks like.
SetVersion ==
    /\ pc = "scan" /\ pos <= Len(argv)
    /\ \/ /\ Arg \in DOMAIN VersionFlag
          /\ version' = VersionFlag[Arg] /\ pos' = pos + 1
       \/ /\ Arg = "--bitcode-version" /\ HasValue
          /\ version' = argv[pos + 1] /\ pos' = pos + 2
    /\ UNCHANGED <<argv, input, output, haveInput, pc, exit, buf, api, fs>>

SetOutput ==
    /\ pc = "scan" /\ pos <= Len(argv)
    /\ \/ /\ Arg \in DOMAIN OutputFlag
          /\ output' = OutputFlag[Arg] /\ pos' = pos + 1
       \/ /\ Arg = "-o" /\ HasValue
          /\ output' = argv[pos + 1] /\ pos' = pos + 2
    /\ UNCHANGED <<argv, version, input, haveInput, pc, exit, buf, api, fs>>

SetInput ==
    /\ pc = "scan" /\ pos <= Len(argv)
    /\ ~IsOption(Arg) /\ Arg \notin Bogus /\ ~haveInput
    /\ input' = Arg /\ haveInput' = TRUE /\ pos' = pos + 1
    /\ UNCHANGED <<argv, version, output, pc, exit, buf, api, fs>>

\* An unknown option (a two-word option without its value is one), or a
\* second input.
BadUsage ==
    /\ pc = "scan" /\ pos <= Len(argv)
    /\ \/ Arg \in Bogus
       \/ Arg \in {"--bitcode-version", "-o"} /\ ~HasValue
       \/ ~IsOption(Arg) /\ Arg \notin Bogus /\ haveInput
    /\ Exit(1)
    /\ UNCHANGED <<argv, pos, scan, buf, api, fs>>

\* After the scan: a version is required and must be a target's name.
CheckVersion ==
    /\ pc = "scan" /\ pos > Len(argv)
    /\ IF version \in Supported
       THEN pc' = "open" /\ UNCHANGED exit
       ELSE Exit(1)
    /\ UNCHANGED <<argv, pos, scan, buf, api, fs>>

\* Mutant: the output is opened (and truncated) up front.
OpenBoth ==
    /\ pc = "open"
    /\ \/ /\ input \in Paths /\ fs[input] # Absent
          /\ pc' = "read" /\ data' = TRUE /\ capacity' = FirstCapacity
          /\ UNCHANGED <<exit, size>>
          /\ fs' = IF output \in Paths \ {"-", input}
                   THEN [fs EXCEPT ![OutPath] = [holds |-> "nothing", size |-> 1]]
                   ELSE fs
       \/ Exit(1) /\ UNCHANGED <<buf, fs>>
    /\ UNCHANGED <<argv, pos, scan, api>>

\* fopen(Input, "rb"), and the first malloc of readAll.
Open ==
    /\ pc = "open"
    /\ \/ /\ input \in Paths /\ fs[input] # Absent
          /\ pc' = "read" /\ data' = TRUE /\ capacity' = FirstCapacity
          /\ UNCHANGED <<exit, size>>
       \/ Exit(1) /\ UNCHANGED buf  \* no such file, or malloc failed
    /\ UNCHANGED <<argv, pos, scan, api, fs>>

\* One turn of readAll's loop: fread fills what is left of the buffer unless
\* the file ends first; only a short read leaves the loop.  The overflow
\* guard, realloc and ferror are the three ways it can fail, the last of them
\* after any part of what is left.
Least(a, b) == IF a < b THEN a ELSE b
\* Mutants: the loop is left when the buffer is just full; it waits for a
\* read of nothing but no longer grows the buffer.
ReadChunkExact ==
    /\ pc = "read"
    /\ LET total == size + Least(capacity - size, fs[input].size - size)
       IN /\ size' = total
          /\ \/ /\ total <= capacity
                /\ pc' = "call" /\ UNCHANGED <<exit, capacity, data>>
             \/ /\ data' = FALSE /\ Exit(1) /\ UNCHANGED capacity
    /\ UNCHANGED <<argv, pos, scan, api, fs>>
ReadChunkStuck ==
    /\ pc = "read"
    /\ LET total == size + Least(capacity - size, fs[input].size - size)
       IN /\ size' = total
          /\ IF total < capacity
             THEN pc' = "call" /\ UNCHANGED <<exit, capacity, data>>
             ELSE UNCHANGED <<pc, exit, capacity, data>>
    /\ UNCHANGED <<argv, pos, scan, api, fs>>

ReadChunk ==
    /\ pc = "read"
    /\ LET total == size + Least(capacity - size, fs[input].size - size)
       IN \/ /\ size' = total /\ total < capacity
             /\ pc' = "call" /\ UNCHANGED <<exit, capacity, data>>
          \/ /\ size' = total /\ total >= capacity /\ capacity <= MaxCapacity \div 2
             /\ capacity' = 2 * capacity
             /\ UNCHANGED <<pc, exit, data>>
          \/ /\ size' \in size .. total
             /\ data' = FALSE /\ Exit(1) /\ UNCHANGED capacity
    /\ UNCHANGED <<argv, pos, scan, api, fs>>

\* LLVMDGDowngrade, then free(Data); a message may be null.
CallApi ==
    /\ pc = "call"
    /\ data' = FALSE
    /\ \/ result' = TRUE /\ pc' = "create" /\ UNCHANGED message
       \/ message' \in BOOLEAN /\ pc' = "report" /\ UNCHANGED result
    /\ UNCHANGED <<argv, pos, scan, exit, size, capacity, fs>>

\* The error is printed, and the message is disposed of.
Report ==
    /\ pc = "report"
    /\ message' = FALSE
    /\ Exit(1)
    /\ UNCHANGED <<argv, pos, scan, buf, result, fs>>

\* fopen(Output, "wb") truncates; stdout is not opened.
Create ==
    /\ pc = "create"
    /\ \/ /\ output \in Paths \ {"-"}
          /\ fs' = [fs EXCEPT ![OutPath] = [holds |-> "nothing", size |-> 1]]
          /\ pc' = "write" /\ UNCHANGED <<exit, result>>
       \/ /\ output = "-"
          /\ pc' = "write" /\ UNCHANGED <<exit, result, fs>>
       \/ /\ output # "-"
          /\ result' = FALSE /\ Exit(1) /\ UNCHANGED fs
    /\ UNCHANGED <<argv, pos, scan, buf, message>>

\* fwrite into the stdio buffer and the device: short (Failed is set), or
\* complete as far as fwrite can tell.
WriteResult ==
    /\ pc = "write"
    /\ \/ pc' = "flush"
       \/ pc' = "flushFailed"
    /\ fs' \in {[fs EXCEPT ![OutPath] = [holds |-> h, size |-> 1]] :
                  h \in IF pc' = "flush" THEN {"part", "bitcode"} ELSE {"part"}}
    /\ UNCHANGED <<argv, pos, scan, exit, buf, api>>

\* Mutant: the result of fclose is not looked at.
FinishUnchecked ==
    /\ pc \in {"flush", "flushFailed"}
    /\ \/ /\ pc = "flush"
          /\ fs' \in {fs, [fs EXCEPT ![OutPath].holds = "bitcode"]}
          /\ Exit(0)
       \/ pc = "flushFailed" /\ Exit(1) /\ UNCHANGED fs
    /\ result' = FALSE
    /\ UNCHANGED <<argv, pos, scan, buf, message>>

\* fflush of stdout or fclose of the file: what fwrite left in the buffer
\* reaches the device now or the call says so; then the buffer is disposed of.
Finish ==
    /\ pc \in {"flush", "flushFailed"}
    /\ \/ /\ pc = "flush"
          /\ fs' = [fs EXCEPT ![OutPath].holds = "bitcode"]
          /\ Exit(0)
       \/ /\ Exit(1)
          /\ UNCHANGED fs
    /\ result' = FALSE
    /\ UNCHANGED <<argv, pos, scan, buf, message>>

Next ==
    \/ Inform \/ SetVersion \/ SetOutput \/ SetInput \/ BadUsage
    \/ CheckVersion \/ Open \/ ReadChunk \/ CallApi \/ Report \/ Create
    \/ WriteResult \/ Finish

Spec == Init /\ [][Next]_vars /\ WF_vars(Next)

-----------------------------------------------------------------------------
\* readAll never reads past its buffer, and what it hands to the API is the
\* whole file, also when the file fills a buffer exactly.
ReadsWholeInput ==
    /\ size <= capacity
    /\ pc = "call" => size = fs[input].size

\* A file changes only while main holds the result of a successful call, so
\* every failure before that leaves the file named by -o as it was
\* (test/cli.sh: "test ! -e bad.bc"), and the input may be the output.
FilesKeptUntilResult == [][fs' # fs => result /\ size = Files[input]]_vars

\* Whatever way main returns, it has read no argument behind the last one, and
\* the input, the result and the message are freed;
\* and exit status 0 of a run that was not --help or --version means the output
\* is complete on the device, even if the input was the same file.
ExitContract ==
    pc = "exited" =>
        /\ pos <= Len(argv) + 1 /\ ~data /\ ~result /\ ~message
        /\ exit = 0 /\ pos > Len(argv) => fs[OutPath].holds = "bitcode"

\* The program ends: the reading loop and the scan of argv terminate.
Terminates == <>(pc = "exited")
=============================================================================
