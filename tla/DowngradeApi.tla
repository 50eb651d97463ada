--------------------------- MODULE DowngradeApi ---------------------------
(***************************************************************************)
(* The C API of lib/llvm-downgrade.cpp as the code runs it: LLVMDGDowngrade *)
(* called from several threads, serialized by APILock, with the parser and *)
(* the writers under the lock, the exceptions that unwind out of it and    *)
(* the fatal errors that end the process.                                  *)
(*                                                                         *)
(* One action is the code between two points where another thread can be   *)
(* seen: up to the lock, the parse, the write, the hand-over of the        *)
(* buffer, and fail().                                                     *)
(***************************************************************************)
EXTENDS DowngradeTypes

VARIABLES
    pc,        \* per caller: where its call is
    request, status, outBitcode, outMessage, kept, buffer, message,
    lock,      \* the holder of APILock
    module,    \* per caller: the Module its LLVMContext holds
    error,     \* per caller: the text given to fail()
    alive      \* the process has not been ended by a fatal error

heap == <<buffer, message>>
outputs == <<outBitcode, outMessage>>
vars == <<pc, request, status, outBitcode, outMessage, kept, buffer, message,
          lock, module, error, alive>>

Locations == {"idle", "locking", "parsing", "writing", "handing", "failing",
              "returned"}
Critical == {"parsing", "writing", "handing"}

Init ==
    /\ pc = [c \in Callers |-> "idle"]
    /\ request = [c \in Callers |-> CHOOSE r \in Requests : TRUE]
    /\ status = [c \in Callers |-> 0]
    /\ outBitcode = [c \in Callers |-> Garbage]
    /\ outMessage = [c \in Callers |-> Garbage]
    /\ kept = [c \in Callers |-> {}]
    /\ buffer = [h \in Handles |-> Free]
    /\ message = [h \in Handles |-> Free]
    /\ lock = NoCaller
    /\ module = [c \in Callers |-> NoDoc]
    /\ error = [c \in Callers |-> "arguments"]
    /\ alive = TRUE

\* Mutant: the outputs are cleared only once the arguments have been checked.
CallClearsLate(c) ==
    /\ alive /\ pc[c] = "idle"
    /\ \E r \in Requests :
         /\ request' = [request EXCEPT ![c] = r]
         /\ outMessage' = [outMessage EXCEPT
              ![c] = IF r.outMessage THEN Null ELSE @]
         /\ outBitcode' = [outBitcode EXCEPT
              ![c] = IF r.outBitcode /\ Accepted(r) THEN Null ELSE @]
         /\ pc' = [pc EXCEPT
              ![c] = IF Accepted(r) THEN "locking" ELSE "failing"]
         /\ error' = [error EXCEPT
              ![c] = IF ~ArgumentsOK(r) THEN "arguments" ELSE "version"]
    /\ UNCHANGED <<status, kept, heap, lock, module, alive>>

\* Entry up to the lock: clear the outputs that were given, then check the
\* pointers, then look the version up.
Call(c) ==
    /\ alive /\ pc[c] = "idle"
    /\ \E r \in Requests :
         /\ request' = [request EXCEPT ![c] = r]
         /\ outMessage' = [outMessage EXCEPT
              ![c] = IF r.outMessage THEN Null ELSE @]
         /\ outBitcode' = [outBitcode EXCEPT
              ![c] = IF r.outBitcode THEN Null ELSE @]
         /\ pc' = [pc EXCEPT
              ![c] = IF Accepted(r) THEN "locking" ELSE "failing"]
         /\ error' = [error EXCEPT
              ![c] = IF ~ArgumentsOK(r) THEN "arguments"
                     ELSE IF ~VersionOK(r) THEN "version" ELSE @]
    /\ UNCHANGED <<status, kept, heap, lock, module, alive>>

\* Mutant: a lock of the call's own (a local mutex), which excludes nobody.
AcquireLocal(c) ==
    /\ alive /\ pc[c] = "locking"
    /\ lock' = c
    /\ pc' = [pc EXCEPT ![c] = "parsing"]
    /\ UNCHANGED <<request, status, outputs, kept, heap, module, error, alive>>

\* std::lock_guard<std::mutex> Guard(APILock)
Acquire(c) ==
    /\ alive /\ pc[c] = "locking" /\ lock = NoCaller
    /\ lock' = c
    /\ pc' = [pc EXCEPT ![c] = "parsing"]
    /\ UNCHANGED <<request, status, outputs, kept, heap, module, error, alive>>

\* parseIR on a copy of the input, into a context of this call.
Parse(c) ==
    /\ alive /\ pc[c] = "parsing"
    /\ Parses(request[c])
    /\ module' = [module EXCEPT ![c] = request[c].doc]
    /\ pc' = [pc EXCEPT ![c] = "writing"]
    /\ UNCHANGED <<request, status, outputs, kept, heap, lock, error, alive>>

\* Mutant: a writer that drops what the target cannot express.
WriteSilently(c) ==
    /\ alive /\ pc[c] = "writing"
    /\ pc' = [pc EXCEPT ![c] = "handing"]
    /\ UNCHANGED <<request, status, outputs, kept, heap, lock, module, error,
                   alive>>

\* T->Write: prepareModule and WriteBitcodeNNToFile, which change the Module
\* and fill the local Output.
Write(c) ==
    /\ alive /\ pc[c] = "writing"
    /\ <<module[c], request[c].version>> \notin Unsupported
    /\ pc' = [pc EXCEPT ![c] = "handing"]
    /\ UNCHANGED <<request, status, outputs, kept, heap, lock, module, error,
                   alive>>

\* Mutants: the output is read after its context is gone; the buffer is one
\* static object that every call fills again.
HandOverLate(c) ==
    /\ alive /\ pc[c] = "handing"
    /\ module' = [module EXCEPT ![c] = NoDoc]
    /\ \E h \in Handles :
         /\ buffer[h] = Free
         /\ buffer' = [buffer EXCEPT ![h] = <<module'[c], request[c].version>>]
         /\ outBitcode' = [outBitcode EXCEPT ![c] = h]
    /\ status' = [status EXCEPT ![c] = 0]
    /\ lock' = NoCaller
    /\ pc' = [pc EXCEPT ![c] = "returned"]
    /\ UNCHANGED <<request, outMessage, kept, message, error, alive>>
HandOverStatic(c) ==
    /\ alive /\ pc[c] = "handing"
    /\ \E h \in Handles :
         /\ \A g \in Handles \ {h} : buffer[g] = Free
         /\ buffer' = [buffer EXCEPT ![h] = <<module[c], request[c].version>>]
         /\ outBitcode' = [outBitcode EXCEPT ![c] = h]
    /\ status' = [status EXCEPT ![c] = 0]
    /\ module' = [module EXCEPT ![c] = NoDoc]
    /\ lock' = NoCaller
    /\ pc' = [pc EXCEPT ![c] = "returned"]
    /\ UNCHANGED <<request, outMessage, kept, message, error, alive>>

\* make_unique, assign, release and return 0; the guard and the context are
\* destroyed on the way out.
HandOver(c) ==
    /\ alive /\ pc[c] = "handing"
    /\ \E h \in Handles :
         /\ buffer[h] = Free
         /\ buffer' = [buffer EXCEPT ![h] = <<module[c], request[c].version>>]
         /\ outBitcode' = [outBitcode EXCEPT ![c] = h]
    /\ status' = [status EXCEPT ![c] = 0]
    /\ module' = [module EXCEPT ![c] = NoDoc]
    /\ lock' = NoCaller
    /\ pc' = [pc EXCEPT ![c] = "returned"]
    /\ UNCHANGED <<request, outMessage, kept, message, error, alive>>

\* What fail() does: a message if the caller wants one and malloc has the
\* memory, and the value 1.
FailWith(c, text) ==
    /\ \/ /\ request[c].outMessage
          /\ \E h \in Handles :
               /\ message[h] = Free
               /\ message' = [message EXCEPT ![h] = text]
               /\ outMessage' = [outMessage EXCEPT ![c] = h]
       \/ UNCHANGED <<message, outMessage>>
    /\ status' = [status EXCEPT ![c] = 1]
    /\ pc' = [pc EXCEPT ![c] = "returned"]

\* Mutant: the early return of a parse error forgets an explicit unlock.
ParseErrorLocked(c) ==
    /\ alive /\ pc[c] = "parsing"
    /\ ~Parses(request[c])
    /\ FailWith(c, "parse")
    /\ UNCHANGED <<request, outBitcode, kept, buffer, lock, module, error, alive>>

\* A parse error: return fail(Message) inside the try, so the message is
\* made with the lock held.
ParseError(c) ==
    /\ alive /\ pc[c] = "parsing"
    /\ ~Parses(request[c])
    /\ FailWith(c, "parse")
    /\ lock' = NoCaller
    /\ UNCHANGED <<request, outBitcode, kept, buffer, module, error, alive>>

\* An exception leaves the try block: the guard and the context are unwound
\* first, the handler calls fail() after that.
Unwind(c, text) ==
    /\ error' = [error EXCEPT ![c] = text]
    /\ lock' = NoCaller
    /\ module' = [module EXCEPT ![c] = NoDoc]
    /\ pc' = [pc EXCEPT ![c] = "failing"]
    /\ UNCHANGED <<request, status, outputs, kept, heap, alive>>

\* llvmdg::reportError in prepareModule or in the writer.
Reject(c) ==
    /\ alive /\ pc[c] = "writing"
    /\ <<module[c], request[c].version>> \in Unsupported
    /\ Unwind(c, "unsupported")

\* Mutant: a plain new for the buffer, lost when filling it throws.
ThrowLeaks(c) ==
    /\ alive /\ pc[c] \in Critical
    /\ \E text \in {"exception", "unknown"} :
         error' = [error EXCEPT ![c] = text]
    /\ \/ pc[c] # "handing" /\ UNCHANGED buffer
       \/ \E h \in Handles :
            /\ pc[c] = "handing" /\ buffer[h] = Free
            /\ buffer' = [buffer EXCEPT ![h] = Converted(request[c])]
    /\ lock' = NoCaller
    /\ module' = [module EXCEPT ![c] = NoDoc]
    /\ pc' = [pc EXCEPT ![c] = "failing"]
    /\ UNCHANGED <<request, status, outputs, kept, message, alive>>

\* std::exception (bad_alloc) or anything else, thrown under the lock.
Throw(c) ==
    /\ alive /\ pc[c] \in Critical
    /\ \E text \in {"exception", "unknown"} : Unwind(c, text)

\* fail() outside the lock: the two argument checks and the three handlers.
Fail(c) ==
    /\ alive /\ pc[c] = "failing"
    /\ FailWith(c, error[c])
    /\ UNCHANGED <<request, outBitcode, kept, buffer, lock, module, error,
                   alive>>

\* An LLVM assertion or report_fatal_error: the process is gone.
Fatal(c) ==
    /\ alive /\ pc[c] \in {"parsing", "writing"}
    /\ alive' = FALSE
    /\ UNCHANGED <<pc, request, status, outputs, kept, heap, lock, module,
                   error>>

\* The caller reads its results, keeps or disposes of the buffer, and
\* disposes of the message; its variables are then stale.
Take(c) ==
    /\ alive /\ pc[c] = "returned"
    /\ LET b == outBitcode[c]
           m == outMessage[c]
       IN /\ \/ /\ kept' = [kept EXCEPT ![c] = @ \cup ({b} \cap Handles)]
                /\ UNCHANGED buffer
             \/ /\ buffer' = [h \in Handles |->
                                IF h = b THEN Free ELSE buffer[h]]
                /\ UNCHANGED kept
          /\ message' = [h \in Handles |-> IF h = m THEN Free ELSE message[h]]
    /\ outBitcode' = [outBitcode EXCEPT ![c] = Garbage]
    /\ outMessage' = [outMessage EXCEPT ![c] = Garbage]
    /\ pc' = [pc EXCEPT ![c] = "idle"]
    /\ UNCHANGED <<request, status, lock, module, error, alive>>

\* LLVMDGDisposeMemoryBuffer on a kept buffer: it takes no lock.
Dispose(c) ==
    /\ alive
    /\ \E h \in kept[c] :
         /\ kept' = [kept EXCEPT ![c] = @ \ {h}]
         /\ buffer' = [buffer EXCEPT ![h] = Free]
    /\ UNCHANGED <<pc, request, status, outputs, message, lock, module, error,
                   alive>>

\* The steps of one call, from its entry to its return.
Step(c) ==
    Acquire(c) \/ Parse(c) \/ Write(c) \/ HandOver(c) \/ ParseError(c)
    \/ Reject(c) \/ Throw(c) \/ Fail(c) \/ Fatal(c)

Next == \E c \in Callers : Call(c) \/ Step(c) \/ Take(c) \/ Dispose(c)

\* A thread inside a call keeps running.  Nothing more is assumed of the
\* mutex, which std::mutex does not promise to be fair.
Spec == Init /\ [][Next]_vars /\ \A c \in Callers : WF_vars(Step(c))

-----------------------------------------------------------------------------
TypeOK ==
    /\ pc \in [Callers -> Locations]
    /\ request \in [Callers -> Requests]
    /\ status \in [Callers -> {0, 1}]
    /\ outBitcode \in [Callers -> Handles \cup {Null, Garbage}]
    /\ outMessage \in [Callers -> Handles \cup {Null, Garbage}]
    /\ kept \in [Callers -> SUBSET Handles]
    /\ buffer \in [Handles -> Contents \cup {Free}]
    /\ message \in [Handles -> Texts \cup {Free}]
    /\ lock \in Callers \cup {NoCaller}
    /\ module \in [Callers -> Docs \cup {NoDoc}]
    /\ error \in [Callers -> Texts]
    /\ alive \in BOOLEAN

\* "Calls are serialized": while a thread is between the lock and the end of
\* the guard's scope, however it leaves that scope, no other thread has a
\* module loaded.
Serialized ==
    \A c, d \in Callers :
        (module[c] # NoDoc /\ module[d] # NoDoc) => c = d

\* A returned call holds what its own request explains: on success a live
\* buffer with the conversion of its own input, on failure no buffer and a
\* message (or null) whose text is true of the request.
ResultOK(c) ==
    LET r == request[c]
    IN IF status[c] = 0
       THEN /\ Servable(r)
            /\ outBitcode[c] \in Handles
            /\ buffer[outBitcode[c]] = Converted(r)
            /\ r.outMessage => outMessage[c] = Null
       ELSE /\ r.outBitcode => outBitcode[c] = Null
            /\ r.outMessage =>
                 \/ outMessage[c] = Null
                 \/ /\ outMessage[c] \in Handles
                    /\ message[outMessage[c]] \in Reasons(r)

ReturnContract == \A c \in Callers : pc[c] = "returned" => ResultOK(c)

\* The buffers a caller can reach.
Owned(c) == kept[c] \cup ({outBitcode[c]} \cap Handles)

\* "Returned buffers are independent and owned by the caller": two callers
\* never reach the same buffer, a caller never reaches one it disposed of,
\* and no buffer or message is leaked by a call that failed or was unwound.
Ownership ==
    /\ \A c, d \in Callers : c # d => Owned(c) \cap Owned(d) = {}
    /\ \A c \in Callers : outBitcode[c] \notin kept[c]
    /\ \A h \in Handles :
         /\ buffer[h] # Free <=> \E c \in Callers : h \in Owned(c)
         /\ message[h] # Free <=> \E c \in Callers : outMessage[c] = h

\* Why the two hold: the inductive invariant of the proofs.  The lock and the
\* program counters tell the same story, ...
LockInv ==
    \A c \in Callers :
        /\ pc[c] \in Critical <=> lock = c
        /\ module[c] # NoDoc => pc[c] \in {"writing", "handing"}

\* ... a call that got somewhere passed the checks on its way, ...
PathInv ==
    \A c \in Callers :
        /\ pc[c] \in {"locking", "parsing", "writing", "handing"}
             => Accepted(request[c])
        /\ pc[c] \in {"writing", "handing"}
             => Parses(request[c]) /\ module[c] = request[c].doc
        /\ pc[c] = "handing" => Writable(request[c])
        /\ pc[c] = "failing" => error[c] \in Reasons(request[c])

\* ... its outputs are as its entry left them until it returns, ...
OutputInv ==
    \A c \in Callers :
        /\ pc[c] \notin {"idle", "returned"} =>
             /\ request[c].outBitcode => outBitcode[c] = Null
             /\ request[c].outMessage => outMessage[c] = Null
        /\ pc[c] = "idle" \/ ~request[c].outBitcode
             => outBitcode[c] = Garbage
        /\ pc[c] = "idle" \/ ~request[c].outMessage
             => outMessage[c] = Garbage

\* ... and no two callers were given the same message.
MessageInv ==
    \A c, d \in Callers :
        outMessage[c] = outMessage[d] /\ outMessage[c] \in Handles => c = d

IInv ==
    /\ TypeOK /\ LockInv /\ PathInv /\ OutputInv /\ ReturnContract
    /\ MessageInv /\ Ownership

\* The bytes of a kept buffer never change under its owner's feet, whatever
\* calls run meanwhile: a step leaves them alone or is their disposal.
KeptStable ==
    [][\A c \in Callers : \A h \in kept[c] :
          buffer'[h] = buffer[h] \/ h \notin kept'[c]]_vars

\* APILock is not left behind on any path out of a call: a thread that waits
\* for it returns once the other threads stay out of the library (contention
\* alone could starve it: std::mutex is not fair).
UncontendedReturn ==
    \A c \in Callers :
        (<>[](\A d \in Callers \ {c} : pc[d] \in {"idle", "returned"}))
        => (pc[c] = "locking" ~> (pc[c] = "returned" \/ ~alive))

\* The calls implement the atomic service of DowngradeService.
phaseBar ==
    [c \in Callers |-> IF pc[c] = "idle" THEN "idle"
                       ELSE IF pc[c] = "returned" THEN "done" ELSE "pending"]
Service == INSTANCE DowngradeService WITH phase <- phaseBar
Implements == Service!SSpec
=============================================================================
