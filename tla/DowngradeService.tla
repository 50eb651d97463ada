------------------------- MODULE DowngradeService -------------------------
(***************************************************************************)
(* What the C API of llvm-downgrade promises its callers, as the comment   *)
(* over LLVMDGDowngrade in include/llvm-downgrade.h states it: a call is   *)
(* answered once, with a buffer or with an error, the answer depends on    *)
(* the call's own arguments only, and a result belongs to the caller that  *)
(* got it until that caller disposes of it.  Nothing of the implementation *)
(* (the mutex, the parser, the writers, exceptions) is visible here.       *)
(***************************************************************************)
EXTENDS DowngradeTypes

VARIABLES
    phase,     \* per caller: "idle", "pending" or "done"
    request,   \* per caller: the arguments of its current or last call
    status,    \* per caller: the value its last call returned
    outBitcode,\* per caller: the variable OutBitcode points to
    outMessage,\* per caller: the variable OutMessage points to
    kept,      \* per caller: the buffers of earlier calls it still owns
    buffer,    \* the LLVMDGMemoryBuffers that exist, by handle
    message    \* the malloc'ed messages that exist, by handle

svars == <<phase, request, status, outBitcode, outMessage, kept, buffer,
           message>>

SInit ==
    /\ phase = [c \in Callers |-> "idle"]
    /\ request = [c \in Callers |-> CHOOSE r \in Requests : TRUE]
    /\ status = [c \in Callers |-> 0]
    /\ outBitcode = [c \in Callers |-> Garbage]
    /\ outMessage = [c \in Callers |-> Garbage]
    /\ kept = [c \in Callers |-> {}]
    /\ buffer = [h \in Handles |-> Free]
    /\ message = [h \in Handles |-> Free]

\* The caller makes a call: both outputs it gave are cleared before use.
SCall(c) ==
    /\ phase[c] = "idle"
    /\ \E r \in Requests :
         /\ request' = [request EXCEPT ![c] = r]
         /\ outBitcode' = [outBitcode EXCEPT
              ![c] = IF r.outBitcode THEN Null ELSE @]
         /\ outMessage' = [outMessage EXCEPT
              ![c] = IF r.outMessage THEN Null ELSE @]
    /\ phase' = [phase EXCEPT ![c] = "pending"]
    /\ UNCHANGED <<status, kept, buffer, message>>

\* The call succeeds: only if the request can be served, with a new buffer
\* that holds the conversion of the caller's own input.
SSucceed(c) ==
    /\ phase[c] = "pending"
    /\ Servable(request[c])
    /\ \E h \in Handles :
         /\ buffer[h] = Free
         /\ buffer' = [buffer EXCEPT ![h] = Converted(request[c])]
         /\ outBitcode' = [outBitcode EXCEPT ![c] = h]
    /\ status' = [status EXCEPT ![c] = 0]
    /\ phase' = [phase EXCEPT ![c] = "done"]
    /\ UNCHANGED <<request, outMessage, kept, message>>

\* The call fails, for a reason its own request explains or because an
\* exception interrupted it; the message may be null if malloc fails.
SFail(c) ==
    /\ phase[c] = "pending"
    /\ \/ /\ request[c].outMessage
          /\ \E h \in Handles, text \in Reasons(request[c]) :
               /\ message[h] = Free
               /\ message' = [message EXCEPT ![h] = text]
               /\ outMessage' = [outMessage EXCEPT ![c] = h]
       \/ UNCHANGED <<message, outMessage>>
    /\ status' = [status EXCEPT ![c] = 1]
    /\ phase' = [phase EXCEPT ![c] = "done"]
    /\ UNCHANGED <<request, outBitcode, kept, buffer>>

\* The caller takes its results: it keeps or disposes of the buffer, and
\* disposes of the message.
STake(c) ==
    /\ phase[c] = "done"
    /\ LET b == outBitcode[c]
           m == outMessage[c]
       IN /\ \/ /\ kept' = [kept EXCEPT ![c] = @ \cup ({b} \cap Handles)]
                /\ UNCHANGED buffer
             \/ /\ buffer' = [h \in Handles |->
                                IF h = b THEN Free ELSE buffer[h]]
                /\ UNCHANGED kept
          /\ message' = [h \in Handles |-> IF h = m THEN Free ELSE message[h]]
    /\ outBitcode' = [outBitcode EXCEPT ![c] = Garbage]
    /\ outMessage' = [outMessage EXCEPT ![c] = Garbage]
    /\ phase' = [phase EXCEPT ![c] = "idle"]
    /\ UNCHANGED <<request, status>>

\* The caller disposes of a buffer it kept; it may be in any other phase.
SDispose(c) ==
    /\ \E h \in kept[c] :
         /\ kept' = [kept EXCEPT ![c] = @ \ {h}]
         /\ buffer' = [buffer EXCEPT ![h] = Free]
    /\ UNCHANGED <<phase, request, status, outBitcode, outMessage, message>>

SNext ==
    \E c \in Callers : SCall(c) \/ SSucceed(c) \/ SFail(c) \/ STake(c)
                       \/ SDispose(c)

SSpec == SInit /\ [][SNext]_svars
=============================================================================
