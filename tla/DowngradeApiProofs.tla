------------------------- MODULE DowngradeApiProofs -------------------------
(***************************************************************************)
(* Proofs about the C API for any number of callers, handles and documents *)
(* and any set of targets: type correctness, serialization, the contract of *)
(* a returned call, and the ownership of buffers and messages.             *)
(***************************************************************************)
EXTENDS DowngradeApi, TLAPS

\* Some request exists, so the initial requests are requests.
LEMMA InitialRequest == (CHOOSE r \in Requests : TRUE) \in Requests
  BY RequestsAssumption

\* The initial states satisfy the inductive invariant.
LEMMA InitInv == Init => IInv
<1> SUFFICES ASSUME Init PROVE IInv
  OBVIOUS
<1>1. TypeOK
  BY InitialRequest DEF Init, TypeOK, Locations, Texts
<1>2. LockInv
  BY DistinctAssumption DEF Init, LockInv, Critical
<1>3. PathInv /\ OutputInv /\ ReturnContract
  BY DEF Init, PathInv, OutputInv, ReturnContract
<1>4. MessageInv
  BY DistinctAssumption DEF Init, MessageInv
<1>5. Ownership
  BY DistinctAssumption DEF Init, Ownership, Owned
<1> QED
  BY <1>1, <1>2, <1>3, <1>4, <1>5 DEF IInv

\* What the entry checks, the parser and the writer find wrong with a request
\* is true of it.
LEMMA TrueReasons ==
  ASSUME NEW r
  PROVE  /\ ~ArgumentsOK(r) => "arguments" \in Reasons(r)
         /\ ArgumentsOK(r) /\ ~VersionOK(r) => "version" \in Reasons(r)
         /\ Accepted(r) => {"exception", "unknown"} \subseteq Reasons(r)
         /\ Accepted(r) /\ ~Parses(r) => "parse" \in Reasons(r)
         /\ Accepted(r) /\ Parses(r) /\ ~Writable(r)
              => "unsupported" \in Reasons(r)
  BY DEF Accepted, Reasons

\* Every step preserves it.
LEMMA StepInv == IInv /\ [Next]_vars => IInv'
<1> SUFFICES ASSUME IInv, [Next]_vars PROVE IInv'
  OBVIOUS
<1> USE DEF IInv
<1>1. ASSUME NEW c \in Callers, Call(c) PROVE IInv'
  <2>1. TypeOK'
    BY <1>1, RequestsAssumption DEF Call, outputs, heap, TypeOK, Locations, Texts
  <2>2. LockInv'
    BY <1>1, DistinctAssumption DEF Call, outputs, heap, TypeOK, LockInv, Critical
  <2>3. PathInv'
    BY <1>1, TrueReasons, DistinctAssumption
    DEF Call, outputs, heap, TypeOK, PathInv, Accepted
  <2>4. OutputInv'
    BY <1>1, DistinctAssumption DEF Call, outputs, heap, TypeOK, OutputInv
  <2>5. ReturnContract'
    BY <1>1, DistinctAssumption DEF Call, outputs, heap, TypeOK, ReturnContract, ResultOK
  <2>6. MessageInv'
    BY <1>1, DistinctAssumption DEF Call, outputs, heap, TypeOK, OutputInv, MessageInv
  <2>7. Ownership'
    BY <1>1, DistinctAssumption DEF Call, outputs, heap, TypeOK, OutputInv, Ownership, Owned
  <2> QED
    BY <2>1, <2>2, <2>3, <2>4, <2>5, <2>6, <2>7
<1>2. ASSUME NEW c \in Callers, Acquire(c) PROVE IInv'
  <2>1. TypeOK'
    BY <1>2, RequestsAssumption DEF Acquire, outputs, heap, TypeOK, Locations, Texts
  <2>2. LockInv'
    BY <1>2, DistinctAssumption DEF Acquire, outputs, heap, TypeOK, LockInv, Critical
  <2>3. PathInv'
    BY <1>2, DistinctAssumption DEF Acquire, outputs, heap, TypeOK, PathInv
  <2>4. OutputInv'
    BY <1>2, DistinctAssumption DEF Acquire, outputs, heap, TypeOK, OutputInv
  <2>5. ReturnContract'
    BY <1>2, DistinctAssumption DEF Acquire, outputs, heap, TypeOK, ReturnContract, ResultOK
  <2>6. MessageInv'
    BY <1>2, DistinctAssumption DEF Acquire, outputs, heap, TypeOK, OutputInv, MessageInv
  <2>7. Ownership'
    BY <1>2, DistinctAssumption DEF Acquire, outputs, heap, TypeOK, OutputInv, Ownership, Owned
  <2> QED
    BY <2>1, <2>2, <2>3, <2>4, <2>5, <2>6, <2>7
<1>3. ASSUME NEW c \in Callers, Parse(c) PROVE IInv'
  <2>1. TypeOK'
    BY <1>3, RequestsAssumption
    DEF Parse, outputs, heap, TypeOK, Locations, Arguments
  <2>2. LockInv'
    BY <1>3, DistinctAssumption DEF Parse, outputs, heap, TypeOK, LockInv, Critical
  <2>3. PathInv'
    BY <1>3, DistinctAssumption DEF Parse, outputs, heap, TypeOK, PathInv
  <2>4. OutputInv'
    BY <1>3, DistinctAssumption DEF Parse, outputs, heap, TypeOK, OutputInv
  <2>5. ReturnContract'
    BY <1>3, DistinctAssumption DEF Parse, outputs, heap, TypeOK, ReturnContract, ResultOK
  <2>6. MessageInv'
    BY <1>3, DistinctAssumption DEF Parse, outputs, heap, TypeOK, OutputInv, MessageInv
  <2>7. Ownership'
    BY <1>3, DistinctAssumption DEF Parse, outputs, heap, TypeOK, OutputInv, Ownership, Owned
  <2> QED
    BY <2>1, <2>2, <2>3, <2>4, <2>5, <2>6, <2>7
<1>4. ASSUME NEW c \in Callers, Write(c) PROVE IInv'
  <2>1. TypeOK'
    BY <1>4, RequestsAssumption DEF Write, outputs, heap, TypeOK, Locations, Texts
  <2>2. LockInv'
    BY <1>4, DistinctAssumption DEF Write, outputs, heap, TypeOK, LockInv, Critical
  <2>3. PathInv'
    BY <1>4 DEF Write, outputs, heap, TypeOK, PathInv, Writable, Converted
  <2>4. OutputInv'
    BY <1>4, DistinctAssumption DEF Write, outputs, heap, TypeOK, OutputInv
  <2>5. ReturnContract'
    BY <1>4, DistinctAssumption DEF Write, outputs, heap, TypeOK, ReturnContract, ResultOK
  <2>6. MessageInv'
    BY <1>4, DistinctAssumption DEF Write, outputs, heap, TypeOK, OutputInv, MessageInv
  <2>7. Ownership'
    BY <1>4, DistinctAssumption DEF Write, outputs, heap, TypeOK, OutputInv, Ownership, Owned
  <2> QED
    BY <2>1, <2>2, <2>3, <2>4, <2>5, <2>6, <2>7
<1>5. ASSUME NEW c \in Callers, HandOver(c) PROVE IInv'
  <2>1. TypeOK'
    <3>1. <<module[c], request[c].version>> \in Contents
      BY <1>5, RequestsAssumption
      DEF HandOver, TypeOK, PathInv, Contents, Arguments, Accepted, VersionOK
    <3> QED
      BY <1>5, <3>1 DEF HandOver, TypeOK, Locations
  <2>2. LockInv'
    BY <1>5, DistinctAssumption DEF HandOver, TypeOK, LockInv, Critical
  <2>3. PathInv'
    BY <1>5, DistinctAssumption DEF HandOver, TypeOK, PathInv
  <2>4. OutputInv'
    BY <1>5, DistinctAssumption
    DEF HandOver, TypeOK, PathInv, OutputInv, Accepted, ArgumentsOK
  <2>5. ReturnContract'
    <3> SUFFICES ASSUME NEW d \in Callers, pc'[d] = "returned"
                 PROVE  ResultOK(d)'
      BY DEF ReturnContract
    <3>1. CASE d = c
      BY <1>5, <3>1
      DEF HandOver, TypeOK, PathInv, OutputInv, ResultOK, Servable, Converted,
          Accepted, ArgumentsOK
    <3>2. CASE d # c
      <4>1. ResultOK(d) /\ outBitcode'[d] = outBitcode[d]
        BY <1>5, <3>2 DEF HandOver, TypeOK, ReturnContract
      <4>2. outBitcode[d] \in Handles => buffer'[outBitcode[d]] = buffer[outBitcode[d]]
        BY <1>5 DEF HandOver, TypeOK, Ownership, Owned
      <4> QED
        BY <1>5, <3>2, <4>1, <4>2 DEF HandOver, TypeOK, ResultOK
    <3> QED
      BY <3>1, <3>2
  <2>6. MessageInv'
    BY <1>5, DistinctAssumption DEF HandOver, TypeOK, OutputInv, MessageInv
  <2>7. Ownership'
    <3>1. PICK h \in Handles :
            /\ buffer[h] = Free
            /\ buffer' = [buffer EXCEPT
                            ![h] = <<module[c], request[c].version>>]
            /\ outBitcode' = [outBitcode EXCEPT ![c] = h]
      BY <1>5 DEF HandOver
    <3>2. <<module[c], request[c].version>> # Free
      BY <1>5, RequestsAssumption, DistinctAssumption
      DEF HandOver, TypeOK, PathInv, Arguments, Accepted, VersionOK
    <3>3. outBitcode[c] \notin Handles
      BY <1>5, DistinctAssumption
      DEF HandOver, TypeOK, PathInv, OutputInv, Accepted, ArgumentsOK
    <3>4. /\ Owned(c)' = Owned(c) \cup {h}
          /\ \A d \in Callers \ {c} : Owned(d)' = Owned(d)
      BY <1>5, <3>1, <3>3 DEF HandOver, TypeOK, Owned
    <3>5. \A d \in Callers : h \notin Owned(d)
      BY <3>1 DEF Ownership
    <3> QED
      BY <1>5, <3>1, <3>2, <3>4, <3>5 DEF HandOver, TypeOK, Ownership, Owned
  <2> QED
    BY <2>1, <2>2, <2>3, <2>4, <2>5, <2>6, <2>7
<1>6. ASSUME NEW c \in Callers, ParseError(c) PROVE IInv'
  <2>1. TypeOK'
    BY <1>6, RequestsAssumption DEF ParseError, FailWith, TypeOK, Locations, Texts
  <2>2. LockInv'
    BY <1>6, DistinctAssumption DEF ParseError, FailWith, TypeOK, LockInv, Critical
  <2>3. PathInv'
    BY <1>6, DistinctAssumption DEF ParseError, FailWith, TypeOK, PathInv
  <2>4. OutputInv'
    BY <1>6, DistinctAssumption DEF ParseError, FailWith, TypeOK, OutputInv
  <2>5. ReturnContract'
    <3> SUFFICES ASSUME NEW d \in Callers, pc'[d] = "returned"
                 PROVE  ResultOK(d)'
      BY DEF ReturnContract
    <3>1. CASE d = c
      <4>1. "parse" \in Reasons(request[c])
        BY <1>6, TrueReasons DEF ParseError, PathInv
      <4> QED
        BY <1>6, <3>1, <4>1, DistinctAssumption
        DEF ParseError, FailWith, TypeOK, OutputInv, ResultOK
    <3>2. CASE d # c
      <4>1. ResultOK(d) /\ outMessage'[d] = outMessage[d]
        BY <1>6, <3>2 DEF ParseError, FailWith, TypeOK, ReturnContract
      <4>2. outMessage[d] \in Handles => message'[outMessage[d]] = message[outMessage[d]]
        BY <1>6 DEF ParseError, FailWith, TypeOK, Ownership
      <4> QED
        BY <1>6, <3>2, <4>1, <4>2 DEF ParseError, FailWith, TypeOK, ResultOK
    <3> QED
      BY <3>1, <3>2
  <2>6. MessageInv'
    BY <1>6, DistinctAssumption
    DEF ParseError, FailWith, TypeOK, OutputInv, MessageInv, Ownership
  <2>7. Ownership'
    BY <1>6, DistinctAssumption DEF ParseError, FailWith, TypeOK, OutputInv, Ownership, Owned
  <2> QED
    BY <2>1, <2>2, <2>3, <2>4, <2>5, <2>6, <2>7
<1>7. ASSUME NEW c \in Callers, Reject(c) PROVE IInv'
  <2>1. TypeOK'
    BY <1>7, RequestsAssumption DEF Reject, Unwind, outputs, heap, TypeOK, Locations, Texts
  <2>2. LockInv'
    BY <1>7, DistinctAssumption DEF Reject, Unwind, outputs, heap, TypeOK, LockInv, Critical
  <2>3. PathInv'
    BY <1>7, TrueReasons
    DEF Reject, Unwind, outputs, heap, TypeOK, PathInv, Writable, Converted
  <2>4. OutputInv'
    BY <1>7, DistinctAssumption DEF Reject, Unwind, outputs, heap, TypeOK, OutputInv
  <2>5. ReturnContract'
    BY <1>7, DistinctAssumption DEF Reject, Unwind, outputs, heap, TypeOK, ReturnContract, ResultOK
  <2>6. MessageInv'
    BY <1>7, DistinctAssumption DEF Reject, Unwind, outputs, heap, TypeOK, OutputInv, MessageInv
  <2>7. Ownership'
    BY <1>7, DistinctAssumption DEF Reject, Unwind, outputs, heap, TypeOK, OutputInv, Ownership, Owned
  <2> QED
    BY <2>1, <2>2, <2>3, <2>4, <2>5, <2>6, <2>7
<1>8. ASSUME NEW c \in Callers, Throw(c) PROVE IInv'
  <2>1. TypeOK'
    BY <1>8, RequestsAssumption DEF Throw, Unwind, outputs, heap, Critical, TypeOK, Locations, Texts
  <2>2. LockInv'
    BY <1>8, DistinctAssumption DEF Throw, Unwind, outputs, heap, Critical, TypeOK, LockInv, Critical
  <2>3. PathInv'
    BY <1>8, TrueReasons
    DEF Throw, Unwind, outputs, heap, Critical, TypeOK, PathInv
  <2>4. OutputInv'
    BY <1>8, DistinctAssumption DEF Throw, Unwind, outputs, heap, Critical, TypeOK, OutputInv
  <2>5. ReturnContract'
    BY <1>8, DistinctAssumption DEF Throw, Unwind, outputs, heap, Critical, TypeOK, ReturnContract, ResultOK
  <2>6. MessageInv'
    BY <1>8, DistinctAssumption DEF Throw, Unwind, outputs, heap, Critical, TypeOK, OutputInv, MessageInv
  <2>7. Ownership'
    BY <1>8, DistinctAssumption DEF Throw, Unwind, outputs, heap, Critical, TypeOK, OutputInv, Ownership, Owned
  <2> QED
    BY <2>1, <2>2, <2>3, <2>4, <2>5, <2>6, <2>7
<1>9. ASSUME NEW c \in Callers, Fail(c) PROVE IInv'
  <2>1. TypeOK'
    BY <1>9, RequestsAssumption DEF Fail, FailWith, TypeOK, Locations, Texts
  <2>2. LockInv'
    BY <1>9, DistinctAssumption DEF Fail, FailWith, TypeOK, LockInv, Critical
  <2>3. PathInv'
    BY <1>9, DistinctAssumption DEF Fail, FailWith, TypeOK, PathInv
  <2>4. OutputInv'
    BY <1>9, DistinctAssumption DEF Fail, FailWith, TypeOK, OutputInv
  <2>5. ReturnContract'
    <3> SUFFICES ASSUME NEW d \in Callers, pc'[d] = "returned"
                 PROVE  ResultOK(d)'
      BY DEF ReturnContract
    <3>1. CASE d = c
      <4>1. error[c] \in Reasons(request[c])
        BY <1>9 DEF Fail, PathInv
      <4> QED
        BY <1>9, <3>1, <4>1, DistinctAssumption
        DEF Fail, FailWith, TypeOK, OutputInv, ResultOK
    <3>2. CASE d # c
      <4>1. ResultOK(d) /\ outMessage'[d] = outMessage[d]
        BY <1>9, <3>2 DEF Fail, FailWith, TypeOK, ReturnContract
      <4>2. outMessage[d] \in Handles => message'[outMessage[d]] = message[outMessage[d]]
        BY <1>9 DEF Fail, FailWith, TypeOK, Ownership
      <4> QED
        BY <1>9, <3>2, <4>1, <4>2 DEF Fail, FailWith, TypeOK, ResultOK
    <3> QED
      BY <3>1, <3>2
  <2>6. MessageInv'
    BY <1>9, DistinctAssumption
    DEF Fail, FailWith, TypeOK, OutputInv, MessageInv, Ownership
  <2>7. Ownership'
    <3>1. error[c] \in Texts /\ Free \notin Texts
      BY DistinctAssumption DEF TypeOK, Texts
    <3>2. request[c].outMessage => outMessage[c] = Null
      BY <1>9 DEF Fail, OutputInv
    <3> QED
      BY <1>9, <3>1, <3>2, DistinctAssumption
      DEF Fail, FailWith, TypeOK, Ownership, Owned
  <2> QED
    BY <2>1, <2>2, <2>3, <2>4, <2>5, <2>6, <2>7
<1>10. ASSUME NEW c \in Callers, Fatal(c) PROVE IInv'
  <2>1. TypeOK'
    BY <1>10, RequestsAssumption DEF Fatal, outputs, heap, TypeOK, Locations, Texts
  <2>2. LockInv'
    BY <1>10, DistinctAssumption DEF Fatal, outputs, heap, TypeOK, LockInv, Critical
  <2>3. PathInv'
    BY <1>10, DistinctAssumption DEF Fatal, outputs, heap, TypeOK, PathInv
  <2>4. OutputInv'
    BY <1>10, DistinctAssumption DEF Fatal, outputs, heap, TypeOK, OutputInv
  <2>5. ReturnContract'
    BY <1>10, DistinctAssumption DEF Fatal, outputs, heap, TypeOK, ReturnContract, ResultOK
  <2>6. MessageInv'
    BY <1>10, DistinctAssumption DEF Fatal, outputs, heap, TypeOK, OutputInv, MessageInv
  <2>7. Ownership'
    BY <1>10, DistinctAssumption DEF Fatal, outputs, heap, TypeOK, OutputInv, Ownership, Owned
  <2> QED
    BY <2>1, <2>2, <2>3, <2>4, <2>5, <2>6, <2>7
<1>11. ASSUME NEW c \in Callers, Take(c) PROVE IInv'
  <2>1. TypeOK'
    BY <1>11, RequestsAssumption DEF Take, TypeOK, Locations, Texts
  <2>2. LockInv'
    BY <1>11, DistinctAssumption DEF Take, TypeOK, LockInv, Critical
  <2>3. PathInv'
    BY <1>11, DistinctAssumption DEF Take, TypeOK, PathInv
  <2>4. OutputInv'
    BY <1>11, DistinctAssumption DEF Take, TypeOK, OutputInv
  <2>5. ReturnContract'
    <3> SUFFICES ASSUME NEW d \in Callers, pc'[d] = "returned"
                 PROVE  ResultOK(d)'
      BY DEF ReturnContract
    <3>1. d # c /\ pc[d] = "returned" /\ ResultOK(d)
      BY <1>11 DEF Take, TypeOK, ReturnContract
    <3>2. /\ outBitcode[d] \in Handles => outBitcode[d] # outBitcode[c]
          /\ outMessage[d] \in Handles => outMessage[d] # outMessage[c]
      BY <3>1 DEF Ownership, Owned, MessageInv
    <3> QED
      BY <1>11, <3>1, <3>2 DEF Take, TypeOK, ResultOK
  <2>6. MessageInv'
    BY <1>11, DistinctAssumption DEF Take, TypeOK, OutputInv, MessageInv
  <2>7. Ownership'
    <3>1. \A d \in Callers \ {c} : Owned(d)' = Owned(d)
      BY <1>11 DEF Take, TypeOK, Owned
    <3>2. outMessage'[c] \notin Handles /\ outBitcode'[c] \notin Handles
      BY <1>11, DistinctAssumption DEF Take, TypeOK
    <3>3. \/ Owned(c)' = Owned(c) /\ buffer' = buffer
          \/ /\ Owned(c)' = Owned(c) \ {outBitcode[c]}
             /\ buffer' = [h \in Handles |->
                             IF h = outBitcode[c] THEN Free ELSE buffer[h]]
      BY <1>11, <3>2 DEF Take, TypeOK, Owned, Ownership
    <3>4. \A h \in Handles : message'[h] # Free
            <=> \E d \in Callers : outMessage'[d] = h
      BY <1>11, <3>2 DEF Take, TypeOK, Ownership, MessageInv
    <3>5. \A h \in Handles : buffer'[h] # Free
            <=> \E d \in Callers : h \in Owned(d)'
      BY <3>1, <3>3 DEF Ownership, Owned
    <3>6. \A d, e \in Callers : d # e => Owned(d)' \cap Owned(e)' = {}
      BY <3>1, <3>3 DEF Ownership
    <3>7. \A d \in Callers : outBitcode'[d] \notin kept'[d]
      BY <1>11, <3>2 DEF Take, TypeOK, Ownership
    <3> QED
      BY <3>4, <3>5, <3>6, <3>7 DEF Ownership
  <2> QED
    BY <2>1, <2>2, <2>3, <2>4, <2>5, <2>6, <2>7
<1>12. ASSUME NEW c \in Callers, Dispose(c) PROVE IInv'
  <2>1. TypeOK'
    BY <1>12, RequestsAssumption DEF Dispose, outputs, TypeOK, Locations, Texts
  <2>2. LockInv'
    BY <1>12, DistinctAssumption DEF Dispose, outputs, TypeOK, LockInv, Critical
  <2>3. PathInv'
    BY <1>12, DistinctAssumption DEF Dispose, outputs, TypeOK, PathInv
  <2>4. OutputInv'
    BY <1>12, DistinctAssumption DEF Dispose, outputs, TypeOK, OutputInv
  <2>5. ReturnContract'
    <3> SUFFICES ASSUME NEW d \in Callers, pc'[d] = "returned"
                 PROVE  ResultOK(d)'
      BY DEF ReturnContract
    <3>1. PICK h \in kept[c] : buffer' = [buffer EXCEPT ![h] = Free]
      BY <1>12 DEF Dispose
    <3>2. ResultOK(d) /\ outBitcode[d] # h
      BY <1>12 DEF Dispose, TypeOK, ReturnContract, Ownership, Owned
    <3> QED
      BY <1>12, <3>1, <3>2 DEF Dispose, outputs, TypeOK, ResultOK
  <2>6. MessageInv'
    BY <1>12, DistinctAssumption DEF Dispose, outputs, TypeOK, OutputInv, MessageInv
  <2>7. Ownership'
    BY <1>12, DistinctAssumption DEF Dispose, outputs, TypeOK, OutputInv, Ownership, Owned
  <2> QED
    BY <2>1, <2>2, <2>3, <2>4, <2>5, <2>6, <2>7
<1>13. CASE UNCHANGED vars
  BY <1>13 DEF vars, TypeOK, LockInv, PathInv, OutputInv, ReturnContract,
     ResultOK, MessageInv, Ownership, Owned
<1> QED
  BY <1>1, <1>2, <1>3, <1>4, <1>5, <1>6, <1>7, <1>8, <1>9, <1>10, <1>11, <1>12, <1>13 DEF Next, Step

\* The inductive invariant holds in every reachable state.
THEOREM Invariance == Spec => []IInv
<1>1. Init => IInv
  BY InitInv
<1>2. IInv /\ [Next]_vars => IInv'
  BY StepInv
<1> QED
  BY <1>1, <1>2, PTL DEF Spec

\* Type correctness of the C API.
THEOREM TypeCorrect == Spec => []TypeOK
<1>1. IInv => TypeOK
  BY DEF IInv
<1> QED
  BY <1>1, Invariance, PTL

\* Calls are serialized: two threads never have a module loaded together,
\* for any number of threads and whatever exceptions are thrown.
THEOREM CallsSerialized == Spec => []Serialized
<1>1. IInv => Serialized
  BY DEF IInv, LockInv, Critical, Serialized
<1> QED
  BY <1>1, Invariance, PTL

\* A returned call holds what its own request explains.
THEOREM ReturnsCorrect == Spec => []ReturnContract
<1>1. IInv => ReturnContract
  BY DEF IInv
<1> QED
  BY <1>1, Invariance, PTL

\* Buffers and messages have one owner, and none is leaked.
THEOREM OwnershipCorrect == Spec => []Ownership
<1>1. IInv => Ownership
  BY DEF IInv
<1> QED
  BY <1>1, Invariance, PTL

\* A kept buffer does not change until its owner disposes of it.
THEOREM KeptBuffersStable == Spec => KeptStable
<1> DEFINE Stable == \A c \in Callers : \A h \in kept[c] :
                       buffer'[h] = buffer[h] \/ h \notin kept'[c]
<1>1. IInv /\ [Next]_vars => Stable \/ UNCHANGED vars
  <2> SUFFICES ASSUME IInv, NEW c \in Callers,
                      Call(c) \/ Step(c) \/ Take(c) \/ Dispose(c),
                      NEW d \in Callers, NEW h \in kept[d]
               PROVE  buffer'[h] = buffer[h] \/ h \notin kept'[d]
    BY DEF Next
  <2>1. CASE HandOver(c)
    <3>1. h \in Handles /\ buffer[h] # Free
      BY DEF IInv, TypeOK, Ownership, Owned
    <3> QED
      BY <2>1, <3>1 DEF HandOver, IInv, TypeOK
  <2>2. CASE Take(c)
    <3>1. h \in Handles /\ h # outBitcode[c]
      BY DEF IInv, TypeOK, Ownership, Owned
    <3> QED
      BY <2>2, <3>1 DEF Take, IInv, TypeOK
  <2>3. CASE Dispose(c)
    <3>1. PICK g \in kept[c] : /\ kept' = [kept EXCEPT ![c] = @ \ {g}]
                               /\ buffer' = [buffer EXCEPT ![g] = Free]
      BY <2>3 DEF Dispose
    <3>2. d # c => h # g
      BY <3>1 DEF IInv, Ownership, Owned
    <3> QED
      BY <3>1, <3>2 DEF IInv, TypeOK
  <2>4. CASE Call(c) \/ (Step(c) /\ ~HandOver(c))
    BY <2>4 DEF Call, Step, Acquire, Parse, Write, ParseError, Reject, Throw,
                Fail, Fatal, Unwind, heap
  <2> QED
    BY <2>1, <2>2, <2>3, <2>4
<1>2. Stable \/ UNCHANGED vars => [Stable]_vars
  OBVIOUS
<1> HIDE DEF Stable
<1>3. Spec => [][Stable]_vars
  BY <1>1, <1>2, Invariance, PTL DEF Spec
<1> QED
  BY <1>3, PTL DEF KeptStable, Stable

\* The two specifications mean the same by a request and its answers.
LEMMA SameWords ==
  ASSUME NEW r
  PROVE  /\ Service!Servable(r) = Servable(r)
         /\ Service!Converted(r) = Converted(r)
         /\ Service!Reasons(r) = Reasons(r)
  BY DEF Servable, Converted, Reasons, Accepted, ArgumentsOK, VersionOK,
         Parses, Writable, Service!Servable, Service!Converted,
         Service!Reasons, Service!Accepted, Service!ArgumentsOK,
         Service!VersionOK, Service!Parses, Service!Writable

\* Every step of a call is one step of the atomic service, or none of it.
LEMMA StepImplements == IInv /\ [Next]_vars => [Service!SNext]_(Service!svars)
<1> SUFFICES ASSUME IInv, [Next]_vars
             PROVE  [Service!SNext]_(Service!svars)
  OBVIOUS
<1> USE DEF IInv
<1>0. CASE UNCHANGED vars
  BY <1>0 DEF vars, Service!svars, phaseBar
<1>1. ASSUME NEW c \in Callers, Call(c) PROVE Service!SCall(c)
  <2>1. phaseBar[c] = "idle"
    BY <1>1 DEF Call, phaseBar
  <2>2. phaseBar' = [phaseBar EXCEPT ![c] = "pending"]
    BY <1>1 DEF Call, TypeOK, phaseBar
  <2> QED
    BY <1>1, <2>1, <2>2 DEF Call, heap, Service!SCall
<1>2. ASSUME NEW c \in Callers, HandOver(c) PROVE Service!SSucceed(c)
  <2>1. phaseBar[c] = "pending" /\ phaseBar' = [phaseBar EXCEPT ![c] = "done"]
    BY <1>2 DEF HandOver, TypeOK, phaseBar
  <2>2. Servable(request[c]) /\ Converted(request[c]) = <<module[c], request[c].version>>
    BY <1>2 DEF HandOver, PathInv, Servable, Converted
  <2>3. \E h \in Handles :
          /\ buffer[h] = Free
          /\ buffer' = [buffer EXCEPT ![h] = Converted(request[c])]
          /\ outBitcode' = [outBitcode EXCEPT ![c] = h]
    BY <1>2, <2>2 DEF HandOver
  <2>4. status' = [status EXCEPT ![c] = 0]
        /\ UNCHANGED <<request, outMessage, kept, message>>
    BY <1>2 DEF HandOver
  <2> QED
    BY <2>1, <2>2, <2>3, <2>4, SameWords DEF Service!SSucceed
<1>3. ASSUME NEW c \in Callers, Fail(c) PROVE Service!SFail(c)
  <2>1. phaseBar[c] = "pending" /\ phaseBar' = [phaseBar EXCEPT ![c] = "done"]
    BY <1>3 DEF Fail, FailWith, TypeOK, phaseBar
  <2>2. error[c] \in Reasons(request[c])
    BY <1>3 DEF Fail, PathInv
  <2>3. status' = [status EXCEPT ![c] = 1]
        /\ UNCHANGED <<request, outBitcode, kept, buffer>>
    BY <1>3 DEF Fail, FailWith
  <2>4. \/ /\ request[c].outMessage
           /\ \E h \in Handles, text \in Reasons(request[c]) :
                /\ message[h] = Free
                /\ message' = [message EXCEPT ![h] = text]
                /\ outMessage' = [outMessage EXCEPT ![c] = h]
        \/ UNCHANGED <<message, outMessage>>
    <3>1. FailWith(c, error[c])
      BY <1>3 DEF Fail
    <3> QED
      BY <2>2, <3>1 DEF FailWith
  <2> QED
    BY <2>1, <2>3, <2>4, SameWords DEF Service!SFail
<1>4. ASSUME NEW c \in Callers, ParseError(c) PROVE Service!SFail(c)
  <2>1. phaseBar[c] = "pending" /\ phaseBar' = [phaseBar EXCEPT ![c] = "done"]
    BY <1>4 DEF ParseError, FailWith, TypeOK, phaseBar
  <2>2. "parse" \in Reasons(request[c])
    BY <1>4, TrueReasons DEF ParseError, PathInv
  <2>3. status' = [status EXCEPT ![c] = 1]
        /\ UNCHANGED <<request, outBitcode, kept, buffer>>
    BY <1>4 DEF ParseError, FailWith
  <2>4. \/ /\ request[c].outMessage
           /\ \E h \in Handles, text \in Reasons(request[c]) :
                /\ message[h] = Free
                /\ message' = [message EXCEPT ![h] = text]
                /\ outMessage' = [outMessage EXCEPT ![c] = h]
        \/ UNCHANGED <<message, outMessage>>
    <3>1. FailWith(c, "parse")
      BY <1>4 DEF ParseError
    <3> QED
      BY <2>2, <3>1 DEF FailWith
  <2> QED
    BY <2>1, <2>3, <2>4, SameWords DEF Service!SFail
<1>5. ASSUME NEW c \in Callers, Take(c) PROVE Service!STake(c)
  <2>1. phaseBar[c] = "done" /\ phaseBar' = [phaseBar EXCEPT ![c] = "idle"]
    BY <1>5 DEF Take, TypeOK, phaseBar
  <2> QED
    BY <1>5, <2>1 DEF Take, Service!STake
<1>6. ASSUME NEW c \in Callers, Dispose(c) PROVE Service!SDispose(c)
  BY <1>6 DEF Dispose, outputs, phaseBar, Service!SDispose
<1>7. ASSUME NEW c \in Callers,
             Acquire(c) \/ Parse(c) \/ Write(c) \/ Reject(c) \/ Throw(c)
             \/ Fatal(c)
      PROVE  UNCHANGED Service!svars
  <2>1. UNCHANGED <<request, status, outBitcode, outMessage, kept, buffer, message>>
    BY <1>7 DEF Acquire, Parse, Write, Reject, Throw, Unwind, Fatal, outputs, heap
  <2>2. phaseBar' = phaseBar
    BY <1>7 DEF Acquire, Parse, Write, Reject, Throw, Unwind, Fatal, Critical,
                TypeOK, phaseBar
  <2> QED
    BY <2>1, <2>2 DEF Service!svars
<1> QED
  BY <1>0, <1>1, <1>2, <1>3, <1>4, <1>5, <1>6, <1>7 DEF Next, Step, Service!SNext

\* The locked, throwing implementation is the atomic service to its callers.
THEOREM Refinement == Spec => Implements
<1>1. Init => Service!SInit
  BY DEF Init, Service!SInit, phaseBar
<1>2. IInv /\ [Next]_vars => [Service!SNext]_(Service!svars)
  BY StepImplements
<1> QED
  BY <1>1, <1>2, Invariance, PTL DEF Spec, Implements, Service!SSpec
=============================================================================
