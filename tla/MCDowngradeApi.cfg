CONSTANTS
    c1 = c1
    c2 = c2
    h1 = h1
    h2 = h2
    good = good
    bad = bad
    odd = odd
    Free = Free
    Null = Null
    Garbage = Garbage
    NoCaller = NoCaller
    NoDoc = NoDoc
    Callers <- MCCallers
    Handles <- MCHandles
    Requests <- MCRequests
    Docs <- MCDocs
    Versions <- MCVersions
    Targets <- MCTargets
    Malformed <- MCMalformed
    Unsupported <- MCUnsupported
SPECIFICATION Spec
INVARIANTS
    TypeOK
    Serialized
    ReturnContract
    Ownership
PROPERTIES
    KeptStable
    Implements
    UncontendedReturn
CHECK_DEADLOCK FALSE
