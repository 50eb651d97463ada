CONSTANT Units <- MCUnits
SPECIFICATION Spec
INVARIANTS
    ReaderKnows
    CallsMatch
    MeaningKept
    RejectsExactly
PROPERTIES
    Terminates
CHECK_DEADLOCK FALSE
