CONSTANTS
    Types <- MCTypes
    Values <- MCValues
    Units <- MCUnits
    Inputs <- MCInputs
    Width = 64
    Word = 3
SPECIFICATION RSpec
INVARIANTS
    TypeTable
    Numbering
    ReaderNumbering
    EverythingNumbered
    PoolsOrdered
    AggregatesBridged
    ReadBack
    FoundByOffset
PROPERTIES
    TypesFrozen
    NumbersFrozen
CHECK_DEADLOCK FALSE
