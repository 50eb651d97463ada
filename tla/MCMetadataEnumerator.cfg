CONSTANTS
    Null = Null
    Metadata <- MCMetadata
    Units <- MCUnits
SPECIFICATION Spec
INVARIANTS
    MetadataNumbering
    Visible
    ReaderOrder
CHECK_DEADLOCK FALSE
