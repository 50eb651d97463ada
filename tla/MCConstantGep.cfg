SPECIFICATION Spec
CONSTANTS
    Width <- MCWidth
    TypeID <- MCTypeID
    ValueType <- MCValueType
    MappedType <- MCMappedType
    MappedCallee <- MCMappedCallee
    Params <- MCParams
    ResultType <- MCResultType
    NoAddressSpace = 0
    IntRange <- MCIntRange
    CastSlot <- MCCastSlot
    LastVal <- MCLastVal
    WrappedValue <- MCWrappedValue
    TextSize <- MCTextSize
    Types <- MCTypes
    Modules <- MCModules
    AttributeLists <- MCAttributeLists
    Locations <- MCLocations
    DebugRecords <- MCDebugRecords
    Constants <- MCConstants
    Releases <- MCReleases
    MetadataItems <- MCMetadataItems
    DWLang <- MCDWLang
    IndexThreshold = 1
    Instructions <- MCInstructions
    FirstInst <- MCFirstInst
    LastInst <- MCLastInst
INVARIANT ElementAddressesReadBack
CHECK_DEADLOCK FALSE
