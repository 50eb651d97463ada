CONSTANTS
    Argvs <- MCArgvs
    VersionFlag <- MCVersionFlag
    OutputFlag <- MCOutputFlag
    Supported = {"5.0"}
    Files <- MCFiles
    FirstCapacity = 2
    MaxCapacity = 9
SPECIFICATION Spec
INVARIANTS
    ReadsWholeInput
    ExitContract
PROPERTIES
    FilesKeptUntilResult
    Terminates
CHECK_DEADLOCK FALSE
