CONSTANTS
    NULL = NULL
    Addr = {11, 12, 13}
    BYTE = 4
    RAW_IDS = 4
    MAX_FIELDS = 4
    MAX_MSG = 6
    Codecs = {1, 2, 3}
    Language <- MCMixed
    Schemas <- MCSchemas
    Values <- MCValues
    BUFFER = 6
    RUST_FIELDS = 5
    MAX_CALLS = 5
    LINK_SIZE = 1
SPECIFICATION Spec
CHECK_DEADLOCK FALSE
INVARIANTS
    TypeOK
    OneOwner
    SnapshotKept
    Delivered
PROPERTIES
    Returned
