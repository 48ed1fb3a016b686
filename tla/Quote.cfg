CONSTANTS
    WORD48 = 16384
    U32 = 1048576
    ADAPT_WINDOW = 2
    U16 = 65536
    MFU_SIZE = 2
    HASH_SIZE = 2
    DECAY_PERIOD = 2
    MAX_FIELDS = 5
    MAX_INSTRUMENTS = 2
    RAW_IDS = 4
    REGIME_WINDOW = 2
    Schema <- MCSchema
    Messages <- MCMessages
    Capacities = {12, 64}
    Coders = {"expgolomb"}
    RESUME = FALSE
    MAX_CALLS = 4
    LINK_SIZE = 2
SPECIFICATION Spec
CHECK_DEADLOCK FALSE
INVARIANTS
    TypeOK
    RoundTrip
    InStep
    FollowsEncoder
PROPERTIES
    ImplementsFifo
