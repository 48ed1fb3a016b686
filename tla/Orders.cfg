CONSTANTS
    WORD48 = 16384
    U32 = 1048576
    ADAPT_WINDOW = 2
    U16 = 65536
    MFU_SIZE = 2
    HASH_SIZE = 2
    DECAY_PERIOD = 2
    MAX_FIELDS = 11
    MAX_INSTRUMENTS = 2
    RAW_IDS = 4
    REGIME_WINDOW = 2
    Schema <- MCSchema
    Messages <- MCMessages
    Capacities = {24, 64}
    Coders = {"tiered"}
    RESUME = TRUE
    MAX_CALLS = 4
    LINK_SIZE = 2
SPECIFICATION Spec
CHECK_DEADLOCK FALSE
INVARIANTS
    RoundTrip
    InStep
    FollowsEncoder
