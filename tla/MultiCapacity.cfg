CONSTANTS
    WORD48 = 16384
    U32 = 1048576
    ADAPT_WINDOW = 2
    U16 = 65536
    MFU_SIZE = 2
    HASH_SIZE = 2
    DECAY_PERIOD = 3
    MAX_FIELDS = 4
    MAX_INSTRUMENTS = 3
    RAW_IDS = 4
    REGIME_WINDOW = 2
    Schemas <- MCSchemas
    TypeIndex <- MCTypeIndex
    Messages <- MCMessages
    Capacities = {8, 64}
    CHECKPOINT = 2
    SWITCH = 4
    SEED = 3
    SeedList <- MCSeedList
    MAX_MESSAGES = 4
    LINK_SIZE = 2
    MAX_FAULTS = 2
SPECIFICATION Spec
CHECK_DEADLOCK FALSE
PROPERTIES
    WithinCapacity
