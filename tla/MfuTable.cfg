CONSTANTS
    U16 = 65536
    MFU_SIZE = 3
    HASH_SIZE = 2
    DECAY_PERIOD = 3
    MAX_SEED_COUNT = 65532
    MAX_COUNT = 3
    Ids <- MCIds
    Seeds <- MCSeeds
SPECIFICATION TableOrSort
CHECK_DEADLOCK FALSE
INVARIANTS
    TypeOK
    ChainsReachUsed
    ChainsAreDisjoint
    RanksAreInverse
    UsedRanksAreLow
    CountsBounded
    SortTyped
    NoSlotLost
    Rebuilt
PROPERTIES
    TouchNeverLowersCount
    ImplementsFrequencies
    Terminates
