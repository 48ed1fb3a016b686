CONSTANTS
    WORD48 = 16384
    U32 = 1048576
    ADAPT_WINDOW = 3
    U16 = 65536
    MFU_SIZE = 2
    HASH_SIZE = 2
    DECAY_PERIOD = 3
    MAX_FIELDS = 8
    MAX_INSTRUMENTS = 3
    RAW_IDS = 16384
    REGIME_WINDOW = 2
    INDEX_BITS = 8
    QF_PERIOD = 4
    SCRATCH = 80
    N_INSTR = 3
    RUN = 2
    START = 30000
    MAX_MSGS = 5
    Predicting <- MCPredicting
    Measuring <- MCMeasuring
    SchemaOf <- MCSchemaOf
    MessagesOf <- MCMessagesOf
SPECIFICATION Spec
CHECK_DEADLOCK FALSE
INVARIANTS
    TypeOK
    Decodable
    SamePredictions
    PredictsFromHistory
    SeesWhatIsWritten
