CONSTANTS
    Layers = {"writer", "reader", "codes", "rans"}
    ACC = 64
    FLUSH = 32
    SCRATCH = 29
    Writes <- MCWrites
    MAX_WRITES = 5
    Streams <- MCStreams
    Widths <- MCWidths
    WORD48 = 16384
    U32 = 1048576
    ADAPT_WINDOW = 2
    LIMB = 15
    RANKS = 100
    Items <- MCItems
    Mistaken <- MCMistaken
    MAX_ITEMS = 2
    MAX_CUT = 2
    BYTE = 4
    PRECISION = 16
    RANS_L = 64
    STATE_BYTES = 4
    BucketLo <- MCBucketLo
    OffsetBits <- MCOffsetBits
    StaticFreqs <- MCStaticFreqs
    Counts <- MCCounts
    Values <- MCValues
    MAX_RESIDUALS = 3
SPECIFICATION Spec
CHECK_DEADLOCK FALSE
INVARIANTS
    TypeOK
    WireCompatible
    CodesRoundTrip
    RansRoundTrip
PROPERTIES
    ImplementsBitString
    ImplementsBitSource
