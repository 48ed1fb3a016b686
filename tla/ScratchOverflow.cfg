CONSTANTS
    Layers = {"writer"}
    ACC = 64
    FLUSH = 32
    SCRATCH = 320
    Writes <- MCEscapes
    MAX_WRITES = 96
    Streams <- MCStreams
    Widths <- MCWidths
    WORD48 = 16384
    U32 = 1048576
    ADAPT_WINDOW = 2
    LIMB = 15
    RANKS = 100
    Items <- MCItems
    Mistaken <- MCMistaken
    MAX_ITEMS = 2
    MAX_CUT = 2
    BYTE = 4
    PRECISION = 16
    RANS_L = 64
    STATE_BYTES = 4
    BucketLo <- MCBucketLo
    OffsetBits <- MCOffsetBits
    StaticFreqs <- MCStaticFreqs
    Counts <- MCCounts
    Values <- MCValues
    MAX_RESIDUALS = 3
SPECIFICATION Spec
CHECK_DEADLOCK FALSE
PROPERTIES
    StoresInScratch
