------------------------------- MODULE Codec -------------------------------
(***************************************************************************)
(* The schema-driven predictor of core/residc.c: what encode_fields,       *)
(* decode_fields and commit_state do with one field of one message.        *)
(*                                                                         *)
(* The three functions are separate code that must move the codec state in *)
(* the same way: the encoder runs encode_fields, the decoder decode_fields *)
(* for a compressed frame and commit_state for a literal one.  Each has    *)
(* its own operators here, per field type.  Blocks that are the same text  *)
(* in all of them are one operator (TrackTimestamp, TouchInstrument,       *)
(* TrackPrice); what differs, above all how a residual is obtained, is     *)
(* written out three times as it is in the code.                           *)
(*                                                                         *)
(* A field is written as a sequence of tokens: groups of bits, of which    *)
(* only width and value matter, and coded residuals, of which the value,   *)
(* the parameter k and the coder matter.  How bits and residuals are laid  *)
(* out in bytes is not part of this module.                                *)
(***************************************************************************)
EXTENDS Words, Mfu, Sequences

CONSTANTS
    MAX_FIELDS,         \* RESIDC_MAX_FIELDS (32)
    MAX_INSTRUMENTS,    \* RESIDC_MAX_INSTRUMENTS (16384)
    RAW_IDS,            \* ids a raw INSTRUMENT escape can carry (2^14)
    REGIME_WINDOW       \* RESIDC_REGIME_WINDOW (64)

FieldTypes ==
    { "TIMESTAMP", "INSTRUMENT", "PRICE", "QUANTITY", "SEQUENTIAL_ID", "ENUM",
      "BOOL", "CATEGORICAL", "RAW", "DELTA_ID", "DELTA_PRICE", "COMPUTED" }

\* A schema is the sequence of its fields.
Fields(schema) == 1 .. Len(schema)

\* ref is the field a delta refers to, 0 where the C schema has -1.  A RAW
\* or ENUM field of 8 bytes stops a build without NDEBUG (bw_write traps
\* above 56 bits), and a RAW field above 8 bytes is not modelled.
IsSchema(schema) ==
    /\ schema \in Seq([type : FieldTypes, size : {1, 2, 4, 8}, ref : Nat])
    /\ schema # << >>
    /\ Len(schema) <= MAX_FIELDS
    /\ \A fi \in Fields(schema) :
          /\ schema[fi].ref \in 0 .. Len(schema)
          /\ schema[fi].type \in {"RAW", "ENUM"} => schema[fi].size # 8

ASSUME CodecAssumption ==
    /\ MAX_FIELDS \in Nat \ {0}
    /\ MAX_INSTRUMENTS \in 1 .. U16
    /\ RAW_IDS \in 1 .. U16
    /\ U16 <= U32
    /\ REGIME_WINDOW \in Nat \ {0}

Width(schema, fi) ==
    CASE schema[fi].size = 1 -> 256
      [] schema[fi].size = 2 -> U16
      [] schema[fi].size = 4 -> U32
      [] schema[fi].size = 8 -> U64

\* A message is the value of each field; fields do not overlap in the C struct.
Message(schema) == [Fields(schema) -> Word64]
Typed(schema, m) == \A fi \in Fields(schema) : m[fi] \in 0 .. Width(schema, fi) - 1

-----------------------------------------------------------------------------
NULL == -1                          \* is == NULL: no per-instrument state

InstrumentState ==
    [last_price : Word32, last_qty : Word32, msg_count : Word32, last_seq_id : Word64]

FieldState == [last_value : Word64, adapt : Adapt]

\* residc_state_t, without the schema pointers, which nothing below changes,
\* and last_msg_type_index, which only multi-type streams use.
State ==
    [ msg_count            : Word64,
      last_timestamp       : Word64,
      timestamp_gap_ema    : Int64,
      last_timestamp_gap   : Word64,
      ts_adapt             : Adapt,
      last_instrument_id   : Instrument,
      mfu                  : Table,
      mfu_decay_counter    : 0 .. DECAY_PERIOD - 1,
      regime               : {"calm", "volatile"},
      regime_counter       : 0 .. REGIME_WINDOW - 1,
      recent_abs_price_sum : Word32,
      price_adapt          : Adapt,
      qty_adapt            : Adapt,
      field_state          : [1 .. MAX_FIELDS -> FieldState],
      instruments          : [0 .. MAX_INSTRUMENTS - 1 -> InstrumentState],
      residual_coder       : {"tiered", "expgolomb"} ]

\* A codec within a message: its state and the field loop's variable is.
Cursor == [st : State, is : (0 .. MAX_INSTRUMENTS - 1) \cup {NULL}]

\* residc_init, and residc_reset, which also falls back to the tiered coder.
InitState ==
    [ msg_count            |-> 0,
      last_timestamp       |-> 0,
      timestamp_gap_ema    |-> 0,
      last_timestamp_gap   |-> 0,
      ts_adapt             |-> NoSamples,
      last_instrument_id   |-> 0,
      mfu                  |-> MfuInit,
      mfu_decay_counter    |-> 0,
      regime               |-> "calm",
      regime_counter       |-> 0,
      recent_abs_price_sum |-> 0,
      price_adapt          |-> NoSamples,
      qty_adapt            |-> NoSamples,
      field_state          |-> [fi \in 1 .. MAX_FIELDS |-> [last_value |-> 0, adapt |-> NoSamples]],
      instruments          |-> [i \in 0 .. MAX_INSTRUMENTS - 1 |->
                                   [last_price |-> 0, last_qty |-> 0,
                                    msg_count |-> 0, last_seq_id |-> 0]],
      residual_coder       |-> "tiered" ]

SetCoder(st, coder) == [st EXCEPT !.residual_coder = coder]

Start(st) == [st |-> st, is |-> NULL]

-----------------------------------------------------------------------------
(* Tokens. *)

Bits(n, v)            == [code |-> "bits", n |-> n, v |-> v]
Residual(coder, k, v) == [code |-> coder,  n |-> k, v |-> v]

TieredBits(k, v) ==
    LET zz == ZigZag(v)
    IN  CASE zz < 2 ^ k                              -> 1 + k
          [] 2 ^ k <= zz /\ zz < 2 ^ (k + 2)         -> 2 + k + 2
          [] 2 ^ (k + 2) <= zz /\ zz < 2 ^ (k + 5)   -> 3 + k + 5
          [] 2 ^ (k + 5) <= zz /\ zz < 2 ^ (k + 10)  -> 4 + k + 10
          [] OTHER                                   -> 4 + 32 + 32

ExpGolombBits(k, v) ==
    LET q == Log2(ZigZag(v) + 2 ^ k) - k
    IN  IF q > 31 THEN 32 + 32 + 32 ELSE q + 1 + q + k

TokenBits(t) ==
    CASE t.code = "bits"      -> t.n
      [] t.code = "tiered"    -> TieredBits(t.n, t.v)
      [] t.code = "expgolomb" -> ExpGolombBits(t.n, t.v)

WordBits(w) ==
    LET sum[i \in 0 .. Len(w)] == IF i = 0 THEN 0 ELSE sum[i - 1] + TokenBits(w[i])
    IN  sum[Len(w)]

RawSize(schema) ==
    LET size[i \in 0 .. Len(schema)] ==
            IF i = 0 THEN 0
            ELSE size[i - 1] + (IF schema[i].type = "COMPUTED" THEN 0 ELSE schema[i].size)
    IN  size[Len(schema)]

\* encode_mfu_rank: a prefix code, so the index is read back as written.
RankToken(rank) ==
    Bits(IF rank < 4 THEN 3 ELSE IF rank < 16 THEN 6 ELSE IF rank < 64 THEN 9 ELSE 11, rank)

\* decode_mfu_rank, clamped to the table.
TokenRank(t) == IF t.v >= MFU_SIZE THEN MFU_SIZE - 1 ELSE t.v

-----------------------------------------------------------------------------
(* Predictions and the parameter k, from the state before the field. *)

ByRegime(st, calm, volatile) == IF st.regime = "volatile" THEN volatile ELSE calm

TimestampK(st) ==
    LET k == ByRegime(st, 10, 8) IN AdaptiveK(st.ts_adapt, k, k + 10)
PriceK(st) ==
    LET k == ByRegime(st, 3, 7) IN AdaptiveK(st.price_adapt, k, k + 10)
QuantityK(st) ==
    LET k == ByRegime(st, 4, 7) IN AdaptiveK(st.qty_adapt, k, k + 10)
SeqidK(st, fi) ==
    LET k == ByRegime(st, 3, 5) IN AdaptiveK(st.field_state[fi].adapt, k, k + 10)
DeltaIdK(st) == ByRegime(st, 3, 5)

FieldK(st, schema, fi) ==
    CASE schema[fi].type = "TIMESTAMP"                  -> TimestampK(st)
      [] schema[fi].type \in {"PRICE", "DELTA_PRICE"}   -> PriceK(st)
      [] schema[fi].type = "QUANTITY"                   -> QuantityK(st)
      [] schema[fi].type = "SEQUENTIAL_ID"              -> SeqidK(st, fi)
      [] schema[fi].type = "DELTA_ID"                   -> DeltaIdK(st)
      [] OTHER                                          -> 0

PredictedGap(st) ==
    LET gap == st.timestamp_gap_ema \div 65536 IN IF gap < 0 THEN 0 ELSE gap

Seen(c) == c.is # NULL /\ c.st.instruments[c.is].msg_count > 0

PredictedPrice(c)    == IF Seen(c) THEN c.st.instruments[c.is].last_price ELSE 0
PredictedQuantity(c) == IF Seen(c) THEN c.st.instruments[c.is].last_qty ELSE 100

PredictedId(c, fi) ==
    IF c.is # NULL /\ c.st.instruments[c.is].last_seq_id > 0
    THEN c.st.instruments[c.is].last_seq_id
    ELSE c.st.field_state[fi].last_value

\* The value a delta is taken from; m is the message as far as it is known.
IdReference(c, schema, fi, m) ==
    IF schema[fi].ref > 0 THEN m[schema[fi].ref] ELSE c.st.field_state[fi].last_value
PriceReference(c, schema, fi, m) ==
    IF schema[fi].ref > 0 THEN m[schema[fi].ref]
    ELSE IF c.is # NULL THEN c.st.instruments[c.is].last_price ELSE 0

Repeated(c, fi, val) ==
    val = c.st.field_state[fi].last_value /\ c.st.msg_count > 0

-----------------------------------------------------------------------------
(* State updates that are the same text in all three functions. *)

TrackTimestamp(c, ts, gap, residual) ==
    [c EXCEPT !.st.ts_adapt           = AdaptiveUpdate(@, ZigZag(residual)),
              !.st.timestamp_gap_ema  = Signed(@ + Signed(ShiftQ16(gap) - @) \div 4),
              !.st.last_timestamp     = ts,
              !.st.last_timestamp_gap = Unsigned(gap)]

TouchInstrument(c, id) ==
    LET decay == c.st.mfu_decay_counter + 1 >= DECAY_PERIOD
        mfu   == Update(c.st.mfu, id)
    IN  [ st |-> [c.st EXCEPT
                    !.mfu = IF decay THEN Decay(mfu) ELSE mfu,
                    !.mfu_decay_counter = IF decay THEN 0 ELSE @ + 1,
                    !.last_instrument_id = id],
          is |-> IF id < MAX_INSTRUMENTS THEN id ELSE NULL ]

TrackPrice(c, price, residual, coded) ==
    LET abs     == IF residual < 0 THEN -residual ELSE residual
        sum     == (c.st.recent_abs_price_sum + abs) % U32
        full    == c.st.regime_counter + 1 >= REGIME_WINDOW
        tracked == [c EXCEPT
            !.st.price_adapt          = AdaptiveUpdate(@, ZigZag(coded)),
            !.st.recent_abs_price_sum = IF full THEN 0 ELSE sum,
            !.st.regime_counter       = IF full THEN 0 ELSE @ + 1,
            !.st.regime               = IF ~full THEN @
                                        ELSE IF sum \div REGIME_WINDOW > 30
                                        THEN "volatile" ELSE "calm"]
    IN  IF c.is = NULL THEN tracked
        ELSE [tracked EXCEPT !.st.instruments[c.is].last_price = price]

TrackQuantity(c, coded) == [c EXCEPT !.st.qty_adapt = AdaptiveUpdate(@, ZigZag(coded))]

KeepQuantity(c, qty) ==
    IF c.is = NULL THEN c ELSE [c EXCEPT !.st.instruments[c.is].last_qty = qty]

TrackId(c, fi, id, delta) ==
    LET tracked == [c EXCEPT
            !.st.field_state[fi] = [last_value |-> id,
                                    adapt |-> AdaptiveUpdate(@.adapt, ZigZag(delta))]]
    IN  IF c.is = NULL THEN tracked
        ELSE [tracked EXCEPT !.st.instruments[c.is].last_seq_id = id]

KeepValue(c, fi, val) == [c EXCEPT !.st.field_state[fi].last_value = val]

\* After the last field: the counters of the instrument and of the stream.
Finish(c) ==
    LET st == [c.st EXCEPT !.msg_count = (@ + 1) % U64]
    IN  IF c.is = NULL THEN st
        ELSE [st EXCEPT !.instruments[c.is].msg_count = (@ + 1) % U32]
=============================================================================
