----------------------------- MODULE FieldCodec -----------------------------
(***************************************************************************)
(* One iteration of the field loop of encode_fields, decode_fields and     *)
(* commit_state (core/residc.c), per field type.                           *)
(*                                                                         *)
(*   EncodeField(c, schema, fi, m)     [word, next]  what is written, and  *)
(*                                                   the new cursor        *)
(*   DecodeField(c, schema, fi, m, w)  [val, next]   the value read, and   *)
(*                                                   the new cursor        *)
(*   CommitField(c, schema, fi, m)     the new cursor, from a literal      *)
(*                                                                         *)
(* where c is the cursor before field fi, m the message (for the decoder,  *)
(* the fields it has so far) and w the word the encoder wrote.             *)
(***************************************************************************)
EXTENDS Codec

Coded(c, k, v) == Residual(c.st.residual_coder, k, v)

Same      == Bits(1, 0)         \* "same", "in MFU", "penny mode", "round lot"
Different == Bits(1, 1)         \* and their opposites

-----------------------------------------------------------------------------
(* TIMESTAMP *)

EncodeTimestamp(c, ts) ==
    LET gap      == Signed(ts - c.st.last_timestamp)
        residual == Signed(gap - PredictedGap(c.st))
    IN  [ word |-> << Coded(c, TimestampK(c.st), residual) >>,
          next |-> TrackTimestamp(c, ts, gap, residual) ]

DecodeTimestamp(c, w) ==
    LET residual == w[1].v
        gap      == Signed(residual + PredictedGap(c.st))
        ts       == Unsigned(c.st.last_timestamp + gap)
    IN  [ val |-> ts, next |-> TrackTimestamp(c, ts, gap, residual) ]

\* Fault: the literal path does not subtract the predicted gap.
CommitTimestampUnpredicted(c, ts) ==
    LET gap == Signed(ts - c.st.last_timestamp)
    IN  TrackTimestamp(c, ts, gap, gap)

CommitTimestamp(c, ts) ==
    LET gap      == Signed(ts - c.st.last_timestamp)
        residual == Signed(gap - PredictedGap(c.st))
    IN  TrackTimestamp(c, ts, gap, residual)

-----------------------------------------------------------------------------
(* INSTRUMENT: the same as last, else a rank of the MFU table, else raw. *)

EncodeInstrument(c, val) ==
    LET id  == val % U16
        idx == Lookup(c.st.mfu, id)
    IN  [ word |-> IF id = c.st.last_instrument_id /\ c.st.msg_count > 0
                   THEN << Same >>
                   ELSE IF idx >= 0
                   THEN << Different, Same, RankToken(c.st.mfu.idx_to_rank[idx]) >>
                   ELSE << Different, Different, Bits(14, id % RAW_IDS) >>,
          next |-> TouchInstrument(c, id) ]

DecodeInstrument(c, w) ==
    LET id == IF w[1].v = 0 THEN c.st.last_instrument_id
              ELSE IF w[2].v = 0
              THEN c.st.mfu.entries[c.st.mfu.rank_to_idx[TokenRank(w[3])]].instrument_id
              ELSE w[3].v
    IN  [ val |-> id, next |-> TouchInstrument(c, id) ]

CommitInstrument(c, val) == TouchInstrument(c, val % U16)

-----------------------------------------------------------------------------
(* PRICE: whole pennies are coded in pennies. *)

\* Fault: the prediction is not looked at.
PenniesOfPrice(price, predicted) == price % 100 = 0 /\ (price > 0 \/ predicted > 0)

Pennies(price, predicted) ==
    price % 100 = 0 /\ predicted % 100 = 0 /\ (price > 0 \/ predicted > 0)

EncodePrice(c, val) ==
    LET price     == val % U32
        predicted == PredictedPrice(c)
        residual  == price - predicted
        pennies   == Pennies(price, predicted)
        coded     == IF pennies THEN residual \div 100 ELSE residual
    IN  [ word |-> << IF pennies THEN Same ELSE Different,
                      Coded(c, PriceK(c.st), coded) >>,
          next |-> TrackPrice(c, price, residual, coded) ]

DecodePrice(c, w) ==
    LET predicted == PredictedPrice(c)
        residual  == w[2].v
        price     == IF w[1].v = 0
                     THEN (((predicted \div 100 + residual) % U32) * 100) % U32
                     ELSE (predicted + residual) % U32
    IN  [ val |-> price, next |-> TrackPrice(c, price, price - predicted, residual) ]

CommitPrice(c, val) ==
    LET price     == val % U32
        predicted == PredictedPrice(c)
        residual  == price - predicted
        coded     == IF Pennies(price, predicted) THEN residual \div 100 ELSE residual
    IN  TrackPrice(c, price, residual, coded)

-----------------------------------------------------------------------------
(* QUANTITY: as predicted, else in round lots of 100 or as it is. *)

RoundLots(qty, predicted) == qty % 100 = 0 /\ predicted % 100 = 0

EncodeQuantity(c, val) ==
    LET qty       == val % U32
        predicted == PredictedQuantity(c)
        residual  == qty - predicted
        lots      == RoundLots(qty, predicted)
        coded     == IF lots THEN residual \div 100 ELSE residual
    IN  IF residual = 0
        THEN [ word |-> << Same >>, next |-> KeepQuantity(c, qty) ]
        ELSE [ word |-> << Different, IF lots THEN Same ELSE Different,
                           Coded(c, QuantityK(c.st), coded) >>,
               next |-> KeepQuantity(TrackQuantity(c, coded), qty) ]

\* Fault: a predicted quantity is not stored for the instrument.
DecodeQuantityForgets(c, w) ==
    LET predicted == PredictedQuantity(c)
        residual  == w[3].v
        qty       == IF w[2].v = 0
                     THEN (((predicted \div 100 + residual) % U32) * 100) % U32
                     ELSE (predicted + residual) % U32
    IN  IF w[1].v = 0
        THEN [ val |-> predicted, next |-> c ]
        ELSE [ val |-> qty, next |-> KeepQuantity(TrackQuantity(c, residual), qty) ]

DecodeQuantity(c, w) ==
    LET predicted == PredictedQuantity(c)
        residual  == w[3].v
        qty       == IF w[2].v = 0
                     THEN (((predicted \div 100 + residual) % U32) * 100) % U32
                     ELSE (predicted + residual) % U32
    IN  IF w[1].v = 0
        THEN [ val |-> predicted, next |-> KeepQuantity(c, predicted) ]
        ELSE [ val |-> qty, next |-> KeepQuantity(TrackQuantity(c, residual), qty) ]

CommitQuantity(c, val) ==
    LET qty       == val % U32
        predicted == PredictedQuantity(c)
        residual  == qty - predicted
        coded     == IF RoundLots(qty, predicted) THEN residual \div 100 ELSE residual
    IN  KeepQuantity(IF residual # 0 THEN TrackQuantity(c, coded) ELSE c, qty)

-----------------------------------------------------------------------------
(* SEQUENTIAL_ID *)

EncodeSequentialId(c, fi, id) ==
    LET delta == Signed(id - PredictedId(c, fi))
    IN  [ word |-> << Coded(c, SeqidK(c.st, fi), delta) >>,
          next |-> TrackId(c, fi, id, delta) ]

\* Fault: the decoder predicts from the stream, not from the instrument.
DecodeSequentialIdOfStream(c, fi, w) ==
    LET delta == w[1].v
        id    == Unsigned(c.st.field_state[fi].last_value + delta)
    IN  [ val |-> id, next |-> TrackId(c, fi, id, delta) ]

DecodeSequentialId(c, fi, w) ==
    LET delta == w[1].v
        id    == Unsigned(PredictedId(c, fi) + delta)
    IN  [ val |-> id, next |-> TrackId(c, fi, id, delta) ]

\* Fault: the literal path leaves the mean that gives k alone.
CommitSequentialIdValue(c, fi, id) ==
    LET tracked == KeepValue(c, fi, id)
    IN  IF c.is = NULL THEN tracked
        ELSE [tracked EXCEPT !.st.instruments[c.is].last_seq_id = id]

CommitSequentialId(c, fi, id) ==
    TrackId(c, fi, id, Signed(id - PredictedId(c, fi)))

-----------------------------------------------------------------------------
(* ENUM, CATEGORICAL, BOOL, RAW: a flag, bits, or both. *)

EncodeEnum(c, schema, fi, val) ==
    [ word |-> IF Repeated(c, fi, val) THEN << Same >>
               ELSE << Different, Bits(8 * schema[fi].size, val) >>,
      next |-> KeepValue(c, fi, val) ]

DecodeEnum(c, fi, w) ==
    LET val == IF w[1].v = 0 THEN c.st.field_state[fi].last_value ELSE w[2].v
    IN  [ val |-> val, next |-> KeepValue(c, fi, val) ]

EncodeCategorical(c, fi, val) ==
    [ word |-> IF Repeated(c, fi, val) THEN << Same >>
               ELSE << Different, Bits(16, (val \div 65536) % 65536), Bits(16, val % 65536) >>,
      next |-> KeepValue(c, fi, val) ]

DecodeCategorical(c, fi, w) ==
    LET val == IF w[1].v = 0 THEN c.st.field_state[fi].last_value
               ELSE w[2].v * 65536 + w[3].v
    IN  [ val |-> val, next |-> KeepValue(c, fi, val) ]

EncodeBool(c, val) == [ word |-> << Bits(1, val % 2) >>, next |-> c ]
DecodeBool(c, w)   == [ val |-> w[1].v, next |-> c ]

EncodeRaw(c, schema, fi, val) == [ word |-> << Bits(8 * schema[fi].size, val) >>, next |-> c ]
DecodeRaw(c, w)       == [ val |-> w[1].v, next |-> c ]

-----------------------------------------------------------------------------
(* DELTA_ID, DELTA_PRICE: against a field of the same message or the last. *)

EncodeDeltaId(c, schema, fi, m) ==
    [ word |-> << Coded(c, DeltaIdK(c.st), Signed(m[fi] - IdReference(c, schema, fi, m))) >>,
      next |-> KeepValue(c, fi, m[fi]) ]

DecodeDeltaId(c, schema, fi, m, w) ==
    LET val == Unsigned(IdReference(c, schema, fi, m) + w[1].v)
    IN  [ val |-> val, next |-> KeepValue(c, fi, val) ]

EncodeDeltaPrice(c, schema, fi, m) ==
    LET delta == Signed(Signed(m[fi]) - Signed(PriceReference(c, schema, fi, m)))
    IN  [ word |-> << Coded(c, PriceK(c.st), delta) >>, next |-> c ]

DecodeDeltaPrice(c, schema, fi, m, w) ==
    [ val  |-> Unsigned(Signed(Signed(PriceReference(c, schema, fi, m)) + w[1].v)),
      next |-> c ]

-----------------------------------------------------------------------------
EncodeField(c, schema, fi, m) ==
    LET type == schema[fi].type
    IN  CASE type = "TIMESTAMP"     -> EncodeTimestamp(c, m[fi])
          [] type = "INSTRUMENT"    -> EncodeInstrument(c, m[fi])
          [] type = "PRICE"         -> EncodePrice(c, m[fi])
          [] type = "QUANTITY"      -> EncodeQuantity(c, m[fi])
          [] type = "SEQUENTIAL_ID" -> EncodeSequentialId(c, fi, m[fi])
          [] type = "ENUM"          -> EncodeEnum(c, schema, fi, m[fi])
          [] type = "BOOL"          -> EncodeBool(c, m[fi])
          [] type = "CATEGORICAL"   -> EncodeCategorical(c, fi, m[fi])
          [] type = "RAW"           -> EncodeRaw(c, schema, fi, m[fi])
          [] type = "DELTA_ID"      -> EncodeDeltaId(c, schema, fi, m)
          [] type = "DELTA_PRICE"   -> EncodeDeltaPrice(c, schema, fi, m)
          [] type = "COMPUTED"      -> [ word |-> << >>, next |-> c ]

DecodeField(c, schema, fi, m, w) ==
    LET type == schema[fi].type
    IN  CASE type = "TIMESTAMP"     -> DecodeTimestamp(c, w)
          [] type = "INSTRUMENT"    -> DecodeInstrument(c, w)
          [] type = "PRICE"         -> DecodePrice(c, w)
          [] type = "QUANTITY"      -> DecodeQuantity(c, w)
          [] type = "SEQUENTIAL_ID" -> DecodeSequentialId(c, fi, w)
          [] type = "ENUM"          -> DecodeEnum(c, fi, w)
          [] type = "BOOL"          -> DecodeBool(c, w)
          [] type = "CATEGORICAL"   -> DecodeCategorical(c, fi, w)
          [] type = "RAW"           -> DecodeRaw(c, w)
          [] type = "DELTA_ID"      -> DecodeDeltaId(c, schema, fi, m, w)
          [] type = "DELTA_PRICE"   -> DecodeDeltaPrice(c, schema, fi, m, w)
          [] type = "COMPUTED"      -> [ val |-> m[fi], next |-> c ]

CommitField(c, schema, fi, m) ==
    LET type == schema[fi].type
    IN  CASE type = "TIMESTAMP"     -> CommitTimestamp(c, m[fi])
          [] type = "INSTRUMENT"    -> CommitInstrument(c, m[fi])
          [] type = "PRICE"         -> CommitPrice(c, m[fi])
          [] type = "QUANTITY"      -> CommitQuantity(c, m[fi])
          [] type = "SEQUENTIAL_ID" -> CommitSequentialId(c, fi, m[fi])
          [] type \in {"ENUM", "CATEGORICAL", "DELTA_ID"} -> KeepValue(c, fi, m[fi])
          [] OTHER                  -> c

\* write_field: the message with the value of one more field, cut to its size.
WriteField(schema, m, fi, val) == [m EXCEPT ![fi] = val % Width(schema, fi)]

(***************************************************************************)
(* A decoder follows the bits of a word as long as it expects the coder    *)
(* and the k with which each residual was written; flags and widths are    *)
(* the same for both sides by the schema.                                  *)
(***************************************************************************)
Aligned(c, schema, fi, w) ==
    \A i \in DOMAIN w :
        w[i].code # "bits" =>
            w[i].code = c.st.residual_coder /\ w[i].n = FieldK(c.st, schema, fi)

\* What a lossless decode of m looks like: computed fields are not sent.
Wire(schema, m) ==
    [fi \in Fields(schema) |-> IF schema[fi].type = "COMPUTED" THEN 0 ELSE m[fi]]

(***************************************************************************)
(* The messages the format can carry: an instrument id in 14 bits, prices, *)
(* quantities and categories in 32, a flag in one, and a delta taken from  *)
(* a field that the decoder has by then.  The code checks none of it.      *)
(***************************************************************************)
Representable(schema, m) ==
    \A fi \in Fields(schema) :
        LET type == schema[fi].type
            ref  == schema[fi].ref
        IN  /\ type = "INSTRUMENT" => m[fi] < RAW_IDS
            /\ type \in {"PRICE", "QUANTITY", "CATEGORICAL"} => m[fi] < U32
            /\ type = "BOOL" => m[fi] < 2
            /\ type \in {"DELTA_ID", "DELTA_PRICE"} /\ ref > 0 =>
                   ref < fi /\ schema[ref].type # "COMPUTED"
=============================================================================
