---------------------------- MODULE Predictions ----------------------------
(***************************************************************************)
(* bench/experiment_prediction.c: other predictors, each put in the place  *)
(* of one predictor of the codec and compared with it by the bytes it      *)
(* would write.  Every experiment codes messages by hand, from a codec     *)
(* state it moves with a hand-written copy of commit_state and from state  *)
(* of its own, and nothing decodes what it writes.                         *)
(*                                                                         *)
(* Schema is that of quotes or of trades; fields 1 to 4 of both are the    *)
(* timestamp, the instrument, the price and the quantity.                  *)
(***************************************************************************)
EXTENDS Experiments

CONSTANTS
    INDEX_BITS,     \* RESIDC_MFU_INDEX_BITS (8)
    QF_PERIOD,      \* updates between two halvings of a qfreq_t (5000)
    Predicting      \* the experiments that run

Quoting ==
    {"stock", "timestamp_lastgap", "price_stride", "quantity_freq", "instrument_2back"}

\* The generators draw their instruments from the first fifty, so the
\* experiments always have an instrument's state.  Counts of quantities, which
\* are halved in time, have 16 bits.
ASSUME PredictionsAssumption ==
    /\ INDEX_BITS \in Nat /\ MFU_SIZE <= 2 ^ INDEX_BITS
    /\ QF_PERIOD \in Nat \ {0, 1} /\ 2 * QF_PERIOD < U16
    /\ Predicting \subseteq Quoting \cup {"seqid_perdelta"}
    /\ \A p \in Predicting :
          /\ SchemaOf[p] = IF p \in Quoting THEN QuoteSchema ELSE TradeSchema
          /\ Generators(p)
          /\ \A t \in MessagesOf[p] : t[2] < MAX_INSTRUMENTS

Ids == 0 .. MAX_INSTRUMENTS - 1

VARIABLES
    total,          \* bytes of its frames
    core, base      \* the state of residc_encode, and the bytes of its frames

NoQuantities == [qty |-> [i \in 1 .. 4 |-> 0], cnt |-> [i \in 1 .. 4 |-> 0], updates |-> 0]

FreshPredictor(e) ==
    CASE e = "timestamp_lastgap" -> [gap |-> 0, adapt |-> NoSamples]
      [] e = "price_stride"      -> [id \in Ids |-> [last |-> 0, second_last |-> 0, cnt |-> 0]]
      [] e = "quantity_freq"     -> [id \in Ids |-> NoQuantities]
      [] e = "instrument_2back"  -> [second_last |-> 0]
      [] e = "seqid_perdelta"    -> [sq |-> [id \in Ids |-> [last |-> 0, typical |-> 0, cnt |-> 0]],
                                     g_last |-> 0, g_typical |-> 1]
      [] OTHER                   -> << >>

PredictionsInit ==
    /\ Begin(Predicting)
    /\ own = FreshPredictor(program)
    /\ total = 0
    /\ core = InitState
    /\ base = 0

-----------------------------------------------------------------------------
(* The fields as the manual copies write them: always tiered, k for prices *)
(* and quantities by the regime alone, the slot of the table instead of    *)
(* the rank.                                                               *)

Tiered(k, v) == Residual("tiered", k, v)
At(m)        == [st |-> enc, is |-> m[2]]
Gap(m)       == Signed(m[1] - enc.last_timestamp)

StockTimestamp(m) == << Tiered(TimestampK(enc), Signed(Gap(m) - PredictedGap(enc))) >>

TableIndex(m) ==
    LET mi == Lookup(enc.mfu, m[2])
    IN  IF mi >= 0 THEN << Same, Bits(INDEX_BITS, mi) >> ELSE << Different, Bits(14, m[2]) >>

LikeLast(m) == m[2] = enc.last_instrument_id /\ enc.msg_count > 0

StockInstrument(m) == IF LikeLast(m) THEN << Same >> ELSE << Different >> \o TableIndex(m)

PriceAgainst(m, predicted) ==
    LET kp       == ByRegime(enc, 3, 7)
        residual == m[3] - predicted
    IN  IF Pennies(m[3], predicted) THEN << Same, Tiered(kp, residual \div 100) >>
                                    ELSE << Different, Tiered(kp, residual) >>

StockPrice(m) == PriceAgainst(m, PredictedPrice(At(m)))

StockQuantity(m) ==
    LET kq        == ByRegime(enc, 4, 7)
        predicted == PredictedQuantity(At(m))
        residual  == m[4] - predicted
    IN  IF residual = 0 THEN << Same >>
        ELSE IF RoundLots(m[4], predicted)
        THEN << Different, Same, Tiered(kq, residual \div 100) >>
        ELSE << Different, Different, Tiered(kq, residual) >>

Side(m) == << Bits(1, Last(m) % 2) >>

\* Frame sizes: the marker and the payload, or the message as it is.
FrameSize(bits) ==
    LET plen == Bytes(bits)
    IN  1 + (IF plen >= RawSize(Schema) \/ plen >= 254 THEN RawSize(Schema) ELSE plen)

\* Fault: the price is stored before the residual is taken from it.
CommitInstrumentStateEarly(st, m) ==
    LET price == m[3]
        is    == st.instruments[m[2]]
        sum   == st.recent_abs_price_sum
        full  == st.regime_counter + 1 >= REGIME_WINDOW
    IN  [st EXCEPT
            !.recent_abs_price_sum = IF full THEN 0 ELSE sum,
            !.regime_counter       = IF full THEN 0 ELSE @ + 1,
            !.regime               = IF full THEN "calm" ELSE @,
            !.instruments[m[2]]    = [is EXCEPT
                                 !.last_price = price, !.last_qty = m[4],
                                 !.msg_count  = (is.msg_count + 1) % U32]]

\* Price, quantity and regime in the copies of commit_state.
CommitInstrumentState(st, m) ==
    LET price == m[3]
        is    == st.instruments[m[2]]
        was   == PredictedPrice([st |-> st, is |-> m[2]])
        abs   == IF price < was THEN was - price ELSE price - was
        sum   == (st.recent_abs_price_sum + abs) % U32
        full  == st.regime_counter + 1 >= REGIME_WINDOW
    IN  [st EXCEPT
            !.recent_abs_price_sum = IF full THEN 0 ELSE sum,
            !.regime_counter       = IF full THEN 0 ELSE @ + 1,
            !.regime               = IF ~full THEN @
                                     ELSE IF sum \div REGIME_WINDOW > 30
                                     THEN "volatile" ELSE "calm",
            !.instruments[m[2]]    = [is EXCEPT
                                 !.last_price = price, !.last_qty = m[4],
                                 !.msg_count  = (is.msg_count + 1) % U32]]

\* The decay of the copies halves the counts and leaves the ranks.
HalveCounts(mfu) ==
    [mfu EXCEPT !.entries = [i \in Slots |->
        IF i < mfu.num_entries THEN [mfu.entries[i] EXCEPT !.count = @ \div 2]
                               ELSE mfu.entries[i]]]

CommitTable(st, m) ==
    LET mfu   == Update(st.mfu, m[2])
        decay == st.mfu_decay_counter + 1 >= DECAY_PERIOD
    IN  [st EXCEPT !.mfu                = IF decay THEN HalveCounts(mfu) ELSE mfu,
                   !.mfu_decay_counter  = IF decay THEN 0 ELSE @ + 1,
                   !.last_instrument_id = m[2]]

CommitTime(st, m) ==
    LET gap == Signed(m[1] - st.last_timestamp)
    IN  TrackTimestamp([st |-> st, is |-> m[2]], m[1], gap, Signed(gap - PredictedGap(st))).st

\* commit_quote
CommitQuote(m) ==
    [CommitInstrumentState(CommitTable(CommitTime(enc, m), m), m)
        EXCEPT !.msg_count = (@ + 1) % U64]

-----------------------------------------------------------------------------
(* What each experiment writes. *)

\* encode_quote_stock
StockWord(m) ==
    StockTimestamp(m) \o StockInstrument(m) \o StockPrice(m) \o StockQuantity(m) \o Side(m)

LastGapResidual(m) == Signed(Gap(m) - (IF enc.msg_count = 0 THEN 0 ELSE own.gap))

LastGapWord(m) ==
    LET kt == ByRegime(enc, 10, 8)
    IN  << Tiered(AdaptiveK(own.adapt, kt, kt + 10), LastGapResidual(m)) >>
            \o StockInstrument(m) \o StockPrice(m) \o StockQuantity(m) \o Side(m)

\* Twice the last price less the one before, which must not be negative.
StridePrice(si) ==
    LET stride == 2 * si.last - si.second_last
    IN  IF si.cnt >= 2 THEN (IF stride > 0 THEN stride ELSE 0) % U32
        ELSE IF si.cnt > 0 THEN si.last ELSE 0

StrideWord(m) ==
    StockTimestamp(m) \o StockInstrument(m) \o PriceAgainst(m, StridePrice(own[m[2]]))
        \o StockQuantity(m) \o Side(m)

\* qf_lookup: the first live slot that holds qty, 0 if none.
QfLookup(f, qty) ==
    LET hits == {i \in 1 .. 4 : f.cnt[i] > 0 /\ f.qty[i] = qty}
    IN  IF hits = {} THEN 0 ELSE Min(hits)

FreqWord(m) ==
    LET fi == IF Seen(At(m)) THEN QfLookup(own[m[2]], m[4]) ELSE 0
    IN  StockTimestamp(m) \o StockInstrument(m) \o StockPrice(m)
            \o (IF fi > 0 THEN << Same, Bits(2, fi - 1) >> ELSE << Different >> \o StockQuantity(m))
            \o Side(m)

\* Fault: the flag that it is not the one before the last is left out.
TwoBackWordUnflagged(m) ==
    StockTimestamp(m)
        \o (IF LikeLast(m) THEN << Same >>
            ELSE IF m[2] = own.second_last /\ enc.msg_count > 1 THEN << Different, Same >>
            ELSE << Different >> \o TableIndex(m))
        \o StockPrice(m) \o StockQuantity(m) \o Side(m)

TwoBackWord(m) ==
    StockTimestamp(m)
        \o (IF LikeLast(m) THEN << Same >>
            ELSE IF m[2] = own.second_last /\ enc.msg_count > 1 THEN << Different, Same >>
            ELSE << Different, Different >> \o TableIndex(m))
        \o StockPrice(m) \o StockQuantity(m) \o Side(m)

\* The last id of the instrument, else of the stream, and its usual step.
TypicalId(si) ==
    IF si.cnt > 0 /\ si.last > 0 THEN Unsigned(si.last + si.typical)
    ELSE IF own.g_last > 0 THEN Unsigned(own.g_last + own.g_typical) ELSE 0

CategoryWord(m, fi) ==
    IF Repeated(At(m), fi, m[fi]) THEN << Same >>
    ELSE << Different, Bits(16, m[fi] \div 65536), Bits(16, m[fi] % 65536) >>

SeqidWord(m) ==
    StockTimestamp(m) \o StockInstrument(m) \o StockPrice(m) \o StockQuantity(m)
        \o << Tiered(ByRegime(enc, 3, 5), Signed(m[5] - TypicalId(own.sq[m[2]]))) >>
        \o CategoryWord(m, 6) \o CategoryWord(m, 7) \o Side(m)

Word(m) ==
    CASE program = "stock"             -> StockWord(m)
      [] program = "timestamp_lastgap" -> LastGapWord(m)
      [] program = "price_stride"      -> StrideWord(m)
      [] program = "quantity_freq"     -> FreqWord(m)
      [] program = "instrument_2back"  -> TwoBackWord(m)
      [] program = "seqid_perdelta"    -> SeqidWord(m)

-----------------------------------------------------------------------------
(* How each goes on. *)

\* One iteration of measure_baseline.
MeasureBaseline(m) ==
    \E e \in {EncodeFields(core, Schema, m)} :
        /\ core' = e.st
        /\ base' = base + FrameSize(PayloadBits(e.words))

\* The loop around every experiment.
Measure(e, m) ==
    /\ Loop(e, m)
    /\ total' = total + FrameSize(WordBits(Word(m)))
    /\ MeasureBaseline(m)

\* main, "Verify manual baseline matches stock"
Stock(m) ==
    /\ Measure("stock", m)
    /\ enc' = CommitQuote(m)
    /\ UNCHANGED own

\* Fault: the gap is not kept.
TimestampLastgapLate(m) ==
    /\ Measure("timestamp_lastgap", m)
    /\ own' = [gap |-> 0, adapt |-> AdaptiveUpdate(own.adapt, ZigZag(LastGapResidual(m)))]
    /\ enc' = CommitQuote(m)

TimestampLastgap(m) ==
    /\ Measure("timestamp_lastgap", m)
    /\ own' = [gap   |-> IF Gap(m) > 0 THEN Gap(m) ELSE 0,
               adapt |-> AdaptiveUpdate(own.adapt, ZigZag(LastGapResidual(m)))]
    /\ enc' = CommitQuote(m)

PriceStride(m) ==
    /\ Measure("price_stride", m)
    /\ own' = [own EXCEPT ![m[2]] = [last |-> m[3], second_last |-> @.last, cnt |-> @.cnt + 1]]
    /\ enc' = CommitQuote(m)

\* "while (i > 0 && cnt[i] > cnt[i-1])": the slot is counted and moves up
\* past all that have been counted less often.
QfCount(f, i) ==
    LET to == Min({j \in 1 .. i : \A l \in j .. i - 1 : f.cnt[l] < f.cnt[i] + 1})
        Moved(s, v) == [l \in 1 .. 4 |-> IF l = to THEN v
                                         ELSE IF l \in to + 1 .. i THEN s[l - 1] ELSE s[l]]
    IN  [f EXCEPT !.qty = Moved(@, f.qty[i]), !.cnt = Moved(@, f.cnt[i] + 1)]

\* qf_update: a quantity that is new may only take the last slot.
QfUpdate(f, qty) ==
    LET i    == QfLookup(f, qty)
        kept == IF i > 0 THEN QfCount(f, i)
                ELSE IF f.cnt[4] <= 1 THEN [f EXCEPT !.qty[4] = qty, !.cnt[4] = 1]
                ELSE f
    IN  IF f.updates + 1 >= QF_PERIOD
        THEN [kept EXCEPT !.cnt = [l \in 1 .. 4 |-> @[l] \div 2], !.updates = 0]
        ELSE [kept EXCEPT !.updates = @ + 1]

QuantityFreq(m) ==
    /\ Measure("quantity_freq", m)
    /\ own' = [own EXCEPT ![m[2]] = QfUpdate(@, m[4])]
    /\ enc' = CommitQuote(m)

Instrument2back(m) ==
    /\ Measure("instrument_2back", m)
    /\ own' = [second_last |-> enc.last_instrument_id]
    /\ enc' = CommitQuote(m)

\* The copy of commit_state for trades, at the end of the loop.
CommitTrade(m) ==
    LET st    == CommitInstrumentState(CommitTable(CommitTime(enc, m), m), m)
        c     == [st |-> st, is |-> m[2]]
        delta == Signed(m[5] - PredictedId(c, 5))
    IN  [KeepValue(KeepValue(TrackId(c, 5, m[5], delta), 6, m[6]), 7, m[7]).st
            EXCEPT !.msg_count = (@ + 1) % U64]

SeqidPerdelta(m) ==
    LET si   == own.sq[m[2]]
        seq  == m[5]
        step == IF own.g_last > 0 THEN Signed(seq - own.g_last) ELSE 1
    IN  /\ Measure("seqid_perdelta", m)
        /\ own' = [ sq |-> [own.sq EXCEPT ![m[2]] =
                        [ last    |-> seq,
                          typical |-> IF si.last > 0
                                      THEN si.typical + (Signed(seq - si.last) - si.typical) \div 4
                                      ELSE 1,
                          cnt     |-> si.cnt + 1 ]],
                    g_last    |-> seq,
                    g_typical |-> own.g_typical + (step - own.g_typical) \div 4 ]
        /\ enc' = CommitTrade(m)

PredictionsNext ==
    \E t \in Templates : \E m \in {Generated(t)} :
        \/ Stock(m) \/ TimestampLastgap(m) \/ PriceStride(m) \/ QuantityFreq(m)
        \/ Instrument2back(m) \/ SeqidPerdelta(m)

-----------------------------------------------------------------------------
(* What module Benchmarks states of the experiments that run. *)

\* The codec states are of their types, and so are the counts of quantities.
PredictionsTyped ==
    /\ enc \in State /\ core \in State
    /\ program = "quantity_freq" => \A id \in Ids :
          \A i \in 1 .. 4 : own[id].cnt[i] \in Count
    /\ Len(sent) <= MAX_MSGS

\* Nothing decodes what an experiment writes, so what it saves could be bits
\* that a decoder needs: two messages that may come next differ first in the
\* value of one token, of a width and a k that the decoder knows.
DifferInOneValue ==
    \A t, u \in Templates : t # u =>
        \E v \in {Word(Generated(t))}, w \in {Word(Generated(u))} :
            LET same == {i \in 0 .. Len(v) : i <= Len(w) /\ \A j \in 1 .. i : v[j] = w[j]}
                i    == Max(same) + 1
            IN  /\ i <= Len(v) /\ i <= Len(w)
                /\ v[i].code = w[i].code /\ v[i].n = w[i].n

\* An experiment is compared with the codec, so all predictors but its own
\* must predict as the codec does after the same messages.  Its state is not
\* the same: the copies leave out what only the codec's k and ranks need.
PredictsAlike ==
    /\ PredictedGap(enc) = PredictedGap(core) /\ TimestampK(enc) = TimestampK(core)
    /\ enc.last_timestamp = core.last_timestamp /\ enc.regime = core.regime
    /\ enc.last_instrument_id = core.last_instrument_id /\ enc.msg_count = core.msg_count
    /\ \A id \in Ids : Lookup(enc.mfu, id) = Lookup(core.mfu, id)
    /\ enc.instruments = core.instruments
    /\ \A fi \in Fields(Schema) :
          Schema[fi].type \in {"SEQUENTIAL_ID", "CATEGORICAL"} =>
              enc.field_state[fi] = core.field_state[fi]

\* Places in sent: those of an instrument's messages, all but the latest of
\* some, and a field of the latest, 0 if there is none.
OfInstrument(id) == {n \in DOMAIN sent : sent[n][2] = id}
Earlier(S)       == {n \in S : \E l \in S : n < l}
LastOf(S, fi)    == IF S = {} THEN 0 ELSE sent[Max(S)][fi]

\* The own state of an experiment is what its predictor is named for: the
\* last gap, the last two prices of each instrument, the instrument before
\* the last, the last id of each instrument.
OwnHistory ==
    /\ program = "timestamp_lastgap" =>
          own.gap = LastOf(DOMAIN sent, 1) - LastOf(Earlier(DOMAIN sent), 1)
    /\ program = "price_stride" => \A id \in Ids : \E S \in {OfInstrument(id)} :
          own[id] = [last        |-> LastOf(S, 3),
                     second_last |-> LastOf(Earlier(S), 3),
                     cnt         |-> Cardinality(S)]
    /\ program = "instrument_2back" => own.second_last = LastOf(Earlier(DOMAIN sent), 2)
    /\ program = "seqid_perdelta" =>
          /\ own.g_last = LastOf(DOMAIN sent, 5)
          /\ \A id \in Ids : own.sq[id].last = LastOf(OfInstrument(id), 5)

\* A quantity is in one slot only, the slots are in the order of their counts
\* but for a new quantity in the last one, and no count is above the number
\* of times that the quantity was sent: an index names one quantity.
QuantityTable ==
    program = "quantity_freq" => \A id \in Ids :
        LET f    == own[id]
            live == {i \in 1 .. 4 : f.cnt[i] > 0}
        IN  /\ \A i, j \in live : f.qty[i] = f.qty[j] => i = j
            /\ f.cnt[1] >= f.cnt[2] /\ f.cnt[2] >= f.cnt[3]
            /\ f.cnt[4] <= f.cnt[3] \/ f.cnt[4] = 1
            /\ \A i \in live :
                  f.cnt[i] <= Cardinality({n \in OfInstrument(id) : sent[n][4] = f.qty[i]})
=============================================================================
