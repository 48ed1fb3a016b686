------------------------------ MODULE Measures ------------------------------
(***************************************************************************)
(* The programs in bench/ that look into the codec from outside: they run  *)
(* residc_encode over messages and, before each, work out from its state   *)
(* what it is about to write.                                              *)
(*                                                                         *)
(*   ans             extract_residuals_generic of experiment_ans.c         *)
(*   combined_write  extract_residuals and run_bench of                    *)
(*                   experiment_combined_write.c                           *)
(*   k_sweep         extract_field_residuals of experiment_k_sweep.c       *)
(*   mfu_varlen      analyze_mfu_distribution of experiment_mfu_varlen.c   *)
(*   qty_runs        analyze_repeats and measure_qty_bits of               *)
(*                   experiment_qty_runs.c                                 *)
(*                                                                         *)
(* The last two read quotes, of which field 2 is the instrument and field  *)
(* 4 the quantity; no schema of these programs has a delta.                *)
(***************************************************************************)
EXTENDS Experiments

CONSTANTS
    SCRATCH,        \* RESIDC_SCRATCH_BYTES (320)
    N_INSTR,        \* instruments of qty_runs (50)
    RUN,            \* QTY_RUN_THRESHOLD (4)
    Measuring       \* the programs that run

ResidualFields == {"TIMESTAMP", "PRICE", "QUANTITY", "SEQUENTIAL_ID"}

\* run_bench leaves 40 bytes of the scratch buffer for one message, whose
\* residuals take 4 bits and a word each at most.
ASSUME MeasuresAssumption ==
    /\ SCRATCH \in Nat /\ SCRATCH > 40 /\ N_INSTR \in Nat /\ RUN \in Nat \ {0}
    /\ Measuring \subseteq {"ans", "combined_write", "k_sweep", "mfu_varlen", "qty_runs"}
    /\ \A p \in Measuring :
          /\ Generators(p)
          /\ \A fi \in Fields(SchemaOf[p]) :
                SchemaOf[p][fi].type \notin {"DELTA_ID", "DELTA_PRICE"}
          /\ p \in {"mfu_varlen", "qty_runs"} => SchemaOf[p] = QuoteSchema

VARIABLE
    wrote       \* history: the words residc_encode wrote for each message

Instruments == 0 .. N_INSTR - 1

FreshMeasures(p) ==
    CASE p = "ans"            -> [residuals |-> << >>]
      [] p = "combined_write" -> [residuals |-> << >>, bits |-> 0, lost |-> FALSE]
      [] p = "k_sweep"        -> [type \in ResidualFields |-> << >>]
      [] p = "mfu_varlen"     -> [same |-> 0, hit |-> 0, raw |-> 0, hist |-> [i \in Slots |-> 0]]
      [] p = "qty_runs"       ->
            [ instr |-> [id \in Instruments |-> [last_qty |-> 0, msg_count |-> 0, total_same |-> 0,
                                         run_length |-> 0, in_run |-> 0]],
              qis   |-> [id \in Instruments |-> [last_qty |-> 0, msg_count |-> 0, repeat |-> 0]],
              total_same |-> 0, total_in_run |-> 0 ]

MeasuresInit ==
    /\ Begin(Measuring)
    /\ own = FreshMeasures(program)
    /\ wrote = << >>

-----------------------------------------------------------------------------
(* Three copies of the prediction logic. *)

\* The variable is, in the field loop of m before field fi.
InLoop(m, fi) ==
    LET ids == {m[i] % U16 : i \in {j \in 1 .. fi - 1 : Schema[j].type = "INSTRUMENT"}}
    IN  [st |-> enc, is |-> IF ids # {} /\ Max(ids) < MAX_INSTRUMENTS THEN Max(ids) ELSE NULL]

TimestampResidual(ts) == Signed(Signed(ts - enc.last_timestamp) - PredictedGap(enc))

PriceResidual(c, price) ==
    LET predicted == PredictedPrice(c)
    IN  IF Pennies(price, predicted) THEN (price - predicted) \div 100 ELSE price - predicted

\* Fault: round lots are not divided.
QuantityResidualUnscaled(c, qty) ==
    LET residual == qty - PredictedQuantity(c)
    IN  IF residual = 0 THEN << >> ELSE << residual >>

\* None if the quantity is as predicted.
QuantityResidual(c, qty) ==
    LET predicted == PredictedQuantity(c)
        residual  == qty - predicted
    IN  IF residual = 0 THEN << >>
        ELSE << IF RoundLots(qty, predicted) THEN residual \div 100 ELSE residual >>

FieldResidual(m, fi) ==
    LET c    == InLoop(m, fi)
        type == Schema[fi].type
    IN  CASE type = "TIMESTAMP"     -> << TimestampResidual(m[fi]) >>
          [] type = "PRICE"         -> << PriceResidual(c, m[fi]) >>
          [] type = "QUANTITY"      -> QuantityResidual(c, m[fi])
          [] type = "SEQUENTIAL_ID" -> << Signed(m[fi] - PredictedId(c, fi)) >>
          [] OTHER                  -> << >>

MessageResiduals(m) == FlattenSeq([fi \in Fields(Schema) |-> FieldResidual(m, fi)])

\* All programs end an iteration with residc_encode.
Encode(p, m) ==
    /\ Loop(p, m)
    /\ \E e \in {EncodeFields(enc, Schema, m)} : enc' = e.st /\ wrote' = Append(wrote, e.words)

ExtractResidualsGeneric(m) ==
    /\ Encode("ans", m)
    /\ own' = [residuals |-> Append(own.residuals, MessageResiduals(m))]

ExtractFieldResiduals(m) ==
    /\ Encode("k_sweep", m)
    /\ own' = [type \in ResidualFields |->
                  own[type] \o FlattenSeq([fi \in Fields(Schema) |->
                      IF Schema[fi].type = type THEN FieldResidual(m, fi) ELSE << >>])]

\* "Periodically flush to avoid overflow": compared and begun anew.
Flush(bits) == IF bits \div 8 > SCRATCH - 40 THEN 0 ELSE bits

\* The bits of these residuals.
Cost(residuals) == WordBits([i \in DOMAIN residuals |-> Residual("tiered", 3, residuals[i])])

\* extract_residuals, and the writes of the identity check of run_bench for
\* the same message; bw_write drops what does not fit.
ExtractResiduals(m) ==
    \E residuals \in {MessageResiduals(m)} :
        /\ Encode("combined_write", m)
        /\ own' = [ residuals |-> Append(own.residuals, residuals),
                    bits      |-> Flush(own.bits + Cost(residuals)),
                    lost      |-> own.lost \/ own.bits + Cost(residuals) > 8 * SCRATCH ]

-----------------------------------------------------------------------------
(* Which way an instrument is written. *)

CountInstrument(count, id) ==
    LET idx == Lookup(enc.mfu, id)
    IN  IF id = enc.last_instrument_id /\ enc.msg_count > 0 THEN [count EXCEPT !.same = @ + 1]
        ELSE IF idx >= 0 THEN [count EXCEPT !.hit = @ + 1, !.hist[idx] = @ + 1]
        ELSE [count EXCEPT !.raw = @ + 1]

AnalyzeMfuDistribution(m) ==
    /\ Encode("mfu_varlen", m)
    /\ own' = CountInstrument(own, m[2])

-----------------------------------------------------------------------------
(* How often a quantity is repeated, counted in two ways. *)

AnalyzeRepeats(instr, id, qty) ==
    LET a   == instr[id]
        is  == a.msg_count > 0 /\ qty = a.last_qty
        run == IF is THEN a.run_length + 1 ELSE 0
    IN  IF id >= N_INSTR THEN instr
        ELSE [instr EXCEPT ![id] =
                [ last_qty   |-> qty,
                  msg_count  |-> a.msg_count + 1,
                  total_same |-> a.total_same + (IF is THEN 1 ELSE 0),
                  run_length |-> run,
                  in_run     |-> a.in_run + (IF run >= RUN THEN 1 ELSE 0) ]]

RepeatCount(q, qty) ==
    IF q.msg_count = 0 THEN q.repeat
    ELSE IF qty = q.last_qty THEN q.repeat + 1 ELSE 0

MeasureQtyBits(found, id, qty) ==
    LET q      == found.qis[id]
        same   == q.msg_count > 0 /\ qty = q.last_qty
        repeat == RepeatCount(q, qty)
    IN  IF id >= N_INSTR THEN found
        ELSE [found EXCEPT
                !.qis[id]       = [last_qty |-> qty, msg_count |-> q.msg_count + 1,
                                   repeat |-> repeat],
                !.total_same    = @ + (IF same THEN 1 ELSE 0),
                !.total_in_run  = @ + (IF same /\ repeat >= RUN THEN 1 ELSE 0)]

QuantityRuns(m) ==
    /\ Encode("qty_runs", m)
    /\ own' = [MeasureQtyBits(own, m[2], m[4]) EXCEPT !.instr = AnalyzeRepeats(@, m[2], m[4])]

MeasuresNext ==
    \E t \in Templates : \E m \in {Generated(t)} :
        \/ ExtractResidualsGeneric(m) \/ ExtractResiduals(m) \/ ExtractFieldResiduals(m)
        \/ AnalyzeMfuDistribution(m) \/ QuantityRuns(m)

-----------------------------------------------------------------------------
(* What module Benchmarks states of the programs that run. *)

\* The codec state is of its type, and there is room left in the buffers.
MeasuresTyped ==
    /\ enc \in State
    /\ program = "combined_write" => own.bits \div 8 <= SCRATCH - 40

CodedValues(w) == LET coded == SelectSeq(w, LAMBDA t : t.code # "bits")
                  IN  [i \in DOMAIN coded |-> coded[i].v]

\* "the residual values that encode_residual would see": what is extracted
\* is, in order, the residuals that the codec writes for the same message,
\* although the codec moves its state from field to field and the copies
\* work from the state before the message.
SeesResiduals ==
    /\ program \in {"ans", "combined_write"} =>
          own.residuals = [i \in DOMAIN wrote |-> CodedValues(FlattenSeq(wrote[i]))]
    /\ program = "k_sweep" => \A type \in ResidualFields :
          own[type] = CodedValues(FlattenSeq([i \in DOMAIN wrote |->
              FlattenSeq([fi \in Fields(Schema) |->
                  IF Schema[fi].type = type THEN wrote[i][fi] ELSE << >>])]))

\* Two writers that drop the same bits would still be equal: the comparison
\* of run_bench is one of all bits only if none is dropped.
NothingLost == program = "combined_write" => ~own.lost

Written(w) == CASE Len(w) = 1 -> "same"
                [] Len(w) = 3 /\ w[2] = Same -> "hit"
                [] Len(w) = 3 /\ w[2] = Different -> "raw"

\* The counts are those of the ways in which the codec wrote instruments.
CountsInstruments ==
    program = "mfu_varlen" =>
        /\ \A way \in {"same", "hit", "raw"} :
              own[way] = Cardinality({i \in DOMAIN wrote : Written(wrote[i][2]) = way})
        /\ FoldFunction(+, 0, own.hist) = own.hit

\* Of the quantities of an instrument, all but the first: how many are
\* written as the same, and how many end RUN + 1 equal ones.
LatestOf(i, n) ==
    LET same == {j \in 1 .. i : sent[j][2] = sent[i][2]}
    IN  {j \in same : Cardinality({l \in same : l > j}) < n}

CountsQuantities ==
    program = "qty_runs" =>
        LET repeats == {i \in DOMAIN sent : Cardinality(LatestOf(i, 2)) = 2 /\ wrote[i][4] = <<Same>>}
            runs    == {i \in DOMAIN sent :
                            /\ Cardinality(LatestOf(i, RUN + 1)) = RUN + 1
                            /\ \A j \in LatestOf(i, RUN + 1) : sent[j][4] = sent[i][4]}
            Total(part(_)) == FoldFunction(+, 0, [id \in Instruments |-> part(own.instr[id])])
        IN  /\ own.total_same = Cardinality(repeats)
            /\ own.total_same = Total(LAMBDA a : a.total_same)
            /\ own.total_in_run = Cardinality(runs)
            /\ own.total_in_run = Total(LAMBDA a : a.in_run)
=============================================================================
