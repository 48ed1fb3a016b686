----------------------------- MODULE Benchmarks -----------------------------
(***************************************************************************)
(* The programs in bench/ that work with the codec's own predictions: the  *)
(* experiments of module Predictions and those of module Measures.  A      *)
(* behaviour is a run of one of them over generated messages.              *)
(***************************************************************************)
EXTENDS Predictions, Measures

ASSUME BenchmarksAssumption == Predicting \intersect Measuring = {}

compared == <<total, core, base>>

vars == <<program, enc, own, sent, compared, wrote>>

Init ==
    \/ PredictionsInit /\ wrote = << >>
    \/ MeasuresInit /\ total = 0 /\ base = 0 /\ core = enc

Next ==
    \/ PredictionsNext /\ UNCHANGED wrote
    \/ MeasuresNext /\ UNCHANGED compared

Spec == Init /\ [][Next]_vars

-----------------------------------------------------------------------------
\* Every codec state is of its type, and the programs' own buffers and
\* counters have room left.
TypeOK ==
    /\ program \in Predicting => PredictionsTyped
    /\ program \in Measuring => MeasuresTyped

\* What a predictor saves is not something a decoder would need.
Decodable == program \in Predicting => DifferInOneValue

\* The predictors that an experiment leaves alone predict as the codec does.
SamePredictions == program \in Predicting => PredictsAlike

\* A predictor's own state is what it is named for, and an index of the table
\* of frequent quantities names one quantity.
PredictsFromHistory == program \in Predicting => OwnHistory /\ QuantityTable

\* The residuals that are looked at are those the codec writes, instruments
\* and repeated quantities are counted as it wrote them, and two writers are
\* compared in full.
SeesWhatIsWritten ==
    program \in Measuring => SeesResiduals /\ NothingLost /\ CountsInstruments /\ CountsQuantities
=============================================================================
