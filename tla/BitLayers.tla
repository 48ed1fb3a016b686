------------------------------ MODULE BitLayers ------------------------------
(***************************************************************************)
(* The layers below the field codec, each by itself: bit writers, bit      *)
(* readers, the codes of residuals and ranks, and the entropy coder of     *)
(* bench/experiment_ans.c.  No layer has state in common with another (the *)
(* codes are strings of bits, which is what writer and reader are shown to *)
(* implement), so a behaviour is one of one layer, chosen at the start.    *)
(***************************************************************************)
EXTENDS Integers, Sequences

CONSTANTS
    Layers,                                     \* the layers that run
    ACC, FLUSH, SCRATCH, Writes, MAX_WRITES,    \* of module BitWriter
    Streams, Widths,                            \* of module BitReader
    WORD48, U32, ADAPT_WINDOW,                  \* of module Words
    LIMB,                                       \* of module Numerals
    RANKS, Items, Mistaken,                     \* of module ResidualCode
    MAX_ITEMS, MAX_CUT,
    BYTE, PRECISION, RANS_L, STATE_BYTES,       \* of module Rans
    BucketLo, OffsetBits, StaticFreqs,
    Counts, Values, MAX_RESIDUALS

VARIABLES
    layer,                                      \* the layer that runs
    fast, slow, finished, calls,                \* of module BitWriter
    data, fast_reader, slow_reader, got,        \* of module BitReader
    items, reader, decoded, mistaken,           \* of module ResidualCode
    freqs, list, phase, enc, put,               \* of module Rans
    frame, dec, residuals

Writing == INSTANCE BitWriter
Reading == INSTANCE BitReader
Coding  == INSTANCE ResidualCode
Entropy == INSTANCE Rans

ASSUME LayersAssumption ==
    /\ Layers \subseteq {"writer", "reader", "codes", "rans"}
    /\ Writing!WriterAssumption /\ Reading!ReaderAssumption
    /\ Coding!CodeAssumption /\ Entropy!RansAssumption

writer  == <<fast, slow, finished, calls>>
bits    == <<data, fast_reader, slow_reader, got>>
coder   == <<items, reader, decoded, mistaken>>
entropy == <<freqs, list, phase, enc, put, frame, dec, residuals>>

vars == <<layer, writer, bits, coder, entropy>>

-----------------------------------------------------------------------------
\* Reader and entropy coder begin with data; these are without any.
NoReader ==
    /\ data = << >>
    /\ fast_reader = Reading!NewReader
    /\ slow_reader = Reading!NewReader
    /\ got = [slow |-> << >>, fast |-> << >>]

NoEntropy ==
    /\ freqs = StaticFreqs /\ list = << >> /\ phase = "idle"
    /\ enc = << >> /\ put = << >> /\ frame = << >> /\ dec = << >> /\ residuals = << >>

Init ==
    /\ layer \in Layers
    /\ Writing!Init
    /\ IF layer = "reader" THEN Reading!Init ELSE NoReader
    /\ Coding!Init
    /\ IF layer = "rans" THEN Entropy!Init ELSE NoEntropy

Next ==
    \/ /\ layer = "writer"
       /\ Writing!Next
       /\ UNCHANGED <<layer, bits, coder, entropy>>
    \/ /\ layer = "reader"
       /\ Reading!Next
       /\ UNCHANGED <<layer, writer, coder, entropy>>
    \/ /\ layer = "codes"
       /\ Coding!Next
       /\ UNCHANGED <<layer, writer, bits, entropy>>
    \/ /\ layer = "rans"
       /\ Entropy!Next
       /\ UNCHANGED <<layer, writer, bits, coder>>

Spec == Init /\ [][Next]_vars

-----------------------------------------------------------------------------
\* Accumulators, positions and coder states stay within their bounds, and the
\* frequencies of a rANS table, trained or not, fill it.
TypeOK ==
    /\ Writing!TypeOK
    /\ Reading!TypeOK
    /\ Coding!TypeOK
    /\ layer = "rans" => Entropy!TypeOK

\* What is there twice writes one format: both bit writers build the same bits
\* from the same calls of bw_write, and the coders of bench/ that are compared
\* with those of the codec write their bits.
WireCompatible == Writing!WireCompatible /\ Coding!SameWire

\* "RESIDC_SCRATCH_BYTES must accommodate worst-case encoding plus 8-byte
\* memcpy padding" (static assertion of residc.c): whatever is encoded, the
\* word stores of bw_write end within the scratch buffer.
StoresInScratch == [][Writing!StoreFits]_vars

\* The writer of the encoder implements a string that grows by what is
\* written, in spite of what its stores write too much.
ImplementsBitString == Writing!ImplementsBitString

\* Both bit readers implement a cursor over the bits.
ImplementsBitSource == Reading!ImplementsBitSource

\* Residuals and ranks are read back as they were written, one after another,
\* and one that has lost bits at the end of the data sets br->error.
CodesRoundTrip == Coding!RoundTrip

\* rans_decode_residuals returns what rans_encode_residuals was given, and
\* takes the states of the encoder backwards.
RansRoundTrip == layer = "rans" => Entropy!RoundTrip
=============================================================================
