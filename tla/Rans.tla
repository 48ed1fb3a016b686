-------------------------------- MODULE Rans --------------------------------
(***************************************************************************)
(* The entropy coder of bench/experiment_ans.c: the residuals of a message *)
(* fall into buckets, the buckets are coded by a table-based rANS coder    *)
(* from the last to the first, the offsets within them by plain bits from  *)
(* the first to the last; the decoder meets both in order.                 *)
(*                                                                         *)
(* The offsets are a string of bits here: their 64-bit accumulator holds   *)
(* at most 7 + 32 of them.  rANS states and bytes are computed as in C,    *)
(* with smaller bytes, tables and states in TLC's instances.               *)
(***************************************************************************)
EXTENDS Numerals, FiniteSetsExt

CONSTANTS
    BYTE,           \* values of a byte: 256 in the code
    PRECISION,      \* RANS_PRECISION: sum of the frequencies, 256
    RANS_L,         \* least state: 2^23
    STATE_BYTES,    \* bytes of a state: 4
    BucketLo,       \* bucket_lo, without the last
    OffsetBits,     \* bucket_offset_bits, of all buckets but the last
    StaticFreqs,    \* the frequencies of rans_init_static
    Counts,         \* what the tables are trained with: count of every bucket
    Values,         \* residuals
    MAX_RESIDUALS   \* MAX_RESIDUALS_PER_MSG

Symbols == 1 .. Len(BucketLo)
Escape  == Len(BucketLo)

\* 1 << (8 * n)
Power[n \in Nat] == IF n = 0 THEN 1 ELSE BYTE * Power[n - 1]

\* What the frequencies before position n add up to: cum in rans_init_static.
Below(f, n) ==
    LET cum[i \in 0 .. Escape] == IF i = 0 THEN 0 ELSE cum[i - 1] + f[i]
    IN  cum[n]

Total(f) == Below(f, Escape)
Start(f, s) == Below(f, s - 1)

\* The largest frequency is the n-th part of PRECISION or more, with n buckets,
\* and it must be able to give up what the rounding of all n has added: 8 * 8
\* is at most 256.
RansAssumption ==
    /\ BYTE \in Nat \ {0, 1} /\ PRECISION \in Nat \ {0} /\ RANS_L \in Nat \ {0}
    /\ RANS_L % PRECISION = 0
    /\ STATE_BYTES \in Nat /\ RANS_L * BYTE <= Power[STATE_BYTES]
    /\ BucketLo \in Seq(Nat) /\ BucketLo # << >> /\ BucketLo[1] = 0
    /\ OffsetBits \in Seq(Nat) /\ Len(OffsetBits) = Escape - 1
    /\ \A s \in 1 .. Escape - 1 : BucketLo[s + 1] - BucketLo[s] \in 1 .. Pow2[OffsetBits[s]]
    /\ StaticFreqs \in [Symbols -> Nat \ {0}] /\ Total(StaticFreqs) = PRECISION
    /\ Counts \subseteq [Symbols -> Nat] /\ Escape * Escape <= PRECISION
    /\ LIMB \in 8 .. 32 /\ WORD48 \in Nat /\ U64 = Pow2[2 * LIMB]
    /\ Values \subseteq Int64 /\ MAX_RESIDUALS \in Nat

VARIABLES
    freqs,          \* the table: frequency of every bucket
    list,           \* residuals of the message
    phase,          \* "listing", "putting", "sent"
    enc,            \* the encoder: [state, buf, raw]
    put,            \* states the encoder has had, the last first (history)
    frame,          \* [bytes, raw]
    dec,            \* the decoder: [state, bytes, raw]
    residuals       \* what it has decoded

vars == <<freqs, list, phase, enc, put, frame, dec, residuals>>

Largest(f) == Min({s \in Symbols : \A t \in Symbols : f[t] <= f[s]})

\* Every bucket gets its part of PRECISION, rounded, and at least 1.
Scaled(counts) ==
    [s \in Symbols |->
        Max({1, (counts[s] * PRECISION + Total(counts) \div 2) \div Total(counts)})]

\* rans_init_trained: the largest takes what the rounding left over.
Trained(counts) ==
    IF Total(counts) = 0 THEN StaticFreqs
    ELSE LET f == Scaled(counts)
         IN  [f EXCEPT ![Largest(f)] = Max({1, @ - (Total(f) - PRECISION)})]

\* rans_build_lut: the bucket of a position of the table.
SymbolAt(cum) == Max({s \in Symbols : freqs[s] > 0 /\ Start(freqs, s) <= cum})

\* zz_to_sym
Symbol(zz) == Max({s \in Symbols : BucketLo[s] <= zz})

\* Fault: a bucket's offset counts from 0.
OffsetFromZero(v) ==
    LET zz == ZigZag(v)
    IN  IF Symbol(zz) = Escape THEN RawWord(Word(v)) ELSE B(zz, OffsetBits[Symbol(zz)])

\* rlist_add and rans_enc_raw_bits: the place of v within its bucket, or v.
Offset(v) ==
    LET zz == ZigZag(v)
        s  == Symbol(zz)
    IN  IF s = Escape THEN RawWord(Word(v)) ELSE B(zz - BucketLo[s], OffsetBits[s])

\* Those of a list, one after the other.
Offsets(values) ==
    LET raw[i \in 0 .. Len(values)] == IF i = 0 THEN << >> ELSE raw[i - 1] \o Offset(values[i])
    IN  raw[Len(values)]

-----------------------------------------------------------------------------
Init ==
    /\ freqs \in {Trained(counts) : counts \in Counts}
    /\ list = << >>
    /\ phase = "listing"
    /\ enc = [state |-> RANS_L, buf |-> << >>, raw |-> << >>]
    /\ put = << RANS_L >>
    /\ frame = [bytes |-> << >>, raw |-> << >>]
    /\ dec = [state |-> 0, bytes |-> << >>, raw |-> << >>]
    /\ residuals = << >>

\* rlist_add, which drops what exceeds the list.
Add(v) ==
    /\ phase = "listing"
    /\ Len(list) < MAX_RESIDUALS
    /\ list' = Append(list, v)
    /\ UNCHANGED <<freqs, phase, enc, put, frame, dec, residuals>>

\* rans_encode_residuals writes the offsets first.
PutOffsets ==
    /\ phase = "listing"
    /\ phase' = "putting"
    /\ enc' = [enc EXCEPT !.raw = Offsets(list)]
    /\ UNCHANGED <<freqs, list, put, frame, dec, residuals>>

\* The n lowest bytes of x, the highest of them first.
Bytes(x, n) == [i \in 1 .. n |-> (x \div Power[n - i]) % BYTE]

\* How many bytes are shed until the state is below limit.
Shed(x, limit) == Min({n \in 0 .. STATE_BYTES : x \div Power[n] < limit})

\* What rans_enc_put does with bucket s: the bytes it sheds, the next state.
Shedding(x, s) == Shed(x, (RANS_L \div PRECISION) * BYTE * freqs[s])

EncodeStep(x, s) == (x \div freqs[s]) * PRECISION + Start(freqs, s) + (x % freqs[s])

\* rans_enc_put of the next residual from the end.
Put ==
    /\ phase = "putting"
    /\ Len(put) <= Len(list)
    /\ LET s    == Symbol(ZigZag(list[Len(list) + 1 - Len(put)]))
           n    == Shedding(enc.state, s)
           next == EncodeStep(enc.state \div Power[n], s)
       IN  /\ enc' = [enc EXCEPT !.state = next, !.buf = Bytes(enc.state, n) \o @]
           /\ put' = << next >> \o put
    /\ UNCHANGED <<freqs, list, phase, frame, dec, residuals>>

\* rans_enc_finish: the state in front, and the bits filled up to bytes.
Finish ==
    /\ phase = "putting"
    /\ Len(put) = Len(list) + 1
    /\ phase' = "sent"
    /\ frame' = [ bytes |-> Bytes(enc.state, STATE_BYTES) \o enc.buf,
                  raw   |-> enc.raw \o [i \in 1 .. (-Len(enc.raw)) % 8 |-> 0] ]
    /\ UNCHANGED <<freqs, list, enc, put, dec, residuals>>

-----------------------------------------------------------------------------
\* x with n more bytes.
Pull(x, n, bytes) ==
    LET state[i \in 0 .. n] == IF i = 0 THEN x ELSE state[i - 1] * BYTE + bytes[i]
    IN  state[n]

\* How many bytes are pulled until the state is no longer below RANS_L.
Missing(x, bytes) ==
    LET enough == {n \in 0 .. Len(bytes) : Pull(x, n, bytes) >= RANS_L}
    IN  IF enough = {} THEN Len(bytes) ELSE Min(enough)

\* rans_dec_init
Open ==
    /\ phase = "sent"
    /\ phase' = "decoding"
    /\ dec' = [ state |-> Pull(0, STATE_BYTES, frame.bytes),
                bytes |-> SubSeq(frame.bytes, STATE_BYTES + 1, Len(frame.bytes)),
                raw   |-> frame.raw ]
    /\ UNCHANGED <<freqs, list, enc, put, frame, residuals>>

\* The residual of bucket s with the given bits.
Residual(s, bits) ==
    IF s = Escape
    THEN Value(Num(bits))
    ELSE UnZigZag(BucketLo[s] + Num(bits))

\* One residual of rans_decode_residuals: rans_dec_get, rans_dec_raw_bits.
Get ==
    /\ phase = "decoding"
    /\ Len(residuals) < Len(list)
    /\ LET cum  == dec.state % PRECISION
           s    == SymbolAt(cum)
           x    == freqs[s] * (dec.state \div PRECISION) + cum - Start(freqs, s)
           n    == Missing(x, dec.bytes)
           bits == IF s = Escape THEN 2 * LIMB ELSE OffsetBits[s]
       IN  /\ dec' = [ state |-> Pull(x, n, dec.bytes),
                       bytes |-> SubSeq(dec.bytes, n + 1, Len(dec.bytes)),
                       raw   |-> SubSeq(dec.raw, bits + 1, Len(dec.raw)) ]
           /\ residuals' = Append(residuals, Residual(s, SubSeq(dec.raw, 1, bits)))
    /\ UNCHANGED <<freqs, list, phase, enc, put, frame>>

Next == (\E v \in Values : Add(v)) \/ PutOffsets \/ Put \/ Finish \/ Open \/ Get

Spec == Init /\ [][Next]_vars

-----------------------------------------------------------------------------
\* The state is never below RANS_L nor of more than STATE_BYTES bytes.  A
\* table, whatever it was trained with, has a part for every bucket, and the
\* parts fill it: no bucket is without a code, no position without one.
TypeOK ==
    /\ Total(freqs) = PRECISION /\ \A s \in Symbols : freqs[s] >= 1
    /\ enc.state >= RANS_L /\ enc.state < RANS_L * BYTE
    /\ \A i \in DOMAIN frame.bytes : frame.bytes[i] \in 0 .. BYTE - 1
    /\ Len(residuals) <= Len(list) /\ Len(list) <= MAX_RESIDUALS

\* What is decoded is what was encoded, in order: buckets and offsets, which
\* travel in opposite directions, meet again.  The decoder takes the steps of
\* the encoder backwards, from the last state to the first: it pulls exactly
\* the bytes that were shed for each symbol, though neither side writes down
\* how many these are.
RoundTrip ==
    /\ Len(residuals) <= Len(list)
    /\ \A i \in DOMAIN residuals : residuals[i] = list[i]
    /\ phase = "decoding" =>
          /\ dec.state = put[Len(residuals) + 1]
          /\ Len(residuals) = Len(list) => dec.bytes = << >>
=============================================================================
