---------------------------- MODULE ResidualCode ----------------------------
(***************************************************************************)
(* The variable-length codes of core/residc.c, bit by bit: the tiered and  *)
(* the Exp-Golomb code of a residual and the code of an MFU rank, next to  *)
(* the codes the programs in bench/ compare them with.                     *)
(*                                                                         *)
(* A writer codes a list of items one after the other and pads the last    *)
(* byte; a reader decodes them from the bytes, some of which may be        *)
(* missing at the end.  BitWriter and BitReader show that writes append    *)
(* their bits and that reads return the bits that follow, so a write is    *)
(* here a concatenation and a reader a position.                           *)
(***************************************************************************)
EXTENDS Numerals, SequencesExt, FiniteSetsExt

CONSTANTS
    RANKS,          \* RESIDC_MFU_SIZE (256)
    Items,          \* what may be coded: [code, k, v]
    Mistaken,       \* [code, k] a reader may take every item for
    MAX_ITEMS,      \* bound: items of a stream
    MAX_CUT         \* bound: bytes missing at its end

Codes == {"tiered", "expgolomb", "rank", "golomb_rice", "bench_expgolomb"}

\* No field of the codec has a k below 3 (FieldK); the encoder of bench/ adds
\* 2^k to the zigzag code without looking.
CodeAssumption ==
    /\ LIMB \in 8 .. 32 /\ WORD48 \in Nat /\ U64 = Pow2[2 * LIMB]
    /\ RANKS \in 65 .. 320
    /\ \A it \in Items :
          /\ it.code \in Codes
          /\ it.k \in 0 .. LIMB - 1 /\ it.k + 10 <= 2 * LIMB
          /\ it.code = "tiered" => it.k >= 3
          /\ it.code = "bench_expgolomb" => ZigZag(it.v) + Pow2[it.k] < U64
          /\ IF it.code = "rank" THEN it.v \in 0 .. RANKS - 1 ELSE it.v \in Int64
    /\ \A as \in Mistaken :
          /\ as.code \in Codes
          /\ as.k \in 0 .. LIMB - 1 /\ as.k + 10 <= 2 * LIMB
    /\ MAX_ITEMS \in Nat /\ MAX_CUT \in Nat

-----------------------------------------------------------------------------
(* The tiered code. *)

PayloadAdd == <<0, 2, 5, 10>>

\* encode_residual: prefix and payload in one write.
Tiered(v, k) ==
    LET zz == ZigZag(v)
    IN  CASE zz < Pow2[k]                              -> B(zz, 1 + k)
          [] Pow2[k] <= zz /\ zz < Pow2[k + 2]         -> B(2 * Pow2[k + 2] + zz, 2 + k + 2)
          [] Pow2[k + 2] <= zz /\ zz < Pow2[k + 5]   -> B(6 * Pow2[k + 5] + zz, 3 + k + 5)
          [] Pow2[k + 5] <= zz /\ zz < Pow2[k + 10]  -> B(14 * Pow2[k + 10] + zz, 4 + k + 10)
          [] OTHER                                   -> B(15, 4) \o RawWord(Word(v))

\* encode_residual_baseline (bench/experiment_combined_write.c): in two.
BaselineTiered(v, k) ==
    LET zz   == ZigZag(v)
        over == {t \in 1 .. 4 : zz >= Pow2[k + PayloadAdd[t]]}
        tier == Cardinality(over)
    IN  IF tier = 4 THEN Ones(4) \o RawWord(Word(v))
        ELSE Ones(tier) \o <<0>> \o B(zz, k + PayloadAdd[tier + 1])

\* bits_needed (bench/experiment_branchless.c)
BitsNeeded(zz) == IF zz = 0 THEN 0 ELSE Log2(zz) + 1

\* compute_tier: the number of tiers whose payload is too narrow.
ComputeTier(bn, k) == Cardinality({t \in 1 .. 4 : bn > k + PayloadAdd[t]})

\* encode_residual_branchless
BranchlessTiered(v, k) ==
    LET zz     == ZigZag(v)
        tier   == ComputeTier(BitsNeeded(zz), k)
        prefix == << B(0, 1), B(2, 2), B(6, 3), B(14, 4), B(15, 4) >>
    IN  prefix[tier + 1] \o (IF tier < 4 THEN B(zz, k + PayloadAdd[tier + 1])
                             ELSE RawWord(Word(v)))

\* tiered_bits (bench/experiment_k_sweep.c): the price of a residual.
TieredCost(v, k) ==
    LET zz   == ZigZag(v)
        fits == {t \in 1 .. 4 : zz < Pow2[k + PayloadAdd[t]]}
    IN  IF fits = {} THEN 4 + 2 * LIMB ELSE Min(fits) + k + PayloadAdd[Min(fits)]

-----------------------------------------------------------------------------
(* The Exp-Golomb code, and Golomb-Rice. *)

\* A remainder wider than half a word is written in two parts, which are
\* one string of bits.
Remainder(m, n) == IF n > LIMB THEN B(m \div Pow2[LIMB], n - LIMB) \o B(m, LIMB) ELSE B(m, n)

\* encode_residual_expg
ExpGolomb(v, k) ==
    LET zz     == ZigZag(v)
        m      == zz + Pow2[k]
        q      == Log2(m) - k
        escape == Ones(LIMB) \o RawWord(Word(v))
    IN  IF zz > U64 - 1 - Pow2[k] \/ q > LIMB - 1 THEN escape
        ELSE Ones(q) \o <<0>> \o Remainder(m, q + k)

\* exp_golomb_encode (bench/experiment_golomb.c), for zz + 2^k below 2^64;
\* its escape ends the unary part and holds the zigzag word.
BenchExpGolomb(v, k) ==
    LET zz         == ZigZag(v)
        adjusted   == zz + Pow2[k]
        n          == Log2(adjusted)
        prefix_len == n - k
    IN  IF prefix_len > LIMB - 1
        THEN Ones(LIMB) \o <<0>> \o RawWord(zz)
        ELSE Ones(prefix_len) \o <<0>> \o Remainder(adjusted, n)

\* golomb_rice_encode
GolombRice(v, k) ==
    LET zz == ZigZag(v)
        q  == zz \div Pow2[k]
    IN  IF q > LIMB - 1 THEN Ones(LIMB) \o <<0>> \o RawWord(zz)
        ELSE Ones(q) \o <<0>> \o B(zz, k)

\* encode_mfu_rank
RankCode(rank) ==
    CASE rank < 4                  -> <<0>>       \o B(rank, 2)
      [] 4 <= rank /\ rank < 16    -> <<1, 0>>    \o B(rank - 4, 4)
      [] 16 <= rank /\ rank < 64   -> <<1, 1, 0>> \o B(rank - 16, 6)
      [] OTHER                     -> <<1, 1, 1>> \o B(rank - 64, 8)

\* encode_one of bench/experiment_golomb.c, encode_residual_dispatch, ranks.
Encode(it) ==
    CASE it.code = "tiered"          -> Tiered(it.v, it.k)
      [] it.code = "expgolomb"       -> ExpGolomb(it.v, it.k)
      [] it.code = "rank"            -> RankCode(it.v)
      [] it.code = "golomb_rice"     -> GolombRice(it.v, it.k)
      [] it.code = "bench_expgolomb" -> BenchExpGolomb(it.v, it.k)

-----------------------------------------------------------------------------
(* Decoding.  A reader is [bits, pos, failed]; each operator returns the   *)
(* value, of bits that are not there 0, and the reader after it.           *)

Left(r) == Len(r.bits) - r.pos

Read(r, n) ==
    IF n <= Left(r)
    THEN [val |-> Num(SubSeq(r.bits, r.pos + 1, r.pos + n)), next |-> [r EXCEPT !.pos = @ + n]]
    ELSE [val |-> 0, next |-> [r EXCEPT !.failed = TRUE]]

\* A word in two halves.
ReadWord(r) ==
    LET hi == Read(r, LIMB)
        lo == Read(hi.next, LIMB)
    IN  [val |-> hi.val * Pow2[LIMB] + lo.val, next |-> lo.next]

\* Ones up to limit, and the zero behind them if there are fewer.
ReadUnary(r, limit) ==
    LET run  == {i \in 0 .. limit : i <= Left(r) /\ \A j \in 1 .. i : r.bits[r.pos + j] = 1}
        q    == Max(run \cup {0})
        stop == [r EXCEPT !.pos = @ + q]
    IN  [val |-> q, next |-> IF q = limit THEN stop ELSE Read(stop, 1).next]

\* What accum >> (count - 4) shows when fewer than four bits are left: the
\* shift count is then negative, and the hardware takes it modulo the word
\* size, which brings old bits from the top of the accumulator down.
Peeks(r) ==
    CASE Left(r) >= 4        -> { Num(SubSeq(r.bits, r.pos + 1, r.pos + 4)) }
      [] Left(r) \in 1 .. 3  -> 0 .. Pow2[4 - Left(r)] - 1
      [] OTHER               -> 0 .. 15

\* decode_tier_lut: tier and prefix bits.
TierOf(peek) ==
    CASE peek < 8          -> [tier |-> 0, prefix |-> 1]
      [] peek \in 8 .. 11  -> [tier |-> 1, prefix |-> 2]
      [] peek \in 12 .. 13 -> [tier |-> 2, prefix |-> 3]
      [] peek = 14         -> [tier |-> 3, prefix |-> 4]
      [] peek = 15         -> [tier |-> 4, prefix |-> 4]

\* decode_residual.  The prefix is taken off whether or not it was there.
DecodeTiered(r, k, peek) ==
    LET t       == TierOf(peek)
        payload == [r EXCEPT !.pos = @ + t.prefix]
        short   == Read(payload, k + PayloadAdd[t.tier + 1])
        whole   == ReadWord(payload)
    IN  IF t.tier < 4 THEN [val |-> UnZigZag(short.val), next |-> short.next]
        ELSE [val |-> Value(whole.val), next |-> whole.next]

ReadRemainder(r, n) ==
    IF n <= LIMB THEN Read(r, n)
    ELSE LET hi == Read(r, n - LIMB)
             lo == Read(hi.next, LIMB)
         IN  [val |-> hi.val * Pow2[LIMB] + lo.val, next |-> lo.next]

\* Fault: the escape is looked for one bit too early.
DecodeExpGolombEarly(r, k) ==
    LET unary == ReadUnary(r, LIMB - 1)
        q     == unary.val
        whole == ReadWord(unary.next)
        rem   == ReadRemainder(unary.next, q + k)
    IN  IF q = LIMB - 1 THEN [val |-> Value(whole.val), next |-> whole.next]
        ELSE [val |-> UnZigZag(Pow2[q + k] + rem.val - Pow2[k]), next |-> rem.next]

\* decode_residual_expg
DecodeExpGolomb(r, k) ==
    LET unary == ReadUnary(r, LIMB)
        q     == unary.val
        whole == ReadWord(unary.next)
        rem   == ReadRemainder(unary.next, q + k)
    IN  IF q = LIMB THEN [val |-> Value(whole.val), next |-> whole.next]
        ELSE [val |-> UnZigZag(Pow2[q + k] + rem.val - Pow2[k]), next |-> rem.next]

\* exp_golomb_decode and golomb_rice_decode: the escape's zero is read too.
DecodeBenchExpGolomb(r, k) ==
    LET unary == ReadUnary(r, LIMB)
        whole == ReadWord(Read(unary.next, 1).next)
        n     == unary.val + k
        rem   == ReadRemainder(unary.next, n)
    IN  IF unary.val = LIMB THEN [val |-> UnZigZag(whole.val), next |-> whole.next]
        ELSE [val |-> UnZigZag(Pow2[n] + rem.val - Pow2[k]), next |-> rem.next]

DecodeGolombRice(r, k) ==
    LET unary == ReadUnary(r, LIMB)
        whole == ReadWord(Read(unary.next, 1).next)
        rem   == Read(unary.next, k)
    IN  IF unary.val = LIMB THEN [val |-> UnZigZag(whole.val), next |-> whole.next]
        ELSE [val |-> UnZigZag(unary.val * Pow2[k] + rem.val), next |-> rem.next]

\* decode_mfu_rank: up to three flags, the rest of the rank, the last group
\* clamped to the table.
DecodeRank(r) ==
    LET unary == ReadUnary(r, 3)
        i     == unary.val + 1
        rest  == Read(unary.next, <<2, 4, 6, 8>>[i])
        rank  == <<0, 4, 16, 64>>[i] + rest.val
    IN  [val |-> IF rank >= RANKS THEN RANKS - 1 ELSE rank, next |-> rest.next]

\* decode_one, decode_residual_dispatch, ranks.
Decode(r, code, k, peek) ==
    CASE code = "tiered"          -> DecodeTiered(r, k, peek)
      [] code = "expgolomb"       -> DecodeExpGolomb(r, k)
      [] code = "rank"            -> DecodeRank(r)
      [] code = "golomb_rice"     -> DecodeGolombRice(r, k)
      [] code = "bench_expgolomb" -> DecodeBenchExpGolomb(r, k)

-----------------------------------------------------------------------------
VARIABLES
    items,          \* what has been written
    reader,         \* the reader, NoReader while the writer writes
    decoded,        \* what has been read
    mistaken        \* what the reader takes items for, InStep if for what they are

vars == <<items, reader, decoded, mistaken>>

NoReader == << >>
InStep   == << >>

Bits(list) == FlattenSeq([i \in 1 .. Len(list) |-> Encode(list[i])])
Padded(s)  == s \o [i \in 1 .. (8 - (Len(s) % 8)) % 8 |-> 0]

Init ==
    /\ items = << >>
    /\ reader = NoReader
    /\ decoded = << >>
    /\ mistaken = InStep

Write(it) ==
    /\ reader = NoReader
    /\ Len(items) < MAX_ITEMS
    /\ items' = Append(items, it)
    /\ UNCHANGED <<reader, decoded, mistaken>>

\* The bytes reach the reader, all of them or without the last ones, and it
\* is in step with the writer or has another coder and k.
Open(cut, as) ==
    /\ reader = NoReader
    /\ LET bytes == Padded(Bits(items))
       IN  /\ 8 * cut <= Len(bytes)
           /\ reader' = [bits |-> SubSeq(bytes, 1, Len(bytes) - 8 * cut),
                         pos |-> 0, failed |-> FALSE]
    /\ mistaken' = as
    /\ UNCHANGED <<items, decoded>>

DecodeNext ==
    /\ reader # NoReader
    /\ Len(decoded) < Len(items)
    /\ LET as == IF mistaken = InStep THEN items[Len(decoded) + 1] ELSE mistaken
       IN  \E peek \in Peeks(reader) :
              LET d == Decode(reader, as.code, as.k, peek)
              IN  /\ reader' = d.next
                  /\ decoded' = Append(decoded, [code |-> as.code, val |-> d.val])
    /\ UNCHANGED <<items, mistaken>>

Next ==
    \/ \E it \in Items : Write(it)
    \/ \E cut \in 0 .. MAX_CUT, as \in Mistaken \cup {InStep} : Open(cut, as)
    \/ DecodeNext

Spec == Init /\ [][Next]_vars

-----------------------------------------------------------------------------
\* Bits up to the end of the i-th item.
EndOf(i) == Len(Bits(SubSeq(items, 1, i)))

\* Whatever the reader takes the bits for, it returns words and ranks of the
\* table, and gets past the end by a tier prefix per item at most.
TypeOK ==
    reader # NoReader =>
        /\ reader.pos \in 0 .. Len(reader.bits) + 4 * Len(decoded)
        /\ \A i \in DOMAIN decoded :
              IF decoded[i].code = "rank" THEN decoded[i].val \in 0 .. RANKS - 1
                                             ELSE decoded[i].val \in Int64

\* Read with its own code and k, each item comes back as it was written and
\* leaves the reader at the first bit of the next one: every tier, escape
\* and split remainder is a prefix code.  A stream that was cut is noticed at
\* the first item that has lost a bit, although the tiered decoder shifts by
\* a negative count near the end.
RoundTrip ==
    reader # NoReader /\ mistaken = InStep =>
        IF EndOf(Len(decoded)) > Len(reader.bits) THEN reader.failed
        ELSE /\ \A i \in DOMAIN decoded : decoded[i].val = items[i].v
             /\ reader.pos = EndOf(Len(decoded))
             /\ ~reader.failed

\* The encoders of the experiments write the same bits as that of the core
\* and the cost model gives their number; the two Exp-Golomb encoders differ
\* in the escape only.
SameWire ==
    \A i \in DOMAIN items :
        LET it == items[i]
        IN  /\ it.code = "tiered" =>
                  /\ BaselineTiered(it.v, it.k) = Tiered(it.v, it.k)
                  /\ BranchlessTiered(it.v, it.k) = Tiered(it.v, it.k)
                  /\ TieredCost(it.v, it.k) = Len(Tiered(it.v, it.k))
            /\ it.code = "bench_expgolomb" =>
                  \/ BenchExpGolomb(it.v, it.k) = ExpGolomb(it.v, it.k)
                  \/ /\ Len(ExpGolomb(it.v, it.k)) = 3 * LIMB
                     /\ Len(BenchExpGolomb(it.v, it.k)) = 3 * LIMB + 1
=============================================================================
