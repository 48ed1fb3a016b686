---------------------------- MODULE MCBitLayers ----------------------------
EXTENDS BitLayers

LOCAL Machine == INSTANCE Words

(* Writes of the widths the codec uses: flags, ranks, plain fields and the *)
(* longest forms of the residual codes, each with a value of its own.      *)
Value(a, b) == [i \in 0 .. ACC - 1 |-> IF i % a < b THEN 1 ELSE 0]

MCWrites == { [val |-> Value(ACC, ACC), n |-> 1],
              [val |-> Value(3, 2),     n |-> 9],
              [val |-> Value(2, 1),     n |-> 14],
              [val |-> Value(5, 2),     n |-> 31],
              [val |-> Value(7, 3),     n |-> 33] }

\* The timestamp's tier 3 with k = 20: 4 + 20 + 10 bits.
MCWideWrites == { [val |-> Value(ACC, ACC), n |-> 1],
                  [val |-> Value(5, 2),     n |-> 30],
                  [val |-> Value(7, 3),     n |-> 34] }

(* The widest message of a schema with the Exp-Golomb coder: 32 fields, all *)
(* escaped, are 96 writes of 32 bits, the mark and two halves for each.    *)
(* Which bits they are makes no difference to where they are stored.       *)
MCEscapes == { [val |-> Value(ACC, ACC), n |-> 32] }

(* Streams that end within a word, with one and after several; no two      *)
(* bytes near each other are equal.                                        *)
Stream(bytes) == [i \in 1 .. 8 * bytes |-> IF (i * i) % 11 < 5 THEN 1 ELSE 0]

MCStreams == { Stream(n) : n \in {0, 1, 7, 8, 9, 17, 21} }
MCWidths  == { 1, 3, 14, 30, 34 }

(* Residuals on both sides of every limit between tiers, at the escapes    *)
(* and at the ends of the word; ranks at the limits of the four groups.    *)
Zz(k) == {0, 2 ^ k - 1, 2 ^ k, 2 ^ (k + 2), 2 ^ (k + 5) - 1, 2 ^ (k + 10) - 1,
          2 ^ (k + 10), 2 ^ (k + LIMB) - 2 ^ k - 1, 2 ^ (k + LIMB) - 2 ^ k}
Top(k) == {Machine!U64 - 1 - 2 ^ k, Machine!U64 - 2 ^ k, Machine!U64 - 1}

\* The residual of the zigzag code zz.
Residual(zz) == IF zz % 2 = 0 THEN zz \div 2 ELSE -((zz + 1) \div 2)

Coded(code, k, zzs) == {[code |-> code, k |-> k, v |-> Residual(zz)] : zz \in zzs}

MCItems ==
    UNION { Coded("tiered", 3, Zz(3) \cup Top(3)),
            Coded("expgolomb", 4, Zz(4) \cup Top(4)),
            Coded("golomb_rice", 3, Zz(3) \cup Top(3)),
            Coded("bench_expgolomb", 4, Zz(4)),
            {[code |-> "rank", k |-> 0, v |-> v] : v \in {0, 3, 4, 15, 16, 63, 64, 99}} }

MCMistaken == {[code |-> "tiered", k |-> 4], [code |-> "expgolomb", k |-> 3],
               [code |-> "rank", k |-> 0]}

(* Four buckets of 0, [1, 3], [4, 15] and the rest, as the first of the    *)
(* code; residuals at the ends of each and of the word.                    *)
MCBucketLo    == << 0, 1, 4, 16 >>
MCOffsetBits  == << 0, 2, 4 >>
MCStaticFreqs == << 7, 5, 3, 1 >>
MCCounts      == [1 .. 4 -> {0, 1, 9}]
MCValues      == {0, -1, -2, 2, -8, 8, -Machine!HALF}
=============================================================================
