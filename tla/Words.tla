------------------------------- MODULE Words -------------------------------
(***************************************************************************)
(* The machine integers of core/residc.c, and the two adaptive-k helpers   *)
(* that work on them.                                                      *)
(*                                                                         *)
(* A uint64_t is a member of Word64, an int64_t of Int64, a uint32_t of    *)
(* Word32.  The widths are constants: the program has WORD48 = 2^48 and    *)
(* U32 = 2^32, TLC's instances take smaller powers of two, the theorems    *)
(* hold for every value that meets WidthAssumption.  A signed addition     *)
(* that leaves Int64 is undefined in C; what the compiled code does, on    *)
(* every target the repository builds for, is to wrap, and so does Signed. *)
(***************************************************************************)
EXTENDS Integers

CONSTANTS
    WORD48,         \* 2^48: a uint64_t holds 65536 * WORD48 values
    U32,            \* 2^32: number of values of a uint32_t
    ADAPT_WINDOW    \* RESIDC_ADAPT_WINDOW (8)

ASSUME WidthAssumption ==
    /\ WORD48 \in Nat \ {0}
    /\ U32 \in Nat
    /\ 256 < U32
    /\ U32 <= 32768 * WORD48        \* an int64_t holds every uint32_t
    /\ (U32 - 1) \div 65536 < 65536   \* two 16-bit halves hold a uint32_t
    /\ ADAPT_WINDOW \in Nat \ {0}

U64  == 65536 * WORD48
HALF == 32768 * WORD48

Word32 == 0 .. U32 - 1
Word64 == 0 .. U64 - 1
Int64  == -HALF .. HALF - 1

(***************************************************************************)
(* (int64_t)x and (uint64_t)x for x the sum or the difference of two       *)
(* words: one correction by 2^64 brings such an x into range.              *)
(***************************************************************************)
Signed(x)   == IF x >= HALF THEN x - U64 ELSE IF x < -HALF THEN x + U64 ELSE x
Unsigned(x) == IF x < 0 THEN x + U64 ELSE IF x >= U64 THEN x - U64 ELSE x

\* (int64_t)((uint64_t)gap << 16): the low 48 bits of gap, in Q16.
ShiftQ16(gap) == Signed((gap % WORD48) * 65536)

\* residc_zigzag_enc, for v in Int64.
ZigZag(v) == IF v >= 0 THEN 2 * v ELSE -2 * v - 1

\* 1 << n
Pow2[n \in Nat] == IF n = 0 THEN 1 ELSE 2 * Pow2[n - 1]

\* 63 - __builtin_clzll(n), for n > 0.
Log2(n) == CHOOSE e \in 0 .. 64 : n \div Pow2[e] = 1

-----------------------------------------------------------------------------
\* A decaying mean: the pairs (ts|price|qty)_adapt_{sum,count} and those of
\* residc_field_state_t.
Adapt     == [sum : Word64, count : 0 .. ADAPT_WINDOW - 1]
NoSamples == [sum |-> 0, count |-> 0]

\* Fault: the window is never halved.
AdaptiveUpdateUnbounded(a, val) ==
    [sum |-> Unsigned(a.sum + val), count |-> a.count + 1]

AdaptiveUpdate(a, val) ==
    LET sum   == Unsigned(a.sum + val)
        count == a.count + 1
    IN  IF count >= ADAPT_WINDOW
        THEN [sum |-> sum \div 2, count |-> count \div 2]
        ELSE [sum |-> sum, count |-> count]

AdaptiveK(a, min_k, max_k) ==
    IF a.count = 0 \/ a.sum = 0
    THEN min_k
    ELSE LET k == Log2(a.sum) - Log2(a.count)
         IN  IF k < min_k THEN min_k ELSE IF k > max_k THEN max_k ELSE k

=============================================================================
