------------------------------ MODULE Numerals ------------------------------
(***************************************************************************)
(* Numbers and words as strings of bits, as the codes of residuals write   *)
(* and read them.                                                          *)
(***************************************************************************)
EXTENDS Words, Sequences

CONSTANT
    LIMB            \* half the bits of a word (32)

\* The low n bits of v, most significant first.
B(v, n) == [i \in 1 .. n |-> (v \div Pow2[n - i]) % 2]

\* The number that a sequence of bits stands for.
Num(s) ==
    LET num[i \in 0 .. Len(s)] == IF i = 0 THEN 0 ELSE 2 * num[i - 1] + s[i]
    IN  num[Len(s)]

Ones(n) == [i \in 1 .. n |-> 1]

\* Two's complement, as (uint64_t)value.
Word(v) == IF v < 0 THEN v + U64 ELSE v

\* A word as the escapes of the codes hold it: in two halves.
RawWord(u) == B(u \div Pow2[LIMB], LIMB) \o B(u, LIMB)

\* residc_zigzag_dec
UnZigZag(zz) == IF zz % 2 = 0 THEN zz \div 2 ELSE -(zz \div 2) - 1

\* The signed value of a word.
Value(u) == IF u >= HALF THEN u - U64 ELSE u
=============================================================================
