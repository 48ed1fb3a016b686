------------------------------ MODULE BitString ------------------------------
(***************************************************************************)
(* What a bit writer promises: a growing string of bits, to which a write  *)
(* of n bits adds the low n bits of a value, most significant first, and   *)
(* which is filled up with zeros to whole bytes in the end.                *)
(***************************************************************************)
EXTENDS Integers, Sequences

CONSTANT Writes         \* the writes that may be asked for: [val, n]

VARIABLES
    bits,               \* the string so far
    closed              \* no more writes

\* Bit i of val is val[i]; the bits above n are not written.
Low(val, n) == [i \in 1 .. n |-> val[n - i]]

Padding(len) == [i \in 1 .. (8 - (len % 8)) % 8 |-> 0]

Init ==
    /\ bits = << >>
    /\ closed = FALSE

Add(w) ==
    /\ ~closed
    /\ bits' = bits \o Low(w.val, w.n)
    /\ UNCHANGED closed

Close ==
    /\ ~closed
    /\ bits' = bits \o Padding(Len(bits))
    /\ closed' = TRUE

Next == (\E w \in Writes : Add(w)) \/ Close

Spec == Init /\ [][Next]_<<bits, closed>>
=============================================================================
