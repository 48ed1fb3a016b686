------------------------------ MODULE BitSource ------------------------------
(* What a bit reader promises: a cursor in a string of bits that advances  *)
(* over the bits it returns, and sticks to having failed once it was asked *)
(* for more than there are.                                                *)
EXTENDS Integers, Sequences

CONSTANT Widths         \* widths of the reads

VARIABLES
    bits,               \* the string
    pos,                \* bits read so far
    failed,             \* a read asked for too much
    value               \* the bits of the last read

Init ==
    /\ pos = 0
    /\ failed = FALSE
    /\ value = << >>

Advance(n) ==
    /\ pos + n <= Len(bits)
    /\ value' = SubSeq(bits, pos + 1, pos + n)
    /\ pos' = pos + n
    /\ UNCHANGED <<bits, failed>>

Fail(n) ==
    /\ pos + n > Len(bits)
    /\ value' = [i \in 1 .. n |-> 0]
    /\ failed' = TRUE
    /\ UNCHANGED <<bits, pos>>

Next == \E n \in Widths : Advance(n) \/ Fail(n)

Spec == Init /\ [][Next]_<<bits, pos, failed, value>>
=============================================================================
