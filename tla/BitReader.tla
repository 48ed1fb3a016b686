------------------------------ MODULE BitReader ------------------------------
(***************************************************************************)
(* The two bit readers of core/residc.c over the same bytes: the public    *)
(* residc_br_read refills its accumulator byte by byte, the inline br_read *)
(* of the decoder a word at a time while eight bytes are left.             *)
(*                                                                         *)
(* The bits of the bytes are numbered in the order they were written; an   *)
(* accumulator is a function from bit numbers, 0 the least significant.    *)
(***************************************************************************)
EXTENDS Integers, Sequences, FiniteSetsExt

CONSTANTS
    ACC,            \* bits of the accumulator and of one load (64)
    Streams,        \* the bytes a reader may be given, as sequences of bits
    Widths          \* widths of the reads

ReaderAssumption ==
    /\ ACC \in {8 * n : n \in 2 .. 8}
    /\ \A s \in Streams : s \in Seq({0, 1}) /\ Len(s) % 8 = 0
    /\ Widths \subseteq 0 .. ACC - 7

VARIABLES
    data,           \* the bytes, len_bytes of them
    slow_reader,    \* the reader behind residc_br_read
    fast_reader,    \* the reader behind br_read
    got             \* what the last read returned in both, as bits

vars == <<data, slow_reader, fast_reader, got>>

len_bytes == Len(data) \div 8

Reader == [ accum    : [0 .. ACC - 1 -> {0, 1}],
            count    : 0 .. ACC,
            byte_pos : 0 .. len_bytes,
            error    : BOOLEAN ]

\* residc_br_init
NewReader == [ accum    |-> [i \in 0 .. ACC - 1 |-> 0],
               count    |-> 0,
               byte_pos |-> 0,
               error    |-> FALSE ]

-----------------------------------------------------------------------------
\* accum << 8 | data[byte_pos++]
LoadByte(r) ==
    [r EXCEPT !.accum    = [i \in 0 .. ACC - 1 |->
                                IF i < 8 THEN data[8 * r.byte_pos + 8 - i]
                                         ELSE r.accum[i - 8]],
              !.count    = @ + 8,
              !.byte_pos = @ + 1]

\* br_refill, a loop that runs while a byte fits and there is one.
RefillBytes(r) ==
    LET room  == (ACC - r.count) \div 8
        bytes == Min({room, len_bytes - r.byte_pos})
        load[i \in 0 .. bytes] == IF i = 0 THEN r ELSE LoadByte(load[i - 1])
    IN  load[bytes]

\* br_refill_inline: as many whole bytes of the next word as fit below the
\* bits that are left.
RefillWord(r) ==
    LET consume == (ACC - r.count) \div 8
        bits    == 8 * consume
        Raw(i)  == data[8 * r.byte_pos + ACC - i]
    IN  IF r.byte_pos + ACC \div 8 > len_bytes THEN RefillBytes(r)
        ELSE IF consume = 0 THEN r
        ELSE [r EXCEPT !.accum    = [i \in 0 .. ACC - 1 |->
                                       IF i < bits THEN Raw(i + ACC - bits)
                                       ELSE r.accum[i - bits]],
                       !.count    = @ + bits,
                       !.byte_pos = @ + consume]

\* Fault: a reader that could not read drops what it has.
TakeAll(r, n) ==
    IF r.count < n
    THEN [ reader |-> [r EXCEPT !.error = TRUE, !.count = 0],
           bits   |-> [i \in 1 .. n |-> 0] ]
    ELSE [ reader |-> [r EXCEPT !.count = @ - n],
           bits   |-> [i \in 1 .. n |-> r.accum[r.count - i]] ]

\* The n bits below the first count, as read: r after the refill, if any.
Take(r, n) ==
    IF r.count < n
    THEN [ reader |-> [r EXCEPT !.error = TRUE],
           bits   |-> [i \in 1 .. n |-> 0] ]
    ELSE [ reader |-> [r EXCEPT !.count = @ - n],
           bits   |-> [i \in 1 .. n |-> r.accum[r.count - i]] ]

\* residc_br_read, residc_br_read_bit
SlowRead(r, n) == Take(IF r.count < n THEN RefillBytes(r) ELSE r, n)

\* br_read, br_read_bit
FastRead(r, n) == Take(IF r.count < n THEN RefillWord(r) ELSE r, n)

-----------------------------------------------------------------------------
Init ==
    /\ data \in Streams
    /\ slow_reader = NewReader
    /\ fast_reader = NewReader
    /\ got = [slow |-> << >>, fast |-> << >>]

Read(n) ==
    LET s == SlowRead(slow_reader, n)
        f == FastRead(fast_reader, n)
    IN  /\ slow_reader' = s.reader
        /\ fast_reader' = f.reader
        /\ got' = [slow |-> s.bits, fast |-> f.bits]
        /\ UNCHANGED data

Next == \E n \in Widths : Read(n)

Spec == Init /\ [][Next]_vars

-----------------------------------------------------------------------------
\* Counts and positions of both readers stay within accumulator and data.
TypeOK ==
    /\ slow_reader \in Reader
    /\ fast_reader \in Reader

\* Each reader implements a cursor over the bits: a read returns the bits
\* that follow, or fails and moves nothing if there are not as many left.
\* So the two return the same bits and the same verdict, however many bits
\* each has loaded.
Cursor(r) == 8 * r.byte_pos - r.count

SlowSource == INSTANCE BitSource WITH
    bits <- data, pos <- Cursor(slow_reader), failed <- slow_reader.error, value <- got.slow

FastSource == INSTANCE BitSource WITH
    bits <- data, pos <- Cursor(fast_reader), failed <- fast_reader.error, value <- got.fast

ImplementsBitSource == SlowSource!Spec /\ FastSource!Spec
=============================================================================
