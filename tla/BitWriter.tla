------------------------------ MODULE BitWriter ------------------------------
(***************************************************************************)
(* The two bit writers of core/residc.c, fed with the same writes.  The    *)
(* public residc_bw_write moves whole bytes from the accumulator to the    *)
(* buffer one by one; the inline bw_write of the encoder moves them with   *)
(* one store of a whole word, most of which later stores overwrite.        *)
(*                                                                         *)
(* An accumulator is a function from bit numbers, 0 the least significant; *)
(* the buffer is the bits of its bytes in the order they are sent.  A      *)
(* shift by a negative count is undefined in C; it is taken modulo the     *)
(* word size, as the shift instructions of x86-64 and AArch64 do.          *)
(***************************************************************************)
EXTENDS Integers, Sequences

CONSTANTS
    ACC,            \* bits of the accumulator and of one store (64)
    FLUSH,          \* pending bits that make a write empty it (32)
    SCRATCH,        \* RESIDC_SCRATCH_BYTES (320)
    Writes,         \* calls the encoder makes: [val, n]
    MAX_WRITES      \* bound: calls before the finish

WriterAssumption ==
    /\ ACC \in Nat /\ FLUSH \in Nat /\ SCRATCH \in Nat
    /\ 8 <= FLUSH /\ FLUSH <= ACC
    /\ Writes \subseteq [val : [0 .. ACC - 1 -> {0, 1}], n : 0 .. ACC - 8]
    /\ MAX_WRITES \in Nat

VARIABLES
    fast,           \* the writer behind bw_write
    slow,           \* the writer behind residc_bw_write
    finished,       \* residc_bw_finish has been called
    calls           \* writes so far

vars == <<fast, slow, finished, calls>>

Bit    == {0, 1}
Writer == [ accum    : [0 .. ACC - 1 -> Bit],
            count    : Nat,
            byte_pos : Nat,
            buf      : [0 .. 8 * SCRATCH - 1 -> Bit] ]

\* residc_bw_init; it leaves buf alone, whose bits are 0 for definiteness.
NewWriter == [ accum    |-> [i \in 0 .. ACC - 1 |-> 0],
               count    |-> 0,
               byte_pos |-> 0,
               buf      |-> [j \in 0 .. 8 * SCRATCH - 1 |-> 0] ]

-----------------------------------------------------------------------------
ShiftIn(w, val, n) ==
    [w EXCEPT !.accum = [i \in 0 .. ACC - 1 |-> IF i < n THEN val[i] ELSE w.accum[i - n]],
              !.count = w.count + n]

\* A bit of the accumulator; above it there is nothing left to be seen.
AccumBit(w, i) == IF i < ACC THEN w.accum[i] ELSE 0

\* Fault: one byte is moved, not all that are complete.
FlushByte(w) ==
    IF w.byte_pos >= SCRATCH \/ w.count < 8 THEN w
    ELSE [w EXCEPT
            !.buf = [j \in DOMAIN w.buf |->
                        IF 8 * w.byte_pos <= j /\ j < 8 * w.byte_pos + 8
                        THEN AccumBit(w, w.count - 1 - (j - 8 * w.byte_pos))
                        ELSE w.buf[j]],
            !.byte_pos = @ + 1,
            !.count    = @ - 8]

\* bw_flush, up to the end of the buffer.
FlushBytes(w) ==
    LET whole == w.count \div 8
        bytes == IF whole <= SCRATCH - w.byte_pos THEN whole ELSE SCRATCH - w.byte_pos
        base  == 8 * w.byte_pos
    IN  [w EXCEPT
            !.buf = [j \in DOMAIN w.buf |->
                        IF base <= j /\ j < base + 8 * bytes
                        THEN AccumBit(w, w.count - 1 - (j - base))
                        ELSE w.buf[j]],
            !.byte_pos = @ + bytes,
            !.count    = @ - 8 * bytes]

\* Fault: the partial byte is taken for sent.
StoreDropsRest(w) ==
    LET base  == 8 * w.byte_pos
        shift == (ACC - w.count) % ACC
        Word(i) == IF i >= shift THEN w.accum[i - shift] ELSE 0
    IN  [w EXCEPT
            !.buf = [j \in DOMAIN w.buf |->
                        IF base <= j /\ j < base + ACC
                        THEN Word(ACC - 1 - (j - base))
                        ELSE w.buf[j]],
            !.byte_pos = @ + w.count \div 8,
            !.count    = 0]

\* The store of bw_write: the pending bits at the top of a word, the word at
\* byte_pos.  Bits beyond the buffer are not part of the model.
StoreWord(w) ==
    LET base  == 8 * w.byte_pos
        shift == (ACC - w.count) % ACC
        Word(i) == IF i >= shift THEN w.accum[i - shift] ELSE 0
    IN  [w EXCEPT
            !.buf = [j \in DOMAIN w.buf |->
                        IF base <= j /\ j < base + ACC
                        THEN Word(ACC - 1 - (j - base))
                        ELSE w.buf[j]],
            !.byte_pos = @ + w.count \div 8,
            !.count    = w.count % 8]

\* residc_bw_write
SlowWrite(w, val, n) ==
    LET s == ShiftIn(w, val, n) IN IF s.count >= FLUSH THEN FlushBytes(s) ELSE s

\* bw_write
FastWrite(w, val, n) ==
    LET s == ShiftIn(w, val, n) IN IF s.count >= FLUSH THEN StoreWord(s) ELSE s

\* Fault: the bits of the last byte stay at its lower end.
FinishWriterLow(w) ==
    LET f    == FlushBytes(w)
        base == 8 * f.byte_pos
    IN  IF f.count > 0 /\ f.byte_pos < SCRATCH
        THEN [f EXCEPT
                !.buf = [j \in DOMAIN f.buf |->
                            IF base <= j /\ j < base + 8
                            THEN f.accum[7 - (j - base)]
                            ELSE f.buf[j]],
                !.byte_pos = @ + 1]
        ELSE f

\* residc_bw_finish, for both.
FinishWriter(w) ==
    LET f    == FlushBytes(w)
        base == 8 * f.byte_pos
    IN  IF f.count > 0 /\ f.byte_pos < SCRATCH
        THEN [f EXCEPT
                !.buf = [j \in DOMAIN f.buf |->
                            IF base <= j /\ j < base + 8
                            THEN IF j - base < f.count
                                 THEN f.accum[f.count - 1 - (j - base)] ELSE 0
                            ELSE f.buf[j]],
                !.byte_pos = @ + 1]
        ELSE f

-----------------------------------------------------------------------------
Init ==
    /\ fast = NewWriter
    /\ slow = NewWriter
    /\ finished = FALSE
    /\ calls = 0

Write(w) ==
    /\ ~finished
    /\ calls < MAX_WRITES
    /\ fast' = FastWrite(fast, w.val, w.n)
    /\ slow' = SlowWrite(slow, w.val, w.n)
    /\ calls' = calls + 1
    /\ UNCHANGED finished

Finish ==
    /\ ~finished
    /\ fast' = FinishWriter(fast)
    /\ slow' = FinishWriter(slow)
    /\ finished' = TRUE
    /\ UNCHANGED calls

Next == (\E w \in Writes : Write(w)) \/ Finish

Spec == Init /\ [][Next]_vars

-----------------------------------------------------------------------------
\* The bits a writer stands for: the bytes it has stored, then, until the
\* finish, the pending bits of its accumulator.
Content(w) ==
    LET stored  == 8 * w.byte_pos
        pending == IF finished THEN 0 ELSE w.count
    IN  [i \in 1 .. stored + pending |->
            IF i <= stored THEN w.buf[i - 1] ELSE AccumBit(w, stored + pending - i)]

\* Both writers are of their C types; a partial byte, or what is short of a
\* flush, is all that is pending between calls.
TypeOK ==
    /\ fast \in Writer /\ fast.count < FLUSH
    /\ slow \in Writer /\ slow.count < FLUSH
    /\ finished \in BOOLEAN
    /\ calls \in 0 .. MAX_WRITES

\* "Wire format is identical" (comment of bw_write): after the same calls
\* both writers stand for the same bits, whatever is pending in each, and
\* after the finish for the same bytes, as many as residc_bw_finish returns.
WireCompatible ==
    /\ Content(fast) = Content(slow)
    /\ finished => fast.byte_pos = slow.byte_pos

\* A word store of a step ends within the buffer.
StoreFits ==
    ~finished' /\ fast'.byte_pos # fast.byte_pos => 8 * fast.byte_pos + ACC <= 8 * SCRATCH

\* Every write of the fast writer adds its bits and nothing else to what is
\* already there, in spite of the bits that a word store writes too much.
String == INSTANCE BitString WITH bits <- Content(fast), closed <- finished

ImplementsBitString == String!Spec
=============================================================================
