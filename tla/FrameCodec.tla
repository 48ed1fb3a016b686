----------------------------- MODULE FrameCodec -----------------------------
(***************************************************************************)
(* A whole message in one step: the field loops of encode_fields,          *)
(* decode_fields and commit_state run to their end.  Module Stream runs    *)
(* them one field at a time and shows that nothing in between matters to   *)
(* either side; what is built on calls of the codec uses these.            *)
(***************************************************************************)
EXTENDS FieldCodec

\* The element of a set that has one.  A loop below names what it has so far
\* by a bound variable, which TLC computes once, where a LET definition is
\* computed at every use when TLC asks whether an action is enabled.
The(S) == CHOOSE x \in S : TRUE

\* encode_fields: the words of m and the state after it.
EncodeFields(st, schema, m) ==
    LET Next(e, words) == [c |-> e.next, words |-> Append(words, e.word)]
        loop[i \in 0 .. Len(schema)] ==
            IF i = 0 THEN [c |-> Start(st), words |-> << >>]
            ELSE The({Next(EncodeField(l.c, schema, i, m), l.words) : l \in {loop[i - 1]}})
    IN  The({[words |-> l.words, st |-> Finish(l.c)] : l \in {loop[Len(schema)]}})

\* decode_fields: the message in the words, and whether they are words this
\* state can follow.
DecodeFields(st, schema, words) ==
    LET Next(l, d, i) == [c |-> d.next, aligned |-> TRUE, msg |-> WriteField(schema, l.msg, i, d.val)]
        Step(l, i) ==
            IF l.aligned /\ Aligned(l.c, schema, i, words[i])
            THEN The({Next(l, d, i) : d \in {DecodeField(l.c, schema, i, l.msg, words[i])}})
            ELSE [l EXCEPT !.aligned = FALSE]
        loop[i \in 0 .. Len(schema)] ==
            IF i = 0
            THEN [c |-> Start(st), msg |-> [fi \in Fields(schema) |-> 0],
                  aligned |-> Len(words) = Len(schema)]
            ELSE The({Step(l, i) : l \in {loop[i - 1]}})
    IN  The({[aligned |-> l.aligned, msg |-> l.msg, st |-> Finish(l.c)] :
                l \in {loop[Len(schema)]}})

\* commit_state: the state after a message that was sent as it is.
CommitFields(st, schema, m) ==
    LET loop[i \in 0 .. Len(schema)] ==
            IF i = 0 THEN Start(st)
            ELSE The({CommitField(c, schema, i, m) : c \in {loop[i - 1]}})
    IN  Finish(loop[Len(schema)])

PayloadBits(words) ==
    LET sum[i \in 0 .. Len(words)] ==
            IF i = 0 THEN 0 ELSE sum[i - 1] + WordBits(words[i])
    IN  sum[Len(words)]

\* The bytes of bits bits.
Bytes(bits) == (bits + 7) \div 8
=============================================================================
