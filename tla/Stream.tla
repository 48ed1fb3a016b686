------------------------------- MODULE Stream -------------------------------
(***************************************************************************)
(* A sender that calls residc_encode, a FIFO link for the frames it is     *)
(* given, and a receiver that calls residc_decode: two codec states of the *)
(* same schema that stay equal only because each frame moves both in the   *)
(* same way.                                                               *)
(*                                                                         *)
(* The field loops run one field per step, so sender and receiver are      *)
(* interleaved anywhere within a message.  A call fails as the code does:  *)
(* residc_encode finds out that the caller's buffer is too small after the *)
(* fields have been encoded and the state has moved.  An application that  *)
(* wants to go on resets both sides (fuzz/fuzz_roundtrip.c does); one that *)
(* RESUMEs without a reset is modelled too.                                *)
(*                                                                         *)
(* Not actions, since they return before anything is changed: a call       *)
(* without a schema, residc_encode with capacity < 2, residc_decode of a   *)
(* frame that has not arrived in full.                                     *)
(***************************************************************************)
EXTENDS FieldCodec

CONSTANTS
    Schema,         \* sequence of fields: [type, size, ref]
    Messages,       \* the messages the application sends
    Capacities,     \* sizes of the buffers it passes to residc_encode
    Coders,         \* coders it may select (residc_set_coder, on both sides)
    RESUME,         \* whether it goes on after a failed encode without a reset
    MAX_CALLS,      \* bound: calls of residc_encode
    LINK_SIZE       \* bound: frames in transit

ASSUME StreamAssumption ==
    /\ IsSchema(Schema)
    /\ Messages \subseteq Message(Schema)
    /\ \A m \in Messages : Typed(Schema, m)
    /\ Capacities \subseteq Nat
    /\ \A capacity \in Capacities : capacity >= 2
    /\ Coders \subseteq {"tiered", "expgolomb"}
    /\ RESUME \in BOOLEAN
    /\ MAX_CALLS \in Nat
    /\ LINK_SIZE \in Nat

VARIABLES
    enc,        \* the encoder's cursor
    emsg,       \* message being encoded, NoMessage between calls
    words,      \* what its fields have been written as, so far
    link,       \* frames in transit, oldest first
    dec,        \* the decoder's cursor
    dmsg,       \* message being decoded, NoMessage between calls
    dfi,        \* next field of the decoder's loop
    calls       \* calls of residc_encode so far

(***************************************************************************)
(* History.  trail[i] is the encoder's cursor before field i of the        *)
(* message in its hands, origin[k] the message, the trail and the health   *)
(* of frame link[k]; received logs one record per frame decoded.  A frame  *)
(* is tainted when the encoder has moved without the decoder: an encode    *)
(* failed and no reset has been made since.                                *)
(***************************************************************************)
VARIABLES trail, origin, received, tainted

encoder == <<enc, emsg, words, trail>>
decoder == <<dec, dmsg, dfi>>
vars    == <<encoder, link, decoder, calls, origin, received, tainted>>

NumFields == Len(Schema)
NoMessage == << >>
Junk      == <<-1>>             \* a message nobody sent, or an error code

Zeros == [fi \in Fields(Schema) |-> 0]  \* memset(msg, 0, schema->msg_size)

Literal(m)    == [kind |-> "literal", msg |-> Wire(Schema, m), words |-> << >>]
Compressed(w) == [kind |-> "compressed", msg |-> NoMessage, words |-> w]

\* The bytes of the compressed payload, and whether the literal is chosen.
PayloadLen ==
    LET bits[i \in 0 .. NumFields] ==
            IF i = 0 THEN 0 ELSE bits[i - 1] + WordBits(words[i])
    IN  (bits[NumFields] + 7) \div 8
UseLiteral == PayloadLen >= RawSize(Schema) \/ PayloadLen >= 254
FrameLen   == 1 + (IF UseLiteral THEN RawSize(Schema) ELSE PayloadLen)

-----------------------------------------------------------------------------
Init ==
    \E coder \in Coders :
        /\ enc = Start(SetCoder(InitState, coder))
        /\ dec = Start(SetCoder(InitState, coder))
        /\ emsg = NoMessage /\ words = << >> /\ trail = << >>
        /\ link = << >> /\ origin = << >>
        /\ dmsg = NoMessage /\ dfi = 1
        /\ calls = 0
        /\ received = << >>
        /\ tainted = FALSE

EncodeCall(m) ==
    /\ emsg = NoMessage
    /\ calls < MAX_CALLS
    /\ Len(link) < LINK_SIZE
    /\ tainted => RESUME
    /\ emsg' = m
    /\ words' = << >>
    /\ trail' = << enc >>
    /\ calls' = calls + 1
    /\ UNCHANGED <<enc, link, decoder, origin, received, tainted>>

\* encode_fields, one field.
EncodeStep ==
    /\ emsg # NoMessage
    /\ Len(words) < NumFields
    /\ LET e == EncodeField(enc, Schema, Len(words) + 1, emsg)
       IN  /\ words' = Append(words, e.word)
           /\ enc' = e.next
           /\ trail' = Append(trail, e.next)
    /\ UNCHANGED <<emsg, link, decoder, calls, origin, received, tainted>>

\* The loop is done: the state is committed, then the size of the frame is
\* held against the capacity.
EncodeReturn(capacity) ==
    /\ emsg # NoMessage
    /\ Len(words) = NumFields
    /\ enc' = Start(Finish(enc))
    /\ IF capacity < FrameLen
       THEN /\ tainted' = TRUE                      \* RESIDC_ERR_CAPACITY
            /\ UNCHANGED <<link, origin>>
       ELSE /\ link' = Append(link, IF UseLiteral THEN Literal(emsg)
                                                  ELSE Compressed(words))
            /\ origin' = Append(origin, [msg |-> emsg, trail |-> trail,
                                         tainted |-> tainted])
            /\ UNCHANGED tainted
    /\ emsg' = NoMessage /\ words' = << >> /\ trail' = << >>
    /\ UNCHANGED <<decoder, calls, received>>

-----------------------------------------------------------------------------
\* residc_decode is given the next frame.  A literal's fields are read
\* before the state is touched.
DecodeCall ==
    /\ dmsg = NoMessage
    /\ link # << >>
    /\ dmsg' = IF Head(link).kind = "literal" THEN Head(link).msg ELSE Zeros
    /\ dfi' = 1
    /\ UNCHANGED <<encoder, link, dec, calls, origin, received, tainted>>

\* decode_fields, one field, reading what the encoder wrote for it.
DecodeStep ==
    /\ dmsg # NoMessage
    /\ dfi <= NumFields
    /\ Head(link).kind = "compressed"
    /\ Aligned(dec, Schema, dfi, Head(link).words[dfi])
    /\ LET d == DecodeField(dec, Schema, dfi, dmsg, Head(link).words[dfi])
       IN  /\ dmsg' = WriteField(Schema, dmsg, dfi, d.val)
           /\ dec' = d.next
    /\ dfi' = dfi + 1
    /\ UNCHANGED <<encoder, link, calls, origin, received, tainted>>

\* commit_state, one field.
CommitStep ==
    /\ dmsg # NoMessage
    /\ dfi <= NumFields
    /\ Head(link).kind = "literal"
    /\ dec' = CommitField(dec, Schema, dfi, dmsg)
    /\ dfi' = dfi + 1
    /\ UNCHANGED <<encoder, link, dmsg, calls, origin, received, tainted>>

\* The decoder expects another k or coder than the one the bits were written
\* with.  From here on it reads garbage; what it returns, and its state, say
\* nothing any more.  The model drops the frame and leaves the state.
Misread ==
    /\ dmsg # NoMessage
    /\ dfi <= NumFields
    /\ Head(link).kind = "compressed"
    /\ ~Aligned(dec, Schema, dfi, Head(link).words[dfi])
    /\ received' = Append(received, [msg |-> Head(origin).msg, got |-> Junk,
                                     tainted |-> Head(origin).tainted])
    /\ link' = Tail(link)
    /\ origin' = Tail(origin)
    /\ dmsg' = NoMessage
    /\ dec' = Start(dec.st)
    /\ dfi' = 1
    /\ UNCHANGED <<encoder, calls, tainted>>

DecodeReturn ==
    /\ dmsg # NoMessage
    /\ dfi = NumFields + 1
    /\ received' = Append(received, [msg |-> Head(origin).msg, got |-> dmsg,
                                     tainted |-> Head(origin).tainted])
    /\ link' = Tail(link)
    /\ origin' = Tail(origin)
    /\ dec' = Start(Finish(dec))
    /\ dmsg' = NoMessage
    /\ dfi' = 1
    /\ UNCHANGED <<encoder, calls, tainted>>

-----------------------------------------------------------------------------
\* Fault: the receiver selects its coder again, the sender does not.
ResetKeepingCoder ==
    /\ tainted
    /\ emsg = NoMessage
    /\ link = << >>
    /\ enc' = Start(InitState)
    /\ dec' = Start(SetCoder(InitState, dec.st.residual_coder))
    /\ tainted' = FALSE
    /\ UNCHANGED <<emsg, words, trail, link, dmsg, dfi, calls, origin, received>>

\* Fault: the sender alone starts over.
ResetEncoder ==
    /\ tainted
    /\ emsg = NoMessage
    /\ link = << >>
    /\ enc' = Start(InitState)
    /\ tainted' = FALSE
    /\ UNCHANGED <<emsg, words, trail, link, decoder, calls, origin, received>>

\* The applications agree to start over, between messages and with nothing
\* in transit: residc_reset on both sides.
ResetBoth ==
    /\ tainted
    /\ emsg = NoMessage
    /\ link = << >>
    /\ enc' = Start(InitState)
    /\ dec' = Start(InitState)
    /\ tainted' = FALSE
    /\ UNCHANGED <<emsg, words, trail, link, dmsg, dfi, calls, origin, received>>

Receiver == DecodeCall \/ DecodeStep \/ CommitStep \/ Misread \/ DecodeReturn

Next ==
    \/ \E m \in Messages : EncodeCall(m)
    \/ EncodeStep
    \/ \E capacity \in Capacities : EncodeReturn(capacity)
    \/ DecodeCall
    \/ DecodeStep
    \/ CommitStep
    \/ Misread
    \/ DecodeReturn
    \/ ResetBoth

\* The receiver keeps calling residc_decode while frames are there, and the
\* call, a loop over the fields, ends.
Spec == Init /\ [][Next]_vars /\ WF_vars(Receiver)

-----------------------------------------------------------------------------
\* States, messages and indexes are of their types, whatever the decoder is fed.
TypeOK ==
    /\ enc \in Cursor
    /\ dec \in Cursor
    /\ emsg \in Messages \cup {NoMessage}
    /\ dmsg \in Message(Schema) \cup {NoMessage}
    /\ dfi \in 1 .. NumFields + 1
    /\ Len(words) <= NumFields
    /\ Len(link) = Len(origin)
    /\ calls \in 0 .. MAX_CALLS
    /\ tainted \in BOOLEAN

\* Every frame whose encoder was in step decodes to the message it was made
\* from: no field is lost, mixed up or predicted from another state, for
\* literal and compressed frames in any order.
RoundTrip ==
    \A i \in 1 .. Len(received) :
        ~received[i].tainted => received[i].got = Wire(Schema, received[i].msg)

\* With nothing in transit and both sides between calls, encoder and decoder
\* hold equal states, though one ran encode_fields and the other
\* decode_fields or commit_state: the next frame will be understood.
InStep ==
    (~tainted /\ emsg = NoMessage /\ dmsg = NoMessage /\ link = << >>) => dec = enc

\* Within a frame the decoder is, before each field, in the state in which
\* the encoder was before that field, however far ahead the encoder is now.
FollowsEncoder ==
    (link # << >> /\ ~Head(origin).tainted) => dec = Head(origin).trail[dfi]

\* The doc of residc_codec_encode and residc_codec_decode calls the state
\* "updated on success": an encode that returns RESIDC_ERR_CAPACITY leaves
\* the state it was called with.
FailureKeepsState ==
    [][(emsg # NoMessage /\ emsg' = NoMessage /\ link' = link) => enc'.st = trail[1].st]_vars

(***************************************************************************)
(* The stream implements the message FIFO: a message is sent when its      *)
(* encode returns, received when its decode does.                          *)
(***************************************************************************)
Received(m) == Wire(Schema, m)

Fifo == INSTANCE MessageFifo WITH
    sent     <- [i \in 1 .. Len(received) |-> received[i].msg]
                    \o [k \in 1 .. Len(origin) |-> origin[k].msg],
    received <- [i \in 1 .. Len(received) |-> received[i].got]

ImplementsFifo == Fifo!Spec
=============================================================================
