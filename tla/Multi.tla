-------------------------------- MODULE Multi --------------------------------
(***************************************************************************)
(* Messages of several types in one stream: residc_encode_multi and        *)
(* residc_decode_multi.  All types share one codec state, so a message of  *)
(* one type moves the predictions of the others, and the type itself is    *)
(* predicted: one bit says "the same as the last".                         *)
(*                                                                         *)
(* A state is [codec, last_msg_type_index].  The codec is one for all       *)
(* types; what changes from message to message is the schema it is run     *)
(* with.                                                                   *)
(***************************************************************************)
EXTENDS FrameCodec

CONSTANTS
    Schemas,        \* multi->schemas, by type index
    TypeIndex       \* multi->type_to_index, of every type the sender knows

num_types     == Len(Schemas)
Index         == 0 .. num_types - 1
SchemaOf(idx) == Schemas[idx + 1]       \* C counts from 0

\* No two types have the index of one schema, or index_to_type could not tell
\* which it was.
ASSUME MultiAssumption ==
    /\ num_types \in Nat \ {0}
    /\ \A idx \in Index : IsSchema(SchemaOf(idx))
    /\ TypeIndex \in [DOMAIN TypeIndex -> Int]
    /\ \A v, w \in DOMAIN TypeIndex :
          TypeIndex[v] = TypeIndex[w] /\ TypeIndex[v] \in Index => v = w

\* multi->index_to_type
TypeOf(idx) == CHOOSE v \in DOMAIN TypeIndex : TypeIndex[v] = idx

MultiState == [codec : State, last_msg_type_index : Index]

\* residc_init_multi
InitMulti == [codec |-> InitState, last_msg_type_index |-> 0]

\* encode_msg_type: index ones and a zero, which the last index goes without.
TypeCode(idx) ==
    [i \in 1 .. idx |-> Different]
        \o (IF idx < num_types - 1 THEN << Same >> ELSE << >>)

\* The type before the fields, after the flag "not the same as the last".
Header(st, idx) ==
    IF idx = st.last_msg_type_index /\ st.codec.msg_count > 0
    THEN << Same >>
    ELSE << Different >> \o TypeCode(idx)

\* Fault: as many flags are read as there are types.
ReadTypeLong(st, header) ==
    IF header[1].v = 0 THEN st.last_msg_type_index
    ELSE LET zeros == {i \in 2 .. Len(header) : header[i].v = 0}
         IN  IF zeros = {} THEN num_types ELSE (CHOOSE i \in zeros : TRUE) - 2

\* The flag, then decode_msg_type: the ones before the zero, if there is one.
ReadType(st, header) ==
    IF header[1].v = 0 THEN st.last_msg_type_index
    ELSE LET zeros == {i \in 2 .. Len(header) : header[i].v = 0}
         IN  IF zeros = {} THEN num_types - 1 ELSE (CHOOSE i \in zeros : TRUE) - 2

-----------------------------------------------------------------------------
\* The type of the message has a schema; otherwise RESIDC_ERR_SCHEMA.
Accepted(m) == TypeIndex[m.type] >= 0 /\ TypeIndex[m.type] < num_types

\* The header and the fields, as bytes.
PayloadLen(header, words) == Bytes(Len(header) + PayloadBits(words))

\* residc_encode_multi, of a type with a schema.  A compressed frame is
\* written whatever the capacity.  When a literal one does not fit, the codec
\* has moved and last_msg_type_index has not.
EncodeMulti(st, m, capacity) ==
    LET idx      == TypeIndex[m.type]
        raw_size == RawSize(SchemaOf(idx)) + 1
        Literal  == [kind |-> "literal", type |-> m.type, msg |-> Wire(SchemaOf(idx), m.msg),
                     len |-> 1 + raw_size]
        Outcome(e, header) ==
            LET len     == PayloadLen(header, e.words)
                literal == len >= raw_size \/ len >= 254
                error   == literal /\ capacity < 1 + raw_size
            IN  [ error |-> error,
                  st    |-> [ codec               |-> e.st,
                              last_msg_type_index |-> IF error THEN st.last_msg_type_index
                                                               ELSE idx ],
                  frame |-> IF literal THEN Literal
                            ELSE [kind |-> "compressed", idx |-> idx, header |-> header,
                                  words |-> e.words, len |-> 1 + len] ]
    IN  The({Outcome(e, header) : e \in {EncodeFields(st.codec, SchemaOf(idx), m.msg)},
                                       header \in {Header(st, idx)}})

\* Fault: a literal frame does not tell the next frame its type.
DecodeLiteralForgets(st, frame) ==
    [ st  |-> [st EXCEPT !.codec = CommitFields(@, SchemaOf(TypeIndex[frame.type]), frame.msg)],
      msg |-> [type |-> frame.type, msg |-> frame.msg] ]

\* residc_decode_multi of a literal frame.
DecodeLiteral(st, frame) ==
    LET idx == TypeIndex[frame.type]
    IN  [ st  |-> [codec               |-> CommitFields(st.codec, SchemaOf(idx), frame.msg),
                   last_msg_type_index |-> idx],
          msg |-> [type |-> frame.type, msg |-> frame.msg] ]

\* What comes out of a frame that was made from another state.
Junk == [type |-> -1, msg |-> << >>]

\* And of a compressed one.  What the words of one type look like to another
\* is not modelled: the frame counts as junk.
DecodeCompressed(st, frame) ==
    LET idx == ReadType(st, frame.header)
        Outcome(d) ==
            IF ~d.aligned THEN [st |-> st, msg |-> Junk]
            ELSE [ st  |-> [codec |-> d.st, last_msg_type_index |-> idx],
                   msg |-> [type |-> TypeOf(idx), msg |-> d.msg] ]
    IN  IF idx # frame.idx THEN [st |-> st, msg |-> Junk]
        ELSE The({Outcome(d) : d \in {DecodeFields(st.codec, SchemaOf(idx), frame.words)}})

DecodeMulti(st, frame) ==
    IF frame.kind = "literal" THEN DecodeLiteral(st, frame) ELSE DecodeCompressed(st, frame)
=============================================================================
