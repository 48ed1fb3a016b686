------------------------------ MODULE Handles ------------------------------
(***************************************************************************)
(* The handle SDK (sdk/residc_sdk.c): codecs on the heap behind opaque     *)
(* pointers, which the Python and Rust bindings wrap (module Bindings).    *)
(*                                                                         *)
(* A codec holds its own schema, and its residc_state_t points to it, so   *)
(* the copies made by snapshot and restore have to put pointers right.     *)
(* The rest of the state is a function of what was coded since the last    *)
(* reset (module Stream) and stands here as that history, in which NULL is *)
(* a seeding of the MFU table.  Codecs of one history are in one state;    *)
(* some of different histories are too, but are not counted on: a BOOL     *)
(* leaves no trace in a state.  Delta types are coded without a reference  *)
(* field (ref_fields), which has conditions of its own (Representable in   *)
(* FieldCodec).                                                            *)
(***************************************************************************)
EXTENDS Integers, Sequences, FiniteSets, FiniteSetsExt

CONSTANTS
    NULL,
    Addr,           \* places on the heap
    BYTE,           \* values of a byte: 256 in the code
    RAW_IDS,        \* ids an instrument written raw may have: 2^14
    MAX_FIELDS,     \* RESIDC_MAX_FIELDS
    MAX_MSG         \* bytes of the msg buffers: 256

ASSUME HandlesAssumption ==
    /\ NULL \notin Addr /\ IsFiniteSet(Addr) /\ Addr # {}
    /\ BYTE \in Nat \ {0, 1} /\ RAW_IDS \in Nat \ {0}
    /\ MAX_FIELDS \in Nat \ {0} /\ MAX_MSG \in Nat \ {0}

\* default_size, in bytes.
default_size(type) ==
    CASE type \in {"TIMESTAMP", "SEQUENTIAL_ID", "DELTA_ID"}          -> 8
      [] type \in {"PRICE", "QUANTITY", "CATEGORICAL", "RAW", "DELTA_PRICE"} -> 4
      [] type = "INSTRUMENT"                                          -> 2
      [] type \in {"ENUM", "BOOL"}                                    -> 1
      [] OTHER                                                        -> 0

\* The bytes of the first n fields, as the loop of residc_codec_create adds
\* them up.
BytesOf(types, n) ==
    LET offset[i \in 0 .. Len(types)] ==
            IF i = 0 THEN 0 ELSE offset[i - 1] + default_size(types[i])
    IN  offset[n]

\* Fault: a field begins on the last bytes of those before.
OffsetOneLess(types, i) == BytesOf(types, i - 1) - (i - 1)

\* The first byte of field i, and the bytes of a message.
Offset(types, i) == BytesOf(types, i - 1)
MsgSize(types)   == BytesOf(types, Len(types))

\* What byte b of a value counts for.
Weight[b \in Nat] == IF b = 0 THEN 1 ELSE BYTE * Weight[b - 1]

\* Byte b of a value; the value of bytes (little endian).
Digit(val, b) == (val \div Weight[b]) % BYTE

Value(bytes, first, size) ==
    LET value[b \in 0 .. size] ==
            IF b = 0 THEN 0 ELSE value[b - 1] + bytes[first + b - 1] * Weight[b - 1]
    IN  value[size]

\* The later of two overlapping fields is what stays.
pack_values(types, values) ==
    [p \in 0 .. MsgSize(types) - 1 |->
        LET At(i) == p - Offset(types, i)
            here  == {i \in DOMAIN types : At(i) >= 0 /\ At(i) < default_size(types[i])}
        IN  IF here = {} THEN 0 ELSE Digit(values[Max(here)], At(Max(here)))]

unpack_values(types, msg) ==
    [i \in DOMAIN types |-> Value(msg, Offset(types, i), default_size(types[i]))]

-----------------------------------------------------------------------------
(* What a frame carries of a message. *)

\* The value that field i of the message has.
Stored(types, values, i) == values[i] % Weight[default_size(types[i])]

\* What the bits of a compressed frame leave of a value: one bit of a BOOL, 14
\* of an INSTRUMENT that is written raw.
Room(type) ==
    CASE type = "INSTRUMENT" -> RAW_IDS
      [] type = "BOOL"       -> 2
      [] OTHER               -> Weight[default_size(type)]

\* The fields that a frame cuts: of a literal one none, of a compressed one the
\* BOOLs and those INSTRUMENTs that are neither repeated nor in the MFU table.
Cuts(types) ==
    LET Of(type) == {i \in DOMAIN types : types[i] = type}
    IN  {{}} \cup {Of("BOOL") \cup raw : raw \in SUBSET Of("INSTRUMENT")}

\* The values that decode gets.  Behind an id that lost bits, fields are
\* predicted from another instrument: some values, for which 0 stands.
OnWire(types, values, cut) ==
    LET Lost(j) == types[j] = "INSTRUMENT" /\ j \in cut /\ Stored(types, values, j) >= RAW_IDS
    IN  [i \in DOMAIN types |->
            IF \E j \in 1 .. i - 1 : Lost(j) THEN 0
            ELSE IF i \in cut THEN Stored(types, values, i) % Room(types[i])
            ELSE Stored(types, values, i)]

-----------------------------------------------------------------------------
(* heap: what is at each address that is allocated. *)

Free(heap)  == Addr \ DOMAIN heap
Place(heap) == CHOOSE a \in Free(heap) : TRUE

\* After malloc of a, which is filled with handle; after free, which takes NULL.
Allocated(heap, a, handle) ==
    [b \in DOMAIN heap \cup {a} |-> IF b = a THEN handle ELSE heap[b]]

Destroyed(heap, p) == [a \in DOMAIN heap \ {p} |-> heap[a]]

\* Fault: a message of one byte more than fits is let through.
CreatableOneMore(types) ==
    /\ Len(types) > 0 /\ Len(types) <= MAX_FIELDS
    /\ MsgSize(types) <= MAX_MSG + 1

\* residc_codec_create refuses other schemas.
Creatable(types) ==
    /\ Len(types) > 0 /\ Len(types) <= MAX_FIELDS
    /\ MsgSize(types) <= MAX_MSG

\* The codec that is put at a.
NewCodec(a, types) == [types |-> types, schema |-> a, fields |-> a, coded |-> << >>]

\* residc_codec_snapshot of p to a: both pointers lead to the copy's own.
SnapshotAt(heap, a, p) == [heap[p] EXCEPT !.schema = a, !.fields = a]

\* residc_codec_restore: the state, but with the codec's own schema.
Restored(codec, snap) == [codec EXCEPT !.coded = snap.coded]

\* residc_codec_reset, residc_codec_seed_mfu
Cleared(codec) == [codec EXCEPT !.coded = << >>]
Seeded(codec)  == [codec EXCEPT !.coded = Append(@, NULL)]

\* The types by which p encodes and decodes: those its pointers lead to.
TypesOf(heap, p) == heap[heap[heap[p].schema].fields].types

\* residc_codec_encode: the frame, which cuts these fields, and the state after
\* it, which is that of the whole message, whatever it returns.
Encoded(heap, p, values, cut) ==
    LET types == TypesOf(heap, p)
    IN  [ frame |-> [was |-> heap[p].coded, msg |-> pack_values(types, OnWire(types, values, cut))],
          codec |-> [heap[p] EXCEPT !.coded = Append(@, pack_values(types, values))] ]

\* residc_codec_decode.  A frame from another state gives some message.
Decoded(heap, p, frame) ==
    LET types == TypesOf(heap, p)
        msg   == IF frame.was = heap[p].coded /\ DOMAIN frame.msg = 0 .. MsgSize(types) - 1
                 THEN frame.msg ELSE [b \in 0 .. MsgSize(types) - 1 |-> 0]
    IN  [ values |-> unpack_values(types, msg),
          codec  |-> [heap[p] EXCEPT !.coded = Append(@, msg)] ]
=============================================================================
