---------------------------- MODULE Experiments ----------------------------
(***************************************************************************)
(* What the programs in bench/ have in common that work with the codec's   *)
(* own predictions: one of them runs over generated messages, from a codec *)
(* state that residc_init set up.  Module Predictions has those that try   *)
(* other predictors, module Measures those that look into the codec, and   *)
(* module Benchmarks puts the two together.                                *)
(***************************************************************************)
EXTENDS FrameCodec, SequencesExt, FiniteSetsExt

CONSTANTS
    SchemaOf,       \* the schema of each program's messages
    MessagesOf,     \* what each program is sent: messages with the time and the id
                    \* since the last
    START,          \* the first time and id of the generators
    MAX_MSGS        \* bound: N_MSGS

VARIABLES
    program,        \* the program that runs
    enc,            \* its residc_state_t
    own,            \* what it keeps for itself
    sent            \* history: the messages

Field(type, size) == [type |-> type, size |-> size, ref |-> 0]

QuoteSchema ==
    << Field("TIMESTAMP", 8), Field("INSTRUMENT", 2), Field("PRICE", 4),
       Field("QUANTITY", 4), Field("BOOL", 1) >>

TradeSchema ==
    << Field("TIMESTAMP", 8), Field("INSTRUMENT", 2), Field("PRICE", 4),
       Field("QUANTITY", 4), Field("SEQUENTIAL_ID", 8), Field("CATEGORICAL", 4),
       Field("CATEGORICAL", 4), Field("BOOL", 1) >>

\* Times and ids only rise.
Rising(schema, fi) == schema[fi].type \in {"TIMESTAMP", "SEQUENTIAL_ID"}

\* The generators draw values that the format can carry, and stop long before
\* a time or an id wraps.
Generators(p) ==
    LET schema == SchemaOf[p]
    IN  /\ IsSchema(schema)
        /\ \A fi \in Fields(schema) : Rising(schema, fi) => schema[fi].size = 8
        /\ \A t \in MessagesOf[p] :
              /\ t \in Message(schema) /\ Typed(schema, t) /\ Representable(schema, t)
              /\ \A fi \in Fields(schema) :
                    Rising(schema, fi) => START + MAX_MSGS * t[fi] < HALF

ASSUME ExperimentsAssumption == START \in Nat \ {0} /\ MAX_MSGS \in Nat

Schema    == SchemaOf[program]
Templates == MessagesOf[program]

\* gen_quotes, gen_trades and the like
Generated(t) ==
    [fi \in Fields(Schema) |->
        IF Rising(Schema, fi)
        THEN t[fi] + (IF sent = << >> THEN START ELSE Last(sent)[fi])
        ELSE t[fi]]

Begin(programs) ==
    /\ program \in programs
    /\ enc = InitState
    /\ sent = << >>

\* The loop over the messages.
Loop(p, m) ==
    /\ program = p
    /\ Len(sent) < MAX_MSGS
    /\ sent' = Append(sent, m)
    /\ UNCHANGED program
=============================================================================
