# residc in TLA+

residc compresses streams of small structured messages (market data: quotes,
orders, trades) by predicting each field from the messages before it and coding
the difference.  Sender and receiver each hold a *codec state*.  Nothing about
the prediction is ever sent, so a stream decodes only as long as both states
evolve in exactly the same way.  That agreement, over several copies of the same
logic, is what these modules are about.

The source is C: `core/residc.c` and `core/residc.h` (the codec), `sdk/` (opaque
handles over it), a Python and a Rust binding.  Paths below are relative to the
root of the repository.

## 1. Inventory

| Component | Code | State | Operations |
|---|---|---|---|
| Word arithmetic, adaptive k | `core/residc.c` 374-398, `residc.h` zig-zag | a decaying sum and count per value class | `adaptive_update`, `adaptive_k` |
| MFU table | 404-505, 590-604 | entries with counts, chained hash, two rank arrays | `lookup`, `update`, `rebuild_ranks`, `decay`, `seed`, `init` |
| Field codec | 656-1027, 1075-1315 | the whole `residc_state_t`: last timestamp and gap mean, MFU table and decay counter, regime and its window, means for k, last value per field, last price / quantity / id per instrument, coder | `encode_fields`, `decode_fields`, `commit_state` |
| Frame codec | 1029-1069, 1317-1356 | none of its own | `residc_encode`, `residc_decode`: length byte, literal fallback, capacity |
| Lifecycle | 344-347, 538-566 | | `residc_init`, `residc_reset`, `residc_set_coder` |
| Snapshots | 572-584 | a copy of the state, its schema pointers kept apart | `residc_snapshot`, `residc_restore` |
| Multi-type streams | 548-556, 1364-1505 | `last_msg_type_index` | `residc_encode_multi`, `residc_decode_multi` |
| Residual coders | 213-335 | none | tiered and Exp-Golomb, `encode_residual`, `decode_residual` |
| Bit writer and reader | 36-204 | accumulator, bit count, byte position | `bw_write`, `bw_finish`, `br_read`, refill |
| Handle SDK | `sdk/residc_sdk.c` | a heap object with schema and state | create, destroy, encode, decode, snapshot, restore, seed, reset |
| Bindings | `sdk/python`, `rust/` | objects that own a handle of the SDK | constructors, the SDK's calls, close, collection or drop |
| Experiments | `bench/` | a codec state, an rANS coder, predictors and counters of their own | other codes, predictors and writers, compared with those of the codec |
| Programs | `examples/`, `test/`, `fuzz/` | none of their own | call the above |

How they interact.  An application calls `residc_encode`, which runs
`encode_fields` over a scratch bit writer: for each field the schema's type picks
a predictor, the residual goes to the selected coder with a k from the adaptive
mean, and **the same step updates the state** that predicts the next field.  The
INSTRUMENT field updates the MFU table and selects the per-instrument state that
later fields of the message use.  If the bits are no shorter than the raw
fields, a literal frame is sent instead.  The receiver runs `decode_fields` for
a compressed frame; for a literal one it reads the fields and runs
`commit_state`, which has to arrive at the state `encode_fields` arrived at.

A compressed frame is made of three layers: tokens (what the fields choose to
write), bits (the residual codes) and bytes (accumulator, flush and refill).  The
bindings own handles and free them by the rules of their languages.  The programs
in `bench/` call the codec and, besides, keep hand-written copies of parts of it.

There are no threads and no callbacks.  What is hard:

* *Three copies of one evolution.*  A forgotten or reordered update in one of
  `encode_fields`, `decode_fields`, `commit_state` shows only when a later
  prediction is different, perhaps many messages later, perhaps only after a
  literal frame or a change of regime.
* *Sender and receiver at different points* of the stream, and steps that fail
  after part of the state has moved (`residc_encode` checks the capacity last,
  `residc_decode` checks for truncation last).
* *Long sequences of legal calls* on the MFU table: eviction, re-insertion,
  decay, seeding, with ranks rebuilt only now and then.
* *Edges of machine integers*: wrapped differences, 16-bit counts, the 14-bit
  escape for instruments, 32-bit sums, division by 100 in the penny and
  round-lot modes.
* *Delivery*: lost, repeated or exchanged frames, snapshots, resets of one side
  only.
* *Twins*: two bit writers, two bit readers, copies of the state evolution and of
  the residual code in `bench/`, each meant to do the same as its original.
* *Ownership*: handles that point into themselves, are copied, and are freed by
  several ways in an order nobody chooses.

What makes each component correct:

* MFU table: each stored instrument is found and in one slot only; chains are
  disjoint, end, and lead to used slots; the two rank arrays stay inverse
  permutations between rebuilds; counts do not wrap; it acts like a bounded table
  of counts that drops a lowest one.
* Field codec: decoding what was encoded gives the value back, and all three
  functions leave the same state.
* Stream: what the encoder accepted arrives, unchanged and in order; with nothing
  in transit both states are equal.
* Residual coders, bit I/O: what is read is what was written, in as many bits.
* Multi-type streams: the same for interleaved schemas; the type prefix is part
  of the state.
* Snapshots and handles: a restore gives the state of the snapshot, whatever
  happened since; a handle is used only while it is live and is freed once.
* Experiments: a predictor uses only what a decoder has, and everything but the
  one thing under test is as in the codec.

`PROJECT.json` lists the components with their status, and under `hazards` each
line where one of these difficulties bites.

## 2. Modules

```
Words          machine integers, zig-zag, adaptive k
Mfu            the MFU table's operations                     (operators)
  MfuTable       touches, decays, seeds, resets of one table  (state machine)
    FrequencyTable the abstract table of counts it implements
  RankSort       the loops of mfu_rebuild_ranks               (state machine)
    TableAndSort   both, one at a time                        (state machine)
      MCMfuTable     an instance for TLC
Codec          codec state, predictions, state updates        (EXTENDS Words, Mfu)
  FieldCodec     encode / decode / commit of one field, per field type
    Stream         sender, link, receiver, field by field     (state machine)
      MessageFifo    the abstract FIFO it implements
      MCQuote, MCOrders   two schemas with their messages
    FrameCodec     a whole message in one step                (operators)
      Multi          several types in one stream              (operators)
        Session        loss, snapshots, recovery              (state machine)
          MCSession      three schemas; MessageFifo again
      Experiments    what the programs of bench/ share        (operators)
        Predictions    those with other predictors            (actions)
        Measures       those that look into the codec         (actions)
          Benchmarks     both, composed                       (state machine)
            MCBenchmarks   an instance for TLC
BitWriter      both bit writers;  BitString what they promise
BitReader      both bit readers;  BitSource what they promise
Numerals       numbers and words as strings of bits           (EXTENDS Words)
  ResidualCode   the variable-length codes, bit by bit
  Rans           the entropy coder of experiment_ans.c
    BitLayers      writer, reader, codes and entropy coder, composed;  MCBitLayers
Handles        the SDK's handles on a heap                    (operators)
  Bindings       Python and Rust objects that own them        (state machine)
    MCBindings     an instance for TLC
CodecLemmas      the proofs: walks along a chain; what each operation on a
                 table returns and keeps; the chains; a field decoded, or
                 committed, after it was encoded
  MfuTableProofs   the theorems about MfuTable, and that it implements
                   FrequencyTable
  RankSortProofs   the loops of mfu_rebuild_ranks
  StreamProofs     the theorems about Stream
  SessionProofs    whole frames, several types; the theorems about Session
  BenchmarksProofs the theorems about Benchmarks
BindingsProofs   the theorems about Bindings
BitLayersProofs  the theorems about BitWriter, BitReader, ResidualCode and Rans
```

Some modules hold operators after a comment `Fault:`.  They are variants of the
definition that follows them with a plausible programming error; no specification
uses them.  Put in place of that definition, each one makes a property below fail
(section 4): they show that the property watches that code.

### Words

`uint64_t`, `int64_t` and `uint32_t` are intervals of integers.  `Signed` and
`Unsigned` are the casts; they correct a sum or a difference of two words by one
wrap.  Signed overflow (lines 674, 689, 1097) is undefined in C; the model takes
the wrap of the compiled code.  `Adapt` is a pair `(sum, count)`,
`AdaptiveUpdate` and `AdaptiveK` are lines 374-398.

### Mfu, MfuTable, RankSort

A table is a record with the fields of `residc_mfu_table_t`.  `Walk(mfu, h)[n]`
is the n-th slot on a chain; `Lookup`, `Unlink` and the search of the entry to
evict are stated through the *first* match, which is what the loops return.
`Update` has the three branches of `residc_mfu_update`.  `RebuildRanks` gives the
outcome of the insertion sort in closed form, and `RankSort` runs the three loops
of that function step by step to show that they reach it: TLC for every table of
three slots, a proof for tables of any size.  `TableAndSort` puts both into one
specification; a behaviour is of one of them.  `Seed` gives the outcome of its insertion loop in closed form.

`MfuTable` has an action per use: `Touch` (the fused update of an INSTRUMENT
field with the decay every `DECAY_PERIOD` messages), `SeedTable` (which leaves the
decay counter alone, as the code does) and `Reset`.

### Codec, FieldCodec

`State` is `residc_state_t` without the schema pointers and
`last_msg_type_index`; `Cursor` adds the loop variable `is`, the per-instrument
state of the current message (`NULL` when the id is out of range).  For each
field type there are `Encode...`, `Decode...` and `Commit...`, one per function
of the C code.  Blocks that are literally the same text in all of them are one
operator (`TrackTimestamp`, `TouchInstrument`, `TrackPrice`, `TrackId`); what
differs (how a residual is obtained, whether a division by 100 or a wrap comes
first) is written three times.

A field's bits are a *word*, a sequence of tokens: a group of bits (width and
value) or a residual (coder, k and value).  The receiver follows a word as long
as it expects the coder and k of each residual (`Aligned`); a receiver that does
not reads garbage, which `Misread` reports as one.  The lengths of the two
residual codes are modelled, because they choose between compressed and literal
frames and decide whether the caller's buffer is large enough.

### Stream

| Variable | In the program |
|---|---|
| `enc`, `dec` | the two `residc_state_t`, with the loop variable `is` |
| `emsg`, `words` | the message in `residc_encode` and what its fields have been written as |
| `link` | frames given to the transport and not yet decoded |
| `dmsg`, `dfi` | the message in `residc_decode` and the next field |
| `calls` | bound |
| `trail`, `origin`, `received`, `tainted` | history, for the properties |

`EncodeCall`, `EncodeStep` (one field), `EncodeReturn(capacity)` are
`residc_encode`; `DecodeCall`, `DecodeStep` or `CommitStep` (one field),
`DecodeReturn`, `Misread` are `residc_decode`; `ResetBoth` is `residc_reset` on
both sides.  The steps of the two sides interleave freely.  Calls that return
before they change anything are not actions.

After an encode that is refused for lack of capacity the stream is *tainted*
until both sides reset.  With `RESUME = FALSE` the application resets before it
goes on, as `fuzz/fuzz_roundtrip.c` does; with `RESUME = TRUE` it may also go on.

`FrequencyTable` and `MessageFifo` are the abstract specifications: a bounded
table of counts with halving, and a FIFO that hands out each message once.  The
refinement mappings are at the end of `MfuTable`, `Stream` and `Session`.

### FrameCodec, Multi, Session

`FrameCodec` runs the three field loops to their end: what is built on whole calls
needs no steps in between, since the two sides share nothing while a call runs.
A schema is a parameter of its operators, as it is of the C functions, so that
`Multi` runs them with one schema after another (`SchemaOf`) over one codec state.
It adds `last_msg_type_index`: `EncodeMulti` and `DecodeMulti` are
`residc_encode_multi` and `residc_decode_multi` with the flag "same type as the
last", the unary code of a type index, refused types and both ways to run out of
capacity.  A frame whose words do not fit the receiver's state decodes as `Junk`.

`Session` is the protocol of `residc.h` ("gap recovery") and
`test/test_roundtrip.c`: both sides call `residc_snapshot` every `CHECKPOINT`
messages; after a gap or a refused encode both call `residc_restore` and the
sender encodes again what came after.  A frame says nothing of the state it was
made from, so the applications number frames and passes.  `Send` and `Replay` are
the sender's calls, `Receive` the receiver's, `Recover` is the agreement on a
snapshot; `Lose`, `Repeat` and `Exchange` are the transport's.  Both sides select
a coder and seed the MFU table before agreed messages (`Prepared`), so that a
recovery goes back to a state before either.

### BitWriter, BitReader, ResidualCode, Rans, BitLayers

`BitWriter` keeps `residc_bw_write` (moves complete bytes one at a time) and the
encoder's `bw_write` (stores a whole word and counts only its complete bytes) side
by side, fed with the same calls.  Accumulators are functions from bit numbers,
buffers the bits in the order they are sent.  `Content` is the refinement mapping
to `BitString`: stored bytes and then pending bits.  `BitReader` does the same for
`residc_br_read` and `br_read` with their refills; `Cursor` maps each to
`BitSource`.

`ResidualCode` has both codes of a residual and that of an MFU rank as strings of
bits, next to five reimplementations in `bench/` (branchless and two-write tiered
code, Golomb-Rice, another Exp-Golomb, a cost formula).  A stream of items is
padded to bytes, may lose its last bytes, and is read in step or with a mistaken
coder and k.  `Peeks` is the choice that the negative shift of `decode_residual`
leaves open near the end.

`Numerals` has what both kinds of codes write: fields of n bits, the number a string
of bits stands for, a word in two halves.

`Rans` has the table (static or trained), the bucket code of residuals, the
encoder that runs from the last residual to the first, and the decoder.

`BitLayers` composes the four into one specification.  They share no state: a
behaviour runs the layer chosen at its start.

### Handles, Bindings

`Handles` is `sdk/residc_sdk.c` on a heap of few addresses that are reused at
once.  A handle is `[types, schema, fields, coded]`; `schema` and `fields` are the
pointers inside (the state to its schema, the schema to its fields), which
snapshot and restore have to mend; `heap` is a function on the addresses in use.
The rest of the codec state is a function of what was coded since the last reset,
and stands as that history; a frame decoded by a codec with another history gives
some message, for which a message of zeros stands.

A message is bytes that `pack_values` fills, each value cut to its field.  Of those
a literal frame carries all, a compressed one only what the codec has bits for:
one of a BOOL, 14 of an INSTRUMENT that is not in the MFU table (`Room`).  Which
fields a frame cuts is open (`Cuts`), since the table is not modelled here.  Behind
an id that lost bits, the codec decodes a message's later fields with another
instrument's state, and nothing is known of them (`OnWire`).  Reference fields of
delta types (`ref_fields`) are left out: the schemas have none, and what they ask of a
message is part of `Representable` in `FieldCodec`.

`Bindings` has the Python and the Rust objects as owners: `New`, `Encode`,
`Decode`, `TakeSnapshot`, `RestoreFrom`, `Reset`, `SeedMfu`, Python's `Exit` and
`FreeSnapshot`, and the end of an object, first out of the program's reach
(`LetGo`) and later collected (`CollectCodec`, `CollectSnapshot`).

### Experiments, Predictions, Measures, Benchmarks

`Experiments` has what the programs have in common: the schemas of quotes and
trades, the generators of messages, `sent`, and the loop over the messages, of which
every action is one turn (`Loop`). A generator is a set of messages per program,
with times and ids counted from the last one. `Predictions` is
`bench/experiment_prediction.c`: an action per experiment, each with the
hand-written encoder of a quote or a trade, its own predictor's state `own`, and the
copy of `commit_state` (`CommitQuote`, `CommitTrade`) by which it moves the codec
state `enc`; `core` is what `residc_encode` has for the same messages. `Measures`
are the programs that, before each `residc_encode`, work out from the codec's state
what it is about to write: the residuals (`experiment_ans.c`,
`experiment_combined_write.c`, `experiment_k_sweep.c`), the way an instrument is
written (`experiment_mfu_varlen.c`), the repeated quantities
(`experiment_qty_runs.c`). `Benchmarks` composes both over one schema per program.

## 3. What TLC checks

| Run | Instance | Shows |
|---|---|---|
| `mfu_table` | 3 slots, 2 buckets, 4 instruments, decay at 3, seed counts up to 65532; the sort with counts 0..3 and any number of used slots | `ChainsReachUsed`, `ChainsAreDisjoint`, `RanksAreInverse`, `UsedRanksAreLow`, `CountsBounded`, `TouchNeverLowersCount`, refinement of `FrequencyTable`; no slot is lost during the sort, its outcome is the one `Mfu` states, its loops end; 19643 states |
| `quote` | TIMESTAMP, INSTRUMENT, PRICE, QUANTITY, ENUM; 5 messages, 4 calls, Exp-Golomb | `RoundTrip`, `InStep`, `FollowsEncoder`, refinement of `MessageFifo`; 64926 states |
| `orders` | the other field types, 3 messages, 4 calls, tiered, `RESUME` | the same invariants for a stream that goes on after a refused encode; 92631 states |
| `session` | 3 schemas and a type without one, 4 messages, snapshots every 2, 2 faults | `InStep` and refinement of `MessageFifo`, which includes that all messages arrive; 26791 states |
| `bit_layers` | all four layers | `WireCompatible`, `ImplementsBitString`, `ImplementsBitSource`, `CodesRoundTrip`, `RansRoundTrip`; 255057 states |
| `bindings` | 3 objects (2 Python, 1 Rust) and their snapshots on 3 addresses, 5 calls | `OneOwner`, `SnapshotKept`, `Delivered`, `Returned`; 555354 states |
| `benchmarks` | 11 programs, 4 to 6 kinds of message, 5 messages each | `Decodable`, `SamePredictions`, `PredictsFromHistory`, `SeesWhatIsWritten`; 43309 states |
| `failed_encode` | as `quote` | a refused encode has moved the state (section 5) |
| `large_ids` | as `quote`, with an id beyond 14 bits | such an id decodes as another one (section 5) |
| `multi_capacity` | as `session` | a frame longer than its buffer (section 5) |
| `wide_writes` | the writers, with a write of 34 bits | a bit is lost (section 5) |
| `scratch_overflow` | the writers with the sizes of the program and 96 writes of 32 bits | a word is stored past the end of the buffer (section 5) |

Bounds, and why they are enough.

* *Table*: three slots and two buckets give chains of length three, a removal at
  the head, in the middle and at the end of a chain, and evictions with ties.
  Four instruments overfill it.  A seed list longer than the table and one with
  counts just below 2^16 are included; `U16` has its real value.  The state space
  of the table is finite, so all sequences of calls are covered.
* *Windows*: `DECAY_PERIOD`, `ADAPT_WINDOW`, `REGIME_WINDOW` and `QF_PERIOD` are 2
  to 4 instead of 10000, 8, 64 and 5000, so that decays, halved means and a change
  of regime happen within four messages.
* *Words*: `WORD48 = 2^14` makes a `uint64_t` 30 bits wide and `U32 = 2^20` a
  `uint32_t` 20 bits, because TLC's integers have 32.  Wraps of gaps, of the
  48-bit Q16 shift and of the 32-bit price sum happen in these widths.
* *Schemas*: `MAX_FIELDS`, 32 in the program, is 4 to 11, no less than the fields
  of the largest schema of a run.  Every state has `field_state` for that many, and a schema
  leaves the rest alone.
* *Instruments*: in `quote`, ids reach `MAX_INSTRUMENTS`, so one message has no
  state of its own.  In the program `MAX_INSTRUMENTS` and the capacity of the
  escape are equal; the two are separate constants (`RAW_IDS`) so that the first
  can be crossed without the second.
* *Calls*: four calls of `residc_encode` give a first message (no prediction), a
  second and a third with decays and regime changes between them, a literal frame
  between compressed ones and a refused encode followed by a reset and more
  messages.  At most two frames are in transit: the sender is then at most two
  messages ahead, and the receiver's steps depend on the oldest frame only.
* *Capacities*: one that refuses some frames and one that refuses none.
* *Session*: four messages with a snapshot every two leave a pass with frames
  before, at and after a snapshot; a link of two frames holds one before and one
  behind a gap; two faults give a recovery during which another fault happens.
  The seed is before message 3 and the coder's selection before message 4, so a
  recovery crosses them in both directions.
* *Bit layers*: accumulators and word stores have their 64 bits.  In `bit_layers`
  the scratch buffer has 29 bytes, enough for the longest sequence of five writes
  and the last word: that run is about the bits that a store writes too much.  The
  program has no such relation between writes and buffer; `scratch_overflow` has
  its real sizes, 320 bytes and 32 fields of three writes each.
  Streams end within a word, with one and after several.  Residuals lie on both
  sides of every limit between tiers, at the escapes and at the ends of the word;
  two in a row show that each leaves the reader at the next one.
* *rANS*: bytes of 4 values, a table of 16 places, states of 4 bytes and 4 buckets
  keep the relations of `RansAssumption` (as 256, 256, 4 and 8 do in C); 81 trained
  tables include empty buckets and one that takes nearly all.
* *Bindings*: messages of up to 6 bytes make the limits of 256 bytes meet as in
  the code (a literal frame is one byte longer than the buffer).  Bytes have 4
  values, so an INSTRUMENT has 16, of which a raw one may have 4: one message has
  an id below that and a price wider than its field; the other a BOOL wider than
  one bit, and an id that does not fit, with fields behind it.  Three addresses for
  six possible handles: memory is reused, and runs out.  Five
  calls are a codec, a snapshot, its end by one of two ways, a new codec at the same
  address and a use of the old object.
* *Benchmarks*: five messages over two or three instruments for a table of two,
  so ranks are reused and the table decays; quantities repeat, and are more than
  the four slots of a `qfreq_t`; residuals are long enough to reach the flush of
  `run_bench`.

`CHECK_DEADLOCK FALSE` where the instance stops: the sort ends, the calls of a
stream are bounded, frames and benchmarks end.

Fairness.  `WF_vars(Receiver)` in `Stream`: the receiver calls `residc_decode`
while frames are there, and each call, a loop over the schema's fields, ends.  No
fairness is assumed of the sender; it may stop forever.  `WF_parts(SortStep)`
in `TableAndSort`: the function, once called, runs; nobody has to use a table.  In
`Session`, `Receive` is fair for the same reason as in `Stream`, `Recover` since a missing frame is asked for again in the end,
by a timeout if nothing follows it, and `Replay` since the sender owes what was
asked for.  `Send` is not fair, and the transport, which is not obliged to fail,
fails at most `MAX_FAULTS` times: without that bound nothing need ever arrive.
In `Bindings` only the collection of objects out of reach is fair: Python's
reference counts and Rust's drops run it.  Programs are not obliged to let go.

## 4. What the properties would notice

For every property of a passing run there is a fault that TLC finds with it:

| Property | Fault |
|---|---|
| MfuTable `TypeOK` | a decay one touch late |
| `ChainsReachUsed` | the removed head's bucket is emptied |
| `ChainsAreDisjoint` | an evicted slot stays on its old chain |
| `RanksAreInverse` | a rebuild that fills one array |
| `UsedRanksAreLow` | ranks laid out from the other end at the start |
| `CountsBounded` | a decay that only rebuilds the ranks |
| `TouchNeverLowersCount` | 8-bit counts |
| `ImplementsFrequencies` | eviction of the highest count |
| `SortTyped`, `NoSlotLost`, `Rebuilt`, `Terminates` | `j--` in the condition; the gap missed by one; `<=` for `<`; a loop variable not advanced |
| `TypeOK` of Stream, Session, Benchmarks | the window of a mean is never halved |
| `RoundTrip` (`quote`, `orders`) | penny mode chosen without looking at the prediction; an id predicted from the stream |
| Stream `InStep` | the literal path does not subtract the predicted gap; one side resets alone |
| `FollowsEncoder` | the decoder does not store a predicted quantity; the literal path stores an id's value for its step |
| Stream `ImplementsFifo` | after a reset the coder is selected again on one side |
| Session `InStep` | a literal frame does not set the last type |
| Session `ImplementsFifo` | one flag more is read of the last type; no timeout behind the last frames |
| BitLayers `TypeOK` | a flush that moves one byte |
| `WireCompatible` | the partial byte behind a store is taken for sent |
| `ImplementsBitString` | the last byte's bits stay at its lower end |
| `ImplementsBitSource` | a failed read drops the bits that are left |
| `CodesRoundTrip` | the decoder looks for the escape one bit too early |
| `RansRoundTrip` | a bucket's offset counts from 0 |
| Bindings `TypeOK` | a message of one byte too many is let through |
| `OneOwner` | `free_snapshot` keeps the pointer |
| `SnapshotKept` | restore copies in the other direction |
| `Delivered` | fields that overlap by a byte |
| `Returned` | `__exit__` does not destroy the handle |
| `Decodable` | the flag before a two-back instrument is left out |
| `SamePredictions` | the price is stored before its residual is taken |
| `PredictsFromHistory` | the last gap is not kept |
| `SeesWhatIsWritten` | round lots are not divided by 100 |

## 5. Where code and documentation differ

* **A refused encode moves the state** (`failed_encode`).  `sdk/residc_sdk.h:75`
  says of the codec given to an encode "Codec state (updated on success)".
  `residc_encode` compares the size of the frame with the capacity after
  `encode_fields` has updated the state (lines 1039, 1047, 1063).  The caller has
  to reset both sides, as `fuzz/fuzz_roundtrip.c:66` does.
* **Instrument ids of 16384 and above** (`large_ids`).  `doc/TECHNIQUE.md:227`
  and `test/test_edge.c:134` say that they work, with less compression.  An id
  that is not in the MFU table is written in 14 bits (line 713) and decodes as
  another one.  The test's message is sent as a literal frame and does not meet
  this.
* **A write of more than 33 bits** (`wide_writes`).  `bw_write` says "Wire format
  is identical" (line 60) and "After flush count is 0-7, so max accumulation is
  7+34=41 < 64" (line 62).  The accumulator is emptied from 32 bits on, so up to
  31 are pending when a write begins, and 34 more are 65: the shift by
  `64 - count` becomes -1, which the hardware takes for 63, and of the stored word
  one bit is right.  `residc_bw_write` loses the first bit only.
* **Capacity of multi-type frames** (`multi_capacity`).  `residc_encode_multi`
  takes the "Size of output buffer" (`residc.h:433`) and compares it for literal
  frames only; a compressed one is written whatever its size (line 1438).

* **Size of the scratch buffer** (`scratch_overflow`).  The static assertion at
  `core/residc.c:13-14` says that `RESIDC_SCRATCH_BYTES` "must accommodate worst-case
  encoding plus 8-byte memcpy padding" and asks for 280, which is 32 residuals of
  the tiered coder with 68 bits each, and 8 bytes.  A residual that the Exp-Golomb
  coder escapes has 96 bits (lines 276-292), 32 of them 384 bytes.  `bw_write`
  stores 8 bytes at `byte_pos` (line 78) and compares it with nothing: with the
  sizes of the program, the store of the 80th write begins at byte 316 and ends at
  324 of 320.
* **The stock encoder of the experiments** (no run: the lines themselves show it).
  `experiment_prediction.c:194` says of its copy of the encoder "must match
  residc_encode exactly", lines 141-142 of the copy of `commit_state` "identical to
  residc's commit_state", and line 1017 "Since manual = stock (verified above)".
  The copy takes k for price and quantity from the regime (line 232) and not from
  the adaptive means, which it does not move, and writes an instrument's slot in a
  fixed width (line 222) and not its rank.  `SamePredictions` says what does agree.

Seen while modelling, and left without a run because no sentence of the
repository is contradicted outright or the instance would show only a number:

* A literal frame of a 256-byte message has 257 bytes, the bindings' buffers 256;
  such an encode fails, and has moved the codec.
* After `free_snapshot` (Python) a restore from that snapshot does nothing and
  says nothing.
* `Codec::new` (Rust) checks for 256 fields where the SDK takes 32.
* The "verify" step of `experiment_prediction.c` compares the difference of the two
  ratios with its sign, so that any worse one is "CLOSE".  The copies of the table's
  decay leave out the ranks.
* With two new quantities in turn, the four slots of `qfreq_t` replace only the
  last one, so neither is ever found.

## 6. What is proved

TLAPS checks these for **every** value of the constants that meets the named
assumptions: any number of slots up to 256, of buckets, any decay period, any set
of 16-bit instruments and any seed lists; any schema, or schemas, of any messages;
any buffer sizes and bounds on calls and faults; any width of accumulator; words of
16 to 64 bits, any residuals and any `k` for the codes; any sizes of bytes, states
and tables, any buckets and any training data of rANS; for the bindings any number
of objects, addresses, schemas, values and calls; for the experiments any messages
their generators may draw, any number of them and any start, as long as no time or
id wraps.

| Theorem | Statement |
|---|---|
| `MfuTableProofs!TypeCorrect` | `Spec => []TypeOK` |
| `RanksCorrect` | `Spec => []RanksAreInverse` |
| `UsedRanksCorrect` | `Spec => []UsedRanksAreLow` |
| `CountsCorrect` | `Spec => []CountsBounded` |
| `ChainsReach` | `Spec => []ChainsReachUsed` |
| `ChainsApart` | `Spec => []ChainsAreDisjoint` |
| `CountsRise` | `RoomToCount`: `Spec => TouchNeverLowersCount` |
| `Refinement` | `RoomToCount`: `Spec => ImplementsFrequencies` |
| `RankSortProofs!SortTypes` | `Spec => []TypeOK` |
| `EverySlotRanked` | `Spec => []NoSlotLost` |
| `SortRebuilds` | `Spec => []Rebuilt` |
| `CodecLemmas!DecodeUndoesEncode` | decoding what was encoded, in the same state, gives the value and the encoder's next state, for every type of field |
| `CommitFollowsEncode` | `commit_state` moves a state as `encode_fields` does, for every type of field |
| `StreamProofs!TypesKept` | `Spec => []TypeOK` |
| `MessagesArriveUnchanged` | `Carried`: `Spec => []RoundTrip` |
| `StatesMeet` | `Carried`: `Spec => []InStep` |
| `DecoderFollows` | `Carried`: `Spec => []FollowsEncoder` |
| `StreamIsFifo` | `Carried`, `~RESUME`: `Spec => Fifo!Init /\ [][Fifo!Next]_(Fifo!vars)` |
| `SessionProofs!SessionTyped` | `Spec => []TypeOK` |
| `StatesAgree` | `Spec => []InStep` |
| `SessionIsFifo` | `Spec => Fifo!Init /\ [][Fifo!Next]_(Fifo!vars)` |
| `BindingsProofs!OwnersApart` | `Spec => []OneOwner` |
| `SnapshotsStay` | `Spec => []SnapshotKept` |
| `ObjectsTyped` | `Spec => []TypeOK` |
| `ValuesDelivered` | `Spec => []Delivered` |
| `BitLayersProofs!ReadersAreCursors` | `Spec => ImplementsBitSource` |
| `WriterIsString` | `Fits`: `Spec => ImplementsBitString` |
| `WritersAgree` | `Fits`: `Spec => [](Writing!TypeOK /\ Writing!WireCompatible)` |
| `CodesComeBack` | `Spec => []CodesRoundTrip` |
| `CodesAreTyped` | `Spec => []Coding!TypeOK` |
| `WiresAgree` | `Fits`: `Spec => []WireCompatible` |
| `ResidualsComeBack` | `Spec => []RansRoundTrip` |
| `LayersAreTyped` | `Fits`: `Spec => []TypeOK` |
| `BenchmarksProofs!AlwaysTyped` | `Spec => []TypeOK` |
| `AlwaysSamePredictions` | `Spec => []SamePredictions` |
| `AlwaysPredictsFromHistory` | `Spec => []PredictsFromHistory` |

Assumptions on the constants, all evaluated by TLC in the runs: `WidthAssumption`,
`MfuAssumption` (a table has at most 256 slots since ranks are bytes),
`SeedAssumption` (a seed list names instruments of the application, each once;
nothing in `residc_mfu_seed` checks that), `CodecAssumption`, `IsSchema` of each
schema, `StreamAssumption`, `MultiAssumption` (no two types have one index),
`SessionAssumption`, `LayersAssumption` with those of its parts,
`HandlesAssumption`, `BindingsAssumption`, `ExperimentsAssumption`,
`PredictionsAssumption`, `MeasuresAssumption`, `BenchmarksAssumption`.  Five of them
are more than types:

* `CodeAssumption`: a tiered residual has `k >= 3`, which is the least that `FieldK`
  asks for; `k + 10` is at most the width of a word, as the largest `k` that
  `residc_adaptive_k` is called with is 20; the number that the unchecked Exp-Golomb
  coder of `bench/` adds 2^k to leaves room for it.
* `RansAssumption`: the buckets follow one another from 0, and each has offsets for
  all its codes; the least state is a multiple of the table's size, and the largest
  fits its bytes; the square of the number of buckets is at most the size of the
  table (64 <= 256).
* `BindingsAssumption`: the values given to `encode` are unsigned, as
  `const uint64_t *values` has them.
* `PredictionsAssumption`: the generators draw instruments that have a state
  (`experiment_prediction.c` draws the first 50 of 256); twice `QF_PERIOD`, 10000 in
  the program, is below 2^16.
* `Generators`, part of it and of `MeasuresAssumption`: what is drawn is
  `Representable`, and the last time or id of the run is below half of 2^64.

Hypotheses of single theorems, each of which a run shows to be needed or says why
it is harmless:

* `RoomToCount`: the largest seeded count plus one decay period stays below 2^16; in
  the program, no seed counts above 55535.  Above that a `uint16_t` count can wrap.
* `Carried`: every message is `Representable`, that is, its values are ones the
  format has bits for.  The run `large_ids` shows what happens to others.
  `SessionAssumption` says the same of the messages of a session.
* `~RESUME`: the application resets both sides after an encode that failed.  The run
  `failed_encode` shows why it has to.
* `Fits`: no write is wider than `ACC - FLUSH + 1` bits, 33 in the program, and the
  buffer holds `MAX_WRITES` of them and a word.  The program ensures neither:
  `wide_writes` has a write of 34 bits, and `scratch_overflow` a message that the
  buffer does not hold.  The theorems with this hypothesis are about all other
  messages: what the writers do as long as they stay inside their buffers.

### The table

The inductive invariant of the table is

    SoundTable == TypeOK /\ GoodRanks(mfu) /\ Tidy(mfu) /\ WellChained(mfu)
                  /\ Known(mfu) /\ CountsBounded

*Ranks.*  `RanksAreInverse` and `UsedRanksAreLow` are not inductive: a slot that
comes into use between two rebuilds must already have the next free rank.
`GoodRanks` adds that, of every unused slot: its rank is its own index.  After a
rebuild it holds because `RankOf` is injective (two used slots are ahead of one
another in exactly one direction, so one of the `Ahead` sets is a proper subset of
the other) and an injection of a finite set into itself is onto.

*Counts.*  `CountsBounded` is not inductive either: a decay halves the counts of
the used slots only, so the bound of the others needs that their counts are 0, and
for that that `Lookup` never returns an unused slot: `Tidy` says that no bucket
and no chain leads to one.

*Chains.*  That `Lookup` finds each used slot says too little about the chains to
survive an eviction, which takes a cell out of the middle.  `WellChained` says
that there is a stamp for each slot, the time of its insertion, such that each
bucket holds its newest slot and each slot leads to the newest of the older ones:
a property of each cell by itself.  `mfu_hash_insert` gives the new slot the
largest stamp; `mfu_hash_remove` makes its predecessor lead to the newest slot
older than the removed one, which is then the newest one older than the
predecessor.  A walk meets slots with falling stamps, so it meets each at most
once and ends within `MFU_SIZE` cells; it meets every slot of its bucket, since
the oldest cell of the walk that is not older than a slot must be that slot.  An
instrument is in one slot only (`Distinct`), so `Lookup` answers that slot.

*Refinement.*  `WellChained` and `Known` (the used slots hold instruments of the
application) make the abstract counts a function of the used slots: `Stored` is
its domain, and each slot gives its instrument's count.  An update counts one
slot, fills the next one or replaces one of those with the lowest count
(`UpdateChained`); each is the abstract action, and so are a decay, a seed and a
reset.

Chains are walked with a recursive function, `Walk`.  That such a function exists
is itself proved (in `CodecLemmas`: prefixes of the iteration exist by minimal
counterexample, agree, and join to one function), and `WalkSteps` unfolds it.
`StepByStep`, of the same kind, takes the place of induction in the other modules:
two functions that start alike and step alike agree.

*Sort.*  The invariant of the loops of `RankSort` is

    Sorting == TypeOK /\ Permuted /\ Untouched /\ Sorted /\ Moving /\ Inverting

Insertion sort works in place, so while an element is out the array has another
one twice.  All of it is therefore said of `Ranks`, the array with the element put
back into the gap: a permutation at every step, sorted below the frontier of the
outer loop but for the gap, and as it was from there on (`Untouched`, which is why
ties stay in order).  When the loops end, a slot's rank is the number of slots
ahead of it, which is what `RebuildRanks` says.

### The field codec and the stream

`CodecLemmas` has, for each type of field, what its three functions do to a cursor.
What the round trip of a residual rests on is `DifferenceRecovered`: the wrapped
difference of two words, added back, gives the word.  That of an instrument rests
on `GoodRanks`, through which the rank that is sent names one slot; so a state is
*sound* if its table has good ranks, and every operation is shown to keep that,
also when it encodes a message the format cannot carry.

`Stream` needs two invariants.  `Shape == Types /\ Encoding /\ Transit /\ Decoding`
holds unconditionally: the encoder's cursors are those that `EncodeField` makes of
each other, and every frame in transit is what they wrote.
`Linked == Chain /\ Partial /\ FollowsEncoder /\ RoundTrip` relates the sides: each
frame begins where the one before it ended, the first where the decoder is, and
the fields the decoder has read are those of the message.  Neither `InStep` nor
`RoundTrip` is inductive without `Chain`: a frame can be two messages ahead of the
decoder.  `Healthy` (nothing is tainted without `RESUME`) is what the refinement
adds.

### The session

`SessionProofs` first runs the loops of `FrameCodec`: the encoder's cursors are a
function of the message (`TrailExists`), and the decoder's loop goes along it
(`FieldsCarried`).  With `TypeRead` (the header of a frame gives its type back) this
makes `DecodeUndoesMulti`: a frame that is decoded in the state it was made from
gives the message and the state the encoder went on to, literal or compressed.

The invariant of the protocol is

    IInv == (\E S : Follows(S)) /\ NoVainRecovery

`S` is the *history*: the states that the messages of the log lead a codec through,
whatever the transport does.  `Follows(S)` says that everything stands on it: the
encoder before the next message unless an encode has failed, the decoder after the
last one, each snapshot of either side at its number, and each frame in transit,
of this pass or an abandoned one, was made from the state before its message.
`InStep` is not inductive, since a frame of an old pass may be taken for one of
this pass only if it was made from the same state; the history is what the two
passes share.  A recovery puts both sides at one place on it, and what is encoded
from there is what was encoded before.

`NoVainRecovery` gives the last conjunct of `TypeOK`, that there are no more
recoveries than faults.  As long as there were as many recoveries as faults, the
link holds frames of earlier passes and then all of this one that the receiver has
not taken, in order, so there is no gap and no silence.

### Bits

A refill, by bytes or by a word, has a closed form, `Loaded`.  `Holding` says that a
reader's pending bits are the last before its byte position; a read moves the
cursor over them, for either refill.  A writer stands for a text, its stored bytes
and then its pending bits.  `Filling` says that both writers stand for the same
one, no longer than the calls account for; a store of a whole word leaves it as
it is because the bits it stores too much lie behind the pending ones.

### Codes

A code is a string of bits, and `Bits` concatenates those of all items.  That a
decoder gets back what was written is said of one code at a time by

    Gives(d, r, s, v)

if all of `s` lies before the end of the data, `d` is the value `v` and the reader
behind `s`; if not, `d` has failed.  For each coder there is one lemma that its
decoder `Gives` its value for its string: from fields of n bits (`Num` of `B(v, n)` is
`v` modulo 2^n) to unary prefixes, halves of words, tiers, both Exp-Golomb codes,
Golomb-Rice and ranks.  The tiered decoder guesses its prefix from what may be old
bits of the accumulator when fewer than four are left (`Peeks`); `TieredFails` shows
that it then runs out of data whatever it has guessed.

A failed reader reads on and its later values are of no meaning, so a second lemma
per decoder says what holds of any bits, `Onward`: it stays failed, does not go back,
and leaves the end of the data behind it at most once.  That is all `TypeOK` and the
second half of `RoundTrip` need of a reader that takes the bits for another code
(`Mistaken`).  The invariant of the layer is

    Keeping == ... /\ Coding!TypeOK /\ Coding!RoundTrip

which adds to the properties that the reader's bits are a prefix of those the items
were written as, and that it has taken no more items than there are.

For `WiresAgree`, one lemma brings each encoder, in one write or in two, branchless
or not, and the price of a residual to a common form that depends on the tier alone,
with `B(v, m + n) = B(v \div 2^n, m) \o B(v, n)`.

### The entropy coder

*The table.*  `rans_init_trained` rounds every frequency, and the largest takes what
that leaves over.  It has enough to give: with *n* buckets the largest count is at
least the *n*-th part of all, so its frequency, rounded, is about `PRECISION / n` or
more, and what the rounding added is less than *n*.  With *n* squared at most
`PRECISION` the largest frequency stays positive, and the sum is `PRECISION`
(`TrainedTable`).  The bound of 1 that the code puts on the result is never
needed.

*One step.*  A state lies in `RANS_L .. RANS_L * BYTE - 1`.  `rans_enc_put` sheds
bytes until the state is below `(RANS_L / PRECISION) * BYTE * freq`, and the step
then leads back into the interval.  The decoder finds bucket and state by division,
as no two buckets have a position in common.  That it pulls as many bytes as were
shed is the point: what is left after fewer bytes is below `RANS_L`, since one more
byte was shed from it, and after all of them it is not.  `Coded` is a step of the
encoder, `GivenBack` says that the decoder takes it back.

*All steps.*  The invariant is `Meeting`.  The residuals determine a chain *g* of
coder states, from the last residual to the first, and the strings *f* of offsets
joined from the first to the last.  `Passed` places the encoder on *g*, and its
history `put`; `Sent` says that the frame holds the end of *g* and all of *f*;
`Returned` that, with *r* residuals decoded, the decoder is at *g[n - r]* and has
the bits behind *f[r]* before it.  Buckets and offsets thus meet at each residual,
though one walks *g* backwards and the other *f* forwards.

### Ownership

The inductive invariant of `Bindings` is

    Owned == Shape /\ OneOwner /\ SnapshotKept

The three need one another.  `SnapshotKept` survives an encode or a restore
because these write to the codec's handle, and by `OneOwner` that is no
snapshot's.  `OneOwner` survives a constructor because `Shape` says that an object
which is not there yet has no pointer to lose, and because a place that is free is
nobody's: `DOMAIN heap` holds all pointers.  It survives the end of an object
because no other one has the pointer that is freed.  The actions fall into five
kinds, with a lemma each: a handle is allocated for a codec or a snapshot
(`CodecAllocated`, `SnapshotAllocated`), freed for either (`CodecFreed`,
`SnapshotFreed`), coded with (`CodingKeeps`), or left alone (`PointersKept`).  Of
`HandlesAssumption` these two theorems use `NULL \notin Addr` only.  `ObjectsTyped`
adds that every handle on the heap has a layout the SDK takes.

`Delivered` says of each field that the value given comes out, cut to its field, or
cut further to what a compressed frame has bits for, as long as no INSTRUMENT
before it had an id of more than the 14 bits (`RAW_IDS`).  That id may then be
another one and the rest of the message anything, as the run `large_ids` shows on
the codec itself.  Of the state this needs only that every frame in transit is
what `pack_values` made of what the frame carries (`OnWire`) of values for one of
the schemas (`Sending`): `WireKeeps` says which values those are, and `WireFits`
that they are within their fields, so that packing them loses nothing more
(`FrameOpened`).

The rest is about the layout.  The offsets that `residc_codec_create` adds up are
a recursive function, so they rise: field *i* ends before any later one begins
(`Offset(types, i) + size <= Offset(types, j)`), so no byte of it is overwritten, and
it ends within the message.  What `unpack_values` then adds up from its bytes is the
sum of the digits of the value, which is the value modulo `BYTE` to the power of
its size: the digits below *b* sum up to the value modulo `Weight[b]`, for each *b*.

### The experiments

The copies of `commit_state` in `experiment_prediction.c` are not the codec. They
count an instrument's message with its price and not after the last field, never
rebuild the ranks of the table, and leave alone the means from which the codec takes
k for a price or a quantity. The invariant, `Experimenting`, says what is left:

    Alike(enc, core) == Rest(enc, core) /\ enc.instruments = core.instruments

`Rest` has time and its mean, the regime with its window, the field states, the
decay counter, and the table but for its ranks (`SameTable`).  That is enough for a
table, because `Lookup`, the slot to evict, insertion and decay do not read ranks.
`FourFields` takes the codec's cursors through timestamp, instrument, price and
quantity: after them the copy is one message of that instrument ahead
(`Beyond`), which the end of the codec's loop, or the last four fields of a trade,
make up for.  `PredictsAlike` follows, with k for time.

With it goes that both states are `Sound`, as in the proofs of the codec, and
`Sending`: the messages still to come, each with the largest step of time or id the
generator draws, end below the half of 2^64.  Differences of times are then never
negative, which is how the experiments with gaps may use them.

`Remembered` relates what a predictor keeps to `sent`.  Its properties speak of the
last place of an instrument's messages and of the last but one (`LastIn`,
`Earlier`); a message appended to `sent` becomes the one, and what was the last
becomes the other (`HistoryGrows`).  For the table of frequent quantities

    Counting(f, times, QF_PERIOD + f.updates)

says that a quantity is in one slot, that slots are in order, that no count is above
the number of times its quantity was sent, and that none is above `QF_PERIOD +
updates`.  The last bound is what makes the counts fit their 16 bits: it is not
enough that they are halved every `QF_PERIOD` updates, it matters that they are
then at most `QF_PERIOD` again.

`Tracked` gives the rest of `TypeOK`: the scratch buffer of `run_bench` has room for
one message more before each one.

## 7. Model-checked only, and not modelled

Model-checked only, and why:

* Liveness (`Terminates`, `Returned`, and that messages arrive, in both
  `ImplementsFifo`), which the prover cannot do under fairness.  The safety parts of
  the two refinements are proved.
* `Decodable` and `SeesWhatIsWritten` of `Benchmarks`.  Both compare whole lists of
  tokens, which the model joins, selects from and folds over with operators of the
  community modules; what such an operator gives for every list is induction over
  data.  What the lists are made of, the coders and commits of single fields and
  the codes, is proved (`DecodeUndoesEncode`, `CommitFollowsEncode`,
  `CodesComeBack`).

Not modelled, and why:

* The version header and the error strings: a comparison each, and a table of
  strings, without state.
* Frames cut short or made by another program.  The library notices some of them
  after the state has moved, and the state then depends on bits that are not
  there.  `ResidualCode` has cut streams at the level of the codes; the sessions
  here number their frames and never decode such a one.
* What a frame decodes to in a state it was not made from: `Misread`, `Junk` and,
  under the bindings, a message of zeros stand for it.
* RAW and ENUM fields of 8 bytes (`IsSchema`): they ask for a write of 64
  bits, which debug builds trap.  `Representable` states what a message has to meet
  for the format to carry it; nothing in the code checks it.
* Builds in which the compiler draws conclusions from signed overflow.
* In `bench/`: timing loops, random generators, printing, and functions that are
  never called (`commit_trade`, `experiment_prediction.c:718`).
  `bench_compression.c`, the examples, tests and fuzz targets only call what is
  modelled, in the protocols of `Stream` and `Session`.
* In the bindings: conversion of arguments, loading of the library, and programs
  that break Rust's borrowing rules.

## 8. Plan

1. `Words`, `Mfu`, `MfuTable`, `RankSort`, `Codec`, `FieldCodec`, `Stream`: done,
   with the proofs of the table.
2. Bits and codes, whole frames, sessions with several types, handles and
   bindings, the experiments: done, with the proofs of ownership.
3. Proofs: done for the table and its sort, the field codec, both kinds of stream,
   the bit writer and reader, and the handles.
   The codes of residuals and ranks, the entropy coder and the layout of a message
   are proved too, and that the experiments predict as the codec does.
4. The experiments: done but for `Decodable` and `SeesWhatIsWritten` (section 7).
