------------------------------ MODULE MfuTable ------------------------------
(***************************************************************************)
(* One MFU table as the codec drives it: touched once per INSTRUMENT field *)
(* with a decay every DECAY_PERIOD touches, seeded by the application, and *)
(* reset with the codec.  Encoder and decoder each own one such table, and *)
(* the index on the wire is a rank in it.                                  *)
(***************************************************************************)
EXTENDS Mfu, Sequences

CONSTANTS
    Ids,                \* instruments the application uses
    Seeds,              \* lists of entries the application seeds
    MAX_SEED_COUNT      \* the largest count in them

ASSUME SeedAssumption ==
    /\ Ids \subseteq Instrument
    /\ MAX_SEED_COUNT \in Count
    /\ \A s \in Seeds :
          /\ s \in Seq([instrument_id : Ids, count : 0 .. MAX_SEED_COUNT])
          /\ \A i, j \in 1 .. Len(s) :      \* an instrument is seeded once
                s[i].instrument_id = s[j].instrument_id => i = j

VARIABLES
    mfu,                \* state->mfu
    mfu_decay_counter   \* state->mfu_decay_counter

vars == <<mfu, mfu_decay_counter>>

Init ==
    /\ mfu = MfuInit
    /\ mfu_decay_counter = 0

\* Fault: the decay comes one touch late.
TouchLateDecay(id) ==
    IF mfu_decay_counter >= DECAY_PERIOD
    THEN /\ mfu' = Decay(Update(mfu, id))
         /\ mfu_decay_counter' = 0
    ELSE /\ mfu' = Update(mfu, id)
         /\ mfu_decay_counter' = mfu_decay_counter + 1

\* The fused state update of an INSTRUMENT field.
Touch(id) ==
    IF mfu_decay_counter + 1 >= DECAY_PERIOD
    THEN /\ mfu' = Decay(Update(mfu, id))
         /\ mfu_decay_counter' = 0
    ELSE /\ mfu' = Update(mfu, id)
         /\ mfu_decay_counter' = mfu_decay_counter + 1

\* residc_mfu_seed(&state->mfu, ...): the decay counter is not the table's.
SeedTable(s) ==
    /\ mfu' = Seed(s, Len(s))
    /\ UNCHANGED mfu_decay_counter

\* The part of residc_reset that concerns the table.
Reset ==
    /\ mfu' = MfuInit
    /\ mfu_decay_counter' = 0

Next ==
    \/ \E id \in Ids : Touch(id)
    \/ \E s \in Seeds : SeedTable(s)
    \/ Reset

Spec == Init /\ [][Next]_vars

-----------------------------------------------------------------------------
Used == 0 .. mfu.num_entries - 1

\* The table and the counter hold values of their C types.
TypeOK ==
    /\ mfu \in Table
    /\ mfu_decay_counter \in 0 .. DECAY_PERIOD - 1

\* Every used slot is found through its own bucket and no other slot hides
\* it: after any mix of evictions and insertions the chains still lead from
\* each stored instrument to the one slot that holds it.
ChainsReachUsed ==
    \A i \in Used : Lookup(mfu, mfu.entries[i].instrument_id) = i

\* No chain leads to a slot that is not in use or belongs to another bucket,
\* and none runs in a circle: a walk of MFU_SIZE steps is over.
ChainsAreDisjoint ==
    \A h \in Buckets :
        LET node == Walk(mfu, h)
        IN  /\ node[MFU_SIZE] = NIL
            /\ \A n \in Slots : node[n] # NIL =>
                   /\ node[n] \in Used
                   /\ Hash(mfu.entries[node[n]].instrument_id) = h

\* rank_to_idx undoes idx_to_rank and back, so a rank written by the encoder
\* names the same slot in an equal table at the decoder.
RanksAreInverse ==
    \A i \in Slots :
        /\ mfu.rank_to_idx[mfu.idx_to_rank[i]] = i
        /\ mfu.idx_to_rank[mfu.rank_to_idx[i]] = i

\* The rank of a used slot is below num_entries, also for slots filled after
\* the last rebuild: the short rank codes stay with the used slots.
UsedRanksAreLow ==
    \A i \in Used : mfu.idx_to_rank[i] < mfu.num_entries

\* Counts stay below the largest seed plus the touches of this period, so
\* the uint16_t count does not wrap before the next decay halves it.
Ceiling == IF MAX_SEED_COUNT > DECAY_PERIOD THEN MAX_SEED_COUNT ELSE DECAY_PERIOD

CountsBounded ==
    \A i \in Slots : mfu.entries[i].count <= Ceiling + mfu_decay_counter

\* A touch never lowers the count of the touched instrument unless it is the
\* one that ends the decay period (a wrapped counter would drop it to 0 and
\* make the hottest instrument the next to be evicted).
TouchNeverLowersCount ==
    [][\A i \in Slots :
          (/\ mfu'.entries[i].instrument_id = mfu.entries[i].instrument_id
           /\ mfu_decay_counter' = mfu_decay_counter + 1
           /\ i < mfu.num_entries)
          => mfu'.entries[i].count >= mfu.entries[i].count]_vars

\* The table implements the abstract one: what Lookup finds is the count of
\* each instrument, whatever slot, bucket and chain hold it.
Found == {id \in Ids : Lookup(mfu, id) >= 0}

\* A seed list as the table keeps it: its first MFU_SIZE entries.
Kept(s) == {s[i] : i \in {n \in 1 .. Len(s) : n <= MFU_SIZE}}

AsTable(s) ==
    [id \in {e.instrument_id : e \in Kept(s)} |->
        (CHOOSE e \in Kept(s) : e.instrument_id = id).count]

Frequencies == INSTANCE FrequencyTable WITH
    CAPACITY     <- MFU_SIZE,
    SeededTables <- {AsTable(s) : s \in Seeds},
    freq         <- [id \in Found |-> mfu.entries[Lookup(mfu, id)].count],
    touches      <- mfu_decay_counter

ImplementsFrequencies == Frequencies!Spec

=============================================================================
