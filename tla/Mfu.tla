-------------------------------- MODULE Mfu --------------------------------
(***************************************************************************)
(* residc_mfu_table_t and its operations (core/residc.c, "MFU Table"): the *)
(* most-frequently-used instruments, found by a chained hash table, evicted *)
(* by lowest count, and ranked by count for the variable-length index.     *)
(*                                                                         *)
(* The operators take a table, a record with the fields of the C struct,   *)
(* and return one.  Module MfuTable runs them as a state machine; module   *)
(* Codec calls them from the INSTRUMENT field.                             *)
(***************************************************************************)
EXTENDS Integers, FiniteSets

CONSTANTS
    U16,            \* 2^16: number of values of a uint16_t
    MFU_SIZE,       \* RESIDC_MFU_SIZE (256)
    HASH_SIZE,      \* number of hash buckets (256)
    DECAY_PERIOD    \* messages between two decays (10000)

ASSUME MfuAssumption ==
    /\ MFU_SIZE \in Nat \ {0}
    /\ MFU_SIZE <= 256              \* ranks and indexes are stored in uint8_t
    /\ U16 \in Nat
    /\ U16 > 256
    /\ HASH_SIZE \in Nat \ {0}
    /\ DECAY_PERIOD \in Nat \ {0}

Slots      == 0 .. MFU_SIZE - 1
Buckets    == 0 .. HASH_SIZE - 1
Instrument == 0 .. U16 - 1          \* uint16_t instrument_id
Count      == 0 .. U16 - 1          \* uint16_t count
NIL        == U16 - 1               \* 0xFFFF ends a chain

Entry == [instrument_id : Instrument, count : Count]

Table ==
    [ entries     : [Slots -> Entry],
      num_entries : 0 .. MFU_SIZE,
      hash        : [Buckets -> Slots \cup {NIL}],
      chain       : [Slots -> Slots \cup {NIL}],
      rank_to_idx : [Slots -> Slots],
      idx_to_rank : [Slots -> Slots] ]

Hash(id) == (id * 157) % HASH_SIZE

\* Fault: the ranks are laid out from the other end.
MfuInitReversed ==
    [ entries     |-> [i \in Slots |-> [instrument_id |-> 0, count |-> 0]],
      num_entries |-> 0,
      hash        |-> [h \in Buckets |-> NIL],
      chain       |-> [i \in Slots |-> NIL],
      rank_to_idx |-> [i \in Slots |-> MFU_SIZE - 1 - i],
      idx_to_rank |-> [i \in Slots |-> MFU_SIZE - 1 - i] ]

MfuInit ==
    [ entries     |-> [i \in Slots |-> [instrument_id |-> 0, count |-> 0]],
      num_entries |-> 0,
      hash        |-> [h \in Buckets |-> NIL],
      chain       |-> [i \in Slots |-> NIL],
      rank_to_idx |-> [i \in Slots |-> i],
      idx_to_rank |-> [i \in Slots |-> i] ]

-----------------------------------------------------------------------------
(***************************************************************************)
(* The n-th slot on the chain of bucket h, NIL once past its end.  A walk  *)
(* of MFU_SIZE slots visits every slot of a chain without a cycle.         *)
(***************************************************************************)
Walk(mfu, h) ==
    LET node[n \in Nat] ==
            IF n = 0 THEN mfu.hash[h]
            ELSE IF node[n - 1] \in Slots THEN mfu.chain[node[n - 1]] ELSE NIL
    IN  node

\* The first n in Slots with S(n), for a walk that stops at the first match.
IsFirst(n, S) == n \in S /\ \A m \in S : n <= m

\* residc_mfu_lookup: the slot that holds id, -1 if none.
Lookup(mfu, id) ==
    LET node == Walk(mfu, Hash(id))
        hits == {n \in Slots : node[n] \in Slots
                               /\ mfu.entries[node[n]].instrument_id = id}
    IN  IF \E n \in Slots : IsFirst(n, hits)
        THEN node[CHOOSE n \in Slots : IsFirst(n, hits)]
        ELSE -1

\* Fault: the comparison is the wrong way round.
MaxSlot(mfu) ==
    CHOOSE i \in Slots : \A j \in Slots :
        \/ mfu.entries[i].count > mfu.entries[j].count
        \/ mfu.entries[i].count = mfu.entries[j].count /\ i <= j

\* The replaced entry: the lowest count, the lowest index among equals.
MinSlot(mfu) ==
    CHOOSE i \in Slots : \A j \in Slots :
        \/ mfu.entries[i].count < mfu.entries[j].count
        \/ mfu.entries[i].count = mfu.entries[j].count /\ i <= j

\* Fault: the old entry is not taken out of its bucket.
UnlinkNothing(mfu, idx) == mfu

\* Fault: the bucket of a removed head is emptied, not handed to the next.
UnlinkDropsRest(mfu, idx) ==
    LET h == Hash(mfu.entries[idx].instrument_id)
    IN  IF mfu.hash[h] = idx THEN [mfu EXCEPT !.hash[h] = NIL] ELSE mfu

\* "Remove old entry from hash chain": the first pointer to idx in its
\* bucket, be it the bucket's head or a chain cell, now points past it.
Unlink(mfu, idx) ==
    LET h     == Hash(mfu.entries[idx].instrument_id)
        node  == Walk(mfu, h)
        cells == {n \in Slots : node[n] \in Slots /\ mfu.chain[node[n]] = idx}
    IN  IF mfu.hash[h] = idx
        THEN [mfu EXCEPT !.hash[h] = mfu.chain[idx]]
        ELSE IF \E n \in Slots : IsFirst(n, cells)
        THEN LET cell == node[CHOOSE n \in Slots : IsFirst(n, cells)]
             IN  [mfu EXCEPT !.chain[cell] = mfu.chain[idx]]
        ELSE mfu

\* "Insert into hash chain": entry e goes to slot idx and heads its bucket.
Insert(mfu, idx, e) ==
    LET h == Hash(e.instrument_id)
    IN  [mfu EXCEPT !.entries[idx] = e,
                    !.chain[idx]   = mfu.hash[h],
                    !.hash[h]      = idx]

\* Fault: the count is a byte.
UpdateInByte(mfu, id) ==
    LET idx   == Lookup(mfu, id)
        fresh == [instrument_id |-> id, count |-> 1]
    IN  IF idx >= 0
        THEN [mfu EXCEPT !.entries[idx].count = (@ + 1) % 256]
        ELSE IF mfu.num_entries < MFU_SIZE
        THEN Insert([mfu EXCEPT !.num_entries = @ + 1], mfu.num_entries, fresh)
        ELSE Insert(Unlink(mfu, MinSlot(mfu)), MinSlot(mfu), fresh)

Update(mfu, id) ==
    LET idx   == Lookup(mfu, id)
        fresh == [instrument_id |-> id, count |-> 1]
    IN  IF idx >= 0
        THEN [mfu EXCEPT !.entries[idx].count = (@ + 1) % U16]
        ELSE IF mfu.num_entries < MFU_SIZE
        THEN Insert([mfu EXCEPT !.num_entries = @ + 1], mfu.num_entries, fresh)
        ELSE Insert(Unlink(mfu, MinSlot(mfu)), MinSlot(mfu), fresh)

-----------------------------------------------------------------------------
(***************************************************************************)
(* mfu_rebuild_ranks: the insertion sort is stable, so the rank of a used  *)
(* slot is the number of used slots ahead of it; unused slots keep their   *)
(* own index.  Module RankSort checks the sort itself against this.        *)
(***************************************************************************)
Ahead(entries, n, i) ==
    {j \in 0 .. n - 1 : \/ entries[j].count > entries[i].count
                        \/ entries[j].count = entries[i].count /\ j < i}

RankOf(entries, n) ==
    [i \in Slots |-> IF i < n THEN Cardinality(Ahead(entries, n, i)) ELSE i]

\* Fault: the inverse is not built anew.
RebuildRanksHalf(mfu) ==
    LET rank == RankOf(mfu.entries, mfu.num_entries)
    IN  [mfu EXCEPT !.rank_to_idx = [r \in Slots |-> CHOOSE i \in Slots : rank[i] = r]]

RebuildRanks(mfu) ==
    LET rank == RankOf(mfu.entries, mfu.num_entries)
    IN  [mfu EXCEPT !.idx_to_rank = rank,
                    !.rank_to_idx = [r \in Slots |-> CHOOSE i \in Slots : rank[i] = r]]

\* Fault: the ranks are rebuilt but nothing is halved.
DecayRanksOnly(mfu) == RebuildRanks(mfu)

Decay(mfu) ==
    LET halved == [i \in Slots |-> IF i < mfu.num_entries
                                   THEN [mfu.entries[i] EXCEPT !.count = @ \div 2]
                                   ELSE mfu.entries[i]]
    IN  RebuildRanks([mfu EXCEPT !.entries = halved])

(***************************************************************************)
(* residc_mfu_seed: the first entries of the caller's list, at most        *)
(* MFU_SIZE of them, inserted in that order.  Each became the head of its  *)
(* bucket and leads to the one before it there.  seeds is a sequence of n  *)
(* entries.                                                                *)
(***************************************************************************)
Latest(S) == IF S = {} THEN NIL ELSE CHOOSE j \in S : \A k \in S : k <= j

Before(seeds, h, i) == {j \in 0 .. i - 1 : Hash(seeds[j + 1].instrument_id) = h}

Seed(seeds, n) ==
    LET to_add == IF n < MFU_SIZE THEN n ELSE MFU_SIZE
    IN  RebuildRanks([MfuInit EXCEPT
            !.entries     = [i \in Slots |-> IF i < to_add THEN seeds[i + 1]
                                             ELSE MfuInit.entries[i]],
            !.num_entries = to_add,
            !.hash        = [h \in Buckets |-> Latest(Before(seeds, h, to_add))],
            !.chain       = [i \in Slots |->
                                IF i < to_add
                                THEN Latest(Before(seeds, Hash(seeds[i + 1].instrument_id), i))
                                ELSE NIL]])

=============================================================================
