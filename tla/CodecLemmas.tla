---------------------------- MODULE CodecLemmas -----------------------------
(***************************************************************************)
(* What the operators of the codec do, for every value of the constants.   *)
(*                                                                         *)
(* The MFU table (module Mfu): what its operations return and preserve,    *)
(* for every size of the table, of the hash and of the decay period.       *)
(* Chains and loops need induction, which here is the least-number         *)
(* principle, and functions that apply another over and over.              *)
(*                                                                         *)
(* The per-field coders (module FieldCodec), for every schema and every    *)
(* sound state: what they write can be read back, decoding it in the state *)
(* it was written in gives the value and moves the state as encoding did,  *)
(* and committing the field of a literal frame moves it in the same way.   *)
(* There is a lemma per type of field for either direction (...Coded and   *)
(* ...Decoded).  EncodeSound, DecodeSound, CommitFollowsEncode,            *)
(* EncodeAligned and DecodeUndoesEncode put them together, FieldsCarried  *)
(* takes them through the loops over the fields.                           *)
(***************************************************************************)
EXTENDS FrameCodec, FiniteSets, FiniteSetTheorems, SequenceTheorems, TLAPS

-----------------------------------------------------------------------------
(* The MFU table. *)

(***************************************************************************)
(* Every nonempty set of naturals has a least element.  The intervals      *)
(* 0 .. n for n in the set are finite sets, so one of them has no other    *)
(* strictly inside it.                                                     *)
(***************************************************************************)
LEMMA LeastNatural ==
    ASSUME NEW T, T \subseteq Nat, T # {}
    PROVE  \E n \in T : \A m \in T : n <= m
<1> DEFINE R == StrictSubsetOrdering(Nat)
           F == {0 .. n : n \in T}
<1>1. IsWellFoundedOn(R, FiniteSubsetsOf(Nat))
  BY FS_StrictSubsetOrderingWellFounded
<1>2. F \subseteq FiniteSubsetsOf(Nat)
  <2>1. \A n \in T : IsFiniteSet(0 .. n) /\ 0 .. n \subseteq Nat
    BY FS_Interval
  <2> QED
    BY <2>1 DEF FiniteSubsetsOf
<1>3. F # {}
  OBVIOUS
<1>4. PICK x \in F : \A y \in F : ~(<<y, x>> \in R)
  <2> HIDE DEF R, F
  <2> QED
    BY <1>1, <1>2, <1>3, WFMin
<1>5. PICK n \in T : x = 0 .. n
  BY <1>4
<1>6. ASSUME NEW m \in T, m < n
      PROVE  FALSE
  <2>1. 0 .. m \in F /\ <<0 .. m, 0 .. n>> \notin R
    BY <1>4, <1>5, <1>6
  <2>2. 0 .. m \subseteq 0 .. n /\ n \in 0 .. n /\ n \notin 0 .. m
    BY <1>6
  <2>3. 0 .. m \in SUBSET Nat /\ 0 .. n \in SUBSET Nat
    OBVIOUS
  <2> QED
    BY <2>1, <2>2, <2>3 DEF StrictSubsetOrdering
<1> QED
  BY <1>6

(***************************************************************************)
(* What follows a chain: from x, by g, again and again.  Prefixes of every *)
(* length exist, since there can be no shortest one missing, and agree.    *)
(***************************************************************************)
Prefix(X, x, g, n, f) ==
    /\ f \in [0 .. n -> X]
    /\ f[0] = x
    /\ \A m \in 0 .. n - 1 : f[m + 1] = g[f[m]]

\* A function on 0 .. n that starts at x and applies g at each step exists.
LEMMA PrefixExists ==
    ASSUME NEW X, NEW x \in X, NEW g \in [X -> X], NEW n \in Nat
    PROVE  \E f : Prefix(X, x, g, n, f)
<1> DEFINE T == {k \in Nat : ~ \E f : Prefix(X, x, g, k, f)}
<1> SUFFICES ASSUME T # {}
             PROVE  FALSE
  OBVIOUS
<1>1. PICK k \in T : \A m \in T : k <= m
  <2>1. T \subseteq Nat
    OBVIOUS
  <2> HIDE DEF T
  <2> QED
    BY <2>1, LeastNatural
<1>2. k # 0
  <2>1. Prefix(X, x, g, 0, [m \in 0 .. 0 |-> x])
    BY DEF Prefix
  <2> QED
    BY <1>1, <2>1
<1>3. k - 1 \in Nat /\ k - 1 \notin T
  BY <1>1, <1>2
<1>4. PICK f : Prefix(X, x, g, k - 1, f)
  BY <1>3
<1> DEFINE e == [m \in 0 .. k |-> IF m < k THEN f[m] ELSE g[f[k - 1]]]
<1>5. \A m \in 0 .. k - 1 : f[m] \in X
  BY <1>3, <1>4 DEF Prefix
<1>6. e \in [0 .. k -> X]
  BY <1>3, <1>5
<1>7. e[0] = x
  BY <1>2, <1>3, <1>4 DEF Prefix
<1>8. ASSUME NEW m \in 0 .. k - 1
      PROVE  e[m + 1] = g[e[m]]
  <2>1. CASE m = k - 1
    BY <1>3, <2>1
  <2>2. CASE m # k - 1
    <3>1. m \in 0 .. (k - 1) - 1
      BY <1>3, <2>2
    <3>2. f[m + 1] = g[f[m]]
      BY <1>4, <3>1 DEF Prefix
    <3> QED
      BY <1>3, <3>1, <3>2
  <2> QED
    BY <2>1, <2>2
<1> HIDE DEF e
<1>9. Prefix(X, x, g, k, e)
  BY <1>6, <1>7, <1>8 DEF Prefix
<1> QED
  BY <1>1, <1>9

\* Two such functions agree wherever both are defined.
LEMMA PrefixesAgree ==
    ASSUME NEW X, NEW x, NEW g, NEW n \in Nat, NEW k \in Nat,
           NEW f, Prefix(X, x, g, n, f), NEW e, Prefix(X, x, g, k, e),
           NEW m \in Nat, m <= n, m <= k
    PROVE  f[m] = e[m]
<1> DEFINE T == {i \in Nat : i <= n /\ i <= k /\ f[i] # e[i]}
<1> SUFFICES ASSUME T # {}
             PROVE  FALSE
  OBVIOUS
<1>1. PICK i \in T : \A j \in T : i <= j
  <2>1. T \subseteq Nat
    OBVIOUS
  <2> HIDE DEF T
  <2> QED
    BY <2>1, LeastNatural
<1>2. i # 0
  BY <1>1 DEF Prefix
<1>3. i - 1 \in Nat /\ i - 1 \notin T
  BY <1>1, <1>2
<1>4. f[i - 1] = e[i - 1]
  BY <1>1, <1>3
<1>5. i - 1 \in 0 .. n - 1 /\ i - 1 \in 0 .. k - 1 /\ (i - 1) + 1 = i
  BY <1>1, <1>2
<1>6. f[(i - 1) + 1] = g[f[i - 1]] /\ e[(i - 1) + 1] = g[e[i - 1]]
  BY <1>5 DEF Prefix
<1>7. f[i] = e[i]
  BY <1>4, <1>5, <1>6
<1> QED
  BY <1>1, <1>7

Orbit(X, x, g, f) ==
    /\ f \in [Nat -> X]
    /\ f[0] = x
    /\ \A n \in Nat : f[n + 1] = g[f[n]]

\* So there is one on all naturals.
LEMMA OrbitExists ==
    ASSUME NEW X, NEW x \in X, NEW g \in [X -> X]
    PROVE  \E f : Orbit(X, x, g, f)
<1> DEFINE P(n) == CHOOSE f : Prefix(X, x, g, n, f)
           f == [n \in Nat |-> P(n)[n]]
<1>1. \A n \in Nat : Prefix(X, x, g, n, P(n))
  BY PrefixExists
<1> HIDE DEF P
<1>2. \A n \in Nat : P(n)[n] \in X
  BY <1>1 DEF Prefix
<1>3. f \in [Nat -> X]
  BY <1>2
<1>4. f[0] = x
  BY <1>1 DEF Prefix
<1>5. ASSUME NEW n \in Nat
      PROVE  f[n + 1] = g[f[n]]
  <2>1. P(n + 1)[n] = P(n)[n]
    <3>1. Prefix(X, x, g, n, P(n)) /\ Prefix(X, x, g, n + 1, P(n + 1))
      BY <1>1
    <3> QED
      BY <3>1, PrefixesAgree
  <2>2. n + 1 \in Nat /\ n \in 0 .. (n + 1) - 1
    OBVIOUS
  <2>3. P(n + 1)[n + 1] = g[P(n + 1)[n]]
    BY <1>1, <2>2 DEF Prefix
  <2> QED
    BY <2>1, <2>2, <2>3
<1> QED
  BY <1>3, <1>4, <1>5 DEF Orbit

(***************************************************************************)
(* What a loop computes: f is L if it starts as L does and each of its     *)
(* values follows from the one before as L's does.                         *)
(***************************************************************************)
LEMMA StepByStep ==
    ASSUME NEW n \in Nat, NEW f, NEW L, f[0] = L[0],
           \A i \in 1 .. n : f[i - 1] = L[i - 1] => f[i] = L[i]
    PROVE  \A i \in 0 .. n : f[i] = L[i]
<1> DEFINE T == {i \in 0 .. n : f[i] # L[i]}
<1> SUFFICES ASSUME T # {}
             PROVE  FALSE
  OBVIOUS
<1>1. PICK i \in T : \A j \in T : i <= j
  <2>1. T \subseteq Nat
    OBVIOUS
  <2> HIDE DEF T
  <2> QED
    BY <2>1, LeastNatural
<1>2. i \in 1 .. n /\ i - 1 \in 0 .. n /\ ~(i <= i - 1)
  BY <1>1
<1>3. f[i - 1] = L[i - 1]
  BY <1>1, <1>2
<1> QED
  BY <1>1, <1>2, <1>3

-----------------------------------------------------------------------------
\* The sizes of the table, as far as the proofs need them.
LEMMA Sizes ==
    /\ MFU_SIZE \in Nat /\ 1 <= MFU_SIZE /\ MFU_SIZE <= 256
    /\ HASH_SIZE \in Nat /\ HASH_SIZE > 0
    /\ DECAY_PERIOD \in Nat /\ DECAY_PERIOD > 0
    /\ U16 \in Nat /\ U16 > 256
    /\ 0 \in Slots /\ Slots \subseteq Nat /\ NIL \notin Slots
  BY MfuAssumption DEF Slots, NIL

\* mfu_hash stays within the buckets.
LEMMA HashType ==
    ASSUME NEW id \in Instrument
    PROVE  Hash(id) \in Buckets
  BY Sizes DEF Hash, Buckets, Instrument

\* The parts of a table have their types.
LEMMA TableParts ==
    ASSUME NEW mfu \in Table
    PROVE  /\ mfu.entries \in [Slots -> Entry]
           /\ mfu.num_entries \in 0 .. MFU_SIZE
           /\ mfu.hash \in [Buckets -> Slots \cup {NIL}]
           /\ mfu.chain \in [Slots -> Slots \cup {NIL}]
           /\ mfu.rank_to_idx \in [Slots -> Slots]
           /\ mfu.idx_to_rank \in [Slots -> Slots]
  BY DEF Table

\* And so have those of an entry.
LEMMA EntryParts ==
    ASSUME NEW mfu \in Table, NEW i \in Slots
    PROVE  /\ mfu.entries[i].instrument_id \in Instrument
           /\ mfu.entries[i].count \in Count
<1>1. mfu.entries[i] \in Entry
  BY TableParts
<1> QED
  BY <1>1 DEF Entry

(***************************************************************************)
(* The walk along a chain starts at the bucket's head, follows the cells,  *)
(* and stays at NIL.                                                       *)
(***************************************************************************)
LEMMA WalkSteps ==
    ASSUME NEW mfu \in Table, NEW h \in Buckets
    PROVE  /\ Walk(mfu, h) \in [Nat -> Slots \cup {NIL}]
           /\ Walk(mfu, h)[0] = mfu.hash[h]
           /\ \A n \in Nat : Walk(mfu, h)[n + 1] =
                  IF Walk(mfu, h)[n] \in Slots THEN mfu.chain[Walk(mfu, h)[n]] ELSE NIL
<1> DEFINE X    == Slots \cup {NIL}
           next == [x \in X |-> IF x \in Slots THEN mfu.chain[x] ELSE NIL]
           Steps(f) == f = [n \in Nat |-> IF n = 0 THEN mfu.hash[h]
                                          ELSE IF f[n - 1] \in Slots
                                               THEN mfu.chain[f[n - 1]] ELSE NIL]
           walk == Walk(mfu, h)
<1>1. mfu.hash[h] \in X /\ next \in [X -> X]
  BY TableParts
<1>2. PICK f : Orbit(X, mfu.hash[h], next, f)
  <2> HIDE DEF X, next
  <2> QED
    BY <1>1, OrbitExists
<1>3. ASSUME NEW n \in Nat, n # 0
      PROVE  f[n] = IF f[n - 1] \in Slots THEN mfu.chain[f[n - 1]] ELSE NIL
  <2>1. n - 1 \in Nat /\ (n - 1) + 1 = n
    BY <1>3
  <2>2. f[n - 1] \in X /\ f[(n - 1) + 1] = next[f[n - 1]]
    BY <1>2, <2>1 DEF Orbit
  <2>3. next[f[n - 1]] = IF f[n - 1] \in Slots THEN mfu.chain[f[n - 1]] ELSE NIL
    BY <2>2
  <2> HIDE DEF X, next
  <2> QED
    BY <2>1, <2>2, <2>3
<1>4. Steps(f)
  BY <1>2, <1>3 DEF Orbit
<1>5. walk = CHOOSE e : Steps(e)
  BY DEF Walk
<1>6. Steps(walk)
  <2> HIDE DEF Steps, walk
  <2> QED
    BY <1>4, <1>5
<1> DEFINE Value(n) == IF n = 0 THEN mfu.hash[h]
                       ELSE IF walk[n - 1] \in Slots THEN mfu.chain[walk[n - 1]] ELSE NIL
<1>7. walk = [n \in Nat |-> Value(n)]
  BY <1>6
<1> HIDE DEF walk
<1>8. \A n \in Nat : walk[n] = Value(n)
  BY <1>7
<1>9. \A n \in Nat : Value(n) \in X
  BY TableParts
<1>10. walk \in [Nat -> X]
  <2> HIDE DEF Value, X
  <2> QED
    BY <1>7, <1>9
<1>11. walk[0] = mfu.hash[h]
  BY <1>8
<1>12. \A n \in Nat : walk[n + 1] = IF walk[n] \in Slots THEN mfu.chain[walk[n]] ELSE NIL
  <2> SUFFICES ASSUME NEW n \in Nat
               PROVE  walk[n + 1] = IF walk[n] \in Slots THEN mfu.chain[walk[n]] ELSE NIL
    OBVIOUS
  <2>1. n + 1 \in Nat /\ n + 1 # 0 /\ (n + 1) - 1 = n
    OBVIOUS
  <2> QED
    BY <1>8, <2>1
<1> QED
  BY <1>10, <1>11, <1>12 DEF walk

\* Lookup answers -1 or a slot that does hold the instrument.
LEMMA LookupFinds ==
    ASSUME NEW mfu, NEW id
    PROVE  \/ Lookup(mfu, id) = -1
           \/ /\ Lookup(mfu, id) \in Slots
              /\ mfu.entries[Lookup(mfu, id)].instrument_id = id
<1> DEFINE node == Walk(mfu, Hash(id))
           hits == {n \in Slots : node[n] \in Slots
                                  /\ mfu.entries[node[n]].instrument_id = id}
           first == CHOOSE n \in Slots : IsFirst(n, hits)
<1>1. CASE \E n \in Slots : IsFirst(n, hits)
  <2>1. first \in Slots /\ IsFirst(first, hits)
    <3> HIDE DEF hits
    <3> QED
      BY <1>1
  <2>2. first \in hits
    BY <2>1 DEF IsFirst
  <2>3. Lookup(mfu, id) = node[first]
    BY <1>1 DEF Lookup
  <2> QED
    BY <2>2, <2>3
<1>2. CASE ~ \E n \in Slots : IsFirst(n, hits)
  BY <1>2 DEF Lookup
<1> QED
  BY <1>1, <1>2

\* A count that is raised wraps within its width.
LEMMA Counted ==
    ASSUME NEW n \in Count
    PROVE  (n + 1) % U16 \in Count
  BY Sizes DEF Count

\* There is a slot to replace, and none has a lower count.
LEMMA MinSlotType ==
    ASSUME NEW mfu \in Table
    PROVE  /\ MinSlot(mfu) \in Slots
           /\ \A j \in Slots : mfu.entries[MinSlot(mfu)].count <= mfu.entries[j].count
<1> DEFINE count(i) == mfu.entries[i].count
           counts   == {count(i) : i \in Slots}
<1>1. \A i \in Slots : count(i) \in Nat
  BY EntryParts DEF Count
<1>2. PICK c \in counts : \A d \in counts : c <= d
  <2>1. counts # {} /\ counts \subseteq Nat
    BY <1>1, Sizes
  <2> HIDE DEF counts
  <2> QED
    BY <2>1, LeastNatural
<1> DEFINE lows == {i \in Slots : count(i) = c}
<1>3. PICK i \in lows : \A j \in lows : i <= j
  <2>1. lows # {} /\ lows \subseteq Nat
    BY <1>2, Sizes
  <2> HIDE DEF lows
  <2> QED
    BY <2>1, LeastNatural
<1>4. \A j \in Slots : \/ count(i) < count(j)
                       \/ count(i) = count(j) /\ i <= j
  BY <1>1, <1>2, <1>3
<1>5. /\ MinSlot(mfu) \in Slots
      /\ \A j \in Slots : \/ count(MinSlot(mfu)) < count(j)
                          \/ count(MinSlot(mfu)) = count(j) /\ MinSlot(mfu) <= j
  BY <1>3, <1>4 DEF MinSlot
<1> QED
  BY <1>1, <1>5

\* residc_mfu_init makes a table.
LEMMA MfuInitType == MfuInit \in Table
  BY Sizes DEF MfuInit, Table, Entry, Instrument, Count, Slots

\* Writing an entry and linking it keeps a table one.
LEMMA InsertType ==
    ASSUME NEW mfu \in Table, NEW idx \in Slots, NEW e \in Entry
    PROVE  Insert(mfu, idx, e) \in Table
<1>1. Hash(e.instrument_id) \in Buckets
  BY HashType DEF Entry
<1>2. mfu.hash[Hash(e.instrument_id)] \in Slots \cup {NIL}
  BY <1>1, TableParts
<1> QED
  BY <1>1, <1>2 DEF Insert, Table

\* Unlinking a slot moves links only.
LEMMA UnlinkType ==
    ASSUME NEW mfu \in Table, NEW idx \in Slots
    PROVE  /\ Unlink(mfu, idx) \in Table
           /\ Unlink(mfu, idx).entries = mfu.entries
           /\ Unlink(mfu, idx).num_entries = mfu.num_entries
           /\ Unlink(mfu, idx).rank_to_idx = mfu.rank_to_idx
           /\ Unlink(mfu, idx).idx_to_rank = mfu.idx_to_rank
<1> DEFINE h     == Hash(mfu.entries[idx].instrument_id)
           node  == Walk(mfu, h)
           cells == {n \in Slots : node[n] \in Slots /\ mfu.chain[node[n]] = idx}
           first == CHOOSE n \in Slots : IsFirst(n, cells)
<1>1. h \in Buckets /\ mfu.chain[idx] \in Slots \cup {NIL}
  BY HashType, EntryParts, TableParts
<1>2. CASE mfu.hash[h] = idx
  <2>1. Unlink(mfu, idx) = [mfu EXCEPT !.hash[h] = mfu.chain[idx]]
    BY <1>2 DEF Unlink
  <2> HIDE DEF h
  <2> QED
    BY <1>1, <2>1 DEF Table
<1>3. CASE mfu.hash[h] # idx /\ \E n \in Slots : IsFirst(n, cells)
  <2>1. first \in Slots /\ IsFirst(first, cells)
    <3> HIDE DEF cells
    <3> QED
      BY <1>3
  <2>2. node[first] \in Slots
    BY <2>1 DEF IsFirst
  <2>3. Unlink(mfu, idx) = [mfu EXCEPT !.chain[node[first]] = mfu.chain[idx]]
    BY <1>3 DEF Unlink
  <2> HIDE DEF node, first
  <2> QED
    BY <1>1, <2>2, <2>3 DEF Table
<1>4. CASE mfu.hash[h] # idx /\ ~ \E n \in Slots : IsFirst(n, cells)
  BY <1>4 DEF Unlink
<1> QED
  BY <1>2, <1>3, <1>4

(***************************************************************************)
(* The three cases of an update: a hit, a free slot, a replacement.        *)
(***************************************************************************)
LEMMA UpdateCases ==
    ASSUME NEW mfu \in Table, NEW id \in Instrument
    PROVE  LET new == Update(mfu, id) IN
           /\ new \in Table
           /\ new.rank_to_idx = mfu.rank_to_idx
           /\ new.idx_to_rank = mfu.idx_to_rank
           /\ \/ new.num_entries = mfu.num_entries
              \/ new.num_entries = mfu.num_entries + 1
           /\ \A i \in Slots : \/ new.entries[i].count = mfu.entries[i].count
                               \/ new.entries[i].count = 1
                               \/ new.entries[i].count = (mfu.entries[i].count + 1) % U16
<1> DEFINE idx   == Lookup(mfu, id)
           new   == Update(mfu, id)
           fresh == [instrument_id |-> id, count |-> 1]
<1>1. fresh \in Entry
  BY Sizes DEF Entry, Count
<1>2. CASE idx >= 0
  <2>1. idx \in Slots
    BY <1>2, LookupFinds
  <2>2. new = [mfu EXCEPT !.entries[idx].count = (@ + 1) % U16]
    BY <1>2 DEF Update
  <2>3. (mfu.entries[idx].count + 1) % U16 \in Count
    BY <2>1, EntryParts, Counted
  <2>4. [mfu.entries[idx] EXCEPT !.count = (@ + 1) % U16] \in Entry
    BY <2>1, <2>3, TableParts DEF Entry
  <2> HIDE DEF idx, new
  <2>5. new.entries \in [Slots -> Entry]
    BY <2>1, <2>2, <2>4, TableParts DEF Table
  <2>6. new \in Table
    BY <2>2, <2>5 DEF Table
  <2>7. \A i \in Slots : i # idx => new.entries[i] = mfu.entries[i]
    BY <2>2, TableParts DEF Table
  <2>8. new.entries[idx].count = (mfu.entries[idx].count + 1) % U16
    BY <2>1, <2>2, TableParts DEF Table, Entry
  <2> QED
    BY <2>2, <2>6, <2>7, <2>8 DEF new, Table
<1>3. CASE ~(idx >= 0) /\ mfu.num_entries < MFU_SIZE
  <2> DEFINE grown == [mfu EXCEPT !.num_entries = @ + 1]
  <2>1. mfu.num_entries \in Slots /\ mfu.num_entries + 1 \in 0 .. MFU_SIZE
    BY <1>3, TableParts, Sizes DEF Slots
  <2>2. grown \in Table
    BY <2>1 DEF Table
  <2>3. new = Insert(grown, mfu.num_entries, fresh)
    BY <1>3 DEF Update
  <2>4. new \in Table
    BY <1>1, <2>1, <2>2, <2>3, InsertType
  <2>5. \A i \in Slots : new.entries[i] = IF i = mfu.num_entries THEN fresh ELSE mfu.entries[i]
    BY <2>1, <2>3, TableParts DEF Insert, Table
  <2> QED
    BY <2>3, <2>4, <2>5 DEF Insert, Table
<1>4. CASE ~(idx >= 0) /\ ~(mfu.num_entries < MFU_SIZE)
  <2> DEFINE slot == MinSlot(mfu)
             base == Unlink(mfu, slot)
  <2>1. slot \in Slots
    BY MinSlotType
  <2>2. new = Insert(base, slot, fresh)
    BY <1>4 DEF Update
  <2>3. /\ base \in Table
        /\ base.entries = mfu.entries
        /\ base.num_entries = mfu.num_entries
        /\ base.rank_to_idx = mfu.rank_to_idx
        /\ base.idx_to_rank = mfu.idx_to_rank
    BY <2>1, UnlinkType
  <2> HIDE DEF slot, base
  <2>4. new \in Table
    BY <1>1, <2>1, <2>2, <2>3, InsertType
  <2>5. \A i \in Slots : new.entries[i] = IF i = slot THEN fresh ELSE mfu.entries[i]
    BY <2>1, <2>2, <2>3, TableParts DEF Insert, Table
  <2> QED
    BY <2>2, <2>3, <2>4, <2>5 DEF Insert, Table
<1> QED
  BY <1>2, <1>3, <1>4

-----------------------------------------------------------------------------
(***************************************************************************)
(* Ranks.  Of two used slots exactly one is ahead of the other, and what   *)
(* is ahead of it is ahead of the other too; so the numbers of slots ahead *)
(* differ, and the ranks are a permutation of the slots.                   *)
(***************************************************************************)
LEMMA AheadCardinality ==
    ASSUME NEW entries \in [Slots -> Entry], NEW n \in 0 .. MFU_SIZE, NEW i \in 0 .. n - 1
    PROVE  /\ IsFiniteSet(Ahead(entries, n, i))
           /\ Cardinality(Ahead(entries, n, i)) \in 0 .. n - 1
<1> DEFINE all == 0 .. n - 1
<1>1. IsFiniteSet(all) /\ Cardinality(all) = n
  BY FS_Interval, Sizes
<1>2. IsFiniteSet(all \ {i}) /\ Cardinality(all \ {i}) = n - 1
  BY <1>1, FS_RemoveElement
<1>3. Ahead(entries, n, i) \subseteq all \ {i}
  BY Sizes DEF Ahead, Slots, Entry, Count
<1>4. /\ IsFiniteSet(Ahead(entries, n, i))
      /\ Cardinality(Ahead(entries, n, i)) <= n - 1
  BY <1>2, <1>3, FS_Subset
<1>5. Cardinality(Ahead(entries, n, i)) \in Nat
  BY <1>4, FS_CardinalityType
<1> QED
  BY <1>4, <1>5

\* An entry that is ahead of another has fewer entries ahead of itself.
LEMMA AheadStrict ==
    ASSUME NEW entries \in [Slots -> Entry], NEW n \in 0 .. MFU_SIZE,
           NEW i \in 0 .. n - 1, NEW j \in Ahead(entries, n, i)
    PROVE  Cardinality(Ahead(entries, n, j)) < Cardinality(Ahead(entries, n, i))
<1>1. j \in 0 .. n - 1
  BY DEF Ahead
<1>2. \A s \in 0 .. n - 1 : s \in Slots /\ entries[s].count \in Nat
  BY Sizes DEF Slots, Entry, Count
<1>3. Ahead(entries, n, j) \subseteq Ahead(entries, n, i) \ {j}
  BY <1>1, <1>2 DEF Ahead
<1>4. /\ IsFiniteSet(Ahead(entries, n, i))
      /\ Cardinality(Ahead(entries, n, i)) \in Nat
  BY AheadCardinality
<1>5. /\ IsFiniteSet(Ahead(entries, n, i) \ {j})
      /\ Cardinality(Ahead(entries, n, i) \ {j}) = Cardinality(Ahead(entries, n, i)) - 1
  BY <1>4, FS_RemoveElement
<1>6. Cardinality(Ahead(entries, n, j)) <= Cardinality(Ahead(entries, n, i) \ {j})
  BY <1>3, <1>5, FS_Subset
<1>7. Cardinality(Ahead(entries, n, j)) \in Nat
  BY <1>1, AheadCardinality
<1> QED
  BY <1>4, <1>5, <1>6, <1>7

\* The rank of an entry, the number of those ahead of it, is its own.
LEMMA RankInjective ==
    ASSUME NEW entries \in [Slots -> Entry], NEW n \in 0 .. MFU_SIZE
    PROVE  /\ RankOf(entries, n) \in [Slots -> Slots]
           /\ \A i \in 0 .. n - 1 : RankOf(entries, n)[i] < n
           /\ \A i \in Slots : i >= n => RankOf(entries, n)[i] = i
           /\ \A i, j \in Slots : i # j => RankOf(entries, n)[i] # RankOf(entries, n)[j]
<1> DEFINE rank == RankOf(entries, n)
           used == 0 .. n - 1
<1>1. used \subseteq Slots
  BY Sizes DEF Slots
<1>2. \A i \in used : rank[i] = Cardinality(Ahead(entries, n, i))
  BY <1>1 DEF RankOf
<1>3. \A i \in used : rank[i] \in 0 .. n - 1
  BY <1>2, AheadCardinality
<1>4. \A i \in Slots \ used : rank[i] = i /\ i >= n
  BY Sizes DEF RankOf, Slots
<1>5. \A i \in Slots : rank[i] \in Slots
  BY <1>1, <1>3, <1>4
<1>6. rank \in [Slots -> Slots]
  <2>1. rank = [i \in Slots |-> rank[i]]
    BY DEF RankOf
  <2> HIDE DEF rank
  <2> QED
    BY <1>5, <2>1
<1>7. \A i \in Slots : i >= n => rank[i] = i
  BY <1>4
<1>8. ASSUME NEW i \in Slots, NEW j \in Slots, i # j
      PROVE  rank[i] # rank[j]
  <2>1. CASE i \in used /\ j \in used
    <3>1. entries[i].count \in Nat /\ entries[j].count \in Nat
      BY Sizes DEF Entry, Count
    <3>2. i \in Ahead(entries, n, j) \/ j \in Ahead(entries, n, i)
      BY <2>1, <3>1, <1>8 DEF Ahead
    <3>3. rank[i] < rank[j] \/ rank[j] < rank[i]
      BY <1>2, <2>1, <3>2, AheadStrict
    <3>4. rank[i] \in Int /\ rank[j] \in Int
      BY <1>3, <2>1
    <3> HIDE DEF rank
    <3> QED
      BY <3>3, <3>4
  <2>2. CASE i \in used /\ j \notin used
    <3> HIDE DEF rank
    <3> QED
      BY <1>3, <1>4, <2>2
  <2>3. CASE i \notin used /\ j \in used
    <3> HIDE DEF rank
    <3> QED
      BY <1>3, <1>4, <2>3
  <2>4. CASE i \notin used /\ j \notin used
    BY <1>4, <1>8, <2>4
  <2> QED
    BY <2>1, <2>2, <2>3, <2>4
<1> HIDE DEF rank
<1>9. \A i \in used : rank[i] < n
  BY <1>3
<1> QED
  BY <1>6, <1>7, <1>8, <1>9 DEF rank

(***************************************************************************)
(* The two rank arrays are inverse permutations, and the slots not in use  *)
(* rank behind all others, in their own place.                             *)
(***************************************************************************)
GoodRanks(mfu) ==
    /\ \A i \in Slots : mfu.rank_to_idx[mfu.idx_to_rank[i]] = i
    /\ \A i \in Slots : mfu.idx_to_rank[mfu.rank_to_idx[i]] = i
    /\ \A i \in Slots : i >= mfu.num_entries => mfu.idx_to_rank[i] = i
    /\ \A i \in Slots : i < mfu.num_entries => mfu.idx_to_rank[i] < mfu.num_entries

\* An injective function from a finite set to itself meets every element.
LEMMA InjectionIsOnto ==
    ASSUME NEW f \in [Slots -> Slots],
           \A i, j \in Slots : i # j => f[i] # f[j],
           NEW r \in Slots
    PROVE  \E i \in Slots : f[i] = r
<1> SUFFICES ASSUME \A i \in Slots : f[i] # r
             PROVE  FALSE
  OBVIOUS
<1>1. IsFiniteSet(Slots) /\ Cardinality(Slots) \in Nat
  BY FS_Interval, FS_CardinalityType, Sizes DEF Slots
<1>2. /\ IsFiniteSet(Slots \ {r})
      /\ Cardinality(Slots \ {r}) = Cardinality(Slots) - 1
  BY <1>1, FS_RemoveElement
<1>3. f \in [Slots -> Slots \ {r}]
  OBVIOUS
<1>4. Cardinality(Slots \ {r}) < Cardinality(Slots)
  BY <1>1, <1>2
<1>5. \E i, j \in Slots : i # j /\ f[i] = f[j]
  BY <1>1, <1>2, <1>3, <1>4, FS_PigeonHole
<1> QED
  BY <1>5

\* Rebuilding the ranks makes the two arrays inverse to each other.
LEMMA RebuildRanksGood ==
    ASSUME NEW mfu \in Table
    PROVE  /\ RebuildRanks(mfu) \in Table
           /\ GoodRanks(RebuildRanks(mfu))
           /\ RebuildRanks(mfu).entries = mfu.entries
           /\ RebuildRanks(mfu).num_entries = mfu.num_entries
<1> DEFINE rank == RankOf(mfu.entries, mfu.num_entries)
           inv  == [r \in Slots |-> CHOOSE i \in Slots : rank[i] = r]
           new  == RebuildRanks(mfu)
<1>1. /\ rank \in [Slots -> Slots]
      /\ \A i \in 0 .. mfu.num_entries - 1 : rank[i] < mfu.num_entries
      /\ \A i \in Slots : i >= mfu.num_entries => rank[i] = i
      /\ \A i, j \in Slots : i # j => rank[i] # rank[j]
  BY TableParts, RankInjective
<1>2. new = [mfu EXCEPT !.idx_to_rank = rank, !.rank_to_idx = inv]
  BY DEF RebuildRanks
<1> HIDE DEF rank
<1>3. \A r \in Slots : inv[r] \in Slots /\ rank[inv[r]] = r
  BY <1>1, InjectionIsOnto
<1>4. \A i \in Slots : inv[rank[i]] = i
  BY <1>1, <1>3
<1>5. inv \in [Slots -> Slots]
  BY <1>3
<1> HIDE DEF inv, new
<1>6. new \in Table
  BY <1>1, <1>2, <1>5 DEF Table
<1>7. /\ new.idx_to_rank = rank /\ new.rank_to_idx = inv
      /\ new.entries = mfu.entries /\ new.num_entries = mfu.num_entries
  BY <1>2 DEF Table
<1>8. \A i \in Slots : i < mfu.num_entries => rank[i] < mfu.num_entries
  BY <1>1, TableParts, Sizes DEF Slots
<1>9. GoodRanks(new)
  BY <1>1, <1>3, <1>4, <1>7, <1>8 DEF GoodRanks
<1> QED
  BY <1>6, <1>7, <1>9 DEF new

\* residc_mfu_decay halves the counts in use and leaves good ranks.
LEMMA DecayGood ==
    ASSUME NEW mfu \in Table
    PROVE  /\ Decay(mfu) \in Table
           /\ GoodRanks(Decay(mfu))
           /\ Decay(mfu).num_entries = mfu.num_entries
           /\ \A i \in Slots : Decay(mfu).entries[i] =
                  IF i < mfu.num_entries
                  THEN [mfu.entries[i] EXCEPT !.count = @ \div 2]
                  ELSE mfu.entries[i]
<1> DEFINE halved == [i \in Slots |-> IF i < mfu.num_entries
                                      THEN [mfu.entries[i] EXCEPT !.count = @ \div 2]
                                      ELSE mfu.entries[i]]
           base == [mfu EXCEPT !.entries = halved]
<1>1. Decay(mfu) = RebuildRanks(base)
  BY DEF Decay
<1>2. \A i \in Slots : halved[i] \in Entry
  <2> SUFFICES ASSUME NEW i \in Slots
               PROVE  halved[i] \in Entry
    OBVIOUS
  <2>1. mfu.entries[i] \in Entry /\ mfu.entries[i].count \in Count
    BY TableParts, EntryParts
  <2>2. mfu.entries[i].count \div 2 \in Count
    BY <2>1, Sizes DEF Count
  <2> QED
    BY <2>1, <2>2 DEF Entry
<1>3. base \in Table
  <2>1. halved \in [Slots -> Entry]
    BY <1>2
  <2> HIDE DEF halved
  <2> QED
    BY <2>1 DEF Table
<1>4. base.entries = halved /\ base.num_entries = mfu.num_entries
  BY DEF Table
<1> HIDE DEF base
<1> QED
  BY <1>1, <1>3, <1>4, RebuildRanksGood

\* The ranks are good at the start.
LEMMA MfuInitGood == GoodRanks(MfuInit)
  BY Sizes DEF GoodRanks, MfuInit

\* A slot that comes into use keeps the place it had: the first rank free.
LEMMA UpdateGood ==
    ASSUME NEW mfu \in Table, NEW id \in Instrument, GoodRanks(mfu)
    PROVE  GoodRanks(Update(mfu, id))
<1> DEFINE new == Update(mfu, id)
<1>1. /\ new \in Table
      /\ new.rank_to_idx = mfu.rank_to_idx
      /\ new.idx_to_rank = mfu.idx_to_rank
      /\ \/ new.num_entries = mfu.num_entries
         \/ new.num_entries = mfu.num_entries + 1
  BY UpdateCases
<1>2. mfu.num_entries \in Nat /\ new.num_entries \in Nat
  BY <1>1, TableParts, Sizes
<1>3. \A i \in Slots : mfu.idx_to_rank[i] \in Slots /\ i \in Nat
  BY TableParts, Sizes
<1> HIDE DEF new
<1>4. \A i \in Slots : i >= new.num_entries => new.idx_to_rank[i] = i
  BY <1>1, <1>2, <1>3 DEF GoodRanks
<1>5. \A i \in Slots : i < new.num_entries => new.idx_to_rank[i] < new.num_entries
  <2> SUFFICES ASSUME NEW i \in Slots, i < new.num_entries
               PROVE  mfu.idx_to_rank[i] < new.num_entries
    BY <1>1
  <2>1. mfu.idx_to_rank[i] \in Nat
    BY <1>3
  <2>2. CASE i < mfu.num_entries
    <3>1. mfu.idx_to_rank[i] < mfu.num_entries
      BY <2>2 DEF GoodRanks
    <3> QED
      BY <1>1, <1>2, <2>1, <3>1
  <2>3. CASE ~(i < mfu.num_entries)
    <3>1. mfu.idx_to_rank[i] = i
      BY <1>2, <1>3, <2>3 DEF GoodRanks
    <3> QED
      BY <3>1
  <2> QED
    BY <2>2, <2>3
<1> QED
  BY <1>1, <1>4, <1>5 DEF GoodRanks, new

-----------------------------------------------------------------------------
(***************************************************************************)
(* No bucket and no chain leads to a slot that is not in use, so an update *)
(* leaves the unused slots as they were: empty.                            *)
(***************************************************************************)
Tidy(mfu) ==
    /\ \A h \in Buckets : mfu.hash[h] = NIL \/ mfu.hash[h] < mfu.num_entries
    /\ \A i \in Slots : mfu.chain[i] = NIL \/ mfu.chain[i] < mfu.num_entries
    /\ \A i \in Slots : i >= mfu.num_entries => mfu.entries[i].count = 0

\* A chain walk of a tidy table visits slots in use only.
LEMMA WalkTidy ==
    ASSUME NEW mfu \in Table, Tidy(mfu), NEW h \in Buckets, NEW n \in Nat,
           Walk(mfu, h)[n] \in Slots
    PROVE  Walk(mfu, h)[n] < mfu.num_entries
<1> DEFINE node == Walk(mfu, h)
<1>1. NIL \notin Slots
  BY Sizes
<1>2. CASE n = 0
  BY <1>1, <1>2, WalkSteps DEF Tidy
<1>3. CASE n # 0
  <2>1. n - 1 \in Nat /\ (n - 1) + 1 = n
    BY <1>3
  <2>2. node[n] = IF node[n - 1] \in Slots THEN mfu.chain[node[n - 1]] ELSE NIL
    BY <2>1, WalkSteps
  <2> HIDE DEF node
  <2>3. node[n] \in Slots
    BY DEF node
  <2>4. node[n - 1] \in Slots /\ node[n] = mfu.chain[node[n - 1]]
    BY <1>1, <2>2, <2>3
  <2>5. node[n] < mfu.num_entries
    BY <1>1, <2>3, <2>4 DEF Tidy
  <2> QED
    BY <2>5 DEF node
<1> QED
  BY <1>2, <1>3

\* So a lookup finds a slot in use.
LEMMA LookupTidy ==
    ASSUME NEW mfu \in Table, Tidy(mfu), NEW id \in Instrument, Lookup(mfu, id) # -1
    PROVE  Lookup(mfu, id) \in Slots /\ Lookup(mfu, id) < mfu.num_entries
<1> DEFINE node == Walk(mfu, Hash(id))
           hits == {n \in Slots : node[n] \in Slots
                                  /\ mfu.entries[node[n]].instrument_id = id}
           first == CHOOSE n \in Slots : IsFirst(n, hits)
<1>1. \E n \in Slots : IsFirst(n, hits)
  BY DEF Lookup
<1>2. first \in Slots /\ IsFirst(first, hits)
  <2> HIDE DEF hits
  <2> QED
    BY <1>1
<1>3. first \in Nat /\ node[first] \in Slots
  BY <1>2, Sizes DEF IsFirst
<1>4. Lookup(mfu, id) = node[first]
  BY <1>1 DEF Lookup
<1>5. Hash(id) \in Buckets
  BY HashType
<1> HIDE DEF first
<1> QED
  BY <1>3, <1>4, <1>5, WalkTidy

\* Halving the counts keeps a table tidy.
LEMMA DecayTidy ==
    ASSUME NEW mfu \in Table, Tidy(mfu)
    PROVE  Tidy(Decay(mfu))
<1>1. Decay(mfu).hash = mfu.hash /\ Decay(mfu).chain = mfu.chain
  BY DEF Decay, RebuildRanks, Table
<1>2. /\ Decay(mfu).num_entries = mfu.num_entries
      /\ \A i \in Slots : ~(i < mfu.num_entries) => Decay(mfu).entries[i] = mfu.entries[i]
  BY DecayGood
<1>3. mfu.num_entries \in Nat /\ Slots \subseteq Nat
  BY TableParts, Sizes
<1> QED
  BY <1>1, <1>2, <1>3 DEF Tidy

\* The empty table is tidy.
LEMMA MfuInitTidy == Tidy(MfuInit)
  BY DEF Tidy, MfuInit

\* Rebuilding the ranks keeps a table tidy.
LEMMA RebuildRanksTidy ==
    ASSUME NEW mfu \in Table, Tidy(mfu)
    PROVE  Tidy(RebuildRanks(mfu))
<1>1. /\ RebuildRanks(mfu).hash = mfu.hash
      /\ RebuildRanks(mfu).chain = mfu.chain
  BY DEF RebuildRanks, Table
<1> QED
  BY <1>1, RebuildRanksGood DEF Tidy

\* Linking a slot in use keeps a table tidy.
LEMMA InsertTidy ==
    ASSUME NEW mfu \in Table, Tidy(mfu), NEW e \in Entry,
           NEW idx \in Slots, idx < mfu.num_entries
    PROVE  Tidy(Insert(mfu, idx, e))
<1> DEFINE new == Insert(mfu, idx, e)
           h   == Hash(e.instrument_id)
<1>1. h \in Buckets
  BY HashType DEF Entry
<1>2. new = [mfu EXCEPT !.entries[idx] = e, !.chain[idx] = mfu.hash[h], !.hash[h] = idx]
  BY DEF Insert
<1> HIDE DEF new, h
<1>3. /\ new.num_entries = mfu.num_entries
      /\ \A b \in Buckets : new.hash[b] = IF b = h THEN idx ELSE mfu.hash[b]
      /\ \A i \in Slots : new.chain[i] = IF i = idx THEN mfu.hash[h] ELSE mfu.chain[i]
      /\ \A i \in Slots : new.entries[i] = IF i = idx THEN e ELSE mfu.entries[i]
  BY <1>2, TableParts DEF Table
<1>4. mfu.num_entries \in Nat /\ idx \in Nat
  BY TableParts, Sizes
<1>5. \A i \in Slots : i >= new.num_entries => new.entries[i].count = 0
  BY <1>3, <1>4 DEF Tidy
<1>6. \A b \in Buckets : new.hash[b] = NIL \/ new.hash[b] < new.num_entries
  BY <1>3 DEF Tidy
<1>7. \A i \in Slots : new.chain[i] = NIL \/ new.chain[i] < new.num_entries
  BY <1>1, <1>3 DEF Tidy
<1> QED
  BY <1>5, <1>6, <1>7 DEF Tidy, new

\* Unlinking one does too.
LEMMA UnlinkTidy ==
    ASSUME NEW mfu \in Table, Tidy(mfu), NEW idx \in Slots
    PROVE  Tidy(Unlink(mfu, idx))
<1> DEFINE h     == Hash(mfu.entries[idx].instrument_id)
           node  == Walk(mfu, h)
           cells == {n \in Slots : node[n] \in Slots /\ mfu.chain[node[n]] = idx}
           first == CHOOSE n \in Slots : IsFirst(n, cells)
           new   == Unlink(mfu, idx)
<1>1. mfu.chain[idx] = NIL \/ mfu.chain[idx] < mfu.num_entries
  BY DEF Tidy
<1>2. new.entries = mfu.entries /\ new.num_entries = mfu.num_entries
  BY UnlinkType
<1>3. CASE new = [mfu EXCEPT !.hash[h] = mfu.chain[idx]]
  <2> HIDE DEF h, new
  <2>1. new.chain = mfu.chain
    BY <1>3
  <2>2. \A b \in Buckets : new.hash[b] = mfu.hash[b] \/ new.hash[b] = mfu.chain[idx]
    BY <1>3, TableParts DEF Table
  <2>3. Tidy(new)
    BY <1>1, <1>2, <2>1, <2>2 DEF Tidy
  <2> QED
    BY <2>3 DEF new
<1>4. CASE new = [mfu EXCEPT !.chain[node[first]] = mfu.chain[idx]]
  <2> HIDE DEF node, first, new
  <2>1. new.hash = mfu.hash
    BY <1>4
  <2>2. \A i \in Slots : new.chain[i] = mfu.chain[i] \/ new.chain[i] = mfu.chain[idx]
    BY <1>4, TableParts DEF Table
  <2>3. Tidy(new)
    BY <1>1, <1>2, <2>1, <2>2 DEF Tidy
  <2> QED
    BY <2>3 DEF new
<1>5. CASE new = mfu
  BY <1>5
<1> QED
  BY <1>3, <1>4, <1>5 DEF Unlink

\* And so does residc_mfu_update, whether it hits, fills or replaces.
LEMMA UpdateTidy ==
    ASSUME NEW mfu \in Table, NEW id \in Instrument, Tidy(mfu)
    PROVE  Tidy(Update(mfu, id))
<1> DEFINE idx   == Lookup(mfu, id)
           new   == Update(mfu, id)
           fresh == [instrument_id |-> id, count |-> 1]
<1>1. fresh \in Entry
  BY Sizes DEF Entry, Count
<1>2. CASE idx >= 0
  <2>1. idx \in Slots /\ idx < mfu.num_entries
    BY <1>2, LookupTidy
  <2>2. new = [mfu EXCEPT !.entries[idx].count = (@ + 1) % U16]
    BY <1>2 DEF Update
  <2> HIDE DEF idx, new
  <2>3. mfu.num_entries \in Nat /\ idx \in Nat
    BY <2>1, TableParts, Sizes
  <2>4. /\ new.num_entries = mfu.num_entries /\ new.hash = mfu.hash /\ new.chain = mfu.chain
        /\ \A i \in Slots : i # idx => new.entries[i] = mfu.entries[i]
    BY <2>2, TableParts DEF Table
  <2>5. \A h \in Buckets : new.hash[h] = NIL \/ new.hash[h] < new.num_entries
    BY <2>4, Zenon DEF Tidy
  <2>6. \A i \in Slots : new.chain[i] = NIL \/ new.chain[i] < new.num_entries
    BY <2>4, Zenon DEF Tidy
  <2>7. ASSUME NEW i \in Slots, i >= new.num_entries PROVE new.entries[i].count = 0
    <3>1. i >= mfu.num_entries
      BY <2>4, <2>7, Zenon
    <3>2. i # idx
      <4>1. i \in Nat
        BY Sizes DEF Slots
      <4> QED
        BY <2>1, <2>3, <3>1, <4>1
    <3> QED
      BY <2>4, <3>1, <3>2, Zenon DEF Tidy
  <2>8. Tidy(new)
    BY <2>5, <2>6, <2>7, Zenon DEF Tidy
  <2> QED
    BY <2>8, Zenon DEF new
<1>3. CASE ~(idx >= 0) /\ mfu.num_entries < MFU_SIZE
  <2> DEFINE grown == [mfu EXCEPT !.num_entries = @ + 1]
  <2>1. mfu.num_entries \in Slots /\ mfu.num_entries + 1 \in 0 .. MFU_SIZE
    BY <1>3, TableParts, Sizes DEF Slots
  <2>2. grown \in Table
    BY <2>1 DEF Table
  <2>3. new = Insert(grown, mfu.num_entries, fresh)
    BY <1>3 DEF Update
  <2>4. /\ grown.num_entries = mfu.num_entries + 1 /\ grown.entries = mfu.entries
        /\ grown.hash = mfu.hash /\ grown.chain = mfu.chain
    BY DEF Table
  <2>5. mfu.num_entries \in Nat /\ NIL \notin Slots /\ Slots \subseteq Nat
    BY TableParts, Sizes
  <2>6. /\ \A b \in Buckets : mfu.hash[b] \in Slots \cup {NIL}
        /\ \A i \in Slots : mfu.chain[i] \in Slots \cup {NIL}
    BY TableParts
  <2> HIDE DEF grown
  <2>7. Tidy(grown)
    <3>1. \A x \in Slots \cup {NIL} :
              x = NIL \/ x < mfu.num_entries => x = NIL \/ x < mfu.num_entries + 1
      BY <2>5
    <3>2. \A b \in Buckets : grown.hash[b] = NIL \/ grown.hash[b] < grown.num_entries
      BY <2>4, <2>6, <3>1 DEF Tidy
    <3>3. \A i \in Slots : grown.chain[i] = NIL \/ grown.chain[i] < grown.num_entries
      BY <2>4, <2>6, <3>1 DEF Tidy
    <3>4. \A i \in Slots : i >= grown.num_entries => grown.entries[i].count = 0
      BY <2>4, <2>5 DEF Tidy
    <3> QED
      BY <3>2, <3>3, <3>4 DEF Tidy
  <2>8. mfu.num_entries < grown.num_entries
    BY <2>4, <2>5
  <2> QED
    BY <1>1, <2>1, <2>2, <2>3, <2>7, <2>8, InsertTidy
<1>4. CASE ~(idx >= 0) /\ ~(mfu.num_entries < MFU_SIZE)
  <2> DEFINE slot == MinSlot(mfu)
             base == Unlink(mfu, slot)
  <2>1. slot \in Slots
    BY MinSlotType
  <2>2. new = Insert(base, slot, fresh)
    BY <1>4 DEF Update
  <2>3. base \in Table /\ base.num_entries = mfu.num_entries
    BY <2>1, UnlinkType
  <2>4. Tidy(base)
    BY <2>1, UnlinkTidy
  <2>5. slot < base.num_entries
    BY <1>4, <2>1, <2>3, TableParts, Sizes DEF Slots
  <2> HIDE DEF slot, base, new
  <2> QED
    BY <1>1, <2>1, <2>2, <2>3, <2>4, <2>5, InsertTidy DEF new
<1> QED
  BY <1>2, <1>3, <1>4

-----------------------------------------------------------------------------
\* The slot inserted last of those before i, if there is one.
LEMMA LatestIsLast ==
    ASSUME NEW i \in 0 .. MFU_SIZE, NEW S, S \subseteq 0 .. i - 1
    PROVE  \/ S = {} /\ Latest(S) = NIL
           \/ Latest(S) \in S /\ \A k \in S : k <= Latest(S)
<1>1. CASE S = {}
  BY <1>1 DEF Latest
<1>2. CASE S # {}
  <2> DEFINE room == {i - j : j \in S}
  <2>1. i \in Nat /\ S \subseteq Slots
    BY Sizes DEF Slots
  <2>2. room # {} /\ room \subseteq Nat
    <3>1. \A j \in S : i - j \in Nat
      BY <2>1
    <3> QED
      BY <1>2, <3>1
  <2>3. PICK r \in room : \A m \in room : r <= m
    <3> HIDE DEF room
    <3> QED
      BY <2>2, LeastNatural
  <2>4. PICK j \in S : r = i - j
    BY <2>3
  <2>5. \A k \in S : k <= j
    <3> SUFFICES ASSUME NEW k \in S
                 PROVE  k <= j
      OBVIOUS
    <3>1. i - k \in room
      OBVIOUS
    <3>2. i - j <= i - k
      BY <2>3, <2>4, <3>1
    <3> QED
      BY <2>1, <3>2
  <2> QED
    BY <1>2, <2>5 DEF Latest
<1> QED
  BY <1>1, <1>2

\* The last slot of a set is one of it, or NIL.
LEMMA LatestType ==
    ASSUME NEW i \in 0 .. MFU_SIZE, NEW S, S \subseteq 0 .. i - 1
    PROVE  Latest(S) = NIL \/ Latest(S) \in 0 .. i - 1
  BY LatestIsLast

\* A seeded table is sound, and every count in it is a seeded one or 0.
LEMMA SeedGood ==
    ASSUME NEW n \in Nat, NEW seeds, \A i \in 1 .. n : seeds[i] \in Entry
    PROVE  /\ Seed(seeds, n) \in Table
           /\ GoodRanks(Seed(seeds, n))
           /\ Tidy(Seed(seeds, n))
           /\ \A i \in Slots : \/ Seed(seeds, n).entries[i].count = 0
                               \/ \E j \in 1 .. n :
                                     Seed(seeds, n).entries[i].count = seeds[j].count
<1> DEFINE to_add  == IF n < MFU_SIZE THEN n ELSE MFU_SIZE
           entries == [i \in Slots |-> IF i < to_add THEN seeds[i + 1]
                                       ELSE MfuInit.entries[i]]
           hash    == [h \in Buckets |-> Latest(Before(seeds, h, to_add))]
           chain   == [i \in Slots |->
                          IF i < to_add
                          THEN Latest(Before(seeds, Hash(seeds[i + 1].instrument_id), i))
                          ELSE NIL]
           base == [MfuInit EXCEPT !.entries = entries, !.num_entries = to_add,
                                   !.hash = hash, !.chain = chain]
<1>1. Seed(seeds, n) = RebuildRanks(base)
  BY DEF Seed
<1>2. to_add \in 0 .. MFU_SIZE /\ to_add <= n
  BY Sizes
<1>3. \A i \in Slots : i < to_add => i + 1 \in 1 .. n
  BY <1>2, Sizes DEF Slots
<1>4. \A i \in Slots : MfuInit.entries[i] \in Entry /\ MfuInit.entries[i].count = 0
  BY Sizes DEF MfuInit, Entry, Instrument, Count
<1> HIDE DEF to_add
<1>5. entries \in [Slots -> Entry]
  BY <1>3, <1>4
<1>6. \A i \in Slots : \/ entries[i].count = 0
                       \/ \E j \in 1 .. n : entries[i].count = seeds[j].count
  BY <1>3, <1>4
<1>7. \A h \in Buckets : hash[h] = NIL \/ hash[h] \in 0 .. to_add - 1
  <2>1. \A h \in Buckets : Before(seeds, h, to_add) \subseteq 0 .. to_add - 1
    BY DEF Before
  <2> QED
    BY <1>2, <2>1, LatestType
<1>8. \A i \in Slots : chain[i] = NIL \/ chain[i] \in 0 .. to_add - 1
  <2> SUFFICES ASSUME NEW i \in Slots, i < to_add
               PROVE  chain[i] = NIL \/ chain[i] \in 0 .. to_add - 1
    OBVIOUS
  <2> DEFINE S == Before(seeds, Hash(seeds[i + 1].instrument_id), i)
  <2>1. S \subseteq 0 .. i - 1
    BY DEF Before
  <2>2. i \in 0 .. MFU_SIZE /\ i \in Nat
    BY Sizes DEF Slots
  <2>3. chain[i] = Latest(S)
    OBVIOUS
  <2> HIDE DEF S, chain
  <2>4. Latest(S) = NIL \/ Latest(S) \in 0 .. i - 1
    BY <2>1, <2>2, LatestType
  <2> QED
    BY <1>2, <2>2, <2>3, <2>4
<1>9. \A i \in Slots : i >= to_add => entries[i].count = 0
  BY <1>2, <1>4, Sizes
<1>10. /\ hash \in [Buckets -> Slots \cup {NIL}]
          /\ chain \in [Slots -> Slots \cup {NIL}]
  <2>1. 0 .. to_add - 1 \subseteq Slots
    BY <1>2, Sizes DEF Slots
  <2>2. hash = [h \in Buckets |-> hash[h]] /\ chain = [i \in Slots |-> chain[i]]
    OBVIOUS
  <2> HIDE DEF hash, chain
  <2> QED
    BY <1>7, <1>8, <2>1, <2>2
<1> HIDE DEF entries, hash, chain
<1>11. base \in Table
  BY <1>2, <1>5, <1>10, MfuInitType DEF Table
<1>12. /\ base.entries = entries /\ base.num_entries = to_add
       /\ base.hash = hash /\ base.chain = chain
  BY MfuInitType DEF Table
<1> HIDE DEF base
<1>13. Tidy(base)
  <2>1. \A x : x \in 0 .. to_add - 1 => x < to_add
    BY <1>2
  <2> QED
    BY <1>7, <1>8, <1>12, <1>9, <2>1 DEF Tidy
<1>14. Tidy(Seed(seeds, n))
  BY <1>1, <1>11, <1>13, RebuildRanksTidy
<1> QED
  BY <1>1, <1>6, <1>11, <1>12, <1>14, RebuildRanksGood

\* What a seed leaves in the entries, buckets and chains.
LEMMA SeedFields ==
    ASSUME NEW n \in Nat, NEW seeds
    PROVE  LET to_add == IF n < MFU_SIZE THEN n ELSE MFU_SIZE
               new    == Seed(seeds, n)
           IN  /\ new.num_entries = to_add
               /\ \A i \in Slots : i < to_add => new.entries[i] = seeds[i + 1]
               /\ \A h \in Buckets : new.hash[h] = Latest(Before(seeds, h, to_add))
               /\ \A i \in Slots : i < to_add =>
                      new.chain[i] = Latest(Before(seeds, Hash(seeds[i + 1].instrument_id), i))
  BY DEF Seed, RebuildRanks, MfuInit

-----------------------------------------------------------------------------
(***************************************************************************)
(* The hash chains of the MFU table, for every size of table and hash.     *)
(*                                                                         *)
(* The slots of a bucket are chained in the reverse of the order in which  *)
(* they were inserted.  A stamp t[i] per slot, the time of its insertion,  *)
(* turns that into a property of each cell by itself: the bucket holds its *)
(* newest slot, and each slot leads to the newest of the older ones.       *)
(***************************************************************************)

\* The slots of U that belong to bucket h, and those older than slot i there.
Members(mfu, U, h) == {i \in U : Hash(mfu.entries[i].instrument_id) = h}

Older(mfu, U, t, i) ==
    {j \in Members(mfu, U, Hash(mfu.entries[i].instrument_id)) : t[j] < t[i]}

\* x is the newest slot of S, or NIL if there is none.
Newest(x, S, t) ==
    \/ S = {} /\ x = NIL
    \/ x \in S /\ \A j \in S : t[j] <= t[x]

\* The slots of U, and no others, are linked, newest first; T is the time now.
Ordered(mfu, U, t, T) ==
    /\ \A i \in U : t[i] < T
    /\ \A i, j \in U : t[i] = t[j] => i = j
    /\ \A h \in Buckets : Newest(mfu.hash[h], Members(mfu, U, h), t)
    /\ \A i \in U : Newest(mfu.chain[i], Older(mfu, U, t, i), t)

Chained(mfu, U) == \E t \in [Slots -> Nat], T \in Nat : Ordered(mfu, U, t, T)

-----------------------------------------------------------------------------
\* A walk along the chain of a bucket meets members of the bucket only.
LEMMA WalkMember ==
    ASSUME NEW mfu \in Table, NEW U \in SUBSET Slots,
           NEW t \in [Slots -> Nat], NEW T \in Nat, Ordered(mfu, U, t, T),
           NEW h \in Buckets, NEW n \in Nat, Walk(mfu, h)[n] \in Slots
    PROVE  Walk(mfu, h)[n] \in Members(mfu, U, h)
<1> DEFINE node == Walk(mfu, h)
           M    == Members(mfu, U, h)
           bad  == {k \in Nat : node[k] \in Slots /\ node[k] \notin M}
<1>1. /\ node[0] = mfu.hash[h]
      /\ \A k \in Nat : node[k + 1] = IF node[k] \in Slots THEN mfu.chain[node[k]] ELSE NIL
  BY WalkSteps
<1>2. NIL \notin Slots
  BY Sizes
<1>3. \A i \in M : Older(mfu, U, t, i) \subseteq M /\ i \in U
  BY DEF Older, Members
<1> HIDE DEF node, M
<1>4. mfu.hash[h] \in Slots => mfu.hash[h] \in M
  BY <1>2 DEF Ordered, Newest, M
<1>5. \A i \in M : mfu.chain[i] \in Slots => mfu.chain[i] \in M
  BY <1>2, <1>3 DEF Ordered, Newest
<1>6. SUFFICES ASSUME bad # {}
               PROVE  FALSE
  BY DEF node, M
<1>7. PICK b \in bad : \A k \in bad : b <= k
  <2>1. bad \subseteq Nat
    OBVIOUS
  <2> HIDE DEF bad
  <2> QED
    BY <1>6, <2>1, LeastNatural
<1>8. b # 0
  BY <1>1, <1>4, <1>7
<1>9. b - 1 \in Nat /\ (b - 1) + 1 = b /\ ~(b <= b - 1)
  BY <1>7, <1>8
<1>10. b - 1 \notin bad
  BY <1>7, <1>9
<1>11. node[b] = IF node[b - 1] \in Slots THEN mfu.chain[node[b - 1]] ELSE NIL
  BY <1>1, <1>9
<1>12. node[b - 1] \in M /\ node[b] = mfu.chain[node[b - 1]]
  BY <1>2, <1>7, <1>9, <1>10, <1>11
<1> QED
  BY <1>5, <1>7, <1>12

\* Along a chain the slots get older and older.
LEMMA WalkAges ==
    ASSUME NEW mfu \in Table, NEW U \in SUBSET Slots,
           NEW t \in [Slots -> Nat], NEW T \in Nat, Ordered(mfu, U, t, T),
           NEW h \in Buckets, NEW n \in Nat, Walk(mfu, h)[n] \in Slots,
           NEW a \in Nat, a < n
    PROVE  Walk(mfu, h)[a] \in Slots /\ t[Walk(mfu, h)[n]] < t[Walk(mfu, h)[a]]
<1> DEFINE node == Walk(mfu, h)
           Ages(k) == \A c \in Nat : c < k => node[c] \in Slots /\ t[node[k]] < t[node[c]]
           bad  == {k \in Nat : node[k] \in Slots /\ ~Ages(k)}
<1>1. \A k \in Nat : node[k + 1] = IF node[k] \in Slots THEN mfu.chain[node[k]] ELSE NIL
  BY WalkSteps
<1>2. NIL \notin Slots
  BY Sizes
<1>3. \A k \in Nat : node[k] \in Slots => node[k] \in Members(mfu, U, h)
  BY WalkMember
<1> HIDE DEF node
<1>4. \A k \in Nat : node[k + 1] \in Slots =>
          node[k] \in Slots /\ t[node[k + 1]] < t[node[k]]
  <2> SUFFICES ASSUME NEW k \in Nat, node[k + 1] \in Slots
               PROVE  node[k] \in Slots /\ t[node[k + 1]] < t[node[k]]
    OBVIOUS
  <2>1. node[k] \in Slots /\ node[k + 1] = mfu.chain[node[k]]
    BY <1>1, <1>2
  <2>2. node[k] \in U
    BY <1>3, <2>1 DEF Members
  <2>3. node[k + 1] \in Older(mfu, U, t, node[k])
    BY <1>2, <2>1, <2>2 DEF Ordered, Newest
  <2> QED
    BY <2>1, <2>3 DEF Older
<1>5. SUFFICES ASSUME bad # {}
               PROVE  FALSE
  BY DEF node
<1>6. PICK b \in bad : \A k \in bad : b <= k
  <2>1. bad \subseteq Nat
    OBVIOUS
  <2> HIDE DEF bad
  <2> QED
    BY <1>5, <2>1, LeastNatural
<1>7. PICK c \in Nat : c < b /\ ~(node[c] \in Slots /\ t[node[b]] < t[node[c]])
  BY <1>6
<1>8. b \in Nat /\ b - 1 \in Nat /\ (b - 1) + 1 = b /\ ~(b <= b - 1)
  BY <1>6, <1>7
<1>9. node[b - 1] \in Slots /\ t[node[b]] < t[node[b - 1]]
  BY <1>4, <1>6, <1>8
<1>10. c # b - 1
  BY <1>7, <1>9
<1>11. c < b - 1
  BY <1>7, <1>8, <1>10
<1>12. Ages(b - 1)
  BY <1>6, <1>8, <1>9
<1>13. node[c] \in Slots /\ t[node[b - 1]] < t[node[c]]
  BY <1>11, <1>12
<1>14. t[node[b]] \in Nat /\ t[node[b - 1]] \in Nat /\ t[node[c]] \in Nat
  BY <1>6, <1>9, <1>13
<1> QED
  BY <1>7, <1>9, <1>13, <1>14

\* So no chain is longer than the table: it ends within MFU_SIZE slots.
LEMMA WalkEnds ==
    ASSUME NEW mfu \in Table, NEW U \in SUBSET Slots,
           NEW t \in [Slots -> Nat], NEW T \in Nat, Ordered(mfu, U, t, T),
           NEW h \in Buckets, NEW n \in Nat, n >= MFU_SIZE
    PROVE  Walk(mfu, h)[n] = NIL
<1> DEFINE node == Walk(mfu, h)
<1>1. node \in [Nat -> Slots \cup {NIL}]
  BY WalkSteps
<1>2. SUFFICES ASSUME node[n] \in Slots
               PROVE  FALSE
  BY <1>1
<1>3. \A b \in Nat, a \in Nat :
          node[b] \in Slots /\ a < b => node[a] \in Slots /\ t[node[b]] < t[node[a]]
  BY WalkAges
<1> HIDE DEF node
<1> DEFINE D == 0 .. n
           f == [k \in D |-> node[k]]
<1>4. D \subseteq Nat
  OBVIOUS
<1>5. \A k \in D : node[k] \in Slots
  BY <1>2, <1>3
<1>6. \A a, b \in D : a < b => node[a] # node[b]
  <2> SUFFICES ASSUME NEW a \in D, NEW b \in D, a < b, node[a] = node[b]
               PROVE  FALSE
    OBVIOUS
  <2>1. t[node[b]] < t[node[a]] /\ t[node[a]] \in Nat
    BY <1>3, <1>5
  <2> QED
    BY <2>1
<1>7. f \in [D -> Slots]
  BY <1>5
<1>8. /\ IsFiniteSet(D) /\ Cardinality(D) = n + 1
      /\ IsFiniteSet(Slots) /\ Cardinality(Slots) = MFU_SIZE
  <2>1. n \in Int /\ 0 \in Int /\ MFU_SIZE - 1 \in Int /\ MFU_SIZE \in Nat /\ MFU_SIZE >= 1
    BY Sizes
  <2>2. IsFiniteSet(D) /\ Cardinality(D) = IF 0 > n THEN 0 ELSE n - 0 + 1
    BY <2>1, FS_Interval
  <2>3. /\ IsFiniteSet(Slots)
        /\ Cardinality(Slots) = IF 0 > MFU_SIZE - 1 THEN 0 ELSE MFU_SIZE - 1 - 0 + 1
    BY <2>1, FS_Interval DEF Slots
  <2> HIDE DEF D
  <2> QED
    BY <2>1, <2>2, <2>3
<1>9. Cardinality(Slots) < Cardinality(D)
  BY <1>8, Sizes
<1>10. \E a, b \in D : a # b /\ f[a] = f[b]
  <2> HIDE DEF D, f
  <2> QED
    BY <1>7, <1>8, <1>9, FS_PigeonHole
<1> QED
  BY <1>4, <1>6, <1>10

(***************************************************************************)
(* A walk reaches every member of its bucket.  Of the slots it meets that  *)
(* are not older than slot i, the oldest is i: from any other it would go  *)
(* on to one that is.                                                      *)
(***************************************************************************)
LEMMA WalkReaches ==
    ASSUME NEW mfu \in Table, NEW U \in SUBSET Slots,
           NEW t \in [Slots -> Nat], NEW T \in Nat, Ordered(mfu, U, t, T),
           NEW h \in Buckets, NEW i \in Members(mfu, U, h)
    PROVE  \E n \in Slots : Walk(mfu, h)[n] = i
<1> DEFINE node  == Walk(mfu, h)
           M     == Members(mfu, U, h)
           ahead == {k \in Nat : node[k] \in M /\ t[i] <= t[node[k]]}
           ages  == {t[node[k]] : k \in ahead}
<1>1. /\ node[0] = mfu.hash[h]
      /\ \A k \in Nat : node[k + 1] = IF node[k] \in Slots THEN mfu.chain[node[k]] ELSE NIL
  BY WalkSteps
<1>2. M \subseteq U /\ M \subseteq Slots /\ i \in M
  BY DEF Members
<1>3. \A j \in M : /\ t[j] \in Nat
                   /\ Newest(mfu.chain[j], {m \in M : t[m] < t[j]}, t)
  BY <1>2 DEF Ordered, Older, Members
<1>4. Newest(mfu.hash[h], M, t)
  BY DEF Ordered
<1>5. \A j \in M : t[j] = t[i] => j = i
  BY <1>2 DEF Ordered
<1>6. \A k \in Nat : k >= MFU_SIZE => node[k] = NIL
  BY WalkEnds
<1> HIDE DEF node, M
<1>7. 0 \in ahead
  BY <1>1, <1>2, <1>4 DEF Newest
<1>8. PICK k \in ahead : \A m \in ahead : t[node[k]] <= t[node[m]]
  <2>1. ages \subseteq Nat /\ ages # {}
    BY <1>3, <1>7
  <2>2. PICK age \in ages : \A other \in ages : age <= other
    <3> HIDE DEF ages
    <3> QED
      BY <2>1, LeastNatural
  <2> QED
    BY <2>2
<1>9. node[k] = i
  <2> SUFFICES ASSUME node[k] # i
               PROVE  FALSE
    OBVIOUS
  <2> DEFINE older == {m \in M : t[m] < t[node[k]]}
  <2>1. node[k] \in M /\ k \in Nat /\ t[node[k]] \in Nat /\ t[i] \in Nat
    BY <1>2, <1>3, <1>8
  <2>2. t[i] < t[node[k]]
    BY <1>5, <1>8, <2>1
  <2>3. i \in older
    BY <1>2, <2>2
  <2>4. node[k + 1] = mfu.chain[node[k]]
    BY <1>1, <1>2, <2>1
  <2>5. Newest(node[k + 1], older, t)
    BY <1>3, <2>1, <2>4
  <2>6. node[k + 1] \in older /\ t[i] <= t[node[k + 1]]
    BY <2>3, <2>5 DEF Newest
  <2>7. k + 1 \in ahead
    BY <2>1, <2>6
  <2>8. t[node[k]] <= t[node[k + 1]] /\ t[node[k + 1]] < t[node[k]]
    BY <1>8, <2>6, <2>7
  <2>9. t[node[k + 1]] \in Nat
    BY <1>3, <2>6
  <2> QED
    BY <2>1, <2>8, <2>9
<1>10. k \in Slots
  <2>1. node[k] \in Slots /\ NIL \notin Slots
    BY <1>2, <1>9, Sizes
  <2>2. ~(k >= MFU_SIZE) /\ k \in Nat
    BY <1>6, <1>8, <2>1
  <2> QED
    BY <2>2, Sizes DEF Slots
<1> QED
  BY <1>9, <1>10 DEF node

-----------------------------------------------------------------------------
\* A lookup returns a slot or -1.
LEMMA LookupType ==
    ASSUME NEW mfu, NEW id
    PROVE  \/ Lookup(mfu, id) = -1
           \/ Lookup(mfu, id) \in Slots /\ Lookup(mfu, id) \in Nat /\ Lookup(mfu, id) # -1
<1>1. Lookup(mfu, id) = -1 \/ Lookup(mfu, id) \in Slots
  BY LookupFinds
<1>2. \A x \in Slots : x \in Nat /\ x # -1
  BY Sizes
<1> QED
  BY <1>1, <1>2

\* A slot that is found is linked.
LEMMA LookupLinked ==
    ASSUME NEW mfu \in Table, NEW U \in SUBSET Slots, Chained(mfu, U),
           NEW id \in Instrument, Lookup(mfu, id) # -1
    PROVE  Lookup(mfu, id) \in U
<1> DEFINE node  == Walk(mfu, Hash(id))
           hits  == {n \in Slots : node[n] \in Slots
                                   /\ mfu.entries[node[n]].instrument_id = id}
           first == CHOOSE n \in Slots : IsFirst(n, hits)
<1>1. PICK t \in [Slots -> Nat], T \in Nat : Ordered(mfu, U, t, T)
  BY DEF Chained
<1>2. \E n \in Slots : IsFirst(n, hits)
  BY DEF Lookup
<1>3. first \in Slots /\ IsFirst(first, hits)
  <2> HIDE DEF hits
  <2> QED
    BY <1>2
<1>4. Lookup(mfu, id) = node[first]
  BY <1>2 DEF Lookup
<1>5. first \in Nat /\ node[first] \in Slots /\ Hash(id) \in Buckets
  BY <1>3, HashType, Sizes DEF IsFirst
<1> HIDE DEF first
<1>6. node[first] \in Members(mfu, U, Hash(id))
  BY <1>1, <1>5, WalkMember
<1> QED
  BY <1>4, <1>6 DEF Members

\* An instrument that a linked slot holds is found, and in a linked slot.
LEMMA LookupHit ==
    ASSUME NEW mfu \in Table, NEW U \in SUBSET Slots, Chained(mfu, U), NEW i \in U
    PROVE  LET id == mfu.entries[i].instrument_id IN
           /\ Lookup(mfu, id) \in U
           /\ mfu.entries[Lookup(mfu, id)].instrument_id = id
<1> DEFINE id    == mfu.entries[i].instrument_id
           node  == Walk(mfu, Hash(id))
           hits  == {n \in Slots : node[n] \in Slots
                                   /\ mfu.entries[node[n]].instrument_id = id}
           first == CHOOSE n \in Slots : IsFirst(n, hits)
<1>1. PICK t \in [Slots -> Nat], T \in Nat : Ordered(mfu, U, t, T)
  BY DEF Chained
<1>2. id \in Instrument /\ Hash(id) \in Buckets
  BY EntryParts, HashType
<1>3. i \in Members(mfu, U, Hash(id))
  BY DEF Members
<1>4. PICK n \in Slots : node[n] = i
  BY <1>1, <1>2, <1>3, WalkReaches
<1>5. n \in hits
  BY <1>4
<1>6. PICK m \in hits : \A k \in hits : m <= k
  <2>1. hits \subseteq Nat /\ hits # {}
    BY <1>5, Sizes
  <2> HIDE DEF hits
  <2> QED
    BY <2>1, LeastNatural
<1>7. m \in Slots /\ IsFirst(m, hits)
  BY <1>6 DEF IsFirst
<1>8. first \in Slots /\ IsFirst(first, hits)
  <2> HIDE DEF hits
  <2> QED
    BY <1>7
<1>9. Lookup(mfu, id) = node[first] /\ node[first] \in Slots
  BY <1>7, <1>8 DEF Lookup, IsFirst
<1>10. Lookup(mfu, id) # -1
  <2>1. \A x \in Slots : x # -1
    BY Sizes
  <2> QED
    BY <1>9, <2>1
<1> QED
  BY <1>2, <1>10, LookupFinds, LookupLinked

\* Among the slots of U each instrument is there once.
Distinct(mfu, U) ==
    \A i, j \in U :
        mfu.entries[i].instrument_id = mfu.entries[j].instrument_id => i = j

\* In a chained table without doubles every slot is found under its identifier.
LEMMA LookupExact ==
    ASSUME NEW mfu \in Table, NEW U \in SUBSET Slots, Chained(mfu, U),
           Distinct(mfu, U), NEW i \in U
    PROVE  Lookup(mfu, mfu.entries[i].instrument_id) = i
  BY LookupHit DEF Distinct

\* What is not found is in no linked slot.
LEMMA LookupMiss ==
    ASSUME NEW mfu \in Table, NEW U \in SUBSET Slots, Chained(mfu, U),
           NEW id \in Instrument, Lookup(mfu, id) < 0, NEW i \in U
    PROVE  mfu.entries[i].instrument_id # id
<1> SUFFICES ASSUME mfu.entries[i].instrument_id = id
             PROVE  FALSE
  OBVIOUS
<1>1. Lookup(mfu, id) \in Nat
  BY LookupHit, Sizes
<1> QED
  BY <1>1

-----------------------------------------------------------------------------
\* Neither counts nor ranks matter to the chains.
LEMMA SameLinks ==
    ASSUME NEW mfu, NEW new, NEW U, NEW t, NEW T, Ordered(mfu, U, t, T),
           new.hash = mfu.hash, new.chain = mfu.chain,
           \A i \in U : new.entries[i].instrument_id = mfu.entries[i].instrument_id
    PROVE  Ordered(new, U, t, T)
<1>1. \A h : Members(new, U, h) = Members(mfu, U, h)
  BY DEF Members
<1>2. \A i \in U : Older(new, U, t, i) = Older(mfu, U, t, i)
  BY <1>1 DEF Older
<1> QED
  BY <1>1, <1>2 DEF Ordered

\* The slot put at the head of a bucket is newer than all others.
LEMMA InsertOrdered ==
    ASSUME NEW mfu \in Table, NEW U \in SUBSET Slots,
           NEW t \in [Slots -> Nat], NEW T \in Nat, Ordered(mfu, U, t, T),
           NEW idx \in Slots, idx \notin U, NEW e \in Entry
    PROVE  Chained(Insert(mfu, idx, e), U \cup {idx})
<1> DEFINE new == Insert(mfu, idx, e)
           h   == Hash(e.instrument_id)
           V   == U \cup {idx}
           s   == [t EXCEPT ![idx] = T]
<1>1. h \in Buckets
  BY HashType DEF Entry
<1>2. new = [mfu EXCEPT !.entries[idx] = e, !.chain[idx] = mfu.hash[h], !.hash[h] = idx]
  BY DEF Insert
<1> HIDE DEF new, h
<1>3. /\ \A b \in Buckets : new.hash[b] = IF b = h THEN idx ELSE mfu.hash[b]
      /\ \A i \in Slots : new.chain[i] = IF i = idx THEN mfu.hash[h] ELSE mfu.chain[i]
      /\ \A i \in Slots : new.entries[i] = IF i = idx THEN e ELSE mfu.entries[i]
  BY <1>1, <1>2, TableParts DEF Table
<1>4. /\ s \in [Slots -> Nat] /\ s[idx] = T
      /\ \A i \in U : s[i] = t[i] /\ s[i] \in Nat /\ s[i] < T
  BY DEF Ordered
<1> HIDE DEF s
<1>5. \A b \in Buckets : Members(new, V, b) = Members(mfu, U, b) \cup (IF b = h THEN {idx} ELSE {})
  BY <1>3 DEF Members, h
<1>6. /\ Older(new, V, s, idx) = Members(mfu, U, h)
      /\ \A i \in U : Older(new, V, s, i) = Older(mfu, U, t, i)
  <2>1. Hash(new.entries[idx].instrument_id) = h
    BY <1>3 DEF h
  <2>2. \A b \in Buckets : Members(mfu, U, b) \subseteq U
    BY DEF Members
  <2>3. Older(new, V, s, idx) = Members(mfu, U, h)
    <3>1. Older(new, V, s, idx) = {j \in Members(new, V, h) : s[j] < s[idx]}
      BY <2>1 DEF Older
    <3>2. Members(new, V, h) = Members(mfu, U, h) \cup {idx}
      BY <1>1, <1>5
    <3>3. \A j \in Members(mfu, U, h) : s[j] < s[idx]
      BY <1>1, <1>4, <2>2
    <3>4. ~(s[idx] < s[idx])
      BY <1>4
    <3> QED
      BY <3>1, <3>2, <3>3, <3>4
  <2>4. ASSUME NEW i \in U
        PROVE  Older(new, V, s, i) = Older(mfu, U, t, i)
    <3> DEFINE b == Hash(mfu.entries[i].instrument_id)
    <3>1. i # idx /\ new.entries[i] = mfu.entries[i]
      BY <1>3
    <3>2. b \in Buckets
      BY EntryParts, HashType
    <3>3. Older(new, V, s, i) = {j \in Members(new, V, b) : s[j] < s[i]}
      BY <3>1 DEF Older
    <3>4. Older(mfu, U, t, i) = {j \in Members(mfu, U, b) : t[j] < t[i]}
      BY DEF Older
    <3>5. ~(s[idx] < s[i])
      BY <1>4
    <3> HIDE DEF b
    <3> QED
      BY <1>4, <1>5, <2>2, <3>2, <3>3, <3>4, <3>5
  <2> QED
    BY <2>3, <2>4
<1>7. \A i \in V : s[i] < T + 1
  BY <1>4
<1>8. \A i, j \in V : s[i] = s[j] => i = j
  BY <1>4 DEF Ordered
<1>9. ASSUME NEW b \in Buckets
      PROVE  Newest(new.hash[b], Members(new, V, b), s)
  <2>1. Members(mfu, U, b) \subseteq U
    BY DEF Members
  <2>2. CASE b = h
    <3>1. new.hash[b] = idx /\ Members(new, V, b) = Members(mfu, U, b) \cup {idx}
      BY <1>3, <1>5, <2>2
    <3>2. \A j \in Members(new, V, b) : s[j] <= s[idx]
      BY <1>4, <2>1, <3>1
    <3> QED
      BY <3>1, <3>2 DEF Newest
  <2>3. CASE b # h
    <3>1. new.hash[b] = mfu.hash[b] /\ Members(new, V, b) = Members(mfu, U, b)
      BY <1>3, <1>5, <2>3
    <3>2. Newest(mfu.hash[b], Members(mfu, U, b), t)
      BY DEF Ordered
    <3> QED
      BY <1>4, <2>1, <3>1, <3>2 DEF Newest
  <2> QED
    BY <2>2, <2>3
<1>10. ASSUME NEW i \in V
       PROVE  Newest(new.chain[i], Older(new, V, s, i), s)
  <2>1. CASE i = idx
    <3>1. new.chain[i] = mfu.hash[h] /\ Older(new, V, s, i) = Members(mfu, U, h)
      BY <1>3, <1>6, <2>1
    <3>2. Newest(mfu.hash[h], Members(mfu, U, h), t)
      BY <1>1 DEF Ordered
    <3>3. Members(mfu, U, h) \subseteq U
      BY DEF Members
    <3> QED
      BY <1>4, <3>1, <3>2, <3>3 DEF Newest
  <2>2. CASE i # idx
    <3>1. i \in U /\ new.chain[i] = mfu.chain[i] /\ Older(new, V, s, i) = Older(mfu, U, t, i)
      BY <1>3, <1>6, <2>2
    <3>2. Newest(mfu.chain[i], Older(mfu, U, t, i), t)
      BY <3>1 DEF Ordered
    <3>3. Older(mfu, U, t, i) \subseteq U
      BY DEF Older, Members
    <3> QED
      BY <1>4, <3>1, <3>2, <3>3 DEF Newest
  <2> QED
    BY <2>1, <2>2
<1>11. Ordered(new, V, s, T + 1)
  <2> HIDE DEF V
  <2> QED
    BY <1>7, <1>8, <1>9, <1>10 DEF Ordered
<1>12. T + 1 \in Nat
  OBVIOUS
<1> QED
  BY <1>4, <1>11, <1>12 DEF Chained, new

\* A slot taken out of its bucket: what led to it leads to what it led to.
LEMMA UnlinkOrdered ==
    ASSUME NEW mfu \in Table, NEW U \in SUBSET Slots,
           NEW t \in [Slots -> Nat], NEW T \in Nat, Ordered(mfu, U, t, T),
           NEW idx \in U
    PROVE  Ordered(Unlink(mfu, idx), U \ {idx}, t, T)
<1> DEFINE h     == Hash(mfu.entries[idx].instrument_id)
           node  == Walk(mfu, h)
           cells == {n \in Slots : node[n] \in Slots /\ mfu.chain[node[n]] = idx}
           first == CHOOSE n \in Slots : IsFirst(n, cells)
           new   == Unlink(mfu, idx)
           V     == U \ {idx}
           M     == Members(mfu, U, h)
<1>1. idx \in Slots /\ h \in Buckets /\ idx \in M
  BY EntryParts, HashType DEF Members
<1>2. new.entries = mfu.entries
  BY <1>1, UnlinkType
<1>3. /\ \A b : Members(new, V, b) = Members(mfu, U, b) \ {idx}
      /\ \A i \in V : Older(new, V, t, i) = Older(mfu, U, t, i) \ {idx}
  BY <1>2 DEF Members, Older
<1>4. /\ \A i \in U : t[i] \in Nat
      /\ \A i, j \in U : t[i] = t[j] => i = j
  BY DEF Ordered
<1>5. /\ M \subseteq U
      /\ \A i \in M : Older(mfu, U, t, i) = {j \in M : t[j] < t[i]}
      /\ \A b \in Buckets : b # h => idx \notin Members(mfu, U, b)
      /\ \A i \in U : idx \in Older(mfu, U, t, i) => i \in M
  BY DEF Members, Older
<1>6. /\ Newest(mfu.hash[h], M, t)
      /\ \A i \in U : Newest(mfu.chain[i], Older(mfu, U, t, i), t)
  BY <1>1 DEF Ordered
<1>7. NIL \notin Slots
  BY Sizes
<1>8. \A S \in SUBSET U : \A x :
          Newest(x, S, t) /\ x # idx => Newest(x, S \ {idx}, t)
  BY <1>1, <1>7 DEF Newest
<1>9. \A S \in SUBSET M : (Newest(idx, S, t) /\ \A j \in M : t[j] < t[idx] => j \in S)
                          => Newest(mfu.chain[idx], S \ {idx}, t)
  <2> SUFFICES ASSUME NEW S \in SUBSET M, Newest(idx, S, t),
                      \A j \in M : t[j] < t[idx] => j \in S
               PROVE  Newest(mfu.chain[idx], S \ {idx}, t)
    OBVIOUS
  <2>1. idx \in S /\ \A j \in S : t[j] <= t[idx]
    BY <1>1, <1>7 DEF Newest
  <2>2. \A j \in S \ {idx} : t[j] < t[idx]
    BY <1>4, <1>5, <2>1
  <2>3. ~(t[idx] < t[idx])
    BY <1>1, <1>4
  <2>4. S \ {idx} = {j \in M : t[j] < t[idx]}
    BY <2>2, <2>3
  <2> QED
    BY <1>1, <1>5, <1>6, <2>4
<1>10. \A i \in M, j \in M :
           (mfu.chain[i] = idx /\ mfu.chain[j] = idx) => ~(t[i] < t[j])
  <2> SUFFICES ASSUME NEW i \in M, NEW j \in M, mfu.chain[i] = idx, mfu.chain[j] = idx,
                      t[i] < t[j]
               PROVE  FALSE
    OBVIOUS
  <2>1. i \in Older(mfu, U, t, j) /\ Newest(idx, Older(mfu, U, t, j), t)
    BY <1>5, <1>6
  <2>2. t[i] <= t[idx]
    BY <1>1, <1>7, <2>1 DEF Newest
  <2>3. Newest(idx, Older(mfu, U, t, i), t)
    BY <1>5, <1>6
  <2>4. idx \in Older(mfu, U, t, i)
    BY <1>1, <1>7, <2>3 DEF Newest
  <2>5. t[idx] < t[i]
    BY <2>4 DEF Older
  <2> QED
    BY <1>1, <1>4, <1>5, <2>2, <2>5
<1>11. \A i \in U : mfu.chain[i] = idx => i \in M
  <2> SUFFICES ASSUME NEW i \in U, mfu.chain[i] = idx
               PROVE  i \in M
    OBVIOUS
  <2>1. idx \in Older(mfu, U, t, i)
    BY <1>1, <1>6, <1>7 DEF Newest
  <2> QED
    BY <1>5, <2>1
<1>12. CASE mfu.hash[h] = idx
  <2>1. new = [mfu EXCEPT !.hash[h] = mfu.chain[idx]]
    BY <1>12 DEF Unlink
  <2> HIDE DEF h, new, M
  <2>2. /\ new.chain = mfu.chain
        /\ \A b \in Buckets : new.hash[b] = IF b = h THEN mfu.chain[idx] ELSE mfu.hash[b]
    BY <2>1, TableParts DEF Table
  <2>3. ASSUME NEW b \in Buckets
        PROVE  Newest(new.hash[b], Members(new, V, b), t)
    <3>1. CASE b = h
      <4>1. Members(new, V, b) = M \ {idx} /\ new.hash[b] = mfu.chain[idx]
        BY <1>3, <2>2, <3>1 DEF M
      <4>2. Newest(mfu.chain[idx], M \ {idx}, t)
        BY <1>6, <1>9, <1>12
      <4> QED
        BY <4>1, <4>2
    <3>2. CASE b # h
      <4>1. new.hash[b] = mfu.hash[b]
        BY <2>2, <3>2
      <4>2. Members(new, V, b) = Members(mfu, U, b)
        <5>1. idx \notin Members(mfu, U, b)
          BY <1>5, <3>2
        <5>2. Members(new, V, b) = Members(mfu, U, b) \ {idx}
          BY <1>3
        <5> QED
          BY <5>1, <5>2
      <4>3. Newest(mfu.hash[b], Members(mfu, U, b), t)
        BY DEF Ordered
      <4> QED
        BY <4>1, <4>2, <4>3
    <3> QED
      BY <3>1, <3>2
  <2>4. ASSUME NEW i \in V
        PROVE  Newest(new.chain[i], Older(new, V, t, i), t)
    <3>1. mfu.chain[i] # idx
      <4> SUFFICES ASSUME mfu.chain[i] = idx
                   PROVE  FALSE
        OBVIOUS
      <4>1. i \in M /\ idx \in Older(mfu, U, t, i)
        BY <1>1, <1>6, <1>7, <1>11 DEF Newest
      <4>2. t[idx] < t[i]
        BY <4>1 DEF Older
      <4>3. t[i] <= t[idx]
        BY <1>1, <1>6, <1>7, <1>12, <4>1 DEF Newest
      <4> QED
        BY <1>1, <1>4, <4>2, <4>3
    <3>2. Older(mfu, U, t, i) \in SUBSET U
      BY DEF Older, Members
    <3> QED
      BY <1>3, <1>6, <1>8, <2>2, <3>1, <3>2
  <2> QED
    BY <1>4, <2>3, <2>4 DEF Ordered, new
<1>13. CASE mfu.hash[h] # idx
  <2>1. PICK n \in Slots : node[n] = idx
    BY <1>1, WalkReaches
  <2>2. /\ node[0] = mfu.hash[h]
        /\ \A k \in Nat : node[k + 1] = IF node[k] \in Slots THEN mfu.chain[node[k]] ELSE NIL
    BY <1>1, WalkSteps
  <2>3. n # 0 /\ n \in Nat
    BY <1>13, <2>1, <2>2, Sizes
  <2>4. n - 1 \in Slots /\ n - 1 \in Nat /\ (n - 1) + 1 = n
    BY <2>3, Sizes DEF Slots
  <2>5. n - 1 \in cells
    <3> HIDE DEF node
    <3> QED
      BY <1>1, <1>7, <2>1, <2>2, <2>4
  <2>6. PICK m \in cells : \A k \in cells : m <= k
    <3>1. cells \subseteq Nat /\ cells # {}
      BY <2>5, Sizes
    <3> HIDE DEF cells
    <3> QED
      BY <3>1, LeastNatural
  <2>7. m \in Slots /\ IsFirst(m, cells)
    BY <2>6 DEF IsFirst
  <2>8. first \in Slots /\ IsFirst(first, cells)
    <3> HIDE DEF cells
    <3> QED
      BY <2>7
  <2>9. new = [mfu EXCEPT !.chain[node[first]] = mfu.chain[idx]]
    BY <1>13, <2>7 DEF Unlink
  <2>10. first \in Nat /\ node[first] \in Slots /\ mfu.chain[node[first]] = idx
    BY <2>8, Sizes DEF IsFirst
  <2>11. node[first] \in M
    <3> HIDE DEF first
    <3> QED
      BY <1>1, <2>10, WalkMember
  <2> DEFINE cell == node[first]
  <2> HIDE DEF h, new, M, node, first
  <2>12. /\ new.hash = mfu.hash
         /\ \A i \in Slots : new.chain[i] = IF i = cell THEN mfu.chain[idx] ELSE mfu.chain[i]
    BY <2>9, TableParts DEF Table
  <2>13. cell \in M /\ mfu.chain[cell] = idx
    BY <2>10, <2>11
  <2> HIDE DEF cell
  <2>14. ASSUME NEW b \in Buckets
         PROVE  Newest(new.hash[b], Members(new, V, b), t)
    <3>1. Members(mfu, U, b) \in SUBSET U
      BY DEF Members
    <3>2. Newest(mfu.hash[b], Members(mfu, U, b), t)
      BY DEF Ordered
    <3>3. mfu.hash[b] # idx
      BY <1>1, <1>5, <1>7, <1>13, <3>2 DEF Newest
    <3> QED
      BY <1>3, <1>8, <2>12, <3>1, <3>2, <3>3
  <2>15. ASSUME NEW i \in V
         PROVE  Newest(new.chain[i], Older(new, V, t, i), t)
    <3>1. CASE i = cell
      <4> DEFINE S == Older(mfu, U, t, cell)
      <4>1. S \in SUBSET M /\ Newest(idx, S, t)
        BY <1>5, <1>6, <2>13
      <4>2. idx \in S
        BY <1>1, <1>7, <4>1 DEF Newest
      <4>3. t[idx] < t[cell]
        BY <4>2 DEF Older
      <4>4. \A j \in M : t[j] < t[idx] => t[j] < t[cell]
        BY <1>1, <1>4, <1>5, <2>13, <4>3
      <4>5. \A j \in M : t[j] < t[idx] => j \in S
        BY <1>5, <2>13, <4>4
      <4> HIDE DEF S
      <4>6. Newest(mfu.chain[idx], S \ {idx}, t)
        BY <1>9, <4>1, <4>5
      <4> QED
        BY <1>3, <2>12, <3>1, <4>6 DEF S
    <3>2. CASE i # cell
      <4>1. i \in U /\ mfu.chain[i] # idx
        <5> SUFFICES ASSUME mfu.chain[i] = idx
                     PROVE  FALSE
          OBVIOUS
        <5>1. i \in M
          BY <1>11
        <5>2. ~(t[i] < t[cell]) /\ ~(t[cell] < t[i])
          BY <1>10, <2>13, <5>1
        <5>3. t[i] = t[cell]
          BY <1>4, <1>5, <2>13, <5>1, <5>2
        <5> QED
          BY <1>4, <1>5, <2>13, <3>2, <5>3
      <4>2. Older(mfu, U, t, i) \in SUBSET U
        BY DEF Older, Members
      <4>3. new.chain[i] = mfu.chain[i]
        BY <2>12, <3>2, <4>1
      <4> QED
        BY <1>3, <1>6, <1>8, <4>1, <4>2, <4>3
    <3> QED
      BY <3>1, <3>2
  <2> QED
    BY <1>4, <2>14, <2>15 DEF Ordered, new
<1> QED
  BY <1>12, <1>13

-----------------------------------------------------------------------------
(***************************************************************************)
(* The used slots, and no others, are linked, each instrument once: what   *)
(* every operation on the table preserves.                                 *)
(***************************************************************************)
UsedSlots(mfu) == 0 .. mfu.num_entries - 1

WellChained(mfu) ==
    /\ Chained(mfu, UsedSlots(mfu))
    /\ Distinct(mfu, UsedSlots(mfu))

\* The slots in use are the first num_entries.
LEMMA UsedType ==
    ASSUME NEW mfu \in Table
    PROVE  /\ UsedSlots(mfu) \in SUBSET Slots
           /\ \A i \in Slots : i \in UsedSlots(mfu) <=> i < mfu.num_entries
<1>1. mfu.num_entries \in 0 .. MFU_SIZE
  BY TableParts
<1> QED
  BY <1>1, Sizes DEF UsedSlots, Slots

\* The empty table: no slot is linked, every bucket is empty.
LEMMA MfuInitChained == WellChained(MfuInit)
<1>1. UsedSlots(MfuInit) = {}
  BY DEF MfuInit, UsedSlots
<1>2. \A h \in Buckets : MfuInit.hash[h] = NIL
  BY DEF MfuInit
<1>3. Ordered(MfuInit, {}, [i \in Slots |-> 0], 0)
  BY <1>2 DEF Ordered, Newest, Members
<1>4. [i \in Slots |-> 0] \in [Slots -> Nat] /\ 0 \in Nat
  OBVIOUS
<1>5. Chained(MfuInit, {})
  BY <1>3, <1>4 DEF Chained
<1> QED
  BY <1>1, <1>5 DEF WellChained, Distinct

\* Halved counts and new ranks leave the chains alone.
LEMMA SameLinksChained ==
    ASSUME NEW mfu \in Table, WellChained(mfu), NEW new \in Table,
           new.num_entries = mfu.num_entries,
           new.hash = mfu.hash, new.chain = mfu.chain,
           \A i \in UsedSlots(mfu) :
               new.entries[i].instrument_id = mfu.entries[i].instrument_id
    PROVE  WellChained(new)
<1>1. UsedSlots(new) = UsedSlots(mfu)
  BY DEF UsedSlots
<1>2. PICK t \in [Slots -> Nat], T \in Nat : Ordered(mfu, UsedSlots(mfu), t, T)
  BY DEF WellChained, Chained
<1>3. Ordered(new, UsedSlots(mfu), t, T)
  BY <1>2, SameLinks
<1>4. Distinct(new, UsedSlots(new))
  BY <1>1 DEF WellChained, Distinct
<1> QED
  BY <1>1, <1>3, <1>4 DEF WellChained, Chained

\* Halving the counts keeps the chains as they are.
LEMMA DecayChained ==
    ASSUME NEW mfu \in Table, WellChained(mfu)
    PROVE  WellChained(Decay(mfu))
<1>1. Decay(mfu).hash = mfu.hash /\ Decay(mfu).chain = mfu.chain
  BY DEF Decay, RebuildRanks, Table
<1>2. /\ Decay(mfu) \in Table
      /\ Decay(mfu).num_entries = mfu.num_entries
      /\ \A i \in Slots : Decay(mfu).entries[i] =
             IF i < mfu.num_entries
             THEN [mfu.entries[i] EXCEPT !.count = @ \div 2]
             ELSE mfu.entries[i]
  BY DecayGood
<1>3. \A i \in UsedSlots(mfu) :
          Decay(mfu).entries[i].instrument_id = mfu.entries[i].instrument_id
  <2> SUFFICES ASSUME NEW i \in UsedSlots(mfu)
               PROVE  Decay(mfu).entries[i].instrument_id = mfu.entries[i].instrument_id
    OBVIOUS
  <2>1. i \in Slots /\ i < mfu.num_entries
    BY UsedType
  <2>2. mfu.entries[i] \in Entry
    BY <2>1, TableParts
  <2>3. Decay(mfu).entries[i] = [mfu.entries[i] EXCEPT !.count = @ \div 2]
    BY <1>2, <2>1
  <2> QED
    BY <2>2, <2>3 DEF Entry
<1> QED
  BY <1>1, <1>2, <1>3, SameLinksChained

(***************************************************************************)
(* An update counts the slot that holds the instrument; or, no used slot   *)
(* holding it, fills the next one; or replaces one with the lowest count.  *)
(***************************************************************************)
Fresh(id) == [instrument_id |-> id, count |-> 1]

Hit(mfu, id, new) ==
    \E i \in UsedSlots(mfu) :
        /\ mfu.entries[i].instrument_id = id
        /\ new.num_entries = mfu.num_entries
        /\ new.entries = [mfu.entries EXCEPT ![i].count = (@ + 1) % U16]

Miss(mfu, id) == \A i \in UsedSlots(mfu) : mfu.entries[i].instrument_id # id

Fill(mfu, id, new) ==
    /\ mfu.num_entries < MFU_SIZE
    /\ new.num_entries = mfu.num_entries + 1
    /\ new.entries = [mfu.entries EXCEPT ![mfu.num_entries] = Fresh(id)]

Replace(mfu, id, new) ==
    /\ mfu.num_entries = MFU_SIZE
    /\ new.num_entries = mfu.num_entries
    /\ new.entries = [mfu.entries EXCEPT ![MinSlot(mfu)] = Fresh(id)]

\* residc_mfu_update keeps the chains whole, and hits, fills or replaces.
LEMMA UpdateChained ==
    ASSUME NEW mfu \in Table, WellChained(mfu), NEW id \in Instrument
    PROVE  LET new == Update(mfu, id) IN
           /\ WellChained(new)
           /\ \/ Hit(mfu, id, new)
              \/ Miss(mfu, id) /\ Fill(mfu, id, new)
              \/ Miss(mfu, id) /\ Replace(mfu, id, new)
<1> DEFINE idx == Lookup(mfu, id)
           new == Update(mfu, id)
           U   == UsedSlots(mfu)
           n   == mfu.num_entries
<1>1. Fresh(id) \in Entry /\ Fresh(id).instrument_id = id
  BY Sizes DEF Fresh, Entry, Count
<1>2. /\ U \in SUBSET Slots
      /\ \A i \in Slots : i \in U <=> i < n
      /\ n \in Nat /\ n <= MFU_SIZE
  BY UsedType, TableParts, Sizes
<1>3. PICK t \in [Slots -> Nat], T \in Nat : Ordered(mfu, U, t, T)
  BY DEF WellChained, Chained
<1>4. ~(idx >= 0) => Miss(mfu, id)
  <2> SUFFICES ASSUME ~(idx >= 0)
               PROVE  Miss(mfu, id)
    OBVIOUS
  <2>1. Lookup(mfu, id) < 0
    <3> HIDE DEF idx
    <3>1. idx = -1 \/ idx \in Nat
      BY LookupType DEF idx
    <3>2. idx < 0
      BY <3>1
    <3> QED
      BY <3>2 DEF idx
  <2>2. \A i \in U : mfu.entries[i].instrument_id # id
    <3> HIDE DEF U
    <3> QED
      BY <1>2, <2>1, LookupMiss DEF WellChained, U
  <2> QED
    BY <2>2 DEF Miss
<1>5. CASE idx >= 0
  <2>1. idx \in Slots /\ mfu.entries[idx].instrument_id = id
    BY <1>5, LookupFinds
  <2>2. new = [mfu EXCEPT !.entries[idx].count = (@ + 1) % U16]
    BY <1>5 DEF Update
  <2>3. idx \in U
    <3>1. idx # -1
      BY <1>5
    <3> HIDE DEF U
    <3> QED
      BY <1>2, <3>1, LookupLinked DEF WellChained, U
  <2> HIDE DEF idx, new
  <2>4. /\ new.num_entries = n /\ new.hash = mfu.hash /\ new.chain = mfu.chain
        /\ new.entries = [mfu.entries EXCEPT ![idx].count = (@ + 1) % U16]
    BY <2>2 DEF Table
  <2>5. \A i \in Slots : new.entries[i].instrument_id = mfu.entries[i].instrument_id
    BY <2>1, <2>4, TableParts DEF Entry
  <2>6. new \in Table
    BY UpdateCases DEF new
  <2>7. WellChained(new)
    BY <1>2, <2>4, <2>5, <2>6, SameLinksChained
  <2>8. Hit(mfu, id, new)
    BY <2>1, <2>3, <2>4 DEF Hit
  <2> QED
    BY <2>7, <2>8 DEF new
<1>6. CASE ~(idx >= 0) /\ n < MFU_SIZE
  <2> DEFINE grown == [mfu EXCEPT !.num_entries = @ + 1]
  <2>1. n \in Slots /\ n \notin U /\ n + 1 \in 0 .. MFU_SIZE
    BY <1>2, <1>6, Sizes DEF Slots
  <2>2. /\ grown \in Table
        /\ grown.entries = mfu.entries /\ grown.num_entries = n + 1
        /\ grown.hash = mfu.hash /\ grown.chain = mfu.chain
    BY <2>1 DEF Table
  <2>3. new = Insert(grown, n, Fresh(id))
    BY <1>6 DEF Update, Fresh
  <2>4. Miss(mfu, id)
    BY <1>6, <1>4
  <2> HIDE DEF grown, new, idx
  <2>5. Ordered(grown, U, t, T)
    BY <1>3, <2>2, SameLinks
  <2>6. Chained(new, U \cup {n})
    <3> HIDE DEF U, n
    <3> QED
      BY <1>1, <1>2, <2>1, <2>2, <2>3, <2>5, InsertOrdered
  <2>7. /\ new.entries = [mfu.entries EXCEPT ![n] = Fresh(id)]
        /\ new.num_entries = n + 1
    BY <2>2, <2>3 DEF Insert, Table
  <2>8. UsedSlots(new) = U \cup {n}
    BY <1>2, <2>7 DEF UsedSlots
  <2>9. Distinct(new, U \cup {n})
    <3>1. \A i \in U : new.entries[i] = mfu.entries[i] /\ i # n
      BY <1>2, <2>1, <2>7, TableParts
    <3>2. new.entries[n].instrument_id = id
      BY <1>1, <2>1, <2>7, TableParts
    <3>3. Distinct(mfu, U)
      BY DEF WellChained
    <3> HIDE DEF U, n
    <3> QED
      BY <2>4, <3>1, <3>2, <3>3 DEF Distinct, Miss, U
  <2> QED
    BY <1>6, <2>4, <2>6, <2>7, <2>8, <2>9 DEF WellChained, Fill, new
<1>7. CASE ~(idx >= 0) /\ ~(n < MFU_SIZE)
  <2> DEFINE slot == MinSlot(mfu)
             base == Unlink(mfu, slot)
  <2>1. slot \in Slots /\ n = MFU_SIZE /\ U = Slots
    <3>1. n = MFU_SIZE
      BY <1>2, <1>7, Sizes
    <3> QED
      BY <3>1, MinSlotType DEF UsedSlots, Slots
  <2>2. new = Insert(base, slot, Fresh(id))
    BY <1>7 DEF Update, Fresh
  <2>3. /\ base \in Table
        /\ base.entries = mfu.entries
        /\ base.num_entries = n
    BY <2>1, UnlinkType
  <2>4. Miss(mfu, id)
    BY <1>7, <1>4
  <2> HIDE DEF U
  <2>5. Ordered(base, U \ {slot}, t, T)
    <3> HIDE DEF slot
    <3> QED
      BY <1>2, <1>3, <2>1, UnlinkOrdered
  <2> HIDE DEF slot, base, new, idx
  <2>6. Chained(new, (U \ {slot}) \cup {slot})
    <3>1. slot \notin U \ {slot} /\ U \ {slot} \in SUBSET Slots
      BY <1>2
    <3> QED
      BY <1>1, <2>1, <2>2, <2>3, <2>5, <3>1, InsertOrdered
  <2>7. (U \ {slot}) \cup {slot} = U
    BY <2>1
  <2>8. /\ new.entries = [mfu.entries EXCEPT ![slot] = Fresh(id)]
        /\ new.num_entries = n
    BY <2>2, <2>3 DEF Insert, Table
  <2>9. UsedSlots(new) = U
    BY <2>8 DEF UsedSlots, U
  <2>10. Distinct(new, U)
    <3>1. \A i \in U : i # slot => new.entries[i] = mfu.entries[i]
      BY <1>2, <2>8, TableParts
    <3>2. new.entries[slot].instrument_id = id
      BY <1>1, <2>1, <2>8, TableParts
    <3>3. Distinct(mfu, U)
      BY DEF WellChained, U
    <3> QED
      BY <2>4, <3>1, <3>2, <3>3 DEF Distinct, Miss, U
  <2> QED
    BY <2>1, <2>4, <2>6, <2>7, <2>8, <2>9, <2>10 DEF WellChained, Replace, new, slot
<1> QED
  BY <1>5, <1>6, <1>7

-----------------------------------------------------------------------------
\* A seed inserts its entries one after the other: the stamp of a slot is
\* its index.
LEMMA SeedChained ==
    ASSUME NEW n \in Nat, NEW seeds, \A i \in 1 .. n : seeds[i] \in Entry,
           \A i, j \in 1 .. n : seeds[i].instrument_id = seeds[j].instrument_id => i = j
    PROVE  WellChained(Seed(seeds, n))
<1> DEFINE to_add == IF n < MFU_SIZE THEN n ELSE MFU_SIZE
           new    == Seed(seeds, n)
           U      == 0 .. to_add - 1
           t      == [i \in Slots |-> i]
           key(i) == Hash(seeds[i + 1].instrument_id)
<1>1. to_add \in 0 .. MFU_SIZE /\ to_add \in Nat /\ to_add <= n
  BY Sizes
<1>2. /\ new.num_entries = to_add
      /\ \A i \in Slots : i < to_add => new.entries[i] = seeds[i + 1]
      /\ \A h \in Buckets : new.hash[h] = Latest(Before(seeds, h, to_add))
      /\ \A i \in Slots : i < to_add => new.chain[i] = Latest(Before(seeds, key(i), i))
  BY SeedFields
<1> HIDE DEF to_add, new
<1>3. /\ U \in SUBSET Slots
      /\ \A i \in U : i \in Nat /\ i < to_add /\ i + 1 \in 1 .. n /\ i \in 0 .. MFU_SIZE
  BY <1>1, Sizes DEF Slots
<1>4. t \in [Slots -> Nat] /\ \A i \in U : t[i] = i
  BY <1>3, Sizes
<1>5. \A i \in U : /\ new.entries[i] = seeds[i + 1]
                   /\ new.chain[i] = Latest(Before(seeds, key(i), i))
  BY <1>2, <1>3
<1>6. \A S \in SUBSET U : \A x :
          (\/ S = {} /\ x = NIL
           \/ x \in S /\ \A k \in S : k <= x) => Newest(x, S, t)
  <2> HIDE DEF U, t
  <2> SUFFICES ASSUME NEW S \in SUBSET U, NEW x \in S, \A k \in S : k <= x
               PROVE  \A k \in S : t[k] <= t[x]
    BY DEF Newest
  <2> QED
    BY <1>4
<1> HIDE DEF t
<1>7. \A h : Members(new, U, h) = Before(seeds, h, to_add)
  BY <1>5 DEF Members, Before
<1>8. ASSUME NEW i \in U
      PROVE  Older(new, U, t, i) = Before(seeds, key(i), i)
  <2>1. Older(new, U, t, i) = {j \in Before(seeds, key(i), to_add) : j < i}
    <3>1. Hash(new.entries[i].instrument_id) = key(i)
      BY <1>5
    <3>2. Before(seeds, key(i), to_add) \subseteq U
      BY DEF Before
    <3> QED
      BY <1>4, <1>7, <3>1, <3>2 DEF Older
  <2>2. i \in Nat /\ i < to_add
    BY <1>3
  <2>3. \A j : j \in 0 .. to_add - 1 /\ j < i <=> j \in 0 .. i - 1
    BY <1>1, <2>2
  <2> QED
    BY <2>1, <2>3 DEF Before
<1>9. ASSUME NEW h \in Buckets
      PROVE  Newest(new.hash[h], Members(new, U, h), t)
  <2> DEFINE S == Before(seeds, h, to_add)
  <2>1. S \subseteq 0 .. to_add - 1
    BY DEF Before
  <2>2. new.hash[h] = Latest(S) /\ Members(new, U, h) = S
    BY <1>2, <1>7
  <2> HIDE DEF S
  <2>3. \/ S = {} /\ Latest(S) = NIL
        \/ Latest(S) \in S /\ \A k \in S : k <= Latest(S)
    BY <1>1, <2>1, LatestIsLast
  <2> QED
    BY <1>6, <2>1, <2>2, <2>3
<1>10. ASSUME NEW i \in U
       PROVE  Newest(new.chain[i], Older(new, U, t, i), t)
  <2> DEFINE S == Before(seeds, key(i), i)
  <2>1. S \subseteq 0 .. i - 1
    BY DEF Before
  <2>2. new.chain[i] = Latest(S) /\ Older(new, U, t, i) = S
    BY <1>5, <1>8
  <2> HIDE DEF S
  <2>3. \/ S = {} /\ Latest(S) = NIL
        \/ Latest(S) \in S /\ \A k \in S : k <= Latest(S)
    BY <1>3, <2>1, LatestIsLast
  <2>4. S \subseteq U
    <3>1. i \in Nat /\ i < to_add
      BY <1>3
    <3>2. 0 .. i - 1 \subseteq 0 .. to_add - 1
      BY <1>1, <3>1
    <3> QED
      BY <2>1, <3>2
  <2> QED
    BY <1>6, <2>2, <2>3, <2>4
<1>11. Ordered(new, U, t, to_add)
  <2>1. \A i \in U : t[i] < to_add
    BY <1>3, <1>4
  <2>2. \A i, j \in U : t[i] = t[j] => i = j
    BY <1>4
  <2> HIDE DEF U
  <2> QED
    BY <1>9, <1>10, <2>1, <2>2 DEF Ordered
<1>12. Chained(new, U)
  BY <1>1, <1>4, <1>11 DEF Chained
<1>13. Distinct(new, U)
  <2> SUFFICES ASSUME NEW i \in U, NEW j \in U,
                      new.entries[i].instrument_id = new.entries[j].instrument_id
               PROVE  i = j
    BY DEF Distinct
  <2>1. i + 1 \in 1 .. n /\ j + 1 \in 1 .. n /\ i \in Nat /\ j \in Nat
    BY <1>3
  <2>2. seeds[i + 1].instrument_id = seeds[j + 1].instrument_id
    BY <1>5
  <2>3. i + 1 = j + 1
    BY <2>1, <2>2
  <2> QED
    BY <2>1, <2>3
<1>14. UsedSlots(new) = U
  BY <1>2 DEF UsedSlots
<1> QED
  BY <1>12, <1>13, <1>14 DEF WellChained, new

-----------------------------------------------------------------------------
(* The machine integers of module Words. *)

\* The widths of the machine integers, as far as the proofs need them.
LEMMA Widths ==
    /\ WORD48 \in Nat /\ WORD48 > 0
    /\ U32 \in Nat /\ 256 < U32 /\ U32 <= HALF
    /\ HALF \in Nat /\ HALF > 0
    /\ U64 = HALF + HALF /\ U64 \in Nat
    /\ 65536 <= U64
    /\ ADAPT_WINDOW \in Nat /\ ADAPT_WINDOW > 0
  BY WidthAssumption DEF HALF, U64

\* A sum or difference of two words is brought into range by one correction.
LEMMA SignedType ==
    ASSUME NEW x \in Int, -U64 - HALF <= x, x < U64 + HALF
    PROVE  Signed(x) \in Int64
  BY Widths DEF Signed, Int64

\* A cast to uint64_t yields one.
LEMMA UnsignedType ==
    ASSUME NEW x \in Int, -U64 <= x, x < U64 + U64
    PROVE  Unsigned(x) \in Word64
  BY Widths DEF Unsigned, Word64

\* A cast to int64_t keeps what is one already.
LEMMA SignedSmall ==
    ASSUME NEW x \in Int64
    PROVE  Signed(x) = x
  BY Widths DEF Signed, Int64

(***************************************************************************)
(* The two ways over a difference: the value is recovered exactly although *)
(* the difference was cut to 64 bits, and although a prediction was taken  *)
(* from it before it was sent.                                             *)
(***************************************************************************)
LEMMA DifferenceRecovered ==
    ASSUME NEW x \in Word64, NEW y \in Word64
    PROVE  /\ Signed(x - y) \in Int64
           /\ Unsigned(y + Signed(x - y)) = x
  BY Widths DEF Signed, Unsigned, Word64, Int64

\* A wrapped difference added back gives the number.
LEMMA SignedDifferenceRecovered ==
    ASSUME NEW x \in Int64, NEW y \in Int64
    PROVE  /\ Signed(x - y) \in Int64
           /\ Signed(Signed(x - y) + y) = x
           /\ Signed(y + Signed(x - y)) = x
  BY Widths DEF Signed, Int64

\* A uint64_t cast to int64_t and back is itself.
LEMMA CastRecovered ==
    ASSUME NEW x \in Word64
    PROVE  /\ Signed(x) \in Int64
           /\ Unsigned(Signed(x)) = x
  BY Widths DEF Signed, Unsigned, Word64, Int64

\* A zigzagged int64 is a uint64_t.
LEMMA ZigZagType ==
    ASSUME NEW v \in Int64
    PROVE  ZigZag(v) \in Word64
  BY Widths DEF ZigZag, Word64, Int64

\* A remainder is below its modulus.
LEMMA ModType ==
    ASSUME NEW x \in Int, NEW n \in Nat, n > 0
    PROVE  x % n \in 0 .. n - 1
  OBVIOUS

\* A number below the modulus is its own remainder.
LEMMA ModSmall ==
    ASSUME NEW n \in Nat, NEW x \in 0 .. n - 1
    PROVE  x % n = x
  OBVIOUS

\* A number is its quotient times the divisor, and its remainder.
LEMMA DivMod ==
    ASSUME NEW x \in Nat, NEW b \in Nat, b > 0
    PROVE  /\ x \div b \in Nat
           /\ x % b \in 0 .. b - 1
           /\ x = (x \div b) * b + (x % b)
<1>1. x \div b \in Nat
  OBVIOUS
<1>2. x % b \in 0 .. b - 1
  OBVIOUS
<1>3. x = (x \div b) * b + (x % b)
  OBVIOUS
<1> QED
  BY <1>1, <1>2, <1>3

\* A quotient grows with its dividend.
LEMMA DivGrows ==
    ASSUME NEW x \in Nat, NEW y \in Nat, x <= y, NEW b \in Nat, b > 0
    PROVE  x \div b <= y \div b
<1> DEFINE h == x \div b
           g == y \div b
<1>1. h \in Nat /\ g \in Nat /\ x % b \in Nat /\ y % b \in 0 .. b - 1
  BY DivMod
<1>2. x = h * b + (x % b) /\ y = g * b + (y % b)
  BY DivMod
<1> HIDE DEF h, g
<1>3. g + 1 <= h => (g + 1) * b <= h * b
  BY <1>1
<1>4. (g + 1) * b = g * b + b
  BY <1>1
<1>5. h * b \in Int /\ g * b \in Int
  BY <1>1
<1>6. ~(g + 1 <= h)
  BY <1>1, <1>2, <1>3, <1>4, <1>5
<1>7. h <= g
  BY <1>1, <1>6
<1> QED
  BY <1>7 DEF h, g

\* Two digits of base b recover a number if the second suffices for its quotient.
LEMMA HalvesAt ==
    ASSUME NEW b \in Nat, b > 0, NEW val \in Nat, NEW u \in Nat, (u - 1) \div b < b
    PROVE  /\ ((val \div b) % b) * b + (val % b) \in 0 .. val
           /\ val < u => ((val \div b) % b) * b + (val % b) = val
<1> DEFINE high == val \div b
           low  == val % b
           top  == high % b
<1>1. high \in Nat /\ low \in 0 .. b - 1 /\ val = high * b + low
  BY DivMod
<1>2. val < u => high < b
  <2> SUFFICES ASSUME val < u PROVE high < b
    OBVIOUS
  <2>1. u - 1 \in Nat /\ val <= u - 1
    OBVIOUS
  <2>2. (u - 1) \div b \in Nat
    BY <2>1, DivMod
  <2>3. high <= (u - 1) \div b
    BY <2>1, DivGrows
  <2> HIDE DEF high
  <2> QED
    BY <1>1, <2>2, <2>3
<1> HIDE DEF high, low
<1>3. top \in Nat /\ high = (high \div b) * b + top /\ high \div b \in Nat
  BY <1>1, DivMod
<1>4. val < u => top = high
  BY <1>1, <1>2
<1> HIDE DEF top
<1>5. (high \div b) * b \in Nat
  BY <1>3
<1>6. top <= high
  BY <1>1, <1>3, <1>5
<1>7. top * b <= high * b /\ top * b \in Nat /\ high * b \in Nat
  BY <1>1, <1>3, <1>6
<1>8. top * b + low \in 0 .. val
  BY <1>1, <1>7
<1>9. val < u => top * b + low = val
  BY <1>1, <1>4
<1> QED
  BY <1>8, <1>9 DEF top, high, low
\* A number shifted into Q16 is an int64.
LEMMA ShiftQ16Type ==
    ASSUME NEW x \in Int
    PROVE  ShiftQ16(x) \in Int64
<1>1. x % WORD48 \in 0 .. WORD48 - 1
  BY Widths, ModType
<1>2. (x % WORD48) * 65536 \in 0 .. U64 - 1
  BY <1>1, Widths DEF U64
<1> QED
  BY <1>2, Widths DEF ShiftQ16, Signed, Int64

\* The counter of a mean stays below the window, its sum within its word.
LEMMA AdaptiveUpdateType ==
    ASSUME NEW a \in Adapt, NEW v \in Word64
    PROVE  AdaptiveUpdate(a, v) \in Adapt
<1>1. Unsigned(a.sum + v) \in Word64
  BY Widths, UnsignedType DEF Adapt, Word64
<1> QED
  BY <1>1, Widths DEF AdaptiveUpdate, Adapt, Word64

\* The adaptive counters start out well typed.
LEMMA NoSamplesType == NoSamples \in Adapt
  BY Widths DEF NoSamples, Adapt, Word64

-----------------------------------------------------------------------------
(* The coders. *)

\* A cursor of the right type whose MFU ranks are inverse to each other.
Sound(c) == c \in Cursor /\ GoodRanks(c.st.mfu)

\* The gap predicted from the moving average is an int64.
LEMMA PredictedGapType ==
    ASSUME NEW c \in Cursor
    PROVE  PredictedGap(c.st) \in Int64
<1>1. c.st.timestamp_gap_ema \in Int64
  BY DEF Cursor, State
<1> QED
  BY <1>1, Widths DEF PredictedGap, Int64

\* Tracking a timestamp keeps every field of the state in its type.
LEMMA TrackTimestampType ==
    ASSUME NEW c \in Cursor, NEW ts \in Word64, NEW gap \in Int64, NEW residual \in Int64
    PROVE  TrackTimestamp(c, ts, gap, residual) \in Cursor
<1> DEFINE ema == c.st.timestamp_gap_ema
<1>1. ema \in Int64 /\ c.st.ts_adapt \in Adapt
  BY DEF Cursor, State
<1>2. Signed(ShiftQ16(gap) - ema) \in Int64
  <2>1. ShiftQ16(gap) \in Int64
    BY ShiftQ16Type, Widths DEF Int64
  <2> QED BY <1>1, <2>1, SignedDifferenceRecovered
<1>3. Signed(ema + Signed(ShiftQ16(gap) - ema) \div 4) \in Int64
  <2> DEFINE d == Signed(ShiftQ16(gap) - ema)
  <2> HIDE DEF d, ema
  <2>1. d \div 4 \in Int /\ -HALF <= d \div 4 /\ d \div 4 < HALF
    BY <1>2, Widths DEF d, ema, Int64
  <2>2. ema + d \div 4 \in Int /\ -U64 - HALF <= ema + d \div 4 /\ ema + d \div 4 < U64 + HALF
    BY <1>1, <2>1, Widths DEF Int64
  <2> QED BY <2>2, SignedType DEF d, ema
<1>4. AdaptiveUpdate(c.st.ts_adapt, ZigZag(residual)) \in Adapt
  BY <1>1, ZigZagType, AdaptiveUpdateType
<1>5. Unsigned(gap) \in Word64
  BY UnsignedType, Widths DEF Int64
<1> HIDE DEF ema
<1> QED
  BY <1>3, <1>4, <1>5 DEF TrackTimestamp, Cursor, State, ema

\* Tracking a timestamp does not touch the MFU table.
LEMMA TrackTimestampSound ==
    ASSUME NEW c, Sound(c), NEW ts \in Word64, NEW gap \in Int64, NEW residual \in Int64
    PROVE  Sound(TrackTimestamp(c, ts, gap, residual))
<1>1. TrackTimestamp(c, ts, gap, residual) \in Cursor
  BY TrackTimestampType DEF Sound
<1>2. TrackTimestamp(c, ts, gap, residual).st.mfu = c.st.mfu
  BY DEF TrackTimestamp, Sound, Cursor, State
<1> QED
  BY <1>1, <1>2 DEF Sound

\* Touching an instrument, with the decay that may follow, keeps the ranks of
\* the MFU table inverse to each other.
LEMMA TouchInstrumentSound ==
    ASSUME NEW c, Sound(c), NEW id \in Instrument
    PROVE  Sound(TouchInstrument(c, id))
<1> DEFINE new   == Update(c.st.mfu, id)
           decay == c.st.mfu_decay_counter + 1 >= DECAY_PERIOD
           kept  == IF decay THEN Decay(new) ELSE new
           count == IF decay THEN 0 ELSE c.st.mfu_decay_counter + 1
<1>1. c.st.mfu \in Table /\ GoodRanks(c.st.mfu) /\ c.st.mfu_decay_counter \in 0 .. DECAY_PERIOD - 1
  BY DEF Sound, Cursor, State
<1>2. new \in Table /\ GoodRanks(new)
  BY <1>1, UpdateCases, UpdateGood
<1>3. kept \in Table /\ GoodRanks(kept)
  BY <1>2, DecayGood
<1>4. count \in 0 .. DECAY_PERIOD - 1
  BY <1>1, Sizes
<1> DEFINE is == IF id < MAX_INSTRUMENTS THEN id ELSE NULL
           st == [c.st EXCEPT !.mfu = kept, !.mfu_decay_counter = count,
                              !.last_instrument_id = id]
<1>5. is \in 0 .. MAX_INSTRUMENTS - 1 \cup {NULL}
  BY CodecAssumption, Sizes DEF Instrument, NULL
<1>6. TouchInstrument(c, id) = [st |-> st, is |-> is]
  BY DEF TouchInstrument
<1> HIDE DEF kept, count, is
<1>7. c.st \in State
  BY DEF Sound, Cursor
<1>8. st \in State /\ st.mfu = kept
  BY <1>3, <1>4, <1>7 DEF State
<1> HIDE DEF st
<1> QED
  BY <1>3, <1>5, <1>6, <1>8 DEF Sound, Cursor

\* Replacing the record of the instrument in hand keeps the cursor sound.
LEMMA InstrumentUpdated ==
    ASSUME NEW c, Sound(c), c.is # NULL, NEW r \in InstrumentState
    PROVE  Sound([c EXCEPT !.st.instruments[c.is] = r])
<1> DEFINE all == [c.st.instruments EXCEPT ![c.is] = r]
           st  == [c.st EXCEPT !.instruments = all]
<1>1. c.st \in State
  BY DEF Sound, Cursor
<1>2. all \in [0 .. MAX_INSTRUMENTS - 1 -> InstrumentState]
  BY <1>1 DEF State
<1> HIDE DEF all
<1>3. st \in State /\ st.mfu = c.st.mfu
  BY <1>1, <1>2 DEF State
<1>4. [c EXCEPT !.st.instruments[c.is] = r] = [c EXCEPT !.st = st]
  BY DEF all
<1> HIDE DEF st
<1> QED
  BY <1>3, <1>4 DEF Sound, Cursor

\* An instrument in hand is an index of the array of instruments.
LEMMA InstrumentParts ==
    ASSUME NEW c, Sound(c), c.is # NULL
    PROVE  /\ c.is \in 0 .. MAX_INSTRUMENTS - 1
           /\ c.st.instruments[c.is] \in InstrumentState
  BY DEF Sound, Cursor, State

\* Tracking a price residual keeps the cursor sound, whichever way the regime
\* goes.
LEMMA TrackPriceSound ==
    ASSUME NEW c, Sound(c), NEW price \in Word32, NEW residual \in Int, NEW coded \in Int64
    PROVE  Sound(TrackPrice(c, price, residual, coded))
<1> DEFINE abs     == IF residual < 0 THEN -residual ELSE residual
           sum     == (c.st.recent_abs_price_sum + abs) % U32
           full    == c.st.regime_counter + 1 >= REGIME_WINDOW
           adapt   == AdaptiveUpdate(c.st.price_adapt, ZigZag(coded))
           recent  == IF full THEN 0 ELSE sum
           counter == IF full THEN 0 ELSE c.st.regime_counter + 1
           regime  == IF ~full THEN c.st.regime
                      ELSE IF sum \div REGIME_WINDOW > 30 THEN "volatile" ELSE "calm"
           tracked == [c EXCEPT !.st.price_adapt = adapt,
                                !.st.recent_abs_price_sum = recent,
                                !.st.regime_counter = counter,
                                !.st.regime = regime]
<1>1. c \in Cursor
  BY DEF Sound
<1>2. adapt \in Adapt
  BY <1>1, ZigZagType, AdaptiveUpdateType DEF Cursor, State
<1>3. recent \in Word32
  BY <1>1, Widths, ModType DEF Cursor, State, Word32
<1>4. counter \in 0 .. REGIME_WINDOW - 1
  BY <1>1, CodecAssumption DEF Cursor, State
<1>5. regime \in {"calm", "volatile"}
  BY <1>1 DEF Cursor, State
<1>6. TrackPrice(c, price, residual, coded) =
        IF c.is = NULL THEN tracked
        ELSE [tracked EXCEPT !.st.instruments[c.is].last_price = price]
  BY <1>1 DEF TrackPrice, Cursor, State
<1> HIDE DEF adapt, recent, counter, regime
<1>7. /\ tracked \in Cursor
      /\ tracked.st.mfu = c.st.mfu
      /\ tracked.is = c.is
  BY <1>1, <1>2, <1>3, <1>4, <1>5 DEF Cursor, State
<1> HIDE DEF tracked
<1>8. Sound(tracked)
  BY <1>1, <1>7 DEF Sound
<1>9. CASE c.is = NULL
  BY <1>6, <1>8, <1>9
<1>10. CASE c.is # NULL
  <2> DEFINE r == [tracked.st.instruments[tracked.is] EXCEPT !.last_price = price]
  <2>1. r \in InstrumentState
    BY <1>7, <1>8, <1>10, InstrumentParts DEF InstrumentState
  <2>2. Sound([tracked EXCEPT !.st.instruments[tracked.is] = r])
    BY <1>7, <1>8, <1>10, <2>1, InstrumentUpdated
  <2> QED
    BY <1>6, <1>7, <1>10, <2>2
<1> QED
  BY <1>9, <1>10

\* Tracking a quantity residual keeps the cursor sound and the instrument in
\* hand.
LEMMA TrackQuantitySound ==
    ASSUME NEW c, Sound(c), NEW coded \in Int64
    PROVE  Sound(TrackQuantity(c, coded)) /\ TrackQuantity(c, coded).is = c.is
<1> DEFINE adapt == AdaptiveUpdate(c.st.qty_adapt, ZigZag(coded))
<1>1. adapt \in Adapt
  BY ZigZagType, AdaptiveUpdateType DEF Sound, Cursor, State
<1>2. TrackQuantity(c, coded) = [c EXCEPT !.st = [c.st EXCEPT !.qty_adapt = adapt]]
  BY DEF TrackQuantity
<1> HIDE DEF adapt
<1> QED
  BY <1>1, <1>2 DEF Sound, Cursor, State

\* Remembering a quantity keeps the cursor sound.
LEMMA KeepQuantitySound ==
    ASSUME NEW c, Sound(c), NEW qty \in Word32
    PROVE  Sound(KeepQuantity(c, qty))
<1>1. CASE c.is = NULL
  BY <1>1 DEF KeepQuantity
<1>2. CASE c.is # NULL
  <2> DEFINE r == [c.st.instruments[c.is] EXCEPT !.last_qty = qty]
  <2>1. r \in InstrumentState
    BY <1>2, InstrumentParts DEF InstrumentState
  <2>2. Sound([c EXCEPT !.st.instruments[c.is] = r])
    BY <1>2, <2>1, InstrumentUpdated
  <2> QED
    BY <1>2, <2>2 DEF KeepQuantity
<1> QED
  BY <1>1, <1>2

\* Replacing the record of one field keeps the cursor sound and leaves the
\* instruments alone.
LEMMA FieldStateUpdated ==
    ASSUME NEW c, Sound(c), NEW fi \in 1 .. MAX_FIELDS, NEW r \in FieldState
    PROVE  /\ Sound([c EXCEPT !.st.field_state[fi] = r])
           /\ [c EXCEPT !.st.field_state[fi] = r].is = c.is
           /\ [c EXCEPT !.st.field_state[fi] = r].st.instruments = c.st.instruments
<1> DEFINE all == [c.st.field_state EXCEPT ![fi] = r]
           st  == [c.st EXCEPT !.field_state = all]
<1>1. c.st \in State
  BY DEF Sound, Cursor
<1>2. all \in [1 .. MAX_FIELDS -> FieldState]
  BY <1>1 DEF State
<1> HIDE DEF all
<1>3. st \in State /\ st.mfu = c.st.mfu /\ st.instruments = c.st.instruments
  BY <1>1, <1>2 DEF State
<1>4. [c EXCEPT !.st.field_state[fi] = r] = [c EXCEPT !.st = st]
  BY DEF all
<1> HIDE DEF st
<1> QED
  BY <1>3, <1>4 DEF Sound, Cursor

\* Each field has a record.
LEMMA FieldStateParts ==
    ASSUME NEW c, Sound(c), NEW fi \in 1 .. MAX_FIELDS
    PROVE  c.st.field_state[fi] \in FieldState
  BY DEF Sound, Cursor, State

\* Tracking a sequential id keeps the cursor sound.
LEMMA TrackIdSound ==
    ASSUME NEW c, Sound(c), NEW fi \in 1 .. MAX_FIELDS, NEW id \in Word64, NEW delta \in Int64
    PROVE  Sound(TrackId(c, fi, id, delta))
<1> DEFINE f == [last_value |-> id,
                 adapt |-> AdaptiveUpdate(c.st.field_state[fi].adapt, ZigZag(delta))]
           tracked == [c EXCEPT !.st.field_state[fi] = f]
<1>1. f \in FieldState
  BY FieldStateParts, ZigZagType, AdaptiveUpdateType DEF FieldState
<1>2. Sound(tracked) /\ tracked.is = c.is
  BY <1>1, FieldStateUpdated
<1>3. TrackId(c, fi, id, delta) =
        IF c.is = NULL THEN tracked
        ELSE [tracked EXCEPT !.st.instruments[c.is].last_seq_id = id]
  BY DEF TrackId
<1> HIDE DEF tracked
<1>4. CASE c.is = NULL
  BY <1>2, <1>3, <1>4
<1>5. CASE c.is # NULL
  <2> DEFINE r == [tracked.st.instruments[tracked.is] EXCEPT !.last_seq_id = id]
  <2>1. r \in InstrumentState
    BY <1>2, <1>5, InstrumentParts DEF InstrumentState
  <2>2. Sound([tracked EXCEPT !.st.instruments[tracked.is] = r])
    BY <1>2, <1>5, <2>1, InstrumentUpdated
  <2> QED
    BY <1>2, <1>3, <1>5, <2>2
<1> QED
  BY <1>4, <1>5

\* Remembering a field's value keeps the cursor sound.
LEMMA KeepValueSound ==
    ASSUME NEW c, Sound(c), NEW fi \in 1 .. MAX_FIELDS, NEW val \in Word64
    PROVE  Sound(KeepValue(c, fi, val))
<1> DEFINE r == [c.st.field_state[fi] EXCEPT !.last_value = val]
<1>1. r \in FieldState
  BY FieldStateParts DEF FieldState
<1>2. Sound([c EXCEPT !.st.field_state[fi] = r])
  BY <1>1, FieldStateUpdated
<1> QED
  BY <1>2 DEF KeepValue

\* The state at the end of a message is one a next message can start from.
LEMMA FinishSound ==
    ASSUME NEW c, Sound(c)
    PROVE  Sound(Start(Finish(c)))
<1> DEFINE st == [c.st EXCEPT !.msg_count = (@ + 1) % U64]
<1>1. c.st \in State /\ c.is \in (0 .. MAX_INSTRUMENTS - 1) \cup {NULL}
  BY DEF Sound, Cursor
<1>2. (c.st.msg_count + 1) % U64 \in Word64
  BY <1>1, Widths, ModType DEF State, Word64
<1>3. st \in State /\ st.mfu = c.st.mfu
  BY <1>1, <1>2 DEF State
<1>4. Finish(c) = IF c.is = NULL THEN st
                  ELSE [st EXCEPT !.instruments[c.is].msg_count = (@ + 1) % U32]
  BY DEF Finish
<1> HIDE DEF st
<1>5. Finish(c) \in State /\ Finish(c).mfu = c.st.mfu
  <2>1. CASE c.is = NULL
    BY <1>3, <1>4, <2>1
  <2>2. CASE c.is # NULL
    <3> DEFINE r   == [st.instruments[c.is] EXCEPT !.msg_count = (@ + 1) % U32]
               all == [st.instruments EXCEPT ![c.is] = r]
    <3>1. st.instruments[c.is] \in InstrumentState
      BY <1>1, <1>3, <2>2 DEF State
    <3>2. (st.instruments[c.is].msg_count + 1) % U32 \in Word32
      BY <3>1, Widths, ModType DEF InstrumentState, Word32
    <3>3. r \in InstrumentState
      BY <3>1, <3>2 DEF InstrumentState
    <3> HIDE DEF r
    <3>4. all \in [0 .. MAX_INSTRUMENTS - 1 -> InstrumentState]
      BY <1>3, <3>3 DEF State
    <3>5. Finish(c) = [st EXCEPT !.instruments = all]
      BY <1>4, <2>2 DEF r
    <3> HIDE DEF all
    <3> QED
      BY <1>3, <3>4, <3>5 DEF State
  <2> QED
    BY <2>1, <2>2
<1> QED
  BY <1>5 DEF Start, Sound, Cursor

\* The state that residc_init sets up is sound, with either residual coder.
LEMMA InitSound ==
    ASSUME NEW coder \in {"tiered", "expgolomb"}
    PROVE  Sound(Start(SetCoder(InitState, coder))) /\ Sound(Start(InitState))
<1>1. InitState \in State /\ InitState.mfu = MfuInit
  <2>1. 0 \in Word64 /\ 0 \in Word32 /\ 0 \in Int64 /\ 0 \in Instrument
    BY Widths, Sizes DEF Word64, Word32, Int64, Instrument
  <2>2. 0 \in 0 .. DECAY_PERIOD - 1 /\ 0 \in 0 .. REGIME_WINDOW - 1
    BY Sizes, CodecAssumption
  <2>3. [fi \in 1 .. MAX_FIELDS |-> [last_value |-> 0, adapt |-> NoSamples]] \in [1 .. MAX_FIELDS -> FieldState]
    BY <2>1, NoSamplesType DEF FieldState
  <2>4. [i \in 0 .. MAX_INSTRUMENTS - 1 |->
            [last_price |-> 0, last_qty |-> 0, msg_count |-> 0, last_seq_id |-> 0]]
          \in [0 .. MAX_INSTRUMENTS - 1 -> InstrumentState]
    BY <2>1 DEF InstrumentState
  <2> QED
    BY <2>1, <2>2, <2>3, <2>4, NoSamplesType, MfuInitType DEF InitState, State
<1>2. SetCoder(InitState, coder) \in State /\ SetCoder(InitState, coder).mfu = MfuInit
  BY <1>1 DEF SetCoder, State
<1> QED
  BY <1>1, <1>2, MfuInitGood DEF Start, Sound, Cursor
-----------------------------------------------------------------------------
Named(w) ==
    \/ w[1].v = 0
    \/ w[2].v = 0 /\ w[3].v \in Nat
    \/ w[3].v \in Instrument

Category(w) == w[2].v * 65536 + w[3].v

Readable(schema, fi, w) ==
    LET type == schema[fi].type
    IN  CASE type \in {"TIMESTAMP", "SEQUENTIAL_ID", "DELTA_ID", "DELTA_PRICE"} ->
                 w[1].v \in Int64
          [] type = "INSTRUMENT" ->
                 Named(w)
          [] type = "PRICE"       -> w[2].v \in Int64
          [] type = "QUANTITY"    -> w[1].v = 0 \/ w[3].v \in Int64
          [] type = "ENUM"        -> w[1].v = 0 \/ w[2].v \in Word64
          [] type = "CATEGORICAL" -> w[1].v = 0 \/ Category(w) \in Word64
          [] type \in {"BOOL", "RAW"} -> w[1].v \in Word64
          [] OTHER -> TRUE

\* The parts of a sound state that the predictions read.
LEMMA StateParts ==
    ASSUME NEW c, Sound(c)
    PROVE  /\ c.st.last_timestamp \in Word64
           /\ c.st.timestamp_gap_ema \in Int64
           /\ c.st.last_instrument_id \in Instrument
           /\ c.st.mfu \in Table /\ GoodRanks(c.st.mfu)
           /\ c.st.residual_coder \in {"tiered", "expgolomb"}
           /\ c \in Cursor
  BY DEF Sound, Cursor, State

\* Every prediction is a value of its machine type.
LEMMA Predictions ==
    ASSUME NEW c, Sound(c), NEW fi \in 1 .. MAX_FIELDS
    PROVE  /\ PredictedGap(c.st) \in Int64
           /\ PredictedPrice(c) \in Word32
           /\ PredictedQuantity(c) \in Word32
           /\ PredictedId(c, fi) \in Word64
<1>1. PredictedGap(c.st) \in Int64
  BY PredictedGapType DEF Sound
<1>2. 0 \in Word32 /\ 100 \in Word32
  BY Widths DEF Word32
<1>3. PredictedPrice(c) \in Word32 /\ PredictedQuantity(c) \in Word32
  BY <1>2, InstrumentParts DEF PredictedPrice, PredictedQuantity, Seen, InstrumentState
<1>4. PredictedId(c, fi) \in Word64
  BY InstrumentParts, FieldStateParts DEF PredictedId, InstrumentState, FieldState
<1> QED
  BY <1>1, <1>3, <1>4

\* A timestamp comes back as it was, and leaves decoder and committing
\* encoder where it leaves the encoder.
LEMMA TimestampCoded ==
    ASSUME NEW c, Sound(c), NEW ts \in Word64
    PROVE  LET e == EncodeTimestamp(c, ts) IN
           /\ Sound(e.next)
           /\ e.word[1].v \in Int64
           /\ DecodeTimestamp(c, e.word) = [val |-> ts, next |-> e.next]
           /\ CommitTimestamp(c, ts) = e.next
<1> DEFINE last     == c.st.last_timestamp
           gap      == Signed(ts - last)
           residual == Signed(gap - PredictedGap(c.st))
           word     == << Coded(c, TimestampK(c.st), residual) >>
           next     == TrackTimestamp(c, ts, gap, residual)
<1>1. last \in Word64 /\ PredictedGap(c.st) \in Int64
  BY StateParts, PredictedGapType
<1>2. gap \in Int64 /\ Unsigned(last + gap) = ts
  BY <1>1, DifferenceRecovered
<1>3. residual \in Int64 /\ Signed(residual + PredictedGap(c.st)) = gap
  BY <1>1, <1>2, SignedDifferenceRecovered
<1>4. EncodeTimestamp(c, ts) = [word |-> word, next |-> next]
  BY DEF EncodeTimestamp
<1>5. word[1].v = residual
  BY DEF Coded, Residual
<1>6. Sound(next)
  BY <1>2, <1>3, TrackTimestampSound
<1>7. CommitTimestamp(c, ts) = next
  BY DEF CommitTimestamp
<1>8. DecodeTimestamp(c, word) = [val |-> ts, next |-> next]
  BY <1>2, <1>3, <1>5 DEF DecodeTimestamp
<1> HIDE DEF word, next
<1> QED
  BY <1>3, <1>4, <1>5, <1>6, <1>7, <1>8

\* Whatever residual is read, decoding a timestamp stays within its types.
LEMMA TimestampDecoded ==
    ASSUME NEW c, Sound(c), NEW w, w[1].v \in Int64
    PROVE  Sound(DecodeTimestamp(c, w).next) /\ DecodeTimestamp(c, w).val \in Word64
<1> DEFINE gap == Signed(w[1].v + PredictedGap(c.st))
           ts  == Unsigned(c.st.last_timestamp + gap)
<1>1. c.st.last_timestamp \in Word64 /\ PredictedGap(c.st) \in Int64
  BY StateParts, PredictedGapType
<1>2. gap \in Int64
  BY <1>1, SignedType, Widths DEF Int64
<1>3. ts \in Word64
  BY <1>1, <1>2, UnsignedType, Widths DEF Int64, Word64
<1>4. DecodeTimestamp(c, w) = [val |-> ts, next |-> TrackTimestamp(c, ts, gap, w[1].v)]
  BY DEF DecodeTimestamp
<1> HIDE DEF gap, ts
<1> QED
  BY <1>2, <1>3, <1>4, TrackTimestampSound

\* An instrument id that fits its raw field comes back as it was: from the
\* flag for the last one, from its rank in the MFU table, or raw.
LEMMA InstrumentCoded ==
    ASSUME NEW c, Sound(c), NEW val \in Word64
    PROVE  LET e == EncodeInstrument(c, val) IN
           /\ Sound(e.next)
           /\ Named(e.word)
           /\ val < RAW_IDS => DecodeInstrument(c, e.word) = [val |-> val, next |-> e.next]
           /\ CommitInstrument(c, val) = e.next
<1> DEFINE id   == val % U16
           idx  == Lookup(c.st.mfu, id)
           rank == c.st.mfu.idx_to_rank[idx]
           word == IF id = c.st.last_instrument_id /\ c.st.msg_count > 0
                   THEN << Same >>
                   ELSE IF idx >= 0
                   THEN << Different, Same, RankToken(rank) >>
                   ELSE << Different, Different, Bits(14, id % RAW_IDS) >>
           next == TouchInstrument(c, id)
<1>1. EncodeInstrument(c, val) = [word |-> word, next |-> next]
  BY DEF EncodeInstrument
<1>2. id \in Instrument
  BY Sizes, ModType DEF Instrument, Word64
<1>3. Sound(next)
  BY <1>2, TouchInstrumentSound
<1>4. CommitInstrument(c, val) = next
  BY DEF CommitInstrument
<1>5. val < RAW_IDS => id = val /\ id % RAW_IDS = val
  BY CodecAssumption, Sizes, ModSmall DEF Word64
<1>6. id % RAW_IDS \in Instrument
  BY <1>2, CodecAssumption, Sizes, ModType DEF Instrument
<1>7. c.st.mfu \in Table /\ GoodRanks(c.st.mfu)
  BY StateParts, Zenon
<1>8. idx >= 0 => /\ rank \in Nat
                  /\ c.st.mfu.entries[c.st.mfu.rank_to_idx[TokenRank(RankToken(rank))]].instrument_id = id
  <2> SUFFICES ASSUME idx >= 0
      PROVE  /\ rank \in Nat
             /\ c.st.mfu.entries[c.st.mfu.rank_to_idx[TokenRank(RankToken(rank))]].instrument_id = id
    BY Zenon
  <2>1. idx \in Slots /\ c.st.mfu.entries[idx].instrument_id = id
    BY LookupFinds, Sizes
  <2>2. rank \in Slots
    BY <1>7, <2>1, TableParts
  <2>3. c.st.mfu.rank_to_idx[rank] = idx
    BY <1>7, <2>1 DEF GoodRanks
  <2>4. TokenRank(RankToken(rank)) = rank
    BY <2>2, Sizes DEF Slots, TokenRank, RankToken, Bits
  <2> QED
    BY <2>1, <2>2, <2>3, <2>4, Sizes, Zenon
<1> HIDE DEF idx, rank, id
<1>9. Named(word)
  BY <1>6, <1>8 DEF Named, Same, Different, Bits, RankToken
<1>10. val < RAW_IDS => DecodeInstrument(c, word) = [val |-> val, next |-> next]
  <2> SUFFICES ASSUME val < RAW_IDS PROVE DecodeInstrument(c, word) = [val |-> val, next |-> next]
    OBVIOUS
  <2>1. id = val
    BY <1>5, Zenon
  <2>2. CASE id = c.st.last_instrument_id /\ c.st.msg_count > 0
    BY <2>1, <2>2, Zenon DEF DecodeInstrument, Same, Bits
  <2>3. CASE ~(id = c.st.last_instrument_id /\ c.st.msg_count > 0) /\ idx >= 0
    <3>1. word = << Different, Same, RankToken(rank) >>
      BY <2>3
    <3>2. word[1].v # 0 /\ word[2].v = 0 /\ word[3] = RankToken(rank)
      BY <3>1 DEF Same, Different, Bits
    <3> HIDE DEF word
    <3> QED
      BY <1>8, <2>1, <2>3, <3>2 DEF DecodeInstrument
  <2>4. CASE ~(id = c.st.last_instrument_id /\ c.st.msg_count > 0) /\ ~(idx >= 0)
    <3>1. word = << Different, Different, Bits(14, id % RAW_IDS) >>
      BY <2>4
    <3>2. word[1].v # 0 /\ word[2].v # 0 /\ word[3].v = id % RAW_IDS
      BY <3>1 DEF Different, Bits
    <3> HIDE DEF word
    <3> QED
      BY <1>5, <2>1, <3>2 DEF DecodeInstrument
  <2> QED
    BY <2>2, <2>3, <2>4
<1> HIDE DEF word, next
<1> QED
  BY <1>1, <1>3, <1>4, <1>9, <1>10

\* Whatever rank or raw id is read, decoding an instrument stays within its
\* types.
LEMMA InstrumentDecoded ==
    ASSUME NEW c, Sound(c), NEW w, Named(w)
    PROVE  Sound(DecodeInstrument(c, w).next) /\ DecodeInstrument(c, w).val \in Instrument
<1> DEFINE id == DecodeInstrument(c, w).val
<1>1. DecodeInstrument(c, w).next = TouchInstrument(c, id)
  BY DEF DecodeInstrument
<1>2. id \in Instrument
  <2>1. CASE w[1].v = 0
    BY <2>1, StateParts DEF DecodeInstrument
  <2>2. CASE w[1].v # 0 /\ w[2].v = 0
    <3>1. TokenRank(w[3]) \in Slots
      BY <2>2, Sizes DEF TokenRank, Slots, Instrument, Named
    <3>2. c.st.mfu.rank_to_idx[TokenRank(w[3])] \in Slots
      BY <3>1, StateParts, TableParts
    <3> QED
      BY <2>2, <3>2, StateParts, EntryParts DEF DecodeInstrument
  <2>3. CASE w[1].v # 0 /\ w[2].v # 0
    BY <2>3 DEF DecodeInstrument, Named
  <2> QED
    BY <2>1, <2>2, <2>3
<1> QED
  BY <1>1, <1>2, TouchInstrumentSound

\* The difference of two 32-bit words, and its hundredth, fit an int64, and
\* the difference added back modulo 2^32 gives the word.
LEMMA Word32Difference ==
    ASSUME NEW a \in Word32, NEW b \in Word32
    PROVE  /\ a - b \in Int64
           /\ (a - b) \div 100 \in Int64
           /\ (b + (a - b)) % U32 = a
           /\ a \in Word64 /\ a \in Nat /\ b \in Nat
<1>1. a - b \in Int64 /\ a \in Word64 /\ a \in Nat /\ b \in Nat
  BY Widths DEF Word32, Int64, Word64
<1>2. (a - b) \div 100 \in Int64
  BY <1>1, Widths DEF Int64
<1>3. b + (a - b) = a
  BY <1>1
<1>4. a % U32 = a
  BY Widths, ModSmall DEF Word32
<1> QED
  BY <1>1, <1>2, <1>3, <1>4

\* Multiples of 100 come back from the difference divided by 100.
LEMMA HundredsRecovered ==
    ASSUME NEW a \in Word32, NEW b \in Word32, a % 100 = 0, b % 100 = 0
    PROVE  (((b \div 100 + (a - b) \div 100) % U32) * 100) % U32 = a
<1>1. a \in Nat /\ b \in Nat /\ a < U32
  BY Widths DEF Word32
<1>2. a = 100 * (a \div 100) /\ b = 100 * (b \div 100)
  BY <1>1
<1>3. (a - b) \div 100 = a \div 100 - b \div 100
  BY <1>1, <1>2
<1>4. b \div 100 + (a - b) \div 100 = a \div 100
  BY <1>1, <1>3
<1>5. a \div 100 \in 0 .. U32 - 1
  BY <1>1, Widths
<1>6. (a \div 100) % U32 = a \div 100
  BY <1>5, Widths, ModSmall
<1>7. (a \div 100) * 100 = a
  BY <1>1, <1>2
<1>8. a % U32 = a
  BY Widths, ModSmall DEF Word32
<1> QED
  BY <1>4, <1>6, <1>7, <1>8

\* A 32-bit price comes back as it was, both as a plain residual and as one
\* divided by 100.
LEMMA PriceCoded ==
    ASSUME NEW c, Sound(c), NEW val \in Word64
    PROVE  LET e == EncodePrice(c, val) IN
           /\ Sound(e.next)
           /\ e.word[2].v \in Int64
           /\ val < U32 => DecodePrice(c, e.word) = [val |-> val, next |-> e.next]
           /\ CommitPrice(c, val) = e.next
<1> DEFINE price     == val % U32
           predicted == PredictedPrice(c)
           residual  == price - predicted
           pennies   == Pennies(price, predicted)
           coded     == IF pennies THEN residual \div 100 ELSE residual
           flag      == IF pennies THEN Same ELSE Different
           word      == << flag, Coded(c, PriceK(c.st), coded) >>
           next      == TrackPrice(c, price, residual, coded)
<1>1. EncodePrice(c, val) = [word |-> word, next |-> next]
  BY DEF EncodePrice
<1>2. CommitPrice(c, val) = next
  BY DEF CommitPrice
<1>3. price \in Word32 /\ predicted \in Word32
  BY Widths, ModType, Predictions, InstrumentParts DEF Word32, Word64, PredictedPrice, Seen, InstrumentState
<1>4. val < U32 => price = val
  BY Widths, ModSmall DEF Word64
<1> HIDE DEF price, predicted
<1>5. residual \in Int64 /\ coded \in Int64
  BY <1>3, Word32Difference
<1>6. Sound(next)
  <2>1. residual \in Int
    BY <1>5 DEF Int64
  <2> QED
    BY <1>3, <1>5, <2>1, TrackPriceSound
<1>7. word[2].v = coded /\ (word[1].v = 0 <=> pennies)
  BY DEF Coded, Residual, Same, Different, Bits
<1> HIDE DEF word
<1>8. val < U32 => DecodePrice(c, word) = [val |-> val, next |-> next]
  <2> SUFFICES ASSUME val < U32
      PROVE  DecodePrice(c, word) = [val |-> val, next |-> next]
    OBVIOUS
  <2> DEFINE p == IF word[1].v = 0
                  THEN (((predicted \div 100 + coded) % U32) * 100) % U32
                  ELSE (predicted + coded) % U32
  <2>1. p = price
    <3>1. CASE pennies
      <4>1. price % 100 = 0 /\ predicted % 100 = 0
        BY <3>1 DEF Pennies
      <4> QED
        BY <1>3, <1>7, <3>1, <4>1, HundredsRecovered
    <3>2. CASE ~pennies
      BY <1>3, <1>7, <3>2, Word32Difference
    <3> QED
      BY <3>1, <3>2
  <2>2. DecodePrice(c, word) = [val |-> p, next |-> TrackPrice(c, p, p - predicted, coded)]
    BY <1>7 DEF DecodePrice, predicted
  <2> QED
    BY <1>4, <2>1, <2>2
<1> HIDE DEF next
<1> QED
  BY <1>1, <1>2, <1>5, <1>6, <1>7, <1>8

\* Whatever residual is read, decoding a price stays within its types.
LEMMA PriceDecoded ==
    ASSUME NEW c, Sound(c), NEW w, w[2].v \in Int64
    PROVE  Sound(DecodePrice(c, w).next) /\ DecodePrice(c, w).val \in Word32
<1> DEFINE predicted == PredictedPrice(c)
           price == IF w[1].v = 0
                    THEN (((predicted \div 100 + w[2].v) % U32) * 100) % U32
                    ELSE (predicted + w[2].v) % U32
<1>1. predicted \in Word32
  BY Widths, InstrumentParts DEF Word32, PredictedPrice, Seen, InstrumentState
<1> HIDE DEF predicted
<1>2. predicted \in Int /\ predicted \div 100 \in Int /\ w[2].v \in Int
  BY <1>1, Widths DEF Word32, Int64
<1>3. price \in Word32
  <2>1. (predicted + w[2].v) % U32 \in Word32
    BY <1>2, Widths, ModType DEF Word32
  <2>2. (predicted \div 100 + w[2].v) % U32 \in Word32
    BY <1>2, Widths, ModType DEF Word32
  <2>3. (((predicted \div 100 + w[2].v) % U32) * 100) % U32 \in Word32
    BY <2>2, Widths, ModType DEF Word32
  <2> QED
    BY <2>1, <2>3
<1>4. DecodePrice(c, w) = [val |-> price, next |-> TrackPrice(c, price, price - predicted, w[2].v)]
  BY DEF DecodePrice, predicted
<1> HIDE DEF price
<1>5. price - predicted \in Int
  BY <1>1, <1>3 DEF Word32
<1> QED
  BY <1>3, <1>4, <1>5, TrackPriceSound

\* A 32-bit quantity comes back as it was: unchanged, as a residual, or as a
\* residual divided by 100.
LEMMA QuantityCoded ==
    ASSUME NEW c, Sound(c), NEW val \in Word64
    PROVE  LET e == EncodeQuantity(c, val) IN
           /\ Sound(e.next)
           /\ e.word[1].v = 0 \/ e.word[3].v \in Int64
           /\ val < U32 => DecodeQuantity(c, e.word) = [val |-> val, next |-> e.next]
           /\ CommitQuantity(c, val) = e.next
<1> DEFINE qty       == val % U32
           predicted == PredictedQuantity(c)
           residual  == qty - predicted
           lots      == RoundLots(qty, predicted)
           coded     == IF lots THEN residual \div 100 ELSE residual
           word      == << Different, IF lots THEN Same ELSE Different,
                           Coded(c, QuantityK(c.st), coded) >>
           next      == KeepQuantity(TrackQuantity(c, coded), qty)
<1>1. qty \in Word32 /\ predicted \in Word32
  BY Widths, ModType, InstrumentParts DEF Word32, Word64, PredictedQuantity, Seen, InstrumentState
<1>2. val < U32 => qty = val
  BY Widths, ModSmall DEF Word64
<1>3. EncodeQuantity(c, val) =
        IF residual = 0 THEN [word |-> << Same >>, next |-> KeepQuantity(c, qty)]
        ELSE [word |-> word, next |-> next]
  BY DEF EncodeQuantity
<1>4. CommitQuantity(c, val) = KeepQuantity(IF residual # 0 THEN TrackQuantity(c, coded) ELSE c, qty)
  BY DEF CommitQuantity
<1>5. \A w : DecodeQuantity(c, w) =
        IF w[1].v = 0 THEN [val |-> predicted, next |-> KeepQuantity(c, predicted)]
        ELSE LET q == IF w[2].v = 0
                      THEN (((predicted \div 100 + w[3].v) % U32) * 100) % U32
                      ELSE (predicted + w[3].v) % U32
             IN  [val |-> q, next |-> KeepQuantity(TrackQuantity(c, w[3].v), q)]
  BY DEF DecodeQuantity
<1> HIDE DEF qty, predicted
<1>6. CASE residual = 0
  <2>1. qty = predicted
    BY <1>1, <1>6 DEF Word32
  <2>2. << Same >>[1].v = 0
    BY DEF Same, Bits
  <2>3. Sound(KeepQuantity(c, qty))
    BY <1>1, KeepQuantitySound
  <2> QED
    BY <1>2, <1>3, <1>4, <1>5, <1>6, <2>1, <2>2, <2>3
<1>7. CASE residual # 0
  <2>1. residual \in Int64 /\ coded \in Int64
    BY <1>1, Word32Difference
  <2>2. Sound(next)
    BY <1>1, <2>1, TrackQuantitySound, KeepQuantitySound
  <2>3. word[1].v # 0 /\ (word[2].v = 0 <=> lots) /\ word[3].v = coded
    BY DEF Coded, Residual, Same, Different, Bits
  <2> HIDE DEF word
  <2> DEFINE q == IF word[2].v = 0
                  THEN (((predicted \div 100 + coded) % U32) * 100) % U32
                  ELSE (predicted + coded) % U32
  <2>4. q = qty
    <3>1. CASE lots
      <4>1. qty % 100 = 0 /\ predicted % 100 = 0
        BY <3>1 DEF RoundLots
      <4> QED
        BY <1>1, <2>3, <3>1, <4>1, HundredsRecovered
    <3>2. CASE ~lots
      BY <1>1, <2>3, <3>2, Word32Difference
    <3> QED
      BY <3>1, <3>2
  <2>5. DecodeQuantity(c, word) = [val |-> q, next |-> KeepQuantity(TrackQuantity(c, coded), q)]
    BY <1>5, <2>3
  <2>6. val < U32 => DecodeQuantity(c, word) = [val |-> val, next |-> next]
    BY <1>2, <2>4, <2>5
  <2>7. EncodeQuantity(c, val) = [word |-> word, next |-> next]
    BY <1>3, <1>7
  <2>8. CommitQuantity(c, val) = next
    BY <1>4, <1>7
  <2> HIDE DEF next
  <2> QED
    BY <2>1, <2>2, <2>3, <2>6, <2>7, <2>8
<1> QED
  BY <1>6, <1>7

\* Whatever residual is read, decoding a quantity stays within its types.
LEMMA QuantityDecoded ==
    ASSUME NEW c, Sound(c), NEW w, w[1].v = 0 \/ w[3].v \in Int64
    PROVE  Sound(DecodeQuantity(c, w).next) /\ DecodeQuantity(c, w).val \in Word32
<1> DEFINE predicted == PredictedQuantity(c)
           qty == IF w[2].v = 0
                  THEN (((predicted \div 100 + w[3].v) % U32) * 100) % U32
                  ELSE (predicted + w[3].v) % U32
<1>1. predicted \in Word32
  BY Widths, InstrumentParts DEF Word32, PredictedQuantity, Seen, InstrumentState
<1>2. DecodeQuantity(c, w) =
        IF w[1].v = 0 THEN [val |-> predicted, next |-> KeepQuantity(c, predicted)]
        ELSE [val |-> qty, next |-> KeepQuantity(TrackQuantity(c, w[3].v), qty)]
  BY DEF DecodeQuantity
<1> HIDE DEF predicted
<1>3. CASE w[1].v = 0
  BY <1>1, <1>2, <1>3, KeepQuantitySound
<1>4. CASE w[1].v # 0
  <2>1. predicted \in Int /\ predicted \div 100 \in Int /\ w[3].v \in Int64 /\ w[3].v \in Int
    BY <1>1, <1>4, Widths DEF Word32, Int64
  <2>2. (predicted + w[3].v) % U32 \in Word32
    BY <2>1, Widths, ModType DEF Word32
  <2>3. (predicted \div 100 + w[3].v) % U32 \in Word32
    BY <2>1, Widths, ModType DEF Word32
  <2>4. (((predicted \div 100 + w[3].v) % U32) * 100) % U32 \in Word32
    BY <2>3, Widths, ModType DEF Word32
  <2>5. qty \in Word32
    BY <2>2, <2>4
  <2> HIDE DEF qty
  <2> QED
    BY <1>2, <1>4, <2>1, <2>5, TrackQuantitySound, KeepQuantitySound
<1> QED
  BY <1>3, <1>4

\* A sequential id comes back as it was, whatever its distance from the last
\* one modulo 2^64.
LEMMA SequentialIdCoded ==
    ASSUME NEW c, Sound(c), NEW fi \in 1 .. MAX_FIELDS, NEW id \in Word64
    PROVE  LET e == EncodeSequentialId(c, fi, id) IN
           /\ Sound(e.next)
           /\ e.word[1].v \in Int64
           /\ DecodeSequentialId(c, fi, e.word) = [val |-> id, next |-> e.next]
           /\ CommitSequentialId(c, fi, id) = e.next
<1> DEFINE delta == Signed(id - PredictedId(c, fi))
           word  == << Coded(c, SeqidK(c.st, fi), delta) >>
           next  == TrackId(c, fi, id, delta)
<1>1. PredictedId(c, fi) \in Word64
  BY Predictions
<1>2. delta \in Int64 /\ Unsigned(PredictedId(c, fi) + delta) = id
  BY <1>1, DifferenceRecovered
<1>3. EncodeSequentialId(c, fi, id) = [word |-> word, next |-> next]
  BY DEF EncodeSequentialId
<1>4. CommitSequentialId(c, fi, id) = next
  BY DEF CommitSequentialId
<1>5. word[1].v = delta
  BY DEF Coded, Residual
<1>6. DecodeSequentialId(c, fi, word) = [val |-> id, next |-> next]
  BY <1>2, <1>5 DEF DecodeSequentialId
<1>7. Sound(next)
  BY <1>2, TrackIdSound
<1> HIDE DEF word, next
<1> QED
  BY <1>2, <1>3, <1>4, <1>5, <1>6, <1>7

\* Whatever delta is read, decoding a sequential id stays within its types.
LEMMA SequentialIdDecoded ==
    ASSUME NEW c, Sound(c), NEW fi \in 1 .. MAX_FIELDS, NEW w, w[1].v \in Int64
    PROVE  /\ Sound(DecodeSequentialId(c, fi, w).next)
           /\ DecodeSequentialId(c, fi, w).val \in Word64
<1> DEFINE id == Unsigned(PredictedId(c, fi) + w[1].v)
<1>1. PredictedId(c, fi) \in Word64
  BY Predictions
<1>2. id \in Word64
  BY <1>1, UnsignedType, Widths DEF Word64, Int64
<1>3. DecodeSequentialId(c, fi, w) = [val |-> id, next |-> TrackId(c, fi, id, w[1].v)]
  BY DEF DecodeSequentialId
<1> HIDE DEF id
<1> QED
  BY <1>2, <1>3, TrackIdSound

\* An enum value comes back as it was, repeated or raw.
LEMMA EnumCoded ==
    ASSUME NEW c, Sound(c), NEW schema, NEW fi \in 1 .. MAX_FIELDS, NEW val \in Word64
    PROVE  LET e == EncodeEnum(c, schema, fi, val) IN
           /\ e.next = KeepValue(c, fi, val)
           /\ e.word[1].v = 0 \/ e.word[2].v \in Word64
           /\ DecodeEnum(c, fi, e.word) = [val |-> val, next |-> e.next]
<1> DEFINE same == << Same >>
           word == << Different, Bits(8 * schema[fi].size, val) >>
<1>1. same[1].v = 0 /\ word[1].v # 0 /\ word[2].v = val
  BY DEF Same, Different, Bits
<1>2. EncodeEnum(c, schema, fi, val) = [word |-> IF Repeated(c, fi, val) THEN same ELSE word,
                                next |-> KeepValue(c, fi, val)]
  BY DEF EncodeEnum
<1> HIDE DEF same, word
<1>3. Repeated(c, fi, val) => DecodeEnum(c, fi, same) = [val |-> val, next |-> KeepValue(c, fi, val)]
  BY <1>1 DEF DecodeEnum, Repeated
<1>4. DecodeEnum(c, fi, word) = [val |-> val, next |-> KeepValue(c, fi, val)]
  BY <1>1 DEF DecodeEnum
<1> QED
  BY <1>1, <1>2, <1>3, <1>4

\* Whatever raw value is read, decoding an enum stays within its types.
LEMMA EnumDecoded ==
    ASSUME NEW c, Sound(c), NEW fi \in 1 .. MAX_FIELDS, NEW w, w[1].v = 0 \/ w[2].v \in Word64
    PROVE  Sound(DecodeEnum(c, fi, w).next) /\ DecodeEnum(c, fi, w).val \in Word64
<1>1. DecodeEnum(c, fi, w).val \in Word64
  BY FieldStateParts DEF DecodeEnum, FieldState
<1>2. DecodeEnum(c, fi, w).next = KeepValue(c, fi, DecodeEnum(c, fi, w).val)
  BY DEF DecodeEnum
<1> QED
  BY <1>1, <1>2, KeepValueSound

\* A value is recovered from its two 16-bit halves if it has no more than 32
\* bits.
LEMMA Halves ==
    ASSUME NEW val \in Word64
    PROVE  /\ ((val \div 65536) % 65536) * 65536 + (val % 65536) \in Word64
           /\ val < U32 => ((val \div 65536) % 65536) * 65536 + (val % 65536) = val
<1> DEFINE both(b) == ((val \div b) % b) * b + (val % b)
<1>1. val \in Nat /\ val < U64 /\ U64 \in Nat
  BY Widths DEF Word64
<1>2. U32 \in Nat /\ (U32 - 1) \div 65536 < 65536
  BY WidthAssumption
<1>3. PICK b \in Nat : b = 65536
  OBVIOUS
<1>4. b > 0 /\ (U32 - 1) \div b < b
  BY <1>2, <1>3
<1>5. both(b) \in 0 .. val /\ (val < U32 => both(b) = val)
  BY <1>1, <1>2, <1>4, HalvesAt
<1> HIDE DEF both
<1>6. both(b) \in Word64
  BY <1>1, <1>5 DEF Word64
<1>7. both(65536) = both(b)
  BY <1>3
<1> QED
  BY <1>5, <1>6, <1>7 DEF both

\* A categorical value of at most 32 bits comes back as it was, repeated, or
\* whole or in halves.
LEMMA CategoricalCoded ==
    ASSUME NEW c, Sound(c), NEW fi \in 1 .. MAX_FIELDS, NEW val \in Word64
    PROVE  LET e == EncodeCategorical(c, fi, val) IN
           /\ e.next = KeepValue(c, fi, val)
           /\ e.word[1].v = 0 \/ Category(e.word) \in Word64
           /\ val < U32 => DecodeCategorical(c, fi, e.word) = [val |-> val, next |-> e.next]
<1> DEFINE same == << Same >>
           word == << Different, Bits(16, (val \div 65536) % 65536), Bits(16, val % 65536) >>
           both == ((val \div 65536) % 65536) * 65536 + (val % 65536)
<1>1. same[1].v = 0 /\ word[1].v # 0 /\ Category(word) = both
  BY DEF Same, Different, Bits, Category
<1>2. EncodeCategorical(c, fi, val) = [word |-> IF Repeated(c, fi, val) THEN same ELSE word,
                                       next |-> KeepValue(c, fi, val)]
  BY DEF EncodeCategorical
<1>3. both \in Word64 /\ (val < U32 => both = val)
  BY Halves
<1> HIDE DEF same, word, both
<1>4. Repeated(c, fi, val) =>
        DecodeCategorical(c, fi, same) = [val |-> val, next |-> KeepValue(c, fi, val)]
  BY <1>1 DEF DecodeCategorical, Repeated
<1>5. DecodeCategorical(c, fi, word) = [val |-> both, next |-> KeepValue(c, fi, both)]
  BY <1>1 DEF DecodeCategorical, Category
<1> QED
  BY <1>1, <1>2, <1>3, <1>4, <1>5

\* Whatever parts are read, decoding a categorical value stays within its
\* types.
LEMMA CategoricalDecoded ==
    ASSUME NEW c, Sound(c), NEW fi \in 1 .. MAX_FIELDS, NEW w,
           w[1].v = 0 \/ Category(w) \in Word64
    PROVE  Sound(DecodeCategorical(c, fi, w).next) /\ DecodeCategorical(c, fi, w).val \in Word64
<1>1. DecodeCategorical(c, fi, w).val \in Word64
  BY FieldStateParts DEF DecodeCategorical, FieldState, Category
<1>2. DecodeCategorical(c, fi, w).next = KeepValue(c, fi, DecodeCategorical(c, fi, w).val)
  BY DEF DecodeCategorical
<1> QED
  BY <1>1, <1>2, KeepValueSound

\* What the schema says of a field, and that its reference is a field or
\* none.
LEMMA SchemaParts ==
    ASSUME NEW schema, IsSchema(schema),
           NEW fi \in Fields(schema)
    PROVE  /\ schema[fi] \in [type : FieldTypes, size : {1, 2, 4, 8}, ref : Nat]
           /\ schema[fi].type \in FieldTypes
           /\ schema[fi].ref \in 0 .. Len(schema)
           /\ schema[fi].ref > 0 => schema[fi].ref \in Fields(schema)
           /\ fi \in 1 .. MAX_FIELDS
<1> DEFINE S == [type : FieldTypes, size : {1, 2, 4, 8}, ref : Nat]
<1>1. schema[fi] \in S
  <2>1. schema \in Seq(S)
    BY DEF IsSchema, Fields
  <2> HIDE DEF S
  <2> QED
    BY <2>1 DEF Fields
<1>2. schema[fi].ref \in 0 .. Len(schema) /\ Len(schema) \in Nat /\ Len(schema) <= MAX_FIELDS
  BY DEF IsSchema, Fields
<1> QED
  BY <1>1, <1>2, CodecAssumption DEF Fields

\* The values that delta fields are coded against are 64-bit words.
LEMMA References ==
    ASSUME NEW schema, IsSchema(schema),
           NEW c, Sound(c), NEW fi \in Fields(schema), NEW m \in Message(schema)
    PROVE  /\ IdReference(c, schema, fi, m) \in Word64
           /\ PriceReference(c, schema, fi, m) \in Word64
<1>1. schema[fi].ref > 0 => m[schema[fi].ref] \in Word64
  BY SchemaParts DEF Message
<1>2. IdReference(c, schema, fi, m) \in Word64
  BY <1>1, FieldStateParts, SchemaParts DEF IdReference, FieldState
<1>3. 0 \in Word64 /\ \A x \in Word32 : x \in Word64
  BY Widths DEF Word32, Word64
<1>4. PriceReference(c, schema, fi, m) \in Word64
  BY <1>1, <1>3, InstrumentParts DEF PriceReference, InstrumentState
<1> QED
  BY <1>2, <1>4

\* A delta id comes back as it was to a reader with the same reference.
LEMMA DeltaIdCoded ==
    ASSUME NEW schema, IsSchema(schema),
           NEW c, Sound(c), NEW fi \in Fields(schema), NEW m \in Message(schema)
    PROVE  LET e == EncodeDeltaId(c, schema, fi, m) IN
           /\ e.next = KeepValue(c, fi, m[fi])
           /\ e.word[1].v \in Int64
           /\ \A d : IdReference(c, schema, fi, d) = IdReference(c, schema, fi, m) =>
                  DecodeDeltaId(c, schema, fi, d, e.word) = [val |-> m[fi], next |-> e.next]
<1> DEFINE ref   == IdReference(c, schema, fi, m)
           delta == Signed(m[fi] - ref)
           word  == << Coded(c, DeltaIdK(c.st), delta) >>
<1>1. ref \in Word64 /\ m[fi] \in Word64
  BY References DEF Message
<1>2. delta \in Int64 /\ Unsigned(ref + delta) = m[fi]
  BY <1>1, DifferenceRecovered
<1>3. EncodeDeltaId(c, schema, fi, m) = [word |-> word, next |-> KeepValue(c, fi, m[fi])]
  BY DEF EncodeDeltaId
<1>4. word[1].v = delta
  BY DEF Coded, Residual
<1> HIDE DEF word, delta
<1>5. \A d : IdReference(c, schema, fi, d) = IdReference(c, schema, fi, m) =>
          DecodeDeltaId(c, schema, fi, d, word) = [val |-> m[fi], next |-> KeepValue(c, fi, m[fi])]
  BY <1>2, <1>4 DEF DecodeDeltaId
<1> QED
  BY <1>2, <1>3, <1>4, <1>5

\* Whatever delta is read, decoding a delta id stays within its types.
LEMMA DeltaIdDecoded ==
    ASSUME NEW schema, IsSchema(schema),
           NEW c, Sound(c), NEW fi \in Fields(schema), NEW m \in Message(schema), NEW w, w[1].v \in Int64
    PROVE  Sound(DecodeDeltaId(c, schema, fi, m, w).next) /\ DecodeDeltaId(c, schema, fi, m, w).val \in Word64
<1> DEFINE val == Unsigned(IdReference(c, schema, fi, m) + w[1].v)
<1>1. IdReference(c, schema, fi, m) \in Word64
  BY References
<1>2. val \in Word64
  BY <1>1, UnsignedType, Widths DEF Word64, Int64
<1>3. DecodeDeltaId(c, schema, fi, m, w) = [val |-> val, next |-> KeepValue(c, fi, val)]
  BY DEF DecodeDeltaId
<1> HIDE DEF val
<1> QED
  BY <1>2, <1>3, KeepValueSound, SchemaParts

\* A delta price comes back as it was to a reader with the same reference.
LEMMA DeltaPriceCoded ==
    ASSUME NEW schema, IsSchema(schema),
           NEW c, Sound(c), NEW fi \in Fields(schema), NEW m \in Message(schema)
    PROVE  LET e == EncodeDeltaPrice(c, schema, fi, m) IN
           /\ e.next = c
           /\ e.word[1].v \in Int64
           /\ \A d : PriceReference(c, schema, fi, d) = PriceReference(c, schema, fi, m) =>
                  DecodeDeltaPrice(c, schema, fi, d, e.word) = [val |-> m[fi], next |-> c]
<1> DEFINE ref   == PriceReference(c, schema, fi, m)
           delta == Signed(Signed(m[fi]) - Signed(ref))
           word  == << Coded(c, PriceK(c.st), delta) >>
<1>1. ref \in Word64 /\ m[fi] \in Word64
  BY References DEF Message
<1>2. Signed(ref) \in Int64 /\ Signed(m[fi]) \in Int64 /\ Unsigned(Signed(m[fi])) = m[fi]
  BY <1>1, CastRecovered
<1>3. delta \in Int64 /\ Signed(Signed(ref) + delta) = Signed(m[fi])
  BY <1>2, SignedDifferenceRecovered
<1>4. EncodeDeltaPrice(c, schema, fi, m) = [word |-> word, next |-> c]
  BY DEF EncodeDeltaPrice
<1>5. word[1].v = delta
  BY DEF Coded, Residual
<1> HIDE DEF word, delta
<1>6. \A d : PriceReference(c, schema, fi, d) = PriceReference(c, schema, fi, m) =>
          DecodeDeltaPrice(c, schema, fi, d, word) = [val |-> m[fi], next |-> c]
  BY <1>2, <1>3, <1>5 DEF DecodeDeltaPrice
<1> QED
  BY <1>3, <1>4, <1>5, <1>6

\* Whatever delta is read, decoding a delta price stays within its types.
LEMMA DeltaPriceDecoded ==
    ASSUME NEW schema, IsSchema(schema),
           NEW c, Sound(c), NEW fi \in Fields(schema), NEW m \in Message(schema), NEW w, w[1].v \in Int64
    PROVE  /\ DecodeDeltaPrice(c, schema, fi, m, w).next = c
           /\ DecodeDeltaPrice(c, schema, fi, m, w).val \in Word64
<1> DEFINE price == Signed(Signed(PriceReference(c, schema, fi, m)) + w[1].v)
<1>1. Signed(PriceReference(c, schema, fi, m)) \in Int64
  BY References, CastRecovered
<1>2. price \in Int64
  BY <1>1, SignedType, Widths DEF Int64
<1>3. Unsigned(price) \in Word64
  BY <1>2, UnsignedType, Widths DEF Int64
<1> QED
  BY <1>3 DEF DecodeDeltaPrice
-----------------------------------------------------------------------------
\* A field of a message is a 64-bit word.
LEMMA MessageParts ==
    ASSUME NEW schema, IsSchema(schema),
           NEW m \in Message(schema), NEW fi \in Fields(schema)
    PROVE  m[fi] \in Word64
  BY DEF Message

\* Encoding a field keeps the cursor sound and writes what a reader of that
\* field's type can read.
LEMMA EncodeSound ==
    ASSUME NEW schema, IsSchema(schema),
           NEW c, Sound(c), NEW fi \in Fields(schema), NEW m \in Message(schema)
    PROVE  /\ Sound(EncodeField(c, schema, fi, m).next)
           /\ Readable(schema, fi, EncodeField(c, schema, fi, m).word)
<1> DEFINE e == EncodeField(c, schema, fi, m)
<1>0. m[fi] \in Word64 /\ fi \in 1 .. MAX_FIELDS
  BY MessageParts, SchemaParts
<1>1. CASE schema[fi].type = "TIMESTAMP"
  <2>1. e = EncodeTimestamp(c, m[fi])
    BY <1>1 DEF EncodeField
  <2> HIDE DEF e
  <2>2. Sound(e.next)
    BY <1>0, <2>1, TimestampCoded
  <2>3. e.word[1].v \in Int64
    BY <1>0, <2>1, TimestampCoded
  <2> QED
    BY <1>1, <2>2, <2>3 DEF Readable, e
<1>2. CASE schema[fi].type = "INSTRUMENT"
  <2>1. e = EncodeInstrument(c, m[fi])
    BY <1>2 DEF EncodeField
  <2> HIDE DEF e
  <2>2. Sound(e.next)
    BY <1>0, <2>1, InstrumentCoded
  <2>3. Named(e.word)
    BY <1>0, <2>1, InstrumentCoded
  <2> QED
    BY <1>2, <2>2, <2>3 DEF Readable, e
<1>3. CASE schema[fi].type = "PRICE"
  <2>1. e = EncodePrice(c, m[fi])
    BY <1>3 DEF EncodeField
  <2> HIDE DEF e
  <2>2. Sound(e.next)
    BY <1>0, <2>1, PriceCoded
  <2>3. e.word[2].v \in Int64
    BY <1>0, <2>1, PriceCoded
  <2> QED
    BY <1>3, <2>2, <2>3 DEF Readable, e
<1>4. CASE schema[fi].type = "QUANTITY"
  <2>1. e = EncodeQuantity(c, m[fi])
    BY <1>4 DEF EncodeField
  <2> HIDE DEF e
  <2>2. Sound(e.next)
    BY <1>0, <2>1, QuantityCoded
  <2>3. (e.word[1].v = 0 \/ e.word[3].v \in Int64)
    BY <1>0, <2>1, QuantityCoded
  <2> QED
    BY <1>4, <2>2, <2>3 DEF Readable, e
<1>5. CASE schema[fi].type = "SEQUENTIAL_ID"
  <2>1. e = EncodeSequentialId(c, fi, m[fi])
    BY <1>5 DEF EncodeField
  <2> HIDE DEF e
  <2>2. Sound(e.next)
    BY <1>0, <2>1, SequentialIdCoded
  <2>3. e.word[1].v \in Int64
    BY <1>0, <2>1, SequentialIdCoded
  <2> QED
    BY <1>5, <2>2, <2>3 DEF Readable, e
<1>6. CASE schema[fi].type = "ENUM"
  <2>1. e = EncodeEnum(c, schema, fi, m[fi])
    BY <1>6 DEF EncodeField
  <2> HIDE DEF e
  <2>4. e.next = KeepValue(c, fi, m[fi])
    BY <1>0, <2>1, EnumCoded
  <2>2. Sound(e.next)
    BY <1>0, <2>4, KeepValueSound
  <2>3. (e.word[1].v = 0 \/ e.word[2].v \in Word64)
    BY <1>0, <2>1, EnumCoded
  <2> QED
    BY <1>6, <2>2, <2>3 DEF Readable, e
<1>7. CASE schema[fi].type = "BOOL"
  <2>1. e = EncodeBool(c, m[fi])
    BY <1>7 DEF EncodeField
  <2>2. e.next = c /\ e.word[1].v = m[fi] % 2
    BY <2>1 DEF EncodeBool, Bits
  <2>3. m[fi] % 2 \in Word64
    BY <1>0, Widths DEF Word64
  <2> QED
    BY <1>7, <2>2, <2>3 DEF Readable
<1>8. CASE schema[fi].type = "CATEGORICAL"
  <2>1. e = EncodeCategorical(c, fi, m[fi])
    BY <1>8 DEF EncodeField
  <2> HIDE DEF e
  <2>4. e.next = KeepValue(c, fi, m[fi])
    BY <1>0, <2>1, CategoricalCoded
  <2>2. Sound(e.next)
    BY <1>0, <2>4, KeepValueSound
  <2>3. (e.word[1].v = 0 \/ Category(e.word) \in Word64)
    BY <1>0, <2>1, CategoricalCoded
  <2> QED
    BY <1>8, <2>2, <2>3 DEF Readable, e
<1>9. CASE schema[fi].type = "RAW"
  <2>1. e = EncodeRaw(c, schema, fi, m[fi])
    BY <1>9 DEF EncodeField
  <2>2. e.next = c /\ e.word[1].v = m[fi]
    BY <2>1 DEF EncodeRaw, Bits
  <2> QED
    BY <1>9, <1>0, <2>2 DEF Readable
<1>10. CASE schema[fi].type = "DELTA_ID"
  <2>1. e = EncodeDeltaId(c, schema, fi, m)
    BY <1>10 DEF EncodeField
  <2> HIDE DEF e
  <2>4. e.next = KeepValue(c, fi, m[fi])
    BY <1>0, <2>1, DeltaIdCoded
  <2>2. Sound(e.next)
    BY <1>0, <2>4, KeepValueSound
  <2>3. e.word[1].v \in Int64
    BY <1>0, <2>1, DeltaIdCoded
  <2> QED
    BY <1>10, <2>2, <2>3 DEF Readable, e
<1>11. CASE schema[fi].type = "DELTA_PRICE"
  <2>1. e = EncodeDeltaPrice(c, schema, fi, m)
    BY <1>11 DEF EncodeField
  <2> HIDE DEF e
  <2>2. Sound(e.next)
    BY <1>0, <2>1, DeltaPriceCoded
  <2>3. e.word[1].v \in Int64
    BY <1>0, <2>1, DeltaPriceCoded
  <2> QED
    BY <1>11, <2>2, <2>3 DEF Readable, e
<1>12. CASE schema[fi].type = "COMPUTED"
  <2>1. e = [word |-> << >>, next |-> c]
    BY <1>12 DEF EncodeField
  <2> QED
    BY <1>12, <2>1 DEF Readable
<1>13. schema[fi].type \in FieldTypes
  BY SchemaParts
<1> QED
  BY <1>1, <1>2, <1>3, <1>4, <1>5, <1>6, <1>7, <1>8, <1>9, <1>10, <1>11, <1>12, <1>13 DEF FieldTypes

\* Decoding a field keeps the cursor sound whatever a reader of its type
\* finds in the stream, even a frame that some other state wrote.
LEMMA DecodeSound ==
    ASSUME NEW schema, IsSchema(schema),
           NEW c, Sound(c), NEW fi \in Fields(schema), NEW m \in Message(schema), NEW w, Readable(schema, fi, w)
    PROVE  /\ Sound(DecodeField(c, schema, fi, m, w).next)
           /\ DecodeField(c, schema, fi, m, w).val \in Word64
<1>0. /\ \A x : x \in Word32 \/ x \in Instrument => x \in Word64
      /\ m[fi] \in Word64 /\ fi \in 1 .. MAX_FIELDS
  BY Widths, Sizes, CodecAssumption, MessageParts, SchemaParts DEF Word32, Word64, Instrument
<1>1. CASE schema[fi].type = "TIMESTAMP"
  BY <1>1, TimestampDecoded DEF DecodeField, Readable
<1>2. CASE schema[fi].type = "INSTRUMENT"
  BY <1>2, <1>0, InstrumentDecoded DEF DecodeField, Readable
<1>3. CASE schema[fi].type = "PRICE"
  BY <1>3, <1>0, PriceDecoded DEF DecodeField, Readable
<1>4. CASE schema[fi].type = "QUANTITY"
  BY <1>4, <1>0, QuantityDecoded DEF DecodeField, Readable
<1>5. CASE schema[fi].type = "SEQUENTIAL_ID"
  BY <1>0, <1>5, SequentialIdDecoded DEF DecodeField, Readable
<1>6. CASE schema[fi].type = "ENUM"
  BY <1>0, <1>6, EnumDecoded DEF DecodeField, Readable
<1>7. CASE schema[fi].type = "BOOL"
  BY <1>7 DEF DecodeField, Readable, DecodeBool
<1>8. CASE schema[fi].type = "CATEGORICAL"
  BY <1>0, <1>8, CategoricalDecoded DEF DecodeField, Readable
<1>9. CASE schema[fi].type = "RAW"
  BY <1>9 DEF DecodeField, Readable, DecodeRaw
<1>10. CASE schema[fi].type = "DELTA_ID"
  BY <1>10, DeltaIdDecoded DEF DecodeField, Readable
<1>11. CASE schema[fi].type = "DELTA_PRICE"
  BY <1>11, DeltaPriceDecoded DEF DecodeField, Readable
<1>12. CASE schema[fi].type = "COMPUTED"
  BY <1>12, <1>0 DEF DecodeField, Readable
<1>13. schema[fi].type \in FieldTypes
  BY SchemaParts
<1> QED
  BY <1>1, <1>2, <1>3, <1>4, <1>5, <1>6, <1>7, <1>8, <1>9, <1>10, <1>11, <1>12, <1>13 DEF FieldTypes

\* Committing a field, as both sides do when a message went out uncompressed,
\* leaves the state where encoding it does.
LEMMA CommitFollowsEncode ==
    ASSUME NEW schema, IsSchema(schema),
           NEW c, Sound(c), NEW fi \in Fields(schema), NEW m \in Message(schema)
    PROVE  CommitField(c, schema, fi, Wire(schema, m)) = EncodeField(c, schema, fi, m).next
<1>0. /\ Wire(schema, m)[fi] = IF schema[fi].type = "COMPUTED" THEN 0 ELSE m[fi]
      /\ m[fi] \in Word64 /\ fi \in 1 .. MAX_FIELDS
  BY MessageParts, SchemaParts DEF Wire
<1>1. CASE schema[fi].type = "TIMESTAMP"
  <2>1. EncodeField(c, schema, fi, m) = EncodeTimestamp(c, m[fi])
    BY <1>1 DEF EncodeField
  <2>2. CommitField(c, schema, fi, Wire(schema, m)) = CommitTimestamp(c, m[fi])
    BY <1>0, <1>1 DEF CommitField
  <2> QED
    BY <1>0, <2>1, <2>2, TimestampCoded
<1>2. CASE schema[fi].type = "INSTRUMENT"
  <2>1. EncodeField(c, schema, fi, m) = EncodeInstrument(c, m[fi])
    BY <1>2 DEF EncodeField
  <2>2. CommitField(c, schema, fi, Wire(schema, m)) = CommitInstrument(c, m[fi])
    BY <1>0, <1>2 DEF CommitField
  <2> QED
    BY <1>0, <2>1, <2>2, InstrumentCoded
<1>3. CASE schema[fi].type = "PRICE"
  <2>1. EncodeField(c, schema, fi, m) = EncodePrice(c, m[fi])
    BY <1>3 DEF EncodeField
  <2>2. CommitField(c, schema, fi, Wire(schema, m)) = CommitPrice(c, m[fi])
    BY <1>0, <1>3 DEF CommitField
  <2> QED
    BY <1>0, <2>1, <2>2, PriceCoded
<1>4. CASE schema[fi].type = "QUANTITY"
  <2>1. EncodeField(c, schema, fi, m) = EncodeQuantity(c, m[fi])
    BY <1>4 DEF EncodeField
  <2>2. CommitField(c, schema, fi, Wire(schema, m)) = CommitQuantity(c, m[fi])
    BY <1>0, <1>4 DEF CommitField
  <2> QED
    BY <1>0, <2>1, <2>2, QuantityCoded
<1>5. CASE schema[fi].type = "SEQUENTIAL_ID"
  <2>1. EncodeField(c, schema, fi, m) = EncodeSequentialId(c, fi, m[fi])
    BY <1>5 DEF EncodeField
  <2>2. CommitField(c, schema, fi, Wire(schema, m)) = CommitSequentialId(c, fi, m[fi])
    BY <1>0, <1>5 DEF CommitField
  <2> QED
    BY <1>0, <2>1, <2>2, SequentialIdCoded
<1>6. CASE schema[fi].type = "ENUM"
  <2>1. EncodeField(c, schema, fi, m) = EncodeEnum(c, schema, fi, m[fi])
    BY <1>6 DEF EncodeField
  <2>2. CommitField(c, schema, fi, Wire(schema, m)) = KeepValue(c, fi, m[fi])
    BY <1>0, <1>6 DEF CommitField
  <2>3. EncodeEnum(c, schema, fi, m[fi]).next = KeepValue(c, fi, m[fi])
    BY <1>0, EnumCoded
  <2> QED
    BY <2>1, <2>2, <2>3
<1>7. CASE schema[fi].type = "BOOL"
  <2>1. EncodeField(c, schema, fi, m) = EncodeBool(c, m[fi])
    BY <1>7 DEF EncodeField
  <2>2. CommitField(c, schema, fi, Wire(schema, m)) = c
    BY <1>0, <1>7 DEF CommitField
  <2> QED
    BY <1>0, <2>1, <2>2 DEF EncodeBool
<1>8. CASE schema[fi].type = "CATEGORICAL"
  <2>1. EncodeField(c, schema, fi, m) = EncodeCategorical(c, fi, m[fi])
    BY <1>8 DEF EncodeField
  <2>2. CommitField(c, schema, fi, Wire(schema, m)) = KeepValue(c, fi, m[fi])
    BY <1>0, <1>8 DEF CommitField
  <2> QED
    BY <1>0, <2>1, <2>2, CategoricalCoded
<1>9. CASE schema[fi].type = "RAW"
  <2>1. EncodeField(c, schema, fi, m) = EncodeRaw(c, schema, fi, m[fi])
    BY <1>9 DEF EncodeField
  <2>2. CommitField(c, schema, fi, Wire(schema, m)) = c
    BY <1>0, <1>9 DEF CommitField
  <2> QED
    BY <1>0, <2>1, <2>2 DEF EncodeRaw
<1>10. CASE schema[fi].type = "DELTA_ID"
  <2>1. EncodeField(c, schema, fi, m) = EncodeDeltaId(c, schema, fi, m)
    BY <1>10 DEF EncodeField
  <2>2. CommitField(c, schema, fi, Wire(schema, m)) = KeepValue(c, fi, m[fi])
    BY <1>0, <1>10 DEF CommitField
  <2> QED
    BY <1>0, <2>1, <2>2, DeltaIdCoded
<1>11. CASE schema[fi].type = "DELTA_PRICE"
  <2>1. EncodeField(c, schema, fi, m) = EncodeDeltaPrice(c, schema, fi, m)
    BY <1>11 DEF EncodeField
  <2>2. CommitField(c, schema, fi, Wire(schema, m)) = c
    BY <1>0, <1>11 DEF CommitField
  <2>3. EncodeDeltaPrice(c, schema, fi, m).next = c
    BY DEF EncodeDeltaPrice
  <2> QED
    BY <2>1, <2>2, <2>3
<1>12. CASE schema[fi].type = "COMPUTED"
  <2>1. EncodeField(c, schema, fi, m) = [word |-> << >>, next |-> c]
    BY <1>12 DEF EncodeField
  <2>2. CommitField(c, schema, fi, Wire(schema, m)) = c
    BY <1>0, <1>12 DEF CommitField
  <2>3. [word |-> << >>, next |-> c].next = c
    OBVIOUS
  <2> QED
    BY <2>1, <2>2, <2>3
<1>13. schema[fi].type \in FieldTypes
  BY SchemaParts, Zenon
<1> QED
  BY <1>1, <1>2, <1>3, <1>4, <1>5, <1>6, <1>7, <1>8, <1>9, <1>10, <1>11, <1>12, <1>13 DEF FieldTypes

\* What the encoder writes for a field has the form that a decoder in the
\* same state expects, so that it reads as many bits as were written.
LEMMA EncodeAligned ==
    ASSUME NEW schema, IsSchema(schema),
           NEW c, Sound(c), NEW fi \in Fields(schema), NEW m
    PROVE  Aligned(c, schema, fi, EncodeField(c, schema, fi, m).word)
<1> USE DEF Aligned, EncodeField, FieldK, Coded, Residual, Bits, Same, Different
<1>1. CASE schema[fi].type = "TIMESTAMP"
  BY <1>1, SMTT(30) DEF EncodeTimestamp
<1>2. CASE schema[fi].type = "INSTRUMENT"
  <2> DEFINE w == EncodeInstrument(c, m[fi]).word
  <2>1. EncodeField(c, schema, fi, m).word = w
    BY <1>2, Zenon
  <2>2. \A i \in DOMAIN w : w[i].code = "bits"
    <3>1. PICK x, y : w = << Same >> \/ w = << Different, Same, RankToken(x) >>
                      \/ w = << Different, Different, Bits(14, y) >>
      BY DEF EncodeInstrument
    <3> HIDE DEF w
    <3> QED
      BY <3>1 DEF RankToken
  <2> HIDE DEF w
  <2> QED
    BY <2>1, <2>2, Zenon
<1>3. CASE schema[fi].type = "PRICE"
  BY <1>3 DEF EncodePrice
<1>4. CASE schema[fi].type = "QUANTITY"
  BY <1>4 DEF EncodeQuantity
<1>5. CASE schema[fi].type = "SEQUENTIAL_ID"
  BY <1>5 DEF EncodeSequentialId
<1>6. CASE schema[fi].type = "ENUM"
  BY <1>6 DEF EncodeEnum
<1>7. CASE schema[fi].type = "BOOL"
  BY <1>7 DEF EncodeBool
<1>8. CASE schema[fi].type = "CATEGORICAL"
  BY <1>8 DEF EncodeCategorical
<1>9. CASE schema[fi].type = "RAW"
  BY <1>9 DEF EncodeRaw
<1>10. CASE schema[fi].type = "DELTA_ID"
  BY <1>10 DEF EncodeDeltaId
<1>11. CASE schema[fi].type = "DELTA_PRICE"
  BY <1>11 DEF EncodeDeltaPrice
<1>12. CASE schema[fi].type = "COMPUTED"
  BY <1>12
<1>13. schema[fi].type \in FieldTypes
  BY SchemaParts
<1> QED
  BY <1>1, <1>2, <1>3, <1>4, <1>5, <1>6, <1>7, <1>8, <1>9, <1>10, <1>11, <1>12, <1>13, Zenon DEF FieldTypes

PartOf(schema, m, fi) == [j \in Fields(schema) |-> IF j < fi THEN Wire(schema, m)[j] ELSE 0]

\* A message as it arrives is a message.
LEMMA WireType ==
    ASSUME NEW schema, IsSchema(schema),
           NEW m \in Message(schema)
    PROVE  Wire(schema, m) \in Message(schema)
<1>1. 0 \in Word64
  BY Widths DEF Word64
<1> QED
  BY <1>1 DEF Wire, Message

\* A message of which some fields are still zero is a message.
LEMMA PartOfType ==
    ASSUME NEW schema, IsSchema(schema),
           NEW m \in Message(schema), NEW fi
    PROVE  PartOf(schema, m, fi) \in Message(schema)
<1>1. 0 \in Word64 /\ Wire(schema, m) \in Message(schema)
  BY WireType, Widths DEF Word64
<1> QED
  BY <1>1 DEF PartOf, Message

\* Every field has some width.
LEMMA WidthType ==
    ASSUME NEW schema, IsSchema(schema),
           NEW fi \in Fields(schema)
    PROVE  Width(schema, fi) \in Nat /\ Width(schema, fi) > 0
<1>1. schema[fi].size \in {1, 2, 4, 8}
  BY SchemaParts
<1> QED
  BY <1>1, Widths, Sizes DEF Width

\* A message with one field overwritten is a message.
LEMMA WriteFieldType ==
    ASSUME NEW schema, IsSchema(schema),
           NEW m \in Message(schema), NEW fi \in Fields(schema), NEW val \in Word64
    PROVE  WriteField(schema, m, fi, val) \in Message(schema)
<1>1. Width(schema, fi) \in Nat /\ Width(schema, fi) > 0 /\ val \in Nat
  BY WidthType, Widths DEF Word64
<1>2. val % Width(schema, fi) \in 0 .. Width(schema, fi) - 1
  BY <1>1, ModType
<1>3. Width(schema, fi) <= U64
  BY SchemaParts, Widths, Sizes, CodecAssumption, SMTT(30) DEF Width
<1>4. val % Width(schema, fi) \in Word64
  BY <1>1, <1>2, <1>3, Widths DEF Word64
<1> QED
  BY <1>4 DEF WriteField, Message

\* A delta field refers to a field that was decoded before it, so that reader
\* and writer use the same reference.
LEMMA ReferencesKnown ==
    ASSUME NEW schema, IsSchema(schema),
           NEW c, NEW fi \in Fields(schema), NEW m \in Message(schema), Representable(schema, m),
           schema[fi].type \in {"DELTA_ID", "DELTA_PRICE"}
    PROVE  /\ IdReference(c, schema, fi, PartOf(schema, m, fi)) = IdReference(c, schema, fi, m)
           /\ PriceReference(c, schema, fi, PartOf(schema, m, fi)) = PriceReference(c, schema, fi, m)
<1> DEFINE ref == schema[fi].ref
<1>1. CASE ref > 0
  <2>1. ref \in Fields(schema) /\ ref < fi /\ schema[ref].type # "COMPUTED"
    BY <1>1, SchemaParts DEF Representable
  <2>2. PartOf(schema, m, fi)[ref] = m[ref]
    BY <2>1 DEF PartOf, Wire
  <2> QED
    BY <1>1, <2>2 DEF IdReference, PriceReference
<1>2. CASE ~(ref > 0)
  BY <1>2 DEF IdReference, PriceReference
<1> QED
  BY <1>1, <1>2

\* Decoding in the state a field was encoded in yields that field of the
\* message and the state the encoder went on to. This is what the whole codec
\* rests on.
LEMMA DecodeUndoesEncode ==
    ASSUME NEW schema, IsSchema(schema),
           NEW c, Sound(c), NEW fi \in Fields(schema),
           NEW m \in Message(schema), Typed(schema, m), Representable(schema, m)
    PROVE  LET e == EncodeField(c, schema, fi, m)
               r == DecodeField(c, schema, fi, PartOf(schema, m, fi), e.word)
           IN  /\ r.next = e.next
               /\ WriteField(schema, PartOf(schema, m, fi), fi, r.val) = PartOf(schema, m, fi + 1)
<1> DEFINE d == PartOf(schema, m, fi)
           w == EncodeField(c, schema, fi, m).word
           r == DecodeField(c, schema, fi, d, w)
<1>0. /\ m[fi] \in Word64
      /\ schema[fi].type = "INSTRUMENT" => m[fi] < RAW_IDS
      /\ schema[fi].type \in {"PRICE", "QUANTITY", "CATEGORICAL"} => m[fi] < U32
      /\ schema[fi].type = "BOOL" => m[fi] < 2
      /\ d[fi] = 0
      /\ 0 \in Word64 /\ fi \in 1 .. MAX_FIELDS
  BY MessageParts, SchemaParts, Widths DEF Representable, PartOf, Word64
<1>a. r = [val |-> Wire(schema, m)[fi], next |-> EncodeField(c, schema, fi, m).next]
  <2>0. Wire(schema, m)[fi] = IF schema[fi].type = "COMPUTED" THEN 0 ELSE m[fi]
    BY DEF Wire
  <2>1. CASE schema[fi].type = "TIMESTAMP"
    <3>1. EncodeField(c, schema, fi, m) = EncodeTimestamp(c, m[fi])
      BY <2>1 DEF EncodeField
    <3>2. r = DecodeTimestamp(c, w)
      BY <2>1 DEF DecodeField
    <3> HIDE DEF d, r
    <3> QED
      BY <1>0, <2>0, <2>1, <3>1, <3>2, TimestampCoded
  <2>2. CASE schema[fi].type = "INSTRUMENT"
    <3>1. EncodeField(c, schema, fi, m) = EncodeInstrument(c, m[fi])
      BY <2>2 DEF EncodeField
    <3>2. r = DecodeInstrument(c, w)
      BY <2>2 DEF DecodeField
    <3> HIDE DEF d, r
    <3> QED
      BY <1>0, <2>0, <2>2, <3>1, <3>2, InstrumentCoded
  <2>3. CASE schema[fi].type = "PRICE"
    <3>1. EncodeField(c, schema, fi, m) = EncodePrice(c, m[fi])
      BY <2>3 DEF EncodeField
    <3>2. r = DecodePrice(c, w)
      BY <2>3 DEF DecodeField
    <3> HIDE DEF d, r
    <3> QED
      BY <1>0, <2>0, <2>3, <3>1, <3>2, PriceCoded
  <2>4. CASE schema[fi].type = "QUANTITY"
    <3>1. EncodeField(c, schema, fi, m) = EncodeQuantity(c, m[fi])
      BY <2>4 DEF EncodeField
    <3>2. r = DecodeQuantity(c, w)
      BY <2>4 DEF DecodeField
    <3> HIDE DEF d, r
    <3> QED
      BY <1>0, <2>0, <2>4, <3>1, <3>2, QuantityCoded
  <2>5. CASE schema[fi].type = "SEQUENTIAL_ID"
    <3>1. EncodeField(c, schema, fi, m) = EncodeSequentialId(c, fi, m[fi])
      BY <2>5 DEF EncodeField
    <3>2. r = DecodeSequentialId(c, fi, w)
      BY <2>5 DEF DecodeField
    <3> HIDE DEF d, r
    <3> QED
      BY <1>0, <2>0, <2>5, <3>1, <3>2, SequentialIdCoded
  <2>6. CASE schema[fi].type = "ENUM"
    <3>1. EncodeField(c, schema, fi, m) = EncodeEnum(c, schema, fi, m[fi])
      BY <2>6 DEF EncodeField
    <3>2. r = DecodeEnum(c, fi, w)
      BY <2>6 DEF DecodeField
    <3> HIDE DEF d, r
    <3> QED
      BY <1>0, <2>0, <2>6, <3>1, <3>2, EnumCoded
  <2>7. CASE schema[fi].type = "BOOL"
    <3>1. EncodeField(c, schema, fi, m) = EncodeBool(c, m[fi])
      BY <2>7 DEF EncodeField
    <3>2. r = DecodeBool(c, w)
      BY <2>7 DEF DecodeField
    <3>3. w[1].v = m[fi] % 2 /\ m[fi] % 2 = m[fi]
      BY <1>0, <2>7, <3>1 DEF EncodeBool, Bits, Word64
    <3> HIDE DEF d, r
    <3> QED
      BY <1>0, <2>0, <2>7, <3>1, <3>2, <3>3 DEF EncodeBool, DecodeBool
  <2>8. CASE schema[fi].type = "CATEGORICAL"
    <3>1. EncodeField(c, schema, fi, m) = EncodeCategorical(c, fi, m[fi])
      BY <2>8 DEF EncodeField
    <3>2. r = DecodeCategorical(c, fi, w)
      BY <2>8 DEF DecodeField
    <3> HIDE DEF d, r
    <3> QED
      BY <1>0, <2>0, <2>8, <3>1, <3>2, CategoricalCoded
  <2>9. CASE schema[fi].type = "RAW"
    <3>1. EncodeField(c, schema, fi, m) = EncodeRaw(c, schema, fi, m[fi])
      BY <2>9 DEF EncodeField
    <3>2. r = DecodeRaw(c, w)
      BY <2>9 DEF DecodeField
    <3>3. w[1].v = m[fi]
      BY <3>1 DEF EncodeRaw, Bits
    <3> HIDE DEF d, r
    <3> QED
      BY <1>0, <2>0, <2>9, <3>1, <3>2, <3>3 DEF EncodeRaw, DecodeRaw
  <2>10. CASE schema[fi].type = "DELTA_ID"
    <3>1. EncodeField(c, schema, fi, m) = EncodeDeltaId(c, schema, fi, m)
      BY <2>10 DEF EncodeField
    <3>2. r = DecodeDeltaId(c, schema, fi, d, w)
      BY <2>10 DEF DecodeField
    <3>3. IdReference(c, schema, fi, d) = IdReference(c, schema, fi, m)
      BY <2>10, ReferencesKnown
    <3> HIDE DEF d, r
    <3> QED
      BY <1>0, <2>0, <2>10, <3>1, <3>2, DeltaIdCoded, <3>3
  <2>11. CASE schema[fi].type = "DELTA_PRICE"
    <3>1. EncodeField(c, schema, fi, m) = EncodeDeltaPrice(c, schema, fi, m)
      BY <2>11 DEF EncodeField
    <3>2. r = DecodeDeltaPrice(c, schema, fi, d, w)
      BY <2>11 DEF DecodeField
    <3>3. PriceReference(c, schema, fi, d) = PriceReference(c, schema, fi, m)
      BY <2>11, ReferencesKnown
    <3> HIDE DEF d, r
    <3>4. /\ EncodeDeltaPrice(c, schema, fi, m).next = c
          /\ DecodeDeltaPrice(c, schema, fi, d, EncodeDeltaPrice(c, schema, fi, m).word) = [val |-> m[fi], next |-> c]
      BY <3>3, DeltaPriceCoded
    <3> QED
      BY <2>0, <2>11, <3>1, <3>2, <3>4
  <2>12. CASE schema[fi].type = "COMPUTED"
    <3>1. EncodeField(c, schema, fi, m) = [word |-> << >>, next |-> c]
      BY <2>12 DEF EncodeField
    <3>2. r = [val |-> d[fi], next |-> c]
      BY <2>12 DEF DecodeField
    <3> HIDE DEF d, r
    <3> QED
      BY <1>0, <2>0, <2>12, <3>1, <3>2
  <2> QED
    BY <2>1, <2>2, <2>3, <2>4, <2>5, <2>6, <2>7, <2>8, <2>9, <2>10, <2>11, <2>12, SchemaParts DEF FieldTypes
<1>b. Wire(schema, m)[fi] % Width(schema, fi) = Wire(schema, m)[fi]
  <2>1. Width(schema, fi) \in Nat /\ Width(schema, fi) > 0
    BY WidthType
  <2>2. m[fi] \in 0 .. Width(schema, fi) - 1
    BY DEF Typed
  <2>3. 0 \in 0 .. Width(schema, fi) - 1
    BY <2>1
  <2>4. Wire(schema, m)[fi] \in 0 .. Width(schema, fi) - 1
    BY <2>2, <2>3 DEF Wire
  <2> QED
    BY <2>1, <2>4, ModSmall
<1>c. WriteField(schema, d, fi, Wire(schema, m)[fi]) = PartOf(schema, m, fi + 1)
  <2>1. WriteField(schema, d, fi, Wire(schema, m)[fi]) = [d EXCEPT ![fi] = Wire(schema, m)[fi]]
    BY <1>b DEF WriteField
  <2>2. \A j \in Fields(schema) : j < fi + 1 <=> j < fi \/ j = fi
    BY DEF IsSchema, Fields
  <2> QED
    BY <2>1, <2>2 DEF PartOf
<1> QED
  BY <1>a, <1>c

-----------------------------------------------------------------------------
(* Whole messages (module FrameCodec): the field loops carry them. *)

\* The cursors a codec can hold between two fields.
SoundCursor == {c \in Cursor : GoodRanks(c.st.mfu)}

\* t is the trail of an encoder that encodes m from st: its cursor after each
\* field, and written what it has written after i fields.
Trail(st, schema, m, t) ==
    /\ t \in [0 .. Len(schema) -> SoundCursor]
    /\ t[0] = Start(st)
    /\ \A i \in 1 .. Len(schema) : t[i] = EncodeField(t[i - 1], schema, i, m).next

WordsOf(schema, m, t, n) == [i \in 1 .. n |-> EncodeField(t[i - 1], schema, i, m).word]

\* The element of a singleton.
LEMMA TheOne == ASSUME NEW x PROVE The({x}) = x
  BY DEF The

\* A schema has a length.
LEMMA SchemaLength ==
    ASSUME NEW schema, IsSchema(schema)
    PROVE  Len(schema) \in Nat /\ Len(schema) > 0 /\ Fields(schema) = 1 .. Len(schema)
<1>1. schema \in Seq([type : FieldTypes, size : {1, 2, 4, 8}, ref : Nat]) /\ schema # << >>
  BY DEF IsSchema
<1> DEFINE F == [type : FieldTypes, size : {1, 2, 4, 8}, ref : Nat]
<1> HIDE DEF F
<1>2. schema \in Seq(F) /\ schema # << >>
  BY <1>1 DEF F
<1> QED
  BY <1>2, EmptySeq, LenProperties DEF Fields

\* One more word is written at each field.
LEMMA WordsOfGrow ==
    ASSUME NEW schema, NEW m, NEW t, NEW i \in Nat, i > 0
    PROVE  WordsOf(schema, m, t, i) =
               Append(WordsOf(schema, m, t, i - 1), EncodeField(t[i - 1], schema, i, m).word)
<1> DEFINE word(j) == EncodeField(t[j - 1], schema, j, m).word
           S == {word(j) : j \in 1 .. i}
           a == WordsOf(schema, m, t, i - 1)
           b == WordsOf(schema, m, t, i)
<1>1. a = [j \in 1 .. i - 1 |-> word(j)] /\ b = [j \in 1 .. i |-> word(j)]
  BY DEF WordsOf
<1>2. \A j \in 1 .. i : word(j) \in S
  OBVIOUS
<1>3. i - 1 \in Nat /\ i \in 1 .. i /\ (i - 1) + 1 = i
  OBVIOUS
<1> HIDE DEF word, S, a, b
<1>4. a \in Seq(S) /\ Len(a) = i - 1 /\ b \in Seq(S) /\ Len(b) = i
  BY <1>1, <1>2, <1>3
<1>5. /\ Append(a, word(i)) \in Seq(S) /\ Len(Append(a, word(i))) = i
      /\ Append(a, word(i))[i] = word(i)
      /\ \A j \in 1 .. i - 1 : Append(a, word(i))[j] = a[j]
  BY <1>2, <1>3, <1>4, AppendProperties
<1>6. \A j \in 1 .. i : Append(a, word(i))[j] = b[j]
  BY <1>1, <1>3, <1>5
<1>7. b = Append(a, word(i))
  BY <1>4, <1>5, <1>6, SeqEqual
<1> QED
  BY <1>7 DEF b, a, word

\* encode_fields runs along the trail.
LEMMA EncodeFieldsIs ==
    ASSUME NEW schema, IsSchema(schema), NEW m, NEW st, NEW t, Trail(st, schema, m, t)
    PROVE  EncodeFields(st, schema, m) =
               [ words |-> WordsOf(schema, m, t, Len(schema)), st |-> Finish(t[Len(schema)]) ]
<1> DEFINE n == Len(schema)
           Step(e, words) == [c |-> e.next, words |-> Append(words, e.word)]
           after(l, i) == The({Step(EncodeField(k.c, schema, i, m), k.words) : k \in {l}})
           Body(f) == [i \in 0 .. n |-> IF i = 0 THEN [c |-> Start(st), words |-> << >>]
                                        ELSE after(f[i - 1], i)]
           loop == CHOOSE f : f = Body(f)
           L == [i \in 0 .. n |-> [c |-> t[i], words |-> WordsOf(schema, m, t, i)]]
<1>1. EncodeFields(st, schema, m) =
          The({[words |-> l.words, st |-> Finish(l.c)] : l \in {loop[n]}})
  BY DEF EncodeFields
<1>2. n \in Nat
  BY SchemaLength
<1>3. \A l, i : after(l, i) = Step(EncodeField(l.c, schema, i, m), l.words)
  BY TheOne
<1>4. L[0] = [c |-> Start(st), words |-> << >>]
  BY <1>2 DEF Trail, WordsOf
<1>5. ASSUME NEW i \in 1 .. n PROVE L[i] = after(L[i - 1], i)
  <2>1. i \in 0 .. n /\ i - 1 \in 0 .. n /\ i \in Nat /\ i > 0
    BY <1>2
  <2>2. t[i] = EncodeField(t[i - 1], schema, i, m).next
    BY DEF Trail
  <2>3. L[i] = [c |-> t[i], words |-> WordsOf(schema, m, t, i)]
    BY <2>1
  <2>4. L[i - 1].c = t[i - 1] /\ L[i - 1].words = WordsOf(schema, m, t, i - 1)
    BY <2>1
  <2> HIDE DEF L, after
  <2> QED
    BY <1>3, <2>1, <2>2, <2>3, <2>4, WordsOfGrow
<1> HIDE DEF after
<1>6. loop = Body(loop)
  <2>1. L = Body(L)
    <3>1. L = [i \in 0 .. n |-> L[i]]
      OBVIOUS
    <3> HIDE DEF L
    <3>2. \A i \in 0 .. n : L[i] = IF i = 0 THEN [c |-> Start(st), words |-> << >>]
                                           ELSE after(L[i - 1], i)
      BY <1>2, <1>4, <1>5
    <3> QED
      BY <3>1, <3>2
  <2> HIDE DEF L, Body
  <2> QED
    BY <2>1
<1>7. loop[0] = L[0]
  <2> HIDE DEF loop, L
  <2> QED
    BY <1>2, <1>4, <1>6
<1>8. ASSUME NEW i \in 1 .. n, loop[i - 1] = L[i - 1] PROVE loop[i] = L[i]
  <2>1. i \in 0 .. n /\ i # 0
    BY <1>2
  <2> HIDE DEF loop, L
  <2>2. loop[i] = after(loop[i - 1], i)
    BY <1>6, <2>1
  <2> QED
    BY <1>5, <1>8, <2>2
<1>9. loop[n] = [c |-> t[n], words |-> WordsOf(schema, m, t, n)]
  <2>1. n \in 0 .. n
    BY <1>2
  <2>2. loop[n] = L[n]
    <3> HIDE DEF loop, L
    <3> QED
      BY <1>2, <1>7, <1>8, <2>1, StepByStep, ZenonT(60)
  <2> HIDE DEF loop
  <2> QED
    BY <2>1, <2>2
<1> HIDE DEF loop
<1>10. {[words |-> l.words, st |-> Finish(l.c)] : l \in {loop[n]}} =
           {[words |-> loop[n].words, st |-> Finish(loop[n].c)]}
  OBVIOUS
<1>11. EncodeFields(st, schema, m) = [words |-> loop[n].words, st |-> Finish(loop[n].c)]
  BY <1>1, <1>10, TheOne
<1> QED
  BY <1>9, <1>11

\* From a sound state every message can be encoded to the end.
LEMMA TrailExists ==
    ASSUME NEW schema, IsSchema(schema), NEW m \in Message(schema),
           NEW st, Sound(Start(st))
    PROVE  \E t : Trail(st, schema, m, t)
<1> DEFINE n == Len(schema)
           Upto(k, t) == /\ t \in [0 .. k -> SoundCursor]
                         /\ t[0] = Start(st)
                         /\ \A i \in 1 .. k : t[i] = EncodeField(t[i - 1], schema, i, m).next
           T == {k \in 0 .. n : ~ \E t : Upto(k, t)}
<1>1. n \in Nat /\ Fields(schema) = 1 .. n
  BY SchemaLength
<1>2. T = {}
  <2> SUFFICES ASSUME T # {} PROVE FALSE
    OBVIOUS
  <2>1. PICK k \in T : \A j \in T : k <= j
    <3>1. T \subseteq Nat
      BY <1>1
    <3> HIDE DEF T
    <3> QED
      BY <3>1, LeastNatural
  <2>2. k # 0
    <3>1. Start(st) \in SoundCursor
      BY DEF SoundCursor, Sound
    <3>2. Upto(0, [i \in 0 .. 0 |-> Start(st)])
      BY <3>1
    <3> QED
      BY <2>1, <3>2
  <2>3. k \in 1 .. n /\ k - 1 \in 0 .. n /\ k - 1 \notin T /\ k - 1 \in Nat
    <3>1. k \in 0 .. n
      OBVIOUS
    <3> HIDE DEF T
    <3>2. k \in 1 .. n /\ k - 1 \in 0 .. n /\ k - 1 \in Nat /\ ~(k <= k - 1)
      BY <1>1, <2>2, <3>1
    <3> QED
      BY <2>1, <3>2
  <2>4. PICK t : Upto(k - 1, t)
    BY <2>3
  <2>5. t[k - 1] \in SoundCursor /\ t \in [0 .. k - 1 -> SoundCursor]
    BY <2>3, <2>4
  <2> DEFINE c == EncodeField(t[k - 1], schema, k, m).next
             u == [i \in 0 .. k |-> IF i = k THEN c ELSE t[i]]
  <2>6. c \in SoundCursor
    BY <1>1, <2>3, <2>5, EncodeSound DEF SoundCursor, Sound
  <2> HIDE DEF c
  <2>7. u \in [0 .. k -> SoundCursor]
    BY <2>3, <2>5, <2>6
  <2>8. u[0] = Start(st)
    BY <2>3, <2>4
  <2>9. ASSUME NEW i \in 1 .. k PROVE u[i] = EncodeField(u[i - 1], schema, i, m).next
    <3>1. i \in 0 .. k /\ i - 1 \in 0 .. k /\ i - 1 # k
      BY <2>3
    <3>2. u[i - 1] = t[i - 1]
      BY <3>1
    <3>3. CASE i = k
      BY <3>1, <3>2, <3>3 DEF c
    <3>4. CASE i # k
      <4>1. i \in 1 .. k - 1
        BY <2>3, <3>4
      <4> QED
        BY <2>4, <3>1, <3>2, <3>4, <4>1
    <3> QED
      BY <3>3, <3>4
  <2> HIDE DEF u
  <2>10. Upto(k, u)
    BY <2>7, <2>8, <2>9
  <2> QED
    BY <2>1, <2>10
<1>3. n \notin T /\ n \in 0 .. n
  BY <1>1, <1>2
<1> QED
  BY <1>3 DEF Trail

\* commit_state moves along the same trail.
LEMMA CommitFieldsIs ==
    ASSUME NEW schema, IsSchema(schema), NEW m \in Message(schema),
           NEW st, NEW t, Trail(st, schema, m, t)
    PROVE  CommitFields(st, schema, Wire(schema, m)) = Finish(t[Len(schema)])
<1> DEFINE n == Len(schema)
           after(c, i) == The({CommitField(d, schema, i, Wire(schema, m)) : d \in {c}})
           Body(f) == [i \in 0 .. n |-> IF i = 0 THEN Start(st) ELSE after(f[i - 1], i)]
           loop == CHOOSE f : f = Body(f)
<1>1. CommitFields(st, schema, Wire(schema, m)) = Finish(loop[n])
  BY DEF CommitFields
<1>2. n \in Nat /\ Fields(schema) = 1 .. n
  BY SchemaLength
<1>3. \A c, i : after(c, i) = CommitField(c, schema, i, Wire(schema, m))
  BY TheOne
<1> HIDE DEF after
<1>4. /\ t \in [0 .. n -> SoundCursor] /\ t[0] = Start(st)
      /\ \A i \in 1 .. n : t[i] = EncodeField(t[i - 1], schema, i, m).next
  BY DEF Trail
<1>5. ASSUME NEW i \in 1 .. n PROVE t[i] = after(t[i - 1], i)
  <2>1. t[i - 1] \in SoundCursor
    BY <1>2, <1>4
  <2>2. CommitField(t[i - 1], schema, i, Wire(schema, m)) = EncodeField(t[i - 1], schema, i, m).next
    BY <1>2, <2>1, CommitFollowsEncode DEF SoundCursor, Sound
  <2> QED
    BY <1>3, <1>4, <2>2
<1>6. loop = Body(loop)
  <2>1. t = Body(t)
    <3>1. \A i \in 0 .. n : t[i] = IF i = 0 THEN Start(st) ELSE after(t[i - 1], i)
      BY <1>2, <1>4, <1>5
    <3> QED
      BY <1>4, <3>1
  <2> HIDE DEF Body
  <2> QED
    BY <2>1
<1> HIDE DEF loop
<1>7. loop[0] = t[0]
  BY <1>2, <1>4, <1>6
<1>8. ASSUME NEW i \in 1 .. n, loop[i - 1] = t[i - 1] PROVE loop[i] = t[i]
  <2>1. i \in 0 .. n /\ i # 0
    BY <1>2
  <2>2. loop[i] = after(loop[i - 1], i)
    BY <1>6, <2>1
  <2> QED
    BY <1>5, <1>8, <2>2
<1>9. loop[n] = t[n]
  <2>1. n \in 0 .. n
    BY <1>2
  <2> QED
    BY <1>2, <1>7, <1>8, <2>1, StepByStep, ZenonT(60)
<1> QED
  BY <1>1, <1>9

\* decode_fields follows the words of the trail to its end, and finds the
\* message as it arrives.
LEMMA DecodeFieldsIs ==
    ASSUME NEW schema, IsSchema(schema),
           NEW m \in Message(schema), Typed(schema, m), Representable(schema, m),
           NEW st, NEW t, Trail(st, schema, m, t)
    PROVE  DecodeFields(st, schema, WordsOf(schema, m, t, Len(schema))) =
               [ aligned |-> TRUE, msg |-> Wire(schema, m), st |-> Finish(t[Len(schema)]) ]
<1> DEFINE n == Len(schema)
           w == WordsOf(schema, m, t, n)
           Read(l, d, i) == [c |-> d.next, aligned |-> TRUE,
                             msg |-> WriteField(schema, l.msg, i, d.val)]
           Step(l, i) ==
               IF l.aligned /\ Aligned(l.c, schema, i, w[i])
               THEN The({Read(l, d, i) : d \in {DecodeField(l.c, schema, i, l.msg, w[i])}})
               ELSE [l EXCEPT !.aligned = FALSE]
           after(l, i) == The({Step(k, i) : k \in {l}})
           first == [c |-> Start(st), msg |-> [fi \in Fields(schema) |-> 0],
                     aligned |-> Len(w) = n]
           Body(f) == [i \in 0 .. n |-> IF i = 0 THEN first ELSE after(f[i - 1], i)]
           loop == CHOOSE f : f = Body(f)
           L == [i \in 0 .. n |-> [c |-> t[i], msg |-> PartOf(schema, m, i + 1), aligned |-> TRUE]]
<1>1. DecodeFields(st, schema, w) =
          The({[aligned |-> l.aligned, msg |-> l.msg, st |-> Finish(l.c)] : l \in {loop[n]}})
  BY DEF DecodeFields
<1>2. n \in Nat /\ n > 0 /\ Fields(schema) = 1 .. n
  BY SchemaLength
<1>3. ASSUME NEW l, NEW i PROVE after(l, i) = Step(l, i)
  <2> HIDE DEF Step
  <2>1. {Step(k, i) : k \in {l}} = {Step(l, i)}
    OBVIOUS
  <2> QED
    BY <2>1, TheOne
<1>4. /\ t \in [0 .. n -> SoundCursor] /\ t[0] = Start(st)
      /\ \A i \in 1 .. n : t[i] = EncodeField(t[i - 1], schema, i, m).next
  BY DEF Trail
<1>5. /\ Len(w) = n
      /\ \A i \in 1 .. n : w[i] = EncodeField(t[i - 1], schema, i, m).word
  BY <1>2 DEF WordsOf
<1> HIDE DEF w, after
<1>6. L[0] = first
  <2>1. PartOf(schema, m, 1) = [fi \in Fields(schema) |-> 0]
    <3>1. \A fi \in Fields(schema) : ~(fi < 1)
      BY <1>2
    <3> QED
      BY <3>1 DEF PartOf
  <2>2. (Len(w) = n) = TRUE
    BY <1>5
  <2>3. first = [c |-> Start(st), msg |-> PartOf(schema, m, 1), aligned |-> TRUE]
    BY <2>1, <2>2
  <2>4. 0 \in 0 .. n /\ 0 + 1 = 1
    BY <1>2
  <2>5. L[0] = [c |-> t[0], msg |-> PartOf(schema, m, 1), aligned |-> TRUE]
    BY <2>4
  <2> HIDE DEF first, L
  <2> QED
    BY <1>4, <2>3, <2>5
<1>7. ASSUME NEW i \in 1 .. n PROVE L[i] = after(L[i - 1], i)
  <2> DEFINE c == t[i - 1]
             e == EncodeField(c, schema, i, m)
             d == DecodeField(c, schema, i, PartOf(schema, m, i), e.word)
  <2>1. i \in 0 .. n /\ i - 1 \in 0 .. n /\ (i - 1) + 1 = i
    BY <1>2
  <2>2. c \in SoundCursor /\ Sound(c) /\ i \in Fields(schema)
    BY <1>2, <1>4, <2>1 DEF SoundCursor, Sound
  <2>3. /\ d.next = e.next
        /\ WriteField(schema, PartOf(schema, m, i), i, d.val) = PartOf(schema, m, i + 1)
    BY <2>2, DecodeUndoesEncode
  <2>4. Aligned(c, schema, i, e.word)
    BY <2>2, EncodeAligned
  <2>5. L[i - 1] = [c |-> c, msg |-> PartOf(schema, m, i), aligned |-> TRUE]
    BY <2>1
  <2>6. L[i] = [c |-> e.next, msg |-> PartOf(schema, m, i + 1), aligned |-> TRUE]
    BY <1>4, <2>1
  <2>7. w[i] = e.word
    BY <1>5
  <2> HIDE DEF L, c, e
  <2>8. d = DecodeField(L[i - 1].c, schema, i, L[i - 1].msg, w[i])
    BY <2>5, <2>7
  <2>9. Aligned(L[i - 1].c, schema, i, w[i]) /\ L[i - 1].aligned
    BY <2>4, <2>5, <2>7
  <2> HIDE DEF d
  <2>10. Step(L[i - 1], i) = Read(L[i - 1], d, i)
    <3> DEFINE D == {DecodeField(L[i - 1].c, schema, i, L[i - 1].msg, w[i])}
    <3> HIDE DEF Read
    <3>1. Step(L[i - 1], i) = The({Read(L[i - 1], x, i) : x \in D})
      BY <2>9
    <3>2. {Read(L[i - 1], x, i) : x \in D} = {Read(L[i - 1], d, i)}
      BY <2>8
    <3> HIDE DEF D, Step
    <3> QED
      BY <3>1, <3>2, TheOne
  <2>11. Read(L[i - 1], d, i) =
             [c |-> e.next, aligned |-> TRUE, msg |-> PartOf(schema, m, i + 1)]
    <3>1. L[i - 1].msg = PartOf(schema, m, i)
      BY <2>5
    <3> QED
      BY <2>3, <3>1
  <2> HIDE DEF Step, Read
  <2>12. after(L[i - 1], i) = Step(L[i - 1], i)
    BY <1>3
  <2> QED
    BY <2>6, <2>10, <2>11, <2>12
<1>8. loop = Body(loop)
  <2>1. L = Body(L)
    <3>1. L = [i \in 0 .. n |-> L[i]]
      OBVIOUS
    <3> HIDE DEF L, first
    <3>2. \A i \in 0 .. n : L[i] = IF i = 0 THEN first ELSE after(L[i - 1], i)
      BY <1>2, <1>6, <1>7
    <3> QED
      BY <3>1, <3>2
  <2> HIDE DEF L, Body
  <2> QED
    BY <2>1
<1> HIDE DEF loop, first
<1>9. loop[0] = L[0]
  <2> HIDE DEF L
  <2> QED
    BY <1>2, <1>6, <1>8
<1>10. ASSUME NEW i \in 1 .. n, loop[i - 1] = L[i - 1] PROVE loop[i] = L[i]
  <2>1. i \in 0 .. n /\ i # 0
    BY <1>2
  <2> HIDE DEF L
  <2>2. loop[i] = after(loop[i - 1], i)
    BY <1>8, <2>1
  <2> QED
    BY <1>7, <1>10, <2>2
<1>11. loop[n] = [c |-> t[n], msg |-> PartOf(schema, m, n + 1), aligned |-> TRUE]
  <2>1. n \in 0 .. n
    BY <1>2
  <2>2. loop[n] = L[n]
    <3> HIDE DEF L
    <3> QED
      BY <1>2, <1>9, <1>10, <2>1, StepByStep, ZenonT(60)
  <2> QED
    BY <2>1, <2>2
<1>12. PartOf(schema, m, n + 1) = Wire(schema, m)
  <2>1. \A fi \in Fields(schema) : fi < n + 1
    BY <1>2
  <2> QED
    BY <2>1 DEF PartOf, Wire
<1>13. {[aligned |-> l.aligned, msg |-> l.msg, st |-> Finish(l.c)] : l \in {loop[n]}} =
           {[aligned |-> loop[n].aligned, msg |-> loop[n].msg, st |-> Finish(loop[n].c)]}
  OBVIOUS
<1>14. DecodeFields(st, schema, w) =
           [aligned |-> loop[n].aligned, msg |-> loop[n].msg, st |-> Finish(loop[n].c)]
  BY <1>1, <1>13, TheOne
<1>15. /\ loop[n].aligned = TRUE /\ loop[n].msg = Wire(schema, m)
       /\ Finish(loop[n].c) = Finish(t[n])
  BY <1>11, <1>12
<1> QED
  BY <1>14, <1>15 DEF w

\* Encoding a message, decoding what was written and committing the message
\* lead to the same state, and the message arrives.
LEMMA FieldsCarried ==
    ASSUME NEW schema, IsSchema(schema),
           NEW m \in Message(schema), Typed(schema, m), Representable(schema, m),
           NEW st, Sound(Start(st))
    PROVE  LET e == EncodeFields(st, schema, m) IN
           /\ Sound(Start(e.st))
           /\ DecodeFields(st, schema, e.words) =
                  [aligned |-> TRUE, msg |-> Wire(schema, m), st |-> e.st]
           /\ CommitFields(st, schema, Wire(schema, m)) = e.st
<1> DEFINE n == Len(schema)
<1>1. PICK t : Trail(st, schema, m, t)
  BY TrailExists
<1>2. EncodeFields(st, schema, m) =
          [words |-> WordsOf(schema, m, t, n), st |-> Finish(t[n])]
  BY <1>1, EncodeFieldsIs
<1>3. Sound(Start(Finish(t[n])))
  <2>1. n \in 0 .. n
    BY SchemaLength
  <2>2. Sound(t[n])
    BY <1>1, <2>1 DEF Trail, SoundCursor, Sound
  <2> QED
    BY <2>2, FinishSound
<1> QED
  BY <1>1, <1>2, <1>3, DecodeFieldsIs, CommitFieldsIs
=============================================================================
