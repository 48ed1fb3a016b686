--------------------------- MODULE MfuTableProofs ---------------------------
(***************************************************************************)
(* The hash chains, the rank arrays and the counts of the MFU table are    *)
(* right after any number of touches, seeds and resets, for every table    *)
(* size, hash size, decay period, set of instruments and seed list.        *)
(***************************************************************************)
EXTENDS MfuTable, CodecLemmas

\* The bound on counts, as far as the proofs need it.
LEMMA CeilingType ==
    /\ Ceiling \in Nat
    /\ MAX_SEED_COUNT <= Ceiling /\ DECAY_PERIOD <= Ceiling
  BY SeedAssumption, Sizes DEF Ceiling, Count

\* The parts of a seed have their types.
LEMMA SeedParts ==
    ASSUME NEW s \in Seeds
    PROVE  /\ Len(s) \in Nat
           /\ \A i \in 1 .. Len(s) : /\ s[i] \in Entry
                                     /\ s[i].instrument_id \in Ids
                                     /\ s[i].count <= MAX_SEED_COUNT
           /\ \A i, j \in 1 .. Len(s) :
                  s[i].instrument_id = s[j].instrument_id => i = j
<1> DEFINE Listed == [instrument_id : Ids, count : 0 .. MAX_SEED_COUNT]
<1>1. s \in Seq(Listed)
  BY SeedAssumption
<1>2. /\ Listed \subseteq Entry
      /\ \A e \in Listed : e.instrument_id \in Ids /\ e.count <= MAX_SEED_COUNT
  BY SeedAssumption, Sizes DEF Entry, Count
<1> HIDE DEF Listed
<1>3. Len(s) \in Nat /\ \A i \in 1 .. Len(s) : s[i] \in Listed
  BY <1>1
<1>4. \A i, j \in 1 .. Len(s) : s[i].instrument_id = s[j].instrument_id => i = j
  BY SeedAssumption
<1> QED
  BY <1>2, <1>3, <1>4

(***************************************************************************)
(* The inductive invariant.  The properties of the ranks alone are not     *)
(* inductive: the slot that comes into use next must already own the first *)
(* free rank, which GoodRanks says of every unused slot.  Nor are the      *)
(* bounds on the counts: a decay halves those of the used slots only, so   *)
(* the others must be 0, and they stay 0 because no chain leads to them,   *)
(* which is what Tidy says.  That every used slot is reached says nothing  *)
(* of the order of a chain, on which an eviction depends: WellChained has  *)
(* the time of insertion of each slot.                                     *)
(***************************************************************************)
Known(new) == \A i \in UsedSlots(new) : new.entries[i].instrument_id \in Ids

SoundTable ==
    /\ TypeOK
    /\ GoodRanks(mfu)
    /\ Tidy(mfu)
    /\ WellChained(mfu)
    /\ Known(mfu)
    /\ CountsBounded

\* The table is sound at the start.
LEMMA InitSoundTable == Init => SoundTable
<1> SUFFICES ASSUME Init
             PROVE  SoundTable
  OBVIOUS
<1>1. TypeOK
  BY MfuInitType, Sizes DEF Init, TypeOK
<1>2. GoodRanks(mfu) /\ Tidy(mfu) /\ WellChained(mfu)
  BY MfuInitGood, MfuInitTidy, MfuInitChained DEF Init
<1>3. Known(mfu)
  BY DEF Init, MfuInit, Known, UsedSlots
<1>4. CountsBounded
  BY CeilingType DEF Init, MfuInit, CountsBounded
<1> QED
  BY <1>1, <1>2, <1>4, <1>3 DEF SoundTable

\* A count after an update exceeds its ceiling by at most one more touch.
LEMMA UpdateSound ==
    ASSUME SoundTable, NEW id \in Ids
    PROVE  LET new == Update(mfu, id) IN
           /\ new \in Table
           /\ GoodRanks(new)
           /\ Tidy(new)
           /\ WellChained(new)
           /\ Known(new)
           /\ \A i \in Slots : new.entries[i].count <= Ceiling + mfu_decay_counter + 1
<1> DEFINE new == Update(mfu, id)
<1>1. id \in Instrument /\ mfu \in Table /\ mfu_decay_counter \in Nat
  BY SeedAssumption, Sizes DEF SoundTable, TypeOK
<1>2. /\ new \in Table
      /\ \A i \in Slots : \/ new.entries[i].count = mfu.entries[i].count
                          \/ new.entries[i].count = 1
                          \/ new.entries[i].count = (mfu.entries[i].count + 1) % U16
  BY <1>1, UpdateCases
<1>3. GoodRanks(new) /\ Tidy(new)
  BY <1>1, UpdateGood, UpdateTidy DEF SoundTable
<1>4. /\ WellChained(new)
      /\ \/ Hit(mfu, id, new)
         \/ Fill(mfu, id, new)
         \/ Replace(mfu, id, new)
  BY <1>1, UpdateChained DEF SoundTable
<1>5. Known(new)
  <2>1. /\ mfu.entries \in [Slots -> Entry] /\ mfu.num_entries \in 0 .. MFU_SIZE
        /\ \A i \in UsedSlots(mfu) : mfu.entries[i].instrument_id \in Ids
    BY <1>1, TableParts DEF SoundTable, Known
  <2>2. \A i \in UsedSlots(new) : /\ i \in Slots
                                  /\ i \in UsedSlots(mfu) \/ i = mfu.num_entries
    <3>1. new.num_entries = mfu.num_entries \/ new.num_entries = mfu.num_entries + 1
      BY <1>4 DEF Hit, Fill, Replace
    <3>2. UsedSlots(new) \subseteq Slots
      BY <1>2, UsedType
    <3> HIDE DEF new
    <3>3. \A i \in 0 .. new.num_entries - 1 :
              i \in 0 .. mfu.num_entries - 1 \/ i = mfu.num_entries
      BY <2>1, <3>1
    <3> QED
      BY <3>2, <3>3 DEF UsedSlots
  <2>3. \A i \in Slots : \/ new.entries[i].instrument_id = mfu.entries[i].instrument_id
                         \/ new.entries[i].instrument_id = id
    <3> HIDE DEF new
    <3>1. CASE Hit(mfu, id, new)
      BY <2>1, <3>1 DEF Hit, Entry
    <3>2. CASE Fill(mfu, id, new) \/ Replace(mfu, id, new)
      BY <2>1, <3>2 DEF Fill, Replace, Fresh
    <3> QED
      BY <1>4, <3>1, <3>2
  <2>4. ASSUME NEW i \in UsedSlots(new), i \notin UsedSlots(mfu)
        PROVE  new.entries[i].instrument_id = id
    <3>1. i = mfu.num_entries /\ i \in Slots
      BY <2>2, <2>4
    <3>2. Fill(mfu, id, new)
      BY <1>4, <2>4, <3>1 DEF Hit, Replace, UsedSlots
    <3> QED
      BY <2>1, <3>1, <3>2 DEF Fill, Fresh
  <2> QED
    BY <2>1, <2>2, <2>3, <2>4 DEF Known
<1>6. ASSUME NEW i \in Slots
      PROVE  new.entries[i].count <= Ceiling + mfu_decay_counter + 1
  <2> DEFINE old == mfu.entries[i].count
  <2>1. old \in Nat /\ old <= Ceiling + mfu_decay_counter
    BY <1>1, EntryParts DEF Count, SoundTable, CountsBounded
  <2>2. (old + 1) % U16 <= old + 1
    <3> HIDE DEF old
    <3> QED
      BY <2>1, Sizes
  <2>3. \/ new.entries[i].count = old \/ new.entries[i].count = 1
        \/ new.entries[i].count = (old + 1) % U16
    BY <1>2
  <2>4. (old + 1) % U16 \in Nat
    <3> HIDE DEF old
    <3> QED
      BY <2>1, Sizes
  <2> HIDE DEF old, new
  <2> QED
    BY <1>1, <2>1, <2>2, <2>3, <2>4, CeilingType
<1> QED
  BY <1>2, <1>3, <1>6, <1>4, <1>5

\* An update keeps it sound.
LEMMA TouchSound ==
    ASSUME SoundTable, NEW id \in Ids, Touch(id)
    PROVE  SoundTable'
<1> DEFINE new == Update(mfu, id)
<1>1. /\ new \in Table
      /\ GoodRanks(new)
      /\ Tidy(new)
      /\ WellChained(new)
      /\ Known(new)
      /\ \A i \in Slots : new.entries[i].count <= Ceiling + mfu_decay_counter + 1
  BY UpdateSound
<1>2. mfu_decay_counter \in Nat /\ mfu_decay_counter <= DECAY_PERIOD - 1
  BY Sizes DEF SoundTable, TypeOK
<1>3. CASE mfu_decay_counter + 1 >= DECAY_PERIOD
  <2>1. mfu' = Decay(new) /\ mfu_decay_counter' = 0
    BY <1>3 DEF Touch
  <2> HIDE DEF new
  <2>2. /\ Decay(new) \in Table
        /\ GoodRanks(Decay(new))
        /\ Tidy(Decay(new))
        /\ WellChained(Decay(new))
        /\ Decay(new).num_entries = new.num_entries
        /\ \A i \in Slots : Decay(new).entries[i] =
               IF i < new.num_entries
               THEN [new.entries[i] EXCEPT !.count = @ \div 2]
               ELSE new.entries[i]
    BY <1>1, DecayGood, DecayTidy, DecayChained
  <2>3. ASSUME NEW i \in Slots
        PROVE  Decay(new).entries[i].count <= Ceiling + 0
    <3> DEFINE c == new.entries[i].count
    <3>1. c \in Nat /\ c <= Ceiling + DECAY_PERIOD
      BY <1>1, <1>2, <1>3, EntryParts, CeilingType, Sizes DEF Count
    <3>2. new.entries[i] \in Entry
      BY <1>1, TableParts
    <3>3. CASE i < new.num_entries
      <4>1. Decay(new).entries[i].count = c \div 2
        BY <2>2, <3>2, <3>3 DEF Entry
      <4> HIDE DEF c
      <4> QED
        BY <3>1, <4>1, CeilingType, Sizes
    <3>4. CASE ~(i < new.num_entries)
      <4>1. Decay(new).entries[i] = new.entries[i]
        BY <2>2, <3>4
      <4>2. i \in Nat /\ new.num_entries \in Nat
        BY <1>1, TableParts, Sizes
      <4>3. new.entries[i].count = 0
        BY <1>1, <3>4, <4>2 DEF Tidy
      <4> QED
        BY <4>1, <4>3, CeilingType
    <3> QED
      BY <3>3, <3>4
  <2>4. TypeOK'
    BY <2>1, <2>2, Sizes DEF TypeOK
  <2>5. CountsBounded'
    BY <2>1, <2>3 DEF CountsBounded, Ceiling
  <2>6. Known(Decay(new))
    <3>1. UsedSlots(Decay(new)) = UsedSlots(new) /\ UsedSlots(new) \subseteq Slots
      BY <1>1, <2>2, UsedType DEF UsedSlots
    <3>2. ASSUME NEW i \in Slots
          PROVE  Decay(new).entries[i].instrument_id = new.entries[i].instrument_id
      <4>1. new.entries[i] \in Entry
        BY <1>1, TableParts
      <4>2. [new.entries[i] EXCEPT !.count = @ \div 2].instrument_id = new.entries[i].instrument_id
        BY <4>1 DEF Entry
      <4> QED
        BY <2>2, <4>2
    <3> QED
      BY <1>1, <3>1, <3>2 DEF Known
  <2>7. GoodRanks(mfu') /\ Tidy(mfu') /\ WellChained(mfu') /\ Known(mfu')
    BY <2>1, <2>2, <2>6
  <2> QED
    BY <2>4, <2>5, <2>7 DEF SoundTable
<1>4. CASE ~(mfu_decay_counter + 1 >= DECAY_PERIOD)
  <2>1. mfu' = new /\ mfu_decay_counter' = mfu_decay_counter + 1
    BY <1>4 DEF Touch
  <2> HIDE DEF new
  <2>2. TypeOK'
    BY <1>1, <1>2, <1>4, <2>1, Sizes DEF TypeOK
  <2>3. CountsBounded'
    BY <1>1, <1>2, <2>1, CeilingType DEF CountsBounded, Ceiling
  <2>4. GoodRanks(mfu') /\ Tidy(mfu') /\ WellChained(mfu') /\ Known(mfu')
    BY <1>1, <2>1
  <2> QED
    BY <2>2, <2>3, <2>4 DEF SoundTable
<1> QED
  BY <1>3, <1>4

\* So does seeding it.
LEMMA SeedTableSound ==
    ASSUME SoundTable, NEW s \in Seeds, SeedTable(s)
    PROVE  SoundTable'
<1>1. /\ Len(s) \in Nat
      /\ \A i \in 1 .. Len(s) : /\ s[i] \in Entry
                                /\ s[i].instrument_id \in Ids
                                /\ s[i].count <= MAX_SEED_COUNT
      /\ \A i, j \in 1 .. Len(s) : s[i].instrument_id = s[j].instrument_id => i = j
  BY SeedParts
<1> DEFINE n   == Len(s)
           new == Seed(s, n)
<1>2. /\ new \in Table
      /\ GoodRanks(new)
      /\ Tidy(new)
      /\ \A i \in Slots : \/ new.entries[i].count = 0
                          \/ \E j \in 1 .. n : new.entries[i].count = s[j].count
  <2> HIDE DEF n
  <2>1. n \in Nat /\ \A i \in 1 .. n : s[i] \in Entry
    BY <1>1 DEF n
  <2> QED
    BY <2>1, SeedGood
<1>3. WellChained(new)
  <2> HIDE DEF n
  <2>1. /\ n \in Nat /\ \A i \in 1 .. n : s[i] \in Entry
        /\ \A i, j \in 1 .. n : s[i].instrument_id = s[j].instrument_id => i = j
    BY <1>1 DEF n
  <2> QED
    BY <2>1, SeedChained
<1>4. Known(new)
  <2> DEFINE to_add == IF n < MFU_SIZE THEN n ELSE MFU_SIZE
  <2>1. /\ new.num_entries = to_add
        /\ \A i \in Slots : i < to_add => new.entries[i] = s[i + 1]
    BY <1>1, SeedFields
  <2>2. \A i \in UsedSlots(new) : i \in Slots /\ i < to_add /\ i + 1 \in 1 .. n
    <3>1. to_add \in Nat /\ to_add <= n /\ to_add <= MFU_SIZE
      BY <1>1, Sizes
    <3> HIDE DEF to_add, new, n
    <3> QED
      BY <1>1, <2>1, <3>1, Sizes DEF UsedSlots, Slots, n
  <2> QED
    BY <1>1, <2>1, <2>2 DEF Known
<1>5. mfu' = new /\ mfu_decay_counter' = mfu_decay_counter
  BY DEF SeedTable
<1>6. mfu_decay_counter \in Nat
  BY Sizes DEF SoundTable, TypeOK
<1> HIDE DEF new
<1>7. \A i \in Slots : new.entries[i].count <= Ceiling
  <2>1. \A j \in 1 .. n : s[j].count \in Nat /\ s[j].count <= MAX_SEED_COUNT
    BY <1>1 DEF Entry, Count
  <2>2. MAX_SEED_COUNT \in Nat
    BY SeedAssumption DEF Count
  <2> HIDE DEF n
  <2> QED
    BY <1>2, <2>1, <2>2, CeilingType
<1>8. \A i \in Slots : new.entries[i].count \in Nat
  BY <1>2, EntryParts DEF Count
<1>9. CountsBounded'
  BY <1>5, <1>6, <1>7, <1>8, CeilingType DEF CountsBounded, Ceiling
<1>10. TypeOK'
  BY <1>2, <1>5 DEF SoundTable, TypeOK
<1> QED
  BY <1>2, <1>5, <1>9, <1>10, <1>3, <1>4 DEF SoundTable

\* Every step keeps it sound.
LEMMA NextSoundTable == SoundTable /\ [Next]_vars => SoundTable'
<1> SUFFICES ASSUME SoundTable, [Next]_vars
             PROVE  SoundTable'
  OBVIOUS
<1>1. ASSUME NEW id \in Ids, Touch(id)
      PROVE  SoundTable'
  BY <1>1, TouchSound
<1>2. ASSUME NEW s \in Seeds, SeedTable(s)
      PROVE  SoundTable'
  BY <1>2, SeedTableSound
<1>3. CASE Reset
  <2>1. Init'
    BY <1>3 DEF Reset, Init
  <2>2. TypeOK'
    BY <2>1, MfuInitType, Sizes DEF Init, TypeOK
  <2>3. GoodRanks(mfu') /\ Tidy(mfu') /\ WellChained(mfu')
    BY <2>1, MfuInitGood, MfuInitTidy, MfuInitChained DEF Init
  <2>4. Known(mfu')
    BY <2>1 DEF Init, MfuInit, Known, UsedSlots
  <2>5. CountsBounded'
    BY <2>1, CeilingType DEF Init, MfuInit, CountsBounded, Ceiling
  <2> QED
    BY <2>2, <2>3, <2>4, <2>5 DEF SoundTable
<1>4. CASE UNCHANGED vars
  BY <1>4 DEF vars, SoundTable, TypeOK, CountsBounded, Ceiling
<1> QED
  BY <1>1, <1>2, <1>3, <1>4 DEF Next

\* Touches, seeds and resets keep the inductive invariant.
THEOREM Soundness == Spec => []SoundTable
<1> QED
  BY InitSoundTable, NextSoundTable, PTL DEF Spec

-----------------------------------------------------------------------------
\* The table, its chains and its rank arrays stay within their C types.
THEOREM TypeCorrect == Spec => []TypeOK
<1>1. SoundTable => TypeOK
  BY DEF SoundTable
<1> QED
  BY <1>1, Soundness, PTL

\* rank_to_idx and idx_to_rank stay inverse permutations, between two
\* rebuilds too: a rank the encoder writes names one slot of the decoder's
\* equal table.
THEOREM RanksCorrect == Spec => []RanksAreInverse
<1>1. SoundTable => RanksAreInverse
  BY DEF SoundTable, GoodRanks, RanksAreInverse
<1> QED
  BY <1>1, Soundness, PTL

\* A slot filled since the last rebuild ranks behind the used slots and
\* before the unused ones: the rank is below num_entries.
THEOREM UsedRanksCorrect == Spec => []UsedRanksAreLow
<1>1. ASSUME SoundTable
      PROVE  UsedRanksAreLow
  <2>1. \A i \in Used : i \in Slots /\ i < mfu.num_entries
    BY <1>1, TableParts, Sizes DEF SoundTable, TypeOK, Used, Slots
  <2> QED
    BY <1>1, <2>1 DEF SoundTable, GoodRanks, UsedRanksAreLow
<1> QED
  BY <1>1, Soundness, PTL

\* The counts stay below the largest seed plus the touches of this period.
THEOREM CountsCorrect == Spec => []CountsBounded
<1>1. SoundTable => CountsBounded
  BY DEF SoundTable
<1> QED
  BY <1>1, Soundness, PTL

-----------------------------------------------------------------------------
\* Every used slot is found through its bucket, and is what Lookup answers.
THEOREM ChainsReach == Spec => []ChainsReachUsed
<1>1. ASSUME SoundTable
      PROVE  ChainsReachUsed
  <2>1. mfu \in Table /\ WellChained(mfu) /\ Used = UsedSlots(mfu)
    BY <1>1 DEF SoundTable, TypeOK, Used, UsedSlots
  <2>2. UsedSlots(mfu) \in SUBSET Slots
    BY <2>1, UsedType
  <2>3. \A i \in UsedSlots(mfu) : Lookup(mfu, mfu.entries[i].instrument_id) = i
    BY <2>1, <2>2, LookupExact DEF WellChained
  <2> QED
    BY <2>1, <2>3 DEF ChainsReachUsed
<1> QED
  BY <1>1, Soundness, PTL

\* Every chain ends within the size of the table and keeps to used slots of
\* its own bucket.
THEOREM ChainsApart == Spec => []ChainsAreDisjoint
<1>1. ASSUME SoundTable
      PROVE  ChainsAreDisjoint
  <2>1. mfu \in Table /\ WellChained(mfu) /\ Used = UsedSlots(mfu)
    BY <1>1 DEF SoundTable, TypeOK, Used, UsedSlots
  <2>2. UsedSlots(mfu) \in SUBSET Slots
    BY <2>1, UsedType
  <2>3. PICK t \in [Slots -> Nat], T \in Nat : Ordered(mfu, UsedSlots(mfu), t, T)
    BY <2>1 DEF WellChained, Chained
  <2>4. ASSUME NEW h \in Buckets
        PROVE  Walk(mfu, h)[MFU_SIZE] = NIL
    <3>1. MFU_SIZE \in Nat /\ MFU_SIZE >= MFU_SIZE
      BY Sizes
    <3> QED
      BY <2>1, <2>2, <2>3, <3>1, WalkEnds
  <2>5. ASSUME NEW h \in Buckets, NEW n \in Slots, Walk(mfu, h)[n] # NIL
        PROVE  /\ Walk(mfu, h)[n] \in Used
               /\ Hash(mfu.entries[Walk(mfu, h)[n]].instrument_id) = h
    <3>1. n \in Nat /\ Walk(mfu, h)[n] \in Slots
      BY <2>1, <2>5, WalkSteps, Sizes
    <3>2. Walk(mfu, h)[n] \in Members(mfu, UsedSlots(mfu), h)
      BY <2>1, <2>2, <2>3, <3>1, WalkMember
    <3> QED
      BY <2>1, <3>2 DEF Members
  <2> QED
    BY <2>4, <2>5 DEF ChainsAreDisjoint
<1> QED
  BY <1>1, Soundness, PTL

(***************************************************************************)
(* With room for one decay period above the largest seeded count, no touch *)
(* but the one that ends the period lowers a count: the uint16_t does not  *)
(* wrap.  (10000 touches leave room for seeds up to 55535.)                *)
(***************************************************************************)
RoomToCount == Ceiling + DECAY_PERIOD < U16

\* Between decays the count of an entry that stays does not fall.
LEMMA TouchRaises ==
    ASSUME RoomToCount, SoundTable, [Next]_vars, NEW i \in Slots,
           mfu'.entries[i].instrument_id = mfu.entries[i].instrument_id,
           mfu_decay_counter' = mfu_decay_counter + 1,
           i < mfu.num_entries
    PROVE  mfu'.entries[i].count >= mfu.entries[i].count
<1> DEFINE old == mfu.entries[i].count
<1>1. mfu \in Table /\ mfu_decay_counter \in Nat /\ WellChained(mfu)
  BY Sizes DEF SoundTable, TypeOK
<1>2. /\ mfu.entries \in [Slots -> Entry] /\ mfu.entries[i] \in Entry
      /\ old \in Nat /\ old <= Ceiling + mfu_decay_counter
      /\ i \in UsedSlots(mfu) /\ UsedSlots(mfu) \in SUBSET Slots
  BY <1>1, EntryParts, TableParts, UsedType DEF SoundTable, CountsBounded, Count
<1>3. PICK id \in Ids : mfu' = Update(mfu, id) /\ mfu_decay_counter + 1 < DECAY_PERIOD
  <2>1. mfu_decay_counter + 1 # mfu_decay_counter /\ mfu_decay_counter + 1 # 0
    BY <1>1
  <2>2. PICK id \in Ids : Touch(id)
    BY <2>1 DEF Next, SeedTable, Reset, vars
  <2>3. ~(mfu_decay_counter + 1 >= DECAY_PERIOD)
    BY <2>1, <2>2 DEF Touch
  <2>4. mfu_decay_counter + 1 < DECAY_PERIOD
    BY <1>1, <2>3, Sizes
  <2> QED
    BY <2>2, <2>3, <2>4 DEF Touch
<1>4. (old + 1) % U16 = old + 1
  <2> HIDE DEF old
  <2>1. old + 1 < U16
    BY <1>1, <1>2, <1>3, CeilingType, Sizes DEF RoomToCount
  <2> QED
    BY <1>2, <2>1, Sizes
<1>5. /\ id \in Instrument
      /\ \/ Hit(mfu, id, mfu')
         \/ Miss(mfu, id) /\ Fill(mfu, id, mfu')
         \/ Miss(mfu, id) /\ Replace(mfu, id, mfu')
  BY <1>1, <1>3, UpdateChained, SeedAssumption
<1>6. CASE Hit(mfu, id, mfu')
  <2>1. PICK j \in Slots : mfu'.entries = [mfu.entries EXCEPT ![j].count = (@ + 1) % U16]
    BY <1>2, <1>6 DEF Hit
  <2>2. CASE i = j
    <3>1. mfu'.entries[i].count = (old + 1) % U16
      BY <1>2, <2>1, <2>2 DEF Entry
    <3> HIDE DEF old
    <3>2. old + 1 >= old
      BY <1>2
    <3> QED
      BY <1>4, <3>1, <3>2 DEF old
  <2>3. CASE i # j
    <3>1. mfu'.entries[i].count = old
      BY <1>2, <2>1, <2>3
    <3> QED
      BY <1>2, <3>1
  <2> QED
    BY <2>2, <2>3
<1>7. CASE Miss(mfu, id) /\ (Fill(mfu, id, mfu') \/ Replace(mfu, id, mfu'))
  <2>1. PICK j : mfu'.entries = [mfu.entries EXCEPT ![j] = Fresh(id)]
    BY <1>7 DEF Fill, Replace
  <2>2. i # j
    <3>1. mfu.entries[i].instrument_id # id
      BY <1>2, <1>7 DEF Miss
    <3>2. Fresh(id).instrument_id = id
      BY DEF Fresh
    <3> QED
      BY <1>2, <2>1, <3>1, <3>2
  <2>3. mfu'.entries[i].count = old
    BY <1>2, <2>1, <2>2
  <2> QED
    BY <1>2, <2>3
<1> QED
  BY <1>5, <1>6, <1>7

\* A replacement never puts an instrument where it already is, so a count
\* under the same instrument only grows within a decay period.
THEOREM CountsRise ==
    ASSUME RoomToCount
    PROVE  Spec => TouchNeverLowersCount
<1>1. SoundTable /\ [Next]_vars =>
        [\A i \in Slots :
            (/\ mfu'.entries[i].instrument_id = mfu.entries[i].instrument_id
             /\ mfu_decay_counter' = mfu_decay_counter + 1
             /\ i < mfu.num_entries)
            => mfu'.entries[i].count >= mfu.entries[i].count]_vars
  BY TouchRaises
<1> QED
  BY <1>1, Soundness, PTL DEF Spec, TouchNeverLowersCount

-----------------------------------------------------------------------------
(***************************************************************************)
(* The MFU table implements the abstract table of counts, FrequencyTable:  *)
(* whatever slots, buckets and chains hold them, the counts that Lookup    *)
(* finds change as the abstract ones do.                                   *)
(***************************************************************************)

\* The abstract counts of a table, and the instruments that its slots hold.
Freq(m) ==
    [id \in {x \in Ids : Lookup(m, x) >= 0} |-> m.entries[Lookup(m, id)].count]

Stored(m) == {m.entries[i].instrument_id : i \in UsedSlots(m)}

\* What is found is what is stored, and its count that of its slot.
LEMMA FreqOf ==
    ASSUME NEW m \in Table, WellChained(m), Known(m)
    PROVE  /\ DOMAIN Freq(m) = Stored(m)
           /\ \A i \in UsedSlots(m) :
                  Freq(m)[m.entries[i].instrument_id] = m.entries[i].count
<1> DEFINE U == UsedSlots(m)
<1>1. U \in SUBSET Slots
  BY UsedType
<1>2. \A i \in U : /\ m.entries[i].instrument_id \in Ids
                   /\ Lookup(m, m.entries[i].instrument_id) = i
                   /\ i >= 0
  <2>1. ASSUME NEW i \in U
        PROVE  Lookup(m, m.entries[i].instrument_id) = i
    BY <1>1, <2>1, LookupExact DEF WellChained
  <2>2. \A i \in U : m.entries[i].instrument_id \in Ids
    BY DEF Known
  <2>3. \A i \in U : i >= 0
    <3> HIDE DEF U
    <3> QED
      BY <1>1, Sizes DEF Slots
  <2> QED
    BY <2>1, <2>2, <2>3
<1>3. ASSUME NEW id \in Ids, Lookup(m, id) >= 0
      PROVE  id \in Stored(m)
  <2>1. Lookup(m, id) # -1 /\ id \in Instrument
    BY <1>3, SeedAssumption
  <2>2. Lookup(m, id) \in U
    BY <1>1, <2>1, LookupLinked DEF WellChained
  <2>3. m.entries[Lookup(m, id)].instrument_id = id
    BY <2>1, LookupFinds
  <2> QED
    BY <2>2, <2>3 DEF Stored
<1>4. DOMAIN Freq(m) = {x \in Ids : Lookup(m, x) >= 0}
  BY DEF Freq
<1>5. DOMAIN Freq(m) = Stored(m)
  BY <1>2, <1>3, <1>4 DEF Stored
<1>6. ASSUME NEW i \in U
      PROVE  Freq(m)[m.entries[i].instrument_id] = m.entries[i].count
  BY <1>2, <1>6 DEF Freq
<1> QED
  BY <1>5, <1>6

\* The counts of the slots determine it.
LEMMA FreqIs ==
    ASSUME NEW m \in Table, WellChained(m), Known(m),
           NEW f, f = [x \in Stored(m) |-> f[x]],
           \A i \in UsedSlots(m) : f[m.entries[i].instrument_id] = m.entries[i].count
    PROVE  Freq(m) = f
<1> DEFINE F == Freq(m)
<1>1. F = [x \in DOMAIN F |-> F[x]]
  BY DEF Freq
<1>2. /\ DOMAIN F = Stored(m)
      /\ \A i \in UsedSlots(m) : F[m.entries[i].instrument_id] = m.entries[i].count
  BY FreqOf
<1>3. \A x \in Stored(m) : F[x] = f[x]
  <2> HIDE DEF F
  <2> QED
    BY <1>2 DEF Stored
<1> HIDE DEF F
<1> QED
  BY <1>1, <1>2, <1>3 DEF F

\* A chained table stores as many identifiers as it has entries.
LEMMA StoredCardinality ==
    ASSUME NEW m \in Table, WellChained(m)
    PROVE  Cardinality(Stored(m)) = m.num_entries
<1> DEFINE U == UsedSlots(m)
           S == Stored(m)
           f == [i \in U |-> m.entries[i].instrument_id]
<1>1. m.num_entries \in Nat
  BY TableParts
<1>2. IsFiniteSet(U) /\ Cardinality(U) = m.num_entries
  <2>1. 0 \in Int /\ m.num_entries - 1 \in Int
    BY <1>1
  <2>2. /\ IsFiniteSet(U)
        /\ Cardinality(U) = IF 0 > m.num_entries - 1 THEN 0 ELSE m.num_entries - 1 - 0 + 1
    BY <2>1, FS_Interval DEF UsedSlots
  <2> HIDE DEF U
  <2> QED
    BY <1>1, <2>2
<1>3. \A i, j \in U : f[i] = f[j] => i = j
  BY DEF WellChained, Distinct
<1>4. f \in [U -> S] /\ \A x \in S : \E i \in U : f[i] = x
  BY DEF Stored
<1>5. f \in Bijection(U, S)
  <2> HIDE DEF U, S, f
  <2> QED
    BY <1>3, <1>4 DEF Bijection, Injection, Surjection, IsInjective
<1>6. ExistsBijection(U, S)
  <2> HIDE DEF U, S, f
  <2> QED
    BY <1>5 DEF ExistsBijection
<1> HIDE DEF U, S
<1> QED
  BY <1>2, <1>6, FS_Bijection DEF S

-----------------------------------------------------------------------------
\* The three ways in which an update may change the counts, as the abstract
\* table has them.
Grown(f, id) == [x \in DOMAIN f \cup {id} |-> IF x = id THEN 1 ELSE f[x]]

Without(f, low) == [x \in DOMAIN f \ {low} |-> f[x]]

Lowest(f) == {x \in DOMAIN f : \A y \in DOMAIN f : f[x] <= f[y]}

CountedFrom(f, id) ==
    IF id \in DOMAIN f THEN {[f EXCEPT ![id] = @ + 1]}
    ELSE IF Cardinality(DOMAIN f) < MFU_SIZE THEN {Grown(f, id)}
    ELSE {Grown(Without(f, low), id) : low \in Lowest(f)}

\* An increment of a count does not wrap.
LEMMA CountHasRoom ==
    ASSUME RoomToCount, SoundTable, NEW i \in Slots
    PROVE  /\ mfu.entries[i].count \in Nat
           /\ (mfu.entries[i].count + 1) % U16 = mfu.entries[i].count + 1
<1> DEFINE c == mfu.entries[i].count
<1>1. c \in Nat /\ c <= Ceiling + mfu_decay_counter
  BY EntryParts DEF SoundTable, TypeOK, CountsBounded, Count
<1>2. mfu_decay_counter \in Nat /\ mfu_decay_counter <= DECAY_PERIOD - 1
  BY Sizes DEF SoundTable, TypeOK
<1> HIDE DEF c
<1>3. c + 1 < U16
  BY <1>1, <1>2, CeilingType, Sizes DEF RoomToCount
<1>4. (c + 1) % U16 = c + 1
  BY <1>1, <1>3, Sizes
<1> QED
  BY <1>1, <1>4 DEF c

\* A touch of a stored instrument counts it.
LEMMA HitCounts ==
    ASSUME RoomToCount, SoundTable, NEW id \in Ids, NEW new \in Table,
           WellChained(new), Known(new), Hit(mfu, id, new)
    PROVE  id \in Stored(mfu) /\ Freq(new) = [Freq(mfu) EXCEPT ![id] = @ + 1]
<1> DEFINE F == Freq(mfu)
           f == [F EXCEPT ![id] = @ + 1]
<1>1. /\ mfu \in Table /\ WellChained(mfu) /\ Known(mfu)
      /\ UsedSlots(mfu) \in SUBSET Slots
  BY UsedType DEF SoundTable, TypeOK
<1>2. PICK i \in UsedSlots(mfu) :
          /\ mfu.entries[i].instrument_id = id
          /\ new.num_entries = mfu.num_entries
          /\ new.entries = [mfu.entries EXCEPT ![i].count = (@ + 1) % U16]
  BY DEF Hit
<1>3. /\ DOMAIN F = Stored(mfu)
      /\ \A j \in UsedSlots(mfu) : F[mfu.entries[j].instrument_id] = mfu.entries[j].count
  BY <1>1, FreqOf
<1>4. F = [x \in Stored(mfu) |-> F[x]]
  BY <1>3 DEF Freq
<1> HIDE DEF F
<1>5. mfu.entries \in [Slots -> Entry]
  BY <1>1, TableParts
<1>6. /\ UsedSlots(new) = UsedSlots(mfu)
      /\ \A j \in Slots : new.entries[j].instrument_id = mfu.entries[j].instrument_id
      /\ \A j \in Slots : j # i => new.entries[j].count = mfu.entries[j].count
  BY <1>2, <1>5 DEF UsedSlots, Entry
<1>7. new.entries[i].count = mfu.entries[i].count + 1
  <2>1. new.entries[i].count = (mfu.entries[i].count + 1) % U16
    BY <1>1, <1>2, <1>5 DEF Entry
  <2> QED
    BY <1>1, <2>1, CountHasRoom
<1>8. Stored(new) = Stored(mfu)
  BY <1>1, <1>6 DEF Stored
<1>9. id \in Stored(mfu)
  BY <1>2 DEF Stored
<1>10. f = [x \in Stored(new) |-> f[x]]
  BY <1>4, <1>8
<1>11. ASSUME NEW j \in UsedSlots(new)
       PROVE  f[new.entries[j].instrument_id] = new.entries[j].count
  <2>1. j \in UsedSlots(mfu) /\ j \in Slots
    BY <1>1, <1>6
  <2>2. CASE j = i
    BY <1>2, <1>3, <1>4, <1>6, <1>7, <1>9, <2>1, <2>2
  <2>3. CASE j # i
    <3>1. mfu.entries[j].instrument_id # id
      BY <1>1, <1>2, <2>1, <2>3 DEF WellChained, Distinct
    <3>2. mfu.entries[j].instrument_id \in Stored(mfu)
      BY <2>1 DEF Stored
    <3> QED
      BY <1>3, <1>4, <1>6, <2>1, <2>3, <3>1, <3>2
  <2> QED
    BY <2>2, <2>3
<1> HIDE DEF f
<1>12. Freq(new) = f
  BY <1>10, <1>11, FreqIs
<1> QED
  BY <1>9, <1>12 DEF f, F

\* A new instrument in a free slot has count 1.
LEMMA FillGrows ==
    ASSUME SoundTable, NEW id \in Ids, NEW new \in Table,
           WellChained(new), Known(new), Miss(mfu, id), Fill(mfu, id, new)
    PROVE  /\ id \notin Stored(mfu)
           /\ Cardinality(Stored(mfu)) < MFU_SIZE
           /\ Freq(new) = Grown(Freq(mfu), id)
<1> DEFINE F == Freq(mfu)
           f == Grown(F, id)
           n == mfu.num_entries
<1>1. /\ mfu \in Table /\ WellChained(mfu) /\ Known(mfu)
      /\ UsedSlots(mfu) \in SUBSET Slots
  BY UsedType DEF SoundTable, TypeOK
<1>2. /\ n < MFU_SIZE
      /\ new.num_entries = n + 1
      /\ new.entries = [mfu.entries EXCEPT ![n] = Fresh(id)]
  BY DEF Fill
<1>3. /\ DOMAIN F = Stored(mfu)
      /\ \A j \in UsedSlots(mfu) : F[mfu.entries[j].instrument_id] = mfu.entries[j].count
  BY <1>1, FreqOf
<1>4. /\ mfu.entries \in [Slots -> Entry] /\ n \in Nat /\ n \in Slots
      /\ n \notin UsedSlots(mfu) /\ UsedSlots(new) = UsedSlots(mfu) \cup {n}
  <2>1. mfu.entries \in [Slots -> Entry] /\ n \in Nat
    BY <1>1, TableParts
  <2> HIDE DEF n
  <2>2. n \in Slots
    BY <1>2, <2>1, Sizes DEF Slots
  <2>3. UsedSlots(mfu) = 0 .. n - 1 /\ UsedSlots(new) = 0 .. (n + 1) - 1
    BY <1>2 DEF UsedSlots, n
  <2> QED
    BY <2>1, <2>2, <2>3
<1>5. id \notin Stored(mfu)
  BY DEF Miss, Stored
<1>6. Cardinality(Stored(mfu)) = n
  BY <1>1, StoredCardinality
<1> HIDE DEF F, n
<1>7. /\ new.entries[n].instrument_id = id /\ new.entries[n].count = 1
      /\ \A j \in UsedSlots(mfu) : new.entries[j] = mfu.entries[j]
  BY <1>1, <1>2, <1>4 DEF Fresh
<1>8. Stored(new) = Stored(mfu) \cup {id}
  BY <1>4, <1>7 DEF Stored
<1>9. f = [x \in Stored(new) |-> IF x = id THEN 1 ELSE F[x]]
  BY <1>3, <1>8 DEF Grown
<1>10. \A j \in UsedSlots(new) : f[new.entries[j].instrument_id] = new.entries[j].count
  <2> SUFFICES ASSUME NEW j \in UsedSlots(new)
               PROVE  f[new.entries[j].instrument_id] = new.entries[j].count
    OBVIOUS
  <2> HIDE DEF f
  <2>1. new.entries[j].instrument_id \in Stored(new)
    BY DEF Stored
  <2>2. CASE j = n
    BY <1>7, <1>9, <2>1, <2>2
  <2>3. CASE j # n
    <3>1. j \in UsedSlots(mfu) /\ new.entries[j] = mfu.entries[j]
      BY <1>4, <1>7, <2>3
    <3>2. mfu.entries[j].instrument_id \in Stored(mfu)
      BY <3>1 DEF Stored
    <3> QED
      BY <1>3, <1>5, <1>9, <2>1, <3>1, <3>2
  <2> QED
    BY <2>2, <2>3
<1> HIDE DEF f
<1>11. Freq(new) = f
  BY <1>9, <1>10, FreqIs
<1> QED
  BY <1>2, <1>5, <1>6, <1>11 DEF f, F

\* In a full table it replaces one with the lowest count.
LEMMA ReplaceDrops ==
    ASSUME SoundTable, NEW id \in Ids, NEW new \in Table,
           WellChained(new), Known(new), Miss(mfu, id), Replace(mfu, id, new)
    PROVE  /\ id \notin Stored(mfu)
           /\ ~(Cardinality(Stored(mfu)) < MFU_SIZE)
           /\ \E low \in Lowest(Freq(mfu)) :
                  Freq(new) = Grown(Without(Freq(mfu), low), id)
<1> DEFINE F    == Freq(mfu)
           slot == MinSlot(mfu)
           low  == mfu.entries[slot].instrument_id
           f    == Grown(Without(F, low), id)
<1>1. mfu \in Table /\ WellChained(mfu) /\ Known(mfu)
  BY DEF SoundTable, TypeOK
<1>2. /\ mfu.num_entries = MFU_SIZE
      /\ new.num_entries = MFU_SIZE
      /\ new.entries = [mfu.entries EXCEPT ![slot] = Fresh(id)]
  BY DEF Replace
<1>3. /\ DOMAIN F = Stored(mfu)
      /\ \A j \in UsedSlots(mfu) : F[mfu.entries[j].instrument_id] = mfu.entries[j].count
  BY <1>1, FreqOf
<1>4. UsedSlots(mfu) = Slots /\ UsedSlots(new) = Slots
  BY <1>2 DEF UsedSlots, Slots
<1>5. /\ mfu.entries \in [Slots -> Entry] /\ slot \in Slots
      /\ \A j \in Slots : mfu.entries[slot].count <= mfu.entries[j].count
  BY <1>1, TableParts, MinSlotType
<1>6. id \notin Stored(mfu)
  BY DEF Miss, Stored
<1>7. Cardinality(Stored(mfu)) = MFU_SIZE /\ ~(MFU_SIZE < MFU_SIZE)
  BY <1>1, <1>2, StoredCardinality, Sizes
<1> HIDE DEF F, slot
<1>8. low \in Lowest(F)
  BY <1>3, <1>4, <1>5 DEF Lowest, Stored
<1>9. /\ new.entries[slot].instrument_id = id /\ new.entries[slot].count = 1
      /\ \A j \in Slots : j # slot => new.entries[j] = mfu.entries[j]
  BY <1>2, <1>5 DEF Fresh
<1>10. \A j \in Slots : j # slot => mfu.entries[j].instrument_id # low
  BY <1>1, <1>4, <1>5 DEF WellChained, Distinct
<1>11. low # id /\ low \in Stored(mfu)
  BY <1>4, <1>5, <1>6 DEF Stored
<1> HIDE DEF low
<1>12. Stored(new) = (Stored(mfu) \ {low}) \cup {id}
  <2>1. ASSUME NEW x \in Stored(new)
        PROVE  x \in (Stored(mfu) \ {low}) \cup {id}
    <3>1. PICK j \in Slots : x = new.entries[j].instrument_id
      BY <1>4 DEF Stored
    <3> QED
      BY <1>4, <1>9, <1>10, <3>1 DEF Stored
  <2>2. ASSUME NEW x \in Stored(mfu), x # low
        PROVE  x \in Stored(new)
    <3>1. PICK j \in Slots : x = mfu.entries[j].instrument_id
      BY <1>4 DEF Stored
    <3>2. j # slot
      BY <2>2, <3>1 DEF low
    <3> QED
      BY <1>4, <1>9, <3>1, <3>2 DEF Stored
  <2>3. id \in Stored(new)
    BY <1>4, <1>5, <1>9 DEF Stored
  <2> QED
    BY <2>1, <2>2, <2>3
<1>13. f = [x \in Stored(new) |-> IF x = id THEN 1 ELSE F[x]]
  <2>1. Without(F, low) = [x \in Stored(mfu) \ {low} |-> F[x]]
    BY <1>3 DEF Without
  <2> QED
    BY <1>12, <2>1 DEF Grown
<1>14. \A j \in UsedSlots(new) : f[new.entries[j].instrument_id] = new.entries[j].count
  <2> SUFFICES ASSUME NEW j \in Slots
               PROVE  f[new.entries[j].instrument_id] = new.entries[j].count
    BY <1>4
  <2> HIDE DEF f
  <2>1. new.entries[j].instrument_id \in Stored(new)
    BY <1>4 DEF Stored
  <2>2. CASE j = slot
    BY <1>9, <1>13, <2>1, <2>2
  <2>3. CASE j # slot
    <3>1. new.entries[j] = mfu.entries[j]
      BY <1>9, <2>3
    <3>2. mfu.entries[j].instrument_id \in Stored(mfu)
      BY <1>4 DEF Stored
    <3> QED
      BY <1>3, <1>4, <1>6, <1>13, <2>1, <3>1, <3>2
  <2> QED
    BY <2>2, <2>3
<1> HIDE DEF f
<1>15. Freq(new) = f
  BY <1>13, <1>14, FreqIs
<1> QED
  BY <1>6, <1>7, <1>8, <1>15 DEF f, F

\* An update counts what the abstract table counts.
LEMMA UpdateCounts ==
    ASSUME RoomToCount, SoundTable, NEW id \in Ids
    PROVE  Freq(Update(mfu, id)) \in CountedFrom(Freq(mfu), id)
<1> DEFINE new == Update(mfu, id)
<1>1. new \in Table /\ WellChained(new) /\ Known(new)
  BY UpdateSound
<1>2. mfu \in Table /\ WellChained(mfu) /\ Known(mfu) /\ id \in Instrument
  BY SeedAssumption DEF SoundTable, TypeOK
<1>3. \/ Hit(mfu, id, new)
      \/ Miss(mfu, id) /\ Fill(mfu, id, new)
      \/ Miss(mfu, id) /\ Replace(mfu, id, new)
  BY <1>2, UpdateChained
<1>4. DOMAIN Freq(mfu) = Stored(mfu)
  BY <1>2, FreqOf
<1> HIDE DEF new
<1>5. CASE Hit(mfu, id, new)
  BY <1>1, <1>4, <1>5, HitCounts DEF CountedFrom, new
<1>6. CASE Miss(mfu, id) /\ Fill(mfu, id, new)
  BY <1>1, <1>4, <1>6, FillGrows DEF CountedFrom, new
<1>7. CASE Miss(mfu, id) /\ Replace(mfu, id, new)
  BY <1>1, <1>4, <1>7, ReplaceDrops DEF CountedFrom, new
<1> QED
  BY <1>3, <1>5, <1>6, <1>7

\* A decay halves every count and drops no instrument.
LEMMA DecayHalves ==
    ASSUME NEW m \in Table, WellChained(m), Known(m)
    PROVE  Freq(Decay(m)) = [x \in DOMAIN Freq(m) |-> Freq(m)[x] \div 2]
<1> DEFINE F   == Freq(m)
           new == Decay(m)
           f   == [x \in DOMAIN F |-> F[x] \div 2]
<1>1. /\ new \in Table
      /\ WellChained(new)
      /\ new.num_entries = m.num_entries
      /\ \A i \in Slots : new.entries[i] = IF i < m.num_entries
                                           THEN [m.entries[i] EXCEPT !.count = @ \div 2]
                                           ELSE m.entries[i]
  BY DecayGood, DecayChained
<1>2. /\ UsedSlots(m) \in SUBSET Slots
      /\ \A i \in UsedSlots(m) : i < m.num_entries
      /\ UsedSlots(new) = UsedSlots(m)
  BY <1>1, UsedType DEF UsedSlots
<1>3. ASSUME NEW i \in UsedSlots(m)
      PROVE  /\ new.entries[i].instrument_id = m.entries[i].instrument_id
             /\ new.entries[i].count = m.entries[i].count \div 2
  <2>1. m.entries[i] \in Entry
    BY <1>2, TableParts
  <2>2. new.entries[i] = [m.entries[i] EXCEPT !.count = @ \div 2]
    BY <1>1, <1>2
  <2> QED
    BY <2>1, <2>2 DEF Entry
<1>4. /\ DOMAIN F = Stored(m)
      /\ \A i \in UsedSlots(m) : F[m.entries[i].instrument_id] = m.entries[i].count
  BY FreqOf
<1> HIDE DEF F, new
<1>5. Stored(new) = Stored(m) /\ Known(new)
  BY <1>2, <1>3 DEF Stored, Known
<1>6. f = [x \in Stored(new) |-> f[x]]
  BY <1>4, <1>5
<1>7. \A i \in UsedSlots(new) : f[new.entries[i].instrument_id] = new.entries[i].count
  <2> SUFFICES ASSUME NEW i \in UsedSlots(m)
               PROVE  f[new.entries[i].instrument_id] = new.entries[i].count
    BY <1>2
  <2>1. m.entries[i].instrument_id \in DOMAIN F
    BY <1>4 DEF Stored
  <2> QED
    BY <1>3, <1>4, <2>1
<1> HIDE DEF f
<1>8. Freq(new) = f
  BY <1>1, <1>5, <1>6, <1>7, FreqIs
<1> QED
  BY <1>8 DEF f, F, new

\* A seeded table holds the counts of the first MFU_SIZE entries.
LEMMA SeedCounts ==
    ASSUME NEW s \in Seeds, Known(Seed(s, Len(s)))
    PROVE  Freq(Seed(s, Len(s))) = AsTable(s)
<1> DEFINE n      == Len(s)
           new    == Seed(s, n)
           to_add == IF n < MFU_SIZE THEN n ELSE MFU_SIZE
           f      == AsTable(s)
<1>1. /\ n \in Nat
      /\ \A i \in 1 .. n : s[i] \in Entry
      /\ \A i, j \in 1 .. n : s[i].instrument_id = s[j].instrument_id => i = j
  BY SeedParts
<1> HIDE DEF n
<1>2. to_add \in Nat /\ to_add <= n /\ to_add <= MFU_SIZE
  BY <1>1, Sizes
<1>3. /\ new.num_entries = to_add
      /\ \A i \in Slots : i < to_add => new.entries[i] = s[i + 1]
  BY <1>1, SeedFields
<1>4. new \in Table /\ WellChained(new)
  BY <1>1, SeedGood, SeedChained
<1>5. \A i \in 1 .. n : i <= MFU_SIZE <=> i <= to_add
  BY <1>1, Sizes
<1>6. Kept(s) = {s[i] : i \in 1 .. to_add}
  <2>1. {i \in 1 .. n : i <= MFU_SIZE} = 1 .. to_add
    <3> HIDE DEF to_add
    <3> QED
      BY <1>1, <1>2, <1>5
  <2>2. Kept(s) = {s[i] : i \in {k \in 1 .. n : k <= MFU_SIZE}}
    BY DEF Kept, n
  <2> QED
    BY <2>1, <2>2
<1> HIDE DEF new, to_add
<1>7. \A i \in UsedSlots(new) : i + 1 \in 1 .. to_add /\ new.entries[i] = s[i + 1]
  <2> SUFFICES ASSUME NEW i \in UsedSlots(new)
               PROVE  i + 1 \in 1 .. to_add /\ new.entries[i] = s[i + 1]
    OBVIOUS
  <2>1. i \in 0 .. to_add - 1 /\ i \in Slots
    BY <1>2, <1>3, Sizes DEF UsedSlots, Slots
  <2> QED
    BY <1>2, <1>3, <2>1
<1>8. \A k \in 1 .. to_add : \E i \in UsedSlots(new) : i + 1 = k
  <2> SUFFICES ASSUME NEW k \in 1 .. to_add
               PROVE  \E i \in UsedSlots(new) : i + 1 = k
    OBVIOUS
  <2>1. k - 1 \in 0 .. to_add - 1 /\ (k - 1) + 1 = k
    BY <1>2
  <2> QED
    BY <1>3, <2>1 DEF UsedSlots
<1>9. Stored(new) = {e.instrument_id : e \in Kept(s)}
  <2>1. ASSUME NEW x \in Stored(new)
        PROVE  x \in {e.instrument_id : e \in Kept(s)}
    BY <1>6, <1>7 DEF Stored
  <2>2. ASSUME NEW e \in Kept(s)
        PROVE  e.instrument_id \in Stored(new)
    <3>1. PICK k \in 1 .. to_add : e = s[k]
      BY <1>6
    <3>2. PICK i \in UsedSlots(new) : i + 1 = k
      BY <1>8
    <3>3. new.entries[i] = e
      BY <1>7, <3>1, <3>2
    <3> QED
      BY <3>3 DEF Stored
  <2> QED
    BY <2>1, <2>2
<1>10. f = [x \in Stored(new) |-> f[x]]
  BY <1>9 DEF AsTable
<1>11. ASSUME NEW i \in UsedSlots(new)
       PROVE  f[new.entries[i].instrument_id] = new.entries[i].count
  <2> DEFINE e == new.entries[i]
             Alike(d) == d \in Kept(s) /\ d.instrument_id = e.instrument_id
  <2>1. Alike(e)
    BY <1>6, <1>7
  <2>2. \A d : Alike(d) => d = e
    <3> SUFFICES ASSUME NEW d, Alike(d)
                 PROVE  d = e
      OBVIOUS
    <3>1. PICK k \in 1 .. to_add : d = s[k]
      BY <1>6
    <3>2. k \in 1 .. n /\ i + 1 \in 1 .. n /\ e = s[i + 1]
      BY <1>1, <1>2, <1>7
    <3>3. k = i + 1
      BY <1>1, <3>1, <3>2
    <3> QED
      BY <3>1, <3>2, <3>3
  <2>3. f[e.instrument_id] = (CHOOSE d \in Kept(s) : d.instrument_id = e.instrument_id).count
    BY <2>1 DEF AsTable
  <2>4. (CHOOSE d \in Kept(s) : d.instrument_id = e.instrument_id) = e
    BY <2>1, <2>2
  <2> QED
    BY <2>3, <2>4
<1> HIDE DEF f
<1>12. Freq(new) = f
  BY <1>4, <1>10, <1>11, FreqIs DEF new, n
<1> QED
  BY <1>12 DEF f, new, n

\* The empty table has no counts.
LEMMA InitCounts == Freq(MfuInit) = [id \in {} |-> 0]
<1>1. UsedSlots(MfuInit) = {} /\ Stored(MfuInit) = {} /\ Known(MfuInit)
  BY DEF MfuInit, UsedSlots, Stored, Known
<1>2. MfuInit \in Table /\ WellChained(MfuInit)
  BY MfuInitType, MfuInitChained
<1> QED
  BY <1>1, <1>2, FreqIs

-----------------------------------------------------------------------------
\* The table starts as an abstract one.
LEMMA InitImplements == Init => Frequencies!Init
<1> SUFFICES ASSUME Init
             PROVE  Frequencies!Init
  OBVIOUS
<1>1. Freq(mfu) = [id \in {} |-> 0] /\ mfu_decay_counter = 0
  BY InitCounts DEF Init
<1> QED
  BY <1>1 DEF Frequencies!Init, Freq, Found

\* A touch of the table is an abstract touch of the same instrument.
LEMMA TouchImplements ==
    ASSUME RoomToCount, SoundTable, NEW id \in Ids, Touch(id)
    PROVE  Frequencies!Touch(id)
<1> DEFINE new == Update(mfu, id)
<1>1. Freq(new) \in CountedFrom(Freq(mfu), id)
  BY UpdateCounts
<1>2. CountedFrom(Freq(mfu), id) = Frequencies!Counted(id)
  <2>1. Frequencies!Cardinality(DOMAIN Freq(mfu)) = Cardinality(DOMAIN Freq(mfu))
    BY DEF Frequencies!Cardinality, Cardinality
  <2> QED
    BY <2>1 DEF CountedFrom, Grown, Without, Lowest, Freq, Found,
                Frequencies!Counted, Frequencies!Restrict
<1>3. new \in Table /\ WellChained(new) /\ Known(new)
  BY UpdateSound
<1> HIDE DEF new
<1>4. CASE mfu_decay_counter + 1 >= DECAY_PERIOD
  <2>1. mfu' = Decay(new) /\ mfu_decay_counter' = 0
    BY <1>4 DEF Touch, new
  <2>2. Freq(mfu') = [x \in DOMAIN Freq(new) |-> Freq(new)[x] \div 2]
    BY <1>3, <2>1, DecayHalves
  <2> QED
    BY <1>1, <1>2, <1>4, <2>1, <2>2 DEF Frequencies!Touch, Freq, Found
<1>5. CASE ~(mfu_decay_counter + 1 >= DECAY_PERIOD)
  <2>1. mfu' = new /\ mfu_decay_counter' = mfu_decay_counter + 1
    BY <1>5 DEF Touch, new
  <2> QED
    BY <1>1, <1>2, <1>5, <2>1 DEF Frequencies!Touch, Freq, Found
<1> QED
  BY <1>4, <1>5

\* Every step of the table is one of the abstract table, or none.
LEMMA NextImplements ==
    RoomToCount /\ SoundTable /\ [Next]_vars => [Frequencies!Next]_(Frequencies!vars)
<1> SUFFICES ASSUME RoomToCount, SoundTable, [Next]_vars
             PROVE  [Frequencies!Next]_(Frequencies!vars)
  OBVIOUS
<1>1. ASSUME NEW id \in Ids, Touch(id)
      PROVE  Frequencies!Next
  BY <1>1, TouchImplements DEF Frequencies!Next
<1>2. ASSUME NEW s \in Seeds, SeedTable(s)
      PROVE  Frequencies!Next
  <2>1. mfu' = Seed(s, Len(s)) /\ mfu_decay_counter' = mfu_decay_counter
    BY <1>2 DEF SeedTable
  <2>2. Known(mfu')
    BY <1>2, SeedTableSound DEF SoundTable
  <2>3. Freq(mfu') = AsTable(s)
    BY <2>1, <2>2, SeedCounts
  <2>4. Frequencies!Seed
    BY <2>1, <2>3 DEF Frequencies!Seed, Freq, Found
  <2> QED
    BY <2>4 DEF Frequencies!Next
<1>3. CASE Reset
  <2>1. Freq(mfu') = [id \in {} |-> 0] /\ mfu_decay_counter' = 0
    BY <1>3, InitCounts DEF Reset
  <2>2. Frequencies!Reset
    BY <2>1 DEF Frequencies!Reset, Freq, Found
  <2> QED
    BY <2>2 DEF Frequencies!Next
<1>4. CASE UNCHANGED vars
  BY <1>4 DEF vars, Frequencies!vars, Found
<1> QED
  BY <1>1, <1>2, <1>3, <1>4 DEF Next

\* As long as the counts have room for a decay period above the largest
\* seeded one, slots, chains and ranks are an implementation detail: the
\* table is a bounded table of counts.
THEOREM Refinement ==
    ASSUME RoomToCount
    PROVE  Spec => ImplementsFrequencies
<1>1. Init => Frequencies!Init
  BY InitImplements
<1>2. SoundTable /\ [Next]_vars => [Frequencies!Next]_(Frequencies!vars)
  BY NextImplements
<1> QED
  BY <1>1, <1>2, Soundness, PTL DEF Spec, ImplementsFrequencies, Frequencies!Spec
=============================================================================
