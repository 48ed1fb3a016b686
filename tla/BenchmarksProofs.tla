-------------------------- MODULE BenchmarksProofs --------------------------
(***************************************************************************)
(* The experiments of bench/, for every run of their generators and every  *)
(* size of the codec's tables.                                             *)
(*                                                                         *)
(* A copy of commit_state is not the codec: it never rebuilds the ranks of *)
(* the table and does not follow every k.  That it predicts alike (Alike)  *)
(* follows from what the two do have in common, the rest of the state and  *)
(* which instrument is in which slot (SameTable).  What a predictor keeps  *)
(* is compared with the places in sent of an instrument's messages         *)
(* (Holding, LastIn, Times), one message added at a time.                  *)
(***************************************************************************)
EXTENDS Benchmarks, CodecLemmas

-----------------------------------------------------------------------------
(* What is sent. *)

\* The time or id that the next message counts from.
Reached(fi) == IF sent = << >> THEN START ELSE Last(sent)[fi]

\* Messages are of their schema, and there is room for as many as may follow
\* before a time or an id wraps, whichever the generator draws.
Sending ==
    /\ program \in Predicting \cup Measuring
    /\ sent \in Seq(Message(Schema)) /\ Len(sent) <= MAX_MSGS
    /\ \A fi \in Fields(Schema) : Rising(Schema, fi) =>
          /\ Reached(fi) \in Nat
          /\ \A t \in Templates : Reached(fi) + (MAX_MSGS - Len(sent)) * t[fi] < HALF

\* What the generators send is of the schema and can be carried.
LEMMA SchemaGiven ==
    ASSUME program \in Predicting \cup Measuring
    PROVE  /\ Generators(program) /\ IsSchema(Schema)
           /\ Len(Schema) \in Nat /\ Len(Schema) > 0 /\ Fields(Schema) = 1 .. Len(Schema)
           /\ \A fi \in Fields(Schema) : Rising(Schema, fi) => Width(Schema, fi) = U64
           /\ \A t \in Templates :
                 /\ t \in Message(Schema) /\ Typed(Schema, t) /\ Representable(Schema, t)
                 /\ \A fi \in Fields(Schema) :
                       Rising(Schema, fi) => START + MAX_MSGS * t[fi] < HALF
<1>1. Generators(program)
  BY PredictionsAssumption, MeasuresAssumption
<1>2. IsSchema(Schema)
  BY <1>1 DEF Generators, Schema
<1> QED
  BY <1>1, <1>2, SchemaLength DEF Generators, Schema, Templates, Width

\* A longer way, with the same steps, is further.
LEMMA TimesGrows ==
    ASSUME NEW a \in Nat, NEW b \in Nat, a <= b, NEW k \in Nat
    PROVE  k * a <= k * b /\ k * a \in Nat /\ k * b \in Nat
<1>1. PICK d \in Nat : b = a + d
  <2>1. b - a \in Nat /\ b = a + (b - a)
    OBVIOUS
  <2> QED BY <2>1
<1>2. k * b = k * a + k * d
  BY <1>1
<1>3. k * d \in Nat /\ k * a \in Nat
  OBVIOUS
<1> QED
  BY <1>2, <1>3

\* Of what may follow, one step can be taken and the rest is left.
LEMMA OneStep ==
    ASSUME NEW r \in Nat, NEW k \in Nat, k > 0, NEW a \in Nat, NEW b \in Nat,
           r + k * a < HALF, r + k * b < HALF
    PROVE  r + a < HALF /\ r + a + (k - 1) * b < HALF
<1>1. HALF \in Nat
  BY Widths
<1>2. PICK j \in Nat : k = j + 1
  <2>1. k - 1 \in Nat /\ k = (k - 1) + 1
    OBVIOUS
  <2> QED BY <2>1
<1>3. k * a = j * a + a /\ k * b = j * b + b /\ (k - 1) * b = j * b
  BY <1>2
<1>4. j * a \in Nat /\ j * b \in Nat
  OBVIOUS
<1>5. CASE a <= b
  BY <1>1, <1>3, <1>4, <1>5
<1>6. CASE b <= a
  <2>1. j * b <= j * a
    BY <1>6, TimesGrows
  <2> QED
    BY <1>1, <1>3, <1>4, <2>1
<1> QED
  BY <1>5, <1>6

\* The values of a message that may be next.
LEMMA GeneratedValues ==
    ASSUME Sending, NEW t \in Templates, Len(sent) < MAX_MSGS
    PROVE  /\ Generated(t) \in Message(Schema)
           /\ Typed(Schema, Generated(t)) /\ Representable(Schema, Generated(t))
           /\ \A fi \in Fields(Schema) :
                 IF Rising(Schema, fi)
                 THEN /\ Generated(t)[fi] = Reached(fi) + t[fi]
                      /\ Generated(t)[fi] \in Nat /\ Generated(t)[fi] < HALF
                 ELSE Generated(t)[fi] = t[fi]
<1> DEFINE m == Generated(t)
<1>1. /\ IsSchema(Schema) /\ Len(Schema) \in Nat /\ Fields(Schema) = 1 .. Len(Schema)
      /\ \A fi \in Fields(Schema) : Rising(Schema, fi) => Width(Schema, fi) = U64
      /\ t \in Message(Schema) /\ Typed(Schema, t) /\ Representable(Schema, t)
  BY SchemaGiven DEF Sending
<1>2. /\ Len(sent) \in Nat /\ MAX_MSGS \in Nat /\ MAX_MSGS - Len(sent) \in Nat
      /\ MAX_MSGS - Len(sent) > 0
  <2>1. Len(sent) \in Nat
    BY LenProperties DEF Sending
  <2> QED
    BY <2>1, ExperimentsAssumption
<1>3. ASSUME NEW fi \in Fields(Schema), Rising(Schema, fi)
      PROVE  m[fi] = Reached(fi) + t[fi] /\ m[fi] \in Nat /\ m[fi] < HALF
  <2>1. m[fi] = t[fi] + Reached(fi)
    BY <1>3 DEF Generated, Reached
  <2>2. t[fi] \in Nat
    BY <1>1 DEF Message, Word64
  <2>3. Reached(fi) \in Nat /\ Reached(fi) + (MAX_MSGS - Len(sent)) * t[fi] < HALF
    BY <1>3 DEF Sending
  <2>4. Reached(fi) + t[fi] < HALF
    BY <1>2, <2>2, <2>3, OneStep
  <2> QED
    BY <2>1, <2>2, <2>3, <2>4
<1>4. \A fi \in Fields(Schema) : ~Rising(Schema, fi) => m[fi] = t[fi]
  BY DEF Generated
<1>5. HALF \in Nat /\ U64 \in Nat /\ HALF <= U64
  BY Widths
<1>6. \A fi \in Fields(Schema) : m[fi] \in Word64 /\ m[fi] \in 0 .. Width(Schema, fi) - 1
  <2> SUFFICES ASSUME NEW fi \in Fields(Schema)
               PROVE  m[fi] \in Word64 /\ m[fi] \in 0 .. Width(Schema, fi) - 1
    OBVIOUS
  <2>1. CASE Rising(Schema, fi)
    BY <1>1, <1>3, <1>5, <2>1 DEF Word64
  <2>2. CASE ~Rising(Schema, fi)
    BY <1>1, <1>4, <2>2 DEF Message, Typed
  <2> QED
    BY <2>1, <2>2
<1>7. m \in Message(Schema) /\ Typed(Schema, m)
  <2>1. m = [fi \in Fields(Schema) |-> m[fi]]
    BY DEF Generated
  <2> HIDE DEF m
  <2> QED
    BY <1>6, <2>1 DEF Message, Typed
<1>8. Representable(Schema, m)
  <2> SUFFICES ASSUME NEW fi \in Fields(Schema)
               PROVE  LET type == Schema[fi].type
                          ref  == Schema[fi].ref
                      IN  /\ type = "INSTRUMENT" => m[fi] < RAW_IDS
                          /\ type \in {"PRICE", "QUANTITY", "CATEGORICAL"} => m[fi] < U32
                          /\ type = "BOOL" => m[fi] < 2
                          /\ type \in {"DELTA_ID", "DELTA_PRICE"} /\ ref > 0 =>
                                 ref < fi /\ Schema[ref].type # "COMPUTED"
    BY Zenon DEF Representable
  <2>1. Schema[fi].type \in {"INSTRUMENT", "PRICE", "QUANTITY", "CATEGORICAL", "BOOL"} =>
            m[fi] = t[fi]
    BY <1>4 DEF Rising
  <2> HIDE DEF m
  <2> QED
    BY <1>1, <2>1 DEF Representable
<1> QED
  BY <1>3, <1>4, <1>7, <1>8

\* The last of a list is the one appended.
LEMMA LastAppended ==
    ASSUME NEW S, NEW s \in Seq(S), NEW x \in S
    PROVE  /\ Append(s, x) \in Seq(S) /\ Len(Append(s, x)) = Len(s) + 1
           /\ Append(s, x) # << >> /\ Last(Append(s, x)) = x
           /\ \A i \in 1 .. Len(s) : Append(s, x)[i] = s[i]
  BY AppendProperties, LenProperties DEF Last

\* There is room at first, and after each message for those that may follow.
LEMMA InitSending == Init => Sending
<1> SUFFICES ASSUME Init PROVE Sending
  OBVIOUS
<1>1. program \in Predicting \cup Measuring /\ sent = << >>
  BY DEF Init, PredictionsInit, MeasuresInit, Begin
<1>2. sent \in Seq(Message(Schema)) /\ Len(sent) = 0
  BY <1>1
<1>3. \A fi : Reached(fi) = START
  BY <1>1 DEF Reached
<1>4. MAX_MSGS - 0 = MAX_MSGS /\ 0 <= MAX_MSGS /\ START \in Nat
  BY ExperimentsAssumption
<1> QED
  BY <1>1, <1>2, <1>3, <1>4, SchemaGiven DEF Sending

\* One more message is sent, and the rest of them still has room.
LEMMA LoopSends ==
    ASSUME Sending, NEW t \in Templates, NEW p, Loop(p, Generated(t))
    PROVE  Sending' /\ Schema' = Schema /\ Templates' = Templates
<1> DEFINE m == Generated(t)
<1>1. /\ Len(sent) < MAX_MSGS /\ sent' = Append(sent, m) /\ program' = program
  BY DEF Loop
<1>2. Schema' = Schema /\ Templates' = Templates
  BY <1>1 DEF Schema, Templates
<1>3. /\ m \in Message(Schema)
      /\ \A fi \in Fields(Schema) : Rising(Schema, fi) => m[fi] = Reached(fi) + t[fi] /\ m[fi] \in Nat
  BY <1>1, GeneratedValues
<1>4. /\ sent' \in Seq(Message(Schema)) /\ Len(sent') = Len(sent) + 1
      /\ sent' # << >> /\ Last(sent') = m
  <2> HIDE DEF m
  <2> QED
    BY <1>1, <1>3, LastAppended DEF Sending
<1>5. Len(sent) \in Nat /\ MAX_MSGS \in Nat
  BY LenProperties, ExperimentsAssumption DEF Sending
<1>6. ASSUME NEW fi \in Fields(Schema), Rising(Schema, fi)
      PROVE  /\ Reached(fi)' = m[fi]
             /\ \A u \in Templates : m[fi] + (MAX_MSGS - Len(sent')) * u[fi] < HALF
  <2>1. Reached(fi)' = m[fi]
    BY <1>4 DEF Reached
  <2>2. ASSUME NEW u \in Templates
        PROVE  m[fi] + (MAX_MSGS - Len(sent')) * u[fi] < HALF
    <3> DEFINE k == MAX_MSGS - Len(sent)
               r == Reached(fi)
    <3>1. t[fi] \in Nat /\ u[fi] \in Nat
      BY SchemaGiven DEF Sending, Message, Word64
    <3>2. r \in Nat /\ r + k * t[fi] < HALF /\ r + k * u[fi] < HALF
      BY <1>6 DEF Sending
    <3>3. k \in Nat /\ k > 0 /\ k - 1 = MAX_MSGS - Len(sent')
      BY <1>1, <1>4, <1>5
    <3> HIDE DEF k, r
    <3>4. r + t[fi] + (k - 1) * u[fi] < HALF
      BY <3>1, <3>2, <3>3, OneStep
    <3>5. m[fi] = r + t[fi]
      BY <1>3, <1>6 DEF r
    <3> HIDE DEF m
    <3> QED
      BY <3>3, <3>4, <3>5
  <2> QED
    BY <2>1, <2>2
<1> HIDE DEF m
<1> QED
  BY <1>1, <1>2, <1>3, <1>4, <1>5, <1>6 DEF Sending

-----------------------------------------------------------------------------
(* Two tables that differ in their ranks at most. *)

SameTable(a, b) ==
    /\ a \in Table /\ b \in Table
    /\ a.entries = b.entries /\ a.num_entries = b.num_entries
    /\ a.hash = b.hash /\ a.chain = b.chain

\* Instruments are found in the same slots.
LEMMA SameLookup ==
    ASSUME NEW a, NEW b, SameTable(a, b)
    PROVE  /\ \A h : Walk(a, h) = Walk(b, h)
           /\ \A id : Lookup(a, id) = Lookup(b, id)
           /\ MinSlot(a) = MinSlot(b)
<1> DEFINE W(hash, chain, h) ==
               CHOOSE node : node = [n \in Nat |->
                   IF n = 0 THEN hash[h]
                   ELSE IF node[n - 1] \in Slots THEN chain[node[n - 1]] ELSE NIL]
           L(walk, entries, id) ==
               LET hits == {n \in Slots : walk[n] \in Slots
                                          /\ entries[walk[n]].instrument_id = id}
               IN  IF \E n \in Slots : IsFirst(n, hits)
                   THEN walk[CHOOSE n \in Slots : IsFirst(n, hits)]
                   ELSE -1
           M(entries) ==
               CHOOSE i \in Slots : \A j \in Slots :
                   \/ entries[i].count < entries[j].count
                   \/ entries[i].count = entries[j].count /\ i <= j
<1>1. a.entries = b.entries /\ a.hash = b.hash /\ a.chain = b.chain
  BY DEF SameTable
<1>2. \A h : Walk(a, h) = W(a.hash, a.chain, h) /\ Walk(b, h) = W(b.hash, b.chain, h)
  BY DEF Walk
<1>3. \A id : /\ Lookup(a, id) = L(Walk(a, Hash(id)), a.entries, id)
              /\ Lookup(b, id) = L(Walk(b, Hash(id)), b.entries, id)
  BY DEF Lookup
<1>4. MinSlot(a) = M(a.entries) /\ MinSlot(b) = M(b.entries)
  BY SMTT(20) DEF MinSlot
<1> HIDE DEF W, L, M
<1> QED
  BY <1>1, <1>2, <1>3, <1>4

\* An instrument is entered in the same slot and the same bucket.
LEMMA SameInsert ==
    ASSUME NEW a, NEW b, SameTable(a, b), NEW idx \in Slots, NEW e \in Entry
    PROVE  SameTable(Insert(a, idx, e), Insert(b, idx, e))
<1>1. Insert(a, idx, e) \in Table /\ Insert(b, idx, e) \in Table
  BY InsertType DEF SameTable
<1> QED
  BY <1>1 DEF SameTable, Insert, Table

\* An instrument is taken out of the same chain.
LEMMA SameUnlink ==
    ASSUME NEW a, NEW b, SameTable(a, b), NEW idx \in Slots
    PROVE  SameTable(Unlink(a, idx), Unlink(b, idx))
<1> DEFINE h     == Hash(a.entries[idx].instrument_id)
           node  == Walk(a, h)
           cells == {n \in Slots : node[n] \in Slots /\ a.chain[node[n]] = idx}
           cell  == node[CHOOSE n \in Slots : IsFirst(n, cells)]
<1>1. Unlink(a, idx) \in Table /\ Unlink(b, idx) \in Table
  BY UnlinkType DEF SameTable
<1>2. a \in Table /\ b \in Table
  BY DEF SameTable
<1>3. /\ a.entries = b.entries /\ a.num_entries = b.num_entries
      /\ a.hash = b.hash /\ a.chain = b.chain
  BY DEF SameTable
<1>4. Unlink(a, idx) =
          IF a.hash[h] = idx THEN [a EXCEPT !.hash[h] = a.chain[idx]]
          ELSE IF \E n \in Slots : IsFirst(n, cells)
          THEN [a EXCEPT !.chain[cell] = a.chain[idx]]
          ELSE a
  BY DEF Unlink
<1>5. Walk(b, h) = node
  BY SameLookup
<1>6. Unlink(b, idx) =
          IF a.hash[h] = idx THEN [b EXCEPT !.hash[h] = a.chain[idx]]
          ELSE IF \E n \in Slots : IsFirst(n, cells)
          THEN [b EXCEPT !.chain[cell] = a.chain[idx]]
          ELSE b
  <2> DEFINE hb == Hash(b.entries[idx].instrument_id)
             nb == Walk(b, hb)
             cb == {n \in Slots : nb[n] \in Slots /\ b.chain[nb[n]] = idx}
  <2>1. Unlink(b, idx) =
            IF b.hash[hb] = idx THEN [b EXCEPT !.hash[hb] = b.chain[idx]]
            ELSE IF \E n \in Slots : IsFirst(n, cb)
            THEN [b EXCEPT !.chain[nb[CHOOSE n \in Slots : IsFirst(n, cb)]] = b.chain[idx]]
            ELSE b
    BY DEF Unlink
  <2>2. hb = h
    BY <1>3
  <2>3. nb = node
    BY <1>5, <2>2
  <2>4. cb = cells
    <3> HIDE DEF nb, node
    <3> QED
      BY <1>3, <2>3
  <2> HIDE DEF hb, nb, cb, h, node, cells
  <2> QED
    BY <1>3, <2>1, <2>2, <2>3, <2>4
<1> HIDE DEF h, node, cells
<1> HIDE DEF cell
<1>10. /\ a = [entries |-> a.entries, num_entries |-> a.num_entries, hash |-> a.hash,
               chain |-> a.chain, rank_to_idx |-> a.rank_to_idx, idx_to_rank |-> a.idx_to_rank]
       /\ b = [entries |-> a.entries, num_entries |-> a.num_entries, hash |-> a.hash,
               chain |-> a.chain, rank_to_idx |-> b.rank_to_idx, idx_to_rank |-> b.idx_to_rank]
  BY <1>2, <1>3 DEF Table
<1>7. CASE a.hash[h] = idx
  <2>1. /\ Unlink(a, idx) = [a EXCEPT !.hash[h] = a.chain[idx]]
        /\ Unlink(b, idx) = [b EXCEPT !.hash[h] = a.chain[idx]]
    BY <1>4, <1>6, <1>7
  <2>2. /\ Unlink(a, idx).entries = Unlink(b, idx).entries
        /\ Unlink(a, idx).num_entries = Unlink(b, idx).num_entries
        /\ Unlink(a, idx).hash = Unlink(b, idx).hash
        /\ Unlink(a, idx).chain = Unlink(b, idx).chain
    BY <1>10, <2>1
  <2> QED
    BY <1>1, <2>2 DEF SameTable
<1>8. CASE a.hash[h] # idx /\ \E n \in Slots : IsFirst(n, cells)
  <2>1. /\ Unlink(a, idx) = [a EXCEPT !.chain[cell] = a.chain[idx]]
        /\ Unlink(b, idx) = [b EXCEPT !.chain[cell] = a.chain[idx]]
    BY <1>4, <1>6, <1>8
  <2>2. /\ Unlink(a, idx).entries = Unlink(b, idx).entries
        /\ Unlink(a, idx).num_entries = Unlink(b, idx).num_entries
        /\ Unlink(a, idx).hash = Unlink(b, idx).hash
        /\ Unlink(a, idx).chain = Unlink(b, idx).chain
    BY <1>10, <2>1
  <2> QED
    BY <1>1, <2>2 DEF SameTable
<1>9. CASE a.hash[h] # idx /\ ~ \E n \in Slots : IsFirst(n, cells)
  BY <1>4, <1>6, <1>9
<1> QED
  BY <1>7, <1>8, <1>9

\* The tables stay the same as an instrument is counted.
LEMMA SameUpdate ==
    ASSUME NEW a, NEW b, SameTable(a, b), NEW id \in Instrument
    PROVE  SameTable(Update(a, id), Update(b, id))
<1> DEFINE idx   == Lookup(a, id)
           fresh == [instrument_id |-> id, count |-> 1]
<1>1. Update(a, id) \in Table /\ Update(b, id) \in Table /\ a \in Table /\ b \in Table
  BY UpdateCases DEF SameTable
<1>2. /\ a.entries = b.entries /\ a.num_entries = b.num_entries
      /\ a.hash = b.hash /\ a.chain = b.chain
  BY DEF SameTable
<1>3. Lookup(b, id) = idx /\ MinSlot(b) = MinSlot(a)
  BY SameLookup
<1>4. fresh \in Entry
  BY Sizes DEF Entry, Count
<1>5. CASE idx >= 0
  <2>1. idx \in Slots
    BY <1>1, <1>5, LookupFinds
  <2>2. /\ Update(a, id) = [a EXCEPT !.entries[idx].count = (@ + 1) % U16]
        /\ Update(b, id) = [b EXCEPT !.entries[idx].count = (@ + 1) % U16]
    BY <1>3, <1>5 DEF Update
  <2>3. /\ a = [entries |-> a.entries, num_entries |-> a.num_entries, hash |-> a.hash,
                chain |-> a.chain, rank_to_idx |-> a.rank_to_idx, idx_to_rank |-> a.idx_to_rank]
        /\ b = [entries |-> a.entries, num_entries |-> a.num_entries, hash |-> a.hash,
                chain |-> a.chain, rank_to_idx |-> b.rank_to_idx, idx_to_rank |-> b.idx_to_rank]
    BY <1>1, <1>2 DEF Table
  <2> HIDE DEF idx
  <2>4. /\ Update(a, id).entries = Update(b, id).entries
        /\ Update(a, id).num_entries = Update(b, id).num_entries
        /\ Update(a, id).hash = Update(b, id).hash
        /\ Update(a, id).chain = Update(b, id).chain
    BY <2>2, <2>3
  <2> QED
    BY <1>1, <2>4 DEF SameTable
<1>6. CASE ~(idx >= 0) /\ a.num_entries < MFU_SIZE
  <2> DEFINE n  == a.num_entries
             a1 == [a EXCEPT !.num_entries = n + 1]
             b1 == [b EXCEPT !.num_entries = n + 1]
  <2>0. n \in 0 .. MFU_SIZE
    BY <1>1 DEF Table
  <2>1. Update(a, id) = Insert(a1, n, fresh) /\ Update(b, id) = Insert(b1, n, fresh)
    BY <1>2, <1>3, <1>6 DEF Update
  <2>2. n \in Slots /\ n + 1 \in 0 .. MFU_SIZE
    BY <1>6, <2>0, Sizes DEF Slots
  <2>3. SameTable(a1, b1)
    BY <1>1, <1>2, <2>2 DEF SameTable, Table
  <2> HIDE DEF a1, b1, n, fresh
  <2> QED
    BY <1>4, <2>1, <2>2, <2>3, SameInsert
<1>7. CASE ~(idx >= 0) /\ ~(a.num_entries < MFU_SIZE)
  <2> DEFINE min == MinSlot(a)
  <2>1. Update(a, id) = Insert(Unlink(a, min), min, fresh) /\ Update(b, id) = Insert(Unlink(b, min), min, fresh)
    BY <1>2, <1>3, <1>7 DEF Update
  <2>2. min \in Slots
    BY <1>1, MinSlotType
  <2>3. SameTable(Unlink(a, min), Unlink(b, min))
    BY <2>2, SameUnlink
  <2> HIDE DEF min, fresh
  <2> QED
    BY <1>4, <2>1, <2>2, <2>3, SameInsert
<1> QED
  BY <1>5, <1>6, <1>7

\* They stay the same as the counts are halved, whether the ranks are built
\* anew or not, and ranks that are left alone stay inverse to each other.
LEMMA SameHalves ==
    ASSUME NEW a, NEW b, SameTable(a, b)
    PROVE  /\ SameTable(HalveCounts(a), Decay(b))
           /\ HalveCounts(a).rank_to_idx = a.rank_to_idx
           /\ HalveCounts(a).idx_to_rank = a.idx_to_rank
           /\ HalveCounts(a).num_entries = a.num_entries
<1> DEFINE Half(e)   == [e EXCEPT !.count = @ \div 2]
           halves(x) == [i \in Slots |-> IF i < x.num_entries THEN Half(x.entries[i]) ELSE x.entries[i]]
<1>1. a \in Table /\ b \in Table /\ halves(b) = halves(a)
  BY DEF SameTable
<1>2. halves(a) \in [Slots -> Entry]
  <2> SUFFICES ASSUME NEW i \in Slots
               PROVE  (IF i < a.num_entries THEN Half(a.entries[i]) ELSE a.entries[i]) \in Entry
    OBVIOUS
  <2>1. a.entries[i] \in Entry /\ a.entries[i].count \in Count
    BY <1>1, TableParts, EntryParts
  <2>2. a.entries[i].count \div 2 \in Count
    BY <2>1, Sizes DEF Count
  <2> QED
    BY <2>1, <2>2 DEF Entry
<1>3. HalveCounts(a) = [a EXCEPT !.entries = halves(a)]
  BY DEF HalveCounts
<1>4. Decay(b) = RebuildRanks([b EXCEPT !.entries = halves(b)])
  BY DEF Decay
<1>5. Decay(b) \in Table
  BY <1>1, DecayGood
<1> HIDE DEF halves
<1>6. /\ HalveCounts(a) \in Table /\ HalveCounts(a).entries = halves(a)
      /\ HalveCounts(a).num_entries = a.num_entries
      /\ HalveCounts(a).hash = a.hash /\ HalveCounts(a).chain = a.chain
      /\ HalveCounts(a).rank_to_idx = a.rank_to_idx
      /\ HalveCounts(a).idx_to_rank = a.idx_to_rank
  BY <1>1, <1>2, <1>3 DEF Table
<1>7. /\ Decay(b).entries = halves(b) /\ Decay(b).num_entries = b.num_entries
      /\ Decay(b).hash = b.hash /\ Decay(b).chain = b.chain
  <2> DEFINE c == [b EXCEPT !.entries = halves(b)]
  <2>1. /\ c.entries = halves(b) /\ c.num_entries = b.num_entries
        /\ c.hash = b.hash /\ c.chain = b.chain
        /\ c = [entries |-> c.entries, num_entries |-> c.num_entries, hash |-> c.hash,
                chain |-> c.chain, rank_to_idx |-> c.rank_to_idx, idx_to_rank |-> c.idx_to_rank]
    BY <1>1 DEF Table
  <2> HIDE DEF c
  <2> QED
    BY <1>4, <2>1 DEF RebuildRanks, c
<1> QED
  BY <1>1, <1>5, <1>6, <1>7 DEF SameTable

-----------------------------------------------------------------------------
(* Two codec states that predict alike: they may differ in the ranks of    *)
(* their tables and in what k is taken from for prices and quantities.     *)

Rest(a, b) ==
    /\ a.msg_count = b.msg_count
    /\ a.last_timestamp = b.last_timestamp
    /\ a.timestamp_gap_ema = b.timestamp_gap_ema
    /\ a.last_timestamp_gap = b.last_timestamp_gap
    /\ a.ts_adapt = b.ts_adapt
    /\ a.last_instrument_id = b.last_instrument_id
    /\ SameTable(a.mfu, b.mfu)
    /\ a.mfu_decay_counter = b.mfu_decay_counter
    /\ a.regime = b.regime
    /\ a.regime_counter = b.regime_counter
    /\ a.recent_abs_price_sum = b.recent_abs_price_sum
    /\ a.field_state = b.field_state

Alike(a, b) == Rest(a, b) /\ a.instruments = b.instruments

\* The copies count an instrument's message with its price and quantity, the
\* codec after the last field.
OneMore(instruments, id) == [instruments EXCEPT ![id].msg_count = (@ + 1) % U32]

Beyond(a, b, id) == Rest(a, b) /\ a.instruments = OneMore(b.instruments, id)

\* The parts of a sound cursor.
LEMMA SoundState ==
    ASSUME NEW st, NEW is, Sound([st |-> st, is |-> is])
    PROVE  st \in State /\ st.mfu \in Table /\ GoodRanks(st.mfu) /\ Sound(Start(st))
  BY DEF Sound, Cursor, Start, State, NULL

\* Any instrument that is named has a state in the codec's.
LEMMA SoundAt ==
    ASSUME NEW st, Sound(Start(st)), NEW is \in (0 .. MAX_INSTRUMENTS - 1) \cup {NULL}
    PROVE  Sound([st |-> st, is |-> is])
  BY DEF Sound, Cursor, Start

\* A timestamp touches what is of time.
Timed(st, ts, gap, residual) ==
    [st EXCEPT !.ts_adapt           = AdaptiveUpdate(st.ts_adapt, ZigZag(residual)),
               !.timestamp_gap_ema  = Signed(st.timestamp_gap_ema +
                                             Signed(ShiftQ16(gap) - st.timestamp_gap_ema) \div 4),
               !.last_timestamp     = ts,
               !.last_timestamp_gap = Unsigned(gap)]

\* That is all it touches.
LEMMA TimestampParts ==
    ASSUME NEW st \in State, NEW is, NEW ts, NEW gap, NEW residual
    PROVE  TrackTimestamp([st |-> st, is |-> is], ts, gap, residual) =
               [st |-> Timed(st, ts, gap, residual), is |-> is]
<1> DEFINE c     == [st |-> st, is |-> is]
           Mean(a) == AdaptiveUpdate(a, ZigZag(residual))
           Ema(x) == Signed(x + Signed(ShiftQ16(gap) - x) \div 4)
           last  == Unsigned(gap)
<1>1. TrackTimestamp(c, ts, gap, residual) =
          [c EXCEPT !.st.ts_adapt = Mean(@), !.st.timestamp_gap_ema = Ema(@),
                    !.st.last_timestamp = ts, !.st.last_timestamp_gap = last]
  BY DEF TrackTimestamp
<1>2. Timed(st, ts, gap, residual) =
          [st EXCEPT !.ts_adapt = Mean(st.ts_adapt),
                     !.timestamp_gap_ema = Ema(st.timestamp_gap_ema),
                     !.last_timestamp = ts, !.last_timestamp_gap = last]
  BY DEF Timed
<1> HIDE DEF Mean, Ema, last
<1> QED
  BY <1>1, <1>2 DEF State

\* A timestamp moves both alike.
LEMMA TimeAlike ==
    ASSUME NEW a, NEW b, Sound(Start(a)), Sound(Start(b)), Alike(a, b),
           NEW m, m[1] \in Word64, NEW e, e = EncodeTimestamp(Start(b), m[1]).next
    PROVE  /\ Alike(CommitTime(a, m), e.st) /\ e.is = NULL
           /\ Sound(Start(CommitTime(a, m))) /\ Sound(e)
<1> DEFINE ts       == m[1]
           gap      == Signed(ts - b.last_timestamp)
           residual == Signed(gap - PredictedGap(b))
<1>1. a \in State /\ b \in State
  BY DEF Sound, Cursor, Start
<1>2. PredictedGap(a) = PredictedGap(b) /\ Signed(ts - a.last_timestamp) = gap
  BY DEF PredictedGap, Alike, Rest
<1>3. CommitTime(a, m) = TrackTimestamp([st |-> a, is |-> m[2]], ts, gap, residual).st
  BY <1>2 DEF CommitTime
<1>4. e = TrackTimestamp(Start(b), ts, gap, residual)
  BY DEF EncodeTimestamp, Start
<1>5. gap \in Int64 /\ residual \in Int64
  <2>1. b.last_timestamp \in Word64 /\ PredictedGap(b) \in Int64
    BY StateParts, PredictedGapType DEF Start, Sound
  <2> QED
    BY <2>1, DifferenceRecovered, SignedDifferenceRecovered
<1>11. ts \in Word64
  OBVIOUS
<1> HIDE DEF ts, gap, residual
<1>6. CommitTime(a, m) = Timed(a, ts, gap, residual)
  <2>1. TrackTimestamp([st |-> a, is |-> m[2]], ts, gap, residual) =
            [st |-> Timed(a, ts, gap, residual), is |-> m[2]]
    BY <1>1, TimestampParts
  <2> QED
    BY <1>3, <2>1
<1>7. /\ e = [st |-> Timed(b, ts, gap, residual), is |-> NULL]
      /\ TrackTimestamp(Start(a), ts, gap, residual) =
            [st |-> Timed(a, ts, gap, residual), is |-> NULL]
  BY <1>1, <1>4, TimestampParts DEF Start
<1>8. Sound(e) /\ Sound(TrackTimestamp(Start(a), ts, gap, residual))
  BY <1>4, <1>5, <1>11, TrackTimestampSound
<1>9. Sound(Start(CommitTime(a, m)))
  BY <1>6, <1>7, <1>8, SoundState
<1>10. Alike(Timed(a, ts, gap, residual), Timed(b, ts, gap, residual))
  BY <1>1 DEF Alike, Rest, State, Timed
<1> QED
  BY <1>6, <1>7, <1>8, <1>9, <1>10

\* An instrument moves both alike: the tables are updated in the same way and
\* halved at the same time.
LEMMA InstrumentAlike ==
    ASSUME NEW a, NEW c, Sound(Start(a)), Sound(c), Alike(a, c.st),
           NEW m, m[2] \in 0 .. MAX_INSTRUMENTS - 1,
           NEW e, e = EncodeInstrument(c, m[2]).next
    PROVE  /\ Alike(CommitTable(a, m), e.st) /\ e.is = m[2]
           /\ Sound(Start(CommitTable(a, m))) /\ Sound(e)
<1> DEFINE id    == m[2]
           b     == c.st
           decay == a.mfu_decay_counter + 1 >= DECAY_PERIOD
           count == IF decay THEN 0 ELSE a.mfu_decay_counter + 1
           ta    == IF decay THEN HalveCounts(Update(a.mfu, id)) ELSE Update(a.mfu, id)
           tb    == IF decay THEN Decay(Update(b.mfu, id)) ELSE Update(b.mfu, id)
           na    == [a EXCEPT !.mfu = ta, !.mfu_decay_counter = count, !.last_instrument_id = id]
           nb    == [b EXCEPT !.mfu = tb, !.mfu_decay_counter = count, !.last_instrument_id = id]
<1>1. a \in State /\ b \in State /\ a.mfu \in Table /\ GoodRanks(a.mfu)
  BY DEF Sound, Cursor, Start, State
<1>2. id \in Instrument /\ id % U16 = id /\ id < MAX_INSTRUMENTS
  BY CodecAssumption, Sizes, ModSmall DEF Instrument
<1>3. a.mfu_decay_counter = b.mfu_decay_counter /\ SameTable(a.mfu, b.mfu)
  BY DEF Alike, Rest
<1>4. CommitTable(a, m) = na
  BY DEF CommitTable
<1>5. e = [st |-> nb, is |-> id]
  <2>1. e = TouchInstrument(c, id)
    BY <1>2 DEF EncodeInstrument
  <2> QED
    BY <1>2, <1>3, <2>1 DEF TouchInstrument
<1>6. SameTable(Update(a.mfu, id), Update(b.mfu, id))
  BY <1>2, <1>3, SameUpdate
<1>7. SameTable(ta, tb)
  BY <1>6, SameHalves
<1>8. ta \in Table /\ GoodRanks(ta)
  <2>1. Update(a.mfu, id) \in Table /\ GoodRanks(Update(a.mfu, id))
    BY <1>1, <1>2, UpdateCases, UpdateGood
  <2>2. HalveCounts(Update(a.mfu, id)) \in Table /\ GoodRanks(HalveCounts(Update(a.mfu, id)))
    <3>1. SameTable(HalveCounts(Update(a.mfu, id)), Decay(Update(b.mfu, id)))
      BY <1>6, SameHalves
    <3>2. /\ HalveCounts(Update(a.mfu, id)).rank_to_idx = Update(a.mfu, id).rank_to_idx
          /\ HalveCounts(Update(a.mfu, id)).idx_to_rank = Update(a.mfu, id).idx_to_rank
          /\ HalveCounts(Update(a.mfu, id)).num_entries = Update(a.mfu, id).num_entries
      BY <1>6, SameHalves
    <3> QED
      BY <2>1, <3>1, <3>2 DEF GoodRanks, SameTable
  <2> QED
    BY <2>1, <2>2
<1>9. count \in 0 .. DECAY_PERIOD - 1
  BY <1>1, Sizes DEF State
<1>10. Sound(e)
  <2>1. e = TouchInstrument(c, id)
    BY <1>2 DEF EncodeInstrument
  <2> QED
    BY <1>2, <2>1, TouchInstrumentSound
<1> HIDE DEF id, b, count, ta, tb
<1>11. na \in State /\ na.mfu = ta
  BY <1>1, <1>2, <1>8, <1>9 DEF State
<1>12. Sound(Start(na))
  BY <1>8, <1>11 DEF Sound, Start, Cursor, NULL
<1>13. Alike(na, nb)
  <2>1. Alike(a, b)
    BY DEF b
  <2> QED
    BY <1>1, <1>7, <2>1 DEF Alike, Rest, State
<1> HIDE DEF na, nb
<1>14. e.st = nb /\ e.is = id
  BY <1>5
<1> QED
  BY <1>4, <1>10, <1>12, <1>13, <1>14 DEF id

-----------------------------------------------------------------------------
(* Price and quantity: the codec tracks them one by one. *)

\* A price moves the mean of its residuals, the regime and the instrument's
\* last price.
SumAfter(st, residual) ==
    (st.recent_abs_price_sum + (IF residual < 0 THEN -residual ELSE residual)) % U32
FullAfter(st) == st.regime_counter + 1 >= REGIME_WINDOW

Regimed(st, residual) ==
    [st EXCEPT !.recent_abs_price_sum = IF FullAfter(st) THEN 0 ELSE SumAfter(st, residual),
               !.regime_counter       = IF FullAfter(st) THEN 0 ELSE @ + 1,
               !.regime               = IF ~FullAfter(st) THEN @
                                        ELSE IF SumAfter(st, residual) \div REGIME_WINDOW > 30
                                        THEN "volatile" ELSE "calm"]

Priced(st, is, adapt, residual, price) ==
    [ st |-> [Regimed(st, residual) EXCEPT !.price_adapt     = adapt,
                                           !.instruments[is] = [@ EXCEPT !.last_price = price]],
      is |-> is ]

\* A price touches the means and the instrument's last price.
LEMMA PriceParts ==
    ASSUME NEW c \in Cursor, c.is # NULL, NEW price, NEW residual, NEW coded
    PROVE  TrackPrice(c, price, residual, coded) =
               Priced(c.st, c.is, AdaptiveUpdate(c.st.price_adapt, ZigZag(coded)), residual, price)
<1> DEFINE sum     == SumAfter(c.st, residual)
           full    == FullAfter(c.st)
           adapt   == AdaptiveUpdate(c.st.price_adapt, ZigZag(coded))
           recent  == IF full THEN 0 ELSE sum
           counter == IF full THEN 0 ELSE c.st.regime_counter + 1
           regime  == IF ~full THEN c.st.regime
                      ELSE IF sum \div REGIME_WINDOW > 30 THEN "volatile" ELSE "calm"
           tracked == [c EXCEPT !.st.price_adapt = adapt,
                                !.st.recent_abs_price_sum = recent,
                                !.st.regime_counter = counter,
                                !.st.regime = regime]
           st      == [c.st EXCEPT !.recent_abs_price_sum = recent, !.regime_counter = counter,
                                   !.regime = regime]
<1>1. TrackPrice(c, price, residual, coded) =
        [tracked EXCEPT !.st.instruments[c.is].last_price = price]
  BY DEF TrackPrice, Cursor, State, SumAfter, FullAfter
<1>2. Regimed(c.st, residual) = st
  BY DEF Regimed, Cursor, State
<1> HIDE DEF adapt, recent, counter, regime
<1>3. tracked = [st |-> [st EXCEPT !.price_adapt = adapt], is |-> c.is]
  <2> DEFINE c1 == [c EXCEPT !.st.price_adapt = adapt]
             c2 == [c1 EXCEPT !.st.recent_abs_price_sum = recent]
             c3 == [c2 EXCEPT !.st.regime_counter = counter]
             c4 == [c3 EXCEPT !.st.regime = regime]
             s1 == [c.st EXCEPT !.price_adapt = adapt]
             s2 == [s1 EXCEPT !.recent_abs_price_sum = recent]
             s3 == [s2 EXCEPT !.regime_counter = counter]
             s4 == [s3 EXCEPT !.regime = regime]
  <2>1. tracked = c4
    OBVIOUS
  <2>2. c1 = [st |-> s1, is |-> c.is]
    BY DEF Cursor
  <2>3. s4 = [st EXCEPT !.price_adapt = adapt]
    BY DEF Cursor, State
  <2> HIDE DEF tracked, st, c1, s1
  <2>4. c2 = [st |-> s2, is |-> c.is]
    BY <2>2
  <2> HIDE DEF c2, s2
  <2>5. c3 = [st |-> s3, is |-> c.is]
    BY <2>4
  <2> HIDE DEF c3, s3
  <2>6. c4 = [st |-> s4, is |-> c.is]
    BY <2>5
  <2> QED
    BY <2>1, <2>3, <2>6
<1> HIDE DEF tracked, st
<1>4. TrackPrice(c, price, residual, coded) =
          [st |-> [[st EXCEPT !.price_adapt = adapt]
                      EXCEPT !.instruments[c.is] = [@ EXCEPT !.last_price = price]],
           is |-> c.is]
  BY <1>1, <1>3
<1> QED
  BY <1>2, <1>4 DEF Priced, adapt

\* A quantity moves the mean of its residuals and the instrument's last one.
Sized(st, is, adapt, qty) ==
    [ st |-> [st EXCEPT !.qty_adapt = adapt, !.instruments[is] = [@ EXCEPT !.last_qty = qty]],
      is |-> is ]

\* A quantity touches its mean and the instrument's last quantity.
LEMMA QuantityParts ==
    ASSUME NEW st \in State, NEW is \in 0 .. MAX_INSTRUMENTS - 1, NEW qty \in Word32
    PROVE  \E adapt : EncodeQuantity([st |-> st, is |-> is], qty).next = Sized(st, is, adapt, qty)
<1> DEFINE c         == [st |-> st, is |-> is]
           predicted == PredictedQuantity(c)
           residual  == qty - predicted
           coded     == IF RoundLots(qty, predicted) THEN residual \div 100 ELSE residual
           mean      == AdaptiveUpdate(st.qty_adapt, ZigZag(coded))
<1>1. qty % U32 = qty /\ is # NULL
  BY Widths, ModSmall, CodecAssumption DEF Word32, NULL
<1>2. EncodeQuantity(c, qty).next =
          IF residual = 0 THEN KeepQuantity(c, qty)
          ELSE KeepQuantity(TrackQuantity(c, coded), qty)
  BY <1>1 DEF EncodeQuantity
<1>3. TrackQuantity(c, coded) = [st |-> [st EXCEPT !.qty_adapt = mean], is |-> is]
  BY DEF TrackQuantity, State
<1>4. KeepQuantity(c, qty) = Sized(st, is, st.qty_adapt, qty)
  BY <1>1 DEF KeepQuantity, State, Sized
<1> HIDE DEF mean, coded
<1>5. KeepQuantity([st |-> [st EXCEPT !.qty_adapt = mean], is |-> is], qty) = Sized(st, is, mean, qty)
  BY <1>1 DEF KeepQuantity, State, Sized
<1> HIDE DEF residual, c
<1> QED
  BY <1>2, <1>3, <1>4, <1>5 DEF c

\* The regime moves within its type, and moves nothing else.
LEMMA RegimedType ==
    ASSUME NEW st \in State, NEW residual \in Int
    PROVE  /\ Regimed(st, residual) \in State
           /\ Regimed(st, residual).instruments = st.instruments
           /\ Regimed(st, residual).mfu = st.mfu
<1> DEFINE recent  == IF FullAfter(st) THEN 0 ELSE SumAfter(st, residual)
           counter == IF FullAfter(st) THEN 0 ELSE st.regime_counter + 1
           regime  == IF ~FullAfter(st) THEN st.regime
                      ELSE IF SumAfter(st, residual) \div REGIME_WINDOW > 30
                      THEN "volatile" ELSE "calm"
<1>1. Regimed(st, residual) =
          [st EXCEPT !.recent_abs_price_sum = recent, !.regime_counter = counter,
                     !.regime = regime]
  BY DEF Regimed, State
<1>2. recent \in Word32
  <2>1. st.recent_abs_price_sum + (IF residual < 0 THEN -residual ELSE residual) \in Int
    BY Widths DEF State, Word32
  <2> QED
    BY <2>1, Widths, ModType DEF SumAfter, Word32
<1>3. counter \in 0 .. REGIME_WINDOW - 1
  BY CodecAssumption DEF State, FullAfter
<1>4. regime \in {"calm", "volatile"}
  BY DEF State
<1> HIDE DEF recent, counter, regime
<1> QED
  BY <1>1, <1>2, <1>3, <1>4 DEF State

\* An instrument's record as the copies of commit_state leave it.
Now(was, price, qty) ==
    [last_price |-> price, last_qty |-> qty, msg_count |-> (was.msg_count + 1) % U32,
     last_seq_id |-> was.last_seq_id]

InOneGo(was, price, qty) ==
    [was EXCEPT !.last_price = price, !.last_qty = qty, !.msg_count = (was.msg_count + 1) % U32]

\* What a copy writes in one go is what the instrument comes to.
LEMMA NowOf ==
    ASSUME NEW was \in InstrumentState, NEW price, NEW qty
    PROVE  InOneGo(was, price, qty) = Now(was, price, qty)
<1> DEFINE n  == (was.msg_count + 1) % U32
           w1 == [was EXCEPT !.last_price = price]
           w2 == [w1 EXCEPT !.last_qty = qty]
           w3 == [w2 EXCEPT !.msg_count = n]
<1>1. was = [last_price |-> was.last_price, last_qty |-> was.last_qty,
             msg_count |-> was.msg_count, last_seq_id |-> was.last_seq_id]
  BY DEF InstrumentState
<1>2. InOneGo(was, price, qty) = w3
  BY DEF InOneGo
<1>3. Now(was, price, qty) =
          [last_price |-> price, last_qty |-> qty, msg_count |-> n,
           last_seq_id |-> was.last_seq_id]
  BY DEF Now
<1> HIDE DEF n
<1>4. w1 = [last_price |-> price, last_qty |-> was.last_qty,
            msg_count |-> was.msg_count, last_seq_id |-> was.last_seq_id]
  BY <1>1
<1> HIDE DEF w1
<1>5. w2 = [last_price |-> price, last_qty |-> qty,
            msg_count |-> was.msg_count, last_seq_id |-> was.last_seq_id]
  BY <1>4
<1> HIDE DEF w2
<1>6. w3 = [last_price |-> price, last_qty |-> qty, msg_count |-> n,
            last_seq_id |-> was.last_seq_id]
  BY <1>5
<1> HIDE DEF w3
<1> QED
  BY <1>2, <1>3, <1>6

\* The codec comes to the same record in three steps.
WithPrice(instruments, id, price) == [instruments EXCEPT ![id] = [@ EXCEPT !.last_price = price]]
WithQty(instruments, id, qty)     == [instruments EXCEPT ![id] = [@ EXCEPT !.last_qty = qty]]

\* So do the codec's steps: price, quantity, count.
LEMMA NowInSteps ==
    ASSUME NEW I \in [0 .. MAX_INSTRUMENTS - 1 -> InstrumentState],
           NEW id \in 0 .. MAX_INSTRUMENTS - 1, NEW price, NEW qty,
           NEW i1, i1 = WithPrice(I, id, price), NEW i2, i2 = WithQty(i1, id, qty)
    PROVE  [I EXCEPT ![id] = Now(I[id], price, qty)] = OneMore(i2, id)
<1> DEFINE D  == 0 .. MAX_INSTRUMENTS - 1
           r  == I[id]
           n  == (r.msg_count + 1) % U32
           i3 == [i2 EXCEPT ![id].msg_count = (@ + 1) % U32]
           r1 == [last_price |-> price, last_qty |-> r.last_qty,
                  msg_count |-> r.msg_count, last_seq_id |-> r.last_seq_id]
           r2 == [last_price |-> price, last_qty |-> qty,
                  msg_count |-> r.msg_count, last_seq_id |-> r.last_seq_id]
<1>1. r = [last_price |-> r.last_price, last_qty |-> r.last_qty,
           msg_count |-> r.msg_count, last_seq_id |-> r.last_seq_id]
  BY DEF InstrumentState
<1>2. I = [j \in D |-> I[j]]
  OBVIOUS
<1>3. i1 = [j \in D |-> IF j = id THEN r1 ELSE I[j]]
  <2>1. [r EXCEPT !.last_price = price] = r1
    BY <1>1
  <2> HIDE DEF r1
  <2> QED
    BY <2>1 DEF WithPrice
<1>4. i2 = [j \in D |-> IF j = id THEN r2 ELSE I[j]]
  <2>1. [r1 EXCEPT !.last_qty = qty] = r2
    OBVIOUS
  <2> HIDE DEF r1, r2
  <2> QED
    BY <1>3, <2>1 DEF WithQty
<1>5. i3 = [j \in D |-> IF j = id THEN Now(r, price, qty) ELSE I[j]]
  <2>1. [r2 EXCEPT !.msg_count = (@ + 1) % U32] = Now(r, price, qty)
    <3>1. Now(r, price, qty) = [last_price |-> price, last_qty |-> qty, msg_count |-> n,
                                last_seq_id |-> r.last_seq_id]
      BY DEF Now
    <3>2. [r2 EXCEPT !.msg_count = (@ + 1) % U32] = [r2 EXCEPT !.msg_count = n]
      OBVIOUS
    <3> HIDE DEF n
    <3>3. [r2 EXCEPT !.msg_count = n] =
              [last_price |-> price, last_qty |-> qty, msg_count |-> n,
               last_seq_id |-> r.last_seq_id]
      OBVIOUS
    <3> QED
      BY <3>1, <3>2, <3>3
  <2> HIDE DEF r, r2
  <2> QED
    BY <1>4, <2>1
<1> HIDE DEF i3
<1>6. [I EXCEPT ![id] = Now(r, price, qty)] =
          [j \in D |-> IF j = id THEN Now(r, price, qty) ELSE I[j]]
  <2> HIDE DEF r
  <2> QED
    OBVIOUS
<1> QED
  BY <1>5, <1>6 DEF i3, r, OneMore

\* A price and a quantity move both alike, but for the count of the
\* instrument's messages, which the codec has still to move.
LEMMA PricedBeyond ==
    ASSUME NEW a, NEW c, Sound(Start(a)), Sound(c), Alike(a, c.st),
           NEW m, m[2] \in 0 .. MAX_INSTRUMENTS - 1, c.is = m[2],
           m[3] \in Word32, m[4] \in Word32,
           NEW p, p = EncodePrice(c, m[3]).next, NEW q, q = EncodeQuantity(p, m[4]).next
    PROVE  /\ Beyond(CommitInstrumentState(a, m), q.st, m[2]) /\ q.is = m[2]
           /\ Sound(Start(CommitInstrumentState(a, m))) /\ Sound(q)
<1> DEFINE id       == m[2]
           b        == c.st
           price    == m[3]
           qty      == m[4]
           was      == PredictedPrice(c)
           residual == price - was
           full     == FullAfter(b)
           now      == Now(a.instruments[id], price, qty)
<1>1. a \in State /\ b \in State /\ c = [st |-> b, is |-> id]
  BY DEF Sound, Cursor, Start
<1>2. /\ a.instruments = b.instruments /\ a.recent_abs_price_sum = b.recent_abs_price_sum
      /\ a.regime_counter = b.regime_counter /\ a.regime = b.regime
  BY DEF Alike, Rest
<1>3. PredictedPrice([st |-> a, is |-> id]) = was /\ was \in Word32
  <2>1. Seen([st |-> a, is |-> id]) = Seen(c)
    BY <1>2 DEF Seen
  <2> QED
    BY <1>2, <2>1, Predictions, CodecAssumption DEF PredictedPrice
<1>4. price % U32 = price /\ qty % U32 = qty /\ price \in Word64 /\ qty \in Word64
  <2>1. U32 \in Nat /\ price \in 0 .. U32 - 1 /\ qty \in 0 .. U32 - 1
    BY Widths DEF Word32
  <2>2. price % U32 = price /\ qty % U32 = qty
    BY <2>1, ModSmall
  <2>3. Word32 \subseteq Word64
    BY Widths DEF Word32, Word64
  <2> QED
    BY <2>2, <2>3
<1>5. \E x : p = Priced(b, id, x, residual, price)
  <2> DEFINE coded == IF Pennies(price, was) THEN residual \div 100 ELSE residual
  <2>1. p = TrackPrice(c, price, residual, coded)
    BY <1>4 DEF EncodePrice
  <2>2. c \in Cursor /\ c.is # NULL
    BY CodecAssumption DEF Sound, NULL
  <2> HIDE DEF coded, residual
  <2> QED
    BY <2>1, <2>2, PriceParts
<1>6. Sound(p) /\ Sound(q)
  BY <1>4, PriceCoded, QuantityCoded
<1>7. PICK x : p = Priced(b, id, x, residual, price)
  BY <1>5
<1> HIDE DEF residual, b
<1>8. /\ p = [st |-> p.st, is |-> id] /\ p.st \in State
      /\ p.st = [Regimed(b, residual) EXCEPT !.price_adapt     = x,
                                             !.instruments[id] = [@ EXCEPT !.last_price = price]]
  BY <1>6, <1>7 DEF Priced, Sound, Cursor
<1>9. PICK y : q = Sized(p.st, id, y, qty)
  BY <1>8, QuantityParts
<1>10. /\ q.is = id
       /\ q.st = [p.st EXCEPT !.qty_adapt = y, !.instruments[id] = [@ EXCEPT !.last_qty = qty]]
  BY <1>9 DEF Sized
<1>11. CommitInstrumentState(a, m) = [Regimed(a, residual) EXCEPT !.instruments[id] = now]
  <2> DEFINE k == [st |-> a, is |-> id]
             w == PredictedPrice(k)
             d == IF price < w THEN w - price ELSE price - w
             u == (a.recent_abs_price_sum + d) % U32
             f == a.regime_counter + 1 >= REGIME_WINDOW
  <2>1. CommitInstrumentState(a, m) =
            [a EXCEPT !.recent_abs_price_sum = IF f THEN 0 ELSE u,
                      !.regime_counter       = IF f THEN 0 ELSE @ + 1,
                      !.regime               = IF ~f THEN @
                                               ELSE IF u \div REGIME_WINDOW > 30
                                               THEN "volatile" ELSE "calm",
                      !.instruments[id]      = InOneGo(a.instruments[id], price, qty)]
    BY DEF CommitInstrumentState, InOneGo
  <2>2. u = SumAfter(a, residual) /\ f = FullAfter(a)
    BY <1>3, <1>4 DEF SumAfter, FullAfter, residual, Word32, Word64
  <2> DEFINE U(v) == IF f THEN 0 ELSE v
             C(v) == IF f THEN 0 ELSE v + 1
             R(v) == IF ~f THEN v ELSE IF u \div REGIME_WINDOW > 30
                                       THEN "volatile" ELSE "calm"
  <2>3. Regimed(a, residual) =
            [a EXCEPT !.recent_abs_price_sum = U(u), !.regime_counter = C(@), !.regime = R(@)]
    BY <2>2 DEF Regimed
  <2>4. CommitInstrumentState(a, m) =
            [a EXCEPT !.recent_abs_price_sum = U(u), !.regime_counter = C(@), !.regime = R(@),
                      !.instruments[id] = now]
    <3>1. InOneGo(a.instruments[id], price, qty) = now
      <4>1. a.instruments[id] \in InstrumentState
        BY <1>1 DEF State
      <4> QED
        BY <4>1, NowOf
    <3> HIDE DEF u, f, now
    <3> QED
      BY <2>1, <3>1
  <2> HIDE DEF u, f, now, U, C, R
  <2> QED
    BY <2>3, <2>4
<1>12. /\ a.instruments \in [0 .. MAX_INSTRUMENTS - 1 -> InstrumentState]
       /\ residual \in Int
  BY <1>1, <1>3, <1>4, SMTT(20) DEF State, residual, Word32, Word64
<1> HIDE DEF now
<1> DEFINE ra == Regimed(a, residual)
           rb == Regimed(b, residual)
           na == CommitInstrumentState(a, m)
<1>13. /\ ra \in State /\ rb \in State
       /\ ra.instruments = a.instruments /\ rb.instruments = b.instruments
       /\ ra.mfu = a.mfu /\ rb.mfu = b.mfu
  BY <1>1, <1>12, RegimedType
<1>14. Rest(ra, rb)
  <2>1. Rest(a, b)
    BY SMTT(20) DEF Alike, b
  <2> QED
    BY <1>1, <2>1 DEF Rest, Regimed, State, FullAfter, SumAfter
<1> HIDE DEF ra, rb
<1>15. Rest(rb, q.st) /\ q.st \in State
  <2>1. Rest(rb, p.st)
    <3>1. SameTable(rb.mfu, rb.mfu)
      BY <1>13 DEF State, SameTable
    <3> QED
      BY <1>8, <1>13, <3>1 DEF Rest, State, rb
  <2>2. q.st \in State
    BY <1>6 DEF Sound, Cursor
  <2>3. Rest(p.st, q.st)
    <3>1. SameTable(p.st.mfu, p.st.mfu)
      BY <1>8 DEF State, SameTable
    <3> QED
      BY <1>8, <1>10, <3>1 DEF Rest, State
  <2> QED
    BY <2>1, <2>2, <2>3 DEF Rest, SameTable
<1>16. [a.instruments EXCEPT ![id] = now] = OneMore(q.st.instruments, id)
  <2>1. p.st.instruments = WithPrice(a.instruments, id, price)
    BY <1>2, <1>8, <1>13 DEF State, rb, WithPrice
  <2>2. q.st.instruments = WithQty(p.st.instruments, id, qty)
    BY <1>8, <1>10 DEF State, WithQty
  <2> QED
    BY <1>12, <2>1, <2>2, NowInSteps DEF now
<1>17. na = [ra EXCEPT !.instruments = [a.instruments EXCEPT ![id] = now]]
  BY <1>11, <1>13 DEF ra
<1>18. now \in InstrumentState
  <2>1. a.instruments[id] \in InstrumentState
    BY <1>12
  <2>2. (a.instruments[id].msg_count + 1) % U32 \in Word32
    BY <2>1, Widths, ModType DEF InstrumentState, Word32
  <2> QED
    BY <2>1, <2>2 DEF now, Now, InstrumentState
<1>19. /\ na \in State /\ na.mfu = a.mfu
       /\ na.instruments = [a.instruments EXCEPT ![id] = now]
  <2> DEFINE I == [a.instruments EXCEPT ![id] = now]
  <2>1. I \in [0 .. MAX_INSTRUMENTS - 1 -> InstrumentState]
    BY <1>12, <1>18
  <2> HIDE DEF I, na
  <2>2. na = [ra EXCEPT !.instruments = I]
    BY <1>17 DEF I, na
  <2>3. na \in State /\ na.mfu = a.mfu /\ na.instruments = I
    BY <1>13, <2>1, <2>2 DEF State
  <2> QED
    BY <2>3 DEF I
<1>20. Rest(na, ra)
  <2>1. SameTable(ra.mfu, ra.mfu)
    BY <1>13, SMTT(20) DEF State, SameTable
  <2> QED
    BY <1>13, <1>17, <2>1 DEF Rest, State
<1> HIDE DEF na
<1>21. Rest(na, q.st)
  BY <1>14, <1>15, <1>20 DEF Rest, SameTable
<1>22. Sound(Start(na))
  BY <1>19 DEF Sound, Start, Cursor, NULL
<1> QED
  BY <1>6, <1>10, <1>16, <1>19, <1>21, <1>22 DEF Beyond, na

-----------------------------------------------------------------------------
(* Ids and categories, which the copy for trades tracks after the price    *)
(* and the quantity, as the codec does.                                    *)

WithId(instruments, id, seq) == [instruments EXCEPT ![id].last_seq_id = seq]

\* An id is stored alike before and after the instrument's message is counted.
LEMMA IdBeforeCount ==
    ASSUME NEW I \in [0 .. MAX_INSTRUMENTS - 1 -> InstrumentState],
           NEW id \in 0 .. MAX_INSTRUMENTS - 1, NEW seq
    PROVE  /\ WithId(OneMore(I, id), id, seq) = OneMore(WithId(I, id, seq), id)
           /\ OneMore(I, id)[id].last_seq_id = I[id].last_seq_id
<1> DEFINE D  == 0 .. MAX_INSTRUMENTS - 1
           r  == I[id]
           n  == (r.msg_count + 1) % U32
           r1 == [last_price |-> r.last_price, last_qty |-> r.last_qty,
                  msg_count |-> n, last_seq_id |-> r.last_seq_id]
           r2 == [last_price |-> r.last_price, last_qty |-> r.last_qty,
                  msg_count |-> r.msg_count, last_seq_id |-> seq]
           r3 == [last_price |-> r.last_price, last_qty |-> r.last_qty,
                  msg_count |-> n, last_seq_id |-> seq]
<1>1. r = [last_price |-> r.last_price, last_qty |-> r.last_qty,
           msg_count |-> r.msg_count, last_seq_id |-> r.last_seq_id]
  BY DEF InstrumentState
<1>2. [r EXCEPT !.msg_count = n] = r1 /\ [r2 EXCEPT !.msg_count = n] = r3
  <2> HIDE DEF n
  <2> QED
    BY <1>1
<1>3. [r EXCEPT !.last_seq_id = seq] = r2 /\ [r1 EXCEPT !.last_seq_id = seq] = r3
  <2> HIDE DEF n
  <2> QED
    BY <1>1
<1>4. r2.msg_count = r.msg_count /\ r1.last_seq_id = r.last_seq_id
  OBVIOUS
<1> HIDE DEF r1, r2, r3
<1>5. OneMore(I, id) = [j \in D |-> IF j = id THEN r1 ELSE I[j]]
  BY <1>2 DEF OneMore
<1>6. WithId(I, id, seq) = [j \in D |-> IF j = id THEN r2 ELSE I[j]]
  BY <1>3 DEF WithId
<1> HIDE DEF r
<1>7. WithId(OneMore(I, id), id, seq) = [j \in D |-> IF j = id THEN r3 ELSE I[j]]
  BY <1>3, <1>5 DEF WithId
<1>8. OneMore(WithId(I, id, seq), id) = [j \in D |-> IF j = id THEN r3 ELSE I[j]]
  BY <1>2, <1>4, <1>6 DEF OneMore
<1>9. OneMore(I, id)[id].last_seq_id = r.last_seq_id
  BY <1>4, <1>5
<1> QED
  BY <1>7, <1>8, <1>9 DEF r

\* The parts of the state that an id moves.
Numbered(st, is, fi, id, mean) ==
    [st EXCEPT !.field_state[fi] = [last_value |-> id, adapt |-> mean],
               !.instruments     = WithId(@, is, id)]

\* An id touches its field's state and the instrument's.
LEMMA IdParts ==
    ASSUME NEW st \in State, NEW is \in 0 .. MAX_INSTRUMENTS - 1,
           NEW fi \in 1 .. MAX_FIELDS, NEW id, NEW delta
    PROVE  TrackId([st |-> st, is |-> is], fi, id, delta) =
               [ st |-> Numbered(st, is, fi, id,
                            AdaptiveUpdate(st.field_state[fi].adapt, ZigZag(delta))),
                 is |-> is ]
<1> DEFINE c       == [st |-> st, is |-> is]
           mean    == AdaptiveUpdate(st.field_state[fi].adapt, ZigZag(delta))
           f       == [last_value |-> id, adapt |-> mean]
           tracked == [c EXCEPT !.st.field_state[fi] = f]
           s       == [st EXCEPT !.field_state[fi] = f]
<1>1. TrackId(c, fi, id, delta) = [tracked EXCEPT !.st.instruments[is].last_seq_id = id]
  BY CodecAssumption DEF TrackId, NULL
<1>2. Numbered(st, is, fi, id, mean) = [s EXCEPT !.instruments = WithId(@, is, id)]
  BY DEF Numbered
<1> HIDE DEF f
<1>3. tracked = [st |-> s, is |-> is]
  OBVIOUS
<1> HIDE DEF tracked, s
<1>4. TrackId(c, fi, id, delta) =
          [st |-> [s EXCEPT !.instruments[is].last_seq_id = id], is |-> is]
  BY <1>1, <1>3
<1>5. [s EXCEPT !.instruments[is].last_seq_id = id] = [s EXCEPT !.instruments = WithId(@, is, id)]
  BY DEF WithId
<1> QED
  BY <1>2, <1>4, <1>5

\* An id moves both alike.
LEMMA IdBeyond ==
    ASSUME NEW k, NEW c, Sound(k), Sound(c), NEW id \in 0 .. MAX_INSTRUMENTS - 1,
           k.is = id, c.is = id, Beyond(k.st, c.st, id),
           NEW fi \in 1 .. MAX_FIELDS, NEW seq \in Word64,
           NEW n, n = TrackId(k, fi, seq, Signed(seq - PredictedId(k, fi))),
           NEW e, e = EncodeSequentialId(c, fi, seq).next
    PROVE  Beyond(n.st, e.st, id) /\ n.is = id /\ e.is = id /\ Sound(n) /\ Sound(e)
<1> DEFINE a     == k.st
           b     == c.st
           delta == Signed(seq - PredictedId(k, fi))
           mean  == AdaptiveUpdate(a.field_state[fi].adapt, ZigZag(delta))
<1>1. /\ a \in State /\ b \in State
      /\ k = [st |-> a, is |-> id] /\ c = [st |-> b, is |-> id]
  BY DEF Sound, Cursor
<1>2. /\ a.field_state = b.field_state /\ a.instruments = OneMore(b.instruments, id)
      /\ b.instruments \in [0 .. MAX_INSTRUMENTS - 1 -> InstrumentState]
  BY <1>1 DEF Beyond, Rest, State
<1>3. PredictedId(k, fi) = PredictedId(c, fi)
  <2>1. a.instruments[id].last_seq_id = b.instruments[id].last_seq_id
    BY <1>2, IdBeforeCount
  <2> QED
    BY <1>2, <2>1 DEF PredictedId
<1>4. e = TrackId(c, fi, seq, delta)
  BY <1>3 DEF EncodeSequentialId
<1>5. Sound(e)
  BY SequentialIdCoded
<1>6. Sound(n)
  <2>1. delta \in Int64
    BY Predictions, DifferenceRecovered
  <2> QED
    BY <2>1, TrackIdSound
<1> HIDE DEF delta
<1>7. n = [st |-> Numbered(a, id, fi, seq, mean), is |-> id]
  <2> HIDE DEF a
  <2> QED
    BY <1>1, IdParts DEF delta
<1>8. e = [st |-> Numbered(b, id, fi, seq, mean), is |-> id]
  <2> HIDE DEF a, b
  <2> QED
    BY <1>1, <1>2, <1>4, IdParts
<1> HIDE DEF a, b, mean
<1>9. Rest(a, b)
  BY DEF Beyond, a, b
<1>10. Rest(Numbered(a, id, fi, seq, mean), Numbered(b, id, fi, seq, mean))
  BY <1>1, <1>9 DEF Rest, Numbered, State
<1>11. /\ Numbered(a, id, fi, seq, mean).instruments = WithId(a.instruments, id, seq)
       /\ Numbered(b, id, fi, seq, mean).instruments = WithId(b.instruments, id, seq)
  BY <1>1 DEF Numbered, State
<1>12. WithId(a.instruments, id, seq) = OneMore(WithId(b.instruments, id, seq), id)
  BY <1>2, IdBeforeCount
<1> QED
  BY <1>5, <1>6, <1>7, <1>8, <1>10, <1>11, <1>12 DEF Beyond

\* So does a category.
LEMMA ValueBeyond ==
    ASSUME NEW k, NEW c, Sound(k), Sound(c), NEW id \in 0 .. MAX_INSTRUMENTS - 1,
           k.is = id, c.is = id, Beyond(k.st, c.st, id),
           NEW fi \in 1 .. MAX_FIELDS, NEW val \in Word64,
           NEW n, n = KeepValue(k, fi, val), NEW e, e = KeepValue(c, fi, val)
    PROVE  Beyond(n.st, e.st, id) /\ n.is = id /\ e.is = id /\ Sound(n) /\ Sound(e)
<1>1. k.st \in State /\ c.st \in State
  BY DEF Sound, Cursor
<1>2. Sound(n) /\ Sound(e)
  BY KeepValueSound
<1>3. /\ n.st = [k.st EXCEPT !.field_state[fi].last_value = val] /\ n.is = id
      /\ e.st = [c.st EXCEPT !.field_state[fi].last_value = val] /\ e.is = id
  BY DEF KeepValue, Sound, Cursor
<1>4. Rest(k.st, c.st) /\ k.st.instruments = OneMore(c.st.instruments, id)
  BY DEF Beyond
<1>5. Rest(n.st, e.st)
  BY <1>1, <1>3, <1>4 DEF Rest, State
<1>6. n.st.instruments = k.st.instruments /\ e.st.instruments = c.st.instruments
  BY <1>1, <1>3 DEF State
<1> QED
  BY <1>2, <1>3, <1>4, <1>5, <1>6 DEF Beyond

\* At the end of the message they are alike again.
LEMMA FinishAlike ==
    ASSUME NEW a, NEW c, Sound(Start(a)), Sound(c), NEW id \in 0 .. MAX_INSTRUMENTS - 1,
           c.is = id, Beyond(a, c.st, id),
           NEW n, n = [a EXCEPT !.msg_count = (@ + 1) % U64]
    PROVE  Alike(n, Finish(c)) /\ Sound(Start(n)) /\ Sound(Start(Finish(c)))
<1> DEFINE st == [c.st EXCEPT !.msg_count = (@ + 1) % U64]
<1>1. a \in State /\ c.st \in State
  BY DEF Sound, Cursor, Start
<1>2. n = Finish(Start(a))
  BY DEF Finish, Start
<1>3. Sound(Start(n)) /\ Sound(Start(Finish(c)))
  BY <1>2, FinishSound
<1>4. Rest(a, c.st) /\ a.instruments = OneMore(c.st.instruments, id)
  BY DEF Beyond
<1>5. Rest(n, st) /\ n.instruments = a.instruments /\ st.instruments = c.st.instruments
      /\ st \in State
  <2>1. (c.st.msg_count + 1) % U64 \in Word64
    <3>1. c.st.msg_count + 1 \in Int
      BY <1>1 DEF State, Word64
    <3> QED
      BY <3>1, Widths, ModType DEF Word64
  <2> DEFINE count == (c.st.msg_count + 1) % U64
  <2>2. n = [a EXCEPT !.msg_count = count]
    BY <1>4 DEF Rest
  <2>3. st = [c.st EXCEPT !.msg_count = count]
    OBVIOUS
  <2>4. count \in Word64
    BY <2>1
  <2> HIDE DEF count, st
  <2>5. st \in State
    BY <1>1, <2>3, <2>4 DEF State
  <2>6. n.instruments = a.instruments /\ st.instruments = c.st.instruments
    BY <1>1, <2>2, <2>3 DEF State
  <2>7. Rest([a EXCEPT !.msg_count = count], [c.st EXCEPT !.msg_count = count])
    <3> DEFINE s == c.st
    <3>1. s \in State /\ Rest(a, s)
      BY <1>1, <1>4
    <3> HIDE DEF s
    <3>2. Rest([a EXCEPT !.msg_count = count], [s EXCEPT !.msg_count = count])
      BY ONLY <1>1, <3>1 DEF Rest, State
    <3> QED
      BY <3>2 DEF s
  <2> QED
    BY <2>2, <2>3, <2>5, <2>6, <2>7
<1>6. Finish(c) = [st EXCEPT !.instruments = OneMore(@, id)]
  BY CodecAssumption DEF Finish, OneMore, NULL
<1> HIDE DEF st
<1>7. Rest(st, Finish(c)) /\ Finish(c).instruments = OneMore(st.instruments, id)
  <2>1. SameTable(st.mfu, st.mfu)
    BY <1>5 DEF State, SameTable
  <2> QED
    BY <1>5, <1>6, <2>1 DEF Rest, State
<1> QED
  BY <1>3, <1>4, <1>5, <1>7 DEF Alike, Rest, SameTable
-----------------------------------------------------------------------------
(* Whole messages. *)

\* The fields of quotes and of trades.
LEMMA QuoteFields ==
    /\ Len(QuoteSchema) = 5
    /\ QuoteSchema[1].type = "TIMESTAMP" /\ QuoteSchema[2].type = "INSTRUMENT"
    /\ QuoteSchema[3].type = "PRICE" /\ QuoteSchema[4].type = "QUANTITY"
    /\ QuoteSchema[5].type = "BOOL"
  BY DEF QuoteSchema, Field

\* The fields of a trade.
LEMMA TradeFields ==
    /\ Len(TradeSchema) = 8
    /\ TradeSchema[1].type = "TIMESTAMP" /\ TradeSchema[2].type = "INSTRUMENT"
    /\ TradeSchema[3].type = "PRICE" /\ TradeSchema[4].type = "QUANTITY"
    /\ TradeSchema[5].type = "SEQUENTIAL_ID" /\ TradeSchema[6].type = "CATEGORICAL"
    /\ TradeSchema[7].type = "CATEGORICAL" /\ TradeSchema[8].type = "BOOL"
  BY DEF TradeSchema, Field

\* Both begin with the same four.
Begins(schema) ==
    /\ 4 <= Len(schema)
    /\ schema[1].type = "TIMESTAMP" /\ schema[2].type = "INSTRUMENT"
    /\ schema[3].type = "PRICE" /\ schema[4].type = "QUANTITY"

\* Timestamp, instrument, price and quantity come first in both.
LEMMA BothBegin == Begins(QuoteSchema) /\ Begins(TradeSchema)
<1>1. Begins(QuoteSchema)
  BY QuoteFields DEF Begins
<1>2. Begins(TradeSchema)
  BY TradeFields DEF Begins
<1> QED
  BY <1>1, <1>2

\* After those four fields, a copy of commit_state and the codec are as far as
\* each other, but for the instrument's state, which the copy has done with.
LEMMA FourFields ==
    ASSUME NEW schema, IsSchema(schema), Begins(schema),
           NEW m \in Message(schema), Representable(schema, m), m[2] < MAX_INSTRUMENTS,
           NEW a, NEW b, Sound(Start(a)), Sound(Start(b)), Alike(a, b),
           NEW t, Trail(b, schema, m, t),
           NEW n, n = CommitInstrumentState(CommitTable(CommitTime(a, m), m), m)
    PROVE  /\ Beyond(n, t[4].st, m[2]) /\ t[4].is = m[2]
           /\ Sound(Start(n)) /\ Sound(t[4])
           /\ m[2] \in 0 .. MAX_INSTRUMENTS - 1
<1>1. Len(schema) \in Nat /\ Fields(schema) = 1 .. Len(schema) /\ 4 <= Len(schema)
  BY SchemaLength DEF Begins
<1>2. \A i \in 1 .. 4 : i \in Fields(schema) /\ m[i] \in Word64
  BY <1>1 DEF Message
<1>3. m[2] \in 0 .. MAX_INSTRUMENTS - 1
  BY <1>2, CodecAssumption, Widths DEF Word64
<1>4. m[3] \in Word32 /\ m[4] \in Word32
  BY <1>2, Widths, SMTT(20) DEF Representable, Begins, Word64, Word32
<1>5. \A i \in 1 .. 4 : t[i] = EncodeField(t[i - 1], schema, i, m).next
  BY <1>1 DEF Trail
<1>6. t[0] = Start(b)
  BY DEF Trail
<1>7. t[1] = EncodeTimestamp(Start(b), m[1]).next
  BY <1>5, <1>6 DEF EncodeField, Begins
<1>8. t[2] = EncodeInstrument(t[1], m[2]).next
  BY <1>5 DEF EncodeField, Begins
<1>9. t[3] = EncodePrice(t[2], m[3]).next
  BY <1>5 DEF EncodeField, Begins
<1>10. t[4] = EncodeQuantity(t[3], m[4]).next
  BY <1>5 DEF EncodeField, Begins
<1> DEFINE a1 == CommitTime(a, m)
           a2 == CommitTable(a1, m)
<1>11. Alike(a1, t[1].st) /\ Sound(Start(a1)) /\ Sound(t[1])
  BY <1>2, <1>7, TimeAlike
<1> HIDE DEF a1
<1>12. Alike(a2, t[2].st) /\ t[2].is = m[2] /\ Sound(Start(a2)) /\ Sound(t[2])
  BY <1>3, <1>8, <1>11, InstrumentAlike
<1> HIDE DEF a2
<1>13. n = CommitInstrumentState(a2, m)
  BY DEF a1, a2
<1> QED
  BY <1>3, <1>4, <1>9, <1>10, <1>12, <1>13, PricedBeyond

\* A quote.
LEMMA QuoteAlike ==
    ASSUME IsSchema(QuoteSchema),
           NEW m \in Message(QuoteSchema), Representable(QuoteSchema, m), m[2] < MAX_INSTRUMENTS,
           NEW b, Sound(Start(enc)), Sound(Start(b)), Alike(enc, b),
           NEW e, e = EncodeFields(b, QuoteSchema, m).st
    PROVE  Alike(CommitQuote(m), e) /\ Sound(Start(CommitQuote(m))) /\ Sound(Start(e))
<1>1. Begins(QuoteSchema)
  BY BothBegin
<1>2. PICK t : Trail(b, QuoteSchema, m, t)
  BY TrailExists
<1> DEFINE n == CommitInstrumentState(CommitTable(CommitTime(enc, m), m), m)
<1>3. /\ Beyond(n, t[4].st, m[2]) /\ t[4].is = m[2] /\ Sound(Start(n)) /\ Sound(t[4])
      /\ m[2] \in 0 .. MAX_INSTRUMENTS - 1
  BY <1>1, <1>2, FourFields
<1>4. t[5] = t[4]
  <2>1. t[5] = EncodeField(t[4], QuoteSchema, 5, m).next
    BY <1>2, QuoteFields DEF Trail
  <2> QED
    BY <2>1, QuoteFields DEF EncodeField, EncodeBool
<1>5. e = Finish(t[4])
  <2>1. EncodeFields(b, QuoteSchema, m) =
            [words |-> WordsOf(QuoteSchema, m, t, Len(QuoteSchema)), st |-> Finish(t[Len(QuoteSchema)])]
    BY <1>2, EncodeFieldsIs
  <2> QED
    BY <1>4, <2>1, QuoteFields
<1>6. CommitQuote(m) = [n EXCEPT !.msg_count = (@ + 1) % U64]
  BY DEF CommitQuote
<1> HIDE DEF n
<1> QED
  BY <1>3, <1>5, <1>6, FinishAlike

\* A trade.
LEMMA TradeAlike ==
    ASSUME IsSchema(TradeSchema),
           NEW m \in Message(TradeSchema), Representable(TradeSchema, m), m[2] < MAX_INSTRUMENTS,
           NEW b, Sound(Start(enc)), Sound(Start(b)), Alike(enc, b),
           NEW e, e = EncodeFields(b, TradeSchema, m).st
    PROVE  Alike(CommitTrade(m), e) /\ Sound(Start(CommitTrade(m))) /\ Sound(Start(e))
<1>1. Begins(TradeSchema)
  BY BothBegin
<1>2. PICK t : Trail(b, TradeSchema, m, t)
  BY TrailExists
<1> DEFINE n == CommitInstrumentState(CommitTable(CommitTime(enc, m), m), m)
           k == [st |-> n, is |-> m[2]]
           k5 == TrackId(k, 5, m[5], Signed(m[5] - PredictedId(k, 5)))
           k6 == KeepValue(k5, 6, m[6])
           k7 == KeepValue(k6, 7, m[7])
<1>3. /\ Beyond(n, t[4].st, m[2]) /\ t[4].is = m[2] /\ Sound(Start(n)) /\ Sound(t[4])
      /\ m[2] \in 0 .. MAX_INSTRUMENTS - 1
  BY <1>1, <1>2, FourFields
<1>4. \A i \in 1 .. 8 : i \in 1 .. MAX_FIELDS /\ m[i] \in Word64
  <2>1. 8 <= MAX_FIELDS /\ MAX_FIELDS \in Nat
    BY TradeFields, CodecAssumption DEF IsSchema
  <2>2. Fields(TradeSchema) = 1 .. 8
    BY TradeFields DEF Fields
  <2> QED
    BY <2>1, <2>2 DEF Message
<1>5. \A i \in 1 .. 8 : t[i] = EncodeField(t[i - 1], TradeSchema, i, m).next
  BY <1>2, TradeFields, SMTT(20) DEF Trail
<1>6. t[5] = EncodeSequentialId(t[4], 5, m[5]).next
  BY <1>5, TradeFields DEF EncodeField
<1>7. t[6] = KeepValue(t[5], 6, m[6])
  <2>1. t[6] = EncodeField(t[5], TradeSchema, 6, m).next
    BY <1>5
  <2>2. t[6] = EncodeCategorical(t[5], 6, m[6]).next
    BY <2>1, TradeFields DEF EncodeField
  <2> QED
    BY <2>2 DEF EncodeCategorical
<1>8. t[7] = KeepValue(t[6], 7, m[7])
  <2>1. t[7] = EncodeField(t[6], TradeSchema, 7, m).next
    BY <1>5
  <2>2. t[7] = EncodeCategorical(t[6], 7, m[7]).next
    BY <2>1, TradeFields DEF EncodeField
  <2> QED
    BY <2>2 DEF EncodeCategorical
<1>9. t[8] = t[7]
  BY <1>5, TradeFields DEF EncodeField, EncodeBool
<1>10. e = Finish(t[7])
  <2>1. EncodeFields(b, TradeSchema, m) =
            [words |-> WordsOf(TradeSchema, m, t, Len(TradeSchema)), st |-> Finish(t[Len(TradeSchema)])]
    BY <1>2, EncodeFieldsIs
  <2> QED
    BY <1>9, <2>1, TradeFields
<1>11. CommitTrade(m) = [k7.st EXCEPT !.msg_count = (@ + 1) % U64]
  BY DEF CommitTrade
<1> HIDE DEF n
<1>12. Sound(k) /\ k.st = n /\ k.is = m[2]
  BY <1>3, SoundAt
<1> HIDE DEF k
<1>13. Beyond(k5.st, t[5].st, m[2]) /\ k5.is = m[2] /\ t[5].is = m[2] /\ Sound(k5) /\ Sound(t[5])
  BY <1>3, <1>4, <1>6, <1>12, IdBeyond
<1> HIDE DEF k5
<1>14. Beyond(k6.st, t[6].st, m[2]) /\ k6.is = m[2] /\ t[6].is = m[2] /\ Sound(k6) /\ Sound(t[6])
  <2>1. 6 \in 1 .. MAX_FIELDS /\ m[6] \in Word64
    BY <1>4
  <2>2. k6 = KeepValue(k5, 6, m[6])
    OBVIOUS
  <2> HIDE DEF k6
  <2> QED
    BY <1>3, <1>7, <1>13, <2>1, <2>2, ValueBeyond
<1> HIDE DEF k6
<1>15. Beyond(k7.st, t[7].st, m[2]) /\ k7.is = m[2] /\ t[7].is = m[2] /\ Sound(k7) /\ Sound(t[7])
  <2>1. 7 \in 1 .. MAX_FIELDS /\ m[7] \in Word64
    BY <1>4
  <2>2. k7 = KeepValue(k6, 7, m[7])
    OBVIOUS
  <2> HIDE DEF k7
  <2> QED
    BY <1>3, <1>8, <1>14, <2>1, <2>2, ValueBeyond
<1> HIDE DEF k7
<1>16. Sound(Start(k7.st))
  <2>1. k7 = [st |-> k7.st, is |-> k7.is]
    BY <1>15 DEF Sound, Cursor
  <2> QED
    BY <1>15, <2>1, SoundState
<1> QED
  BY <1>3, <1>10, <1>11, <1>15, <1>16, FinishAlike
-----------------------------------------------------------------------------
(* The codec states, in every experiment and in every program that looks   *)
(* into the codec.                                                         *)

\* What the copies have moved predicts as what the codec has moved.
Experimenting ==
    /\ Sending
    /\ Sound(Start(enc))
    /\ program \in Predicting => Sound(Start(core)) /\ Alike(enc, core)

\* An experiment's step: the copy of commit_state for its schema, and the
\* codec's own encode_fields.
LEMMA ActionStep ==
    ASSUME Sending, NEW m,
           \/ Stock(m) \/ TimestampLastgap(m) \/ PriceStride(m) \/ QuantityFreq(m)
           \/ Instrument2back(m) \/ SeqidPerdelta(m)
    PROVE  /\ Loop(program, m) /\ program \in Predicting
           /\ program \in Quoting \cup {"seqid_perdelta"}
           /\ core' = EncodeFields(core, Schema, m).st
           /\ enc' = IF program \in Quoting THEN CommitQuote(m) ELSE CommitTrade(m)
<1>1. PICK p \in Quoting \cup {"seqid_perdelta"} :
          /\ Measure(p, m)
          /\ enc' = IF p \in Quoting THEN CommitQuote(m) ELSE CommitTrade(m)
  <2>1. CASE Stock(m)
    BY <2>1 DEF Stock, Quoting
  <2>2. CASE TimestampLastgap(m)
    BY <2>2 DEF TimestampLastgap, Quoting
  <2>3. CASE PriceStride(m)
    BY <2>3 DEF PriceStride, Quoting
  <2>4. CASE QuantityFreq(m)
    BY <2>4 DEF QuantityFreq, Quoting
  <2>5. CASE Instrument2back(m)
    BY <2>5 DEF Instrument2back, Quoting
  <2>6. CASE SeqidPerdelta(m)
    BY <2>6 DEF SeqidPerdelta, Quoting
  <2> QED
    BY <2>1, <2>2, <2>3, <2>4, <2>5, <2>6
<1>2. program = p /\ Loop(program, m)
  BY <1>1 DEF Measure, Loop
<1>3. core' = EncodeFields(core, Schema, m).st
  BY <1>1 DEF Measure, MeasureBaseline
<1>4. program \in Predicting
  BY <1>2, MeasuresAssumption DEF Sending, Quoting
<1> QED
  BY <1>1, <1>2, <1>3, <1>4

\* What every experiment does with the two states.
LEMMA PredictionsStep ==
    ASSUME PredictionsNext, Sending
    PROVE  \E t \in Templates :
              /\ Loop(program, Generated(t)) /\ program \in Predicting
              /\ program \in Quoting \cup {"seqid_perdelta"}
              /\ core' = EncodeFields(core, Schema, Generated(t)).st
              /\ enc' = IF program \in Quoting THEN CommitQuote(Generated(t))
                        ELSE CommitTrade(Generated(t))
  BY ActionStep DEF PredictionsNext

\* A step of the other programs: residc_encode.
LEMMA MeasuresStep ==
    ASSUME MeasuresNext, Sending
    PROVE  \E t \in Templates :
              /\ Loop(program, Generated(t)) /\ program \notin Predicting
              /\ enc' = EncodeFields(enc, Schema, Generated(t)).st
<1>1. PICK t \in Templates : \E m \in {Generated(t)} :
          \/ ExtractResidualsGeneric(m) \/ ExtractResiduals(m) \/ ExtractFieldResiduals(m)
          \/ AnalyzeMfuDistribution(m) \/ QuantityRuns(m)
  BY DEF MeasuresNext
<1> DEFINE m == Generated(t)
<1>2. PICK p \in {"ans", "combined_write", "k_sweep", "mfu_varlen", "qty_runs"} : Encode(p, m)
  <2> HIDE DEF m
  <2>0. m = Generated(t)
    BY DEF m
  <2>1. CASE ExtractResidualsGeneric(m)
    BY <2>1 DEF ExtractResidualsGeneric
  <2>2. CASE ExtractResiduals(m)
    BY <2>2 DEF ExtractResiduals
  <2>3. CASE ExtractFieldResiduals(m)
    BY <2>3 DEF ExtractFieldResiduals
  <2>4. CASE AnalyzeMfuDistribution(m)
    BY <2>4 DEF AnalyzeMfuDistribution
  <2>5. CASE QuantityRuns(m)
    BY <2>5 DEF QuantityRuns
  <2> QED
    BY <1>1, <2>0, <2>1, <2>2, <2>3, <2>4, <2>5
<1>3. program = p /\ Loop(program, m)
  BY <1>2 DEF Encode, Loop
<1>4. enc' = EncodeFields(enc, Schema, m).st
  BY <1>2 DEF Encode
<1>5. program \notin Predicting
  BY <1>2, <1>3, PredictionsAssumption DEF Quoting
<1> QED
  BY <1>3, <1>4, <1>5

\* residc_init leaves the copy and the codec alike.
LEMMA InitExperimenting == Init => Experimenting
<1> SUFFICES ASSUME Init PROVE Experimenting
  OBVIOUS
<1>1. Sending
  BY InitSending
<1>2. enc = InitState /\ core = InitState
  BY DEF Init, PredictionsInit, MeasuresInit, Begin
<1>3. Sound(Start(InitState))
  BY InitSound
<1>4. InitState.mfu \in Table
  BY <1>3 DEF Sound, Start, Cursor, State
<1>5. SameTable(InitState.mfu, InitState.mfu)
  BY <1>4 DEF SameTable
<1>6. Alike(InitState, InitState)
  BY <1>5 DEF Alike, Rest
<1> QED
  BY <1>1, <1>2, <1>3, <1>6 DEF Experimenting

\* Each message leaves them alike.
LEMMA NextExperimenting == Experimenting /\ [Next]_vars => Experimenting'
<1> SUFFICES ASSUME Experimenting, [Next]_vars PROVE Experimenting'
  OBVIOUS
<1>1. Sending /\ program \in Predicting \cup Measuring
  BY DEF Experimenting, Sending
<1>2. IsSchema(Schema)
  BY <1>1, SchemaGiven
<1>3. CASE PredictionsNext
  <2>1. PICK t \in Templates :
            /\ Loop(program, Generated(t)) /\ program \in Predicting
            /\ program \in Quoting \cup {"seqid_perdelta"}
            /\ core' = EncodeFields(core, Schema, Generated(t)).st
            /\ enc' = IF program \in Quoting THEN CommitQuote(Generated(t))
                      ELSE CommitTrade(Generated(t))
    BY <1>1, <1>3, PredictionsStep
  <2> DEFINE m == Generated(t)
  <2>2. m \in Message(Schema) /\ Representable(Schema, m)
    BY <1>1, <2>1, GeneratedValues DEF Loop
  <2>3. m[2] < MAX_INSTRUMENTS
    <3>1. t[2] < MAX_INSTRUMENTS
      BY <2>1, PredictionsAssumption DEF Templates
    <3>2. Schema = QuoteSchema \/ Schema = TradeSchema
      BY <2>1, PredictionsAssumption DEF Schema
    <3>3. 2 \in Fields(Schema) /\ Schema[2].type = "INSTRUMENT"
      <4>1. Begins(Schema)
        BY <3>2, BothBegin
      <4> QED
        BY <1>1, <4>1, SchemaGiven DEF Begins
    <3>4. ~Rising(Schema, 2)
      BY <3>3 DEF Rising
    <3> QED
      BY <1>1, <2>1, <3>1, <3>3, <3>4, GeneratedValues DEF Loop
  <2>4. Sending' /\ program' = program
    BY <1>1, <2>1, LoopSends DEF Loop
  <2>5. Sound(Start(enc)) /\ Sound(Start(core)) /\ Alike(enc, core)
    BY <2>1 DEF Experimenting
  <2>6. Sound(Start(enc')) /\ Sound(Start(core')) /\ Alike(enc', core')
    <3>1. CASE program \in Quoting
      <4>1. Schema = QuoteSchema
        BY <2>1, <3>1, PredictionsAssumption DEF Schema
      <4>2. core' = EncodeFields(core, QuoteSchema, m).st /\ enc' = CommitQuote(m)
        BY <2>1, <3>1, <4>1
      <4>3. IsSchema(QuoteSchema) /\ m \in Message(QuoteSchema) /\ Representable(QuoteSchema, m)
        BY <1>2, <2>2, <4>1
      <4> HIDE DEF m
      <4> QED
        BY <2>3, <2>5, <4>2, <4>3, QuoteAlike
    <3>2. CASE program \notin Quoting
      <4>1. Schema = TradeSchema
        BY <2>1, <3>2, PredictionsAssumption DEF Schema
      <4>2. core' = EncodeFields(core, TradeSchema, m).st /\ enc' = CommitTrade(m)
        BY <2>1, <3>2, <4>1
      <4>3. IsSchema(TradeSchema) /\ m \in Message(TradeSchema) /\ Representable(TradeSchema, m)
        BY <1>2, <2>2, <4>1
      <4> HIDE DEF m
      <4> QED
        BY <2>3, <2>5, <4>2, <4>3, TradeAlike
    <3> QED
      BY <3>1, <3>2
  <2>7. Sound(Start(enc))'
    BY <2>6 DEF Sound, Start
  <2>8. (Sound(Start(core)) /\ Alike(enc, core))'
    BY <2>6 DEF Sound, Start, Alike, Rest
  <2> QED
    BY <2>4, <2>7, <2>8 DEF Experimenting
<1>4. CASE MeasuresNext
  <2>1. PICK t \in Templates :
            /\ Loop(program, Generated(t)) /\ program \notin Predicting
            /\ enc' = EncodeFields(enc, Schema, Generated(t)).st
    BY <1>1, <1>4, MeasuresStep
  <2> DEFINE m == Generated(t)
  <2>2. m \in Message(Schema) /\ Typed(Schema, m) /\ Representable(Schema, m)
    BY <1>1, <2>1, GeneratedValues DEF Loop
  <2>3. Sending' /\ program' = program
    BY <1>1, <2>1, LoopSends DEF Loop
  <2>4. Sound(Start(enc'))
    <3> HIDE DEF m
    <3>1. enc' = EncodeFields(enc, Schema, m).st
      BY <2>1 DEF m
    <3> QED
      BY <1>2, <2>2, <3>1, FieldsCarried DEF Experimenting
  <2>5. Sound(Start(enc))'
    BY <2>4 DEF Sound, Start
  <2> QED
    BY <2>1, <2>3, <2>5 DEF Experimenting
<1>5. CASE UNCHANGED vars
  <2>1. Sending'
    BY <1>1, <1>5 DEF vars, Sending, Schema, Templates, Reached
  <2> QED
    BY <1>5, <2>1 DEF vars, compared, Experimenting, Sound, Start, Alike, Rest
<1> QED
  BY <1>3, <1>4, <1>5 DEF Next

\* In every run of a program of bench/, the states of the codec and of the copy
\* of commit_state are sound and alike, and what is left to send has room.
THEOREM AlwaysExperimenting == Spec => []Experimenting
  BY InitExperimenting, NextExperimenting, PTL DEF Spec

\* The predictors that an experiment leaves alone predict as the codec does:
\* the tables of the copies and of the codec hold the same instruments in the
\* same slots, although the copies never rebuild the ranks, and all of the
\* state that predictions are taken from is the same.
THEOREM AlwaysSamePredictions == Spec => []SamePredictions
<1>1. Experimenting => SamePredictions
  <2> SUFFICES ASSUME Experimenting, program \in Predicting PROVE PredictsAlike
    BY DEF SamePredictions
  <2>1. Rest(enc, core) /\ enc.instruments = core.instruments /\ SameTable(enc.mfu, core.mfu)
    BY DEF Experimenting, Alike, Rest
  <2>2. \A id \in Ids : Lookup(enc.mfu, id) = Lookup(core.mfu, id)
    BY <2>1, SameLookup
  <2>3. PredictedGap(enc) = PredictedGap(core) /\ TimestampK(enc) = TimestampK(core)
    BY <2>1 DEF Rest, PredictedGap, TimestampK, ByRegime
  <2> QED
    BY <2>1, <2>2, <2>3 DEF Rest, PredictsAlike
<1> QED
  BY <1>1, AlwaysExperimenting, PTL
-----------------------------------------------------------------------------
(* The messages sent, and what is taken from them. *)

\* The largest of a set of numbers is what Max is, and the least what Min is.
LEMMA MaxIs ==
    ASSUME NEW T, T \subseteq Int, NEW x \in T, \A y \in T : y <= x
    PROVE  Max(T) = x
<1>1. \A y \in T : x >= y
  OBVIOUS
<1>2. \A z \in T : (\A y \in T : z >= y) => z = x
  OBVIOUS
<1> QED
  BY <1>1, <1>2 DEF Max

\* A set of places has a last one.
LEMMA MaxOfPlaces ==
    ASSUME NEW n \in Nat, NEW T, T \subseteq 1 .. n, T # {}
    PROVE  Max(T) \in T /\ \A y \in T : y <= Max(T)
<1> DEFINE U == {n - y : y \in T}
<1>1. U \subseteq Nat /\ U # {}
  <2>1. \A y \in T : n - y \in Nat
    OBVIOUS
  <2> QED
    BY <2>1
<1>2. PICK d \in U : \A e \in U : d <= e
  <2> HIDE DEF U
  <2> QED
    BY <1>1, LeastNatural
<1>3. PICK x \in T : d = n - x
  OBVIOUS
<1>4. \A y \in T : y <= x
  <2> TAKE y \in T
  <2>1. d <= n - y
    BY <1>2
  <2> QED
    BY <1>3, <2>1
<1>5. Max(T) = x
  <2>1. T \subseteq Int
    OBVIOUS
  <2> QED
    BY <1>4, <2>1, MaxIs
<1> QED
  BY <1>4, <1>5

\* LastOf and OfInstrument, of any list of messages.
LastIn(s, S, fi) == IF S = {} THEN 0 ELSE s[Max(S)][fi]
Holding(s, id)   == {n \in DOMAIN s : s[n][2] = id}

\* One more message, at n, is the last of all and of its instrument.
LastAdded(s, m, r, n, S) ==
    /\ \A fi : LastIn(r, S, fi) = LastIn(s, S, fi)
    /\ \A fi : LastIn(r, S \cup {n}, fi) = m[fi]
    /\ Earlier(S \cup {n}) = S
    /\ Cardinality(S) \in Nat /\ Cardinality(S \cup {n}) = Cardinality(S) + 1

PlaceAdded(s, m, r, n) ==
    /\ DOMAIN r = DOMAIN s \cup {n}
    /\ \A id : /\ Holding(s, id) \subseteq DOMAIN s
               /\ Holding(r, id) = IF m[2] = id THEN Holding(s, id) \cup {n} ELSE Holding(s, id)

\* Of a set of places, with the new one or without it.
LEMMA OneMoreMessage ==
    ASSUME NEW M, NEW s \in Seq(M), NEW m \in M, NEW r, r = Append(s, m),
           NEW n, n = Len(s) + 1, NEW S, S \subseteq DOMAIN s
    PROVE  LastAdded(s, m, r, n, S)
<1>1. Len(s) \in Nat /\ DOMAIN s = 1 .. Len(s)
  BY LenProperties
<1>2. r[n] = m /\ \A i \in 1 .. Len(s) : r[i] = s[i]
  BY LastAppended, AppendProperties
<1>3. \A fi : LastIn(r, S, fi) = LastIn(s, S, fi)
  <2>1. CASE S = {}
    BY <2>1 DEF LastIn
  <2>2. CASE S # {}
    <3>1. Max(S) \in 1 .. Len(s)
      BY <1>1, <2>2, MaxOfPlaces
    <3> QED
      BY <1>2, <2>2, <3>1 DEF LastIn
  <2> QED
    BY <2>1, <2>2
<1>4. Max(S \cup {n}) = n
  <2>1. S \cup {n} \subseteq Int /\ n \in S \cup {n} /\ \A y \in S \cup {n} : y <= n
    BY <1>1
  <2> QED
    BY <2>1, MaxIs
<1>5. \A fi : LastIn(r, S \cup {n}, fi) = m[fi]
  BY <1>2, <1>4 DEF LastIn
<1>6. Earlier(S \cup {n}) = S
  <2>1. \A y \in S : y < n /\ y \in Int
    BY <1>1
  <2>2. n \in Int
    BY <1>1
  <2> QED
    BY <2>1, <2>2 DEF Earlier
<1>7. IsFiniteSet(S) /\ n \notin S
  <2>1. IsFiniteSet(1 .. Len(s))
    BY <1>1, FS_Interval
  <2> QED
    BY <1>1, <2>1, FS_Subset
<1>8. Cardinality(S) \in Nat /\ Cardinality(S \cup {n}) = Cardinality(S) + 1
  BY <1>7, FS_CardinalityType, FS_AddElement
<1> QED
  BY <1>3, <1>5, <1>6, <1>8 DEF LastAdded

\* Of all places, and of those of an instrument.
LEMMA AllAndInstruments ==
    ASSUME NEW M, NEW s \in Seq(M), NEW m \in M, NEW r, r = Append(s, m),
           NEW n, n = Len(s) + 1
    PROVE  PlaceAdded(s, m, r, n)
<1>1. Len(s) \in Nat /\ DOMAIN s = 1 .. Len(s) /\ Len(r) = Len(s) + 1 /\ DOMAIN r = 1 .. Len(r)
  BY AppendProperties
<1>2. r[n] = m /\ \A i \in 1 .. Len(s) : r[i] = s[i]
  BY LastAppended, AppendProperties
<1>3. DOMAIN r = DOMAIN s \cup {n}
  BY <1>1
<1>4. n \notin DOMAIN s /\ \A i \in DOMAIN s : r[i] = s[i]
  BY <1>1, <1>2
<1> QED
  BY <1>2, <1>3, <1>4 DEF Holding, PlaceAdded
-----------------------------------------------------------------------------
(* The table of frequent quantities. *)

\* The least of some numbers.
LEMMA MinOfNumbers ==
    ASSUME NEW T, T \subseteq Nat, T # {}
    PROVE  Min(T) \in T /\ \A y \in T : Min(T) <= y
  BY LeastNatural DEF Min

FreqTable == [qty : [1 .. 4 -> Word32], cnt : [1 .. 4 -> Nat], updates : 0 .. QF_PERIOD - 1]

\* A quantity is in one slot, the slots are in order, and no count is above
\* the number of times, in times, that the quantity was sent.
InOrder(cnt) ==
    cnt[1] >= cnt[2] /\ cnt[2] >= cnt[3] /\ (cnt[4] <= cnt[3] \/ cnt[4] = 1)

InOneSlot(qty, cnt) ==
    \A i, j \in 1 .. 4 : cnt[i] > 0 /\ cnt[j] > 0 /\ qty[i] = qty[j] => i = j

NotAbove(qty, cnt, times) == \A i \in 1 .. 4 : cnt[i] > 0 => cnt[i] <= times[qty[i]]

Counting(f, times, limit) ==
    /\ f \in FreqTable
    /\ InOneSlot(f.qty, f.cnt) /\ InOrder(f.cnt) /\ NotAbove(f.qty, f.cnt, times)
    /\ \A i \in 1 .. 4 : f.cnt[i] <= limit

\* qf_lookup finds a slot of the quantity, or there is none.
LEMMA QfLookupFinds ==
    ASSUME NEW f, NEW qty
    PROVE  \/ QfLookup(f, qty) = 0 /\ \A i \in 1 .. 4 : ~(f.cnt[i] > 0 /\ f.qty[i] = qty)
           \/ /\ QfLookup(f, qty) \in 1 .. 4
              /\ f.cnt[QfLookup(f, qty)] > 0 /\ f.qty[QfLookup(f, qty)] = qty
<1> DEFINE hits == {i \in 1 .. 4 : f.cnt[i] > 0 /\ f.qty[i] = qty}
<1>1. QfLookup(f, qty) = IF hits = {} THEN 0 ELSE Min(hits)
  BY DEF QfLookup
<1>2. hits # {} => Min(hits) \in hits
  <2>1. hits \subseteq Nat
    OBVIOUS
  <2> HIDE DEF hits
  <2> QED
    BY <2>1, MinOfNumbers
<1> QED
  BY <1>1, <1>2

\* Slot i of s comes before those from to on, with value v.
MovedTo(s, v, to, i) ==
    [l \in 1 .. 4 |-> IF l = to THEN v ELSE IF l \in to + 1 .. i THEN s[l - 1] ELSE s[l]]

\* Where a slot that is counted goes: before all that are no more frequent.
LEMMA QfCountMoves ==
    ASSUME NEW f \in FreqTable, NEW i \in 1 .. 4
    PROVE  \E to \in 1 .. i :
              /\ \A l \in to .. i - 1 : f.cnt[l] <= f.cnt[i]
              /\ to > 1 => f.cnt[to - 1] > f.cnt[i]
              /\ QfCount(f, i) = [ qty     |-> MovedTo(f.qty, f.qty[i], to, i),
                                   cnt     |-> MovedTo(f.cnt, f.cnt[i] + 1, to, i),
                                   updates |-> f.updates ]
<1> DEFINE T == {j \in 1 .. i : \A l \in j .. i - 1 : f.cnt[l] < f.cnt[i] + 1}
           to == Min(T)
<1>1. f.cnt \in [1 .. 4 -> Nat]
  BY DEF FreqTable
<1>2. to \in T /\ \A y \in T : to <= y
  <2>1. T \subseteq Nat /\ i \in T
    OBVIOUS
  <2> HIDE DEF T
  <2> QED
    BY <2>1, MinOfNumbers
<1>3. QfCount(f, i) = [f EXCEPT !.qty = MovedTo(f.qty, f.qty[i], to, i),
                                !.cnt = MovedTo(f.cnt, f.cnt[i] + 1, to, i)]
  BY DEF QfCount, MovedTo
<1> HIDE DEF to
<1>4. to \in 1 .. i /\ \A l \in to .. i - 1 : f.cnt[l] <= f.cnt[i]
  <2>1. to \in 1 .. i /\ \A l \in to .. i - 1 : f.cnt[l] < f.cnt[i] + 1
    BY <1>2
  <2>2. \A l \in to .. i - 1 : f.cnt[l] \in Nat /\ f.cnt[i] \in Nat
    BY <1>1, <2>1
  <2> QED
    BY <2>1, <2>2
<1>5. to > 1 => f.cnt[to - 1] > f.cnt[i]
  <2> SUFFICES ASSUME to > 1, f.cnt[to - 1] <= f.cnt[i] PROVE FALSE
    BY <1>1, <1>4
  <2>1. \A l \in to - 1 .. i - 1 : f.cnt[l] < f.cnt[i] + 1
    <3> TAKE l \in to - 1 .. i - 1
    <3>1. l = to - 1 \/ l \in to .. i - 1
      BY <1>4
    <3>2. f.cnt[l] <= f.cnt[i] /\ f.cnt[l] \in Nat /\ f.cnt[i] \in Nat
      BY <1>1, <1>4, <3>1
    <3> QED
      BY <3>2
  <2>2. to - 1 \in T
    BY <1>4, <2>1
  <2> HIDE DEF T
  <2> QED
    BY <1>2, <1>4, <2>2
<1>6. QfCount(f, i) = [ qty     |-> MovedTo(f.qty, f.qty[i], to, i),
                        cnt     |-> MovedTo(f.cnt, f.cnt[i] + 1, to, i),
                        updates |-> f.updates ]
  <2> DEFINE x == MovedTo(f.qty, f.qty[i], to, i)
             y == MovedTo(f.cnt, f.cnt[i] + 1, to, i)
  <2> HIDE DEF x, y
  <2>1. PICK g : g = QfCount(f, i)
    OBVIOUS
  <2>2. g = [f EXCEPT !.qty = x, !.cnt = y]
    BY <1>3, <2>1 DEF x, y
  <2>3. g = [qty |-> x, cnt |-> y, updates |-> f.updates]
    BY <2>2 DEF FreqTable
  <2> QED
    BY <2>1, <2>3 DEF x, y
<1> QED
  BY <1>4, <1>5, <1>6

\* Moving it up keeps the slots in order.
LEMMA MovedInOrder ==
    ASSUME NEW c \in [1 .. 4 -> Nat], InOrder(c), NEW i \in 1 .. 4, NEW to \in 1 .. i, c[i] > 0,
           \A l \in to .. i - 1 : c[l] <= c[i], to > 1 => c[to - 1] > c[i],
           NEW d, d = MovedTo(c, c[i] + 1, to, i)
    PROVE  InOrder(d)
<1>1. c[1] \in Nat /\ c[2] \in Nat /\ c[3] \in Nat /\ c[4] \in Nat
  OBVIOUS
<1>2. /\ d[1] = IF 1 = to THEN c[i] + 1 ELSE c[1]
      /\ d[2] = IF 2 = to THEN c[i] + 1 ELSE IF to < 2 /\ 2 <= i THEN c[1] ELSE c[2]
      /\ d[3] = IF 3 = to THEN c[i] + 1 ELSE IF to < 3 /\ 3 <= i THEN c[2] ELSE c[3]
      /\ d[4] = IF 4 = to THEN c[i] + 1 ELSE IF to < 4 /\ 4 <= i THEN c[3] ELSE c[4]
  BY DEF MovedTo
<1>3. (to <= 1 /\ 1 < i => c[1] <= c[i]) /\ (to <= 2 /\ 2 < i => c[2] <= c[i])
      /\ (to <= 3 /\ 3 < i => c[3] <= c[i])
  OBVIOUS
<1>4. (to = 2 => c[1] > c[i]) /\ (to = 3 => c[2] > c[i]) /\ (to = 4 => c[3] > c[i])
  OBVIOUS
<1>5. CASE i = 1
  BY <1>1, <1>2, <1>3, <1>4, <1>5 DEF InOrder
<1>6. CASE i = 2
  BY <1>1, <1>2, <1>3, <1>4, <1>6 DEF InOrder
<1>7. CASE i = 3
  BY <1>1, <1>2, <1>3, <1>4, <1>7 DEF InOrder
<1>8. CASE i = 4
  BY <1>1, <1>2, <1>3, <1>4, <1>8 DEF InOrder
<1> QED
  BY <1>5, <1>6, <1>7, <1>8

\* A quantity that is known is counted once more.
LEMMA QfCountGood ==
    ASSUME NEW times \in [Word32 -> Nat], NEW limit \in Nat,
           NEW f, Counting(f, times, limit), NEW i \in 1 .. 4, f.cnt[i] > 0,
           NEW new, new = [times EXCEPT ![f.qty[i]] = @ + 1]
    PROVE  Counting(QfCount(f, i), new, limit + 1) /\ QfCount(f, i).updates = f.updates
<1> DEFINE q == f.qty
           c == f.cnt
<1>1. f \in FreqTable /\ q \in [1 .. 4 -> Word32] /\ c \in [1 .. 4 -> Nat]
      /\ f.updates \in 0 .. QF_PERIOD - 1
  BY DEF Counting, FreqTable
<1>2. PICK to \in 1 .. i :
          /\ \A l \in to .. i - 1 : c[l] <= c[i]
          /\ to > 1 => c[to - 1] > c[i]
          /\ QfCount(f, i) = [ qty     |-> MovedTo(q, q[i], to, i),
                               cnt     |-> MovedTo(c, c[i] + 1, to, i),
                               updates |-> f.updates ]
  BY <1>1, QfCountMoves
<1> DEFINE Was(l) == IF l = to THEN i ELSE IF l \in to + 1 .. i THEN l - 1 ELSE l
           r == MovedTo(q, q[i], to, i)
           d == MovedTo(c, c[i] + 1, to, i)
<1>3. InOneSlot(q, c) /\ InOrder(c) /\ NotAbove(q, c, times) /\ \A l \in 1 .. 4 : c[l] <= limit
  BY DEF Counting
<1>4. c[i] > 0
  OBVIOUS
<1> HIDE DEF q, c
<1>5. InOrder(d)
  BY <1>1, <1>2, <1>3, <1>4, MovedInOrder
<1>6. \A l \in 1 .. 4 : /\ Was(l) \in 1 .. 4
                        /\ r[l] = q[Was(l)]
                        /\ d[l] = IF l = to THEN c[Was(l)] + 1 ELSE c[Was(l)]
  BY DEF MovedTo
<1>7. \A l, k \in 1 .. 4 : Was(l) = Was(k) => l = k
  OBVIOUS
<1>8. Was(to) = i /\ \A l \in 1 .. 4 : l # to => Was(l) # i
  OBVIOUS
<1>9. r \in [1 .. 4 -> Word32] /\ d \in [1 .. 4 -> Nat]
  <2>1. \A l \in 1 .. 4 : r[l] \in Word32 /\ d[l] \in Nat
    <3> HIDE DEF r, d, Was
    <3> QED
      BY <1>1, <1>6
  <2>2. r = [l \in 1 .. 4 |-> r[l]] /\ d = [l \in 1 .. 4 |-> d[l]]
    BY DEF MovedTo
  <2> HIDE DEF r, d
  <2> QED
    BY <2>1, <2>2
<1> HIDE DEF r, d, Was
<1>10. \A l \in 1 .. 4 : d[l] > 0 => c[Was(l)] > 0
  BY <1>1, <1>4, <1>6, <1>8
<1>11. InOneSlot(r, d)
  BY <1>3, <1>6, <1>7, <1>10 DEF InOneSlot
<1>12. \A l \in 1 .. 4 : d[l] <= limit + 1
  BY <1>1, <1>3, <1>6
<1>13. NotAbove(r, d, new)
  <2> SUFFICES ASSUME NEW l \in 1 .. 4, d[l] > 0 PROVE d[l] <= new[r[l]]
    BY DEF NotAbove
  <2>1. Was(l) \in 1 .. 4 /\ c[Was(l)] > 0 /\ r[l] = q[Was(l)] /\ c[Was(l)] <= times[r[l]]
    BY <1>3, <1>6, <1>10 DEF NotAbove
  <2>2. r[l] \in Word32 /\ times[r[l]] \in Nat /\ c[Was(l)] \in Nat
    BY <1>1, <1>9, <2>1
  <2>3. CASE l = to
    <3>1. r[l] = q[i] /\ d[l] = c[Was(l)] + 1
      BY <1>6, <1>8, <2>3
    <3>2. new[r[l]] = times[r[l]] + 1
      BY <2>2, <3>1 DEF q
    <3> QED
      BY <2>1, <2>2, <3>1, <3>2
  <2>4. CASE l # to
    <3>1. d[l] = c[Was(l)]
      BY <1>6, <2>4
    <3>2. new[r[l]] >= times[r[l]]
      BY <2>2
    <3>3. new[r[l]] \in Nat
      BY <2>2
    <3> QED
      BY <2>1, <2>2, <3>1, <3>2, <3>3
  <2> QED
    BY <2>3, <2>4
<1>14. QfCount(f, i) = [qty |-> r, cnt |-> d, updates |-> f.updates]
  BY <1>2 DEF r, d
<1>15. QfCount(f, i) \in FreqTable
  BY <1>1, <1>9, <1>14 DEF FreqTable
<1> QED
  BY <1>5, <1>11, <1>12, <1>13, <1>14, <1>15 DEF Counting

\* A new one takes the last slot, or is not kept; the counts are halved in
\* time.
LEMMA QfUpdateGood ==
    ASSUME NEW times \in [Word32 -> Nat], NEW qty \in Word32,
           NEW f, Counting(f, times, QF_PERIOD + f.updates),
           NEW new, new = [times EXCEPT ![qty] = @ + 1],
           NEW g, g = QfUpdate(f, qty)
    PROVE  Counting(g, new, QF_PERIOD + g.updates)
<1> DEFINE i == QfLookup(f, qty)
           kept == IF i > 0 THEN QfCount(f, i)
                   ELSE IF f.cnt[4] <= 1 THEN [f EXCEPT !.qty[4] = qty, !.cnt[4] = 1]
                   ELSE f
           limit == QF_PERIOD + f.updates
<1>0. QF_PERIOD \in Nat /\ QF_PERIOD > 1
  BY PredictionsAssumption
<1>1. /\ f \in FreqTable /\ f.qty \in [1 .. 4 -> Word32] /\ f.cnt \in [1 .. 4 -> Nat]
      /\ f.updates \in 0 .. QF_PERIOD - 1 /\ limit \in Nat
  BY <1>0 DEF Counting, FreqTable
<1>2. /\ InOneSlot(f.qty, f.cnt) /\ InOrder(f.cnt) /\ NotAbove(f.qty, f.cnt, times)
      /\ \A l \in 1 .. 4 : f.cnt[l] <= limit
  BY DEF Counting
<1>3. \A x \in Word32 : new[x] \in Nat /\ times[x] \in Nat /\ new[x] >= times[x]
  OBVIOUS
<1>4. new[qty] = times[qty] + 1
  OBVIOUS
<1>5. Counting(kept, new, limit + 1) /\ kept.updates = f.updates
  <2>1. CASE i > 0
    <3>1. i \in 1 .. 4 /\ f.cnt[i] > 0 /\ f.qty[i] = qty
      BY <2>1, QfLookupFinds
    <3> HIDE DEF i, limit
    <3>2. new = [times EXCEPT ![f.qty[i]] = @ + 1]
      BY <3>1
    <3>3. Counting(f, times, limit)
      BY DEF limit
    <3>4. Counting(QfCount(f, i), new, limit + 1) /\ QfCount(f, i).updates = f.updates
      BY <1>1, <3>1, <3>2, <3>3, QfCountGood
    <3> QED
      BY <2>1, <3>4
  <2>2. CASE ~(i > 0)
    <3>1. \A l \in 1 .. 4 : ~(f.cnt[l] > 0 /\ f.qty[l] = qty)
      BY <2>2, QfLookupFinds
    <3> HIDE DEF i
    <3>2. CASE f.cnt[4] <= 1
      <4> DEFINE q == [f.qty EXCEPT ![4] = qty]
                 c == [f.cnt EXCEPT ![4] = 1]
      <4>1. kept = [qty |-> q, cnt |-> c, updates |-> f.updates]
        <5>1. f = [qty |-> f.qty, cnt |-> f.cnt, updates |-> f.updates]
          BY <1>1 DEF FreqTable
        <5>2. kept = [f EXCEPT !.qty[4] = qty, !.cnt[4] = 1]
          BY <2>2, <3>2
        <5> QED
          BY <5>1, <5>2
      <4>2. q \in [1 .. 4 -> Word32] /\ c \in [1 .. 4 -> Nat]
        BY <1>1
      <4>3. /\ c[1] = f.cnt[1] /\ c[2] = f.cnt[2] /\ c[3] = f.cnt[3] /\ c[4] = 1
            /\ q[4] = qty /\ \A l \in 1 .. 3 : q[l] = f.qty[l] /\ c[l] = f.cnt[l]
        BY <1>1
      <4> HIDE DEF q, c, kept
      <4>4. InOrder(c)
        BY <1>2, <4>3 DEF InOrder
      <4>5. InOneSlot(q, c)
        <5> SUFFICES ASSUME NEW k \in 1 .. 4, NEW j \in 1 .. 4,
                            c[k] > 0, c[j] > 0, q[k] = q[j]
                     PROVE  k = j
          BY DEF InOneSlot
        <5>1. (k = 4 \/ k \in 1 .. 3) /\ (j = 4 \/ j \in 1 .. 3)
          OBVIOUS
        <5>2. CASE k \in 1 .. 3 /\ j \in 1 .. 3
          BY <1>2, <4>3, <5>2 DEF InOneSlot
        <5>3. CASE k = 4 /\ j \in 1 .. 3
          BY <3>1, <4>3, <5>3
        <5>4. CASE j = 4 /\ k \in 1 .. 3
          BY <3>1, <4>3, <5>4
        <5> QED
          BY <5>1, <5>2, <5>3, <5>4
      <4>6. NotAbove(q, c, new)
        <5> SUFFICES ASSUME NEW k \in 1 .. 4, c[k] > 0 PROVE c[k] <= new[q[k]]
          BY DEF NotAbove
        <5>1. CASE k = 4
          BY <1>3, <1>4, <4>3, <5>1
        <5>2. CASE k \in 1 .. 3
          <6>1. f.cnt[k] > 0 /\ q[k] = f.qty[k] /\ c[k] = f.cnt[k] /\ q[k] \in Word32
            BY <4>2, <4>3, <5>2
          <6>2. c[k] <= times[q[k]] /\ c[k] \in Nat
            BY <1>1, <1>2, <6>1 DEF NotAbove
          <6> QED
            BY <1>3, <6>1, <6>2
        <5> QED
          BY <5>1, <5>2
      <4>7. \A l \in 1 .. 4 : c[l] <= limit + 1
        <5> TAKE l \in 1 .. 4
        <5>1. l = 4 \/ l \in 1 .. 3
          OBVIOUS
        <5>2. f.cnt[l] \in Nat /\ f.cnt[l] <= limit
          BY <1>1, <1>2
        <5> HIDE DEF limit
        <5> QED
          BY <1>1, <4>3, <5>1, <5>2
      <4>8. kept \in FreqTable
        BY <1>1, <4>1, <4>2 DEF FreqTable
      <4> QED
        BY <4>1, <4>4, <4>5, <4>6, <4>7, <4>8 DEF Counting
    <3>3. CASE ~(f.cnt[4] <= 1)
      <4>1. kept = f
        BY <2>2, <3>3
      <4>2. NotAbove(f.qty, f.cnt, new)
        <5> SUFFICES ASSUME NEW k \in 1 .. 4, f.cnt[k] > 0 PROVE f.cnt[k] <= new[f.qty[k]]
          BY DEF NotAbove
        <5>1. f.cnt[k] <= times[f.qty[k]] /\ f.cnt[k] \in Nat /\ f.qty[k] \in Word32
          BY <1>1, <1>2 DEF NotAbove
        <5> QED
          BY <1>3, <5>1
      <4>3. \A l \in 1 .. 4 : f.cnt[l] <= limit + 1
        <5> TAKE l \in 1 .. 4
        <5>2. f.cnt[l] \in Nat /\ f.cnt[l] <= limit
          BY <1>1, <1>2
        <5> HIDE DEF limit
        <5> QED
          BY <1>1, <5>2
      <4> HIDE DEF kept, limit
      <4> QED
        BY <1>1, <1>2, <4>1, <4>2, <4>3 DEF Counting
    <3> QED
      BY <3>2, <3>3
  <2> QED
    BY <2>1, <2>2
<1>6. g = IF f.updates + 1 >= QF_PERIOD
          THEN [kept EXCEPT !.cnt = [l \in 1 .. 4 |-> kept.cnt[l] \div 2], !.updates = 0]
          ELSE [kept EXCEPT !.updates = f.updates + 1]
  <2>1. g = IF f.updates + 1 >= QF_PERIOD
            THEN [kept EXCEPT !.cnt = [l \in 1 .. 4 |-> kept.cnt[l] \div 2], !.updates = 0]
            ELSE [kept EXCEPT !.updates = kept.updates + 1]
    BY DEF QfUpdate
  <2> HIDE DEF kept
  <2> QED
    BY <1>5, <2>1
<1> HIDE DEF kept
<1>7. /\ kept = [qty |-> kept.qty, cnt |-> kept.cnt, updates |-> kept.updates]
      /\ kept.qty \in [1 .. 4 -> Word32] /\ kept.cnt \in [1 .. 4 -> Nat]
  BY <1>5 DEF Counting, FreqTable
<1>8. /\ InOneSlot(kept.qty, kept.cnt) /\ InOrder(kept.cnt) /\ NotAbove(kept.qty, kept.cnt, new)
      /\ \A l \in 1 .. 4 : kept.cnt[l] <= limit + 1
  BY <1>5 DEF Counting
<1>9. CASE f.updates + 1 >= QF_PERIOD
  <2> DEFINE h == [l \in 1 .. 4 |-> kept.cnt[l] \div 2]
  <2>1. g = [qty |-> kept.qty, cnt |-> h, updates |-> 0]
    <3>1. g = [kept EXCEPT !.cnt = h, !.updates = 0]
      BY <1>6, <1>9
    <3> HIDE DEF h
    <3> QED
      BY <1>7, <3>1
  <2>2. \A l \in 1 .. 4 : /\ h[l] \in Nat /\ h[l] <= kept.cnt[l] /\ 2 * h[l] <= kept.cnt[l]
                          /\ kept.cnt[l] \in Nat /\ kept.cnt[l] <= 2 * h[l] + 1
    BY <1>7
  <2>3. h \in [1 .. 4 -> Nat]
    BY <1>7
  <2> HIDE DEF h
  <2>4. InOrder(h)
    <3>1. /\ kept.cnt[1] >= kept.cnt[2] /\ kept.cnt[2] >= kept.cnt[3]
          /\ kept.cnt[4] <= kept.cnt[3] \/ kept.cnt[4] = 1
      BY <1>8 DEF InOrder
    <3>2. \A l, k \in 1 .. 4 : kept.cnt[l] >= kept.cnt[k] => h[l] >= h[k]
      BY <2>2
    <3>3. kept.cnt[4] = 1 => h[4] = 0
      BY <2>2
    <3>4. h[1] >= h[2] /\ h[2] >= h[3]
      BY <3>1, <3>2
    <3>5. h[4] <= h[3]
      <4>1. h[3] \in Nat /\ h[4] \in Nat /\ kept.cnt[3] \in Nat /\ kept.cnt[4] \in Nat
        BY <2>2
      <4>2. kept.cnt[3] >= kept.cnt[4] => h[3] >= h[4]
        BY <3>2
      <4> QED
        BY <3>1, <3>3, <4>1, <4>2
    <3> QED
      BY <3>4, <3>5 DEF InOrder
  <2>5. InOneSlot(kept.qty, h)
    BY <1>8, <2>2 DEF InOneSlot
  <2>6. NotAbove(kept.qty, h, new)
    <3> SUFFICES ASSUME NEW k \in 1 .. 4, h[k] > 0 PROVE h[k] <= new[kept.qty[k]]
      BY DEF NotAbove
    <3>1. kept.cnt[k] > 0 /\ kept.cnt[k] \in Nat /\ h[k] \in Nat /\ h[k] <= kept.cnt[k]
      BY <2>2
    <3>2. kept.cnt[k] <= new[kept.qty[k]] /\ new[kept.qty[k]] \in Nat
      BY <1>3, <1>7, <1>8, <3>1 DEF NotAbove
    <3> QED
      BY <3>1, <3>2
  <2>7. \A l \in 1 .. 4 : h[l] <= QF_PERIOD + 0
    <3> TAKE l \in 1 .. 4
    <3>1. h[l] \in Nat /\ 2 * h[l] <= kept.cnt[l] /\ kept.cnt[l] <= limit + 1 /\ kept.cnt[l] \in Nat
      BY <1>8, <2>2
    <3>2. limit + 1 <= 2 * QF_PERIOD
      BY <1>0, <1>1
    <3> HIDE DEF limit
    <3> QED
      BY <1>0, <1>1, <3>1, <3>2
  <2>8. g \in FreqTable
    BY <1>0, <1>7, <2>1, <2>3 DEF FreqTable
  <2> QED
    BY <2>1, <2>4, <2>5, <2>6, <2>7, <2>8 DEF Counting
<1>10. CASE ~(f.updates + 1 >= QF_PERIOD)
  <2>1. g = [qty |-> kept.qty, cnt |-> kept.cnt, updates |-> f.updates + 1]
    <3>1. g = [kept EXCEPT !.updates = f.updates + 1]
      BY <1>6, <1>10
    <3> QED
      BY <1>7, <3>1
  <2>2. QF_PERIOD + (f.updates + 1) = limit + 1 /\ f.updates + 1 \in 0 .. QF_PERIOD - 1
    BY <1>0, <1>1, <1>10
  <2>3. g \in FreqTable
    BY <1>7, <2>1, <2>2 DEF FreqTable
  <2> HIDE DEF limit
  <2> QED
    BY <1>8, <2>1, <2>2, <2>3 DEF Counting
<1> QED
  BY <1>9, <1>10
-----------------------------------------------------------------------------
(* What the copies of commit_state keep of the last message. *)

Keeps(st, m) == st.last_timestamp = m[1] /\ st.last_instrument_id = m[2]

\* The copy of commit_state keeps the time and the instrument of a message.
LEMMA KeepsInstrument ==
    ASSUME NEW a, Sound(Start(a)), NEW m, m[1] \in Word64, m[2] \in 0 .. MAX_INSTRUMENTS - 1,
           NEW n, n = CommitInstrumentState(CommitTable(CommitTime(a, m), m), m)
    PROVE  Keeps(n, m)
<1> DEFINE c1 == CommitTime(a, m)
           c2 == CommitTable(c1, m)
<1>1. a \in State
  BY SoundState DEF Start
<1>2. Alike(a, a)
  BY <1>1 DEF Alike, Rest, SameTable, State
<1>3. c1 \in State
  <2>1. Sound(Start(c1))
    BY <1>2, TimeAlike
  <2> QED
    BY <2>1, SoundState DEF Start
<1>4. c1.last_timestamp = m[1]
  <2> DEFINE gap == Signed(m[1] - a.last_timestamp)
             residual == Signed(gap - PredictedGap(a))
  <2>1. c1 = TrackTimestamp([st |-> a, is |-> m[2]], m[1], gap, residual).st
    BY DEF CommitTime
  <2> HIDE DEF gap, residual, c1
  <2>2. TrackTimestamp([st |-> a, is |-> m[2]], m[1], gap, residual) =
            [st |-> Timed(a, m[1], gap, residual), is |-> m[2]]
    BY <1>1, TimestampParts
  <2>3. c1 = Timed(a, m[1], gap, residual)
    BY <2>1, <2>2
  <2> QED
    BY <1>1, <2>3 DEF Timed, State
<1> HIDE DEF c1
<1>5. c2.last_timestamp = m[1] /\ c2.last_instrument_id = m[2]
      /\ {"last_timestamp", "last_instrument_id"} \subseteq DOMAIN c2
  BY <1>3, <1>4 DEF CommitTable, State
<1> HIDE DEF c2
<1>6. n = CommitInstrumentState(c2, m)
  BY DEF c2, c1
<1> QED
  BY <1>5, <1>6 DEF CommitInstrumentState, Keeps

\* So it does for a quote ...
LEMMA QuoteKeeps ==
    ASSUME Sound(Start(enc)), NEW m, m[1] \in Word64, m[2] \in 0 .. MAX_INSTRUMENTS - 1,
           CommitInstrumentState(CommitTable(CommitTime(enc, m), m), m) \in State
    PROVE  Keeps(CommitQuote(m), m)
<1> DEFINE n == CommitInstrumentState(CommitTable(CommitTime(enc, m), m), m)
<1>1. Keeps(n, m) /\ n \in State
  BY KeepsInstrument
<1>2. CommitQuote(m) = [n EXCEPT !.msg_count = (@ + 1) % U64]
  BY DEF CommitQuote
<1> HIDE DEF n
<1> QED
  BY <1>1, <1>2 DEF Keeps, State

\* ... and for a trade.
LEMMA TradeKeeps ==
    ASSUME Sound(Start(enc)), NEW m, m[1] \in Word64, m[2] \in 0 .. MAX_INSTRUMENTS - 1,
           MAX_FIELDS >= 8,
           CommitInstrumentState(CommitTable(CommitTime(enc, m), m), m) \in State
    PROVE  Keeps(CommitTrade(m), m)
<1> DEFINE n == CommitInstrumentState(CommitTable(CommitTime(enc, m), m), m)
           k == [st |-> n, is |-> m[2]]
           delta == Signed(m[5] - PredictedId(k, 5))
           k5 == TrackId(k, 5, m[5], delta)
           k6 == KeepValue(k5, 6, m[6])
           k7 == KeepValue(k6, 7, m[7])
           Has(st) == {"last_timestamp", "last_instrument_id"} \subseteq DOMAIN st
           Is(c) == {"st"} \subseteq DOMAIN c
<1>1. Keeps(n, m) /\ n \in State
  BY KeepsInstrument
<1>2. CommitTrade(m) = [k7.st EXCEPT !.msg_count = (@ + 1) % U64]
  BY DEF CommitTrade
<1> HIDE DEF n
<1>3. \E mean : k5 = [st |-> Numbered(n, m[2], 5, m[5], mean), is |-> m[2]]
  <2>1. 5 \in 1 .. MAX_FIELDS
    BY CodecAssumption
  <2> HIDE DEF delta
  <2> QED
    BY <1>1, <2>1, IdParts
<1> HIDE DEF k5, delta, k
<1>4. Keeps(k5.st, m) /\ Has(k5.st) /\ Is(k5)
  <2>1. PICK mean : k5 = [st |-> Numbered(n, m[2], 5, m[5], mean), is |-> m[2]]
    BY <1>3
  <2>2. k5.st = Numbered(n, m[2], 5, m[5], mean) /\ Is(k5)
    BY <2>1
  <2>3. /\ Numbered(n, m[2], 5, m[5], mean).last_timestamp = n.last_timestamp
        /\ Numbered(n, m[2], 5, m[5], mean).last_instrument_id = n.last_instrument_id
        /\ Has(Numbered(n, m[2], 5, m[5], mean))
    BY <1>1 DEF Numbered, State
  <2> QED
    BY <1>1, <2>2, <2>3 DEF Keeps
<1>5. Keeps(k6.st, m) /\ Has(k6.st) /\ Is(k6)
  BY <1>4 DEF Keeps, KeepValue
<1> HIDE DEF k6
<1>6. Keeps(k7.st, m) /\ Has(k7.st) /\ Is(k7)
  BY <1>5 DEF Keeps, KeepValue
<1> HIDE DEF k7
<1> QED
  BY <1>2, <1>6 DEF Keeps
-----------------------------------------------------------------------------
(* What an experiment keeps for itself, against the messages sent. *)

HistoryGrown(s, m, r) ==
    /\ \A fi : LastIn(r, DOMAIN r, fi) = m[fi]
    /\ \A fi : LastIn(r, Earlier(DOMAIN r), fi) = LastIn(s, DOMAIN s, fi)
    /\ \A id : m[2] = id =>
          /\ \A fi : /\ LastIn(r, Holding(r, id), fi) = m[fi]
                     /\ LastIn(r, Earlier(Holding(r, id)), fi) = LastIn(s, Holding(s, id), fi)
          /\ Cardinality(Holding(r, id)) = Cardinality(Holding(s, id)) + 1
    /\ \A id : m[2] # id =>
          /\ Holding(r, id) = Holding(s, id)
          /\ \A fi : /\ LastIn(r, Holding(r, id), fi) = LastIn(s, Holding(s, id), fi)
                     /\ LastIn(r, Earlier(Holding(r, id)), fi) =
                           LastIn(s, Earlier(Holding(s, id)), fi)
    /\ \A id : Cardinality(Holding(s, id)) \in Nat

\* A message is the last of all and of its instrument's, and of no other's.
LEMMA HistoryGrows ==
    ASSUME NEW M, NEW s \in Seq(M), NEW m \in M, NEW r, r = Append(s, m)
    PROVE  HistoryGrown(s, m, r)
<1>1. PICK n : n = Len(s) + 1
  OBVIOUS
<1>2. PlaceAdded(s, m, r, n)
  BY <1>1, AllAndInstruments
<1>3. ASSUME NEW S, S \subseteq DOMAIN s PROVE LastAdded(s, m, r, n, S)
  BY <1>1, <1>3, OneMoreMessage
<1>4. \A S : Earlier(S) \subseteq S
  BY DEF Earlier
<1>5. /\ \A fi : LastIn(r, DOMAIN r, fi) = m[fi]
      /\ \A fi : LastIn(r, Earlier(DOMAIN r), fi) = LastIn(s, DOMAIN s, fi)
  <2>1. PICK D : D = DOMAIN s
    OBVIOUS
  <2>2. LastAdded(s, m, r, n, D)
    BY <1>3, <2>1
  <2>3. PICK E : E = D \cup {n}
    OBVIOUS
  <2>4. Earlier(E) = D /\ \A fi : LastIn(r, E, fi) = m[fi] /\ LastIn(r, D, fi) = LastIn(s, D, fi)
    BY <2>2, <2>3 DEF LastAdded
  <2>5. DOMAIN r = E
    BY <1>2, <2>1, <2>3 DEF PlaceAdded
  <2> QED
    BY <2>1, <2>4, <2>5
<1>6. ASSUME NEW id, m[2] = id
      PROVE  /\ \A fi : /\ LastIn(r, Holding(r, id), fi) = m[fi]
                        /\ LastIn(r, Earlier(Holding(r, id)), fi) = LastIn(s, Holding(s, id), fi)
             /\ Cardinality(Holding(r, id)) = Cardinality(Holding(s, id)) + 1
  <2>1. PICK D : D = Holding(s, id)
    OBVIOUS
  <2>2. D \subseteq DOMAIN s
    BY <1>2, <2>1 DEF PlaceAdded
  <2>3. LastAdded(s, m, r, n, D)
    BY <1>3, <2>2
  <2>4. PICK E : E = D \cup {n}
    OBVIOUS
  <2>5. /\ Earlier(E) = D /\ Cardinality(E) = Cardinality(D) + 1
        /\ \A fi : LastIn(r, E, fi) = m[fi] /\ LastIn(r, D, fi) = LastIn(s, D, fi)
    BY <2>3, <2>4 DEF LastAdded
  <2>6. Holding(r, id) = E
    BY <1>2, <1>6, <2>1, <2>4 DEF PlaceAdded
  <2> QED
    BY <2>1, <2>5, <2>6
<1>7. ASSUME NEW id, m[2] # id
      PROVE  /\ Holding(r, id) = Holding(s, id)
             /\ \A fi : /\ LastIn(r, Holding(r, id), fi) = LastIn(s, Holding(s, id), fi)
                        /\ LastIn(r, Earlier(Holding(r, id)), fi) =
                              LastIn(s, Earlier(Holding(s, id)), fi)
  <2>1. Holding(s, id) \subseteq DOMAIN s /\ Holding(r, id) = Holding(s, id)
    BY <1>2, <1>7 DEF PlaceAdded
  <2>2. Earlier(Holding(s, id)) \subseteq DOMAIN s
    BY <1>4, <2>1
  <2> QED
    BY <1>3, <2>1, <2>2 DEF LastAdded
<1>8. \A id : Cardinality(Holding(s, id)) \in Nat
  BY <1>2, <1>3 DEF LastAdded, PlaceAdded
<1> QED
  BY <1>5, <1>6, <1>7, <1>8 DEF HistoryGrown

\* How often an instrument's messages had each quantity.
Times(s, id) == [q \in Word32 |-> Cardinality({n \in Holding(s, id) : s[n][4] = q})]

TimesGrown(s, m, r, id) ==
    /\ Times(s, id) \in [Word32 -> Nat]
    /\ Times(r, id) = IF m[2] = id THEN [Times(s, id) EXCEPT ![m[4]] = @ + 1] ELSE Times(s, id)

\* It was sent once more, with its quantity.
LEMMA TimesGrow ==
    ASSUME NEW M, NEW s \in Seq(M), NEW m \in M, NEW r, r = Append(s, m), m[4] \in Word32,
           NEW id
    PROVE  TimesGrown(s, m, r, id)
<1> DEFINE With(l, q) == {k \in Holding(l, id) : l[k][4] = q}
<1>1. PICK n : n = Len(s) + 1
  OBVIOUS
<1>2. /\ Holding(s, id) \subseteq DOMAIN s
      /\ Holding(r, id) = IF m[2] = id THEN Holding(s, id) \cup {n} ELSE Holding(s, id)
  <2>1. PlaceAdded(s, m, r, n)
    BY <1>1, AllAndInstruments
  <2> QED
    BY <2>1 DEF PlaceAdded
<1>3. Len(s) \in Nat /\ DOMAIN s = 1 .. Len(s)
  BY LenProperties
<1>4. r[n] = m /\ \A i \in DOMAIN s : r[i] = s[i]
  BY <1>1, <1>3, LastAppended, AppendProperties
<1>5. n \notin DOMAIN s
  BY <1>1, <1>3
<1>6. \A q : With(s, q) \subseteq DOMAIN s
  BY <1>2
<1>7. \A q : /\ IsFiniteSet(With(s, q)) /\ n \notin With(s, q)
             /\ Cardinality(With(s, q)) \in Nat
  <2>1. IsFiniteSet(DOMAIN s)
    BY <1>3, FS_Interval
  <2> HIDE DEF With
  <2> QED
    BY <1>5, <1>6, <2>1, FS_Subset, FS_CardinalityType
<1>8. \A q : With(r, q) = IF m[2] = id /\ m[4] = q THEN With(s, q) \cup {n} ELSE With(s, q)
  BY <1>2, <1>4
<1>9. \A q : Cardinality(With(r, q)) =
                 IF m[2] = id /\ m[4] = q THEN Cardinality(With(s, q)) + 1
                 ELSE Cardinality(With(s, q))
  <2> HIDE DEF With
  <2> QED
    BY <1>7, <1>8, FS_AddElement
<1>10. /\ Times(s, id) = [q \in Word32 |-> Cardinality(With(s, q))]
       /\ Times(r, id) = [q \in Word32 |-> Cardinality(With(r, q))]
  BY DEF Times
<1> HIDE DEF With
<1>11. Times(s, id) \in [Word32 -> Nat]
  BY <1>7, <1>10
<1>12. ASSUME m[2] = id PROVE Times(r, id) = [Times(s, id) EXCEPT ![m[4]] = @ + 1]
  <2> DEFINE T == Times(s, id)
             x == m[4]
  <2>1. T = [q \in Word32 |-> Cardinality(With(s, q))] /\ x \in Word32
    BY <1>10
  <2> HIDE DEF T, x
  <2>2. Times(r, id) = [q \in Word32 |-> IF q = x THEN T[q] + 1 ELSE T[q]]
    <3>1. \A q \in Word32 : Cardinality(With(r, q)) = IF q = x THEN T[q] + 1 ELSE T[q]
      BY <1>9, <1>12, <2>1 DEF x
    <3> QED
      BY <1>10, <3>1
  <2>3. Times(r, id) = [T EXCEPT ![x] = @ + 1]
    BY <2>1, <2>2
  <2> QED
    BY <2>3 DEF T, x
<1>13. ASSUME m[2] # id PROVE Times(r, id) = Times(s, id)
  <2>1. \A q \in Word32 : Cardinality(With(r, q)) = Cardinality(With(s, q))
    BY <1>9, <1>13
  <2> QED
    BY <1>10, <2>1
<1> QED
  BY <1>11, <1>12, <1>13 DEF TimesGrown

\* The stride predictor's record of an instrument, from its messages.
Strides(s, id) == [last        |-> LastIn(s, Holding(s, id), 3),
                   second_last |-> LastIn(s, Earlier(Holding(s, id)), 3),
                   cnt         |-> Cardinality(Holding(s, id))]

SeqidRecord == [last : Nat, typical : Int, cnt : Nat]

OwnKept ==
    /\ program = "timestamp_lastgap" =>
          own.gap = LastIn(sent, DOMAIN sent, 1) - LastIn(sent, Earlier(DOMAIN sent), 1)
    /\ program = "price_stride" => own = [id \in Ids |-> Strides(sent, id)]
    /\ program = "quantity_freq" =>
          /\ own \in [Ids -> FreqTable]
          /\ \A id \in Ids : Counting(own[id], Times(sent, id), QF_PERIOD + own[id].updates)
    /\ program = "instrument_2back" =>
          own = [second_last |-> LastIn(sent, Earlier(DOMAIN sent), 2)]
    /\ program = "seqid_perdelta" =>
          /\ own.g_last = LastIn(sent, DOMAIN sent, 5) /\ own.g_last \in Nat
          /\ own.g_typical \in Int
          /\ own.sq \in [Ids -> SeqidRecord]
          /\ \A id \in Ids : own.sq[id].last = LastIn(sent, Holding(sent, id), 5)

Remembered ==
    program \in Predicting =>
        /\ enc.last_timestamp = LastIn(sent, DOMAIN sent, 1)
        /\ enc.last_instrument_id = LastIn(sent, DOMAIN sent, 2)
        /\ OwnKept

\* Before the first message, there is nothing to remember.
LEMMA InitRemembered == Init => Remembered
<1> SUFFICES ASSUME Init, program \in Predicting PROVE Remembered
  BY DEF Remembered
<1>1. sent = << >> /\ enc = InitState /\ own = FreshPredictor(program)
  BY MeasuresAssumption, BenchmarksAssumption DEF Init, PredictionsInit, MeasuresInit, Begin
<1>2. DOMAIN sent = {}
  BY <1>1
<1>3. Earlier(DOMAIN sent) = {} /\ \A id : Holding(sent, id) = {} /\ Earlier(Holding(sent, id)) = {}
  BY <1>2 DEF Earlier, Holding
<1>4. /\ \A fi : LastIn(sent, DOMAIN sent, fi) = 0 /\ LastIn(sent, Earlier(DOMAIN sent), fi) = 0
      /\ \A id, fi : /\ LastIn(sent, Holding(sent, id), fi) = 0
                     /\ LastIn(sent, Earlier(Holding(sent, id)), fi) = 0
  BY <1>2, <1>3 DEF LastIn
<1>5. enc.last_timestamp = 0 /\ enc.last_instrument_id = 0
  BY <1>1 DEF InitState
<1>6. Cardinality({}) = 0
  BY FS_EmptySet
<1>7. program = "timestamp_lastgap" =>
          own.gap = LastIn(sent, DOMAIN sent, 1) - LastIn(sent, Earlier(DOMAIN sent), 1)
  BY <1>1, <1>4 DEF FreshPredictor
<1>8. ASSUME program = "price_stride" PROVE own = [id \in Ids |-> Strides(sent, id)]
  <2>1. own = [id \in Ids |-> [last |-> 0, second_last |-> 0, cnt |-> 0]]
    BY <1>1, <1>8 DEF FreshPredictor
  <2>2. \A id \in Ids : Strides(sent, id) = [last |-> 0, second_last |-> 0, cnt |-> 0]
    BY <1>3, <1>4, <1>6 DEF Strides
  <2> QED
    BY <2>1, <2>2
<1>9. ASSUME program = "quantity_freq"
      PROVE  /\ own \in [Ids -> FreqTable]
             /\ \A id \in Ids : Counting(own[id], Times(sent, id), QF_PERIOD + own[id].updates)
  <2>1. own = [id \in Ids |-> NoQuantities]
    BY <1>1, <1>9 DEF FreshPredictor
  <2>2. NoQuantities \in FreqTable
    BY PredictionsAssumption, Widths DEF NoQuantities, FreqTable, Word32
  <2>3. /\ NoQuantities.cnt = [i \in 1 .. 4 |-> 0] /\ NoQuantities.updates = 0
    BY DEF NoQuantities
  <2>4. \A i \in 1 .. 4 : NoQuantities.cnt[i] = 0
    BY <2>3
  <2>5. ASSUME NEW times PROVE Counting(NoQuantities, times, QF_PERIOD + 0)
    <3>1. InOneSlot(NoQuantities.qty, NoQuantities.cnt)
      BY <2>4 DEF InOneSlot
    <3>2. InOrder(NoQuantities.cnt)
      BY <2>4 DEF InOrder
    <3>3. NotAbove(NoQuantities.qty, NoQuantities.cnt, times)
      BY <2>4 DEF NotAbove
    <3>4. \A i \in 1 .. 4 : NoQuantities.cnt[i] <= QF_PERIOD + 0
      BY <2>4, PredictionsAssumption
    <3> QED
      BY <2>2, <3>1, <3>2, <3>3, <3>4 DEF Counting
  <2> QED
    BY <2>1, <2>2, <2>3, <2>5
<1>10. ASSUME program = "instrument_2back"
       PROVE  own = [second_last |-> LastIn(sent, Earlier(DOMAIN sent), 2)]
  BY <1>1, <1>4, <1>10 DEF FreshPredictor
<1>11. ASSUME program = "seqid_perdelta"
       PROVE  /\ own.g_last = LastIn(sent, DOMAIN sent, 5) /\ own.g_last \in Nat
              /\ own.g_typical \in Int
              /\ own.sq \in [Ids -> SeqidRecord]
              /\ \A id \in Ids : own.sq[id].last = LastIn(sent, Holding(sent, id), 5)
  <2>1. own = [ sq |-> [id \in Ids |-> [last |-> 0, typical |-> 0, cnt |-> 0]],
                g_last |-> 0, g_typical |-> 1 ]
    BY <1>1, <1>11 DEF FreshPredictor
  <2>2. own.sq = [id \in Ids |-> [last |-> 0, typical |-> 0, cnt |-> 0]]
        /\ own.g_last = 0 /\ own.g_typical = 1
    BY <2>1
  <2>3. own.sq \in [Ids -> SeqidRecord] /\ \A id \in Ids : own.sq[id].last = 0
    BY <2>2 DEF SeqidRecord
  <2> QED
    BY <1>4, <2>2, <2>3
<1>12. OwnKept
  BY <1>7, <1>8, <1>9, <1>10, <1>11 DEF OwnKept
<1> QED
  BY <1>4, <1>5, <1>12 DEF Remembered

\* The values of a message that an experiment is sent.
Fits(m) ==
    /\ m \in Message(Schema) /\ Representable(Schema, m)
    /\ m[1] \in Word64 /\ m[2] \in Ids /\ m[2] < RAW_IDS
    /\ m[3] \in Word32 /\ m[4] \in Word32
    /\ LastIn(sent, DOMAIN sent, 1) \in Nat /\ LastIn(sent, DOMAIN sent, 1) <= m[1] /\ m[1] < HALF
    /\ program = "seqid_perdelta" => m[5] \in Nat

\* The schema of an experiment is that of quotes or of trades.
LEMMA SchemaBegins ==
    ASSUME program \in Predicting
    PROVE  /\ IsSchema(Schema) /\ Begins(Schema)
           /\ Len(Schema) \in Nat /\ Fields(Schema) = 1 .. Len(Schema) /\ Len(Schema) >= 5
           /\ program \in Quoting \cup {"seqid_perdelta"}
           /\ Schema = IF program \in Quoting THEN QuoteSchema ELSE TradeSchema
<1>1. Schema = IF program \in Quoting THEN QuoteSchema ELSE TradeSchema
  BY PredictionsAssumption DEF Schema
<1>2. Begins(Schema)
  BY <1>1, BothBegin
<1>3. program \in Quoting \cup {"seqid_perdelta"}
  BY PredictionsAssumption
<1>4. Len(Schema) \in Nat /\ Fields(Schema) = 1 .. Len(Schema) /\ IsSchema(Schema)
  BY SchemaGiven
<1>5. Len(Schema) >= 5
  <2>1. CASE program \in Quoting
    <3>1. Schema = QuoteSchema
      BY <1>1, <2>1
    <3> QED
      BY <3>1, QuoteFields
  <2>2. CASE program \notin Quoting
    <3>1. Schema = TradeSchema
      BY <1>1, <2>2
    <3> QED
      BY <3>1, TradeFields
  <2> QED
    BY <2>1, <2>2
<1> QED
  BY <1>1, <1>2, <1>3, <1>4, <1>5

\* The last time and id that was sent.
LEMMA LastSent ==
    ASSUME Sending, NEW fi
    PROVE  LastIn(sent, DOMAIN sent, fi) = IF sent = << >> THEN 0 ELSE Last(sent)[fi]
<1>1. sent \in Seq(Message(Schema))
  BY DEF Sending
<1>2. Len(sent) \in Nat /\ DOMAIN sent = 1 .. Len(sent) /\ (sent = << >> <=> Len(sent) = 0)
  BY <1>1, LenProperties, EmptySeq
<1>3. CASE sent = << >>
  BY <1>2, <1>3 DEF LastIn
<1>4. CASE sent # << >>
  <2>1. Max(DOMAIN sent) = Len(sent)
    <3>1. DOMAIN sent \subseteq Int /\ Len(sent) \in DOMAIN sent /\ \A y \in DOMAIN sent : y <= Len(sent)
      BY <1>2, <1>4
    <3> QED
      BY <3>1, MaxIs
  <2>2. DOMAIN sent # {}
    BY <1>2, <1>4
  <2> QED
    BY <1>4, <2>1, <2>2 DEF LastIn, Last
<1> QED
  BY <1>3, <1>4

\* The generators send such messages.
LEMMA GeneratedFits ==
    ASSUME Sending, program \in Predicting, NEW t \in Templates, Len(sent) < MAX_MSGS
    PROVE  Fits(Generated(t))
<1> DEFINE m == Generated(t)
<1>1. /\ IsSchema(Schema) /\ Begins(Schema) /\ Len(Schema) >= 5
      /\ Len(Schema) \in Nat /\ Fields(Schema) = 1 .. Len(Schema)
  BY SchemaBegins
<1>2. /\ m \in Message(Schema) /\ Representable(Schema, m)
      /\ \A fi \in Fields(Schema) :
            IF Rising(Schema, fi)
            THEN m[fi] = Reached(fi) + t[fi] /\ m[fi] \in Nat /\ m[fi] < HALF
            ELSE m[fi] = t[fi]
  BY GeneratedValues
<1>3. /\ t \in Message(Schema)
      /\ \A fi \in Fields(Schema) : Rising(Schema, fi) => Reached(fi) \in Nat
  BY SchemaGiven DEF Sending
<1> HIDE DEF m
<1>4. \A i \in 1 .. 4 : i \in Fields(Schema) /\ m[i] \in Word64
  <2>1. \A i \in Fields(Schema) : m[i] \in Word64
    BY <1>2 DEF Message
  <2> QED
    BY <1>1, <2>1
<1>5. m[2] \in Ids /\ m[2] < RAW_IDS
  <2>1. ~Rising(Schema, 2) /\ m[2] < RAW_IDS
    BY <1>1, <1>2, <1>4 DEF Rising, Begins, Representable
  <2>2. t[2] < MAX_INSTRUMENTS
    BY PredictionsAssumption DEF Templates
  <2>3. m[2] < MAX_INSTRUMENTS
    BY <1>2, <1>4, <2>1, <2>2
  <2> QED
    BY <1>4, <2>1, <2>3, CodecAssumption, Widths DEF Ids, Word64
<1>6. m[3] \in Word32 /\ m[4] \in Word32
  <2>1. Schema[3].type = "PRICE" /\ Schema[4].type = "QUANTITY" /\ 3 \in Fields(Schema) /\ 4 \in Fields(Schema)
    BY <1>1, <1>4 DEF Begins
  <2>2. m[3] < U32 /\ m[4] < U32
    BY <1>2, <2>1 DEF Representable
  <2>3. m[3] \in Nat /\ m[4] \in Nat
    BY <1>4, Widths DEF Word64
  <2> QED
    BY <2>2, <2>3, Widths DEF Word32
<1>7. LastIn(sent, DOMAIN sent, 1) \in Nat /\ LastIn(sent, DOMAIN sent, 1) <= m[1] /\ m[1] < HALF
  <2>1. Rising(Schema, 1) /\ 1 \in Fields(Schema)
    BY <1>1, <1>4 DEF Rising, Begins
  <2>2. m[1] = Reached(1) + t[1] /\ m[1] \in Nat /\ m[1] < HALF /\ Reached(1) \in Nat
    BY <1>2, <1>3, <2>1
  <2>3. t[1] \in Nat
    BY <1>3, <2>1, Widths DEF Message, Word64
  <2>4. LastIn(sent, DOMAIN sent, 1) = IF sent = << >> THEN 0 ELSE Reached(1)
    BY LastSent DEF Reached
  <2> QED
    BY <2>2, <2>3, <2>4
<1>8. program = "seqid_perdelta" => m[5] \in Nat
  <2>1. 5 \in Fields(Schema)
    BY <1>1
  <2> QED
    BY <1>2, <2>1, Widths DEF Message, Word64
<1> QED
  BY <1>2, <1>4, <1>5, <1>6, <1>7, <1>8 DEF Fits, m

\* Either way, the time and the instrument are kept.
LEMMA StepKeeps ==
    ASSUME Experimenting, program \in Predicting, NEW m, Fits(m)
    PROVE  Keeps(IF program \in Quoting THEN CommitQuote(m) ELSE CommitTrade(m), m)
<1> DEFINE n == CommitInstrumentState(CommitTable(CommitTime(enc, m), m), m)
<1>1. /\ IsSchema(Schema) /\ Begins(Schema)
      /\ Schema = IF program \in Quoting THEN QuoteSchema ELSE TradeSchema
  BY SchemaBegins
<1>2. Sound(Start(enc)) /\ Sound(Start(core)) /\ Alike(enc, core)
  BY DEF Experimenting
<1>3. m \in Message(Schema) /\ Representable(Schema, m) /\ m[1] \in Word64 /\ m[2] \in Ids
  BY DEF Fits
<1>4. m[2] \in 0 .. MAX_INSTRUMENTS - 1 /\ m[2] < MAX_INSTRUMENTS
  BY <1>3, CodecAssumption, Sizes DEF Ids
<1>5. PICK t : Trail(core, Schema, m, t)
  BY <1>1, <1>2, <1>3, TrailExists
<1>6. n \in State
  <2>1. Sound(Start(n))
    BY <1>1, <1>2, <1>3, <1>4, <1>5, FourFields
  <2> QED
    BY <2>1, SoundState DEF Start
<1>7. CASE program \in Quoting
  BY <1>2, <1>3, <1>4, <1>6, <1>7, QuoteKeeps
<1>8. CASE program \notin Quoting
  <2>1. Len(TradeSchema) <= MAX_FIELDS
    BY <1>1, <1>8 DEF IsSchema
  <2>2. MAX_FIELDS >= 8
    BY <2>1, TradeFields, CodecAssumption
  <2> QED
    BY <1>2, <1>3, <1>4, <1>6, <1>8, <2>2, TradeKeeps
<1> QED
  BY <1>7, <1>8

\* The last gap: times never go back.
LEMMA GapKept ==
    ASSUME NEW m, Fits(m), enc.last_timestamp = LastIn(sent, DOMAIN sent, 1)
    PROVE  (IF Gap(m) > 0 THEN Gap(m) ELSE 0) = m[1] - LastIn(sent, DOMAIN sent, 1)
<1> DEFINE l == LastIn(sent, DOMAIN sent, 1)
<1>1. m[1] \in Nat /\ l \in Nat /\ l <= m[1] /\ m[1] < HALF
  BY Widths DEF Fits, Word64
<1> HIDE DEF l
<1>2. m[1] - l \in Int64 /\ m[1] - l >= 0 /\ m[1] - l \in Int
  BY <1>1, Widths DEF Int64
<1>3. Signed(m[1] - l) = m[1] - l
  BY <1>2, SignedSmall
<1>4. Gap(m) = Signed(m[1] - l)
  BY DEF Gap, l
<1> QED
  BY <1>2, <1>3, <1>4 DEF l

\* What the stride predictor notes.
StridesOf(s) == [id \in Ids |-> Strides(s, id)]

StrideNoted(f, m) ==
    [f EXCEPT ![m[2]] = [last |-> m[3], second_last |-> @.last, cnt |-> @.cnt + 1]]

\* experiment_price_stride keeps the last two prices of an instrument.
LEMMA StridesGrow ==
    ASSUME NEW M, NEW s \in Seq(M), NEW m \in M, m[2] \in Ids
    PROVE  StrideNoted(StridesOf(s), m) = StridesOf(Append(s, m))
<1>0. PICK r, f : r = Append(s, m) /\ f = StridesOf(s)
  OBVIOUS
<1> DEFINE d == m[2]
           v == [last |-> m[3], second_last |-> f[d].last, cnt |-> f[d].cnt + 1]
<1>1. HistoryGrown(s, m, r)
  BY <1>0, HistoryGrows
<1>2. d \in Ids
  OBVIOUS
<1>3. f[d].last = LastIn(s, Holding(s, d), 3) /\ f[d].cnt = Cardinality(Holding(s, d))
  <2>1. f[d] = Strides(s, d)
    BY <1>0, <1>2 DEF StridesOf
  <2> QED
    BY <2>1 DEF Strides
<1>4. v = Strides(r, d)
  BY <1>1, <1>3 DEF HistoryGrown, Strides
<1>5. \A id \in Ids : id # d => f[id] = Strides(r, id)
  BY <1>0, <1>1 DEF HistoryGrown, Strides, StridesOf
<1>6. StrideNoted(f, m) = [f EXCEPT ![d] = v]
  BY DEF StrideNoted
<1> HIDE DEF v, d
<1>7. [f EXCEPT ![d] = v] = [id \in Ids |-> IF id = d THEN v ELSE f[id]]
  BY <1>0, <1>2 DEF StridesOf
<1>8. StrideNoted(f, m) = StridesOf(r)
  BY <1>4, <1>5, <1>6, <1>7 DEF StridesOf
<1> QED
  BY <1>0, <1>8

\* What the table of frequent quantities notes.
QuantitiesKept(s, f) ==
    /\ f \in [Ids -> FreqTable]
    /\ \A id \in Ids : Counting(f[id], Times(s, id), QF_PERIOD + f[id].updates)

QuantityNoted(f, m) == [f EXCEPT ![m[2]] = QfUpdate(@, m[4])]

\* qf_update keeps the table of the message's instrument.
LEMMA QuantitiesGrow ==
    ASSUME NEW M, NEW s \in Seq(M), NEW m \in M, m[2] \in Ids, m[4] \in Word32,
           NEW f, QuantitiesKept(s, f)
    PROVE  QuantitiesKept(Append(s, m), QuantityNoted(f, m))
<1>0. PICK r, g : r = Append(s, m) /\ g = QuantityNoted(f, m)
  OBVIOUS
<1>9. f \in [Ids -> FreqTable]
      /\ \A id \in Ids : Counting(f[id], Times(s, id), QF_PERIOD + f[id].updates)
  BY DEF QuantitiesKept
<1> DEFINE d == m[2]
           q == m[4]
           x == QfUpdate(f[d], q)
<1>1. \A id : TimesGrown(s, m, r, id)
  BY <1>0, TimesGrow
<1>2. d \in Ids /\ q \in Word32
  OBVIOUS
<1>3. g = [f EXCEPT ![d] = x]
  BY <1>0 DEF QuantityNoted
<1> HIDE DEF d, q
<1>4. Counting(x, Times(r, d), QF_PERIOD + x.updates)
  <2>1. Times(r, d) = [Times(s, d) EXCEPT ![q] = @ + 1] /\ Times(s, d) \in [Word32 -> Nat]
    BY <1>1 DEF TimesGrown, d, q
  <2>2. Counting(f[d], Times(s, d), QF_PERIOD + f[d].updates)
    BY <1>2, <1>9
  <2> QED
    BY <1>2, <2>1, <2>2, QfUpdateGood
<1> HIDE DEF x
<1>5. x \in FreqTable
  BY <1>4 DEF Counting
<1>6. g \in [Ids -> FreqTable] /\ g[d] = x /\ \A id \in Ids : id # d => g[id] = f[id]
  BY <1>2, <1>3, <1>5, <1>9
<1>7. ASSUME NEW id \in Ids PROVE Counting(g[id], Times(r, id), QF_PERIOD + g[id].updates)
  <2>1. CASE id = d
    BY <1>4, <1>6, <2>1
  <2>2. CASE id # d
    <3>1. Times(r, id) = Times(s, id) /\ g[id] = f[id]
      BY <1>1, <1>6, <2>2 DEF TimesGrown, d
    <3> QED
      BY <1>9, <3>1
  <2> QED
    BY <2>1, <2>2
<1> QED
  BY <1>0, <1>6, <1>7 DEF QuantitiesKept

\* What is noted of ids: the last of the stream and of each instrument.
IdsKept(s, f) ==
    /\ f \in [Ids -> SeqidRecord]
    /\ \A id \in Ids : f[id].last = LastIn(s, Holding(s, id), 5)

IdNoted(f, m, typical) ==
    [f EXCEPT ![m[2]] = [last |-> m[5], typical |-> typical, cnt |-> f[m[2]].cnt + 1]]

\* experiment_seqid_perdelta keeps the last id of an instrument.
LEMMA IdsGrow ==
    ASSUME NEW M, NEW s \in Seq(M), NEW m \in M, m[2] \in Ids, m[5] \in Nat,
           NEW f, IdsKept(s, f), NEW typical \in Int
    PROVE  IdsKept(Append(s, m), IdNoted(f, m, typical))
<1>0. PICK r, g : r = Append(s, m) /\ g = IdNoted(f, m, typical)
  OBVIOUS
<1> DEFINE d == m[2]
           v == [last |-> m[5], typical |-> typical, cnt |-> f[m[2]].cnt + 1]
<1>1. HistoryGrown(s, m, r)
  BY <1>0, HistoryGrows
<1>2. d \in Ids /\ g = [f EXCEPT ![d] = v]
  BY <1>0 DEF IdNoted
<1>3. v \in SeqidRecord /\ v.last = m[5]
  <2>1. f[m[2]] \in SeqidRecord
    BY DEF IdsKept
  <2> QED
    BY <2>1 DEF SeqidRecord
<1> HIDE DEF v
<1>4. g \in [Ids -> SeqidRecord] /\ g[d] = v /\ \A id \in Ids : id # d => g[id] = f[id]
  <2> HIDE DEF d
  <2> QED
    BY <1>2, <1>3 DEF IdsKept
<1>5. ASSUME NEW id \in Ids PROVE g[id].last = LastIn(r, Holding(r, id), 5)
  <2>1. CASE id = d
    BY <1>1, <1>3, <1>4, <2>1 DEF HistoryGrown
  <2>2. CASE id # d
    <3>1. LastIn(r, Holding(r, id), 5) = LastIn(s, Holding(s, id), 5)
      BY <1>1, <2>2 DEF HistoryGrown
    <3>2. g[id] = f[id]
      BY <1>4, <2>2
    <3> QED
      BY <3>1, <3>2 DEF IdsKept
  <2> QED
    BY <2>1, <2>2
<1> QED
  BY <1>0, <1>4, <1>5 DEF IdsKept

\* Each experiment keeps its own state by its own code.
LEMMA OwnStep ==
    ASSUME Experimenting, Remembered, program \in Predicting, NEW m \in Message(Schema), Fits(m),
           sent' = Append(sent, m), program' = program,
           \/ Stock(m) \/ TimestampLastgap(m) \/ PriceStride(m) \/ QuantityFreq(m)
           \/ Instrument2back(m) \/ SeqidPerdelta(m)
    PROVE  OwnKept'
<1>1. /\ sent \in Seq(Message(Schema)) /\ m[2] \in Ids /\ m[4] \in Word32
      /\ program = "seqid_perdelta" => m[5] \in Nat
  BY DEF Experimenting, Sending, Fits
<1>2. HistoryGrown(sent, m, sent')
  BY <1>1, HistoryGrows
<1>3. /\ enc.last_timestamp = LastIn(sent, DOMAIN sent, 1)
      /\ enc.last_instrument_id = LastIn(sent, DOMAIN sent, 2)
      /\ OwnKept
  BY DEF Remembered
<1>4. ASSUME program = "timestamp_lastgap"
      PROVE  own'.gap = LastIn(sent', DOMAIN sent', 1) - LastIn(sent', Earlier(DOMAIN sent'), 1)
  <2>1. TimestampLastgap(m)
    BY <1>4 DEF Stock, PriceStride, QuantityFreq, Instrument2back, SeqidPerdelta, Measure, Loop
  <2>2. own'.gap = IF Gap(m) > 0 THEN Gap(m) ELSE 0
    BY <2>1 DEF TimestampLastgap
  <2>3. own'.gap = m[1] - LastIn(sent, DOMAIN sent, 1)
    BY <1>3, <2>2, GapKept
  <2> QED
    BY <1>2, <2>3 DEF HistoryGrown
<1>5. ASSUME program = "price_stride" PROVE own' = [id \in Ids |-> Strides(sent', id)]
  <2>1. PriceStride(m)
    BY <1>5 DEF Stock, TimestampLastgap, QuantityFreq, Instrument2back, SeqidPerdelta, Measure, Loop
  <2>2. own' = StrideNoted(own, m)
    BY <2>1 DEF PriceStride, StrideNoted
  <2>3. own = StridesOf(sent)
    BY <1>3, <1>5 DEF OwnKept, StridesOf
  <2>4. StrideNoted(StridesOf(sent), m) = StridesOf(Append(sent, m))
    BY <1>1, StridesGrow
  <2>5. own' = StridesOf(sent')
    BY <2>2, <2>3, <2>4
  <2> QED
    BY <2>5 DEF StridesOf
<1>6. ASSUME program = "quantity_freq"
      PROVE  /\ own' \in [Ids -> FreqTable]
             /\ \A id \in Ids : Counting(own'[id], Times(sent', id), QF_PERIOD + own'[id].updates)
  <2>1. QuantityFreq(m)
    BY <1>6 DEF Stock, TimestampLastgap, PriceStride, Instrument2back, SeqidPerdelta, Measure, Loop
  <2>2. own' = QuantityNoted(own, m)
    BY <2>1 DEF QuantityFreq, QuantityNoted
  <2>3. QuantitiesKept(sent, own)
    BY <1>3, <1>6 DEF OwnKept, QuantitiesKept
  <2>4. QuantitiesKept(Append(sent, m), QuantityNoted(own, m))
    BY <1>1, <2>3, QuantitiesGrow
  <2>5. QuantitiesKept(sent', own')
    BY <2>2, <2>4
  <2> QED
    BY <2>5 DEF QuantitiesKept
<1>7. ASSUME program = "instrument_2back"
      PROVE  own' = [second_last |-> LastIn(sent', Earlier(DOMAIN sent'), 2)]
  <2>1. Instrument2back(m)
    BY <1>7 DEF Stock, TimestampLastgap, PriceStride, QuantityFreq, SeqidPerdelta, Measure, Loop
  <2>2. own' = [second_last |-> enc.last_instrument_id]
    BY <2>1 DEF Instrument2back
  <2> QED
    BY <1>2, <1>3, <2>2 DEF HistoryGrown
<1>8. ASSUME program = "seqid_perdelta"
      PROVE  /\ own'.g_last = LastIn(sent', DOMAIN sent', 5) /\ own'.g_last \in Nat
             /\ own'.g_typical \in Int
             /\ own'.sq \in [Ids -> SeqidRecord]
             /\ \A id \in Ids : own'.sq[id].last = LastIn(sent', Holding(sent', id), 5)
  <2>1. SeqidPerdelta(m)
    BY <1>8 DEF Stock, TimestampLastgap, PriceStride, QuantityFreq, Instrument2back, Measure, Loop
  <2> DEFINE si == own.sq[m[2]]
             seq == m[5]
             step == IF own.g_last > 0 THEN Signed(seq - own.g_last) ELSE 1
             typical == IF si.last > 0
                        THEN si.typical + (Signed(seq - si.last) - si.typical) \div 4
                        ELSE 1
  <2>2. own' = [ sq |-> [own.sq EXCEPT ![m[2]] =
                            [last |-> seq, typical |-> typical, cnt |-> si.cnt + 1]],
                 g_last |-> seq,
                 g_typical |-> own.g_typical + (step - own.g_typical) \div 4 ]
    BY <2>1 DEF SeqidPerdelta
  <2>3. /\ own.g_last \in Nat /\ own.g_typical \in Int
        /\ own.sq \in [Ids -> SeqidRecord]
        /\ \A id \in Ids : own.sq[id].last = LastIn(sent, Holding(sent, id), 5)
    BY <1>3, <1>8 DEF OwnKept
  <2>4. si \in SeqidRecord /\ si.last \in Nat /\ si.typical \in Int
    <3>1. si \in SeqidRecord
      BY <1>1, <2>3
    <3> HIDE DEF si
    <3> QED
      BY <3>1 DEF SeqidRecord
  <2>5. seq \in Nat
    BY <1>1, <1>8
  <2> HIDE DEF si, seq
  <2>6. \A x \in Int : Signed(x) \in Int
    BY Widths DEF Signed
  <2>7. typical \in Int
    <3>1. Signed(seq - si.last) \in Int
      BY <2>4, <2>5, <2>6
    <3> QED
      BY <2>4, <3>1
  <2>8. own.g_typical + (step - own.g_typical) \div 4 \in Int
    <3>1. Signed(seq - own.g_last) \in Int
      BY <2>3, <2>5, <2>6
    <3>2. step \in Int
      BY <3>1
    <3> HIDE DEF step
    <3> QED
      BY <2>3, <3>2
  <2> HIDE DEF typical, step
  <2>9. /\ own'.sq = IdNoted(own.sq, m, typical)
        /\ own'.g_last = m[5]
        /\ own'.g_typical = own.g_typical + (step - own.g_typical) \div 4
    BY <2>2 DEF si, seq, IdNoted
  <2>10. /\ own'.sq \in [Ids -> SeqidRecord]
         /\ \A id \in Ids : own'.sq[id].last = LastIn(sent', Holding(sent', id), 5)
    <3>1. IdsKept(sent, own.sq)
      BY <2>3 DEF IdsKept
    <3>2. IdsKept(Append(sent, m), IdNoted(own.sq, m, typical))
      BY <1>1, <1>8, <2>7, <3>1, IdsGrow
    <3>3. IdsKept(sent', own'.sq)
      BY <2>9, <3>2
    <3> QED
      BY <3>3 DEF IdsKept
  <2> QED
    BY <1>2, <2>5, <2>8, <2>9, <2>10 DEF HistoryGrown, seq
<1> QED
  BY <1>4, <1>5, <1>6, <1>7, <1>8 DEF OwnKept

\* Each experiment keeps what its predictor is named for.
LEMMA NextRemembered == Experimenting /\ Remembered /\ [Next]_vars => Remembered'
<1> SUFFICES ASSUME Experimenting, Remembered, [Next]_vars PROVE Remembered'
  OBVIOUS
<1>1. Sending
  BY DEF Experimenting
<1>2. CASE PredictionsNext
  <2>1. PICK t \in Templates :
            \/ Stock(Generated(t)) \/ TimestampLastgap(Generated(t)) \/ PriceStride(Generated(t))
            \/ QuantityFreq(Generated(t)) \/ Instrument2back(Generated(t))
            \/ SeqidPerdelta(Generated(t))
    BY <1>2 DEF PredictionsNext
  <2> DEFINE m == Generated(t)
  <2>2. /\ Len(sent) < MAX_MSGS /\ sent' = Append(sent, m) /\ program' = program
        /\ program \in Predicting
        /\ enc' = IF program \in Quoting THEN CommitQuote(m) ELSE CommitTrade(m)
    BY <1>1, <2>1, ActionStep DEF Loop
  <2>3. Fits(m)
    BY <1>1, <2>2, GeneratedFits
  <2>4. m \in Message(Schema) /\ sent \in Seq(Message(Schema))
    BY <1>1, <2>3 DEF Fits, Sending
  <2> HIDE DEF m
  <2>5. Keeps(enc', m)
    BY <2>2, <2>3, StepKeeps
  <2>6. HistoryGrown(sent, m, sent')
    BY <2>2, <2>4, HistoryGrows
  <2>7. OwnKept'
    <3>1. \/ Stock(m) \/ TimestampLastgap(m) \/ PriceStride(m) \/ QuantityFreq(m)
          \/ Instrument2back(m) \/ SeqidPerdelta(m)
      BY <2>1 DEF m
    <3> QED
      BY <2>2, <2>3, <2>4, <3>1, OwnStep
  <2>8. /\ enc'.last_timestamp = LastIn(sent', DOMAIN sent', 1)
        /\ enc'.last_instrument_id = LastIn(sent', DOMAIN sent', 2)
    BY <2>5, <2>6 DEF Keeps, HistoryGrown
  <2> QED
    BY <2>7, <2>8 DEF Remembered
<1>3. CASE MeasuresNext
  <2>1. program \notin Predicting /\ program' = program
    BY <1>1, <1>3, MeasuresStep DEF Loop
  <2> QED
    BY <2>1 DEF Remembered
<1>4. CASE UNCHANGED vars
  BY <1>4 DEF vars, compared, Remembered, OwnKept
<1> QED
  BY <1>2, <1>3, <1>4 DEF Next

\* In every run of an experiment, its own state is what the messages sent so far
\* make of it, and every count of a quantity is within what it may reach before
\* qf_update halves it.
THEOREM AlwaysRemembered == Spec => []Remembered
<1>1. Init => Experimenting /\ Remembered
  BY InitExperimenting, InitRemembered
<1>2. (Experimenting /\ Remembered) /\ [Next]_vars => (Experimenting /\ Remembered)'
  BY NextExperimenting, NextRemembered
<1> QED
  BY <1>1, <1>2, PTL DEF Spec

\* A predictor's own state is what it is named for, of every history of
\* messages: the last gap, the last two prices of an instrument, the
\* instrument before the last, the last ids, and a table of quantities in
\* which an index names one quantity, counted no more often than it was sent.
THEOREM AlwaysPredictsFromHistory == Spec => []PredictsFromHistory
<1>1. Remembered => PredictsFromHistory
  <2> SUFFICES ASSUME Remembered, program \in Predicting PROVE OwnHistory /\ QuantityTable
    BY DEF PredictsFromHistory
  <2>1. OwnKept
    BY DEF Remembered
  <2>2. \A S, fi : LastOf(S, fi) = LastIn(sent, S, fi)
    BY DEF LastOf, LastIn
  <2>3. \A id : OfInstrument(id) = Holding(sent, id)
    BY DEF OfInstrument, Holding
  <2>4. OwnHistory
    <3>1. program = "timestamp_lastgap" =>
              own.gap = LastOf(DOMAIN sent, 1) - LastOf(Earlier(DOMAIN sent), 1)
      BY <2>1, <2>2 DEF OwnKept
    <3>2. ASSUME program = "price_stride", NEW id \in Ids, NEW S \in {OfInstrument(id)}
          PROVE  own[id] = [last        |-> LastOf(S, 3),
                            second_last |-> LastOf(Earlier(S), 3),
                            cnt         |-> Cardinality(S)]
      <4>1. own[id] = Strides(sent, id)
        BY <2>1, <3>2 DEF OwnKept
      <4> QED
        BY <2>2, <2>3, <4>1 DEF Strides
    <3>3. program = "instrument_2back" => own.second_last = LastOf(Earlier(DOMAIN sent), 2)
      BY <2>1, <2>2 DEF OwnKept
    <3>4. program = "seqid_perdelta" =>
              /\ own.g_last = LastOf(DOMAIN sent, 5)
              /\ \A id \in Ids : own.sq[id].last = LastOf(OfInstrument(id), 5)
      BY <2>1, <2>2, <2>3 DEF OwnKept
    <3>5. program = "price_stride" => \A id \in Ids : \E S \in {OfInstrument(id)} :
              own[id] = [last        |-> LastOf(S, 3),
                         second_last |-> LastOf(Earlier(S), 3),
                         cnt         |-> Cardinality(S)]
      BY <3>2
    <3> QED
      BY <3>1, <3>3, <3>4, <3>5 DEF OwnHistory
  <2>5. QuantityTable
    <3> SUFFICES ASSUME program = "quantity_freq", NEW id \in Ids
                 PROVE  LET f    == own[id]
                            live == {i \in 1 .. 4 : f.cnt[i] > 0}
                        IN  /\ \A i, j \in live : f.qty[i] = f.qty[j] => i = j
                            /\ f.cnt[1] >= f.cnt[2] /\ f.cnt[2] >= f.cnt[3]
                            /\ f.cnt[4] <= f.cnt[3] \/ f.cnt[4] = 1
                            /\ \A i \in live :
                                  f.cnt[i] <= Cardinality({n \in OfInstrument(id) :
                                                           sent[n][4] = f.qty[i]})
      BY DEF QuantityTable
    <3> DEFINE f == own[id]
    <3>1. Counting(f, Times(sent, id), QF_PERIOD + f.updates)
      BY <2>1 DEF OwnKept
    <3> HIDE DEF f
    <3>2. \A i, j \in {k \in 1 .. 4 : f.cnt[k] > 0} : f.qty[i] = f.qty[j] => i = j
      BY <3>1 DEF Counting, InOneSlot
    <3>3. /\ f.cnt[1] >= f.cnt[2] /\ f.cnt[2] >= f.cnt[3]
          /\ f.cnt[4] <= f.cnt[3] \/ f.cnt[4] = 1
      BY <3>1 DEF Counting, InOrder
    <3>4. ASSUME NEW i \in {k \in 1 .. 4 : f.cnt[k] > 0}
          PROVE  f.cnt[i] <= Cardinality({n \in OfInstrument(id) : sent[n][4] = f.qty[i]})
      <4>1. f.cnt[i] <= Times(sent, id)[f.qty[i]] /\ f.qty[i] \in Word32
        BY <3>1 DEF Counting, NotAbove, FreqTable
      <4>2. Times(sent, id)[f.qty[i]] =
                Cardinality({n \in Holding(sent, id) : sent[n][4] = f.qty[i]})
        BY <4>1 DEF Times
      <4> QED
        BY <2>3, <4>1, <4>2
    <3> QED
      BY <3>2, <3>3, <3>4 DEF f
  <2> QED
    BY <2>4, <2>5
<1> QED
  BY <1>1, AlwaysRemembered, PTL
-----------------------------------------------------------------------------
(* Sums and lists that are worked out from left to right. *)

\* What n turns of a loop make of x.
Turns(X, x, step, n, f) ==
    /\ f \in [0 .. n -> X]
    /\ f[0] = x
    /\ \A i \in 1 .. n : f[i] = step[<<i, f[i - 1]>>]

\* A loop whose turns are those of L comes to what L does.
TurnsOf(n, f, L) == f[0] = L[0] /\ \A i \in 1 .. n : f[i - 1] = L[i - 1] => f[i] = L[i]

\* Turn by turn.
LEMMA SameTurns ==
    ASSUME NEW n \in Nat, NEW f, NEW L, TurnsOf(n, f, L)
    PROVE  \A i \in 0 .. n : f[i] = L[i]
<1>1. f[0] = L[0] /\ \A i \in 1 .. n : f[i - 1] = L[i - 1] => f[i] = L[i]
  BY DEF TurnsOf
<1> QED
  BY <1>1, StepByStep, ZenonT(40)

\* A loop has turns.
LEMMA TurnsExist ==
    ASSUME NEW X, NEW x \in X, NEW n \in Nat, NEW step \in [Nat \X X -> X]
    PROVE  \E f : Turns(X, x, step, n, f)
<1> DEFINE P == Nat \X X
           g == [q \in P |-> <<q[1] + 1, step[<<q[1] + 1, q[2]>>]>>]
<1>1. g \in [P -> P]
  <2>1. ASSUME NEW q \in P PROVE <<q[1] + 1, step[<<q[1] + 1, q[2]>>]>> \in P
    <3>1. <<q[1] + 1, q[2]>> \in Nat \X X /\ q[1] + 1 \in Nat
      OBVIOUS
    <3> QED
      BY <3>1
  <2> HIDE DEF P
  <2> QED
    BY <2>1
<1>2. <<0, x>> \in P
  OBVIOUS
<1> HIDE DEF g, P
<1>3. PICK p : Prefix(P, <<0, x>>, g, n, p)
  BY <1>1, <1>2, PrefixExists
<1>4. /\ \A i \in 0 .. n : p[i] \in P /\ p[i][1] \in Nat /\ p[i][2] \in X
      /\ p[0] = <<0, x>>
      /\ \A i \in 0 .. n - 1 : p[i + 1] = g[p[i]]
  BY <1>3 DEF Prefix, P
<1>5. \A i \in 1 .. n : /\ p[i][1] = p[i - 1][1] + 1
                        /\ p[i][2] = step[<<p[i - 1][1] + 1, p[i - 1][2]>>]
  <2> TAKE i \in 1 .. n
  <2>1. i - 1 \in 0 .. n - 1 /\ i - 1 \in 0 .. n /\ (i - 1) + 1 = i
    OBVIOUS
  <2>2. p[i] = g[p[i - 1]] /\ p[i - 1] \in P
    BY <1>4, <2>1
  <2> QED
    BY <2>2 DEF g
<1> DEFINE c == [i \in 0 .. n |-> p[i][1]]
           L == [i \in 0 .. n |-> i]
           f == [i \in 0 .. n |-> p[i][2]]
<1>6. \A i \in 0 .. n : p[i][1] = i
  <2>1. c[0] = L[0]
    BY <1>4
  <2>2. ASSUME NEW i \in 1 .. n, c[i - 1] = L[i - 1] PROVE c[i] = L[i]
    <3>1. i - 1 \in 0 .. n /\ i \in 0 .. n
      OBVIOUS
    <3>2. p[i - 1][1] = i - 1
      BY <2>2, <3>1
    <3>3. p[i][1] = (i - 1) + 1
      BY <1>5, <3>2
    <3> QED
      BY <3>1, <3>3
  <2>3. \A i \in 0 .. n : c[i] = L[i]
    <3> HIDE DEF c, L
    <3>1. TurnsOf(n, c, L)
      BY <2>1, <2>2 DEF TurnsOf
    <3> QED
      BY <3>1, SameTurns
  <2> QED
    BY <2>3
<1>7. f \in [0 .. n -> X] /\ f[0] = x
  BY <1>4
<1>8. ASSUME NEW i \in 1 .. n PROVE f[i] = step[<<i, f[i - 1]>>]
  <2>1. i - 1 \in 0 .. n /\ i \in 0 .. n
    OBVIOUS
  <2>2. p[i - 1][1] + 1 = i
    BY <1>6, <2>1
  <2> QED
    BY <1>5, <2>1, <2>2
<1> HIDE DEF f
<1> QED
  BY <1>7, <1>8 DEF Turns

\* The bits of a word are a number if those of its tokens are.
LEMMA WordBitsType ==
    ASSUME NEW w, Len(w) \in Nat, \A i \in 1 .. Len(w) : TokenBits(w[i]) \in Nat
    PROVE  WordBits(w) \in Nat
<1> DEFINE n == Len(w)
           Body(s) == [i \in 0 .. n |-> IF i = 0 THEN 0 ELSE s[i - 1] + TokenBits(w[i])]
           sum == CHOOSE s : s = Body(s)
           step == [q \in Nat \X Nat |-> q[2] + (IF q[1] \in 1 .. n THEN TokenBits(w[q[1]]) ELSE 0)]
<1>1. WordBits(w) = sum[n]
  BY DEF WordBits
<1>2. step \in [Nat \X Nat -> Nat]
  OBVIOUS
<1>3. PICK f : Turns(Nat, 0, step, n, f)
  <2> HIDE DEF step
  <2> QED
    BY <1>2, TurnsExist
<1>4. /\ f \in [0 .. n -> Nat] /\ f[0] = 0
      /\ \A i \in 1 .. n : f[i] = f[i - 1] + TokenBits(w[i])
  <2>1. f \in [0 .. n -> Nat] /\ f[0] = 0 /\ \A i \in 1 .. n : f[i] = step[<<i, f[i - 1]>>]
    BY <1>3 DEF Turns
  <2>2. ASSUME NEW i \in 1 .. n PROVE f[i] = f[i - 1] + TokenBits(w[i])
    <3>1. f[i - 1] \in Nat /\ i \in Nat
      BY <2>1
    <3>2. step[<<i, f[i - 1]>>] = f[i - 1] + TokenBits(w[i])
      BY <3>1
    <3> QED
      BY <2>1, <3>2
  <2> QED
    BY <2>1, <2>2
<1> HIDE DEF step
<1>5. f = Body(f)
  <2>1. f = [i \in 0 .. n |-> f[i]]
    BY <1>4
  <2>2. \A i \in 0 .. n : f[i] = IF i = 0 THEN 0 ELSE f[i - 1] + TokenBits(w[i])
    BY <1>4
  <2> HIDE DEF n
  <2> QED
    BY <2>1, <2>2
<1>6. sum = Body(sum)
  <2> HIDE DEF Body
  <2> QED
    BY <1>5
<1> HIDE DEF sum
<1>7. sum[0] = 0 /\ \A i \in 1 .. n : sum[i] = sum[i - 1] + TokenBits(w[i])
  BY <1>6
<1>8. \A i \in 0 .. n : sum[i] = f[i]
  <2>1. sum[0] = f[0]
    BY <1>4, <1>7
  <2>2. ASSUME NEW i \in 1 .. n, sum[i - 1] = f[i - 1] PROVE sum[i] = f[i]
    BY <1>4, <1>7, <2>2
  <2>3. n \in Nat /\ TurnsOf(n, sum, f)
    BY <2>1, <2>2 DEF TurnsOf
  <2> HIDE DEF n
  <2> QED
    BY <2>3, SameTurns
<1>9. sum[n] = f[n] /\ f[n] \in Nat
  BY <1>4, <1>8
<1> QED
  BY <1>1, <1>9

\* Lists of items, joined, are a list of items.
LEMMA FlattenType ==
    ASSUME NEW S, NEW ss \in Seq(Seq(S))
    PROVE  FlattenSeq(ss) \in Seq(S)
<1> DEFINE n == Len(ss)
           X == Seq(S)
           Body(s) == [i \in 1 .. n |-> IF i = 1 THEN ss[i] ELSE s[i - 1] \o ss[i]]
           flatten == CHOOSE s : s = Body(s)
           step == [q \in Nat \X X |-> IF q[1] \in 1 .. n THEN q[2] \o ss[q[1]] ELSE q[2]]
<1>1. n \in Nat /\ \A i \in 1 .. n : ss[i] \in X
  BY LenProperties, ElementOfSeq
<1>2. CASE n = 0
  <2>1. ss = << >>
    BY <1>2, EmptySeq
  <2>2. FlattenSeq(ss) = ss
    BY <1>2 DEF FlattenSeq
  <2> QED
    BY <2>1, <2>2, EmptySeq
<1>3. CASE n # 0
  <2>1. FlattenSeq(ss) = flatten[n]
    BY <1>3 DEF FlattenSeq
  <2>2. step \in [Nat \X X -> X] /\ << >> \in X
    <3>1. ASSUME NEW q \in Nat \X X
          PROVE  (IF q[1] \in 1 .. n THEN q[2] \o ss[q[1]] ELSE q[2]) \in X
      BY <1>1, ConcatProperties
    <3>2. << >> \in X
      BY EmptySeq
    <3> HIDE DEF X
    <3> QED
      BY <3>1, <3>2
  <2> HIDE DEF X
  <2>3. PICK f : Turns(X, << >>, step, n, f)
    <3> HIDE DEF step
    <3> QED
      BY <1>1, <2>2, TurnsExist
  <2>4. /\ f \in [0 .. n -> X] /\ f[0] = << >>
        /\ \A i \in 1 .. n : f[i] = f[i - 1] \o ss[i]
    <3>1. f \in [0 .. n -> X] /\ f[0] = << >> /\ \A i \in 1 .. n : f[i] = step[<<i, f[i - 1]>>]
      BY <2>3 DEF Turns
    <3>2. ASSUME NEW i \in 1 .. n PROVE f[i] = f[i - 1] \o ss[i]
      <4>1. i - 1 \in 0 .. n /\ i \in Nat
        BY <1>1
      <4>2. f[i - 1] \in X
        BY <3>1, <4>1
      <4>3. step[<<i, f[i - 1]>>] = f[i - 1] \o ss[i]
        BY <4>1, <4>2
      <4> QED
        BY <3>1, <4>3
    <3> QED
      BY <3>1, <3>2
  <2> HIDE DEF step
  <2> DEFINE e == [i \in 1 .. n |-> f[i]]
  <2>5. e = Body(e)
    <3>1. ASSUME NEW i \in 1 .. n PROVE e[i] = IF i = 1 THEN ss[i] ELSE e[i - 1] \o ss[i]
      <4>1. CASE i = 1
        <5>1. << >> \o ss[1] = ss[1]
          BY <1>1, <4>1, ConcatEmptySeq DEF X
        <5>2. 1 \in 1 .. n /\ 1 - 1 = 0
          BY <1>1, <4>1
        <5>3. f[1] = f[0] \o ss[1] /\ f[0] = << >>
          BY <2>4, <5>2
        <5> QED
          BY <4>1, <5>1, <5>3
      <4>2. CASE i # 1
        <5>1. i - 1 \in 1 .. n
          BY <1>1, <4>2
        <5> QED
          BY <2>4, <4>2, <5>1
      <4> QED
        BY <4>1, <4>2
    <3>2. e = [i \in 1 .. n |-> e[i]]
      OBVIOUS
    <3> HIDE DEF e, n
    <3> QED
      BY <3>1, <3>2
  <2>6. flatten = Body(flatten)
    <3> HIDE DEF Body, e
    <3> QED
      BY <2>5
  <2> HIDE DEF flatten
  <2> DEFINE l == [i \in 0 .. n |-> IF i = 0 THEN << >> ELSE flatten[i]]
  <2>7. l[0] = f[0]
    BY <1>1, <2>4
  <2>8. ASSUME NEW i \in 1 .. n, l[i - 1] = f[i - 1] PROVE l[i] = f[i]
    <3>1. flatten[i] = IF i = 1 THEN ss[i] ELSE flatten[i - 1] \o ss[i]
      BY <2>6
    <3>2. l[i] = flatten[i] /\ (i # 1 => l[i - 1] = flatten[i - 1])
      BY <1>1
    <3>3. CASE i = 1
      <4>1. << >> \o ss[1] = ss[1]
        BY <1>1, <3>3, ConcatEmptySeq DEF X
      <4>2. 1 \in 1 .. n /\ 1 - 1 = 0
        BY <1>1, <3>3
      <4>3. f[1] = f[0] \o ss[1] /\ f[0] = << >>
        BY <2>4, <4>2
      <4> QED
        BY <3>1, <3>2, <3>3, <4>1, <4>3
    <3>4. CASE i # 1
      BY <2>4, <2>8, <3>1, <3>2, <3>4
    <3> QED
      BY <3>3, <3>4
  <2>9. l[n] = f[n]
    <3>1. \A i \in 0 .. n : l[i] = f[i]
      <4>1. n \in Nat /\ TurnsOf(n, l, f)
        <5> HIDE DEF l
        <5> QED
          BY <1>1, <2>7, <2>8 DEF TurnsOf
      <4> HIDE DEF l, n
      <4> QED
        BY <4>1, SameTurns
    <3> QED
      BY <1>1, <3>1
  <2> QED
    BY <1>1, <1>3, <2>1, <2>4, <2>9 DEF X
<1> QED
  BY <1>2, <1>3
-----------------------------------------------------------------------------
(* Room in the scratch buffer of experiment_combined_write.c, and types.   *)

\* The residuals of a message are a list, whatever they are.
LEMMA ResidualsListed ==
    ASSUME NEW m, Len(Schema) \in Nat
    PROVE  \E S : MessageResiduals(m) \in Seq(S)
<1>1. Fields(Schema) = 1 .. Len(Schema)
  BY DEF Fields
<1> DEFINE n == Len(Schema)
           all == [fi \in 1 .. n |-> FieldResidual(m, fi)]
           S == {all[fi][1] : fi \in 1 .. n}
<1>2. \A fi : FieldResidual(m, fi) = << >> \/ \E x : FieldResidual(m, fi) = << x >>
  BY DEF FieldResidual, QuantityResidual
<1>3. ASSUME NEW fi \in 1 .. n PROVE all[fi] \in Seq(S)
  <2>1. CASE all[fi] = << >>
    BY <2>1, EmptySeq
  <2>2. CASE \E x : all[fi] = << x >>
    <3>1. PICK x : all[fi] = << x >>
      BY <2>2
    <3>2. x \in S
      BY <3>1
    <3> HIDE DEF S, all
    <3>3. << x >> \in Seq(S)
      BY <3>2
    <3> QED
      BY <3>1, <3>3
  <2> QED
    BY <1>2, <2>1, <2>2
<1>4. all \in Seq(Seq(S))
  <2>1. all \in [1 .. n -> Seq(S)]
    <3>1. all = [fi \in 1 .. n |-> all[fi]]
      OBVIOUS
    <3> HIDE DEF all, S
    <3> QED
      BY <1>3, <3>1
  <2> HIDE DEF all, S
  <2> QED
    BY <2>1, IsASeq
<1>5. MessageResiduals(m) = FlattenSeq(all)
  BY <1>1 DEF MessageResiduals
<1> HIDE DEF all, S
<1> QED
  BY <1>4, <1>5, FlattenType

\* So they have a cost.
LEMMA CostType ==
    ASSUME NEW m, Len(Schema) \in Nat
    PROVE  Cost(MessageResiduals(m)) \in Nat
<1>1. PICK r : r = MessageResiduals(m)
  OBVIOUS
<1>2. PICK S : r \in Seq(S)
  BY <1>1, ResidualsListed
<1>3. Len(r) \in Nat /\ DOMAIN r = 1 .. Len(r)
  BY <1>2, LenProperties
<1> DEFINE w == [i \in DOMAIN r |-> Residual("tiered", 3, r[i])]
<1>4. Len(w) = Len(r)
  BY <1>3
<1>5. ASSUME NEW i \in 1 .. Len(w) PROVE TokenBits(w[i]) \in Nat
  <2>1. w[i] = Residual("tiered", 3, r[i])
    BY <1>3, <1>4
  <2>2. w[i].code = "tiered" /\ w[i].n = 3
    BY <2>1 DEF Residual
  <2>3. \A v : TieredBits(3, v) \in Nat
    <3> TAKE v
    <3> DEFINE zz == ZigZag(v)
    <3>1. TieredBits(3, v) = CASE zz < 2 ^ 3                             -> 1 + 3
                               [] 2 ^ 3 <= zz /\ zz < 2 ^ (3 + 2)        -> 2 + 3 + 2
                               [] 2 ^ (3 + 2) <= zz /\ zz < 2 ^ (3 + 5)  -> 3 + 3 + 5
                               [] 2 ^ (3 + 5) <= zz /\ zz < 2 ^ (3 + 10) -> 4 + 3 + 10
                               [] OTHER                                  -> 4 + 32 + 32
      BY DEF TieredBits
    <3> HIDE DEF zz
    <3> QED
      BY <3>1
  <2> HIDE DEF w
  <2> QED
    BY <2>2, <2>3 DEF TokenBits
<1>6. WordBits(w) \in Nat
  <2> HIDE DEF w
  <2> QED
    BY <1>3, <1>4, <1>5, WordBitsType
<1> QED
  BY <1>1, <1>6 DEF Cost

\* What is in the buffer leaves room for one message more.
Tracked == program = "combined_write" => own.bits \in Nat /\ own.bits \div 8 <= SCRATCH - 40

\* The scratch buffer is empty at first.
LEMMA InitTracked == Init => Tracked
<1> SUFFICES ASSUME Init, program = "combined_write" PROVE Tracked
  BY DEF Tracked
<1>1. program \notin Predicting
  BY PredictionsAssumption DEF Quoting
<1>2. own = [residuals |-> << >>, bits |-> 0, lost |-> FALSE]
  BY <1>1 DEF Init, PredictionsInit, MeasuresInit, Begin, FreshMeasures
<1>3. own.bits = 0 /\ 0 \div 8 = 0
  BY <1>2
<1> QED
  BY <1>3, MeasuresAssumption DEF Tracked

\* run_bench empties it as soon as less than that is left.
LEMMA NextTracked == Experimenting /\ Tracked /\ [Next]_vars => Tracked'
<1> SUFFICES ASSUME Experimenting, Tracked, [Next]_vars, program' = "combined_write" PROVE Tracked'
  BY DEF Tracked
<1>1. Sending /\ Len(Schema) \in Nat
  BY SchemaGiven DEF Experimenting, Sending
<1>2. CASE PredictionsNext
  <2>1. program \in Predicting /\ program' = program
    BY <1>1, <1>2, PredictionsStep DEF Loop
  <2> QED
    BY <2>1, PredictionsAssumption DEF Quoting
<1>3. CASE MeasuresNext
  <2>1. PICK t \in Templates : \E m \in {Generated(t)} :
            \/ ExtractResidualsGeneric(m) \/ ExtractResiduals(m) \/ ExtractFieldResiduals(m)
            \/ AnalyzeMfuDistribution(m) \/ QuantityRuns(m)
    BY <1>3 DEF MeasuresNext
  <2>2. PICK m : ExtractResiduals(m)
    BY <2>1 DEF ExtractResidualsGeneric, ExtractFieldResiduals, AnalyzeMfuDistribution, QuantityRuns,
                Encode, Loop
  <2>3. program = "combined_write"
    BY <2>2 DEF ExtractResiduals, Encode, Loop
  <2>4. own.bits \in Nat
    BY <2>3 DEF Tracked
  <2>5. own'.bits = Flush(own.bits + Cost(MessageResiduals(m)))
    BY <2>2 DEF ExtractResiduals
  <2>6. PICK b : b = own.bits + Cost(MessageResiduals(m))
    OBVIOUS
  <2>7. b \in Nat
    BY <1>1, <2>4, <2>6, CostType
  <2>8. own'.bits = IF b \div 8 > SCRATCH - 40 THEN 0 ELSE b
    BY <2>5, <2>6 DEF Flush
  <2> QED
    BY <2>7, <2>8, MeasuresAssumption DEF Tracked
<1>4. CASE UNCHANGED vars
  BY <1>4 DEF vars, Tracked
<1> QED
  BY <1>2, <1>3, <1>4 DEF Next

\* The copies and the codec keep states of their types, the counts of
\* quantities stay within their 16 bits although they are counted for as long
\* as QF_PERIOD updates before they are halved, no more messages are sent than
\* were generated, and the scratch buffer has room for one message more.
THEOREM AlwaysTyped == Spec => []TypeOK
<1>1. Init => Experimenting /\ Remembered /\ Tracked
  BY InitExperimenting, InitRemembered, InitTracked
<1>2. (Experimenting /\ Remembered /\ Tracked) /\ [Next]_vars
          => (Experimenting /\ Remembered /\ Tracked)'
  BY NextExperimenting, NextRemembered, NextTracked
<1>3. Experimenting /\ Remembered /\ Tracked => TypeOK
  <2> SUFFICES ASSUME Experimenting, Remembered, Tracked PROVE TypeOK
    OBVIOUS
  <2>1. enc \in State
    BY SoundState DEF Experimenting, Start
  <2>2. ASSUME program \in Predicting PROVE PredictionsTyped
    <3>1. core \in State
      BY <2>2, SoundState DEF Experimenting, Start
    <3>2. Len(sent) <= MAX_MSGS
      BY DEF Experimenting, Sending
    <3>3. ASSUME program = "quantity_freq", NEW id \in Ids, NEW i \in 1 .. 4
          PROVE  own[id].cnt[i] \in Count
      <4>1. PICK f : f = own[id]
        OBVIOUS
      <4>2. Counting(f, Times(sent, id), QF_PERIOD + f.updates)
        BY <2>2, <3>3, <4>1 DEF Remembered, OwnKept
      <4>3. /\ f.cnt[i] \in Nat /\ f.updates \in 0 .. QF_PERIOD - 1
            /\ f.cnt[i] <= QF_PERIOD + f.updates
        BY <4>2 DEF Counting, FreqTable
      <4>4. f.cnt[i] < U16
        BY <4>3, PredictionsAssumption, Sizes
      <4> QED
        BY <4>1, <4>3, <4>4, Sizes DEF Count
    <3> QED
      BY <2>1, <3>1, <3>2, <3>3 DEF PredictionsTyped
  <2>3. MeasuresTyped
    BY <2>1 DEF MeasuresTyped, Tracked
  <2> QED
    BY <2>2, <2>3 DEF TypeOK
<1> QED
  BY <1>1, <1>2, <1>3, PTL DEF Spec
=============================================================================
