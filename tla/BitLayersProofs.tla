-------------------------- MODULE BitLayersProofs ---------------------------
(***************************************************************************)
(* The bit readers and the bit writers of core/residc.c implement a cursor *)
(* and a growing string: the readers for every stream and all reads of the *)
(* widths they are made for, the writers as long as writes are no wider    *)
(* than what the accumulator has room for and the buffer is not used up.   *)
(* On such strings, every code of a residual or a rank is read back.       *)
(*                                                                         *)
(* A refill, by bytes or by a word, has a closed form (Loaded): so many    *)
(* bytes are moved below the bits that are left.  What a reader holds is   *)
(* then the last bits before its byte position (Holds), and a read moves   *)
(* the cursor over them.                                                   *)
(*                                                                         *)
(* A writer stands for a text (Text): the bytes it has stored and then its *)
(* pending bits.  A write adds to it, and both ways to empty the           *)
(* accumulator leave it as it is (Flushed).                                *)
(*                                                                         *)
(* A code is parts joined (Cat): of each part it is proved what its reader *)
(* does whatever lies ahead (Onward), and what it returns when the bits of *)
(* the part lie ahead, all of them or cut off by the end (Gives).          *)
(*                                                                         *)
(* The entropy coder of bench/experiment_ans.c comes last: its table is    *)
(* full, whatever it was trained with, its states stay within their        *)
(* bounds, and its decoder takes the steps of its encoder backwards.       *)
(***************************************************************************)
EXTENDS BitLayers, FiniteSets, FiniteSetTheorems, SequenceTheorems, TLAPS

\* What a loop computes: f is L if it starts as L does and each of its values
\* follows from the one before as L's does.  The intervals up to the places
\* where they differ would have a least one.
LEMMA LoopAgrees ==
    ASSUME NEW n \in Nat, NEW f, NEW L, f[0] = L[0],
           \A i \in 1 .. n : f[i - 1] = L[i - 1] => f[i] = L[i]
    PROVE  \A i \in 0 .. n : f[i] = L[i]
<1> DEFINE T == {i \in 0 .. n : f[i] # L[i]}
           F == {0 .. i : i \in T}
           R == StrictSubsetOrdering(Nat)
<1> SUFFICES ASSUME T # {}
             PROVE  FALSE
  OBVIOUS
<1>1. F \subseteq FiniteSubsetsOf(Nat) /\ F # {}
  <2>1. \A i \in T : IsFiniteSet(0 .. i) /\ 0 .. i \subseteq Nat
    BY FS_Interval
  <2> QED
    BY <2>1 DEF FiniteSubsetsOf
<1>2. PICK x \in F : \A y \in F : ~(<<y, x>> \in R)
  <2>1. IsWellFoundedOn(R, FiniteSubsetsOf(Nat))
    BY FS_StrictSubsetOrderingWellFounded
  <2> HIDE DEF R, F
  <2> QED
    BY <1>1, <2>1, WFMin
<1>3. PICK i \in T : x = 0 .. i
  BY <1>2
<1>4. i \in 1 .. n /\ i - 1 \in 0 .. n
  BY <1>3
<1>5. i - 1 \notin T
  <2>1. 0 .. i - 1 \subseteq 0 .. i /\ 0 .. i - 1 # 0 .. i
    BY <1>4
  <2>2. 0 .. i - 1 \in SUBSET Nat /\ 0 .. i \in SUBSET Nat
    OBVIOUS
  <2>3. <<0 .. i - 1, x>> \in R
    BY <1>3, <2>1, <2>2 DEF StrictSubsetOrdering
  <2> QED
    BY <1>2, <2>3
<1>6. f[i - 1] = L[i - 1]
  BY <1>4, <1>5
<1> QED
  BY <1>3, <1>4, <1>6

ByteCount == Len(data) \div 8

\* k bytes have been shifted into the accumulator of r.
Loaded(r, k) ==
    [ accum    |-> [i \in 0 .. ACC - 1 |->
                       IF i < 8 * k THEN data[8 * (r.byte_pos + k) - i]
                                    ELSE r.accum[i - 8 * k]],
      count    |-> r.count + 8 * k,
      byte_pos |-> r.byte_pos + k,
      error    |-> r.error ]

\* The pending bits of a reader are those before its byte position.
Holds(r) ==
    /\ r \in [ accum : [0 .. ACC - 1 -> {0, 1}], count : 0 .. ACC,
               byte_pos : 0 .. ByteCount, error : BOOLEAN ]
    /\ r.count <= 8 * r.byte_pos
    /\ \A i \in 0 .. r.count - 1 : r.accum[i] = data[8 * r.byte_pos - i]

\* The bytes that a reader is given are whole.
Given ==
    /\ data \in Seq({0, 1})
    /\ Len(data) = 8 * ByteCount
    /\ ByteCount \in Nat

-----------------------------------------------------------------------------
\* The accumulator has room for a byte and more.
LEMMA Room ==
    /\ ACC \in Nat /\ ACC >= 16 /\ ACC = 8 * (ACC \div 8) /\ ACC \div 8 \in Nat
    /\ Widths \subseteq 0 .. ACC - 7
<1>1. ACC \in {8 * n : n \in 2 .. 8} /\ Widths \subseteq 0 .. ACC - 7
  BY LayersAssumption DEF Reading!ReaderAssumption
<1>2. PICK n \in 2 .. 8 : ACC = 8 * n
  BY <1>1
<1>3. ACC \div 8 = n
  BY <1>2
<1> QED
  BY <1>1, <1>2, <1>3

\* The reader that LoadByte leaves, field by field.
LEMMA LoadByteFields ==
    ASSUME NEW r, r \in [ accum : {r.accum}, count : {r.count}, byte_pos : {r.byte_pos},
                          error : {r.error} ]
    PROVE  Reading!LoadByte(r) =
               [ accum |-> [i \in 0 .. ACC - 1 |->
                               IF i < 8 THEN data[8 * r.byte_pos + 8 - i] ELSE r.accum[i - 8]],
                 count |-> r.count + 8, byte_pos |-> r.byte_pos + 1, error |-> r.error ]
<1> DEFINE new == [i \in 0 .. ACC - 1 |->
                      IF i < 8 THEN data[8 * r.byte_pos + 8 - i] ELSE r.accum[i - 8]]
<1>1. Reading!LoadByte(r) =
          [r EXCEPT !.accum = new, !.count = r.count + 8, !.byte_pos = r.byte_pos + 1]
  BY Zenon DEF Reading!LoadByte
<1> HIDE DEF new
<1> DEFINE next == [r EXCEPT !.accum = new, !.count = r.count + 8, !.byte_pos = r.byte_pos + 1]
<1>2. next \in [ accum : {new}, count : {r.count + 8}, byte_pos : {r.byte_pos + 1},
                error : {r.error} ]
  OBVIOUS
<1> HIDE DEF next
<1>3. next = [ accum |-> new, count |-> r.count + 8, byte_pos |-> r.byte_pos + 1,
               error |-> r.error ]
  BY <1>2
<1> QED
  BY <1>1, <1>3 DEF new, next

\* One byte more.
LEMMA LoadOne ==
    ASSUME NEW r, Holds(r), NEW k \in Nat
    PROVE  Reading!LoadByte(Loaded(r, k)) = Loaded(r, k + 1)
<1> DEFINE a == Loaded(r, k)
           b == Loaded(r, k + 1)
<1>0. r.byte_pos \in Int /\ r.count \in Int
  BY DEF Holds
<1>1. ASSUME NEW i \in 0 .. ACC - 1
      PROVE  (IF i < 8 THEN data[8 * a.byte_pos + 8 - i] ELSE a.accum[i - 8]) = b.accum[i]
  <2>0. i \in Int
    BY Room
  <2>1. a.byte_pos = r.byte_pos + k /\ b.accum[i] =
           IF i < 8 * (k + 1) THEN data[8 * (r.byte_pos + (k + 1)) - i] ELSE r.accum[i - 8 * (k + 1)]
    BY DEF Loaded
  <2>2. CASE i < 8
    <3>1. i < 8 * (k + 1) /\ 8 * a.byte_pos + 8 - i = 8 * (r.byte_pos + (k + 1)) - i
      BY <1>0, <2>0, <2>1, <2>2
    <3> QED
      BY <2>1, <2>2, <3>1
  <2>3. CASE i >= 8
    <3>1. i - 8 \in 0 .. ACC - 1 /\ ~(i < 8)
      BY <2>0, <2>3, Room
    <3>2. a.accum[i - 8] =
            IF i - 8 < 8 * k THEN data[8 * (r.byte_pos + k) - (i - 8)] ELSE r.accum[(i - 8) - 8 * k]
      BY <3>1 DEF Loaded
    <3>3. /\ i - 8 < 8 * k <=> i < 8 * (k + 1)
          /\ 8 * (r.byte_pos + k) - (i - 8) = 8 * (r.byte_pos + (k + 1)) - i
          /\ (i - 8) - 8 * k = i - 8 * (k + 1)
      BY <1>0, <2>0
    <3> QED
      BY <2>1, <3>1, <3>2, <3>3
  <2> QED
    BY <2>0, <2>2, <2>3
<1>2. a.count + 8 = b.count /\ a.byte_pos + 1 = b.byte_pos /\ a.error = b.error
  BY <1>0 DEF Loaded
<1>3. Reading!LoadByte(a) = [ accum |-> [i \in 0 .. ACC - 1 |->
                                 IF i < 8 THEN data[8 * a.byte_pos + 8 - i] ELSE a.accum[i - 8]],
                              count |-> a.count + 8, byte_pos |-> a.byte_pos + 1,
                              error |-> a.error ]
  <2>1. a \in [ accum : {a.accum}, count : {a.count}, byte_pos : {a.byte_pos},
                error : {a.error} ]
    BY DEF Loaded
  <2> HIDE DEF a
  <2> QED
    BY <2>1, LoadByteFields
<1>4. b = [ accum |-> [i \in 0 .. ACC - 1 |-> b.accum[i]],
            count |-> b.count, byte_pos |-> b.byte_pos, error |-> b.error ]
  BY DEF Loaded
<1> HIDE DEF a, b
<1>5. [i \in 0 .. ACC - 1 |-> IF i < 8 THEN data[8 * a.byte_pos + 8 - i] ELSE a.accum[i - 8]]
        = [i \in 0 .. ACC - 1 |-> b.accum[i]]
  BY <1>1
<1> QED
  BY <1>2, <1>3, <1>4, <1>5 DEF a, b

\* No byte.
LEMMA LoadNone ==
    ASSUME NEW r, Holds(r)
    PROVE  Loaded(r, 0) = r
<1>1. r \in [ accum : [0 .. ACC - 1 -> {0, 1}], count : 0 .. ACC,
              byte_pos : 0 .. ByteCount, error : BOOLEAN ]
  BY DEF Holds
<1>2. \A i \in 0 .. ACC - 1 : ~(i < 8 * 0) /\ i - 8 * 0 = i
  BY Room
<1>3. r.count + 8 * 0 = r.count /\ r.byte_pos + 0 = r.byte_pos
  BY <1>1
<1>4. [i \in 0 .. ACC - 1 |->
         IF i < 8 * 0 THEN data[8 * (r.byte_pos + 0) - i] ELSE r.accum[i - 8 * 0]] = r.accum
  BY <1>1, <1>2
<1> QED
  BY <1>1, <1>3, <1>4 DEF Loaded

\* The lesser of two numbers.
LEMMA Lesser ==
    ASSUME NEW a \in Int, NEW b \in Int
    PROVE  Reading!Min({a, b}) = IF a <= b THEN a ELSE b
<1> DEFINE Least(x) == x \in {a, b} /\ \A y \in {a, b} : x <= y
           m == IF a <= b THEN a ELSE b
<1>1. Least(m)
  OBVIOUS
<1>2. \A x : Least(x) => x = m
  OBVIOUS
<1>3. Reading!Min({a, b}) = CHOOSE x \in {a, b} : \A y \in {a, b} : x <= y
  BY DEF Reading!Min
<1>4. Reading!Min({a, b}) = CHOOSE x : Least(x)
  BY <1>3
<1> HIDE DEF Least, m
<1>5. Least(CHOOSE x : Least(x))
  BY <1>1
<1> QED
  BY <1>2, <1>4, <1>5 DEF m

\* k bytes are there and have room, and one more has none, or is not there.
Refilled(r, k) ==
    /\ k \in Nat
    /\ r.count + 8 * k <= ACC
    /\ r.byte_pos + k <= ByteCount
    /\ r.byte_pos + k = ByteCount \/ r.count + 8 * k > ACC - 8

\* The byte-wise refill moves as many bytes as there are and have room.  The
\* loop computes the function that Loaded gives, since at the first byte at
\* which it did not it would add one byte to what Loaded gives.
LEMMA RefillByBytes ==
    ASSUME NEW r, Holds(r), Given
    PROVE  \E k : Refilled(r, k) /\ Reading!RefillBytes(r) = Loaded(r, k)
<1> DEFINE room  == (ACC - r.count) \div 8
           left  == Reading!len_bytes - r.byte_pos
           bytes == Reading!Min({room, left})
           Steps(f) == f = [i \in 0 .. bytes |-> IF i = 0 THEN r
                                                 ELSE Reading!LoadByte(f[i - 1])]
           load  == CHOOSE f : Steps(f)
           form  == [i \in 0 .. bytes |-> Loaded(r, i)]
<1>1. /\ r.count \in Int /\ 0 <= r.count /\ r.count <= ACC
      /\ r.byte_pos \in Int /\ 0 <= r.byte_pos /\ r.byte_pos <= ByteCount
      /\ ByteCount \in Int /\ Reading!len_bytes = ByteCount
  BY Room DEF Holds, Given, ByteCount, Reading!len_bytes
<1>2. /\ room \in Int /\ 0 <= room /\ r.count + 8 * room <= ACC
      /\ r.count + 8 * room > ACC - 8
  BY <1>1, Room
<1>3. left \in Int /\ 0 <= left /\ r.byte_pos + left = ByteCount
  BY <1>1
<1>4. bytes = IF room <= left THEN room ELSE left
  <2> HIDE DEF room, left
  <2> QED
    BY <1>2, <1>3, Lesser
<1>5. Refilled(r, bytes)
  <2> HIDE DEF room, left, bytes
  <2> QED
    BY <1>1, <1>2, <1>3, <1>4, Room DEF Refilled
<1> HIDE DEF bytes
<1>6. bytes \in Nat
  BY <1>5 DEF Refilled
<1>7. Steps(form)
  <2>1. ASSUME NEW i \in 0 .. bytes, i # 0
        PROVE  Loaded(r, i) = Reading!LoadByte(form[i - 1])
    <3>1. i - 1 \in Nat /\ i - 1 \in 0 .. bytes /\ (i - 1) + 1 = i
      BY <1>6, <2>1
    <3>2. form[i - 1] = Loaded(r, i - 1)
      BY <3>1
    <3> HIDE DEF form
    <3> QED
      BY <3>1, <3>2, LoadOne
  <2>2. Loaded(r, 0) = r
    BY LoadNone
  <2>3. \A i \in 0 .. bytes :
           Loaded(r, i) = IF i = 0 THEN r ELSE Reading!LoadByte(form[i - 1])
    BY <2>1, <2>2
  <2> DEFINE next(i) == Reading!LoadByte(form[i - 1])
  <2>4. form = [i \in 0 .. bytes |-> IF i = 0 THEN r ELSE next(i)]
    <3> HIDE DEF next
    <3>1. \A i \in 0 .. bytes : Loaded(r, i) = IF i = 0 THEN r ELSE next(i)
      BY <2>3 DEF next
    <3> QED
      BY <3>1
  <2> QED
    BY <2>4
<1>8. Steps(load)
  <2> HIDE DEF Steps
  <2> QED
    BY <1>7
<1>9. Reading!RefillBytes(r) = load[bytes]
  BY DEF Reading!RefillBytes, bytes
<1> DEFINE after(i) == Reading!LoadByte(load[i - 1])
<1>10. load = [i \in 0 .. bytes |-> IF i = 0 THEN r ELSE after(i)]
  BY <1>8
<1> HIDE DEF load
<1>11. \A i \in 0 .. bytes : load[i] = IF i = 0 THEN r ELSE after(i)
  <2> HIDE DEF after
  <2> QED
    BY <1>10
<1> DEFINE L == [i \in 0 .. bytes |-> Loaded(r, i)]
<1>12. \A i \in 0 .. bytes : load[i] = L[i]
  <2>1. load[0] = L[0]
    BY <1>6, <1>11, LoadNone
  <2>2. ASSUME NEW i \in 1 .. bytes, load[i - 1] = L[i - 1]
        PROVE  load[i] = L[i]
    <3>1. i \in 0 .. bytes /\ i - 1 \in 0 .. bytes /\ i - 1 \in Nat /\ i # 0 /\ (i - 1) + 1 = i
      BY <1>6
    <3>2. Reading!LoadByte(Loaded(r, i - 1)) = Loaded(r, i)
      BY <3>1, LoadOne
    <3> QED
      BY <1>11, <2>2, <3>1, <3>2
  <2> HIDE DEF L
  <2> QED
    BY <1>6, <2>1, <2>2, LoopAgrees
<1>13. load[bytes] = Loaded(r, bytes)
  BY <1>6, <1>12
<1> QED
  BY <1>5, <1>9, <1>13

\* The word-wise refill moves the bytes that have room in one go.
LEMMA RefillByWord ==
    ASSUME NEW r, Holds(r), Given
    PROVE  \E k : Refilled(r, k) /\ Reading!RefillWord(r) = Loaded(r, k)
<1> DEFINE consume == (ACC - r.count) \div 8
           moved == [i \in 0 .. ACC - 1 |->
                        IF i < 8 * consume THEN data[8 * r.byte_pos + ACC - (i + ACC - 8 * consume)]
                        ELSE r.accum[i - 8 * consume]]
<1>1. /\ r.count \in Int /\ 0 <= r.count /\ r.count <= ACC
      /\ r.byte_pos \in Int /\ 0 <= r.byte_pos /\ r.byte_pos <= ByteCount
      /\ ByteCount \in Int /\ Reading!len_bytes = ByteCount
  BY Room DEF Holds, Given, ByteCount, Reading!len_bytes
<1>2. /\ consume \in Nat /\ r.count + 8 * consume <= ACC
      /\ r.count + 8 * consume > ACC - 8
      /\ consume <= ACC \div 8
  BY <1>1, Room
<1>3. CASE r.byte_pos + ACC \div 8 > Reading!len_bytes
  <2>1. Reading!RefillWord(r) = Reading!RefillBytes(r)
    BY <1>3 DEF Reading!RefillWord
  <2> QED
    BY <2>1, RefillByBytes
<1>4. CASE ~(r.byte_pos + ACC \div 8 > Reading!len_bytes)
  <2>1. Refilled(r, consume)
    <3> HIDE DEF consume
    <3> QED
      BY <1>1, <1>2, <1>4, Room DEF Refilled
  <2>2. CASE consume = 0
    <3>1. Reading!RefillWord(r) = r
      BY <1>4, <2>2 DEF Reading!RefillWord
    <3> QED
      BY <2>1, <2>2, <3>1, LoadNone
  <2>3. CASE consume # 0
    <3> DEFINE next == [r EXCEPT !.accum = moved, !.count = r.count + 8 * consume,
                                 !.byte_pos = r.byte_pos + consume]
    <3>1. Reading!RefillWord(r) = next
      BY <1>4, <2>3, Zenon DEF Reading!RefillWord
    <3>2. moved = Loaded(r, consume).accum
      <4>1. ASSUME NEW i \in 0 .. ACC - 1
            PROVE  8 * r.byte_pos + ACC - (i + ACC - 8 * consume) = 8 * (r.byte_pos + consume) - i
        <5>1. i \in Int
          BY Room
        <5> HIDE DEF consume
        <5> QED
          BY <1>1, <1>2, <5>1, Room
      <4>2. Loaded(r, consume).accum =
              [i \in 0 .. ACC - 1 |->
                 IF i < 8 * consume THEN data[8 * (r.byte_pos + consume) - i]
                                    ELSE r.accum[i - 8 * consume]]
        BY DEF Loaded
      <4> HIDE DEF consume
      <4> QED
        BY <4>1, <4>2
    <3> HIDE DEF moved, consume
    <3>3. next \in [ accum : {moved}, count : {r.count + 8 * consume},
                     byte_pos : {r.byte_pos + consume}, error : {r.error} ]
      BY DEF Holds
    <3> HIDE DEF next
    <3>4. next = [ accum |-> moved, count |-> r.count + 8 * consume,
                   byte_pos |-> r.byte_pos + consume, error |-> r.error ]
      BY <3>3
    <3>5. next = Loaded(r, consume)
      BY <3>2, <3>4 DEF Loaded
    <3> QED
      BY <2>1, <3>1, <3>5
  <2> QED
    BY <2>2, <2>3
<1> QED
  BY <1>3, <1>4

\* A refill moves no bit past the cursor.
LEMMA LoadedHolds ==
    ASSUME NEW r, Holds(r), Given, NEW k, Refilled(r, k)
    PROVE  /\ Holds(Loaded(r, k))
           /\ Reading!Cursor(Loaded(r, k)) = Reading!Cursor(r)
           /\ Loaded(r, k).error = r.error
<1> DEFINE a == Loaded(r, k)
<1>1. /\ k \in Nat /\ r.count \in Nat /\ r.byte_pos \in Nat /\ ByteCount \in Nat
      /\ r.count + 8 * k <= ACC /\ r.byte_pos + k <= ByteCount
      /\ r.count <= 8 * r.byte_pos
      /\ r.accum \in [0 .. ACC - 1 -> {0, 1}] /\ r.error \in BOOLEAN
  BY Room DEF Holds, Given, Refilled
<1>2. a.count = r.count + 8 * k /\ a.byte_pos = r.byte_pos + k /\ a.error = r.error
  BY DEF Loaded
<1>3. ASSUME NEW i \in 0 .. ACC - 1
      PROVE  a.accum[i] = IF i < 8 * k THEN data[8 * (r.byte_pos + k) - i] ELSE r.accum[i - 8 * k]
  BY DEF Loaded
<1>4. ASSUME NEW i \in 0 .. ACC - 1
      PROVE  a.accum[i] \in {0, 1}
  <2>1. i \in Int
    BY Room
  <2>2. CASE i < 8 * k
    <3> DEFINE p == 8 * (r.byte_pos + k) - i
    <3>1. p \in 1 .. Len(data)
      BY <1>1, <2>1, <2>2, SMTT(30) DEF Given
    <3> HIDE DEF p
    <3>2. data[p] \in {0, 1}
      BY <3>1, ElementOfSeq DEF Given
    <3> QED
      BY <1>3, <2>2, <3>2 DEF p
  <2>3. CASE ~(i < 8 * k)
    <3>1. i - 8 * k \in 0 .. ACC - 1
      BY <1>1, <2>1, <2>3, Room
    <3>2. r.accum[i - 8 * k] \in {0, 1}
      BY <1>1, <3>1
    <3> QED
      BY <1>3, <2>3, <3>2
  <2> QED
    BY <2>2, <2>3
<1>5. a.accum \in [0 .. ACC - 1 -> {0, 1}]
  <2>1. a.accum = [i \in 0 .. ACC - 1 |-> a.accum[i]]
    BY DEF Loaded
  <2> HIDE DEF a
  <2> QED
    BY <1>4, <2>1
<1>6. ASSUME NEW i \in 0 .. a.count - 1
      PROVE  a.accum[i] = data[8 * a.byte_pos - i]
  <2>1. i \in 0 .. ACC - 1 /\ i \in Int
    BY <1>1, <1>2, Room
  <2>2. CASE i < 8 * k
    BY <1>2, <1>3, <2>1, <2>2
  <2>3. CASE ~(i < 8 * k)
    <3>1. i - 8 * k \in 0 .. r.count - 1
      BY <1>1, <1>2, <2>1, <2>3
    <3>2. r.accum[i - 8 * k] = data[8 * r.byte_pos - (i - 8 * k)]
      BY <3>1 DEF Holds
    <3>3. 8 * r.byte_pos - (i - 8 * k) = 8 * (r.byte_pos + k) - i
      BY <1>1, <2>1
    <3> QED
      BY <1>2, <1>3, <2>1, <2>3, <3>2, <3>3
  <2> QED
    BY <2>2, <2>3
<1>7. a \in [ accum : [0 .. ACC - 1 -> {0, 1}], count : 0 .. ACC,
              byte_pos : 0 .. ByteCount, error : BOOLEAN ]
  <2>1. a.count \in 0 .. ACC /\ a.byte_pos \in 0 .. ByteCount
    <3> HIDE DEF a
    <3> QED
      BY SMTT(20), <1>1, <1>2, Room
  <2>2. a = [accum |-> a.accum, count |-> a.count, byte_pos |-> a.byte_pos, error |-> a.error]
    BY DEF Loaded
  <2> HIDE DEF a
  <2> DEFINE x == a.accum
             y == a.count
             z == a.byte_pos
             e == a.error
  <2>3. /\ x \in [0 .. ACC - 1 -> {0, 1}] /\ y \in 0 .. ACC /\ z \in 0 .. ByteCount
        /\ e \in BOOLEAN
    BY <1>1, <1>2, <1>5, <2>1
  <2>4. a = [accum |-> x, count |-> y, byte_pos |-> z, error |-> e]
    BY <2>2
  <2> HIDE DEF x, y, z, e
  <2> QED
    BY <2>3, <2>4
<1>8. a.count <= 8 * a.byte_pos
  BY <1>1, <1>2
<1>9. Reading!Cursor(a) = Reading!Cursor(r)
  BY <1>1, <1>2 DEF Reading!Cursor
<1> HIDE DEF a
<1>10. Holds(a)
  BY <1>6, <1>7, <1>8 DEF Holds
<1> QED
  BY <1>2, <1>9, <1>10 DEF a

\* The bits that a read takes are the next ones of the data.
LEMMA TakeAdvances ==
    ASSUME NEW r, Holds(r), Given, NEW n \in Widths, n <= r.count
    PROVE  /\ Holds(Reading!Take(r, n).reader)
           /\ Reading!Cursor(Reading!Take(r, n).reader) = Reading!Cursor(r) + n
           /\ Reading!Cursor(r) + n <= Len(data)
           /\ Reading!Take(r, n).reader.error = r.error
           /\ Reading!Take(r, n).bits =
                  SubSeq(data, Reading!Cursor(r) + 1, Reading!Cursor(r) + n)
<1> DEFINE next == [r EXCEPT !.count = r.count - n]
           pos  == 8 * r.byte_pos - r.count
<1>1. /\ n \in Nat /\ r.count \in Nat /\ r.count <= ACC /\ r.byte_pos \in Nat
      /\ ByteCount \in Nat /\ r.byte_pos <= ByteCount /\ r.count <= 8 * r.byte_pos
  BY Room DEF Holds, Given
<1>2. /\ Reading!Take(r, n).reader = next
      /\ Reading!Take(r, n).bits = [i \in 1 .. n |-> r.accum[r.count - i]]
  BY <1>1 DEF Reading!Take
<1>3. /\ next \in [ accum : [0 .. ACC - 1 -> {0, 1}], count : 0 .. ACC,
                    byte_pos : 0 .. ByteCount, error : BOOLEAN ]
      /\ next.count = r.count - n /\ next.byte_pos = r.byte_pos
      /\ next.accum = r.accum /\ next.error = r.error
  <2>1. r.count - n \in 0 .. ACC
    BY <1>1, Room
  <2> QED
    BY <2>1 DEF Holds
<1> HIDE DEF next
<1>4. Holds(next)
  <2>1. next.count <= 8 * next.byte_pos
    BY <1>1, <1>3
  <2>2. ASSUME NEW i \in 0 .. next.count - 1
        PROVE  next.accum[i] = data[8 * next.byte_pos - i]
    <3>1. i \in 0 .. r.count - 1
      BY <1>1, <1>3
    <3> QED
      BY <1>3, <3>1 DEF Holds
  <2> QED
    BY <1>3, <2>1, <2>2 DEF Holds
<1>5. Reading!Cursor(r) = pos /\ Reading!Cursor(next) = pos + n
  BY <1>1, <1>3 DEF Reading!Cursor
<1>6. pos \in Nat /\ pos + n <= Len(data)
  BY <1>1, SMTT(20) DEF Given
<1> HIDE DEF pos
<1>7. SubSeq(data, pos + 1, pos + n) = [i \in 1 .. n |-> data[pos + i]]
  <2>1. pos + 1 \in 1 .. Len(data) + 1 /\ pos + n \in pos .. Len(data)
    BY <1>1, <1>6 DEF Given
  <2>2. SubSeq(data, pos + 1, pos + n) = [i \in 1 .. (pos + n) - (pos + 1) + 1 |-> data[i + (pos + 1) - 1]]
    BY <1>1, <1>6, SubSeqProperties, <2>1 DEF Given
  <2> QED
    BY <1>1, <1>6, <2>2
<1>8. \A i \in 1 .. n : r.accum[r.count - i] = data[pos + i]
  <2> SUFFICES ASSUME NEW i \in 1 .. n
               PROVE  r.accum[r.count - i] = data[pos + i]
    OBVIOUS
  <2>1. r.count - i \in 0 .. r.count - 1
    BY <1>1
  <2>2. 8 * r.byte_pos - (r.count - i) = pos + i
    BY <1>1 DEF pos
  <2> QED
    BY <2>1, <2>2 DEF Holds
<1> QED
  BY <1>2, <1>3, <1>4, <1>5, <1>6, <1>7, <1>8

\* A read that fails moves nothing, since the bits left are all in its hands.
LEMMA TakeFails ==
    ASSUME NEW r, Holds(r), Given, NEW n \in Widths, r.count < n, r.byte_pos = ByteCount
    PROVE  /\ Holds(Reading!Take(r, n).reader)
           /\ Reading!Cursor(Reading!Take(r, n).reader) = Reading!Cursor(r)
           /\ Reading!Cursor(r) + n > Len(data)
           /\ Reading!Take(r, n).reader.error = TRUE
           /\ Reading!Take(r, n).bits = [i \in 1 .. n |-> 0]
<1> DEFINE next == [r EXCEPT !.error = TRUE]
<1>1. n \in Nat /\ r.count \in Nat /\ r.byte_pos \in Nat /\ ByteCount \in Nat
  BY Room DEF Holds, Given
<1>2. Reading!Take(r, n).reader = next /\ Reading!Take(r, n).bits = [i \in 1 .. n |-> 0]
  BY DEF Reading!Take
<1>3. /\ next \in [ accum : [0 .. ACC - 1 -> {0, 1}], count : 0 .. ACC,
                    byte_pos : 0 .. ByteCount, error : BOOLEAN ]
      /\ next.count = r.count /\ next.byte_pos = r.byte_pos
      /\ next.accum = r.accum /\ next.error = TRUE
  BY DEF Holds
<1> HIDE DEF next
<1>4. Holds(next)
  BY <1>3 DEF Holds
<1>5. Reading!Cursor(next) = Reading!Cursor(r) /\ Reading!Cursor(r) + n > Len(data)
  BY <1>1, <1>3 DEF Reading!Cursor, Given
<1> QED
  BY <1>2, <1>3, <1>4, <1>5

\* A read, after the refill if one is needed, either returns the next bits and
\* moves the cursor over them, or there are not as many and it fails.
Reads(r, n, t) ==
    \/ /\ Reading!Cursor(r) + n <= Len(data)
       /\ Reading!Cursor(t.reader) = Reading!Cursor(r) + n
       /\ t.bits = SubSeq(data, Reading!Cursor(r) + 1, Reading!Cursor(r) + n)
       /\ t.reader.error = r.error
    \/ /\ Reading!Cursor(r) + n > Len(data)
       /\ Reading!Cursor(t.reader) = Reading!Cursor(r)
       /\ t.bits = [i \in 1 .. n |-> 0]
       /\ t.reader.error = TRUE

\* A read behind a refill, or without one if enough is there, moves the cursor.
LEMMA ReadMoves ==
    ASSUME NEW r, Holds(r), Given, NEW n \in Widths, NEW s,
           \/ ~(r.count < n) /\ s = r
           \/ r.count < n /\ \E k : Refilled(r, k) /\ s = Loaded(r, k)
    PROVE  Holds(Reading!Take(s, n).reader) /\ Reads(r, n, Reading!Take(s, n))
<1>1. n \in Nat /\ n <= ACC - 7 /\ ACC \in Nat /\ r.count \in Nat /\ ByteCount \in Nat
  BY Room DEF Holds, Given
<1>2. /\ Holds(s) /\ Reading!Cursor(s) = Reading!Cursor(r) /\ s.error = r.error
      /\ s.count < n => s.byte_pos = ByteCount
  <2>1. CASE ~(r.count < n) /\ s = r
    BY <2>1
  <2>2. CASE r.count < n /\ \E k : Refilled(r, k) /\ s = Loaded(r, k)
    <3>1. PICK k : Refilled(r, k) /\ s = Loaded(r, k)
      BY <2>2
    <3>2. Holds(s) /\ Reading!Cursor(s) = Reading!Cursor(r) /\ s.error = r.error
      BY <3>1, LoadedHolds
    <3>3. s.count = r.count + 8 * k /\ s.byte_pos = r.byte_pos + k
      BY <3>1 DEF Loaded
    <3>4. s.count < n => s.byte_pos = ByteCount
      BY <1>1, <3>1, <3>3 DEF Refilled
    <3> QED
      BY <3>2, <3>4
  <2> QED
    BY <2>1, <2>2
<1>3. s.count \in Nat
  BY <1>2, Room DEF Holds
<1>4. CASE n <= s.count
  BY <1>2, <1>4, TakeAdvances DEF Reads
<1>5. CASE s.count < n
  BY <1>2, <1>5, TakeFails DEF Reads
<1> QED
  BY <1>1, <1>3, <1>4, <1>5

\* Both readers read like that.
LEMMA BothRead ==
    ASSUME NEW r, Holds(r), Given, NEW n \in Widths
    PROVE  /\ Holds(Reading!SlowRead(r, n).reader) /\ Reads(r, n, Reading!SlowRead(r, n))
           /\ Holds(Reading!FastRead(r, n).reader) /\ Reads(r, n, Reading!FastRead(r, n))
<1> DEFINE s == IF r.count < n THEN Reading!RefillBytes(r) ELSE r
           f == IF r.count < n THEN Reading!RefillWord(r) ELSE r
<1>1. Reading!SlowRead(r, n) = Reading!Take(s, n)
  BY DEF Reading!SlowRead
<1>2. Reading!FastRead(r, n) = Reading!Take(f, n)
  BY DEF Reading!FastRead
<1>3. \/ ~(r.count < n) /\ s = r
      \/ r.count < n /\ \E k : Refilled(r, k) /\ s = Loaded(r, k)
  BY RefillByBytes
<1>4. \/ ~(r.count < n) /\ f = r
      \/ r.count < n /\ \E k : Refilled(r, k) /\ f = Loaded(r, k)
  BY RefillByWord
<1> HIDE DEF s, f
<1>5. Holds(Reading!Take(s, n).reader) /\ Reads(r, n, Reading!Take(s, n))
  BY <1>3, ReadMoves
<1>6. Holds(Reading!Take(f, n).reader) /\ Reads(r, n, Reading!Take(f, n))
  BY <1>4, ReadMoves
<1> QED
  BY <1>1, <1>2, <1>5, <1>6

-----------------------------------------------------------------------------
(* The invariant of the readers, and the steps they take. *)

Holding == Given /\ Holds(slow_reader) /\ Holds(fast_reader)

\* The readers start before the first bit.
LEMMA InitHolding == Init => Holding
<1> SUFFICES ASSUME Init PROVE Holding
  OBVIOUS
<1>1. \/ data \in Streams
      \/ data = << >>
  BY DEF Init, Reading!Init, NoReader
<1>2. slow_reader = Reading!NewReader /\ fast_reader = Reading!NewReader
  BY DEF Init, Reading!Init, NoReader
<1>3. data \in Seq({0, 1}) /\ Len(data) % 8 = 0
  <2>1. CASE data \in Streams
    BY <2>1, LayersAssumption DEF Reading!ReaderAssumption
  <2>2. CASE data = << >>
    BY <2>2, EmptySeq
  <2> QED
    BY <1>1, <2>1, <2>2
<1>4. Given
  <2>1. Len(data) \in Nat
    BY <1>3, LenProperties
  <2> QED
    BY <1>3, <2>1 DEF Given, ByteCount
<1>5. Holds(Reading!NewReader)
  <2>1. Reading!NewReader \in [ accum : [0 .. ACC - 1 -> {0, 1}], count : 0 .. ACC,
                                byte_pos : 0 .. ByteCount, error : BOOLEAN ]
    BY <1>4, Room DEF Reading!NewReader, Given
  <2>2. Reading!NewReader.count = 0 /\ Reading!NewReader.byte_pos = 0
    BY DEF Reading!NewReader
  <2>3. \A i \in 0 .. 0 - 1 : FALSE
    OBVIOUS
  <2> QED
    BY <2>1, <2>2, <2>3 DEF Holds
<1> QED
  BY <1>2, <1>4, <1>5 DEF Holding

\* What a step of the readers does to both.
LEMMA ReadStep ==
    ASSUME Holding, Reading!Next
    PROVE  /\ Holding' /\ data' = data
           /\ \E n \in Widths :
                 /\ Reads(slow_reader, n, [reader |-> slow_reader', bits |-> got'.slow])
                 /\ Reads(fast_reader, n, [reader |-> fast_reader', bits |-> got'.fast])
<1>1. PICK n \in Widths : Reading!Read(n)
  BY DEF Reading!Next
<1> DEFINE s == Reading!SlowRead(slow_reader, n)
           f == Reading!FastRead(fast_reader, n)
<1>2. /\ slow_reader' = s.reader /\ fast_reader' = f.reader
      /\ got' = [slow |-> s.bits, fast |-> f.bits]
      /\ data' = data
  BY <1>1 DEF Reading!Read
<1>3. Holds(s.reader) /\ Reads(slow_reader, n, s)
  BY BothRead DEF Holding
<1>4. Holds(f.reader) /\ Reads(fast_reader, n, f)
  BY BothRead DEF Holding
<1> HIDE DEF s, f
<1>5. Holds(slow_reader)' /\ Holds(fast_reader)' /\ Given'
  BY <1>2, <1>3, <1>4 DEF Holds, Given, ByteCount, Holding
<1>6. got'.slow = s.bits /\ got'.fast = f.bits
  BY <1>2
<1>7. /\ Reads(slow_reader, n, [reader |-> slow_reader', bits |-> got'.slow])
      /\ Reads(fast_reader, n, [reader |-> fast_reader', bits |-> got'.fast])
  BY <1>2, <1>3, <1>4, <1>6 DEF Reads
<1> QED
  BY <1>2, <1>5, <1>7 DEF Holding

\* The readers move in no other step.
LEMMA OthersLeaveReaders ==
    ASSUME [Next]_vars
    PROVE  Reading!Next \/ UNCHANGED <<data, slow_reader, fast_reader, got>>
  BY DEF Next, vars, bits

\* Every step keeps what the readers hold.
LEMMA NextHolding ==
    ASSUME Holding, [Next]_vars
    PROVE  Holding'
<1>1. CASE Reading!Next
  BY <1>1, ReadStep
<1>2. CASE UNCHANGED <<data, slow_reader, fast_reader, got>>
  BY <1>2 DEF Holding, Given, Holds, ByteCount
<1> QED
  BY <1>1, <1>2, OthersLeaveReaders

\* A step advances both cursors, or fails in both, or moves neither.
LEMMA SourceSteps ==
    ASSUME Holding, [Next]_vars
    PROVE  /\ [Reading!SlowSource!Next]_<<data, Reading!Cursor(slow_reader),
                                          slow_reader.error, got.slow>>
           /\ [Reading!FastSource!Next]_<<data, Reading!Cursor(fast_reader),
                                          fast_reader.error, got.fast>>
<1>1. CASE Reading!Next
  <2>1. PICK n \in Widths :
            /\ Reads(slow_reader, n, [reader |-> slow_reader', bits |-> got'.slow])
            /\ Reads(fast_reader, n, [reader |-> fast_reader', bits |-> got'.fast])
    BY <1>1, ReadStep
  <2>2. data' = data
    BY <1>1, ReadStep
  <2>3. Reading!SlowSource!Advance(n) \/ Reading!SlowSource!Fail(n)
    BY <2>1, <2>2 DEF Reads, Reading!SlowSource!Advance, Reading!SlowSource!Fail, Reading!Cursor
  <2>4. Reading!FastSource!Advance(n) \/ Reading!FastSource!Fail(n)
    BY <2>1, <2>2 DEF Reads, Reading!FastSource!Advance, Reading!FastSource!Fail, Reading!Cursor
  <2> QED
    BY <2>3, <2>4 DEF Reading!SlowSource!Next, Reading!FastSource!Next
<1>2. CASE UNCHANGED <<data, slow_reader, fast_reader, got>>
  BY <1>2 DEF Reading!Cursor
<1> QED
  BY <1>1, <1>2, OthersLeaveReaders

\* Both cursors start at the front.
LEMMA InitSources == Init => Reading!SlowSource!Init /\ Reading!FastSource!Init
  BY DEF Init, Reading!Init, NoReader, Reading!NewReader, Reading!Cursor,
         Reading!SlowSource!Init, Reading!FastSource!Init

\* Both bit readers implement a cursor over the bits they are given
\* (ImplementsBitSource): whatever is read, byte by byte or a word at a time,
\* they return the bits that follow, or fail, once too few are left.
THEOREM ReadersAreCursors == Spec => ImplementsBitSource
<1>1. Holding /\ [Next]_vars => Holding'
  BY NextHolding
<1>2. Holding /\ [Next]_vars =>
         /\ [Reading!SlowSource!Next]_<<data, Reading!Cursor(slow_reader),
                                        slow_reader.error, got.slow>>
         /\ [Reading!FastSource!Next]_<<data, Reading!Cursor(fast_reader),
                                        fast_reader.error, got.fast>>
  BY SourceSteps
<1> QED
  BY <1>1, <1>2, InitHolding, InitSources, PTL
  DEF Spec, ImplementsBitSource, Reading!ImplementsBitSource,
      Reading!SlowSource!Spec, Reading!FastSource!Spec

-----------------------------------------------------------------------------
(***************************************************************************)
(* The writers.  What a writer stands for before the finish is the text of *)
(* its stored bytes and pending bits; a flush and a word store move bits   *)
(* from one to the other and leave the text as it is.                      *)
(***************************************************************************)
Length(w)   == 8 * w.byte_pos + w.count
BitAt(w, i) == IF i <= 8 * w.byte_pos THEN w.buf[i - 1] ELSE Writing!AccumBit(w, Length(w) - i)
Text(w)     == [i \in 1 .. Length(w) |-> BitAt(w, i)]

\* What it stands for afterwards.
Stored(w)   == [i \in 1 .. 8 * w.byte_pos |-> w.buf[i - 1]]

\* The constants of the writers.
LEMMA WriterSizes ==
    /\ ACC \in Nat /\ FLUSH \in Nat /\ SCRATCH \in Nat
    /\ 8 <= FLUSH /\ FLUSH <= ACC
    /\ Writes \subseteq [val : [0 .. ACC - 1 -> {0, 1}], n : 0 .. ACC - 8]
    /\ MAX_WRITES \in Nat
  BY LayersAssumption DEF Writing!WriterAssumption

\* The parts of a writer have their types.
LEMMA WriterParts ==
    ASSUME NEW w \in Writing!Writer
    PROVE  /\ w.accum \in [0 .. ACC - 1 -> {0, 1}]
           /\ w.count \in Nat /\ w.byte_pos \in Nat /\ Length(w) \in Nat
           /\ w.buf \in [0 .. 8 * SCRATCH - 1 -> {0, 1}]
  BY DEF Writing!Writer, Writing!Bit, Length

\* The text of a writer is one of bits.
LEMMA TextType ==
    ASSUME NEW w \in Writing!Writer, 8 * w.byte_pos <= 8 * SCRATCH
    PROVE  /\ Text(w) \in Seq({0, 1}) /\ Len(Text(w)) = Length(w)
           /\ \A i \in 1 .. Length(w) : Text(w)[i] = BitAt(w, i)
<1>1. /\ w.accum \in [0 .. ACC - 1 -> {0, 1}]
      /\ w.count \in Nat /\ w.byte_pos \in Nat /\ Length(w) \in Nat
      /\ w.buf \in [0 .. 8 * SCRATCH - 1 -> {0, 1}]
  BY WriterParts
<1>2. ASSUME NEW i \in 1 .. Length(w)
      PROVE  BitAt(w, i) \in {0, 1}
  <2>1. CASE i <= 8 * w.byte_pos
    <3>1. i - 1 \in 0 .. 8 * SCRATCH - 1
      BY <1>1, <2>1, WriterSizes
    <3>2. w.buf[i - 1] \in {0, 1}
      BY <1>1, <3>1
    <3> QED
      BY <2>1, <3>2 DEF BitAt
  <2>2. CASE ~(i <= 8 * w.byte_pos)
    <3>1. Length(w) - i \in Nat
      BY <1>1
    <3>2. Length(w) - i < ACC => w.accum[Length(w) - i] \in {0, 1}
      BY <1>1, <3>1, WriterSizes
    <3> QED
      BY <2>2, <3>2 DEF BitAt, Writing!AccumBit
  <2> QED
    BY <2>1, <2>2
<1>3. Text(w) \in [1 .. Length(w) -> {0, 1}]
  BY <1>2 DEF Text
<1>4. Text(w) \in Seq({0, 1})
  BY <1>1, <1>3, SeqDef
<1>5. Len(Text(w)) = Length(w)
  BY <1>1, <1>3, <1>4, LenProperties
<1> QED
  BY <1>4, <1>5 DEF Text

\* What a writer has stored is a string of bits.
LEMMA StoredType ==
    ASSUME NEW w \in Writing!Writer, w.byte_pos <= SCRATCH
    PROVE  /\ Stored(w) \in Seq({0, 1}) /\ Len(Stored(w)) = 8 * w.byte_pos
           /\ \A i \in 1 .. 8 * w.byte_pos : Stored(w)[i] = w.buf[i - 1]
<1>1. w.byte_pos \in Nat /\ w.buf \in [0 .. 8 * SCRATCH - 1 -> {0, 1}]
  BY WriterParts
<1>2. 8 * w.byte_pos \in Nat
  BY <1>1
<1>3. \A i \in 1 .. 8 * w.byte_pos : i - 1 \in 0 .. 8 * SCRATCH - 1
  BY <1>1, WriterSizes
<1>4. Stored(w) \in [1 .. 8 * w.byte_pos -> {0, 1}]
  BY <1>1, <1>3 DEF Stored
<1>5. Stored(w) \in Seq({0, 1})
  BY <1>2, <1>4, SeqDef
<1>6. Len(Stored(w)) = 8 * w.byte_pos
  BY <1>2, <1>4, <1>5, LenProperties
<1> QED
  BY <1>5, <1>6 DEF Stored

\* The low bits of a value, most significant first.
LEMMA LowType ==
    ASSUME NEW val \in [0 .. ACC - 1 -> {0, 1}], NEW n \in 0 .. ACC - 8
    PROVE  /\ Writing!String!Low(val, n) \in Seq({0, 1})
           /\ Len(Writing!String!Low(val, n)) = n
           /\ \A i \in 1 .. n : Writing!String!Low(val, n)[i] = val[n - i]
<1> DEFINE low == Writing!String!Low(val, n)
<1>1. n \in Nat /\ \A i \in 1 .. n : n - i \in 0 .. ACC - 1
  BY WriterSizes
<1>2. low = [i \in 1 .. n |-> val[n - i]]
  BY DEF Writing!String!Low
<1>3. low \in [1 .. n -> {0, 1}]
  BY <1>1, <1>2
<1>4. low \in Seq({0, 1})
  BY <1>1, <1>3, SeqDef
<1>5. Len(low) = n
  BY <1>1, <1>3, <1>4, LenProperties
<1> QED
  BY <1>2, <1>4, <1>5

\* Shifting a value in adds its bits to the text, if the accumulator is wide
\* enough for all that is then pending.
LEMMA ShiftInText ==
    ASSUME NEW w \in Writing!Writer, w.byte_pos <= SCRATCH,
           NEW val \in [0 .. ACC - 1 -> {0, 1}], NEW n \in 0 .. ACC - 8, w.count + n <= ACC
    PROVE  LET s == Writing!ShiftIn(w, val, n) IN
           /\ s \in Writing!Writer
           /\ s.count = w.count + n /\ s.byte_pos = w.byte_pos
           /\ Length(s) = Length(w) + n
           /\ Text(s) = Text(w) \o Writing!String!Low(val, n)
<1> DEFINE s     == Writing!ShiftIn(w, val, n)
           accum == [i \in 0 .. ACC - 1 |-> IF i < n THEN val[i] ELSE w.accum[i - n]]
           low   == Writing!String!Low(val, n)
<1>0. ACC \in Nat /\ n \in Nat /\ n <= ACC - 8
  BY WriterSizes
<1>1. /\ w.accum \in [0 .. ACC - 1 -> {0, 1}]
      /\ w.count \in Nat /\ w.byte_pos \in Nat /\ Length(w) \in Nat
      /\ w.buf \in [0 .. 8 * SCRATCH - 1 -> {0, 1}]
  BY WriterParts
<1>2. accum \in [0 .. ACC - 1 -> {0, 1}]
  <2>1. ASSUME NEW i \in 0 .. ACC - 1, ~(i < n)
        PROVE  w.accum[i - n] \in {0, 1}
    <3>1. i - n \in 0 .. ACC - 1
      BY <1>0, <2>1
    <3> QED
      BY <1>1, <3>1
  <2> QED
    BY <2>1
<1>3. s = [w EXCEPT !.accum = accum, !.count = w.count + n]
  BY DEF Writing!ShiftIn
<1>4. \A i \in 0 .. ACC - 1 : accum[i] = IF i < n THEN val[i] ELSE w.accum[i - n]
  OBVIOUS
<1> HIDE DEF s, accum
<1>5. /\ s \in Writing!Writer
      /\ s.accum = accum /\ s.count = w.count + n /\ s.byte_pos = w.byte_pos
      /\ s.buf = w.buf
  <2>1. w.count + n \in Nat
    BY <1>0, <1>1
  <2> QED
    BY <1>2, <1>3, <2>1 DEF Writing!Writer, Writing!Bit
<1>6. Length(s) = Length(w) + n
  BY <1>0, <1>1, <1>5 DEF Length
<1>7. ASSUME NEW i \in 1 .. Length(w)
      PROVE  BitAt(s, i) = BitAt(w, i)
  <2>1. CASE i <= 8 * w.byte_pos
    BY <1>5, <2>1 DEF BitAt
  <2>2. CASE ~(i <= 8 * w.byte_pos)
    <3> DEFINE p == Length(w) - i
    <3>0. p \in Int /\ 0 <= p /\ p < w.count
      BY <1>1, <2>2 DEF Length
    <3>1. p \in Nat /\ p + n \in 0 .. ACC - 1 /\ ~(p + n < n) /\ (p + n) - n = p
      <4> HIDE DEF p
      <4> QED
        BY <1>0, <1>1, <3>0
    <3>2. p < ACC /\ p + n < ACC /\ Length(s) - i = p + n
      BY <1>0, <1>1, <1>6, <3>0, <3>1, SMTT(30)
    <3> HIDE DEF p
    <3>3. s.accum[p + n] = w.accum[p]
      BY <1>4, <1>5, <3>1
    <3>4. Writing!AccumBit(s, p + n) = Writing!AccumBit(w, p)
      BY <3>2, <3>3 DEF Writing!AccumBit
    <3> QED
      BY <1>5, <2>2, <3>2, <3>4 DEF BitAt, p
  <2> QED
    BY <2>1, <2>2
<1>8. ASSUME NEW i \in 1 .. n
      PROVE  BitAt(s, Length(w) + i) = val[n - i]
  <2>1. n - i \in 0 .. ACC - 1 /\ n - i < n /\ n - i < ACC
    BY <1>0
  <2>2. Length(s) - (Length(w) + i) = n - i /\ ~(Length(w) + i <= 8 * s.byte_pos)
    BY <1>0, <1>1, <1>5, <1>6, SMTT(30) DEF Length
  <2>3. s.accum[n - i] = val[n - i]
    BY <1>4, <1>5, <2>1
  <2>4. Writing!AccumBit(s, n - i) = val[n - i]
    BY <2>1, <2>3 DEF Writing!AccumBit
  <2> QED
    BY <2>2, <2>4 DEF BitAt
<1>9. Text(s) = Text(w) \o low
  <2>1. /\ Text(s) \in Seq({0, 1}) /\ Len(Text(s)) = Length(s)
        /\ \A i \in 1 .. Length(s) : Text(s)[i] = BitAt(s, i)
    <3>1. 8 * s.byte_pos <= 8 * SCRATCH
      BY <1>1, <1>5, WriterSizes
    <3> QED
      BY <1>5, <3>1, TextType
  <2>2. /\ Text(w) \in Seq({0, 1}) /\ Len(Text(w)) = Length(w)
        /\ \A i \in 1 .. Length(w) : Text(w)[i] = BitAt(w, i)
    <3>1. 8 * w.byte_pos <= 8 * SCRATCH
      BY <1>1, WriterSizes
    <3> QED
      BY <3>1, TextType
  <2>3. /\ low \in Seq({0, 1}) /\ Len(low) = n /\ \A i \in 1 .. n : low[i] = val[n - i]
    BY LowType
  <2> HIDE DEF low
  <2> DEFINE both == Text(w) \o low
  <2>4. /\ both \in Seq({0, 1}) /\ Len(both) = Length(w) + n
        /\ \A i \in 1 .. Length(w) + n :
              both[i] = IF i <= Length(w) THEN Text(w)[i] ELSE low[i - Length(w)]
    BY <2>2, <2>3, ConcatProperties
  <2>5. ASSUME NEW i \in 1 .. Length(w) + n
        PROVE  Text(s)[i] = both[i]
    <3>1. CASE i <= Length(w)
      <4>1. i \in 1 .. Length(w)
        BY <1>1, <3>1
      <4> HIDE DEF both
      <4> QED
        BY <1>6, <1>7, <2>1, <2>2, <2>4, <3>1, <4>1
    <3>2. CASE ~(i <= Length(w))
      <4>1. i - Length(w) \in 1 .. n /\ Length(w) + (i - Length(w)) = i
        BY <1>0, <1>1, <3>2
      <4>2. BitAt(s, i) = val[n - (i - Length(w))]
        BY <1>8, <4>1
      <4>3. low[i - Length(w)] = val[n - (i - Length(w))]
        BY <2>3, <4>1
      <4> HIDE DEF both
      <4> QED
        BY <1>6, <2>1, <2>4, <3>2, <4>2, <4>3
    <3> QED
      BY <3>1, <3>2
  <2> HIDE DEF both
  <2>6. Text(s) = both
    BY <1>6, <2>1, <2>4, <2>5, SeqEqual
  <2> QED
    BY <2>6 DEF both
<1> QED
  BY <1>5, <1>6, <1>9 DEF s, low

\* What is less than the modulus is its own remainder.
LEMMA ModLess ==
    ASSUME NEW n \in Nat, NEW a \in Int, 0 <= a, a < n
    PROVE  a % n = a
<1> DEFINE q == a \div n
           m == a % n
<1>1. n \in Int /\ n > 0
  OBVIOUS
<1>2. q \in Int /\ m \in Int /\ a = n * q + m /\ 0 <= m /\ m < n
  BY <1>1
<1>3. CASE q = 0
  <2> HIDE DEF q, m
  <2>1. n * q = 0
    BY <1>1, <1>3
  <2> QED
    BY <1>2, <2>1 DEF m
<1>4. CASE q >= 1
  <2> HIDE DEF q, m
  <2>1. n * q >= n
    BY <1>1, <1>2, <1>4
  <2> QED
    BY <1>1, <1>2, <2>1
<1>5. CASE q <= -1
  <2> HIDE DEF q, m
  <2>1. n * q <= -n
    BY <1>1, <1>2, <1>5
  <2> QED
    BY <1>1, <1>2, <2>1
<1> HIDE DEF q, m
<1> QED
  BY <1>2, <1>3, <1>4, <1>5 DEF m

\* Whole bytes of c pending bits, moved behind the p bytes that are stored.
LEMMA WholeBytes ==
    ASSUME NEW p \in Nat, NEW c \in Nat
    PROVE  /\ c \div 8 \in Nat /\ c % 8 \in 0 .. 7 /\ c % 8 \in Nat /\ c % 8 < 8
           /\ p + (c \div 8) \in Nat
           /\ 8 * (p + (c \div 8)) + (c % 8) = 8 * p + c
           /\ 8 * (p + (c \div 8)) = 8 * p + 8 * (c \div 8)
           /\ 8 * p <= 8 * (p + (c \div 8)) /\ 8 * (p + (c \div 8)) <= 8 * p + c
           /\ 8 * (c \div 8) <= c
           /\ c - 8 * (c \div 8) = c % 8
<1>1. c \div 8 \in Nat /\ c % 8 \in 0 .. 7 /\ c = 8 * (c \div 8) + (c % 8)
  OBVIOUS
<1> DEFINE q == c \div 8
           m == c % 8
<1>2. q \in Nat /\ m \in 0 .. 7 /\ c = 8 * q + m
  BY <1>1
<1> HIDE DEF q, m
<1>3. /\ p + q \in Nat /\ 8 * (p + q) + m = 8 * p + c
      /\ 8 * (p + q) = 8 * p + 8 * q
      /\ 8 * p <= 8 * (p + q) /\ 8 * (p + q) <= 8 * p + c
      /\ 8 * q <= c /\ c - 8 * q = m /\ m \in Nat /\ m < 8
  BY <1>2
<1> QED
  BY <1>1, <1>3 DEF q, m

\* The bit of the accumulator that goes to place j, for the c bits from base on.
LEMMA Places ==
    ASSUME NEW base \in Nat, NEW c \in Nat, NEW m \in Nat, NEW limit \in Nat,
           m <= c, c <= limit, NEW j \in Int, base <= j, j < base + m
    PROVE  /\ c - 1 - (j - base) \in 0 .. limit - 1
           /\ c - 1 - (j - base) = (base + c) - (j + 1)
           /\ (base + c) - (j + 1) < limit
           /\ limit - 1 - (j - base) \in 0 .. limit - 1
           /\ limit - 1 - (j - base) >= limit - c
           /\ (limit - 1 - (j - base)) - (limit - c) = (base + c) - (j + 1)
  OBVIOUS

\* The numbers of a writer.
LEMMA WriterNumbers ==
    ASSUME NEW w \in Writing!Writer
    PROVE  /\ w.count \in Nat /\ w.byte_pos \in Nat /\ 8 * w.byte_pos \in Nat
           /\ ACC \in Nat /\ SCRATCH \in Nat /\ 8 * SCRATCH \in Nat
           /\ Length(w) = 8 * w.byte_pos + w.count /\ Length(w) \in Nat
<1>1. w.count \in Nat /\ w.byte_pos \in Nat /\ Length(w) \in Nat
  BY WriterParts
<1>2. ACC \in Nat /\ SCRATCH \in Nat
  BY WriterSizes
<1>3. 8 * w.byte_pos \in Nat
  BY <1>1
<1>4. 8 * SCRATCH \in Nat
  BY <1>2
<1> QED
  BY <1>1, <1>2, <1>3, <1>4 DEF Length

\* A flush moves whole bytes of the text to the buffer, if there is room.
Flushed(w, f) ==
    /\ f \in Writing!Writer
    /\ f.accum = w.accum
    /\ f.count = w.count % 8
    /\ f.byte_pos = w.byte_pos + w.count \div 8
    /\ Length(f) = Length(w)
    /\ Text(f) = Text(w)

\* Bytes in the buffer and pending bits that are those of the text make it.
LEMMA FlushedText ==
    ASSUME NEW w \in Writing!Writer, NEW f \in Writing!Writer,
           f.accum = w.accum, f.count = w.count % 8,
           f.byte_pos = w.byte_pos + w.count \div 8,
           \A j \in 0 .. 8 * w.byte_pos - 1 : f.buf[j] = w.buf[j],
           \A j \in 8 * w.byte_pos .. 8 * f.byte_pos - 1 :
               f.buf[j] = Writing!AccumBit(w, Length(w) - (j + 1))
    PROVE  Flushed(w, f)
<1>1. /\ w.count \in Nat /\ w.byte_pos \in Nat /\ f.count \in Nat /\ f.byte_pos \in Nat
  BY WriterParts
<1>2. /\ 8 * f.byte_pos + f.count = 8 * w.byte_pos + w.count
      /\ 8 * w.byte_pos <= 8 * f.byte_pos
  BY <1>1, WholeBytes
<1>3. Length(f) = Length(w) /\ Length(w) \in Nat
  BY <1>1, <1>2 DEF Length
<1>4. ASSUME NEW i \in 1 .. Length(w)
      PROVE  BitAt(f, i) = BitAt(w, i)
  <2>0. i \in Nat /\ (i - 1) + 1 = i
    BY <1>3
  <2>1. CASE i <= 8 * w.byte_pos
    <3>1. i - 1 \in 0 .. 8 * w.byte_pos - 1 /\ i <= 8 * f.byte_pos
      BY <1>1, <1>2, <2>0, <2>1
    <3> QED
      BY <2>1, <3>1 DEF BitAt
  <2>2. CASE ~(i <= 8 * w.byte_pos) /\ i <= 8 * f.byte_pos
    <3>1. i - 1 \in 8 * w.byte_pos .. 8 * f.byte_pos - 1
      BY <1>1, <2>0, <2>2
    <3>2. f.buf[i - 1] = Writing!AccumBit(w, Length(w) - ((i - 1) + 1))
      BY <3>1
    <3> QED
      BY <2>0, <2>2, <3>2 DEF BitAt
  <2>3. CASE ~(i <= 8 * w.byte_pos) /\ ~(i <= 8 * f.byte_pos)
    BY <1>3, <2>3 DEF BitAt, Writing!AccumBit
  <2>4. i <= 8 * w.byte_pos => i <= 8 * f.byte_pos
    BY <1>1, <1>2, <2>0
  <2> QED
    BY <2>1, <2>2, <2>3, <2>4
<1>5. Text(f) = Text(w)
  BY <1>3, <1>4 DEF Text
<1> QED
  BY <1>3, <1>5 DEF Flushed

\* bw_flush, byte by byte, with room for what is pending.
LEMMA FlushBytesText ==
    ASSUME NEW w \in Writing!Writer, w.count <= ACC, Length(w) <= 8 * SCRATCH
    PROVE  Flushed(w, Writing!FlushBytes(w))
<1> DEFINE whole == w.count \div 8
           bytes == IF whole <= SCRATCH - w.byte_pos THEN whole ELSE SCRATCH - w.byte_pos
           base  == 8 * w.byte_pos
           buf   == [j \in DOMAIN w.buf |->
                        IF base <= j /\ j < base + 8 * bytes
                        THEN Writing!AccumBit(w, w.count - 1 - (j - base))
                        ELSE w.buf[j]]
           f     == [w EXCEPT !.buf = buf, !.byte_pos = w.byte_pos + bytes,
                              !.count = w.count - 8 * bytes]
<1>0. /\ w.count \in Nat /\ w.byte_pos \in Nat /\ base \in Nat
      /\ ACC \in Nat /\ SCRATCH \in Nat /\ 8 * SCRATCH \in Nat
      /\ Length(w) = base + w.count /\ base = 8 * w.byte_pos
  BY WriterNumbers
<1>1. /\ w.accum \in [0 .. ACC - 1 -> {0, 1}]
      /\ w.count \in Nat /\ w.byte_pos \in Nat /\ Length(w) \in Nat
      /\ w.buf \in [0 .. 8 * SCRATCH - 1 -> {0, 1}]
  BY WriterParts
<1>2. /\ whole \in Nat /\ 8 * whole <= w.count
      /\ w.count - 8 * whole = w.count % 8 /\ w.count % 8 \in Nat
      /\ w.byte_pos + whole \in Nat
      /\ 8 * (w.byte_pos + whole) = base + 8 * whole
  BY <1>0, WholeBytes
<1>3. bytes = whole
  <2>1. base + 8 * whole <= 8 * SCRATCH
    <3> HIDE DEF whole, base
    <3> QED
      BY <1>0, <1>2
  <2>2. whole <= SCRATCH - w.byte_pos
    <3> HIDE DEF whole
    <3> QED
      BY <1>0, <1>2, <2>1
  <2> QED
    BY <2>2
<1>4. Writing!FlushBytes(w) = f
  BY Zenon DEF Writing!FlushBytes
<1> HIDE DEF whole, bytes
<1>5. ASSUME NEW j \in 0 .. 8 * SCRATCH - 1
      PROVE  /\ buf[j] = IF base <= j /\ j < base + 8 * whole
                         THEN Writing!AccumBit(w, w.count - 1 - (j - base)) ELSE w.buf[j]
             /\ buf[j] \in {0, 1}
  <2>1. j \in DOMAIN w.buf /\ w.buf[j] \in {0, 1} /\ j \in Int
    BY <1>1, WriterSizes
  <2>2. buf[j] = IF base <= j /\ j < base + 8 * whole
                 THEN Writing!AccumBit(w, w.count - 1 - (j - base)) ELSE w.buf[j]
    BY <1>3, <2>1
  <2>3. ASSUME base <= j, j < base + 8 * whole
        PROVE  Writing!AccumBit(w, w.count - 1 - (j - base)) \in {0, 1}
    <3>1. w.count - 1 - (j - base) \in 0 .. ACC - 1
      <4>1. base \in Nat /\ 8 * whole \in Nat /\ ACC \in Nat
        BY <1>0, <1>2
      <4> HIDE DEF base
      <4> QED
        BY <1>0, <1>2, <2>1, <2>3, <4>1, Places
    <3> HIDE DEF base
    <3> QED
      BY <1>1, <3>1 DEF Writing!AccumBit
  <2> HIDE DEF buf
  <2> QED
    BY <2>1, <2>2, <2>3
<1>6. buf \in [0 .. 8 * SCRATCH - 1 -> {0, 1}]
  <2>1. DOMAIN w.buf = 0 .. 8 * SCRATCH - 1
    BY <1>1
  <2>2. buf = [j \in 0 .. 8 * SCRATCH - 1 |-> buf[j]]
    BY <2>1
  <2> HIDE DEF buf
  <2> QED
    BY <1>5, <2>2
<1> HIDE DEF buf
<1>7. /\ f \in Writing!Writer /\ f.buf = buf /\ f.accum = w.accum
      /\ f.count = w.count - 8 * bytes /\ f.byte_pos = w.byte_pos + bytes
  <2>1. w.count - 8 * bytes \in Nat /\ w.byte_pos + bytes \in Nat
    BY <1>2, <1>3
  <2> QED
    BY <1>6, <2>1 DEF Writing!Writer, Writing!Bit
<1> HIDE DEF f
<1>8. f.count = w.count % 8 /\ f.byte_pos = w.byte_pos + w.count \div 8
  <2>1. f.count = w.count % 8 /\ f.byte_pos = w.byte_pos + whole
    BY <1>2, <1>3, <1>7
  <2> QED
    BY <2>1 DEF whole
<1>9. ASSUME NEW j \in 0 .. base - 1 PROVE f.buf[j] = w.buf[j]
  <2>1. j \in 0 .. 8 * SCRATCH - 1 /\ ~(base <= j)
    <3> HIDE DEF base
    <3> QED
      BY <1>0
  <2> QED
    BY <1>5, <1>7, <2>1
<1>10. ASSUME NEW j \in base .. 8 * f.byte_pos - 1
       PROVE  f.buf[j] = Writing!AccumBit(w, Length(w) - (j + 1))
  <2>1. j \in Int /\ base <= j /\ j < base + 8 * whole
    <3>1. 8 * f.byte_pos = base + 8 * whole /\ base + 8 * whole \in Int
      BY <1>0, <1>2, <1>3, <1>7
    <3> HIDE DEF base
    <3> QED
      BY <3>1
  <2>2. /\ w.count - 1 - (j - base) = Length(w) - (j + 1)
        /\ j \in 0 .. 8 * SCRATCH - 1
    <3>1. 8 * whole \in Nat
      BY <1>2
    <3> HIDE DEF base
    <3>2. w.count - 1 - (j - base) = (base + w.count) - (j + 1)
      BY <1>0, <1>2, <2>1, <3>1, Places
    <3>3. base + 8 * whole <= 8 * SCRATCH
      BY <1>0, <1>2, <3>1
    <3>4. j \in 0 .. 8 * SCRATCH - 1
      BY <1>0, <2>1, <3>1, <3>3
    <3> QED
      BY <1>0, <3>2, <3>4
  <2>3. f.buf[j] = Writing!AccumBit(w, w.count - 1 - (j - base))
    BY <1>5, <1>7, <2>1, <2>2
  <2> HIDE DEF base
  <2> QED
    BY <2>2, <2>3
<1>11. Flushed(w, f)
  BY <1>7, <1>8, <1>9, <1>10, FlushedText
<1> QED
  BY <1>4, <1>11

\* The store of bw_write, with room for a word: as long as not more is pending
\* than the accumulator holds, its complete bytes are those of the text.
LEMMA StoreWordText ==
    ASSUME NEW w \in Writing!Writer, 0 < w.count, w.count <= ACC,
           8 * w.byte_pos + ACC <= 8 * SCRATCH
    PROVE  Flushed(w, Writing!StoreWord(w))
<1> DEFINE base    == 8 * w.byte_pos
           shift   == (ACC - w.count) % ACC
           Word(i) == IF i >= shift THEN w.accum[i - shift] ELSE 0
           buf     == [j \in DOMAIN w.buf |->
                          IF base <= j /\ j < base + ACC
                          THEN Word(ACC - 1 - (j - base))
                          ELSE w.buf[j]]
           f       == [w EXCEPT !.buf = buf, !.byte_pos = w.byte_pos + w.count \div 8,
                                !.count = w.count % 8]
<1>0. /\ w.count \in Nat /\ w.byte_pos \in Nat /\ base \in Nat
      /\ ACC \in Nat /\ SCRATCH \in Nat /\ 8 * SCRATCH \in Nat
      /\ Length(w) = base + w.count /\ base = 8 * w.byte_pos
  BY WriterNumbers
<1>1. /\ w.accum \in [0 .. ACC - 1 -> {0, 1}]
      /\ w.count \in Nat /\ w.byte_pos \in Nat /\ Length(w) \in Nat
      /\ w.buf \in [0 .. 8 * SCRATCH - 1 -> {0, 1}]
      /\ ACC \in Nat /\ SCRATCH \in Nat
  BY WriterParts, WriterSizes
<1>2. /\ w.count % 8 \in Nat /\ w.byte_pos + w.count \div 8 \in Nat
      /\ 8 * (w.byte_pos + w.count \div 8) <= base + w.count
  BY <1>0, WholeBytes
<1>3. shift = ACC - w.count
  <2> DEFINE top == ACC - w.count
  <2>1. top \in Int /\ 0 <= top /\ top < ACC
    BY <1>1, SMTT(30)
  <2> HIDE DEF top
  <2>2. top % ACC = top
    BY <1>1, <2>1, ModLess
  <2> QED
    BY <2>2 DEF top
<1>4. Writing!StoreWord(w) = f
  BY Zenon DEF Writing!StoreWord
<1> HIDE DEF shift
<1>5. ASSUME NEW j \in 0 .. 8 * SCRATCH - 1
      PROVE  /\ buf[j] = IF base <= j /\ j < base + ACC
                         THEN Word(ACC - 1 - (j - base)) ELSE w.buf[j]
             /\ buf[j] \in {0, 1}
  <2>1. j \in DOMAIN w.buf /\ w.buf[j] \in {0, 1} /\ j \in Int
    BY <1>1
  <2>2. buf[j] = IF base <= j /\ j < base + ACC
                 THEN Word(ACC - 1 - (j - base)) ELSE w.buf[j]
    BY <2>1
  <2>3. ASSUME base <= j, j < base + ACC
        PROVE  Word(ACC - 1 - (j - base)) \in {0, 1}
    <3> DEFINE i == ACC - 1 - (j - base)
    <3>1. i \in 0 .. ACC - 1
      BY <1>1, <2>1, <2>3, SMTT(30)
    <3> HIDE DEF i
    <3>2. i >= shift => i - shift \in 0 .. ACC - 1
      BY SMTT(20), <1>1, <1>3, <3>1
    <3>3. Word(i) \in {0, 1}
      BY <1>1, <3>2
    <3> QED
      BY <3>3 DEF i
  <2> HIDE DEF buf
  <2> QED
    BY <2>1, <2>2, <2>3
<1>6. buf \in [0 .. 8 * SCRATCH - 1 -> {0, 1}]
  <2>1. DOMAIN w.buf = 0 .. 8 * SCRATCH - 1
    BY <1>1
  <2>2. buf = [j \in 0 .. 8 * SCRATCH - 1 |-> buf[j]]
    BY <2>1
  <2> HIDE DEF buf
  <2> QED
    BY <1>5, <2>2
<1> HIDE DEF buf
<1>7. /\ f \in Writing!Writer /\ f.buf = buf /\ f.accum = w.accum
      /\ f.count = w.count % 8 /\ f.byte_pos = w.byte_pos + w.count \div 8
  BY <1>2, <1>6 DEF Writing!Writer, Writing!Bit
<1> HIDE DEF f
<1>8. ASSUME NEW j \in 0 .. base - 1 PROVE f.buf[j] = w.buf[j]
  <2>1. j \in 0 .. 8 * SCRATCH - 1 /\ ~(base <= j)
    <3> HIDE DEF base
    <3> QED
      BY <1>0
  <2> QED
    BY <1>5, <1>7, <2>1
<1>9. ASSUME NEW j \in base .. 8 * f.byte_pos - 1
      PROVE  f.buf[j] = Writing!AccumBit(w, Length(w) - (j + 1))
  <2> DEFINE i == ACC - 1 - (j - base)
             p == Length(w) - (j + 1)
  <2>1. j \in Int /\ base <= j /\ j < base + w.count
    <3>1. 8 * f.byte_pos <= base + w.count /\ f.byte_pos \in Nat
      <4> HIDE DEF base
      <4> QED
        BY <1>2, <1>7
    <3>2. 8 * f.byte_pos \in Int
      BY <3>1
    <3> HIDE DEF base
    <3> QED
      BY <1>0, <3>1, <3>2
  <2>2. j \in 0 .. 8 * SCRATCH - 1 /\ j < base + ACC
    <3> HIDE DEF base
    <3> QED
      BY <1>0, <2>1
  <2>3. i >= shift /\ i - shift = p /\ p < ACC
    <3>1. i >= ACC - w.count /\ i - (ACC - w.count) = (base + w.count) - (j + 1)
          /\ (base + w.count) - (j + 1) < ACC
      <4>1. w.count <= w.count /\ w.count <= ACC
        BY <1>0
      <4> HIDE DEF base, p
      <4> QED
        BY <1>0, <2>1, <4>1, Places
    <3> HIDE DEF base, i
    <3> QED
      BY <1>0, <1>3, <3>1
  <2>4. f.buf[j] = Word(i)
    BY <1>5, <1>7, <2>1, <2>2
  <2> HIDE DEF base, i, p
  <2>5. Word(i) = w.accum[p]
    BY <2>3
  <2>6. Writing!AccumBit(w, p) = w.accum[p]
    BY <2>3 DEF Writing!AccumBit
  <2> QED
    BY <2>4, <2>5, <2>6 DEF p
<1>10. Flushed(w, f)
  BY <1>7, <1>8, <1>9, FlushedText
<1> QED
  BY <1>4, <1>10

\* The padding to whole bytes of so many bits and c more.
LEMMA PaddingType ==
    ASSUME NEW p \in Nat, NEW c \in 0 .. 7
    PROVE  LET pad == Writing!String!Padding(8 * p + c)
               len == IF c = 0 THEN 0 ELSE 8 - c
           IN  pad \in Seq({0, 1}) /\ Len(pad) = len /\ \A i \in 1 .. len : pad[i] = 0
<1> DEFINE pad == Writing!String!Padding(8 * p + c)
           len == IF c = 0 THEN 0 ELSE 8 - c
<1>1. (8 * p + c) % 8 = c
  OBVIOUS
<1>2. (8 - c) % 8 = len /\ len \in Nat
  OBVIOUS
<1> HIDE DEF len
<1>3. pad = [i \in 1 .. len |-> 0]
  BY <1>1, <1>2 DEF Writing!String!Padding
<1>4. pad \in [1 .. len -> {0, 1}]
  BY <1>3
<1>5. pad \in Seq({0, 1})
  BY <1>2, <1>4, SeqDef
<1>6. Len(pad) = len
  BY <1>2, <1>4, <1>5, LenProperties
<1> HIDE DEF pad
<1> QED
  BY <1>3, <1>5, <1>6 DEF pad, len

\* residc_bw_finish stores the text, filled up with zeros to whole bytes, if
\* there is room for it.
LEMMA FinishText ==
    ASSUME NEW w \in Writing!Writer, w.count <= ACC, Length(w) <= 8 * SCRATCH
    PROVE  LET e == Writing!FinishWriter(w) IN
           /\ e \in Writing!Writer /\ e.byte_pos <= SCRATCH /\ e.count < 8
           /\ Stored(e) = Text(w) \o Writing!String!Padding(Length(w))
<1> DEFINE f    == Writing!FlushBytes(w)
           base == 8 * f.byte_pos
           e    == Writing!FinishWriter(w)
           pad  == Writing!String!Padding(Length(w))
           both == Text(w) \o pad
<1>0. /\ Flushed(w, f) /\ f \in Writing!Writer /\ Length(f) = Length(w) /\ Text(f) = Text(w)
      /\ f.count = w.count % 8
  BY FlushBytesText DEF Flushed
<1>1. /\ f.byte_pos \in Nat /\ f.count \in 0 .. 7 /\ base \in Nat /\ ACC \in Nat
      /\ SCRATCH \in Nat /\ 8 * SCRATCH \in Nat /\ 8 <= ACC
      /\ Length(w) = base + f.count /\ Length(w) \in Nat /\ base = 8 * f.byte_pos
  <2>1. w.count \in Nat
    BY WriterNumbers
  <2>2. w.count % 8 \in 0 .. 7
    BY <2>1
  <2>3. 8 <= ACC
    BY WriterSizes
  <2> HIDE DEF f
  <2> QED
    BY <1>0, <2>2, <2>3, WriterNumbers
<1>2. e = IF f.count > 0 /\ f.byte_pos < SCRATCH
          THEN [f EXCEPT
                  !.buf = [j \in DOMAIN f.buf |->
                              IF base <= j /\ j < base + 8
                              THEN IF j - base < f.count
                                   THEN f.accum[f.count - 1 - (j - base)] ELSE 0
                              ELSE f.buf[j]],
                  !.byte_pos = f.byte_pos + 1]
          ELSE f
  BY Zenon DEF Writing!FinishWriter
<1>3. /\ f.accum \in [0 .. ACC - 1 -> {0, 1}] /\ f.buf \in [0 .. 8 * SCRATCH - 1 -> {0, 1}]
  BY <1>0, WriterParts
<1>4. /\ Text(w) \in Seq({0, 1}) /\ Len(Text(w)) = Length(w)
      /\ \A i \in 1 .. Length(w) : Text(w)[i] = BitAt(f, i)
  <2>1. base <= 8 * SCRATCH
    <3> HIDE DEF base
    <3> QED
      BY <1>1
  <2>2. f \in Writing!Writer /\ 8 * f.byte_pos <= 8 * SCRATCH
    BY <1>0, <2>1
  <2> HIDE DEF f
  <2>3. /\ Text(f) \in Seq({0, 1}) /\ Len(Text(f)) = Length(f)
        /\ \A i \in 1 .. Length(f) : Text(f)[i] = BitAt(f, i)
    BY <2>2, TextType
  <2> QED
    BY <1>0, <2>3
<1> DEFINE len == IF f.count = 0 THEN 0 ELSE 8 - f.count
<1>5. pad \in Seq({0, 1}) /\ Len(pad) = len /\ \A i \in 1 .. len : pad[i] = 0
  <2> DEFINE same == Writing!String!Padding(8 * f.byte_pos + f.count)
  <2>1. pad = same
    <3>1. Length(w) = 8 * f.byte_pos + f.count
      BY <1>1
    <3> QED
      BY <3>1
  <2>2. same \in Seq({0, 1}) /\ Len(same) = len /\ \A i \in 1 .. len : same[i] = 0
    <3> HIDE DEF f
    <3> QED
      BY <1>1, PaddingType
  <2> HIDE DEF pad, same
  <2> QED
    BY <2>1, <2>2
<1> HIDE DEF f, e, pad
<1>6. /\ both \in Seq({0, 1}) /\ Len(both) = Length(w) + len
      /\ \A i \in 1 .. Length(w) + len :
            both[i] = IF i <= Length(w) THEN Text(w)[i] ELSE pad[i - Length(w)]
  <2> DEFINE text == Text(w)
             size == Length(w)
  <2>1. text \in Seq({0, 1}) /\ Len(text) = size /\ pad \in Seq({0, 1}) /\ Len(pad) = len
    BY <1>4, <1>5
  <2> HIDE DEF len, text, size
  <2>2. /\ text \o pad \in Seq({0, 1}) /\ Len(text \o pad) = size + len
        /\ \A i \in 1 .. size + len :
              (text \o pad)[i] = IF i <= size THEN text[i] ELSE pad[i - size]
    BY <2>1, ConcatProperties
  <2> QED
    BY <2>2 DEF text, size
<1> HIDE DEF both
<1>7. CASE f.count = 0
  <2>1. e = f
    BY <1>1, <1>2, <1>7
  <2>2. f.byte_pos <= SCRATCH
    <3>1. base <= 8 * SCRATCH
      <4> HIDE DEF base
      <4> QED
        BY <1>1, <1>7
    <3> QED
      BY <1>1, <3>1
  <2>3. /\ Stored(f) \in Seq({0, 1}) /\ Len(Stored(f)) = base
        /\ \A i \in 1 .. base : Stored(f)[i] = f.buf[i - 1]
    BY <1>0, <2>2, StoredType
  <2>4. Len(both) = base /\ Length(w) = base
    BY <1>1, <1>6, <1>7
  <2>5. ASSUME NEW i \in 1 .. base PROVE Stored(f)[i] = both[i]
    <3>1. Stored(f)[i] = f.buf[i - 1]
      BY <2>3
    <3>2. both[i] = BitAt(f, i)
      <4> HIDE DEF base
      <4> QED
        BY <1>1, <1>4, <1>6, <2>4, <1>7
    <3>3. BitAt(f, i) = f.buf[i - 1]
      BY DEF BitAt
    <3> QED
      BY <3>1, <3>2, <3>3
  <2>6. Stored(f) = both
    BY <1>6, <2>3, <2>4, <2>5, SeqEqual
  <2> QED
    BY <1>0, <1>1, <2>1, <2>2, <2>6, <1>7 DEF e, both, pad
<1>8. CASE f.count > 0
  <2> DEFINE buf == [j \in DOMAIN f.buf |->
                        IF base <= j /\ j < base + 8
                        THEN IF j - base < f.count
                             THEN f.accum[f.count - 1 - (j - base)] ELSE 0
                        ELSE f.buf[j]]
             g   == [f EXCEPT !.buf = buf, !.byte_pos = f.byte_pos + 1]
  <2>1. f.byte_pos < SCRATCH /\ base + 8 <= 8 * SCRATCH
    <3>1. f.byte_pos < SCRATCH
      BY <1>1, <1>8
    <3> QED
      BY <1>1, <3>1
  <2>2. e = g
    BY <1>2, <1>8, <2>1
  <2>3. ASSUME NEW j \in 0 .. 8 * SCRATCH - 1
        PROVE  /\ buf[j] = IF base <= j /\ j < base + 8
                           THEN IF j - base < f.count
                                THEN f.accum[f.count - 1 - (j - base)] ELSE 0
                           ELSE f.buf[j]
               /\ buf[j] \in {0, 1}
    <3>1. j \in DOMAIN f.buf /\ f.buf[j] \in {0, 1} /\ j \in Int
      BY <1>3, <1>1
    <3>2. buf[j] = IF base <= j /\ j < base + 8
                   THEN IF j - base < f.count
                        THEN f.accum[f.count - 1 - (j - base)] ELSE 0
                   ELSE f.buf[j]
      BY <3>1
    <3>3. ASSUME base <= j, j - base < f.count
          PROVE  f.accum[f.count - 1 - (j - base)] \in {0, 1}
      <4>1. f.count - 1 - (j - base) \in 0 .. ACC - 1
        <5> HIDE DEF base
        <5> QED
          BY <1>1, <3>1, <3>3
      <4> HIDE DEF base
      <4> QED
        BY <1>3, <4>1
    <3> HIDE DEF buf, base
    <3> QED
      BY <3>1, <3>2, <3>3
  <2>4. buf \in [0 .. 8 * SCRATCH - 1 -> {0, 1}]
    <3>1. DOMAIN f.buf = 0 .. 8 * SCRATCH - 1
      BY <1>3
    <3>2. buf = [j \in 0 .. 8 * SCRATCH - 1 |-> buf[j]]
      BY <3>1
    <3> HIDE DEF buf
    <3> QED
      BY <2>3, <3>2
  <2> HIDE DEF buf
  <2>5. /\ g \in Writing!Writer /\ g.buf = buf /\ g.byte_pos = f.byte_pos + 1
        /\ g.count = f.count
    <3>1. f.byte_pos + 1 \in Nat
      BY <1>1
    <3> QED
      BY <1>0, <2>4, <3>1 DEF Writing!Writer, Writing!Bit
  <2> HIDE DEF g
  <2>6. g.byte_pos <= SCRATCH /\ 8 * g.byte_pos = base + 8
    BY <1>1, <2>1, <2>5
  <2>7. /\ Stored(g) \in Seq({0, 1}) /\ Len(Stored(g)) = base + 8
        /\ \A i \in 1 .. base + 8 : Stored(g)[i] = g.buf[i - 1]
    <3>1. /\ Stored(g) \in Seq({0, 1}) /\ Len(Stored(g)) = 8 * g.byte_pos
          /\ \A i \in 1 .. 8 * g.byte_pos : Stored(g)[i] = g.buf[i - 1]
      BY <2>5, <2>6, StoredType
    <3> QED
      BY <2>6, <3>1
  <2>8. Length(w) + len = base + 8 /\ len = 8 - f.count
    <3> HIDE DEF base
    <3> QED
      BY <1>1, <1>8
  <2>9. ASSUME NEW i \in 1 .. base + 8 PROVE Stored(g)[i] = both[i]
    <3>1. i \in Int /\ 1 <= i /\ i <= base + 8
      <4> HIDE DEF base
      <4> QED
        BY <1>1
    <3>2. i - 1 \in 0 .. 8 * SCRATCH - 1
      <4> HIDE DEF base
      <4> QED
        BY <1>1, <2>1, <3>1
    <3>3. Stored(g)[i] = buf[i - 1]
      BY <2>5, <2>7
    <3>4. CASE i <= base
      <4>1. ~(base <= i - 1) /\ i \in 1 .. Length(w) /\ i \in 1 .. Length(w) + len
        <5> HIDE DEF base, len
        <5> QED
          BY <1>1, <2>8, <3>1, <3>4
      <4>2. buf[i - 1] = f.buf[i - 1]
        BY <2>3, <3>2, <4>1
      <4>3. both[i] = BitAt(f, i)
        BY <1>4, <1>6, <4>1
      <4>4. BitAt(f, i) = f.buf[i - 1]
        BY <3>4 DEF BitAt
      <4> QED
        BY <3>3, <4>2, <4>3, <4>4
    <3>5. CASE base < i /\ i <= Length(w)
      <4>1. /\ base <= i - 1 /\ i - 1 < base + 8 /\ (i - 1) - base < f.count
            /\ f.count - 1 - ((i - 1) - base) = Length(w) - i
            /\ Length(w) - i < ACC
            /\ i \in 1 .. Length(w) /\ i \in 1 .. Length(w) + len
            /\ ~(i <= base)
        <5> HIDE DEF base, len
        <5> QED
          BY <1>1, <2>8, <3>1, <3>5
      <4>2. buf[i - 1] = f.accum[Length(w) - i]
        <5> HIDE DEF base, len
        <5> QED
          BY <2>3, <3>2, <4>1
      <4>3. both[i] = BitAt(f, i)
        BY <1>4, <1>6, <4>1
      <4>4. BitAt(f, i) = Writing!AccumBit(f, Length(w) - i)
        BY <1>0, <4>1 DEF BitAt
      <4>5. Writing!AccumBit(f, Length(w) - i) = f.accum[Length(w) - i]
        BY <4>1 DEF Writing!AccumBit
      <4> QED
        BY <3>3, <4>2, <4>3, <4>4, <4>5
    <3>6. CASE Length(w) < i
      <4>1. /\ base <= i - 1 /\ i - 1 < base + 8 /\ ~((i - 1) - base < f.count)
            /\ i \in 1 .. Length(w) + len /\ ~(i <= Length(w))
            /\ i - Length(w) \in 1 .. len
        <5> HIDE DEF base, len
        <5> QED
          BY <1>1, <2>8, <3>1, <3>6
      <4>2. buf[i - 1] = 0
        <5> HIDE DEF base, len
        <5> QED
          BY <2>3, <3>2, <4>1
      <4>3. both[i] = 0
        <5> HIDE DEF base, len
        <5> QED
          BY <1>5, <1>6, <4>1
      <4> QED
        BY <3>3, <4>2, <4>3
    <3> HIDE DEF base
    <3> QED
      BY <1>1, <3>1, <3>4, <3>5, <3>6
  <2>10. Stored(g) = both
    <3>1. Len(both) = base + 8
      BY <1>6, <2>8
    <3> HIDE DEF base
    <3> QED
      BY <1>6, <2>7, <2>9, <3>1, SeqEqual
  <2> QED
    BY SMTT(20), <1>1, <2>2, <2>5, <2>6, <2>10 DEF e, both, pad
<1> QED
  BY <1>1, <1>7, <1>8, SMTT(30)

-----------------------------------------------------------------------------
(***************************************************************************)
(* The invariant of the writers.  It needs writes that the accumulator has *)
(* room for behind what may be pending, and a buffer that has room for a   *)
(* word behind all that is written: the code ensures neither (34 bits are  *)
(* a timestamp's longest tier, 384 bytes are 32 escaped residuals).        *)
(***************************************************************************)
WIDEST == ACC - FLUSH + 1

Narrow == \A a \in Writes : a.n <= WIDEST
Fits   == Narrow /\ MAX_WRITES * WIDEST + ACC <= 8 * SCRATCH

Open ==
    /\ Length(fast) = Length(slow)
    /\ Text(fast) = Text(slow)
    /\ Length(fast) <= calls * WIDEST

Closed ==
    /\ fast.byte_pos <= SCRATCH
    /\ fast.byte_pos = slow.byte_pos
    /\ Stored(fast) = Stored(slow)

Filling ==
    /\ Writing!TypeOK
    /\ IF finished THEN Closed ELSE Open

\* With room for what has been written, a write has room for the word that
\* it may store, and its bits for the accumulator.
LEMMA WriteText ==
    ASSUME NEW w \in Writing!Writer, w.count < FLUSH, Narrow, NEW a \in Writes,
           Length(w) + ACC <= 8 * SCRATCH, Length(w) + a.n <= 8 * SCRATCH,
           NEW x, x \in {Writing!FastWrite(w, a.val, a.n), Writing!SlowWrite(w, a.val, a.n)}
    PROVE  /\ x \in Writing!Writer /\ x.count < FLUSH
           /\ Length(x) = Length(w) + a.n
           /\ Text(x) = Text(w) \o Writing!String!Low(a.val, a.n)
<1> DEFINE s == Writing!ShiftIn(w, a.val, a.n)
<1>0. /\ w.count \in Nat /\ w.byte_pos \in Nat /\ 8 * w.byte_pos \in Nat
      /\ ACC \in Nat /\ SCRATCH \in Nat /\ 8 * SCRATCH \in Nat
      /\ Length(w) = 8 * w.byte_pos + w.count
  BY WriterNumbers
<1>1. /\ FLUSH \in Nat /\ 8 <= FLUSH /\ FLUSH <= ACC
      /\ a.val \in [0 .. ACC - 1 -> {0, 1}] /\ a.n \in 0 .. ACC - 8
  BY WriterSizes
<1>2. a.n \in Nat /\ a.n <= ACC - FLUSH + 1
  BY <1>0, <1>1 DEF Narrow, WIDEST
<1>3. w.count + a.n <= ACC
  BY <1>0, <1>1, <1>2, SMTT(20)
<1>4. w.byte_pos <= SCRATCH
  BY <1>0
<1>5. /\ s \in Writing!Writer
      /\ s.count = w.count + a.n /\ s.byte_pos = w.byte_pos
      /\ Length(s) = Length(w) + a.n
      /\ Text(s) = Text(w) \o Writing!String!Low(a.val, a.n)
  BY <1>1, <1>3, <1>4, ShiftInText
<1>6. /\ Writing!FastWrite(w, a.val, a.n) = IF s.count >= FLUSH THEN Writing!StoreWord(s) ELSE s
      /\ Writing!SlowWrite(w, a.val, a.n) = IF s.count >= FLUSH THEN Writing!FlushBytes(s) ELSE s
  BY DEF Writing!FastWrite, Writing!SlowWrite
<1> HIDE DEF s
<1>7. CASE ~(s.count >= FLUSH)
  <2>1. x = s
    BY <1>6, <1>7
  <2>2. s.count < FLUSH
    BY SMTT(20), <1>0, <1>1, <1>2, <1>5, <1>7
  <2> QED
    BY <1>5, <2>1, <2>2
<1>8. CASE s.count >= FLUSH
  <2>1. /\ 0 < s.count /\ s.count <= ACC /\ s.count \in Nat
        /\ 8 * s.byte_pos + ACC <= 8 * SCRATCH /\ Length(s) <= 8 * SCRATCH
    <3>1. 0 < s.count /\ s.count <= ACC /\ s.count \in Nat
      BY SMTT(20), <1>0, <1>1, <1>2, <1>3, <1>5, <1>8
    <3>2. 8 * s.byte_pos + ACC <= 8 * SCRATCH
      <4>1. 8 * s.byte_pos = 8 * w.byte_pos
        BY <1>5
      <4> QED
        BY <1>0, <4>1
    <3> QED
      BY <1>5, <3>1, <3>2
  <2>2. Flushed(s, x)
    <3>1. Flushed(s, Writing!StoreWord(s))
      BY <1>5, <2>1, StoreWordText
    <3>2. Flushed(s, Writing!FlushBytes(s))
      BY <1>5, <2>1, FlushBytesText
    <3> QED
      BY <1>6, <1>8, <3>1, <3>2
  <2>3. s.count % 8 < FLUSH
    <3>1. s.count % 8 \in Nat /\ s.count % 8 < 8
      BY <2>1
    <3> QED
      BY <1>1, <3>1
  <2> QED
    BY <1>5, <2>2, <2>3 DEF Flushed
<1> QED
  BY <1>7, <1>8

\* So many writes of the widest kind at most.
LEMMA Grows ==
    ASSUME Fits, NEW c \in Nat, c < MAX_WRITES, NEW len \in Nat, len <= c * WIDEST,
           NEW n \in Nat, n <= WIDEST
    PROVE  /\ len + n <= (c + 1) * WIDEST
           /\ len + ACC <= 8 * SCRATCH /\ len + n <= 8 * SCRATCH
<1>1. WIDEST \in Nat /\ WIDEST <= ACC - 7 /\ MAX_WRITES \in Nat /\ ACC \in Nat /\ SCRATCH \in Nat
  BY WriterSizes DEF WIDEST
<1>2. (c + 1) * WIDEST = c * WIDEST + WIDEST /\ c * WIDEST \in Nat
  BY <1>1
<1>3. c * WIDEST <= MAX_WRITES * WIDEST
  <2>1. PICK d \in Nat : MAX_WRITES = c + d
    <3>1. MAX_WRITES - c \in Nat /\ MAX_WRITES = c + (MAX_WRITES - c)
      BY <1>1
    <3> QED
      BY <3>1
  <2>2. MAX_WRITES * WIDEST = c * WIDEST + d * WIDEST /\ d * WIDEST \in Nat
    BY <1>1, <2>1
  <2> QED
    BY <1>2, <2>2
<1>4. MAX_WRITES * WIDEST + ACC <= 8 * SCRATCH
  BY DEF Fits
<1> DEFINE sum == c * WIDEST
           all == MAX_WRITES * WIDEST
<1>5. sum \in Nat /\ all \in Int /\ sum <= all /\ all + ACC <= 8 * SCRATCH /\ len <= sum
      /\ 8 * SCRATCH \in Int /\ (c + 1) * WIDEST = sum + WIDEST
  BY <1>1, <1>2, <1>3, <1>4
<1> HIDE DEF sum, all
<1> DEFINE end == 8 * SCRATCH
<1>6. end \in Int /\ all + ACC <= end
  BY <1>5
<1> HIDE DEF end
<1>7. len + n <= sum + WIDEST /\ len + ACC <= end /\ len + n <= end
  BY <1>1, <1>5, <1>6
<1> QED
  BY <1>5, <1>7 DEF end

\* All that is written has room, when it is finished.
LEMMA HasRoom ==
    ASSUME Fits, NEW c \in 0 .. MAX_WRITES, NEW len \in Nat, len <= c * WIDEST
    PROVE  len <= 8 * SCRATCH
<1>1. WIDEST \in Nat /\ MAX_WRITES \in Nat /\ ACC \in Nat /\ SCRATCH \in Nat
  BY WriterSizes DEF WIDEST
<1>2. PICK d \in Nat : MAX_WRITES = c + d
  <2>1. MAX_WRITES - c \in Nat /\ MAX_WRITES = c + (MAX_WRITES - c)
    BY <1>1
  <2> QED
    BY <2>1
<1>3. c * WIDEST \in Nat /\ d * WIDEST \in Nat /\ MAX_WRITES * WIDEST = c * WIDEST + d * WIDEST
  BY <1>1, <1>2
<1>4. MAX_WRITES * WIDEST + ACC <= 8 * SCRATCH
  BY DEF Fits
<1> QED
  BY <1>1, <1>3, <1>4

-----------------------------------------------------------------------------
\* The writers start empty.
LEMMA InitFilling == Init => Filling
<1> SUFFICES ASSUME Init PROVE Filling
  OBVIOUS
<1>1. fast = Writing!NewWriter /\ slow = Writing!NewWriter /\ finished = FALSE /\ calls = 0
  BY DEF Init, Writing!Init
<1>2. Writing!NewWriter \in Writing!Writer /\ Writing!NewWriter.count = 0
      /\ Writing!NewWriter.byte_pos = 0
  BY DEF Writing!NewWriter, Writing!Writer, Writing!Bit
<1>3. Writing!TypeOK
  <2>1. 0 < FLUSH /\ 0 \in 0 .. MAX_WRITES
    BY WriterSizes
  <2> QED
    BY <1>1, <1>2, <2>1 DEF Writing!TypeOK
<1>4. Length(fast) = 0
  BY <1>1, <1>2 DEF Length
<1>5. 0 <= 0 * WIDEST
  <2>1. WIDEST \in Int
    BY WriterSizes DEF WIDEST
  <2> QED
    BY <2>1
<1>6. Open
  BY <1>1, <1>4, <1>5 DEF Open
<1> QED
  BY <1>1, <1>3, <1>6 DEF Filling

\* What a step of the writers does to both, and to the string.
LEMMA WriteStep ==
    ASSUME Fits, Filling, NEW a \in Writes, Writing!Write(a)
    PROVE  /\ Filling' /\ ~finished /\ finished' = finished
           /\ Text(fast)' = Text(fast) \o Writing!String!Low(a.val, a.n)
<1> DEFINE f == Writing!FastWrite(fast, a.val, a.n)
           s == Writing!SlowWrite(slow, a.val, a.n)
<1>1. /\ ~finished /\ calls < MAX_WRITES /\ fast' = f /\ slow' = s /\ calls' = calls + 1
      /\ finished' = finished
  BY DEF Writing!Write
<1>2. Writing!TypeOK /\ Open
  BY <1>1 DEF Filling
<1>3. /\ fast \in Writing!Writer /\ fast.count < FLUSH
      /\ slow \in Writing!Writer /\ slow.count < FLUSH
      /\ calls \in 0 .. MAX_WRITES /\ finished \in BOOLEAN
  BY <1>2 DEF Writing!TypeOK
<1>4. /\ Length(fast) \in Nat /\ Length(slow) = Length(fast) /\ Text(slow) = Text(fast)
      /\ Length(fast) <= calls * WIDEST
  BY <1>2, <1>3, WriterNumbers DEF Open
<1>5. a.n \in Nat /\ a.n <= WIDEST /\ Narrow /\ calls \in Nat
  <2>1. a.n \in 0 .. ACC - 8 /\ ACC \in Nat /\ MAX_WRITES \in Nat
    BY WriterSizes
  <2> QED
    BY <1>3, <2>1 DEF Fits, Narrow
<1>6. /\ Length(fast) + a.n <= (calls + 1) * WIDEST
      /\ Length(fast) + ACC <= 8 * SCRATCH /\ Length(fast) + a.n <= 8 * SCRATCH
  BY <1>1, <1>4, <1>5, Grows
<1>7. /\ f \in Writing!Writer /\ f.count < FLUSH /\ Length(f) = Length(fast) + a.n
      /\ Text(f) = Text(fast) \o Writing!String!Low(a.val, a.n)
  BY <1>3, <1>5, <1>6, WriteText
<1>8. /\ s \in Writing!Writer /\ s.count < FLUSH /\ Length(s) = Length(slow) + a.n
      /\ Text(s) = Text(slow) \o Writing!String!Low(a.val, a.n)
  BY <1>3, <1>4, <1>5, <1>6, WriteText
<1> HIDE DEF f, s
<1>9. calls + 1 \in 0 .. MAX_WRITES
  BY <1>1, <1>3, WriterSizes
<1>10. Writing!TypeOK'
  BY <1>1, <1>3, <1>7, <1>8, <1>9 DEF Writing!TypeOK, Writing!Writer, Writing!Bit
<1>11. /\ Length(f) = Length(s) /\ Text(f) = Text(s) /\ Length(f) <= (calls + 1) * WIDEST
  BY <1>4, <1>6, <1>7, <1>8
<1>12. Open'
  BY <1>1, <1>11 DEF Open, Length, Text, BitAt, Writing!AccumBit, WIDEST
<1>13. Filling'
  BY <1>1, <1>10, <1>12 DEF Filling
<1>14. Text(fast)' = Text(f)
  BY <1>1 DEF Text, Length, BitAt, Writing!AccumBit
<1> QED
  BY <1>1, <1>7, <1>13, <1>14

\* What the finish does to both, and to the string.
LEMMA FinishStep ==
    ASSUME Fits, Filling, Writing!Finish
    PROVE  /\ Filling' /\ ~finished /\ finished' = TRUE
           /\ Stored(fast)' = Text(fast) \o Writing!String!Padding(Length(fast))
<1> DEFINE f == Writing!FinishWriter(fast)
           s == Writing!FinishWriter(slow)
<1>1. /\ ~finished /\ fast' = f /\ slow' = s /\ calls' = calls /\ finished' = TRUE
  BY DEF Writing!Finish
<1>2. Writing!TypeOK /\ Open
  BY <1>1 DEF Filling
<1>3. /\ fast \in Writing!Writer /\ fast.count < FLUSH
      /\ slow \in Writing!Writer /\ slow.count < FLUSH
      /\ calls \in 0 .. MAX_WRITES
  BY <1>2 DEF Writing!TypeOK
<1>4. /\ Length(fast) \in Nat /\ Length(slow) = Length(fast) /\ Text(slow) = Text(fast)
      /\ Length(fast) <= calls * WIDEST
  BY <1>2, <1>3, WriterNumbers DEF Open
<1>5. Length(fast) <= 8 * SCRATCH /\ Length(slow) <= 8 * SCRATCH
  BY <1>3, <1>4, HasRoom
<1>6. fast.count <= ACC /\ slow.count <= ACC
  <2>1. fast.count \in Nat /\ slow.count \in Nat /\ ACC \in Nat /\ FLUSH \in Nat /\ FLUSH <= ACC
    BY <1>3, WriterNumbers, WriterSizes
  <2> QED
    BY <1>3, <2>1
<1>7. /\ f \in Writing!Writer /\ f.byte_pos <= SCRATCH /\ f.count < 8
      /\ Stored(f) = Text(fast) \o Writing!String!Padding(Length(fast))
  BY <1>3, <1>5, <1>6, FinishText
<1>8. /\ s \in Writing!Writer /\ s.byte_pos <= SCRATCH /\ s.count < 8
      /\ Stored(s) = Text(slow) \o Writing!String!Padding(Length(slow))
  BY <1>3, <1>5, <1>6, FinishText
<1> HIDE DEF f, s
<1>9. Stored(f) = Stored(s)
  BY <1>4, <1>7, <1>8
<1>10. f.byte_pos = s.byte_pos
  <2>1. Len(Stored(f)) = 8 * f.byte_pos /\ Len(Stored(s)) = 8 * s.byte_pos
    BY <1>7, <1>8, StoredType
  <2>2. f.byte_pos \in Nat /\ s.byte_pos \in Nat
    BY <1>7, <1>8, WriterNumbers
  <2>3. 8 * f.byte_pos = 8 * s.byte_pos
    BY <1>9, <2>1
  <2> QED
    BY <2>2, <2>3
<1>11. Writing!TypeOK'
  <2>1. f.count < FLUSH /\ s.count < FLUSH
    <3>1. f.count \in Nat /\ s.count \in Nat /\ FLUSH \in Nat /\ 8 <= FLUSH
      BY <1>7, <1>8, WriterNumbers, WriterSizes
    <3> QED
      BY <1>7, <1>8, <3>1
  <2> QED
    BY <1>1, <1>3, <1>7, <1>8, <2>1 DEF Writing!TypeOK, Writing!Writer, Writing!Bit
<1>12. Stored(fast)' = Stored(f) /\ Stored(slow)' = Stored(s)
  BY <1>1 DEF Stored
<1>13. Closed'
  BY <1>1, <1>7, <1>9, <1>10, <1>12 DEF Closed
<1> QED
  BY <1>1, <1>7, <1>11, <1>12, <1>13 DEF Filling

\* The writers move in no other step.
LEMMA OthersLeaveWriters ==
    ASSUME [Next]_vars
    PROVE  Writing!Next \/ UNCHANGED <<fast, slow, finished, calls>>
  BY DEF Next, vars, writer

\* A step that leaves the writers alone keeps the invariant.
LEMMA Unmoved ==
    ASSUME UNCHANGED <<fast, slow, finished, calls>>, Filling
    PROVE  Filling'
  BY DEF Filling, Open, Closed, Writing!TypeOK, Writing!Writer, Writing!Bit, Text, Length, BitAt,
         Writing!AccumBit, Stored, WIDEST

\* Every step keeps the invariant, if what is written fits.
LEMMA NextFilling ==
    ASSUME Fits, Filling, [Next]_vars
    PROVE  Filling'
<1>1. CASE Writing!Next
  BY <1>1, WriteStep, FinishStep DEF Writing!Next
<1>2. CASE UNCHANGED <<fast, slow, finished, calls>>
  BY <1>2, Unmoved
<1> QED
  BY <1>1, <1>2, OthersLeaveWriters

\* A writer stands for its text, then for what it has stored.
Shown(w, done) ==
    [i \in 1 .. 8 * w.byte_pos + (IF done THEN 0 ELSE w.count) |->
        IF i <= 8 * w.byte_pos THEN w.buf[i - 1]
        ELSE Writing!AccumBit(w, 8 * w.byte_pos + (IF done THEN 0 ELSE w.count) - i)]

\* That is the text before the finish, and the stored bytes after it.
LEMMA ShownText ==
    ASSUME NEW w \in Writing!Writer, NEW done \in BOOLEAN
    PROVE  Shown(w, done) = IF done THEN Stored(w) ELSE Text(w)
<1>1. w.byte_pos \in Nat /\ w.count \in Nat /\ 8 * w.byte_pos \in Nat
  BY WriterNumbers
<1> DEFINE base == 8 * w.byte_pos
<1>2. CASE done
  <2>1. base + 0 = base
    BY <1>1
  <2>2. Shown(w, done) =
           [i \in 1 .. base + 0 |->
               IF i <= base THEN w.buf[i - 1] ELSE Writing!AccumBit(w, base + 0 - i)]
    BY <1>2 DEF Shown
  <2>3. \A i \in 1 .. base : i <= base
    BY <1>1
  <2>4. Stored(w) = [i \in 1 .. base |-> w.buf[i - 1]]
    BY DEF Stored
  <2> HIDE DEF base
  <2>5. Shown(w, done) = [i \in 1 .. base |-> w.buf[i - 1]]
    BY <2>1, <2>2, <2>3
  <2> QED
    BY <1>2, <2>4, <2>5
<1>3. CASE ~done
  <2>1. Shown(w, done) =
           [i \in 1 .. base + w.count |->
               IF i <= base THEN w.buf[i - 1] ELSE Writing!AccumBit(w, base + w.count - i)]
    BY <1>3 DEF Shown
  <2>2. ASSUME NEW i \in 1 .. base + w.count
        PROVE  BitAt(w, i) = IF i <= base THEN w.buf[i - 1]
                             ELSE Writing!AccumBit(w, base + w.count - i)
    <3>1. i \in Int
      BY <1>1
    <3>2. Length(w) - i = base + w.count - i
      BY <1>1, <3>1 DEF Length
    <3> QED
      BY <3>2 DEF BitAt
  <2>3. Text(w) = [i \in 1 .. base + w.count |-> BitAt(w, i)]
    BY DEF Text, Length
  <2> HIDE DEF base
  <2>4. Text(w) =
           [i \in 1 .. base + w.count |->
               IF i <= base THEN w.buf[i - 1] ELSE Writing!AccumBit(w, base + w.count - i)]
    BY <2>2, <2>3
  <2> QED
    BY <1>3, <2>1, <2>4
<1> QED
  BY <1>2, <1>3

\* The bits a writer stands for are those shown.
LEMMA ContentShown ==
    /\ Writing!Content(fast) = Shown(fast, finished)
    /\ Writing!Content(slow) = Shown(slow, finished)
    /\ Writing!Content(fast)' = Shown(fast', finished')
  BY Zenon DEF Writing!Content, Shown, Writing!AccumBit

\* A step adds to the string or closes it.
LEMMA StringSteps ==
    ASSUME Fits, Filling, [Next]_vars
    PROVE  [Writing!String!Next]_<<Writing!Content(fast), finished>>
<1>1. /\ fast \in Writing!Writer
      /\ Writing!Content(fast) = IF finished THEN Stored(fast) ELSE Text(fast)
  BY ContentShown, ShownText DEF Filling, Writing!TypeOK
<1>2. Filling'
  BY NextFilling
<1>3. Writing!Content(fast)' = IF finished' THEN Stored(fast)' ELSE Text(fast)'
  <2>1. fast' \in Writing!Writer /\ finished' \in BOOLEAN
    BY <1>2 DEF Filling, Writing!TypeOK, Writing!Writer, Writing!Bit
  <2>2. Shown(fast', finished') = IF finished' THEN Stored(fast') ELSE Text(fast')
    BY <2>1, ShownText
  <2>3. Stored(fast)' = Stored(fast') /\ Text(fast)' = Text(fast')
    BY Zenon DEF Stored, Text, BitAt, Length, Writing!AccumBit
  <2> QED
    BY <2>2, <2>3, ContentShown
<1>4. ASSUME NEW a \in Writes, Writing!Write(a)
      PROVE  Writing!String!Add(a)
  <2>1. /\ ~finished /\ finished' = finished
        /\ Text(fast)' = Text(fast) \o Writing!String!Low(a.val, a.n)
    BY <1>4, WriteStep
  <2> QED
    BY <1>1, <1>3, <2>1 DEF Writing!String!Add
<1>5. ASSUME Writing!Finish
      PROVE  Writing!String!Close
  <2>1. /\ ~finished /\ finished' = TRUE
        /\ Stored(fast)' = Text(fast) \o Writing!String!Padding(Length(fast))
    BY <1>5, FinishStep
  <2>2. Len(Text(fast)) = Length(fast)
    <3>1. fast.byte_pos <= SCRATCH
      <4>1. Open /\ calls \in 0 .. MAX_WRITES /\ Length(fast) \in Nat
        BY <1>1, <2>1, WriterNumbers DEF Filling, Writing!TypeOK
      <4>2. Length(fast) <= 8 * SCRATCH
        BY <4>1, HasRoom DEF Open
      <4>3. /\ fast.count \in Nat /\ fast.byte_pos \in Nat /\ SCRATCH \in Nat
            /\ Length(fast) = 8 * fast.byte_pos + fast.count
        BY <1>1, WriterNumbers
      <4> QED
        BY <4>2, <4>3
    <3>2. fast.byte_pos \in Nat /\ SCRATCH \in Nat
      BY <1>1, WriterNumbers
    <3>3. 8 * fast.byte_pos <= 8 * SCRATCH
      BY <3>1, <3>2
    <3> QED
      BY <1>1, <3>3, TextType
  <2> QED
    BY <1>1, <1>3, <2>1, <2>2 DEF Writing!String!Close
<1>6. CASE Writing!Next
  BY <1>4, <1>5, <1>6 DEF Writing!Next, Writing!String!Next
<1>7. CASE UNCHANGED <<fast, slow, finished, calls>>
  BY <1>1, <1>3, <1>7 DEF Stored, Text, Length, BitAt, Writing!AccumBit
<1> QED
  BY <1>6, <1>7, OthersLeaveWriters

\* The string is empty at the start.
LEMMA InitString == Init => Writing!String!Init
<1> SUFFICES ASSUME Init PROVE Writing!String!Init
  OBVIOUS
<1>1. fast = Writing!NewWriter /\ finished = FALSE
  BY DEF Init, Writing!Init
<1>2. Writing!NewWriter.count = 0 /\ Writing!NewWriter.byte_pos = 0
  BY DEF Writing!NewWriter
<1>3. Writing!Content(fast) = [i \in 1 .. 8 * 0 + 0 |->
          IF i <= 8 * 0 THEN fast.buf[i - 1] ELSE Writing!AccumBit(fast, 8 * 0 + 0 - i)]
  BY <1>1, <1>2 DEF Writing!Content
<1>4. 8 * 0 + 0 = 0
  OBVIOUS
<1>5. Writing!Content(fast) = << >>
  BY <1>3, <1>4
<1> QED
  BY <1>1, <1>5 DEF Writing!String!Init

\* The writers have the same text in every state, and the same bytes in the
\* end.
LEMMA FillingCompatible == Filling => Writing!WireCompatible
<1> SUFFICES ASSUME Filling PROVE Writing!WireCompatible
  OBVIOUS
<1>1. /\ Writing!Content(fast) = IF finished THEN Stored(fast) ELSE Text(fast)
      /\ Writing!Content(slow) = IF finished THEN Stored(slow) ELSE Text(slow)
  BY ContentShown, ShownText DEF Filling, Writing!TypeOK
<1> QED
  BY <1>1 DEF Filling, Open, Closed, Writing!WireCompatible

-----------------------------------------------------------------------------
\* "Wire format is identical" (bw_write): both writers stand for the same bits
\* after the same calls, and hand over the same bytes, as long as no write is
\* wider than what the accumulator has room for and the buffer is not used up.
THEOREM WritersAgree ==
    ASSUME Fits
    PROVE  Spec => [](Writing!TypeOK /\ Writing!WireCompatible)
<1>1. Filling /\ [Next]_vars => Filling'
  BY NextFilling
<1>2. Filling => Writing!TypeOK /\ Writing!WireCompatible
  BY FillingCompatible DEF Filling
<1> QED
  BY <1>1, <1>2, InitFilling, PTL DEF Spec

\* The writer of the encoder implements a string that grows by what is written
\* (ImplementsBitString), in spite of the bits each word store writes too much.
THEOREM WriterIsString ==
    ASSUME Fits
    PROVE  Spec => ImplementsBitString
<1>1. Filling /\ [Next]_vars => Filling'
  BY NextFilling
<1>2. Filling /\ [Next]_vars => [Writing!String!Next]_<<Writing!Content(fast), finished>>
  BY StringSteps
<1> QED
  BY <1>1, <1>2, InitFilling, InitString, PTL
  DEF Spec, ImplementsBitString, Writing!ImplementsBitString, Writing!String!Spec

-----------------------------------------------------------------------------
(***************************************************************************)
(* The codes.  Powers of two, bits and numbers come first, then what each  *)
(* encoder writes, then what each reader makes of it, and at the end the   *)
(* layer: the reader is always at the end of what it has decoded.          *)
(***************************************************************************)

\* What the layer of the codes is given.
LEMMA CodeGiven == Coding!CodeAssumption
  BY LayersAssumption

\* FiniteSets counts alike in every module.
LEMMA SameCardinality ==
    ASSUME NEW S
    PROVE  Coding!Cardinality(S) = Cardinality(S)
  BY DEF Coding!Cardinality, Cardinality

\* A set of natural numbers has a least one.
LEMMA LeastNatural ==
    ASSUME NEW T, T \subseteq Nat, T # {}
    PROVE  \E n \in T : \A m \in T : n <= m
<1> DEFINE R == StrictSubsetOrdering(Nat)
           F == {0 .. n : n \in T}
<1>1. IsWellFoundedOn(R, FiniteSubsetsOf(Nat))
  BY FS_StrictSubsetOrderingWellFounded
<1>2. F \subseteq FiniteSubsetsOf(Nat)
  <2>1. \A n \in T : IsFiniteSet(0 .. n) /\ 0 .. n \subseteq Nat
    BY FS_Interval
  <2> QED
    BY <2>1 DEF FiniteSubsetsOf
<1>3. F # {}
  OBVIOUS
<1>4. PICK x \in F : \A y \in F : ~(<<y, x>> \in R)
  <2> HIDE DEF R, F
  <2> QED
    BY <1>1, <1>2, <1>3, WFMin
<1>5. PICK n \in T : x = 0 .. n
  BY <1>4
<1>6. ASSUME NEW m \in T, m < n
      PROVE  FALSE
  <2>1. 0 .. m \in F /\ <<0 .. m, 0 .. n>> \notin R
    BY <1>4, <1>5, <1>6
  <2>2. 0 .. m \subseteq 0 .. n /\ n \in 0 .. n /\ n \notin 0 .. m
    BY <1>6
  <2>3. 0 .. m \in SUBSET Nat /\ 0 .. n \in SUBSET Nat
    OBVIOUS
  <2> QED
    BY <2>1, <2>2, <2>3 DEF StrictSubsetOrdering
<1> QED
  BY <1>6

\* Induction up to n, on the set of the places where something holds.
LEMMA Induct ==
    ASSUME NEW n \in Nat, NEW T, 0 \in T, \A i \in 1 .. n : i - 1 \in T => i \in T
    PROVE  \A i \in 0 .. n : i \in T
<1> DEFINE M == (0 .. n) \ T
<1> SUFFICES ASSUME M # {}
             PROVE  FALSE
  OBVIOUS
<1>1. PICK i \in M : \A j \in M : i <= j
  <2>1. M \subseteq Nat
    OBVIOUS
  <2> HIDE DEF M
  <2> QED
    BY <2>1, LeastNatural
<1>2. i \in 1 .. n /\ i - 1 \in 0 .. n /\ ~(i <= i - 1)
  BY <1>1
<1>3. i - 1 \notin M
  BY <1>1, <1>2
<1> QED
  BY <1>1, <1>2, <1>3

\* A loop of n steps within X.
Loop(X, x, step, n, f) ==
    /\ f \in [0 .. n -> X]
    /\ f[0] = x
    /\ \A i \in 1 .. n : f[i] = step[<<i, f[i - 1]>>]

\* Loops of all lengths exist: there is no shortest one missing.
LEMMA LoopExists ==
    ASSUME NEW X, NEW x \in X, NEW n \in Nat, NEW W, 1 .. n \subseteq W,
           NEW step \in [W \X X -> X]
    PROVE  \E f : Loop(X, x, step, n, f)
<1> DEFINE T == {m \in 0 .. n : ~ \E f : Loop(X, x, step, m, f)}
<1> SUFFICES ASSUME T # {}
             PROVE  FALSE
  <2>1. n \in 0 .. n
    OBVIOUS
  <2>2. n \notin T
    OBVIOUS
  <2> HIDE DEF Loop
  <2> QED
    BY <2>1, <2>2
<1>1. PICK k \in T : \A m \in T : k <= m
  <2>1. T \subseteq Nat
    OBVIOUS
  <2> HIDE DEF T
  <2> QED
    BY <2>1, LeastNatural
<1>2. k # 0
  <2>1. Loop(X, x, step, 0, [m \in 0 .. 0 |-> x])
    BY DEF Loop
  <2> QED
    BY <1>1, <2>1
<1>3. k \in 1 .. n /\ k - 1 \in 0 .. n /\ ~(k <= k - 1)
  BY <1>1, <1>2
<1>4. PICK f : Loop(X, x, step, k - 1, f)
  BY <1>1, <1>3
<1> DEFINE e == [m \in 0 .. k |-> IF m < k THEN f[m] ELSE step[<<k, f[k - 1]>>]]
<1>5. \A m \in 0 .. k - 1 : f[m] \in X
  BY <1>3, <1>4 DEF Loop
<1>6. step[<<k, f[k - 1]>>] \in X
  <2>1. k \in W /\ f[k - 1] \in X
    BY <1>3, <1>5
  <2> QED
    BY <2>1
<1>7. e \in [0 .. k -> X] /\ e[0] = x
  BY <1>3, <1>4, <1>5, <1>6 DEF Loop
<1>8. ASSUME NEW m \in 1 .. k
      PROVE  e[m] = step[<<m, e[m - 1]>>]
  <2>1. CASE m = k
    <3>1. m \in 0 .. k /\ m - 1 \in 0 .. k /\ ~(m < k) /\ m - 1 < k
      BY <1>3, <2>1
    <3>2. e[m] = step[<<k, f[k - 1]>>] /\ e[m - 1] = f[m - 1]
      BY <3>1
    <3> QED
      BY <2>1, <3>2
  <2>2. CASE m # k
    <3>1. m \in 1 .. k - 1
      BY <1>3, <2>2
    <3>2. f[m] = step[<<m, f[m - 1]>>]
      BY <1>4, <3>1 DEF Loop
    <3>3. m \in 0 .. k /\ m - 1 \in 0 .. k /\ m < k /\ m - 1 < k
      BY <1>3, <3>1
    <3>4. e[m] = f[m] /\ e[m - 1] = f[m - 1]
      BY <3>3
    <3> QED
      BY <3>2, <3>4
  <2> QED
    BY <2>1, <2>2
<1> HIDE DEF e
<1>9. Loop(X, x, step, k, e)
  BY <1>7, <1>8 DEF Loop
<1> QED
  BY <1>1, <1>9

\* Loops that take the same steps agree.
LEMMA LoopsAgree ==
    ASSUME NEW X, NEW x, NEW step, NEW n \in Nat, NEW k \in Nat, n <= k,
           NEW f, Loop(X, x, step, n, f), NEW e, Loop(X, x, step, k, e)
    PROVE  f[n] = e[n]
<1> DEFINE T == {i \in 0 .. n : f[i] = e[i]}
<1>1. 0 \in T
  BY DEF Loop
<1>2. ASSUME NEW i \in 1 .. n, i - 1 \in T PROVE i \in T
  <2>1. i \in 1 .. k
    OBVIOUS
  <2>2. f[i] = step[<<i, f[i - 1]>>] /\ e[i] = step[<<i, e[i - 1]>>]
    BY <2>1 DEF Loop
  <2> QED
    BY <1>2, <2>2
<1>3. n \in T
  <2>1. n \in 0 .. n
    OBVIOUS
  <2> HIDE DEF T
  <2> QED
    BY <1>1, <1>2, <2>1, Induct
<1> QED
  BY <1>3

-----------------------------------------------------------------------------
(* Powers of two. *)

\* Doubling, as often as one likes.
LEMMA Doubling ==
    \E f \in [Nat -> Nat \ {0}] : f[0] = 1 /\ \A n \in Nat : f[n + 1] = 2 * f[n]
<1> DEFINE X == Nat \ {0}
<1>1. PICK step : step = [p \in Nat \X X |-> 2 * p[2]]
  OBVIOUS
<1>2. \A i \in Nat, y \in X : step[<<i, y>>] = 2 * y /\ 2 * y \in X
  BY <1>1
<1>3. \A n \in Nat : \E g : Loop(X, 1, step, n, g)
  <2> SUFFICES ASSUME NEW n \in Nat PROVE \E g : Loop(X, 1, step, n, g)
    OBVIOUS
  <2>1. PICK W : W = Nat
    OBVIOUS
  <2>2. step \in [W \X X -> X] /\ 1 .. n \subseteq W
    BY <1>1, <2>1
  <2>3. PICK x \in X : x = 1
    OBVIOUS
  <2> HIDE DEF X
  <2>4. \E g : Loop(X, x, step, n, g)
    BY <2>2, LoopExists
  <2> QED
    BY <2>3, <2>4
<1> DEFINE P(n) == CHOOSE g : Loop(X, 1, step, n, g)
           f == [n \in Nat |-> P(n)[n]]
<1>9. ASSUME NEW n \in Nat PROVE Loop(X, 1, step, n, P(n))
  BY <1>3, Zenon
<1> HIDE DEF P
<1>4. \A n \in Nat : P(n)[n] \in X /\ P(n)[0] = 1
  BY <1>9 DEF Loop
<1>5. ASSUME NEW n \in Nat PROVE f[n + 1] = 2 * f[n]
  <2>1. P(n)[n] = P(n + 1)[n]
    <3>1. n + 1 \in Nat /\ n <= n + 1
      OBVIOUS
    <3> QED
      BY <1>9, <3>1, LoopsAgree
  <2>2. n + 1 \in Nat /\ n + 1 \in 1 .. n + 1 /\ (n + 1) - 1 = n
    OBVIOUS
  <2>3. P(n + 1)[n + 1] = step[<<n + 1, P(n + 1)[n]>>]
    <3>1. Loop(X, 1, step, n + 1, P(n + 1))
      BY <1>9, <2>2
    <3> QED
      BY <2>2, <3>1 DEF Loop
  <2>4. step[<<n + 1, P(n)[n]>>] = 2 * P(n)[n]
    BY <1>2, <1>4, <2>2
  <2> QED
    BY <2>1, <2>2, <2>3, <2>4
<1>6. f \in [Nat -> X] /\ f[0] = 1
  BY <1>4
<1> QED
  BY <1>5, <1>6

\* Pow2 is what it is defined to be.
LEMMA PowSteps ==
    /\ Coding!Pow2 \in [Nat -> Nat \ {0}]
    /\ Coding!Pow2[0] = 1
    /\ \A n \in Nat : Coding!Pow2[n + 1] = 2 * Coding!Pow2[n]
<1> DEFINE Body(g) == [n \in Nat |-> IF n = 0 THEN 1 ELSE 2 * g[n - 1]]
<1>1. PICK f \in [Nat -> Nat \ {0}] : f[0] = 1 /\ \A n \in Nat : f[n + 1] = 2 * f[n]
  BY Doubling
<1>2. f = Body(f)
  <2>1. ASSUME NEW n \in Nat PROVE f[n] = IF n = 0 THEN 1 ELSE 2 * f[n - 1]
    <3>1. CASE n = 0
      BY <1>1, <3>1
    <3>2. CASE n # 0
      <4>1. n - 1 \in Nat /\ (n - 1) + 1 = n
        BY <3>2
      <4> QED
        BY <1>1, <3>2, <4>1
    <3> QED
      BY <3>1, <3>2
  <2> QED
    BY <2>1
<1>3. Coding!Pow2 = CHOOSE g : g = Body(g)
  BY DEF Coding!Pow2
<1>4. Coding!Pow2 = Body(Coding!Pow2)
  <2> HIDE DEF Body
  <2> QED
    BY <1>2, <1>3
<1>5. ASSUME NEW n \in Nat PROVE Coding!Pow2[n + 1] = 2 * Coding!Pow2[n]
  <2>1. n + 1 \in Nat /\ n + 1 # 0 /\ (n + 1) - 1 = n
    OBVIOUS
  <2> HIDE DEF Coding!Pow2
  <2> QED
    BY <1>4, <2>1
<1>6. Coding!Pow2[0] = 1
  BY <1>4
<1>7. PICK p : p = Coding!Pow2
  OBVIOUS
<1>8. ASSUME NEW n \in Nat PROVE p[n] = f[n]
  <2> DEFINE T == {i \in 0 .. n : p[i] = f[i]}
  <2>1. 0 \in T
    BY <1>1, <1>6, <1>7
  <2>2. ASSUME NEW i \in 1 .. n, i - 1 \in T
        PROVE  i \in T
    <3>1. i - 1 \in Nat /\ (i - 1) + 1 = i
      OBVIOUS
    <3>2. p[i] = 2 * p[i - 1] /\ f[i] = 2 * f[i - 1]
      BY <1>1, <1>5, <1>7, <3>1
    <3> QED
      BY <2>2, <3>2
  <2>3. n \in T
    <3>1. n \in 0 .. n
      OBVIOUS
    <3> HIDE DEF T
    <3> QED
      BY <2>1, <2>2, <3>1, Induct
  <2> QED
    BY <2>3
<1> QED
  BY <1>1, <1>4, <1>5, <1>6, <1>7, <1>8

-----------------------------------------------------------------------------
(* Quotients. *)

\* A number is its quotient times the divisor, and its remainder.
LEMMA DivMod ==
    ASSUME NEW x \in Nat, NEW b \in Nat, b > 0
    PROVE  /\ x \div b \in Nat
           /\ x % b \in 0 .. b - 1
           /\ x = (x \div b) * b + (x % b)
<1>1. x \div b \in Nat
  OBVIOUS
<1>2. x % b \in 0 .. b - 1
  OBVIOUS
<1>3. x = (x \div b) * b + (x % b)
  OBVIOUS
<1> QED
  BY <1>1, <1>2, <1>3

\* Multiples of b are b apart or more.
LEMMA TimesGrows ==
    ASSUME NEW y \in Nat, NEW z \in Nat, y < z, NEW b \in Nat
    PROVE  y * b + b <= z * b
<1>1. PICK t \in Nat : z = (y + 1) + t
  <2>1. z - (y + 1) \in Nat /\ z = (y + 1) + (z - (y + 1))
    OBVIOUS
  <2> QED
    BY <2>1
<1>2. z * b = (y * b + b) + t * b
  BY <1>1
<1>3. t * b \in Nat /\ y * b \in Nat
  OBVIOUS
<1> QED
  BY <1>2, <1>3

\* Quotient and remainder are the only ones.
LEMMA DivUnique ==
    ASSUME NEW x \in Nat, NEW b \in Nat, NEW q \in Nat, NEW r \in 0 .. b - 1,
           x = q * b + r
    PROVE  x \div b = q /\ x % b = r
<1> DEFINE h == x \div b
           l == x % b
<1>1. b > 0
  OBVIOUS
<1>2. h \in Nat /\ l \in 0 .. b - 1 /\ x = h * b + l
  BY <1>1, DivMod
<1> HIDE DEF h, l
<1>3. ASSUME NEW y \in Nat, NEW z \in Nat, y < z PROVE y * b + b <= z * b
  BY <1>3, TimesGrows
<1>4. h * b \in Nat /\ q * b \in Nat
  BY <1>2
<1>5. ~(h < q) /\ ~(q < h)
  BY <1>2, <1>3, <1>4
<1>6. h = q
  BY <1>2, <1>5
<1>7. l = r
  BY <1>2, <1>4, <1>6
<1> QED
  BY <1>6, <1>7 DEF h, l

\* Dividing twice is dividing by the product.
LEMMA DivDiv ==
    ASSUME NEW x \in Nat, NEW b \in Nat, b > 0, NEW c \in Nat, c > 0
    PROVE  (x \div b) \div c = x \div (c * b)
<1> DEFINE y == x \div b
           l == x % b
           h == y \div c
           m == y % c
<1>1. y \in Nat /\ l \in 0 .. b - 1 /\ x = y * b + l
  BY DivMod
<1>2. h \in Nat /\ m \in 0 .. c - 1 /\ y = h * c + m
  <2> HIDE DEF y
  <2> QED
    BY <1>1, DivMod
<1> HIDE DEF y, l, h, m
<1>3. PICK d \in Nat : d = c * b
  OBVIOUS
<1>4. PICK e \in Nat : e = m * b
  BY <1>2
<1>5. e + b <= d
  <2>1. m < c /\ m \in Nat
    BY <1>2
  <2> QED
    BY <1>3, <1>4, <2>1, TimesGrows
<1>6. x = h * d + (e + l)
  <2>1. PICK t \in Nat : t = h * c
    BY <1>2
  <2>2. y * b = t * b + m * b
    BY <1>2, <2>1
  <2>3. t * b = h * d
    BY <1>2, <1>3, <2>1
  <2> QED
    BY <1>1, <1>2, <1>3, <1>4, <2>2, <2>3
<1>7. e + l \in 0 .. d - 1
  BY <1>1, <1>5
<1>8. x \div d = h
  BY <1>2, <1>6, <1>7, DivUnique
<1> QED
  BY <1>3, <1>8 DEF y, h

\* Powers of two are positive numbers.
LEMMA PowType ==
    ASSUME NEW n \in Nat
    PROVE  Coding!Pow2[n] \in Nat /\ Coding!Pow2[n] > 0
  BY PowSteps

\* 2^(m + n) = 2^m * 2^n
LEMMA PowSum ==
    ASSUME NEW m \in Nat, NEW n \in Nat
    PROVE  Coding!Pow2[m + n] = Coding!Pow2[m] * Coding!Pow2[n]
<1> DEFINE T == {i \in 0 .. n : Coding!Pow2[m + i] = Coding!Pow2[m] * Coding!Pow2[i]}
<1>1. 0 \in T
  BY PowSteps
<1>2. ASSUME NEW i \in 1 .. n, i - 1 \in T PROVE i \in T
  <2>1. i - 1 \in Nat /\ (i - 1) + 1 = i /\ m + (i - 1) \in Nat /\ (m + (i - 1)) + 1 = m + i
    OBVIOUS
  <2>2. Coding!Pow2[m + i] = 2 * Coding!Pow2[m + (i - 1)] /\ Coding!Pow2[i] = 2 * Coding!Pow2[i - 1]
    BY <2>1, PowSteps
  <2>3. Coding!Pow2[m + (i - 1)] = Coding!Pow2[m] * Coding!Pow2[i - 1]
    BY <1>2
  <2>4. Coding!Pow2[m] \in Nat /\ Coding!Pow2[i - 1] \in Nat
    BY <2>1, PowType
  <2>5. 2 * (Coding!Pow2[m] * Coding!Pow2[i - 1]) = Coding!Pow2[m] * (2 * Coding!Pow2[i - 1])
    BY <2>4
  <2> QED
    BY <2>2, <2>3, <2>5
<1>3. n \in T
  <2>1. n \in 0 .. n
    OBVIOUS
  <2> HIDE DEF T
  <2> QED
    BY <1>1, <1>2, <2>1, Induct
<1> QED
  BY <1>3

\* Powers grow with the exponent.
LEMMA PowGrows ==
    ASSUME NEW m \in Nat, NEW n \in Nat, m < n
    PROVE  2 * Coding!Pow2[m] <= Coding!Pow2[n]
<1>1. n - m \in Nat /\ n - (m + 1) \in Nat /\ (m + 1) + (n - (m + 1)) = n
  OBVIOUS
<1>2. Coding!Pow2[n] = Coding!Pow2[m + 1] * Coding!Pow2[n - (m + 1)]
  BY <1>1, PowSum
<1>3. Coding!Pow2[m + 1] = 2 * Coding!Pow2[m] /\ Coding!Pow2[m] \in Nat /\ Coding!Pow2[m + 1] \in Nat
  BY PowSteps
<1>4. PICK d \in Nat : d = Coding!Pow2[n - (m + 1)] /\ d > 0
  BY <1>1, PowType
<1>5. PICK p \in Nat : p = Coding!Pow2[m + 1]
  BY <1>3
<1>6. p <= p * d
  BY <1>4
<1> QED
  BY <1>2, <1>3, <1>4, <1>5, <1>6

\* A higher power of two is not smaller.
LEMMA PowMonotone ==
    ASSUME NEW m \in Nat, NEW n \in Nat, m <= n
    PROVE  Coding!Pow2[m] <= Coding!Pow2[n]
  BY PowGrows, PowType

-----------------------------------------------------------------------------
(* Strings of bits. *)

Bit == {0, 1}

\* One string after the other.
Cat(s, t) == s \o t

\* The parts of a code joined are bits, as many as in both.
LEMMA CatType ==
    ASSUME NEW s \in Seq(Bit), NEW t \in Seq(Bit)
    PROVE  Cat(s, t) \in Seq(Bit) /\ Len(Cat(s, t)) = Len(s) + Len(t)
  BY DEF Cat

\* The bits of joined parts are those of the first, then of the second.
LEMMA CatBits ==
    ASSUME NEW s \in Seq(Bit), NEW t \in Seq(Bit)
    PROVE  /\ \A i \in 1 .. Len(s) : Cat(s, t)[i] = s[i]
           /\ \A i \in 1 .. Len(t) : Cat(s, t)[Len(s) + i] = t[i]
  BY DEF Cat

\* Joined with no bits, a string of bits stays as it is.
LEMMA CatEmpty ==
    ASSUME NEW s \in Seq(Bit)
    PROVE  Cat(s, << >>) = s /\ Cat(<< >>, s) = s
  BY DEF Cat

\* Three parts may be joined from the left or from the right.
LEMMA CatCat ==
    ASSUME NEW s \in Seq(Bit), NEW t \in Seq(Bit), NEW u \in Seq(Bit)
    PROVE  Cat(Cat(s, t), u) = Cat(s, Cat(t, u))
  BY DEF Cat

\* Strings of one length with the same bits.
LEMMA SameBits ==
    ASSUME NEW s \in Seq(Bit), NEW t \in Seq(Bit), Len(s) = Len(t),
           \A i \in 1 .. Len(s) : s[i] = t[i]
    PROVE  s = t
  OBVIOUS

\* B(v, n) is n bits.
LEMMA BType ==
    ASSUME NEW v \in Nat, NEW n \in Nat
    PROVE  Coding!B(v, n) \in Seq(Bit) /\ Len(Coding!B(v, n)) = n
<1>1. ASSUME NEW i \in 1 .. n PROVE (v \div Coding!Pow2[n - i]) % 2 \in Bit
  <2>1. n - i \in Nat
    OBVIOUS
  <2>2. Coding!Pow2[n - i] \in Nat /\ Coding!Pow2[n - i] > 0
    BY <2>1, PowType
  <2>3. PICK x \in Nat : x = v \div Coding!Pow2[n - i]
    BY <2>2, DivMod
  <2> QED
    BY <2>3 DEF Bit
<1> QED
  BY <1>1 DEF Coding!B

\* The upper and the lower digits of a number.
LEMMA BSplit ==
    ASSUME NEW v \in Nat, NEW m \in Nat, NEW n \in Nat
    PROVE  Coding!B(v, m + n) = Cat(Coding!B(v \div Coding!Pow2[n], m), Coding!B(v, n))
<1>1. PICK h \in Nat : h = v \div Coding!Pow2[n] /\ Coding!Pow2[n] \in Nat /\ Coding!Pow2[n] > 0
  BY PowType, DivMod
<1>2. PICK d, e, f : d = Coding!B(v, m + n) /\ e = Coding!B(h, m) /\ f = Coding!B(v, n)
  OBVIOUS
<1>3. d \in Seq(Bit) /\ Len(d) = m + n
  <2>1. m + n \in Nat
    OBVIOUS
  <2> QED
    BY <1>2, <2>1, BType
<1>4. e \in Seq(Bit) /\ Len(e) = m /\ f \in Seq(Bit) /\ Len(f) = n
  BY <1>2, BType
<1>5. ASSUME NEW i \in 1 .. m PROVE d[i] = e[i]
  <2>1. m - i \in Nat /\ (m - i) + n = (m + n) - i /\ i \in 1 .. m + n
    OBVIOUS
  <2>2. Coding!Pow2[(m + n) - i] = Coding!Pow2[m - i] * Coding!Pow2[n] /\ Coding!Pow2[m - i] \in Nat /\ Coding!Pow2[m - i] > 0
    BY <2>1, PowSum, PowType
  <2>3. h \div Coding!Pow2[m - i] = v \div Coding!Pow2[(m + n) - i]
    BY <1>1, <2>2, DivDiv
  <2>4. d[i] = (v \div Coding!Pow2[(m + n) - i]) % 2 /\ e[i] = (h \div Coding!Pow2[m - i]) % 2
    BY <1>2, <2>1 DEF Coding!B
  <2> QED
    BY <2>3, <2>4
<1>6. ASSUME NEW i \in 1 .. n PROVE d[m + i] = f[i]
  <2>1. m + i \in 1 .. m + n /\ (m + n) - (m + i) = n - i
    OBVIOUS
  <2> QED
    BY <1>2, <2>1 DEF Coding!B
<1>7. Cat(e, f) \in Seq(Bit) /\ Len(Cat(e, f)) = m + n
  BY <1>4, CatType
<1>8. ASSUME NEW i \in 1 .. m + n PROVE d[i] = Cat(e, f)[i]
  <2>1. CASE i \in 1 .. m
    BY <1>4, <1>5, <2>1, CatBits
  <2>2. CASE i \notin 1 .. m
    <3>1. PICK j \in 1 .. n : i = m + j
      <4>1. i - m \in 1 .. n /\ i = m + (i - m)
        BY <2>2
      <4> QED
        BY <4>1
    <3> QED
      BY <1>4, <1>6, <3>1, CatBits
  <2> QED
    BY <2>1, <2>2
<1>9. d = Cat(e, f)
  BY <1>3, <1>7, <1>8, SameBits
<1> QED
  BY <1>1, <1>2, <1>9

\* What is above the lower digits does not show in them.
LEMMA BAdd ==
    ASSUME NEW p \in Nat, NEW v \in Nat, NEW n \in Nat
    PROVE  Coding!B(p * Coding!Pow2[n] + v, n) = Coding!B(v, n)
<1>1. ASSUME NEW i \in 1 .. n
      PROVE  ((p * Coding!Pow2[n] + v) \div Coding!Pow2[n - i]) % 2 = (v \div Coding!Pow2[n - i]) % 2
  <2>1. n - i \in Nat /\ i - 1 \in Nat /\ (i - 1) + 1 = i /\ i + (n - i) = n
    OBVIOUS
  <2>2. PICK b \in Nat : b = Coding!Pow2[n - i] /\ b > 0
    BY <2>1, PowType
  <2>3. PICK e \in Nat : e = Coding!Pow2[i - 1]
    BY <2>1, PowType
  <2>4. Coding!Pow2[n] = (2 * e) * b
    <3>1. Coding!Pow2[i + (n - i)] = Coding!Pow2[i] * Coding!Pow2[n - i]
      BY <2>1, PowSum
    <3>2. Coding!Pow2[(i - 1) + 1] = 2 * Coding!Pow2[i - 1]
      BY <2>1, PowSteps
    <3> QED
      BY <2>1, <2>2, <2>3, <3>1, <3>2
  <2>5. PICK h \in Nat, l \in 0 .. b - 1 : h = v \div b /\ v = h * b + l
    <3>1. v \div b \in Nat /\ v % b \in 0 .. b - 1 /\ v = (v \div b) * b + (v % b)
      BY <2>2, DivMod
    <3> QED
      BY <3>1
  <2>6. PICK t \in Nat : t = p * e
    BY <2>3
  <2>7. p * ((2 * e) * b) = (2 * t) * b
    BY <2>2, <2>3, <2>6
  <2>8. (2 * t) * b + h * b = (2 * t + h) * b
    BY <2>5, <2>6, <2>2
  <2>9. p * Coding!Pow2[n] + v = (2 * t + h) * b + l
    <3>1. PICK y \in Nat, z \in Nat : y = h * b /\ z = (2 * t) * b
      BY <2>2, <2>5, <2>6
    <3>2. p * Coding!Pow2[n] = z
      BY <2>4, <2>7, <3>1
    <3> QED
      BY <2>5, <2>8, <3>1, <3>2
  <2>10. PICK x \in Nat : x = p * Coding!Pow2[n] + v
    BY PowType
  <2>11. x \div b = 2 * t + h
    <3>1. PICK q \in Nat : q = 2 * t + h
      BY <2>5, <2>6
    <3>2. x = q * b + l
      BY <2>9, <2>10, <3>1
    <3>3. l \in 0 .. b - 1
      BY <2>5
    <3>4. x \div b = q
      BY <3>2, <3>3, DivUnique
    <3> QED
      BY <3>1, <3>4
  <2>12. (2 * t + h) % 2 = h % 2
    BY <2>5, <2>6
  <2> QED
    BY <2>2, <2>5, <2>10, <2>11, <2>12
<1> QED
  BY <1>1 DEF Coding!B

\* The low bits of a number: all but the last, then the last.
LEMMA ModStep ==
    ASSUME NEW y \in Nat, NEW p \in Nat, p > 0
    PROVE  y % (2 * p) = 2 * ((y \div 2) % p) + (y % 2)
<1>1. PICK x \in Nat, l \in 0 .. 1 : x = y \div 2 /\ l = y % 2 /\ y = 2 * x + l
  OBVIOUS
<1>2. PICK h \in Nat, m \in 0 .. p - 1 : h = x \div p /\ m = x % p /\ x = h * p + m
  BY <1>1, DivMod
<1>3. PICK q \in Nat : q = 2 * p
  OBVIOUS
<1>4. 2 * (h * p) = h * q
  BY <1>2, <1>3
<1>5. PICK t \in Nat : t = h * p
  BY <1>2
<1>6. y = h * q + (2 * m + l) /\ 2 * m + l \in 0 .. q - 1
  BY <1>1, <1>2, <1>3, <1>4, <1>5
<1>7. y % q = 2 * m + l
  BY <1>2, <1>3, <1>6, DivUnique
<1> QED
  BY <1>1, <1>2, <1>3, <1>7

\* Num counts up.
LEMMA NumSteps ==
    ASSUME NEW s \in Seq(Nat)
    PROVE  \E f \in [0 .. Len(s) -> Nat] :
              /\ f[0] = 0
              /\ \A i \in 1 .. Len(s) : f[i] = 2 * f[i - 1] + s[i]
              /\ Coding!Num(s) = f[Len(s)]
<1>1. PICK n \in Nat : n = Len(s)
  OBVIOUS
<1> DEFINE Body(g) == [i \in 0 .. n |-> IF i = 0 THEN 0 ELSE 2 * g[i - 1] + s[i]]
<1>2. PICK step : step = [p \in (1 .. n) \X Nat |-> 2 * p[2] + s[p[1]]]
  OBVIOUS
<1>3. PICK W : W = 1 .. n
  OBVIOUS
<1>4. step \in [W \X Nat -> Nat] /\ \A i \in 1 .. n, y \in Nat : step[<<i, y>>] = 2 * y + s[i]
  BY <1>1, <1>2, <1>3
<1>5. PICK f : Loop(Nat, 0, step, n, f)
  <2>1. PICK z \in Nat : z = 0
    OBVIOUS
  <2>2. \E f : Loop(Nat, z, step, n, f)
    BY <1>3, <1>4, LoopExists
  <2> QED
    BY <2>1, <2>2
<1>6. f \in [0 .. n -> Nat] /\ f[0] = 0 /\ \A i \in 1 .. n : f[i] = 2 * f[i - 1] + s[i]
  <2>1. f \in [0 .. n -> Nat] /\ f[0] = 0
    BY <1>5 DEF Loop
  <2>2. ASSUME NEW i \in 1 .. n PROVE f[i] = 2 * f[i - 1] + s[i]
    <3>1. f[i - 1] \in Nat /\ f[i] = step[<<i, f[i - 1]>>]
      BY <1>5, <2>1 DEF Loop
    <3> QED
      BY <1>4, <3>1
  <2> QED
    BY <2>1, <2>2
<1>7. f = Body(f)
  <2>1. \A i \in 0 .. n : f[i] = IF i = 0 THEN 0 ELSE 2 * f[i - 1] + s[i]
    BY <1>6
  <2> QED
    BY <1>6, <2>1
<1>8. PICK num : num = CHOOSE g : g = Body(g)
  OBVIOUS
<1>9. Coding!Num(s) = num[n]
  BY <1>1, <1>8 DEF Coding!Num
<1>10. num = Body(num)
  <2> HIDE DEF Body
  <2> QED
    BY <1>7, <1>8
<1>11. num[n] = f[n]
  <2> DEFINE T == {i \in 0 .. n : num[i] = f[i]}
  <2>1. 0 \in T
    BY <1>6, <1>10
  <2>2. ASSUME NEW i \in 1 .. n, i - 1 \in T PROVE i \in T
    <3>1. i \in 0 .. n /\ i # 0
      OBVIOUS
    <3>2. num[i] = 2 * num[i - 1] + s[i]
      BY <1>10, <3>1
    <3> QED
      BY <1>6, <2>2, <3>1, <3>2
  <2>3. n \in T
    <3>1. n \in 0 .. n
      OBVIOUS
    <3> HIDE DEF T
    <3> QED
      BY <2>1, <2>2, <3>1, Induct
  <2> QED
    BY <2>3
<1> QED
  BY <1>1, <1>6, <1>9, <1>11

\* A number of n binary digits is below 2^n.
LEMMA NumType ==
    ASSUME NEW s \in Seq(Bit)
    PROVE  Coding!Num(s) \in 0 .. Coding!Pow2[Len(s)] - 1
<1>1. s \in Seq(Nat)
  BY DEF Bit
<1>2. PICK n \in Nat : n = Len(s)
  OBVIOUS
<1>3. PICK f \in [0 .. n -> Nat] :
         /\ f[0] = 0
         /\ \A i \in 1 .. n : f[i] = 2 * f[i - 1] + s[i]
         /\ Coding!Num(s) = f[n]
  BY <1>1, <1>2, NumSteps
<1> DEFINE T == {i \in 0 .. n : f[i] <= Coding!Pow2[i] - 1}
<1>4. 0 \in T
  BY <1>3, PowSteps
<1>5. ASSUME NEW i \in 1 .. n, i - 1 \in T PROVE i \in T
  <2>1. i - 1 \in Nat /\ (i - 1) + 1 = i
    OBVIOUS
  <2>2. Coding!Pow2[i] = 2 * Coding!Pow2[i - 1] /\ Coding!Pow2[i - 1] \in Nat
    BY <2>1, PowSteps
  <2>3. s[i] \in 0 .. 1
    BY <1>2 DEF Bit
  <2>4. f[i] = 2 * f[i - 1] + s[i] /\ f[i - 1] \in Nat /\ f[i - 1] <= Coding!Pow2[i - 1] - 1
    BY <1>3, <1>5
  <2>5. f[i] <= Coding!Pow2[i] - 1
    <3>1. PICK x \in Nat, p \in Nat, l \in 0 .. 1 : x = f[i - 1] /\ p = Coding!Pow2[i - 1] /\ l = s[i]
      BY <2>2, <2>3, <2>4
    <3>2. f[i] = 2 * x + l /\ Coding!Pow2[i] = 2 * p /\ x <= p - 1
      BY <2>2, <2>4, <3>1
    <3> QED
      BY <3>2
  <2> QED
    BY <2>5
<1>6. n \in T
  <2>1. n \in 0 .. n
    OBVIOUS
  <2> HIDE DEF T
  <2> QED
    BY <1>4, <1>5, <2>1, Induct
<1>7. f[n] \in Nat /\ Coding!Pow2[n] \in Nat
  BY PowType
<1> QED
  BY <1>2, <1>3, <1>6, <1>7

\* The digits of a number stand for its remainder.
LEMMA NumB ==
    ASSUME NEW v \in Nat, NEW n \in Nat
    PROVE  Coding!Num(Coding!B(v, n)) = v % Coding!Pow2[n]
<1>1. PICK s : s = Coding!B(v, n)
  OBVIOUS
<1>2. s \in Seq(Nat) /\ Len(s) = n
  <2>1. s \in Seq(Bit) /\ Len(s) = n
    BY <1>1, BType
  <2> QED
    BY <2>1 DEF Bit
<1>3. PICK f \in [0 .. n -> Nat] :
         /\ f[0] = 0
         /\ \A i \in 1 .. n : f[i] = 2 * f[i - 1] + s[i]
         /\ Coding!Num(s) = f[n]
  BY <1>2, NumSteps
<1> DEFINE T == {i \in 0 .. n : f[i] = (v \div Coding!Pow2[n - i]) % Coding!Pow2[i]}
<1>4. 0 \in T
  <2>1. Coding!Pow2[n - 0] \in Nat /\ Coding!Pow2[n - 0] > 0
    BY PowType
  <2>2. PICK x \in Nat : x = v \div Coding!Pow2[n - 0]
    BY <2>1, DivMod
  <2> QED
    BY <1>3, <2>2, PowSteps
<1>5. ASSUME NEW i \in 1 .. n, i - 1 \in T PROVE i \in T
  <2>1. i - 1 \in Nat /\ (i - 1) + 1 = i /\ n - i \in Nat /\ (n - i) + 1 = n - (i - 1)
    OBVIOUS
  <2>2. PICK b \in Nat : b = Coding!Pow2[n - i] /\ b > 0
    BY <2>1, PowType
  <2>3. PICK p \in Nat : p = Coding!Pow2[i - 1] /\ p > 0
    BY <2>1, PowType
  <2>4. Coding!Pow2[i] = 2 * p /\ Coding!Pow2[n - (i - 1)] = 2 * b
    BY <2>1, <2>2, <2>3, PowSteps
  <2>5. PICK y \in Nat : y = v \div b
    BY <2>2, DivMod
  <2>6. v \div (2 * b) = y \div 2
    <3>1. PICK c \in Nat : c = 2
      OBVIOUS
    <3>2. c > 0
      BY <3>1
    <3>3. (v \div b) \div c = v \div (c * b)
      BY <2>2, <3>2, DivDiv, ZenonT(40)
    <3> QED
      BY <2>5, <3>1, <3>3
  <2>7. s[i] = y % 2
    BY <1>1, <2>2, <2>5 DEF Coding!B
  <2>8. f[i - 1] = (y \div 2) % p
    BY <1>5, <2>3, <2>4, <2>6
  <2>9. f[i] = y % (2 * p)
    <3>1. y % (2 * p) = 2 * ((y \div 2) % p) + (y % 2)
      BY <2>3, <2>5, ModStep
    <3> QED
      BY <1>3, <2>7, <2>8, <3>1
  <2> QED
    BY <2>2, <2>4, <2>5, <2>9
<1>6. n \in T
  <2>1. n \in 0 .. n
    OBVIOUS
  <2> HIDE DEF T
  <2> QED
    BY <1>4, <1>5, <2>1, Induct
<1>7. v \div Coding!Pow2[n - n] = v
  BY PowSteps
<1> QED
  BY <1>1, <1>3, <1>6, <1>7

-----------------------------------------------------------------------------
(* Words and residuals. *)

\* A word has two halves of LIMB bits, and int64_t half of its values on
\* either side of 0.
LEMMA WordSizes ==
    /\ LIMB \in Nat /\ LIMB \in 8 .. 32
    /\ Coding!HALF \in Nat /\ Coding!HALF > 0
    /\ Coding!U64 = 2 * Coding!HALF /\ Coding!U64 = Coding!Pow2[LIMB + LIMB]
    /\ Coding!HALF = Coding!Pow2[2 * LIMB - 1]
<1>1. LIMB \in 8 .. 32 /\ WORD48 \in Nat /\ Coding!U64 = Coding!Pow2[2 * LIMB]
  BY CodeGiven DEF Coding!CodeAssumption
<1>2. Coding!U64 = 2 * Coding!HALF /\ Coding!HALF \in Nat
  BY <1>1 DEF Coding!U64, Coding!HALF
<1>3. 2 * LIMB - 1 \in Nat /\ (2 * LIMB - 1) + 1 = 2 * LIMB /\ 2 * LIMB = LIMB + LIMB
  BY <1>1
<1>4. Coding!Pow2[2 * LIMB] = 2 * Coding!Pow2[2 * LIMB - 1] /\ Coding!Pow2[2 * LIMB - 1] \in Nat /\ Coding!Pow2[2 * LIMB - 1] > 0
  BY <1>3, PowSteps, PowType
<1>5. PICK h \in Nat, p \in Nat : h = Coding!HALF /\ p = Coding!Pow2[2 * LIMB - 1]
  BY <1>2, <1>4
<1>6. 2 * h = 2 * p /\ p > 0
  BY <1>1, <1>2, <1>4, <1>5
<1>7. h = p
  BY <1>6
<1>8. Coding!U64 = Coding!Pow2[LIMB + LIMB]
  BY <1>1, <1>3
<1>9. Coding!HALF > 0
  BY <1>5, <1>6, <1>7
<1>10. LIMB \in Nat
  BY <1>1
<1> QED
  BY <1>1, <1>2, <1>5, <1>7, <1>8, <1>9, <1>10

\* residc_zigzag_dec undoes residc_zigzag_enc.
LEMMA ZigZags ==
    ASSUME NEW v \in Coding!Int64
    PROVE  /\ Coding!ZigZag(v) \in 0 .. Coding!U64 - 1
           /\ Coding!UnZigZag(Coding!ZigZag(v)) = v
           /\ Coding!Word(v) \in 0 .. Coding!U64 - 1
           /\ Coding!Value(Coding!Word(v)) = v
<1>1. PICK h \in Nat : h = Coding!HALF /\ h > 0 /\ Coding!U64 = 2 * h
  BY WordSizes
<1>2. v \in Int /\ -h <= v /\ v <= h - 1
  BY <1>1 DEF Coding!Int64
<1>3. CASE v >= 0
  <2>1. Coding!ZigZag(v) = 2 * v
    BY <1>3 DEF Coding!ZigZag
  <2>2. Coding!Word(v) = v
    BY <1>2, <1>3 DEF Coding!Word
  <2>3. (2 * v) % 2 = 0 /\ (2 * v) \div 2 = v
    BY <1>2, <1>3
  <2>4. Coding!UnZigZag(2 * v) = v
    BY <2>3 DEF Coding!UnZigZag
  <2>5. Coding!Value(v) = v
    BY <1>1, <1>2 DEF Coding!Value
  <2> QED
    BY <1>1, <1>2, <1>3, <2>1, <2>2, <2>4, <2>5
<1>4. CASE v < 0
  <2>1. Coding!ZigZag(v) = -2 * v - 1
    BY <1>2, <1>4 DEF Coding!ZigZag
  <2>2. Coding!Word(v) = v + 2 * h
    BY <1>1, <1>4 DEF Coding!Word
  <2>3. PICK z \in Nat : z = -2 * v - 1 /\ z = 2 * (-v - 1) + 1
    BY <1>2, <1>4
  <2>4. z % 2 = 1 /\ z \div 2 = -v - 1
    BY <1>2, <1>4, <2>3
  <2>5. Coding!UnZigZag(z) = v
    BY <1>2, <2>4 DEF Coding!UnZigZag
  <2>6. Coding!Value(v + 2 * h) = v
    BY <1>1, <1>2, <1>4 DEF Coding!Value
  <2> QED
    BY <1>1, <1>2, <1>4, <2>1, <2>2, <2>3, <2>5, <2>6
<1> QED
  BY <1>2, <1>3, <1>4

\* Both ways to take a word for a residual give an int64_t.
LEMMA ValueType ==
    ASSUME NEW u \in 0 .. Coding!U64 - 1
    PROVE  Coding!Value(u) \in Coding!Int64 /\ Coding!UnZigZag(u) \in Coding!Int64
<1>1. PICK h \in Nat : h = Coding!HALF /\ h > 0 /\ Coding!U64 = 2 * h
  BY WordSizes
<1>2. u \in Nat /\ u <= 2 * h - 1
  BY <1>1
<1>3. Coding!Value(u) \in -h .. h - 1
  BY <1>1, <1>2 DEF Coding!Value
<1>4. PICK x \in Nat, l \in 0 .. 1 : x = u \div 2 /\ l = u % 2 /\ u = 2 * x + l
  BY <1>2
<1>5. Coding!UnZigZag(u) \in -h .. h - 1
  BY <1>2, <1>4 DEF Coding!UnZigZag
<1> QED
  BY <1>1, <1>3, <1>5 DEF Coding!Int64

\* Log2 is the place of the highest digit.
LEMMA Log2Is ==
    ASSUME NEW n \in Nat, NEW e \in 0 .. 64, Coding!Pow2[e] <= n, n < 2 * Coding!Pow2[e]
    PROVE  Coding!Log2(n) = e
<1>1. e \in Nat /\ Coding!Pow2[e] \in Nat /\ Coding!Pow2[e] > 0
  BY PowType
<1>2. n \div Coding!Pow2[e] = 1
  <2>1. PICK b \in Nat : b = Coding!Pow2[e] /\ b > 0
    BY <1>1
  <2>2. PICK r \in 0 .. b - 1 : n = 1 * b + r
    <3>1. n - b \in 0 .. b - 1 /\ n = 1 * b + (n - b)
      BY <2>1
    <3> QED
      BY <3>1
  <2>3. PICK q \in Nat : q = 1
    OBVIOUS
  <2>4. n = q * b + r
    BY <2>2, <2>3
  <2>5. n \div b = q
    BY <2>4, DivUnique
  <2> QED
    BY <2>1, <2>3, <2>5
<1>3. ASSUME NEW d \in 0 .. 64, n \div Coding!Pow2[d] = 1 PROVE d = e
  <2>1. PICK b \in Nat : b = Coding!Pow2[d] /\ b > 0
    BY PowType
  <2>2. n = 1 * b + (n % b) /\ n % b \in 0 .. b - 1
    BY <1>3, <2>1, DivMod
  <2>3. b <= n /\ n < 2 * b
    BY <2>1, <2>2
  <2>4. ~(d < e)
    <3>1. d < e => 2 * Coding!Pow2[d] <= Coding!Pow2[e]
      BY <1>1, PowGrows
    <3> QED
      BY <1>1, <2>1, <2>3, <3>1
  <2>5. ~(e < d)
    <3>1. e < d => 2 * Coding!Pow2[e] <= Coding!Pow2[d]
      BY <1>1, PowGrows
    <3> QED
      BY <1>1, <2>1, <2>3, <3>1
  <2> QED
    BY <2>4, <2>5
<1> QED
  BY <1>2, <1>3 DEF Coding!Log2

\* Log2 finds the highest bit of a word that is not 0.
LEMMA Log2Exists ==
    ASSUME NEW n \in 1 .. Coding!U64 - 1
    PROVE  /\ Coding!Log2(n) \in 0 .. 2 * LIMB - 1
           /\ Coding!Pow2[Coding!Log2(n)] <= n
           /\ n < 2 * Coding!Pow2[Coding!Log2(n)]
<1>1. PICK m \in Nat : m = 2 * LIMB /\ m = LIMB + LIMB /\ m <= 64
  BY WordSizes
<1>2. n \in Nat /\ n >= 1 /\ n < Coding!Pow2[m]
  BY <1>1, WordSizes
<1> DEFINE T == {i \in Nat : n < Coding!Pow2[i]}
<1>3. PICK e \in T : \A i \in T : e <= i
  <2>1. T \subseteq Nat /\ T # {}
    BY <1>2
  <2> HIDE DEF T
  <2> QED
    BY <2>1, LeastNatural
<1>4. e <= m
  BY <1>2, <1>3
<1>5. e # 0
  BY <1>2, <1>3, PowSteps
<1>6. e - 1 \in Nat /\ (e - 1) + 1 = e /\ ~(e <= e - 1)
  BY <1>3, <1>5
<1>7. e - 1 \notin T
  BY <1>3, <1>6
<1>8. Coding!Pow2[e] = 2 * Coding!Pow2[e - 1] /\ Coding!Pow2[e - 1] \in Nat
  BY <1>6, PowSteps, PowType
<1>9. Coding!Pow2[e - 1] <= n /\ n < 2 * Coding!Pow2[e - 1]
  BY <1>2, <1>3, <1>6, <1>7, <1>8
<1>10. Coding!Log2(n) = e - 1
  <2>1. PICK d \in 0 .. 64 : d = e - 1
    BY <1>1, <1>4, <1>6
  <2> QED
    BY <1>2, <1>9, <2>1, Log2Is
<1> QED
  BY <1>1, <1>4, <1>6, <1>9, <1>10

-----------------------------------------------------------------------------
(* What the coders write. *)

\* Ones(n) is n bits, each of them set.
LEMMA OnesType ==
    ASSUME NEW n \in Nat
    PROVE  /\ Coding!Ones(n) \in Seq(Bit) /\ Len(Coding!Ones(n)) = n
           /\ \A i \in 1 .. n : Coding!Ones(n)[i] = 1
  BY DEF Coding!Ones, Bit

\* An escaped value is a word of bits.
LEMMA RawType ==
    ASSUME NEW u \in 0 .. Coding!U64 - 1
    PROVE  Coding!RawWord(u) \in Seq(Bit) /\ Len(Coding!RawWord(u)) = 2 * LIMB
<1>1. LIMB \in Nat /\ Coding!Pow2[LIMB] \in Nat /\ Coding!Pow2[LIMB] > 0
  BY WordSizes, PowType
<1>2. u \in Nat
  BY WordSizes
<1>3. PICK h \in Nat : h = u \div Coding!Pow2[LIMB]
  BY <1>1, <1>2, DivMod
<1>4. Coding!B(h, LIMB) \in Seq(Bit) /\ Len(Coding!B(h, LIMB)) = LIMB
  BY <1>1, BType
<1>5. Coding!B(u, LIMB) \in Seq(Bit) /\ Len(Coding!B(u, LIMB)) = LIMB
  BY <1>1, <1>2, BType
<1> QED
  BY <1>1, <1>3, <1>4, <1>5 DEF Coding!RawWord

\* Digits above the lower ones: they come first.
LEMMA Prefixed ==
    ASSUME NEW p \in Nat, NEW z \in Nat, NEW m \in Nat, NEW n \in Nat, z < Coding!Pow2[n],
           NEW x \in Nat, x = p * Coding!Pow2[n] + z, NEW w \in Nat, w = m + n
    PROVE  Coding!B(x, w) = Cat(Coding!B(p, m), Coding!B(z, n))
<1>1. PICK b \in Nat : b = Coding!Pow2[n] /\ b > 0
  BY PowType
<1>2. x \in Nat /\ x = p * b + z
  BY <1>1
<1>3. z \in 0 .. b - 1
  BY <1>1
<1>4. x \div b = p
  BY <1>2, <1>3, DivUnique
<1>5. Coding!B(x, m + n) = Cat(Coding!B(x \div b, m), Coding!B(x, n))
  BY <1>1, <1>2, BSplit, ZenonT(40)
<1>6. Coding!B(x, n) = Coding!B(z, n)
  BY <1>1, <1>2, BAdd
<1> QED
  BY <1>4, <1>5, <1>6

\* The powers of two the prefixes are made of.
LEMMA SmallPowers ==
    Coding!Pow2[0] = 1 /\ Coding!Pow2[1] = 2 /\ Coding!Pow2[2] = 4 /\ Coding!Pow2[3] = 8 /\ Coding!Pow2[4] = 16
<1>1. Coding!Pow2[0] = 1 /\ Coding!Pow2[0 + 1] = 2 * Coding!Pow2[0] /\ Coding!Pow2[1 + 1] = 2 * Coding!Pow2[1]
      /\ Coding!Pow2[2 + 1] = 2 * Coding!Pow2[2] /\ Coding!Pow2[3 + 1] = 2 * Coding!Pow2[3]
  BY PowSteps
<1> QED
  BY <1>1

\* A unary number: q bits that are set, and one that is not.
LEMMA UnaryType ==
    ASSUME NEW q \in Nat
    PROVE  /\ Cat(Coding!Ones(q), << 0 >>) \in Seq(Bit) /\ Len(Cat(Coding!Ones(q), << 0 >>)) = q + 1
           /\ \A i \in 1 .. q : Cat(Coding!Ones(q), << 0 >>)[i] = 1
           /\ Cat(Coding!Ones(q), << 0 >>)[q + 1] = 0
<1>1. PICK s \in Seq(Bit) : s = Coding!Ones(q) /\ Len(s) = q /\ \A i \in 1 .. q : s[i] = 1
  BY OnesType
<1>2. PICK z \in Seq(Bit) : z = << 0 >> /\ Len(z) = 1 /\ z[1] = 0
  <2>1. << 0 >> \in Seq(Bit) /\ Len(<< 0 >>) = 1 /\ << 0 >>[1] = 0
    BY DEF Bit
  <2> QED
    BY <2>1
<1>3. Cat(s, z) \in Seq(Bit) /\ Len(Cat(s, z)) = q + 1
  BY <1>1, <1>2, CatType, ZenonT(40)
<1>4. \A i \in 1 .. q : Cat(s, z)[i] = s[i]
  BY <1>1, CatBits
<1>5. Cat(s, z)[q + 1] = z[1]
  <2>1. \A i \in 1 .. Len(z) : Cat(s, z)[Len(s) + i] = z[i]
    BY CatBits
  <2>2. 1 \in 1 .. Len(z)
    BY <1>2
  <2> QED
    BY <1>1, <2>1, <2>2
<1> QED
  BY <1>1, <1>2, <1>3, <1>4, <1>5

\* The prefixes encode_residual writes are unary numbers; the last one, which
\* nothing longer follows, has no zero.
LEMMA PrefixBits ==
    /\ Coding!B(0, 1) = Cat(Coding!Ones(0), << 0 >>)
    /\ Coding!B(2, 2) = Cat(Coding!Ones(1), << 0 >>)
    /\ Coding!B(6, 3) = Cat(Coding!Ones(2), << 0 >>)
    /\ Coding!B(14, 4) = Cat(Coding!Ones(3), << 0 >>)
    /\ Coding!B(15, 4) = Coding!Ones(4)
<1>1. ASSUME NEW q \in 0 .. 3, NEW p \in Nat, \A i \in 1 .. q : Coding!B(p, q + 1)[i] = 1, Coding!B(p, q + 1)[q + 1] = 0
      PROVE  Coding!B(p, q + 1) = Cat(Coding!Ones(q), << 0 >>)
  <2>1. PICK s \in Seq(Bit) : s = Coding!B(p, q + 1) /\ Len(s) = q + 1
    <3>1. q + 1 \in Nat
      OBVIOUS
    <3> QED
      BY <3>1, BType
  <2>2. PICK e \in Seq(Bit) : e = Cat(Coding!Ones(q), << 0 >>) /\ Len(e) = q + 1
                              /\ (\A i \in 1 .. q : e[i] = 1) /\ e[q + 1] = 0
    <3>1. q \in Nat
      OBVIOUS
    <3>2. PICK e : e = Cat(Coding!Ones(q), << 0 >>)
      OBVIOUS
    <3>3. e \in Seq(Bit) /\ Len(e) = q + 1 /\ (\A i \in 1 .. q : e[i] = 1) /\ e[q + 1] = 0
      BY <3>1, <3>2, UnaryType, Zenon
    <3> QED
      BY <3>2, <3>3, Zenon
  <2>3. \A i \in 1 .. q + 1 : s[i] = e[i]
    BY <1>1, <2>1, <2>2
  <2> QED
    BY <2>1, <2>2, <2>3, SameBits
<1>2. Coding!B(0, 1)[1] = 0
  BY SmallPowers DEF Coding!B
<1>3. Coding!B(2, 2)[1] = 1 /\ Coding!B(2, 2)[2] = 0
  BY SmallPowers DEF Coding!B
<1>4. Coding!B(6, 3)[1] = 1 /\ Coding!B(6, 3)[2] = 1 /\ Coding!B(6, 3)[3] = 0
  BY SmallPowers DEF Coding!B
<1>5. Coding!B(14, 4)[1] = 1 /\ Coding!B(14, 4)[2] = 1 /\ Coding!B(14, 4)[3] = 1 /\ Coding!B(14, 4)[4] = 0
  BY SmallPowers DEF Coding!B
<1>6. Coding!B(0, 0 + 1) = Cat(Coding!Ones(0), << 0 >>)
  BY <1>1, <1>2
<1>7. Coding!B(2, 1 + 1) = Cat(Coding!Ones(1), << 0 >>)
  BY <1>1, <1>3
<1>8. Coding!B(6, 2 + 1) = Cat(Coding!Ones(2), << 0 >>)
  BY <1>1, <1>4
<1>9. Coding!B(14, 3 + 1) = Cat(Coding!Ones(3), << 0 >>)
  BY <1>1, <1>5
<1>10. Coding!B(15, 4) = Coding!Ones(4)
  <2>1. \A i \in 1 .. 4 : Coding!B(15, 4)[i] = 1
    BY SmallPowers DEF Coding!B
  <2>2. PICK s \in Seq(Bit) : s = Coding!B(15, 4) /\ Len(s) = 4
    BY BType
  <2>3. PICK e \in Seq(Bit) : e = Coding!Ones(4) /\ Len(e) = 4 /\ \A i \in 1 .. 4 : e[i] = 1
    BY OnesType
  <2> QED
    BY <2>1, <2>2, <2>3, SameBits
<1> QED
  BY <1>6, <1>7, <1>8, <1>9, <1>10

\* The tier of a zigzag code.
InTier(z, k, t) == \A j \in 1 .. 4 : j <= t <=> z >= Coding!Pow2[k + Coding!PayloadAdd[j]]

\* The payloads of the four tiers, each wider than the one before.
LEMMA Limits ==
    ASSUME NEW k \in Nat
    PROVE  /\ \A j \in 1 .. 4 : Coding!PayloadAdd[j] \in 0 .. 10
           /\ Coding!PayloadAdd[1] = 0 /\ Coding!PayloadAdd[2] = 2 /\ Coding!PayloadAdd[3] = 5 /\ Coding!PayloadAdd[4] = 10
           /\ Coding!Pow2[k] \in Nat /\ Coding!Pow2[k + 2] \in Nat /\ Coding!Pow2[k + 5] \in Nat /\ Coding!Pow2[k + 10] \in Nat
           /\ Coding!Pow2[k] <= Coding!Pow2[k + 2] /\ Coding!Pow2[k + 2] <= Coding!Pow2[k + 5] /\ Coding!Pow2[k + 5] <= Coding!Pow2[k + 10]
<1>1. k + 2 \in Nat /\ k + 5 \in Nat /\ k + 10 \in Nat /\ k <= k + 2 /\ k + 2 <= k + 5 /\ k + 5 <= k + 10
  OBVIOUS
<1>2. Coding!Pow2[k] <= Coding!Pow2[k + 2] /\ Coding!Pow2[k + 2] <= Coding!Pow2[k + 5] /\ Coding!Pow2[k + 5] <= Coding!Pow2[k + 10]
  BY <1>1, PowMonotone
<1>3. Coding!Pow2[k] \in Nat /\ Coding!Pow2[k + 2] \in Nat /\ Coding!Pow2[k + 5] \in Nat /\ Coding!Pow2[k + 10] \in Nat
  BY <1>1, PowType
<1> QED
  BY <1>2, <1>3 DEF Coding!PayloadAdd

\* Every zigzag code is in one of the tiers.
LEMMA TierExists ==
    ASSUME NEW z \in Nat, NEW k \in Nat
    PROVE  \E t \in 0 .. 4 : InTier(z, k, t)
<1>1. PICK a \in Nat, b \in Nat, c \in Nat, d \in Nat :
         /\ a = Coding!Pow2[k] /\ b = Coding!Pow2[k + 2] /\ c = Coding!Pow2[k + 5] /\ d = Coding!Pow2[k + 10]
         /\ a <= b /\ b <= c /\ c <= d
  BY Limits
<1>2. Coding!Pow2[k + Coding!PayloadAdd[1]] = a /\ Coding!Pow2[k + Coding!PayloadAdd[2]] = b
      /\ Coding!Pow2[k + Coding!PayloadAdd[3]] = c /\ Coding!Pow2[k + Coding!PayloadAdd[4]] = d
  BY <1>1, Limits
<1>3. ASSUME NEW t \in 0 .. 4, 1 <= t <=> z >= a, 2 <= t <=> z >= b,
             3 <= t <=> z >= c, 4 <= t <=> z >= d
      PROVE  InTier(z, k, t)
  <2>1. \A j \in 1 .. 4 : j = 1 \/ j = 2 \/ j = 3 \/ j = 4
    OBVIOUS
  <2> QED
    BY <1>2, <1>3, <2>1 DEF InTier
<1>4. CASE z < a
  BY <1>1, <1>3, <1>4
<1>5. CASE a <= z /\ z < b
  BY <1>1, <1>3, <1>5
<1>6. CASE b <= z /\ z < c
  BY <1>1, <1>3, <1>6
<1>7. CASE c <= z /\ z < d
  BY <1>1, <1>3, <1>7
<1>8. CASE d <= z
  BY <1>1, <1>3, <1>8
<1> QED
  BY <1>1, <1>4, <1>5, <1>6, <1>7, <1>8

\* A tiered code: a prefix, and a payload of the tier's width.
TierCode(v, k, t) ==
    IF t = 4 THEN Cat(Coding!Ones(4), Coding!RawWord(Coding!Word(v)))
    ELSE Cat(Cat(Coding!Ones(t), << 0 >>), Coding!B(Coding!ZigZag(v), k + Coding!PayloadAdd[t + 1]))

\* encode_residual writes the code of the tier its comparisons find.
LEMMA TieredIs ==
    ASSUME NEW v \in Coding!Int64, NEW k \in Nat, NEW t \in 0 .. 4, InTier(Coding!ZigZag(v), k, t)
    PROVE  Coding!Tiered(v, k) = TierCode(v, k, t)
<1>1. PICK z \in Nat : z = Coding!ZigZag(v)
  BY ZigZags, WordSizes
<1>2. PICK a \in Nat, b \in Nat, c \in Nat, d \in Nat :
         /\ a = Coding!Pow2[k] /\ b = Coding!Pow2[k + 2] /\ c = Coding!Pow2[k + 5] /\ d = Coding!Pow2[k + 10]
         /\ a <= b /\ b <= c /\ c <= d
  BY Limits
<1>3. 1 <= t <=> z >= a
  BY <1>1, <1>2, Limits DEF InTier
<1>4. 2 <= t <=> z >= b
  BY <1>1, <1>2, Limits DEF InTier
<1>5. 3 <= t <=> z >= c
  BY <1>1, <1>2, Limits DEF InTier
<1>6. 4 <= t <=> z >= d
  BY <1>1, <1>2, Limits DEF InTier
<1>7. /\ z < a => Coding!Tiered(v, k) = Coding!B(z, 1 + k)
      /\ a <= z /\ z < b => Coding!Tiered(v, k) = Coding!B(2 * b + z, 2 + k + 2)
      /\ b <= z /\ z < c => Coding!Tiered(v, k) = Coding!B(6 * c + z, 3 + k + 5)
      /\ c <= z /\ z < d => Coding!Tiered(v, k) = Coding!B(14 * d + z, 4 + k + 10)
      /\ d <= z => Coding!Tiered(v, k) = Cat(Coding!B(15, 4), Coding!RawWord(Coding!Word(v)))
  <2>1. Coding!Tiered(v, k) =
           CASE z < a            -> Coding!B(z, 1 + k)
             [] a <= z /\ z < b  -> Coding!B(2 * b + z, 2 + k + 2)
             [] b <= z /\ z < c  -> Coding!B(6 * c + z, 3 + k + 5)
             [] c <= z /\ z < d  -> Coding!B(14 * d + z, 4 + k + 10)
             [] OTHER            -> Cat(Coding!B(15, 4), Coding!RawWord(Coding!Word(v)))
    BY <1>1, <1>2 DEF Coding!Tiered, Cat
  <2>2. PICK e, f, g, h, i :
           /\ e = Coding!B(z, 1 + k) /\ f = Coding!B(2 * b + z, 2 + k + 2) /\ g = Coding!B(6 * c + z, 3 + k + 5)
           /\ h = Coding!B(14 * d + z, 4 + k + 10) /\ i = Cat(Coding!B(15, 4), Coding!RawWord(Coding!Word(v)))
    OBVIOUS
  <2>3. Coding!Tiered(v, k) =
           CASE z < a            -> e
             [] a <= z /\ z < b  -> f
             [] b <= z /\ z < c  -> g
             [] c <= z /\ z < d  -> h
             [] OTHER            -> i
    BY <2>1, <2>2
  <2>4. /\ z < a => Coding!Tiered(v, k) = e
        /\ a <= z /\ z < b => Coding!Tiered(v, k) = f
        /\ b <= z /\ z < c => Coding!Tiered(v, k) = g
        /\ c <= z /\ z < d => Coding!Tiered(v, k) = h
        /\ d <= z => Coding!Tiered(v, k) = i
    BY <1>2, <2>3
  <2> QED
    BY <2>2, <2>4
<1>8. CASE t = 0
  <2>1. z < a
    BY <1>3, <1>8
  <2>2. PICK x \in Nat, w \in Nat : x = z /\ w = 1 + k
    BY <1>2
  <2>3. Coding!Tiered(v, k) = Coding!B(x, w)
    BY <1>7, <2>1, <2>2
  <2>4. k \in Nat /\ w = 1 + k /\ k + Coding!PayloadAdd[1] = k
    BY <2>2, Limits
  <2>5. PICK p \in Nat, m \in Nat, n \in Nat : p = 0 /\ m = 1 /\ n = k
    BY <2>4
  <2>6. z < Coding!Pow2[n] /\ x = p * Coding!Pow2[n] + z /\ w = m + n
    BY <1>2, <2>1, <2>2, <2>4, <2>5
  <2>7. Coding!B(x, w) = Cat(Coding!B(p, m), Coding!B(z, n))
    BY <2>6, Prefixed
  <2>8. Coding!B(p, m) = Cat(Coding!Ones(0), << 0 >>)
    BY <2>5, PrefixBits
  <2>9. TierCode(v, k, 0) = Cat(Cat(Coding!Ones(0), << 0 >>), Coding!B(Coding!ZigZag(v), k + Coding!PayloadAdd[1]))
    BY DEF TierCode
  <2> QED
    BY <1>1, <1>8, <2>3, <2>4, <2>5, <2>7, <2>8, <2>9
<1>9. CASE t = 1
  <2>1. a <= z /\ z < b
    BY <1>3, <1>4, <1>9
  <2>2. PICK x \in Nat, w \in Nat : x = 2 * b + z /\ w = 2 + k + 2
    BY <1>2
  <2>3. Coding!Tiered(v, k) = Coding!B(x, w)
    BY <1>7, <2>1, <2>2
  <2>4. k + 2 \in Nat /\ w = 2 + (k + 2) /\ k + Coding!PayloadAdd[2] = k + 2
    BY <2>2, Limits
  <2>5. PICK p \in Nat, m \in Nat, n \in Nat : p = 2 /\ m = 2 /\ n = k + 2
    BY <2>4
  <2>6. z < Coding!Pow2[n] /\ x = p * Coding!Pow2[n] + z /\ w = m + n
    BY <1>2, <2>1, <2>2, <2>4, <2>5
  <2>7. Coding!B(x, w) = Cat(Coding!B(p, m), Coding!B(z, n))
    BY <2>6, Prefixed
  <2>8. Coding!B(p, m) = Cat(Coding!Ones(1), << 0 >>)
    BY <2>5, PrefixBits
  <2>9. TierCode(v, k, 1) = Cat(Cat(Coding!Ones(1), << 0 >>), Coding!B(Coding!ZigZag(v), k + Coding!PayloadAdd[2]))
    BY DEF TierCode
  <2> QED
    BY <1>1, <1>9, <2>3, <2>4, <2>5, <2>7, <2>8, <2>9
<1>10. CASE t = 2
  <2>1. b <= z /\ z < c
    BY <1>4, <1>5, <1>10
  <2>2. PICK x \in Nat, w \in Nat : x = 6 * c + z /\ w = 3 + k + 5
    BY <1>2
  <2>3. Coding!Tiered(v, k) = Coding!B(x, w)
    BY <1>7, <2>1, <2>2
  <2>4. k + 5 \in Nat /\ w = 3 + (k + 5) /\ k + Coding!PayloadAdd[3] = k + 5
    BY <2>2, Limits
  <2>5. PICK p \in Nat, m \in Nat, n \in Nat : p = 6 /\ m = 3 /\ n = k + 5
    BY <2>4
  <2>6. z < Coding!Pow2[n] /\ x = p * Coding!Pow2[n] + z /\ w = m + n
    BY <1>2, <2>1, <2>2, <2>4, <2>5
  <2>7. Coding!B(x, w) = Cat(Coding!B(p, m), Coding!B(z, n))
    BY <2>6, Prefixed
  <2>8. Coding!B(p, m) = Cat(Coding!Ones(2), << 0 >>)
    BY <2>5, PrefixBits
  <2>9. TierCode(v, k, 2) = Cat(Cat(Coding!Ones(2), << 0 >>), Coding!B(Coding!ZigZag(v), k + Coding!PayloadAdd[3]))
    BY DEF TierCode
  <2> QED
    BY <1>1, <1>10, <2>3, <2>4, <2>5, <2>7, <2>8, <2>9
<1>11. CASE t = 3
  <2>1. c <= z /\ z < d
    BY <1>5, <1>6, <1>11
  <2>2. PICK x \in Nat, w \in Nat : x = 14 * d + z /\ w = 4 + k + 10
    BY <1>2
  <2>3. Coding!Tiered(v, k) = Coding!B(x, w)
    BY <1>7, <2>1, <2>2
  <2>4. k + 10 \in Nat /\ w = 4 + (k + 10) /\ k + Coding!PayloadAdd[4] = k + 10
    BY <2>2, Limits
  <2>5. PICK p \in Nat, m \in Nat, n \in Nat : p = 14 /\ m = 4 /\ n = k + 10
    BY <2>4
  <2>6. z < Coding!Pow2[n] /\ x = p * Coding!Pow2[n] + z /\ w = m + n
    BY <1>2, <2>1, <2>2, <2>4, <2>5
  <2>7. Coding!B(x, w) = Cat(Coding!B(p, m), Coding!B(z, n))
    BY <2>6, Prefixed
  <2>8. Coding!B(p, m) = Cat(Coding!Ones(3), << 0 >>)
    BY <2>5, PrefixBits
  <2>9. TierCode(v, k, 3) = Cat(Cat(Coding!Ones(3), << 0 >>), Coding!B(Coding!ZigZag(v), k + Coding!PayloadAdd[4]))
    BY DEF TierCode
  <2> QED
    BY <1>1, <1>11, <2>3, <2>4, <2>5, <2>7, <2>8, <2>9
<1>12. CASE t = 4
  <2>1. d <= z
    BY <1>6, <1>12
  <2>2. Coding!Tiered(v, k) = Cat(Coding!B(15, 4), Coding!RawWord(Coding!Word(v)))
    BY <1>2, <1>7, <2>1
  <2> QED
    BY <1>12, <2>2, PrefixBits DEF TierCode
<1> QED
  BY <1>8, <1>9, <1>10, <1>11, <1>12

\* Tiers that are too narrow come before all that are wide enough, so their
\* number is the tier.
LEMMA TierOver ==
    ASSUME NEW P, NEW t \in 0 .. 4, P \subseteq 1 .. 4, \A j \in 1 .. 4 : j \in P <=> j <= t
    PROVE  P = 1 .. t /\ Cardinality(P) = t
<1>1. P = 1 .. t
  <2>1. \A j \in 1 .. 4 : j \in 1 .. t <=> j <= t
    OBVIOUS
  <2>2. 1 .. t \subseteq 1 .. 4
    OBVIOUS
  <2> QED
    BY <2>1, <2>2
<1>2. Cardinality(1 .. t) = t
  <2>1. PICK a \in Int, e \in Int : a = 1 /\ e = t
    OBVIOUS
  <2>2. Cardinality(a .. e) = IF a > e THEN 0 ELSE e - a + 1
    BY FS_Interval
  <2> QED
    BY <2>1, <2>2
<1> QED
  BY <1>1, <1>2

\* encode_residual_baseline writes the code of the tier it counts.
LEMMA BaselineIs ==
    ASSUME NEW v \in Coding!Int64, NEW k \in Nat, NEW t \in 0 .. 4, InTier(Coding!ZigZag(v), k, t)
    PROVE  Coding!BaselineTiered(v, k) = TierCode(v, k, t)
<1> DEFINE P == {j \in 1 .. 4 : Coding!ZigZag(v) >= Coding!Pow2[k + Coding!PayloadAdd[j]]}
<1>1. P \subseteq 1 .. 4 /\ \A j \in 1 .. 4 : j \in P <=> j <= t
  BY DEF InTier
<1>2. Coding!Cardinality(P) = t
  <2> HIDE DEF P
  <2> QED
    BY <1>1, TierOver, SameCardinality
<1>3. Coding!BaselineTiered(v, k) = IF Coding!Cardinality(P) = 4 THEN Cat(Coding!Ones(4), Coding!RawWord(Coding!Word(v)))
         ELSE Cat(Cat(Coding!Ones(Coding!Cardinality(P)), << 0 >>), Coding!B(Coding!ZigZag(v), k + Coding!PayloadAdd[Coding!Cardinality(P) + 1]))
  BY Zenon DEF Coding!BaselineTiered, Cat
<1> QED
  BY <1>2, <1>3, Zenon DEF TierCode

\* A number of bn bits does not fit into w bits if it is 2^w or more.
LEMMA Needed ==
    ASSUME NEW z \in 0 .. Coding!U64 - 1, NEW w \in Nat
    PROVE  Coding!BitsNeeded(z) > w <=> z >= Coding!Pow2[w]
<1>1. z \in Nat /\ Coding!Pow2[w] \in Nat /\ Coding!Pow2[w] > 0
  BY WordSizes, PowType
<1>2. CASE z = 0
  BY <1>1, <1>2 DEF Coding!BitsNeeded
<1>3. CASE z # 0
  <2>1. PICK e \in Nat : e = Coding!Log2(z) /\ Coding!Pow2[e] <= z /\ z < 2 * Coding!Pow2[e]
    BY <1>1, <1>3, Log2Exists
  <2>2. Coding!BitsNeeded(z) = e + 1
    BY <1>3, <2>1 DEF Coding!BitsNeeded
  <2>3. CASE w <= e
    <3>1. Coding!Pow2[w] <= Coding!Pow2[e] /\ Coding!Pow2[e] \in Nat
      BY <2>3, PowMonotone, PowType
    <3> QED
      BY <1>1, <2>1, <2>2, <2>3, <3>1
  <2>4. CASE w > e
    <3>1. 2 * Coding!Pow2[e] <= Coding!Pow2[w] /\ Coding!Pow2[e] \in Nat
      BY <2>4, PowGrows, PowType
    <3> QED
      BY <1>1, <2>1, <2>2, <2>4, <3>1
  <2> QED
    BY <2>3, <2>4
<1> QED
  BY <1>2, <1>3

\* encode_residual_branchless writes the code of the tier it computes from
\* the length of the zigzag code.
LEMMA BranchlessIs ==
    ASSUME NEW v \in Coding!Int64, NEW k \in Nat, NEW t \in 0 .. 4, InTier(Coding!ZigZag(v), k, t)
    PROVE  Coding!BranchlessTiered(v, k) = TierCode(v, k, t)
<1>1. PICK z \in 0 .. Coding!U64 - 1 : z = Coding!ZigZag(v)
  BY ZigZags
<1> DEFINE P == {j \in 1 .. 4 : Coding!BitsNeeded(z) > k + Coding!PayloadAdd[j]}
<1>2. ASSUME NEW j \in 1 .. 4 PROVE j \in P <=> j <= t
  <2>1. k + Coding!PayloadAdd[j] \in Nat
    BY Limits
  <2>2. Coding!BitsNeeded(z) > k + Coding!PayloadAdd[j] <=> z >= Coding!Pow2[k + Coding!PayloadAdd[j]]
    BY <2>1, Needed
  <2> QED
    BY <1>1, <2>2 DEF InTier
<1>3. Coding!Cardinality(P) = t
  <2>1. P \subseteq 1 .. 4
    OBVIOUS
  <2> HIDE DEF P
  <2> QED
    BY <1>2, <2>1, TierOver, SameCardinality
<1>4. Coding!ComputeTier(Coding!BitsNeeded(z), k) = t
  BY <1>3 DEF Coding!ComputeTier
<1> DEFINE prefix == << Coding!B(0, 1), Coding!B(2, 2), Coding!B(6, 3), Coding!B(14, 4), Coding!B(15, 4) >>
<1>5. Coding!BranchlessTiered(v, k) =
         Cat(prefix[t + 1], IF t < 4 THEN Coding!B(z, k + Coding!PayloadAdd[t + 1]) ELSE Coding!RawWord(Coding!Word(v)))
  BY <1>1, <1>4, Zenon DEF Coding!BranchlessTiered, Cat
<1>6. CASE t = 4
  <2>1. prefix[t + 1] = Coding!Ones(4)
    BY <1>6, PrefixBits
  <2> HIDE DEF prefix
  <2> QED
    BY <1>5, <1>6, <2>1 DEF TierCode
<1>7. CASE t # 4
  <2>1. t < 4 /\ (t = 0 \/ t = 1 \/ t = 2 \/ t = 3)
    BY <1>7
  <2>2. prefix[t + 1] = Cat(Coding!Ones(t), << 0 >>)
    BY <2>1, PrefixBits
  <2> HIDE DEF prefix
  <2> QED
    BY <1>1, <1>5, <1>7, <2>1, <2>2 DEF TierCode
<1> QED
  BY <1>6, <1>7

\* The code of a tier is bits, and how many.
LEMMA TierCodeType ==
    ASSUME NEW v \in Coding!Int64, NEW k \in Nat, NEW t \in 0 .. 4
    PROVE  /\ TierCode(v, k, t) \in Seq(Bit)
           /\ Len(TierCode(v, k, t)) =
                 IF t = 4 THEN 4 + 2 * LIMB ELSE (t + 1) + (k + Coding!PayloadAdd[t + 1])
<1>1. CASE t = 4
  <2>1. PICK s \in Seq(Bit) : s = Coding!Ones(4) /\ Len(s) = 4
    BY OnesType
  <2>2. PICK e \in Seq(Bit) : e = Coding!RawWord(Coding!Word(v)) /\ Len(e) = 2 * LIMB
    BY ZigZags, RawType
  <2>3. Cat(s, e) \in Seq(Bit) /\ Len(Cat(s, e)) = 4 + 2 * LIMB
    BY <2>1, <2>2, CatType
  <2> QED
    BY <1>1, <2>1, <2>2, <2>3 DEF TierCode
<1>2. CASE t # 4
  <2>1. PICK s \in Seq(Bit) : s = Cat(Coding!Ones(t), << 0 >>) /\ Len(s) = t + 1
    BY UnaryType
  <2>2. PICK w \in Nat : w = k + Coding!PayloadAdd[t + 1]
    <3>1. t + 1 \in 1 .. 4
      BY <1>2
    <3>2. Coding!PayloadAdd[t + 1] \in 0 .. 10
      BY <3>1, Limits
    <3>3. k + Coding!PayloadAdd[t + 1] \in Nat
      BY <3>2
    <3> QED
      BY <3>3
  <2>3. PICK e \in Seq(Bit) : e = Coding!B(Coding!ZigZag(v), w) /\ Len(e) = w
    <3>1. Coding!ZigZag(v) \in Nat
      BY ZigZags, WordSizes
    <3> QED
      BY <3>1, BType
  <2>4. Cat(s, e) \in Seq(Bit) /\ Len(Cat(s, e)) = (t + 1) + w
    BY <2>1, <2>3, CatType, ZenonT(40)
  <2>5. TierCode(v, k, t) = Cat(s, e)
    BY <1>2, <2>1, <2>2, <2>3 DEF TierCode
  <2> QED
    BY <1>2, <2>2, <2>4, <2>5
<1> QED
  BY <1>1, <1>2

\* tiered_bits counts the bits of the code.
LEMMA CostIs ==
    ASSUME NEW v \in Coding!Int64, NEW k \in Nat, NEW t \in 0 .. 4, InTier(Coding!ZigZag(v), k, t)
    PROVE  Coding!TieredCost(v, k) = Len(TierCode(v, k, t))
<1>1. PICK z \in Nat : z = Coding!ZigZag(v)
  BY ZigZags, WordSizes
<1> DEFINE fits == {j \in 1 .. 4 : z < Coding!Pow2[k + Coding!PayloadAdd[j]]}
<1>2. ASSUME NEW j \in 1 .. 4 PROVE j \in fits <=> j > t
  <2>1. Coding!Pow2[k + Coding!PayloadAdd[j]] \in Nat
    <3>1. k + Coding!PayloadAdd[j] \in Nat
      BY Limits
    <3> QED
      BY <3>1, PowType
  <2> QED
    BY <1>1, <2>1 DEF InTier
<1>3. Coding!TieredCost(v, k) = IF fits = {} THEN 4 + 2 * LIMB ELSE Coding!Min(fits) + k + Coding!PayloadAdd[Coding!Min(fits)]
  BY <1>1, Zenon DEF Coding!TieredCost
<1>4. fits \subseteq 1 .. 4
  OBVIOUS
<1> HIDE DEF fits
<1>5. CASE t = 4
  <2>1. fits = {}
    BY <1>2, <1>4, <1>5
  <2> QED
    BY <1>3, <1>5, <2>1, TierCodeType
<1>6. CASE t # 4
  <2>1. t + 1 \in 1 .. 4 /\ t + 1 > t
    BY <1>6
  <2>2. t + 1 \in fits
    BY <1>2, <2>1
  <2>3. \A j \in fits : t + 1 <= j
    BY <1>2, <1>4
  <2>4. Coding!Min(fits) = t + 1
    <3>1. \A x \in fits : (\A y \in fits : x <= y) => x = t + 1
      BY <1>4, <2>2, <2>3
    <3> QED
      BY <2>2, <2>3, <3>1 DEF Coding!Min
  <2>5. Coding!PayloadAdd[t + 1] \in Nat
    BY <2>1, Limits
  <2>6. Coding!TieredCost(v, k) = (t + 1) + k + Coding!PayloadAdd[t + 1]
    BY <1>3, <2>2, <2>4
  <2>7. (t + 1) + k + Coding!PayloadAdd[t + 1] = (t + 1) + (k + Coding!PayloadAdd[t + 1])
    BY <2>5
  <2> QED
    BY <1>6, <2>6, <2>7, TierCodeType
<1> QED
  BY <1>5, <1>6

\* A remainder written in two parts is one string of bits.
LEMMA RemainderIs ==
    ASSUME NEW m \in Nat, NEW n \in Nat
    PROVE  Coding!Remainder(m, n) = Coding!B(m, n)
<1>1. CASE n > LIMB
  <2>1. LIMB \in Nat /\ n - LIMB \in Nat /\ (n - LIMB) + LIMB = n
    BY <1>1, WordSizes
  <2>2. PICK a \in Nat : a = n - LIMB /\ a + LIMB = n
    BY <2>1
  <2>3. Coding!B(m, a + LIMB) = Cat(Coding!B(m \div Coding!Pow2[LIMB], a), Coding!B(m, LIMB))
    BY <2>1, BSplit
  <2>4. Coding!Remainder(m, n) = Cat(Coding!B(m \div Coding!Pow2[LIMB], n - LIMB), Coding!B(m, LIMB))
    BY <1>1, Zenon DEF Coding!Remainder, Cat
  <2> QED
    BY <2>2, <2>3, <2>4
<1>2. CASE ~(n > LIMB)
  BY <1>2 DEF Coding!Remainder
<1> QED
  BY <1>1, <1>2

\* The unary part of an Exp-Golomb code, and what is coded.
Exponent(z, k, q) ==
    /\ z + Coding!Pow2[k] < Coding!U64
    /\ Coding!Pow2[q + k] <= z + Coding!Pow2[k]
    /\ z + Coding!Pow2[k] < 2 * Coding!Pow2[q + k]

\* The exponent of the Exp-Golomb codes is the one of the number coded.
LEMMA ExponentExists ==
    ASSUME NEW z \in Nat, NEW k \in Nat, z + Coding!Pow2[k] < Coding!U64
    PROVE  /\ Coding!Log2(z + Coding!Pow2[k]) - k \in Nat
           /\ (Coding!Log2(z + Coding!Pow2[k]) - k) + k = Coding!Log2(z + Coding!Pow2[k])
           /\ Exponent(z, k, Coding!Log2(z + Coding!Pow2[k]) - k)
<1>1. PICK m \in Nat : m = z + Coding!Pow2[k] /\ m >= Coding!Pow2[k] /\ Coding!Pow2[k] > 0
  BY PowType
<1>2. m \in 1 .. Coding!U64 - 1
  BY <1>1, WordSizes, PowType
<1>3. PICK e \in Nat : e = Coding!Log2(m) /\ Coding!Pow2[e] <= m /\ m < 2 * Coding!Pow2[e]
  BY <1>2, Log2Exists
<1>4. ~(e < k)
  <2>1. e < k => 2 * Coding!Pow2[e] <= Coding!Pow2[k]
    BY PowGrows
  <2>2. Coding!Pow2[e] \in Nat /\ Coding!Pow2[k] \in Nat
    BY PowType
  <2> QED
    BY <1>1, <1>3, <2>1, <2>2
<1>5. PICK q \in Nat : q = e - k /\ q + k = e
  BY <1>4
<1> QED
  BY <1>1, <1>3, <1>5 DEF Exponent

\* An Exp-Golomb code, escaped or not.
LEMMA ExpGolombIs ==
    ASSUME NEW v \in Coding!Int64, NEW k \in 0 .. LIMB - 1
    PROVE  \/ Coding!ExpGolomb(v, k) = Cat(Coding!Ones(LIMB), Coding!RawWord(Coding!Word(v)))
           \/ \E q \in 0 .. LIMB - 1 :
                 /\ Exponent(Coding!ZigZag(v), k, q)
                 /\ Coding!ExpGolomb(v, k) = Cat(Cat(Coding!Ones(q), << 0 >>), Coding!B(Coding!ZigZag(v) + Coding!Pow2[k], q + k))
<1>1. PICK z \in Nat : z = Coding!ZigZag(v)
  BY ZigZags, WordSizes
<1>2. PICK m \in Nat : m = z + Coding!Pow2[k]
  BY PowType
<1>3. PICK q : q = Coding!Log2(m) - k
  OBVIOUS
<1>4. k \in Nat /\ LIMB \in Nat /\ Coding!Pow2[k] \in Nat /\ Coding!U64 \in Nat
  BY WordSizes, PowType
<1> DEFINE Escapes == z > Coding!U64 - 1 - Coding!Pow2[k] \/ q > LIMB - 1
<1>5. Coding!ExpGolomb(v, k) = IF Escapes THEN Cat(Coding!Ones(LIMB), Coding!RawWord(Coding!Word(v)))
                        ELSE Cat(Cat(Coding!Ones(q), << 0 >>), Coding!Remainder(m, q + k))
  BY <1>1, <1>2, <1>3, Zenon DEF Coding!ExpGolomb, Cat
<1>6. CASE Escapes
  BY <1>5, <1>6
<1>7. CASE ~Escapes
  <2>1. z + Coding!Pow2[k] < Coding!U64 /\ ~(q > LIMB - 1)
    BY <1>4, <1>7
  <2>2. q \in Nat /\ Exponent(z, k, q)
    BY <1>2, <1>3, <1>4, <2>1, ExponentExists
  <2>3. q \in 0 .. LIMB - 1
    BY <1>4, <2>1, <2>2
  <2>4. q + k \in Nat
    BY <1>4, <2>2
  <2>5. Coding!Remainder(m, q + k) = Coding!B(m, q + k)
    BY <2>4, RemainderIs
  <2>6. Coding!ExpGolomb(v, k) = Cat(Cat(Coding!Ones(q), << 0 >>), Coding!B(m, q + k))
    BY <1>5, <1>7, <2>5
  <2> QED
    BY <1>1, <1>2, <2>2, <2>3, <2>6
<1> QED
  BY <1>6, <1>7

\* The encoder of bench/ either escapes, when that of the codec does, or
\* writes the same bits.
LEMMA BenchExpGolombIs ==
    ASSUME NEW v \in Coding!Int64, NEW k \in 0 .. LIMB - 1, Coding!ZigZag(v) + Coding!Pow2[k] < Coding!U64
    PROVE  \/ /\ Coding!BenchExpGolomb(v, k) = Cat(Cat(Coding!Ones(LIMB), << 0 >>), Coding!RawWord(Coding!ZigZag(v)))
              /\ Coding!ExpGolomb(v, k) = Cat(Coding!Ones(LIMB), Coding!RawWord(Coding!Word(v)))
           \/ /\ Coding!BenchExpGolomb(v, k) = Coding!ExpGolomb(v, k)
              /\ \E q \in 0 .. LIMB - 1 :
                 /\ Exponent(Coding!ZigZag(v), k, q)
                 /\ Coding!ExpGolomb(v, k) = Cat(Cat(Coding!Ones(q), << 0 >>), Coding!B(Coding!ZigZag(v) + Coding!Pow2[k], q + k))
<1>1. PICK z \in Nat : z = Coding!ZigZag(v)
  BY ZigZags, WordSizes
<1>2. PICK m \in Nat : m = z + Coding!Pow2[k]
  BY PowType
<1>3. k \in Nat /\ LIMB \in Nat /\ Coding!Pow2[k] \in Nat /\ Coding!U64 \in Nat
  BY WordSizes, PowType
<1>4. PICK q : q = Coding!Log2(m) - k /\ q + k = Coding!Log2(m)
  BY <1>1, <1>2, <1>3, ExponentExists
<1>5. q \in Nat /\ Exponent(z, k, q)
  BY <1>1, <1>2, <1>3, <1>4, ExponentExists
<1>6. Coding!BenchExpGolomb(v, k) = IF q > LIMB - 1 THEN Cat(Cat(Coding!Ones(LIMB), << 0 >>), Coding!RawWord(z))
                             ELSE Cat(Cat(Coding!Ones(q), << 0 >>), Coding!Remainder(m, Coding!Log2(m)))
  BY <1>1, <1>2, <1>4, Zenon DEF Coding!BenchExpGolomb, Cat
<1>7. Coding!ExpGolomb(v, k) = IF z > Coding!U64 - 1 - Coding!Pow2[k] \/ q > LIMB - 1
                        THEN Cat(Coding!Ones(LIMB), Coding!RawWord(Coding!Word(v)))
                        ELSE Cat(Cat(Coding!Ones(q), << 0 >>), Coding!Remainder(m, q + k))
  BY <1>1, <1>2, <1>4, Zenon DEF Coding!ExpGolomb, Cat
<1>8. ~(z > Coding!U64 - 1 - Coding!Pow2[k])
  BY <1>1, <1>3
<1>9. CASE q > LIMB - 1
  BY <1>1, <1>6, <1>7, <1>9
<1>10. CASE ~(q > LIMB - 1)
  <2>1. Coding!BenchExpGolomb(v, k) = Coding!ExpGolomb(v, k)
    BY <1>4, <1>6, <1>7, <1>8, <1>10
  <2>2. q \in 0 .. LIMB - 1
    BY <1>3, <1>5, <1>10
  <2>3. Coding!Remainder(m, q + k) = Coding!B(m, q + k)
    <3>1. q + k \in Nat
      BY <1>3, <1>5
    <3> QED
      BY <3>1, RemainderIs
  <2>4. Coding!ExpGolomb(v, k) = Cat(Cat(Coding!Ones(q), << 0 >>), Coding!B(m, q + k))
    BY <1>7, <1>8, <1>10, <2>3
  <2> QED
    BY <1>1, <1>2, <1>5, <2>1, <2>2, <2>4
<1> QED
  BY <1>9, <1>10

\* The two escapes differ by a zero.
LEMMA EscapeLengths ==
    ASSUME NEW u \in 0 .. Coding!U64 - 1
    PROVE  /\ Cat(Coding!Ones(LIMB), Coding!RawWord(u)) \in Seq(Bit)
           /\ Len(Cat(Coding!Ones(LIMB), Coding!RawWord(u))) = 3 * LIMB
           /\ Cat(Cat(Coding!Ones(LIMB), << 0 >>), Coding!RawWord(u)) \in Seq(Bit)
           /\ Len(Cat(Cat(Coding!Ones(LIMB), << 0 >>), Coding!RawWord(u))) = 3 * LIMB + 1
<1>1. LIMB \in Nat
  BY WordSizes
<1>2. PICK s \in Seq(Bit) : s = Coding!Ones(LIMB) /\ Len(s) = LIMB
  BY <1>1, OnesType
<1>3. PICK t \in Seq(Bit) : t = Cat(Coding!Ones(LIMB), << 0 >>) /\ Len(t) = LIMB + 1
  BY <1>1, UnaryType
<1>4. PICK w \in Seq(Bit) : w = Coding!RawWord(u) /\ Len(w) = 2 * LIMB
  BY RawType
<1>5. Cat(s, w) \in Seq(Bit) /\ Len(Cat(s, w)) = LIMB + 2 * LIMB
  <2>1. Cat(s, w) \in Seq(Bit) /\ Len(Cat(s, w)) = Len(s) + Len(w)
    BY CatType
  <2> QED
    BY <1>1, <1>2, <1>4, <2>1
<1>6. Cat(t, w) \in Seq(Bit) /\ Len(Cat(t, w)) = (LIMB + 1) + 2 * LIMB
  BY <1>3, <1>4, CatType, ZenonT(40)
<1> QED
  BY <1>1, <1>2, <1>3, <1>4, <1>5, <1>6

\* What the assumption says of an item.
LEMMA ItemParts ==
    ASSUME NEW it \in Items
    PROVE  /\ it.code \in Coding!Codes
           /\ it.k \in Nat /\ it.k \in 0 .. LIMB - 1 /\ it.k + 10 <= 2 * LIMB
           /\ it.code = "tiered" => it.k >= 3
           /\ it.code = "bench_expgolomb" => Coding!ZigZag(it.v) + Coding!Pow2[it.k] < Coding!U64
           /\ it.code = "rank" => it.v \in 0 .. RANKS - 1
           /\ it.code # "rank" => it.v \in Coding!Int64
<1>1. LIMB \in Nat
  BY WordSizes
<1> QED
  BY <1>1, CodeGiven DEF Coding!CodeAssumption

\* What is there twice writes one format.
LEMMA OneWire ==
    ASSUME NEW it \in Items
    PROVE  /\ it.code = "tiered" =>
                  /\ Coding!BaselineTiered(it.v, it.k) = Coding!Tiered(it.v, it.k)
                  /\ Coding!BranchlessTiered(it.v, it.k) = Coding!Tiered(it.v, it.k)
                  /\ Coding!TieredCost(it.v, it.k) = Len(Coding!Tiered(it.v, it.k))
           /\ it.code = "bench_expgolomb" =>
                  \/ Coding!BenchExpGolomb(it.v, it.k) = Coding!ExpGolomb(it.v, it.k)
                  \/ /\ Len(Coding!ExpGolomb(it.v, it.k)) = 3 * LIMB
                     /\ Len(Coding!BenchExpGolomb(it.v, it.k)) = 3 * LIMB + 1
<1>1. ASSUME it.code = "tiered"
      PROVE  /\ Coding!BaselineTiered(it.v, it.k) = Coding!Tiered(it.v, it.k)
             /\ Coding!BranchlessTiered(it.v, it.k) = Coding!Tiered(it.v, it.k)
             /\ Coding!TieredCost(it.v, it.k) = Len(Coding!Tiered(it.v, it.k))
  <2>1. PICK v \in Coding!Int64, k \in Nat : v = it.v /\ k = it.k
    BY <1>1, ItemParts
  <2>2. Coding!ZigZag(v) \in Nat
    BY ZigZags, WordSizes
  <2>3. PICK t \in 0 .. 4 : InTier(Coding!ZigZag(v), k, t)
    BY <2>2, TierExists
  <2> QED
    BY <2>1, <2>3, TieredIs, BaselineIs, BranchlessIs, CostIs
<1>2. ASSUME it.code = "bench_expgolomb"
      PROVE  \/ Coding!BenchExpGolomb(it.v, it.k) = Coding!ExpGolomb(it.v, it.k)
             \/ /\ Len(Coding!ExpGolomb(it.v, it.k)) = 3 * LIMB
                /\ Len(Coding!BenchExpGolomb(it.v, it.k)) = 3 * LIMB + 1
  <2>1. PICK v \in Coding!Int64, k \in 0 .. LIMB - 1 : v = it.v /\ k = it.k /\ Coding!ZigZag(v) + Coding!Pow2[k] < Coding!U64
    BY <1>2, ItemParts
  <2>2. Coding!ZigZag(v) \in 0 .. Coding!U64 - 1 /\ Coding!Word(v) \in 0 .. Coding!U64 - 1
    BY ZigZags
  <2> QED
    BY <2>1, <2>2, BenchExpGolombIs, EscapeLengths
<1> QED
  BY <1>1, <1>2

-----------------------------------------------------------------------------
(* Readers. *)

Reader == [bits : Seq(Bit), pos : Nat, failed : BOOLEAN]

Skip(r, n) == [r EXCEPT !.pos = @ + n]

\* s comes next, as far as there is anything.
Ahead(r, s) ==
    \A j \in 1 .. Len(s) : r.pos + j <= Len(r.bits) => r.bits[r.pos + j] = s[j]

\* All of n bits are there.
There(r, n) == r.pos + n <= Len(r.bits)

\* A reader never goes back, forgets no failure, and leaves the end of the
\* bits behind it only if it was beyond it.
Onward(r, next) ==
    /\ next \in Reader
    /\ next.bits = r.bits
    /\ r.failed => next.failed
    /\ next.pos >= r.pos
    /\ next.pos = r.pos \/ next.pos <= Len(r.bits)

\* d is what reading s gives: its value v, or a failure.
Gives(d, r, s, v) ==
    IF There(r, Len(s)) THEN d.val = v /\ d.next = Skip(r, Len(s))
    ELSE d.next.failed = TRUE

\* The parts of a reader are of their types.
LEMMA ReaderParts ==
    ASSUME NEW r \in Reader
    PROVE  r.bits \in Seq(Bit) /\ Len(r.bits) \in Nat /\ r.pos \in Nat /\ r.failed \in BOOLEAN
  BY DEF Reader

\* Skipping moves the position and nothing else.
LEMMA SkipParts ==
    ASSUME NEW r \in Reader, NEW n \in Nat
    PROVE  /\ Skip(r, n) \in Reader /\ Skip(r, n).bits = r.bits
           /\ Skip(r, n).pos = r.pos + n /\ Skip(r, n).failed = r.failed
  BY DEF Reader, Skip

\* Skipped twice is skipped once by the sum.
LEMMA SkipSkip ==
    ASSUME NEW r \in Reader, NEW m \in Nat, NEW n \in Nat
    PROVE  Skip(Skip(r, m), n) = Skip(r, m + n)
<1>1. ASSUME NEW x \in Reader, NEW l \in Nat
      PROVE  Skip(x, l) = [bits |-> x.bits, pos |-> x.pos + l, failed |-> x.failed]
  BY SMTT(20) DEF Reader, Skip
<1>2. PICK x \in Reader : x = Skip(r, m) /\ x.bits = r.bits /\ x.pos = r.pos + m /\ x.failed = r.failed
  BY SkipParts
<1>3. Skip(x, n) = [bits |-> r.bits, pos |-> (r.pos + m) + n, failed |-> r.failed]
  BY <1>1, <1>2
<1>4. m + n \in Nat /\ (r.pos + m) + n = r.pos + (m + n)
  BY ReaderParts
<1>5. Skip(r, m + n) = [bits |-> r.bits, pos |-> r.pos + (m + n), failed |-> r.failed]
  BY <1>1, <1>4
<1> QED
  BY <1>2, <1>3, <1>4, <1>5

\* Skipping what is there leads onward.
LEMMA SkipOnward ==
    ASSUME NEW r \in Reader, NEW n \in Nat, There(r, n)
    PROVE  Onward(r, Skip(r, n))
<1>1. PICK x \in Reader : x = Skip(r, n) /\ x.bits = r.bits /\ x.pos = r.pos + n /\ x.failed = r.failed
  BY SkipParts
<1>2. r.pos + n <= Len(r.bits) /\ r.pos \in Nat
  BY ReaderParts DEF There
<1>3. x.pos >= r.pos /\ x.pos <= Len(r.bits)
  BY <1>1, <1>2
<1> QED
  BY <1>1, <1>3 DEF Onward

\* A reader that goes on twice has gone on.
LEMMA OnwardTwice ==
    ASSUME NEW r \in Reader, NEW m, Onward(r, m), NEW n, Onward(m, n)
    PROVE  Onward(r, n)
<1>1. m \in Reader /\ n \in Reader
  BY DEF Onward
<1>2. Len(r.bits) \in Nat /\ r.pos \in Nat /\ m.pos \in Nat /\ n.pos \in Nat
  BY <1>1, ReaderParts
<1> QED
  BY <1>1, <1>2 DEF Onward

\* Of two parts that are ahead, the second is ahead past the first.
LEMMA AheadParts ==
    ASSUME NEW r \in Reader, NEW s \in Seq(Bit), NEW t \in Seq(Bit), Ahead(r, Cat(s, t))
    PROVE  Ahead(r, s) /\ Ahead(Skip(r, Len(s)), t)
<1>1. PICK m \in Nat, n \in Nat : m = Len(s) /\ n = Len(t)
  OBVIOUS
<1>2. Len(Cat(s, t)) = m + n
  BY <1>1, CatType
<1>3. r.pos \in Nat
  BY ReaderParts
<1>4. ASSUME NEW j \in 1 .. m, r.pos + j <= Len(r.bits)
      PROVE  r.bits[r.pos + j] = s[j]
  <2>1. Cat(s, t)[j] = s[j] /\ j \in 1 .. m + n
    BY <1>1, CatBits
  <2> QED
    BY <1>2, <1>4, <2>1 DEF Ahead
<1>5. ASSUME NEW j \in 1 .. n, (r.pos + m) + j <= Len(r.bits)
      PROVE  r.bits[(r.pos + m) + j] = t[j]
  <2>1. Cat(s, t)[m + j] = t[j] /\ m + j \in 1 .. m + n /\ (r.pos + m) + j = r.pos + (m + j)
    <3>1. \A i \in 1 .. Len(t) : Cat(s, t)[Len(s) + i] = t[i]
      BY CatBits
    <3>2. m + j \in 1 .. m + n /\ (r.pos + m) + j = r.pos + (m + j)
      BY <1>3
    <3> QED
      BY <1>1, <3>1, <3>2
  <2>2. r.pos + (m + j) <= Len(r.bits) => r.bits[r.pos + (m + j)] = Cat(s, t)[m + j]
    BY <1>2, <2>1 DEF Ahead
  <2> QED
    BY <1>5, <2>1, <2>2
<1>6. Skip(r, m).bits = r.bits /\ Skip(r, m).pos = r.pos + m
  BY SkipParts
<1> QED
  BY <1>1, <1>4, <1>5, <1>6 DEF Ahead

\* A part of a sequence, by its indices.
LEMMA Slice ==
    ASSUME NEW S, NEW y \in Seq(S), NEW p \in Nat, NEW n \in Nat, p + n <= Len(y)
    PROVE  /\ SubSeq(y, p + 1, p + n) \in Seq(S) /\ Len(SubSeq(y, p + 1, p + n)) = n
           /\ \A i \in 1 .. n : SubSeq(y, p + 1, p + n)[i] = y[p + i]
<1>1. PICK a \in Int, b \in Int : a = p + 1 /\ b = p + n
  OBVIOUS
<1>2. \A i \in a .. b : y[i] \in S
  BY <1>1
<1>3. PICK t : t = SubSeq(y, a, b)
  BY Zenon
<1>4. t \in Seq(S) /\ Len(t) = (IF a <= b THEN b - a + 1 ELSE 0)
      /\ \A i \in 1 .. b - a + 1 : t[i] = y[a + i - 1]
  BY <1>2, <1>3, SubSeqProperties, SMTT(20)
<1>5. Len(t) = n
  BY <1>1, <1>4
<1>6. ASSUME NEW i \in 1 .. n PROVE t[i] = y[p + i]
  <2>1. i \in 1 .. b - a + 1 /\ a + i - 1 = p + i
    BY <1>1
  <2> QED
    BY <1>4, <2>1
<1> QED
  BY <1>1, <1>3, <1>4, <1>5, <1>6

\* The next n bits of a reader that has them.
LEMMA BitsAhead ==
    ASSUME NEW r \in Reader, NEW n \in Nat, There(r, n)
    PROVE  /\ SubSeq(r.bits, r.pos + 1, r.pos + n) \in Seq(Bit)
           /\ Len(SubSeq(r.bits, r.pos + 1, r.pos + n)) = n
           /\ \A i \in 1 .. n : SubSeq(r.bits, r.pos + 1, r.pos + n)[i] = r.bits[r.pos + i]
<1>1. PICK y \in Seq(Bit), p \in Nat : y = r.bits /\ p = r.pos /\ p + n <= Len(y)
  BY ReaderParts DEF There
<1>2. /\ SubSeq(y, p + 1, p + n) \in Seq(Bit) /\ Len(SubSeq(y, p + 1, p + n)) = n
      /\ \A i \in 1 .. n : SubSeq(y, p + 1, p + n)[i] = y[p + i]
  <2>1. p + n <= Len(y)
    BY <1>1
  <2> QED
    BY <2>1, Slice, Zenon
<1> QED
  BY <1>1, <1>2, Zenon

\* What a read returns and where it leaves the reader.
LEMMA ReadOnward ==
    ASSUME NEW r \in Reader, NEW n \in Nat
    PROVE  Coding!Read(r, n).val \in 0 .. Coding!Pow2[n] - 1 /\ Onward(r, Coding!Read(r, n).next)
<1>1. r.bits \in Seq(Bit) /\ Len(r.bits) \in Nat /\ r.pos \in Nat /\ r.failed \in BOOLEAN
  BY ReaderParts
<1>2. CASE There(r, n)
  <2>1. n <= Coding!Left(r)
    BY <1>1, <1>2 DEF There, Coding!Left
  <2>2. PICK s : s = SubSeq(r.bits, r.pos + 1, r.pos + n)
    OBVIOUS
  <2>3. s \in Seq(Bit) /\ Len(s) = n
    BY <1>1, <1>2, <2>2, BitsAhead
  <2>4. Coding!Read(r, n).val = Coding!Num(s) /\ Coding!Read(r, n).next = Skip(r, n)
    BY <2>1, <2>2 DEF Coding!Read, Skip
  <2> QED
    BY <1>2, <2>3, <2>4, NumType, SkipOnward
<1>3. CASE ~There(r, n)
  <2>1. ~(n <= Coding!Left(r))
    BY <1>1, <1>3 DEF There, Coding!Left
  <2>2. Coding!Read(r, n).val = 0 /\ Coding!Read(r, n).next = [r EXCEPT !.failed = TRUE]
    BY <2>1 DEF Coding!Read
  <2>3. Onward(r, [r EXCEPT !.failed = TRUE])
    <3>1. PICK x : x = [r EXCEPT !.failed = TRUE]
      OBVIOUS
    <3>2. x \in Reader /\ x.bits = r.bits /\ x.pos = r.pos /\ x.failed = TRUE
      BY <3>1 DEF Reader
    <3> QED
      BY <1>1, <3>1, <3>2 DEF Onward
  <2> QED
    BY <2>2, <2>3, PowType
<1> QED
  BY <1>2, <1>3

\* residc_br_read gives the number whose bits are ahead.
LEMMA ReadGives ==
    ASSUME NEW r \in Reader, NEW s \in Seq(Bit), Ahead(r, s), NEW n, n = Len(s)
    PROVE  Gives(Coding!Read(r, n), r, s, Coding!Num(s))
<1>1. r.bits \in Seq(Bit) /\ Len(r.bits) \in Nat /\ r.pos \in Nat /\ r.failed \in BOOLEAN /\ n \in Nat
  BY ReaderParts
<1>2. CASE There(r, n)
  <2>1. n <= Coding!Left(r)
    BY <1>1, <1>2 DEF There, Coding!Left
  <2>2. PICK t : t = SubSeq(r.bits, r.pos + 1, r.pos + n)
    OBVIOUS
  <2>3. t \in Seq(Bit) /\ Len(t) = n /\ \A i \in 1 .. n : t[i] = r.bits[r.pos + i]
    BY <1>1, <1>2, <2>2, BitsAhead
  <2>4. t = s
    <3>1. \A i \in 1 .. n : r.bits[r.pos + i] = s[i]
      BY <1>1, <1>2 DEF Ahead, There
    <3> QED
      BY <2>3, <3>1, SameBits
  <2>5. Coding!Read(r, n).val = Coding!Num(t) /\ Coding!Read(r, n).next = Skip(r, n)
    BY <2>1, <2>2 DEF Coding!Read, Skip
  <2> QED
    BY <1>2, <2>4, <2>5 DEF Gives
<1>3. CASE ~There(r, n)
  <2>1. ~(n <= Coding!Left(r))
    BY <1>1, <1>3 DEF There, Coding!Left
  <2>2. Coding!Read(r, n).next.failed = TRUE
    BY <2>1 DEF Coding!Read, Reader
  <2> QED
    BY <1>3, <2>2 DEF Gives
<1> QED
  BY <1>2, <1>3

\* Reading one string after another.
LEMMA GivesBoth ==
    ASSUME NEW r \in Reader, NEW s \in Seq(Bit), NEW t \in Seq(Bit),
           NEW d, NEW x, Gives(d, r, s, x), Onward(r, d.next),
           NEW e, NEW y, There(r, Len(s)) => Gives(e, d.next, t, y), Onward(d.next, e.next)
    PROVE  /\ Onward(r, e.next)
           /\ Gives(e, r, Cat(s, t), y)
           /\ There(r, Len(Cat(s, t))) => d.val = x /\ e.val = y
<1>1. PICK m \in Nat, n \in Nat : m = Len(s) /\ n = Len(t) /\ Len(Cat(s, t)) = m + n
  BY CatType
<1>2. Len(r.bits) \in Nat /\ r.pos \in Nat
  BY ReaderParts
<1>3. Onward(r, e.next)
  BY OnwardTwice
<1>4. CASE There(r, m)
  <2>1. d.val = x /\ d.next = Skip(r, m) /\ Gives(e, Skip(r, m), t, y)
    BY <1>1, <1>4 DEF Gives
  <2>2. There(Skip(r, m), n) <=> There(r, m + n)
    <3>1. Skip(r, m).bits = r.bits /\ Skip(r, m).pos = r.pos + m
      BY SkipParts
    <3>2. (r.pos + m) + n = r.pos + (m + n)
      BY <1>2
    <3> QED
      BY <3>1, <3>2 DEF There
  <2>3. Skip(Skip(r, m), n) = Skip(r, m + n)
    BY SkipSkip
  <2> QED
    BY <1>1, <1>3, <2>1, <2>2, <2>3 DEF Gives
<1>5. CASE ~There(r, m)
  <2>1. ~There(r, m + n)
    BY <1>2, <1>5 DEF There
  <2>2. d.next.failed = TRUE
    BY <1>1, <1>5 DEF Gives
  <2>3. e.next.failed = TRUE
    BY <2>2, ReaderParts DEF Onward
  <2> QED
    BY <1>1, <1>3, <2>1, <2>3 DEF Gives
<1> QED
  BY <1>4, <1>5

\* The low digits of a number: those above b, then those below.
LEMMA ModSplit ==
    ASSUME NEW m \in Nat, NEW a \in Nat, a > 0, NEW b \in Nat, b > 0
    PROVE  m % (a * b) = ((m \div b) % a) * b + (m % b)
<1>1. PICK x \in Nat, l \in 0 .. b - 1 : x = m \div b /\ l = m % b /\ m = x * b + l
  BY DivMod
<1>2. PICK h \in Nat, g \in 0 .. a - 1 : h = x \div a /\ g = x % a /\ x = h * a + g
  BY DivMod
<1>3. PICK c \in Nat : c = a * b
  OBVIOUS
<1>4. PICK y \in Nat, z \in Nat : y = g * b /\ z = h * a
  BY <1>2
<1>5. z * b = h * c
  BY <1>3, <1>4
<1>6. x * b = z * b + y
  BY <1>2, <1>4
<1>7. y + b <= c
  BY <1>2, <1>3, <1>4, TimesGrows
<1>8. m = h * c + (y + l) /\ y + l \in 0 .. c - 1
  <2>1. PICK w \in Nat : w = h * c
    BY <1>3
  <2> QED
    BY <1>1, <1>4, <1>5, <1>6, <1>7, <2>1
<1>9. m % c = y + l
  BY <1>8, DivUnique
<1> QED
  BY <1>1, <1>2, <1>3, <1>4, <1>9

\* Two reads, put together.
LEMMA HalvesGive ==
    ASSUME NEW r \in Reader, NEW m \in Nat, NEW a \in Nat, Ahead(r, Coding!B(m, a + LIMB)),
           NEW hi, hi = Coding!Read(r, a), NEW lo, lo = Coding!Read(hi.next, LIMB)
    PROVE  Gives([val |-> hi.val * Coding!Pow2[LIMB] + lo.val, next |-> lo.next], r,
                 Coding!B(m, a + LIMB), m % Coding!Pow2[a + LIMB])
<1>1. LIMB \in Nat
  BY WordSizes
<1>2. PICK p \in Nat, c \in Nat : p = Coding!Pow2[LIMB] /\ p > 0 /\ c = Coding!Pow2[a] /\ c > 0
  BY <1>1, PowType
<1>3. PICK h \in Nat : h = m \div p
  BY <1>2, DivMod
<1>4. PICK s \in Seq(Bit) : s = Coding!B(h, a) /\ Len(s) = a
  BY <1>3, BType
<1>5. PICK t \in Seq(Bit) : t = Coding!B(m, LIMB) /\ Len(t) = LIMB
  BY <1>1, BType
<1>6. Coding!B(m, a + LIMB) = Cat(s, t)
  BY <1>1, <1>2, <1>3, <1>4, <1>5, BSplit
<1>7. Ahead(r, s) /\ Ahead(Skip(r, a), t)
  BY <1>4, <1>6, AheadParts
<1>8. Gives(hi, r, s, Coding!Num(s)) /\ Onward(r, hi.next)
  BY <1>4, <1>7, ReadGives, ReadOnward
<1>9. hi.next \in Reader
  BY <1>8 DEF Onward
<1>10. Onward(hi.next, lo.next)
  BY <1>1, <1>9, ReadOnward
<1>11. There(r, Len(s)) => Gives(lo, hi.next, t, Coding!Num(t))
  <2> SUFFICES ASSUME There(r, Len(s)) PROVE Gives(lo, hi.next, t, Coding!Num(t))
    OBVIOUS
  <2>1. hi.next = Skip(r, a)
    BY <1>4, <1>8 DEF Gives
  <2> QED
    BY <1>5, <1>7, <1>9, <2>1, ReadGives
<1>12. /\ Gives(lo, r, Cat(s, t), Coding!Num(t))
       /\ There(r, Len(Cat(s, t))) => hi.val = Coding!Num(s) /\ lo.val = Coding!Num(t)
  BY <1>8, <1>10, <1>11, GivesBoth
<1>13. Coding!Num(s) * p + Coding!Num(t) = m % Coding!Pow2[a + LIMB]
  <2>1. Coding!Num(s) = h % c /\ Coding!Num(t) = m % p
    BY <1>1, <1>2, <1>3, <1>4, <1>5, NumB
  <2>2. Coding!Pow2[a + LIMB] = c * p
    BY <1>1, <1>2, PowSum
  <2>3. m % (c * p) = ((m \div p) % c) * p + (m % p)
    BY <1>2, ModSplit, ZenonT(40)
  <2> QED
    BY <1>3, <2>1, <2>2, <2>3
<1> QED
  BY <1>2, <1>6, <1>12, <1>13 DEF Gives

\* Two reads of half a word give a word and lead onward.
LEMMA WordOnward ==
    ASSUME NEW r \in Reader
    PROVE  Coding!ReadWord(r).val \in 0 .. Coding!U64 - 1 /\ Onward(r, Coding!ReadWord(r).next)
<1>1. LIMB \in Nat
  BY WordSizes
<1>2. PICK p \in Nat : p = Coding!Pow2[LIMB] /\ p > 0 /\ Coding!U64 = p * p
  <2>1. Coding!Pow2[LIMB] \in Nat /\ Coding!Pow2[LIMB] > 0
    BY <1>1, PowType
  <2>2. Coding!U64 = Coding!Pow2[LIMB] * Coding!Pow2[LIMB]
    BY <1>1, PowSum, WordSizes
  <2> QED
    BY <2>1, <2>2
<1>3. PICK hi : hi = Coding!Read(r, LIMB)
  OBVIOUS
<1>4. hi.val \in 0 .. p - 1 /\ Onward(r, hi.next)
  BY <1>1, <1>2, <1>3, ReadOnward
<1>5. hi.next \in Reader
  BY <1>4 DEF Onward
<1>6. PICK lo : lo = Coding!Read(hi.next, LIMB)
  OBVIOUS
<1>7. lo.val \in 0 .. p - 1 /\ Onward(hi.next, lo.next)
  BY <1>1, <1>2, <1>5, <1>6, ReadOnward
<1>8. Onward(r, lo.next)
  BY <1>4, <1>7, OnwardTwice
<1>9. hi.val * p + lo.val \in 0 .. (p * p) - 1
  <2>1. PICK x \in Nat, y \in Nat : x = hi.val /\ y = lo.val /\ x < p /\ y < p
    BY <1>4, <1>7
  <2>2. x * p + p <= p * p
    BY <2>1, TimesGrows
  <2>3. PICK e \in Nat, f \in Nat : e = x * p /\ f = p * p
    OBVIOUS
  <2> QED
    BY <2>1, <2>2, <2>3
<1>10. Coding!ReadWord(r) = [val |-> hi.val * p + lo.val, next |-> lo.next]
  BY <1>2, <1>3, <1>6 DEF Coding!ReadWord
<1> QED
  BY <1>2, <1>8, <1>9, <1>10

\* The two halves of a word are its bits.
LEMMA RawIs ==
    ASSUME NEW u \in 0 .. Coding!U64 - 1
    PROVE  Coding!RawWord(u) = Coding!B(u, LIMB + LIMB) /\ u % Coding!Pow2[LIMB + LIMB] = u
<1>1. LIMB \in Nat /\ u \in Nat
  BY WordSizes
<1>2. Coding!B(u, LIMB + LIMB) = Cat(Coding!B(u \div Coding!Pow2[LIMB], LIMB), Coding!B(u, LIMB))
  BY <1>1, BSplit
<1>3. PICK w \in Nat, z \in Nat : w = Coding!U64 /\ w = Coding!Pow2[LIMB + LIMB] /\ z = 0
  BY WordSizes
<1>4. u = z * w + u /\ u \in 0 .. w - 1
  BY <1>1, <1>3
<1>5. u % w = u
  BY <1>1, <1>4, DivUnique
<1> QED
  BY <1>2, <1>3, <1>5, Zenon DEF Coding!RawWord, Cat

\* A raw word ahead is read back, as two halves.
LEMMA WordGives ==
    ASSUME NEW r \in Reader, NEW u \in 0 .. Coding!U64 - 1, Ahead(r, Coding!RawWord(u))
    PROVE  Gives(Coding!ReadWord(r), r, Coding!RawWord(u), u)
<1>1. LIMB \in Nat /\ u \in Nat
  BY WordSizes
<1>2. PICK hi : hi = Coding!Read(r, LIMB)
  OBVIOUS
<1>3. PICK lo : lo = Coding!Read(hi.next, LIMB)
  OBVIOUS
<1>4. Gives([val |-> hi.val * Coding!Pow2[LIMB] + lo.val, next |-> lo.next], r,
            Coding!B(u, LIMB + LIMB), u % Coding!Pow2[LIMB + LIMB])
  BY <1>1, <1>2, <1>3, RawIs, HalvesGive
<1>5. Coding!ReadWord(r) = [val |-> hi.val * Coding!Pow2[LIMB] + lo.val, next |-> lo.next]
  BY <1>2, <1>3 DEF Coding!ReadWord
<1> QED
  BY <1>4, <1>5, RawIs

\* Whatever is ahead, a remainder is below 2^n and leads onward.
LEMMA RemainderOnward ==
    ASSUME NEW r \in Reader, NEW n \in Nat
    PROVE  Coding!ReadRemainder(r, n).val \in 0 .. Coding!Pow2[n] - 1 /\ Onward(r, Coding!ReadRemainder(r, n).next)
<1>1. LIMB \in Nat
  BY WordSizes
<1>2. CASE n <= LIMB
  <2>1. Coding!ReadRemainder(r, n) = Coding!Read(r, n)
    BY <1>2 DEF Coding!ReadRemainder
  <2> QED
    BY <2>1, ReadOnward
<1>3. CASE ~(n <= LIMB)
  <2>1. PICK a \in Nat : a = n - LIMB /\ n = a + LIMB
    BY <1>1, <1>3
  <2>2. PICK p \in Nat, c \in Nat : p = Coding!Pow2[LIMB] /\ c = Coding!Pow2[a] /\ Coding!Pow2[n] = c * p /\ p > 0
    <3>1. Coding!Pow2[LIMB] \in Nat /\ Coding!Pow2[LIMB] > 0 /\ Coding!Pow2[a] \in Nat
      BY <1>1, PowType
    <3>2. Coding!Pow2[n] = Coding!Pow2[a] * Coding!Pow2[LIMB]
      BY <1>1, <2>1, PowSum
    <3> QED
      BY <3>1, <3>2
  <2>3. PICK hi : hi = Coding!Read(r, a)
    OBVIOUS
  <2>4. hi.val \in 0 .. c - 1 /\ Onward(r, hi.next)
    BY <2>2, <2>3, ReadOnward
  <2>5. hi.next \in Reader
    BY <2>4 DEF Onward
  <2>6. PICK lo : lo = Coding!Read(hi.next, LIMB)
    OBVIOUS
  <2>7. lo.val \in 0 .. p - 1 /\ Onward(hi.next, lo.next)
    BY <1>1, <2>2, <2>5, <2>6, ReadOnward
  <2>8. Onward(r, lo.next)
    BY <2>4, <2>7, OnwardTwice
  <2>9. hi.val * p + lo.val \in 0 .. (c * p) - 1
    <3>1. PICK x \in Nat, y \in Nat : x = hi.val /\ y = lo.val /\ x < c /\ y < p
      BY <2>4, <2>7
    <3>2. x * p + p <= c * p
      BY <3>1, TimesGrows
    <3>3. PICK e \in Nat, f \in Nat : e = x * p /\ f = c * p
      OBVIOUS
    <3> QED
      BY <3>1, <3>2, <3>3
  <2>10. Coding!ReadRemainder(r, n) = [val |-> hi.val * p + lo.val, next |-> lo.next]
    BY <1>3, <2>1, <2>2, <2>3, <2>6 DEF Coding!ReadRemainder
  <2> QED
    BY <2>2, <2>8, <2>9, <2>10
<1> QED
  BY <1>2, <1>3

\* A remainder ahead is read back, in one part or in two.
LEMMA RemainderGives ==
    ASSUME NEW r \in Reader, NEW m \in Nat, NEW n \in Nat, Ahead(r, Coding!B(m, n))
    PROVE  Gives(Coding!ReadRemainder(r, n), r, Coding!B(m, n), m % Coding!Pow2[n])
<1>1. LIMB \in Nat
  BY WordSizes
<1>2. CASE n <= LIMB
  <2>1. Coding!ReadRemainder(r, n) = Coding!Read(r, n)
    BY <1>2 DEF Coding!ReadRemainder
  <2>2. PICK s \in Seq(Bit) : s = Coding!B(m, n) /\ n = Len(s)
    BY BType
  <2>3. Coding!Num(s) = m % Coding!Pow2[n]
    BY <2>2, NumB
  <2>4. Gives(Coding!Read(r, n), r, s, Coding!Num(s))
    BY <2>2, ReadGives
  <2> QED
    BY <2>1, <2>2, <2>3, <2>4
<1>3. CASE ~(n <= LIMB)
  <2>1. PICK a \in Nat : a = n - LIMB /\ n = a + LIMB
    BY <1>1, <1>3
  <2>2. PICK hi : hi = Coding!Read(r, a)
    OBVIOUS
  <2>3. PICK lo : lo = Coding!Read(hi.next, LIMB)
    OBVIOUS
  <2>4. Gives([val |-> hi.val * Coding!Pow2[LIMB] + lo.val, next |-> lo.next], r,
              Coding!B(m, a + LIMB), m % Coding!Pow2[a + LIMB])
    BY <2>1, <2>2, <2>3, HalvesGive
  <2>5. Coding!ReadRemainder(r, n) = [val |-> hi.val * Coding!Pow2[LIMB] + lo.val, next |-> lo.next]
    BY <1>3, <2>1, <2>2, <2>3 DEF Coding!ReadRemainder
  <2> QED
    BY <2>1, <2>4, <2>5
<1> QED
  BY <1>2, <1>3

\* The bits of a unary number that there are up to limit.
RunTo(r, limit) ==
    {i \in 0 .. limit : i <= Coding!Left(r) /\ \A j \in 1 .. i : r.bits[r.pos + j] = 1} \cup {0}

\* The largest of a set of numbers is what Max is.
LEMMA MaxIs ==
    ASSUME NEW T, NEW x \in T, T \subseteq Nat, \A y \in T : y <= x
    PROVE  Coding!Max(T) = x
<1>1. \A y \in T : x >= y
  OBVIOUS
<1>2. \A z \in T : (\A y \in T : z >= y) => z = x
  OBVIOUS
<1> QED
  BY <1>1, <1>2 DEF Coding!Max

\* A set of numbers below a limit has a largest.
LEMMA MaxExists ==
    ASSUME NEW limit \in Nat, NEW T, T \subseteq 0 .. limit, T # {}
    PROVE  Coding!Max(T) \in T /\ \A y \in T : y <= Coding!Max(T)
<1> DEFINE U == {i \in Nat : \A y \in T : y <= i}
<1>1. limit \in U
  OBVIOUS
<1>2. PICK x \in U : \A i \in U : x <= i
  <2>1. U \subseteq Nat /\ U # {}
    BY <1>1
  <2> HIDE DEF U
  <2> QED
    BY <2>1, LeastNatural
<1>3. x \in T
  <2>1. CASE x = 0
    <3>1. PICK y \in T : y <= x
      BY <1>2
    <3>2. y \in Nat /\ x \in Nat
      BY <1>2
    <3>3. y = x
      BY <2>1, <3>1, <3>2
    <3> QED
      BY <3>3
  <2>2. CASE x # 0
    <3>1. x - 1 \in Nat /\ ~(x <= x - 1)
      BY <1>2, <2>2
    <3>2. x - 1 \notin U
      BY <1>2, <3>1
    <3>3. PICK y \in T : ~(y <= x - 1)
      BY <3>1, <3>2
    <3>4. y <= x /\ y \in Nat
      BY <1>2
    <3> QED
      BY <1>2, <3>1, <3>3, <3>4
  <2> QED
    BY <2>1, <2>2
<1>4. T \subseteq Nat /\ \A y \in T : y <= x
  BY <1>2
<1> HIDE DEF U
<1>5. Coding!Max(T) = x
  BY <1>3, <1>4, MaxIs
<1> QED
  BY <1>3, <1>4, <1>5

\* The loop over br_read(1) counts the ones ahead and takes the zero behind
\* them, unless it has counted to its limit.
LEMMA ReadUnaryIs ==
    ASSUME NEW r \in Reader, NEW limit \in Nat, NEW q, q = Coding!Max(RunTo(r, limit))
    PROVE  Coding!ReadUnary(r, limit) =
              [val |-> q, next |-> IF q = limit THEN Skip(r, q) ELSE Coding!Read(Skip(r, q), 1).next]
  BY DEF Coding!ReadUnary, RunTo, Skip

\* Whatever is ahead, a unary number is at most its limit and leads onward.
LEMMA UnaryOnward ==
    ASSUME NEW r \in Reader, NEW limit \in Nat
    PROVE  Coding!ReadUnary(r, limit).val \in 0 .. limit /\ Onward(r, Coding!ReadUnary(r, limit).next)
<1>1. PICK T : T = RunTo(r, limit)
  OBVIOUS
<1>2. Coding!Left(r) \in Int /\ r.pos \in Nat /\ Len(r.bits) \in Nat /\ Coding!Left(r) = Len(r.bits) - r.pos
  BY ReaderParts DEF Coding!Left
<1>3. T \subseteq 0 .. limit /\ T # {} /\ \A i \in T : i # 0 => i <= Coding!Left(r)
  BY <1>1 DEF RunTo
<1>4. PICK q \in T : q = Coding!Max(T)
  BY <1>3, MaxExists
<1>5. q \in 0 .. limit /\ q \in Nat /\ (q # 0 => q <= Coding!Left(r))
  BY <1>3
<1>6. Onward(r, Skip(r, q))
  <2>1. Skip(r, q) \in Reader /\ Skip(r, q).bits = r.bits
        /\ Skip(r, q).pos = r.pos + q /\ Skip(r, q).failed = r.failed
    BY <1>5, SkipParts
  <2>2. CASE q = 0
    BY <1>2, <2>1, <2>2 DEF Onward
  <2>3. CASE q # 0
    BY <1>2, <1>5, <2>1, <2>3 DEF Onward
  <2> QED
    BY <2>2, <2>3
<1>7. Onward(r, Coding!Read(Skip(r, q), 1).next)
  <2>1. Skip(r, q) \in Reader
    BY <1>5, SkipParts
  <2>2. PICK n \in Nat : n = 1
    OBVIOUS
  <2>3. Onward(Skip(r, q), Coding!Read(Skip(r, q), n).next)
    BY <2>1, ReadOnward
  <2> QED
    BY <1>6, <2>2, <2>3, OnwardTwice
<1> QED
  BY <1>1, <1>4, <1>5, <1>6, <1>7, ReadUnaryIs

\* How many ones are found where there should be n.
LEMMA RunLength ==
    ASSUME NEW r \in Reader, r.pos <= Len(r.bits), NEW limit \in Nat, NEW n \in 0 .. limit,
           \A j \in 1 .. n : r.pos + j <= Len(r.bits) => r.bits[r.pos + j] = 1,
           n = limit \/ (There(r, n + 1) => r.bits[r.pos + (n + 1)] # 1)
    PROVE  Coding!Max(RunTo(r, limit)) = IF There(r, n) THEN n ELSE Coding!Left(r)
<1>1. PICK T : T = RunTo(r, limit)
  OBVIOUS
<1>2. r.pos \in Nat /\ Len(r.bits) \in Nat /\ n \in Nat
  BY ReaderParts
<1>3. PICK l \in Nat : l = Coding!Left(r) /\ Len(r.bits) = r.pos + l
  BY <1>2 DEF Coding!Left
<1>4. PICK m \in Nat : m = (IF There(r, n) THEN n ELSE l) /\ m <= n /\ m <= l
  BY <1>2, <1>3 DEF There
<1>5. m \in T
  <2>1. m \in 0 .. limit
    BY <1>4
  <2>2. ASSUME NEW j \in 1 .. m PROVE r.bits[r.pos + j] = 1
    <3>1. j \in 1 .. n /\ r.pos + j <= Len(r.bits)
      BY <1>2, <1>3, <1>4
    <3> QED
      BY <3>1
  <2> QED
    BY <1>1, <1>3, <1>4, <2>1, <2>2 DEF RunTo
<1>6. ASSUME NEW y \in T PROVE y \in Nat /\ y <= m
  <2>1. y \in 0 .. limit /\ (y # 0 => y <= l) /\ \A j \in 1 .. y : r.bits[r.pos + j] = 1
    BY <1>1, <1>3 DEF RunTo
  <2>2. CASE ~There(r, n)
    BY <1>4, <2>1, <2>2
  <2>3. CASE There(r, n)
    <3>1. SUFFICES ASSUME y > n PROVE FALSE
      BY <1>2, <1>4, <2>1, <2>3
    <3>2. n + 1 \in 1 .. y /\ n + 1 <= l /\ n # limit
      BY <1>2, <2>1, <3>1
    <3>3. There(r, n + 1)
      BY <1>2, <1>3, <3>2 DEF There
    <3> QED
      BY <2>1, <3>2, <3>3
  <2> QED
    BY <2>2, <2>3
<1>7. Coding!Max(T) = m
  BY <1>5, <1>6, MaxIs
<1> QED
  BY <1>1, <1>3, <1>4, <1>7

\* A unary number ahead, below the limit, is read back.
LEMMA UnaryGives ==
    ASSUME NEW r \in Reader, r.pos <= Len(r.bits), NEW limit \in Nat, NEW q \in 0 .. limit - 1,
           Ahead(r, Cat(Coding!Ones(q), << 0 >>))
    PROVE  Gives(Coding!ReadUnary(r, limit), r, Cat(Coding!Ones(q), << 0 >>), q)
<1>1. q \in Nat /\ q \in 0 .. limit /\ q # limit /\ q + 1 \in Nat
  OBVIOUS
<1>2. PICK s \in Seq(Bit) : s = Cat(Coding!Ones(q), << 0 >>) /\ Len(s) = q + 1
                          /\ (\A i \in 1 .. q : s[i] = 1) /\ s[q + 1] = 0
  BY <1>1, UnaryType
<1>3. r.pos \in Nat /\ Len(r.bits) \in Nat
  BY ReaderParts
<1>4. \A j \in 1 .. q + 1 : r.pos + j <= Len(r.bits) => r.bits[r.pos + j] = s[j]
  BY <1>2 DEF Ahead
<1>5. \A j \in 1 .. q : r.pos + j <= Len(r.bits) => r.bits[r.pos + j] = 1
  <2>1. \A j \in 1 .. q : j \in 1 .. q + 1
    OBVIOUS
  <2> QED
    BY <1>2, <1>4, <2>1
<1>6. There(r, q + 1) => r.bits[r.pos + (q + 1)] # 1
  <2>1. q + 1 \in 1 .. q + 1
    BY <1>1
  <2> QED
    BY <1>2, <1>4, <2>1 DEF There
<1>7. PICK m : m = (IF There(r, q) THEN q ELSE Coding!Left(r)) /\ m = Coding!Max(RunTo(r, limit))
  BY <1>1, <1>5, <1>6, RunLength
<1>8. m \in Nat /\ m # limit /\ m <= q
  BY <1>1, <1>3, <1>7 DEF There, Coding!Left
<1>9. Coding!ReadUnary(r, limit) = [val |-> m, next |-> Coding!Read(Skip(r, m), 1).next]
  BY <1>7, <1>8, ReadUnaryIs
<1>10. PICK x \in Reader : x = Skip(r, m) /\ x.bits = r.bits /\ x.pos = r.pos + m
  BY <1>8, SkipParts
<1>11. Coding!Left(x) \in Int /\ Coding!Left(x) = Len(r.bits) - (r.pos + m)
  BY <1>3, <1>8, <1>10 DEF Coding!Left
<1>12. CASE There(r, q + 1)
  <2>1. m = q
    BY <1>1, <1>3, <1>7, <1>12 DEF There
  <2>2. 1 <= Coding!Left(x)
    BY <1>1, <1>3, <1>11, <1>12, <2>1 DEF There
  <2>3. Coding!Read(x, 1).next = Skip(x, 1)
    BY <2>2 DEF Coding!Read, Skip
  <2>4. Skip(x, 1) = Skip(r, q + 1)
    BY <1>1, <1>10, <2>1, SkipSkip
  <2> QED
    BY <1>2, <1>9, <1>10, <1>12, <2>1, <2>3, <2>4 DEF Gives
<1>13. CASE ~There(r, q + 1)
  <2>1. ~(1 <= Coding!Left(x))
    BY <1>1, <1>3, <1>7, <1>11, <1>13, SMTT(20) DEF There, Coding!Left
  <2>2. Coding!Read(x, 1).next.failed = TRUE
    BY <2>1 DEF Coding!Read, Reader
  <2> QED
    BY <1>2, <1>9, <1>10, <1>13, <2>2 DEF Gives
<1> QED
  BY <1>12, <1>13

\* As many ones as the limit are read as the limit, without a zero behind.
LEMMA OnesGive ==
    ASSUME NEW r \in Reader, r.pos <= Len(r.bits), NEW limit \in Nat, Ahead(r, Coding!Ones(limit))
    PROVE  Gives(Coding!ReadUnary(r, limit), r, Coding!Ones(limit), limit)
<1>1. PICK s \in Seq(Bit) : s = Coding!Ones(limit) /\ Len(s) = limit /\ \A i \in 1 .. limit : s[i] = 1
  BY OnesType
<1>2. r.pos \in Nat /\ Len(r.bits) \in Nat
  BY ReaderParts
<1>3. \A j \in 1 .. limit : r.pos + j <= Len(r.bits) => r.bits[r.pos + j] = 1
  BY <1>1 DEF Ahead
<1>4. limit \in 0 .. limit
  OBVIOUS
<1>5. PICK m : m = (IF There(r, limit) THEN limit ELSE Coding!Left(r)) /\ m = Coding!Max(RunTo(r, limit))
  BY <1>3, <1>4, RunLength
<1>6. CASE There(r, limit)
  <2>1. Coding!ReadUnary(r, limit) = [val |-> limit, next |-> Skip(r, limit)]
    <3>1. PICK e : e = Skip(r, m)
      OBVIOUS
    <3>2. Coding!ReadUnary(r, limit) = [val |-> m, next |-> IF m = limit THEN e ELSE Coding!Read(e, 1).next]
      BY <1>5, <3>1, ReadUnaryIs, SMTT(20)
    <3>3. m = limit
      BY <1>5, <1>6, ZenonT(40)
    <3> QED
      BY <3>1, <3>2, <3>3
  <2> QED
    BY <1>1, <1>6, <2>1 DEF Gives
<1>7. CASE ~There(r, limit)
  <2>1. m \in Nat /\ m # limit /\ Len(r.bits) = r.pos + m
    BY <1>2, <1>5, <1>7 DEF There, Coding!Left
  <2>2. PICK x \in Reader : x = Skip(r, m) /\ x.bits = r.bits /\ x.pos = r.pos + m
    BY <2>1, SkipParts
  <2>3. Coding!ReadUnary(r, limit) = [val |-> m, next |-> Coding!Read(x, 1).next]
    BY <1>5, <2>1, <2>2, ReadUnaryIs
  <2>4. ~(1 <= Coding!Left(x))
    BY <1>2, <2>1, <2>2 DEF Coding!Left
  <2>5. Coding!Read(x, 1).next.failed = TRUE
    BY <2>4 DEF Coding!Read, Reader
  <2> QED
    BY <1>1, <1>7, <2>3, <2>5 DEF Gives
<1> QED
  BY <1>6, <1>7

-----------------------------------------------------------------------------
(* Every coder reads what it writes. *)

\* A decoder that reads on as another one does, and returns x where that has
\* found the bits, gives x.
LEMMA GivesOther ==
    ASSUME NEW r, NEW s, NEW d, NEW e, NEW x, NEW y,
           Gives(e, r, s, y), d.next = e.next, There(r, Len(s)) => d.val = x
    PROVE  Gives(d, r, s, x)
  BY DEF Gives

\* The remainder behind the leading one is all of an Exp-Golomb number.
LEMMA HighDigit ==
    ASSUME NEW z \in Nat, NEW k \in Nat, NEW q \in Nat, Exponent(z, k, q)
    PROVE  Coding!Pow2[q + k] + ((z + Coding!Pow2[k]) % Coding!Pow2[q + k]) - Coding!Pow2[k] = z
<1>1. q + k \in Nat
  OBVIOUS
<1>2. PICK p \in Nat, c \in Nat : p = Coding!Pow2[q + k] /\ p > 0 /\ c = Coding!Pow2[k]
  BY <1>1, PowType
<1>3. PICK m \in Nat : m = z + c
  OBVIOUS
<1>4. p <= m /\ m < 2 * p
  BY <1>2, <1>3 DEF Exponent
<1>5. PICK l \in 0 .. p - 1, o \in Nat : o = 1 /\ m = o * p + l /\ m = p + l
  <2>1. m - p \in 0 .. p - 1 /\ m = 1 * p + (m - p) /\ m = p + (m - p)
    BY <1>4
  <2> QED
    BY <2>1
<1>6. m % p = l
  BY <1>5, DivUnique
<1>7. p + l - c = z
  BY <1>3, <1>5
<1> QED
  BY <1>2, <1>3, <1>6, <1>7

\* A remainder with its highest digit put back, less the offset, is a word.
LEMMA RestoredType ==
    ASSUME NEW k \in 0 .. LIMB - 1, NEW q \in 0 .. LIMB, q # LIMB,
           NEW x \in 0 .. Coding!Pow2[q + k] - 1
    PROVE  Coding!Pow2[q + k] + x - Coding!Pow2[k] \in 0 .. Coding!U64 - 1
<1>1. LIMB \in Nat /\ k \in Nat /\ q \in Nat /\ q + k \in Nat
  BY WordSizes
<1>2. PICK p \in Nat, c \in Nat, h \in Nat :
         p = Coding!Pow2[q + k] /\ c = Coding!Pow2[k] /\ c <= p /\ h = Coding!HALF /\ p <= h /\ Coding!U64 = 2 * h
  <2>1. Coding!Pow2[q + k] \in Nat /\ Coding!Pow2[k] \in Nat
    BY <1>1, PowType
  <2>2. k <= q + k
    BY <1>1
  <2>3. Coding!Pow2[k] <= Coding!Pow2[q + k]
    BY <1>1, <2>2, PowMonotone
  <2>4. q + k <= 2 * LIMB - 1 /\ 2 * LIMB - 1 \in Nat
    BY <1>1
  <2>5. Coding!Pow2[q + k] <= Coding!Pow2[2 * LIMB - 1]
    BY <1>1, <2>4, PowMonotone
  <2> QED
    BY <2>1, <2>3, <2>5, WordSizes
<1>3. PICK y \in Nat : y = x /\ y <= p - 1
  BY <1>2
<1>4. p + y - c \in 0 .. 2 * h - 1
  BY <1>2, <1>3
<1> QED
  BY <1>2, <1>3, <1>4

\* Whatever is ahead, decode_residual_expg returns an int64_t.
LEMMA ExpGolombOnward ==
    ASSUME NEW r \in Reader, NEW k \in 0 .. LIMB - 1
    PROVE  Coding!DecodeExpGolomb(r, k).val \in Coding!Int64 /\ Onward(r, Coding!DecodeExpGolomb(r, k).next)
<1>1. LIMB \in Nat /\ k \in Nat
  BY WordSizes
<1>2. PICK unary, q : unary = Coding!ReadUnary(r, LIMB) /\ q = unary.val
  OBVIOUS
<1>3. q \in 0 .. LIMB /\ q \in Nat /\ q + k \in Nat /\ Onward(r, unary.next)
  BY <1>1, <1>2, UnaryOnward
<1>4. unary.next \in Reader
  BY <1>3 DEF Onward
<1>5. PICK whole, rem : whole = Coding!ReadWord(unary.next) /\ rem = Coding!ReadRemainder(unary.next, q + k)
  OBVIOUS
<1>6. Coding!DecodeExpGolomb(r, k) =
         IF q = LIMB THEN [val |-> Coding!Value(whole.val), next |-> whole.next]
         ELSE [val |-> Coding!UnZigZag(Coding!Pow2[q + k] + rem.val - Coding!Pow2[k]), next |-> rem.next]
  BY <1>2, <1>5 DEF Coding!DecodeExpGolomb
<1>7. whole.val \in 0 .. Coding!U64 - 1 /\ Onward(r, whole.next)
  BY <1>3, <1>4, <1>5, WordOnward, OnwardTwice
<1>8. rem.val \in 0 .. Coding!Pow2[q + k] - 1 /\ Onward(r, rem.next)
  BY <1>3, <1>4, <1>5, RemainderOnward, OnwardTwice
<1>9. CASE q = LIMB
  BY <1>6, <1>7, <1>9, ValueType
<1>10. CASE q # LIMB
  <2>2. PICK u \in 0 .. Coding!U64 - 1 : u = Coding!Pow2[q + k] + rem.val - Coding!Pow2[k]
    BY <1>1, <1>3, <1>8, <1>10, RestoredType
  <2> QED
    BY <1>6, <1>8, <1>10, <2>2, ValueType
<1> QED
  BY <1>9, <1>10

\* decode_residual_expg reads back what encode_residual_expg has written,
\* escape and split remainder included.
LEMMA ExpGolombGives ==
    ASSUME NEW r \in Reader, r.pos <= Len(r.bits), NEW k \in 0 .. LIMB - 1, NEW v \in Coding!Int64,
           Ahead(r, Coding!ExpGolomb(v, k))
    PROVE  Gives(Coding!DecodeExpGolomb(r, k), r, Coding!ExpGolomb(v, k), v)
<1>1. LIMB \in Nat /\ k \in Nat
  BY WordSizes
<1>2. PICK unary, q : unary = Coding!ReadUnary(r, LIMB) /\ q = unary.val
  OBVIOUS
<1>3. q \in 0 .. LIMB /\ q \in Nat /\ q + k \in Nat /\ Onward(r, unary.next)
  BY <1>1, <1>2, UnaryOnward
<1>4. unary.next \in Reader
  BY <1>3 DEF Onward
<1>5. PICK whole, rem : whole = Coding!ReadWord(unary.next) /\ rem = Coding!ReadRemainder(unary.next, q + k)
  OBVIOUS
<1>6. Coding!DecodeExpGolomb(r, k) =
         IF q = LIMB THEN [val |-> Coding!Value(whole.val), next |-> whole.next]
         ELSE [val |-> Coding!UnZigZag(Coding!Pow2[q + k] + rem.val - Coding!Pow2[k]), next |-> rem.next]
  BY <1>2, <1>5 DEF Coding!DecodeExpGolomb
<1>7. PICK e : e = IF q = LIMB THEN whole ELSE rem
  OBVIOUS
<1>8. Onward(unary.next, e.next)
  BY <1>3, <1>4, <1>5, <1>7, WordOnward, RemainderOnward
<1>9. Coding!DecodeExpGolomb(r, k).next = e.next
  BY <1>6, <1>7
<1>10. CASE Coding!ExpGolomb(v, k) = Cat(Coding!Ones(LIMB), Coding!RawWord(Coding!Word(v)))
  <2>1. PICK s \in Seq(Bit) : s = Coding!Ones(LIMB)
    BY <1>1, OnesType
  <2>2. PICK u \in 0 .. Coding!U64 - 1 : u = Coding!Word(v) /\ Coding!Value(u) = v
    BY ZigZags
  <2>3. PICK t \in Seq(Bit) : t = Coding!RawWord(u)
    BY RawType
  <2>4. Ahead(r, s) /\ Ahead(Skip(r, Len(s)), t)
    BY <1>10, <2>1, <2>2, <2>3, AheadParts
  <2>5. Gives(unary, r, s, LIMB)
    BY <1>1, <1>2, <2>1, <2>4, OnesGive
  <2>6. ASSUME There(r, Len(s)) PROVE Gives(e, unary.next, t, u)
    <3>1. q = LIMB /\ unary.next = Skip(r, Len(s))
      BY <1>2, <2>5, <2>6 DEF Gives
    <3> QED
      BY <1>4, <1>5, <1>7, <2>3, <2>4, <3>1, WordGives
  <2>7. Gives(e, r, Cat(s, t), u) /\ (There(r, Len(Cat(s, t))) => unary.val = LIMB /\ e.val = u)
    BY <1>3, <1>8, <2>5, <2>6, GivesBoth
  <2>8. There(r, Len(Cat(s, t))) => Coding!DecodeExpGolomb(r, k).val = v
    BY <1>2, <1>6, <1>7, <2>2, <2>7
  <2> QED
    BY <1>9, <1>10, <2>1, <2>2, <2>3, <2>7, <2>8, GivesOther
<1>11. ASSUME NEW n \in 0 .. LIMB - 1, Exponent(Coding!ZigZag(v), k, n),
              Coding!ExpGolomb(v, k) = Cat(Cat(Coding!Ones(n), << 0 >>), Coding!B(Coding!ZigZag(v) + Coding!Pow2[k], n + k))
       PROVE  Gives(Coding!DecodeExpGolomb(r, k), r, Coding!ExpGolomb(v, k), v)
  <2>1. n \in Nat /\ n # LIMB /\ n + k \in Nat
    BY <1>1
  <2>2. PICK s \in Seq(Bit) : s = Cat(Coding!Ones(n), << 0 >>)
    BY <2>1, UnaryType
  <2>3. PICK z \in Nat : z = Coding!ZigZag(v) /\ Coding!UnZigZag(z) = v
    BY ZigZags, WordSizes
  <2>4. PICK m \in Nat : m = z + Coding!Pow2[k]
    BY <1>1, PowType
  <2>5. PICK t \in Seq(Bit) : t = Coding!B(m, n + k)
    BY <2>1, BType
  <2>6. Ahead(r, s) /\ Ahead(Skip(r, Len(s)), t)
    BY <1>11, <2>2, <2>3, <2>4, <2>5, AheadParts
  <2>7. Gives(unary, r, s, n)
    BY <1>1, <1>2, <2>2, <2>6, UnaryGives
  <2>8. PICK y : y = m % Coding!Pow2[n + k]
    OBVIOUS
  <2>9. ASSUME There(r, Len(s)) PROVE Gives(e, unary.next, t, y)
    <3>1. q = n /\ unary.next = Skip(r, Len(s))
      BY <1>2, <2>7, <2>9 DEF Gives
    <3> QED
      BY <1>4, <1>5, <1>7, <2>1, <2>5, <2>6, <2>8, <3>1, RemainderGives
  <2>10. Gives(e, r, Cat(s, t), y) /\ (There(r, Len(Cat(s, t))) => unary.val = n /\ e.val = y)
    BY <1>3, <1>8, <2>7, <2>9, GivesBoth
  <2>11. Coding!Pow2[n + k] + y - Coding!Pow2[k] = z
    BY <1>1, <1>11, <2>1, <2>3, <2>4, <2>8, HighDigit
  <2>12. There(r, Len(Cat(s, t))) => Coding!DecodeExpGolomb(r, k).val = v
    BY <1>2, <1>6, <1>7, <2>1, <2>3, <2>10, <2>11
  <2> QED
    BY <1>9, <1>11, <2>2, <2>3, <2>4, <2>5, <2>10, <2>12, GivesOther
<1> QED
  BY <1>10, <1>11, ExpGolombIs

\* The bit that ends a unary number.
LEMMA ZeroBit ==
    << 0 >> \in Seq(Bit) /\ Len(<< 0 >>) = 1
  BY DEF Bit

\* Whatever is ahead, an escape behind a bit is a word and leads onward.
LEMMA EscapeOnward ==
    ASSUME NEW x \in Reader, NEW whole, whole = Coding!ReadWord(Coding!Read(x, 1).next)
    PROVE  whole.val \in 0 .. Coding!U64 - 1 /\ Onward(x, whole.next)
<1>1. PICK n, y : n \in Nat /\ n = 1 /\ y = Coding!Read(x, n).next
  OBVIOUS
<1>2. Onward(x, y)
  BY <1>1, ReadOnward
<1>3. y \in Reader
  BY <1>2 DEF Onward
<1> QED
  BY <1>1, <1>2, <1>3, WordOnward, OnwardTwice

\* A word behind a bit that says nothing.
LEMMA EscapeGives ==
    ASSUME NEW x \in Reader, NEW u \in 0 .. Coding!U64 - 1, Ahead(x, Cat(<< 0 >>, Coding!RawWord(u))),
           NEW whole, whole = Coding!ReadWord(Coding!Read(x, 1).next)
    PROVE  Gives(whole, x, Cat(<< 0 >>, Coding!RawWord(u)), u)
<1>1. PICK s \in Seq(Bit), n \in Nat : s = << 0 >> /\ n = 1 /\ Len(s) = n
  BY ZeroBit
<1>2. PICK t \in Seq(Bit) : t = Coding!RawWord(u)
  BY RawType
<1>3. Ahead(x, s) /\ Ahead(Skip(x, Len(s)), t)
  BY <1>1, <1>2, AheadParts
<1>4. PICK d : d = Coding!Read(x, n)
  OBVIOUS
<1>5. Gives(d, x, s, Coding!Num(s)) /\ Onward(x, d.next)
  BY <1>1, <1>3, <1>4, ReadGives, ReadOnward
<1>6. d.next \in Reader
  BY <1>5 DEF Onward
<1>7. whole = Coding!ReadWord(d.next)
  BY <1>1, <1>4
<1>8. Onward(d.next, whole.next)
  BY <1>6, <1>7, WordOnward
<1>9. ASSUME There(x, Len(s)) PROVE Gives(whole, d.next, t, u)
  <2>1. d.next = Skip(x, Len(s))
    BY <1>5, <1>9 DEF Gives
  <2> QED
    BY <1>2, <1>3, <1>6, <1>7, <2>1, WordGives
<1>10. Gives(whole, x, Cat(s, t), u)
  BY <1>5, <1>8, <1>9, GivesBoth
<1> QED
  BY <1>1, <1>2, <1>10

\* The bit behind the ones of an escape belongs to what follows as well as to
\* what precedes it.
LEMMA EscapeIs ==
    ASSUME NEW u \in 0 .. Coding!U64 - 1, NEW n \in Nat
    PROVE  /\ Cat(<< 0 >>, Coding!RawWord(u)) \in Seq(Bit)
           /\ Cat(Cat(Coding!Ones(n), << 0 >>), Coding!RawWord(u)) = Cat(Coding!Ones(n), Cat(<< 0 >>, Coding!RawWord(u)))
<1>1. PICK s \in Seq(Bit) : s = << 0 >>
  BY ZeroBit
<1>2. PICK t \in Seq(Bit) : t = Coding!RawWord(u)
  BY RawType
<1>3. PICK o \in Seq(Bit) : o = Coding!Ones(n)
  BY OnesType
<1> QED
  BY <1>1, <1>2, <1>3, CatType, CatCat, ZenonT(40)

\* Whatever is ahead, the Exp-Golomb decoder of bench/ returns an int64_t.
LEMMA BenchExpGolombOnward ==
    ASSUME NEW r \in Reader, NEW k \in 0 .. LIMB - 1
    PROVE  Coding!DecodeBenchExpGolomb(r, k).val \in Coding!Int64 /\ Onward(r, Coding!DecodeBenchExpGolomb(r, k).next)
<1>1. LIMB \in Nat /\ k \in Nat
  BY WordSizes
<1>2. PICK unary, q : unary = Coding!ReadUnary(r, LIMB) /\ q = unary.val
  OBVIOUS
<1>3. q \in 0 .. LIMB /\ q \in Nat /\ q + k \in Nat /\ Onward(r, unary.next)
  BY <1>1, <1>2, UnaryOnward
<1>4. unary.next \in Reader
  BY <1>3 DEF Onward
<1>5. PICK whole, rem : whole = Coding!ReadWord(Coding!Read(unary.next, 1).next)
                     /\ rem = Coding!ReadRemainder(unary.next, q + k)
  OBVIOUS
<1>6. Coding!DecodeBenchExpGolomb(r, k) =
         IF q = LIMB THEN [val |-> Coding!UnZigZag(whole.val), next |-> whole.next]
         ELSE [val |-> Coding!UnZigZag(Coding!Pow2[q + k] + rem.val - Coding!Pow2[k]), next |-> rem.next]
  BY <1>2, <1>5 DEF Coding!DecodeBenchExpGolomb
<1>7. whole.val \in 0 .. Coding!U64 - 1 /\ Onward(r, whole.next)
  BY <1>3, <1>4, <1>5, EscapeOnward, OnwardTwice
<1>8. rem.val \in 0 .. Coding!Pow2[q + k] - 1 /\ Onward(r, rem.next)
  BY <1>3, <1>4, <1>5, RemainderOnward, OnwardTwice
<1>9. CASE q = LIMB
  BY <1>6, <1>7, <1>9, ValueType
<1>10. CASE q # LIMB
  <2>1. PICK u \in 0 .. Coding!U64 - 1 : u = Coding!Pow2[q + k] + rem.val - Coding!Pow2[k]
    BY <1>1, <1>3, <1>8, <1>10, RestoredType
  <2> QED
    BY <1>6, <1>8, <1>10, <2>1, ValueType
<1> QED
  BY <1>9, <1>10

\* The Exp-Golomb decoder of bench/ reads back what its encoder has written.
LEMMA BenchExpGolombGives ==
    ASSUME NEW r \in Reader, r.pos <= Len(r.bits), NEW k \in 0 .. LIMB - 1, NEW v \in Coding!Int64,
           Coding!ZigZag(v) + Coding!Pow2[k] < Coding!U64, Ahead(r, Coding!BenchExpGolomb(v, k))
    PROVE  Gives(Coding!DecodeBenchExpGolomb(r, k), r, Coding!BenchExpGolomb(v, k), v)
<1>1. LIMB \in Nat /\ k \in Nat
  BY WordSizes
<1>2. PICK unary, q : unary = Coding!ReadUnary(r, LIMB) /\ q = unary.val
  OBVIOUS
<1>3. q \in 0 .. LIMB /\ q \in Nat /\ q + k \in Nat /\ Onward(r, unary.next)
  BY <1>1, <1>2, UnaryOnward
<1>4. unary.next \in Reader
  BY <1>3 DEF Onward
<1>5. PICK whole, rem : whole = Coding!ReadWord(Coding!Read(unary.next, 1).next)
                     /\ rem = Coding!ReadRemainder(unary.next, q + k)
  OBVIOUS
<1>6. Coding!DecodeBenchExpGolomb(r, k) =
         IF q = LIMB THEN [val |-> Coding!UnZigZag(whole.val), next |-> whole.next]
         ELSE [val |-> Coding!UnZigZag(Coding!Pow2[q + k] + rem.val - Coding!Pow2[k]), next |-> rem.next]
  BY <1>2, <1>5 DEF Coding!DecodeBenchExpGolomb
<1>7. PICK e : e = IF q = LIMB THEN whole ELSE rem
  OBVIOUS
<1>8. Onward(unary.next, e.next)
  BY <1>3, <1>4, <1>5, <1>7, EscapeOnward, RemainderOnward
<1>9. Coding!DecodeBenchExpGolomb(r, k).next = e.next
  BY <1>6, <1>7
<1>10. PICK z \in 0 .. Coding!U64 - 1 : z = Coding!ZigZag(v) /\ Coding!UnZigZag(z) = v /\ z \in Nat
  BY ZigZags, WordSizes
<1>11. CASE Coding!BenchExpGolomb(v, k) = Cat(Cat(Coding!Ones(LIMB), << 0 >>), Coding!RawWord(Coding!ZigZag(v)))
  <2>1. PICK s \in Seq(Bit) : s = Coding!Ones(LIMB)
    BY <1>1, OnesType
  <2>2. PICK t \in Seq(Bit) : t = Cat(<< 0 >>, Coding!RawWord(z)) /\ Cat(Cat(Coding!Ones(LIMB), << 0 >>), Coding!RawWord(z)) = Cat(s, t)
    BY <1>1, <2>1, EscapeIs
  <2>3. Ahead(r, s) /\ Ahead(Skip(r, Len(s)), t)
    BY <1>10, <1>11, <2>2, AheadParts
  <2>4. Gives(unary, r, s, LIMB)
    BY <1>1, <1>2, <2>1, <2>3, OnesGive
  <2>5. ASSUME There(r, Len(s)) PROVE Gives(e, unary.next, t, z)
    <3>1. q = LIMB /\ unary.next = Skip(r, Len(s))
      BY <1>2, <2>4, <2>5 DEF Gives
    <3> QED
      BY <1>4, <1>5, <1>7, <2>2, <2>3, <3>1, EscapeGives
  <2>6. Gives(e, r, Cat(s, t), z) /\ (There(r, Len(Cat(s, t))) => unary.val = LIMB /\ e.val = z)
    BY <1>3, <1>8, <2>4, <2>5, GivesBoth
  <2>7. There(r, Len(Cat(s, t))) => Coding!DecodeBenchExpGolomb(r, k).val = v
    BY <1>2, <1>6, <1>7, <1>10, <2>6
  <2> QED
    BY <1>9, <1>10, <1>11, <2>2, <2>6, <2>7, GivesOther
<1>12. ASSUME NEW n \in 0 .. LIMB - 1, Exponent(Coding!ZigZag(v), k, n),
              Coding!BenchExpGolomb(v, k) = Cat(Cat(Coding!Ones(n), << 0 >>), Coding!B(Coding!ZigZag(v) + Coding!Pow2[k], n + k))
       PROVE  Gives(Coding!DecodeBenchExpGolomb(r, k), r, Coding!BenchExpGolomb(v, k), v)
  <2>1. n \in Nat /\ n # LIMB /\ n + k \in Nat
    BY <1>1
  <2>2. PICK s \in Seq(Bit) : s = Cat(Coding!Ones(n), << 0 >>)
    BY <2>1, UnaryType
  <2>4. PICK m \in Nat : m = z + Coding!Pow2[k]
    BY <1>1, <1>10, PowType
  <2>5. PICK t \in Seq(Bit) : t = Coding!B(m, n + k)
    BY <2>1, BType
  <2>6. Ahead(r, s) /\ Ahead(Skip(r, Len(s)), t)
    BY <1>10, <1>12, <2>2, <2>4, <2>5, AheadParts
  <2>7. Gives(unary, r, s, n)
    BY <1>1, <1>2, <2>2, <2>6, UnaryGives
  <2>8. PICK y : y = m % Coding!Pow2[n + k]
    OBVIOUS
  <2>9. ASSUME There(r, Len(s)) PROVE Gives(e, unary.next, t, y)
    <3>1. q = n /\ unary.next = Skip(r, Len(s))
      BY <1>2, <2>7, <2>9 DEF Gives
    <3> QED
      BY <1>4, <1>5, <1>7, <2>1, <2>5, <2>6, <2>8, <3>1, RemainderGives
  <2>10. Gives(e, r, Cat(s, t), y) /\ (There(r, Len(Cat(s, t))) => unary.val = n /\ e.val = y)
    BY <1>3, <1>8, <2>7, <2>9, GivesBoth
  <2>11. Coding!Pow2[n + k] + y - Coding!Pow2[k] = z
    BY <1>1, <1>10, <1>12, <2>1, <2>4, <2>8, HighDigit
  <2>12. There(r, Len(Cat(s, t))) => Coding!DecodeBenchExpGolomb(r, k).val = v
    BY <1>2, <1>6, <1>7, <1>10, <2>1, <2>10, <2>11
  <2> QED
    BY <1>9, <1>10, <1>12, <2>2, <2>4, <2>5, <2>10, <2>12, GivesOther
<1> QED
  BY <1>11, <1>12, BenchExpGolombIs

\* The Golomb-Rice encoder escapes or writes quotient and remainder.
LEMMA GolombRiceIs ==
    ASSUME NEW v \in Coding!Int64, NEW k \in 0 .. LIMB - 1
    PROVE  \/ Coding!GolombRice(v, k) = Cat(Cat(Coding!Ones(LIMB), << 0 >>), Coding!RawWord(Coding!ZigZag(v)))
           \/ /\ Coding!ZigZag(v) \div Coding!Pow2[k] \in 0 .. LIMB - 1
              /\ Coding!GolombRice(v, k) = Cat(Cat(Coding!Ones(Coding!ZigZag(v) \div Coding!Pow2[k]), << 0 >>), Coding!B(Coding!ZigZag(v), k))
<1>1. LIMB \in Nat /\ k \in Nat /\ Coding!ZigZag(v) \in Nat
  BY WordSizes, ZigZags
<1>2. Coding!Pow2[k] \in Nat /\ Coding!Pow2[k] > 0
  BY <1>1, PowType
<1>3. Coding!ZigZag(v) \div Coding!Pow2[k] \in Nat
  BY <1>1, <1>2, DivMod
<1>4. CASE Coding!ZigZag(v) \div Coding!Pow2[k] > LIMB - 1
  BY <1>4, Zenon DEF Coding!GolombRice, Cat
<1>5. CASE ~(Coding!ZigZag(v) \div Coding!Pow2[k] > LIMB - 1)
  <2>1. Coding!GolombRice(v, k) = Cat(Cat(Coding!Ones(Coding!ZigZag(v) \div Coding!Pow2[k]), << 0 >>), Coding!B(Coding!ZigZag(v), k))
    BY <1>5, Zenon DEF Coding!GolombRice, Cat
  <2>2. Coding!ZigZag(v) \div Coding!Pow2[k] \in 0 .. LIMB - 1
    BY <1>1, <1>3, <1>5
  <2> QED
    BY <2>1, <2>2
<1> QED
  BY <1>4, <1>5

\* 2^n is more than n.
LEMMA PowExceeds ==
    ASSUME NEW n \in Nat
    PROVE  n < Coding!Pow2[n]
<1> DEFINE T == {i \in 0 .. n : i < Coding!Pow2[i]}
<1>1. 0 \in T
  BY PowSteps
<1>2. ASSUME NEW i \in 1 .. n, i - 1 \in T PROVE i \in T
  <2>1. i - 1 \in Nat /\ (i - 1) + 1 = i
    OBVIOUS
  <2>2. Coding!Pow2[i] = 2 * Coding!Pow2[i - 1] /\ Coding!Pow2[i - 1] \in Nat
    BY <2>1, PowSteps, PowType
  <2> QED
    BY <1>2, <2>2
<1>3. n \in T
  <2>1. n \in 0 .. n
    OBVIOUS
  <2> HIDE DEF T
  <2> QED
    BY <1>1, <1>2, <2>1, Induct
<1> QED
  BY <1>3

\* Whatever is ahead, the Golomb-Rice decoder returns an int64_t.
LEMMA GolombRiceOnward ==
    ASSUME NEW r \in Reader, NEW k \in 0 .. LIMB - 1
    PROVE  Coding!DecodeGolombRice(r, k).val \in Coding!Int64 /\ Onward(r, Coding!DecodeGolombRice(r, k).next)
<1>1. LIMB \in Nat /\ k \in Nat
  BY WordSizes
<1>2. PICK unary, q : unary = Coding!ReadUnary(r, LIMB) /\ q = unary.val
  OBVIOUS
<1>3. q \in 0 .. LIMB /\ q \in Nat /\ Onward(r, unary.next)
  BY <1>1, <1>2, UnaryOnward
<1>4. unary.next \in Reader
  BY <1>3 DEF Onward
<1>5. PICK whole, rem : whole = Coding!ReadWord(Coding!Read(unary.next, 1).next) /\ rem = Coding!Read(unary.next, k)
  OBVIOUS
<1>6. Coding!DecodeGolombRice(r, k) =
         IF q = LIMB THEN [val |-> Coding!UnZigZag(whole.val), next |-> whole.next]
         ELSE [val |-> Coding!UnZigZag(q * Coding!Pow2[k] + rem.val), next |-> rem.next]
  BY <1>2, <1>5 DEF Coding!DecodeGolombRice
<1>7. whole.val \in 0 .. Coding!U64 - 1 /\ Onward(r, whole.next)
  BY <1>3, <1>4, <1>5, EscapeOnward, OnwardTwice
<1>8. rem.val \in 0 .. Coding!Pow2[k] - 1 /\ Onward(r, rem.next)
  BY <1>1, <1>3, <1>4, <1>5, ReadOnward, OnwardTwice
<1>9. CASE q = LIMB
  BY <1>6, <1>7, <1>9, ValueType
<1>10. CASE q # LIMB
  <2>1. PICK p \in Nat, c \in Nat : p = Coding!Pow2[LIMB] /\ c = Coding!Pow2[k] /\ c <= p /\ Coding!U64 = p * p /\ LIMB < p
    <3>1. Coding!Pow2[k] \in Nat /\ Coding!Pow2[LIMB] \in Nat
      BY <1>1, PowType
    <3>2. k <= LIMB
      BY <1>1
    <3>3. Coding!Pow2[k] <= Coding!Pow2[LIMB]
      BY <1>1, <3>2, PowMonotone
    <3>4. Coding!U64 = Coding!Pow2[LIMB] * Coding!Pow2[LIMB]
      BY <1>1, PowSum, WordSizes
    <3>5. LIMB < Coding!Pow2[LIMB]
      BY <1>1, PowExceeds
    <3> QED
      BY <3>1, <3>3, <3>4, <3>5
  <2>2. PICK u \in 0 .. Coding!U64 - 1 : u = q * Coding!Pow2[k] + rem.val
    <3>1. PICK x \in Nat : x = rem.val /\ x < c
      BY <1>8, <2>1
    <3>2. q < p
      BY <1>1, <1>3, <2>1
    <3>3. q * c + c <= p * c
      BY <1>3, <2>1, <3>2, TimesGrows
    <3>4. p * c <= p * p
      <4>1. PICK t \in Nat : p = c + t
        <5>1. p - c \in Nat /\ p = c + (p - c)
          BY <2>1
        <5> QED
          BY <5>1
      <4>2. p * p = p * c + p * t /\ p * t \in Nat /\ p * c \in Nat
        BY <4>1
      <4> QED
        BY <4>2
    <3>5. PICK e \in Nat, f \in Nat, g \in Nat : e = q * c /\ f = p * c /\ g = p * p
      BY <1>3
    <3>6. e + x \in 0 .. g - 1
      BY <3>1, <3>3, <3>4, <3>5
    <3> QED
      BY <2>1, <3>1, <3>5, <3>6
  <2> QED
    BY <1>6, <1>8, <1>10, <2>2, ValueType
<1> QED
  BY <1>9, <1>10

\* The Golomb-Rice decoder reads back what its encoder has written.
LEMMA GolombRiceGives ==
    ASSUME NEW r \in Reader, r.pos <= Len(r.bits), NEW k \in 0 .. LIMB - 1, NEW v \in Coding!Int64,
           Ahead(r, Coding!GolombRice(v, k))
    PROVE  Gives(Coding!DecodeGolombRice(r, k), r, Coding!GolombRice(v, k), v)
<1>1. LIMB \in Nat /\ k \in Nat
  BY WordSizes
<1>2. PICK unary, q : unary = Coding!ReadUnary(r, LIMB) /\ q = unary.val
  OBVIOUS
<1>3. q \in 0 .. LIMB /\ q \in Nat /\ Onward(r, unary.next)
  BY <1>1, <1>2, UnaryOnward
<1>4. unary.next \in Reader
  BY <1>3 DEF Onward
<1>5. PICK whole, rem : whole = Coding!ReadWord(Coding!Read(unary.next, 1).next) /\ rem = Coding!Read(unary.next, k)
  OBVIOUS
<1>6. Coding!DecodeGolombRice(r, k) =
         IF q = LIMB THEN [val |-> Coding!UnZigZag(whole.val), next |-> whole.next]
         ELSE [val |-> Coding!UnZigZag(q * Coding!Pow2[k] + rem.val), next |-> rem.next]
  BY <1>2, <1>5 DEF Coding!DecodeGolombRice
<1>7. PICK e : e = IF q = LIMB THEN whole ELSE rem
  OBVIOUS
<1>8. Onward(unary.next, e.next)
  BY <1>1, <1>3, <1>4, <1>5, <1>7, EscapeOnward, ReadOnward
<1>9. Coding!DecodeGolombRice(r, k).next = e.next
  BY <1>6, <1>7
<1>10. PICK z \in 0 .. Coding!U64 - 1 : z = Coding!ZigZag(v) /\ Coding!UnZigZag(z) = v /\ z \in Nat
  BY ZigZags, WordSizes
<1>11. CASE Coding!GolombRice(v, k) = Cat(Cat(Coding!Ones(LIMB), << 0 >>), Coding!RawWord(Coding!ZigZag(v)))
  <2>1. PICK s \in Seq(Bit) : s = Coding!Ones(LIMB)
    BY <1>1, OnesType
  <2>2. PICK t \in Seq(Bit) : t = Cat(<< 0 >>, Coding!RawWord(z)) /\ Cat(Cat(Coding!Ones(LIMB), << 0 >>), Coding!RawWord(z)) = Cat(s, t)
    BY <1>1, <2>1, EscapeIs
  <2>3. Ahead(r, s) /\ Ahead(Skip(r, Len(s)), t)
    BY <1>10, <1>11, <2>2, AheadParts
  <2>4. Gives(unary, r, s, LIMB)
    BY <1>1, <1>2, <2>1, <2>3, OnesGive
  <2>5. ASSUME There(r, Len(s)) PROVE Gives(e, unary.next, t, z)
    <3>1. q = LIMB /\ unary.next = Skip(r, Len(s))
      BY <1>2, <2>4, <2>5 DEF Gives
    <3> QED
      BY <1>4, <1>5, <1>7, <2>2, <2>3, <3>1, EscapeGives
  <2>6. Gives(e, r, Cat(s, t), z) /\ (There(r, Len(Cat(s, t))) => unary.val = LIMB /\ e.val = z)
    BY <1>3, <1>8, <2>4, <2>5, GivesBoth
  <2>7. There(r, Len(Cat(s, t))) => Coding!DecodeGolombRice(r, k).val = v
    BY <1>2, <1>6, <1>7, <1>10, <2>6
  <2> QED
    BY <1>9, <1>10, <1>11, <2>2, <2>6, <2>7, GivesOther
<1>12. ASSUME NEW n \in 0 .. LIMB - 1, n = z \div Coding!Pow2[k],
              Coding!GolombRice(v, k) = Cat(Cat(Coding!Ones(n), << 0 >>), Coding!B(z, k))
       PROVE  Gives(Coding!DecodeGolombRice(r, k), r, Coding!GolombRice(v, k), v)
  <2>1. n \in Nat /\ n # LIMB
    BY <1>1
  <2>2. PICK s \in Seq(Bit) : s = Cat(Coding!Ones(n), << 0 >>)
    BY <2>1, UnaryType
  <2>3. PICK c \in Nat : c = Coding!Pow2[k] /\ c > 0
    BY <1>1, PowType
  <2>4. PICK t \in Seq(Bit) : t = Coding!B(z, k) /\ Len(t) = k
    BY <1>1, <1>10, BType
  <2>5. PICK y : y = z % c
    OBVIOUS
  <2>6. Ahead(r, s) /\ Ahead(Skip(r, Len(s)), t)
    BY <1>12, <2>2, <2>4, AheadParts
  <2>7. Gives(unary, r, s, n)
    BY <1>1, <1>2, <2>2, <2>6, UnaryGives
  <2>8. Coding!Num(t) = y
    BY <1>1, <1>10, <2>3, <2>4, <2>5, NumB
  <2>9. ASSUME There(r, Len(s)) PROVE Gives(e, unary.next, t, y)
    <3>1. q = n /\ unary.next = Skip(r, Len(s))
      BY <1>2, <2>7, <2>9 DEF Gives
    <3> QED
      BY <1>4, <1>5, <1>7, <2>1, <2>4, <2>6, <2>8, <3>1, ReadGives
  <2>10. Gives(e, r, Cat(s, t), y) /\ (There(r, Len(Cat(s, t))) => unary.val = n /\ e.val = y)
    BY <1>3, <1>8, <2>7, <2>9, GivesBoth
  <2>11. n * c + y = z
    BY <1>10, <1>12, <2>3, <2>5, DivMod
  <2>12. There(r, Len(Cat(s, t))) => Coding!DecodeGolombRice(r, k).val = v
    BY <1>2, <1>6, <1>7, <1>10, <2>1, <2>3, <2>10, <2>11
  <2> QED
    BY <1>9, <1>12, <2>2, <2>4, <2>10, <2>12, GivesOther
<1> QED
  BY <1>10, <1>11, <1>12, GolombRiceIs

\* The groups of ranks: flags, first rank, bits of the rest.
Group(u, a, n) ==
    \/ u = 0 /\ a = 0 /\ n = 2
    \/ u = 1 /\ a = 4 /\ n = 4
    \/ u = 2 /\ a = 16 /\ n = 6
    \/ u = 3 /\ a = 64 /\ n = 8

\* How many ranks the groups of the rank code have room for.
LEMMA GroupPowers ==
    ASSUME NEW u, NEW a, NEW n, Group(u, a, n)
    PROVE  /\ u \in 0 .. 3 /\ a \in Nat /\ n \in Nat
           /\ u = 0 => Coding!Pow2[n] = 4
           /\ u = 1 => Coding!Pow2[n] = 16
           /\ u = 2 => Coding!Pow2[n] = 64
           /\ u = 3 => Coding!Pow2[n] = 256
<1>1. /\ Coding!Pow2[4 + 1] = 2 * Coding!Pow2[4] /\ Coding!Pow2[5 + 1] = 2 * Coding!Pow2[5]
      /\ Coding!Pow2[6 + 1] = 2 * Coding!Pow2[6] /\ Coding!Pow2[7 + 1] = 2 * Coding!Pow2[7]
  BY PowSteps
<1>2. Coding!Pow2[2] = 4 /\ Coding!Pow2[4] = 16 /\ Coding!Pow2[6] = 64 /\ Coding!Pow2[8] = 256
  BY <1>1, SmallPowers
<1> QED
  BY <1>2 DEF Group

\* The flags of the groups are unary numbers, the last without a zero.
LEMMA FlagBits ==
    /\ << 0 >> = Cat(Coding!Ones(0), << 0 >>)
    /\ <<1, 0>> = Cat(Coding!Ones(1), << 0 >>)
    /\ <<1, 1, 0>> = Cat(Coding!Ones(2), << 0 >>)
    /\ <<1, 1, 1>> = Coding!Ones(3)
<1>1. ASSUME NEW q \in 0 .. 3, NEW s \in Seq(Bit), Len(s) = q + 1,
             \A i \in 1 .. q : s[i] = 1, s[q + 1] = 0
      PROVE  s = Cat(Coding!Ones(q), << 0 >>)
  <2>1. PICK e \in Seq(Bit) : e = Cat(Coding!Ones(q), << 0 >>) /\ Len(e) = q + 1
                              /\ (\A i \in 1 .. q : e[i] = 1) /\ e[q + 1] = 0
    <3>1. q \in Nat
      OBVIOUS
    <3>2. PICK e : e = Cat(Coding!Ones(q), << 0 >>)
      OBVIOUS
    <3>3. e \in Seq(Bit) /\ Len(e) = q + 1 /\ (\A i \in 1 .. q : e[i] = 1) /\ e[q + 1] = 0
      BY <3>1, <3>2, UnaryType, Zenon
    <3> QED
      BY <3>2, <3>3, Zenon
  <2>2. \A i \in 1 .. q + 1 : s[i] = e[i]
    BY <1>1, <2>1
  <2> QED
    BY <1>1, <2>1, <2>2, SameBits
<1>2. << 0 >> \in Seq(Bit) /\ Len(<< 0 >>) = 0 + 1 /\ << 0 >>[0 + 1] = 0
  BY DEF Bit
<1>3. <<1, 0>> \in Seq(Bit) /\ Len(<<1, 0>>) = 1 + 1 /\ <<1, 0>>[1] = 1 /\ <<1, 0>>[1 + 1] = 0
  BY DEF Bit
<1>4. <<1, 1, 0>> \in Seq(Bit) /\ Len(<<1, 1, 0>>) = 2 + 1
      /\ <<1, 1, 0>>[1] = 1 /\ <<1, 1, 0>>[2] = 1 /\ <<1, 1, 0>>[2 + 1] = 0
  BY DEF Bit
<1>5. <<1, 1, 1>> \in Seq(Bit) /\ Len(<<1, 1, 1>>) = 3
      /\ <<1, 1, 1>>[1] = 1 /\ <<1, 1, 1>>[2] = 1 /\ <<1, 1, 1>>[3] = 1
  BY DEF Bit
<1>6. << 0 >> = Cat(Coding!Ones(0), << 0 >>)
  <2>0. PICK s, q : s = << 0 >> /\ q = 0
    OBVIOUS
  <2>1. s \in Seq(Bit) /\ q \in 0 .. 3 /\ q = 0 /\ Len(s) = q + 1 /\ s[q + 1] = 0
    BY <1>2, <2>0
  <2>2. \A i \in 1 .. q : s[i] = 1
    BY <2>1
  <2> QED
    BY <1>1, <2>0, <2>1, <2>2
<1>7. <<1, 0>> = Cat(Coding!Ones(1), << 0 >>)
  <2>0. PICK s, q : s = <<1, 0>> /\ q = 1
    OBVIOUS
  <2>1. s \in Seq(Bit) /\ q \in 0 .. 3 /\ q = 1 /\ Len(s) = q + 1 /\ s[1] = 1 /\ s[q + 1] = 0
    BY <1>3, <2>0
  <2>2. \A i \in 1 .. q : s[i] = 1
    BY <2>1
  <2> QED
    BY <1>1, <2>0, <2>1, <2>2
<1>8. <<1, 1, 0>> = Cat(Coding!Ones(2), << 0 >>)
  <2>0. PICK s, q : s = <<1, 1, 0>> /\ q = 2
    OBVIOUS
  <2>1. s \in Seq(Bit) /\ q \in 0 .. 3 /\ q = 2 /\ Len(s) = q + 1
        /\ s[1] = 1 /\ s[2] = 1 /\ s[q + 1] = 0
    BY <1>4, <2>0
  <2>2. \A i \in 1 .. q : s[i] = 1
    BY <2>1
  <2> QED
    BY <1>1, <2>0, <2>1, <2>2
<1>9. <<1, 1, 1>> = Coding!Ones(3)
  <2>0. PICK s, q : s = <<1, 1, 1>> /\ q = 3
    OBVIOUS
  <2>1. s \in Seq(Bit) /\ q \in Nat /\ q = 3 /\ Len(s) = q
        /\ s[1] = 1 /\ s[2] = 1 /\ s[3] = 1
    BY <1>5, <2>0
  <2>2. PICK e \in Seq(Bit) : e = Coding!Ones(q) /\ Len(e) = q /\ \A i \in 1 .. q : e[i] = 1
    BY <2>1, OnesType
  <2>3. \A i \in 1 .. q : s[i] = e[i]
    BY <2>1, <2>2
  <2>4. s = e
    BY <2>1, <2>2, <2>3, SameBits
  <2> QED
    BY <2>0, <2>2, <2>4
<1> QED
  BY <1>6, <1>7, <1>8, <1>9

\* The flags and the rest of a rank.
Flags(u) == IF u = 3 THEN Coding!Ones(3) ELSE Cat(Coding!Ones(u), << 0 >>)

\* Every rank has the code of one of the groups.
LEMMA RankCodeIs ==
    ASSUME NEW rank \in 0 .. RANKS - 1
    PROVE  \E u, a, n : /\ Group(u, a, n)
                        /\ rank - a \in 0 .. Coding!Pow2[n] - 1
                        /\ Coding!RankCode(rank) = Cat(Flags(u), Coding!B(rank - a, n))
<1>1. RANKS \in 65 .. 320 /\ rank \in Nat /\ rank < 320
  BY CodeGiven DEF Coding!CodeAssumption
<1>2. CASE rank < 4
  <2>1. Coding!RankCode(rank) = Cat(<< 0 >>, Coding!B(rank, 2))
    <3>1. ~(4 <= rank) /\ ~(16 <= rank)
      BY <1>1, <1>2
    <3> QED
      BY <1>2, <3>1, Zenon DEF Coding!RankCode, Cat
  <2>2. Flags(0) = << 0 >>
    BY FlagBits DEF Flags
  <2>3. Group(0, 0, 2)
    BY DEF Group
  <2>4. rank - 0 = rank /\ rank \in 0 .. Coding!Pow2[2] - 1
    BY <1>1, <1>2, SmallPowers
  <2> QED
    BY <2>1, <2>2, <2>3, <2>4
<1>3. CASE 4 <= rank /\ rank < 16
  <2>1. Coding!RankCode(rank) = Cat(<<1, 0>>, Coding!B(rank - 4, 4))
    <3>1. ~(rank < 4) /\ ~(16 <= rank)
      BY <1>1, <1>3
    <3> QED
      BY <1>3, <3>1, Zenon DEF Coding!RankCode, Cat
  <2>2. Flags(1) = <<1, 0>>
    BY FlagBits DEF Flags
  <2>3. Group(1, 4, 4)
    BY DEF Group
  <2>4. rank - 4 \in 0 .. Coding!Pow2[4] - 1
    BY <1>1, <1>3, SmallPowers
  <2> QED
    BY <2>1, <2>2, <2>3, <2>4
<1>4. CASE 16 <= rank /\ rank < 64
  <2>1. Coding!RankCode(rank) = Cat(<<1, 1, 0>>, Coding!B(rank - 16, 6))
    <3>1. ~(rank < 4) /\ ~(rank < 16)
      BY <1>1, <1>4
    <3> QED
      BY <1>4, <3>1, Zenon DEF Coding!RankCode, Cat
  <2>2. Flags(2) = <<1, 1, 0>>
    BY FlagBits DEF Flags
  <2>3. Group(2, 16, 6)
    BY DEF Group
  <2>4. rank - 16 \in 0 .. Coding!Pow2[6] - 1
    BY <1>1, <1>4, <2>3, GroupPowers
  <2> QED
    BY <2>1, <2>2, <2>3, <2>4
<1>5. CASE 64 <= rank
  <2>1. Coding!RankCode(rank) = Cat(<<1, 1, 1>>, Coding!B(rank - 64, 8))
    <3>1. ~(rank < 4) /\ ~(rank < 16) /\ ~(rank < 64)
      BY <1>1, <1>5
    <3> QED
      BY <3>1, Zenon DEF Coding!RankCode, Cat
  <2>2. Flags(3) = <<1, 1, 1>>
    BY FlagBits DEF Flags
  <2>3. Group(3, 64, 8)
    BY DEF Group
  <2>4. rank - 64 \in 0 .. Coding!Pow2[8] - 1
    BY <1>1, <1>5, <2>3, GroupPowers
  <2> QED
    BY <2>1, <2>2, <2>3, <2>4
<1> QED
  BY <1>1, <1>2, <1>3, <1>4, <1>5

\* What the decoder of ranks does with the group it finds.
LEMMA DecodeRankIs ==
    ASSUME NEW r \in Reader, NEW unary, unary = Coding!ReadUnary(r, 3),
           NEW u, NEW a, NEW n, u = unary.val, Group(u, a, n), NEW rest, rest = Coding!Read(unary.next, n)
    PROVE  Coding!DecodeRank(r) = [val |-> IF a + rest.val >= RANKS THEN RANKS - 1 ELSE a + rest.val,
                            next |-> rest.next]
<1>1. <<2, 4, 6, 8>>[u + 1] = n /\ <<0, 4, 16, 64>>[u + 1] = a
  BY DEF Group
<1> QED
  BY <1>1, Zenon DEF Coding!DecodeRank

\* Whatever is ahead, the decoder of ranks returns a rank of the table.
LEMMA RankOnward ==
    ASSUME NEW r \in Reader
    PROVE  Coding!DecodeRank(r).val \in 0 .. RANKS - 1 /\ Onward(r, Coding!DecodeRank(r).next)
<1>1. PICK l \in Nat : l = 3
  OBVIOUS
<1>2. PICK unary, u : unary = Coding!ReadUnary(r, l) /\ u = unary.val
  OBVIOUS
<1>3. u \in 0 .. l /\ Onward(r, unary.next)
  BY <1>2, UnaryOnward
<1>4. unary.next \in Reader
  BY <1>3 DEF Onward
<1>5. PICK a, n : Group(u, a, n)
  BY <1>1, <1>3 DEF Group
<1>6. PICK rest : rest = Coding!Read(unary.next, n)
  OBVIOUS
<1>7. n \in Nat /\ a \in Nat
  BY <1>5, GroupPowers
<1>8. rest.val \in 0 .. Coding!Pow2[n] - 1 /\ Onward(r, rest.next)
  BY <1>3, <1>4, <1>6, <1>7, ReadOnward, OnwardTwice
<1>9. unary = Coding!ReadUnary(r, 3)
  BY <1>1, <1>2
<1>10. Coding!DecodeRank(r) = [val |-> IF a + rest.val >= RANKS THEN RANKS - 1 ELSE a + rest.val,
                        next |-> rest.next]
  BY <1>2, <1>5, <1>6, <1>9, DecodeRankIs
<1>11. RANKS \in 65 .. 320
  BY CodeGiven DEF Coding!CodeAssumption
<1>12. PICK x \in Nat : x = rest.val
  <2>1. Coding!Pow2[n] \in Nat
    BY <1>7, PowType
  <2> QED
    BY <1>8, <2>1
<1> QED
  BY <1>7, <1>8, <1>10, <1>11, <1>12

\* A rank ahead is read back.
LEMMA RankGives ==
    ASSUME NEW r \in Reader, r.pos <= Len(r.bits), NEW rank \in 0 .. RANKS - 1,
           Ahead(r, Coding!RankCode(rank))
    PROVE  Gives(Coding!DecodeRank(r), r, Coding!RankCode(rank), rank)
<1>1. PICK l \in Nat : l = 3
  OBVIOUS
<1>2. PICK u, a, n : /\ Group(u, a, n) /\ rank - a \in 0 .. Coding!Pow2[n] - 1
                     /\ Coding!RankCode(rank) = Cat(Flags(u), Coding!B(rank - a, n))
  BY RankCodeIs
<1>3. u \in 0 .. l /\ u \in Nat /\ a \in Nat /\ n \in Nat
  BY <1>1, <1>2, GroupPowers
<1>4. PICK c \in Nat : c = Coding!Pow2[n] /\ c > 0
  BY <1>3, PowType
<1>5. PICK x \in Nat : x = rank - a /\ x \in 0 .. c - 1
  BY <1>2, <1>4
<1>6. PICK s \in Seq(Bit) : s = Flags(u)
  BY <1>1, <1>3, OnesType, UnaryType DEF Flags
<1>7. PICK t \in Seq(Bit) : t = Coding!B(x, n) /\ Len(t) = n
  BY <1>3, BType
<1>8. Ahead(r, s) /\ Ahead(Skip(r, Len(s)), t)
  BY <1>2, <1>5, <1>6, <1>7, AheadParts
<1>9. PICK unary : unary = Coding!ReadUnary(r, l)
  OBVIOUS
<1>10. Gives(unary, r, s, u)
  <2>1. CASE u = l
    <3>1. s = Coding!Ones(l)
      BY <1>1, <1>6, <2>1 DEF Flags
    <3> QED
      BY <1>8, <1>9, <2>1, <3>1, OnesGive
  <2>2. CASE u # l
    <3>1. s = Cat(Coding!Ones(u), << 0 >>) /\ u \in 0 .. l - 1
      BY <1>1, <1>3, <1>6, <2>2 DEF Flags
    <3> QED
      BY <1>8, <1>9, <3>1, UnaryGives
  <2> QED
    BY <2>1, <2>2
<1>11. Onward(r, unary.next) /\ unary.val \in 0 .. l
  BY <1>9, UnaryOnward
<1>12. unary.next \in Reader
  BY <1>11 DEF Onward
<1>13. PICK b, m : Group(unary.val, b, m)
  BY <1>1, <1>11 DEF Group
<1>14. m \in Nat /\ b \in Nat
  BY <1>13, GroupPowers
<1>15. PICK rest : rest = Coding!Read(unary.next, m)
  OBVIOUS
<1>16. Onward(unary.next, rest.next)
  BY <1>12, <1>14, <1>15, ReadOnward
<1>17. Coding!DecodeRank(r) = [val |-> IF b + rest.val >= RANKS THEN RANKS - 1 ELSE b + rest.val,
                        next |-> rest.next]
  <2>1. unary = Coding!ReadUnary(r, 3)
    BY <1>1, <1>9
  <2> QED
    BY <1>13, <1>15, <2>1, DecodeRankIs
<1>18. Coding!Num(t) = x
  <2>1. PICK z \in Nat : z = 0
    OBVIOUS
  <2>2. x = z * c + x
    BY <1>4, <2>1
  <2>3. x % c = x
    BY <1>4, <1>5, <2>2, DivUnique, ZenonT(40)
  <2> QED
    BY <1>3, <1>4, <1>7, <2>3, NumB
<1>19. ASSUME There(r, Len(s)) PROVE Gives(rest, unary.next, t, x) /\ b = a
  <2>1. unary.val = u /\ unary.next = Skip(r, Len(s))
    BY <1>10, <1>19 DEF Gives
  <2>2. m = n /\ b = a
    BY <1>2, <1>13, <2>1 DEF Group
  <2> QED
    BY <1>7, <1>8, <1>12, <1>15, <1>18, <2>1, <2>2, ReadGives
<1>20. Gives(rest, r, Cat(s, t), x) /\ (There(r, Len(Cat(s, t))) => unary.val = u /\ rest.val = x)
  BY <1>10, <1>11, <1>16, <1>19, GivesBoth
<1>21. There(r, Len(Cat(s, t))) => Coding!DecodeRank(r).val = rank
  <2> SUFFICES ASSUME There(r, Len(Cat(s, t))) PROVE Coding!DecodeRank(r).val = rank
    OBVIOUS
  <2>1. rest.val = x /\ unary.val = u
    BY <1>20
  <2>2. b = a
    BY <1>2, <1>13, <2>1 DEF Group
  <2>3. RANKS \in Nat /\ a + x = rank /\ ~(rank >= RANKS)
    <3>1. RANKS \in 65 .. 320
      BY CodeGiven DEF Coding!CodeAssumption
    <3> QED
      BY <1>3, <1>5, <3>1
  <2> QED
    BY <1>17, <2>1, <2>2, <2>3
<1> QED
  BY <1>2, <1>5, <1>6, <1>7, <1>17, <1>20, <1>21, GivesOther

\* The elements of a string of bits are bits.
LEMMA BitOfWord ==
    ASSUME NEW s \in Seq(Bit), NEW n, n = Len(s)
    PROVE  \A i \in 1 .. n : s[i] \in Bit
  BY ElementOfSeq

\* The number four bits stand for.
LEMMA FourBits ==
    ASSUME NEW s \in Seq(Bit), Len(s) = 4
    PROVE  Coding!Num(s) = 8 * s[1] + 4 * s[2] + 2 * s[3] + s[4]
<1>1. s \in Seq(Nat)
  BY DEF Bit
<1>2. PICK n \in Nat : n = 4 /\ Len(s) = n
  OBVIOUS
<1>3. PICK f \in [0 .. n -> Nat] : /\ f[0] = 0
                                   /\ \A i \in 1 .. n : f[i] = 2 * f[i - 1] + s[i]
                                   /\ Coding!Num(s) = f[n]
  BY <1>1, <1>2, NumSteps
<1>4. /\ 1 \in 1 .. n /\ 2 \in 1 .. n /\ 3 \in 1 .. n /\ 4 \in 1 .. n
      /\ 1 - 1 = 0 /\ 2 - 1 = 1 /\ 3 - 1 = 2 /\ 4 - 1 = 3
  BY <1>2
<1>5. f[1] = 2 * 0 + s[1]
  BY <1>3, <1>4
<1>6. f[2] = 2 * f[1] + s[2]
  BY <1>3, <1>4
<1>7. f[3] = 2 * f[2] + s[3]
  BY <1>3, <1>4
<1>8. f[4] = 2 * f[3] + s[4]
  BY <1>3, <1>4
<1>9. PICK a \in Bit, b \in Bit, c \in Bit, d \in Bit : a = s[1] /\ b = s[2] /\ c = s[3] /\ d = s[4]
  <2>1. \A i \in 1 .. n : s[i] \in Bit
    <3>1. n = Len(s)
      BY <1>2
    <3> QED
      BY <3>1, BitOfWord
  <2>2. s[1] \in Bit /\ s[2] \in Bit /\ s[3] \in Bit /\ s[4] \in Bit
    BY <1>4, <2>1
  <2> QED
    BY <2>2
<1>10. Coding!Num(s) = f[4]
  BY <1>2, <1>3
<1>11. a \in Nat /\ b \in Nat /\ c \in Nat /\ d \in Nat
  BY DEF Bit
<1>12. f[1] = a
  BY <1>5, <1>9, <1>11
<1>13. f[2] = 2 * a + b
  BY <1>6, <1>9, <1>11, <1>12
<1>14. f[3] = 4 * a + 2 * b + c
  BY <1>7, <1>9, <1>11, <1>13
<1>15. f[4] = 8 * a + 4 * b + 2 * c + d
  <2>1. PICK x \in Nat : x = 4 * a + 2 * b + c
    BY <1>11
  <2>2. f[4] = 2 * x + d
    BY <1>8, <1>9, <1>14, <2>1
  <2> QED
    BY <1>11, <2>1, <2>2
<1> QED
  BY <1>9, <1>10, <1>15

\* A peek is four bits, whatever those beyond the end of the data are.
LEMMA PeekType ==
    ASSUME NEW r \in Reader, NEW peek \in Coding!Peeks(r)
    PROVE  peek \in 0 .. 15
<1>1. r.pos \in Nat /\ Len(r.bits) \in Nat /\ Coding!Left(r) \in Int /\ Coding!Left(r) = Len(r.bits) - r.pos
  BY ReaderParts DEF Coding!Left
<1>2. CASE Coding!Left(r) >= 4
  <2>1. PICK n \in Nat : n = 4
    OBVIOUS
  <2>2. There(r, n)
    BY <1>1, <1>2, <2>1 DEF There
  <2>3. PICK s : s = SubSeq(r.bits, r.pos + 1, r.pos + n)
    OBVIOUS
  <2>4. s \in Seq(Bit) /\ Len(s) = n
    BY <2>2, <2>3, BitsAhead
  <2>5. peek = Coding!Num(s)
    BY <1>2, <2>1, <2>3 DEF Coding!Peeks
  <2>6. Coding!Num(s) \in 0 .. Coding!Pow2[n] - 1
    BY <2>4, NumType
  <2> QED
    BY <2>1, <2>5, <2>6, SmallPowers
<1>3. CASE Coding!Left(r) \in 1 .. 3
  <2>1. peek \in 0 .. Coding!Pow2[4 - Coding!Left(r)] - 1
    <3>1. ~(Coding!Left(r) >= 4)
      BY <1>3
    <3> QED
      BY <1>3, <3>1, Zenon DEF Coding!Peeks
  <2>2. 4 - Coding!Left(r) = 1 \/ 4 - Coding!Left(r) = 2 \/ 4 - Coding!Left(r) = 3
    BY <1>3
  <2> QED
    BY <2>1, <2>2, SmallPowers
<1>4. CASE ~(Coding!Left(r) >= 4) /\ ~(Coding!Left(r) \in 1 .. 3)
  BY <1>4, Zenon DEF Coding!Peeks
<1> QED
  BY <1>2, <1>3, <1>4

\* A tier, the length of its prefix, the width of its payload.
Tier(k, t, m, w) ==
    /\ t \in 0 .. 4
    /\ m = IF t < 4 THEN t + 1 ELSE 4
    /\ t < 4 => w = k + Coding!PayloadAdd[t + 1]

\* A peek finds one of the tiers, by its length and width.
LEMMA TierOfIs ==
    ASSUME NEW k \in Nat, NEW peek \in 0 .. 15
    PROVE  \E w \in Nat : /\ Tier(k, Coding!TierOf(peek).tier, Coding!TierOf(peek).prefix, w)
                          /\ w \in k .. k + 10
<1>1. PICK t, m : t = Coding!TierOf(peek).tier /\ m = Coding!TierOf(peek).prefix
  OBVIOUS
<1>2. t \in 0 .. 4 /\ m = IF t < 4 THEN t + 1 ELSE 4
  <2>1. CASE peek < 8
    BY <1>1, <2>1 DEF Coding!TierOf
  <2>2. CASE peek \in 8 .. 11
    BY <1>1, <2>2 DEF Coding!TierOf
  <2>3. CASE peek \in 12 .. 13
    BY <1>1, <2>3 DEF Coding!TierOf
  <2>4. CASE peek = 14
    BY <1>1, <2>4 DEF Coding!TierOf
  <2>5. CASE peek = 15
    BY <1>1, <2>5 DEF Coding!TierOf
  <2> QED
    BY <2>1, <2>2, <2>3, <2>4, <2>5
<1>3. CASE t < 4
  <2>1. t + 1 \in 1 .. 4
    BY <1>2, <1>3
  <2>2. Coding!PayloadAdd[t + 1] \in 0 .. 10
    BY <2>1, Limits
  <2>3. k + Coding!PayloadAdd[t + 1] \in Nat /\ k + Coding!PayloadAdd[t + 1] \in k .. k + 10
    BY <2>2
  <2> QED
    BY <1>1, <1>2, <2>3 DEF Tier
<1>4. CASE ~(t < 4)
  <2>1. k \in Nat /\ k \in k .. k + 10
    OBVIOUS
  <2> QED
    BY <1>1, <1>2, <1>4, <2>1 DEF Tier
<1> QED
  BY <1>3, <1>4

\* What the tiered decoder does with the tier it finds.
LEMMA DecodeTieredIs ==
    ASSUME NEW r, NEW k, NEW peek, NEW t, NEW m, NEW w,
           t = Coding!TierOf(peek).tier, m = Coding!TierOf(peek).prefix, Tier(k, t, m, w),
           NEW payload, payload = Skip(r, m),
           NEW short, short = Coding!Read(payload, w), NEW whole, whole = Coding!ReadWord(payload)
    PROVE  Coding!DecodeTiered(r, k, peek) =
              IF t < 4 THEN [val |-> Coding!UnZigZag(short.val), next |-> short.next]
              ELSE [val |-> Coding!Value(whole.val), next |-> whole.next]
<1>1. CASE t < 4
  BY <1>1 DEF Coding!DecodeTiered, Tier, Skip
<1>2. CASE ~(t < 4)
  BY <1>2 DEF Coding!DecodeTiered, Tier, Skip
<1> QED
  BY <1>1, <1>2

\* The prefix is taken off whether or not it was there.
LEMMA TieredOnward ==
    ASSUME NEW r \in Reader, NEW k \in Nat, k + 10 <= 2 * LIMB, NEW peek \in 0 .. 15
    PROVE  /\ Coding!DecodeTiered(r, k, peek).val \in Coding!Int64
           /\ \E m \in 0 .. 4 : Onward(Skip(r, m), Coding!DecodeTiered(r, k, peek).next)
<1>1. PICK t, m : t = Coding!TierOf(peek).tier /\ m = Coding!TierOf(peek).prefix
  OBVIOUS
<1>2. PICK w \in Nat : Tier(k, t, m, w) /\ w \in k .. k + 10
  BY <1>1, TierOfIs
<1>3. t \in 0 .. 4 /\ m \in 0 .. 4 /\ m \in Nat
  BY <1>2 DEF Tier
<1>4. PICK payload \in Reader : payload = Skip(r, m)
  BY <1>3, SkipParts
<1>5. PICK short, whole : short = Coding!Read(payload, w) /\ whole = Coding!ReadWord(payload)
  OBVIOUS
<1>6. Coding!DecodeTiered(r, k, peek) =
         IF t < 4 THEN [val |-> Coding!UnZigZag(short.val), next |-> short.next]
         ELSE [val |-> Coding!Value(whole.val), next |-> whole.next]
  BY <1>1, <1>2, <1>4, <1>5, DecodeTieredIs
<1>7. short.val \in 0 .. Coding!Pow2[w] - 1 /\ Onward(payload, short.next)
  BY <1>5, ReadOnward
<1>8. whole.val \in 0 .. Coding!U64 - 1 /\ Onward(payload, whole.next)
  BY <1>5, WordOnward
<1>9. Coding!Pow2[w] <= Coding!U64 /\ Coding!Pow2[w] \in Nat /\ Coding!U64 \in Nat
  <2>1. w <= LIMB + LIMB /\ LIMB + LIMB \in Nat
    BY <1>2, WordSizes
  <2>2. Coding!Pow2[w] <= Coding!Pow2[LIMB + LIMB]
    BY <2>1, PowMonotone
  <2> QED
    BY <2>1, <2>2, PowType, WordSizes
<1>10. short.val \in 0 .. Coding!U64 - 1
  <2>1. PICK c \in Nat, d \in Nat : c = Coding!Pow2[w] /\ d = Coding!U64 /\ c <= d
    BY <1>9
  <2>2. short.val \in 0 .. d - 1
    BY <1>7, <2>1
  <2> QED
    BY <2>1, <2>2
<1>11. CASE t < 4
  BY <1>3, <1>4, <1>6, <1>7, <1>10, <1>11, ValueType
<1>12. CASE ~(t < 4)
  BY <1>3, <1>4, <1>6, <1>8, <1>12, ValueType
<1> QED
  BY <1>11, <1>12

\* Where fewer bits are left, br_read sets the error.
LEMMA ReadFails ==
    ASSUME NEW r \in Reader, NEW n \in Nat, ~There(r, n)
    PROVE  Coding!Read(r, n).next.failed = TRUE
<1>1. ~(n <= Coding!Left(r))
  BY ReaderParts DEF There, Coding!Left
<1> QED
  BY <1>1 DEF Coding!Read, Reader

\* Where not even half a word is left, reading a word sets the error.
LEMMA WordFails ==
    ASSUME NEW r \in Reader, ~There(r, LIMB)
    PROVE  Coding!ReadWord(r).next.failed = TRUE
<1>1. LIMB \in Nat
  BY WordSizes
<1>2. PICK hi : hi = Coding!Read(r, LIMB)
  OBVIOUS
<1>3. hi.next.failed = TRUE /\ Onward(r, hi.next)
  BY <1>1, <1>2, ReadFails, ReadOnward
<1>4. hi.next \in Reader
  BY <1>3 DEF Onward
<1>5. PICK lo : lo = Coding!Read(hi.next, LIMB)
  OBVIOUS
<1>6. Onward(hi.next, lo.next)
  BY <1>1, <1>4, <1>5, ReadOnward
<1>7. lo.next \in Reader /\ lo.next.failed
  BY <1>3, <1>6 DEF Onward
<1>8. Coding!ReadWord(r).next = lo.next
  BY <1>2, <1>5 DEF Coding!ReadWord
<1> QED
  BY <1>7, <1>8, ReaderParts

\* Four bits show the tier.
LEMMA PeekShows ==
    ASSUME NEW r \in Reader, NEW peek \in Coding!Peeks(r), There(r, 4), NEW t \in 0 .. 4,
           Ahead(r, IF t = 4 THEN Coding!Ones(4) ELSE Cat(Coding!Ones(t), << 0 >>))
    PROVE  Coding!TierOf(peek).tier = t
<1>1. PICK n \in Nat : n = 4
  OBVIOUS
<1>2. PICK s : s = SubSeq(r.bits, r.pos + 1, r.pos + n)
  OBVIOUS
<1>3. There(r, n)
  BY <1>1
<1>4. s \in Seq(Bit) /\ Len(s) = n /\ \A i \in 1 .. n : s[i] = r.bits[r.pos + i]
  BY <1>2, <1>3, BitsAhead
<1>5. r.pos \in Nat /\ Len(r.bits) \in Nat /\ r.pos + 4 <= Len(r.bits)
  BY ReaderParts DEF There
<1>6. peek = Coding!Num(s)
  <2>1. Coding!Left(r) >= 4
    BY <1>5 DEF Coding!Left
  <2> QED
    BY <1>1, <1>2, <2>1 DEF Coding!Peeks
<1>7. PICK a \in Bit, b \in Bit, c \in Bit, d \in Bit : a = s[1] /\ b = s[2] /\ c = s[3] /\ d = s[4]
  <2>1. \A i \in 1 .. n : s[i] \in Bit
    BY <1>4, BitOfWord
  <2>2. 1 \in 1 .. n /\ 2 \in 1 .. n /\ 3 \in 1 .. n /\ 4 \in 1 .. n
    BY <1>1
  <2>3. s[1] \in Bit /\ s[2] \in Bit /\ s[3] \in Bit /\ s[4] \in Bit
    BY <2>1, <2>2
  <2> QED
    BY <2>3
<1>8. peek = 8 * a + 4 * b + 2 * c + d
  BY <1>1, <1>4, <1>6, <1>7, FourBits
<1>9. CASE t = 4
  <2>1. PICK e : e = Coding!Ones(n) /\ Len(e) = n /\ \A i \in 1 .. n : e[i] = 1
    BY OnesType
  <2>2. Ahead(r, e)
    BY <1>1, <1>9, <2>1
  <2>3. ASSUME NEW i \in 1 .. n PROVE s[i] = 1
    <3>1. r.pos + i <= Len(r.bits)
      BY <1>1, <1>5
    <3>2. r.bits[r.pos + i] = e[i]
      BY <2>1, <2>2, <3>1 DEF Ahead
    <3> QED
      BY <1>4, <2>1, <3>2
  <2>4. a = 1 /\ b = 1 /\ c = 1 /\ d = 1
    BY <1>1, <1>4, <1>7, <2>3
  <2>5. peek = 15
    BY <1>8, <2>4
  <2> QED
    BY <1>9, <2>5 DEF Coding!TierOf
<1>10. CASE t # 4
  <2>1. PICK e \in Seq(Bit) : e = Cat(Coding!Ones(t), << 0 >>) /\ Len(e) = t + 1
                              /\ (\A i \in 1 .. t : e[i] = 1) /\ e[t + 1] = 0
    <3>1. t \in Nat
      OBVIOUS
    <3> QED
      BY <3>1, UnaryType
  <2>2. Ahead(r, e)
    BY <1>10, <2>1
  <2>3. \A i \in 1 .. t + 1 : r.bits[r.pos + i] = e[i]
    BY <1>5, <1>10, <2>1, <2>2 DEF Ahead
  <2>4. \A i \in 1 .. t + 1 : s[i] = e[i]
    BY <1>1, <1>4, <1>10, <2>3
  <2>5. CASE t = 0
    <3>1. a = 0
      BY <1>7, <2>1, <2>4, <2>5
    <3>2. peek < 8
      BY <1>8, <3>1 DEF Bit
    <3> QED
      BY <2>5, <3>2 DEF Coding!TierOf
  <2>6. CASE t = 1
    <3>1. a = 1 /\ b = 0
      BY <1>7, <2>1, <2>4, <2>6
    <3>2. peek \in 8 .. 11
      BY <1>8, <3>1 DEF Bit
    <3> QED
      BY <2>6, <3>2 DEF Coding!TierOf
  <2>7. CASE t = 2
    <3>1. a = 1 /\ b = 1 /\ c = 0
      BY <1>7, <2>1, <2>4, <2>7
    <3>2. peek \in 12 .. 13
      BY <1>8, <3>1 DEF Bit
    <3> QED
      BY <2>7, <3>2 DEF Coding!TierOf
  <2>8. CASE t = 3
    <3>1. a = 1 /\ b = 1 /\ c = 1 /\ d = 0
      BY <1>7, <2>1, <2>4, <2>8
    <3>2. peek = 14
      BY <1>8, <3>1 DEF Bit
    <3> QED
      BY <2>8, <3>2 DEF Coding!TierOf
  <2> QED
    BY <1>10, <2>5, <2>6, <2>7, <2>8
<1> QED
  BY <1>9, <1>10

\* With fewer than four bits left, the peek shifts by a negative count; any
\* tier it may find has more bits than are there, so the error is set.
LEMMA TieredFails ==
    ASSUME NEW r \in Reader, r.pos <= Len(r.bits), ~There(r, 4), NEW k \in Nat, k >= 3,
           NEW peek \in 0 .. 15
    PROVE  Coding!DecodeTiered(r, k, peek).next.failed = TRUE
<1>1. PICK t, m : t = Coding!TierOf(peek).tier /\ m = Coding!TierOf(peek).prefix
  OBVIOUS
<1>2. PICK w \in Nat : Tier(k, t, m, w) /\ w \in k .. k + 10
  BY <1>1, TierOfIs
<1>3. t \in 0 .. 4 /\ m \in 1 .. 4 /\ m \in Nat /\ (~(t < 4) => m = 4)
  BY <1>2 DEF Tier
<1>4. PICK payload \in Reader : payload = Skip(r, m) /\ payload.bits = r.bits /\ payload.pos = r.pos + m
  BY <1>3, SkipParts
<1>5. PICK short, whole : short = Coding!Read(payload, w) /\ whole = Coding!ReadWord(payload)
  OBVIOUS
<1>6. Coding!DecodeTiered(r, k, peek) =
         IF t < 4 THEN [val |-> Coding!UnZigZag(short.val), next |-> short.next]
         ELSE [val |-> Coding!Value(whole.val), next |-> whole.next]
  BY <1>1, <1>2, <1>4, <1>5, DecodeTieredIs
<1>7. r.pos \in Nat /\ Len(r.bits) \in Nat /\ ~(r.pos + 4 <= Len(r.bits))
  BY ReaderParts DEF There
<1>8. CASE t < 4
  <2>1. ~There(payload, w)
    BY <1>2, <1>3, <1>4, <1>7 DEF There
  <2>2. short.next.failed = TRUE
    BY <1>5, <2>1, ReadFails
  <2> QED
    BY <1>6, <1>8, <2>2
<1>9. CASE ~(t < 4)
  <2>1. LIMB \in Nat /\ LIMB \in 8 .. 32
    BY WordSizes
  <2>2. ~There(payload, LIMB)
    BY <1>3, <1>4, <1>7, <1>9, <2>1 DEF There
  <2>3. whole.next.failed = TRUE
    BY <1>5, <2>2, WordFails
  <2> QED
    BY <1>6, <1>9, <2>3
<1> QED
  BY <1>8, <1>9

\* With a k of 3 or more, no tiered code is shorter than the peek.
LEMMA TierLong ==
    ASSUME NEW v \in Coding!Int64, NEW k \in Nat, k >= 3, NEW t \in 0 .. 4
    PROVE  Len(TierCode(v, k, t)) >= 4
<1>1. LIMB \in Nat
  BY WordSizes
<1>2. CASE t = 4
  BY <1>1, <1>2, TierCodeType
<1>3. CASE t # 4
  <2>1. t + 1 \in 1 .. 4
    BY <1>3
  <2>2. PICK a \in 0 .. 10 : a = Coding!PayloadAdd[t + 1]
    BY <2>1, Limits
  <2>3. Len(TierCode(v, k, t)) = (t + 1) + (k + a)
    BY <1>3, <2>2, TierCodeType
  <2> QED
    BY <2>2, <2>3
<1> QED
  BY <1>2, <1>3

\* The prefix of a tier, and what comes behind it.
LEMMA TierCodeParts ==
    ASSUME NEW v \in Coding!Int64, NEW k \in Nat, NEW t \in 0 .. 4, NEW m, NEW w \in Nat, Tier(k, t, m, w)
    PROVE  \E s \in Seq(Bit), p \in Seq(Bit) :
              /\ s = IF t = 4 THEN Coding!Ones(4) ELSE Cat(Coding!Ones(t), << 0 >>)
              /\ Len(s) = m
              /\ p = IF t = 4 THEN Coding!RawWord(Coding!Word(v)) ELSE Coding!B(Coding!ZigZag(v), w)
              /\ TierCode(v, k, t) = Cat(s, p)
<1>1. CASE t = 4
  <2>1. PICK n \in Nat : n = 4
    OBVIOUS
  <2>2. PICK s \in Seq(Bit) : s = Coding!Ones(n) /\ Len(s) = n
    BY OnesType
  <2>3. PICK p \in Seq(Bit) : p = Coding!RawWord(Coding!Word(v))
    BY ZigZags, RawType
  <2>4. m = n
    BY <1>1, <2>1 DEF Tier
  <2>5. TierCode(v, k, t) = Cat(s, p)
    BY <1>1, <2>1, <2>2, <2>3 DEF TierCode
  <2>6. s = Coding!Ones(4)
    BY <2>1, <2>2
  <2> QED
    BY <1>1, <2>2, <2>3, <2>4, <2>5, <2>6
<1>2. CASE t # 4
  <2>1. t \in Nat /\ t < 4
    BY <1>2
  <2>2. PICK s \in Seq(Bit) : s = Cat(Coding!Ones(t), << 0 >>) /\ Len(s) = t + 1
    BY <2>1, UnaryType
  <2>3. Coding!ZigZag(v) \in Nat
    BY ZigZags, WordSizes
  <2>4. PICK p \in Seq(Bit) : p = Coding!B(Coding!ZigZag(v), w)
    BY <2>3, BType
  <2>5. m = t + 1 /\ w = k + Coding!PayloadAdd[t + 1]
    BY <2>1 DEF Tier
  <2>6. TierCode(v, k, t) = Cat(s, p)
    BY <1>2, <2>2, <2>4, <2>5 DEF TierCode
  <2> QED
    BY <1>2, <2>2, <2>4, <2>5, <2>6
<1> QED
  BY <1>1, <1>2

\* The tiered decoder reads back what encode_residual has written.
LEMMA TieredGives ==
    ASSUME NEW r \in Reader, r.pos <= Len(r.bits), NEW k \in Nat, k >= 3, k + 10 <= 2 * LIMB,
           NEW v \in Coding!Int64, Ahead(r, Coding!Tiered(v, k)), NEW peek \in Coding!Peeks(r)
    PROVE  Gives(Coding!DecodeTiered(r, k, peek), r, Coding!Tiered(v, k), v)
<1>1. PICK z \in Nat : z = Coding!ZigZag(v) /\ Coding!UnZigZag(z) = v
  BY ZigZags, WordSizes
<1>2. PICK t \in 0 .. 4 : InTier(z, k, t)
  BY <1>1, TierExists
<1>3. Coding!Tiered(v, k) = TierCode(v, k, t)
  BY <1>1, <1>2, TieredIs
<1>4. peek \in 0 .. 15
  BY PeekType
<1>5. r.pos \in Nat /\ Len(r.bits) \in Nat
  BY ReaderParts
<1>6. CASE ~There(r, 4)
  <2>1. PICK l \in Nat : l = Len(TierCode(v, k, t)) /\ l >= 4
    <3>1. PICK y \in Seq(Bit) : y = TierCode(v, k, t)
      BY TierCodeType
    <3>2. Len(y) \in Nat /\ Len(y) >= 4
      BY <3>1, TierLong
    <3> QED
      BY <3>1, <3>2
  <2>2. ~There(r, l)
    BY <1>5, <1>6, <2>1 DEF There
  <2>3. Coding!DecodeTiered(r, k, peek).next.failed = TRUE
    BY <1>4, <1>6, TieredFails
  <2> QED
    BY <1>3, <2>1, <2>2, <2>3 DEF Gives
<1>7. CASE There(r, 4)
  <2>1. PICK g, m : g = Coding!TierOf(peek).tier /\ m = Coding!TierOf(peek).prefix
    OBVIOUS
  <2>2. PICK w \in Nat : Tier(k, g, m, w)
    BY <1>4, <2>1, TierOfIs
  <2>3. PICK tm, tw \in Nat : Tier(k, t, tm, tw)
    <3>1. CASE t < 4
      <4>1. t + 1 \in 1 .. 4
        BY <3>1
      <4>2. PICK a \in 0 .. 10 : a = Coding!PayloadAdd[t + 1]
        BY <4>1, Limits
      <4>3. k + a \in Nat
        BY <4>2
      <4>4. Tier(k, t, t + 1, k + a)
        BY <3>1, <4>2 DEF Tier
      <4> QED
        BY <4>3, <4>4
    <3>2. CASE ~(t < 4)
      BY <3>2 DEF Tier
    <3> QED
      BY <3>1, <3>2
  <2>4. PICK s \in Seq(Bit), p \in Seq(Bit) :
              /\ s = IF t = 4 THEN Coding!Ones(4) ELSE Cat(Coding!Ones(t), << 0 >>)
              /\ Len(s) = tm
              /\ p = IF t = 4 THEN Coding!RawWord(Coding!Word(v)) ELSE Coding!B(Coding!ZigZag(v), tw)
              /\ TierCode(v, k, t) = Cat(s, p)
    BY <2>3, TierCodeParts
  <2>5. Ahead(r, s) /\ Ahead(Skip(r, Len(s)), p)
    BY <1>3, <2>4, AheadParts
  <2>6. g = t
    BY <1>7, <2>1, <2>4, <2>5, PeekShows
  <2>7. m = tm /\ m \in 1 .. 4 /\ m \in Nat /\ (t < 4 => w = tw /\ w = k + Coding!PayloadAdd[t + 1])
    BY <2>2, <2>3, <2>6 DEF Tier
  <2>8. PICK payload \in Reader : payload = Skip(r, m)
    BY <2>7, SkipParts
  <2>9. There(r, m)
    BY <1>5, <1>7, <2>7 DEF There
  <2>10. Onward(r, payload)
    BY <2>7, <2>8, <2>9, SkipOnward
  <2>11. PICK short, whole : short = Coding!Read(payload, w) /\ whole = Coding!ReadWord(payload)
    OBVIOUS
  <2>12. Coding!DecodeTiered(r, k, peek) =
            IF t < 4 THEN [val |-> Coding!UnZigZag(short.val), next |-> short.next]
            ELSE [val |-> Coding!Value(whole.val), next |-> whole.next]
    <3>1. t = Coding!TierOf(peek).tier /\ Tier(k, t, m, w)
      BY <2>1, <2>2, <2>6
    <3> QED
      BY <2>1, <2>8, <2>11, <3>1, DecodeTieredIs, SMTT(20)
  <2>13. PICK d, x : d = [val |-> x, next |-> payload]
    OBVIOUS
  <2>14. Gives(d, r, s, x) /\ Onward(r, d.next)
    BY <2>4, <2>7, <2>8, <2>9, <2>10, <2>13 DEF Gives
  <2>15. Ahead(payload, p)
    BY <2>4, <2>5, <2>7, <2>8
  <2>16. CASE t < 4
    <3>1. p = Coding!B(z, w) /\ Len(p) = w
      <4>1. t # 4 /\ w = tw
        BY <2>7, <2>16
      <4>2. p = Coding!B(z, w)
        BY <1>1, <2>4, <4>1
      <4> QED
        BY <4>2, BType
    <3>2. Coding!Num(p) = z
      <4>1. PICK c \in Nat : c = Coding!Pow2[w] /\ c > 0
        BY PowType
      <4>2. z < c
        <5>1. t + 1 \in 1 .. 4 /\ ~(t + 1 <= t)
          BY <2>16
        <5>2. ~(z >= Coding!Pow2[k + Coding!PayloadAdd[t + 1]])
          BY <1>2, <5>1 DEF InTier
        <5> QED
          BY <2>7, <2>16, <4>1, <5>2
      <4>3. PICK o \in Nat : o = 0
        OBVIOUS
      <4>4. z = o * c + z /\ z \in 0 .. c - 1
        BY <4>2, <4>3
      <4>5. z % c = z
        BY <4>4, DivUnique
      <4> QED
        BY <3>1, <4>1, <4>5, NumB
    <3>3. Gives(short, payload, p, z)
      BY <2>11, <2>15, <3>1, <3>2, ReadGives
    <3>4. Onward(payload, short.next)
      BY <2>11, ReadOnward
    <3>5. Gives(short, r, Cat(s, p), z) /\ (There(r, Len(Cat(s, p))) => short.val = z)
      BY <2>13, <2>14, <3>3, <3>4, GivesBoth
    <3>6. Coding!DecodeTiered(r, k, peek).next = short.next
          /\ (There(r, Len(Cat(s, p))) => Coding!DecodeTiered(r, k, peek).val = v)
      BY <1>1, <2>12, <2>16, <3>5
    <3> QED
      BY <1>3, <2>4, <3>5, <3>6, GivesOther
  <2>17. CASE ~(t < 4)
    <3>1. PICK u \in 0 .. Coding!U64 - 1 : u = Coding!Word(v) /\ Coding!Value(u) = v
      BY ZigZags
    <3>2. p = Coding!RawWord(u)
      BY <2>4, <2>17, <3>1
    <3>3. Gives(whole, payload, p, u)
      BY <2>11, <2>15, <3>2, WordGives
    <3>4. Onward(payload, whole.next)
      BY <2>11, WordOnward
    <3>5. Gives(whole, r, Cat(s, p), u) /\ (There(r, Len(Cat(s, p))) => whole.val = u)
      BY <2>13, <2>14, <3>3, <3>4, GivesBoth
    <3>6. Coding!DecodeTiered(r, k, peek).next = whole.next
          /\ (There(r, Len(Cat(s, p))) => Coding!DecodeTiered(r, k, peek).val = v)
      BY <2>12, <2>17, <3>1, <3>5
    <3> QED
      BY <1>3, <2>4, <3>5, <3>6, GivesOther
  <2> QED
    BY <2>16, <2>17
<1> QED
  BY <1>6, <1>7

\* Every item comes back with its own code and k.
LEMMA DecodeGives ==
    ASSUME NEW it \in Items, NEW r \in Reader, r.pos <= Len(r.bits), Ahead(r, Coding!Encode(it)),
           NEW peek \in Coding!Peeks(r)
    PROVE  Gives(Coding!Decode(r, it.code, it.k, peek), r, Coding!Encode(it), it.v)
<1>1. PICK c, k, v : c = it.code /\ k = it.k /\ v = it.v
  OBVIOUS
<1>2. /\ c \in Coding!Codes /\ k \in Nat /\ k \in 0 .. LIMB - 1 /\ k + 10 <= 2 * LIMB
      /\ c = "tiered" => k >= 3
      /\ c = "bench_expgolomb" => Coding!ZigZag(v) + Coding!Pow2[k] < Coding!U64
      /\ c = "rank" => v \in 0 .. RANKS - 1
      /\ c # "rank" => v \in Coding!Int64
  BY <1>1, ItemParts
<1>3. CASE c = "tiered"
  <2>1. Coding!Encode(it) = Coding!Tiered(v, k) /\ Coding!Decode(r, c, k, peek) = Coding!DecodeTiered(r, k, peek)
    BY <1>1, <1>3 DEF Coding!Encode, Coding!Decode
  <2> QED
    BY <1>1, <1>2, <1>3, <2>1, TieredGives
<1>4. CASE c = "expgolomb"
  <2>1. Coding!Encode(it) = Coding!ExpGolomb(v, k) /\ Coding!Decode(r, c, k, peek) = Coding!DecodeExpGolomb(r, k)
    BY <1>1, <1>4 DEF Coding!Encode, Coding!Decode
  <2> QED
    BY <1>1, <1>2, <1>4, <2>1, ExpGolombGives
<1>5. CASE c = "rank"
  <2>1. Coding!Encode(it) = Coding!RankCode(v) /\ Coding!Decode(r, c, k, peek) = Coding!DecodeRank(r)
    BY <1>1, <1>5 DEF Coding!Encode, Coding!Decode
  <2> QED
    BY <1>1, <1>2, <1>5, <2>1, RankGives
<1>6. CASE c = "golomb_rice"
  <2>1. Coding!Encode(it) = Coding!GolombRice(v, k) /\ Coding!Decode(r, c, k, peek) = Coding!DecodeGolombRice(r, k)
    BY <1>1, <1>6 DEF Coding!Encode, Coding!Decode
  <2> QED
    BY <1>1, <1>2, <1>6, <2>1, GolombRiceGives
<1>7. CASE c = "bench_expgolomb"
  <2>1. Coding!Encode(it) = Coding!BenchExpGolomb(v, k) /\ Coding!Decode(r, c, k, peek) = Coding!DecodeBenchExpGolomb(r, k)
    BY <1>1, <1>7 DEF Coding!Encode, Coding!Decode
  <2> QED
    BY <1>1, <1>2, <1>7, <2>1, BenchExpGolombGives
<1> QED
  BY <1>2, <1>3, <1>4, <1>5, <1>6, <1>7 DEF Coding!Codes

-----------------------------------------------------------------------------
(* A stream of items. *)

\* The code of an item is bits.
LEMMA EncodeType ==
    ASSUME NEW it \in Items
    PROVE  Coding!Encode(it) \in Seq(Bit)
<1>1. PICK c, k, v : c = it.code /\ k = it.k /\ v = it.v
  OBVIOUS
<1>2. /\ c \in Coding!Codes /\ k \in Nat /\ k \in 0 .. LIMB - 1
      /\ c = "bench_expgolomb" => Coding!ZigZag(v) + Coding!Pow2[k] < Coding!U64
      /\ c = "rank" => v \in 0 .. RANKS - 1
      /\ c # "rank" => v \in Coding!Int64
  BY <1>1, ItemParts
<1>3. LIMB \in Nat
  BY WordSizes
<1>4. ASSUME NEW q \in Nat, NEW m \in Nat, NEW n \in Nat
      PROVE  Cat(Cat(Coding!Ones(q), << 0 >>), Coding!B(m, n)) \in Seq(Bit)
  BY UnaryType, BType, CatType
<1>5. CASE c = "tiered"
  <2>1. PICK z \in Nat : z = Coding!ZigZag(v)
    BY <1>2, <1>5, ZigZags, WordSizes
  <2>2. PICK t \in 0 .. 4 : InTier(z, k, t)
    BY <1>2, <2>1, TierExists
  <2>3. Coding!Tiered(v, k) \in Seq(Bit)
    BY <1>2, <1>5, <2>1, <2>2, TieredIs, TierCodeType
  <2> QED
    BY <1>1, <1>5, <2>3 DEF Coding!Encode
<1>6. ASSUME v \in Coding!Int64 PROVE Coding!ExpGolomb(v, k) \in Seq(Bit)
  <2>1. Coding!ZigZag(v) + Coding!Pow2[k] \in Nat
    BY <1>2, <1>6, ZigZags, WordSizes, PowType
  <2>2. ASSUME NEW q \in 0 .. LIMB - 1 PROVE q \in Nat /\ q + k \in Nat
    BY <1>2, <1>3
  <2>3. Coding!Word(v) \in 0 .. Coding!U64 - 1
    BY <1>6, ZigZags
  <2> QED
    <3>1. CASE Coding!ExpGolomb(v, k) = Cat(Coding!Ones(LIMB), Coding!RawWord(Coding!Word(v)))
      BY <2>3, <3>1, EscapeLengths
    <3>2. ASSUME NEW q \in 0 .. LIMB - 1,
                 Coding!ExpGolomb(v, k) = Cat(Cat(Coding!Ones(q), << 0 >>), Coding!B(Coding!ZigZag(v) + Coding!Pow2[k], q + k))
          PROVE  Coding!ExpGolomb(v, k) \in Seq(Bit)
      BY <1>4, <2>1, <2>2, <3>2
    <3> QED
      BY <1>2, <1>6, <3>1, <3>2, ExpGolombIs
<1>7. CASE c = "expgolomb"
  BY <1>1, <1>2, <1>6, <1>7 DEF Coding!Encode
<1>8. CASE c = "rank"
  <2>1. PICK u, a, n : /\ Group(u, a, n) /\ v - a \in 0 .. Coding!Pow2[n] - 1
                       /\ Coding!RankCode(v) = Cat(Flags(u), Coding!B(v - a, n))
    BY <1>2, <1>8, RankCodeIs
  <2>2. u \in 0 .. 3 /\ u \in Nat /\ n \in Nat /\ v - a \in Nat
    <3>1. n \in Nat /\ u \in 0 .. 3
      BY <2>1, GroupPowers
    <3>2. Coding!Pow2[n] \in Nat
      BY <3>1, PowType
    <3> QED
      BY <2>1, <3>1, <3>2
  <2>3. Flags(u) \in Seq(Bit)
    BY <2>2, OnesType, UnaryType DEF Flags
  <2>4. Coding!RankCode(v) \in Seq(Bit)
    BY <2>1, <2>2, <2>3, BType, CatType
  <2> QED
    BY <1>1, <1>8, <2>4 DEF Coding!Encode
<1>9. CASE c = "golomb_rice"
  <2>1. Coding!ZigZag(v) \in 0 .. Coding!U64 - 1 /\ Coding!ZigZag(v) \in Nat
    BY <1>2, <1>9, ZigZags, WordSizes
  <2>2. ASSUME NEW q \in 0 .. LIMB - 1 PROVE q \in Nat
    BY <1>3
  <2>3. Coding!GolombRice(v, k) \in Seq(Bit)
    BY <1>2, <1>4, <1>9, <2>1, <2>2, GolombRiceIs, EscapeLengths
  <2> QED
    BY <1>1, <1>9, <2>3 DEF Coding!Encode
<1>10. CASE c = "bench_expgolomb"
  <2>1. Coding!ZigZag(v) \in 0 .. Coding!U64 - 1
    BY <1>2, <1>10, ZigZags
  <2>2. Coding!BenchExpGolomb(v, k) \in Seq(Bit)
    BY <1>2, <1>6, <1>10, <2>1, BenchExpGolombIs, EscapeLengths
  <2> QED
    BY <1>1, <1>10, <2>2 DEF Coding!Encode
<1> QED
  BY <1>2, <1>5, <1>7, <1>8, <1>9, <1>10 DEF Coding!Codes

\* What a reader gets from any bits, taken for any code.
LEMMA DecodeOnward ==
    ASSUME NEW r \in Reader, NEW c \in Coding!Codes, NEW k \in 0 .. LIMB - 1, k + 10 <= 2 * LIMB,
           NEW peek \in Coding!Peeks(r)
    PROVE  /\ IF c = "rank" THEN Coding!Decode(r, c, k, peek).val \in 0 .. RANKS - 1
                            ELSE Coding!Decode(r, c, k, peek).val \in Coding!Int64
           /\ \E m \in 0 .. 4 : Onward(Skip(r, m), Coding!Decode(r, c, k, peek).next)
<1>1. LIMB \in Nat /\ k \in Nat
  BY WordSizes
<1>2. PICK o \in 0 .. 4 : o = 0 /\ Skip(r, o) = r
  <2>1. Skip(r, 0) = r
    BY DEF Skip, Reader
  <2> QED
    BY <2>1
<1>3. CASE c = "tiered"
  <2>1. Coding!Decode(r, c, k, peek) = Coding!DecodeTiered(r, k, peek)
    BY <1>3 DEF Coding!Decode
  <2> QED
    BY <1>1, <1>3, <2>1, PeekType, TieredOnward
<1>4. CASE c = "expgolomb"
  <2>1. Coding!Decode(r, c, k, peek) = Coding!DecodeExpGolomb(r, k)
    BY <1>4 DEF Coding!Decode
  <2> QED
    BY <1>2, <1>4, <2>1, ExpGolombOnward
<1>5. CASE c = "rank"
  <2>1. Coding!Decode(r, c, k, peek) = Coding!DecodeRank(r)
    BY <1>5 DEF Coding!Decode
  <2> QED
    BY <1>2, <1>5, <2>1, RankOnward
<1>6. CASE c = "golomb_rice"
  <2>1. Coding!Decode(r, c, k, peek) = Coding!DecodeGolombRice(r, k)
    BY <1>6 DEF Coding!Decode
  <2> QED
    BY <1>2, <1>6, <2>1, GolombRiceOnward
<1>7. CASE c = "bench_expgolomb"
  <2>1. Coding!Decode(r, c, k, peek) = Coding!DecodeBenchExpGolomb(r, k)
    BY <1>7 DEF Coding!Decode
  <2> QED
    BY <1>2, <1>7, <2>1, BenchExpGolombOnward
<1> QED
  BY <1>3, <1>4, <1>5, <1>6, <1>7 DEF Coding!Codes

\* The items of list one after the other.
Joined(these, f) ==
    /\ f \in [0 .. Len(these) -> Seq(Bit)]
    /\ f[0] = << >>
    /\ \A i \in 1 .. Len(these) : f[i] = Cat(f[i - 1], Coding!Encode(these[i]))

\* The codes of a list can be joined one after the other.
LEMMA JoinedExists ==
    ASSUME NEW these \in Seq(Items)
    PROVE  \E f : Joined(these, f)
<1>1. PICK n \in Nat : n = Len(these)
  OBVIOUS
<1>2. \A i \in 1 .. n : Coding!Encode(these[i]) \in Seq(Bit)
  <2>1. \A i \in 1 .. n : these[i] \in Items
    BY <1>1, ElementOfSeq
  <2> QED
    BY <2>1, EncodeType
<1>3. PICK X : X = Seq(Bit)
  OBVIOUS
<1>4. PICK W : W = 1 .. n
  OBVIOUS
<1>5. PICK step : step = [p \in W \X X |-> Cat(p[2], Coding!Encode(these[p[1]]))]
  OBVIOUS
<1>6. ASSUME NEW i \in W, NEW y \in X
      PROVE  step[<<i, y>>] = Cat(y, Coding!Encode(these[i])) /\ Cat(y, Coding!Encode(these[i])) \in X
  <2>1. step[<<i, y>>] = Cat(y, Coding!Encode(these[i]))
    BY <1>5, Zenon
  <2>2. Cat(y, Coding!Encode(these[i])) \in X
    BY <1>2, <1>3, <1>4, CatType
  <2> QED
    BY <2>1, <2>2
<1>7. step \in [W \X X -> X]
  <2>1. ASSUME NEW p \in W \X X PROVE Cat(p[2], Coding!Encode(these[p[1]])) \in X
    BY <1>6
  <2> QED
    BY <1>5, <2>1, Zenon
<1>8. PICK x \in X : x = << >>
  <2>1. << >> \in Seq(Bit)
    BY EmptySeq
  <2> QED
    BY <1>3, <2>1
<1>9. \E f : Loop(X, x, step, n, f)
  BY <1>4, <1>7, LoopExists
<1>10. PICK f : Loop(X, x, step, n, f)
  BY <1>9
<1>11. f \in [0 .. n -> X] /\ f[0] = << >>
  BY <1>8, <1>10 DEF Loop
<1>12. ASSUME NEW i \in 1 .. n PROVE f[i] = Cat(f[i - 1], Coding!Encode(these[i]))
  <2>1. f[i] = step[<<i, f[i - 1]>>]
    BY <1>10 DEF Loop
  <2>2. f[i - 1] \in X /\ i \in W
    BY <1>4, <1>11
  <2> QED
    BY <1>6, <2>1, <2>2
<1> QED
  BY <1>1, <1>3, <1>11, <1>12, Zenon DEF Joined

\* Two lists join alike as far as they agree.
LEMMA JoinedAgree ==
    ASSUME NEW these \in Seq(Items), NEW f, Joined(these, f),
           NEW part \in Seq(Items), NEW e, Joined(part, e), Len(part) <= Len(these),
           \A i \in 1 .. Len(part) : part[i] = these[i]
    PROVE  \A i \in 0 .. Len(part) : e[i] = f[i]
<1>1. PICK n \in Nat, l \in Nat : n = Len(part) /\ l = Len(these) /\ n <= l
  OBVIOUS
<1> DEFINE T == {i \in 0 .. n : e[i] = f[i]}
<1>2. 0 \in T
  <2>1. e[0] = f[0]
    BY Zenon DEF Joined
  <2>2. 0 \in 0 .. n
    OBVIOUS
  <2> QED
    BY <2>1, <2>2
<1>3. ASSUME NEW i \in 1 .. n, i - 1 \in T PROVE i \in T
  <2>1. i \in 1 .. l /\ i \in 0 .. n
    BY <1>1
  <2>2. e[i - 1] = f[i - 1]
    BY <1>3
  <2>3. e[i] = Cat(e[i - 1], Coding!Encode(part[i])) /\ f[i] = Cat(f[i - 1], Coding!Encode(these[i]))
    BY <1>1, <2>1, Zenon DEF Joined
  <2>4. part[i] = these[i]
    BY <1>1
  <2> QED
    BY <2>1, <2>2, <2>3, <2>4, Zenon
<1> HIDE DEF T
<1>4. \A i \in 0 .. n : i \in T
  BY <1>2, <1>3, Induct
<1> QED
  BY <1>1, <1>4, Zenon DEF T

\* The bits of a list are its codes joined.
LEMMA BitsAre ==
    ASSUME NEW these \in Seq(Items), NEW f, Joined(these, f)
    PROVE  Coding!Bits(these) = f[Len(these)]
<1>1. PICK n \in Nat : n = Len(these)
  OBVIOUS
<1>2. PICK seqs : seqs = [i \in 1 .. n |-> Coding!Encode(these[i])]
  OBVIOUS
<1>3. Len(seqs) = n /\ Coding!Bits(these) = Coding!FlattenSeq(seqs)
  BY <1>1, <1>2 DEF Coding!Bits
<1>4. CASE n = 0
  <2>1. seqs = << >>
    <3>1. seqs \in Seq({}) /\ Len(seqs) = 0
      BY <1>2, <1>3, <1>4
    <3> QED
      BY <3>1, EmptySeq
  <2>2. Coding!FlattenSeq(seqs) = seqs
    BY <1>3, <1>4 DEF Coding!FlattenSeq
  <2>3. f[n] = << >>
    BY <1>4 DEF Joined
  <2> QED
    BY <1>1, <1>3, <2>1, <2>2, <2>3
<1>5. CASE n # 0
  <2> DEFINE Body(g) == [i \in 1 .. n |-> IF i = 1 THEN seqs[i] ELSE Cat(g[i - 1], seqs[i])]
  <2>1. PICK h : h = [i \in 1 .. n |-> f[i]]
    OBVIOUS
  <2>2. ASSUME NEW i \in 1 .. n PROVE f[i] = IF i = 1 THEN seqs[i] ELSE Cat(f[i - 1], seqs[i])
    <3>1. f[i] = Cat(f[i - 1], seqs[i])
      BY <1>1, <1>2, Zenon DEF Joined
    <3>2. CASE i = 1
      <4>1. f[i - 1] = << >>
        <5>1. i - 1 = 0
          BY <3>2
        <5> QED
          BY <5>1, Zenon DEF Joined
      <4>2. seqs[i] \in Seq(Bit)
        <5>1. these[i] \in Items
          BY <1>1, ElementOfSeq
        <5> QED
          BY <1>2, <5>1, EncodeType
      <4> QED
        BY <3>1, <3>2, <4>1, <4>2, CatEmpty
    <3> QED
      BY <3>1, <3>2
  <2>3. h = Body(h)
    <3>1. ASSUME NEW i \in 1 .. n
          PROVE  h[i] = IF i = 1 THEN seqs[i] ELSE Cat(h[i - 1], seqs[i])
      <4>1. CASE i = 1
        BY <2>1, <2>2, <4>1
      <4>2. CASE i # 1
        <5>1. i - 1 \in 1 .. n
          BY <4>2
        <5> QED
          BY <2>1, <2>2, <4>2, <5>1
      <4> QED
        BY <4>1, <4>2
    <3> QED
      BY <2>1, <3>1, Zenon
  <2>4. PICK flatten : flatten = CHOOSE g : g = Body(g)
    OBVIOUS
  <2>5. Coding!FlattenSeq(seqs) = flatten[n]
    BY <1>3, <1>5, <2>4, Zenon DEF Coding!FlattenSeq, Cat
  <2>6. flatten = Body(flatten)
    <3> HIDE DEF Body
    <3> QED
      BY <2>3, <2>4
  <2>7. flatten[n] = f[n]
    <3> DEFINE T == {0} \cup {i \in 1 .. n : flatten[i] = f[i]}
    <3>1. 0 \in T
      OBVIOUS
    <3>2. ASSUME NEW i \in 1 .. n, i - 1 \in T PROVE i \in T
      <4>1. flatten[i] = IF i = 1 THEN seqs[i] ELSE Cat(flatten[i - 1], seqs[i])
        BY <2>6, Zenon
      <4>2. i # 1 => flatten[i - 1] = f[i - 1]
        BY <3>2
      <4> QED
        BY <2>2, <4>1, <4>2, Zenon
    <3>3. n \in T
      <4>1. n \in 0 .. n
        OBVIOUS
      <4> HIDE DEF T
      <4> QED
        BY <3>1, <3>2, <4>1, Induct
    <3> QED
      BY <1>5, <3>3
  <2> QED
    BY <1>1, <1>3, <2>5, <2>7
<1> QED
  BY <1>4, <1>5

\* The bits of the first items of a list are those joined so far.
LEMMA PartBits ==
    ASSUME NEW these \in Seq(Items), NEW f, Joined(these, f), NEW i \in 0 .. Len(these)
    PROVE  Coding!Bits(SubSeq(these, 1, i)) = f[i]
<1>1. PICK p \in Nat : p = 0
  OBVIOUS
<1>2. i \in Nat /\ p + i <= Len(these) /\ p + 1 = 1 /\ p + i = i
  BY <1>1
<1>3. PICK part : part = SubSeq(these, p + 1, p + i)
  OBVIOUS
<1>4. part \in Seq(Items) /\ Len(part) = i /\ \A j \in 1 .. i : part[j] = these[p + j]
  BY <1>2, <1>3, Slice
<1>5. \A j \in 1 .. i : part[j] = these[j]
  BY <1>1, <1>4
<1>6. PICK e : Joined(part, e)
  BY <1>4, JoinedExists
<1>7. e[i] = f[i]
  <2>1. i \in 0 .. Len(part) /\ Len(part) <= Len(these) /\ \A j \in 1 .. Len(part) : part[j] = these[j]
    BY <1>2, <1>4, <1>5
  <2> QED
    BY <1>4, <1>6, <2>1, JoinedAgree
<1>8. Coding!Bits(part) = e[i]
  BY <1>4, <1>6, BitsAre
<1> QED
  BY <1>2, <1>3, <1>7, <1>8

\* What comes later does not change what is there.
LEMMA JoinedExtends ==
    ASSUME NEW these \in Seq(Items), NEW f, Joined(these, f), NEW n \in Nat, n = Len(these),
           NEW i \in 0 .. n
    PROVE  /\ Len(f[i]) \in Nat /\ Len(f[n]) \in Nat /\ Len(f[i]) <= Len(f[n])
           /\ \A j \in 1 .. Len(f[i]) : f[n][j] = f[i][j]
<1>1. \A m \in 0 .. n : f[m] \in Seq(Bit) /\ Len(f[m]) \in Nat
  BY SMTT(20) DEF Joined
<1>2. \A m \in 1 .. n : these[m] \in Items
  BY ElementOfSeq
<1>3. \A m \in 1 .. n : f[m] = Cat(f[m - 1], Coding!Encode(these[m])) /\ Coding!Encode(these[m]) \in Seq(Bit)
  BY <1>2, EncodeType, Zenon DEF Joined
<1> DEFINE Grown(m) == Len(f[i]) <= Len(f[m]) /\ \A j \in 1 .. Len(f[i]) : f[m][j] = f[i][j]
           T == {m \in 0 .. n : m < i \/ Grown(m)}
<1>4. Grown(i)
  BY <1>1
<1>5. 0 \in T
  BY <1>4
<1>6. ASSUME NEW m \in 1 .. n, m - 1 \in T PROVE m \in T
  <2>1. CASE m - 1 < i
    BY <1>4, <2>1
  <2>2. CASE ~(m - 1 < i)
    <3>1. Grown(m - 1)
      BY <1>6, <2>2
    <3>2. PICK s \in Seq(Bit), t \in Seq(Bit) : s = f[m - 1] /\ t = Coding!Encode(these[m]) /\ f[m] = Cat(s, t)
      BY <1>1, <1>3
    <3>3. Len(f[m]) = Len(s) + Len(t) /\ \A j \in 1 .. Len(s) : f[m][j] = s[j]
      <4>1. PICK u : u = Cat(s, t)
        OBVIOUS
      <4>2. Len(u) = Len(s) + Len(t) /\ \A j \in 1 .. Len(s) : u[j] = s[j]
        BY <4>1, CatType, CatBits
      <4> QED
        BY <3>2, <4>1, <4>2
    <3>4. Len(f[i]) \in Nat /\ Len(s) \in Nat /\ Len(t) \in Nat /\ Len(f[i]) <= Len(s)
      BY <1>1, <3>1, <3>2
    <3>5. Len(f[i]) <= Len(f[m])
      BY <3>3, <3>4
    <3>6. ASSUME NEW j \in 1 .. Len(f[i]) PROVE f[m][j] = f[i][j]
      <4>1. j \in 1 .. Len(s)
        BY <3>4
      <4>2. f[m - 1][j] = f[i][j]
        BY <3>1
      <4> QED
        BY <3>2, <3>3, <4>1, <4>2
    <3> QED
      BY <3>5, <3>6
  <2> QED
    BY <2>1, <2>2
<1>7. n \in T
  <2>1. n \in 0 .. n
    OBVIOUS
  <2> HIDE DEF T
  <2> QED
    BY <1>5, <1>6, <2>1, Induct
<1>8. Grown(n)
  BY <1>7
<1> QED
  BY <1>1, <1>8

\* Where an item ends, and that its bits are found before.
LEMMA ItemBits ==
    ASSUME NEW these \in Seq(Items), NEW i \in 0 .. Len(these) - 1
    PROVE  /\ Len(Coding!Bits(SubSeq(these, 1, i))) \in Nat
           /\ Len(Coding!Bits(SubSeq(these, 1, i + 1))) =
                 Len(Coding!Bits(SubSeq(these, 1, i))) + Len(Coding!Encode(these[i + 1]))
           /\ Len(Coding!Bits(SubSeq(these, 1, i + 1))) <= Len(Coding!Bits(these))
           /\ \A j \in 1 .. Len(Coding!Encode(these[i + 1])) :
                 Coding!Bits(these)[Len(Coding!Bits(SubSeq(these, 1, i))) + j] = Coding!Encode(these[i + 1])[j]
<1>1. PICK n \in Nat : n = Len(these)
  OBVIOUS
<1>2. PICK f : Joined(these, f)
  BY JoinedExists
<1>3. i \in 0 .. n /\ i + 1 \in 1 .. n /\ i + 1 \in 0 .. n /\ (i + 1) - 1 = i
  BY <1>1
<1>4. PICK it \in Items : it = these[i + 1]
  BY <1>1, <1>3, ElementOfSeq
<1>5. PICK t \in Seq(Bit) : t = Coding!Encode(it)
  BY EncodeType
<1>6. PICK s \in Seq(Bit) : s = f[i]
  BY <1>1, <1>2, <1>3 DEF Joined
<1>7. f[i + 1] = Cat(s, t)
  BY <1>1, <1>2, <1>3, <1>4, <1>5, <1>6, Zenon DEF Joined
<1>8. Coding!Bits(SubSeq(these, 1, i)) = s /\ Coding!Bits(SubSeq(these, 1, i + 1)) = Cat(s, t) /\ Coding!Bits(these) = f[n]
  BY <1>1, <1>2, <1>3, <1>6, <1>7, PartBits, BitsAre
<1>9. Len(Cat(s, t)) = Len(s) + Len(t) /\ \A j \in 1 .. Len(t) : Cat(s, t)[Len(s) + j] = t[j]
  BY CatType, CatBits
<1>10. Len(Cat(s, t)) <= Len(f[n]) /\ \A j \in 1 .. Len(Cat(s, t)) : f[n][j] = Cat(s, t)[j]
  BY <1>1, <1>2, <1>3, <1>7, JoinedExtends
<1>11. ASSUME NEW j \in 1 .. Len(t) PROVE f[n][Len(s) + j] = t[j]
  <2>1. Len(s) + j \in 1 .. Len(Cat(s, t))
    BY <1>9
  <2> QED
    BY <1>9, <1>10, <2>1
<1> QED
  BY <1>4, <1>5, <1>8, <1>9, <1>10, <1>11

\* No items have no bits, and any items have bits.
LEMMA NoBits ==
    ASSUME NEW these \in Seq(Items)
    PROVE  Len(Coding!Bits(SubSeq(these, 1, 0))) = 0 /\ Coding!Bits(these) \in Seq(Bit)
<1>1. PICK f : Joined(these, f)
  BY JoinedExists
<1>2. PICK n \in Nat, o \in 0 .. Len(these) : n = Len(these) /\ o = 0
  OBVIOUS
<1>3. Coding!Bits(SubSeq(these, 1, o)) = f[o] /\ Coding!Bits(these) = f[n]
  BY <1>1, <1>2, PartBits, BitsAre
<1>4. f[o] = << >> /\ f[n] \in Seq(Bit)
  BY <1>1, <1>2 DEF Joined
<1> QED
  BY <1>2, <1>3, <1>4, EmptySeq

\* The last byte is filled up with zeros.
LEMMA PaddedIs ==
    ASSUME NEW s \in Seq(Bit)
    PROVE  /\ Coding!Padded(s) \in Seq(Bit)
           /\ Len(Coding!Padded(s)) \in Nat /\ Len(s) <= Len(Coding!Padded(s))
           /\ \A j \in 1 .. Len(s) : Coding!Padded(s)[j] = s[j]
<1>1. PICK n : n = (8 - (Len(s) % 8)) % 8
  OBVIOUS
<1>2. n \in Nat
  BY <1>1
<1>3. PICK z : z = [i \in 1 .. n |-> 0]
  OBVIOUS
<1>4. z \in Seq(Bit)
  BY <1>2, <1>3 DEF Bit
<1>5. PICK u : u = Coding!Padded(s) /\ u = Cat(s, z)
  <2>1. Coding!Padded(s) = Cat(s, z)
    BY <1>1, <1>3, Zenon DEF Coding!Padded, Cat
  <2> QED
    BY <2>1
<1>6. u \in Seq(Bit) /\ Len(u) = Len(s) + Len(z) /\ \A j \in 1 .. Len(s) : u[j] = s[j]
  <2>1. Cat(s, z) \in Seq(Bit) /\ Len(Cat(s, z)) = Len(s) + Len(z)
    BY <1>4, CatType
  <2>2. \A j \in 1 .. Len(s) : Cat(s, z)[j] = s[j]
    BY <1>4, CatBits
  <2> QED
    BY <1>5, <2>1, <2>2
<1>7. Len(u) \in Nat /\ Len(s) <= Len(u)
  BY <1>4, <1>6
<1> QED
  BY <1>5, <1>6, <1>7

-----------------------------------------------------------------------------
(* The layer. *)

Decoded == [code : Coding!Codes, val : Int]

\* What the steps of the layer keep.
Keeping ==
    /\ items \in Seq(Items)
    /\ decoded \in Seq(Decoded)
    /\ reader = Coding!NoReader => decoded = << >> /\ mistaken = Coding!InStep
    /\ reader # Coding!NoReader =>
          /\ reader \in Reader
          /\ Len(reader.bits) <= Len(Coding!Padded(Coding!Bits(items)))
          /\ \A j \in 1 .. Len(reader.bits) : reader.bits[j] = Coding!Padded(Coding!Bits(items))[j]
          /\ mistaken \in Mistaken \cup {Coding!InStep}
          /\ Len(decoded) <= Len(items)
    /\ Coding!TypeOK
    /\ Coding!RoundTrip

\* A reader is not the absence of one.
LEMMA SomeReader ==
    ASSUME NEW r \in Reader
    PROVE  r # Coding!NoReader
<1>1. DOMAIN r = {"bits", "pos", "failed"}
  BY DEF Reader
<1>2. DOMAIN << >> = {}
  OBVIOUS
<1> QED
  BY <1>1, <1>2 DEF Coding!NoReader

\* The layer starts with nothing written.
LEMMA InitKeeping == Coding!Init => Keeping
<1> SUFFICES ASSUME Coding!Init PROVE Keeping
  OBVIOUS
<1>1. items \in Seq(Items) /\ decoded \in Seq(Decoded)
  BY EmptySeq DEF Coding!Init
<1> QED
  BY <1>1, Zenon DEF Coding!Init, Keeping, Coding!TypeOK, Coding!RoundTrip

\* Writing one more item keeps what the layer keeps.
LEMMA WriteKeeping ==
    ASSUME Keeping, NEW it \in Items, Coding!Write(it)
    PROVE  Keeping'
<1>1. reader = Coding!NoReader /\ reader' = Coding!NoReader /\ decoded' = decoded /\ mistaken' = mistaken
  BY DEF Coding!Write
<1>2. items' \in Seq(Items)
  BY DEF Coding!Write, Keeping
<1>3. decoded' = << >> /\ mistaken' = Coding!InStep /\ decoded' \in Seq(Decoded)
  BY <1>1, Zenon DEF Keeping, Coding!InStep
<1> QED
  BY <1>1, <1>2, <1>3, Zenon DEF Keeping, Coding!TypeOK, Coding!RoundTrip, Coding!NoReader, Coding!InStep

\* So does handing over the bytes, or the first of them,
LEMMA OpenKeeping ==
    ASSUME Keeping, NEW cut \in 0 .. MAX_CUT, NEW as \in Mistaken \cup {Coding!InStep}, Coding!Open(cut, as)
    PROVE  Keeping'
<1>1. reader = Coding!NoReader /\ decoded = << >> /\ items \in Seq(Items)
  BY DEF Coding!Open, Keeping
<1>2. items' = items /\ decoded' = decoded /\ mistaken' = as
  BY DEF Coding!Open
<1>3. PICK bytes \in Seq(Bit) : bytes = Coding!Padded(Coding!Bits(items))
  BY <1>1, NoBits, PaddedIs
<1>4. MAX_CUT \in Nat
  BY CodeGiven DEF Coding!CodeAssumption
<1>5. PICK p \in Nat, n \in Nat : p = 0 /\ n = Len(bytes) - 8 * cut /\ p + n <= Len(bytes)
                               /\ p + 1 = 1 /\ p + n = n
  <2>1. 8 * cut <= Len(bytes)
    BY <1>3, Zenon DEF Coding!Open
  <2>2. Len(bytes) - 8 * cut \in Nat /\ Len(bytes) - 8 * cut <= Len(bytes)
    BY <1>4, <2>1
  <2> QED
    BY <2>2
<1>6. PICK s : s = SubSeq(bytes, p + 1, p + n)
  OBVIOUS
<1>7. s \in Seq(Bit) /\ Len(s) = n /\ \A j \in 1 .. n : s[j] = bytes[p + j]
  <2>1. p + n <= Len(bytes)
    BY <1>5
  <2> QED
    BY <1>6, <2>1, Slice, Zenon
<1>8. reader' = [bits |-> s, pos |-> 0, failed |-> FALSE]
  <2>1. s = SubSeq(bytes, 1, n)
    BY <1>5, <1>6, Zenon
  <2>2. reader' = [bits |-> SubSeq(bytes, 1, Len(bytes) - 8 * cut), pos |-> 0, failed |-> FALSE]
    BY <1>3, Zenon DEF Coding!Open
  <2> QED
    BY <1>5, <2>1, <2>2, Zenon
<1>9. PICK r : r = [bits |-> s, pos |-> 0, failed |-> FALSE]
  OBVIOUS
<1>10. r \in Reader /\ r.bits = s /\ r.pos = 0 /\ r.failed = FALSE
  BY <1>7, <1>9 DEF Reader
<1>11. \A j \in 1 .. n : s[j] = bytes[j]
  BY <1>5, <1>7
<1>12. n <= Len(bytes) /\ Len(decoded) = 0 /\ Len(items) \in Nat /\ Len(decoded) <= Len(items)
  BY <1>1, <1>5
<1>13. r.pos \in 0 .. Len(r.bits) + 4 * Len(decoded) /\ DOMAIN decoded = {}
  <2>1. n \in Nat /\ Len(r.bits) = n
    BY <1>7, <1>10
  <2> QED
    BY <1>1, <1>10, <1>12, <2>1
<1>14. Coding!TypeOK'
  BY <1>2, <1>8, <1>9, <1>13, Zenon DEF Coding!TypeOK
<1>15. Coding!RoundTrip'
  <2>1. Len(Coding!Bits(SubSeq(items, 1, Len(decoded)))) = 0
    BY <1>1, <1>12, NoBits
  <2>2. ~(Len(Coding!Bits(SubSeq(items, 1, Len(decoded)))) > Len(r.bits))
    BY <1>7, <1>10, <2>1
  <2> QED
    BY <1>2, <1>8, <1>9, <1>10, <1>13, <2>1, <2>2, Zenon DEF Coding!RoundTrip, Coding!EndOf
<1>16. reader' = r /\ r # Coding!NoReader
  BY <1>8, <1>9, <1>10, SomeReader
<1>17. decoded \in Seq(Decoded)
  BY DEF Keeping
<1>18. /\ Len(r.bits) <= Len(Coding!Padded(Coding!Bits(items)))
       /\ \A j \in 1 .. Len(r.bits) : r.bits[j] = Coding!Padded(Coding!Bits(items))[j]
  BY <1>3, <1>7, <1>10, <1>11, <1>12
<1> QED
  BY <1>1, <1>2, <1>10, <1>12, <1>14, <1>15, <1>16, <1>17, <1>18, Zenon DEF Keeping, Coding!NoReader, Coding!InStep

\* What is appended comes behind all that was there.
LEMMA Appended ==
    ASSUME NEW S, NEW s \in Seq(S), NEW x \in S
    PROVE  /\ Append(s, x) \in Seq(S) /\ Len(Append(s, x)) = Len(s) + 1
           /\ DOMAIN Append(s, x) = 1 .. Len(s) + 1 /\ DOMAIN s = 1 .. Len(s)
           /\ \A i \in 1 .. Len(s) : Append(s, x)[i] = s[i]
           /\ Append(s, x)[Len(s) + 1] = x
  OBVIOUS

\* What a step leaves of the reader, whatever it is taken for.
LEMMA NextReader ==
    ASSUME NEW r \in Reader, NEW m \in 0 .. 4, NEW next, Onward(Skip(r, m), next)
    PROVE  /\ next \in Reader /\ next.bits = r.bits
           /\ r.failed => next.failed
           /\ next.pos \in Nat
           /\ next.pos <= r.pos + 4 \/ next.pos <= Len(r.bits)
<1>1. Skip(r, m) \in Reader /\ Skip(r, m).bits = r.bits
      /\ Skip(r, m).pos = r.pos + m /\ Skip(r, m).failed = r.failed
  BY SkipParts
<1>2. next \in Reader /\ next.bits = r.bits /\ (r.failed => next.failed)
      /\ (next.pos = r.pos + m \/ next.pos <= Len(r.bits))
  BY <1>1 DEF Onward
<1>3. next.pos \in Nat /\ r.pos \in Nat
  BY <1>2, ReaderParts
<1> QED
  BY <1>2, <1>3

\* and decoding the next item, with the right coder or another.
LEMMA DecodeKeeping ==
    ASSUME Keeping, Coding!DecodeNext
    PROVE  Keeping'
<1>1. reader # Coding!NoReader /\ Len(decoded) < Len(items) /\ items' = items /\ mistaken' = mistaken
  BY DEF Coding!DecodeNext
<1>2. /\ items \in Seq(Items) /\ decoded \in Seq(Decoded) /\ reader \in Reader
      /\ Len(reader.bits) <= Len(Coding!Padded(Coding!Bits(items)))
      /\ \A j \in 1 .. Len(reader.bits) : reader.bits[j] = Coding!Padded(Coding!Bits(items))[j]
      /\ mistaken \in Mistaken \cup {Coding!InStep}
  BY <1>1, Zenon DEF Keeping
<1>3. /\ reader.pos \in 0 .. Len(reader.bits) + 4 * Len(decoded)
      /\ \A i \in DOMAIN decoded :
            IF decoded[i].code = "rank" THEN decoded[i].val \in 0 .. RANKS - 1
                                        ELSE decoded[i].val \in Coding!Int64
  BY <1>1, Zenon DEF Keeping, Coding!TypeOK
<1>4. PICK n \in Nat : n = Len(decoded) /\ n \in 0 .. Len(items) - 1 /\ n + 1 \in 1 .. Len(items)
  BY <1>1, <1>2
<1>5. PICK it \in Items : it = items[n + 1]
  BY <1>2, <1>4, ElementOfSeq
<1>6. PICK as : as = IF mistaken = Coding!InStep THEN items[n + 1] ELSE mistaken
  OBVIOUS
<1>7. PICK c, k : c = as.code /\ k = as.k
  OBVIOUS
<1>8. c \in Coding!Codes /\ k \in 0 .. LIMB - 1 /\ k + 10 <= 2 * LIMB
  <2>1. CASE mistaken = Coding!InStep
    BY <1>5, <1>6, <1>7, <2>1, ItemParts
  <2>2. CASE mistaken # Coding!InStep
    <3>1. as \in Mistaken
      BY <1>2, <1>6, <2>2
    <3> QED
      BY <1>7, <3>1, CodeGiven DEF Coding!CodeAssumption
  <2> QED
    BY <2>1, <2>2
<1>9. PICK peek \in Coding!Peeks(reader) :
         /\ reader' = Coding!Decode(reader, c, k, peek).next
         /\ decoded' = Append(decoded, [code |-> c, val |-> Coding!Decode(reader, c, k, peek).val])
  BY <1>4, <1>6, <1>7, Zenon DEF Coding!DecodeNext
<1>10. PICK d : d = Coding!Decode(reader, c, k, peek)
  OBVIOUS
<1>11. /\ IF c = "rank" THEN d.val \in 0 .. RANKS - 1 ELSE d.val \in Coding!Int64
       /\ \E m \in 0 .. 4 : Onward(Skip(reader, m), d.next)
  BY <1>2, <1>8, <1>10, DecodeOnward
<1>12. /\ d.next \in Reader /\ d.next.bits = reader.bits
       /\ reader.failed => d.next.failed
       /\ d.next.pos \in Nat
       /\ d.next.pos <= reader.pos + 4 \/ d.next.pos <= Len(reader.bits)
  BY <1>2, <1>11, NextReader
<1>13. PICK x : x = [code |-> c, val |-> d.val]
  OBVIOUS
<1>14. x \in Decoded /\ x.code = c /\ x.val = d.val
  <2>1. d.val \in Int
    <3>1. RANKS \in 65 .. 320 /\ Coding!HALF \in Nat
      BY CodeGiven, WordSizes DEF Coding!CodeAssumption
    <3>2. c = "rank" => d.val \in Int
      BY <1>11, <3>1
    <3>3. c # "rank" => d.val \in Int
      BY <1>11, <3>1 DEF Coding!Int64
    <3> QED
      BY <3>2, <3>3
  <2> QED
    BY <1>8, <1>13, <2>1 DEF Decoded
<1>15. PICK more : more = Append(decoded, x)
  OBVIOUS
<1>16. /\ more \in Seq(Decoded) /\ Len(more) = n + 1
       /\ DOMAIN more = 1 .. n + 1 /\ DOMAIN decoded = 1 .. n
       /\ \A i \in 1 .. n : more[i] = decoded[i]
       /\ more[n + 1] = x
  BY <1>2, <1>4, <1>14, <1>15, Appended
<1>17. reader' = d.next /\ decoded' = more
  BY <1>9, <1>10, <1>13, <1>15
<1>18. d.next # Coding!NoReader
  BY <1>12, SomeReader
<1>19. Coding!TypeOK'
  <2>1. d.next.pos \in 0 .. Len(d.next.bits) + 4 * Len(more)
    <3>1. Len(reader.bits) \in Nat /\ reader.pos \in Nat
      BY <1>2, ReaderParts
    <3>2. reader.pos \in 0 .. Len(reader.bits) + 4 * n
      BY <1>3, <1>4, Zenon
    <3>3. PICK b \in Nat, p \in Nat, y \in Nat :
             b = Len(reader.bits) /\ p = reader.pos /\ y = d.next.pos
      BY <1>12, <3>1
    <3>4. p <= b + 4 * n /\ (y <= p + 4 \/ y <= b)
      <4>1. p \in 0 .. b + 4 * n
        BY <3>2, <3>3, Zenon
      <4>2. y <= p + 4 \/ y <= b
        BY <1>12, <3>3, Zenon
      <4> QED
        BY <4>1, <4>2
    <3>5. y \in 0 .. b + 4 * (n + 1)
      BY <3>4
    <3> QED
      BY <1>12, <1>16, <3>3, <3>5, Zenon
  <2>2. ASSUME NEW i \in 1 .. n + 1
        PROVE  IF more[i].code = "rank" THEN more[i].val \in 0 .. RANKS - 1
                                        ELSE more[i].val \in Coding!Int64
    <3>1. CASE i = n + 1
      BY <1>11, <1>14, <1>16, <3>1
    <3>2. CASE i # n + 1
      <4>1. i \in 1 .. n
        BY <3>2
      <4>2. more[i] = decoded[i] /\ i \in DOMAIN decoded
        BY <1>16, <4>1
      <4> QED
        BY <1>3, <4>2, Zenon
    <3> QED
      BY <3>1, <3>2
  <2> QED
    BY <1>16, <1>17, <2>1, <2>2, Zenon DEF Coding!TypeOK
<1>20. Coding!RoundTrip'
  <2> DEFINE e == Len(Coding!Bits(SubSeq(items, 1, n)))
             l == Len(Coding!Encode(items[n + 1]))
             g == Len(Coding!Bits(SubSeq(items, 1, n + 1)))
  <2> SUFFICES ASSUME mistaken = Coding!InStep
               PROVE  IF g > Len(d.next.bits) THEN d.next.failed
                      ELSE /\ \A i \in DOMAIN more : more[i].val = items[i].v
                           /\ d.next.pos = g
                           /\ ~d.next.failed
    <3>1. (Len(decoded))' = n + 1
      BY <1>16, <1>17
    <3> QED
      BY <1>1, <1>17, <3>1, Zenon DEF Coding!RoundTrip, Coding!EndOf
  <2>1. /\ e \in Nat /\ g = e + l /\ g <= Len(Coding!Bits(items))
        /\ \A j \in 1 .. l : Coding!Bits(items)[e + j] = Coding!Encode(items[n + 1])[j]
    BY <1>2, <1>4, ItemBits
  <2>2. l \in Nat
    <3>1. PICK s \in Seq(Bit) : s = Coding!Encode(it)
      BY EncodeType
    <3> QED
      BY <1>5, <3>1
  <2> HIDE DEF e, l, g
  <2>3. Len(reader.bits) \in Nat /\ reader.pos \in Nat /\ reader.failed \in BOOLEAN
    BY <1>2, ReaderParts
  <2>4. IF e > Len(reader.bits) THEN reader.failed
        ELSE /\ \A i \in DOMAIN decoded : decoded[i].val = items[i].v
             /\ reader.pos = e
             /\ ~reader.failed
    BY <1>1, <1>4, Zenon DEF Keeping, Coding!RoundTrip, Coding!EndOf, e
  <2>5. CASE e > Len(reader.bits)
    <3>1. g > Len(d.next.bits)
      BY <1>12, <2>1, <2>2, <2>3, <2>5
    <3> QED
      BY <1>12, <2>4, <2>5, <3>1
  <2>6. CASE ~(e > Len(reader.bits))
    <3>1. reader.pos = e /\ reader.pos <= Len(reader.bits) /\ ~reader.failed
      BY <2>1, <2>3, <2>4, <2>6
    <3>2. PICK s \in Seq(Bit) : s = Coding!Encode(it) /\ Len(s) = l
      BY <1>5, EncodeType DEF l
    <3>3. Ahead(reader, s)
      <4> SUFFICES ASSUME NEW j \in 1 .. l, reader.pos + j <= Len(reader.bits)
                   PROVE  reader.bits[reader.pos + j] = s[j]
        BY <3>2 DEF Ahead
      <4>1. e + j \in 1 .. Len(reader.bits) /\ e + j \in 1 .. Len(Coding!Bits(items))
        <5>1. Len(Coding!Bits(items)) \in Nat
          BY <1>2, NoBits
        <5> QED
          BY <2>1, <2>2, <2>3, <3>1, <5>1
      <4>2. Coding!Padded(Coding!Bits(items))[e + j] = Coding!Bits(items)[e + j]
        <5>1. Coding!Bits(items) \in Seq(Bit)
          BY <1>2, NoBits
        <5> QED
          BY <4>1, <5>1, PaddedIs
      <4>3. Coding!Bits(items)[e + j] = s[j]
        BY <1>5, <2>1, <3>2
      <4> QED
        BY <1>2, <3>1, <4>1, <4>2, <4>3
    <3>4. Gives(d, reader, s, it.v)
      <4>1. c = it.code /\ k = it.k
        BY <1>5, <1>6, <1>7
      <4> QED
        BY <1>2, <1>10, <3>1, <3>2, <3>3, <4>1, DecodeGives
    <3>5. There(reader, l) <=> ~(g > Len(d.next.bits))
      BY <1>12, <2>1, <2>2, <2>3, <3>1 DEF There
    <3>6. CASE There(reader, l)
      <4>1. d.val = it.v /\ d.next = Skip(reader, l)
        BY <3>2, <3>4, <3>6 DEF Gives
      <4>2. d.next.pos = g /\ ~d.next.failed
        <5>1. Skip(reader, l).pos = reader.pos + l /\ Skip(reader, l).failed = reader.failed
          BY <1>2, <2>2, SkipParts
        <5> QED
          BY <2>1, <3>1, <4>1, <5>1
      <4>3. ASSUME NEW i \in 1 .. n + 1 PROVE more[i].val = items[i].v
        <5>1. CASE i = n + 1
          BY <1>5, <1>14, <1>16, <4>1, <5>1
        <5>2. CASE i # n + 1
          <6>1. i \in 1 .. n
            BY <5>2
          <6>2. more[i] = decoded[i] /\ i \in DOMAIN decoded
            BY <1>16, <6>1
          <6> QED
            BY <2>4, <2>6, <6>2, Zenon
        <5> QED
          BY <5>1, <5>2
      <4> QED
        BY <1>16, <3>5, <3>6, <4>2, <4>3
    <3>7. CASE ~There(reader, l)
      <4>1. d.next.failed = TRUE
        BY <3>2, <3>4, <3>7 DEF Gives
      <4> QED
        BY <3>5, <3>7, <4>1
    <3> QED
      BY <3>6, <3>7
  <2> QED
    BY <2>5, <2>6
<1>21. Len(more) <= Len(items)
  BY <1>4, <1>16
<1>22. d.next # << >>
  BY <1>18 DEF Coding!NoReader
<1> QED
  BY <1>1, <1>2, <1>12, <1>16, <1>17, <1>19, <1>20, <1>21, <1>22, Zenon DEF Keeping, Coding!NoReader, Coding!InStep

\* The coder moves in no step of another layer.
LEMMA OthersLeaveCoder ==
    ASSUME [Next]_vars
    PROVE  Coding!Next \/ UNCHANGED <<items, reader, decoded, mistaken>>
  BY DEF Next, vars, coder

\* No part of Keeping is about anything but the coder.
LEMMA CoderUnmoved ==
    ASSUME Keeping, UNCHANGED <<items, reader, decoded, mistaken>>
    PROVE  Keeping'
  BY Zenon DEF Keeping, Coding!TypeOK, Coding!RoundTrip, Coding!EndOf

\* Every step keeps what the coder has.
LEMMA NextKeeping ==
    ASSUME Keeping, [Next]_vars
    PROVE  Keeping'
<1>1. CASE Coding!Next
  <2>1. ASSUME NEW it \in Items, Coding!Write(it) PROVE Keeping'
    BY <2>1, WriteKeeping
  <2>2. ASSUME NEW cut \in 0 .. MAX_CUT, NEW as \in Mistaken \cup {Coding!InStep}, Coding!Open(cut, as)
        PROVE  Keeping'
    BY <2>2, OpenKeeping
  <2>3. ASSUME Coding!DecodeNext PROVE Keeping'
    BY <2>3, DecodeKeeping
  <2> QED
    BY <1>1, <2>1, <2>2, <2>3, Zenon DEF Coding!Next
<1>2. CASE UNCHANGED <<items, reader, decoded, mistaken>>
  BY <1>2, CoderUnmoved
<1> QED
  BY <1>1, <1>2, OthersLeaveCoder

\* The coder starts with nothing written.
LEMMA StartKeeping == Init => Keeping
  BY InitKeeping DEF Init

\* What has been written are items, so their bits are the same in every coder.
LEMMA KeptWire == Keeping => Coding!SameWire
<1> SUFFICES ASSUME Keeping, NEW i \in DOMAIN items
             PROVE  LET it == items[i]
                    IN  /\ it.code = "tiered" =>
                              /\ Coding!BaselineTiered(it.v, it.k) = Coding!Tiered(it.v, it.k)
                              /\ Coding!BranchlessTiered(it.v, it.k) = Coding!Tiered(it.v, it.k)
                              /\ Coding!TieredCost(it.v, it.k) = Len(Coding!Tiered(it.v, it.k))
                        /\ it.code = "bench_expgolomb" =>
                              \/ Coding!BenchExpGolomb(it.v, it.k) = Coding!ExpGolomb(it.v, it.k)
                              \/ /\ Len(Coding!ExpGolomb(it.v, it.k)) = 3 * LIMB
                                 /\ Len(Coding!BenchExpGolomb(it.v, it.k)) = 3 * LIMB + 1
  BY Zenon DEF Coding!SameWire
<1>1. items[i] \in Items
  BY DEF Keeping
<1> QED
  BY <1>1, OneWire, Zenon

\* Residuals and ranks come back as they were written, in every code, and one
\* that has lost bits at the end of the data sets br->error (CodesRoundTrip).
THEOREM CodesComeBack == Spec => []CodesRoundTrip
<1>1. Keeping /\ [Next]_vars => Keeping'
  BY NextKeeping
<1>2. Keeping => CodesRoundTrip
  BY DEF Keeping, CodesRoundTrip
<1> QED
  BY <1>1, <1>2, StartKeeping, PTL DEF Spec

\* Whatever a reader takes the bits for, it returns words and ranks of the
\* table, and gets past the end of the data by a tier prefix per item at most.
THEOREM CodesAreTyped == Spec => []Coding!TypeOK
<1>1. Keeping /\ [Next]_vars => Keeping'
  BY NextKeeping
<1>2. Keeping => Coding!TypeOK
  BY DEF Keeping
<1> QED
  BY <1>1, <1>2, StartKeeping, PTL DEF Spec

\* What is there twice writes one format (WireCompatible): the two bit writers,
\* and the coders of bench/ that are compared with those of the codec.
THEOREM WiresAgree ==
    ASSUME Fits
    PROVE  Spec => []WireCompatible
<1>1. Keeping /\ [Next]_vars => Keeping'
  BY NextKeeping
<1>2. Filling /\ [Next]_vars => Filling'
  BY NextFilling
<1>3. Keeping /\ Filling => WireCompatible
  BY KeptWire, FillingCompatible DEF Filling, WireCompatible
<1> QED
  BY <1>1, <1>2, <1>3, StartKeeping, InitFilling, PTL DEF Spec




\* The assumptions on the coder.
LEMMA RansGiven == Entropy!RansAssumption
  BY LayersAssumption DEF LayersAssumption

\* Numbers are the same strings of bits in every module.
LEMMA SameNumerals ==
    /\ Entropy!Pow2 = Coding!Pow2
    /\ \A v, n : Entropy!B(v, n) = Coding!B(v, n)
    /\ \A s : Entropy!Num(s) = Coding!Num(s)
    /\ \A v : Entropy!ZigZag(v) = Coding!ZigZag(v)
    /\ \A v : Entropy!UnZigZag(v) = Coding!UnZigZag(v)
    /\ \A v : Entropy!Word(v) = Coding!Word(v)
    /\ \A v : Entropy!Value(v) = Coding!Value(v)
    /\ \A u : Entropy!RawWord(u) = Coding!RawWord(u)
    /\ Entropy!U64 = Coding!U64 /\ Entropy!HALF = Coding!HALF /\ Entropy!Int64 = Coding!Int64
<1>1. Entropy!Pow2 = Coding!Pow2
  BY Zenon DEF Entropy!Pow2, Coding!Pow2
<1>2. Entropy!U64 = Coding!U64 /\ Entropy!HALF = Coding!HALF
  BY DEF Entropy!U64, Coding!U64, Entropy!HALF, Coding!HALF
<1>3. Entropy!Int64 = Coding!Int64
  BY <1>2, Zenon DEF Entropy!Int64, Coding!Int64
<1>4. \A v, n : Entropy!B(v, n) = Coding!B(v, n)
  BY <1>1, Zenon DEF Entropy!B, Coding!B
<1>5. \A s : Entropy!Num(s) = Coding!Num(s)
  BY Zenon DEF Entropy!Num, Coding!Num
<1>6. \A v : Entropy!ZigZag(v) = Coding!ZigZag(v)
  BY Zenon DEF Entropy!ZigZag, Coding!ZigZag
<1>7. \A v : Entropy!UnZigZag(v) = Coding!UnZigZag(v)
  BY Zenon DEF Entropy!UnZigZag, Coding!UnZigZag
<1>8. \A v : Entropy!Word(v) = Coding!Word(v)
  BY <1>2, Zenon DEF Entropy!Word, Coding!Word
<1>9. \A v : Entropy!Value(v) = Coding!Value(v)
  BY <1>2, Zenon DEF Entropy!Value, Coding!Value
<1>10. \A u : Entropy!RawWord(u) = Coding!RawWord(u)
  BY <1>1, <1>4, Zenon DEF Entropy!RawWord, Coding!RawWord
<1> QED
  BY <1>1, <1>2, <1>3, <1>4, <1>5, <1>6, <1>7, <1>8, <1>9, <1>10

-----------------------------------------------------------------------------
(* Powers of the number of bytes. *)

\* A byte has two values or more.
LEMMA ByteGiven == BYTE \in Nat \ {0} /\ BYTE > 1
  BY RansGiven DEF Entropy!RansAssumption

\* Multiplying by one factor, as often as one likes.
LEMMA Multiplying ==
    ASSUME NEW b \in Nat \ {0}
    PROVE  \E f \in [Nat -> Nat \ {0}] : f[0] = 1 /\ \A n \in Nat : f[n + 1] = b * f[n]
<1> DEFINE X == Nat \ {0}
<1>1. PICK step : step = [p \in Nat \X X |-> b * p[2]]
  OBVIOUS
<1>2. \A i \in Nat, y \in X : step[<<i, y>>] = b * y /\ b * y \in X
  BY <1>1
<1>3. \A n \in Nat : \E g : Loop(X, 1, step, n, g)
  <2> SUFFICES ASSUME NEW n \in Nat PROVE \E g : Loop(X, 1, step, n, g)
    OBVIOUS
  <2>1. PICK W : W = Nat
    OBVIOUS
  <2>2. step \in [W \X X -> X] /\ 1 .. n \subseteq W
    BY <1>1, <2>1
  <2>3. PICK x \in X : x = 1
    OBVIOUS
  <2> HIDE DEF X
  <2>4. \E g : Loop(X, x, step, n, g)
    BY <2>2, LoopExists
  <2> QED
    BY <2>3, <2>4
<1> DEFINE P(n) == CHOOSE g : Loop(X, 1, step, n, g)
           f == [n \in Nat |-> P(n)[n]]
<1>9. ASSUME NEW n \in Nat PROVE Loop(X, 1, step, n, P(n))
  BY <1>3, Zenon
<1> HIDE DEF P
<1>4. \A n \in Nat : P(n)[n] \in X /\ P(n)[0] = 1
  BY <1>9 DEF Loop
<1>5. ASSUME NEW n \in Nat PROVE f[n + 1] = b * f[n]
  <2>1. P(n)[n] = P(n + 1)[n]
    <3>1. n + 1 \in Nat /\ n <= n + 1
      OBVIOUS
    <3> QED
      BY <1>9, <3>1, LoopsAgree
  <2>2. n + 1 \in Nat /\ n + 1 \in 1 .. n + 1 /\ (n + 1) - 1 = n
    OBVIOUS
  <2>3. P(n + 1)[n + 1] = step[<<n + 1, P(n + 1)[n]>>]
    <3>1. Loop(X, 1, step, n + 1, P(n + 1))
      BY <1>9, <2>2
    <3> QED
      BY <2>2, <3>1 DEF Loop
  <2>4. step[<<n + 1, P(n)[n]>>] = b * P(n)[n]
    BY <1>2, <1>4, <2>2
  <2> QED
    BY <2>1, <2>2, <2>3, <2>4
<1>6. f \in [Nat -> X] /\ f[0] = 1
  BY <1>4
<1> QED
  BY <1>5, <1>6

\* Power is what it is defined to be.
LEMMA PowerSteps ==
    /\ Entropy!Power \in [Nat -> Nat \ {0}]
    /\ Entropy!Power[0] = 1
    /\ \A n \in Nat : Entropy!Power[n + 1] = BYTE * Entropy!Power[n]
<1> DEFINE Body(g) == [n \in Nat |-> IF n = 0 THEN 1 ELSE BYTE * g[n - 1]]
<1>1. PICK f \in [Nat -> Nat \ {0}] : f[0] = 1 /\ \A n \in Nat : f[n + 1] = BYTE * f[n]
  BY ByteGiven, Multiplying
<1>2. f = Body(f)
  <2>1. ASSUME NEW n \in Nat PROVE f[n] = IF n = 0 THEN 1 ELSE BYTE * f[n - 1]
    <3>1. CASE n = 0
      BY <1>1, <3>1
    <3>2. CASE n # 0
      <4>1. n - 1 \in Nat /\ (n - 1) + 1 = n
        BY <3>2
      <4> QED
        BY <1>1, <3>2, <4>1
    <3> QED
      BY <3>1, <3>2
  <2> QED
    BY <2>1
<1>3. Entropy!Power = CHOOSE g : g = Body(g)
  BY DEF Entropy!Power
<1>4. Entropy!Power = Body(Entropy!Power)
  <2> HIDE DEF Body
  <2> QED
    BY <1>2, <1>3
<1>5. ASSUME NEW n \in Nat PROVE Entropy!Power[n + 1] = BYTE * Entropy!Power[n]
  <2>1. n + 1 \in Nat /\ n + 1 # 0 /\ (n + 1) - 1 = n
    OBVIOUS
  <2> HIDE DEF Entropy!Power
  <2> QED
    BY <1>4, <2>1
<1>6. Entropy!Power[0] = 1
  BY <1>4
<1>7. PICK p : p = Entropy!Power
  OBVIOUS
<1>8. ASSUME NEW n \in Nat PROVE p[n] = f[n]
  <2> DEFINE T == {i \in 0 .. n : p[i] = f[i]}
  <2>1. 0 \in T
    BY <1>1, <1>6, <1>7
  <2>2. ASSUME NEW i \in 1 .. n, i - 1 \in T
        PROVE  i \in T
    <3>1. i - 1 \in Nat /\ (i - 1) + 1 = i
      OBVIOUS
    <3>2. p[i] = BYTE * p[i - 1] /\ f[i] = BYTE * f[i - 1]
      BY <1>1, <1>5, <1>7, <3>1
    <3> QED
      BY <2>2, <3>2
  <2>3. n \in T
    <3>1. n \in 0 .. n
      OBVIOUS
    <3> HIDE DEF T
    <3> QED
      BY <2>1, <2>2, <3>1, Induct
  <2> QED
    BY <2>3
<1> QED
  BY <1>1, <1>4, <1>5, <1>6, <1>7, <1>8

\* Powers are positive numbers.
LEMMA PowerType ==
    ASSUME NEW n \in Nat
    PROVE  Entropy!Power[n] \in Nat /\ Entropy!Power[n] > 0
  BY PowerSteps

\* A number of n bytes has no byte before them.
LEMMA NoByteLeft ==
    ASSUME NEW n \in Nat, NEW x \in Nat, x < Entropy!Power[n]
    PROVE  x \div Entropy!Power[n] = 0
<1>1. PICK b \in Nat : b = Entropy!Power[n] /\ b > 0
  BY PowerType
<1>2. x \in 0 .. b - 1 /\ x = 0 * b + x
  BY <1>1
<1>3. PICK q \in Nat : q = 0
  OBVIOUS
<1>4. x = q * b + x
  BY <1>1, <1>3
<1>5. x \div b = q
  BY <1>1, <1>2, <1>4, DivUnique, ZenonT(40)
<1> QED
  BY <1>1, <1>3, <1>5

\* One byte after the other.
LEMMA NextByte ==
    ASSUME NEW x \in Nat, NEW n \in Nat
    PROVE  /\ x \div Entropy!Power[n] \in Nat
           /\ (x \div Entropy!Power[n]) \div BYTE = x \div Entropy!Power[n + 1]
           /\ (x \div Entropy!Power[n]) % BYTE \in 0 .. BYTE - 1
           /\ x \div Entropy!Power[n]
                 = (x \div Entropy!Power[n + 1]) * BYTE + ((x \div Entropy!Power[n]) % BYTE)
<1>1. PICK b \in Nat : b = Entropy!Power[n] /\ b > 0
  BY PowerType
<1>2. PICK c \in Nat : c = BYTE /\ c > 0
  BY ByteGiven
<1>3. Entropy!Power[n + 1] = c * b
  BY <1>1, <1>2, PowerSteps
<1>4. (x \div b) \div c = x \div (c * b)
  BY <1>1, <1>2, DivDiv
<1>5. PICK y \in Nat : y = x \div b
  BY <1>1, DivMod
<1>6. y \div c \in Nat /\ y % c \in 0 .. c - 1 /\ y = (y \div c) * c + (y % c)
  BY <1>2, <1>5, DivMod
<1> QED
  BY <1>1, <1>2, <1>3, <1>4, <1>5, <1>6

Byte == 0 .. BYTE - 1

\* The lowest n bytes of a number.
LEMMA BytesType ==
    ASSUME NEW x \in Nat, NEW n \in Nat
    PROVE  /\ Entropy!Bytes(x, n) \in Seq(Byte)
           /\ Len(Entropy!Bytes(x, n)) = n
           /\ \A i \in 1 .. n : Entropy!Bytes(x, n)[i] = (x \div Entropy!Power[n - i]) % BYTE
<1>1. ASSUME NEW i \in 1 .. n PROVE (x \div Entropy!Power[n - i]) % BYTE \in Byte
  <2>1. n - i \in Nat
    OBVIOUS
  <2> QED
    BY <2>1, NextByte DEF Byte
<1>2. PICK d : d = [i \in 1 .. n |-> (x \div Entropy!Power[n - i]) % BYTE]
  OBVIOUS
<1>3. d \in [1 .. n -> Byte]
  BY <1>1, <1>2
<1>4. d \in Seq(Byte) /\ Len(d) = n
  BY <1>3
<1>5. Entropy!Bytes(x, n) = d
  BY <1>2, Zenon DEF Entropy!Bytes
<1> QED
  BY <1>2, <1>4, <1>5

\* Pull counts as f does.
LEMMA PullIs ==
    ASSUME NEW x, NEW n \in Nat, NEW bytes, NEW f \in [0 .. n -> Nat], f[0] = x,
           \A i \in 1 .. n : f[i] = f[i - 1] * BYTE + bytes[i]
    PROVE  Entropy!Pull(x, n, bytes) = f[n]
<1> DEFINE Body(g) == [i \in 0 .. n |-> IF i = 0 THEN x ELSE g[i - 1] * BYTE + bytes[i]]
<1>1. f = Body(f)
  <2>1. \A i \in 0 .. n : f[i] = IF i = 0 THEN x ELSE f[i - 1] * BYTE + bytes[i]
    OBVIOUS
  <2> QED
    BY <2>1
<1>2. PICK state : state = CHOOSE g : g = Body(g)
  OBVIOUS
<1>3. Entropy!Pull(x, n, bytes) = state[n]
  BY <1>2 DEF Entropy!Pull
<1>4. state = Body(state)
  <2> HIDE DEF Body
  <2> QED
    BY <1>1, <1>2
<1> DEFINE T == {i \in 0 .. n : state[i] = f[i]}
<1>5. 0 \in T
  BY <1>4
<1>6. ASSUME NEW i \in 1 .. n, i - 1 \in T PROVE i \in T
  <2>1. i \in 0 .. n /\ i # 0
    OBVIOUS
  <2>2. state[i] = state[i - 1] * BYTE + bytes[i]
    BY <1>4, <2>1
  <2> QED
    BY <1>6, <2>1, <2>2
<1>7. n \in T
  <2>1. n \in 0 .. n
    OBVIOUS
  <2> HIDE DEF T
  <2> QED
    BY <1>5, <1>6, <2>1, Induct
<1> QED
  BY <1>3, <1>7

\* Pulling the bytes of a number brings it back, one byte at a time.
LEMMA PullBytes ==
    ASSUME NEW x \in Nat, NEW n \in Nat, NEW j \in 0 .. n, NEW bytes,
           \A i \in 1 .. n : bytes[i] = Entropy!Bytes(x, n)[i]
    PROVE  Entropy!Pull(x \div Entropy!Power[n], j, bytes) = x \div Entropy!Power[n - j]
<1>1. PICK f : f = [i \in 0 .. j |-> x \div Entropy!Power[n - i]]
  OBVIOUS
<1>2. f \in [0 .. j -> Nat]
  <2>1. \A i \in 0 .. j : n - i \in Nat
    OBVIOUS
  <2>2. \A i \in 0 .. j : x \div Entropy!Power[n - i] \in Nat
    BY <2>1, NextByte
  <2> QED
    BY <1>1, <2>2
<1>3. ASSUME NEW i \in 1 .. j PROVE f[i] = f[i - 1] * BYTE + bytes[i]
  <2>1. n - i \in Nat /\ (n - i) + 1 = n - (i - 1) /\ i \in 0 .. j /\ i - 1 \in 0 .. j /\ i \in 1 .. n
    OBVIOUS
  <2>2. bytes[i] = (x \div Entropy!Power[n - i]) % BYTE
    BY <2>1, BytesType
  <2>3. x \div Entropy!Power[n - i]
           = (x \div Entropy!Power[(n - i) + 1]) * BYTE + ((x \div Entropy!Power[n - i]) % BYTE)
    BY <2>1, NextByte
  <2> QED
    BY <1>1, <2>1, <2>2, <2>3
<1>4. f[0] = x \div Entropy!Power[n] /\ f[j] = x \div Entropy!Power[n - j]
  BY <1>1
<1>5. j \in Nat
  OBVIOUS
<1>6. PICK y : y = x \div Entropy!Power[n]
  OBVIOUS
<1>7. f[0] = y
  BY <1>4, <1>6
<1>8. \A i \in 1 .. j : f[i] = f[i - 1] * BYTE + bytes[i]
  BY <1>3
<1>9. Entropy!Pull(y, j, bytes) = f[j]
  BY <1>2, <1>5, <1>7, <1>8, PullIs
<1> QED
  BY <1>4, <1>6, <1>9

-----------------------------------------------------------------------------
(* One step of the coder. *)

\* The states of the coder.
State == RANS_L .. RANS_L * BYTE - 1

\* How often the table fits into the least state.
Share == RANS_L \div PRECISION

\* The table fits a whole number of times, and a state into its bytes.
LEMMA Interval ==
    /\ PRECISION \in Nat /\ PRECISION > 0 /\ Share \in Nat /\ Share > 0
    /\ RANS_L \in Nat /\ RANS_L = Share * PRECISION
    /\ STATE_BYTES \in Nat /\ RANS_L * BYTE \in Nat /\ RANS_L * BYTE <= Entropy!Power[STATE_BYTES]
<1>1. /\ PRECISION \in Nat /\ PRECISION > 0 /\ RANS_L \in Nat /\ RANS_L > 0 /\ RANS_L % PRECISION = 0
      /\ STATE_BYTES \in Nat /\ RANS_L * BYTE <= Entropy!Power[STATE_BYTES]
  BY RansGiven DEF Entropy!RansAssumption
<1>2. Share \in Nat /\ RANS_L = Share * PRECISION + (RANS_L % PRECISION)
  BY <1>1, DivMod DEF Share
<1>3. RANS_L = Share * PRECISION
  BY <1>1, <1>2
<1>4. Share > 0
  BY <1>1, <1>2, <1>3
<1>5. RANS_L * BYTE \in Nat
  BY <1>1, ByteGiven
<1> QED
  BY <1>1, <1>2, <1>3, <1>4, <1>5

\* A state loses all that is above its first bytes.
LEMMA StateType ==
    ASSUME NEW x \in State
    PROVE  x \in Nat /\ RANS_L <= x /\ x < RANS_L * BYTE /\ x < Entropy!Power[STATE_BYTES]
<1>1. PICK a \in Nat, b \in Nat, p \in Nat : a = RANS_L /\ b = RANS_L * BYTE /\ p = Entropy!Power[STATE_BYTES] /\ b <= p
  BY Interval, PowerType
<1>2. x \in a .. b - 1
  BY <1>1 DEF State
<1> QED
  BY <1>1, <1>2

\* The least number of bytes to shed is what Shed is.
LEMMA ShedIs ==
    ASSUME NEW x \in Nat, x < Entropy!Power[STATE_BYTES], NEW limit \in Nat, limit > 0,
           NEW n, n = Entropy!Shed(x, limit)
    PROVE  /\ n \in 0 .. STATE_BYTES
           /\ x \div Entropy!Power[n] < limit
           /\ \A m \in 0 .. n - 1 : ~(x \div Entropy!Power[m] < limit)
<1>1. STATE_BYTES \in Nat
  BY Interval
<1> DEFINE T == {m \in 0 .. STATE_BYTES : x \div Entropy!Power[m] < limit}
<1>2. STATE_BYTES \in T
  BY <1>1, NoByteLeft
<1>3. PICK l \in T : \A m \in T : l <= m
  <2>1. T \subseteq Nat /\ T # {}
    BY <1>2
  <2> HIDE DEF T
  <2> QED
    BY <2>1, LeastNatural
<1>4. n = CHOOSE y \in T : \A z \in T : y <= z
  BY DEF Entropy!Shed, Entropy!Min
<1>5. n = l
  <2>1. \A y \in T : (\A z \in T : y <= z) => y = l
    BY <1>1, <1>3
  <2> HIDE DEF T
  <2> QED
    BY <1>3, <1>4, <2>1
<1>6. n \in T /\ \A m \in T : n <= m
  BY <1>3, <1>5
<1>7. ASSUME NEW m \in 0 .. n - 1 PROVE ~(x \div Entropy!Power[m] < limit)
  <2>1. m \in 0 .. STATE_BYTES /\ ~(n <= m)
    BY <1>1, <1>6
  <2> QED
    BY <1>6, <2>1
<1> QED
  BY <1>6, <1>7

\* A state less one or more bytes is below the interval.
LEMMA BelowInterval ==
    ASSUME NEW x \in State, NEW n \in Nat, n > 0
    PROVE  x \div Entropy!Power[n] \in Nat /\ x \div Entropy!Power[n] < RANS_L
<1>1. PICK l \in Nat : l = RANS_L
  BY Interval
<1>2. PICK c \in Nat : c = BYTE /\ c > 0
  BY ByteGiven
<1>3. x \in Nat /\ x < l * c
  BY <1>1, <1>2, StateType
<1>4. n - 1 \in Nat /\ (n - 1) + 1 = n
  OBVIOUS
<1>5. PICK d \in Nat : d = Entropy!Power[n - 1] /\ d > 0
  BY <1>4, PowerType
<1>6. PICK b \in Nat : b = c * d /\ b = Entropy!Power[n] /\ b > 0
  <2>1. Entropy!Power[n] = c * d
    BY <1>2, <1>4, <1>5, PowerSteps
  <2>2. c * d \in Nat /\ Entropy!Power[n] \in Nat /\ Entropy!Power[n] > 0
    BY <1>2, <1>5, PowerType
  <2> QED
    BY <2>1, <2>2
<1>7. PICK q \in Nat : q = x \div b /\ q * b <= x
  <2>1. x \div b \in Nat /\ x % b \in 0 .. b - 1 /\ x = (x \div b) * b + (x % b)
    BY <1>3, <1>6, DivMod
  <2>2. PICK q \in Nat : q = x \div b
    BY <2>1
  <2>3. q * b \in Nat
    BY <1>6
  <2> QED
    BY <2>1, <2>2, <2>3
<1>8. c <= b
  BY <1>2, <1>5, <1>6
<1>9. q < l
  <2> SUFFICES ASSUME l <= q PROVE FALSE
    BY <1>1
  <2>1. l * c <= l * b
    BY <1>1, <1>2, <1>6, <1>8
  <2>2. l * b <= q * b
    BY <1>1, <1>6, <1>7
  <2>3. l * c \in Nat /\ l * b \in Nat /\ q * b \in Nat
    BY <1>1, <1>2, <1>6, <1>7
  <2> QED
    BY <1>3, <1>7, <2>1, <2>2, <2>3
<1> QED
  BY <1>1, <1>6, <1>7, <1>9

\* Shedding makes room for a bucket of frequency f, and no more than that.
LEMMA ShedState ==
    ASSUME NEW x \in State, NEW f \in Nat, f > 0, f <= PRECISION,
           NEW n, n = Entropy!Shed(x, Share * BYTE * f)
    PROVE  /\ n \in 0 .. STATE_BYTES
           /\ x \div Entropy!Power[n] \in Nat
           /\ Share * f <= x \div Entropy!Power[n]
           /\ x \div Entropy!Power[n] < (Share * BYTE) * f
<1>1. PICK k \in Nat : k = Share /\ k > 0
  BY Interval
<1>2. PICK c \in Nat : c = BYTE /\ c > 0
  BY ByteGiven
<1>3. PICK p \in Nat : p = PRECISION /\ RANS_L = k * p
  BY <1>1, Interval
<1>4. PICK limit \in Nat : limit = (k * c) * f /\ limit > 0 /\ limit = (k * f) * c
  <2>1. (k * c) * f \in Nat /\ (k * c) * f = (k * f) * c
    BY <1>1, <1>2
  <2>2. (k * c) * f > 0
    BY <1>1, <1>2
  <2> QED
    BY <2>1, <2>2
<1>5. x \in Nat /\ k * p <= x /\ x < Entropy!Power[STATE_BYTES]
  BY <1>3, StateType
<1>6. /\ n \in 0 .. STATE_BYTES /\ n \in Nat
      /\ x \div Entropy!Power[n] < limit
      /\ \A m \in 0 .. n - 1 : ~(x \div Entropy!Power[m] < limit)
  <2>1. n = Entropy!Shed(x, limit)
    BY <1>1, <1>2, <1>4
  <2>2. STATE_BYTES \in Nat
    BY Interval
  <2> QED
    BY <1>4, <1>5, <2>1, <2>2, ShedIs
<1>7. PICK y \in Nat : y = x \div Entropy!Power[n]
  BY <1>5, <1>6, NextByte
<1>8. PICK a \in Nat : a = k * f
  BY <1>1
<1>9. a <= y
  <2>1. CASE n = 0
    <3>1. y = x
      <4>1. Entropy!Power[0] = 1
        BY PowerSteps
      <4> QED
        BY <1>5, <1>7, <2>1, <4>1
    <3>2. k * f <= k * p
      BY <1>1, <1>3
    <3> QED
      BY <1>1, <1>3, <1>5, <1>8, <3>1, <3>2
  <2>2. CASE n # 0
    <3>1. n - 1 \in Nat /\ (n - 1) + 1 = n /\ n - 1 \in 0 .. n - 1
      BY <1>6, <2>2
    <3>2. PICK z \in Nat : z = x \div Entropy!Power[n - 1]
      BY <1>5, <3>1, NextByte
    <3>3. ~(z < limit)
      BY <1>6, <3>1, <3>2
    <3>4. z \div c = y
      <4>1. PICK m \in Nat : m = n - 1 /\ m + 1 = n
        BY <3>1
      <4>2. (x \div Entropy!Power[m]) \div BYTE = x \div Entropy!Power[m + 1]
        BY <1>5, NextByte
      <4> QED
        BY <1>2, <1>7, <3>2, <4>1, <4>2
    <3>5. z % c \in 0 .. c - 1 /\ z = y * c + (z % c)
      BY <1>2, <3>4, DivMod
    <3>6. PICK r \in Nat : r = z % c /\ r < c
      BY <1>2, <3>5
    <3>7. a * c <= y * c + r
      BY <1>4, <1>8, <3>3, <3>5, <3>6
    <3>8. ASSUME y < a PROVE FALSE
      <4>1. y * c + c <= a * c
        BY <1>2, <1>7, <1>8, <3>8, TimesGrows
      <4>2. y * c \in Nat /\ a * c \in Nat
        BY <1>2, <1>7, <1>8
      <4> QED
        BY <1>2, <3>6, <3>7, <4>1, <4>2
    <3> QED
      BY <1>7, <1>8, <3>8
  <2> QED
    BY <2>1, <2>2
<1> QED
  BY <1>1, <1>2, <1>4, <1>6, <1>7, <1>8, <1>9

\* y in bucket start .. start + f - 1 of p, scaled by k, and the next state.
Scaling(k, c, p, f, start, y, next) ==
    /\ k \in Nat /\ k > 0 /\ c \in Nat /\ c > 0 /\ p \in Nat
    /\ f \in Nat /\ f > 0 /\ start \in Nat /\ start + f <= p
    /\ y \in Nat /\ k * f <= y /\ y < (k * c) * f
    /\ next = (y \div f) * p + start + (y % f)

\* The step of the encoder and, from its result, that of the decoder: bucket
\* position, quotient and the state before.
LEMMA StepBack ==
    ASSUME NEW k, NEW c, NEW p, NEW f, NEW start, NEW y, NEW next,
           Scaling(k, c, p, f, start, y, next)
    PROVE  /\ next \in k * p .. (k * p) * c - 1
           /\ next % p = start + (y % f) /\ next % p \in start .. start + f - 1
           /\ next \div p = y \div f
           /\ f * (next \div p) + (next % p) - start = y
<1> USE DEF Scaling
<1>1. PICK q \in Nat, r \in 0 .. f - 1 : q = y \div f /\ r = y % f /\ y = q * f + r
  BY DivMod
<1>2. k <= q
  <2> SUFFICES ASSUME q < k PROVE FALSE
    BY <1>1
  <2>1. q * f + f <= k * f
    BY <1>1, TimesGrows
  <2>2. q * f \in Nat /\ k * f \in Nat
    BY <1>1
  <2> QED
    BY <1>1, <2>1, <2>2
<1>3. PICK l \in Nat : l = k * c
  OBVIOUS
<1>4. q + 1 <= l
  <2> SUFFICES ASSUME l <= q PROVE FALSE
    BY <1>1, <1>3
  <2>1. l * f <= q * f
    BY <1>1, <1>3
  <2>2. q * f \in Nat /\ l * f \in Nat /\ y < l * f
    BY <1>1, <1>3
  <2> QED
    BY <1>1, <2>1, <2>2
<1>5. PICK cum \in Nat : cum = start + r /\ cum \in start .. start + f - 1 /\ cum \in 0 .. p - 1
  BY <1>1
<1>6. next = q * p + cum
  <2>1. PICK a \in Nat : a = q * p
    BY <1>1
  <2> QED
    BY <1>1, <1>5, <2>1
<1>7. next \in Nat /\ q * p \in Nat
  BY <1>1, <1>5, <1>6
<1>8. next \div p = q /\ next % p = cum
  <2>1. q \in Nat
    BY <1>1
  <2>2. cum \in 0 .. p - 1
    BY <1>5
  <2>3. next \in Nat
    BY <1>7
  <2> QED
    BY <1>6, <2>1, <2>2, <2>3, DivUnique
<1>9. k * p <= q * p
  BY <1>1, <1>2
<1>10. q * p + p <= l * p
  <2>1. (q + 1) * p <= l * p
    BY <1>1, <1>3, <1>4
  <2>2. (q + 1) * p = q * p + p
    BY <1>1
  <2> QED
    BY <2>1, <2>2
<1>11. l * p = (k * p) * c
  BY <1>3
<1>12. next \in k * p .. (k * p) * c - 1
  <2>1. PICK a \in Nat, b \in Nat, d \in Nat : a = k * p /\ b = q * p /\ d = (k * p) * c
    BY <1>7
  <2> QED
    BY <1>5, <1>6, <1>9, <1>10, <1>11, <2>1
<1>13. f * q + cum - start = y
  <2>1. PICK a \in Nat : a = q * f /\ a = f * q
    BY <1>1
  <2> QED
    BY <1>1, <1>5, <2>1
<1> QED
  BY <1>1, <1>5, <1>8, <1>12, <1>13

\* The decoder pulls as many bytes as the encoder has shed.
LEMMA MissingIs ==
    ASSUME NEW x \in State, NEW n \in Nat, NEW bytes \in Seq(Byte), n <= Len(bytes),
           \A i \in 1 .. n : bytes[i] = Entropy!Bytes(x, n)[i]
    PROVE  /\ Entropy!Missing(x \div Entropy!Power[n], bytes) = n
           /\ Entropy!Pull(x \div Entropy!Power[n], n, bytes) = x
<1>1. x \in Nat /\ RANS_L <= x /\ RANS_L \in Nat
  BY StateType, Interval
<1>2. PICK y : y = x \div Entropy!Power[n]
  OBVIOUS
<1>3. \A j \in 0 .. n : Entropy!Pull(y, j, bytes) = x \div Entropy!Power[n - j]
  BY <1>1, <1>2, PullBytes
<1>4. Entropy!Pull(y, n, bytes) = x
  <2>1. n \in 0 .. n /\ n - n = 0
    OBVIOUS
  <2>2. Entropy!Pull(y, n, bytes) = x \div Entropy!Power[0]
    BY <1>3, <2>1
  <2>3. x \div 1 = x
    BY <1>1
  <2> QED
    BY <2>2, <2>3, PowerSteps
<1> DEFINE T == {j \in 0 .. Len(bytes) : Entropy!Pull(y, j, bytes) >= RANS_L}
<1>5. n \in T
  BY <1>1, <1>4
<1>6. ASSUME NEW j \in T PROVE n <= j
  <2> SUFFICES ASSUME j < n PROVE FALSE
    OBVIOUS
  <2>1. j \in 0 .. n /\ n - j \in Nat /\ n - j > 0
    OBVIOUS
  <2>2. x \div Entropy!Power[n - j] \in Nat /\ x \div Entropy!Power[n - j] < RANS_L
    BY <2>1, BelowInterval
  <2>3. Entropy!Pull(y, j, bytes) = x \div Entropy!Power[n - j]
    BY <1>3, <2>1
  <2> QED
    BY <1>1, <2>2, <2>3
<1>7. \A z \in T : (\A j \in T : z <= j) => z = n
  <2>1. \A j \in T : j \in Nat
    OBVIOUS
  <2> QED
    BY <1>5, <1>6, <2>1
<1>8. Entropy!Min(T) = n
  <2> HIDE DEF T
  <2> QED
    BY <1>5, <1>6, <1>7 DEF Entropy!Min
<1>9. T # {}
  BY <1>5
<1>10. Entropy!Missing(y, bytes) = Entropy!Min(T)
  BY <1>9 DEF Entropy!Missing
<1> QED
  BY <1>2, <1>4, <1>8, <1>10

\* The first bytes of a frame are the last state.
LEMMA StateComesBack ==
    ASSUME NEW x \in State, NEW bytes \in Seq(Byte), STATE_BYTES <= Len(bytes),
           \A i \in 1 .. STATE_BYTES : bytes[i] = Entropy!Bytes(x, STATE_BYTES)[i]
    PROVE  Entropy!Pull(0, STATE_BYTES, bytes) = x
<1>1. x \in Nat /\ STATE_BYTES \in Nat
  BY StateType, Interval
<1>2. PICK n \in Nat : n = STATE_BYTES
  BY <1>1
<1>3. x \div Entropy!Power[n] = 0
  BY <1>1, <1>2, StateType, NoByteLeft
<1>4. n \in 0 .. n /\ n - n = 0
  OBVIOUS
<1>5. Entropy!Pull(x \div Entropy!Power[n], n, bytes) = x \div Entropy!Power[n - n]
  BY <1>1, <1>2, <1>4, PullBytes
<1>6. x \div 1 = x
  BY <1>1
<1> QED
  BY <1>2, <1>3, <1>4, <1>5, <1>6, PowerSteps

-----------------------------------------------------------------------------
(* Sums of frequencies. *)

\* There is a bucket, and there are a few for each position of the table.
LEMMA BucketsGiven ==
    /\ Entropy!Escape \in Nat /\ Entropy!Escape > 0
    /\ Entropy!Symbols = 1 .. Entropy!Escape
    /\ Entropy!Escape * Entropy!Escape <= PRECISION
<1>1. BucketLo \in Seq(Nat) /\ BucketLo # << >>
  BY RansGiven DEF Entropy!RansAssumption
<1>2. Len(BucketLo) \in Nat /\ Len(BucketLo) > 0
  BY <1>1
<1>3. Entropy!Escape * Entropy!Escape <= PRECISION
  BY RansGiven DEF Entropy!RansAssumption
<1> QED
  BY <1>2, <1>3 DEF Entropy!Escape, Entropy!Symbols

\* Below adds up.
LEMMA BelowSteps ==
    ASSUME NEW f \in [Entropy!Symbols -> Nat]
    PROVE  /\ Entropy!Below(f, 0) = 0
           /\ \A n \in 0 .. Entropy!Escape : Entropy!Below(f, n) \in Nat
           /\ \A n \in 1 .. Entropy!Escape :
                 Entropy!Below(f, n) = Entropy!Below(f, n - 1) + f[n]
<1>1. PICK k \in Nat : k = Entropy!Escape /\ Entropy!Symbols = 1 .. k
  BY BucketsGiven
<1> DEFINE Body(g) == [i \in 0 .. k |-> IF i = 0 THEN 0 ELSE g[i - 1] + f[i]]
<1>2. PICK step : step = [p \in (1 .. k) \X Nat |-> p[2] + f[p[1]]]
  OBVIOUS
<1>3. PICK W : W = 1 .. k
  OBVIOUS
<1>4. step \in [W \X Nat -> Nat] /\ \A i \in 1 .. k, y \in Nat : step[<<i, y>>] = y + f[i]
  BY <1>1, <1>2, <1>3
<1>5. PICK g : Loop(Nat, 0, step, k, g)
  <2>1. PICK z \in Nat : z = 0
    OBVIOUS
  <2>2. \E g : Loop(Nat, z, step, k, g)
    BY <1>3, <1>4, LoopExists
  <2> QED
    BY <2>1, <2>2
<1>6. g \in [0 .. k -> Nat] /\ g[0] = 0 /\ \A i \in 1 .. k : g[i] = g[i - 1] + f[i]
  <2>1. g \in [0 .. k -> Nat] /\ g[0] = 0
    BY <1>5 DEF Loop
  <2>2. ASSUME NEW i \in 1 .. k PROVE g[i] = g[i - 1] + f[i]
    <3>1. g[i - 1] \in Nat /\ g[i] = step[<<i, g[i - 1]>>]
      BY <1>5, <2>1 DEF Loop
    <3> QED
      BY <1>4, <3>1
  <2> QED
    BY <2>1, <2>2
<1>7. g = Body(g)
  <2>1. \A i \in 0 .. k : g[i] = IF i = 0 THEN 0 ELSE g[i - 1] + f[i]
    BY <1>6
  <2> QED
    BY <1>6, <2>1
<1>8. PICK cum : cum = CHOOSE h : h = Body(h)
  OBVIOUS
<1>9. \A n : Entropy!Below(f, n) = cum[n]
  BY <1>1, <1>8 DEF Entropy!Below
<1>10. cum = Body(cum)
  <2> HIDE DEF Body
  <2> QED
    BY <1>7, <1>8
<1>11. ASSUME NEW n \in 1 .. k PROVE cum[n] = cum[n - 1] + f[n]
  <2>1. n \in 0 .. k /\ n # 0
    OBVIOUS
  <2> QED
    BY <1>10, <2>1
<1>12. cum[0] = 0
  BY <1>10
<1> DEFINE T == {i \in 0 .. k : cum[i] \in Nat}
<1>13. 0 \in T
  BY <1>12
<1>14. ASSUME NEW i \in 1 .. k, i - 1 \in T PROVE i \in T
  BY <1>1, <1>11, <1>14
<1>15. \A i \in 0 .. k : i \in T
  <2> HIDE DEF T
  <2> QED
    BY <1>13, <1>14, Induct
<1> QED
  BY <1>1, <1>9, <1>11, <1>12, <1>15

\* Sums do not fall.
LEMMA BelowGrows ==
    ASSUME NEW f \in [Entropy!Symbols -> Nat], NEW m \in 0 .. Entropy!Escape,
           NEW n \in 0 .. Entropy!Escape, m <= n
    PROVE  Entropy!Below(f, m) <= Entropy!Below(f, n)
<1>1. PICK k \in Nat : k = Entropy!Escape /\ Entropy!Symbols = 1 .. k
  BY BucketsGiven
<1>2. PICK g : g = [i \in 0 .. k |-> Entropy!Below(f, i)]
  OBVIOUS
<1>3. (\A i \in 0 .. k : g[i] \in Nat) /\ \A i \in 1 .. k : g[i] = g[i - 1] + f[i] /\ f[i] \in Nat
  <2>1. ASSUME NEW i \in 1 .. k PROVE g[i] = g[i - 1] + f[i] /\ f[i] \in Nat
    <3>1. i \in 0 .. k /\ i - 1 \in 0 .. k
      OBVIOUS
    <3> QED
      BY <1>1, <1>2, <3>1, BelowSteps
  <2>2. \A i \in 0 .. k : g[i] \in Nat
    BY <1>1, <1>2, BelowSteps
  <2> QED
    BY <2>1, <2>2
<1> DEFINE T == {i \in 0 .. n : i < m \/ g[m] <= g[i]}
<1>4. 0 \in T
  BY <1>1, <1>3
<1>5. ASSUME NEW i \in 1 .. n, i - 1 \in T PROVE i \in T
  <2>1. i \in 1 .. k /\ i - 1 \in 0 .. k /\ m \in 0 .. k
    BY <1>1
  <2>2. g[i] = g[i - 1] + f[i] /\ f[i] \in Nat /\ g[i - 1] \in Nat /\ g[m] \in Nat
    BY <1>3, <2>1
  <2>3. CASE i <= m
    BY <2>1, <2>2, <2>3, SMTT(20)
  <2>4. CASE ~(i <= m)
    <3>1. ~(i - 1 < m) /\ g[m] <= g[i - 1]
      BY <1>5, <2>1, <2>4
    <3> QED
      BY <2>2, <3>1
  <2> QED
    BY <2>3, <2>4
<1>6. n \in T
  <2>1. n \in 0 .. n /\ n \in Nat
    OBVIOUS
  <2> HIDE DEF T
  <2> QED
    BY <1>4, <1>5, <2>1, Induct
<1> QED
  BY <1>1, <1>2, <1>6

\* What holds of all parts holds of the sums.
LEMMA SumsCompare ==
    ASSUME NEW f \in [Entropy!Symbols -> Nat], NEW g \in [Entropy!Symbols -> Nat],
           NEW d \in [Entropy!Symbols -> Nat], NEW a \in Nat, NEW b \in Nat,
           \A s \in Entropy!Symbols : a * f[s] <= b * g[s] + d[s]
    PROVE  a * Entropy!Total(f) <= b * Entropy!Total(g) + Entropy!Total(d)
<1>1. PICK k \in Nat : k = Entropy!Escape /\ Entropy!Symbols = 1 .. k
  BY BucketsGiven
<1> DEFINE T == {i \in 0 .. k : a * Entropy!Below(f, i) <= b * Entropy!Below(g, i) + Entropy!Below(d, i)}
<1>2. 0 \in T
  BY BelowSteps
<1>3. ASSUME NEW i \in 1 .. k, i - 1 \in T PROVE i \in T
  <2>1. i - 1 \in 0 .. k /\ i \in 0 .. k
    OBVIOUS
  <2>2. PICK x \in Nat, y \in Nat, z \in Nat :
           x = Entropy!Below(f, i - 1) /\ y = Entropy!Below(g, i - 1) /\ z = Entropy!Below(d, i - 1)
    BY <1>1, <2>1, BelowSteps
  <2>3. PICK u \in Nat, v \in Nat, w \in Nat : u = f[i] /\ v = g[i] /\ w = d[i]
    BY <1>1
  <2>4. Entropy!Below(f, i) = x + u /\ Entropy!Below(g, i) = y + v /\ Entropy!Below(d, i) = z + w
    BY <1>1, <2>1, <2>2, <2>3, BelowSteps
  <2>5. a * x <= b * y + z
    BY <1>3, <2>2
  <2>6. a * u <= b * v + w
    BY <1>1, <2>3
  <2>7. a * (x + u) = a * x + a * u /\ b * (y + v) = b * y + b * v
    BY <2>2, <2>3
  <2>8. a * x \in Nat /\ a * u \in Nat /\ b * y \in Nat /\ b * v \in Nat
    BY <2>2, <2>3
  <2>9. a * (x + u) <= b * (y + v) + (z + w)
    BY <2>2, <2>3, <2>5, <2>6, <2>7, <2>8
  <2> QED
    BY <2>1, <2>4, <2>9
<1>4. k \in T
  <2>1. k \in 0 .. k
    OBVIOUS
  <2> HIDE DEF T
  <2> QED
    BY <1>2, <1>3, <2>1, Induct
<1> QED
  BY <1>1, <1>4 DEF Entropy!Total

\* The sum of equal parts.
LEMMA SumOfEqual ==
    ASSUME NEW t \in Nat
    PROVE  Entropy!Total([s \in Entropy!Symbols |-> t]) = Entropy!Escape * t
<1>1. PICK k \in Nat : k = Entropy!Escape /\ Entropy!Symbols = 1 .. k
  BY BucketsGiven
<1>2. PICK f : f = [s \in Entropy!Symbols |-> t]
  OBVIOUS
<1>3. f \in [Entropy!Symbols -> Nat] /\ \A i \in 1 .. k : f[i] = t
  BY <1>1, <1>2
<1> DEFINE T == {i \in 0 .. k : Entropy!Below(f, i) = i * t}
<1>4. 0 \in T
  BY <1>3, BelowSteps
<1>5. ASSUME NEW i \in 1 .. k, i - 1 \in T PROVE i \in T
  <2>1. Entropy!Below(f, i) = Entropy!Below(f, i - 1) + t
    BY <1>1, <1>3, BelowSteps
  <2>2. i * t = (i - 1) * t + t
    OBVIOUS
  <2> QED
    BY <1>5, <2>1, <2>2
<1>6. k \in T
  <2>1. k \in 0 .. k
    OBVIOUS
  <2> HIDE DEF T
  <2> QED
    BY <1>4, <1>5, <2>1, Induct
<1> QED
  BY <1>1, <1>2, <1>6 DEF Entropy!Total

\* One part replaced.
Replaced(f, m, v) == [f EXCEPT ![m] = v]

\* The sum changes by what the part does.
LEMMA SumReplaced ==
    ASSUME NEW f \in [Entropy!Symbols -> Nat], NEW m \in Entropy!Symbols, NEW v \in Nat,
           NEW e, e = Replaced(f, m, v)
    PROVE  /\ e \in [Entropy!Symbols -> Nat]
           /\ Entropy!Total(e) + f[m] = Entropy!Total(f) + v
           /\ Entropy!Total(e) \in Nat /\ Entropy!Total(f) \in Nat
<1>1. PICK k \in Nat : k = Entropy!Escape /\ Entropy!Symbols = 1 .. k
  BY BucketsGiven
<1>2. /\ e \in [Entropy!Symbols -> Nat]
      /\ \A i \in 1 .. k : e[i] = IF i = m THEN v ELSE f[i]
  BY <1>1 DEF Replaced
<1>3. m \in 1 .. k /\ f[m] \in Nat
  BY <1>1
<1> DEFINE T == {i \in 0 .. k :
                    IF i < m THEN Entropy!Below(e, i) = Entropy!Below(f, i)
                    ELSE Entropy!Below(e, i) + f[m] = Entropy!Below(f, i) + v}
<1>4. 0 \in T
  <2>1. Entropy!Below(e, 0) = 0 /\ Entropy!Below(f, 0) = 0
    BY <1>2, BelowSteps
  <2>2. 0 \in 0 .. k /\ 0 < m
    BY <1>3
  <2> QED
    BY <2>1, <2>2
<1>5. ASSUME NEW i \in 1 .. k, i - 1 \in T PROVE i \in T
  <2>1. i - 1 \in 0 .. k /\ i \in 0 .. k
    OBVIOUS
  <2>2. PICK x \in Nat, y \in Nat : x = Entropy!Below(e, i - 1) /\ y = Entropy!Below(f, i - 1)
    BY <1>1, <1>2, <2>1, BelowSteps
  <2>3. Entropy!Below(e, i) = x + e[i] /\ Entropy!Below(f, i) = y + f[i] /\ f[i] \in Nat
    BY <1>1, <1>2, <2>1, <2>2, BelowSteps
  <2>4. IF i - 1 < m THEN x = y ELSE x + f[m] = y + v
    BY <1>5, <2>2
  <2>5. CASE i < m
    BY <1>2, <1>3, <2>1, <2>3, <2>4, <2>5
  <2>6. CASE i = m
    <3>1. e[i] = v /\ x = y
      BY <1>2, <1>3, <2>1, <2>4, <2>6
    <3> QED
      BY <1>3, <2>1, <2>2, <2>3, <2>6, <3>1
  <2>7. CASE i > m
    <3>1. e[i] = f[i] /\ x + f[m] = y + v
      BY <1>2, <1>3, <2>1, <2>4, <2>7
    <3> QED
      BY <1>3, <2>1, <2>2, <2>3, <2>7, <3>1
  <2> QED
    BY <1>3, <2>5, <2>6, <2>7
<1>6. k \in T
  <2>1. k \in 0 .. k
    OBVIOUS
  <2> HIDE DEF T
  <2> QED
    BY <1>4, <1>5, <2>1, Induct
<1>7. Entropy!Below(e, k) \in Nat /\ Entropy!Below(f, k) \in Nat
  <2>1. k \in 0 .. Entropy!Escape
    BY <1>1
  <2> QED
    BY <1>2, <2>1, BelowSteps
<1> QED
  BY <1>1, <1>2, <1>3, <1>6, <1>7 DEF Entropy!Total

-----------------------------------------------------------------------------
(* The table. *)

\* Every bucket has a part, and the parts fill the table.
Table(f) == f \in [Entropy!Symbols -> Nat \ {0}] /\ Entropy!Total(f) = PRECISION

\* The larger of two numbers.
LEMMA LargerOf ==
    ASSUME NEW a \in Int, NEW b \in Int
    PROVE  Entropy!Max({a, b}) = IF a >= b THEN a ELSE b
<1> DEFINE c == IF a >= b THEN a ELSE b
<1>1. c \in {a, b} /\ \A y \in {a, b} : c >= y
  OBVIOUS
<1>2. \A z \in {a, b} : (\A y \in {a, b} : z >= y) => z = c
  OBVIOUS
<1> HIDE DEF c
<1>3. Entropy!Max({a, b}) = c
  BY <1>1, <1>2 DEF Entropy!Max
<1> QED
  BY <1>3 DEF c

\* Some bucket has its share of what was counted.
LEMMA LargeShare ==
    ASSUME NEW c \in [Entropy!Symbols -> Nat], NEW t \in Nat, t = Entropy!Total(c), t > 0
    PROVE  \E m \in Entropy!Symbols : t <= Entropy!Escape * c[m]
<1> SUFFICES ASSUME \A m \in Entropy!Symbols : ~(t <= Entropy!Escape * c[m])
             PROVE  FALSE
  OBVIOUS
<1>1. PICK k \in Nat : k = Entropy!Escape /\ k > 0
  BY BucketsGiven
<1>2. PICK u \in Nat : u = t - 1
  OBVIOUS
<1>3. PICK d : d = [s \in Entropy!Symbols |-> u]
  OBVIOUS
<1>4. d \in [Entropy!Symbols -> Nat] /\ \A s \in Entropy!Symbols : d[s] = u
  BY <1>2, <1>3
<1>5. \A s \in Entropy!Symbols : k * c[s] <= 0 * c[s] + d[s]
  <2> SUFFICES ASSUME NEW s \in Entropy!Symbols PROVE k * c[s] <= 0 * c[s] + d[s]
    OBVIOUS
  <2>1. PICK z \in Nat : z = k * c[s]
    BY <1>1
  <2>2. ~(t <= z)
    BY <1>1, <2>1
  <2>3. d[s] = u /\ 0 * c[s] = 0
    BY <1>4
  <2> QED
    BY <1>2, <2>1, <2>2, <2>3
<1>6. PICK zero \in Nat : zero = 0
  OBVIOUS
<1>7. \A s \in Entropy!Symbols : k * c[s] <= zero * c[s] + d[s]
  BY <1>5, <1>6
<1>8. k * Entropy!Total(c) <= zero * Entropy!Total(c) + Entropy!Total(d)
  BY <1>4, <1>7, SumsCompare
<1>9. Entropy!Total(d) = k * u
  BY <1>1, <1>2, <1>3, SumOfEqual
<1>10. k * t <= k * u
  <2>1. zero * t = 0 /\ k * u \in Nat
    BY <1>1, <1>2, <1>6
  <2> QED
    BY <1>8, <1>9, <2>1
<1>11. k * t = k * u + k
  BY <1>1, <1>2
<1>12. k * u \in Nat
  BY <1>1, <1>2
<1> QED
  BY <1>1, <1>10, <1>11, <1>12

\* A frequency is at least 1, and rounded up by less than 1.
LEMMA ScaledBound ==
    ASSUME NEW c \in [Entropy!Symbols -> Nat], NEW t \in Nat, t = Entropy!Total(c), t > 0
    PROVE  /\ Entropy!Scaled(c) \in [Entropy!Symbols -> Nat \ {0}]
           /\ \A s \in Entropy!Symbols : t * Entropy!Scaled(c)[s] <= PRECISION * c[s] + t
<1>1. PICK p \in Nat : p = PRECISION
  BY Interval
<1> DEFINE Part(s) == Entropy!Max({1, (c[s] * p + t \div 2) \div t})
<1>2. ASSUME NEW s \in Entropy!Symbols
      PROVE  Part(s) \in Nat \ {0} /\ t * Part(s) <= p * c[s] + t
  <2>1. PICK z \in Nat : z = c[s] * p /\ z = p * c[s]
    BY <1>1
  <2>2. PICK x \in Nat : x = z + t \div 2 /\ x <= z + t
    <3>1. t \div 2 \in Nat /\ t \div 2 <= t
      OBVIOUS
    <3> QED
      BY <2>1, <3>1
  <2>3. PICK h \in Nat : h = x \div t /\ h * t <= x
    <3>1. x \div t \in Nat /\ x % t \in 0 .. t - 1 /\ x = (x \div t) * t + (x % t)
      BY <2>2, DivMod
    <3>2. PICK h \in Nat : h = x \div t
      BY <3>1
    <3>3. h * t \in Nat
      BY <3>2
    <3> QED
      BY <3>1, <3>2, <3>3
  <2>4. Part(s) = Entropy!Max({1, h})
    BY <2>1, <2>2, <2>3
  <2>5. Entropy!Max({1, h}) = IF 1 >= h THEN 1 ELSE h
    <3>1. PICK one \in Int : one = 1
      OBVIOUS
    <3>2. h \in Int
      BY <2>3
    <3>3. Entropy!Max({one, h}) = IF one >= h THEN one ELSE h
      BY <3>2, LargerOf
    <3> QED
      BY <3>1, <3>3
  <2>6. CASE 1 >= h
    <3>1. Part(s) = 1
      BY <2>4, <2>5, <2>6
    <3>2. t * 1 = t
      OBVIOUS
    <3> HIDE DEF Part
    <3> QED
      BY <2>1, <3>1, <3>2
  <2>7. CASE ~(1 >= h)
    <3>1. Part(s) = h
      BY <2>4, <2>5, <2>7
    <3>2. t * h = h * t /\ h * t \in Nat
      BY <2>3
    <3> HIDE DEF Part
    <3> QED
      BY <2>1, <2>2, <2>3, <2>7, <3>1, <3>2
  <2> QED
    BY <2>6, <2>7
<1>3. Entropy!Scaled(c) = [s \in Entropy!Symbols |-> Part(s)]
  BY <1>1 DEF Entropy!Scaled
<1> HIDE DEF Part
<1> QED
  BY <1>1, <1>2, <1>3

\* The largest frequency.
LEMMA LargestIs ==
    ASSUME NEW f \in [Entropy!Symbols -> Nat]
    PROVE  /\ Entropy!Largest(f) \in Entropy!Symbols
           /\ \A s \in Entropy!Symbols : f[s] <= f[Entropy!Largest(f)]
<1>1. PICK k \in Nat : k = Entropy!Escape /\ k > 0 /\ Entropy!Symbols = 1 .. k
  BY BucketsGiven
<1>2. f \in [1 .. k -> Nat]
  BY <1>1
<1> DEFINE T == {i \in 0 .. k : i = 0 \/ \E m \in 1 .. i : \A t \in 1 .. i : f[t] <= f[m]}
<1>3. 0 \in T
  OBVIOUS
<1>4. ASSUME NEW i \in 1 .. k, i - 1 \in T PROVE i \in T
  <2>1. CASE i = 1
    BY <1>2, <2>1
  <2>2. CASE i # 1
    <3>1. PICK m \in 1 .. i - 1 : \A t \in 1 .. i - 1 : f[t] <= f[m]
      BY <1>4, <2>2
    <3>2. CASE f[i] <= f[m]
      <4>1. \A t \in 1 .. i : f[t] <= f[m]
        BY <3>1, <3>2
      <4> QED
        BY <4>1
    <3>3. CASE ~(f[i] <= f[m])
      <4>1. \A t \in 1 .. i : f[t] <= f[i]
        BY <1>2, <3>1, <3>3
      <4> QED
        BY <4>1
    <3> QED
      BY <3>2, <3>3
  <2> QED
    BY <2>1, <2>2
<1>5. k \in T
  <2>1. k \in 0 .. k
    OBVIOUS
  <2> HIDE DEF T
  <2> QED
    BY <1>3, <1>4, <2>1, Induct
<1> DEFINE U == {s \in 1 .. k : \A t \in 1 .. k : f[t] <= f[s]}
<1>6. U \subseteq Nat /\ U # {}
  BY <1>1, <1>5
<1>7. PICK l \in U : \A m \in U : l <= m
  <2> HIDE DEF U
  <2> QED
    BY <1>6, LeastNatural
<1>8. Entropy!Largest(f) = CHOOSE y \in U : \A z \in U : y <= z
  BY <1>1 DEF Entropy!Largest, Entropy!Min
<1>9. Entropy!Largest(f) \in U
  <2> HIDE DEF U
  <2> QED
    BY <1>7, <1>8
<1> QED
  BY <1>1, <1>9

\* All frequencies but one that is large leave it at least one position.
LEMMA OthersLeaveRoom ==
    ASSUME NEW c \in [Entropy!Symbols -> Nat], NEW t \in Nat, t = Entropy!Total(c), t > 0,
           NEW f, f = Entropy!Scaled(c), NEW m \in Entropy!Symbols, t <= Entropy!Escape * c[m]
    PROVE  Entropy!Total(f) - f[m] < PRECISION
<1>1. PICK k \in Nat : k = Entropy!Escape /\ k > 0 /\ k * k <= PRECISION
  BY BucketsGiven
<1>2. PICK p \in Nat : p = PRECISION
  BY Interval
<1>3. f \in [Entropy!Symbols -> Nat] /\ \A s \in Entropy!Symbols : t * f[s] <= p * c[s] + t
  BY <1>2, ScaledBound
<1>4. PICK z \in Nat : z = 0
  OBVIOUS
<1>5. PICK f0 : f0 = Replaced(f, m, z)
  OBVIOUS
<1>6. PICK c0 : c0 = Replaced(c, m, z)
  OBVIOUS
<1>7. PICK e : e = [s \in Entropy!Symbols |-> t]
  OBVIOUS
<1>8. PICK d : d = Replaced(e, m, z)
  OBVIOUS
<1>9. e \in [Entropy!Symbols -> Nat] /\ e[m] = t
  BY <1>7
<1>10. f0 \in [Entropy!Symbols -> Nat] /\ Entropy!Total(f0) + f[m] = Entropy!Total(f) + z
       /\ Entropy!Total(f0) \in Nat /\ Entropy!Total(f) \in Nat
  <2>1. f \in [Entropy!Symbols -> Nat]
    BY <1>3
  <2> QED
    BY <1>5, <2>1, SumReplaced
<1>11. c0 \in [Entropy!Symbols -> Nat] /\ Entropy!Total(c0) + c[m] = Entropy!Total(c) + z
       /\ Entropy!Total(c0) \in Nat
  BY <1>6, SumReplaced
<1>12. d \in [Entropy!Symbols -> Nat] /\ Entropy!Total(d) + e[m] = Entropy!Total(e) + z
       /\ Entropy!Total(d) \in Nat
  BY <1>8, <1>9, SumReplaced
<1>13. Entropy!Total(e) = k * t
  BY <1>1, <1>7, SumOfEqual
<1>14. \A s \in Entropy!Symbols : t * f0[s] <= p * c0[s] + d[s]
  <2> SUFFICES ASSUME NEW s \in Entropy!Symbols PROVE t * f0[s] <= p * c0[s] + d[s]
    OBVIOUS
  <2>1. CASE s = m
    <3>1. f0[s] = 0 /\ c0[s] = 0 /\ d[s] = 0
      BY <1>3, <1>4, <1>5, <1>6, <1>8, <1>9, <2>1 DEF Replaced
    <3> QED
      BY <1>2, <3>1
  <2>2. CASE s # m
    <3>1. f0[s] = f[s] /\ c0[s] = c[s] /\ d[s] = t
      BY <1>3, <1>5, <1>6, <1>7, <1>8, <1>9, <2>2 DEF Replaced
    <3> QED
      BY <1>3, <3>1
  <2> QED
    BY <2>1, <2>2
<1>15. t * Entropy!Total(f0) <= p * Entropy!Total(c0) + Entropy!Total(d)
  BY <1>10, <1>11, <1>12, <1>14, SumsCompare
<1>16. PICK rest \in Nat, part \in Nat, fm \in Nat, others \in Nat :
          /\ rest = Entropy!Total(f0) /\ part = c[m] /\ fm = f[m] /\ others = Entropy!Total(c0)
  BY <1>3, <1>10, <1>11
<1>17. rest = Entropy!Total(f) - f[m] /\ others + part = t /\ Entropy!Total(d) + t = k * t
  BY <1>4, <1>9, <1>10, <1>11, <1>12, <1>13, <1>16
<1>18. k * t <= p * part
  <2>1. k * t <= k * (k * part)
    <3>1. PICK kp \in Nat : kp = k * part
      BY <1>1, <1>16
    <3>2. t <= kp
      BY <1>1, <1>16, <3>1
    <3> QED
      BY <1>1, <3>1, <3>2
  <2>2. k * (k * part) = (k * k) * part
    BY <1>1, <1>16
  <2>3. (k * k) * part <= p * part
    <3>1. PICK kk \in Nat : kk = k * k /\ kk <= p
      BY <1>1, <1>2
    <3> QED
      BY <1>2, <1>16, <3>1
  <2>4. k * t \in Nat /\ k * (k * part) \in Nat /\ p * part \in Nat
    BY <1>1, <1>2, <1>16
  <2> QED
    BY <2>1, <2>2, <2>3, <2>4
<1>19. p * others + p * part = p * t
  BY <1>2, <1>16, <1>17
<1>20. t * rest + t <= p * t
  <2>1. t * rest \in Nat /\ p * others \in Nat /\ p * part \in Nat /\ p * t \in Nat /\ k * t \in Nat
    BY <1>1, <1>2, <1>16
  <2>2. t * rest <= p * others + Entropy!Total(d)
    BY <1>15, <1>16
  <2>3. Entropy!Total(d) \in Nat /\ Entropy!Total(d) + t = k * t
    BY <1>12, <1>17
  <2> QED
    BY <1>18, <1>19, <2>1, <2>2, <2>3
<1>21. rest < p
  <2> SUFFICES ASSUME p <= rest PROVE FALSE
    BY <1>16
  <2>1. p * t <= rest * t
    BY <1>2, <1>16
  <2>2. rest * t = t * rest /\ t * rest \in Nat /\ p * t \in Nat
    BY <1>2, <1>16
  <2> QED
    BY <1>20, <2>1, <2>2
<1> QED
  BY <1>2, <1>17, <1>21

\* Trained with whatever counts, the table is full: its largest part has room
\* for what the rounding of the others has taken.
LEMMA TrainedTable ==
    ASSUME NEW counts \in Counts
    PROVE  Table(Entropy!Trained(counts))
<1>1. /\ counts \in [Entropy!Symbols -> Nat]
      /\ StaticFreqs \in [Entropy!Symbols -> Nat \ {0}] /\ Entropy!Total(StaticFreqs) = PRECISION
  BY RansGiven DEF Entropy!RansAssumption
<1>2. Entropy!Total(counts) \in Nat
  <2>1. Entropy!Escape \in 0 .. Entropy!Escape
    BY BucketsGiven
  <2> QED
    BY <1>1, <2>1, BelowSteps DEF Entropy!Total
<1>3. CASE Entropy!Total(counts) = 0
  BY <1>1, <1>3 DEF Entropy!Trained, Table
<1>4. CASE Entropy!Total(counts) # 0
  <2>1. PICK t \in Nat : t = Entropy!Total(counts) /\ t > 0
    BY <1>2, <1>4
  <2>2. PICK m \in Entropy!Symbols : t <= Entropy!Escape * counts[m]
    BY <1>1, <2>1, LargeShare
  <2>3. PICK f : f = Entropy!Scaled(counts)
    OBVIOUS
  <2>4. f \in [Entropy!Symbols -> Nat \ {0}] /\ f \in [Entropy!Symbols -> Nat]
    <3>1. f \in [Entropy!Symbols -> Nat \ {0}]
      BY <1>1, <2>1, <2>3, ScaledBound
    <3> QED
      BY <3>1
  <2>5. PICK l \in Entropy!Symbols : l = Entropy!Largest(f) /\ f[m] <= f[l]
    BY <2>4, LargestIs
  <2>6. Entropy!Total(f) - f[m] < PRECISION
    BY <1>1, <2>1, <2>2, <2>3, OthersLeaveRoom
  <2>7. PICK z \in Nat : z = 0
    OBVIOUS
  <2>8. Entropy!Total(f) \in Nat
    BY <2>4, <2>7, SumReplaced
  <2>9. PRECISION \in Nat
    BY Interval
  <2>10. PICK v \in Nat : v = f[l] - (Entropy!Total(f) - PRECISION) /\ v >= 1
    <3>1. f[l] \in Nat /\ f[m] \in Nat
      BY <2>4
    <3>2. f[l] - (Entropy!Total(f) - PRECISION) \in Int /\ f[l] - (Entropy!Total(f) - PRECISION) >= 1
      BY <2>5, <2>6, <2>8, <2>9, <3>1
    <3> QED
      BY <3>2
  <2>11. Entropy!Max({1, v}) = v
    <3>1. PICK one \in Int : one = 1
      OBVIOUS
    <3>2. Entropy!Max({one, v}) = IF one >= v THEN one ELSE v
      BY LargerOf
    <3> QED
      BY <2>10, <3>1, <3>2
  <2>12. Entropy!Trained(counts) = Replaced(f, l, v)
    BY <1>4, <2>3, <2>4, <2>5, <2>10, <2>11 DEF Entropy!Trained, Replaced
  <2>13. PICK e : e = Replaced(f, l, v)
    OBVIOUS
  <2>14. Entropy!Total(e) + f[l] = Entropy!Total(f) + v /\ Entropy!Total(e) \in Nat
    BY <2>4, <2>13, SumReplaced
  <2>15. Entropy!Total(e) = PRECISION
    <3>1. f[l] \in Nat
      BY <2>4
    <3> QED
      BY <2>8, <2>9, <2>10, <2>14, <3>1
  <2>16. e \in [Entropy!Symbols -> Nat \ {0}]
    BY <2>4, <2>10, <2>13 DEF Replaced
  <2> QED
    BY <2>12, <2>13, <2>15, <2>16 DEF Table
<1> QED
  BY <1>3, <1>4

\* The parts of the table follow one another.
LEMMA Part ==
    ASSUME NEW f, Table(f), NEW s \in Entropy!Symbols
    PROVE  /\ f \in [Entropy!Symbols -> Nat]
           /\ f[s] \in Nat /\ f[s] > 0 /\ Entropy!Start(f, s) \in Nat
           /\ Entropy!Start(f, s) + f[s] = Entropy!Below(f, s)
           /\ Entropy!Start(f, s) + f[s] <= PRECISION
<1>1. PICK k \in Nat : k = Entropy!Escape /\ Entropy!Symbols = 1 .. k
  BY BucketsGiven
<1>2. f \in [Entropy!Symbols -> Nat] /\ f[s] \in Nat /\ f[s] > 0
  BY DEF Table
<1>3. s \in 1 .. k /\ s - 1 \in 0 .. k /\ s \in 0 .. k /\ k \in 0 .. k /\ s <= k
  BY <1>1
<1>4. Entropy!Below(f, s - 1) \in Nat /\ Entropy!Below(f, s) = Entropy!Below(f, s - 1) + f[s]
  BY <1>1, <1>2, <1>3, BelowSteps
<1>5. Entropy!Below(f, s) <= Entropy!Below(f, k)
  BY <1>1, <1>2, <1>3, BelowGrows
<1>6. Entropy!Below(f, k) = PRECISION
  BY <1>1 DEF Table, Entropy!Total
<1> QED
  BY <1>2, <1>4, <1>5, <1>6 DEF Entropy!Start

\* The maximum is the same in every module.
LEMMA SameMax ==
    ASSUME NEW T
    PROVE  Entropy!Max(T) = Coding!Max(T)
  BY DEF Entropy!Max, Coding!Max

\* The bucket of a position.
SymbolIn(table, cum) ==
    Entropy!Max({s \in Entropy!Symbols : table[s] > 0 /\ Entropy!Start(table, s) <= cum})

\* Every position of the table is its bucket's and no other's.
LEMMA SymbolInIs ==
    ASSUME NEW table, Table(table), NEW s \in Entropy!Symbols,
           NEW cum \in Entropy!Start(table, s) .. Entropy!Start(table, s) + table[s] - 1
    PROVE  SymbolIn(table, cum) = s
<1>1. PICK k \in Nat : k = Entropy!Escape /\ Entropy!Symbols = 1 .. k
  BY BucketsGiven
<1>2. /\ table[s] \in Nat /\ table[s] > 0 /\ Entropy!Start(table, s) \in Nat
      /\ Entropy!Start(table, s) + table[s] = Entropy!Below(table, s)
  BY Part
<1> DEFINE T == {y \in Entropy!Symbols : table[y] > 0 /\ Entropy!Start(table, y) <= cum}
<1>3. s \in T /\ T \subseteq Nat
  BY <1>1, <1>2
<1>4. ASSUME NEW y \in T PROVE y <= s
  <2> SUFFICES ASSUME s < y PROVE FALSE
    BY <1>1
  <2>1. y \in 1 .. k /\ s \in 0 .. k /\ y - 1 \in 0 .. k /\ s <= y - 1
    BY <1>1
  <2>2. table \in [Entropy!Symbols -> Nat]
    BY Part
  <2>3. Entropy!Below(table, s) <= Entropy!Below(table, y - 1)
    BY <1>1, <2>1, <2>2, BelowGrows
  <2>4. Entropy!Below(table, y - 1) \in Nat /\ Entropy!Below(table, y - 1) <= cum
    <3>1. Entropy!Start(table, y) <= cum
      OBVIOUS
    <3>2. Entropy!Below(table, y - 1) \in Nat
      BY <1>1, <2>1, <2>2, BelowSteps
    <3> QED
      BY <3>1, <3>2 DEF Entropy!Start
  <2> QED
    BY <1>2, <2>3, <2>4
<1>5. Coding!Max(T) = s
  <2> HIDE DEF T
  <2> QED
    BY <1>3, <1>4, MaxIs
<1>6. SymbolIn(table, cum) = Coding!Max(T)
  BY SameMax DEF SymbolIn
<1> QED
  BY <1>5, <1>6

-----------------------------------------------------------------------------
(* Buckets and offsets. *)

\* The bits of a bucket's offsets.
BitsOf(s) == IF s = Entropy!Escape THEN LIMB + LIMB ELSE OffsetBits[s]

\* The buckets lie next to each other, each as wide as its offsets can count.
LEMMA Buckets ==
    /\ BucketLo \in [Entropy!Symbols -> Nat] /\ BucketLo[1] = 0
    /\ \A s \in Entropy!Symbols : BitsOf(s) \in Nat
    /\ \A s \in Entropy!Symbols : s # Entropy!Escape =>
          s + 1 \in Entropy!Symbols /\ BucketLo[s + 1] - BucketLo[s] <= Coding!Pow2[BitsOf(s)]
<1>1. PICK k \in Nat : k = Entropy!Escape /\ k > 0 /\ Entropy!Symbols = 1 .. k
  BY BucketsGiven
<1>2. /\ BucketLo \in Seq(Nat) /\ BucketLo[1] = 0
      /\ OffsetBits \in Seq(Nat) /\ Len(OffsetBits) = k - 1
      /\ \A s \in 1 .. k - 1 : BucketLo[s + 1] - BucketLo[s] \in 1 .. Entropy!Pow2[OffsetBits[s]]
  BY <1>1, RansGiven DEF Entropy!RansAssumption
<1>3. BucketLo \in [1 .. k -> Nat]
  BY <1>1, <1>2 DEF Entropy!Escape
<1>4. LIMB + LIMB \in Nat
  BY WordSizes
<1>5. ASSUME NEW s \in 1 .. k, s # k
      PROVE  /\ BitsOf(s) \in Nat /\ s + 1 \in 1 .. k
             /\ BucketLo[s + 1] - BucketLo[s] <= Coding!Pow2[BitsOf(s)]
  <2>1. s \in 1 .. k - 1 /\ s + 1 \in 1 .. k
    BY <1>5
  <2>2. OffsetBits[s] \in Nat
    BY <1>2, <2>1, SMTT(20)
  <2>3. BitsOf(s) = OffsetBits[s]
    BY <1>1, <1>5 DEF BitsOf
  <2>4. Coding!Pow2[OffsetBits[s]] \in Nat /\ Entropy!Pow2 = Coding!Pow2
    BY <2>2, PowType, SameNumerals
  <2>5. BucketLo[s + 1] - BucketLo[s] \in 1 .. Entropy!Pow2[OffsetBits[s]]
    BY <1>2, <2>1
  <2> QED
    BY <2>1, <2>2, <2>3, <2>4, <2>5
<1>6. BitsOf(k) \in Nat
  BY <1>1, <1>4 DEF BitsOf
<1> QED
  BY <1>1, <1>2, <1>3, <1>5, <1>6

\* Every code falls into a bucket, and its place there into the offset's bits.
LEMMA SymbolIs ==
    ASSUME NEW zz \in Nat, NEW s, s = Entropy!Symbol(zz)
    PROVE  /\ s \in Entropy!Symbols /\ BucketLo[s] \in Nat /\ BucketLo[s] <= zz
           /\ s # Entropy!Escape => zz - BucketLo[s] < Coding!Pow2[BitsOf(s)]
<1>1. PICK k \in Nat : k = Entropy!Escape /\ k > 0 /\ Entropy!Symbols = 1 .. k
  BY BucketsGiven
<1> DEFINE T == {y \in Entropy!Symbols : BucketLo[y] <= zz}
<1>2. T \subseteq 0 .. k /\ T # {}
  <2>1. 1 \in T
    BY <1>1, Buckets
  <2> QED
    BY <1>1, <2>1
<1>3. s = Coding!Max(T)
  BY SameMax DEF Entropy!Symbol
<1>4. s \in T /\ \A y \in T : y <= s
  <2>1. k \in Nat
    BY <1>1
  <2> HIDE DEF T
  <2> QED
    BY <1>2, <1>3, <2>1, MaxExists
<1>5. \A y \in T : y <= s
  BY <1>4
<1>6. s \in Entropy!Symbols /\ BucketLo[s] \in Nat /\ BucketLo[s] <= zz
  BY <1>4, Buckets
<1>7. CASE s # Entropy!Escape
  <2>1. s + 1 \in Entropy!Symbols /\ BucketLo[s + 1] - BucketLo[s] <= Coding!Pow2[BitsOf(s)]
    BY <1>6, <1>7, Buckets
  <2>2. BucketLo[s + 1] \in Nat /\ Coding!Pow2[BitsOf(s)] \in Nat
    BY <1>6, <2>1, Buckets, PowType
  <2>3. ~(s + 1 <= s)
    BY <1>1, <1>6
  <2>4. ~(BucketLo[s + 1] <= zz)
    BY <1>5, <2>1, <2>3
  <2> QED
    BY <1>6, <2>1, <2>2, <2>4
<1> QED
  BY <1>6, <1>7

\* The offset of a residual and its bucket are the residual.
LEMMA OffsetIs ==
    ASSUME NEW v \in Coding!Int64, NEW s, s = Entropy!Symbol(Entropy!ZigZag(v)),
           NEW word, word = Entropy!Offset(v)
    PROVE  /\ s \in Entropy!Symbols /\ BitsOf(s) \in Nat
           /\ word \in Seq(Bit) /\ Len(word) = BitsOf(s)
           /\ Entropy!Residual(s, word) = v
<1>1. PICK zz \in Nat : zz = Entropy!ZigZag(v) /\ zz = Coding!ZigZag(v)
  BY ZigZags, SameNumerals, WordSizes
<1>2. PICK lo \in Nat : lo = BucketLo[s] /\ lo <= zz
  BY <1>1, SymbolIs
<1>3. s \in Entropy!Symbols /\ BitsOf(s) \in Nat
  BY <1>1, SymbolIs, Buckets
<1>4. CASE s = Entropy!Escape
  <2>1. PICK u \in 0 .. Coding!U64 - 1 : u = Coding!Word(v) /\ Coding!Value(u) = v
    BY ZigZags
  <2>2. word = Coding!RawWord(u)
    BY <1>4, <2>1, SameNumerals DEF Entropy!Offset
  <2>3. word \in Seq(Bit) /\ Len(word) = 2 * LIMB
    BY <2>2, RawType
  <2>4. Coding!Num(word) = u
    <3>1. word = Coding!B(u, LIMB + LIMB) /\ u % Coding!Pow2[LIMB + LIMB] = u
      BY <2>2, RawIs
    <3>2. u \in Nat /\ LIMB + LIMB \in Nat
      BY <2>1, WordSizes
    <3> QED
      BY <3>1, <3>2, NumB
  <2>5. Entropy!Residual(s, word) = v
    BY <1>4, <2>1, <2>4, SameNumerals DEF Entropy!Residual
  <2>6. Len(word) = BitsOf(s)
    BY <1>4, <2>3, WordSizes DEF BitsOf
  <2> QED
    BY <1>3, <2>3, <2>5, <2>6
<1>5. CASE s # Entropy!Escape
  <2>1. PICK n \in Nat : n = BitsOf(s) /\ n = OffsetBits[s]
    BY <1>3, <1>5 DEF BitsOf
  <2>2. PICK y \in Nat : y = zz - lo /\ y < Coding!Pow2[n]
    <3>1. s = Entropy!Symbol(zz)
      BY <1>1
    <3>2. zz - BucketLo[s] < Coding!Pow2[BitsOf(s)]
      BY <1>5, <3>1, SymbolIs
    <3> QED
      BY <1>2, <2>1, <3>2
  <2>3. word = Coding!B(y, n)
    BY <1>1, <1>2, <1>5, <2>1, <2>2, SameNumerals DEF Entropy!Offset
  <2>4. word \in Seq(Bit) /\ Len(word) = n
    BY <2>3, BType
  <2>5. Coding!Num(word) = y
    <3>1. Coding!Num(word) = y % Coding!Pow2[n]
      BY <2>3, NumB
    <3>2. Coding!Pow2[n] \in Nat
      BY PowType
    <3>3. y % Coding!Pow2[n] = y
      BY <2>2, <3>2, ModLess
    <3> QED
      BY <3>1, <3>3
  <2>6. lo + y = zz /\ Coding!UnZigZag(zz) = v
    BY <1>1, <1>2, <2>2, ZigZags
  <2>7. Entropy!Residual(s, word) = v
    BY <1>2, <1>5, <2>5, <2>6, SameNumerals DEF Entropy!Residual
  <2> QED
    BY <1>3, <2>1, <2>4, <2>7
<1> QED
  BY <1>4, <1>5

-----------------------------------------------------------------------------
(* Offsets and bytes in order. *)

\* One sequence after the other.
LEMMA Behind ==
    ASSUME NEW s \in Seq(Byte), NEW t \in Seq(Byte)
    PROVE  /\ Cat(s, t) \in Seq(Byte) /\ Len(Cat(s, t)) = Len(s) + Len(t)
           /\ \A i \in 1 .. Len(s) : Cat(s, t)[i] = s[i]
           /\ SubSeq(Cat(s, t), Len(s) + 1, Len(Cat(s, t))) = t
<1> DEFINE S == Byte
<1>0. PICK n, u : n = Len(s) /\ u = Cat(s, t)
  OBVIOUS
<1> HIDE DEF S
<1>1. /\ u \in Seq(S) /\ Len(u) = n + Len(t) /\ n \in Nat /\ Len(t) \in Nat
      /\ \A i \in 1 .. n : u[i] = s[i]
      /\ \A i \in 1 .. Len(t) : u[n + i] = t[i]
  BY <1>0 DEF Cat, S
<1>2. PICK m \in Nat : m = Len(t) /\ n + m = Len(u)
  BY <1>1
<1>3. PICK v : v = SubSeq(u, n + 1, n + m)
  OBVIOUS
<1>4. v \in Seq(S) /\ Len(v) = m /\ \A i \in 1 .. m : v[i] = u[n + i]
  <2>1. PICK w \in Seq(S), p \in Nat : w = u /\ p = n /\ p + m <= Len(w)
    BY <1>1, <1>2
  <2>2. p + m <= Len(w)
    BY <2>1
  <2>3. /\ SubSeq(w, p + 1, p + m) \in Seq(S) /\ Len(SubSeq(w, p + 1, p + m)) = m
        /\ \A i \in 1 .. m : SubSeq(w, p + 1, p + m)[i] = w[p + i]
    BY <2>2, Slice, Zenon
  <2> QED
    BY <1>3, <2>1, <2>3, Zenon
<1>5. v = t
  <2>1. \A i \in 1 .. m : v[i] = t[i]
    BY <1>1, <1>2, <1>4
  <2>2. Len(v) = Len(t)
    BY <1>2, <1>4
  <2>3. t \in Seq(S)
    BY DEF S
  <2> QED
    BY <1>2, <1>4, <2>1, <2>2, <2>3, SeqEqual
<1> QED
  BY <1>0, <1>1, <1>2, <1>3, <1>5, Zenon DEF S

\* The offsets of a list, one after the other, as far as each of its elements.
Gathered(these, f) ==
    /\ f \in [0 .. Len(these) -> Seq(Bit)]
    /\ f[0] = << >>
    /\ \A i \in 1 .. Len(these) : f[i] = Cat(f[i - 1], Entropy!Offset(these[i]))

\* Residuals have an offset.
LEMMA OffsetType ==
    ASSUME NEW these \in Seq(Values), NEW i \in 1 .. Len(these)
    PROVE  /\ these[i] \in Values /\ these[i] \in Coding!Int64
           /\ Entropy!Offset(these[i]) \in Seq(Bit)
<1>1. Values \subseteq Coding!Int64
  BY RansGiven, SameNumerals DEF Entropy!RansAssumption
<1>2. these[i] \in Values
  BY ElementOfSeq
<1> QED
  BY <1>1, <1>2, OffsetIs

\* All of a list can be joined.
LEMMA GatheredExists ==
    ASSUME NEW these \in Seq(Values)
    PROVE  \E f : Gathered(these, f)
<1>1. PICK n \in Nat : n = Len(these)
  OBVIOUS
<1>2. \A i \in 1 .. n : Entropy!Offset(these[i]) \in Seq(Bit)
  BY <1>1, OffsetType
<1>3. PICK X : X = Seq(Bit)
  OBVIOUS
<1>4. PICK W : W = 1 .. n
  OBVIOUS
<1>5. PICK step : step = [p \in W \X X |-> Cat(p[2], Entropy!Offset(these[p[1]]))]
  OBVIOUS
<1>6. ASSUME NEW i \in W, NEW y \in X
      PROVE  step[<<i, y>>] = Cat(y, Entropy!Offset(these[i])) /\ Cat(y, Entropy!Offset(these[i])) \in X
  <2>1. step[<<i, y>>] = Cat(y, Entropy!Offset(these[i]))
    BY <1>5, Zenon
  <2>2. Cat(y, Entropy!Offset(these[i])) \in X
    BY <1>2, <1>3, <1>4, CatType
  <2> QED
    BY <2>1, <2>2
<1>7. step \in [W \X X -> X]
  <2>1. ASSUME NEW p \in W \X X PROVE Cat(p[2], Entropy!Offset(these[p[1]])) \in X
    BY <1>6
  <2> QED
    BY <1>5, <2>1, Zenon
<1>8. PICK x \in X : x = << >>
  <2>1. << >> \in Seq(Bit)
    BY EmptySeq
  <2> QED
    BY <1>3, <2>1
<1>9. \E f : Loop(X, x, step, n, f)
  BY <1>4, <1>7, LoopExists
<1>10. PICK f : Loop(X, x, step, n, f)
  BY <1>9
<1>11. f \in [0 .. n -> X] /\ f[0] = << >>
  BY <1>8, <1>10 DEF Loop
<1>12. ASSUME NEW i \in 1 .. n PROVE f[i] = Cat(f[i - 1], Entropy!Offset(these[i]))
  <2>1. f[i] = step[<<i, f[i - 1]>>]
    BY <1>10 DEF Loop
  <2>2. f[i - 1] \in X /\ i \in W
    BY <1>4, <1>11
  <2> QED
    BY <1>6, <2>1, <2>2
<1> QED
  BY <1>1, <1>3, <1>11, <1>12, Zenon DEF Gathered

\* rlist_add and rans_enc_raw_bits write the offsets one after the other.
LEMMA OffsetsAre ==
    ASSUME NEW these \in Seq(Values), NEW f, Gathered(these, f)
    PROVE  Entropy!Offsets(these) = f[Len(these)]
<1>1. PICK n \in Nat : n = Len(these)
  OBVIOUS
<1> DEFINE Body(g) == [i \in 0 .. n |-> IF i = 0 THEN << >> ELSE Cat(g[i - 1], Entropy!Offset(these[i]))]
<1>2. f = Body(f)
  <2>1. ASSUME NEW i \in 0 .. n
        PROVE  f[i] = IF i = 0 THEN << >> ELSE Cat(f[i - 1], Entropy!Offset(these[i]))
    <3>1. CASE i = 0
      BY <3>1, Zenon DEF Gathered
    <3>2. CASE i # 0
      <4>1. i \in 1 .. n
        BY <3>2
      <4> QED
        BY <1>1, <3>2, <4>1, Zenon DEF Gathered
    <3> QED
      BY <3>1, <3>2
  <2>2. f \in [0 .. n -> Seq(Bit)]
    BY <1>1, Zenon DEF Gathered
  <2> QED
    BY <2>1, <2>2, Zenon
<1>3. PICK raw : raw = CHOOSE g : g = Body(g)
  OBVIOUS
<1>4. Entropy!Offsets(these) = raw[n]
  BY <1>1, <1>3, Zenon DEF Entropy!Offsets, Cat
<1>5. raw = Body(raw)
  <2> HIDE DEF Body
  <2> QED
    BY <1>2, <1>3
<1> DEFINE T == {i \in 0 .. n : raw[i] = f[i]}
<1>6. 0 \in T
  <2>1. 0 \in 0 .. n /\ f[0] = << >>
    BY DEF Gathered
  <2>2. raw[0] = << >>
    BY <1>5, <2>1, Zenon
  <2> QED
    BY <2>1, <2>2
<1>7. ASSUME NEW i \in 1 .. n, i - 1 \in T PROVE i \in T
  <2>1. i \in 0 .. n /\ i # 0
    OBVIOUS
  <2>2. raw[i] = Cat(raw[i - 1], Entropy!Offset(these[i]))
    BY <1>5, <2>1, Zenon
  <2>3. f[i] = Cat(f[i - 1], Entropy!Offset(these[i]))
    BY <1>1, Zenon DEF Gathered
  <2>4. raw[i - 1] = f[i - 1]
    BY <1>7
  <2> QED
    BY <2>1, <2>2, <2>3, <2>4, Zenon
<1>8. n \in T
  <2>1. n \in 0 .. n
    OBVIOUS
  <2> HIDE DEF T
  <2> QED
    BY <1>6, <1>7, <2>1, Induct
<1> QED
  BY <1>1, <1>4, <1>8

\* What is left of a sequence behind its first p elements.
Rest(y, p) == SubSeq(y, p + 1, Len(y))

\* Its elements.
LEMMA RestIs ==
    ASSUME NEW S, NEW y \in Seq(S), NEW p \in Nat, p <= Len(y)
    PROVE  /\ Rest(y, p) \in Seq(S) /\ Len(Rest(y, p)) = Len(y) - p
           /\ \A i \in 1 .. Len(y) - p : Rest(y, p)[i] = y[p + i]
<1>1. PICK n \in Nat : n = Len(y) - p /\ p + n = Len(y)
  <2>1. Len(y) \in Nat
    OBVIOUS
  <2> QED
    BY <2>1
<1>2. Rest(y, p) = SubSeq(y, p + 1, p + n)
  BY <1>1, Zenon DEF Rest
<1>3. p + n <= Len(y)
  BY <1>1
<1>4. /\ SubSeq(y, p + 1, p + n) \in Seq(S) /\ Len(SubSeq(y, p + 1, p + n)) = n
      /\ \A i \in 1 .. n : SubSeq(y, p + 1, p + n)[i] = y[p + i]
  BY <1>3, Slice
<1> QED
  BY <1>1, <1>2, <1>4, Zenon

\* The first of what is left, and what is left of it.
LEMMA RestOfRest ==
    ASSUME NEW S, NEW y \in Seq(S), NEW p \in Nat, NEW n \in Nat, p + n <= Len(y)
    PROVE  /\ SubSeq(Rest(y, p), 1, n) \in Seq(S) /\ Len(SubSeq(Rest(y, p), 1, n)) = n
           /\ \A i \in 1 .. n : SubSeq(Rest(y, p), 1, n)[i] = y[p + i]
           /\ SubSeq(Rest(y, p), n + 1, Len(Rest(y, p))) = Rest(y, p + n)
<1>1. PICK l \in Nat, m \in Nat : l = Len(y) /\ p <= l /\ m = l - p /\ n <= m /\ p + n <= l /\ l - (p + n) = m - n
  OBVIOUS
<1>2. PICK x : x = Rest(y, p)
  OBVIOUS
<1>3. x \in Seq(S) /\ Len(x) = m /\ \A i \in 1 .. m : x[i] = y[p + i]
  BY <1>1, <1>2, RestIs
<1>4. /\ SubSeq(x, 1, n) \in Seq(S) /\ Len(SubSeq(x, 1, n)) = n
      /\ \A i \in 1 .. n : SubSeq(x, 1, n)[i] = x[i]
  <2>1. PICK z \in Nat : z = 0
    OBVIOUS
  <2>2. z + n <= Len(x) /\ z + 1 = 1 /\ z + n = n /\ \A i \in 1 .. n : z + i = i
    BY <1>1, <1>3, <2>1
  <2>3. /\ SubSeq(x, z + 1, z + n) \in Seq(S) /\ Len(SubSeq(x, z + 1, z + n)) = n
        /\ \A i \in 1 .. n : SubSeq(x, z + 1, z + n)[i] = x[z + i]
    BY <1>3, <2>2, Slice
  <2> QED
    BY <2>2, <2>3
<1>5. \A i \in 1 .. n : SubSeq(x, 1, n)[i] = y[p + i]
  <2>1. \A i \in 1 .. n : i \in 1 .. m
    BY <1>1
  <2> QED
    BY <1>3, <1>4, <2>1
<1>6. Rest(x, n) = Rest(y, p + n)
  <2>1. Rest(x, n) \in Seq(S) /\ Len(Rest(x, n)) = m - n /\ \A i \in 1 .. m - n : Rest(x, n)[i] = x[n + i]
    <3>1. PICK w \in Seq(S) : w = x /\ n <= Len(w) /\ Len(w) = m
      BY <1>1, <1>3
    <3>2. n <= Len(w) /\ Len(w) - n = m - n
      BY <3>1
    <3>3. /\ Rest(w, n) \in Seq(S) /\ Len(Rest(w, n)) = Len(w) - n
          /\ \A i \in 1 .. Len(w) - n : Rest(w, n)[i] = w[n + i]
      BY <3>2, RestIs, Zenon
    <3> QED
      BY <3>1, <3>2, <3>3, Zenon
  <2>2. PICK q \in Nat : q = p + n
    OBVIOUS
  <2>3. Rest(y, q) \in Seq(S) /\ Len(Rest(y, q)) = m - n /\ \A i \in 1 .. m - n : Rest(y, q)[i] = y[q + i]
    <3>1. q <= Len(y) /\ Len(y) - q = m - n
      BY <1>1, <2>2
    <3>2. /\ Rest(y, q) \in Seq(S) /\ Len(Rest(y, q)) = Len(y) - q
          /\ \A i \in 1 .. Len(y) - q : Rest(y, q)[i] = y[q + i]
      BY <3>1, RestIs, Zenon
    <3> QED
      BY <3>1, <3>2, Zenon
  <2>4. ASSUME NEW i \in 1 .. m - n PROVE Rest(x, n)[i] = Rest(y, q)[i]
    <3>1. n + i \in 1 .. m /\ p + (n + i) = q + i
      BY <1>1, <2>2
    <3>2. x[n + i] = y[p + (n + i)]
      BY <1>3, <3>1
    <3> QED
      BY <2>1, <2>3, <3>1, <3>2
  <2>5. Rest(x, n) = Rest(y, q)
    BY <2>1, <2>3, <2>4, SeqEqual
  <2> QED
    BY <2>2, <2>5
<1> QED
  BY <1>2, <1>4, <1>5, <1>6, Zenon DEF Rest

\* An offset lies behind those before it, and within those of the whole list.
Within(these, f, n, i) ==
    /\ Len(f[i - 1]) \in Nat /\ Len(f[n]) \in Nat
    /\ Len(f[i]) = Len(f[i - 1]) + Len(Entropy!Offset(these[i]))
    /\ Len(f[i]) <= Len(f[n])
    /\ \A j \in 1 .. Len(Entropy!Offset(these[i])) :
          f[n][Len(f[i - 1]) + j] = Entropy!Offset(these[i])[j]

\* So does every offset of a list.
LEMMA OffsetWithin ==
    ASSUME NEW these \in Seq(Values), NEW f, Gathered(these, f), NEW n \in Nat, n = Len(these),
           NEW i \in 1 .. n
    PROVE  Within(these, f, n, i)
<1>1. \A m \in 0 .. n : f[m] \in Seq(Bit) /\ Len(f[m]) \in Nat
  <2>1. f \in [0 .. n -> Seq(Bit)]
    BY Zenon DEF Gathered
  <2> QED
    BY <2>1
<1>2. ASSUME NEW m \in 1 .. n
      PROVE  /\ f[m] = Cat(f[m - 1], Entropy!Offset(these[m]))
             /\ Entropy!Offset(these[m]) \in Seq(Bit) /\ f[m - 1] \in Seq(Bit)
  <2>1. m - 1 \in 0 .. n
    OBVIOUS
  <2>2. Entropy!Offset(these[m]) \in Seq(Bit)
    BY OffsetType
  <2>3. f[m] = Cat(f[m - 1], Entropy!Offset(these[m]))
    BY Zenon DEF Gathered
  <2> QED
    BY <1>1, <2>1, <2>2, <2>3
<1>3. ASSUME NEW m \in 1 .. n
      PROVE  /\ Len(f[m]) = Len(f[m - 1]) + Len(Entropy!Offset(these[m]))
             /\ Len(f[m - 1]) \in Nat /\ Len(Entropy!Offset(these[m])) \in Nat
             /\ \A j \in 1 .. Len(f[m - 1]) : f[m][j] = f[m - 1][j]
             /\ \A j \in 1 .. Len(Entropy!Offset(these[m])) :
                   f[m][Len(f[m - 1]) + j] = Entropy!Offset(these[m])[j]
  <2>1. PICK s \in Seq(Bit), t \in Seq(Bit) :
           s = f[m - 1] /\ t = Entropy!Offset(these[m]) /\ f[m] = Cat(s, t)
    BY <1>2
  <2>2. PICK u : u = f[m]
    OBVIOUS
  <2>3. /\ Len(u) = Len(s) + Len(t) /\ Len(s) \in Nat /\ Len(t) \in Nat
        /\ \A j \in 1 .. Len(s) : u[j] = s[j]
        /\ \A j \in 1 .. Len(t) : u[Len(s) + j] = t[j]
    <3>1. Len(Cat(s, t)) = Len(s) + Len(t)
      BY CatType
    <3>2. /\ \A j \in 1 .. Len(s) : Cat(s, t)[j] = s[j]
          /\ \A j \in 1 .. Len(t) : Cat(s, t)[Len(s) + j] = t[j]
      BY CatBits
    <3>3. Len(s) \in Nat /\ Len(t) \in Nat
      OBVIOUS
    <3>4. u = Cat(s, t)
      BY <2>1, <2>2, Zenon
    <3> QED
      BY <3>1, <3>2, <3>3, <3>4, Zenon
  <2> QED
    BY <2>1, <2>2, <2>3, Zenon
<1> DEFINE Grown(m) == Len(f[i]) <= Len(f[m]) /\ \A j \in 1 .. Len(f[i]) : f[m][j] = f[i][j]
           T == {m \in 0 .. n : m < i \/ Grown(m)}
<1>4. Grown(i)
  BY <1>1
<1>5. 0 \in T
  OBVIOUS
<1>6. ASSUME NEW m \in 1 .. n, m - 1 \in T PROVE m \in T
  <2>1. CASE m - 1 < i
    BY <1>4, <2>1
  <2>2. CASE ~(m - 1 < i)
    <3>1. Grown(m - 1)
      BY <1>6, <2>2
    <3>2. PICK a \in Nat, b \in Nat, c \in Nat :
             a = Len(f[i]) /\ b = Len(f[m - 1]) /\ c = Len(f[m]) /\ a <= b /\ b <= c
      <4>1. Len(f[i]) \in Nat /\ Len(f[m]) \in Nat
        BY <1>1
      <4>2. Len(f[m]) = Len(f[m - 1]) + Len(Entropy!Offset(these[m]))
            /\ Len(f[m - 1]) \in Nat /\ Len(Entropy!Offset(these[m])) \in Nat
        BY <1>3
      <4>3. Len(f[i]) <= Len(f[m - 1])
        BY <3>1
      <4>4. PICK a \in Nat : a = Len(f[i])
        BY <4>1, Zenon
      <4>5. PICK b \in Nat : b = Len(f[m - 1])
        BY <4>2, Zenon
      <4>6. PICK d \in Nat : d = Len(Entropy!Offset(these[m]))
        BY <4>2, Zenon
      <4>7. PICK c \in Nat : c = Len(f[m])
        BY <4>1, Zenon
      <4>8. c = b + d /\ a <= b
        BY <4>2, <4>3, <4>4, <4>5, <4>6, <4>7, Zenon
      <4>9. b <= c
        BY <4>8
      <4> QED
        BY <4>4, <4>5, <4>7, <4>8, <4>9, Zenon
    <3>3. ASSUME NEW j \in 1 .. a PROVE f[m][j] = f[i][j]
      <4>1. j \in 1 .. b
        BY <3>2
      <4>2. f[m - 1][j] = f[i][j]
        BY <3>1, <3>2
      <4> QED
        BY <1>3, <3>2, <4>1, <4>2
    <3> QED
      BY <3>2, <3>3
  <2> QED
    BY <2>1, <2>2
<1>7. n \in T
  <2>1. n \in 0 .. n
    OBVIOUS
  <2> HIDE DEF T
  <2> QED
    BY <1>5, <1>6, <2>1, Induct
<1>8. Grown(n)
  BY <1>7
<1>9. ASSUME NEW j \in 1 .. Len(Entropy!Offset(these[i]))
      PROVE  f[n][Len(f[i - 1]) + j] = Entropy!Offset(these[i])[j]
  <2>1. Len(f[i - 1]) + j \in 1 .. Len(f[i])
    <3>1. Len(f[i]) = Len(f[i - 1]) + Len(Entropy!Offset(these[i]))
          /\ Len(f[i - 1]) \in Nat /\ Len(Entropy!Offset(these[i])) \in Nat
      BY <1>3
    <3>2. PICK a \in Nat, b \in Nat : a = Len(f[i - 1]) /\ b = Len(Entropy!Offset(these[i]))
      BY <3>1, Zenon
    <3>3. j \in 1 .. b
      BY <3>2, Zenon
    <3>4. a + j \in 1 .. a + b
      BY <3>3
    <3> QED
      BY <3>1, <3>2, <3>4, Zenon
  <2>2. f[n][Len(f[i - 1]) + j] = f[i][Len(f[i - 1]) + j]
    BY <1>8, <2>1
  <2> QED
    BY <1>3, <2>2
<1>10. Len(f[i - 1]) \in Nat /\ Len(f[n]) \in Nat
  BY <1>1
<1>11. Len(f[i]) = Len(f[i - 1]) + Len(Entropy!Offset(these[i])) /\ Len(f[i]) <= Len(f[n])
  BY <1>3, <1>8
<1> QED
  BY <1>9, <1>10, <1>11, Zenon DEF Within

-----------------------------------------------------------------------------
(* The states and bytes of the encoder, one residual after the other. *)

\* What the encoder has of the residuals it has put.
Coder == [state : State, buf : Seq(Byte)]

\* rans_enc_put of a residual.
Coded(table, c, v) ==
    LET s == Entropy!Symbol(Entropy!ZigZag(v))
        n == Entropy!Shed(c.state, Share * BYTE * table[s])
        x == c.state \div Entropy!Power[n]
    IN  [ state |-> (x \div table[s]) * PRECISION + Entropy!Start(table, s) + (x % table[s]),
          buf   |-> Cat(Entropy!Bytes(c.state, n), c.buf) ]

\* What a state gives back: the bucket, the state before it, and how many
\* bytes that needs.
GivenBack(table, c, v, d) ==
    LET s   == Entropy!Symbol(Entropy!ZigZag(v))
        cum == d.state % PRECISION
        x   == table[s] * (d.state \div PRECISION) + cum - Entropy!Start(table, s)
        n   == Entropy!Missing(x, d.buf)
    IN  /\ SymbolIn(table, cum) = s
        /\ Entropy!Pull(x, n, d.buf) = c.state
        /\ SubSeq(d.buf, n + 1, Len(d.buf)) = c.buf

\* A residual's bucket.
LEMMA SymbolOf ==
    ASSUME NEW v \in Coding!Int64
    PROVE  Entropy!Symbol(Entropy!ZigZag(v)) \in Entropy!Symbols
  BY OffsetIs

\* The encoder's step keeps to the states, and the decoder takes it back.
LEMMA CodedBack ==
    ASSUME NEW table, Table(table), NEW c \in Coder, NEW v \in Coding!Int64
    PROVE  Coded(table, c, v) \in Coder /\ GivenBack(table, c, v, Coded(table, c, v))
<1>1. PICK s \in Entropy!Symbols : s = Entropy!Symbol(Entropy!ZigZag(v))
  BY SymbolOf
<1>2. c.state \in State /\ c.buf \in Seq(Byte)
  BY DEF Coder
<1>3. PICK f \in Nat, start \in Nat :
         f = table[s] /\ start = Entropy!Start(table, s) /\ f > 0 /\ start + f <= PRECISION
  BY Part
<1>4. PICK p \in Nat, k \in Nat, b \in Nat :
         p = PRECISION /\ k = Share /\ b = BYTE /\ p > 0 /\ k > 0 /\ b > 0 /\ RANS_L = k * p /\ f <= p
  BY <1>3, Interval, ByteGiven
<1>5. PICK n : n = Entropy!Shed(c.state, Share * BYTE * table[s])
  OBVIOUS
<1>6. PICK y \in Nat : y = c.state \div Entropy!Power[n] /\ k * f <= y /\ y < (k * b) * f /\ n \in Nat
  <2>1. n = Entropy!Shed(c.state, (Share * BYTE) * f)
    BY <1>3, <1>5
  <2>2. STATE_BYTES \in Nat /\ f <= PRECISION
    BY <1>4, Interval
  <2>3. /\ n \in 0 .. STATE_BYTES
        /\ c.state \div Entropy!Power[n] \in Nat
        /\ Share * f <= c.state \div Entropy!Power[n]
        /\ c.state \div Entropy!Power[n] < (Share * BYTE) * f
    BY <1>2, <1>3, <2>1, <2>2, ShedState
  <2> QED
    BY <1>4, <2>2, <2>3
<1>7. PICK next : next = (y \div table[s]) * PRECISION + Entropy!Start(table, s) + (y % table[s])
  OBVIOUS
<1>8. next = (y \div f) * p + start + (y % f)
  BY <1>3, <1>4, <1>7
<1>9. /\ next \in k * p .. (k * p) * b - 1
      /\ next % p \in start .. start + f - 1
      /\ f * (next \div p) + (next % p) - start = y
  <2>1. start + f <= p /\ f > 0 /\ k > 0 /\ b > 0
    BY <1>3, <1>4
  <2>2. k * f <= y /\ y < (k * b) * f
    BY <1>6, Zenon
  <2>3. Scaling(k, b, p, f, start, y, next)
    BY <1>8, <2>1, <2>2, Zenon DEF Scaling
  <2> QED
    BY <2>3, StepBack
<1>10. next \in State
  BY <1>4, <1>9 DEF State
<1>11. PICK front : front = Entropy!Bytes(c.state, n) /\ front \in Seq(Byte) /\ Len(front) = n
  BY <1>2, <1>6, StateType, BytesType
<1>12. PICK bytes \in Seq(Byte) : bytes = Cat(front, c.buf) /\ n <= Len(bytes)
          /\ (\A i \in 1 .. n : bytes[i] = front[i]) /\ SubSeq(bytes, n + 1, Len(bytes)) = c.buf
  <2>1. PICK bytes : bytes = Cat(front, c.buf)
    OBVIOUS
  <2>2. PICK t \in Seq(Byte) : t = c.buf
    BY <1>2
  <2>3. /\ bytes \in Seq(Byte) /\ Len(bytes) = n + Len(t)
        /\ \A i \in 1 .. n : bytes[i] = front[i]
        /\ SubSeq(bytes, n + 1, Len(bytes)) = t
    <3>1. PICK u \in Seq(Byte) : u = front /\ n = Len(u)
      BY <1>11
    <3>2. bytes = Cat(u, t)
      BY <2>1, <2>2, <3>1, Zenon
    <3>3. /\ bytes \in Seq(Byte) /\ Len(bytes) = n + Len(t)
          /\ \A i \in 1 .. n : bytes[i] = u[i]
          /\ SubSeq(bytes, n + 1, Len(bytes)) = t
      BY <3>1, <3>2, Behind, Zenon
    <3> QED
      BY <3>1, <3>3, Zenon
  <2>4. n <= Len(bytes)
    <3>1. PICK l \in Nat : l = Len(t)
      OBVIOUS
    <3> QED
      BY <1>6, <2>3, <3>1
  <2> QED
    BY <2>1, <2>2, <2>3, <2>4, Zenon
<1>13. PICK d : d = Coded(table, c, v)
  OBVIOUS
<1>14. d = [state |-> next, buf |-> bytes]
  BY <1>1, <1>5, <1>6, <1>7, <1>11, <1>12, <1>13, Zenon DEF Coded
<1>15. d \in Coder /\ d.state = next /\ d.buf = bytes
  BY <1>10, <1>14 DEF Coder
<1>16. Entropy!Missing(y, bytes) = n /\ Entropy!Pull(y, n, bytes) = c.state
  <2>1. \A i \in 1 .. n : bytes[i] = Entropy!Bytes(c.state, n)[i]
    BY <1>11, <1>12
  <2>2. PICK x \in State : x = c.state
    BY <1>2
  <2>3. \A i \in 1 .. n : bytes[i] = Entropy!Bytes(x, n)[i]
    BY <2>1, <2>2
  <2>4. Entropy!Missing(x \div Entropy!Power[n], bytes) = n
        /\ Entropy!Pull(x \div Entropy!Power[n], n, bytes) = x
    BY <1>6, <1>12, <2>3, MissingIs
  <2> QED
    BY <1>6, <2>2, <2>4
<1>17. PICK cum : cum = next % p
  OBVIOUS
<1>18. SymbolIn(table, cum) = s
  <2>1. cum \in Entropy!Start(table, s) .. Entropy!Start(table, s) + table[s] - 1
    BY <1>3, <1>9, <1>17
  <2> QED
    BY <2>1, SymbolInIs
<1>19. table[s] * (d.state \div PRECISION) + (d.state % PRECISION) - Entropy!Start(table, s) = y
  BY <1>3, <1>4, <1>9, <1>15
<1>20. GivenBack(table, c, v, d)
  BY <1>1, <1>4, <1>12, <1>15, <1>16, <1>17, <1>18, <1>19, Zenon DEF GivenBack
<1> QED
  BY <1>13, <1>15, <1>20

\* What the encoder has after each of the residuals of the list, taken from
\* the last.
Chain(table, these, g) ==
    /\ g \in [0 .. Len(these) -> Coder]
    /\ g[0] = [state |-> RANS_L, buf |-> << >>]
    /\ \A i \in 1 .. Len(these) : g[i] = Coded(table, g[i - 1], these[Len(these) + 1 - i])

\* The encoder gets through the whole list.
LEMMA ChainExists ==
    ASSUME NEW table, Table(table), NEW these \in Seq(Values)
    PROVE  \E g : Chain(table, these, g)
<1>1. PICK n \in Nat : n = Len(these)
  OBVIOUS
<1>2. \A i \in 1 .. n : n + 1 - i \in 1 .. n /\ these[n + 1 - i] \in Coding!Int64
  <2>1. \A i \in 1 .. n : n + 1 - i \in 1 .. n
    OBVIOUS
  <2> QED
    BY <1>1, <2>1, OffsetType
<1>3. PICK W : W = 1 .. n
  OBVIOUS
<1>4. PICK step : step = [p \in W \X Coder |-> Coded(table, p[2], these[n + 1 - p[1]])]
  OBVIOUS
<1>5. ASSUME NEW i \in W, NEW y \in Coder
      PROVE  step[<<i, y>>] = Coded(table, y, these[n + 1 - i]) /\ Coded(table, y, these[n + 1 - i]) \in Coder
  <2>1. step[<<i, y>>] = Coded(table, y, these[n + 1 - i])
    BY <1>4, Zenon
  <2>2. PICK v \in Coding!Int64 : v = these[n + 1 - i]
    BY <1>2, <1>3
  <2>3. Coded(table, y, v) \in Coder
    BY CodedBack
  <2> QED
    BY <2>1, <2>2, <2>3
<1>6. step \in [W \X Coder -> Coder]
  <2>1. ASSUME NEW p \in W \X Coder PROVE Coded(table, p[2], these[n + 1 - p[1]]) \in Coder
    BY <1>5
  <2> QED
    BY <1>4, <2>1, Zenon
<1>7. PICK x \in Coder : x = [state |-> RANS_L, buf |-> << >>]
  <2>1. RANS_L \in State
    <3>1. PICK l \in Nat, b \in Nat : l = RANS_L /\ b = BYTE /\ b > 1 /\ l > 0
      BY RansGiven, ByteGiven DEF Entropy!RansAssumption
    <3>2. 2 * l <= b * l /\ b * l = l * b
      BY <3>1
    <3> QED
      BY <3>1, <3>2 DEF State
  <2>2. << >> \in Seq(Byte)
    BY EmptySeq
  <2> QED
    BY <2>1, <2>2 DEF Coder
<1>8. \E g : Loop(Coder, x, step, n, g)
  BY <1>3, <1>6, LoopExists
<1>9. PICK g : Loop(Coder, x, step, n, g)
  BY <1>8
<1>10. g \in [0 .. n -> Coder] /\ g[0] = x
  BY <1>9, Zenon DEF Loop
<1>11. ASSUME NEW i \in 1 .. n PROVE g[i] = Coded(table, g[i - 1], these[n + 1 - i])
  <2>1. g[i] = step[<<i, g[i - 1]>>]
    BY <1>9, Zenon DEF Loop
  <2>2. i - 1 \in 0 .. n
    OBVIOUS
  <2>3. g[i - 1] \in Coder /\ i \in W
    BY <1>3, <1>10, <2>2, Zenon
  <2> QED
    BY <1>5, <2>1, <2>3, Zenon
<1> QED
  BY <1>1, <1>7, <1>10, <1>11, Zenon DEF Chain

-----------------------------------------------------------------------------
(* The invariant. *)

\* The encoder has put some of the list, and the offsets once it is complete.
Passed(g, f) ==
    /\ Chain(freqs, list, g) /\ Gathered(list, f)
    /\ enc \in [state : State, buf : Seq(Byte), raw : Seq(Bit)]
    /\ put \in Seq(State) /\ Len(put) \in 1 .. Len(list) + 1
    /\ \A i \in 1 .. Len(put) : put[i] = g[Len(put) - i].state
    /\ enc.state = g[Len(put) - 1].state /\ enc.buf = g[Len(put) - 1].buf
    /\ phase = "listing" => Len(put) = 1
    /\ phase # "listing" => enc.raw = f[Len(list)]

\* The frame holds all of it.
Sent(g, f) ==
    /\ Len(put) = Len(list) + 1
    /\ frame.bytes = Cat(Entropy!Bytes(g[Len(list)].state, STATE_BYTES), g[Len(list)].buf)
    /\ frame.raw \in Seq(Bit) /\ Len(f[Len(list)]) <= Len(frame.raw)
    /\ \A j \in 1 .. Len(f[Len(list)]) : frame.raw[j] = f[Len(list)][j]

\* The decoder has taken back as many steps as it has residuals.
Returned(g, f) ==
    /\ dec.state = g[Len(list) - Len(residuals)].state
    /\ dec.bytes = g[Len(list) - Len(residuals)].buf
    /\ dec.raw = Rest(frame.raw, Len(f[Len(residuals)]))

Meeting ==
    /\ Table(freqs)
    /\ list \in Seq(Values) /\ Len(list) <= MAX_RESIDUALS
    /\ phase \in {"listing", "putting", "sent", "decoding"}
    /\ residuals \in Seq(Values) /\ Len(residuals) <= Len(list)
    /\ \A i \in 1 .. Len(residuals) : residuals[i] = list[i]
    /\ phase # "decoding" => residuals = << >>
    /\ frame \in [bytes : Seq(Byte), raw : Seq(Bit)]
    /\ \E g, f : /\ Passed(g, f)
                 /\ phase \in {"sent", "decoding"} => Sent(g, f)
                 /\ phase = "decoding" => Returned(g, f)

\* Encoder and decoder begin with nothing.
LEMMA InitMeeting == Entropy!Init => Meeting
<1> SUFFICES ASSUME Entropy!Init PROVE Meeting
  OBVIOUS
<1> USE DEF Entropy!Init
<1>1. Table(freqs)
  BY TrainedTable
<1>2. list = << >> /\ list \in Seq(Values) /\ Len(list) = 0 /\ residuals \in Seq(Values) /\ Len(residuals) = 0
  BY EmptySeq
<1>3. Len(list) <= MAX_RESIDUALS
  BY <1>2, RansGiven DEF Entropy!RansAssumption
<1>4. frame \in [bytes : Seq(Byte), raw : Seq(Bit)]
  <2>1. << >> \in Seq(Byte) /\ << >> \in Seq(Bit)
    BY EmptySeq
  <2> QED
    BY <2>1
<1>5. PICK g : Chain(freqs, list, g)
  BY <1>1, <1>2, ChainExists
<1>6. PICK f : Gathered(list, f)
  BY <1>2, GatheredExists
<1>7. g[0] \in Coder /\ g[0].state = RANS_L /\ g[0].buf = << >>
  BY <1>2, <1>5 DEF Chain
<1>8. RANS_L \in State /\ << >> \in Seq(Byte) /\ << >> \in Seq(Bit)
  BY <1>7, EmptySeq DEF Coder
<1>9. put \in Seq(State) /\ Len(put) = 1 /\ put[1] = RANS_L
  BY <1>8
<1>10. Passed(g, f)
  <2>1. enc \in [state : State, buf : Seq(Byte), raw : Seq(Bit)]
    BY <1>8
  <2>2. \A i \in 1 .. Len(put) : put[i] = g[Len(put) - i].state
    <3>1. \A i \in 1 .. 1 : i = 1 /\ 1 - i = 0
      OBVIOUS
    <3> QED
      BY <1>7, <1>9, <3>1
  <2>3. enc.state = g[Len(put) - 1].state /\ enc.buf = g[Len(put) - 1].buf
    BY <1>7, <1>9
  <2>4. Len(put) \in 1 .. Len(list) + 1 /\ phase = "listing"
    BY <1>2, <1>9
  <2> QED
    BY <1>5, <1>6, <1>9, <2>1, <2>2, <2>3, <2>4, Zenon DEF Passed
<1> QED
  BY <1>1, <1>2, <1>3, <1>4, <1>10 DEF Meeting

\* A longer list, of which nothing has been put.
LEMMA AddMeeting ==
    ASSUME Meeting, NEW v \in Values, Entropy!Add(v)
    PROVE  Meeting'
<1>1. /\ phase = "listing" /\ Len(list) < MAX_RESIDUALS /\ list' = Append(list, v)
      /\ freqs' = freqs /\ phase' = phase /\ enc' = enc /\ put' = put
      /\ frame' = frame /\ dec' = dec /\ residuals' = residuals
  BY DEF Entropy!Add
<1>2. /\ Table(freqs) /\ list \in Seq(Values)
      /\ residuals = << >> /\ frame \in [bytes : Seq(Byte), raw : Seq(Bit)]
  BY <1>1 DEF Meeting
<1>3. PICK g, f : Passed(g, f)
  BY DEF Meeting
<1>4. PICK these \in Seq(Values) : these = Append(list, v) /\ Len(these) = Len(list) + 1
  <2>1. Append(list, v) \in Seq(Values) /\ Len(Append(list, v)) = Len(list) + 1
    BY <1>2, Appended, Zenon
  <2> QED
    BY <2>1, Zenon
<1>5. Len(these) \in Nat /\ Len(these) >= 1 /\ Len(these) <= MAX_RESIDUALS
  <2>1. MAX_RESIDUALS \in Nat /\ Len(list) \in Nat
    BY <1>2, RansGiven DEF Entropy!RansAssumption
  <2> QED
    BY <1>1, <1>4, <2>1
<1>6. PICK table : table = freqs
  OBVIOUS
<1>7. PICK h : Chain(table, these, h)
  BY <1>2, <1>6, ChainExists
<1>8. PICK e : Gathered(these, e)
  BY GatheredExists
<1>9. h[0] = g[0] /\ Len(put) = 1
  BY <1>1, <1>3, <1>7, Zenon DEF Passed, Chain
<1>10. Passed(h, e)'
  <2>1. Chain(freqs, list, h)' /\ Gathered(list, e)'
    BY <1>1, <1>4, <1>6, <1>7, <1>8
  <2>2. /\ enc' \in [state : State, buf : Seq(Byte), raw : Seq(Bit)]
        /\ put' \in Seq(State) /\ Len(put') = 1
    BY <1>1, <1>3, <1>9, Zenon DEF Passed
  <2>3. Len(put') \in 1 .. Len(list') + 1
    <3>1. PICK n \in Nat : n = Len(list') /\ n >= 1
      BY <1>1, <1>4, <1>5
    <3> QED
      BY <2>2, <3>1
  <2>4. 1 - 1 = 0 /\ \A i \in 1 .. 1 : i = 1
    OBVIOUS
  <2>5. put[1] = g[0].state /\ enc.state = g[0].state /\ enc.buf = g[0].buf
    <3>1. 1 \in 1 .. 1
      OBVIOUS
    <3>2. (\A i \in 1 .. Len(put) : put[i] = g[Len(put) - i].state)
          /\ enc.state = g[Len(put) - 1].state /\ enc.buf = g[Len(put) - 1].buf
      BY <1>3, Zenon DEF Passed
    <3> QED
      BY <1>9, <2>4, <3>1, <3>2, Zenon
  <2>6. \A i \in 1 .. Len(put') : put'[i] = h[Len(put') - i].state
    BY <1>1, <1>9, <2>4, <2>5, Zenon
  <2>7. enc'.state = h[Len(put') - 1].state /\ enc'.buf = h[Len(put') - 1].buf
    BY <1>1, <1>9, <2>4, <2>5, Zenon
  <2>8. phase' = "listing"
    BY <1>1
  <2> QED
    BY <2>1, <2>2, <2>3, <2>6, <2>7, <2>8, Zenon DEF Passed
<1>11. phase' \in {"listing"} /\ phase' \notin {"sent", "decoding"}
  BY <1>1
<1>12. residuals' \in Seq(Values) /\ Len(residuals') = 0 /\ residuals' = << >>
  BY <1>1, <1>2, EmptySeq
<1>13. Len(residuals') <= Len(list') /\ list' \in Seq(Values) /\ Len(list') <= MAX_RESIDUALS
  BY <1>1, <1>4, <1>5, <1>12
<1>14. Table(freqs') /\ frame' \in [bytes : Seq(Byte), raw : Seq(Bit)]
  BY <1>1, <1>2
<1> QED
  BY <1>10, <1>11, <1>12, <1>13, <1>14 DEF Meeting

\* All that has been put stays, the offsets join it.
LEMMA PutOffsetsMeeting ==
    ASSUME Meeting, Entropy!PutOffsets
    PROVE  Meeting'
<1>1. /\ phase = "listing" /\ phase' = "putting"
      /\ enc' = [enc EXCEPT !.raw = Entropy!Offsets(list)]
      /\ freqs' = freqs /\ list' = list /\ put' = put
      /\ frame' = frame /\ dec' = dec /\ residuals' = residuals
  BY DEF Entropy!PutOffsets
<1>2. list \in Seq(Values) /\ residuals = << >>
  BY <1>1 DEF Meeting
<1>3. PICK g, f : Passed(g, f)
  BY DEF Meeting
<1>4. PICK raw \in Seq(Bit) : raw = Entropy!Offsets(list) /\ raw = f[Len(list)]
  <2>1. Gathered(list, f)
    BY <1>3 DEF Passed
  <2>2. Entropy!Offsets(list) = f[Len(list)]
    BY <1>2, <2>1, OffsetsAre
  <2>3. f[Len(list)] \in Seq(Bit)
    BY <1>2, <2>1 DEF Gathered
  <2> QED
    BY <2>2, <2>3
<1>5. enc \in [state : State, buf : Seq(Byte), raw : Seq(Bit)]
  BY <1>3, Zenon DEF Passed
<1>6. enc' \in [state : State, buf : Seq(Byte), raw : Seq(Bit)]
      /\ enc'.state = enc.state /\ enc'.buf = enc.buf /\ enc'.raw = f[Len(list)]
  BY <1>1, <1>4, <1>5
<1>7. phase' # "listing"
  BY <1>1
<1>8. Passed(g, f)'
  BY <1>1, <1>3, <1>6, <1>7, Zenon DEF Passed
<1> QED
  BY <1>1, <1>2, <1>8 DEF Meeting

\* One more step of the encoder.
LEMMA PutMeeting ==
    ASSUME Meeting, Entropy!Put
    PROVE  Meeting'
<1>1. /\ phase = "putting" /\ Len(put) <= Len(list)
      /\ freqs' = freqs /\ list' = list /\ phase' = phase
      /\ frame' = frame /\ dec' = dec /\ residuals' = residuals
  BY DEF Entropy!Put
<1>2. /\ Table(freqs) /\ list \in Seq(Values) /\ residuals = << >>
  BY <1>1 DEF Meeting
<1>3. PICK g, f : Passed(g, f)
  BY DEF Meeting
<1>4. PICK n \in Nat : n = Len(list)
  BY <1>2
<1>5. /\ Chain(freqs, list, g)
      /\ enc \in [state : State, buf : Seq(Byte), raw : Seq(Bit)]
      /\ put \in Seq(State)
  BY <1>3, Zenon DEF Passed
<1>6. PICK k \in Nat : k = Len(put) /\ k >= 1 /\ k <= n
  BY <1>1, <1>3, <1>4 DEF Passed
<1>7. enc.state = g[k - 1].state /\ enc.buf = g[k - 1].buf /\ enc.raw = f[n]
      /\ \A i \in 1 .. k : put[i] = g[k - i].state
  <2>1. phase # "listing"
    BY <1>1
  <2> QED
    BY <1>3, <1>4, <1>6, <2>1, Zenon DEF Passed
<1>8. k \in 1 .. n /\ k - 1 \in 0 .. n /\ k \in 0 .. n
  BY <1>6
<1>9. PICK v : v = list[n + 1 - k]
  OBVIOUS
<1>10. g[k] = Coded(freqs, g[k - 1], v) /\ g[k] \in Coder /\ g[k - 1] \in Coder
  BY <1>4, <1>5, <1>8, <1>9, Zenon DEF Chain
<1>11. PICK s, m, next :
          /\ s = Entropy!Symbol(Entropy!ZigZag(v))
          /\ m = Entropy!Shedding(enc.state, s)
          /\ next = Entropy!EncodeStep(enc.state \div Entropy!Power[m], s)
  OBVIOUS
<1>12. /\ enc' = [enc EXCEPT !.state = next, !.buf = Entropy!Bytes(enc.state, m) \o @]
       /\ put' = << next >> \o put
  BY <1>4, <1>6, <1>9, <1>11, Zenon DEF Entropy!Put
<1>13. next = g[k].state /\ Cat(Entropy!Bytes(enc.state, m), enc.buf) = g[k].buf
  <2>1. m = Entropy!Shed(enc.state, Share * BYTE * freqs[s])
    BY <1>11, Zenon DEF Entropy!Shedding, Share
  <2>2. LET x == enc.state \div Entropy!Power[m]
        IN  next = (x \div freqs[s]) * PRECISION + Entropy!Start(freqs, s) + (x % freqs[s])
    BY <1>11, Zenon DEF Entropy!EncodeStep
  <2>3. g[k] = [state |-> next, buf |-> Cat(Entropy!Bytes(enc.state, m), enc.buf)]
    BY <1>7, <1>10, <1>11, <2>1, <2>2, Zenon DEF Coded
  <2> QED
    BY <2>3
<1>14. g[k].state \in State /\ g[k].buf \in Seq(Byte)
  BY <1>10 DEF Coder
<1>15. /\ enc' \in [state : State, buf : Seq(Byte), raw : Seq(Bit)]
       /\ enc'.state = g[k].state /\ enc'.buf = g[k].buf /\ enc'.raw = f[n]
  <2>1. PICK b \in Seq(Byte) : b = Entropy!Bytes(enc.state, m) \o enc.buf /\ b = g[k].buf
    BY <1>13, <1>14, Zenon DEF Cat
  <2>2. enc' = [enc EXCEPT !.state = next, !.buf = b]
    BY <1>12, <2>1
  <2> QED
    BY <1>5, <1>7, <1>13, <1>14, <2>1, <2>2
<1>16. PICK x \in State : x = next
  BY <1>13, <1>14
<1>17. /\ put' \in Seq(State) /\ Len(put') = k + 1
       /\ put'[1] = x /\ \A i \in 1 .. k : put'[i + 1] = put[i]
  <2>1. PICK old \in Seq(State) : old = put /\ Len(old) = k
    BY <1>5, <1>6
  <2>2. PICK all : all = << x >> \o old
    OBVIOUS
  <2>3. all \in Seq(State) /\ Len(all) = k + 1 /\ all[1] = x /\ \A i \in 1 .. k : all[i + 1] = old[i]
    BY <2>1, <2>2
  <2> QED
    BY <1>12, <1>16, <2>1, <2>2, <2>3, Zenon
<1>18. ASSUME NEW i \in 1 .. k + 1 PROVE put'[i] = g[(k + 1) - i].state
  <2>1. CASE i = 1
    <3>1. (k + 1) - i = k
      BY <2>1
    <3> QED
      BY <1>13, <1>16, <1>17, <2>1, <3>1
  <2>2. CASE i # 1
    <3>1. PICK j \in 1 .. k : j + 1 = i /\ k - j = (k + 1) - i
      <4>1. i - 1 \in 1 .. k /\ (i - 1) + 1 = i /\ k - (i - 1) = (k + 1) - i
        BY <2>2
      <4> QED
        BY <4>1, Zenon
    <3>2. put'[j + 1] = put[j] /\ put[j] = g[k - j].state
      BY <1>7, <1>17, Zenon
    <3> QED
      BY <3>1, <3>2, Zenon
  <2> QED
    BY <2>1, <2>2
<1>19. (k + 1) - 1 = k /\ k + 1 \in 1 .. n + 1 /\ phase' # "listing"
  BY <1>1, <1>6
<1>20. Passed(g, f)'
  <2>1. Chain(freqs, list, g)' /\ Gathered(list, f)'
    BY <1>1, <1>3, Zenon DEF Passed
  <2>2. Len(put') \in 1 .. Len(list') + 1 /\ Len(list') = n
    BY <1>1, <1>4, <1>17, <1>19
  <2>3. \A i \in 1 .. Len(put') : put'[i] = g[Len(put') - i].state
    BY <1>17, <1>18, Zenon
  <2>4. enc'.state = g[Len(put') - 1].state /\ enc'.buf = g[Len(put') - 1].buf /\ enc'.raw = f[Len(list')]
    BY <1>15, <1>17, <1>19, <2>2, Zenon
  <2> QED
    BY <1>15, <1>17, <1>19, <2>1, <2>2, <2>3, <2>4, Zenon DEF Passed
<1> QED
  BY <1>1, <1>2, <1>20 DEF Meeting

\* The frame is what the encoder has.
LEMMA FinishMeeting ==
    ASSUME Meeting, Entropy!Finish
    PROVE  Meeting'
<1>1. /\ phase = "putting" /\ Len(put) = Len(list) + 1 /\ phase' = "sent"
      /\ frame' = [ bytes |-> Entropy!Bytes(enc.state, STATE_BYTES) \o enc.buf,
                    raw   |-> enc.raw \o [i \in 1 .. (-Len(enc.raw)) % 8 |-> 0] ]
      /\ freqs' = freqs /\ list' = list /\ enc' = enc /\ put' = put
      /\ dec' = dec /\ residuals' = residuals
  BY DEF Entropy!Finish
<1>2. /\ Table(freqs) /\ list \in Seq(Values) /\ residuals = << >>
  BY <1>1 DEF Meeting
<1>3. PICK g, f : Passed(g, f)
  BY DEF Meeting
<1>4. PICK n \in Nat : n = Len(list) /\ Len(put) - 1 = n
  BY <1>1, <1>2
<1>5. /\ enc \in [state : State, buf : Seq(Byte), raw : Seq(Bit)]
      /\ enc.state = g[n].state /\ enc.buf = g[n].buf /\ enc.raw = f[n]
  BY <1>1, <1>3, <1>4 DEF Passed
<1>6. PICK x \in State, b \in Seq(Byte), raw \in Seq(Bit) : x = enc.state /\ b = enc.buf /\ raw = enc.raw
  BY <1>5
<1>7. PICK pad \in Seq(Bit) : pad = [i \in 1 .. (-Len(raw)) % 8 |-> 0]
  <2>1. (-Len(raw)) % 8 \in Nat
    <3>1. PICK l \in Nat : l = Len(raw)
      OBVIOUS
    <3>2. (-l) % 8 \in Nat
      OBVIOUS
    <3> QED
      BY <3>1, <3>2, Zenon
  <2>2. PICK m \in Nat : m = (-Len(raw)) % 8
    BY <2>1, Zenon
  <2>3. [i \in 1 .. m |-> 0] \in Seq(Bit)
    BY DEF Bit
  <2> QED
    BY <2>2, <2>3, Zenon
<1>8. PICK top \in Seq(Byte) : top = Entropy!Bytes(x, STATE_BYTES)
  <2>1. STATE_BYTES \in Nat /\ x \in Nat
    BY Interval, StateType
  <2> QED
    BY <2>1, BytesType
<1>9. frame' = [bytes |-> Cat(top, b), raw |-> Cat(raw, pad)]
  BY <1>1, <1>6, <1>7, <1>8, Zenon DEF Cat
<1>10. Cat(top, b) \in Seq(Byte) /\ Cat(raw, pad) \in Seq(Bit)
  BY Behind, CatType, Zenon
<1>11. frame' \in [bytes : Seq(Byte), raw : Seq(Bit)]
       /\ frame'.bytes = Cat(top, b) /\ frame'.raw = Cat(raw, pad)
  BY <1>9, <1>10
<1>12. Len(raw) <= Len(Cat(raw, pad)) /\ \A j \in 1 .. Len(raw) : Cat(raw, pad)[j] = raw[j]
  <2>1. Len(Cat(raw, pad)) = Len(raw) + Len(pad)
    BY CatType
  <2>2. PICK l \in Nat, m \in Nat : l = Len(raw) /\ m = Len(pad)
    OBVIOUS
  <2>3. l <= l + m
    OBVIOUS
  <2> QED
    BY <2>1, <2>2, <2>3, CatBits, Zenon
<1>13. Passed(g, f)'
  <2>1. phase # "listing" /\ phase' # "listing"
    BY <1>1
  <2> QED
    BY <1>1, <1>3, <2>1, Zenon DEF Passed
<1>14. Sent(g, f)'
  <2>1. Len(put') = Len(list') + 1 /\ Len(list') = n
    BY <1>1, <1>4
  <2>2. frame'.bytes = Cat(Entropy!Bytes(g[n].state, STATE_BYTES), g[n].buf)
    BY <1>5, <1>6, <1>8, <1>11, Zenon
  <2>3. /\ frame'.raw \in Seq(Bit) /\ Len(f[n]) <= Len(frame'.raw)
        /\ \A j \in 1 .. Len(f[n]) : frame'.raw[j] = f[n][j]
    BY <1>5, <1>6, <1>10, <1>11, <1>12, Zenon
  <2> QED
    BY <2>1, <2>2, <2>3, Zenon DEF Sent
<1>15. phase' # "decoding"
  BY <1>1
<1>16. /\ Table(freqs') /\ list' \in Seq(Values) /\ Len(list') <= MAX_RESIDUALS
       /\ residuals' = << >> /\ residuals' \in Seq(Values) /\ Len(residuals') <= Len(list')
       /\ \A i \in 1 .. Len(residuals') : residuals'[i] = list'[i]
  BY <1>1, <1>2 DEF Meeting
<1> QED
  BY <1>1, <1>11, <1>13, <1>14, <1>15, <1>16 DEF Meeting

\* The decoder begins with the encoder's last state.
LEMMA OpenMeeting ==
    ASSUME Meeting, Entropy!Open
    PROVE  Meeting'
<1>1. /\ phase = "sent" /\ phase' = "decoding"
      /\ dec' = [ state |-> Entropy!Pull(0, STATE_BYTES, frame.bytes),
                  bytes |-> SubSeq(frame.bytes, STATE_BYTES + 1, Len(frame.bytes)),
                  raw   |-> frame.raw ]
      /\ freqs' = freqs /\ list' = list /\ enc' = enc /\ put' = put
      /\ frame' = frame /\ residuals' = residuals
  BY DEF Entropy!Open
<1>2. /\ Table(freqs) /\ list \in Seq(Values) /\ residuals = << >>
      /\ frame \in [bytes : Seq(Byte), raw : Seq(Bit)]
  BY <1>1 DEF Meeting
<1>3. PICK g, f : Passed(g, f) /\ Sent(g, f)
  BY <1>1 DEF Meeting
<1>4. PICK n \in Nat : n = Len(list)
  BY <1>2
<1>5. g[n] \in Coder /\ f[0] = << >>
  <2>1. n \in 0 .. n
    OBVIOUS
  <2> QED
    BY <1>3, <1>4, <2>1, Zenon DEF Passed, Chain, Gathered
<1>6. PICK x \in State, b \in Seq(Byte) : x = g[n].state /\ b = g[n].buf
  BY <1>5 DEF Coder
<1>7. PICK m \in Nat : m = STATE_BYTES
  BY Interval
<1>8. PICK top \in Seq(Byte) :
         /\ top = Entropy!Bytes(x, m) /\ Len(top) = m
  <2>1. x \in Nat
    BY StateType
  <2> QED
    BY <2>1, BytesType
<1>9. frame.bytes = Cat(top, b)
  BY <1>3, <1>4, <1>6, <1>7, <1>8, Zenon DEF Sent
<1>10. /\ Cat(top, b) \in Seq(Byte) /\ Len(Cat(top, b)) = m + Len(b)
       /\ \A i \in 1 .. m : Cat(top, b)[i] = top[i]
       /\ SubSeq(Cat(top, b), m + 1, Len(Cat(top, b))) = b
  <2>1. /\ Cat(top, b) \in Seq(Byte) /\ Len(Cat(top, b)) = Len(top) + Len(b)
        /\ \A i \in 1 .. Len(top) : Cat(top, b)[i] = top[i]
        /\ SubSeq(Cat(top, b), Len(top) + 1, Len(Cat(top, b))) = b
    BY Behind, Zenon
  <2>2. Len(top) = m
    BY <1>8, Zenon
  <2> QED
    BY <2>1, <2>2, Zenon
<1>11. Entropy!Pull(0, STATE_BYTES, frame.bytes) = x
  <2>1. PICK bytes \in Seq(Byte) : bytes = frame.bytes
    BY <1>9, <1>10
  <2>2. \A i \in 1 .. STATE_BYTES : bytes[i] = Entropy!Bytes(x, STATE_BYTES)[i]
    BY <1>7, <1>8, <1>9, <1>10, <2>1, Zenon
  <2>3. STATE_BYTES <= Len(bytes)
    <3>1. PICK l \in Nat : l = Len(b)
      OBVIOUS
    <3>2. Len(bytes) = m + l
      BY <1>9, <1>10, <2>1, <3>1, Zenon
    <3> QED
      BY <1>7, <3>2
  <2> QED
    BY <2>1, <2>2, <2>3, StateComesBack
<1>12. frame.raw \in Seq(Bit) /\ Rest(frame.raw, 0) = frame.raw
  <2>1. PICK y \in Seq(Bit) : y = frame.raw
    BY <1>2
  <2>2. PICK z \in Nat : z = 0 /\ z <= Len(y) /\ Len(y) - z = Len(y)
    BY <2>1
  <2>3. Rest(y, z) \in Seq(Bit) /\ Len(Rest(y, z)) = Len(y) /\ \A i \in 1 .. Len(y) : Rest(y, z)[i] = y[z + i]
    BY <2>2, RestIs
  <2>4. \A i \in 1 .. Len(y) : z + i = i
    BY <2>2
  <2>5. Rest(y, z) = y
    BY <2>3, <2>4, SeqEqual
  <2> QED
    BY <2>1, <2>2, <2>5
<1>13. Len(residuals) = 0 /\ n - 0 = n /\ Len(f[0]) = 0
  BY <1>2, <1>5
<1>14. Passed(g, f)' /\ Sent(g, f)'
  <2>1. phase # "listing" /\ phase' # "listing"
    BY <1>1
  <2> QED
    BY <1>1, <1>3, <2>1, Zenon DEF Passed, Sent
<1>15. Returned(g, f)'
  <2>1. dec'.state = x /\ dec'.bytes = b /\ dec'.raw = frame.raw
    <3>1. SubSeq(frame.bytes, STATE_BYTES + 1, Len(frame.bytes)) = b
      BY <1>7, <1>9, <1>10, Zenon
    <3> QED
      BY <1>1, <1>11, <3>1
  <2> QED
    BY <1>1, <1>4, <1>6, <1>12, <1>13, <2>1, Zenon DEF Returned
<1>16. /\ Table(freqs') /\ list' \in Seq(Values) /\ Len(list') <= MAX_RESIDUALS
       /\ residuals' \in Seq(Values) /\ Len(residuals') <= Len(list')
       /\ \A i \in 1 .. Len(residuals') : residuals'[i] = list'[i]
       /\ frame' \in [bytes : Seq(Byte), raw : Seq(Bit)]
  BY <1>1, <1>2 DEF Meeting
<1> QED
  BY <1>1, <1>14, <1>15, <1>16 DEF Meeting

\* One step of the decoder takes back one of the encoder.
LEMMA GetMeeting ==
    ASSUME Meeting, Entropy!Get
    PROVE  Meeting'
<1>1. /\ phase = "decoding" /\ Len(residuals) < Len(list)
      /\ freqs' = freqs /\ list' = list /\ phase' = phase /\ enc' = enc /\ put' = put
      /\ frame' = frame
  BY DEF Entropy!Get
<1>2. /\ Table(freqs) /\ list \in Seq(Values) /\ Len(list) <= MAX_RESIDUALS
      /\ residuals \in Seq(Values) /\ \A i \in 1 .. Len(residuals) : residuals[i] = list[i]
      /\ frame \in [bytes : Seq(Byte), raw : Seq(Bit)]
  BY DEF Meeting
<1>3. PICK g, f : Passed(g, f) /\ Sent(g, f) /\ Returned(g, f)
  BY <1>1 DEF Meeting
<1>4. PICK n \in Nat, r \in Nat : n = Len(list) /\ r = Len(residuals) /\ r < n
  BY <1>1, <1>2
<1>5. Chain(freqs, list, g) /\ Gathered(list, f)
  BY <1>3, Zenon DEF Passed
<1>6. PICK i \in 1 .. n : i = r + 1 /\ i - 1 = r /\ n + 1 - (n - r) = i
  <2>1. r + 1 \in 1 .. n /\ (r + 1) - 1 = r /\ n + 1 - (n - r) = r + 1
    BY <1>4
  <2> QED
    BY <2>1, Zenon
<1>7. PICK v \in Values : v = list[i] /\ v \in Coding!Int64
  BY <1>2, <1>4, OffsetType
<1>8. PICK c \in Coder, d \in Coder : c = g[n - i] /\ d = g[n - r] /\ d = Coded(freqs, c, v)
  <2>1. n - r \in 1 .. n /\ n - r \in 0 .. n /\ (n - r) - 1 = n - i /\ n - i \in 0 .. n
    BY <1>4, <1>6
  <2>2. g[n - r] \in Coder /\ g[n - i] \in Coder
    BY <1>4, <1>5, <2>1, Zenon DEF Chain
  <2>3. g[n - r] = Coded(freqs, g[n - i], v)
    BY <1>4, <1>5, <1>6, <1>7, <2>1, Zenon DEF Chain
  <2> QED
    BY <2>2, <2>3, Zenon
<1>9. GivenBack(freqs, c, v, d)
  <2>1. PICK table : table = freqs
    OBVIOUS
  <2> QED
    BY <1>2, <1>7, <1>8, <2>1, CodedBack
<1>10. PICK s, word : s = Entropy!Symbol(Entropy!ZigZag(v)) /\ word = Entropy!Offset(v)
  OBVIOUS
<1>11. /\ s \in Entropy!Symbols /\ BitsOf(s) \in Nat
       /\ word \in Seq(Bit) /\ Len(word) = BitsOf(s) /\ Entropy!Residual(s, word) = v
  BY <1>7, <1>10, OffsetIs
<1>12. /\ dec.state = d.state /\ dec.bytes = d.buf /\ dec.raw = Rest(frame.raw, Len(f[r]))
  BY <1>3, <1>4, <1>8, Zenon DEF Returned
<1>13. PICK cum, x, m : /\ cum = d.state % PRECISION
                       /\ x = freqs[s] * (d.state \div PRECISION) + cum - Entropy!Start(freqs, s)
                       /\ m = Entropy!Missing(x, d.buf)
  OBVIOUS
<1>14. /\ SymbolIn(freqs, cum) = s
       /\ Entropy!Pull(x, m, d.buf) = c.state
       /\ SubSeq(d.buf, m + 1, Len(d.buf)) = c.buf
  BY <1>9, <1>10, <1>13, Zenon DEF GivenBack
<1>15. Entropy!SymbolAt(cum) = s
  BY <1>14, Zenon DEF SymbolIn, Entropy!SymbolAt
<1>16. PICK b \in Nat : b = BitsOf(s) /\ b = IF s = Entropy!Escape THEN 2 * LIMB ELSE OffsetBits[s]
  <2>1. LIMB + LIMB = 2 * LIMB
    BY WordSizes
  <2> QED
    BY <1>11, <2>1, Zenon DEF BitsOf
<1>17. /\ dec' = [ state |-> Entropy!Pull(x, m, dec.bytes),
                   bytes |-> SubSeq(dec.bytes, m + 1, Len(dec.bytes)),
                   raw   |-> SubSeq(dec.raw, b + 1, Len(dec.raw)) ]
       /\ residuals' = Append(residuals, Entropy!Residual(s, SubSeq(dec.raw, 1, b)))
  BY <1>12, <1>13, <1>15, <1>16, Zenon DEF Entropy!Get
<1>18. PICK raw \in Seq(Bit) : raw = frame.raw
  BY <1>2
<1>19. PICK p \in Nat : p = Len(f[r]) /\ Len(f[i]) = p + b /\ p + b <= Len(raw)
          /\ \A j \in 1 .. b : raw[p + j] = word[j]
  <2>1. /\ Len(f[r]) \in Nat /\ Len(f[n]) \in Nat
        /\ Len(f[i]) = Len(f[r]) + b /\ Len(f[i]) <= Len(f[n])
        /\ \A j \in 1 .. b : f[n][Len(f[r]) + j] = word[j]
    <3>1. PICK these \in Seq(Values) : these = list /\ Gathered(these, f) /\ n = Len(these)
      BY <1>2, <1>4, <1>5
    <3>2. Within(these, f, n, i)
      BY <3>1, OffsetWithin
    <3>3. Entropy!Offset(these[i]) = word /\ Len(word) = b /\ i - 1 = r
      BY <1>6, <1>7, <1>10, <1>11, <1>16, <3>1, Zenon
    <3> QED
      BY <3>2, <3>3, Zenon DEF Within
  <2>2. Len(f[n]) <= Len(raw) /\ \A j \in 1 .. Len(f[n]) : raw[j] = f[n][j]
    BY <1>3, <1>4, <1>18, Zenon DEF Sent
  <2>3. PICK p \in Nat : p = Len(f[r])
    BY <2>1, Zenon
  <2>4. PICK l \in Nat : l = Len(f[n]) /\ p + b <= l
    BY <2>1, <2>3, Zenon
  <2>5. PICK z \in Nat : z = Len(raw) /\ l <= z
    BY <2>2, <2>4
  <2>6. ASSUME NEW j \in 1 .. b PROVE raw[p + j] = word[j]
    <3>1. p + j \in 1 .. l
      BY <2>4
    <3> QED
      BY <2>1, <2>2, <2>3, <2>4, <3>1, Zenon
  <2>7. p + b <= z
    BY <2>4, <2>5
  <2> QED
    BY <2>1, <2>3, <2>5, <2>6, <2>7, Zenon
<1>20. /\ SubSeq(dec.raw, 1, b) = word
       /\ SubSeq(dec.raw, b + 1, Len(dec.raw)) = Rest(raw, p + b)
  <2>1. /\ SubSeq(Rest(raw, p), 1, b) \in Seq(Bit) /\ Len(SubSeq(Rest(raw, p), 1, b)) = b
        /\ \A j \in 1 .. b : SubSeq(Rest(raw, p), 1, b)[j] = raw[p + j]
        /\ SubSeq(Rest(raw, p), b + 1, Len(Rest(raw, p))) = Rest(raw, p + b)
    <3>1. p + b <= Len(raw)
      BY <1>19, Zenon
    <3> QED
      BY <3>1, RestOfRest, Zenon
  <2>2. PICK y \in Seq(Bit) : y = SubSeq(Rest(raw, p), 1, b)
    BY <2>1, Zenon
  <2>3. Len(y) = b /\ \A j \in 1 .. b : y[j] = word[j]
    BY <1>19, <2>1, <2>2, Zenon
  <2>4. Len(word) = b /\ word \in Seq(Bit)
    BY <1>11, <1>16, Zenon
  <2>5. y = word
    BY <2>3, <2>4, SeqEqual
  <2>6. dec.raw = Rest(raw, p)
    BY <1>12, <1>18, <1>19, Zenon
  <2> QED
    BY <2>1, <2>2, <2>5, <2>6, Zenon
<1>21. residuals' = Append(residuals, v) /\ dec'.state = c.state /\ dec'.bytes = c.buf
       /\ dec'.raw = Rest(raw, p + b)
  <2>1. residuals' = Append(residuals, v)
    BY <1>11, <1>17, <1>20, Zenon
  <2> QED
    BY <1>12, <1>14, <1>17, <1>20, <2>1
<1>22. PICK u : u = Append(residuals, v)
  OBVIOUS
<1>23. /\ u \in Seq(Values) /\ Len(u) = i /\ \A j \in 1 .. i : u[j] = list[j]
  <2>1. /\ u \in Seq(Values) /\ Len(u) = r + 1
        /\ \A j \in 1 .. r : u[j] = residuals[j]
        /\ u[r + 1] = v
    <3>1. PICK old \in Seq(Values) : old = residuals /\ r = Len(old)
      BY <1>2, <1>4
    <3>2. /\ Append(old, v) \in Seq(Values) /\ Len(Append(old, v)) = Len(old) + 1
          /\ \A j \in 1 .. Len(old) : Append(old, v)[j] = old[j]
          /\ Append(old, v)[Len(old) + 1] = v
      BY Appended
    <3> QED
      BY <1>22, <3>1, <3>2, Zenon
  <2>2. ASSUME NEW j \in 1 .. i PROVE u[j] = list[j]
    <3>1. CASE j = i
      BY <1>6, <1>7, <2>1, <3>1
    <3>2. CASE j # i
      <4>1. j \in 1 .. r
        BY <1>6, <3>2
      <4> QED
        BY <1>2, <1>4, <2>1, <4>1, Zenon
    <3> QED
      BY <3>1, <3>2
  <2> QED
    BY <1>6, <2>1, <2>2
<1>24. Passed(g, f)' /\ Sent(g, f)'
  BY <1>1, <1>3, Zenon DEF Passed, Sent
<1>25. Returned(g, f)'
  <2>1. Len(residuals') = i /\ Len(list') = n
    BY <1>1, <1>4, <1>21, <1>22, <1>23, Zenon
  <2>2. dec'.raw = Rest(frame'.raw, Len(f[i]))
    BY <1>1, <1>18, <1>19, <1>21, Zenon
  <2> QED
    BY <1>8, <1>21, <2>1, <2>2, Zenon DEF Returned
<1>26. /\ residuals' \in Seq(Values) /\ Len(residuals') <= Len(list')
       /\ \A j \in 1 .. Len(residuals') : residuals'[j] = list'[j]
  <2>1. residuals' = u /\ Len(list') = n /\ i <= n
    BY <1>1, <1>4, <1>21, <1>22
  <2> QED
    BY <1>1, <1>23, <2>1, Zenon
<1>27. phase' = "decoding" /\ Table(freqs') /\ list' \in Seq(Values) /\ Len(list') <= MAX_RESIDUALS
       /\ frame' \in [bytes : Seq(Byte), raw : Seq(Bit)]
  BY <1>1, <1>2
<1> QED
  BY <1>24, <1>25, <1>26, <1>27 DEF Meeting

\* Every step keeps encoder and decoder on one chain.
LEMMA NextMeeting ==
    ASSUME Meeting, Entropy!Next
    PROVE  Meeting'
<1>1. ASSUME NEW v \in Values, Entropy!Add(v) PROVE Meeting'
  BY <1>1, AddMeeting
<1> QED
  BY <1>1, PutOffsetsMeeting, PutMeeting, FinishMeeting, OpenMeeting, GetMeeting, Zenon DEF Entropy!Next

\* What the chain says of the states: they are between their bounds.
LEMMA MeetingType == Meeting => Entropy!TypeOK
<1> SUFFICES ASSUME Meeting PROVE Entropy!TypeOK
  OBVIOUS
<1>1. /\ Table(freqs) /\ Len(list) <= MAX_RESIDUALS /\ Len(residuals) <= Len(list)
      /\ frame \in [bytes : Seq(Byte), raw : Seq(Bit)]
  BY DEF Meeting
<1>2. enc.state \in State
  <2>1. PICK g, f : Passed(g, f)
    BY DEF Meeting
  <2> QED
    BY <2>1 DEF Passed
<1>3. Entropy!Total(freqs) = PRECISION /\ \A s \in Entropy!Symbols : freqs[s] >= 1
  BY <1>1 DEF Table
<1>4. enc.state >= RANS_L /\ enc.state < RANS_L * BYTE
  <2>1. PICK l \in Nat, x \in Nat : l = RANS_L /\ x = enc.state /\ l <= x
    BY <1>2, StateType, Interval
  <2>2. enc.state < RANS_L * BYTE
    BY <1>2, StateType
  <2> QED
    BY <2>1, <2>2
<1>5. \A i \in DOMAIN frame.bytes : frame.bytes[i] \in 0 .. BYTE - 1
  <2>1. PICK bytes \in Seq(Byte) : bytes = frame.bytes
    BY <1>1
  <2>2. \A i \in DOMAIN bytes : bytes[i] \in Byte
    OBVIOUS
  <2> QED
    BY <2>1, <2>2, Zenon DEF Byte
<1> QED
  BY <1>1, <1>3, <1>4, <1>5 DEF Entropy!TypeOK

\* The decoder is where the encoder has been.
LEMMA MeetingTrip == Meeting => Entropy!RoundTrip
<1> SUFFICES ASSUME Meeting PROVE Entropy!RoundTrip
  OBVIOUS
<1>1. /\ list \in Seq(Values) /\ residuals \in Seq(Values) /\ Len(residuals) <= Len(list)
      /\ \A i \in 1 .. Len(residuals) : residuals[i] = list[i]
  BY DEF Meeting
<1>2. PICK n \in Nat, r \in Nat : n = Len(list) /\ r = Len(residuals) /\ r <= n
  BY <1>1
<1>3. DOMAIN residuals = 1 .. Len(residuals)
  BY <1>1
<1>4. ASSUME phase = "decoding"
      PROVE  dec.state = put[r + 1] /\ (r = n => dec.bytes = << >>)
  <2>1. PICK g, f : Passed(g, f) /\ Sent(g, f) /\ Returned(g, f)
    BY <1>4 DEF Meeting
  <2>2. Len(put) = n + 1 /\ dec.state = g[n - r].state /\ dec.bytes = g[n - r].buf
    BY <1>2, <2>1, Zenon DEF Sent, Returned
  <2>3. r + 1 \in 1 .. n + 1 /\ (n + 1) - (r + 1) = n - r /\ (r = n => n - r = 0)
    BY <1>2
  <2>4. put[r + 1] = g[(n + 1) - (r + 1)].state
    BY <2>1, <2>2, <2>3, Zenon DEF Passed
  <2>5. g[0].buf = << >>
    <3>1. g[0] = [state |-> RANS_L, buf |-> << >>]
      BY <2>1, Zenon DEF Passed, Chain
    <3> QED
      BY <3>1
  <2> QED
    BY <2>2, <2>3, <2>4, <2>5
<1> QED
  BY <1>1, <1>2, <1>3, <1>4 DEF Entropy!RoundTrip

\* The coder that runs, if it does.
Coupled == layer = "rans" => Meeting

\* It runs from its start on.
LEMMA InitCoupled == Init => Coupled
  BY InitMeeting DEF Init, Coupled

\* No part of Meeting is about anything but the entropy coder.
LEMMA EntropyUnmoved ==
    ASSUME Meeting, UNCHANGED entropy
    PROVE  Meeting'
<1>1. /\ freqs' = freqs /\ list' = list /\ phase' = phase /\ enc' = enc /\ put' = put
      /\ frame' = frame /\ dec' = dec /\ residuals' = residuals
  BY DEF entropy
<1>2. PICK g, f : /\ Passed(g, f)
                  /\ phase \in {"sent", "decoding"} => Sent(g, f)
                  /\ phase = "decoding" => Returned(g, f)
  BY DEF Meeting
<1>3. Passed(g, f)'
  BY <1>1, <1>2, Zenon DEF Passed
<1>4. (phase \in {"sent", "decoding"})' => Sent(g, f)'
  BY <1>1, <1>2, Zenon DEF Sent
<1>5. (phase = "decoding")' => Returned(g, f)'
  BY <1>1, <1>2, Zenon DEF Returned
<1> QED
  BY <1>1, <1>3, <1>4, <1>5 DEF Meeting

\* The other layers leave it alone.
LEMMA NextCoupled ==
    ASSUME Coupled, [Next]_vars
    PROVE  Coupled'
<1>1. layer' = layer
  BY DEF Next, vars
<1>2. CASE layer = "rans"
  <2>1. Meeting
    BY <1>2 DEF Coupled
  <2>2. Entropy!Next \/ UNCHANGED entropy
    BY <1>2 DEF Next, vars
  <2>3. Meeting'
    BY <2>1, <2>2, NextMeeting, EntropyUnmoved
  <2> QED
    BY <2>3 DEF Coupled
<1>3. CASE layer # "rans"
  BY <1>1, <1>3 DEF Coupled
<1> QED
  BY <1>2, <1>3

\* rans_decode_residuals returns what rans_encode_residuals was given, and
\* takes the states of the encoder backwards (RansRoundTrip), whatever the
\* table was trained with.
THEOREM ResidualsComeBack == Spec => []RansRoundTrip
<1>1. Coupled /\ [Next]_vars => Coupled'
  BY NextCoupled
<1>2. Coupled => RansRoundTrip
  BY MeetingTrip DEF Coupled, RansRoundTrip
<1> QED
  BY <1>1, <1>2, InitCoupled, PTL DEF Spec

\* What the readers have loaded is typed.
LEMMA HoldingType == Holding => Reading!TypeOK
<1> SUFFICES ASSUME Holding PROVE Reading!TypeOK
  OBVIOUS
<1>1. Holds(slow_reader) /\ Holds(fast_reader) /\ ByteCount \in Nat
  BY DEF Holding, Given
<1> QED
  BY <1>1 DEF Holds, Reading!TypeOK, Reading!Reader, Reading!len_bytes, ByteCount

\* Accumulators, positions and states of all layers stay within their bounds,
\* and every rANS table is full (TypeOK).
THEOREM LayersAreTyped ==
    ASSUME Fits
    PROVE  Spec => []TypeOK
<1>1. Coupled /\ [Next]_vars => Coupled'
  BY NextCoupled
<1>2. Keeping /\ [Next]_vars => Keeping'
  BY NextKeeping
<1>3. Filling /\ [Next]_vars => Filling'
  BY NextFilling
<1>4. Holding /\ [Next]_vars => Holding'
  BY NextHolding
<1>5. Coupled /\ Keeping /\ Filling /\ Holding => TypeOK
  BY MeetingType, HoldingType DEF Coupled, Keeping, Filling, TypeOK
<1> QED
  BY <1>1, <1>2, <1>3, <1>4, <1>5, InitCoupled, StartKeeping, InitFilling, InitHolding, PTL DEF Spec
===============================================================================
