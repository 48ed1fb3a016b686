--------------------------- MODULE RankSortProofs ---------------------------
(***************************************************************************)
(* The insertion sort of mfu_rebuild_ranks is right for every table size   *)
(* and every choice of counts.                                             *)
(*                                                                         *)
(* The loops work in place, so the array is looked at with the element     *)
(* that is out put back into the gap (Ranks).  Read that way it is a       *)
(* permutation at every step, sorted below the frontier of the outer loop  *)
(* but for the gap, and not yet touched from there on.                     *)
(***************************************************************************)
EXTENDS RankSort, CodecLemmas

\* Slot x belongs before slot y.
Precedes(x, y) == count[x] > count[y] \/ (count[x] = count[y] /\ x < y)

Ranks == IF pc = "shift" THEN [rank_to_idx EXCEPT ![j + 1] = tmp] ELSE rank_to_idx

\* The first rank that the sort has not looked at, and the rank of the gap.
Frontier == CASE pc = "outer" -> IF i <= n THEN i ELSE n
              [] pc = "shift" -> i + 1
              [] OTHER        -> n
Gap      == IF pc = "shift" THEN j + 1 ELSE -1

Permuted  == \A a, b \in Slots : a # b => Ranks[a] # Ranks[b]
Untouched == \A r \in Slots : r >= Frontier => Ranks[r] = r
Sorted    ==
    \A a, b \in 0 .. Frontier - 1 :
        (a < b /\ a # Gap /\ b # Gap) => Precedes(Ranks[a], Ranks[b])

\* The element that is out is the one that was at the frontier, and it
\* belongs before those that have been moved for it.
Moving ==
    pc = "shift" =>
        /\ 1 <= i /\ i < n /\ j < i /\ tmp = i
        /\ \A r \in j + 2 .. i : count[Ranks[r]] < count[tmp]

Inverting ==
    /\ pc = "outer"  => i >= 1
    /\ pc = "invert" => \A r \in Slots : r < i => idx_to_rank[rank_to_idx[r]] = r
    /\ pc = "done"   => \A r \in Slots : idx_to_rank[rank_to_idx[r]] = r

Sorting == TypeOK /\ Permuted /\ Untouched /\ Sorted /\ Moving /\ Inverting

-----------------------------------------------------------------------------
\* The counts are naturals, and slots are the ranks below MFU_SIZE.
LEMMA Numbers ==
    ASSUME TypeOK
    PROVE  /\ MFU_SIZE \in Nat /\ n \in Nat /\ n <= MFU_SIZE
           /\ i \in Nat /\ i <= MFU_SIZE /\ j \in Int
           /\ \A s \in Slots : s \in Nat /\ s < MFU_SIZE /\ count[s] \in Nat
           /\ \A r \in Slots : rank_to_idx[r] \in Slots /\ idx_to_rank[r] \in Slots
           /\ \A s \in Nat : s < MFU_SIZE => s \in Slots
<1>1. /\ MFU_SIZE \in Nat /\ n \in Nat /\ n <= MFU_SIZE
      /\ i \in Nat /\ i <= MFU_SIZE /\ j \in Int
  BY Sizes DEF TypeOK
<1>2. \A s \in Slots : s \in Nat /\ s < MFU_SIZE
  BY Sizes DEF Slots
<1>3. \A s \in Slots : count[s] \in Nat
  BY Sizes DEF TypeOK, Count
<1>4. \A r \in Slots : rank_to_idx[r] \in Slots /\ idx_to_rank[r] \in Slots
  BY DEF TypeOK
<1>5. \A s \in Nat : s < MFU_SIZE => s \in Slots
  BY Sizes DEF Slots
<1> QED
  BY <1>1, <1>2, <1>3, <1>4, <1>5

\* The invariant holds at the start.
LEMMA InitSorting == Init => Sorting
<1> SUFFICES ASSUME Init PROVE Sorting
  OBVIOUS
<1>1. TypeOK
  <2>1. (0 .. MAX_COUNT) \cap Count \subseteq Count
    OBVIOUS
  <2>2. count \in [Slots -> Count] /\ n \in 0 .. MFU_SIZE
    BY <2>1 DEF Init
  <2>3. rank_to_idx \in [Slots -> Slots]
    BY DEF Init
  <2>4. \A s \in Slots : MFU_SIZE - 1 - s \in Slots
    BY Sizes DEF Slots
  <2>5. idx_to_rank \in [Slots -> Slots]
    BY <2>4 DEF Init
  <2>6. /\ i \in 0 .. MFU_SIZE /\ j \in -1 .. MFU_SIZE - 1 /\ tmp \in Slots
        /\ pc \in {"outer", "shift", "invert", "done"}
    BY Sizes DEF Init, Slots
  <2> QED
    BY <2>2, <2>3, <2>5, <2>6 DEF TypeOK
<1>2. Ranks = [r \in Slots |-> r] /\ Frontier \in {0, 1}
  BY Sizes DEF Init, Ranks, Frontier
<1>3. Permuted /\ Untouched
  BY <1>2 DEF Permuted, Untouched
<1>4. Sorted
  BY <1>2 DEF Sorted
<1>5. Moving /\ Inverting
  BY DEF Init, Moving, Inverting
<1> QED
  BY <1>1, <1>3, <1>4, <1>5 DEF Sorting

\* Taking up the next slot keeps it.
LEMMA OuterSorting ==
    ASSUME Sorting, Outer
    PROVE  Sorting'
<1>1. pc = "outer" /\ UNCHANGED <<count, n, rank_to_idx, idx_to_rank>> /\ TypeOK
  BY DEF Outer, Sorting
<1>2. CASE i < n
  <2>1. /\ pc' = "shift" /\ tmp' = rank_to_idx[i] /\ j' = i - 1 /\ i' = i
        /\ i \in Slots /\ i >= 1
    BY <1>1, <1>2, Numbers DEF Outer, Sorting, Inverting
  <2>2. rank_to_idx[i] = i /\ Frontier = i
    BY <1>1, <1>2, <2>1, Numbers DEF Sorting, Untouched, Ranks, Frontier
  <2>3. TypeOK'
    BY <1>1, <2>1, <2>2, Numbers DEF TypeOK
  <2>4. Ranks' = Ranks
    <3>1. j' + 1 = i
      BY <1>1, <2>1, Numbers
    <3>2. [rank_to_idx EXCEPT ![i] = rank_to_idx[i]] = rank_to_idx
      BY <1>1 DEF TypeOK
    <3> QED
      BY <1>1, <2>1, <3>1, <3>2 DEF Ranks
  <2>5. Frontier' = i + 1 /\ Gap' = i /\ Gap = -1
    BY <1>1, <2>1, Numbers DEF Frontier, Gap
  <2>6. Permuted'
    BY <2>4 DEF Sorting, Permuted
  <2>7. Untouched'
    BY <1>1, <2>2, <2>4, <2>5, Numbers DEF Sorting, Untouched
  <2>8. Sorted'
    <3> SUFFICES ASSUME NEW a \in 0 .. i, NEW b \in 0 .. i, a < b, a # i, b # i
                 PROVE  Precedes(Ranks[a], Ranks[b])
      BY <1>1, <2>1, <2>4, <2>5, Numbers DEF Sorted, Precedes
    <3>1. a \in 0 .. i - 1 /\ b \in 0 .. i - 1 /\ a # -1 /\ b # -1
      BY <1>1, Numbers
    <3> QED
      BY <2>2, <2>5, <3>1 DEF Sorting, Sorted
  <2>9. Moving'
    <3>1. 1 <= i /\ i < n /\ i - 1 < i
      BY <1>1, <1>2, <2>1, Numbers
    <3>2. \A r \in j' + 2 .. i : FALSE
      BY <1>1, <2>1, Numbers
    <3> QED
      BY <1>1, <2>1, <2>2, <3>1, <3>2 DEF Moving
  <2>10. Inverting'
    BY <2>1 DEF Inverting
  <2> QED
    BY <2>3, <2>6, <2>7, <2>8, <2>9, <2>10 DEF Sorting
<1>3. CASE ~(i < n)
  <2>1. pc' = "invert" /\ i' = 0 /\ UNCHANGED <<tmp, j>>
    BY <1>1, <1>3 DEF Outer
  <2>2. Ranks' = Ranks /\ Frontier' = Frontier /\ Gap' = Gap
    BY <1>1, <1>3, <2>1, Numbers DEF Ranks, Frontier, Gap
  <2>3. TypeOK'
    BY <1>1, <2>1, Numbers DEF TypeOK
  <2>4. Permuted' /\ Untouched'
    BY <2>2 DEF Sorting, Permuted, Untouched
  <2>5. Sorted'
    BY <1>1, <2>2 DEF Sorting, Sorted, Precedes
  <2>6. Moving' /\ Inverting'
    BY <1>1, <2>1, Numbers DEF Moving, Inverting
  <2> QED
    BY <2>3, <2>4, <2>5, <2>6 DEF Sorting
<1> QED
  BY <1>2, <1>3

\* What the state looks like while an element is out.
LEMMA WhileMoving ==
    ASSUME Sorting, pc = "shift"
    PROVE  /\ i \in Slots /\ 1 <= i /\ i < n /\ j + 1 \in Slots /\ j + 1 <= i
           /\ tmp = i
           /\ Frontier = i + 1 /\ Gap = j + 1
           /\ Ranks \in [Slots -> Slots]
           /\ \A r \in Slots : Ranks[r] = IF r = j + 1 THEN tmp ELSE rank_to_idx[r]
           /\ \A r \in 0 .. i : r \in Slots /\ (r # j + 1 => Ranks[r] < i)
<1>1. TypeOK /\ 1 <= i /\ i < n /\ j < i /\ tmp = i
  BY DEF Sorting, Moving
<1>2. i \in Slots /\ j + 1 \in Slots /\ j + 1 <= i /\ tmp \in Slots
  <2>1. j >= -1
    BY <1>1 DEF TypeOK
  <2> QED
    BY <1>1, <2>1, Numbers
<1>3. Frontier = i + 1 /\ Gap = j + 1
  BY DEF Frontier, Gap
<1>4. /\ Ranks \in [Slots -> Slots]
      /\ \A r \in Slots : Ranks[r] = IF r = j + 1 THEN tmp ELSE rank_to_idx[r]
  BY <1>1, <1>2 DEF Ranks, TypeOK
<1>5. ASSUME NEW r \in 0 .. i PROVE r \in Slots /\ (r # j + 1 => Ranks[r] < i)
  <2>1. r \in Slots /\ r \in Nat /\ r <= i
    BY <1>1, <1>2, Numbers
  <2>2. Ranks[r] \in Slots /\ Ranks[r] \in Nat /\ i \in Nat
    BY <1>1, <1>4, <2>1, Numbers
  <2>3. Ranks[r] >= i + 1 => Ranks[Ranks[r]] = Ranks[r]
    BY <1>3, <2>2 DEF Sorting, Untouched
  <2>4. Ranks[r] >= i + 1 => r = Ranks[r]
    BY <2>1, <2>2, <2>3 DEF Sorting, Permuted
  <2>5. r # j + 1 => Ranks[r] # i
    BY <1>1, <1>2, <1>4, <2>1 DEF Sorting, Permuted
  <2> QED
    BY <2>1, <2>2, <2>4, <2>5
<1> QED
  BY <1>1, <1>2, <1>3, <1>4, <1>5

\* Moving a slot up by one keeps it.
LEMMA MoveSorting ==
    ASSUME Sorting, Shift, j >= 0, count[rank_to_idx[j]] < count[tmp]
    PROVE  Sorting'
<1>1. /\ pc = "shift" /\ pc' = "shift" /\ i' = i /\ j' = j - 1 /\ tmp' = tmp
      /\ rank_to_idx' = [rank_to_idx EXCEPT ![j + 1] = rank_to_idx[j]]
      /\ UNCHANGED <<count, n, idx_to_rank>> /\ TypeOK
  BY DEF Shift, Sorting
<1>2. /\ i \in Slots /\ 1 <= i /\ i < n /\ j + 1 \in Slots /\ j + 1 <= i
      /\ tmp = i
      /\ Frontier = i + 1 /\ Gap = j + 1
      /\ Ranks \in [Slots -> Slots]
      /\ \A r \in Slots : Ranks[r] = IF r = j + 1 THEN tmp ELSE rank_to_idx[r]
      /\ \A r \in 0 .. i : r \in Slots /\ (r # j + 1 => Ranks[r] < i)
  BY <1>1, WhileMoving
<1>3. j \in Slots /\ j \in Nat /\ i \in Nat /\ j < i
  BY <1>1, <1>2, Numbers
<1>4. TypeOK'
  BY <1>1, <1>2, <1>3, Numbers DEF TypeOK
<1>5. /\ Ranks' \in [Slots -> Slots]
      /\ Ranks'[j] = i /\ Ranks'[j + 1] = Ranks[j] /\ Ranks[j + 1] = i
      /\ \A r \in Slots : r # j /\ r # j + 1 => Ranks'[r] = Ranks[r]
  <2>1. rank_to_idx' \in [Slots -> Slots] /\ (j - 1) + 1 = j
    BY <1>3, <1>4 DEF TypeOK
  <2>2. Ranks' = [rank_to_idx' EXCEPT ![j] = tmp]
    BY <1>1, <2>1 DEF Ranks
  <2>3. \A r \in Slots : rank_to_idx'[r] = IF r = j + 1 THEN rank_to_idx[j] ELSE rank_to_idx[r]
    BY <1>1 DEF TypeOK
  <2>4. \A r \in Slots : Ranks'[r] = IF r = j THEN tmp ELSE rank_to_idx'[r]
    BY <2>1, <2>2
  <2>5. Ranks' \in [Slots -> Slots]
    BY <1>2, <2>1, <2>2
  <2> QED
    BY <1>2, <1>3, <2>3, <2>4, <2>5
<1>6. Frontier' = i + 1 /\ Gap' = j
  BY <1>1, <1>3 DEF Frontier, Gap
<1>7. Permuted'
  BY <1>2, <1>3, <1>5 DEF Sorting, Permuted
<1>8. Untouched'
  BY <1>2, <1>3, <1>5, <1>6, Numbers, <1>1 DEF Sorting, Untouched
<1>9. Sorted'
  <2> SUFFICES ASSUME NEW a \in 0 .. i, NEW b \in 0 .. i, a < b, a # j, b # j
               PROVE  Precedes(Ranks'[a], Ranks'[b])
    BY <1>1, <1>3, <1>6 DEF Sorted, Precedes
  <2>0. \A c, d \in 0 .. i : c < d /\ c # j + 1 /\ d # j + 1 => Precedes(Ranks[c], Ranks[d])
    <3>1. Frontier - 1 = i
      BY <1>2, <1>3
    <3> QED
      BY <1>2, <3>1 DEF Sorting, Sorted
  <2>1. a \in Slots /\ b \in Slots /\ a \in Nat /\ b \in Nat /\ j \in 0 .. i
    BY <1>2, <1>3
  <2>2. CASE a = j + 1
    <3>1. j < b /\ b # j + 1
      BY <1>3, <2>1, <2>2
    <3> QED
      BY <1>5, <2>0, <2>1, <2>2, <3>1
  <2>3. CASE b = j + 1
    <3>1. a < j /\ a # j + 1
      BY <1>3, <2>1, <2>3
    <3> QED
      BY <1>3, <1>5, <2>0, <2>1, <2>3, <3>1
  <2>4. CASE a # j + 1 /\ b # j + 1
    BY <1>5, <2>0, <2>1, <2>4
  <2> QED
    BY <2>2, <2>3, <2>4
<1>10. Moving'
  <2>1. ASSUME NEW r \in j' + 2 .. i PROVE count[Ranks'[r]] < count[tmp]
    <3>1. r \in j + 1 .. i /\ r \in Slots
      BY <1>1, <1>2, <1>3
    <3>2. CASE r = j + 1
      <4>1. Ranks[j] = rank_to_idx[j]
        BY <1>2, <1>3
      <4> QED
        BY <1>5, <3>2, <4>1
    <3>3. CASE r # j + 1
      <4>1. r \in j + 2 .. i /\ r # j
        BY <1>3, <3>1, <3>3
      <4> QED
        BY <1>1, <1>5, <3>1, <3>3, <4>1 DEF Sorting, Moving
    <3> QED
      BY <3>2, <3>3
  <2>2. j - 1 < i
    BY <1>3
  <2> QED
    BY <1>1, <1>2, <2>1, <2>2 DEF Moving
<1>11. Inverting'
  BY <1>1 DEF Inverting
<1> QED
  BY <1>4, <1>7, <1>8, <1>9, <1>10, <1>11 DEF Sorting

\* Putting the slot into its place keeps it.
LEMMA PutSorting ==
    ASSUME Sorting, Shift, ~(j >= 0 /\ count[rank_to_idx[j]] < count[tmp])
    PROVE  Sorting'
<1>1. /\ pc = "shift" /\ pc' = "outer" /\ i' = i + 1 /\ j' = j /\ tmp' = tmp
      /\ rank_to_idx' = [rank_to_idx EXCEPT ![j + 1] = tmp]
      /\ UNCHANGED <<count, n, idx_to_rank>> /\ TypeOK
  BY DEF Shift, Sorting
<1>2. /\ i \in Slots /\ 1 <= i /\ i < n /\ j + 1 \in Slots /\ j + 1 <= i
      /\ tmp = i
      /\ Frontier = i + 1 /\ Gap = j + 1
      /\ Ranks \in [Slots -> Slots]
      /\ \A r \in Slots : Ranks[r] = IF r = j + 1 THEN tmp ELSE rank_to_idx[r]
      /\ \A r \in 0 .. i : r \in Slots /\ (r # j + 1 => Ranks[r] < i)
  BY <1>1, WhileMoving
<1>3. i \in Nat /\ n \in Nat /\ j \in Int /\ i + 1 <= n
  BY <1>1, <1>2, Numbers
<1>4. Ranks' = Ranks /\ Ranks = rank_to_idx'
  BY <1>1 DEF Ranks
<1>5. Frontier' = i + 1 /\ Gap' = -1
  BY <1>1, <1>3 DEF Frontier, Gap
<1>6. TypeOK'
  BY <1>1, <1>2, <1>3, <1>4, Numbers DEF TypeOK
<1>7. Permuted'
  BY <1>4 DEF Sorting, Permuted
<1>8. Untouched'
  BY <1>2, <1>4, <1>5 DEF Sorting, Untouched
<1>9. Sorted'
  <2> SUFFICES ASSUME NEW a \in 0 .. i, NEW b \in 0 .. i, a < b
               PROVE  Precedes(Ranks[a], Ranks[b])
    BY <1>1, <1>3, <1>4, <1>5 DEF Sorted, Precedes
  <2>0. \A c, d \in 0 .. i : c < d /\ c # j + 1 /\ d # j + 1 => Precedes(Ranks[c], Ranks[d])
    <3>1. Frontier - 1 = i
      BY <1>2, <1>3
    <3> QED
      BY <1>2, <3>1 DEF Sorting, Sorted
  <2>1. /\ a \in Slots /\ b \in Slots /\ a \in Nat /\ b \in Nat
        /\ Ranks[a] \in Slots /\ Ranks[b] \in Slots /\ i \in Slots
        /\ Ranks[j + 1] = i
    BY <1>2, <1>3
  <2>2. /\ count[Ranks[a]] \in Nat /\ count[Ranks[b]] \in Nat /\ count[i] \in Nat
        /\ Ranks[a] \in Nat /\ Ranks[b] \in Nat
    BY <1>1, <2>1, Numbers
  <2>3. CASE a = j + 1
    <3>1. b \in j + 2 .. i
      BY <1>3, <2>1, <2>3
    <3>2. count[Ranks[b]] < count[i]
      BY <1>1, <1>2, <3>1 DEF Sorting, Moving
    <3> QED
      BY <2>1, <2>2, <2>3, <3>2 DEF Precedes
  <2>4. CASE b = j + 1
    <3>1. j \in 0 .. i /\ j \in Slots /\ j # j + 1 /\ a <= j
      BY <1>2, <1>3, <2>1, <2>4
    <3>2. Ranks[j] = rank_to_idx[j] /\ Ranks[j] < i /\ Ranks[j] \in Slots
      BY <1>2, <3>1
    <3>3. count[Ranks[j]] \in Nat /\ Ranks[j] \in Nat /\ ~(count[Ranks[j]] < count[i])
      <4>1. ~(count[rank_to_idx[j]] < count[tmp])
        BY <3>1
      <4> QED
        BY <1>1, <1>2, <3>2, <4>1, Numbers
    <3>4. Precedes(Ranks[j], i)
      BY <1>3, <2>2, <3>2, <3>3 DEF Precedes
    <3>5. a = j \/ Precedes(Ranks[a], Ranks[j])
      BY <1>3, <2>0, <2>1, <3>1
    <3> QED
      BY <1>3, <2>1, <2>2, <2>4, <3>3, <3>4, <3>5 DEF Precedes
  <2>5. CASE a # j + 1 /\ b # j + 1
    BY <2>0, <2>5
  <2> QED
    BY <2>3, <2>4, <2>5
<1>10. Moving' /\ Inverting'
  BY <1>1, <1>3 DEF Moving, Inverting
<1> QED
  BY <1>6, <1>7, <1>8, <1>9, <1>10 DEF Sorting

\* Inverting the ranks keeps it.
LEMMA InvertSorting ==
    ASSUME Sorting, Invert
    PROVE  Sorting'
<1>1. pc = "invert" /\ UNCHANGED <<count, n, rank_to_idx, j, tmp>> /\ TypeOK
  BY DEF Invert, Sorting
<1>2. pc' \in {"invert", "done"}
  BY <1>1 DEF Invert
<1>3. Ranks' = Ranks /\ Frontier' = Frontier /\ Gap' = Gap /\ Ranks = rank_to_idx
  BY <1>1, <1>2 DEF Ranks, Frontier, Gap
<1>4. Permuted' /\ Untouched'
  BY <1>3 DEF Sorting, Permuted, Untouched
<1>5. Sorted'
  BY <1>1, <1>3 DEF Sorting, Sorted, Precedes
<1>6. Moving'
  BY <1>2 DEF Moving
<1>7. CASE i < MFU_SIZE
  <2>1. /\ i' = i + 1 /\ pc' = "invert" /\ i \in Slots
        /\ idx_to_rank' = [idx_to_rank EXCEPT ![rank_to_idx[i]] = i]
    BY <1>1, <1>7, Numbers DEF Invert
  <2>2. TypeOK'
    BY <1>1, <2>1, Numbers DEF TypeOK
  <2>3. ASSUME NEW r \in Slots, r < i + 1 PROVE idx_to_rank'[rank_to_idx[r]] = r
    <3>1. rank_to_idx[r] \in Slots /\ rank_to_idx[i] \in Slots
      BY <1>1, <2>1, Numbers
    <3>2. CASE r = i
      BY <1>1, <2>1, <3>1, <3>2 DEF TypeOK
    <3>3. CASE r # i
      <4>1. rank_to_idx[r] # rank_to_idx[i]
        BY <1>3, <2>1, <3>3 DEF Sorting, Permuted
      <4>2. r < i
        BY <1>1, <2>1, <2>3, <3>3, Numbers
      <4> QED
        BY <1>1, <2>1, <3>1, <4>1, <4>2 DEF TypeOK, Sorting, Inverting
    <3> QED
      BY <3>2, <3>3
  <2>4. Inverting'
    BY <1>1, <2>1, <2>3 DEF Inverting
  <2> QED
    BY <1>4, <1>5, <1>6, <2>2, <2>4 DEF Sorting
<1>8. CASE ~(i < MFU_SIZE)
  <2>1. pc' = "done" /\ UNCHANGED <<idx_to_rank, i>>
    BY <1>1, <1>8 DEF Invert
  <2>2. TypeOK'
    BY <1>1, <2>1 DEF TypeOK
  <2>3. \A r \in Slots : r < i
    BY <1>1, <1>8, Numbers
  <2>4. Inverting'
    BY <1>1, <2>1, <2>3 DEF Sorting, Inverting
  <2> QED
    BY <1>4, <1>5, <1>6, <2>2, <2>4 DEF Sorting
<1> QED
  BY <1>7, <1>8

\* Every step keeps it.
LEMMA NextSorting ==
    ASSUME Sorting, [Next]_vars
    PROVE  Sorting'
<1>1. ASSUME Shift PROVE Sorting'
  BY <1>1, MoveSorting, PutSorting
<1>2. CASE UNCHANGED vars
  BY <1>2 DEF vars, Sorting, TypeOK, Permuted, Untouched, Sorted, Moving, Inverting,
              Ranks, Frontier, Gap, Precedes
<1> QED
  BY <1>1, <1>2, OuterSorting, InvertSorting DEF Next

\* So it always holds.
LEMMA AlwaysSorting == Spec => []Sorting
BY InitSorting, NextSorting, PTL DEF Spec

\* The loop variables of mfu_rebuild_ranks index within its arrays (TypeOK).
THEOREM SortTypes == Spec => []TypeOK
<1>1. Sorting => TypeOK
  BY DEF Sorting
<1> QED
  BY <1>1, AlwaysSorting, PTL

\* While an element is out of the array no slot is lost (NoSlotLost).
THEOREM EverySlotRanked == Spec => []NoSlotLost
<1>1. ASSUME Sorting PROVE NoSlotLost
  <2>1. Ranks \in [Slots -> Slots]
    <3>1. CASE pc = "shift"
      BY <1>1, <3>1, WhileMoving
    <3>2. CASE pc # "shift"
      BY <1>1, <3>2 DEF Sorting, TypeOK, Ranks
    <3> QED
      BY <3>1, <3>2
  <2>2. \A a, b \in Slots : a # b => Ranks[a] # Ranks[b]
    BY <1>1 DEF Sorting, Permuted
  <2>3. \A s \in Slots : \E r \in Slots : Ranks[r] = s
    BY <2>1, <2>2, InjectionIsOnto
  <2>4. {Ranks[r] : r \in Slots} = Slots
    BY <2>1, <2>3
  <2> QED
    BY <2>4 DEF NoSlotLost, Ranks
<1> QED
  BY <1>1, AlwaysSorting, PTL

-----------------------------------------------------------------------------
\* The table that the function has been given, with the arrays it leaves.
Given == [ entries     |-> [s \in Slots |-> [instrument_id |-> s, count |-> count[s]]],
           num_entries |-> n,
           rank_to_idx |-> rank_to_idx,
           idx_to_rank |-> idx_to_rank ]

\* When the sort is done, the slots ahead of a used one are those of lower
\* rank.
LEMMA AheadIsBelow ==
    ASSUME Sorting, pc \in {"invert", "done"}, NEW r \in 0 .. n - 1
    PROVE  Cardinality(Ahead(Given.entries, n, rank_to_idx[r])) = r
<1> DEFINE below == 0 .. r - 1
           ahead == Ahead(Given.entries, n, rank_to_idx[r])
           f == [a \in below |-> rank_to_idx[a]]
<1>1. /\ TypeOK /\ Ranks = rank_to_idx /\ Frontier = n /\ Gap = -1
      /\ n \in Nat /\ r \in Nat /\ r < n
      /\ \A a \in 0 .. n - 1 : a \in Slots /\ a \in Nat
  BY Numbers DEF Sorting, Ranks, Frontier, Gap
<1>2. \A a \in Slots : a >= n => rank_to_idx[a] = a
  BY <1>1 DEF Sorting, Untouched
<1>3. \A a, b \in Slots : a # b => rank_to_idx[a] # rank_to_idx[b]
  BY <1>1 DEF Sorting, Permuted
<1>4. \A a \in 0 .. n - 1 : rank_to_idx[a] \in 0 .. n - 1
  <2> SUFFICES ASSUME NEW a \in 0 .. n - 1 PROVE rank_to_idx[a] \in 0 .. n - 1
    OBVIOUS
  <2>1. a \in Slots /\ a < n /\ rank_to_idx[a] \in Slots /\ rank_to_idx[a] \in Nat
    BY <1>1, Numbers
  <2>2. rank_to_idx[a] >= n => rank_to_idx[rank_to_idx[a]] = rank_to_idx[a]
    BY <1>2, <2>1
  <2>3. rank_to_idx[a] >= n => rank_to_idx[a] = a
    BY <1>3, <2>1, <2>2
  <2> QED
    BY <1>1, <2>1, <2>3
<1>5. \A s \in 0 .. n - 1 : \E a \in 0 .. n - 1 : rank_to_idx[a] = s
  <2> SUFFICES ASSUME NEW s \in 0 .. n - 1 PROVE \E a \in 0 .. n - 1 : rank_to_idx[a] = s
    OBVIOUS
  <2>1. PICK a \in Slots : rank_to_idx[a] = s
    BY <1>1, <1>3, InjectionIsOnto DEF TypeOK
  <2>2. a \in Nat /\ ~(a >= n)
    BY <1>1, <1>2, <2>1, Numbers
  <2>3. a \in 0 .. n - 1
    BY <1>1, <2>2
  <2> QED
    BY <2>1, <2>3
<1>6. \A a, b \in 0 .. n - 1 : a < b => Precedes(rank_to_idx[a], rank_to_idx[b])
  <2>1. \A a, b \in 0 .. n - 1 :
           (a < b /\ a # -1 /\ b # -1) => Precedes(rank_to_idx[a], rank_to_idx[b])
    BY <1>1 DEF Sorting, Sorted
  <2>2. \A a \in 0 .. n - 1 : a # -1
    BY <1>1
  <2> QED
    BY <2>1, <2>2
<1>7. \A x, y \in 0 .. n - 1 : Precedes(x, y) => ~Precedes(y, x)
  <2>1. \A x \in 0 .. n - 1 : count[x] \in Nat /\ x \in Nat
    BY <1>1, Numbers
  <2> QED
    BY <2>1 DEF Precedes
<1>8. ahead = {s \in 0 .. n - 1 : Precedes(s, rank_to_idx[r])}
  <2>1. \A s \in Slots : Given.entries[s].count = count[s]
    BY DEF Given
  <2>2. rank_to_idx[r] \in Slots
    BY <1>1, <1>4
  <2> HIDE DEF f
  <2> QED
    BY <1>1, <2>1, <2>2 DEF Ahead, Precedes
<1>9. ASSUME NEW a \in 0 .. n - 1 PROVE Precedes(rank_to_idx[a], rank_to_idx[r]) <=> a < r
  <2>1. a \in Nat /\ (a < r \/ a = r \/ r < a)
    BY <1>1
  <2>2. ~Precedes(rank_to_idx[r], rank_to_idx[r])
    BY <1>4, <1>7
  <2>3. a < r => Precedes(rank_to_idx[a], rank_to_idx[r])
    BY <1>6
  <2>4. r < a => ~Precedes(rank_to_idx[a], rank_to_idx[r])
    BY <1>4, <1>6, <1>7
  <2> QED
    BY <1>1, <2>1, <2>2, <2>3, <2>4
<1>10. \A a \in below : a \in 0 .. n - 1 /\ a < r /\ a \in Slots
  BY <1>1
<1>11. f \in [below -> ahead]
  <2>1. \A a \in below : rank_to_idx[a] \in ahead
    BY <1>4, <1>8, <1>9, <1>10
  <2> HIDE DEF ahead, below
  <2> QED
    BY <2>1
<1>12. \A a, b \in below : f[a] = f[b] => a = b
  BY <1>3, <1>10
<1>13. \A s \in ahead : \E a \in below : f[a] = s
  <2> SUFFICES ASSUME NEW s \in ahead PROVE \E a \in below : f[a] = s
    OBVIOUS
  <2>1. s \in 0 .. n - 1 /\ Precedes(s, rank_to_idx[r])
    BY <1>8
  <2>2. PICK a \in 0 .. n - 1 : rank_to_idx[a] = s
    BY <1>5, <2>1
  <2>3. a < r
    BY <1>9, <2>1, <2>2
  <2>4. a \in below
    BY <1>1, <2>3
  <2> QED
    BY <2>2, <2>4
<1> HIDE DEF f, ahead
<1>14. ExistsBijection(below, ahead)
  BY <1>11, <1>12, <1>13 DEF ExistsBijection, Bijection, Injection, Surjection, IsInjective
<1>15. IsFiniteSet(below) /\ Cardinality(below) = r
  BY <1>1, FS_Interval
<1> HIDE DEF below
<1>16. Cardinality(ahead) = r
  BY <1>14, <1>15, FS_Bijection
<1> QED
  BY <1>16 DEF ahead

\* When the loops end, the arrays are what RebuildRanks says (Rebuilt): the
\* operator that all other proofs about the MFU table use is what the loops
\* compute.
THEOREM SortRebuilds == Spec => []Rebuilt
<1>1. ASSUME Sorting PROVE Rebuilt
  <2> SUFFICES ASSUME pc = "done" PROVE RebuildRanks(Given) = Given
    BY DEF Rebuilt, Given
  <2> DEFINE rank == RankOf(Given.entries, n)
             inv  == [r \in Slots |-> CHOOSE s \in Slots : rank[s] = r]
  <2>1. /\ TypeOK /\ Ranks = rank_to_idx /\ Frontier = n
    BY <1>1 DEF Sorting, Ranks, Frontier
  <2>2. \A a, b \in Slots : a # b => rank_to_idx[a] # rank_to_idx[b]
    BY <1>1, <2>1 DEF Sorting, Permuted
  <2>3. \A r \in Slots : r >= n => rank_to_idx[r] = r
    BY <1>1, <2>1 DEF Sorting, Untouched
  <2>4. \A r \in Slots : idx_to_rank[rank_to_idx[r]] = r
    BY <1>1 DEF Sorting, Inverting
  <2>5. \A s \in Slots : rank_to_idx[idx_to_rank[s]] = s
    <3> SUFFICES ASSUME NEW s \in Slots PROVE rank_to_idx[idx_to_rank[s]] = s
      OBVIOUS
    <3>1. PICK r \in Slots : rank_to_idx[r] = s
      BY <2>1, <2>2, InjectionIsOnto DEF TypeOK
    <3> QED
      BY <2>4, <3>1
  <2>6. ASSUME NEW s \in Slots PROVE rank[s] = idx_to_rank[s]
    <3> DEFINE r == idx_to_rank[s]
    <3>1. r \in Slots /\ r \in Nat /\ n \in Nat /\ s \in Nat /\ rank_to_idx[r] = s
      BY <2>1, <2>5, Numbers
    <3>2. CASE s < n
      <4>1. r < n
        BY <2>3, <3>1, <3>2
      <4>2. r \in 0 .. n - 1
        BY <3>1, <4>1
      <4>3. Cardinality(Ahead(Given.entries, n, rank_to_idx[r])) = r
        BY <1>1, <4>2, AheadIsBelow
      <4> QED
        BY <3>1, <3>2, <4>3 DEF RankOf
    <3>3. CASE ~(s < n)
      <4>1. rank_to_idx[s] = s
        BY <2>3, <3>1, <3>3
      <4>2. idx_to_rank[s] = s
        BY <2>4, <4>1
      <4> QED
        BY <3>3, <4>2 DEF RankOf
    <3> QED
      BY <3>2, <3>3
  <2>7. rank = idx_to_rank
    <3>1. rank = [s \in Slots |-> rank[s]]
      BY DEF RankOf
    <3> HIDE DEF rank
    <3> QED
      BY <2>1, <2>6, <3>1 DEF TypeOK
  <2>8. inv = rank_to_idx
    <3>1. ASSUME NEW r \in Slots PROVE (CHOOSE s \in Slots : rank[s] = r) = rank_to_idx[r]
      <4>1. rank_to_idx[r] \in Slots /\ rank[rank_to_idx[r]] = r
        BY <2>1, <2>4, <2>7 DEF TypeOK
      <4>2. \A s \in Slots : rank[s] = r => s = rank_to_idx[r]
        BY <2>5, <2>7
      <4> HIDE DEF rank
      <4> QED
        BY <4>1, <4>2
    <3> HIDE DEF rank
    <3> QED
      BY <2>1, <3>1 DEF TypeOK
  <2>9. RebuildRanks(Given) = [Given EXCEPT !.idx_to_rank = rank, !.rank_to_idx = inv]
    BY DEF RebuildRanks, Given
  <2> HIDE DEF rank, inv
  <2> QED
    BY <2>7, <2>8, <2>9 DEF Given
<1> QED
  BY <1>1, AlwaysSorting, PTL
=============================================================================
