------------------------------ MODULE RankSort ------------------------------
(***************************************************************************)
(* mfu_rebuild_ranks, loop by loop: the identity, the insertion sort of    *)
(* rank_to_idx by falling count, and the inverse.  Module Mfu states its   *)
(* outcome in one step (RebuildRanks); this module shows that the loops    *)
(* reach that outcome from every table the function may be given.          *)
(***************************************************************************)
EXTENDS Mfu

CONSTANT MAX_COUNT      \* counts of the given tables are 0 .. MAX_COUNT

VARIABLES
    count,          \* mfu->entries[.].count, not written
    n,              \* num_entries
    rank_to_idx,
    idx_to_rank,
    i, j, tmp,      \* the loop variables
    pc              \* "outer", "shift", "invert" or "done"

vars == <<count, n, rank_to_idx, idx_to_rank, i, j, tmp, pc>>

\* rank_to_idx holds whatever the last rebuild left in it; every entry of it
\* is overwritten first, so the initial state is the one after that.
Init ==
    /\ n \in 0 .. MFU_SIZE
    /\ count \in [Slots -> (0 .. MAX_COUNT) \cap Count]
    /\ \A s \in Slots : s >= n => count[s] = 0
    /\ rank_to_idx = [r \in Slots |-> r]
    /\ idx_to_rank \in {[s \in Slots |-> s], [s \in Slots |-> MFU_SIZE - 1 - s]}
    /\ i = 1
    /\ j = 0
    /\ tmp = 0
    /\ pc = "outer"

\* for (int i = 1; i < n; i++): take the next element out.
Outer ==
    /\ pc = "outer"
    /\ IF i < n
       THEN /\ tmp' = rank_to_idx[i]
            /\ j' = i - 1
            /\ pc' = "shift"
            /\ UNCHANGED i
       ELSE /\ i' = 0
            /\ pc' = "invert"
            /\ UNCHANGED <<tmp, j>>
    /\ UNCHANGED <<count, n, rank_to_idx, idx_to_rank>>

\* Fault: while (j-- >= 0 && ...), so j is lowered once more at the end.
ShiftPostDecrement ==
    /\ pc = "shift"
    /\ IF j >= 0 /\ count[rank_to_idx[j]] < count[tmp]
       THEN /\ rank_to_idx' = [rank_to_idx EXCEPT ![j + 1] = rank_to_idx[j]]
            /\ UNCHANGED <<i, pc>>
       ELSE /\ rank_to_idx' = [rank_to_idx EXCEPT ![j + 1] = tmp]
            /\ i' = i + 1
            /\ pc' = "outer"
    /\ j' = j - 1
    /\ UNCHANGED <<count, n, idx_to_rank, tmp>>

\* Fault: the taken element is put back one rank beyond the gap.
ShiftBesideGap ==
    /\ pc = "shift"
    /\ IF j >= 0 /\ count[rank_to_idx[j]] < count[tmp]
       THEN /\ rank_to_idx' = [rank_to_idx EXCEPT ![j + 1] = rank_to_idx[j]]
            /\ j' = j - 1
            /\ UNCHANGED <<i, pc>>
       ELSE /\ rank_to_idx' = [rank_to_idx EXCEPT ![IF j = -1 THEN 1 ELSE j] = tmp]
            /\ i' = i + 1
            /\ pc' = "outer"
            /\ UNCHANGED j
    /\ UNCHANGED <<count, n, idx_to_rank, tmp>>

\* Fault: equal counts are moved too, so the sort is not stable.
ShiftEquals ==
    /\ pc = "shift"
    /\ IF j >= 0 /\ count[rank_to_idx[j]] <= count[tmp]
       THEN /\ rank_to_idx' = [rank_to_idx EXCEPT ![j + 1] = rank_to_idx[j]]
            /\ j' = j - 1
            /\ UNCHANGED <<i, pc>>
       ELSE /\ rank_to_idx' = [rank_to_idx EXCEPT ![j + 1] = tmp]
            /\ i' = i + 1
            /\ pc' = "outer"
            /\ UNCHANGED j
    /\ UNCHANGED <<count, n, idx_to_rank, tmp>>

\* while (j >= 0 && count at j < tmp_count): move an element one rank down,
\* else put the taken one into the gap.
Shift ==
    /\ pc = "shift"
    /\ IF j >= 0 /\ count[rank_to_idx[j]] < count[tmp]
       THEN /\ rank_to_idx' = [rank_to_idx EXCEPT ![j + 1] = rank_to_idx[j]]
            /\ j' = j - 1
            /\ UNCHANGED <<i, pc>>
       ELSE /\ rank_to_idx' = [rank_to_idx EXCEPT ![j + 1] = tmp]
            /\ i' = i + 1
            /\ pc' = "outer"
            /\ UNCHANGED j
    /\ UNCHANGED <<count, n, idx_to_rank, tmp>>

\* Fault: the loop variable of the last loop is not advanced.
InvertForever ==
    /\ pc = "invert"
    /\ IF i < MFU_SIZE
       THEN /\ idx_to_rank' = [idx_to_rank EXCEPT ![rank_to_idx[i]] = i]
            /\ UNCHANGED <<i, pc>>
       ELSE /\ pc' = "done"
            /\ UNCHANGED <<idx_to_rank, i>>
    /\ UNCHANGED <<count, n, rank_to_idx, j, tmp>>

\* for (int r = 0; r < RESIDC_MFU_SIZE; r++): build the inverse.
Invert ==
    /\ pc = "invert"
    /\ IF i < MFU_SIZE
       THEN /\ idx_to_rank' = [idx_to_rank EXCEPT ![rank_to_idx[i]] = i]
            /\ i' = i + 1
            /\ UNCHANGED pc
       ELSE /\ pc' = "done"
            /\ UNCHANGED <<idx_to_rank, i>>
    /\ UNCHANGED <<count, n, rank_to_idx, j, tmp>>

Next == Outer \/ Shift \/ Invert

\* The function runs to its end once called.
Spec == Init /\ [][Next]_vars /\ WF_vars(Next)

-----------------------------------------------------------------------------
TypeOK ==
    /\ n \in 0 .. MFU_SIZE
    /\ count \in [Slots -> Count]
    /\ rank_to_idx \in [Slots -> Slots]
    /\ idx_to_rank \in [Slots -> Slots]
    /\ i \in 0 .. MFU_SIZE
    /\ j \in -1 .. MFU_SIZE - 1
    /\ tmp \in Slots
    /\ pc \in {"outer", "shift", "invert", "done"}

\* While an element is out, the ranks and that element are still all the
\* slots: the one rank written twice is the gap at j + 1, so no slot is lost
\* and none is given two ranks.
NoSlotLost ==
    LET ranks == IF pc = "shift" THEN [rank_to_idx EXCEPT ![j + 1] = tmp]
                                 ELSE rank_to_idx
    IN  {ranks[r] : r \in Slots} = Slots

\* When the loops end, both arrays are those RebuildRanks gives: the sort is
\* stable and the second array inverts the first.
Rebuilt ==
    pc = "done" =>
        LET given == [ entries     |-> [s \in Slots |-> [instrument_id |-> s,
                                                         count |-> count[s]]],
                       num_entries |-> n,
                       rank_to_idx |-> rank_to_idx,
                       idx_to_rank |-> idx_to_rank ]
        IN  RebuildRanks(given) = given

\* The loops end.
Terminates == <>(pc = "done")

=============================================================================
