---------------------------- MODULE TableAndSort ----------------------------
(***************************************************************************)
(* The MFU table and the loops by which it rebuilds its ranks.  MfuTable   *)
(* rebuilds them in one step; RankSort runs the loops from any counts.  A  *)
(* behaviour is one of either, chosen at the start.                        *)
(***************************************************************************)
EXTENDS MfuTable

CONSTANT MAX_COUNT      \* of module RankSort

VARIABLES
    part,                                   \* "table" or "sort"
    count, n, rank_to_idx, idx_to_rank,     \* of module RankSort
    i, j, tmp, pc

Sort == INSTANCE RankSort

loops == <<count, n, rank_to_idx, idx_to_rank, i, j, tmp, pc>>
parts == <<part, vars, loops>>

\* The loops over no entry, when they have ended.
NoSort ==
    /\ n = 0 /\ i = MFU_SIZE /\ j = 0 /\ tmp = 0 /\ pc = "done"
    /\ count = [s \in Slots |-> 0]
    /\ rank_to_idx = [r \in Slots |-> r]
    /\ idx_to_rank = [s \in Slots |-> s]

Begin ==
    /\ part \in {"table", "sort"}
    /\ Init
    /\ IF part = "sort" THEN Sort!Init ELSE NoSort

TableStep == part = "table" /\ Next /\ UNCHANGED <<part, loops>>
SortStep  == part = "sort" /\ Sort!Next /\ UNCHANGED <<part, vars>>

\* The function that sorts runs to its end once called; nobody has to use a
\* table.
TableOrSort == Begin /\ [][TableStep \/ SortStep]_parts /\ WF_parts(SortStep)

-----------------------------------------------------------------------------
\* mfu_rebuild_ranks indexes within its arrays, with j = -1 at most below.
SortTyped == Sort!TypeOK

\* The element that mfu_rebuild_ranks has taken out and the ranks but for the
\* gap are all the slots, at every step of its loops.
NoSlotLost == Sort!NoSlotLost

\* When the loops of mfu_rebuild_ranks end, the ranks are those that the table
\* takes in one step.
Rebuilt == Sort!Rebuilt

\* They end.
Terminates == part = "sort" => Sort!Terminates
=============================================================================
