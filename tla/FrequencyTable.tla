--------------------------- MODULE FrequencyTable ---------------------------
(***************************************************************************)
(* What the MFU table promises to the codec, with no slots, buckets or     *)
(* chains: a bounded count per instrument.  A touched instrument is in the *)
(* table afterwards; room for a new one is made by dropping one with the   *)
(* lowest count; every count is halved after each DECAY_PERIOD touches.    *)
(***************************************************************************)
EXTENDS Integers, FiniteSets, Functions

CONSTANTS
    Ids,            \* instruments
    CAPACITY,       \* how many instruments have a count
    DECAY_PERIOD,   \* touches between two decays
    SeededTables    \* the tables the application seeds

VARIABLES
    freq,       \* count of each instrument that has one
    touches     \* touches since the last decay

vars == <<freq, touches>>

Init ==
    /\ freq = [id \in {} |-> 0]
    /\ touches = 0

\* The tables one touch of id may leave, before any decay.
Counted(id) ==
    IF id \in DOMAIN freq
    THEN {[freq EXCEPT ![id] = @ + 1]}
    ELSE LET grown(f) == [i \in DOMAIN f \cup {id} |-> IF i = id THEN 1 ELSE f[i]]
         IN  IF Cardinality(DOMAIN freq) < CAPACITY
             THEN {grown(freq)}
             ELSE {grown(Restrict(freq, DOMAIN freq \ {low})) :
                       low \in {i \in DOMAIN freq :
                                    \A j \in DOMAIN freq : freq[i] <= freq[j]}}

Touch(id) ==
    \E f \in Counted(id) :
        IF touches + 1 >= DECAY_PERIOD
        THEN /\ freq' = [i \in DOMAIN f |-> f[i] \div 2]
             /\ touches' = 0
        ELSE /\ freq' = f
             /\ touches' = touches + 1

\* A seed replaces the counts but does not restart the decay period.
Seed ==
    /\ freq' \in SeededTables
    /\ UNCHANGED touches

Reset ==
    /\ freq' = [id \in {} |-> 0]
    /\ touches' = 0

Next ==
    \/ \E id \in Ids : Touch(id)
    \/ Seed
    \/ Reset

Spec == Init /\ [][Next]_vars
=============================================================================
