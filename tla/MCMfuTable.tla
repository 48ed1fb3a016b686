----------------------------- MODULE MCMfuTable -----------------------------
(* A table of three slots over two buckets, four instruments, a decay every *)
(* third touch; one seed list is longer than the table and starts near the  *)
(* uint16_t limit.  The sort begins with up to three entries in any order,  *)
(* with ties or without.                                                    *)
EXTENDS TableAndSort

MCIds == {0, 1, 2, 3}

E(id, seeded) == [instrument_id |-> id, count |-> seeded]

MCSeeds == { << E(2, 65532), E(0, 1) >>,
             << E(3, 2), E(1, 2), E(0, 5), E(2, 5) >> }
=============================================================================
