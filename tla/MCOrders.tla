----------------------------- MODULE MCOrders ------------------------------
(* Orders: ids in sequence per instrument, deltas against a field of the   *)
(* same message and against the last message, and the field types that are *)
(* a flag or plain bits.  Field 6 is computed by the receiver.             *)
EXTENDS Stream

F(type, size, ref) == [type |-> type, size |-> size, ref |-> ref]

MCSchema ==
    << F("INSTRUMENT", 2, 0), F("SEQUENTIAL_ID", 8, 0), F("DELTA_ID", 8, 2),
       F("DELTA_ID", 4, 0), F("PRICE", 4, 0), F("COMPUTED", 4, 0),
       F("DELTA_PRICE", 8, 5), F("DELTA_PRICE", 4, 0), F("CATEGORICAL", 4, 0),
       F("BOOL", 1, 0), F("RAW", 2, 0) >>

MCMessages ==
    { << 0, 7,         5, 40, 500, 3, 490, 510, 70000,  1, 9 >>,
      << 1, 1000000,   8, 41, 350, 0, 0,   0,   70000,  0, 65535 >>,
      << 2, 536870911, 0, 900000, 650, 1, 400000000, 900000, 5, 1, 0 >> }
=============================================================================
