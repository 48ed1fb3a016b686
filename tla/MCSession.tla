------------------------------ MODULE MCSession ------------------------------
(* Three types: quotes, of which the first is sent as it is, trades and a  *)
(* heartbeat; a fourth has an index beyond the schemas.  The table is      *)
(* seeded and the coder selected between snapshots, so that a recovery     *)
(* goes back to before either.                                             *)
EXTENDS Session

Fld(type, size) == [type |-> type, size |-> size, ref |-> 0]

MCSchemas ==
    << << Fld("INSTRUMENT", 2), Fld("PRICE", 4), Fld("ENUM", 1) >>,
       << Fld("TIMESTAMP", 8), Fld("INSTRUMENT", 2), Fld("SEQUENTIAL_ID", 8),
          Fld("QUANTITY", 4) >>,
       << Fld("BOOL", 1) >> >>

MCTypeIndex == [type \in 81 .. 84 |-> type - 81]

MCMessages ==
    { [type |-> 81, msg |-> << 1, 99901, 1 >>],
      [type |-> 82, msg |-> << 9000, 2, 3000, 300 >>],
      [type |-> 83, msg |-> << 1 >>],
      [type |-> 84, msg |-> << 1 >>] }

MCSeedList == << [instrument_id |-> 2, count |-> 3], [instrument_id |-> 1, count |-> 2] >>
=============================================================================
