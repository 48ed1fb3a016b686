------------------------------ MODULE MCQuote ------------------------------
(* Quotes: TIMESTAMP, INSTRUMENT, PRICE, QUANTITY, ENUM.  Instrument 2 is  *)
(* beyond MAX_INSTRUMENTS and has no state of its own; the far timestamp   *)
(* and the odd price of one quote are coded in the longest form, which     *)
(* makes a literal frame of it.                                            *)
EXTENDS Stream

F(type, size) == [type |-> type, size |-> size, ref |-> 0]

MCSchema == << F("TIMESTAMP", 8), F("INSTRUMENT", 2), F("PRICE", 4),
               F("QUANTITY", 4), F("ENUM", 1) >>

MCMessages ==
    { << 1000,    0, 10000, 100, 1 >>,
      << 1007,    1, 10100, 300, 1 >>,
      << 1007,    1, 10025, 250, 2 >>,
      << 900,     2, 0,     100, 2 >>,
      << 9000000, 1, 99999, 7,   1 >> }

\* With MAX_INSTRUMENTS = RAW_IDS = 4, as they are equal in the program, an
\* instrument beyond both.
MCLargeIds ==
    { << 1000, 1, 10000, 100, 1 >>,
      << 1007, 5, 10100, 100, 1 >> }
=============================================================================
