----------------------------- MODULE MCBindings -----------------------------
(* Three codec objects and their snapshots on a heap without room for all. *)
EXTENDS Bindings

MCMixed == [c \in Codecs |-> IF c = 1 THEN "rust" ELSE "python"]

\* The last one is a byte too long.  A price and a BOOL that are wider than their
\* fields, an id that fits the bits of a raw one and one that does not.
MCSchemas == { << "INSTRUMENT", "PRICE" >>, << "BOOL", "INSTRUMENT", "ENUM", "COMPUTED" >>,
               << "PRICE", "BOOL", "INSTRUMENT" >> }
MCValues  == { << 3, 300 >>, << 7, 22, 2, 1 >> }
=============================================================================
