---------------------------- MODULE MCBenchmarks ----------------------------
(* Messages of two or three instruments for a table of two, so that ranks  *)
(* are reused: whole pennies and odd prices, round lots and odd ones,      *)
(* short and long gaps, few quantities so that runs come about and end.    *)
EXTENDS Benchmarks

MCPredicting == {"stock", "timestamp_lastgap", "price_stride", "quantity_freq",
                 "instrument_2back", "seqid_perdelta"}
MCMeasuring  == {"ans", "combined_write", "k_sweep", "mfu_varlen", "qty_runs"}

Trading  == {"seqid_perdelta", "ans", "combined_write", "k_sweep"}
Counting == {"mfu_varlen", "qty_runs"}

MCSchemaOf ==
    [p \in MCPredicting \cup MCMeasuring |->
        IF p \in Trading THEN TradeSchema ELSE QuoteSchema]

Quotes ==
    { << 500,  0, 15000, 100, 0 >>,
      << 500,  1, 15000, 100, 0 >>,
      << 900,  1, 15100, 300, 1 >>,
      << 5000, 0, 14925, 250, 1 >>,
      << 500,  2, 15040, 700, 0 >> }

\* Two quantities, so that they are often repeated.
CountedQuotes ==
    { << 500, 0, 15000, 100, 0 >>,
      << 500, 1, 15100, 100, 0 >>,
      << 500, 0, 15000, 300, 1 >>,
      << 500, 2, 15040, 300, 1 >> }

\* Five quantities for the four slots of an instrument.
Quantities ==
    { << 500, 0, 15000, qty, 0 >> : qty \in {100, 200, 300, 400, 500} }
        \cup { << 900, 1, 15100, 200, 1 >> }

Trades ==
    { << 2000,  0, 15000, 100, 1, 101, 201, 0 >>,
      << 2000,  0, 15000, 100, 3, 101, 201, 0 >>,
      << 2000,  0, 15000, 100, 3, 102, 201, 0 >>,
      << 9000,  1, 15100, 250, 1, 101, 201, 0 >>,
      << 2000,  1, 14925, 300, 2, 301, 101, 1 >> }

\* Residuals of every tier, to fill the scratch buffer.
LongTrades ==
    { << 500,   0, 15000, 100,   1, 101, 201, 0 >>,
      << 90000, 1, 30100, 25000, 9000, 101, 201, 0 >>,
      << 12000, 1, 14925, 300,   2, 301, 101, 1 >>,
      << 60000, 0, 55555, 33333, 9999, 102, 201, 0 >>,
      << 500,   2, 15099, 123,   1, 101, 201, 1 >> }

MCMessagesOf ==
    [p \in MCPredicting \cup MCMeasuring |->
        CASE p = "seqid_perdelta"    -> Trades
          [] p \in Trading \ {"seqid_perdelta"} -> LongTrades
          [] p \in Counting          -> CountedQuotes
          [] p = "quantity_freq"     -> Quantities
          [] OTHER                   -> Quotes]
=============================================================================
