------------------------- MODULE MCBulkMarketHistory -------------------------
(* A small instance of BulkMarketHistory for TLC. *)
EXTENDS BulkMarketHistory

TwoTypes   == <<34, 35>>
TwoRegions == <<1, 2>>

\* One with the highest price and one with the lowest, but without volume.
TwoDays ==
  {[avg_price |-> 4, high_price |-> 9, low_price |-> 2, order_count |-> 1, volume |-> 3],
   [avg_price |-> 5, high_price |-> 8, low_price |-> 1, order_count |-> 2, volume |-> 0]}

=============================================================================
