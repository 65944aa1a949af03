------------------------- MODULE MCMarketSummaryCsv -------------------------
(* Small instances of MarketSummaryCsv for TLC. *)
EXTENDS MarketSummaryCsv

CONSTANT h1

OneHandler == {h1}
OneSell == {1}
OneOrder == <<[id \in OneSell |-> 1]>>
CsvTwo == <<2, 1>>
AllFaults == {"download", "directory", "open", "write", "read"}
DownloadFault == {"download"}

=============================================================================
