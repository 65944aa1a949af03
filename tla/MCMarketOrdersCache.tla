------------------------- MODULE MCMarketOrdersCache -------------------------
(* Small instances of MarketOrdersCache for TLC. *)
EXTENDS MarketOrdersCache, TLC

CONSTANTS h1, h2

\* One handler or two that nothing tells apart.
TwoHandlers == {h1, h2}
OneHandler  == {h1}
SameHandlers == Permutations(Handlers)

\* A type with sell and buy orders, or with sell orders only.
TwoIds   == {-1, 1}
OneId    == {1}

\* Downloads that have two sell orders and a buy order, only a sell order, or only
\* a buy order; and one that has a single sell order.
Contents(sell, buy) == [id \in TwoIds |-> IF id > 0 THEN sell ELSE buy]
MixedDownloads == <<Contents(2, 1), Contents(1, 0), Contents(0, 1)>>
PlainDownload  == <<[id \in OneId |-> 1]>>

\* The summary lists regions in another order than the update thread's.
CsvOne == <<1>>
CsvTwo == <<2, 1>>

AllFaults == {"download", "directory", "open", "write", "read"}

=============================================================================
