---------------------------- MODULE MCOrderPages ----------------------------
(* Small instances of OrderPages for TLC. *)
EXTENDS OrderPages

BothSides   == {34, -34}
MCRegionIds == <<2, 1>>

\* Downloads with two orders for each side, with only a sell or only a buy order.
MCContents(sell, buy) == [id \in BothSides |-> IF id > 0 THEN sell ELSE buy]
ThreeDownloads == <<MCContents(2, 2), MCContents(1, 0), MCContents(0, 1)>>
OneDownloaded == <<MCContents(1, 1)>>

MCHubs == <<[region |-> 1, station |-> "jita"], [region |-> 2, station |-> "amarr"]>>

\* The orders of an id, each with its place, price and volume: a better one
\* follows, or one that is not at the hub would be the best, or only a later one is
\* there; and the first at Jita has nothing left.
MCOrders(region, sell) ==
  CASE region = 1 /\ sell  -> <<<<"jita", 5, 0>>, <<"jita", 3, 2>>>>
    [] region = 1 /\ ~sell -> <<<<"jita", 5, 1>>, <<"perimeter", 7, 1>>>>
    [] region = 2 /\ sell  -> <<<<"ashab", 2, 1>>, <<"amarr", 4, 1>>>>
    [] region = 2 /\ ~sell -> <<<<"amarr", 4, 1>>, <<"amarr", 6, 1>>>>

MCStationOf(o) == MCOrders(o.region, o.id > 0)[o.n][1]
MCPriceOf(o)   == MCOrders(o.region, o.id > 0)[o.n][2]
MCVolumeOf(o)  == MCOrders(o.region, o.id > 0)[o.n][3]

Blank == [path |-> "other", buy |-> FALSE, sell |-> FALSE, all |-> FALSE,
          region |-> <<>>, type |-> <<>>, order |-> <<>>]
Bulk(buy, sell, region, type) ==
  [Blank EXCEPT !.path = "bulk-market-orders", !.buy = buy, !.sell = sell,
                !.region = region, !.type = type]
Ordered(params)  == [Blank EXCEPT !.path = "bulk-market-orders", !.order = params]
Page(path, type) == [Blank EXCEPT !.path = path, !.type = type]
OrderOf(parts, side, region, type) ==
  [parts |-> parts, side |-> side, region |-> region, type |-> type]

\* Both sides of two types, which nobody trades, in all regions; a region that the
\* cache does not know; and order parameters, one of which names neither side.
BulkRequests ==
  {[Bulk(TRUE, TRUE, <<>>, <<35, 36>>) EXCEPT !.all = TRUE],
   Bulk(TRUE, FALSE, <<9, 2>>, <<34>>),
   Ordered(<<OrderOf(3, "buy", 2, 35), OrderOf(3, "all", 2, 34)>>)}

\* Requests that are refused: for the number of parts or a type that is no number,
\* each after an order parameter that is fine; for a region that is no number, before
\* a list that is empty; for a list that is empty, for want of a side, and for the
\* path.
RefusedRequests ==
  {Ordered(<<OrderOf(3, "sell", 1, 34), OrderOf(2, "sell", 1, 34)>>),
   Ordered(<<OrderOf(3, "buy", 2, 34), OrderOf(3, "sell", 1, NoNumber)>>),
   Bulk(FALSE, TRUE, <<NoNumber>>, <<>>), Bulk(FALSE, TRUE, <<1>>, <<>>),
   Bulk(FALSE, FALSE, <<1>>, <<34>>), Blank}

HubRequests  == {Page("hub-buy-prices", <<34>>), Page("hub-sell-prices", <<34>>)}
JitaRequests == {Page("jita-5p-sell", <<35, 34>>)}

PageRequests == BulkRequests \cup RefusedRequests \cup HubRequests \cup JitaRequests

=============================================================================
