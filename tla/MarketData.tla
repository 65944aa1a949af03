----------------------------- MODULE MarketData -----------------------------
(***************************************************************************)
(* The data the market order cache handles, reduced to what its            *)
(* correctness can tell apart.                                             *)
(*                                                                         *)
(* A download of one region hands every order to a callback, which files   *)
(* it under a signed id: the type id for sell orders, minus the type id    *)
(* for buy orders.  An order is therefore only told by the region it was   *)
(* asked for, the id it is filed under, the download it came with (ver),   *)
(* and its rank among the orders of its id.                                *)
(***************************************************************************)
EXTENDS Integers, Sequences

CONSTANTS
  NumRegions,   \* the regions, numbered in the iteration order of `regions'
  Ids,          \* signed type ids that can be filed or asked for
  Versions,     \* what tells downloads of a region apart
  NumOrders     \* NumOrders[v][id]: the orders of id in the download v

ASSUME DataAssumption ==
  /\ NumRegions \in Nat \ {0}
  /\ Ids \subseteq Int
  /\ Versions # {}

ASSUME ContentsAssumption == NumOrders \in [Versions -> [Ids -> Nat]]

Regions == 1 .. NumRegions

Order == [region : Regions, id : Ids, ver : Versions, n : Nat]

\* The orders that the download v of region r has for id.
Block(r, id, v) ==
  [k \in 1 .. NumOrders[v][id] |-> [region |-> r, id |-> id, ver |-> v, n |-> k]]

\* What `files' holds once the download v of r is complete: all the orders of
\* every id that has orders, and no other id.
Snapshot(r, v) == [id \in {x \in Ids : NumOrders[v][x] > 0} |-> Block(r, id, v)]

Snapshots(r) == {Snapshot(r, v) : v \in Versions}

\* `files' before anything was filed, and after it went out of scope.
Nothing == [id \in {} |-> <<>>]

-----------------------------------------------------------------------------
\* The outcome of a get_orders call as its caller sees it: the orders (none is
\* the shared EMPTY_ORDERS), or an exception that becomes an HTTP 500.
Reply == [status : {"none", "ok", "error"}, orders : Seq(Order)]

NoReply   == [status |-> "none",  orders |-> <<>>]
Failed    == [status |-> "error", orders |-> <<>>]
Found(os) == [status |-> "ok",    orders |-> os]

=============================================================================
