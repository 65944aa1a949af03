-------------------------- MODULE FivePercentPrice --------------------------
(***************************************************************************)
(* crest::five_percent_price, as jita-5p-sell and the summary file use it: *)
(* the mean price of the best twentieth of the volume of some orders.      *)
(*                                                                         *)
(* Prices are whole numbers: the rounding of float and double is left out. *)
(* A volume is a number of units and never negative.                       *)
(***************************************************************************)
EXTENDS Integers, SequencesExt

CONSTANTS
  Volumes, Prices,   \* of an order
  MaxOrders          \* bound on the orders

ASSUME PriceAssumption ==
  Volumes \subseteq Nat /\ Prices \subseteq Nat /\ IsFiniteSet(Prices) /\ MaxOrders \in Nat

VARIABLES
  pc,                \* "add", "sort", "take", "priced", "nan"
  buy, orders,       \* the arguments
  i,                 \* the order the loop is at
  total_volume, avg_volume, remaining_volume, total_price

vars == <<pc, buy, orders, i, total_volume, avg_volume, remaining_volume, total_price>>

Init ==
  /\ pc = "add" /\ i = 1
  /\ buy \in BOOLEAN
  /\ orders \in SeqOf([price : Prices, volume : Volumes], MaxOrders)
  /\ total_volume = 0 /\ avg_volume = 0 /\ remaining_volume = 0 /\ total_price = 0

\* The overload without total_volume, and the caller csv_row, add it up.
AddVolume ==
  /\ pc = "add"
  /\ IF i <= Len(orders)
     THEN total_volume' = total_volume + orders[i].volume /\ i' = i + 1 /\ UNCHANGED pc
     ELSE pc' = "sort" /\ UNCHANGED <<total_volume, i>>
  /\ UNCHANGED <<buy, orders, avg_volume, remaining_volume, total_price>>

NothingToPrice ==
  /\ pc = "sort" /\ total_volume = 0
  /\ pc' = "nan"
  /\ UNCHANGED <<buy, orders, i, total_volume, avg_volume, remaining_volume, total_price>>

\* Mutant: one comparison for both sides.
BetterForSellers(a, b) == a.price < b.price

Better(a, b) == IF buy THEN a.price > b.price ELSE a.price < b.price

\* std::sort leaves orders of the same price in any order.
Sorted(s) == \A j, k \in DOMAIN s : j < k => ~Better(s[k], s[j])

SortedBy(s) ==
  {t \in {[k \in DOMAIN s |-> s[f[k]]] : f \in Bijection(DOMAIN s, DOMAIN s)} : Sorted(t)}

Sort ==
  /\ pc = "sort" /\ total_volume > 0
  /\ orders' \in SortedBy(orders)
  /\ avg_volume' = (total_volume + 20 - 1) \div 20
  /\ remaining_volume' = avg_volume'
  /\ i' = 1 /\ pc' = "take"
  /\ UNCHANGED <<buy, total_volume, total_price>>

\* Mutant: an order that is just enough does not end the loop.
TakeWholeOrLast ==
  /\ pc = "take" /\ i <= Len(orders)
  /\ remaining_volume >= orders[i].volume
  /\ remaining_volume' = remaining_volume - orders[i].volume
  /\ total_price' = total_price + orders[i].price * orders[i].volume
  /\ i' = i + 1
  /\ UNCHANGED <<pc, buy, orders, total_volume, avg_volume>>

\* Mutant: the last order is taken as a whole, too.
TakeAll ==
  /\ pc = "take" /\ i <= Len(orders)
  /\ remaining_volume' = remaining_volume - orders[i].volume
  /\ total_price' = total_price + orders[i].price * orders[i].volume
  /\ i' = i + 1
  /\ UNCHANGED <<pc, buy, orders, total_volume, avg_volume>>

TakeWhole ==
  /\ pc = "take" /\ i <= Len(orders)
  /\ remaining_volume > orders[i].volume
  /\ remaining_volume' = remaining_volume - orders[i].volume
  /\ total_price' = total_price + orders[i].price * orders[i].volume
  /\ i' = i + 1
  /\ UNCHANGED <<pc, buy, orders, total_volume, avg_volume>>

\* The break, or the end of the orders.
Finish ==
  /\ pc = "take"
  /\ i <= Len(orders) => remaining_volume <= orders[i].volume
  /\ total_price' = total_price + (IF i <= Len(orders) THEN orders[i].price * remaining_volume ELSE 0)
  /\ pc' = "priced"
  /\ UNCHANGED <<buy, orders, i, total_volume, avg_volume, remaining_volume>>

Next == AddVolume \/ NothingToPrice \/ Sort \/ TakeWhole \/ Finish

Spec == Init /\ [][Next]_vars

-----------------------------------------------------------------------------
(* Properties *)

\* The type invariant: no unsigned volume ever wraps below zero.
TypeOK ==
  /\ pc \in {"add", "sort", "take", "priced", "nan"}
  /\ i \in 1 .. Len(orders) + 1
  /\ {total_volume, avg_volume, remaining_volume, total_price} \subseteq Nat
  /\ remaining_volume <= avg_volume /\ avg_volume <= total_volume

UnitsAt(price) ==
  SumFunctionOnSet([j \in DOMAIN orders |-> orders[j].volume], {j \in DOMAIN orders : orders[j].price = price})
UnitsBefore(price) ==
  SumFunctionOnSet([p \in Prices |-> UnitsAt(p)], {p \in Prices : IF buy THEN p > price ELSE p < price})

\* The cost of the n best units, with no order sorted: of each price what is
\* left of n after all the better ones, and at most what there is.
CostOfBest(n) ==
  LET wanted(price) == n - UnitsBefore(price)
      taken(price) ==
        IF wanted(price) <= 0 THEN 0
        ELSE IF wanted(price) <= UnitsAt(price) THEN wanted(price) ELSE UnitsAt(price)
  IN  SumFunctionOnSet([price \in Prices |-> price * taken(price)], Prices)

\* The price is that of the best twentieth of the units, rounded up: the
\* dearest ones of buy orders, the cheapest ones of sell orders.
PricedIsBestTwentieth ==
  pc = "priced" =>
    /\ 20 * (avg_volume - 1) < total_volume /\ total_volume <= 20 * avg_volume
    /\ total_price = CostOfBest(avg_volume)

\* The loop always ends at its break: it never leaves the orders with part of
\* the twentieth still to be bought, and never divides by nothing.
LoopBreaksInTime ==
  pc = "take" => i <= Len(orders) /\ remaining_volume > 0

=============================================================================
