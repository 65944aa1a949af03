----------------------- MODULE FivePercentPriceProofs -----------------------
(***************************************************************************)
(* The price that five_percent_price gives is that of the best twentieth   *)
(* of the units, for every list of orders: the sort and the loop with its  *)
(* break compute what FivePercentPrice defines without any order.          *)
(***************************************************************************)
EXTENDS FivePercentPrice, FiniteSetTheorems, SequenceTheorems, TLAPS

Plus(a, b) == a + b

\* Sums over finite sets; nothing is folded here.
F == INSTANCE FoldLemmas WITH Op <- Plus, Base <- 0

-----------------------------------------------------------------------------
(* Sums *)

Sum(w, S) == SumFunctionOnSet(w, S)

LEMMA SumIs == ASSUME NEW w, NEW S PROVE Sum(w, S) = F!Total(w, S)
BY DEF Sum, F!Total, SumFunctionOnSet, F!SumFunctionOnSet, FoldFunctionOnSet, F!FoldFunctionOnSet,
       MapThenFoldSet, F!MapThenFoldSet

LEMMA FiniteIs == ASSUME NEW S PROVE IsFiniteSet(S) <=> F!IsFiniteSet(S)
BY DEF IsFiniteSet, F!IsFiniteSet

LEMMA SumEmpty == ASSUME NEW w PROVE Sum(w, {}) = 0
BY SumIs, F!TotalEmpty

LEMMA SumNat ==
  ASSUME NEW S, IsFiniteSet(S), NEW w, \A x \in S : w[x] \in Nat PROVE Sum(w, S) \in Nat
BY SumIs, FiniteIs, F!TotalNat

LEMMA SumAdd ==
  ASSUME NEW S, IsFiniteSet(S), NEW w, NEW x, x \notin S, w[x] \in Int, \A y \in S : w[y] \in Int
  PROVE  Sum(w, S \cup {x}) = Sum(w, S) + w[x]
BY SumIs, FiniteIs, F!TotalAdd

LEMMA SumUnion ==
  ASSUME NEW S, NEW T, IsFiniteSet(S), IsFiniteSet(T), S \cap T = {},
         NEW w, \A x \in S \cup T : w[x] \in Int
  PROVE  Sum(w, S \cup T) = Sum(w, S) + Sum(w, T)
BY SumIs, FiniteIs, F!TotalUnion

LEMMA SumMonotone ==
  ASSUME NEW S, IsFiniteSet(S), NEW R \in SUBSET S, NEW w, \A x \in S : w[x] \in Nat
  PROVE  Sum(w, R) <= Sum(w, S)
BY SumIs, FiniteIs, F!TotalMonotone

LEMMA SumEqual ==
  ASSUME NEW S, IsFiniteSet(S), NEW w, NEW v, \A x \in S : w[x] \in Int /\ v[x] = w[x]
  PROVE  Sum(v, S) = Sum(w, S)
BY SumIs, FiniteIs, F!TotalEqual

LEMMA SumTimes ==
  ASSUME NEW S, IsFiniteSet(S), NEW c \in Int, NEW w, NEW v,
         \A x \in S : w[x] \in Int /\ v[x] = c * w[x]
  PROVE  Sum(v, S) = c * Sum(w, S)
BY SumIs, FiniteIs, F!TotalTimes

LEMMA SumMoved ==
  ASSUME NEW S, IsFiniteSet(S), NEW R, NEW w, NEW v, \A x \in S : w[x] \in Int,
         NEW h, h \in Bijection(R, S), \A y \in R : v[y] = w[h[y]]
  PROVE  IsFiniteSet(R) /\ Sum(v, R) = Sum(w, S)
<1>1. h \in F!Bijection(R, S)
  BY DEF Bijection, F!Bijection, Injection, F!Injection, Surjection, F!Surjection, IsInjective, F!IsInjective
<1>2. F!IsFiniteSet(R) /\ F!Total(v, R) = F!Total(w, S)
  BY <1>1, FiniteIs, F!TotalMoved
<1> QED
  BY <1>2, SumIs, FiniteIs

LEMMA SumGroups ==
  ASSUME NEW P, IsFiniteSet(P), NEW K, IsFiniteSet(K), NEW g \in [K -> P],
         NEW w, \A k \in K : w[k] \in Int,
         NEW v, \A p \in P : v[p] = Sum(w, {k \in K : g[k] = p})
  PROVE  Sum(v, P) = Sum(w, K)
<1>1. \A p \in P : v[p] = F!Total(w, {k \in K : g[k] = p})
  BY SumIs
<1>2. F!Total(v, P) = F!Total(w, K)
  BY <1>1, FiniteIs, F!TotalGroups
<1> QED
  BY <1>2, SumIs

-----------------------------------------------------------------------------
(* The orders as the loop goes through them *)

Order  == [price : Prices, volume : Volumes]
Orders == Seq(Order)

VolumeAt(s) == [j \in DOMAIN s |-> s[j].volume]
CostAt(s)   == [j \in DOMAIN s |-> s[j].price * s[j].volume]

\* Of the first n orders.
First(w, n) == Sum(w, 1 .. n)

PriceInv ==
  /\ pc \in {"add", "sort", "take", "priced", "nan"}
  /\ buy \in BOOLEAN /\ orders \in Orders /\ i \in 1 .. Len(orders) + 1
  /\ pc = "add" => total_volume = First(VolumeAt(orders), i - 1)
  /\ pc \in {"add", "sort", "nan"} => avg_volume = 0 /\ remaining_volume = 0 /\ total_price = 0
  /\ pc # "add" => total_volume = First(VolumeAt(orders), Len(orders))
  /\ pc \in {"take", "priced"} =>
       /\ Sorted(orders) /\ total_volume > 0
       /\ avg_volume = (total_volume + 20 - 1) \div 20
       /\ remaining_volume = avg_volume - First(VolumeAt(orders), i - 1) /\ remaining_volume > 0
  /\ pc = "take" => total_price = First(CostAt(orders), i - 1)
  /\ pc = "priced" =>
       /\ i <= Len(orders) /\ remaining_volume <= orders[i].volume
       /\ total_price = First(CostAt(orders), i - 1) + orders[i].price * remaining_volume

LEMMA OrdersAre ==
  ASSUME NEW s \in Orders
  PROVE  /\ Len(s) \in Nat /\ DOMAIN s = 1 .. Len(s)
         /\ \A j \in 1 .. Len(s) :
              /\ s[j].price \in Prices /\ s[j].price \in Nat /\ s[j].volume \in Nat
              /\ VolumeAt(s)[j] = s[j].volume /\ VolumeAt(s)[j] \in Nat
              /\ CostAt(s)[j] = s[j].price * s[j].volume /\ CostAt(s)[j] \in Nat
<1>1. Len(s) \in Nat /\ DOMAIN s = 1 .. Len(s) /\ \A j \in 1 .. Len(s) : s[j] \in Order
  BY ElementOfSeq DEF Orders
<1>2. Volumes \subseteq Nat /\ Prices \subseteq Nat
  BY PriceAssumption
<1>3. ASSUME NEW j \in 1 .. Len(s) PROVE s[j].price \in Prices /\ s[j].price \in Nat /\ s[j].volume \in Nat
  BY <1>1, <1>2 DEF Order
<1>4. ASSUME NEW j \in 1 .. Len(s)
      PROVE  /\ VolumeAt(s)[j] = s[j].volume /\ CostAt(s)[j] = s[j].price * s[j].volume
             /\ s[j].price * s[j].volume \in Nat
  BY <1>1, <1>3 DEF VolumeAt, CostAt
<1> QED
  BY <1>1, <1>3, <1>4

LEMMA FirstNone == ASSUME NEW w PROVE First(w, 0) = 0
<1>1. 1 .. 0 = {}
  OBVIOUS
<1> QED
  BY <1>1, SumEmpty DEF First

LEMMA FirstNat ==
  ASSUME NEW w, NEW m \in Nat, \A j \in 1 .. m : w[j] \in Nat PROVE First(w, m) \in Nat
<1> DEFINE S == 1 .. m
<1>1. IsFiniteSet(S) /\ \A j \in S : w[j] \in Nat
  BY FS_Interval
<1> HIDE DEF S
<1>2. Sum(w, S) \in Nat
  BY <1>1, SumNat
<1> QED
  BY <1>2 DEF First, S

LEMMA FirstNext ==
  ASSUME NEW w, NEW m \in Nat, \A j \in 1 .. m + 1 : w[j] \in Nat
  PROVE  First(w, m + 1) = First(w, m) + w[m + 1]
<1> DEFINE S == 1 .. m
           x == m + 1
<1>1. 1 .. m + 1 = S \cup {x} /\ x \notin S /\ IsFiniteSet(S)
  BY FS_Interval
<1>2. w[x] \in Int /\ \A j \in S : w[j] \in Int
  OBVIOUS
<1> HIDE DEF S, x
<1>3. Sum(w, S \cup {x}) = Sum(w, S) + w[x]
  BY <1>1, <1>2, SumAdd
<1> QED
  BY <1>1, <1>3 DEF First, S, x

\* A sorted list has the same units as it had before.
LEMMA SortKeeps ==
  ASSUME NEW s \in Orders, NEW t \in SortedBy(s)
  PROVE  /\ t \in Orders /\ Len(t) = Len(s) /\ Sorted(t)
         /\ First(VolumeAt(t), Len(t)) = First(VolumeAt(s), Len(s))
<1> DEFINE n == Len(s)
           w == VolumeAt(s)
           v == VolumeAt(t)
<1>1. n \in Nat /\ DOMAIN s = 1 .. n /\ IsFiniteSet(1 .. n) /\ \A j \in 1 .. n : w[j] = s[j].volume /\ w[j] \in Int
  <2>1. n \in Nat /\ DOMAIN s = 1 .. n /\ \A j \in 1 .. n : w[j] = s[j].volume /\ w[j] \in Nat
    BY OrdersAre
  <2> HIDE DEF n, w
  <2> QED
    BY <2>1, FS_Interval
<1>2. PICK f \in Bijection(1 .. n, 1 .. n) : t = [k \in 1 .. n |-> s[f[k]]]
  BY <1>1 DEF SortedBy
<1>3. Sorted(t)
  BY DEF SortedBy
<1>4. \A k \in 1 .. n : f[k] \in 1 .. n
  BY <1>2 DEF Bijection, Injection
<1>5. t \in Orders /\ Len(t) = n
  <2>1. \A j \in 1 .. n : s[j] \in Order
    BY ElementOfSeq DEF Orders
  <2> HIDE DEF n
  <2>2. \A k \in 1 .. n : s[f[k]] \in Order
    BY <1>4, <2>1
  <2> QED
    BY <1>1, <1>2, <2>2 DEF Orders
<1>6. \A k \in 1 .. n : v[k] = w[f[k]]
  <2>1. \A k \in 1 .. n : v[k] = t[k].volume
    BY <1>5, OrdersAre
  <2> QED
    BY <1>1, <1>2, <1>4, <2>1
<1> HIDE DEF n, w, v
<1>7. Sum(v, 1 .. n) = Sum(w, 1 .. n)
  <2> DEFINE D == 1 .. n
  <2>1. IsFiniteSet(D) /\ f \in Bijection(D, D) /\ \A j \in D : w[j] \in Int /\ v[j] = w[f[j]]
    BY <1>1, <1>2, <1>6
  <2> HIDE DEF D
  <2>2. Sum(v, D) = Sum(w, D)
    BY <2>1, SumMoved
  <2> QED
    BY <2>2 DEF D
<1> QED
  BY <1>3, <1>5, <1>7 DEF First, n, w, v

LEMMA Twentieth ==
  ASSUME NEW t \in Nat, NEW a, a = (t + 20 - 1) \div 20
  PROVE  /\ a \in Nat /\ t <= 20 * a /\ 20 * (a - 1) < t /\ a <= t
         /\ t > 0 => a > 0
OBVIOUS

-----------------------------------------------------------------------------
(* The inductive invariant *)

LEMMA InitHolds == Init => PriceInv
<1> SUFFICES ASSUME Init PROVE PriceInv
  OBVIOUS
<1>1. PICK m \in 0 .. MaxOrders : orders \in [1 .. m -> Order]
  BY DEF Init, SeqOf, Order
<1>2. m \in Nat
  BY PriceAssumption
<1>3. orders \in Orders
  BY <1>1, <1>2 DEF Orders
<1>4. Len(orders) \in Nat
  BY <1>3, OrdersAre
<1>5. i = 1 /\ i \in 1 .. Len(orders) + 1 /\ First(VolumeAt(orders), i - 1) = 0
  <2>1. i = 1 /\ i - 1 = 0
    BY DEF Init
  <2> QED
    BY <1>4, <2>1, FirstNone
<1> QED
  BY <1>3, <1>5 DEF Init, PriceInv

LEMMA AddKeeps == ASSUME PriceInv, AddVolume PROVE PriceInv'
<1> DEFINE n == Len(orders)
           w == VolumeAt(orders)
<1>1. /\ pc = "add" /\ orders \in Orders /\ i \in 1 .. n + 1 /\ total_volume = First(w, i - 1)
      /\ UNCHANGED <<buy, orders, avg_volume, remaining_volume, total_price>>
  BY DEF PriceInv, AddVolume
<1>2. n \in Nat /\ \A j \in 1 .. n : w[j] = orders[j].volume /\ w[j] \in Nat
  BY <1>1, OrdersAre
<1>3. CASE i <= n
  <2>1. i \in 1 .. n /\ i - 1 \in Nat /\ (i - 1) + 1 = i /\ (i + 1) - 1 = i /\ i + 1 \in 1 .. n + 1
    BY <1>1, <1>2, <1>3
  <2> HIDE DEF w
  <2>2. First(w, (i - 1) + 1) = First(w, i - 1) + w[(i - 1) + 1]
    <3>1. \A j \in 1 .. (i - 1) + 1 : w[j] \in Nat
      BY <1>2, <2>1
    <3> QED
      BY <2>1, <3>1, FirstNext
  <2>3. /\ total_volume' = total_volume + orders[i].volume /\ i' = i + 1 /\ pc' = "add"
    BY <1>1, <1>3 DEF AddVolume
  <2>4. total_volume' = First(w, i' - 1)
    BY <1>1, <1>2, <2>1, <2>2, <2>3
  <2> QED
    BY <1>1, <2>1, <2>3, <2>4 DEF PriceInv, w
<1>4. CASE ~(i <= n)
  <2>1. i - 1 = n
    BY <1>1, <1>2, <1>4
  <2>2. pc' = "sort" /\ UNCHANGED <<total_volume, i>>
    BY <1>4 DEF AddVolume
  <2> QED
    BY <1>1, <2>1, <2>2 DEF PriceInv
<1> QED
  BY <1>3, <1>4

LEMMA SortHolds == ASSUME PriceInv, Sort PROVE PriceInv'
<1> DEFINE w == VolumeAt(orders)
           n == Len(orders)
           a == (total_volume + 20 - 1) \div 20
<1>1. /\ orders \in Orders /\ total_volume = First(w, n) /\ total_volume > 0 /\ buy \in BOOLEAN
      /\ orders' \in SortedBy(orders) /\ avg_volume' = a /\ remaining_volume' = avg_volume'
      /\ i' = 1 /\ pc' = "take" /\ UNCHANGED <<buy, total_volume, total_price>> /\ total_price = 0
  BY DEF PriceInv, Sort
<1>2. /\ orders' \in Orders /\ Len(orders') = n /\ Sorted(orders')
      /\ First(VolumeAt(orders'), Len(orders')) = First(w, n)
  BY <1>1, SortKeeps
<1>3. n \in Nat /\ total_volume \in Nat
  BY <1>1, OrdersAre, FirstNat
<1>4. a \in Nat /\ a > 0
  BY <1>1, <1>3, Twentieth
<1>5. Sorted(orders)'
  BY <1>1, <1>2 DEF Sorted, Better
<1>6. i' - 1 = 0 /\ First(VolumeAt(orders'), 0) = 0 /\ First(CostAt(orders'), 0) = 0
  BY <1>1, FirstNone
<1>7. remaining_volume' = avg_volume' - First(VolumeAt(orders'), i' - 1) /\ remaining_volume' > 0
  <2> HIDE DEF a
  <2> QED
    BY <1>1, <1>4, <1>6
<1>8. i' \in 1 .. Len(orders') + 1
  BY <1>1, <1>2, <1>3
<1>9. total_price' = First(CostAt(orders'), i' - 1)
  BY <1>1, <1>6
<1> QED
  BY <1>1, <1>2, <1>5, <1>7, <1>8, <1>9 DEF PriceInv

\* What the loop has left to buy is what the orders from i on have at least.
LEMMA LoopGoesOn == ASSUME PriceInv, pc = "take" PROVE i <= Len(orders)
<1> DEFINE n == Len(orders)
           w == VolumeAt(orders)
<1>1. /\ orders \in Orders /\ i \in 1 .. n + 1 /\ total_volume = First(w, n)
      /\ avg_volume = (total_volume + 20 - 1) \div 20
      /\ remaining_volume = avg_volume - First(w, i - 1) /\ remaining_volume > 0
  BY DEF PriceInv
<1>2. n \in Nat /\ total_volume \in Nat
  BY <1>1, OrdersAre, FirstNat
<1>3. avg_volume <= total_volume /\ avg_volume \in Nat
  BY <1>1, <1>2, Twentieth
<1>4. CASE i = n + 1
  <2>1. i - 1 = n
    BY <1>2, <1>4
  <2> HIDE DEF n, w
  <2>2. remaining_volume = avg_volume - total_volume
    BY <1>1, <2>1
  <2> QED
    BY <1>1, <1>2, <1>3, <2>2
<1> QED
  BY <1>1, <1>2, <1>4

LEMMA TakeKeeps == ASSUME PriceInv, TakeWhole PROVE PriceInv'
<1> DEFINE n == Len(orders)
           w == VolumeAt(orders)
           c == CostAt(orders)
           a == orders[i].volume
<1>1. /\ pc = "take" /\ orders \in Orders /\ i \in 1 .. n /\ i <= n
      /\ avg_volume = (total_volume + 20 - 1) \div 20 /\ total_volume = First(w, n)
      /\ remaining_volume = avg_volume - First(w, i - 1) /\ total_price = First(c, i - 1)
      /\ remaining_volume > a
      /\ remaining_volume' = remaining_volume - a
      /\ total_price' = total_price + orders[i].price * a
      /\ i' = i + 1 /\ UNCHANGED <<pc, buy, orders, total_volume, avg_volume>>
  <2>1. orders \in Orders /\ i \in 1 .. n + 1 /\ i <= n
    BY DEF PriceInv, TakeWhole
  <2>2. i \in 1 .. n
    BY <2>1, OrdersAre
  <2> QED
    BY <2>1, <2>2 DEF PriceInv, TakeWhole
<1>2. /\ n \in Nat
      /\ \A j \in 1 .. n : w[j] = orders[j].volume /\ w[j] \in Nat /\ c[j] = orders[j].price * orders[j].volume /\ c[j] \in Nat
  BY <1>1, OrdersAre
<1>3. i - 1 \in Nat /\ (i - 1) + 1 = i /\ i' - 1 = i /\ i' \in 1 .. n + 1
  BY <1>1, <1>2
<1> HIDE DEF w, c, n
<1>4. First(w, i) = First(w, i - 1) + w[i] /\ First(c, i) = First(c, i - 1) + c[i]
  <2>1. \A j \in 1 .. (i - 1) + 1 : w[j] \in Nat /\ c[j] \in Nat
    BY <1>1, <1>2, <1>3
  <2>2. First(w, (i - 1) + 1) = First(w, i - 1) + w[(i - 1) + 1] /\ First(c, (i - 1) + 1) = First(c, i - 1) + c[(i - 1) + 1]
    BY <1>3, <2>1, FirstNext
  <2> QED
    BY <1>3, <2>2
<1>5. total_volume \in Nat /\ First(w, i - 1) \in Nat /\ First(c, i - 1) \in Nat
  <2>1. (\A j \in 1 .. n : w[j] \in Nat) /\ \A j \in 1 .. i - 1 : w[j] \in Nat /\ c[j] \in Nat
    BY <1>1, <1>2
  <2>2. First(w, n) \in Nat
    BY <1>2, <2>1, FirstNat
  <2> QED
    BY <1>1, <1>3, <2>1, <2>2, FirstNat
<1>6. avg_volume \in Nat
  BY <1>1, <1>5, Twentieth
<1>7. remaining_volume' = avg_volume - First(w, i) /\ remaining_volume' > 0
  <2>1. w[i] = a /\ a \in Nat
    BY <1>1, <1>2
  <2> HIDE DEF a
  <2> QED
    BY <1>1, <1>4, <1>5, <1>6, <2>1
<1>8. total_price' = First(c, i)
  <2>1. c[i] = orders[i].price * a
    BY <1>1, <1>2
  <2> QED
    BY <1>1, <1>4, <2>1
<1>9. Sorted(orders)'
  BY <1>1 DEF PriceInv, Sorted, Better
<1> QED
  BY <1>1, <1>3, <1>7, <1>8, <1>9 DEF PriceInv, w, c, n

LEMMA FinishKeeps == ASSUME PriceInv, Finish PROVE PriceInv'
<1>1. i <= Len(orders) /\ remaining_volume <= orders[i].volume
  BY LoopGoesOn DEF Finish
<1>2. /\ pc' = "priced" /\ UNCHANGED <<buy, orders, i, total_volume, avg_volume, remaining_volume>>
      /\ total_price' = total_price + orders[i].price * remaining_volume
  BY <1>1 DEF Finish
<1>3. pc = "take"
  BY DEF Finish
<1>4. Sorted(orders)'
  BY <1>2, <1>3 DEF PriceInv, Sorted, Better
<1> QED
  BY <1>1, <1>2, <1>3, <1>4 DEF PriceInv

\* The totals are those of the orders the loops have gone through.
THEOREM PriceInvariant == Spec => []PriceInv
<1>1. PriceInv /\ [Next]_vars => PriceInv'
  <2> SUFFICES ASSUME PriceInv, [Next]_vars PROVE PriceInv'
    OBVIOUS
  <2>1. CASE NothingToPrice
    BY <2>1 DEF NothingToPrice, PriceInv
  <2>2. CASE UNCHANGED vars
    BY <2>2 DEF vars, PriceInv, Sorted, Better
  <2> QED
    BY <2>1, <2>2, AddKeeps, SortHolds, TakeKeeps, FinishKeeps DEF Next
<1> QED
  BY <1>1, InitHolds, PTL DEF Spec

\* No unsigned volume wraps below zero.
THEOREM PriceTypeCorrect == Spec => []TypeOK
<1>1. PriceInv => TypeOK
  <2> SUFFICES ASSUME PriceInv PROVE TypeOK
    OBVIOUS
  <2> DEFINE n == Len(orders)
             w == VolumeAt(orders)
             c == CostAt(orders)
  <2>1. /\ orders \in Orders /\ i \in 1 .. n + 1 /\ n \in Nat
        /\ \A j \in 1 .. n : w[j] \in Nat /\ c[j] \in Nat /\ orders[j].price \in Nat
    BY OrdersAre DEF PriceInv
  <2> HIDE DEF n, w, c
  <2>2. i - 1 \in Nat /\ \A j \in 1 .. i - 1 : w[j] \in Nat /\ c[j] \in Nat
    BY <2>1
  <2>3. First(w, n) \in Nat /\ First(w, i - 1) \in Nat /\ First(c, i - 1) \in Nat
    BY <2>1, <2>2, FirstNat
  <2>4. CASE pc \in {"add", "sort", "nan"}
    <3>1. total_volume \in Nat
      BY <2>3, <2>4 DEF PriceInv, n, w
    <3> QED
      BY <2>1, <2>4, <3>1 DEF PriceInv, TypeOK, n
  <2>5. CASE pc \in {"take", "priced"}
    <3>1. /\ total_volume \in Nat /\ avg_volume = (total_volume + 20 - 1) \div 20
          /\ remaining_volume = avg_volume - First(w, i - 1) /\ remaining_volume > 0
      BY <2>3, <2>5 DEF PriceInv, n, w
    <3>2. avg_volume \in Nat /\ avg_volume <= total_volume
      BY <3>1, Twentieth
    <3>3. remaining_volume \in Nat /\ remaining_volume <= avg_volume
      BY <2>3, <3>1, <3>2
    <3>4. total_price \in Nat
      <4>1. CASE pc = "take"
        BY <2>3, <4>1 DEF PriceInv, c
      <4>2. CASE pc = "priced"
        <5>1. i \in 1 .. n /\ total_price = First(c, i - 1) + orders[i].price * remaining_volume
          BY <2>1, <4>2 DEF PriceInv, c, n
        <5>2. orders[i].price * remaining_volume \in Nat
          BY <2>1, <3>3, <5>1
        <5> QED
          BY <2>3, <5>1, <5>2
      <4> QED
        BY <2>5, <4>1, <4>2
    <3> QED
      BY <2>1, <2>5, <3>1, <3>2, <3>3, <3>4 DEF TypeOK, n
  <2> QED
    BY <2>4, <2>5 DEF PriceInv
<1> QED
  BY <1>1, PriceInvariant, PTL

\* The loop always ends at its break, with something still to be bought.
THEOREM LoopEndsAtBreak == Spec => []LoopBreaksInTime
<1>1. PriceInv => LoopBreaksInTime
  BY LoopGoesOn DEF PriceInv, LoopBreaksInTime
<1> QED
  BY <1>1, PriceInvariant, PTL

-----------------------------------------------------------------------------
(* The price *)

Good(p, q) == IF buy THEN p > q ELSE p < q

LEMMA GoodIsOrder ==
  ASSUME NEW p \in Nat, NEW q \in Nat
  PROVE  /\ ~Good(p, p) /\ ~(Good(p, q) /\ Good(q, p))
         /\ p = q \/ Good(p, q) \/ Good(q, p)
         /\ \A x \in Nat : Good(x, p) /\ Good(p, q) => Good(x, q)
BY DEF Good

\* The orders of a price, and those of better prices.
AtPrice(p) == {j \in 1 .. Len(orders) : orders[j].price = p}
Ahead(p)   == {j \in 1 .. Len(orders) : Good(orders[j].price, p)}

\* The loop ends at the m-th order, of which it takes r units.
EndsAt(m, r) ==
  /\ orders \in Orders /\ Sorted(orders) /\ m \in 1 .. Len(orders)
  /\ r \in Nat /\ r > 0 /\ r <= orders[m].volume

LEMMA AtPriceIs ==
  ASSUME orders \in Orders, NEW p
  PROVE  /\ IsFiniteSet(AtPrice(p)) /\ IsFiniteSet(Ahead(p))
         /\ UnitsAt(p) = Sum(VolumeAt(orders), AtPrice(p)) /\ UnitsAt(p) \in Nat
<1>1. /\ Len(orders) \in Nat /\ DOMAIN orders = 1 .. Len(orders)
      /\ \A j \in 1 .. Len(orders) : VolumeAt(orders)[j] \in Nat
  BY OrdersAre
<1>2. AtPrice(p) \subseteq 1 .. Len(orders) /\ Ahead(p) \subseteq 1 .. Len(orders)
  BY DEF AtPrice, Ahead
<1>3. IsFiniteSet(AtPrice(p)) /\ IsFiniteSet(Ahead(p))
  <2> DEFINE D == 1 .. Len(orders)
  <2>1. IsFiniteSet(D)
    BY <1>1, FS_Interval
  <2>2. AtPrice(p) \subseteq D /\ Ahead(p) \subseteq D
    BY <1>2
  <2> HIDE DEF D
  <2> QED
    BY <2>1, <2>2, FS_Subset
<1>4. UnitsAt(p) = Sum(VolumeAt(orders), AtPrice(p))
  BY <1>1 DEF UnitsAt, Sum, VolumeAt, AtPrice
<1>5. \A j \in AtPrice(p) : VolumeAt(orders)[j] \in Nat
  BY <1>1, <1>2
<1>6. Sum(VolumeAt(orders), AtPrice(p)) \in Nat
  BY <1>3, <1>5, SumNat
<1> QED
  BY <1>3, <1>4, <1>6

LEMMA AheadIs ==
  ASSUME orders \in Orders, NEW p
  PROVE  UnitsBefore(p) = Sum(VolumeAt(orders), Ahead(p)) /\ UnitsBefore(p) \in Nat
<1> DEFINE P == {x \in Prices : Good(x, p)}
           K == Ahead(p)
           g == [k \in K |-> orders[k].price]
           w == VolumeAt(orders)
           v == [x \in Prices |-> UnitsAt(x)]
<1>1. \A j \in 1 .. Len(orders) : orders[j].price \in Prices /\ w[j] \in Nat
  BY OrdersAre
<1>2. IsFiniteSet(P) /\ IsFiniteSet(K) /\ \A k \in K : w[k] \in Nat
  <2>1. IsFiniteSet(P)
    BY PriceAssumption, FS_Subset
  <2>2. \A k \in K : w[k] \in Nat
    BY <1>1 DEF Ahead
  <2> QED
    BY <2>1, <2>2, AtPriceIs
<1>3. g \in [K -> P]
  BY <1>1 DEF Ahead
<1>4. \A x \in P : v[x] = Sum(w, {k \in K : g[k] = x})
  <2> SUFFICES ASSUME NEW x \in P PROVE v[x] = Sum(w, {k \in K : g[k] = x})
    OBVIOUS
  <2>1. {k \in K : g[k] = x} = AtPrice(x)
    BY DEF Ahead, AtPrice
  <2>2. v[x] = Sum(w, AtPrice(x))
    BY AtPriceIs
  <2> QED
    BY <2>1, <2>2
<1>5. UnitsBefore(p) = Sum(v, P)
  BY DEF UnitsBefore, Sum, Good
<1> HIDE DEF P, K, g, w, v
<1>6. (\A k \in K : w[k] \in Int) /\ Sum(w, K) \in Nat
  BY <1>2, SumNat
<1>7. Sum(v, P) = Sum(w, K)
  BY <1>2, <1>3, <1>4, <1>6, SumGroups
<1> QED
  BY <1>5, <1>6, <1>7 DEF w, K

LEMMA SortedIs ==
  ASSUME orders \in Orders, Sorted(orders), NEW j \in 1 .. Len(orders), NEW k \in 1 .. Len(orders), j < k
  PROVE  orders[j].price = orders[k].price \/ Good(orders[j].price, orders[k].price)
<1>1. DOMAIN orders = 1 .. Len(orders) /\ orders[j].price \in Nat /\ orders[k].price \in Nat
  BY OrdersAre
<1>2. ~Better(orders[k], orders[j])
  BY <1>1 DEF Sorted
<1> QED
  BY <1>1, <1>2 DEF Better, Good

\* What the loop takes of the first m orders: the last one only in part.
Units(m, r) == [k \in 1 .. m |-> IF k < m THEN orders[k].volume ELSE r]

\* Of those, the ones of a price.
TakenAt(m, p) == {k \in 1 .. m : orders[k].price = p}

LEMMA UnitsAre ==
  ASSUME NEW m, NEW r, EndsAt(m, r)
  PROVE  /\ m \in Nat /\ m - 1 \in Nat /\ IsFiniteSet(1 .. m) /\ IsFiniteSet(1 .. m - 1)
         /\ 1 .. m \subseteq 1 .. Len(orders)
         /\ \A k \in 1 .. m : Units(m, r)[k] \in Nat
         /\ \A k \in 1 .. m - 1 : Units(m, r)[k] = VolumeAt(orders)[k]
         /\ Units(m, r)[m] = r
         /\ \A k \in 1 .. Len(orders) : VolumeAt(orders)[k] = orders[k].volume /\ VolumeAt(orders)[k] \in Nat
         /\ Sum(Units(m, r), 1 .. m) = First(VolumeAt(orders), m - 1) + r
         /\ First(VolumeAt(orders), m - 1) \in Nat
<1> DEFINE u == Units(m, r)
           w == VolumeAt(orders)
           n == Len(orders)
           l == m - 1
<1>1. /\ n \in Nat /\ \A k \in 1 .. n : w[k] = orders[k].volume /\ w[k] \in Nat
  BY OrdersAre DEF EndsAt
<1>2. m \in 1 .. n /\ r \in Nat
  BY DEF EndsAt
<1>3. m \in Nat /\ l \in Nat /\ m = l + 1 /\ 1 .. m \subseteq 1 .. n /\ 1 .. l \subseteq 1 .. m
  BY <1>1, <1>2
<1>4. IsFiniteSet(1 .. m) /\ IsFiniteSet(1 .. l)
  BY <1>3, FS_Interval
<1>5. (\A k \in 1 .. l : u[k] = w[k]) /\ u[m] = r /\ \A k \in 1 .. m : u[k] \in Nat
  <2>1. ASSUME NEW k \in 1 .. m PROVE u[k] = IF k < m THEN w[k] ELSE r
    BY <1>1, <1>3 DEF Units
  <2> HIDE DEF u, w, n
  <2> QED
    BY <1>1, <1>2, <1>3, <2>1
<1> HIDE DEF u, w, n, l
<1>6. First(u, l + 1) = First(u, l) + u[l + 1]
  <2>1. \A k \in 1 .. l + 1 : u[k] \in Nat
    BY <1>3, <1>5
  <2> QED
    BY <1>3, <2>1, FirstNext
<1>7. First(u, l) = First(w, l) /\ First(w, l) \in Nat
  <2> DEFINE S == 1 .. l
  <2>1. IsFiniteSet(S) /\ \A k \in S : w[k] \in Nat /\ w[k] \in Int /\ u[k] = w[k]
    BY <1>1, <1>3, <1>4, <1>5
  <2> HIDE DEF S
  <2>2. Sum(u, S) = Sum(w, S) /\ Sum(w, S) \in Nat
    BY <2>1, SumEqual, SumNat
  <2> QED
    BY <2>2 DEF First, S
<1>8. Sum(u, 1 .. m) = First(w, l) + r
  BY <1>3, <1>5, <1>6, <1>7 DEF First
<1> QED
  BY <1>1, <1>3, <1>4, <1>5, <1>7, <1>8 DEF u, w, n, l

\* A better price than that of the last order is bought up.
LEMMA BetterIsBoughtUp ==
  ASSUME NEW m, NEW r, EndsAt(m, r), NEW p \in Prices, Good(p, orders[m].price)
  PROVE  /\ Sum(Units(m, r), TakenAt(m, p)) = UnitsAt(p)
         /\ UnitsBefore(p) + UnitsAt(p) <= First(VolumeAt(orders), m - 1)
<1> DEFINE u == Units(m, r)
           w == VolumeAt(orders)
           n == Len(orders)
           S == 1 .. m - 1
<1>1. /\ m \in Nat /\ IsFiniteSet(S) /\ n \in Nat /\ m \in 1 .. n /\ orders \in Orders /\ Sorted(orders)
      /\ (\A k \in S : u[k] = w[k] /\ w[k] \in Nat) /\ p \in Nat
      /\ \A k \in 1 .. n : orders[k].price \in Nat
  <2>1. orders \in Orders /\ m \in 1 .. n /\ Sorted(orders)
    BY DEF EndsAt
  <2> QED
    BY <2>1, UnitsAre, OrdersAre, PriceAssumption
<1>2. ASSUME NEW k \in 1 .. n, Good(orders[k].price, p) \/ orders[k].price = p PROVE k \in S
  <2>1. Good(orders[k].price, orders[m].price)
    BY <1>1, <1>2, GoodIsOrder
  <2>2. ~(m < k) /\ m # k
    BY <1>1, <2>1, SortedIs, GoodIsOrder
  <2> QED
    BY <1>1, <2>2
<1>3. Ahead(p) \subseteq S /\ AtPrice(p) \subseteq S /\ Ahead(p) \cap AtPrice(p) = {}
  BY <1>1, <1>2, GoodIsOrder DEF Ahead, AtPrice
<1>4. TakenAt(m, p) = AtPrice(p)
  <2>1. S \subseteq 1 .. m /\ 1 .. m \subseteq 1 .. n
    BY <1>1
  <2> QED
    BY <1>3, <2>1 DEF TakenAt, AtPrice
<1>5. /\ IsFiniteSet(AtPrice(p)) /\ IsFiniteSet(Ahead(p))
      /\ UnitsAt(p) = Sum(w, AtPrice(p)) /\ UnitsBefore(p) = Sum(w, Ahead(p))
  BY <1>1, AtPriceIs, AheadIs
<1> HIDE DEF u, w, n, S
<1>6. Sum(u, AtPrice(p)) = Sum(w, AtPrice(p))
  <2>1. \A k \in AtPrice(p) : w[k] \in Int /\ u[k] = w[k]
    BY <1>1, <1>3
  <2> QED
    BY <1>5, <2>1, SumEqual
<1>7. Sum(w, Ahead(p) \cup AtPrice(p)) = Sum(w, Ahead(p)) + Sum(w, AtPrice(p))
  <2>1. \A k \in Ahead(p) \cup AtPrice(p) : w[k] \in Int
    BY <1>1, <1>3
  <2> QED
    BY <1>3, <1>5, <2>1, SumUnion
<1>8. Sum(w, Ahead(p) \cup AtPrice(p)) <= Sum(w, S)
  BY <1>1, <1>3, SumMonotone
<1> QED
  BY <1>4, <1>5, <1>6, <1>7, <1>8 DEF First, S, u, w

\* Of the price of the last order is taken what the better ones have left.
LEMMA LastIsInPart ==
  ASSUME NEW m, NEW r, EndsAt(m, r), NEW p, p = orders[m].price
  PROVE  LET t == Sum(Units(m, r), TakenAt(m, p))
         IN  t = First(VolumeAt(orders), m - 1) + r - UnitsBefore(p) /\ t > 0 /\ t <= UnitsAt(p)
<1> DEFINE u == Units(m, r)
           w == VolumeAt(orders)
           n == Len(orders)
           S == 1 .. m - 1
           T == 1 .. m
           E == {k \in S : orders[k].price = p}
           A == TakenAt(m, p)
<1>1. /\ m \in Nat /\ n \in Nat /\ m \in 1 .. n /\ orders \in Orders /\ Sorted(orders)
      /\ IsFiniteSet(S) /\ IsFiniteSet(T)
      /\ \A k \in 1 .. n : orders[k].price \in Nat /\ w[k] \in Nat /\ w[k] = orders[k].volume
  <2>1. orders \in Orders /\ m \in 1 .. n /\ Sorted(orders)
    BY DEF EndsAt
  <2> QED
    BY <2>1, UnitsAre, OrdersAre
<1>2. T = S \cup {m} /\ m \notin S /\ T \subseteq 1 .. n
  BY <1>1
<1>3. (\A k \in T : u[k] \in Nat) /\ (\A k \in S : u[k] = w[k]) /\ u[m] = r /\ Sum(u, T) = First(w, m - 1) + r
  BY UnitsAre
<1>4. Ahead(p) \subseteq S
  <2> SUFFICES ASSUME NEW k \in 1 .. n, Good(orders[k].price, p) PROVE k \in S
    BY DEF Ahead
  <2>1. ~(m < k) /\ m # k
    BY <1>1, SortedIs, GoodIsOrder
  <2> QED
    BY <1>1, <2>1
<1>5. A = E \cup {m} /\ A \subseteq T /\ A \subseteq AtPrice(p)
  BY <1>2 DEF TakenAt, AtPrice
<1>6. T = Ahead(p) \cup A /\ Ahead(p) \cap A = {}
  <2>1. ASSUME NEW k \in S PROVE Good(orders[k].price, p) \/ orders[k].price = p
    <3>1. k \in 1 .. n /\ k < m
      BY <1>1
    <3> QED
      BY <1>1, <3>1, SortedIs
  <2>2. \A k \in A : orders[k].price = p
    BY DEF TakenAt
  <2>3. \A k \in Ahead(p) : Good(orders[k].price, p)
    BY DEF Ahead
  <2>4. ~Good(p, p)
    BY <1>1, GoodIsOrder
  <2>5. S \subseteq Ahead(p) \cup A
    BY <1>2, <1>5, <2>1 DEF Ahead
  <2> HIDE DEF S, T, A
  <2> QED
    BY <1>2, <1>4, <1>5, <2>2, <2>3, <2>4, <2>5
<1>7. /\ IsFiniteSet(AtPrice(p)) /\ IsFiniteSet(Ahead(p))
      /\ UnitsAt(p) = Sum(w, AtPrice(p)) /\ UnitsBefore(p) = Sum(w, Ahead(p))
  BY <1>1, AtPriceIs, AheadIs
<1>8. r \in Nat /\ r > 0 /\ r <= w[m]
  BY <1>1 DEF EndsAt
<1>9. E \subseteq S /\ m \notin E /\ \A k \in AtPrice(p) : w[k] \in Nat
  BY <1>1 DEF AtPrice
<1>10. w[m] \in Nat /\ \A k \in S : w[k] \in Nat
  BY <1>1, <1>2
<1>11. IsFiniteSet(A)
  <2> HIDE DEF A
  <2> QED
    BY <1>5, <1>7, FS_Subset
<1>12. IsFiniteSet(E)
  <2> HIDE DEF E, S
  <2> QED
    BY <1>1, <1>9, FS_Subset
<1> HIDE DEF u, w, n, S, T, E, A
<1>13. Sum(u, T) = Sum(u, Ahead(p)) + Sum(u, A)
  <2>1. \A k \in Ahead(p) \cup A : u[k] \in Int
    BY <1>3, <1>6
  <2> QED
    BY <1>6, <1>7, <1>11, <2>1, SumUnion
<1>14. Sum(u, Ahead(p)) = Sum(w, Ahead(p))
  <2>1. \A k \in Ahead(p) : w[k] \in Int /\ u[k] = w[k]
    BY <1>3, <1>4, <1>10
  <2> QED
    BY <1>7, <2>1, SumEqual
<1>15. Sum(u, A) = Sum(w, E) + r /\ Sum(w, A) = Sum(w, E) + w[m] /\ Sum(w, E) \in Nat
  <2>1. \A k \in E : w[k] \in Nat /\ w[k] \in Int /\ u[k] = w[k] /\ u[k] \in Int
    BY <1>3, <1>9, <1>10
  <2>2. u[m] \in Int /\ w[m] \in Int
    BY <1>3, <1>8, <1>10
  <2>3. Sum(u, A) = Sum(u, E) + u[m]
    BY <1>5, <1>9, <1>12, <2>1, <2>2, SumAdd
  <2>4. Sum(w, A) = Sum(w, E) + w[m]
    BY <1>5, <1>9, <1>12, <2>1, <2>2, SumAdd
  <2>5. Sum(u, E) = Sum(w, E) /\ Sum(w, E) \in Nat
    BY <1>12, <2>1, SumEqual, SumNat
  <2> QED
    BY <1>3, <2>3, <2>4, <2>5
<1>16. Sum(w, A) <= Sum(w, AtPrice(p))
  BY <1>5, <1>7, <1>9, SumMonotone
<1>17. Sum(w, Ahead(p)) \in Nat /\ Sum(w, AtPrice(p)) \in Nat
  BY <1>1, <1>7, AtPriceIs, AheadIs
<1>18. Sum(u, A) = First(w, m - 1) + r - UnitsBefore(p)
  <2>1. First(w, m - 1) \in Nat
    BY UnitsAre DEF w
  <2>2. First(w, m - 1) + r = UnitsBefore(p) + Sum(u, A) /\ UnitsBefore(p) \in Nat
    BY <1>3, <1>7, <1>13, <1>14, <1>17
  <2>3. Sum(u, A) \in Nat
    BY <1>8, <1>15
  <2> HIDE DEF First
  <2> QED
    BY <1>8, <2>1, <2>2, <2>3
<1>19. Sum(u, A) > 0 /\ Sum(u, A) <= UnitsAt(p)
  BY <1>7, <1>8, <1>10, <1>15, <1>16, <1>17
<1> QED
  BY <1>18, <1>19 DEF u, w, A

\* Nothing is taken of a worse price: the better ones have enough.
LEMMA WorseIsLeft ==
  ASSUME NEW m, NEW r, EndsAt(m, r), NEW p \in Prices, Good(orders[m].price, p)
  PROVE  /\ Sum(Units(m, r), TakenAt(m, p)) = 0
         /\ First(VolumeAt(orders), m - 1) + r <= UnitsBefore(p)
<1> DEFINE w == VolumeAt(orders)
           n == Len(orders)
           l == m - 1
           T == 1 .. m
<1>1. /\ m \in Nat /\ l \in Nat /\ m = l + 1 /\ n \in Nat /\ m \in 1 .. n /\ orders \in Orders /\ Sorted(orders)
      /\ p \in Nat
      /\ \A k \in 1 .. n : orders[k].price \in Nat /\ w[k] \in Nat /\ w[k] = orders[k].volume
  <2>1. orders \in Orders /\ m \in 1 .. n /\ Sorted(orders)
    BY DEF EndsAt
  <2> QED
    BY <2>1, UnitsAre, OrdersAre, PriceAssumption
<1>2. ASSUME NEW k \in T PROVE k \in 1 .. n /\ Good(orders[k].price, p)
  <2>1. k \in 1 .. n /\ (k < m \/ k = m)
    BY <1>1
  <2>2. orders[k].price = orders[m].price \/ Good(orders[k].price, orders[m].price)
    BY <1>1, <2>1, SortedIs
  <2> QED
    BY <1>1, <2>1, <2>2, GoodIsOrder
<1>3. T \subseteq Ahead(p) /\ TakenAt(m, p) = {}
  BY <1>1, <1>2, GoodIsOrder DEF Ahead, TakenAt
<1>4. IsFiniteSet(Ahead(p)) /\ UnitsBefore(p) = Sum(w, Ahead(p)) /\ UnitsBefore(p) \in Nat
  BY <1>1, AtPriceIs, AheadIs
<1>5. \A k \in Ahead(p) : w[k] \in Nat
  BY <1>1 DEF Ahead
<1>6. First(w, m) <= UnitsBefore(p)
  <2> HIDE DEF w, T
  <2>1. Sum(w, T) <= Sum(w, Ahead(p))
    BY <1>3, <1>4, <1>5, SumMonotone
  <2> QED
    BY <1>4, <2>1 DEF First, T
<1>7. r \in Nat /\ r <= w[m] /\ w[m] \in Nat /\ First(w, l) \in Nat
  BY <1>1, UnitsAre DEF EndsAt
<1> HIDE DEF w, l, n
<1>8. First(w, l + 1) = First(w, l) + w[l + 1]
  <2>1. \A k \in 1 .. l + 1 : w[k] \in Nat
    BY <1>1, <1>3, <1>5
  <2> QED
    BY <1>1, <2>1, FirstNext
<1>9. First(w, l) + r <= UnitsBefore(p)
  BY <1>1, <1>4, <1>6, <1>7, <1>8
<1> QED
  BY <1>3, <1>9, SumEmpty DEF w, l

\* What CostOfBest takes of each price.
Taken(p, a) ==
  IF a - UnitsBefore(p) <= 0 THEN 0
  ELSE IF a - UnitsBefore(p) <= UnitsAt(p) THEN a - UnitsBefore(p) ELSE UnitsAt(p)

LEMMA TakenCases ==
  ASSUME NEW p, NEW a \in Nat, UnitsBefore(p) \in Nat, UnitsAt(p) \in Nat
  PROVE  /\ a - UnitsBefore(p) <= 0 => Taken(p, a) = 0
         /\ ~(a - UnitsBefore(p) <= 0) /\ a - UnitsBefore(p) <= UnitsAt(p) => Taken(p, a) = a - UnitsBefore(p)
         /\ UnitsBefore(p) + UnitsAt(p) < a => Taken(p, a) = UnitsAt(p)
<1> DEFINE x == UnitsBefore(p)
           y == UnitsAt(p)
<1>1. Taken(p, a) = IF a - x <= 0 THEN 0 ELSE IF a - x <= y THEN a - x ELSE y
  BY DEF Taken
<1>2. x \in Nat /\ y \in Nat
  OBVIOUS
<1> HIDE DEF x, y
<1>3. /\ a - x <= 0 => Taken(p, a) = 0
      /\ ~(a - x <= 0) /\ a - x <= y => Taken(p, a) = a - x
      /\ x + y < a => Taken(p, a) = y
  BY <1>1, <1>2
<1> QED
  BY <1>3 DEF x, y

LEMMA TakenIs ==
  ASSUME NEW m, NEW r, EndsAt(m, r), NEW p \in Prices
  PROVE  Taken(p, First(VolumeAt(orders), m - 1) + r) = Sum(Units(m, r), TakenAt(m, p))
<1> DEFINE b == First(VolumeAt(orders), m - 1)
           q == orders[m].price
           t == Sum(Units(m, r), TakenAt(m, p))
<1>1. orders \in Orders /\ m \in 1 .. Len(orders) /\ r \in Nat /\ r > 0
  BY DEF EndsAt
<1>2. b \in Nat /\ q \in Nat /\ p \in Nat /\ UnitsAt(p) \in Nat /\ UnitsBefore(p) \in Nat
  BY <1>1, UnitsAre, OrdersAre, AtPriceIs, AheadIs, PriceAssumption
<1>3. CASE Good(p, q)
  <2>1. t = UnitsAt(p) /\ UnitsBefore(p) + UnitsAt(p) <= b
    BY <1>3, BetterIsBoughtUp
  <2> HIDE DEF b, t
  <2> QED
    BY <1>1, <1>2, <2>1 DEF Taken, b, t
<1>4. CASE p = q
  <2>1. t = b + r - UnitsBefore(p) /\ t > 0 /\ t <= UnitsAt(p)
    BY <1>4, LastIsInPart
  <2> HIDE DEF b, t
  <2>2. /\ ~(b + r - UnitsBefore(p) <= 0) /\ b + r - UnitsBefore(p) <= UnitsAt(p)
        /\ t = b + r - UnitsBefore(p)
    BY <1>1, <1>2, <2>1
  <2>3. Taken(p, b + r) = t
    BY <1>1, <1>2, <2>2, TakenCases
  <2> QED
    BY <2>3 DEF b, t
<1>5. CASE Good(q, p)
  <2>1. t = 0 /\ b + r <= UnitsBefore(p)
    BY <1>5, WorseIsLeft
  <2> HIDE DEF b, t
  <2>2. b + r - UnitsBefore(p) <= 0
    BY <1>1, <1>2, <2>1
  <2>3. Taken(p, b + r) = 0
    BY <1>1, <1>2, <2>2, TakenCases
  <2> QED
    BY <2>1, <2>3 DEF b, t
<1> QED
  BY <1>2, <1>3, <1>4, <1>5, GoodIsOrder

\* The loop's total is what CostOfBest says, without any order.
LEMMA CostIs ==
  ASSUME NEW m, NEW r, EndsAt(m, r)
  PROVE  CostOfBest(First(VolumeAt(orders), m - 1) + r) = First(CostAt(orders), m - 1) + orders[m].price * r
<1> DEFINE a == First(VolumeAt(orders), m - 1) + r
           u == Units(m, r)
           c == CostAt(orders)
           T == 1 .. m
           S == 1 .. m - 1
           g == [k \in T |-> orders[k].price]
           d == [k \in T |-> orders[k].price * u[k]]
           v == [p \in Prices |-> p * Taken(p, a)]
<1>1. /\ orders \in Orders /\ m \in 1 .. Len(orders) /\ r \in Nat /\ m \in Nat
      /\ IsFiniteSet(T) /\ IsFiniteSet(S) /\ T \subseteq 1 .. Len(orders)
      /\ (\A k \in T : u[k] \in Nat) /\ (\A k \in S : u[k] = VolumeAt(orders)[k]) /\ u[m] = r
      /\ \A k \in 1 .. Len(orders) : /\ orders[k].price \in Prices /\ orders[k].price \in Nat
                                     /\ VolumeAt(orders)[k] = orders[k].volume
                                     /\ c[k] = orders[k].price * orders[k].volume /\ c[k] \in Nat
  <2>1. orders \in Orders /\ m \in 1 .. Len(orders) /\ r \in Nat
    BY DEF EndsAt
  <2> QED
    BY <2>1, UnitsAre, OrdersAre
<1>2. T = S \cup {m} /\ m \notin S /\ S \subseteq T
  BY <1>1
<1>3. /\ g \in [T -> Prices] /\ \A k \in T : g[k] = orders[k].price
      /\ \A k \in T : d[k] = orders[k].price * u[k]
  BY <1>1
<1>4. \A p \in Prices : v[p] = p * Taken(p, a)
  OBVIOUS
<1>5. CostOfBest(a) = Sum(v, Prices)
  BY DEF CostOfBest, Sum, Taken
<1>6. \A k \in T : d[k] \in Int
  <2>1. \A k \in T : orders[k].price \in Nat /\ u[k] \in Nat
    BY <1>1
  <2> HIDE DEF T, d, u
  <2> QED
    BY <1>3, <2>1
<1>7. \A k \in S : d[k] = c[k] /\ c[k] \in Int
  BY <1>1, <1>2, <1>3
<1>8. d[m] = orders[m].price * r /\ d[m] \in Int
  BY <1>1, <1>2, <1>3, <1>6
<1>9. \A p \in Prices : TakenAt(m, p) = {k \in T : g[k] = p} /\ IsFiniteSet(TakenAt(m, p)) /\ TakenAt(m, p) \subseteq T
  <2>1. \A p \in Prices : TakenAt(m, p) = {k \in T : g[k] = p} /\ TakenAt(m, p) \subseteq T
    BY DEF TakenAt
  <2> HIDE DEF T, g
  <2> QED
    BY <1>1, <2>1, FS_Subset
<1>10. \A p \in Prices : Taken(p, a) = Sum(u, TakenAt(m, p))
  BY TakenIs
<1> HIDE DEF a, u, c, T, S, g, d, v
<1>11. \A p \in Prices : v[p] = Sum(d, {k \in T : g[k] = p})
  <2> SUFFICES ASSUME NEW p \in Prices PROVE v[p] = Sum(d, TakenAt(m, p))
    BY <1>9
  <2>1. p \in Int /\ \A k \in TakenAt(m, p) : u[k] \in Int /\ d[k] = p * u[k]
    <3>1. \A k \in TakenAt(m, p) : k \in T /\ g[k] = p
      BY <1>9
    <3>2. \A k \in T : u[k] \in Int /\ d[k] = g[k] * u[k]
      BY <1>1, <1>3
    <3>3. p \in Int
      BY PriceAssumption
    <3> QED
      BY <3>1, <3>2, <3>3
  <2>2. Sum(d, TakenAt(m, p)) = p * Sum(u, TakenAt(m, p))
    BY <1>9, <2>1, SumTimes
  <2> QED
    BY <1>4, <1>10, <2>2
<1>12. Sum(v, Prices) = Sum(d, T)
  <2>1. IsFiniteSet(Prices) /\ IsFiniteSet(T) /\ g \in [T -> Prices]
    BY <1>1, <1>3, PriceAssumption
  <2> QED
    BY <1>6, <1>11, <2>1, SumGroups
<1>13. Sum(d, T) = Sum(d, S) + d[m]
  <2>1. IsFiniteSet(S) /\ m \notin S /\ T = S \cup {m} /\ d[m] \in Int /\ \A k \in S : d[k] \in Int
    BY <1>1, <1>2, <1>6, <1>8
  <2>2. Sum(d, S \cup {m}) = Sum(d, S) + d[m]
    BY <2>1, SumAdd
  <2> QED
    BY <2>1, <2>2
<1>14. Sum(d, S) = Sum(c, S)
  BY <1>1, <1>7, SumEqual
<1>15. CostOfBest(a) = Sum(c, S) + orders[m].price * r
  BY <1>5, <1>8, <1>12, <1>13, <1>14
<1> QED
  BY <1>15 DEF First, a, c, S

\* The price is that of the best twentieth of the units, however the sort
\* leaves orders of the same price.
THEOREM PriceIsOfBestTwentieth == Spec => []PricedIsBestTwentieth
<1>1. PriceInv => PricedIsBestTwentieth
  <2> SUFFICES ASSUME PriceInv, pc = "priced"
               PROVE  /\ 20 * (avg_volume - 1) < total_volume /\ total_volume <= 20 * avg_volume
                      /\ total_price = CostOfBest(avg_volume)
    BY DEF PricedIsBestTwentieth
  <2> DEFINE n == Len(orders)
             w == VolumeAt(orders)
             b == First(w, i - 1)
  <2>1. /\ orders \in Orders /\ Sorted(orders) /\ i \in 1 .. n + 1 /\ i <= n
        /\ total_volume = First(w, n) /\ avg_volume = (total_volume + 20 - 1) \div 20
        /\ remaining_volume = avg_volume - b /\ remaining_volume > 0 /\ remaining_volume <= orders[i].volume
        /\ total_price = First(CostAt(orders), i - 1) + orders[i].price * remaining_volume
    BY DEF PriceInv
  <2>2. n \in Nat /\ i \in 1 .. n /\ i - 1 \in Nat /\ \A j \in 1 .. n : w[j] \in Nat
    BY <2>1, OrdersAre
  <2> HIDE DEF n, w
  <2>3. total_volume \in Nat /\ b \in Nat
    <3>1. \A j \in 1 .. i - 1 : w[j] \in Nat
      BY <2>2
    <3> QED
      BY <2>1, <2>2, <3>1, FirstNat
  <2>4. avg_volume \in Nat /\ 20 * (avg_volume - 1) < total_volume /\ total_volume <= 20 * avg_volume
    BY <2>1, <2>3, Twentieth
  <2> HIDE DEF b
  <2>5. remaining_volume \in Nat /\ avg_volume = b + remaining_volume
    BY <2>1, <2>3, <2>4
  <2>6. EndsAt(i, remaining_volume)
    BY <2>1, <2>2, <2>5 DEF EndsAt, n
  <2>7. CostOfBest(b + remaining_volume) = First(CostAt(orders), i - 1) + orders[i].price * remaining_volume
    BY <2>6, CostIs DEF b, w
  <2> QED
    BY <2>1, <2>4, <2>5, <2>7
<1> QED
  BY <1>1, PriceInvariant, PTL

=============================================================================
