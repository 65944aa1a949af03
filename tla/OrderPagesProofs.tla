--------------------------- MODULE OrderPagesProofs ---------------------------
(***************************************************************************)
(* What every page of OrderPages answers, whatever the requests, and       *)
(* however the regions it reads are replaced between its lookups.          *)
(***************************************************************************)
EXTENDS OrderPages, FiniteSetTheorems, SequenceTheorems, WellFoundedInduction, TLAPS

\* The calls of the writer, folded by what each leaves open.
J == INSTANCE FoldLemmas WITH Op <- Takes, Base <- <<"value">>

-----------------------------------------------------------------------------
(* The parameters *)

Rows(X, m) == {t \in Seq(X) : Len(t) = m}

\* s has the rows of ss, of length m, one after the other.
HasRows(s, ss, m) ==
  /\ Len(s) = Len(ss) * m
  /\ \A i \in 1 .. Len(ss), j \in 1 .. m : s[(i - 1) * m + j] = ss[i][j]

LEMMA FlattenRows ==
  ASSUME NEW X, NEW m \in Nat, NEW ss \in Seq(Rows(X, m))
  PROVE  FlattenSeq(ss) \in Seq(X) /\ HasRows(FlattenSeq(ss), ss, m)
<1>1. FlattenSeq(ss) = J!FlattenSeq(ss) /\ J!Rows(X, m) = Rows(X, m)
  BY DEF FlattenSeq, J!FlattenSeq, Rows, J!Rows
<1> QED
  BY <1>1, J!FlattenRows DEF HasRows

LEMMA MinIsIn == ASSUME NEW S \in SUBSET Nat, S # {} PROVE Min(S) \in S
<1>1. Min(S) = J!Min(S)
  BY DEF Min, J!Min
<1> QED
  BY <1>1, J!MinIsIn

LEMMA FirstErrorIs ==
  ASSUME NEW checks, DOMAIN checks \subseteq Nat
  PROVE  \/ FirstError(checks) = 200 /\ \A k \in DOMAIN checks : checks[k] = 200
         \/ \E k \in DOMAIN checks : checks[k] # 200 /\ FirstError(checks) = checks[k]
<1> DEFINE bad == {k \in DOMAIN checks : checks[k] # 200}
<1>1. CASE bad = {}
  BY <1>1 DEF FirstError
<1>2. CASE bad # {}
  <2>1. Min(bad) \in bad
    BY <1>2, MinIsIn
  <2> QED
    BY <1>2, <2>1 DEF FirstError
<1> QED
  BY <1>1, <1>2

LEMMA NumbersAreNumbers ==
  ASSUME NEW params \in Seq(Number)
  PROVE  /\ CheckNumbers(params) \in {200, 400, 500}
         /\ CheckNumbers(params) = 200 => params \in Seq(Int) /\ params # << >>
<1>1. CheckNumbers(params) \in {200, 400, 500}
  BY DEF CheckNumbers
<1>2. ASSUME CheckNumbers(params) = 200 PROVE params \in Seq(Int) /\ params # << >>
  <2>1. NoNumber \notin Range(params) /\ params # << >>
    BY <1>2 DEF CheckNumbers
  <2>2. \A k \in 1 .. Len(params) : params[k] \in Int
    BY <2>1 DEF Range, Number
  <2> QED
    BY <2>1, <2>2
<1> QED
  BY <1>1, <1>2

LEMMA CheckType ==
  ASSUME NEW q, IsRequest(q) PROVE Check(q) \in {200, 400, 404, 500}
<1>1. CheckNumbers(q.region) \in {200, 400, 500} /\ CheckNumbers(q.type) \in {200, 400, 500}
  BY NumbersAreNumbers DEF IsRequest
<1>2. CheckBulk(q) \in {200, 400, 500}
  <2>1. CASE q.order # << >>
    <3> DEFINE checks == [k \in DOMAIN q.order |-> CheckOrder(q.order[k])]
    <3>1. DOMAIN checks \subseteq Nat /\ \A k \in DOMAIN checks : checks[k] \in {200, 400, 500}
      BY DEF IsRequest, CheckOrder
    <3> HIDE DEF checks
    <3>2. FirstError(checks) \in {200, 400, 500}
      BY <3>1, FirstErrorIs
    <3> QED
      BY <2>1, <3>2 DEF CheckBulk, checks
  <2>2. CASE q.order = << >>
    <3> DEFINE checks == <<IF q.buy \/ q.sell THEN 200 ELSE 400, CheckRegions(q), CheckNumbers(q.type)>>
    <3>1. DOMAIN checks = 1 .. 3 /\ \A k \in 1 .. 3 : checks[k] \in {200, 400, 500}
      BY <1>1 DEF CheckRegions
    <3> HIDE DEF checks
    <3>2. FirstError(checks) \in {200, 400, 500}
      BY <3>1, FirstErrorIs
    <3> QED
      BY <2>2, <3>2 DEF CheckBulk, checks
  <2> QED
    BY <2>1, <2>2
<1> QED
  BY <1>1, <1>2 DEF Check

\* What is known of a bulk request that is not refused.
LEMMA BulkChecked ==
  ASSUME NEW q, IsRequest(q), CheckBulk(q) = 200
  PROVE  IF q.order # << >>
         THEN \A k \in DOMAIN q.order : q.order[k].region \in Int /\ q.order[k].type \in Int
         ELSE /\ q.buy \/ q.sell
              /\ RegionsOf(q) \in Seq(Int) /\ RegionsOf(q) # << >>
              /\ q.type \in Seq(Int) /\ q.type # << >>
<1>1. CASE q.order # << >>
  <2> DEFINE checks == [k \in DOMAIN q.order |-> CheckOrder(q.order[k])]
  <2>1. DOMAIN checks \subseteq Nat /\ FirstError(checks) = 200 /\ DOMAIN checks = DOMAIN q.order
    BY <1>1 DEF IsRequest, CheckBulk
  <2>2. \A k \in DOMAIN q.order : checks[k] = CheckOrder(q.order[k]) /\ q.order[k] \in OrderParam
    BY DEF IsRequest
  <2> HIDE DEF checks
  <2>3. \A k \in DOMAIN checks : checks[k] = 200
    BY <2>1, FirstErrorIs
  <2>4. ASSUME NEW k \in DOMAIN q.order PROVE q.order[k].region \in Int /\ q.order[k].type \in Int
    BY <2>1, <2>2, <2>3 DEF CheckOrder, OrderParam, Number
  <2> QED
    BY <1>1, <2>4
<1>2. CASE q.order = << >>
  <2> DEFINE checks == <<IF q.buy \/ q.sell THEN 200 ELSE 400, CheckRegions(q), CheckNumbers(q.type)>>
  <2>1. /\ DOMAIN checks = 1 .. 3 /\ FirstError(checks) = 200
        /\ checks[1] = (IF q.buy \/ q.sell THEN 200 ELSE 400)
        /\ checks[2] = CheckRegions(q) /\ checks[3] = CheckNumbers(q.type)
    BY <1>2 DEF CheckBulk
  <2> HIDE DEF checks
  <2>2. \A k \in 1 .. 3 : checks[k] = 200
    BY <2>1, FirstErrorIs
  <2>3. (q.buy \/ q.sell) /\ CheckRegions(q) = 200 /\ CheckNumbers(q.type) = 200
    BY <2>1, <2>2
  <2>4. q.type \in Seq(Int) /\ q.type # << >>
    BY <2>3, NumbersAreNumbers DEF IsRequest
  <2>5. RegionsOf(q) \in Seq(Int) /\ RegionsOf(q) # << >>
    <3>1. CASE q.all
      <4>1. RegionIds \in Seq(Regions) /\ Range(RegionIds) = Regions /\ 1 \in Regions
        BY DataAssumption, PagesAssumption DEF Regions
      <4>2. RegionIds # << >>
        BY <4>1 DEF Range
      <4>3. RegionIds \in Seq(Int)
        <5>1. \A r \in Regions : r \in Int
          BY DataAssumption DEF Regions
        <5>2. RegionIds \in Seq(Regions)
          BY <4>1
        <5>3. ASSUME NEW i \in 1 .. Len(RegionIds) PROVE RegionIds[i] \in Int
          <6>1. RegionIds[i] \in Regions
            BY <5>2, ElementOfSeq
          <6> QED
            BY <5>1, <6>1
        <5> QED
          BY <5>2, <5>3
      <4> QED
        BY <3>1, <4>2, <4>3 DEF RegionsOf
    <3>2. CASE ~q.all
      BY <2>3, <3>2, NumbersAreNumbers DEF IsRequest, RegionsOf, CheckRegions
    <3> QED
      BY <3>1, <3>2
  <2> QED
    BY <1>2, <2>3, <2>4, <2>5
<1> QED
  BY <1>1, <1>2

OrderSets == [buy : BOOLEAN, region : Int, type : Int]

LEMMA SidesAre ==
  ASSUME NEW q, IsRequest(q)
  PROVE  /\ Sides(q) \in Seq(BOOLEAN)
         /\ Len(Sides(q)) = (IF q.buy THEN 1 ELSE 0) + (IF q.sell THEN 1 ELSE 0)
         /\ \A s \in 1 .. Len(Sides(q)) : Sides(q)[s] = (q.buy /\ s = 1)
<1>1. q.buy \in BOOLEAN /\ q.sell \in BOOLEAN
  BY DEF IsRequest
<1> DEFINE b == IF q.buy THEN <<TRUE>> ELSE << >>
           c == IF q.sell THEN <<FALSE>> ELSE << >>
<1>2. /\ b \in Seq(BOOLEAN) /\ Len(b) = (IF q.buy THEN 1 ELSE 0) /\ (q.buy => b[1] = TRUE)
      /\ c \in Seq(BOOLEAN) /\ Len(c) = (IF q.sell THEN 1 ELSE 0) /\ (q.sell => c[1] = FALSE)
  <2>1. <<TRUE>> \in Seq(BOOLEAN) /\ <<FALSE>> \in Seq(BOOLEAN) /\ << >> \in Seq(BOOLEAN)
    OBVIOUS
  <2>2. Len(<<TRUE>>) = 1 /\ Len(<<FALSE>>) = 1 /\ Len(<< >>) = 0 /\ <<TRUE>>[1] = TRUE /\ <<FALSE>>[1] = FALSE
    OBVIOUS
  <2>3. b = (IF q.buy THEN <<TRUE>> ELSE << >>) /\ c = (IF q.sell THEN <<FALSE>> ELSE << >>)
    OBVIOUS
  <2> HIDE DEF b, c
  <2>4. CASE q.buy /\ q.sell
    BY <2>1, <2>2, <2>3, <2>4
  <2>5. CASE q.buy /\ ~q.sell
    BY <2>1, <2>2, <2>3, <2>5
  <2>6. CASE ~q.buy /\ q.sell
    BY <2>1, <2>2, <2>3, <2>6
  <2>7. CASE ~q.buy /\ ~q.sell
    BY <2>1, <2>2, <2>3, <2>7
  <2> QED
    BY <2>4, <2>5, <2>6, <2>7
<1> HIDE DEF b, c
<1>3. /\ b \o c \in Seq(BOOLEAN) /\ Len(b \o c) = Len(b) + Len(c)
      /\ \A i \in 1 .. Len(b) + Len(c) : (b \o c)[i] = IF i <= Len(b) THEN b[i] ELSE c[i - Len(b)]
  BY <1>2, ConcatProperties
<1>4. Sides(q) = b \o c
  BY DEF Sides, b, c
<1>5. ASSUME NEW s \in 1 .. Len(Sides(q)) PROVE Sides(q)[s] = (q.buy /\ s = 1)
  <2>1. CASE q.buy
    BY <1>1, <1>2, <1>3, <1>4, <2>1
  <2>2. CASE ~q.buy
    BY <1>1, <1>2, <1>3, <1>4, <2>2
  <2> QED
    BY <2>1, <2>2
<1> QED
  BY <1>2, <1>3, <1>4, <1>5

\* Sides within types within regions.
ProductAt(q, i, j, s) ==
  Product(q)[(i - 1) * (Len(q.type) * Len(Sides(q))) + ((j - 1) * Len(Sides(q)) + s)]
    = OrderSet(Sides(q)[s], RegionsOf(q)[i], q.type[j])

LEMMA ProductIs ==
  ASSUME NEW q, IsRequest(q), RegionsOf(q) \in Seq(Int), q.type \in Seq(Int)
  PROVE  /\ Product(q) \in Seq(OrderSets)
         /\ Len(Product(q)) = Len(RegionsOf(q)) * (Len(q.type) * Len(Sides(q)))
         /\ \A i \in 1 .. Len(RegionsOf(q)), j \in 1 .. Len(q.type), s \in 1 .. Len(Sides(q)) :
              /\ (j - 1) * Len(Sides(q)) + s \in 1 .. Len(q.type) * Len(Sides(q))
              /\ ProductAt(q, i, j, s)
<1> DEFINE types == Len(q.type)
           sides == Len(Sides(q))
           pair(region) == [j \in DOMAIN q.type |->
                             [s \in DOMAIN Sides(q) |-> OrderSet(Sides(q)[s], region, q.type[j])]]
           ofRegion(region) == FlattenSeq(pair(region))
           all == [i \in DOMAIN RegionsOf(q) |-> ofRegion(RegionsOf(q)[i])]
<1>1. Sides(q) \in Seq(BOOLEAN) /\ types \in Nat /\ sides \in Nat /\ types * sides \in Nat
  BY SidesAre
<1>2. ASSUME NEW region \in Int
      PROVE  /\ ofRegion(region) \in Seq(OrderSets) /\ Len(ofRegion(region)) = types * sides
             /\ \A j \in 1 .. types, s \in 1 .. sides :
                  ofRegion(region)[(j - 1) * sides + s] = OrderSet(Sides(q)[s], region, q.type[j])
  <2> DEFINE ss == pair(region)
  <2>1. ss \in Seq(Rows(OrderSets, sides)) /\ Len(ss) = types
    <3>1. ASSUME NEW j \in 1 .. types PROVE ss[j] \in Rows(OrderSets, sides)
      <4> DEFINE t == [s \in 1 .. sides |-> OrderSet(Sides(q)[s], region, q.type[j])]
      <4>1. \A s \in 1 .. sides : OrderSet(Sides(q)[s], region, q.type[j]) \in OrderSets
        BY <1>1 DEF OrderSets, OrderSet
      <4>2. ss[j] = t
        <5>1. j \in DOMAIN q.type /\ DOMAIN Sides(q) = 1 .. sides
          BY <1>1
        <5>2. ss[j] = [s \in DOMAIN Sides(q) |-> OrderSet(Sides(q)[s], region, q.type[j])]
          BY <5>1
        <5> HIDE DEF ss, sides
        <5> QED
          BY <5>1, <5>2
      <4>3. t \in Seq(OrderSets) /\ Len(t) = sides
        <5> HIDE DEF sides
        <5> QED
          BY <1>1, <4>1
      <4> QED
        BY <4>2, <4>3 DEF Rows
    <3>2. ss = [j \in 1 .. types |-> ss[j]]
      OBVIOUS
    <3> HIDE DEF ss, types, sides
    <3>3. Len([j \in 1 .. types |-> ss[j]]) = types /\ [j \in 1 .. types |-> ss[j]] \in Seq(Rows(OrderSets, sides))
      BY <1>1, <3>1
    <3> QED
      BY <3>2, <3>3
  <2>2. \A j \in 1 .. types, s \in 1 .. sides :
          ss[j][s] = OrderSet(Sides(q)[s], region, q.type[j])
    BY <1>1
  <2> HIDE DEF ss, types, sides
  <2>3. FlattenSeq(ss) \in Seq(OrderSets) /\ HasRows(FlattenSeq(ss), ss, sides)
    BY <1>1, <2>1, FlattenRows
  <2>4. ofRegion(region) = FlattenSeq(ss)
    BY DEF ss
  <2> HIDE DEF ofRegion
  <2> QED
    BY <2>1, <2>2, <2>3, <2>4 DEF HasRows
<1> HIDE DEF types, sides, ofRegion
<1> DEFINE m == types * sides
<1>3. all \in Seq(Rows(OrderSets, m)) /\ Len(all) = Len(RegionsOf(q))
  <2>1. \A i \in 1 .. Len(RegionsOf(q)) : ofRegion(RegionsOf(q)[i]) \in Rows(OrderSets, m)
    BY <1>2 DEF Rows
  <2> HIDE DEF m
  <2>2. all = [i \in 1 .. Len(RegionsOf(q)) |-> ofRegion(RegionsOf(q)[i])]
    OBVIOUS
  <2> QED
    BY <2>1, <2>2
<1>4. \A i \in 1 .. Len(RegionsOf(q)) : all[i] = ofRegion(RegionsOf(q)[i]) /\ RegionsOf(q)[i] \in Int
  OBVIOUS
<1>5. Product(q) = FlattenSeq(all)
  BY DEF Product, ofRegion
<1> HIDE DEF all, m
<1>6. FlattenSeq(all) \in Seq(OrderSets) /\ HasRows(FlattenSeq(all), all, m)
  <2>1. m \in Nat
    BY <1>1 DEF m
  <2> QED
    BY <1>3, <2>1, FlattenRows
<1>7. ASSUME NEW i \in 1 .. Len(RegionsOf(q)), NEW j \in 1 .. types, NEW s \in 1 .. sides
      PROVE  /\ (j - 1) * sides + s \in 1 .. m
             /\ Product(q)[(i - 1) * m + ((j - 1) * sides + s)]
                   = OrderSet(Sides(q)[s], RegionsOf(q)[i], q.type[j])
  <2> DEFINE x == (j - 1) * sides + s
             d == types - j
  <2>1. x \in 1 .. m
    <3>1. d \in Nat /\ j - 1 \in Nat /\ types = d + (j - 1) + 1
      BY <1>1
    <3>2. d * sides \in Nat /\ (j - 1) * sides \in Nat
      BY <1>1, <3>1
    <3>3. m = d * sides + (j - 1) * sides + sides
      BY <1>1, <3>1 DEF m
    <3> HIDE DEF d
    <3>4. s <= sides /\ s \in Nat /\ s # 0
      BY <1>1
    <3> DEFINE e == d * sides
               f == (j - 1) * sides
    <3>5. e \in Nat /\ f \in Nat /\ m = e + f + sides /\ x = f + s
      BY <3>2, <3>3
    <3> HIDE DEF e, f, x
    <3> QED
      BY <1>1, <3>4, <3>5
  <2>2. all[i][x] = OrderSet(Sides(q)[s], RegionsOf(q)[i], q.type[j])
    BY <1>2, <1>4
  <2> HIDE DEF x
  <2>3. Product(q)[(i - 1) * m + x] = all[i][x]
    BY <1>3, <1>5, <1>6, <2>1 DEF HasRows
  <2> QED
    BY <2>1, <2>2, <2>3 DEF x
<1> QED
  BY <1>3, <1>5, <1>6, <1>7 DEF m, types, sides, HasRows, ProductAt

LEMMA BulkSetsType ==
  ASSUME NEW q, IsRequest(q), CheckBulk(q) = 200
  PROVE  BulkSets(q) \in Seq(OrderSets) /\ BulkSets(q) # << >>
<1>1. CASE q.order # << >>
  <2>1. \A k \in DOMAIN q.order :
          OrderSet(q.order[k].side = "buy", q.order[k].region, q.order[k].type) \in OrderSets
    BY <1>1, BulkChecked DEF OrderSet, OrderSets
  <2>2. BulkSets(q) = [k \in 1 .. Len(q.order) |->
          OrderSet(q.order[k].side = "buy", q.order[k].region, q.order[k].type)]
    BY <1>1 DEF BulkSets, IsRequest
  <2>3. Len(q.order) \in Nat /\ Len(q.order) # 0 /\ DOMAIN q.order = 1 .. Len(q.order)
    BY <1>1 DEF IsRequest
  <2>4. BulkSets(q) \in Seq(OrderSets) /\ Len(BulkSets(q)) = Len(q.order)
    BY <2>1, <2>2, <2>3
  <2> QED
    BY <2>3, <2>4
<1>2. CASE q.order = << >>
  <2>1. /\ q.buy \/ q.sell
        /\ RegionsOf(q) \in Seq(Int) /\ RegionsOf(q) # << >> /\ q.type \in Seq(Int) /\ q.type # << >>
    BY <1>2, BulkChecked
  <2>2. Product(q) \in Seq(OrderSets)
    BY <2>1, ProductIs
  <2> DEFINE r == Len(RegionsOf(q))
             t == Len(q.type)
             s == Len(Sides(q))
  <2>3. r \in Nat /\ r # 0 /\ t \in Nat /\ t # 0 /\ s \in Nat /\ s # 0
    BY <2>1 DEF Sides
  <2>4. Len(Product(q)) = r * (t * s)
    BY <2>1, ProductIs
  <2> HIDE DEF r, t, s
  <2>5. t * s \in Nat /\ t * s # 0
    BY <2>3
  <2>6. r * (t * s) # 0
    BY <2>3, <2>5
  <2>7. Product(q) # << >>
    BY <2>4, <2>6
  <2> QED
    BY <1>2, <2>2, <2>7 DEF BulkSets
<1> QED
  BY <1>1, <1>2

LEMMA HubsAre ==
  /\ Len(Hubs) \in Nat /\ Len(Hubs) > 0 /\ DOMAIN Hubs = 1 .. Len(Hubs)
  /\ \A j \in 1 .. Len(Hubs) : Hubs[j].region \in Regions /\ Hubs[j].region \in Int
<1>1. /\ Hubs # << >> /\ Hubs \in Seq([region : Regions, station : STRING])
      /\ Regions \subseteq Int
  BY DataAssumption, PagesAssumption DEF Regions
<1>2. \A j \in 1 .. Len(Hubs) : Hubs[j] \in [region : Regions, station : STRING]
  BY <1>1, ElementOfSeq
<1>3. \A j \in 1 .. Len(Hubs) : Hubs[j].region \in Regions /\ Hubs[j].region \in Int
  BY <1>1, <1>2
<1>4. Len(Hubs) \in Nat /\ Len(Hubs) > 0 /\ DOMAIN Hubs = 1 .. Len(Hubs)
  BY <1>1, EmptySeq, LenProperties
<1> QED
  BY <1>3, <1>4

LEMMA HubSetsAre ==
  ASSUME NEW q, q.type \in Seq(Int)
  PROVE  /\ HubSets(q) \in Seq(OrderSets) /\ Len(HubSets(q)) = Len(q.type) * Len(Hubs)
         /\ \A i \in 1 .. Len(q.type), j \in 1 .. Len(Hubs) :
              HubSets(q)[(i - 1) * Len(Hubs) + j]
                = OrderSet(q.path = "hub-buy-prices", Hubs[j].region, q.type[i])
<1> DEFINE buy == q.path = "hub-buy-prices"
           ss == [i \in DOMAIN q.type |-> [j \in DOMAIN Hubs |-> OrderSet(buy, Hubs[j].region, q.type[i])]]
<1>1. Len(q.type) \in Nat /\ DOMAIN q.type = 1 .. Len(q.type) /\ buy \in BOOLEAN
  OBVIOUS
<1> HIDE DEF buy
<1>2. ASSUME NEW i \in 1 .. Len(q.type) PROVE ss[i] \in Rows(OrderSets, Len(Hubs))
  <2>1. \A j \in 1 .. Len(Hubs) : OrderSet(buy, Hubs[j].region, q.type[i]) \in OrderSets
    BY <1>1, HubsAre DEF OrderSet, OrderSets
  <2>2. ss[i] = [j \in 1 .. Len(Hubs) |-> OrderSet(buy, Hubs[j].region, q.type[i])]
    BY <1>1, HubsAre
  <2>3. ss[i] \in Seq(OrderSets) /\ Len(ss[i]) = Len(Hubs)
    BY <2>1, <2>2, HubsAre
  <2> QED
    BY <2>3 DEF Rows
<1>3. ss \in Seq(Rows(OrderSets, Len(Hubs))) /\ Len(ss) = Len(q.type)
  <2>1. ss = [i \in 1 .. Len(q.type) |-> ss[i]]
    BY <1>1
  <2> HIDE DEF ss
  <2>2. /\ [i \in 1 .. Len(q.type) |-> ss[i]] \in Seq(Rows(OrderSets, Len(Hubs)))
        /\ Len([i \in 1 .. Len(q.type) |-> ss[i]]) = Len(q.type)
    BY <1>1, <1>2
  <2> QED
    BY <2>1, <2>2
<1>4. \A i \in 1 .. Len(q.type), j \in 1 .. Len(Hubs) : ss[i][j] = OrderSet(buy, Hubs[j].region, q.type[i])
  BY <1>1, HubsAre
<1>5. HubSets(q) = FlattenSeq(ss)
  BY DEF HubSets, buy
<1> HIDE DEF ss
<1>6. FlattenSeq(ss) \in Seq(OrderSets) /\ HasRows(FlattenSeq(ss), ss, Len(Hubs))
  BY <1>3, HubsAre, FlattenRows
<1> QED
  BY <1>3, <1>4, <1>5, <1>6 DEF HasRows, buy

LEMMA JitaSetsAre ==
  ASSUME NEW q, q.type \in Seq(Int)
  PROVE  /\ JitaSets(q) \in Seq(OrderSets) /\ Len(JitaSets(q)) = Len(q.type)
         /\ \A i \in 1 .. Len(q.type) : JitaSets(q)[i] = OrderSet(FALSE, Hubs[1].region, q.type[i])
<1>1. /\ Len(q.type) \in Nat /\ DOMAIN q.type = 1 .. Len(q.type)
      /\ Hubs[1].region \in Int /\ \A i \in 1 .. Len(q.type) : q.type[i] \in Int
  BY HubsAre
<1> DEFINE n == Len(q.type)
           set(i) == OrderSet(FALSE, Hubs[1].region, q.type[i])
<1>2. JitaSets(q) = [i \in 1 .. n |-> set(i)]
  BY <1>1 DEF JitaSets
<1>3. \A i \in 1 .. n : set(i) \in OrderSets
  BY <1>1 DEF OrderSet, OrderSets
<1>4. n \in Nat
  BY <1>1
<1> HIDE DEF n, set
<1>5. JitaSets(q) \in Seq(OrderSets) /\ Len(JitaSets(q)) = n /\ \A i \in 1 .. n : JitaSets(q)[i] = set(i)
  BY <1>2, <1>3, <1>4
<1> QED
  BY <1>5 DEF n, set

\* A request that is not refused has something to look up.
LEMMA SetsType ==
  ASSUME NEW q, IsRequest(q), Check(q) = 200
  PROVE  SetsOf(q) \in Seq(OrderSets) /\ SetsOf(q) # << >>
<1>1. CASE q.path = "bulk-market-orders"
  BY <1>1, BulkSetsType DEF Check, SetsOf
<1>2. CASE q.path # "bulk-market-orders"
  <2>1. CheckNumbers(q.type) = 200
    BY <1>2 DEF Check
  <2>2. q.type \in Seq(Int) /\ q.type # << >>
    BY <2>1, NumbersAreNumbers DEF IsRequest
  <2>3. Len(q.type) \in Nat /\ Len(q.type) # 0
    BY <2>2
  <2>4. JitaSets(q) \in Seq(OrderSets) /\ JitaSets(q) # << >>
    <3>1. q.type \in Seq(Int)
      BY <2>2
    <3>2. JitaSets(q) \in Seq(OrderSets)
      BY <3>1, JitaSetsAre
    <3>3. Len(JitaSets(q)) = Len(q.type)
      BY <3>1, JitaSetsAre
    <3> QED
      BY <2>3, <3>2, <3>3
  <2>5. HubSets(q) \in Seq(OrderSets) /\ HubSets(q) # << >>
    <3>1. HubSets(q) \in Seq(OrderSets) /\ Len(HubSets(q)) = Len(q.type) * Len(Hubs)
      BY <2>2, HubSetsAre
    <3> DEFINE n == Len(q.type)
               m == Len(Hubs)
    <3>2. n \in Nat /\ m \in Nat /\ n # 0 /\ m # 0
      BY <2>3, HubsAre
    <3> HIDE DEF n, m
    <3>3. n * m # 0
      BY <3>2
    <3> QED
      BY <3>1, <3>3 DEF n, m
  <2> QED
    BY <1>2, <2>4, <2>5 DEF SetsOf
<1> QED
  BY <1>1, <1>2

-----------------------------------------------------------------------------
(* What the regions hold: all orders of an id come from one download *)

IsHeld(r, id, rep) ==
  rep = Failed \/ \E v \in Versions : rep = Found(Block(r, id, v))

Holds(r, held) == \A id \in DOMAIN held : id \in Ids /\ IsHeld(r, id, held[id])

StoreInv ==
  /\ DOMAIN store = Regions /\ \A r \in Regions : Holds(r, store[r])
  /\ updating \subseteq Regions /\ \A r \in updating : staged \in Snapshots(r)
  /\ DOMAIN reply = Handlers

LEMMA SnapshotsHold == ASSUME NEW r, NEW files \in Snapshots(r) PROVE Holds(r, Served(files))
<1>1. PICK v \in Versions : files = Snapshot(r, v)
  BY DEF Snapshots
<1>2. DOMAIN Served(files) \subseteq Ids
  BY <1>1 DEF Served, Snapshot
<1>3. \A id \in DOMAIN Served(files) : Served(files)[id] = Found(Block(r, id, v))
  BY <1>1 DEF Served, Snapshot
<1> QED
  BY <1>2, <1>3 DEF Holds, IsHeld

LEMMA NothingHolds == ASSUME NEW r PROVE Holds(r, Nothing)
BY DEF Holds, Nothing

LEMMA BrokenHolds ==
  ASSUME NEW r, NEW held, \A id \in DOMAIN held : id \in Ids PROVE Holds(r, Broken(held))
BY DEF Holds, Broken, IsHeld

LEMMA StoreAtFirst == Init => StoreInv
BY NothingHolds DEF Init, StoreInv

LEMMA StoreKept == StoreInv /\ UNCHANGED vars => StoreInv'
BY DEF StoreInv, vars

LEMMA BreakKeeps ==
  ASSUME StoreInv, NEW r \in Regions, Break(r), DOMAIN reply' = Handlers PROVE StoreInv'
<1>1. Holds(r, Broken(store[r]))
  BY BrokenHolds DEF StoreInv, Holds
<1> QED
  BY <1>1 DEF StoreInv, Break

LEMMA UpdatesKeep == ASSUME StoreInv, Updates PROVE StoreInv'
<1>1. ASSUME NEW r \in Regions, NEW files \in Snapshots(r), Stage(files) PROVE StoreInv'
  BY <1>1 DEF StoreInv, Stage
<1>2. ASSUME NEW r \in Regions, BeginUpdate(r) PROVE StoreInv'
  BY <1>2, NothingHolds DEF StoreInv, BeginUpdate
<1>3. ASSUME NEW r \in Regions, EndUpdate(r) PROVE StoreInv'
  <2>1. PICK held \in {Served(staged), Nothing, Broken(staged)} : store' = [store EXCEPT ![r] = held]
    BY <1>3 DEF EndUpdate
  <2>2. Holds(r, Served(staged)) /\ DOMAIN Served(staged) = DOMAIN staged
    BY <1>3, SnapshotsHold DEF StoreInv, EndUpdate, Served
  <2>3. Holds(r, held)
    BY <2>2, NothingHolds, BrokenHolds DEF Holds
  <2> QED
    BY <1>3, <2>1, <2>3 DEF StoreInv, EndUpdate
<1>4. ASSUME NEW r \in Regions, BreakWhileScanning(r) PROVE StoreInv'
  BY <1>4, BreakKeeps DEF StoreInv, BreakWhileScanning
<1> QED
  BY <1>1, <1>2, <1>3, <1>4 DEF Updates

\* What a lookup may be told.
IsReplyTo(set, rep) ==
  /\ rep \in Reply /\ rep.status \in {"ok", "error"}
  /\ rep.status = "ok" => rep.orders \in OneDownload(set.buy, set.region, set.type)

LEMMA BlockType ==
  ASSUME NEW r \in Regions, NEW id \in Ids, NEW v \in Versions
  PROVE  Block(r, id, v) \in Seq(Order)
<1> DEFINE n == NumOrders[v][id]
<1>1. n \in Nat
  BY ContentsAssumption
<1>2. \A k \in 1 .. n : [region |-> r, id |-> id, ver |-> v, n |-> k] \in Order
  BY <1>1 DEF Order
<1> HIDE DEF n
<1> QED
  BY <1>1, <1>2 DEF Block, n

LEMMA GetOrdersReplies ==
  ASSUME StoreInv, NEW h \in Handlers, NEW set \in OrderSets, GetOrders(h, set)
  PROVE  StoreInv' /\ IsReplyTo(set, reply'[h])
<1> DEFINE r == set.region
           id == IF set.buy THEN -set.type ELSE set.type
<1>1. Failed \in Reply /\ Failed.status = "error"
  BY DEF Failed, Reply
<1>2. CASE r \notin Regions
  BY <1>1, <1>2 DEF GetOrders, AnswerUnknownRegion, StoreInv, IsReplyTo
<1>3. CASE r \in Regions /\ BreakWhileReading(h, r)
  <2>1. DOMAIN reply' = Handlers /\ reply'[h] = Failed
    BY <1>3 DEF BreakWhileReading, StoreInv
  <2> QED
    BY <1>1, <1>3, <2>1, BreakKeeps DEF BreakWhileReading, IsReplyTo
<1>4. CASE r \in Regions /\ Answer(h, r, id)
  <2>1. StoreInv' /\ reply'[h] = Lookup(store[r], id) /\ Holds(r, store[r])
    BY <1>4 DEF Answer, StoreInv
  <2>2. CASE id \in DOMAIN store[r]
    <3>1. Lookup(store[r], id) = store[r][id] /\ IsHeld(r, id, store[r][id]) /\ id \in Ids
      BY <2>1, <2>2 DEF Lookup, Holds
    <3>2. CASE store[r][id] = Failed
      BY <1>1, <2>1, <3>1, <3>2 DEF IsReplyTo
    <3>3. CASE store[r][id] # Failed
      <4>1. PICK v \in Versions : store[r][id] = Found(Block(r, id, v))
        BY <3>1, <3>3 DEF IsHeld
      <4>2. Block(r, id, v) \in Seq(Order)
        BY <1>4, <3>1, BlockType
      <4>3. Block(r, id, v) \in OneDownload(set.buy, r, set.type)
        BY <3>1 DEF OneDownload
      <4> HIDE DEF id, r
      <4> QED
        BY <2>1, <3>1, <4>1, <4>2, <4>3 DEF IsReplyTo, Reply, Found, r
    <3> QED
      BY <3>2, <3>3
  <2>3. CASE id \notin DOMAIN store[r]
    <3>3. << >> \in OneDownload(set.buy, r, set.type)
      BY DEF OneDownload
    <3>4. Lookup(store[r], id) = Found(<< >>)
      BY <2>3 DEF Lookup
    <3>5. Found(<< >>) \in Reply /\ Found(<< >>).status = "ok" /\ Found(<< >>).orders = << >>
      BY DEF Reply, Found
    <3> HIDE DEF id, r
    <3> QED
      BY <2>1, <3>3, <3>4, <3>5 DEF IsReplyTo, r
  <2> QED
    BY <2>1, <2>2, <2>3
<1> QED
  BY <1>2, <1>3, <1>4 DEF GetOrders

-----------------------------------------------------------------------------
(* Sequences of calls of the writer *)

IsSeq(w) == \E X : w \in Seq(X)

\* v is w and then x, or w and then t.
Extends(v, w, x) ==
  /\ Len(w) \in Nat /\ Len(v) = Len(w) + 1 /\ v # << >>
  /\ v[Len(w) + 1] = x /\ \A i \in 1 .. Len(w) : v[i] = w[i]

Joins(v, w, t) ==
  /\ Len(w) \in Nat /\ Len(t) \in Nat /\ Len(v) = Len(w) + Len(t)
  /\ \A i \in 1 .. Len(w) : v[i] = w[i]
  /\ \A i \in 1 .. Len(t) : v[Len(w) + i] = t[i]

LEMMA AppendIsSeq ==
  ASSUME NEW w, IsSeq(w), NEW x
  PROVE  IsSeq(Append(w, x)) /\ Extends(Append(w, x), w, x)
<1>1. PICK Y : w \in Seq(Y)
  BY DEF IsSeq
<1> DEFINE X == Y \cup {x}
<1>2. w \in Seq(X) /\ x \in X
  <2>1. \A i \in 1 .. Len(w) : w[i] \in X
    BY <1>1
  <2> QED
    BY <1>1, <2>1
<1> HIDE DEF X
<1>3. Append(w, x) \in Seq(X)
  BY <1>2
<1> QED
  BY <1>2, <1>3 DEF IsSeq, Extends

LEMMA ConcatOne == ASSUME NEW w, IsSeq(w), NEW a PROVE w \o <<a>> = Append(w, a)
BY DEF IsSeq

LEMMA ConcatPlaces ==
  ASSUME NEW w, IsSeq(w), NEW t, IsSeq(t)
  PROVE  IsSeq(w \o t) /\ Joins(w \o t, w, t)
<1>1. PICK X : w \in Seq(X)
  BY DEF IsSeq
<1>2. PICK Y : t \in Seq(Y)
  BY DEF IsSeq
<1> DEFINE Z == X \cup Y
<1>3. w \in Seq(Z) /\ t \in Seq(Z)
  <2>1. (\A i \in 1 .. Len(w) : w[i] \in Z) /\ \A i \in 1 .. Len(t) : t[i] \in Z
    BY <1>1, <1>2
  <2> QED
    BY <1>1, <1>2, <2>1
<1> HIDE DEF Z
<1>4. /\ w \o t \in Seq(Z) /\ Len(w \o t) = Len(w) + Len(t) /\ Len(w) \in Nat /\ Len(t) \in Nat
      /\ \A i \in 1 .. Len(w) + Len(t) : (w \o t)[i] = IF i <= Len(w) THEN w[i] ELSE t[i - Len(w)]
  BY <1>3, ConcatProperties
<1> DEFINE m == Len(w)
           n == Len(t)
           wt == w \o t
<1> HIDE DEF m, n, wt
<1>5. m \in Nat /\ n \in Nat /\ \A i \in 1 .. m + n : wt[i] = IF i <= m THEN w[i] ELSE t[i - m]
  BY <1>4 DEF m, n, wt
<1>6. \A i \in 1 .. m : wt[i] = w[i]
  BY <1>5
<1>7. ASSUME NEW i \in 1 .. n PROVE wt[m + i] = t[i]
  <2>1. m + i \in 1 .. m + n /\ ~(m + i <= m) /\ (m + i) - m = i
    BY <1>5
  <2> QED
    BY <1>5, <2>1
<1> QED
  BY <1>4, <1>6, <1>7 DEF IsSeq, Joins, m, n, wt

LEMMA ConcatAppend ==
  ASSUME NEW w, IsSeq(w), NEW t, IsSeq(t), NEW a PROVE w \o Append(t, a) = Append(w \o t, a)
<1>1. PICK X : w \in Seq(X)
  BY DEF IsSeq
<1>2. PICK Y : t \in Seq(Y)
  BY DEF IsSeq
<1> DEFINE Z == X \cup Y \cup {a}
<1>3. w \in Seq(Z) /\ t \in Seq(Z) /\ a \in Z
  <2>1. (\A i \in 1 .. Len(w) : w[i] \in Z) /\ \A i \in 1 .. Len(t) : t[i] \in Z
    BY <1>1, <1>2
  <2> QED
    BY <1>1, <1>2, <2>1
<1> HIDE DEF Z
<1>4. w \o t \in Seq(Z) /\ Append(t, a) = t \o <<a>> /\ <<a>> \in Seq(Z)
  BY <1>3
<1>5. (w \o t) \o <<a>> = w \o (t \o <<a>>)
  BY <1>3, <1>4, ConcatAssociative
<1>6. (w \o t) \o <<a>> = Append(w \o t, a)
  BY <1>3, <1>4
<1> QED
  BY <1>4, <1>5, <1>6

\* What is open after the calls.
Open(w) == J!Fold(w)

LEMMA IsJsonIfClosed == ASSUME NEW body PROVE IsJson(body) <=> Open(body) = << >>
BY DEF IsJson, Open, J!Fold, FoldLeft, J!FoldLeft, MapThenFoldSet, J!MapThenFoldSet, Max, J!Max

LEMMA OpenAppend == ASSUME NEW w, IsSeq(w), NEW x PROVE Open(Append(w, x)) = Takes(Open(w), x)
BY J!FoldAppend DEF Open, IsSeq

LEMMA OpenAtFirst == Open(<< >>) = <<"value">> /\ IsSeq(<< >>)
<1>1. << >> \in Seq({})
  OBVIOUS
<1> QED
  BY <1>1, J!FoldEmpty DEF Open, IsSeq

-----------------------------------------------------------------------------
(* What a lookup finds *)

Distinct(s) == \A i, j \in 1 .. Len(s) : s[i] = s[j] => i = j

\* What a lookup finds: no order twice, each of them an order of the market.
LEMMA DownloadOrders ==
  ASSUME NEW buy, NEW region, NEW type, NEW orders \in OneDownload(buy, region, type), orders \in Seq(Order)
  PROVE  /\ Distinct(orders)
         /\ \A o \in Range(orders) : PriceOf(o) \in Int /\ VolumeOf(o) \in Nat
<1> DEFINE id == IF buy THEN -type ELSE type
<1>1. CASE orders = << >>
  <2>1. DOMAIN orders = {} /\ Len(orders) = 0
    BY <1>1
  <2> QED
    BY <2>1 DEF Distinct, Range
<1>2. CASE orders # << >>
  <2>1. PICK v \in Versions : id \in Ids /\ orders = Block(region, id, v)
    BY <1>2 DEF OneDownload
  <2> HIDE DEF id
  <2>2. NumOrders[v][id] \in Nat
    BY <2>1, ContentsAssumption
  <2> DEFINE n == NumOrders[v][id]
  <2>3. /\ DOMAIN orders = 1 .. n /\ Len(orders) = n /\ n \in Nat
        /\ \A k \in 1 .. n : orders[k] = [region |-> region, id |-> id, ver |-> v, n |-> k]
    BY <2>1, <2>2 DEF Block
  <2> HIDE DEF n
  <2>4. Distinct(orders)
    <3>1. \A k \in 1 .. n : orders[k].n = k
      BY <2>3
    <3> QED
      BY <2>3, <3>1 DEF Distinct
  <2>5. ASSUME NEW o \in Range(orders) PROVE PriceOf(o) \in Int /\ VolumeOf(o) \in Nat
    <3>1. PICK k \in 1 .. n : o = orders[k]
      BY <2>3 DEF Range
    <3>2. o \in Order /\ o.region = region
      BY <2>3, <3>1
    <3>3. region \in Regions
      BY <3>2 DEF Order
    <3> QED
      BY <2>1, <3>3, PagesAssumption
  <2> QED
    BY <2>4, <2>5
<1> QED
  BY <1>1, <1>2

-----------------------------------------------------------------------------
(* What the hub pages find *)

LEMMA DivMod ==
  ASSUME NEW n \in Int, NEW b \in Int, b > 0
  PROVE  n = b * (n \div b) + (n % b) /\ n % b \in Nat /\ n % b < b /\ n \div b \in Int
BY Z3

\* n is j of b, after i times b.
Placed(n, b, i, j) == i \in Nat /\ j \in Nat /\ j < b /\ n = i * b + j

LEMMA PlacedOnce ==
  ASSUME NEW b \in Nat, b > 0, NEW n, NEW i, NEW j, Placed(n, b, i, j)
  PROVE  n \div b = i /\ n % b = j
<1>1. i \in Nat /\ j \in Nat /\ j < b /\ n = i * b + j
  BY DEF Placed
<1>2. (i * b + j) \div b = i /\ (i * b + j) % b = j
  BY <1>1
<1> QED
  BY <1>1, <1>2

LEMMA LessByFactor ==
  ASSUME NEW a \in Nat, NEW b \in Nat, NEW c \in Nat, c > 0, a * c < b * c
  PROVE  a < b
OBVIOUS

LEMMA PlacedFits ==
  ASSUME NEW b \in Nat, b > 0, NEW n, NEW i, NEW j, Placed(n, b, i, j), NEW c \in Nat, n < c * b
  PROVE  i < c
<1>1. i \in Nat /\ j \in Nat /\ n = i * b + j
  BY DEF Placed
<1>2. i * b < c * b
  <2>1. i * b \in Nat /\ c * b \in Nat
    BY <1>1
  <2> QED
    BY <1>1, <2>1
<1> QED
  BY <1>1, <1>2, LessByFactor

LEMMA PlacedSomewhere ==
  ASSUME NEW n \in Nat, NEW b \in Nat, b > 0
  PROVE  \E i, j : Placed(n, b, i, j)
<1>1. n = b * (n \div b) + (n % b) /\ n % b \in Nat /\ n % b < b /\ n \div b \in Int
  BY DivMod
<1>2. ASSUME NEW d \in Int, d < 0 PROVE b * d <= -b
  <2>1. b * (-1 - d) >= 0
    BY <1>2
  <2> QED
    BY <1>2, <2>1
<1>3. ASSUME NEW d \in Int, NEW m \in Nat, n = b * d + m, m < b PROVE d \in Nat /\ b * d = d * b
  BY <1>2, <1>3
<1> QED
  BY <1>1, <1>3 DEF Placed

\* b is the best of the prices, or nothing if there are none.
IsBest(buy, prices, b) ==
  IF prices = {} THEN b = << >>
  ELSE \E p \in prices : b = <<p>> /\ \A x \in prices : IF buy THEN p >= x ELSE p <= x

NextBest(buy, station, o, b) ==
  IF StationOf(o) = station /\ (b # << >> => Better(buy, PriceOf(o), b[1])) THEN <<PriceOf(o)>> ELSE b

LEMMA NextIsBest ==
  ASSUME NEW buy, NEW station, NEW prices, \A p \in prices : p \in Int, NEW b, IsBest(buy, prices, b),
         NEW o, PriceOf(o) \in Int
  PROVE  IsBest(buy, prices \cup (IF StationOf(o) = station THEN {PriceOf(o)} ELSE {}),
                NextBest(buy, station, o, b))
<1> DEFINE x == PriceOf(o)
<1>1. CASE StationOf(o) # station
  BY <1>1 DEF NextBest
<1>2. CASE StationOf(o) = station /\ prices = {}
  <2>1. NextBest(buy, station, o, b) = <<x>>
    BY <1>2 DEF NextBest, IsBest
  <2>2. IsBest(buy, {x}, <<x>>)
    BY DEF IsBest
  <2> QED
    BY <1>2, <2>1, <2>2
<1>3. CASE StationOf(o) = station /\ prices # {}
  <2>1. PICK p \in prices : b = <<p>> /\ \A y \in prices : IF buy THEN p >= y ELSE p <= y
    BY <1>3 DEF IsBest
  <2>2. /\ b # << >> /\ b[1] = p /\ p \in Int
        /\ NextBest(buy, station, o, b) = IF Better(buy, x, p) THEN <<x>> ELSE b
    BY <1>3, <2>1 DEF NextBest
  <2> HIDE DEF x
  <2>3. x \in Int
    BY DEF x
  <2>4. CASE Better(buy, x, p)
    <3>1. \A y \in prices \cup {x} : IF buy THEN x >= y ELSE x <= y
      BY <2>1, <2>2, <2>3, <2>4 DEF Better
    <3>2. IsBest(buy, prices \cup {x}, <<x>>)
      BY <3>1 DEF IsBest
    <3> QED
      BY <1>3, <2>2, <2>4, <3>2 DEF x
  <2>5. CASE ~Better(buy, x, p)
    <3>1. \A y \in prices \cup {x} : IF buy THEN p >= y ELSE p <= y
      BY <2>1, <2>2, <2>3, <2>5 DEF Better
    <3>2. IsBest(buy, prices \cup {x}, b)
      BY <2>1, <3>1 DEF IsBest
    <3> QED
      BY <1>3, <2>2, <2>5, <3>2 DEF x
  <2> QED
    BY <2>4, <2>5
<1> QED
  BY <1>1, <1>2, <1>3

\* The prices at the station.
PricesAt(station, orders)       == {PriceOf(o) : o \in {x \in Range(orders) : StationOf(x) = station}}
FirstPrices(station, orders, n) == {PriceOf(orders[k]) : k \in {m \in 1 .. n : StationOf(orders[m]) = station}}

LEMMA BestIsBest ==
  ASSUME NEW buy, NEW station, NEW X, NEW orders \in Seq(X), \A o \in Range(orders) : PriceOf(o) \in Int
  PROVE  IsBest(buy, PricesAt(station, orders), Best(buy, station, orders))
<1> DEFINE n == Len(orders)
           B == {<< >>} \cup {<<p>> : p \in Int}
           step == [t \in Nat \X B |->
                      IF t[1] \in 1 .. n THEN NextBest(buy, station, orders[t[1]], t[2]) ELSE t[2]]
           best == CHOOSE f : f = [k \in 0 .. n |-> IF k = 0 THEN << >>
                     ELSE IF /\ StationOf(orders[k]) = station
                             /\ f[k - 1] # << >> => Better(buy, PriceOf(orders[k]), f[k - 1][1])
                          THEN <<PriceOf(orders[k])>> ELSE f[k - 1]]
           N == {k \in Nat : k \in 0 .. n => IsBest(buy, FirstPrices(station, orders, k), best[k])}
<1>1. /\ n \in Nat /\ DOMAIN orders = 1 .. n
      /\ \A k \in 1 .. n : orders[k] \in Range(orders) /\ PriceOf(orders[k]) \in Int
  <2>1. n \in Nat /\ DOMAIN orders = 1 .. n
    OBVIOUS
  <2>2. \A k \in 1 .. n : orders[k] \in Range(orders)
    BY <2>1 DEF Range
  <2> QED
    BY <2>1, <2>2
<1>2. Best(buy, station, orders) = best[n]
  BY DEF Best
<1>3. \A k \in 1 .. n, b \in B : NextBest(buy, station, orders[k], b) \in B
  BY <1>1 DEF NextBest
<1>4. step \in [Nat \X B -> B] /\ << >> \in B
  <2> HIDE DEF n, B
  <2>1. \A t \in Nat \X B : (IF t[1] \in 1 .. n THEN NextBest(buy, station, orders[t[1]], t[2]) ELSE t[2]) \in B
    BY <1>3
  <2> QED
    BY <2>1 DEF B
<1> HIDE DEF B
<1>5. \A k \in 1 .. n, b \in B : step[<<k, b>>] = NextBest(buy, station, orders[k], b)
  BY <1>1
<1> HIDE DEF step, n
<1>6. \E f \in [0 .. n -> B] : J!Loop(f, 0, n, << >>, step)
  <2> DEFINE first == << >>
             zero == 0
  <2>1. first \in B /\ zero \in Nat /\ zero <= n /\ n \in Nat
    BY <1>1, <1>4
  <2> HIDE DEF first, zero
  <2>2. \E f \in [zero .. n -> B] : J!Loop(f, zero, n, first, step)
    BY <1>4, <2>1, J!Recursion
  <2> QED
    BY <2>2 DEF first, zero
<1>7. PICK f \in [0 .. n -> B] : f = [k \in 0 .. n |-> IF k = 0 THEN << >> ELSE step[<<k, f[k - 1]>>]]
  BY <1>6 DEF J!Loop
<1>8. ASSUME NEW k \in 0 .. n
      PROVE  f[k] = IF k = 0 THEN << >> ELSE NextBest(buy, station, orders[k], f[k - 1])
  <2>1. CASE k = 0
    BY <1>7, <2>1
  <2>2. CASE k # 0
    <3>1. k \in 1 .. n /\ k - 1 \in 0 .. n
      BY <1>1, <2>2
    <3>2. f[k - 1] \in B
      BY <3>1
    <3>3. step[<<k, f[k - 1]>>] = NextBest(buy, station, orders[k], f[k - 1])
      BY <1>5, <3>1, <3>2
    <3> QED
      BY <1>7, <2>2, <3>3
  <2> QED
    BY <2>1, <2>2
<1>9. f = [k \in 0 .. n |-> IF k = 0 THEN << >>
            ELSE IF /\ StationOf(orders[k]) = station
                    /\ f[k - 1] # << >> => Better(buy, PriceOf(orders[k]), f[k - 1][1])
                 THEN <<PriceOf(orders[k])>> ELSE f[k - 1]]
  <2>1. f = [k \in 0 .. n |-> f[k]]
    OBVIOUS
  <2> QED
    BY <1>8, <2>1, Zenon DEF NextBest
<1>10. best = [k \in 0 .. n |-> IF k = 0 THEN << >>
            ELSE IF /\ StationOf(orders[k]) = station
                    /\ best[k - 1] # << >> => Better(buy, PriceOf(orders[k]), best[k - 1][1])
                 THEN <<PriceOf(orders[k])>> ELSE best[k - 1]]
  BY <1>9
<1> HIDE DEF best
<1>11. \A k \in 1 .. n : best[k] = NextBest(buy, station, orders[k], best[k - 1])
  <2>1. \A k \in 1 .. n : k \in 0 .. n /\ k # 0
    BY <1>1
  <2> QED
    BY <1>10, <2>1 DEF NextBest
<1>12. 0 \in N
  <2>1. best[0] = << >> /\ FirstPrices(station, orders, 0) = {}
    BY <1>1, <1>10 DEF FirstPrices
  <2> QED
    BY <2>1 DEF IsBest
<1>13. ASSUME NEW k \in N PROVE k + 1 \in N
  <2> SUFFICES ASSUME k + 1 \in 0 .. n PROVE IsBest(buy, FirstPrices(station, orders, k + 1), best[k + 1])
    OBVIOUS
  <2> DEFINE P == FirstPrices(station, orders, k)
             o == orders[k + 1]
  <2>1. k \in Nat /\ k \in 0 .. n /\ k + 1 \in 1 .. n /\ (k + 1) - 1 = k
    BY <1>1
  <2>2. IsBest(buy, P, best[k])
    BY <2>1
  <2>3. best[k + 1] = NextBest(buy, station, o, best[k])
    BY <1>11, <2>1
  <2>4. \A p \in P : p \in Int
    <3>1. \A m \in 1 .. k : m \in 1 .. n
      BY <1>1, <2>1
    <3> QED
      BY <1>1, <3>1 DEF FirstPrices
  <2>5. FirstPrices(station, orders, k + 1) = P \cup (IF StationOf(o) = station THEN {PriceOf(o)} ELSE {})
    <3>1. 1 .. k + 1 = (1 .. k) \cup {k + 1}
      BY <2>1
    <3> QED
      BY <3>1 DEF FirstPrices
  <2>6. PriceOf(o) \in Int
    BY <1>1, <2>1
  <2> HIDE DEF P, o
  <2>7. IsBest(buy, P \cup (IF StationOf(o) = station THEN {PriceOf(o)} ELSE {}), NextBest(buy, station, o, best[k]))
    BY <2>2, <2>4, <2>6, NextIsBest
  <2> QED
    BY <2>3, <2>5, <2>7
<1>14. IsBest(buy, FirstPrices(station, orders, n), best[n])
  <2>1. N \in SUBSET Nat
    OBVIOUS
  <2>2. N = Nat
    <3> HIDE DEF N
    <3> QED
      BY <1>12, <1>13, <2>1, J!NatSets
  <2>3. n \in N
    BY <1>1, <2>2
  <2> QED
    BY <1>1, <2>3
<1>15. FirstPrices(station, orders, n) = PricesAt(station, orders)
  BY <1>1 DEF FirstPrices, PricesAt, Range
<1> QED
  BY <1>2, <1>14, <1>15

LEMMA BestOfIs ==
  ASSUME NEW buy, NEW prices, \A p \in prices : p \in Int, prices # {}, NEW b, IsBest(buy, prices, b)
  PROVE  b = <<BestOf(buy, prices)>>
<1>1. PICK p \in prices : b = <<p>> /\ \A x \in prices : IF buy THEN p >= x ELSE p <= x
  BY DEF IsBest
<1> DEFINE c == BestOf(buy, prices)
<1>2. c \in prices /\ \A x \in prices : IF buy THEN c >= x ELSE c <= x
  BY <1>1 DEF BestOf
<1> HIDE DEF c
<1>3. c = p
  <2>1. c \in Int /\ p \in Int
    BY <1>2
  <2> QED
    BY <1>1, <1>2, <2>1
<1> QED
  BY <1>1, <1>3 DEF c

KeyPlaces(w, n) == {m \in 1 .. n : w[m][1] = "key"}
Keys(w, n)      == Cardinality(KeyPlaces(w, n))
Props(w, i)     == {w[n] : n \in {m \in DOMAIN w : w[m][1] = "prop" /\ Keys(w, m) = i}}

KeysIn(w)       == Keys(w, Len(w))
SameProps(v, w) == \A i : Props(v, i) = Props(w, i)

LEMMA KeysAppend ==
  ASSUME NEW w, IsSeq(w), NEW c
  PROVE  /\ KeysIn(w) \in Nat /\ \A m \in 1 .. Len(w) : Keys(Append(w, c), m) = Keys(w, m)
         /\ KeysIn(Append(w, c)) = IF c[1] = "key" THEN KeysIn(w) + 1 ELSE KeysIn(w)
<1> DEFINE v == Append(w, c)
           n == Len(w)
<1>1. Extends(v, w, c)
  BY AppendIsSeq
<1> HIDE DEF v
<1>2. n \in Nat /\ Len(v) = n + 1 /\ v[n + 1] = c /\ \A i \in 1 .. n : v[i] = w[i]
  BY <1>1 DEF Extends
<1> HIDE DEF n
<1>3. ASSUME NEW m \in 0 .. n PROVE KeyPlaces(v, m) = KeyPlaces(w, m)
  <2>1. \A k \in 1 .. m : v[k] = w[k]
    BY <1>2
  <2> QED
    BY <2>1 DEF KeyPlaces
<1>4. IsFiniteSet(KeyPlaces(w, n)) /\ Cardinality(KeyPlaces(w, n)) \in Nat
  <2>1. IsFiniteSet(1 .. n) /\ KeyPlaces(w, n) \subseteq 1 .. n
    BY <1>2, FS_Interval DEF KeyPlaces
  <2> QED
    BY <2>1, FS_Subset, FS_CardinalityType
<1>5. KeyPlaces(v, n + 1) = KeyPlaces(w, n) \cup (IF c[1] = "key" THEN {n + 1} ELSE {})
  <2>1. 1 .. n + 1 = (1 .. n) \cup {n + 1}
    BY <1>2
  <2>2. KeyPlaces(v, n + 1) = KeyPlaces(v, n) \cup (IF c[1] = "key" THEN {n + 1} ELSE {})
    BY <1>2, <2>1 DEF KeyPlaces
  <2> QED
    BY <1>2, <1>3, <2>2
<1>6. n + 1 \notin KeyPlaces(w, n)
  BY <1>2 DEF KeyPlaces
<1>7. Cardinality(KeyPlaces(w, n) \cup {n + 1}) = Cardinality(KeyPlaces(w, n)) + 1
  BY <1>4, <1>6, FS_AddElement
<1>8. Keys(v, n + 1) = IF c[1] = "key" THEN Keys(w, n) + 1 ELSE Keys(w, n)
  <2>1. CASE c[1] = "key"
    BY <1>5, <1>7, <2>1 DEF Keys
  <2>2. CASE c[1] # "key"
    <3>1. KeyPlaces(v, n + 1) = KeyPlaces(w, n)
      BY <1>5, <2>2
    <3> QED
      BY <2>2, <3>1 DEF Keys
  <2> QED
    BY <2>1, <2>2
<1>9. \A m \in 1 .. n : Keys(v, m) = Keys(w, m)
  BY <1>2, <1>3 DEF Keys
<1> QED
  BY <1>2, <1>4, <1>8, <1>9 DEF KeysIn, Keys, v, n

LEMMA PropsAppend ==
  ASSUME NEW w, IsSeq(w), NEW c, NEW i
  PROVE  Props(Append(w, c), i) = Props(w, i) \cup (IF c[1] = "prop" /\ KeysIn(w) = i THEN {c} ELSE {})
<1> DEFINE v == Append(w, c)
           n == Len(w)
<1>1. Extends(v, w, c) /\ IsSeq(v)
  BY AppendIsSeq
<1>2. /\ \A m \in 1 .. n : Keys(v, m) = Keys(w, m)
      /\ KeysIn(v) = IF c[1] = "key" THEN KeysIn(w) + 1 ELSE KeysIn(w)
  BY KeysAppend
<1> HIDE DEF v
<1>3. n \in Nat /\ Len(v) = n + 1 /\ v[n + 1] = c /\ \A m \in 1 .. n : v[m] = w[m]
  BY <1>1 DEF Extends
<1>4. DOMAIN w = 1 .. n /\ DOMAIN v = 1 .. n + 1
  BY <1>1, <1>3 DEF IsSeq
<1>5. c[1] = "prop" => Keys(v, n + 1) = KeysIn(w)
  BY <1>2, <1>3 DEF KeysIn
<1>6. 1 .. n + 1 = (1 .. n) \cup {n + 1}
  BY <1>3
<1> HIDE DEF n
<1>7. {m \in DOMAIN v : v[m][1] = "prop" /\ Keys(v, m) = i}
        = {m \in DOMAIN w : w[m][1] = "prop" /\ Keys(w, m) = i}
            \cup (IF c[1] = "prop" /\ KeysIn(w) = i THEN {n + 1} ELSE {})
  BY <1>2, <1>3, <1>4, <1>5, <1>6
<1> QED
  BY <1>3, <1>4, <1>7 DEF Props, v

\* What one call adds to w.
Adds(v, w, c) ==
  /\ KeysIn(w) \in Nat
  /\ c[1] = "key" => KeysIn(v) = KeysIn(w) + 1 /\ SameProps(v, w)
  /\ c[1] = "prop" =>
       KeysIn(v) = KeysIn(w) /\ \A i : Props(v, i) = Props(w, i) \cup (IF KeysIn(w) = i THEN {c} ELSE {})
  /\ c[1] \notin {"key", "prop"} => KeysIn(v) = KeysIn(w) /\ SameProps(v, w)

LEMMA CallAdds ==
  ASSUME NEW w, IsSeq(w), NEW c PROVE Adds(Append(w, c), w, c) /\ IsSeq(Append(w, c))
<1>1. /\ KeysIn(w) \in Nat
      /\ KeysIn(Append(w, c)) = IF c[1] = "key" THEN KeysIn(w) + 1 ELSE KeysIn(w)
  BY KeysAppend
<1>2. \A i : Props(Append(w, c), i) = Props(w, i) \cup (IF c[1] = "prop" /\ KeysIn(w) = i THEN {c} ELSE {})
  BY PropsAppend
<1> QED
  BY <1>1, <1>2, AppendIsSeq DEF SameProps, Adds

-----------------------------------------------------------------------------
(* The members of an object *)

Collect(found, call) == IF call[1] \in {"key", "prop"} THEN Append(found, call) ELSE found

M == INSTANCE FoldLemmas WITH Op <- Collect, Base <- << >>

LEMMA MembersAre ==
  /\ Members(<< >>) = << >>
  /\ \A w, c : IsSeq(w) => Members(Append(w, c)) = Collect(Members(w), c)
<1>1. \A w : Members(w) = M!Fold(w)
  BY DEF Members, Collect, M!Fold, FoldLeft, M!FoldLeft, MapThenFoldSet, M!MapThenFoldSet, Max, M!Max
<1>2. M!Fold(<< >>) = << >>
  BY M!FoldEmpty
<1>3. ASSUME NEW w, NEW c, IsSeq(w) PROVE M!Fold(Append(w, c)) = Collect(M!Fold(w), c)
  BY <1>3, M!FoldAppend DEF IsSeq
<1> QED
  BY <1>1, <1>2, <1>3

-----------------------------------------------------------------------------
(* How far a page has come *)

\* rs are replies to the first of ss, and none is an error.
Replied(ss, rs) ==
  /\ rs \in Seq(Reply) /\ Len(rs) <= Len(ss)
  /\ \A n \in 1 .. Len(rs) :
       rs[n].status = "ok" /\ rs[n].orders \in OneDownload(ss[n].buy, ss[n].region, ss[n].type)

\* Each page but those of the hubs is in its outermost array or object.
JsonSoFar(q, w) ==
  q.path \notin HubPaths => Open(w) = IF q.path = "jita-5p-sell" THEN <<"object">> ELSE <<"array">>

BulkSoFar(q, rs, w) ==
  q.path = "bulk-market-orders" =>
    /\ Len(w) = 6 * Len(rs) + 1
    /\ \A n \in 1 .. Len(rs), c \in 1 .. 6 : w[6 * n - 5 + c] = BulkEntry(SetsOf(q)[n], rs[n].orders)[c]

JitaSoFar(q, rs, w) ==
  q.path = "jita-5p-sell" =>
    /\ IsSeq(Members(w)) /\ Len(Members(w)) = Len(rs)
    /\ \A n \in 1 .. Len(rs) : Members(w)[n] = JitaEntry(SetsOf(q)[n], rs[n].orders)[1]

\* The lookup for hub j of the i-th type, and what it gives.
HubPlace(i, j) == (i - 1) * Len(Hubs) + j

HubBest(q, rs, i, j) == Best(q.path = "hub-buy-prices", Hubs[j].station, rs[HubPlace(i, j)].orders)

HubsPriced(q, rs, i) == {j \in 1 .. Len(Hubs) : HubPlace(i, j) <= Len(rs) /\ HubBest(q, rs, i, j) # << >>}

HubProps(q, rs, i) == {Prop(ToString(Hubs[j].region), HubBest(q, rs, i, j)[1]) : j \in HubsPriced(q, rs, i)}

\* A hub page has begun as many members as types, and each has the prices found.
HubKeys(rs, w) ==
  \E i, j : Placed(Len(rs), Len(Hubs), i, j) /\ KeysIn(w) = IF j = 0 THEN i ELSE i + 1

HubSoFar(q, rs, w) ==
  q.path \in HubPaths =>
    HubKeys(rs, w) /\ \A i \in Nat \ {0} : Props(w, i) = HubProps(q, rs, i)

\* w is what page q has written when rs are the replies it was given.
Writes(q, rs, w) ==
  /\ IsSeq(w) /\ w # << >>
  /\ JsonSoFar(q, w) /\ BulkSoFar(q, rs, w) /\ JitaSoFar(q, rs, w) /\ HubSoFar(q, rs, w)

LEMMA PathsServed ==
  ASSUME NEW q, IsRequest(q), Check(q) = 200
  PROVE  q.path \in {"bulk-market-orders", "jita-5p-sell"} \cup HubPaths
BY DEF IsRequest, Check, HubPaths

LEMMA FirstTakes ==
  Takes(<<"value">>, StartArr) = <<"array">> /\ Takes(<<"value">>, StartObj) = <<"object">>
BY DEF Takes, StartArr, StartObj, Null

LEMMA WritesAtFirst ==
  ASSUME NEW q, IsRequest(q), Check(q) = 200 PROVE Writes(q, << >>, <<Opening(q)>>)
<1> DEFINE w == <<Opening(q)>>
<1>1. w = Append(<< >>, Opening(q)) /\ IsSeq(<< >>) /\ Open(<< >>) = <<"value">>
  BY OpenAtFirst
<1>2. IsSeq(w) /\ Len(w) = 1 /\ w # << >>
  BY <1>1, AppendIsSeq
<1>3. Open(w) = Takes(<<"value">>, Opening(q))
  BY <1>1, OpenAppend
<1>5. JsonSoFar(q, w)
  BY <1>3, FirstTakes DEF JsonSoFar, Opening
<1>6. BulkSoFar(q, << >>, w)
  BY <1>2 DEF BulkSoFar
<1>7. JitaSoFar(q, << >>, w)
  <2> SUFFICES ASSUME q.path = "jita-5p-sell" PROVE JitaSoFar(q, << >>, w)
    BY DEF JitaSoFar
  <2>1. Members(w) = Collect(<< >>, StartObj)
    BY <1>1, MembersAre DEF Opening
  <2>2. Collect(<< >>, StartObj) = << >>
    BY DEF Collect, StartObj
  <2> QED
    BY <1>1, <2>1, <2>2 DEF JitaSoFar
<1>8. HubSoFar(q, << >>, w)
  <2> SUFFICES ASSUME q.path \in HubPaths PROVE HubSoFar(q, << >>, w)
    BY DEF HubSoFar
  <2>1. Opening(q) = StartArr /\ StartArr[1] \notin {"key", "prop"}
    BY DEF Opening, HubPaths, StartArr
  <2>2. KeysIn(<< >>) = 0 /\ \A i : Props(<< >>, i) = {}
    <3>1. KeyPlaces(<< >>, 0) = {} /\ Len(<< >>) = 0 /\ DOMAIN << >> = {}
      BY DEF KeyPlaces
    <3> QED
      BY <3>1, FS_EmptySet DEF KeysIn, Keys, Props
  <2>3. KeysIn(w) = 0 /\ \A i : Props(w, i) = {}
    <3> DEFINE none == << >>
    <3>2. w = Append(none, StartArr) /\ IsSeq(none)
      BY <1>1, <2>1
    <3> HIDE DEF w, none
    <3>3. Adds(w, none, StartArr)
      BY <3>2, CallAdds
    <3>1. Adds(w, << >>, StartArr)
      BY <3>3 DEF none
    <3> QED
      BY <2>1, <2>2, <3>1 DEF SameProps, Adds
  <2>4. HubKeys(<< >>, w)
    <3>1. Placed(0, Len(Hubs), 0, 0)
      BY HubsAre DEF Placed
    <3> QED
      BY <2>3, <3>1 DEF HubKeys
  <2>5. ASSUME NEW i \in Nat \ {0} PROVE HubProps(q, << >>, i) = {}
    <3>1. (i - 1) * Len(Hubs) \in Nat
      BY HubsAre
    <3>2. \A j \in 1 .. Len(Hubs) : ~((i - 1) * Len(Hubs) + j <= 0)
      BY <3>1, HubsAre
    <3> QED
      BY <3>2 DEF HubProps, HubsPriced, HubPlace
  <2> QED
    BY <2>3, <2>4, <2>5 DEF HubSoFar
<1> QED
  BY <1>2, <1>5, <1>6, <1>7, <1>8 DEF Writes

LEMMA TwoAre == ASSUME NEW a, NEW b PROVE <<a>> \o <<b>> = <<a, b>> /\ IsSeq(<<a>>) /\ IsSeq(<<a, b>>)
<1>1. <<a>> = Append(<< >>, a) /\ <<a, b>> = Append(<<a>>, b)
  OBVIOUS
<1>2. IsSeq(<<a>>)
  BY <1>1, AppendIsSeq, OpenAtFirst
<1> QED
  BY <1>1, <1>2, AppendIsSeq, ConcatOne

\* What an object or an array takes.
LEMMA ObjectTakes ==
  ASSUME NEW open, open # << >>, Head(open) = "object", NEW name, NEW value
  PROVE  /\ Takes(open, Prop(name, value)) = open
         /\ Takes(open, Key(name)) = <<"value">> \o open
         /\ Takes(open, EndObj) = Tail(open)
<1>1. /\ Key(name)[1] = "key" /\ Prop(name, value)[1] = "prop" /\ EndObj[1] = "end_obj"
  BY DEF Key, Prop, EndObj
<1>2. EndObj # Null /\ EndObj # StartObj /\ EndObj # StartArr
  BY DEF EndObj, Null, StartObj, StartArr
<1> DEFINE calls == {Null, StartObj, StartArr, EndObj, EndArr}
<1>6. \A c \in calls : c[1] # "key" /\ c[1] # "prop"
  BY DEF Null, StartObj, StartArr, EndObj, EndArr
<1>3. ASSUME NEW call, call[1] = "key" PROVE Takes(open, call) = <<"value">> \o open
  <2>1. call # Null /\ call # StartObj /\ call # StartArr /\ call # EndObj /\ call # EndArr
    BY <1>3, <1>6
  <2> HIDE DEF calls
  <2> QED
    BY <1>3, <2>1 DEF Takes
<1>4. ASSUME NEW call, call[1] = "prop" PROVE Takes(open, call) = open
  <2>1. call # Null /\ call # StartObj /\ call # StartArr /\ call # EndObj /\ call # EndArr
    BY <1>4, <1>6
  <2> HIDE DEF calls
  <2> QED
    BY <1>4, <2>1 DEF Takes
<1>5. Takes(open, EndObj) = Tail(open)
  BY <1>1, <1>2 DEF Takes
<1> QED
  BY <1>1, <1>3, <1>4, <1>5

LEMMA ArrayTakes ==
  /\ Takes(<<"array">>, StartObj) = <<"object", "array">>
  /\ Takes(<<"array">>, EndArr) = << >>
<1>1. /\ StartObj[1] = "start_obj" /\ EndArr[1] = "end_arr" /\ EndArr # Null /\ EndArr # EndObj
      /\ StartObj # Null /\ StartObj # StartArr /\ StartObj # EndObj /\ StartObj # EndArr
      /\ EndArr # StartObj /\ EndArr # StartArr
  BY DEF StartObj, EndArr, Null, EndObj, StartArr
<1>2. /\ <<"array">> # << >> /\ Head(<<"array">>) = "array" /\ Tail(<<"array">>) = << >>
  OBVIOUS
<1>5. <<"object">> \o <<"array">> = <<"object", "array">>
  BY TwoAre
<1>3. Takes(<<"array">>, StartObj) = <<"object">> \o <<"array">>
  BY <1>1, <1>2 DEF Takes
<1>4. Takes(<<"array">>, EndArr) = Tail(<<"array">>)
  BY <1>1, <1>2 DEF Takes
<1> QED
  BY <1>2, <1>3, <1>4, <1>5

LEMMA ValueTakes == Takes(<<"value", "object">>, Null) = <<"object">>
<1> DEFINE open == <<"value", "object">>
<1>1. open # << >> /\ Head(open) = "value" /\ Tail(open) = <<"object">>
  OBVIOUS
<1>2. /\ Null[1] = "null" /\ Null # StartObj /\ Null # StartArr /\ Null # EndObj /\ Null # EndArr
  BY DEF Null, StartObj, StartArr, EndObj, EndArr
<1> HIDE DEF open
<1>3. Takes(open, Null) = Tail(open)
  BY <1>1, <1>2 DEF Takes
<1> QED
  BY <1>1, <1>3 DEF open

LEMMA TwoMore == ASSUME NEW w, IsSeq(w), NEW a, NEW b PROVE w \o <<a, b>> = Append(Append(w, a), b)
<1>1. <<a, b>> = Append(<<a>>, b)
  OBVIOUS
<1>2. IsSeq(<<a>>) /\ w \o <<a>> = Append(w, a)
  BY TwoAre, ConcatOne
<1> QED
  BY <1>1, <1>2, ConcatAppend

\* Six calls more.
LEMMA OpenSix ==
  ASSUME NEW w, IsSeq(w), NEW a, NEW b, NEW c, NEW d, NEW e, NEW f
  PROVE  /\ IsSeq(<<a, b, c, d, e, f>>)
         /\ Open(w \o <<a, b, c, d, e, f>>)
              = Takes(Takes(Takes(Takes(Takes(Takes(Open(w), a), b), c), d), e), f)
<1>1. IsSeq(<<a>>) /\ Open(w \o <<a>>) = Takes(Open(w), a)
  <2>1. <<a>> = Append(<< >>, a) /\ w \o <<a>> = Append(w, a)
    BY ConcatOne
  <2> QED
    BY <2>1, AppendIsSeq, OpenAtFirst, OpenAppend
<1> DEFINE two == <<a, b>>
           three == <<a, b, c>>
           four == <<a, b, c, d>>
           five == <<a, b, c, d, e>>
           six == <<a, b, c, d, e, f>>
<1>2. /\ two = Append(<<a>>, b) /\ three = Append(two, c) /\ four = Append(three, d)
      /\ five = Append(four, e) /\ six = Append(five, f)
  OBVIOUS
<1> HIDE DEF two, three, four, five, six
<1>3. ASSUME NEW s, IsSeq(s), NEW x
      PROVE  IsSeq(Append(s, x)) /\ Open(w \o Append(s, x)) = Takes(Open(w \o s), x)
  <2>1. w \o Append(s, x) = Append(w \o s, x) /\ IsSeq(w \o s) /\ IsSeq(Append(s, x))
    BY <1>3, ConcatAppend, ConcatPlaces, AppendIsSeq
  <2> QED
    BY <2>1, OpenAppend
<1>4. IsSeq(two) /\ Open(w \o two) = Takes(Open(w \o <<a>>), b)
  BY <1>1, <1>2, <1>3
<1>5. IsSeq(three) /\ Open(w \o three) = Takes(Open(w \o two), c)
  BY <1>2, <1>3, <1>4
<1>6. IsSeq(four) /\ Open(w \o four) = Takes(Open(w \o three), d)
  BY <1>2, <1>3, <1>5
<1>7. IsSeq(five) /\ Open(w \o five) = Takes(Open(w \o four), e)
  BY <1>2, <1>3, <1>6
<1>8. IsSeq(six) /\ Open(w \o six) = Takes(Open(w \o five), f)
  BY <1>2, <1>3, <1>7
<1> QED
  BY <1>1, <1>4, <1>5, <1>6, <1>7, <1>8 DEF six

LEMMA BulkNext ==
  ASSUME NEW q, q.path = "bulk-market-orders", NEW rs \in Seq(Reply), NEW w, Writes(q, rs, w), NEW rep \in Reply
  PROVE  Writes(q, Append(rs, rep), w \o BulkEntry(SetsOf(q)[Len(rs) + 1], rep.orders))
<1> DEFINE n == Len(rs)
           set == SetsOf(q)[n + 1]
           entry == BulkEntry(set, rep.orders)
           t == Append(rs, rep)
           v == w \o entry
<1>1. /\ IsSeq(w) /\ Open(w) = <<"array">> /\ Len(w) = 6 * n + 1
      /\ \A i \in 1 .. n, c \in 1 .. 6 : w[6 * i - 5 + c] = BulkEntry(SetsOf(q)[i], rs[i].orders)[c]
  BY DEF Writes, JsonSoFar, BulkSoFar, HubPaths
<1>2. /\ n \in Nat /\ Len(t) = n + 1 /\ t[n + 1] = rep /\ \A i \in 1 .. n : t[i] = rs[i]
  OBVIOUS
<1>3. IsSeq(entry) /\ Len(entry) = 6
  BY <1>1, OpenSix DEF BulkEntry
<1>4. /\ IsSeq(v) /\ Joins(v, w, entry)
  BY <1>1, <1>3, ConcatPlaces
<1>10. /\ Len(v) = 6 * n + 7
       /\ \A i \in 1 .. 6 * n + 1 : v[i] = w[i]
       /\ \A i \in 1 .. 6 : v[(6 * n + 1) + i] = entry[i]
  <2> HIDE DEF v, n, entry
  <2> QED
    BY <1>1, <1>2, <1>3, <1>4 DEF Joins
<1>5. Open(v) = <<"array">>
  <2> DEFINE a == StartObj
             b == Prop("buy", set.buy)
             c == Prop("region", set.region)
             d == Prop("type", set.type)
             e == Prop("items", rep.orders)
             f == EndObj
  <2> DEFINE inside == <<"object", "array">>
  <2>1. inside # << >> /\ Head(inside) = "object" /\ Tail(inside) = <<"array">>
    OBVIOUS
  <2>2. entry = <<a, b, c, d, e, f>>
    BY DEF BulkEntry
  <2> HIDE DEF inside, entry
  <2>3. /\ Takes(<<"array">>, a) = inside /\ Takes(inside, f) = <<"array">>
        /\ Takes(inside, b) = inside /\ Takes(inside, c) = inside
        /\ Takes(inside, d) = inside /\ Takes(inside, e) = inside
    <3>1. \A name, value : Takes(inside, Prop(name, value)) = inside
      BY <2>1, ObjectTakes
    <3>2. Takes(inside, EndObj) = <<"array">>
      BY <2>1, ObjectTakes
    <3>3. Takes(<<"array">>, StartObj) = inside
      BY ArrayTakes DEF inside
    <3> QED
      BY <3>1, <3>2, <3>3
  <2> HIDE DEF a, b, c, d, e, f, entry
  <2>4. Open(w \o <<a, b, c, d, e, f>>) = Takes(Takes(Takes(Takes(Takes(Takes(Open(w), a), b), c), d), e), f)
    BY <1>1, OpenSix
  <2> QED
    BY <1>1, <2>2, <2>3, <2>4
<1>6. ASSUME NEW i \in 1 .. n + 1, NEW c \in 1 .. 6
      PROVE  v[6 * i - 5 + c] = BulkEntry(SetsOf(q)[i], t[i].orders)[c]
  <2>1. CASE i = n + 1
    <3>1. 6 * i - 5 + c = (6 * n + 1) + c
      BY <1>2, <2>1
    <3>2. v[(6 * n + 1) + c] = entry[c]
      <4> HIDE DEF v, n, entry
      <4> QED
        BY <1>10
    <3>3. t[i] = rep /\ set = SetsOf(q)[i]
      BY <1>2, <2>1
    <3> HIDE DEF v, t, n, set
    <3> QED
      BY <3>1, <3>2, <3>3
  <2>2. CASE i # n + 1
    <3>1. i \in 1 .. n /\ 6 * i - 5 + c \in 1 .. 6 * n + 1
      BY <1>2, <2>2
    <3> HIDE DEF v, t, n
    <3> QED
      BY <1>1, <1>2, <1>4, <1>10, <3>1
  <2> QED
    BY <2>1, <2>2
<1>7. v # << >>
  BY <1>2, <1>10
<1> HIDE DEF v, t, n
<1>8. BulkSoFar(q, t, v)
  <2>1. Len(v) = 6 * Len(t) + 1
    BY <1>2, <1>10
  <2> QED
    BY <1>2, <1>6, <2>1 DEF BulkSoFar
<1>9. JsonSoFar(q, v)
  BY <1>5 DEF JsonSoFar
<1>11. JitaSoFar(q, t, v) /\ HubSoFar(q, t, v)
  BY DEF JitaSoFar, HubSoFar, HubPaths
<1> QED
  BY <1>4, <1>7, <1>8, <1>9, <1>11 DEF Writes, v, t, n

\* The Jita page writes one member.
LEMMA JitaNext ==
  ASSUME NEW q, q.path = "jita-5p-sell", NEW rs \in Seq(Reply), NEW w, Writes(q, rs, w), NEW rep \in Reply
  PROVE  Writes(q, Append(rs, rep), w \o JitaEntry(SetsOf(q)[Len(rs) + 1], rep.orders))
<1> DEFINE n == Len(rs)
           set == SetsOf(q)[n + 1]
           entry == JitaEntry(set, rep.orders)
           t == Append(rs, rep)
           v == w \o entry
           ms == Members(w)
           inside == <<"object">>
<1>1. /\ IsSeq(w) /\ Open(w) = inside /\ IsSeq(ms) /\ Len(ms) = n
      /\ \A i \in 1 .. n : ms[i] = JitaEntry(SetsOf(q)[i], rs[i].orders)[1]
  BY DEF Writes, JsonSoFar, JitaSoFar, HubPaths
<1>2. /\ n \in Nat /\ Len(t) = n + 1 /\ t[n + 1] = rep /\ \A i \in 1 .. n : t[i] = rs[i]
  OBVIOUS
<1>3. /\ inside # << >> /\ Head(inside) = "object"
      /\ <<"value">> \o inside = <<"value", "object">>
  <2>1. inside # << >> /\ Head(inside) = "object"
    OBVIOUS
  <2>2. <<"value">> \o inside = <<"value", "object">>
    BY TwoAre
  <2> QED
    BY <2>1, <2>2
<1> DEFINE key == Key(ToString(set.type))
           prop == Prop(ToString(set.type), AtJita(rep.orders))
<1>4. \/ entry = <<key, Null>>
      \/ entry = <<prop>>
  BY DEF JitaEntry
<1>5. /\ Takes(inside, key) = <<"value", "object">> /\ Takes(inside, prop) = inside
      /\ Takes(<<"value", "object">>, Null) = inside
  <2>1. Takes(inside, key) = <<"value", "object">> /\ Takes(inside, prop) = inside
    <3> HIDE DEF inside
    <3>1. \A name, value : Takes(inside, Prop(name, value)) = inside /\ Takes(inside, Key(name)) = <<"value">> \o inside
      BY <1>3, ObjectTakes
    <3> QED
      BY <1>3, <3>1
  <2> QED
    BY <2>1, ValueTakes
<1>6. Collect(ms, key) = Append(ms, key) /\ Collect(ms, prop) = Append(ms, prop)
  BY DEF Collect, Key, Prop
<1>7. \A found : Collect(found, Null) = found
  BY DEF Collect, Null
<1> HIDE DEF inside, key, prop, ms
<1>8. IsSeq(v) /\ v # << >> /\ Open(v) = inside /\ Members(v) = Append(ms, entry[1])
  <2>1. CASE entry = <<key, Null>>
    <3>1. v = Append(Append(w, key), Null) /\ IsSeq(Append(w, key)) /\ entry[1] = key
      BY <1>1, <2>1, AppendIsSeq, TwoMore
    <3>2. IsSeq(v) /\ v # << >>
      BY <3>1, AppendIsSeq DEF Extends
    <3>3. Open(v) = Takes(Takes(inside, key), Null)
      BY <1>1, <3>1, OpenAppend
    <3>4. Members(v) = Collect(Collect(ms, key), Null)
      BY <1>1, <3>1, MembersAre DEF ms
    <3> QED
      BY <1>5, <1>6, <1>7, <3>1, <3>2, <3>3, <3>4
  <2>2. CASE entry = <<prop>>
    <3>1. v = Append(w, prop) /\ entry[1] = prop
      BY <1>1, <2>2, ConcatOne
    <3>2. IsSeq(v) /\ v # << >>
      BY <1>1, <3>1, AppendIsSeq DEF Extends
    <3>3. Open(v) = Takes(inside, prop)
      BY <1>1, <3>1, OpenAppend
    <3>4. Members(v) = Collect(ms, prop)
      BY <1>1, <3>1, MembersAre DEF ms
    <3> QED
      BY <1>5, <1>6, <3>1, <3>2, <3>3, <3>4
  <2> QED
    BY <1>4, <2>1, <2>2
<1>9. JitaSoFar(q, t, v)
  <2> DEFINE more == Append(ms, entry[1])
  <2>1. IsSeq(more) /\ Extends(more, ms, entry[1])
    BY <1>1, AppendIsSeq DEF ms
  <2>2. ASSUME NEW i \in 1 .. n + 1 PROVE more[i] = JitaEntry(SetsOf(q)[i], t[i].orders)[1]
    <3>1. CASE i = n + 1
      BY <1>1, <1>2, <2>1, <3>1 DEF Extends, ms
    <3>2. CASE i # n + 1
      <4>1. i \in 1 .. n
        BY <1>2, <3>2
      <4> HIDE DEF more, t, n
      <4> QED
        BY <1>1, <1>2, <2>1, <4>1 DEF Extends, ms
    <3> QED
      BY <3>1, <3>2
  <2> HIDE DEF more, t, n, v
  <2>3. Members(v) = more /\ IsSeq(more) /\ Len(more) = Len(t)
    BY <1>1, <1>2, <1>8, <2>1 DEF Extends, more, ms
  <2> QED
    BY <1>2, <2>2, <2>3 DEF JitaSoFar
<1> HIDE DEF v, t, n
<1>10. JsonSoFar(q, v)
  BY <1>8 DEF JsonSoFar, inside
<1>11. BulkSoFar(q, t, v) /\ HubSoFar(q, t, v)
  BY DEF BulkSoFar, HubSoFar, HubPaths
<1> QED
  BY <1>8, <1>9, <1>10, <1>11 DEF Writes, v, t, n

LEMMA ConcatEmpty == ASSUME NEW w, IsSeq(w) PROVE w \o << >> = w
BY ConcatEmptySeq DEF IsSeq

LEMMA ConcatThree ==
  ASSUME NEW w, IsSeq(w), NEW a, IsSeq(a), NEW b, IsSeq(b)
  PROVE  w \o (a \o b) = (w \o a) \o b
<1>1. PICK X : w \in Seq(X)
  BY DEF IsSeq
<1>2. PICK Y : a \in Seq(Y)
  BY DEF IsSeq
<1>3. PICK Z : b \in Seq(Z)
  BY DEF IsSeq
<1> DEFINE U == X \cup Y \cup Z
<1>4. w \in Seq(U) /\ a \in Seq(U) /\ b \in Seq(U)
  <2>1. /\ \A i \in 1 .. Len(w) : w[i] \in U
        /\ \A i \in 1 .. Len(a) : a[i] \in U
        /\ \A i \in 1 .. Len(b) : b[i] \in U
    BY <1>1, <1>2, <1>3
  <2> QED
    BY <1>1, <1>2, <1>3, <2>1
<1> HIDE DEF U
<1> QED
  BY <1>4, ConcatAssociative

\* The n-th lookup is for hub j.
HubAt(n, j) == j = ((n - 1) % Len(Hubs)) + 1

\* v is w and a member begun at hub 1, and the price of hub j if there is a best.
HubAdds(v, w, j, best, region) ==
  /\ IsSeq(v) /\ KeysIn(w) \in Nat /\ (w # << >> => v # << >>)
  /\ KeysIn(v) = IF j = 1 THEN KeysIn(w) + 1 ELSE KeysIn(w)
  /\ \A i : Props(v, i) = Props(w, i) \cup 
              (IF best # << >> /\ KeysIn(v) = i THEN {Prop(ToString(region), best[1])} ELSE {})

\* A hub page begins a member with the first hub of a type, writes the price if there
\* is one, and ends the member with the last.
LEMMA HubEntryAdds ==
  ASSUME NEW w, IsSeq(w), NEW n, NEW set, NEW orders, NEW j, HubAt(n, j)
  PROVE  HubAdds(w \o HubEntry(n, set, orders), w, j, Best(set.buy, Hubs[j].station, orders), set.region)
<1> DEFINE v == w \o HubEntry(n, set, orders)
           best == Best(set.buy, Hubs[j].station, orders)
           key == Key(ToString(set.type))
           prop == Prop(ToString(set.region), best[1])
           a == IF j = 1 THEN <<key, StartObj>> ELSE << >>
           b == IF best # << >> THEN <<prop>> ELSE << >>
           c == IF j = Len(Hubs) THEN <<EndObj>> ELSE << >>
           wa == w \o a
           wb == wa \o b
<1>1. HubEntry(n, set, orders) = (a \o b) \o c
  BY DEF HubEntry, HubAt
<1>2. /\ key[1] = "key" /\ prop[1] = "prop"
      /\ StartObj[1] \notin {"key", "prop"} /\ EndObj[1] \notin {"key", "prop"}
  BY DEF Key, Prop, StartObj, EndObj
<1> HIDE DEF key, prop
<1>3. IsSeq(<< >>) /\ IsSeq(<<key, StartObj>>) /\ IsSeq(<<prop>>) /\ IsSeq(<<EndObj>>)
  BY TwoAre, OpenAtFirst
<1>4. IsSeq(a) /\ IsSeq(b) /\ IsSeq(c)
  BY <1>3
<1>5. wa = IF j = 1 THEN Append(Append(w, key), StartObj) ELSE w
  <2>1. w \o <<key, StartObj>> = Append(Append(w, key), StartObj) /\ w \o << >> = w
    BY TwoMore, ConcatEmpty
  <2> QED
    BY <2>1
<1>6. IsSeq(wa) /\ KeysIn(w) \in Nat /\ SameProps(wa, w)
      /\ KeysIn(wa) = IF j = 1 THEN KeysIn(w) + 1 ELSE KeysIn(w)
  <2>1. CASE j = 1
    <3> DEFINE wk == Append(w, key)
    <3>1. IsSeq(wk) /\ Adds(wk, w, key)
      BY CallAdds
    <3>2. wa = Append(wk, StartObj)
      BY <1>5, <2>1
    <3> HIDE DEF wk, wa
    <3>3. IsSeq(wa) /\ Adds(wa, wk, StartObj)
      BY <3>1, <3>2, CallAdds
    <3> QED
      BY <1>2, <2>1, <3>1, <3>3 DEF SameProps, Adds
  <2>2. CASE j # 1
    <3>1. wa = w /\ KeysIn(w) \in Nat
      BY <1>5, <2>2, CallAdds DEF Adds
    <3> HIDE DEF wa
    <3> QED
      BY <2>2, <3>1 DEF SameProps
  <2> QED
    BY <2>1, <2>2
<1>10. w # << >> => v # << >>
  <2> DEFINE e == (a \o b) \o c
  <2> HIDE DEF a, b, c
  <2>1. IsSeq(e)
    BY <1>4, ConcatPlaces
  <2> HIDE DEF e
  <2>2. v = w \o e /\ Joins(w \o e, w, e)
    BY <1>1, <2>1, ConcatPlaces DEF e
  <2>3. w # << >> => Len(w) > 0
    BY <2>2 DEF IsSeq, Joins
  <2> QED
    BY <2>2, <2>3 DEF Joins
<1> HIDE DEF a
<1>7. v = wb \o c
  <2>1. v = (w \o (a \o b)) \o c
    <3> HIDE DEF a, b, c
    <3>1. IsSeq(a \o b)
      BY <1>4, ConcatPlaces
    <3> QED
      BY <1>1, <1>4, <3>1, ConcatThree
  <2>2. w \o (a \o b) = wa \o b
    <3> HIDE DEF a, b
    <3> QED
      BY <1>4, ConcatThree
  <2> HIDE DEF b, c, v, wa
  <2> QED
    BY <2>1, <2>2
<1> HIDE DEF wa
<1>8. /\ IsSeq(wb) /\ KeysIn(wb) = KeysIn(wa)
      /\ \A i : Props(wb, i) = Props(wa, i) \cup (IF best # << >> /\ KeysIn(wa) = i THEN {prop} ELSE {})
  <2>1. CASE best # << >>
    <3>1. wb = Append(wa, prop)
      BY <1>6, <2>1, ConcatOne
    <3>2. IsSeq(wb) /\ Adds(wb, wa, prop)
      BY <1>6, <3>1, CallAdds
    <3> HIDE DEF wb
    <3> QED
      BY <1>2, <2>1, <3>2 DEF Adds
  <2>2. CASE best = << >>
    <3>1. wb = wa
      BY <1>6, <2>2, ConcatEmpty
    <3> HIDE DEF wb
    <3> QED
      BY <1>6, <2>2, <3>1
  <2> QED
    BY <2>1, <2>2
<1> HIDE DEF b, wb
<1>9. IsSeq(v) /\ KeysIn(v) = KeysIn(wb) /\ SameProps(v, wb)
  <2>1. CASE j = Len(Hubs)
    <3>1. v = Append(wb, EndObj)
      BY <1>7, <1>8, <2>1, ConcatOne
    <3>2. IsSeq(v) /\ Adds(v, wb, EndObj)
      BY <1>8, <3>1, CallAdds
    <3> QED
      BY <1>2, <3>2 DEF Adds
  <2>2. CASE j # Len(Hubs)
    <3>1. v = wb
      BY <1>7, <1>8, <2>2, ConcatEmpty
    <3> QED
      BY <1>8, <3>1 DEF SameProps
  <2> QED
    BY <2>1, <2>2
<1> HIDE DEF c
<1> QED
  BY <1>6, <1>8, <1>9, <1>10 DEF SameProps, prop, HubAdds, v, best

LEMMA TypesChecked ==
  ASSUME NEW q, IsRequest(q), Check(q) = 200, q.path # "bulk-market-orders"
  PROVE  q.type \in Seq(Int) /\ q.type # << >>
BY NumbersAreNumbers DEF Check, IsRequest

\* What the page wants of a hub for a type.
LEMMA HubSetIs ==
  ASSUME NEW q, IsRequest(q), Check(q) = 200, q.path \in HubPaths
  PROVE  /\ Len(SetsOf(q)) = Len(q.type) * Len(Hubs)
         /\ \A i \in 1 .. Len(q.type), j \in 1 .. Len(Hubs) :
              SetsOf(q)[HubPlace(i, j)] = OrderSet(q.path = "hub-buy-prices", Hubs[j].region, q.type[i])
<1>1. q.path \notin {"bulk-market-orders", "jita-5p-sell"}
  BY DEF HubPaths
<1>2. q.type \in Seq(Int) /\ SetsOf(q) = HubSets(q)
  BY <1>1, TypesChecked DEF SetsOf
<1>3. /\ Len(HubSets(q)) = Len(q.type) * Len(Hubs)
      /\ \A i \in 1 .. Len(q.type), j \in 1 .. Len(Hubs) :
           HubSets(q)[(i - 1) * Len(Hubs) + j]
             = OrderSet(q.path = "hub-buy-prices", Hubs[j].region, q.type[i])
  BY <1>2, HubSetsAre
<1> QED
  BY <1>2, <1>3 DEF HubPlace

\* The hub pages find a price more, or none.
LEMMA HubFinds ==
  ASSUME NEW q, NEW rs \in Seq(Reply), NEW rep \in Reply, NEW i0, NEW j0, Placed(Len(rs), Len(Hubs), i0, j0),
         NEW best, best = Best(q.path = "hub-buy-prices", Hubs[j0 + 1].station, rep.orders)
  PROVE  \A i \in Nat \ {0} :
           HubProps(q, Append(rs, rep), i) = HubProps(q, rs, i) \cup
             (IF best # << >> /\ i0 + 1 = i THEN {Prop(ToString(Hubs[j0 + 1].region), best[1])} ELSE {})
<1> DEFINE n == Len(rs)
           t == Append(rs, rep)
           b == Len(Hubs)
<1>1. n \in Nat /\ Len(t) = n + 1 /\ t[n + 1] = rep /\ \A k \in 1 .. n : t[k] = rs[k]
  OBVIOUS
<1>2. b \in Nat /\ b > 0
  BY HubsAre
<1>3. i0 \in Nat /\ j0 \in Nat /\ j0 < b /\ n = i0 * b + j0
  BY DEF Placed
<1> SUFFICES ASSUME NEW i \in Nat \ {0}
             PROVE  HubProps(q, t, i) = HubProps(q, rs, i) \cup
                      (IF best # << >> /\ i0 + 1 = i THEN {Prop(ToString(Hubs[j0 + 1].region), best[1])} ELSE {})
  OBVIOUS
<1> HIDE DEF t, n, b
<1>4. \A j \in 1 .. b : HubPlace(i, j) \in Nat /\ HubPlace(i, j) >= 1
  <2>1. (i - 1) * b \in Nat
    BY <1>2
  <2> QED
    BY <1>2, <2>1 DEF HubPlace, b
<1>5. ASSUME NEW j \in 1 .. b, HubPlace(i, j) <= n PROVE HubBest(q, t, i, j) = HubBest(q, rs, i, j)
  <2>1. HubPlace(i, j) \in 1 .. n
    BY <1>1, <1>4, <1>5
  <2> QED
    BY <1>1, <2>1 DEF HubBest
<1>6. ASSUME NEW j \in 1 .. b, HubPlace(i, j) = n + 1 PROVE i = i0 + 1 /\ j = j0 + 1
  <2>1. Placed(n, b, i - 1, j - 1) /\ Placed(n, b, i0, j0)
    <3>1. (i - 1) * b \in Nat
      BY <1>2
    <3>2. n = (i - 1) * b + (j - 1)
      BY <1>1, <1>2, <1>6, <3>1 DEF HubPlace, b
    <3> QED
      BY <1>2, <1>3, <3>2 DEF Placed
  <2>2. i - 1 = i0 /\ j - 1 = j0
    <3>1. n \div b = i - 1 /\ n % b = j - 1
      BY <1>2, <2>1, PlacedOnce
    <3>2. n \div b = i0 /\ n % b = j0
      BY <1>2, <2>1, PlacedOnce
    <3> QED
      BY <3>1, <3>2
  <2> QED
    BY <1>2, <1>3, <2>2
<1>7. i = i0 + 1 => j0 + 1 \in 1 .. b /\ HubPlace(i, j0 + 1) = n + 1 /\ HubBest(q, t, i, j0 + 1) = best
  <2> SUFFICES ASSUME i = i0 + 1
               PROVE  j0 + 1 \in 1 .. b /\ HubPlace(i, j0 + 1) = n + 1 /\ HubBest(q, t, i, j0 + 1) = best
    OBVIOUS
  <2>1. i - 1 = i0 /\ i0 * b \in Nat
    BY <1>2, <1>3
  <2>2. j0 + 1 \in 1 .. b /\ HubPlace(i, j0 + 1) = n + 1
    BY <1>2, <1>3, <2>1 DEF HubPlace, b
  <2> QED
    BY <1>1, <2>2 DEF HubBest
<1>8. HubsPriced(q, t, i) = HubsPriced(q, rs, i) \cup (IF best # << >> /\ i0 + 1 = i THEN {j0 + 1} ELSE {})
  <2>1. ASSUME NEW j \in 1 .. b
        PROVE  j \in HubsPriced(q, t, i) <=> j \in HubsPriced(q, rs, i) \/ (best # << >> /\ i0 + 1 = i /\ j = j0 + 1)
    <3>1. CASE HubPlace(i, j) <= n
      <4>1. HubPlace(i, j) <= Len(t) /\ HubPlace(i, j) # n + 1
        BY <1>1, <1>4, <3>1
      <4>2. ~(i0 + 1 = i /\ j = j0 + 1)
        BY <1>7, <4>1
      <4> QED
        BY <1>5, <3>1, <4>1, <4>2 DEF HubsPriced, n, b
    <3>2. CASE HubPlace(i, j) = n + 1
      <4>1. i = i0 + 1 /\ j = j0 + 1 /\ HubBest(q, t, i, j) = best
        BY <1>6, <1>7, <3>2
      <4>2. HubPlace(i, j) <= Len(t) /\ ~(HubPlace(i, j) <= n)
        BY <1>1, <3>2
      <4> QED
        BY <4>1, <4>2 DEF HubsPriced, n, b
    <3>3. CASE HubPlace(i, j) > n + 1
      <4>1. ~(HubPlace(i, j) <= Len(t)) /\ ~(HubPlace(i, j) <= n) /\ HubPlace(i, j) # n + 1
        BY <1>1, <1>4, <3>3
      <4>2. ~(i0 + 1 = i /\ j = j0 + 1)
        BY <1>7, <4>1
      <4> QED
        BY <4>1, <4>2 DEF HubsPriced, n, b
    <3> QED
      BY <1>1, <1>4, <3>1, <3>2, <3>3
  <2>2. HubsPriced(q, t, i) \subseteq 1 .. b /\ HubsPriced(q, rs, i) \subseteq 1 .. b
    BY DEF HubsPriced, b
  <2>3. i0 + 1 = i => j0 + 1 \in 1 .. b
    BY <1>7
  <2> QED
    BY <2>1, <2>2, <2>3
<1>9. \A j \in HubsPriced(q, rs, i) : HubBest(q, t, i, j) = HubBest(q, rs, i, j)
  BY <1>5 DEF HubsPriced, n, b
<1> QED
  BY <1>7, <1>8, <1>9 DEF HubProps

LEMMA HubNext ==
  ASSUME NEW q, IsRequest(q), Check(q) = 200, q.path \in HubPaths, NEW rs \in Seq(Reply), NEW w, Writes(q, rs, w),
         Len(rs) + 1 <= Len(SetsOf(q)), NEW rep \in Reply
  PROVE  Writes(q, Append(rs, rep), w \o HubEntry(Len(rs) + 1, SetsOf(q)[Len(rs) + 1], rep.orders))
<1> DEFINE n == Len(rs)
           b == Len(Hubs)
           c == Len(q.type)
           set == SetsOf(q)[n + 1]
           t == Append(rs, rep)
           v == w \o HubEntry(n + 1, set, rep.orders)
           buy == q.path = "hub-buy-prices"
<1>1. IsSeq(w) /\ w # << >> /\ HubKeys(rs, w) /\ \A i \in Nat \ {0} : Props(w, i) = HubProps(q, rs, i)
  BY DEF Writes, HubSoFar
<1>2. n \in Nat /\ Len(t) = n + 1 /\ b \in Nat /\ b > 0
  BY HubsAre
<1>3. c \in Nat /\ n < c * b
  <2>1. c \in Nat /\ Len(SetsOf(q)) = c * b
    BY HubSetIs, TypesChecked DEF HubPaths
  <2>2. c * b \in Nat
    BY <1>2, <2>1
  <2> HIDE DEF n, b, c
  <2> QED
    BY <1>2, <2>1, <2>2 DEF n
<1>4. PICK i0, j0 : Placed(n, b, i0, j0) /\ KeysIn(w) = IF j0 = 0 THEN i0 ELSE i0 + 1
  BY <1>1 DEF HubKeys
<1> DEFINE best == Best(buy, Hubs[j0 + 1].station, rep.orders)
<1>5. i0 \in Nat /\ j0 \in Nat /\ j0 < b /\ n = i0 * b + j0
  BY <1>4 DEF Placed
<1>6. j0 + 1 = (((n + 1) - 1) % b) + 1
  <2>1. n % b = j0 /\ (n + 1) - 1 = n
    <3> HIDE DEF n, b
    <3> QED
      BY <1>2, <1>4, PlacedOnce
  <2> HIDE DEF n, b
  <2> QED
    BY <2>1
<1>7. set = OrderSet(buy, Hubs[j0 + 1].region, q.type[i0 + 1])
  <2>1. i0 < c
    <3> HIDE DEF n, b, c
    <3> QED
      BY <1>2, <1>3, <1>4, PlacedFits
  <2>2. i0 + 1 \in 1 .. c /\ j0 + 1 \in 1 .. b /\ HubPlace(i0 + 1, j0 + 1) = n + 1
    <3>1. (i0 + 1) - 1 = i0 /\ i0 * b \in Nat
      BY <1>2, <1>5
    <3> HIDE DEF n, c
    <3> QED
      BY <1>2, <1>3, <1>5, <2>1, <3>1 DEF HubPlace
  <2> HIDE DEF n
  <2> QED
    BY <2>2, HubSetIs
<1>8. set.buy = buy /\ set.region = Hubs[j0 + 1].region
  BY <1>7 DEF OrderSet
<1> DEFINE hit == {Prop(ToString(Hubs[j0 + 1].region), best[1])}
<1> HIDE DEF set, t, n
<1>9. /\ IsSeq(v) /\ KeysIn(w) \in Nat /\ v # << >>
      /\ KeysIn(v) = IF j0 + 1 = 1 THEN KeysIn(w) + 1 ELSE KeysIn(w)
      /\ \A i : Props(v, i) = Props(w, i) \cup (IF best # << >> /\ KeysIn(v) = i THEN hit ELSE {})
  <2> DEFINE j == j0 + 1
             k == n + 1
  <2>1. HubAt(k, j)
    BY <1>6 DEF HubAt
  <2> HIDE DEF j, k
  <2>2. HubAdds(w \o HubEntry(k, set, rep.orders), w, j, Best(set.buy, Hubs[j].station, rep.orders), set.region)
    BY <1>1, <2>1, HubEntryAdds
  <2>3. HubAdds(v, w, j, best, set.region)
    BY <1>8, <2>2 DEF j, k
  <2> HIDE DEF v, best
  <2> QED
    BY <1>1, <1>8, <2>3 DEF j, HubAdds
<1> HIDE DEF v
<1>10. KeysIn(v) = i0 + 1
  BY <1>4, <1>5, <1>9
<1>11. HubKeys(t, v)
  <2>1. CASE j0 + 1 < b
    <3>1. Placed(n + 1, b, i0, j0 + 1) /\ j0 + 1 # 0
      <4>1. i0 * b \in Nat
        BY <1>2, <1>5
      <4> QED
        BY <1>2, <1>5, <2>1, <4>1 DEF Placed
    <3> QED
      BY <1>2, <1>10, <3>1 DEF HubKeys
  <2>2. CASE ~(j0 + 1 < b)
    <3>1. Placed(n + 1, b, i0 + 1, 0)
      <4>1. i0 * b \in Nat /\ (i0 + 1) * b = i0 * b + b /\ j0 + 1 = b
        BY <1>2, <1>5, <2>2
      <4> QED
        BY <1>2, <1>5, <4>1 DEF Placed
    <3> QED
      BY <1>2, <1>10, <3>1 DEF HubKeys
  <2> QED
    BY <2>1, <2>2
<1>12. ASSUME NEW i \in Nat \ {0} PROVE Props(v, i) = HubProps(q, t, i)
  <2>1. HubProps(q, t, i) = HubProps(q, rs, i) \cup (IF best # << >> /\ i0 + 1 = i THEN hit ELSE {})
    <3>1. Placed(Len(rs), Len(Hubs), i0, j0)
      BY <1>4 DEF n
    <3> HIDE DEF b
    <3> QED
      BY <3>1, HubFinds DEF t
  <2>2. Props(w, i) = HubProps(q, rs, i)
    BY <1>1
  <2> HIDE DEF best, hit
  <2> QED
    BY <1>9, <1>10, <2>1, <2>2
<1>13. HubSoFar(q, t, v)
  BY <1>11, <1>12 DEF HubSoFar
<1>14. q.path \notin {"bulk-market-orders", "jita-5p-sell"}
  BY DEF HubPaths
<1>15. JsonSoFar(q, v) /\ BulkSoFar(q, t, v) /\ JitaSoFar(q, t, v)
  BY <1>14 DEF JsonSoFar, BulkSoFar, JitaSoFar
<1> QED
  BY <1>9, <1>13, <1>15 DEF Writes, v, t, n, set

LEMMA WritesNext ==
  ASSUME NEW q, IsRequest(q), Check(q) = 200, NEW rs, NEW w, Writes(q, rs, w), Replied(SetsOf(q), rs),
         Len(rs) + 1 <= Len(SetsOf(q)), NEW rep \in Reply
  PROVE  Writes(q, Append(rs, rep), w \o Entry(q, Len(rs) + 1, SetsOf(q)[Len(rs) + 1], rep.orders))
<1>1. rs \in Seq(Reply)
  BY DEF Replied
<1>2. CASE q.path = "bulk-market-orders"
  BY <1>1, <1>2, BulkNext DEF Entry
<1>3. CASE q.path = "jita-5p-sell"
  BY <1>1, <1>3, JitaNext DEF Entry
<1>4. CASE q.path \in HubPaths
  <2>1. q.path # "bulk-market-orders" /\ q.path # "jita-5p-sell"
    BY <1>4 DEF HubPaths
  <2>2. Writes(q, Append(rs, rep), w \o HubEntry(Len(rs) + 1, SetsOf(q)[Len(rs) + 1], rep.orders))
    BY <1>1, <1>4, HubNext
  <2> QED
    BY <2>1, <2>2 DEF Entry
<1> QED
  BY <1>2, <1>3, <1>4, PathsServed

-----------------------------------------------------------------------------
(* The invariant of the handlers *)

\* Between the parameters and the response.
Writing(h) ==
  /\ Check(request[h]) = 200 /\ sets[h] = SetsOf(request[h])
  /\ Replied(sets[h], replies[h])
  /\ Writes(request[h], replies[h], written[h])
  /\ response[h] = NoResponse

\* A whole page was the response.
Done(h) ==
  /\ Check(request[h]) = 200 /\ sets[h] = SetsOf(request[h])
  /\ Replied(sets[h], replies[h]) /\ Len(replies[h]) = Len(sets[h]) /\ sets[h] # << >>
  /\ response[h].status = 200
  /\ \E w : /\ Writes(request[h], replies[h], w)
            /\ response[h].body = Append(w, Closing(request[h]))

\* The last lookup failed.
Threw(h) ==
  /\ replies[h] # << >> /\ replies[h][Len(replies[h])].status = "error"
  /\ \A n \in 1 .. Len(replies[h]) - 1 : replies[h][n].status = "ok"
  /\ response[h] = ErrorPage(500)

\* Nothing was looked up: no request yet, or one that was refused.
Unserved(h) ==
  /\ replies[h] = << >>
  /\ response[h] = NoResponse \/ \E status \in {400, 404, 500} : response[h] = ErrorPage(status)

HandlerInv(h) ==
  /\ request[h] \in Requests
  /\ sets[h] \in Seq(OrderSets)
  /\ replies[h] \in Seq(Reply) /\ Len(replies[h]) <= Len(sets[h])
  /\ IF phase[h] = "page" THEN Writing(h)
     ELSE phase[h] = "idle" /\ written[h] = << >> /\ (Done(h) \/ Threw(h) \/ Unserved(h))

OfHandlers(f) == DOMAIN f = Handlers /\ f = [h \in Handlers |-> f[h]]

PagesInv ==
  /\ StoreInv
  /\ OfHandlers(request) /\ OfHandlers(phase) /\ OfHandlers(sets)
  /\ OfHandlers(written) /\ OfHandlers(response) /\ OfHandlers(replies)
  /\ \A h \in Handlers : HandlerInv(h)

\* A step of another thread changes nothing for h.
LEMMA HandlerKept ==
  ASSUME NEW h, HandlerInv(h), request'[h] = request[h], phase'[h] = phase[h], sets'[h] = sets[h],
         written'[h] = written[h], response'[h] = response[h], replies'[h] = replies[h]
  PROVE  HandlerInv(h)'
<1>1. Writing(h) => Writing(h)'
  BY DEF Writing
<1>2. Done(h) => Done(h)'
  BY DEF Done
<1>3. Threw(h) => Threw(h)'
  BY DEF Threw
<1>4. Unserved(h) => Unserved(h)'
  BY DEF Unserved
<1> QED
  BY <1>1, <1>2, <1>3, <1>4 DEF HandlerInv

\* What one thread does.
LEMMA OneHandler ==
  ASSUME PagesInv, StoreInv', NEW h \in Handlers, HandlerInv(h)',
         NEW a, request' = [request EXCEPT ![h] = a], NEW b, phase' = [phase EXCEPT ![h] = b],
         NEW c, sets' = [sets EXCEPT ![h] = c], NEW d, written' = [written EXCEPT ![h] = d],
         NEW e, response' = [response EXCEPT ![h] = e], NEW f, replies' = [replies EXCEPT ![h] = f]
  PROVE  PagesInv'
<1>1. ASSUME NEW k \in Handlers, k # h PROVE HandlerInv(k)'
  <2>1. /\ request'[k] = request[k] /\ phase'[k] = phase[k] /\ sets'[k] = sets[k]
        /\ written'[k] = written[k] /\ response'[k] = response[k] /\ replies'[k] = replies[k]
    BY <1>1 DEF PagesInv, OfHandlers
  <2> QED
    BY <2>1, HandlerKept DEF PagesInv
<1>2. \A k \in Handlers : HandlerInv(k)'
  BY <1>1
<1>3. \A g, x : OfHandlers(g) => OfHandlers([g EXCEPT ![h] = x])
  BY DEF OfHandlers
<1>4. /\ OfHandlers(request) /\ OfHandlers(phase) /\ OfHandlers(sets)
      /\ OfHandlers(written) /\ OfHandlers(response) /\ OfHandlers(replies)
  BY DEF PagesInv
<1>5. /\ OfHandlers(request') /\ OfHandlers(phase') /\ OfHandlers(sets')
      /\ OfHandlers(written') /\ OfHandlers(response') /\ OfHandlers(replies')
  BY <1>3, <1>4, Zenon
<1> QED
  BY <1>2, <1>5 DEF PagesInv, OfHandlers

\* A variable that a step leaves alone.
LEMMA SameAtHandler == ASSUME NEW f, OfHandlers(f), NEW h \in Handlers PROVE f = [f EXCEPT ![h] = f[h]]
BY DEF OfHandlers

LEMMA PagesAtFirst == PagesInit => PagesInv
<1> SUFFICES ASSUME PagesInit PROVE PagesInv
  OBVIOUS
<1>1. StoreInv
  BY StoreAtFirst DEF PagesInit
<1>2. (CHOOSE q \in Requests : TRUE) \in Requests
  BY PagesAssumption
<1>3. ASSUME NEW h \in Handlers PROVE HandlerInv(h)
  BY <1>2 DEF PagesInit, HandlerInv, Unserved
<1> QED
  BY <1>1, <1>3 DEF PagesInv, PagesInit, OfHandlers

LEMMA StartKeeps ==
  ASSUME PagesInv, NEW h \in Handlers, NEW q \in Requests, StartPage(h, q) PROVE PagesInv'
<1>1. IsRequest(q) /\ Check(q) = 200
  BY PagesAssumption DEF StartPage
<1>2. SetsOf(q) \in Seq(OrderSets) /\ SetsOf(q) # << >>
  BY <1>1, SetsType
<1>3. /\ request'[h] = q /\ phase'[h] = "page" /\ sets'[h] = SetsOf(q)
      /\ written'[h] = <<Opening(q)>> /\ response'[h] = NoResponse /\ replies'[h] = << >>
  BY DEF StartPage, PagesInv, OfHandlers
<1>4. Replied(SetsOf(q), << >>)
  <2>1. << >> \in Seq(Reply) /\ Len(<< >>) = 0 /\ Len(SetsOf(q)) \in Nat
    BY <1>2
  <2> QED
    BY <2>1 DEF Replied
<1>5. Writing(h)'
  BY <1>1, <1>3, <1>4, WritesAtFirst DEF Writing
<1>6. HandlerInv(h)'
  BY <1>2, <1>3, <1>4, <1>5 DEF HandlerInv, Replied
<1>7. StoreInv'
  BY StoreKept DEF PagesInv, StartPage
<1> QED
  BY <1>6, <1>7, OneHandler DEF StartPage

LEMMA RefuseKeeps ==
  ASSUME PagesInv, NEW h \in Handlers, NEW q \in Requests, Refuse(h, q) PROVE PagesInv'
<1>1. Check(q) \in {400, 404, 500}
  BY CheckType, PagesAssumption DEF Refuse
<1>2. /\ request'[h] = q /\ phase'[h] = "idle" /\ sets'[h] = << >>
      /\ written'[h] = << >> /\ response'[h] = ErrorPage(Check(q)) /\ replies'[h] = << >>
  BY DEF Refuse, PagesInv, OfHandlers
<1>3. Unserved(h)'
  BY <1>1, <1>2 DEF Unserved
<1>4. HandlerInv(h)'
  <2>1. << >> \in Seq(OrderSets) /\ << >> \in Seq(Reply) /\ Len(<< >>) = 0
    OBVIOUS
  <2> QED
    BY <1>2, <1>3, <2>1 DEF HandlerInv
<1>5. StoreInv'
  BY StoreKept DEF PagesInv, Refuse
<1>6. phase' = [phase EXCEPT ![h] = phase[h]]
  BY SameAtHandler DEF Refuse, PagesInv
<1> QED
  BY <1>4, <1>5, <1>6, OneHandler DEF Refuse

\* A lookup of a page, whatever it is told.
LEMMA LookingGives ==
  ASSUME PagesInv, NEW h \in Handlers, Looking(h)
  PROVE  /\ StoreInv' /\ Writing(h) /\ IsReplyTo(sets[h][At(h)], reply'[h])
         /\ At(h) = Len(replies[h]) + 1 /\ At(h) <= Len(sets[h])
         /\ replies'[h] = Append(replies[h], reply'[h])
         /\ replies' = [replies EXCEPT ![h] = Append(replies[h], reply'[h])]
<1>1. HandlerInv(h) /\ phase[h] = "page" /\ At(h) <= Len(sets[h]) /\ At(h) = Len(replies[h]) + 1
  BY DEF PagesInv, Looking, At
<1>2. Writing(h) /\ sets[h] \in Seq(OrderSets) /\ Len(replies[h]) \in Nat
  BY <1>1 DEF HandlerInv
<1>3. sets[h][At(h)] \in OrderSets
  <2>1. At(h) \in 1 .. Len(sets[h])
    BY <1>1, <1>2
  <2> QED
    BY <1>2, <2>1, ElementOfSeq
<1>4. StoreInv' /\ IsReplyTo(sets[h][At(h)], reply'[h])
  BY <1>3, GetOrdersReplies DEF Looking, PagesInv
<1> QED
  BY <1>1, <1>2, <1>4 DEF Looking, PagesInv, OfHandlers

LEMMA RepliedNext ==
  ASSUME NEW ss \in Seq(OrderSets), NEW rs, Replied(ss, rs), Len(rs) + 1 <= Len(ss),
         NEW rep, IsReplyTo(ss[Len(rs) + 1], rep), rep.status = "ok"
  PROVE  Replied(ss, Append(rs, rep))
<1> DEFINE n == Len(rs)
           t == Append(rs, rep)
<1>1. rs \in Seq(Reply) /\ rep \in Reply /\ n \in Nat
  BY DEF Replied, IsReplyTo
<1>2. /\ t \in Seq(Reply) /\ Len(t) = n + 1 /\ t[n + 1] = rep
      /\ \A i \in 1 .. n : t[i] = rs[i]
  BY <1>1
<1> HIDE DEF t
<1>3. ASSUME NEW i \in 1 .. n + 1
      PROVE  t[i].status = "ok" /\ t[i].orders \in OneDownload(ss[i].buy, ss[i].region, ss[i].type)
  <2>1. CASE i = n + 1
    BY <1>2, <2>1 DEF IsReplyTo
  <2>2. CASE i # n + 1
    BY <1>1, <1>2, <2>2 DEF Replied
  <2> QED
    BY <2>1, <2>2
<1> HIDE DEF n
<1>4. Replied(ss, t)
  BY <1>2, <1>3 DEF Replied, n
<1> QED
  BY <1>4 DEF t

LEMMA LookUpKeeps == ASSUME PagesInv, NEW h \in Handlers, LookUp(h) PROVE PagesInv'
<1> DEFINE q == request[h]
           rep == reply'[h]
           w == written[h] \o Entry(q, At(h), sets[h][At(h)], rep.orders)
<1>1. /\ StoreInv' /\ Writing(h) /\ IsReplyTo(sets[h][At(h)], rep)
      /\ At(h) = Len(replies[h]) + 1 /\ At(h) <= Len(sets[h])
      /\ replies'[h] = Append(replies[h], rep)
      /\ replies' = [replies EXCEPT ![h] = Append(replies[h], rep)]
  BY LookingGives DEF LookUp
<1>2. HandlerInv(h) /\ phase[h] = "page" /\ IsRequest(q) /\ rep.status = "ok"
  BY PagesAssumption DEF PagesInv, LookUp, Looking, HandlerInv
<1>3. /\ request'[h] = q /\ phase'[h] = "page" /\ sets'[h] = sets[h] /\ response'[h] = response[h]
      /\ written'[h] = w /\ written' = [written EXCEPT ![h] = w]
  BY <1>2 DEF LookUp, PagesInv, OfHandlers
<1>4. sets[h] \in Seq(OrderSets) /\ sets[h] = SetsOf(q) /\ Replied(sets[h], replies[h]) /\ Check(q) = 200
  BY <1>1, <1>2 DEF HandlerInv, Writing
<1>5. Replied(sets[h], Append(replies[h], rep))
  BY <1>1, <1>2, <1>4, RepliedNext
<1>6. Writes(q, Append(replies[h], rep), w)
  <2>1. Writes(q, replies[h], written[h])
    BY <1>1 DEF Writing
  <2>2. Writes(q, Append(replies[h], rep),
               written[h] \o Entry(q, Len(replies[h]) + 1, SetsOf(q)[Len(replies[h]) + 1], rep.orders))
    BY <1>1, <1>2, <1>4, <2>1, WritesNext DEF IsReplyTo
  <2> QED
    BY <1>1, <1>4, <2>2
<1> HIDE DEF w, rep
<1>7. Writing(h)'
  BY <1>1, <1>3, <1>4, <1>5, <1>6 DEF Writing, q
<1>8. HandlerInv(h)'
  BY <1>1, <1>2, <1>3, <1>4, <1>5, <1>7 DEF HandlerInv, Replied
<1>9. /\ request' = [request EXCEPT ![h] = request[h]] /\ phase' = [phase EXCEPT ![h] = phase[h]]
      /\ sets' = [sets EXCEPT ![h] = sets[h]] /\ response' = [response EXCEPT ![h] = response[h]]
  <2>1. /\ request' = request /\ phase' = phase /\ sets' = sets /\ response' = response
        /\ OfHandlers(request) /\ OfHandlers(phase) /\ OfHandlers(sets) /\ OfHandlers(response)
    BY DEF LookUp, PagesInv
  <2> QED
    BY <2>1, SameAtHandler
<1> QED
  BY <1>1, <1>3, <1>8, <1>9, OneHandler

LEMMA LookUpThrowsKeeps == ASSUME PagesInv, NEW h \in Handlers, LookUpThrows(h) PROVE PagesInv'
<1> DEFINE rep == reply'[h]
           rs == replies[h]
           n == Len(rs)
<1>1. /\ StoreInv' /\ Writing(h) /\ IsReplyTo(sets[h][At(h)], rep)
      /\ At(h) = n + 1 /\ n + 1 <= Len(sets[h])
      /\ replies'[h] = Append(rs, rep) /\ replies' = [replies EXCEPT ![h] = Append(rs, rep)]
  BY LookingGives DEF LookUpThrows
<1>2. HandlerInv(h) /\ rep.status = "error" /\ rep \in Reply
  BY <1>1 DEF PagesInv, LookUpThrows, IsReplyTo
<1>3. /\ request'[h] = request[h] /\ phase'[h] = "idle" /\ sets'[h] = sets[h]
      /\ written'[h] = << >> /\ response'[h] = ErrorPage(500)
  BY <1>2 DEF LookUpThrows, PagesInv, OfHandlers
<1>4. /\ rs \in Seq(Reply) /\ n \in Nat /\ sets[h] \in Seq(OrderSets)
      /\ \A i \in 1 .. n : rs[i].status = "ok"
  BY <1>1, <1>2 DEF HandlerInv, Writing, Replied
<1> DEFINE t == Append(rs, rep)
<1>5. /\ t \in Seq(Reply) /\ Len(t) = n + 1 /\ t # << >> /\ t[n + 1] = rep /\ (n + 1) - 1 = n
      /\ \A i \in 1 .. n : t[i] = rs[i]
  <2> HIDE DEF rs, rep, n
  <2>1. n \in Nat /\ rs \in Seq(Reply) /\ rep \in Reply /\ n = Len(rs)
    BY <1>2, <1>4 DEF n
  <2> QED
    BY <2>1
<1> HIDE DEF t, rs, rep, n
<1>6. Threw(h)'
  BY <1>1, <1>2, <1>3, <1>4, <1>5 DEF Threw, t
<1>7. HandlerInv(h)'
  BY <1>1, <1>2, <1>3, <1>4, <1>5, <1>6 DEF HandlerInv, t
<1>8. /\ request' = [request EXCEPT ![h] = request[h]] /\ sets' = [sets EXCEPT ![h] = sets[h]]
  <2>1. request' = request /\ sets' = sets /\ OfHandlers(request) /\ OfHandlers(sets)
    BY DEF LookUpThrows, PagesInv
  <2> QED
    BY <2>1, SameAtHandler
<1> QED
  BY <1>1, <1>7, <1>8, OneHandler DEF LookUpThrows

LEMMA RespondKeeps == ASSUME PagesInv, NEW h \in Handlers, Respond(h) PROVE PagesInv'
<1> DEFINE body == Append(written[h], Closing(request[h]))
<1>1. /\ request'[h] = request[h] /\ phase'[h] = "idle" /\ sets'[h] = sets[h] /\ written'[h] = << >>
      /\ response'[h] = [status |-> 200, body |-> body] /\ replies'[h] = replies[h]
  BY DEF Respond, PagesInv, OfHandlers
<1>2. HandlerInv(h) /\ phase[h] = "page" /\ At(h) > Len(sets[h]) /\ At(h) = Len(replies[h]) + 1
  BY DEF PagesInv, Respond, At
<1>3. /\ Writing(h) /\ sets[h] \in Seq(OrderSets) /\ Len(sets[h]) \in Nat
      /\ replies[h] \in Seq(Reply) /\ Len(replies[h]) \in Nat
      /\ Len(replies[h]) <= Len(sets[h]) /\ request[h] \in Requests
  BY <1>2 DEF HandlerInv
<1>4. Len(replies[h]) = Len(sets[h])
  BY <1>2, <1>3
<1>5. sets[h] # << >>
  BY <1>3, SetsType, PagesAssumption DEF Writing
<1> HIDE DEF body
<1>6. Done(h)'
  <2>1. response'[h].status = 200 /\ response'[h].body = body
    BY <1>1
  <2>2. /\ Check(request[h]) = 200 /\ sets[h] = SetsOf(request[h]) /\ Replied(sets[h], replies[h])
        /\ Writes(request[h], replies[h], written[h])
    BY <1>3 DEF Writing
  <2>3. Writes(request'[h], replies'[h], written[h]) /\ response'[h].body = Append(written[h], Closing(request'[h]))
    BY <1>1, <2>1, <2>2 DEF body
  <2>4. /\ Check(request'[h]) = 200 /\ sets'[h] = SetsOf(request'[h]) /\ Replied(sets'[h], replies'[h])
        /\ Len(replies'[h]) = Len(sets'[h]) /\ sets'[h] # << >>
    BY <1>1, <1>4, <1>5, <2>2
  <2> QED
    BY <2>1, <2>3, <2>4 DEF Done
<1>7. HandlerInv(h)'
  BY <1>1, <1>2, <1>3, <1>6 DEF HandlerInv
<1>8. /\ request' = [request EXCEPT ![h] = request[h]] /\ sets' = [sets EXCEPT ![h] = sets[h]]
      /\ replies' = [replies EXCEPT ![h] = replies[h]]
  <2>1. /\ request' = request /\ sets' = sets /\ replies' = replies
        /\ OfHandlers(request) /\ OfHandlers(sets) /\ OfHandlers(replies)
    BY DEF Respond, PagesInv
  <2> QED
    BY <2>1, SameAtHandler
<1>9. StoreInv'
  BY StoreKept DEF PagesInv, Respond
<1> QED
  BY <1>7, <1>8, <1>9, OneHandler DEF Respond

LEMMA SameForHandlers == ASSUME PagesInv, StoreInv', UNCHANGED pageVars PROVE PagesInv'
<1>1. /\ request' = request /\ phase' = phase /\ sets' = sets /\ written' = written
      /\ response' = response /\ replies' = replies
  BY DEF pageVars
<1>2. \A h \in Handlers : HandlerInv(h)'
  BY <1>1, HandlerKept DEF PagesInv
<1> QED
  BY <1>1, <1>2 DEF PagesInv, OfHandlers

LEMMA PagesStep == PagesInv /\ [PagesNext]_allVars => PagesInv'
<1> SUFFICES ASSUME PagesInv, [PagesNext]_allVars PROVE PagesInv'
  OBVIOUS
<1>1. CASE \E h \in Handlers : Serve(h)
  BY <1>1, LookUpKeeps, LookUpThrowsKeeps, RespondKeeps DEF Serve
<1>2. CASE \E h \in Handlers : \E q \in Requests : StartPage(h, q) \/ Refuse(h, q)
  BY <1>2, StartKeeps, RefuseKeeps
<1>3. CASE Updates
  BY <1>3, UpdatesKeep, SameForHandlers DEF PagesInv, Updates
<1>4. CASE UNCHANGED allVars
  BY <1>4, StoreKept, SameForHandlers DEF PagesInv, allVars
<1> QED
  BY <1>1, <1>2, <1>3, <1>4 DEF PagesNext

\* Every step of the pages, of the cache and of its updates keeps the invariant.
THEOREM PagesInvariant == PagesSpec => []PagesInv
BY PagesAtFirst, PagesStep, PTL DEF PagesSpec

-----------------------------------------------------------------------------
(* Every page *)

\* A page never looks up more than its sets, and is written as long as it is served.
THEOREM PagesTypeCorrect == PagesSpec => []PagesTypeOK
<1>1. PagesInv => PagesTypeOK
  <2> SUFFICES ASSUME PagesInv PROVE PagesTypeOK
    OBVIOUS
  <2>1. request \in [Handlers -> Requests] /\ phase \in [Handlers -> {"idle", "page"}]
    BY DEF PagesInv, HandlerInv, OfHandlers
  <2>2. ASSUME NEW h \in Handlers
        PROVE  /\ replies[h] \in Seq(Reply) /\ Len(replies[h]) <= Len(sets[h])
               /\ sets[h] \in Seq([buy : BOOLEAN, region : Int, type : Int])
               /\ response[h].status \in {0, 200, 400, 404, 500}
               /\ phase[h] = "page" <=> written[h] # << >>
    <3>1. HandlerInv(h)
      BY DEF PagesInv
    <3>2. response[h].status \in {0, 200, 400, 404, 500}
      BY <3>1 DEF HandlerInv, Writing, Done, Threw, Unserved, NoResponse, ErrorPage
    <3>3. phase[h] = "page" <=> written[h] # << >>
      BY <3>1 DEF HandlerInv, Writing, Writes
    <3> QED
      BY <3>1, <3>2, <3>3 DEF HandlerInv, OrderSets
  <2> QED
    BY <2>1, <2>2 DEF PagesTypeOK
<1> QED
  BY <1>1, PagesInvariant, PTL

\* A response is a whole page only if every lookup of the request succeeded, and
\* after the first that failed none is made.
THEOREM PagesAreWholeOrErrors == PagesSpec => []WholePageOrError
<1>1. PagesInv => WholePageOrError
  <2> SUFFICES ASSUME PagesInv, NEW h \in Handlers, phase[h] = "idle"
               PROVE  LET last == Len(replies[h])
                      IN  /\ \A n \in 1 .. last - 1 : replies[h][n].status = "ok"
                          /\ IF response[h].status = 200
                             THEN last = Len(sets[h]) /\ last > 0 /\ replies[h][last].status = "ok"
                             ELSE /\ last > 0 => replies[h][last].status = "error" /\ response[h].status = 500
                                  /\ response[h].status # 0 => response[h] = ErrorPage(response[h].status)
    BY DEF WholePageOrError
  <2> DEFINE last == Len(replies[h])
  <2>1. HandlerInv(h) /\ (Done(h) \/ Threw(h) \/ Unserved(h))
    BY DEF PagesInv, HandlerInv
  <2>2. last \in Nat /\ (replies[h] = << >> <=> last = 0) /\ sets[h] \in Seq(OrderSets)
    BY <2>1 DEF HandlerInv
  <2>3. CASE Done(h)
    <3>1. Len(sets[h]) # 0
      BY <2>2, <2>3 DEF Done
    <3>2. last = Len(sets[h]) /\ response[h].status = 200 /\ \A n \in 1 .. last : replies[h][n].status = "ok"
      BY <2>3 DEF Done, Replied
    <3> QED
      BY <2>2, <3>1, <3>2
  <2>4. CASE Threw(h)
    <3>1. response[h].status = 500 /\ response[h] = ErrorPage(500)
      BY <2>4 DEF Threw, ErrorPage
    <3> QED
      BY <2>2, <2>4, <3>1 DEF Threw
  <2>5. CASE Unserved(h)
    <3>1. \/ response[h].status = 0
          \/ response[h].status \in {400, 404, 500} /\ response[h] = ErrorPage(response[h].status)
      BY <2>5 DEF Unserved, NoResponse, ErrorPage
    <3>2. last = 0
      BY <2>2, <2>5 DEF Unserved
    <3> QED
      BY <2>2, <3>1, <3>2
  <2> QED
    BY <2>1, <2>3, <2>4, <2>5
<1> QED
  BY <1>1, PagesInvariant, PTL

\* A whole page, which every lookup of it has found an answer for.
LEMMA AnsweredIsDone ==
  ASSUME PagesInv, NEW h \in Handlers, response[h].status = 200
  PROVE  /\ Done(h) /\ IsRequest(request[h]) /\ Check(request[h]) = 200
         /\ sets[h] = SetsOf(request[h]) /\ SetsOf(request[h]) \in Seq(OrderSets)
         /\ Len(replies[h]) = Len(sets[h]) /\ Replied(sets[h], replies[h])
<1>1. HandlerInv(h)
  BY DEF PagesInv
<1>2. Done(h) /\ request[h] \in Requests
  BY <1>1 DEF HandlerInv, Writing, Threw, Unserved, NoResponse, ErrorPage
<1>3. IsRequest(request[h]) /\ Check(request[h]) = 200
  BY <1>2, PagesAssumption DEF Done
<1> QED
  BY <1>2, <1>3, SetsType DEF Done

LEMMA ErrorIsJson == ASSUME NEW status PROVE IsJson(ErrorPage(status).body)
<1> DEFINE a == StartObj
           b == Prop("error", status)
           c == EndObj
           none == << >>
           inside == <<"object">>
<1>1. ErrorPage(status).body = <<a, b, c>>
  BY DEF ErrorPage
<1>2. <<a, b, c>> = Append(<<a, b>>, c) /\ <<a, b>> = Append(<<a>>, b) /\ <<a>> = Append(none, a)
  OBVIOUS
<1>3. IsSeq(none) /\ Open(none) = <<"value">>
  BY OpenAtFirst
<1>4. Takes(<<"value">>, a) = inside
  BY FirstTakes
<1>5. inside # << >> /\ Head(inside) = "object" /\ Tail(inside) = << >>
  OBVIOUS
<1> HIDE DEF inside, none
<1>6. Takes(inside, b) = inside /\ Takes(inside, c) = << >>
  <2>1. \A name, value : Takes(inside, Prop(name, value)) = inside
    BY <1>5, ObjectTakes
  <2>2. Takes(inside, EndObj) = << >>
    BY <1>5, ObjectTakes
  <2> QED
    BY <2>1, <2>2
<1> HIDE DEF a, b, c
<1>7. IsSeq(<<a>>) /\ IsSeq(<<a, b>>)
  BY TwoAre
<1>8. Open(<<a>>) = Takes(<<"value">>, a)
  BY <1>2, <1>3, OpenAppend
<1>9. Open(<<a, b>>) = Takes(Open(<<a>>), b)
  BY <1>2, <1>7, OpenAppend
<1>10. Open(<<a, b, c>>) = Takes(Open(<<a, b>>), c)
  BY <1>2, <1>7, OpenAppend
<1>11. Open(<<a, b, c>>) = << >>
  BY <1>4, <1>6, <1>8, <1>9, <1>10
<1> QED
  BY <1>1, <1>11, IsJsonIfClosed

\* Every response that Content-Type says is application/json, of every page but those
\* of the hubs and with every error, is one JSON value.
THEOREM OtherBodiesAreWellFormed == PagesSpec => []OtherBodiesAreJson
<1>1. PagesInv => OtherBodiesAreJson
  <2> SUFFICES ASSUME PagesInv, NEW h \in Handlers, response[h].status # 0,
                      response[h].status = 200 => request[h].path \notin HubPaths
               PROVE  IsJson(response[h].body)
    BY DEF OtherBodiesAreJson
  <2>1. CASE response[h].status = 200
    <3> DEFINE q == request[h]
    <3>1. Done(h) /\ q.path \notin HubPaths
      BY <2>1, AnsweredIsDone
    <3>2. PICK w : Writes(q, replies[h], w) /\ response[h].body = Append(w, Closing(q))
      BY <3>1 DEF Done
    <3>3. IsSeq(w) /\ Open(w) = IF q.path = "jita-5p-sell" THEN <<"object">> ELSE <<"array">>
      BY <3>1, <3>2 DEF Writes, JsonSoFar
    <3>4. Open(Append(w, Closing(q))) = Takes(Open(w), Closing(q))
      BY <3>3, OpenAppend
    <3>5. Takes(<<"object">>, EndObj) = << >> /\ Takes(<<"array">>, EndArr) = << >>
      <4> DEFINE inside == <<"object">>
      <4>1. inside # << >> /\ Head(inside) = "object" /\ Tail(inside) = << >>
        OBVIOUS
      <4> HIDE DEF inside
      <4>2. Takes(inside, EndObj) = << >>
        BY <4>1, ObjectTakes
      <4> QED
        BY <4>2, ArrayTakes DEF inside
    <3>6. Open(response[h].body) = << >>
      BY <3>2, <3>3, <3>4, <3>5 DEF Closing
    <3> QED
      BY <3>6, IsJsonIfClosed
  <2>2. CASE response[h].status # 200
    <3>1. HandlerInv(h)
      BY DEF PagesInv
    <3>2. \E status : response[h] = ErrorPage(status)
      BY <2>2, <3>1 DEF HandlerInv, Writing, Done, Threw, Unserved, NoResponse
    <3> QED
      BY <3>2, ErrorIsJson
  <2> QED
    BY <2>1, <2>2
<1> QED
  BY <1>1, PagesInvariant, PTL

\* A place in three nested loops.
LEMMA NestedPlace ==
  ASSUME NEW S \in Nat, NEW T \in Nat, NEW r \in Nat, NEW x \in Nat, x < T, NEW s \in Nat, s < S
  PROVE  /\ (r * T + x) * S + s = r * (S * T) + (x * S + s)
         /\ x * S + s \in Nat /\ x * S + s < S * T
<1> DEFINE d == T - x - 1
           a == x * S
           b == d * S
           c == S * T
           e == r * c
<1>1. (r * T + x) * S = e + a
  OBVIOUS
<1>2. d \in Nat /\ T = d + x + 1
  OBVIOUS
<1> HIDE DEF d
<1>3. a \in Nat /\ b \in Nat /\ c = b + a + S /\ e \in Nat
  BY <1>2
<1> HIDE DEF a, b, c, e
<1>4. (e + a) + s = e + (a + s) /\ a + s \in Nat /\ a + s < c
  BY <1>3
<1> QED
  BY <1>1, <1>4 DEF a, c, e

\* What a bulk request asks for, counted and in its order.
LEMMA ProductAsked ==
  ASSUME NEW q, IsRequest(q), CheckBulk(q) = 200, q.order = << >>
  PROVE  Len(Product(q)) = AskedNumber(q) /\ \A n \in 1 .. AskedNumber(q) : Product(q)[n] = Asked(q, n)
<1> DEFINE S == AskedSides(q)
           T == Len(q.type)
           R == Len(RegionsOf(q))
           sides == Sides(q)
           product == Product(q)
<1>1. (q.buy \/ q.sell) /\ RegionsOf(q) \in Seq(Int) /\ q.type \in Seq(Int) /\ q.type # << >>
  BY BulkChecked
<1>2. /\ Len(sides) = S /\ S \in Nat /\ S > 0
      /\ \A s \in 1 .. S : sides[s] = (q.buy /\ s = 1)
  <2>1. /\ Len(sides) = (IF q.buy THEN 1 ELSE 0) + (IF q.sell THEN 1 ELSE 0)
        /\ \A s \in 1 .. Len(sides) : sides[s] = (q.buy /\ s = 1)
    BY SidesAre
  <2>2. q.buy \in BOOLEAN /\ q.sell \in BOOLEAN
    BY DEF IsRequest
  <2> HIDE DEF sides
  <2>3. Len(sides) = S /\ S \in Nat /\ S > 0
    BY <1>1, <2>1, <2>2 DEF AskedSides
  <2> QED
    BY <2>1, <2>3
<1>3. T \in Nat /\ T > 0 /\ R \in Nat
  BY <1>1
<1>4. Len(product) = R * (T * Len(sides))
  BY <1>1, ProductIs
<1>8. ASSUME NEW i \in 1 .. R, NEW j \in 1 .. T, NEW s \in 1 .. Len(sides), NEW n,
             n = (i - 1) * (T * Len(sides)) + ((j - 1) * Len(sides) + s)
      PROVE  product[n] = OrderSet(sides[s], RegionsOf(q)[i], q.type[j])
  <2>1. ProductAt(q, i, j, s)
    BY <1>1, ProductIs
  <2> QED
    BY <1>8, <2>1 DEF ProductAt
<1>5. AskedNumber(q) = R * T * S
  BY DEF AskedNumber
<1> HIDE DEF S, T, R, sides, product
<1>7. R * T * S = R * (T * S) /\ S * T \in Nat /\ S * T > 0 /\ S * T = T * S
  BY <1>2, <1>3
<1>6. ASSUME NEW n \in 1 .. AskedNumber(q) PROVE product[n] = Asked(q, n)
  <2> DEFINE m == n - 1
  <2>1. m \in Nat /\ m < R * (S * T) /\ R * (S * T) \in Nat
    BY <1>2, <1>3, <1>5, <1>7
  <2>2. PICK k, side : Placed(m, S, k, side)
    <3>1. S \in Nat /\ S > 0 /\ m \in Nat
      BY <1>2, <2>1
    <3> HIDE DEF m
    <3> QED
      BY <3>1, PlacedSomewhere
  <2>3. k \in Nat
    BY <2>2 DEF Placed
  <2>4. PICK r, t : Placed(k, T, r, t)
    BY <1>3, <2>3, PlacedSomewhere
  <2>5. /\ side \in Nat /\ side < S /\ m = k * S + side
        /\ r \in Nat /\ t \in Nat /\ t < T /\ k = r * T + t
    BY <2>2, <2>4 DEF Placed
  <2> HIDE DEF m
  <2>6. m = r * (S * T) + (t * S + side) /\ t * S + side \in Nat /\ t * S + side < S * T
    <3>1. S \in Nat /\ T \in Nat /\ r \in Nat /\ t \in Nat /\ t < T /\ side \in Nat /\ side < S
      BY <1>2, <1>3, <2>5
    <3>2. /\ (r * T + t) * S + side = r * (S * T) + (t * S + side)
          /\ t * S + side \in Nat /\ t * S + side < S * T
      BY <3>1, NestedPlace
    <3> QED
      BY <2>5, <3>2
  <2> DEFINE ST == S * T
             rest == t * S + side
  <2>7. Placed(m, ST, r, rest)
    BY <1>2, <1>5, <1>7, <2>5, <2>6 DEF Placed
  <2>8. m % S = side /\ m \div S = k /\ k % T = t
    <3>1. m \div S = k /\ m % S = side
      <4>1. S \in Nat /\ S > 0
        BY <1>2
      <4> QED
        BY <2>2, <4>1, PlacedOnce
    <3>2. k \div T = r /\ k % T = t
      BY <1>3, <2>4, PlacedOnce
    <3> QED
      BY <3>1, <3>2
  <2>9. m \div ST = r /\ r < R
    <3>1. ST \in Nat /\ ST > 0 /\ m < R * ST
      BY <1>5, <1>7, <2>1 DEF m
    <3> HIDE DEF ST, rest
    <3> QED
      BY <1>3, <2>7, <3>1, PlacedOnce, PlacedFits
  <2>10. Asked(q, n) = OrderSet(q.buy /\ side = 0, RegionsOf(q)[r + 1], q.type[t + 1])
    BY <2>8, <2>9 DEF Asked, m, S, T
  <2>11. /\ r + 1 \in 1 .. R /\ t + 1 \in 1 .. T /\ side + 1 \in 1 .. S
         /\ sides[side + 1] = (q.buy /\ side = 0)
    <3>1. r + 1 \in 1 .. R /\ t + 1 \in 1 .. T /\ side + 1 \in 1 .. S /\ (side + 1 = 1 <=> side = 0)
      BY <1>2, <1>3, <2>5, <2>9
    <3> QED
      BY <1>2, <3>1
  <2>12. ((r + 1) - 1) * (T * S) + (((t + 1) - 1) * S + (side + 1)) = n
    <3>1. (r + 1) - 1 = r /\ (t + 1) - 1 = t /\ T * S = S * T /\ n = m + 1
      BY <1>5, <1>7, <2>5 DEF m
    <3>2. r * (S * T) \in Nat /\ t * S \in Nat
      BY <1>2, <1>5, <1>7, <2>5
    <3> QED
      BY <2>5, <2>6, <3>1, <3>2
  <2>13. product[n] = OrderSet(sides[side + 1], RegionsOf(q)[r + 1], q.type[t + 1])
    BY <1>2, <1>8, <2>11, <2>12
  <2> QED
    BY <2>10, <2>11, <2>13
<1> QED
  BY <1>2, <1>4, <1>5, <1>6, <1>7 DEF product

LEMMA BulkAsked ==
  ASSUME NEW q, IsRequest(q), CheckBulk(q) = 200
  PROVE  Len(BulkSets(q)) = AskedNumber(q) /\ \A n \in 1 .. AskedNumber(q) : BulkSets(q)[n] = Asked(q, n)
<1>1. CASE q.order = << >>
  BY <1>1, ProductAsked DEF BulkSets
<1>2. CASE q.order # << >>
  <2>1. DOMAIN q.order = 1 .. Len(q.order) /\ Len(q.order) \in Nat
    BY DEF IsRequest
  <2>2. AskedNumber(q) = Len(q.order)
    BY <1>2 DEF AskedNumber
  <2>3. BulkSets(q) = [k \in 1 .. Len(q.order) |-> OrderSet(q.order[k].side = "buy", q.order[k].region, q.order[k].type)]
    BY <1>2, <2>1 DEF BulkSets
  <2>4. Len(BulkSets(q)) = Len(q.order)
    BY <2>1, <2>3
  <2> QED
    BY <1>2, <2>2, <2>3, <2>4 DEF Asked
<1> QED
  BY <1>1, <1>2

\* Six calls in a row.
LEMMA SixOf ==
  ASSUME NEW s, NEW k \in Nat, k + 6 <= Len(s), IsSeq(s), NEW set, NEW orders,
         \A c \in 1 .. 6 : s[k + c] = BulkEntry(set, orders)[c]
  PROVE  SubSeq(s, k + 1, k + 6) = BulkEntry(set, orders)
<1> DEFINE entry == BulkEntry(set, orders)
<1>1. entry = [c \in 1 .. 6 |-> entry[c]]
  BY DEF BulkEntry
<1> HIDE DEF entry
<1>2. SubSeq(s, k + 1, k + 6) = [c \in 1 .. 6 |-> s[k + c]]
  <2>1. (k + 6) - (k + 1) + 1 = 6 /\ \A c \in 1 .. 6 : (k + 1) + c - 1 = k + c /\ c + (k + 1) - 1 = k + c
    OBVIOUS
  <2>2. PICK X : s \in Seq(X)
    BY DEF IsSeq
  <2> QED
    BY <2>1, <2>2
<1> QED
  BY <1>1, <1>2 DEF entry

\* A bulk response has one object for each set asked for, in the order asked, with what
\* its lookup returned: all the orders one download of its region had for it, or none.
THEOREM BulkAnswersAreWhole == PagesSpec => []BulkAnswersEverySet
<1>1. PagesInv => BulkAnswersEverySet
  <2> SUFFICES ASSUME PagesInv, NEW h \in Handlers, Answered(h, {"bulk-market-orders"})
               PROVE  LET q == request[h]
                          body == response[h].body
                      IN  /\ Len(body) = 6 * AskedNumber(q) + 2
                          /\ \A n \in 1 .. AskedNumber(q) :
                               LET set == Asked(q, n)
                                   found == replies[h][n].orders
                               IN  /\ found \in OneDownload(set.buy, set.region, set.type)
                                   /\ SubSeq(body, 6 * n - 4, 6 * n + 1) = BulkEntry(set, found)
    BY DEF BulkAnswersEverySet
  <2> DEFINE q == request[h]
             rs == replies[h]
             body == response[h].body
             N == AskedNumber(q)
  <2>1. /\ Done(h) /\ q.path = "bulk-market-orders" /\ IsRequest(q) /\ Check(q) = 200
        /\ sets[h] = SetsOf(q) /\ SetsOf(q) \in Seq(OrderSets) /\ Len(rs) = Len(sets[h]) /\ Replied(sets[h], rs)
    BY AnsweredIsDone DEF Answered
  <2>2. SetsOf(q) = BulkSets(q) /\ CheckBulk(q) = 200
    BY <2>1 DEF SetsOf, Check
  <2>3. /\ N = Len(rs) /\ N \in Nat
        /\ \A n \in 1 .. N : SetsOf(q)[n] = Asked(q, n)
    BY <2>1, <2>2, BulkAsked
  <2>4. PICK w : Writes(q, rs, w) /\ body = Append(w, Closing(q))
    BY <2>1 DEF Done
  <2> HIDE DEF N
  <2>5. /\ IsSeq(w) /\ Len(w) = 6 * N + 1
        /\ \A n \in 1 .. N, c \in 1 .. 6 : w[6 * n - 5 + c] = BulkEntry(SetsOf(q)[n], rs[n].orders)[c]
    BY <2>1, <2>3, <2>4 DEF Writes, BulkSoFar
  <2>6. IsSeq(body) /\ Extends(body, w, Closing(q))
    BY <2>4, <2>5, AppendIsSeq
  <2>7. Len(body) = 6 * N + 2
    BY <2>3, <2>5, <2>6 DEF Extends
  <2>8. ASSUME NEW n \in 1 .. N
        PROVE  /\ rs[n].orders \in OneDownload(Asked(q, n).buy, Asked(q, n).region, Asked(q, n).type)
               /\ SubSeq(body, 6 * n - 4, 6 * n + 1) = BulkEntry(Asked(q, n), rs[n].orders)
    <3> DEFINE k == 6 * n - 5
    <3>1. k \in Nat /\ k + 6 <= Len(body) /\ k + 1 = 6 * n - 4 /\ k + 6 = 6 * n + 1
      BY <2>3, <2>7
    <3>2. ASSUME NEW c \in 1 .. 6 PROVE body[k + c] = BulkEntry(Asked(q, n), rs[n].orders)[c]
      <4>1. k + c \in 1 .. Len(w)
        BY <2>3, <2>5
      <4>2. body[k + c] = w[k + c]
        BY <2>6, <4>1 DEF Extends
      <4>3. w[k + c] = BulkEntry(Asked(q, n), rs[n].orders)[c]
        BY <2>3, <2>5
      <4> QED
        BY <4>2, <4>3
    <3> HIDE DEF k, body
    <3>3. SubSeq(body, k + 1, k + 6) = BulkEntry(Asked(q, n), rs[n].orders)
      BY <2>6, <3>1, <3>2, SixOf
    <3>4. rs[n].orders \in OneDownload(Asked(q, n).buy, Asked(q, n).region, Asked(q, n).type)
      BY <2>1, <2>3 DEF Replied
    <3> QED
      BY <3>1, <3>3, <3>4
  <2> QED
    BY <2>7, <2>8 DEF N
<1> QED
  BY <1>1, PagesInvariant, PTL

\* The lookups of a whole hub page: every place is one of them.
LEMMA HubLookups ==
  ASSUME NEW n \in Nat, NEW i \in 1 .. n, NEW j \in 1 .. Len(Hubs)
  PROVE  HubPlace(i, j) \in 1 .. n * Len(Hubs)
<1> DEFINE b == Len(Hubs)
           m == i - 1
           d == n - i
<1>1. b \in Nat /\ b > 0 /\ m \in Nat /\ d \in Nat /\ n = m + d + 1
  BY HubsAre
<1> HIDE DEF b, m, d
<1>2. m * b \in Nat /\ d * b \in Nat /\ n * b = m * b + d * b + b
  BY <1>1
<1>3. j \in 1 .. b /\ HubPlace(i, j) = m * b + j
  BY DEF HubPlace, b, m
<1> DEFINE x == m * b
           y == d * b
           z == n * b
<1> HIDE DEF x, y, z
<1>4. x \in Nat /\ y \in Nat /\ z = x + y + b /\ HubPlace(i, j) = x + j
  BY <1>2, <1>3 DEF x, y, z
<1>5. HubPlace(i, j) \in 1 .. z
  BY <1>1, <1>3, <1>4
<1> QED
  BY <1>5 DEF z, b

\* A hub page has a price for exactly those hubs whose station had an order, and it is the
\* best of the orders there, which all came with one download of the hub's region.
THEOREM HubPricesAreTheBest == PagesSpec => []HubPricesAreBest
<1>1. PagesInv => HubPricesAreBest
  <2> SUFFICES ASSUME PagesInv, NEW h \in Handlers, Answered(h, HubPaths), NEW i \in DOMAIN request[h].type
               PROVE  LET q == request[h]
                          buy == q.path = "hub-buy-prices"
                      IN  /\ Props(response[h].body, i)
                               = {Prop(ToString(Hubs[j].region), BestOf(buy, HubPrices(h, i, j))) :
                                    j \in {x \in DOMAIN Hubs : HubPrices(h, i, x) # {}}}
                          /\ \A j \in DOMAIN Hubs :
                               replies[h][(i - 1) * Len(Hubs) + j].orders \in OneDownload(buy, Hubs[j].region, q.type[i])
    BY DEF HubPricesAreBest, Props, Keys, KeyPlaces
  <2> DEFINE q == request[h]
             rs == replies[h]
             buy == q.path = "hub-buy-prices"
             body == response[h].body
  <2>1. /\ Done(h) /\ q.path \in HubPaths /\ IsRequest(q) /\ Check(q) = 200
        /\ sets[h] = SetsOf(q) /\ Len(rs) = Len(sets[h]) /\ Replied(sets[h], rs)
    BY AnsweredIsDone DEF Answered
  <2>2. q.path \notin {"bulk-market-orders", "jita-5p-sell"}
    BY <2>1 DEF HubPaths
  <2>3. q.type \in Seq(Int) /\ i \in 1 .. Len(q.type) /\ Len(q.type) \in Nat
    BY <2>1, <2>2, TypesChecked
  <2>4. /\ Len(rs) = Len(q.type) * Len(Hubs)
        /\ \A j \in 1 .. Len(Hubs) : SetsOf(q)[HubPlace(i, j)] = OrderSet(buy, Hubs[j].region, q.type[i])
    <3>1. Len(SetsOf(q)) = Len(q.type) * Len(Hubs)
      BY <2>1, HubSetIs
    <3>2. ASSUME NEW j \in 1 .. Len(Hubs)
          PROVE  SetsOf(q)[HubPlace(i, j)] = OrderSet(buy, Hubs[j].region, q.type[i])
      BY <2>1, <2>3, HubSetIs
    <3> HIDE DEF q, rs, buy
    <3> QED
      BY <2>1, <3>1, <3>2
  <2>5. \A j \in 1 .. Len(Hubs) : HubPlace(i, j) \in 1 .. Len(rs)
    BY <2>3, <2>4, HubLookups
  <2>6. ASSUME NEW j \in 1 .. Len(Hubs)
        PROVE  /\ rs[HubPlace(i, j)].orders \in OneDownload(buy, Hubs[j].region, q.type[i])
               /\ rs[HubPlace(i, j)].orders \in Seq(Order)
    <3> DEFINE k == HubPlace(i, j)
               set == SetsOf(q)[k]
    <3>1. k \in 1 .. Len(rs) /\ set.buy = buy /\ set.region = Hubs[j].region /\ set.type = q.type[i]
      <4>1. k \in 1 .. Len(rs) /\ set = OrderSet(buy, Hubs[j].region, q.type[i])
        BY <2>4, <2>5
      <4> HIDE DEF set, buy, k
      <4> QED
        BY <4>1 DEF OrderSet
    <3>2. rs[k] \in Reply /\ rs[k].orders \in OneDownload(set.buy, set.region, set.type)
      BY <2>1, <3>1 DEF Replied
    <3> QED
      BY <3>1, <3>2 DEF Reply
  <2>7. \A j \in 1 .. Len(Hubs) : HubPrices(h, i, j) = PricesAt(Hubs[j].station, rs[HubPlace(i, j)].orders)
    BY DEF HubPrices, PricesAt, HubPlace
  <2>8. ASSUME NEW j \in 1 .. Len(Hubs)
        PROVE  /\ HubPrices(h, i, j) = {} => HubBest(q, rs, i, j) = << >>
               /\ HubPrices(h, i, j) # {} => HubBest(q, rs, i, j) = <<BestOf(buy, HubPrices(h, i, j))>>
    <3> DEFINE orders == rs[HubPlace(i, j)].orders
               prices == HubPrices(h, i, j)
               best == HubBest(q, rs, i, j)
    <3>1. \A o \in Range(orders) : PriceOf(o) \in Int
      BY <2>6, DownloadOrders
    <3>2. prices = PricesAt(Hubs[j].station, orders) /\ \A p \in prices : p \in Int
      BY <2>7, <3>1 DEF PricesAt
    <3>3. IsBest(buy, prices, best)
      <4>1. IsBest(buy, PricesAt(Hubs[j].station, orders), Best(buy, Hubs[j].station, orders))
        BY <2>6, <3>1, BestIsBest
      <4> QED
        BY <3>2, <4>1 DEF HubBest
    <3> HIDE DEF prices, best, buy
    <3>4. CASE prices = {}
      BY <3>3, <3>4 DEF IsBest, prices, best
    <3>5. CASE prices # {}
      <4>1. best = <<BestOf(buy, prices)>>
        BY <3>2, <3>3, <3>5, BestOfIs
      <4> QED
        BY <3>5, <4>1 DEF prices, best
    <3> QED
      BY <3>4, <3>5
  <2>9. PICK w : Writes(q, rs, w) /\ body = Append(w, Closing(q))
    BY <2>1 DEF Done
  <2>10. Props(body, i) = Props(w, i)
    <3>1. Closing(q) = EndArr /\ EndArr[1] \notin {"key", "prop"}
      BY <2>2 DEF Closing, EndArr
    <3>2. Adds(Append(w, Closing(q)), w, Closing(q))
      BY <2>9, CallAdds DEF Writes
    <3> QED
      BY <2>9, <3>1, <3>2 DEF Adds, SameProps
  <2>11. Props(w, i) = HubProps(q, rs, i)
    BY <2>1, <2>3, <2>9 DEF Writes, HubSoFar
  <2>12. DOMAIN Hubs = 1 .. Len(Hubs)
    BY HubsAre
  <2> DEFINE priced == {x \in DOMAIN Hubs : HubPrices(h, i, x) # {}}
  <2>13. HubsPriced(q, rs, i) = priced
    <3>1. \A j \in 1 .. Len(Hubs) : HubPlace(i, j) <= Len(rs)
      BY <2>5
    <3>2. \A j \in 1 .. Len(Hubs) : HubBest(q, rs, i, j) # << >> <=> HubPrices(h, i, j) # {}
      <4>1. \A x : <<x>> # << >>
        OBVIOUS
      <4> HIDE DEF buy
      <4> QED
        BY <2>8, <4>1
    <3> QED
      BY <2>12, <3>1, <3>2 DEF HubsPriced
  <2>14. \A j \in priced : HubBest(q, rs, i, j)[1] = BestOf(buy, HubPrices(h, i, j))
    <3>1. \A x : <<x>>[1] = x
      OBVIOUS
    <3> HIDE DEF buy
    <3> QED
      BY <2>8, <2>12, <3>1
  <2>15. HubProps(q, rs, i) = {Prop(ToString(Hubs[j].region), BestOf(buy, HubPrices(h, i, j))) : j \in priced}
    <3> HIDE DEF buy, priced
    <3> QED
      BY <2>13, <2>14 DEF HubProps
  <2> QED
    BY <2>6, <2>10, <2>11, <2>12, <2>15 DEF HubPlace
<1> QED
  BY <1>1, PagesInvariant, PTL

-----------------------------------------------------------------------------
(* What the Jita page finds *)

KeepsJita(at, o) == IF StationOf(o) = Hubs[1].station THEN Append(at, o) ELSE at

A == INSTANCE FoldLemmas WITH Op <- KeepsJita, Base <- << >>

LEMMA AtJitaIs ==
  /\ AtJita(<< >>) = << >>
  /\ \A X, o : \A s \in Seq(X) : AtJita(Append(s, o)) = KeepsJita(AtJita(s), o)
<1>1. \A s : AtJita(s) = A!Fold(s)
  BY DEF AtJita, KeepsJita, A!Fold, FoldLeft, A!FoldLeft, MapThenFoldSet, A!MapThenFoldSet, Max, A!Max
<1>2. A!Fold(<< >>) = << >>
  BY A!FoldEmpty
<1>3. ASSUME NEW X, NEW o, NEW s \in Seq(X) PROVE A!Fold(Append(s, o)) = KeepsJita(A!Fold(s), o)
  BY A!FoldAppend
<1> QED
  BY <1>1, <1>2, <1>3

AddVolume(sum, o) == sum + VolumeOf(o)

V == INSTANCE FoldLemmas WITH Op <- AddVolume, Base <- 0

LEMMA TotalVolumeIs ==
  /\ TotalVolume(<< >>) = 0
  /\ \A X, o : \A s \in Seq(X) : TotalVolume(Append(s, o)) = TotalVolume(s) + VolumeOf(o)
<1>1. \A s : TotalVolume(s) = V!Fold(s)
  BY DEF TotalVolume, AddVolume, V!Fold, FoldLeft, V!FoldLeft, MapThenFoldSet, V!MapThenFoldSet, Max, V!Max
<1>2. V!Fold(<< >>) = 0
  BY V!FoldEmpty
<1>3. ASSUME NEW X, NEW o, NEW s \in Seq(X) PROVE V!Fold(Append(s, o)) = V!Fold(s) + VolumeOf(o)
  BY V!FoldAppend DEF AddVolume
<1> QED
  BY <1>1, <1>2, <1>3

\* No order twice.
\* at has the orders of s that are at Jita, each as often as s.
Filtered(at, s) ==
  /\ at \in Seq(Range(s)) /\ Distinct(at)
  /\ Range(at) = {o \in Range(s) : StationOf(o) = Hubs[1].station}

LEMMA AppendRange ==
  ASSUME NEW X, NEW s \in Seq(X), NEW x
  PROVE  Range(Append(s, x)) = Range(s) \cup {x} /\ \A i \in 1 .. Len(s) : s[i] \in Range(s)
<1> DEFINE Y == X \cup {x}
<1>1. s \in Seq(Y) /\ x \in Y
  <2>1. \A i \in 1 .. Len(s) : s[i] \in Y
    OBVIOUS
  <2> QED
    BY <2>1
<1> HIDE DEF Y
<1> DEFINE t == Append(s, x)
<1>2. /\ DOMAIN s = 1 .. Len(s) /\ DOMAIN t = 1 .. Len(s) + 1 /\ Len(s) \in Nat
      /\ t[Len(s) + 1] = x /\ \A i \in 1 .. Len(s) : t[i] = s[i]
  BY <1>1
<1> HIDE DEF t
<1>3. Range(t) = Range(s) \cup {x}
  BY <1>2 DEF Range
<1> QED
  BY <1>2, <1>3 DEF t, Range

LEMMA AtJitaFilters ==
  ASSUME NEW X PROVE \A s \in Seq(X) : Distinct(s) => Filtered(AtJita(s), s)
<1> DEFINE N == {n \in Nat : \A s \in Seq(X) : Len(s) = n /\ Distinct(s) => Filtered(AtJita(s), s)}
<1>1. 0 \in N
  <2>1. \A s \in Seq(X) : Len(s) = 0 => s = << >>
    OBVIOUS
  <2>2. Filtered(<< >>, << >>)
    BY DEF Filtered, Range, Distinct
  <2> QED
    BY <2>1, <2>2, AtJitaIs
<1>2. ASSUME NEW n \in N PROVE n + 1 \in N
  <2> SUFFICES ASSUME NEW t \in Seq(X), Len(t) = n + 1, Distinct(t) PROVE Filtered(AtJita(t), t)
    OBVIOUS
  <2> DEFINE s == SubSeq(t, 1, n)
             x == t[n + 1]
  <2>1. /\ s \in Seq(X) /\ Len(s) = n /\ x \in X /\ t = Append(s, x)
        /\ \A i \in 1 .. n : s[i] = t[i]
    OBVIOUS
  <2>2. Distinct(s) /\ \A i \in 1 .. n : s[i] # x
    BY <2>1 DEF Distinct
  <2> HIDE DEF s, x
  <2>3. Filtered(AtJita(s), s) /\ AtJita(t) = KeepsJita(AtJita(s), x)
    BY <2>1, <2>2, AtJitaIs
  <2>4. Range(t) = Range(s) \cup {x} /\ x \notin Range(s)
    BY <2>1, <2>2, AppendRange DEF Range
  <2> DEFINE at == AtJita(s)
  <2>5. at \in Seq(Range(t))
    <3>1. at \in Seq(Range(s)) /\ Range(s) \subseteq Range(t)
      BY <2>3, <2>4 DEF Filtered
    <3>2. \A i \in 1 .. Len(at) : at[i] \in Range(t)
      BY <3>1
    <3> QED
      BY <3>1, <3>2
  <2>6. CASE StationOf(x) # Hubs[1].station
    <3>1. AtJita(t) = at
      BY <2>3, <2>6 DEF KeepsJita
    <3> HIDE DEF at
    <3> QED
      BY <2>3, <2>4, <2>5, <2>6, <3>1 DEF Filtered, at
  <2>7. CASE StationOf(x) = Hubs[1].station
    <3> DEFINE more == Append(at, x)
    <3>1. AtJita(t) = more
      BY <2>3, <2>7 DEF KeepsJita
    <3> HIDE DEF at
    <3>2. at \in Seq(Range(s)) /\ Distinct(at) /\ Range(at) = {o \in Range(s) : StationOf(o) = Hubs[1].station}
      BY <2>3 DEF Filtered, at
    <3>3. more \in Seq(Range(t)) /\ Range(more) = Range(at) \cup {x}
      BY <2>4, <2>5, AppendRange
    <3>4. Distinct(more)
      <4>1. /\ Len(at) \in Nat /\ Len(more) = Len(at) + 1 /\ more[Len(at) + 1] = x
            /\ \A i \in 1 .. Len(at) : more[i] = at[i] /\ at[i] # x
        BY <2>4, <3>2
      <4> HIDE DEF more
      <4> QED
        BY <3>2, <4>1 DEF Distinct
    <3> HIDE DEF more
    <3> QED
      BY <2>4, <2>7, <3>1, <3>2, <3>3, <3>4 DEF Filtered
  <2> QED
    BY <2>6, <2>7
<1>3. N = Nat
  <2>1. N \in SUBSET Nat
    OBVIOUS
  <2> HIDE DEF N
  <2> QED
    BY <1>1, <1>2, <2>1, J!NatSets
<1> QED
  BY <1>3

LEMMA VolumeIsZero ==
  ASSUME NEW X, \A o \in X : VolumeOf(o) \in Nat
  PROVE  \A s \in Seq(X) : TotalVolume(s) = 0 <=> \A o \in Range(s) : VolumeOf(o) = 0
<1> DEFINE Fits(s) == /\ TotalVolume(s) \in Nat
                      /\ TotalVolume(s) = 0 <=> \A o \in Range(s) : VolumeOf(o) = 0
           N == {n \in Nat : \A s \in Seq(X) : Len(s) = n => Fits(s)}
<1>1. 0 \in N
  <2>1. \A s \in Seq(X) : Len(s) = 0 => s = << >>
    OBVIOUS
  <2>2. Fits(<< >>)
    BY TotalVolumeIs DEF Range
  <2> HIDE DEF Fits
  <2> QED
    BY <2>1, <2>2
<1>2. ASSUME NEW n \in N PROVE n + 1 \in N
  <2> SUFFICES ASSUME NEW t \in Seq(X), Len(t) = n + 1 PROVE Fits(t)
    OBVIOUS
  <2> DEFINE s == SubSeq(t, 1, n)
             x == t[n + 1]
  <2>1. s \in Seq(X) /\ Len(s) = n /\ x \in X /\ t = Append(s, x)
    OBVIOUS
  <2> HIDE DEF s, x
  <2>2. Fits(s) /\ VolumeOf(x) \in Nat
    BY <2>1
  <2>3. TotalVolume(t) = TotalVolume(s) + VolumeOf(x)
    BY <2>1, TotalVolumeIs
  <2>4. Range(t) = Range(s) \cup {x}
    BY <2>1, AppendRange
  <2> QED
    BY <2>2, <2>3, <2>4
<1>3. N = Nat
  <2>1. N \in SUBSET Nat
    OBVIOUS
  <2> HIDE DEF N
  <2> QED
    BY <1>1, <1>2, <2>1, J!NatSets
<1> QED
  BY <1>3

LEMMA UnitsAreZero ==
  ASSUME NEW S, IsFiniteSet(S), \A o \in S : VolumeOf(o) \in Nat
  PROVE  UnitsOf(S) = 0 <=> \A o \in S : VolumeOf(o) = 0
<1> DEFINE w == [o \in S |-> VolumeOf(o)]
<1>1. UnitsOf(S) = J!Total(w, S)
  BY DEF UnitsOf, J!Total, SumFunctionOnSet, J!SumFunctionOnSet, FoldFunctionOnSet, J!FoldFunctionOnSet,
         MapThenFoldSet, J!MapThenFoldSet
<1>2. \A o \in S : w[o] = VolumeOf(o) /\ w[o] \in Nat
  OBVIOUS
<1> HIDE DEF w
<1>3. J!IsFiniteSet(S)
  BY DEF IsFiniteSet, J!IsFiniteSet
<1>4. J!Total(w, S) = 0 <=> \A o \in S : w[o] = 0
  BY <1>2, <1>3, J!TotalZero
<1> QED
  BY <1>1, <1>2, <1>4

LEMMA DistinctCount ==
  ASSUME NEW X, NEW s \in Seq(X), Distinct(s)
  PROVE  IsFiniteSet(Range(s)) /\ Len(s) = Cardinality(Range(s))
<1>1. DOMAIN s = 1 .. Len(s) /\ Len(s) \in Nat /\ s = [i \in 1 .. Len(s) |-> s[i]]
  OBVIOUS
<1>2. s \in Bijection(1 .. Len(s), Range(s))
  BY <1>1 DEF Distinct, Range, Bijection, Injection, Surjection, IsInjective
<1>3. ExistsBijection(1 .. Len(s), Range(s))
  BY <1>2 DEF ExistsBijection
<1> QED
  BY <1>1, <1>3, FS_NatBijection, FS_CountingElements

\* The member that the Jita page writes for a type.
ForSale(orders) == {o \in Range(orders) : StationOf(o) = Hubs[1].station}

IsMember(member, type, forSale) ==
  /\ member[2] = ToString(type)
  /\ IF UnitsOf(forSale) = 0 THEN member[1] = "key"
     ELSE /\ member[1] = "prop"
          /\ Range(member[3]) = forSale /\ Len(member[3]) = Cardinality(forSale)

LEMMA JitaMember ==
  ASSUME NEW region, NEW type, NEW orders \in OneDownload(FALSE, region, type), orders \in Seq(Order), NEW set
  PROVE  IsMember(JitaEntry(set, orders)[1], set.type, ForSale(orders))
<1> DEFINE jita == AtJita(orders)
           X == Range(orders)
           forSale == ForSale(orders)
           member == JitaEntry(set, orders)[1]
<1>1. Distinct(orders) /\ \A o \in X : VolumeOf(o) \in Nat
  BY DownloadOrders
<1>2. jita \in Seq(X) /\ Distinct(jita) /\ Range(jita) = forSale
  BY <1>1, AtJitaFilters DEF Filtered, ForSale
<1>3. IsFiniteSet(forSale) /\ Len(jita) = Cardinality(forSale)
  <2> HIDE DEF jita, X, forSale
  <2> QED
    BY <1>2, DistinctCount
<1>4. TotalVolume(jita) = 0 <=> UnitsOf(forSale) = 0
  <2>1. TotalVolume(jita) = 0 <=> \A o \in Range(jita) : VolumeOf(o) = 0
    <3> HIDE DEF jita, X
    <3> QED
      BY <1>1, <1>2, VolumeIsZero
  <2>2. \A o \in forSale : VolumeOf(o) \in Nat
    BY <1>1 DEF ForSale
  <2> HIDE DEF jita, forSale
  <2>3. UnitsOf(forSale) = 0 <=> \A o \in forSale : VolumeOf(o) = 0
    BY <1>3, <2>2, UnitsAreZero
  <2> QED
    BY <1>2, <2>1, <2>3
<1>5. /\ TotalVolume(jita) = 0 => member = Key(ToString(set.type))
      /\ TotalVolume(jita) # 0 => member = Prop(ToString(set.type), jita)
  BY DEF JitaEntry
<1> HIDE DEF jita, forSale, member
<1>6. IsMember(member, set.type, forSale)
  <2>1. CASE UnitsOf(forSale) = 0
    BY <1>4, <1>5, <2>1 DEF Key, IsMember
  <2>2. CASE UnitsOf(forSale) # 0
    BY <1>2, <1>3, <1>4, <1>5, <2>2 DEF Prop, IsMember
  <2> QED
    BY <2>1, <2>2
<1> QED
  BY <1>6 DEF member, forSale

\* The Jita page has one member for each type asked for, in that order: null if nothing is
\* for sale at Jita, or else a price of all the orders that one download had for sale there.
THEOREM JitaPricesAreOfJita == PagesSpec => []JitaPricesAreJitas
<1>1. PagesInv => JitaPricesAreJitas
  <2> SUFFICES ASSUME PagesInv, NEW h \in Handlers, Answered(h, {"jita-5p-sell"})
               PROVE  LET q == request[h]
                          members == Members(response[h].body)
                          forSale(i) == {o \in Range(replies[h][i].orders) : StationOf(o) = Hubs[1].station}
                      IN  /\ Len(members) = Len(q.type)
                          /\ \A i \in DOMAIN q.type :
                               /\ replies[h][i].orders \in OneDownload(FALSE, Hubs[1].region, q.type[i])
                               /\ IsMember(members[i], q.type[i], forSale(i))
    BY DEF JitaPricesAreJitas, IsMember
  <2> DEFINE q == request[h]
             rs == replies[h]
             members == Members(response[h].body)
  <2>1. /\ Done(h) /\ q.path = "jita-5p-sell" /\ IsRequest(q) /\ Check(q) = 200
        /\ sets[h] = SetsOf(q) /\ Len(rs) = Len(sets[h]) /\ Replied(sets[h], rs)
    BY AnsweredIsDone DEF Answered
  <2>2. q.type \in Seq(Int) /\ SetsOf(q) = JitaSets(q)
    BY <2>1, TypesChecked DEF SetsOf
  <2>3. /\ Len(rs) = Len(q.type)
        /\ \A i \in 1 .. Len(rs) : SetsOf(q)[i] = OrderSet(FALSE, Hubs[1].region, q.type[i])
    <3>1. Len(JitaSets(q)) = Len(q.type)
      BY <2>2, JitaSetsAre
    <3>2. \A i \in 1 .. Len(q.type) : JitaSets(q)[i] = OrderSet(FALSE, Hubs[1].region, q.type[i])
      BY <2>2, JitaSetsAre
    <3>3. Len(rs) = Len(q.type) /\ SetsOf(q) = JitaSets(q)
      BY <2>1, <2>2, <3>1
    <3> HIDE DEF q, rs
    <3> QED
      BY <3>2, <3>3
  <2>4. PICK w : Writes(q, rs, w) /\ response[h].body = Append(w, Closing(q))
    BY <2>1 DEF Done
  <2>5. members = Members(w)
    <3>1. Closing(q) = EndObj /\ IsSeq(w) /\ members = Collect(Members(w), EndObj)
      BY <2>1, <2>4, MembersAre DEF Closing, Writes
    <3>2. \A found : Collect(found, EndObj) = found
      BY DEF Collect, EndObj
    <3> HIDE DEF members
    <3> QED
      BY <3>1, <3>2
  <2>6. Len(members) = Len(rs) /\ \A i \in 1 .. Len(rs) : members[i] = JitaEntry(SetsOf(q)[i], rs[i].orders)[1]
    BY <2>1, <2>4, <2>5 DEF Writes, JitaSoFar
  <2> HIDE DEF members
  <2>7. ASSUME NEW i \in 1 .. Len(rs)
        PROVE  /\ rs[i].orders \in OneDownload(FALSE, Hubs[1].region, q.type[i])
               /\ IsMember(members[i], q.type[i], ForSale(rs[i].orders))
    <3> DEFINE set == SetsOf(q)[i]
               orders == rs[i].orders
    <3>1. set.buy = FALSE /\ set.region = Hubs[1].region /\ set.type = q.type[i]
      <4>1. set = OrderSet(FALSE, Hubs[1].region, q.type[i])
        BY <2>3
      <4> HIDE DEF set
      <4> QED
        BY <4>1 DEF OrderSet
    <3>2. orders \in OneDownload(FALSE, Hubs[1].region, q.type[i]) /\ orders \in Seq(Order)
      <4>1. rs[i] \in Reply /\ orders \in OneDownload(set.buy, set.region, set.type)
        BY <2>1 DEF Replied
      <4> QED
        BY <3>1, <4>1 DEF Reply
    <3>3. members[i] = JitaEntry(set, orders)[1]
      BY <2>6
    <3> HIDE DEF set, orders
    <3>4. IsMember(JitaEntry(set, orders)[1], set.type, ForSale(orders))
      BY <3>2, JitaMember
    <3> QED
      BY <3>1, <3>2, <3>3, <3>4 DEF orders
  <2>8. DOMAIN q.type = 1 .. Len(rs)
    BY <2>2, <2>3
  <2> QED
    BY <2>3, <2>6, <2>7, <2>8 DEF members, ForSale
<1> QED
  BY <1>1, PagesInvariant, PTL

===============================================================================
