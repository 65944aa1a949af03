----------------------------- MODULE OrderPages -----------------------------
(***************************************************************************)
(* Server::handle_request for the pages that read the market order cache:  *)
(* bulk-market-orders, hub-buy-prices, hub-sell-prices and jita-5p-sell.   *)
(*                                                                         *)
(* A page reads its parameters, makes one get_orders call after the other, *)
(* each under a lock of its own, and writes JSON as it goes.  The cache is *)
(* OrderStore, which MarketOrdersCache implements: between two calls of a  *)
(* request its regions are replaced, emptied and broken.                   *)
(*                                                                         *)
(* The body is the sequence of calls made to the external json::Writer.  A *)
(* five percent price is written as the orders it is computed from; how it *)
(* is computed is FivePercentPrice.                                        *)
(*                                                                         *)
(* The history pages, which do not use the cache, are BulkMarketHistory.   *)
(***************************************************************************)
EXTENDS OrderStore, SequencesExt

CONSTANTS
  Requests,      \* the requests that are made
  RegionIds,     \* EVE_REGION_IDS
  Hubs,          \* REGIONS and STATIONS, as a sequence of pairs
  NoNumber,      \* a parameter that std::stoi does not take
  StationOf(_), PriceOf(_), VolumeOf(_)   \* of an order

Number == Int \cup {NoNumber}

\* A request as the pages see it: its path, whether it has the parameters buy
\* and sell, whether its region is "all", and its lists of parameters.  An order
\* parameter has a number of comma separated parts.
OrderParam == [parts : Nat, side : STRING, region : Number, type : Number]

IsRequest(q) ==
  /\ DOMAIN q = {"path", "buy", "sell", "all", "region", "type", "order"}
  /\ q.path \in {"bulk-market-orders", "hub-buy-prices", "hub-sell-prices", "jita-5p-sell", "other"}
  /\ {q.buy, q.sell, q.all} \subseteq BOOLEAN
  /\ q.region \in Seq(Number) /\ q.type \in Seq(Number) /\ q.order \in Seq(OrderParam)

ASSUME PagesAssumption ==
  /\ NoNumber \notin Int
  /\ RegionIds \in Seq(Regions) /\ Range(RegionIds) = Regions
  /\ Hubs # <<>> /\ Hubs \in Seq([region : Regions, station : STRING])
  /\ Requests # {} /\ \A q \in Requests : IsRequest(q)
  /\ \A r \in Regions, id \in Ids, v \in Versions : \A o \in Range(Block(r, id, v)) :
       PriceOf(o) \in Int /\ VolumeOf(o) \in Nat

VARIABLES
  request,    \* the request each thread serves, or served last
  phase,      \* "idle", or "page" between the parameters and the response
  sets,       \* order_sets: what the page looks up, in this order
  written,    \* the calls made to the page's json::Writer
  response,   \* the last response of each thread
  replies     \* history: what the lookups of the request returned

pageVars == <<request, phase, sets, written, response, replies>>
allVars == <<vars, pageVars>>

-----------------------------------------------------------------------------
(* External: json::Writer *)

StartArr == <<"start_arr">>
EndArr   == <<"end_arr">>
StartObj == <<"start_obj">>
EndObj   == <<"end_obj">>
Null     == <<"null">>
Key(name)         == <<"key", name>>
Prop(name, value) == <<"prop", name, value>>

NoResponse == [status |-> 0, body |-> <<>>]

\* http_simple_error_page
ErrorPage(status) ==
  [status |-> status, body |-> <<StartObj, Prop("error", status), EndObj>>]

-----------------------------------------------------------------------------
(* The parameters: the status is that of the first thing wrong with them *)

FirstError(checks) ==
  LET bad == {k \in DOMAIN checks : checks[k] # 200}
  IN  IF bad = {} THEN 200 ELSE checks[Min(bad)]

\* std::stoi throws at the first that is not a number; no number is a bad request.
CheckNumbers(params) ==
  IF NoNumber \in Range(params) THEN 500 ELSE IF params = <<>> THEN 400 ELSE 200

CheckRegions(q) == IF q.all THEN 200 ELSE CheckNumbers(q.region)
RegionsOf(q)    == IF q.all THEN RegionIds ELSE q.region

\* Mutant: the parts are counted but the numbers in them are not looked at.
CheckOrderParts(p) == IF p.parts # 3 THEN 400 ELSE 200

CheckOrder(p) ==
  IF p.parts # 3 THEN 400 ELSE IF NoNumber \in {p.region, p.type} THEN 500 ELSE 200

CheckBulk(q) ==
  IF q.order # <<>> THEN FirstError([k \in DOMAIN q.order |-> CheckOrder(q.order[k])])
  ELSE FirstError(<<IF q.buy \/ q.sell THEN 200 ELSE 400, CheckRegions(q), CheckNumbers(q.type)>>)

Check(q) ==
  CASE q.path = "bulk-market-orders" -> CheckBulk(q)
    [] q.path = "other"              -> 404
    [] OTHER                         -> CheckNumbers(q.type)

OrderSet(buy, region, type) == [buy |-> buy, region |-> region, type |-> type]

Sides(q) == (IF q.buy THEN <<TRUE>> ELSE <<>>) \o (IF q.sell THEN <<FALSE>> ELSE <<>>)

\* Mutant: the loop over the types goes round the one over the regions.
ProductTypesFirst(q) ==
  LET ofType(type) ==
        FlattenSeq([i \in DOMAIN RegionsOf(q) |->
          [s \in DOMAIN Sides(q) |-> OrderSet(Sides(q)[s], RegionsOf(q)[i], type)]])
  IN  FlattenSeq([j \in DOMAIN q.type |-> ofType(q.type[j])])

Product(q) ==
  LET ofRegion(region) ==
        FlattenSeq([j \in DOMAIN q.type |->
          [s \in DOMAIN Sides(q) |-> OrderSet(Sides(q)[s], region, q.type[j])]])
  IN  FlattenSeq([i \in DOMAIN RegionsOf(q) |-> ofRegion(RegionsOf(q)[i])])

BulkSets(q) ==
  IF q.order # <<>>
  THEN [k \in DOMAIN q.order |->
          OrderSet(q.order[k].side = "buy", q.order[k].region, q.order[k].type)]
  ELSE Product(q)

HubSets(q) ==
  FlattenSeq([i \in DOMAIN q.type |->
    [j \in DOMAIN Hubs |-> OrderSet(q.path = "hub-buy-prices", Hubs[j].region, q.type[i])]])

\* Jita is the first hub, in The Forge.
JitaSets(q) == [i \in DOMAIN q.type |-> OrderSet(FALSE, Hubs[1].region, q.type[i])]

SetsOf(q) ==
  CASE q.path = "bulk-market-orders" -> BulkSets(q)
    [] q.path = "jita-5p-sell"       -> JitaSets(q)
    [] OTHER                         -> HubSets(q)

-----------------------------------------------------------------------------
(* What a page writes for one lookup *)

BulkEntry(set, orders) ==
  <<StartObj, Prop("buy", set.buy), Prop("region", set.region), Prop("type", set.type),
    Prop("items", orders), EndObj>>

Better(buy, price, best) == IF buy THEN price > best ELSE price < best

\* Mutant: best starts at 0 and there is no `found'.
BestFromZero(buy, station, orders) ==
  LET best[n \in 0 .. Len(orders)] ==
        IF n = 0 THEN <<0>>
        ELSE IF /\ StationOf(orders[n]) = station
                /\ Better(buy, PriceOf(orders[n]), best[n - 1][1])
             THEN <<PriceOf(orders[n])>> ELSE best[n - 1]
  IN  best[Len(orders)]

\* The loop over the orders: nothing found yet is <<>>.
Best(buy, station, orders) ==
  LET best[n \in 0 .. Len(orders)] ==
        IF n = 0 THEN <<>>
        ELSE IF /\ StationOf(orders[n]) = station
                /\ best[n - 1] # <<>> => Better(buy, PriceOf(orders[n]), best[n - 1][1])
             THEN <<PriceOf(orders[n])>> ELSE best[n - 1]
  IN  best[Len(orders)]

\* The n-th lookup is for hub (n - 1) % Len(Hubs) + 1 of its type.
HubEntry(n, set, orders) ==
  LET j == ((n - 1) % Len(Hubs)) + 1
      best == Best(set.buy, Hubs[j].station, orders)
  IN  (IF j = 1 THEN <<Key(ToString(set.type)), StartObj>> ELSE <<>>)
        \o (IF best # <<>> THEN <<Prop(ToString(set.region), best[1])>> ELSE <<>>)
        \o (IF j = Len(Hubs) THEN <<EndObj>> ELSE <<>>)

AtJita(orders) ==
  FoldLeft(LAMBDA at, o : IF StationOf(o) = Hubs[1].station THEN Append(at, o) ELSE at, <<>>, orders)

TotalVolume(orders) == FoldLeft(LAMBDA sum, o : sum + VolumeOf(o), 0, orders)

\* Mutant: only a type without orders at Jita has no price.
JitaEntryNoVolume(set, orders) ==
  LET jita == AtJita(orders)
  IN  IF jita = <<>> THEN <<Key(ToString(set.type)), Null>>
                     ELSE <<Prop(ToString(set.type), jita)>>

\* five_percent_price is not a number if the orders have no volume.
JitaEntry(set, orders) ==
  LET jita == AtJita(orders)
  IN  IF TotalVolume(jita) = 0 THEN <<Key(ToString(set.type)), Null>>
                               ELSE <<Prop(ToString(set.type), jita)>>

Entry(q, n, set, orders) ==
  CASE q.path = "bulk-market-orders" -> BulkEntry(set, orders)
    [] q.path = "jita-5p-sell"       -> JitaEntry(set, orders)
    [] OTHER                         -> HubEntry(n, set, orders)

Opening(q) == IF q.path = "jita-5p-sell" THEN StartObj ELSE StartArr
Closing(q) == IF q.path = "jita-5p-sell" THEN EndObj ELSE EndArr

-----------------------------------------------------------------------------
(* handle_request *)

PagesInit ==
  /\ Init
  /\ request = [h \in Handlers |-> CHOOSE q \in Requests : TRUE]
  /\ phase = [h \in Handlers |-> "idle"]
  /\ sets = [h \in Handlers |-> <<>>] /\ written = [h \in Handlers |-> <<>>]
  /\ response = [h \in Handlers |-> NoResponse]
  /\ replies = [h \in Handlers |-> <<>>]

\* Its path and parameters are in order: the page starts to write.
StartPage(h, q) ==
  /\ phase[h] = "idle" /\ Check(q) = 200
  /\ request' = [request EXCEPT ![h] = q]
  /\ phase' = [phase EXCEPT ![h] = "page"]
  /\ sets' = [sets EXCEPT ![h] = SetsOf(q)]
  /\ written' = [written EXCEPT ![h] = <<Opening(q)>>]
  /\ response' = [response EXCEPT ![h] = NoResponse]
  /\ replies' = [replies EXCEPT ![h] = <<>>]
  /\ UNCHANGED vars

\* No such page, a bad request, or an exception of std::stoi.
Refuse(h, q) ==
  /\ phase[h] = "idle" /\ Check(q) # 200
  /\ request' = [request EXCEPT ![h] = q]
  /\ response' = [response EXCEPT ![h] = ErrorPage(Check(q))]
  /\ sets' = [sets EXCEPT ![h] = <<>>] /\ written' = [written EXCEPT ![h] = <<>>]
  /\ replies' = [replies EXCEPT ![h] = <<>>]
  /\ UNCHANGED <<vars, phase>>

\* The place of the page in its loop over the sets.
At(h) == Len(replies[h]) + 1

GetOrders(h, set) ==
  IF set.region \in Regions
  THEN \/ Answer(h, set.region, IF set.buy THEN -set.type ELSE set.type)
       \/ BreakWhileReading(h, set.region)
  ELSE AnswerUnknownRegion(h)

Looking(h) ==
  /\ phase[h] = "page" /\ At(h) <= Len(sets[h])
  /\ GetOrders(h, sets[h][At(h)])
  /\ replies' = [replies EXCEPT ![h] = Append(@, reply'[h])]

LookUp(h) ==
  /\ Looking(h) /\ reply'[h].status = "ok"
  /\ written' = [written EXCEPT ![h] =
                   @ \o Entry(request[h], At(h), sets[h][At(h)], reply'[h].orders)]
  /\ UNCHANGED <<request, phase, sets, response>>

\* Mutant: a lookup that throws is caught inside the loop and left out.
LookUpSkips(h) ==
  /\ Looking(h) /\ reply'[h].status = "error"
  /\ UNCHANGED <<request, phase, sets, written, response>>

\* The exception ends the page: what it wrote is dropped.
LookUpThrows(h) ==
  /\ Looking(h) /\ reply'[h].status = "error"
  /\ phase' = [phase EXCEPT ![h] = "idle"]
  /\ written' = [written EXCEPT ![h] = <<>>]
  /\ response' = [response EXCEPT ![h] = ErrorPage(500)]
  /\ UNCHANGED <<request, sets>>

\* Mutant: the array or object is left open.
RespondUnclosed(h) ==
  /\ phase[h] = "page" /\ At(h) > Len(sets[h])
  /\ phase' = [phase EXCEPT ![h] = "idle"]
  /\ written' = [written EXCEPT ![h] = <<>>]
  /\ response' = [response EXCEPT ![h] = [status |-> 200, body |-> written[h]]]
  /\ UNCHANGED <<vars, request, sets, replies>>

Respond(h) ==
  /\ phase[h] = "page" /\ At(h) > Len(sets[h])
  /\ phase' = [phase EXCEPT ![h] = "idle"]
  /\ written' = [written EXCEPT ![h] = <<>>]
  /\ response' = [response EXCEPT ![h] =
                    [status |-> 200, body |-> Append(written[h], Closing(request[h]))]]
  /\ UNCHANGED <<vars, request, sets, replies>>

Serve(h) == LookUp(h) \/ LookUpThrows(h) \/ Respond(h)

\* What the update thread does to the store meanwhile.
Updates ==
  /\ \/ \E r \in Regions : \E files \in Snapshots(r) : Stage(files)
     \/ \E r \in Regions : BeginUpdate(r) \/ EndUpdate(r) \/ BreakWhileScanning(r)
  /\ UNCHANGED pageVars

PagesNext ==
  \/ \E h \in Handlers : Serve(h) \/ \E q \in Requests : StartPage(h, q) \/ Refuse(h, q)
  \/ Updates

PagesSpec == PagesInit /\ [][PagesNext]_allVars

-----------------------------------------------------------------------------
(* Properties *)

\* The type invariant: a page never looks up more than its sets.
PagesTypeOK ==
  /\ request \in [Handlers -> Requests]
  /\ phase \in [Handlers -> {"idle", "page"}]
  /\ \A h \in Handlers :
       /\ replies[h] \in Seq(Reply) /\ Len(replies[h]) <= Len(sets[h])
       /\ sets[h] \in Seq([buy : BOOLEAN, region : Int, type : Int])
       /\ response[h].status \in {0, 200, 400, 404, 500}
       /\ phase[h] = "page" <=> written[h] # <<>>

Answered(h, paths) == response[h].status = 200 /\ request[h].path \in paths

HubPaths == {"hub-buy-prices", "hub-sell-prices"}

\* What a region may hold for a type and side: all the orders of one download, or
\* none.
OneDownload(buy, region, type) ==
  LET id == IF buy THEN -type ELSE type
  IN  {<<>>} \cup {Block(region, id, v) : v \in {x \in Versions : id \in Ids}}

\* The n-th set a bulk request asks for, counted without a loop: the order
\* parameters one by one, or sides within types within regions.
AskedSides(q)  == IF q.buy /\ q.sell THEN 2 ELSE 1
AskedNumber(q) ==
  IF q.order # <<>> THEN Len(q.order) ELSE Len(RegionsOf(q)) * Len(q.type) * AskedSides(q)

Asked(q, n) ==
  LET side == (n - 1) % AskedSides(q)
      t    == ((n - 1) \div AskedSides(q)) % Len(q.type)
      r    == (n - 1) \div (AskedSides(q) * Len(q.type))
  IN  IF q.order # <<>>
      THEN OrderSet(q.order[n].side = "buy", q.order[n].region, q.order[n].type)
      ELSE OrderSet(q.buy /\ side = 0, RegionsOf(q)[r + 1], q.type[t + 1])

\* A bulk response has one object for each set asked for, in the order asked,
\* labelled with it, and holding what the lookup of that very set returned: all
\* the orders that one download of that region had for that type and side, or
\* none, though the region may be replaced before, between and after the lookups
\* that the response is made of.
BulkAnswersEverySet ==
  \A h \in Handlers : Answered(h, {"bulk-market-orders"}) =>
    LET q == request[h]
        body == response[h].body
    IN  /\ Len(body) = 6 * AskedNumber(q) + 2
        /\ \A n \in 1 .. AskedNumber(q) :
             LET set == Asked(q, n)
                 found == replies[h][n].orders
             IN  /\ found \in OneDownload(set.buy, set.region, set.type)
                 /\ SubSeq(body, 6 * n - 4, 6 * n + 1) = BulkEntry(set, found)

\* A response is a whole page only if every lookup of the request succeeded, and
\* has then made all of them; after the first that failed, none is made and
\* nothing that was read before it is left in the response.
WholePageOrError ==
  \A h \in Handlers : phase[h] = "idle" =>
    LET last == Len(replies[h])
    IN  /\ \A n \in 1 .. last - 1 : replies[h][n].status = "ok"
        /\ IF response[h].status = 200
           THEN last = Len(sets[h]) /\ last > 0 /\ replies[h][last].status = "ok"
           ELSE /\ last > 0 => replies[h][last].status = "error" /\ response[h].status = 500
                /\ response[h].status # 0 => response[h] = ErrorPage(response[h].status)

\* The prices at hub j in what was found for it, and the best of them.
HubPrices(h, i, j) ==
  LET found == replies[h][(i - 1) * Len(Hubs) + j].orders
  IN  {PriceOf(o) : o \in {x \in Range(found) : StationOf(x) = Hubs[j].station}}
BestOf(buy, prices) ==
  CHOOSE p \in prices : \A other \in prices : IF buy THEN p >= other ELSE p <= other

\* A hub page has a price for exactly those hubs of a type whose station had an
\* order, and it is the highest of the buy orders or the lowest of the sell orders
\* there, which all came with one download of the hub's region.
HubPricesAreBest ==
  \A h \in Handlers : Answered(h, HubPaths) =>
    LET q == request[h]
        buy == q.path = "hub-buy-prices"
        body == response[h].body
        keys(n) == Cardinality({m \in 1 .. n : body[m][1] = "key"})
        props(i) == {body[n] : n \in {m \in DOMAIN body : body[m][1] = "prop" /\ keys(m) = i}}
    IN  \A i \in DOMAIN q.type :
          /\ props(i) = {Prop(ToString(Hubs[j].region), BestOf(buy, HubPrices(h, i, j))) :
                           j \in {x \in DOMAIN Hubs : HubPrices(h, i, x) # {}}}
          /\ \A j \in DOMAIN Hubs :
               replies[h][(i - 1) * Len(Hubs) + j].orders \in OneDownload(buy, Hubs[j].region, q.type[i])

UnitsOf(orders) == SumFunctionOnSet([o \in orders |-> VolumeOf(o)], orders)

\* The calls that begin a member of an object.
Members(body) ==
  FoldLeft(LAMBDA found, call : IF call[1] \in {"key", "prop"} THEN Append(found, call) ELSE found,
           <<>>, body)

\* The Jita page has one member for each type asked for, in that order: null if
\* nothing is for sale at Jita, or else a price computed from all the orders
\* that one download of The Forge had for sale there and from no others.
JitaPricesAreJitas ==
  \A h \in Handlers : Answered(h, {"jita-5p-sell"}) =>
    LET q == request[h]
        members == Members(response[h].body)
        forSale(i) == {o \in Range(replies[h][i].orders) : StationOf(o) = Hubs[1].station}
    IN  /\ Len(members) = Len(q.type)
        /\ \A i \in DOMAIN q.type :
             /\ members[i][2] = ToString(q.type[i])
             /\ replies[h][i].orders \in OneDownload(FALSE, Hubs[1].region, q.type[i])
             /\ IF UnitsOf(forSale(i)) = 0 THEN members[i][1] = "key"
                ELSE /\ members[i][1] = "prop"
                     /\ Range(members[i][3]) = forSale(i)
                     /\ Len(members[i][3]) = Cardinality(forSale(i))

\* What the writer's calls leave open, innermost first: an array, an object, or
\* one value that is due.  An object takes keys, and anything else a value.
Takes(open, call) ==
  LET top == IF open = <<>> THEN "nothing" ELSE Head(open)
      rest == IF top = "value" THEN Tail(open) ELSE open
  IN  CASE call[1] = "key" /\ top = "object"                             -> <<"value">> \o open
        [] call[1] = "prop" /\ top = "object"                            -> open
        [] call = Null /\ top \in {"value", "array"}                     -> rest
        [] call = StartObj /\ top \in {"value", "array"}                 -> <<"object">> \o rest
        [] call = StartArr /\ top \in {"value", "array"}                 -> <<"array">> \o rest
        [] call = EndObj /\ top = "object"                               -> Tail(open)
        [] call = EndArr /\ top = "array"                                -> Tail(open)
        [] OTHER                                                         -> <<"error">>

IsJson(body) == FoldLeft(Takes, <<"value">>, body) = <<>>

\* Every response that Content-Type says is application/json is one JSON value.
BodyIsJson ==
  \A h \in Handlers : response[h].status # 0 => IsJson(response[h].body)

\* So it is on all pages but those of the hubs, and with errors: each lookup adds
\* whole members or elements, whatever it found.
OtherBodiesAreJson ==
  \A h \in Handlers :
    response[h].status # 0 /\ (response[h].status = 200 => request[h].path \notin HubPaths)
      => IsJson(response[h].body)

=============================================================================
