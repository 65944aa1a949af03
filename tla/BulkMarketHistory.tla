-------------------------- MODULE BulkMarketHistory --------------------------
(***************************************************************************)
(* GET /bulk-market-history and /bulk-market-history-aggregated: one       *)
(* upstream request for each type and region, all queued at once.  The     *)
(* answers are awaited one by one, and written as they are or, aggregated, *)
(* the days of each type combined over the regions.                        *)
(*                                                                         *)
(* A history is a function from dates to days.  Prices are whole numbers   *)
(* and avg_price is kept as the sum that the code divides by the volume at *)
(* the end; a day is then a record, without floating point.                *)
(***************************************************************************)
EXTENDS Integers, FiniteSets, SequencesExt

CONSTANTS
  TypeParams, RegionParams,   \* the parameters of the request, as sequences
  Dates,                      \* the dates a history may have
  Days,                       \* the days a history may have
  MaxConnections              \* PCREST_MAX_CONNECTIONS

Day == [avg_price : Nat, high_price : Nat, low_price : Nat, order_count : Nat, volume : Nat]

ASSUME HistoryAssumption ==
  /\ Len(TypeParams) \in Nat \ {0} /\ Len(RegionParams) \in Nat \ {0}
  /\ Days \subseteq Day
  /\ MaxConnections \in Nat \ {0}

Count == Len(TypeParams) * Len(RegionParams)

VARIABLES
  aggregated,  \* which of the two pages it is
  pc,          \* "send", "collect", "write", "returned", "thrown"
  i, j, k,     \* the loops' positions: type, region, request
  url,         \* url[k]: the type and region request k asks for
  request,     \* each AsyncRequest: "none", "queued", "sent", "done"
  response,    \* what wait() of a request that is done yields
  days,        \* the days of the type the loop is at
  body         \* what was written

callVars   == <<aggregated, pc, i, j, k, url, days, body>>
clientVars == <<request, response>>
vars == <<callVars, clientVars>>

\* An answer is a history; or it does not decompress or parse, which an HTTP
\* status other than 200, not looked at, makes no difference to.
Histories == UNION {[D -> Days] : D \in SUBSET Dates}
Answers == [ok : {TRUE}, history : Histories] \cup [ok : {FALSE}, history : {<<>>}]
NoAnswer == [ok |-> FALSE, history |-> <<>>]

Init ==
  /\ aggregated \in BOOLEAN
  /\ pc = "send" /\ i = 1 /\ j = 1 /\ k = 1
  /\ url = [n \in 1 .. Count |-> <<>>]
  /\ request = [n \in 1 .. Count |-> "none"]
  /\ response = [n \in 1 .. Count |-> NoAnswer]
  /\ days = <<>> /\ body = <<>>

-----------------------------------------------------------------------------
(* External: http::AsyncClient and the server it talks to *)

Transmit(n) ==
  /\ request[n] = "queued"
  /\ Cardinality({m \in 1 .. Count : request[m] = "sent"}) < MaxConnections
  /\ request' = [request EXCEPT ![n] = "sent"]
  /\ UNCHANGED <<callVars, response>>

Complete(n) ==
  /\ request[n] = "sent"
  /\ request' = [request EXCEPT ![n] = "done"]
  /\ \E answer \in Answers : response' = [response EXCEPT ![n] = answer]
  /\ UNCHANGED callVars

-----------------------------------------------------------------------------
(* get_bulk_market_history *)

\* The next step of the loop over the regions inside the loop over the types.
NextRegion == IF j < Len(RegionParams) THEN i' = i /\ j' = j + 1
                                       ELSE i' = i + 1 /\ j' = 1

\* Mutant: the request is queued after the inner loop, once for each type.
SendOnePerType ==
  /\ pc = "send" /\ i <= Len(TypeParams)
  /\ url' = [url EXCEPT ![k] = <<TypeParams[i], RegionParams[j]>>]
  /\ request' = IF j = Len(RegionParams) THEN [request EXCEPT ![k] = "queued"] ELSE request
  /\ k' = k + 1 /\ NextRegion
  /\ UNCHANGED <<aggregated, pc, days, body, response>>

SendRequest ==
  /\ pc = "send" /\ i <= Len(TypeParams)
  /\ url' = [url EXCEPT ![k] = <<TypeParams[i], RegionParams[j]>>]
  /\ request' = [request EXCEPT ![k] = "queued"]
  /\ k' = k + 1 /\ NextRegion
  /\ UNCHANGED <<aggregated, pc, days, body, response>>

\* Mutant: the index of the requests is not set back.
AllSentKeepsIndex ==
  /\ pc = "send" /\ i > Len(TypeParams)
  /\ pc' = "collect" /\ i' = 1 /\ j' = 1
  /\ UNCHANGED <<aggregated, k, url, days, body, clientVars>>

AllSent ==
  /\ pc = "send" /\ i > Len(TypeParams)
  /\ pc' = "collect" /\ i' = 1 /\ j' = 1 /\ k' = 1
  /\ UNCHANGED <<aggregated, url, days, body, clientVars>>

-----------------------------------------------------------------------------
(* The loops of both pages over the answers *)

\* Mutant: a broken answer is skipped.
SkipBroken ==
  /\ pc = "collect"
  /\ request[k] = "done" /\ ~response[k].ok
  /\ k' = k + 1 /\ NextRegion
  /\ pc' = IF i' <= Len(TypeParams) THEN "collect" ELSE "returned"
  /\ UNCHANGED <<aggregated, url, days, body, clientVars>>

\* wait() throws, or what it returns does not decompress or parse.
ReceiveBroken ==
  /\ pc = "collect"
  /\ request[k] = "done" /\ ~response[k].ok
  /\ pc' = "thrown"
  /\ UNCHANGED <<aggregated, i, j, k, url, days, body, clientVars>>

Received == pc = "collect" /\ request[k] = "done" /\ response[k].ok /\ k' = k + 1

\* Mutant: the loops are nested the other way round than those that sent.
CopyByRegion ==
  /\ Received /\ ~aggregated
  /\ body' = Append(body, [type |-> TypeParams[i], region |-> RegionParams[j],
                           days |-> response[k].history])
  /\ IF i < Len(TypeParams) THEN i' = i + 1 /\ j' = j
     ELSE i' = (IF j < Len(RegionParams) THEN 1 ELSE i + 1)
          /\ j' = (IF j < Len(RegionParams) THEN j + 1 ELSE 1)
  /\ pc' = IF i' <= Len(TypeParams) THEN "collect" ELSE "returned"
  /\ UNCHANGED <<aggregated, url, days, clientVars>>

\* http_get_bulk_market_history: the type and the region, and what the upstream
\* had for them.
CopyHistory ==
  /\ Received /\ ~aggregated
  /\ body' = Append(body, [type |-> TypeParams[i], region |-> RegionParams[j],
                           days |-> response[k].history])
  /\ NextRegion
  /\ pc' = IF i' <= Len(TypeParams) THEN "collect" ELSE "returned"
  /\ UNCHANGED <<aggregated, url, days, clientVars>>

\* http_get_bulk_market_history_aggregated.

\* A date that is new is added, with the sum its average is made from; one that
\* is not is combined with what is there.
FirstOf(day) == [day EXCEPT !.avg_price = day.avg_price * day.volume]

\* Mutant: the averages of further regions are not weighted by volume.
CombineUnweighted(sum, day) ==
  [avg_price   |-> sum.avg_price + day.avg_price,
   high_price  |-> IF day.high_price > sum.high_price THEN day.high_price ELSE sum.high_price,
   low_price   |-> IF day.low_price < sum.low_price THEN day.low_price ELSE sum.low_price,
   order_count |-> sum.order_count + day.order_count,
   volume      |-> sum.volume + day.volume]

Combine(sum, day) ==
  [avg_price   |-> sum.avg_price + day.avg_price * day.volume,
   high_price  |-> IF day.high_price > sum.high_price THEN day.high_price ELSE sum.high_price,
   low_price   |-> IF day.low_price < sum.low_price THEN day.low_price ELSE sum.low_price,
   order_count |-> sum.order_count + day.order_count,
   volume      |-> sum.volume + day.volume]

Merge(sums, history) ==
  [d \in DOMAIN sums \cup DOMAIN history |->
     IF d \notin DOMAIN history THEN sums[d]
     ELSE IF d \in DOMAIN sums THEN Combine(sums[d], history[d])
                               ELSE FirstOf(history[d])]

MergeHistory ==
  /\ Received /\ aggregated
  /\ days' = Merge(days, response[k].history)
  /\ IF j < Len(RegionParams) THEN j' = j + 1 /\ UNCHANGED pc
                              ELSE pc' = "write" /\ UNCHANGED j
  /\ UNCHANGED <<aggregated, i, url, body, clientVars>>

\* After the last region of a type its days are written, if there are any.
WriteType ==
  /\ pc = "write"
  /\ body' = IF DOMAIN days # {} THEN Append(body, [type |-> TypeParams[i], days |-> days])
                                 ELSE body
  /\ days' = <<>>
  /\ i' = i + 1 /\ j' = 1
  /\ pc' = IF i < Len(TypeParams) THEN "collect" ELSE "returned"
  /\ UNCHANGED <<aggregated, k, url, clientVars>>

-----------------------------------------------------------------------------
Page   == SendRequest \/ AllSent \/ ReceiveBroken \/ CopyHistory \/ MergeHistory \/ WriteType
Client == \E n \in 1 .. Count : Transmit(n) \/ Complete(n)

Next == Page \/ Client

Spec == Init /\ [][Next]_vars

\* The thread of the page is scheduled.  Nothing is assumed of the client.
FairSpec == Spec /\ WF_vars(Page)

-----------------------------------------------------------------------------
(* Properties *)

\* The type invariant: the third index of both loops stays inside the requests.
TypeOK ==
  /\ pc \in {"send", "collect", "write", "returned", "thrown"}
  /\ i \in 1 .. Len(TypeParams) + 1
  /\ j \in 1 .. Len(RegionParams)
  /\ k \in 1 .. Count + 1
  /\ pc = "collect" => i <= Len(TypeParams) /\ k \in 1 .. Count
  /\ request \in [1 .. Count -> {"none", "queued", "sent", "done"}]
  /\ response \in [1 .. Count -> Answers \cup {NoAnswer}]
  /\ DOMAIN days \subseteq Dates /\ days \in [DOMAIN days -> Day]

\* The requests made for the a-th type.
Asked(a) ==
  {n \in (a - 1) * Len(RegionParams) + 1 .. a * Len(RegionParams) : url[n][1] = TypeParams[a]}

\* Those of some requests whose answer has a date.
Traded(S, d) == {n \in S : response[n].ok /\ d \in DOMAIN response[n].history}

\* The days of several regions combined, in no order of the regions.
Combined(day) ==
  [avg_price   |-> SumFunctionOnSet([n \in DOMAIN day |-> day[n].avg_price * day[n].volume], DOMAIN day),
   high_price  |-> Max({day[n].high_price : n \in DOMAIN day}),
   low_price   |-> Min({day[n].low_price : n \in DOMAIN day}),
   order_count |-> SumFunctionOnSet([n \in DOMAIN day |-> day[n].order_count], DOMAIN day),
   volume      |-> SumFunctionOnSet([n \in DOMAIN day |-> day[n].volume], DOMAIN day)]

\* What some answers have together, for each date that any of them has.
Aggregate(S) ==
  [d \in {x \in Dates : Traded(S, x) # {}} |-> Combined([n \in Traded(S, d) |-> response[n].history[d]])]

\* Of the first m types those that were traded anywhere.
TradedTypes(m) == {a \in 1 .. m : DOMAIN Aggregate(Asked(a)) # {}}

\* A page that is returned has, for each type that was traded anywhere and in
\* the order of the parameters, each of its dates once, with the answers of that
\* type in all regions combined and of no other, however they overtook each other.
AggregateIsOfItsType ==
  pc = "returned" /\ aggregated =>
    /\ Len(body) = Cardinality(TradedTypes(Len(TypeParams)))
    /\ \A a \in TradedTypes(Len(TypeParams)) :
         body[Cardinality(TradedTypes(a))] = [type |-> TypeParams[a], days |-> Aggregate(Asked(a))]

\* Without aggregation every history is written under the type and the region
\* that it was asked for: the loops that send and collect count alike.
HistoryIsOfItsRequest ==
  pc = "returned" /\ ~aggregated =>
    body = [n \in 1 .. Count |-> [type |-> url[n][1], region |-> url[n][2],
                                  days |-> response[n].history]]

\* A page that is returned leaves no request queued or under way when its
\* vector of requests is destroyed, and none of its answers was broken.
WholeOrError ==
  pc = "returned" => \A n \in 1 .. Count : request[n] = "done" /\ response[n].ok

\* A page returns or throws in the end, unless one of its own requests is never
\* answered, for which wait() has no timeout.
PageEnds ==
  \/ <>(pc \in {"returned", "thrown"})
  \/ \E n \in 1 .. Count : <>[](request[n] \in {"queued", "sent"})

\* What Content-Type in handle_request says of the body: it is JSON.  There every
\* value is a number, but the mean price of a day without volume is not one.
MeanPricesAreNumbers ==
  pc = "returned" /\ aggregated =>
    \A n \in DOMAIN body : \A d \in DOMAIN body[n].days : body[n].days[d].volume # 0

=============================================================================
