--------------------------- MODULE MarketOrdersAll ---------------------------
(***************************************************************************)
(* crest::get_market_orders_all: downloads the orders of one region page   *)
(* by page and hands each order to a callback.                             *)
(*                                                                         *)
(* The first page tells how many there are; the rest are then queued at    *)
(* once, answered in any order by the connections of the external          *)
(* http::AsyncClient, and awaited in page order.  The orders of a page are *)
(* handed over while its JSON is read, so a page that turns out to be      *)
(* broken has already given some of them.                                  *)
(*                                                                         *)
(* Upstream the number of pages may change between two answers.            *)
(***************************************************************************)
EXTENDS Integers, FiniteSets, SequencesExt

CONSTANTS
  MaxPages,        \* bound on the pages upstream
  PageItems,       \* orders on each page
  MaxConnections   \* PCREST_MAX_CONNECTIONS

ASSUME PagesAssumption ==
  /\ MaxPages \in Nat \ {0}
  /\ PageItems \in Nat
  /\ MaxConnections \in Nat \ {0}

Pages == 1 .. MaxPages

VARIABLES
  pc,          \* "first", "send", "collect", "returned", "thrown"
  pageCount,   \* page_count
  i,           \* the page next to be sent or awaited
  request,     \* each page's AsyncRequest: "none", "queued", "sent", "done"
  response,    \* what wait() of a request that is done yields
  upstream,    \* pages the server has now
  given        \* the orders given to the callback

callVars   == <<pc, pageCount, i, given>>
clientVars == <<request, response, upstream>>
vars == <<callVars, clientVars>>

\* An answer: 200 with a body that parses; 200 with a body that breaks after a
\* number of its orders; or a failure before any order, which is an HTTP
\* status, a body that does not decompress, or a connection that broke.
Answers ==
  [kind : {"ok"}, items : {0, PageItems}, pages : 0 .. MaxPages]
    \cup [kind : {"broken"}, items : 0 .. PageItems, pages : {0}]
    \cup [kind : {"failed"}, items : {0}, pages : {0}]

NoAnswer == [kind |-> "none", items |-> 0, pages |-> 0]

\* The first n orders of page p.
ItemsOf(p, n) == [k \in 1 .. n |-> <<p, k>>]

Init ==
  /\ pc = "first" /\ pageCount = 0 /\ i = 1
  /\ request = [p \in Pages |-> IF p = 1 THEN "queued" ELSE "none"]
  /\ response = [p \in Pages |-> NoAnswer]
  /\ upstream \in 0 .. MaxPages
  /\ given = <<>>

-----------------------------------------------------------------------------
(* External: http::AsyncClient and the server it talks to *)

UpstreamChanges ==
  /\ upstream' \in 0 .. MaxPages
  /\ UNCHANGED <<callVars, request, response>>

Transmit(p) ==
  /\ request[p] = "queued"
  /\ Cardinality({q \in Pages : request[q] = "sent"}) < MaxConnections
  /\ request' = [request EXCEPT ![p] = "sent"]
  /\ UNCHANGED <<callVars, response, upstream>>

\* A page past the last one is not found, but there always is a first one.
Complete(p) ==
  /\ request[p] = "sent"
  /\ request' = [request EXCEPT ![p] = "done"]
  /\ \E answer \in Answers :
       /\ answer.kind = "ok" =>
            /\ answer.pages = upstream
            /\ answer.items = IF upstream > 0 THEN PageItems ELSE 0
            /\ p = 1 \/ p <= upstream
       /\ response' = [response EXCEPT ![p] = answer]
  /\ UNCHANGED <<callVars, upstream>>

-----------------------------------------------------------------------------
(* get_market_orders_all *)

\* Mutant: a page that breaks off passes for a whole one.
ProcessUnchecked(p, to) ==
  /\ request[p] = "done"
  /\ given' = given \o ItemsOf(p, response[p].items)
  /\ pc' = IF response[p].kind # "failed" THEN to ELSE "thrown"
  /\ UNCHANGED clientVars

\* process_response on what wait() returned for page p.
Process(p, to) ==
  /\ request[p] = "done"
  /\ given' = given \o ItemsOf(p, response[p].items)
  /\ pc' = IF response[p].kind = "ok" THEN to ELSE "thrown"
  /\ UNCHANGED clientVars

\* Only the first page's pageCount is kept.
ReceiveFirst ==
  /\ pc = "first"
  /\ Process(1, IF response[1].pages > 1 THEN "send" ELSE "returned")
  /\ pageCount' = response[1].pages
  /\ i' = 2

\* Mutants: the loop over the pages ends one page late, or one page early.
SendPageTooMany ==
  /\ pc = "send"
  /\ IF i <= pageCount + 1
     THEN /\ request' = IF i \in Pages THEN [request EXCEPT ![i] = "queued"] ELSE request
          /\ i' = i + 1
          /\ UNCHANGED pc
     ELSE pc' = "collect" /\ i' = 2 /\ UNCHANGED request
  /\ UNCHANGED <<pageCount, given, response, upstream>>

SendPageTooFew ==
  /\ pc = "send"
  /\ IF i < pageCount
     THEN /\ request' = [request EXCEPT ![i] = "queued"]
          /\ i' = i + 1
          /\ UNCHANGED pc
     ELSE pc' = "collect" /\ i' = 2 /\ UNCHANGED request
  /\ UNCHANGED <<pageCount, given, response, upstream>>

SendPage ==
  /\ pc = "send"
  /\ IF i <= pageCount
     THEN /\ request' = [request EXCEPT ![i] = "queued"]
          /\ i' = i + 1
          /\ UNCHANGED pc
     ELSE pc' = "collect" /\ i' = 2 /\ UNCHANGED request
  /\ UNCHANGED <<pageCount, given, response, upstream>>

\* Mutant: the answers are taken in the order they arrive in.
ReceiveAnyPage ==
  /\ pc = "collect"
  /\ i <= pageCount
  /\ \E p \in 2 .. pageCount : Process(p, "collect")
  /\ i' = i + 1
  /\ UNCHANGED pageCount

ReceivePage ==
  /\ pc = "collect"
  /\ i <= pageCount
  /\ Process(i, "collect")
  /\ i' = i + 1
  /\ UNCHANGED pageCount

\* Mutant: the last page is not waited for.
ReturnEarly ==
  /\ pc = "collect" /\ i >= pageCount
  /\ pc' = "returned"
  /\ UNCHANGED <<pageCount, i, given, clientVars>>

Return ==
  /\ pc = "collect" /\ i > pageCount
  /\ pc' = "returned"
  /\ UNCHANGED <<pageCount, i, given, clientVars>>

-----------------------------------------------------------------------------
Download == ReceiveFirst \/ SendPage \/ ReceivePage \/ Return
Client   == \E p \in Pages : Transmit(p) \/ Complete(p)

Next == UpstreamChanges \/ Client \/ Download

Spec == Init /\ [][Next]_vars

\* The update thread is scheduled.  Nothing is assumed of the client.
FairSpec == Spec /\ WF_vars(Download)

-----------------------------------------------------------------------------
(* Properties *)

\* The type invariant: the indices of requests and responses are those of pages.
TypeOK ==
  /\ pc \in {"first", "send", "collect", "returned", "thrown"}
  /\ pageCount \in 0 .. MaxPages
  /\ i \in 1 .. MaxPages + 1
  /\ request \in [Pages -> {"none", "queued", "sent", "done"}]
  /\ response \in [Pages -> Answers \cup {NoAnswer}]
  /\ upstream \in 0 .. MaxPages
  /\ given \in Seq(Pages \X (1 .. PageItems))

Before(a, b) == a[1] < b[1] \/ (a[1] = b[1] /\ a[2] < b[2])

\* However the answers overtake each other, the callback gets the orders page
\* by page, in the order of each page, and none of them twice.
GivenInOrder ==
  \A j, k \in DOMAIN given : j < k => Before(given[j], given[k])

\* A call that returns has given every order of all the pages that the first
\* page told of: no page is skipped, no broken one passes for a whole one.
AllOrNothing ==
  pc = "returned" =>
    Range(given) = (1 .. pageCount) \X (1 .. PageItems)

\* A call that returns leaves no request queued or under way: the client has no
\* use left for the array of requests that is destroyed with the call.
NothingLeftWithClient ==
  pc = "returned" => \A p \in Pages : request[p] \in {"none", "done"}

\* The update thread is kept waiting for ever only by a request that it has made
\* and that is never answered, for which wait() has no timeout: never by one that
\* was not made, or whose answer was there.
CallEnds ==
  \/ <>(pc \in {"returned", "thrown"})
  \/ \E p \in Pages : <>[](request[p] \in {"queued", "sent"})

=============================================================================
