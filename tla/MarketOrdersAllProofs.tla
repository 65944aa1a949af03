----------------------- MODULE MarketOrdersAllProofs -----------------------
(***************************************************************************)
(* Theorems about MarketOrdersAll, for any number of pages, of orders on a *)
(* page and of connections, however the answers overtake each other and    *)
(* the number of pages upstream changes.                                   *)
(***************************************************************************)
EXTENDS MarketOrdersAll, SequenceTheorems, TLAPS

Items == Pages \X (1 .. PageItems)

InOrder(s) == \A j, k \in DOMAIN s : j < k => Before(s[j], s[k])

\* s has all orders of the pages up to n, in order.
Covers(s, n) == InOrder(s) /\ Range(s) = (1 .. n) \X (1 .. PageItems)

\* The pages that were handed over, and the last one that was asked for.
Taken == CASE pc = "first" -> 0 [] pc = "send" -> 1 [] OTHER -> i - 1
Asked == CASE pc = "first" -> 1 [] pc = "send" -> i - 1 [] OTHER -> pageCount

Running == pc \in {"first", "send", "collect"}

\* Where the loops are.
Position ==
  /\ pc = "first" => i = 1 /\ pageCount = 0
  /\ pc \in {"send", "collect"} => 1 < pageCount /\ 2 <= i /\ i <= pageCount + 1

\* The pages taken are done with, and none past the last one asked for is wanted.
Requested ==
  Running => \A p \in Pages : /\ p <= Taken => request[p] = "done"
                              /\ p > Asked => request[p] = "none"

\* A page that is ok is whole, unless there is none at all.
Whole ==
  \A p \in Pages : request[p] = "done" /\ response[p].kind = "ok" =>
    response[p].items = IF p > 1 \/ response[p].pages > 0 THEN PageItems ELSE 0

Given ==
  /\ Running => Covers(given, Taken)
  /\ pc = "returned" => Covers(given, pageCount)

Inv == TypeOK /\ Position /\ Requested /\ Whole /\ Given /\ GivenInOrder /\ NothingLeftWithClient

-----------------------------------------------------------------------------
(* Lemmas about answers and orders *)

LEMMA Bounds == MaxPages \in Nat \ {0} /\ PageItems \in Nat /\ MaxConnections \in Nat \ {0}
BY PagesAssumption

LEMMA AnswerMeaning ==
  ASSUME NEW a \in Answers \cup {NoAnswer}
  PROVE  a.items \in Nat /\ a.items <= PageItems /\ a.pages \in 0 .. MaxPages
BY Bounds DEF Answers, NoAnswer

\* The orders of a page go on where those of the pages before it end.
LEMMA NextPage ==
  ASSUME NEW s \in Seq(Items), NEW p \in Pages, NEW n \in Nat, n <= PageItems, Covers(s, p - 1)
  PROVE  /\ s \o ItemsOf(p, n) \in Seq(Items)
         /\ InOrder(s \o ItemsOf(p, n))
         /\ n = PageItems => Covers(s \o ItemsOf(p, n), p)
         /\ n = 0 => Covers(s \o ItemsOf(p, n), p - 1)
<1> DEFINE t == ItemsOf(p, n)
           u == s \o t
<1>1. p \in Nat \ {0} /\ p <= MaxPages /\ PageItems \in Nat
  BY Bounds DEF Pages
<1>2. t \in Seq(Items) /\ Len(t) = n /\ \A k \in 1 .. n : t[k] = <<p, k>>
  <2>1. \A k \in 1 .. n : <<p, k>> \in Items
    BY <1>1 DEF Items
  <2> QED
    BY <2>1 DEF ItemsOf
<1>3. /\ u \in Seq(Items) /\ Len(s) \in Nat /\ Len(u) = Len(s) + n
      /\ \A j \in 1 .. Len(s) + n : u[j] = IF j <= Len(s) THEN s[j] ELSE t[j - Len(s)]
  BY <1>2, ConcatProperties, LenProperties
<1>4. \A j \in 1 .. Len(s) : s[j] \in Items /\ s[j][1] \in 1 .. p - 1
  <2> SUFFICES ASSUME NEW j \in 1 .. Len(s) PROVE s[j] \in Items /\ s[j][1] \in 1 .. p - 1
    OBVIOUS
  <2>1. s[j] \in Range(s) /\ s[j] \in Items
    BY DEF Range
  <2> QED
    BY <2>1 DEF Covers
<1>5. \A j \in 1 .. Len(s) + n : j > Len(s) => j - Len(s) \in 1 .. n /\ u[j] = <<p, j - Len(s)>>
  BY <1>2, <1>3
<1>6. InOrder(u)
  <2> SUFFICES ASSUME NEW j \in 1 .. Len(s) + n, NEW k \in 1 .. Len(s) + n, j < k
               PROVE  Before(u[j], u[k])
    BY <1>3 DEF InOrder
  <2>1. CASE k <= Len(s)
    <3>1. j \in DOMAIN s /\ k \in DOMAIN s /\ u[j] = s[j] /\ u[k] = s[k]
      BY <1>3, <2>1
    <3> QED
      BY <3>1 DEF Covers, InOrder
  <2>2. CASE j <= Len(s) /\ k > Len(s)
    <3>0. u[k] = <<p, k - Len(s)>>
      BY <1>5, <2>2
    <3>1. u[j] = s[j] /\ u[j][1] \in 1 .. p - 1 /\ u[k][1] = p
      BY <1>3, <1>4, <2>2, <3>0
    <3>2. u[j][1] < u[k][1]
      BY <1>1, <3>1
    <3> QED
      BY <3>2 DEF Before
  <2>3. CASE j > Len(s)
    <3>0. k > Len(s)
      BY <1>3, <2>3
    <3>1. u[j] = <<p, j - Len(s)>> /\ u[k] = <<p, k - Len(s)>>
      BY <1>5, <2>3, <3>0
    <3>2. j - Len(s) < k - Len(s)
      BY <1>3
    <3> QED
      BY <3>1, <3>2 DEF Before
  <2> QED
    BY <1>3, <2>1, <2>2, <2>3
<1>7. ASSUME n = PageItems PROVE Range(u) = (1 .. p) \X (1 .. PageItems)
  <2>1. ASSUME NEW x \in Range(u) PROVE x \in (1 .. p) \X (1 .. PageItems)
    <3>1. PICK j \in 1 .. Len(s) + n : x = u[j]
      BY <1>3 DEF Range
    <3>2. CASE j <= Len(s)
      <4>1. x = s[j] /\ x \in Range(s)
        BY <1>3, <3>1, <3>2 DEF Range
      <4>2. x \in (1 .. p - 1) \X (1 .. PageItems)
        BY <4>1 DEF Covers
      <4> QED
        BY <1>1, <4>2
    <3>3. CASE j > Len(s)
      <4>1. j - Len(s) \in 1 .. n /\ x = <<p, j - Len(s)>>
        BY <1>5, <3>1, <3>3
      <4> QED
        BY <1>1, <1>7, <4>1
    <3> QED
      BY <1>3, <3>2, <3>3
  <2>2. ASSUME NEW q \in 1 .. p, NEW k \in 1 .. PageItems PROVE <<q, k>> \in Range(u)
    <3>1. CASE q < p
      <4>1. <<q, k>> \in Range(s)
        BY <1>1, <3>1 DEF Covers
      <4>2. PICK j \in DOMAIN s : s[j] = <<q, k>>
        BY <4>1 DEF Range
      <4>3. j \in 1 .. Len(s) + n /\ u[j] = <<q, k>>
        BY <1>3, <4>2
      <4>4. DOMAIN u = 1 .. Len(s) + n
        BY <1>3
      <4> QED
        BY <4>3, <4>4 DEF Range
    <3>2. CASE q = p
      <4>1. Len(s) + k \in 1 .. Len(s) + n /\ Len(s) + k > Len(s) /\ (Len(s) + k) - Len(s) = k
        BY <1>3, <1>7
      <4>2. u[Len(s) + k] = <<q, k>>
        BY <1>5, <3>2, <4>1
      <4> QED
        BY <1>3, <4>1, <4>2 DEF Range
    <3> QED
      BY <1>1, <3>1, <3>2
  <2> QED
    BY <2>1, <2>2
<1>8. ASSUME n = 0 PROVE u = s
  <2>1. Len(u) = Len(s) /\ \A j \in 1 .. Len(s) : u[j] = s[j]
    BY <1>3, <1>8
  <2> QED
    BY <1>3, <2>1, SeqEqual
<1> QED
  BY <1>3, <1>6, <1>7, <1>8 DEF Covers

-----------------------------------------------------------------------------
(* The invariant is inductive *)

LEMMA InitInv == Init => Inv
<1> SUFFICES ASSUME Init PROVE Inv
  OBVIOUS
<1>1. /\ pc = "first" /\ pageCount = 0 /\ i = 1 /\ given = <<>> /\ upstream \in 0 .. MaxPages
      /\ request = [p \in Pages |-> IF p = 1 THEN "queued" ELSE "none"]
      /\ response = [p \in Pages |-> NoAnswer]
  BY DEF Init
<1>2. 1 \in 1 .. MaxPages + 1 /\ 0 \in 0 .. MaxPages
  BY Bounds
<1>3. TypeOK
  BY <1>1, <1>2 DEF TypeOK
<1>4. Requested
  BY <1>1, Bounds DEF Requested, Taken, Asked, Pages
<1>5. Covers(<<>>, 0)
  <2>1. DOMAIN <<>> = {}
    OBVIOUS
  <2> QED
    BY <2>1 DEF Covers, InOrder, Range
<1>6. Given
  BY <1>1, <1>5 DEF Given, Taken
<1>7. GivenInOrder
  BY <1>1 DEF GivenInOrder
<1> QED
  BY <1>1, <1>3, <1>4, <1>6, <1>7 DEF Inv, Position, Whole, NothingLeftWithClient, NoAnswer

\* What the client does to pages that are not done leaves the rest alone.
LEMMA ClientKeeps ==
  ASSUME Inv, UNCHANGED callVars, TypeOK', Whole',
         \A p \in Pages : request[p] \in {"none", "done"} => request'[p] = request[p]
  PROVE  Inv'
<1>1. UNCHANGED <<pc, pageCount, i, given>>
  BY DEF callVars
<1>2. Requested'
  BY <1>1 DEF Inv, Requested, Running, Taken, Asked
<1>3. NothingLeftWithClient'
  BY <1>1 DEF Inv, NothingLeftWithClient
<1>4. Position' /\ Given' /\ GivenInOrder'
  BY <1>1 DEF Inv, Position, Given, Running, Taken, GivenInOrder
<1> QED
  BY <1>2, <1>3, <1>4 DEF Inv

LEMMA UpstreamInv == Inv /\ UpstreamChanges => Inv'
<1> SUFFICES ASSUME Inv, UpstreamChanges PROVE Inv'
  OBVIOUS
<1>1. upstream' \in 0 .. MaxPages /\ UNCHANGED <<callVars, request, response>>
  BY DEF UpstreamChanges
<1>2. TypeOK'
  BY <1>1 DEF Inv, TypeOK, callVars
<1>3. Whole'
  BY <1>1 DEF Inv, Whole
<1> QED
  BY <1>1, <1>2, <1>3, ClientKeeps

LEMMA TransmitInv == ASSUME NEW p \in Pages PROVE Inv /\ Transmit(p) => Inv'
<1> SUFFICES ASSUME Inv, Transmit(p) PROVE Inv'
  OBVIOUS
<1>1. /\ request[p] = "queued" /\ request' = [request EXCEPT ![p] = "sent"]
      /\ UNCHANGED <<callVars, response, upstream>>
  BY DEF Transmit
<1>2. request \in [Pages -> {"none", "queued", "sent", "done"}]
  BY DEF Inv, TypeOK
<1>3. /\ request' \in [Pages -> {"none", "queued", "sent", "done"}]
      /\ \A q \in Pages : q # p => request'[q] = request[q]
      /\ request'[p] = "sent"
  BY <1>1, <1>2
<1>4. TypeOK'
  BY <1>1, <1>3 DEF Inv, TypeOK, callVars
<1>5. Whole'
  BY <1>1, <1>3 DEF Inv, Whole
<1>6. \A q \in Pages : request[q] \in {"none", "done"} => request'[q] = request[q]
  BY <1>1, <1>3
<1> QED
  BY <1>1, <1>4, <1>5, <1>6, ClientKeeps

\* A page that is ok had orders upstream when it was answered.
LEMMA CompleteInv == ASSUME NEW p \in Pages PROVE Inv /\ Complete(p) => Inv'
<1> SUFFICES ASSUME Inv, Complete(p) PROVE Inv'
  OBVIOUS
<1>1. /\ request[p] = "sent" /\ request' = [request EXCEPT ![p] = "done"]
      /\ UNCHANGED <<callVars, upstream>>
  BY DEF Complete
<1>2. PICK answer \in Answers :
        /\ answer.kind = "ok" =>
             /\ answer.pages = upstream
             /\ answer.items = IF upstream > 0 THEN PageItems ELSE 0
             /\ p = 1 \/ p <= upstream
        /\ response' = [response EXCEPT ![p] = answer]
  BY DEF Complete
<1>3. /\ request \in [Pages -> {"none", "queued", "sent", "done"}]
      /\ response \in [Pages -> Answers \cup {NoAnswer}] /\ upstream \in 0 .. MaxPages
  BY DEF Inv, TypeOK
<1>4. /\ request' \in [Pages -> {"none", "queued", "sent", "done"}]
      /\ response' \in [Pages -> Answers \cup {NoAnswer}]
      /\ \A q \in Pages : q # p => request'[q] = request[q] /\ response'[q] = response[q]
      /\ request'[p] = "done" /\ response'[p] = answer
  BY <1>1, <1>2, <1>3
<1>5. TypeOK'
  BY <1>1, <1>4 DEF Inv, TypeOK, callVars
<1>6. Whole'
  <2> SUFFICES ASSUME NEW q \in Pages, request'[q] = "done", response'[q].kind = "ok"
               PROVE  response'[q].items = IF q > 1 \/ response'[q].pages > 0 THEN PageItems ELSE 0
    BY DEF Whole
  <2>1. CASE q = p
    <3>1. /\ answer.pages = upstream /\ answer.items = IF upstream > 0 THEN PageItems ELSE 0
          /\ p = 1 \/ p <= upstream
      BY <1>2, <1>4, <2>1
    <3>2. p > 1 => upstream > 0
      BY <1>3, <3>1, Bounds DEF Pages
    <3> QED
      BY <1>4, <2>1, <3>1, <3>2
  <2>2. CASE q # p
    BY <1>4, <2>2 DEF Inv, Whole
  <2> QED
    BY <2>1, <2>2
<1>7. \A q \in Pages : request[q] \in {"none", "done"} => request'[q] = request[q]
  BY <1>1, <1>4
<1> QED
  BY <1>1, <1>5, <1>6, <1>7, ClientKeeps

\* The first page goes on with the others if it tells of more than itself.
LEMMA ReceiveFirstInv == Inv /\ ReceiveFirst => Inv'
<1> SUFFICES ASSUME Inv, ReceiveFirst PROVE Inv'
  OBVIOUS
<1> DEFINE n == response[1].items
           to == IF response[1].pages > 1 THEN "send" ELSE "returned"
<1>1. /\ pc = "first" /\ request[1] = "done" /\ given' = given \o ItemsOf(1, n)
      /\ pc' = IF response[1].kind = "ok" THEN to ELSE "thrown"
      /\ UNCHANGED <<request, response, upstream>>
      /\ pageCount' = response[1].pages /\ i' = 2
  BY DEF ReceiveFirst, Process, clientVars
<1>2. 1 \in Pages /\ MaxPages \in Nat \ {0} /\ PageItems \in Nat
  BY Bounds DEF Pages
<1>3. n \in Nat /\ n <= PageItems /\ response[1].pages \in 0 .. MaxPages
  <2>1. response[1] \in Answers \cup {NoAnswer}
    BY <1>2 DEF Inv, TypeOK
  <2> QED
    BY <2>1, AnswerMeaning
<1>4. given \in Seq(Items) /\ Covers(given, 1 - 1)
  BY <1>1 DEF Inv, TypeOK, Given, Running, Taken, Items
<1>5. /\ given' \in Seq(Items) /\ InOrder(given')
      /\ n = PageItems => Covers(given', 1)
      /\ n = 0 => Covers(given', 0)
  BY <1>1, <1>2, <1>3, <1>4, NextPage
<1>6. response[1].kind = "ok" => n = IF response[1].pages > 0 THEN PageItems ELSE 0
  BY <1>1, <1>2 DEF Inv, Whole
<1>7. TypeOK'
  <2>1. pageCount' \in 0 .. MaxPages /\ i' \in 1 .. MaxPages + 1
    BY <1>1, <1>2, <1>3
  <2>2. pc' \in {"first", "send", "collect", "returned", "thrown"}
    BY <1>1
  <2>3. given' \in Seq(Pages \X (1 .. PageItems))
    BY <1>5 DEF Items
  <2> QED
    BY <1>1, <2>1, <2>2, <2>3 DEF Inv, TypeOK
<1>8. /\ pc' \in {"send", "returned", "thrown"}
      /\ pc' = "send" => response[1].kind = "ok" /\ pageCount' > 1
      /\ pc' = "returned" => response[1].kind = "ok" /\ pageCount' <= 1
  BY <1>1, <1>3
<1>9. \A p \in Pages : p > 1 => request[p] = "none"
  BY <1>1 DEF Inv, Requested, Running, Asked
<1>10. Position'
  BY <1>1, <1>3, <1>8 DEF Position
<1>11. Requested'
  <2>1. CASE pc' = "send"
    <3>1. Taken' = 1 /\ Asked' = 1
      BY <1>1, <2>1 DEF Taken, Asked
    <3>2. \A p \in Pages : p <= 1 => request'[p] = "done"
      BY <1>1 DEF Pages
    <3> QED
      BY <1>1, <1>9, <3>1, <3>2 DEF Requested
  <2>2. CASE pc' # "send"
    BY <1>8, <2>2 DEF Requested, Running
  <2> QED
    BY <2>1, <2>2
<1>12. Given'
  <2>1. ASSUME pc' = "send" PROVE Covers(given', Taken')
    <3>1. Taken' = 1
      BY <2>1 DEF Taken
    <3>2. n = PageItems
      BY <1>1, <1>3, <1>6, <1>8, <2>1
    <3>3. Covers(given', 1)
      BY <1>5, <3>2
    <3> QED
      BY <3>1, <3>3
  <2>2. ASSUME pc' = "returned" PROVE Covers(given', pageCount')
    <3>1. pageCount' = 0 \/ pageCount' = 1
      BY <1>1, <1>3, <1>8, <2>2
    <3>2. n = IF pageCount' > 0 THEN PageItems ELSE 0
      BY <1>1, <1>6, <1>8, <2>2
    <3>3. CASE pageCount' = 0
      <4>1. Covers(given', 0)
        BY <1>5, <3>2, <3>3
      <4> QED
        BY <3>3, <4>1
    <3>4. CASE pageCount' = 1
      <4>1. Covers(given', 1)
        BY <1>5, <3>2, <3>4
      <4> QED
        BY <3>4, <4>1
    <3> QED
      BY <3>1, <3>3, <3>4
  <2> QED
    BY <1>8, <2>1, <2>2 DEF Given, Running
<1>13. NothingLeftWithClient'
  BY <1>1, <1>9 DEF NothingLeftWithClient, Pages
<1>14. Whole' /\ GivenInOrder'
  BY <1>1, <1>5 DEF Inv, Whole, GivenInOrder, InOrder
<1> QED
  BY <1>7, <1>10, <1>11, <1>12, <1>13, <1>14 DEF Inv

\* The burst asks for each page behind the first once.
LEMMA SendPageInv == Inv /\ SendPage => Inv'
<1> SUFFICES ASSUME Inv, SendPage PROVE Inv'
  OBVIOUS
<1>1. pc = "send" /\ UNCHANGED <<pageCount, given, response, upstream>>
  BY DEF SendPage
<1>2. /\ pageCount \in 0 .. MaxPages /\ 1 < pageCount /\ 2 <= i /\ i <= pageCount + 1 /\ i \in Nat
      /\ MaxPages \in Nat \ {0}
  BY <1>1, Bounds DEF Inv, TypeOK, Position
<1>3. /\ \A p \in Pages : (p <= 1 => request[p] = "done") /\ (p > i - 1 => request[p] = "none")
      /\ Covers(given, 1)
  BY <1>1 DEF Inv, Requested, Given, Running, Taken, Asked
<1>4. request \in [Pages -> {"none", "queued", "sent", "done"}]
  BY DEF Inv, TypeOK
<1>5. CASE i <= pageCount
  <2>1. request' = [request EXCEPT ![i] = "queued"] /\ i' = i + 1 /\ pc' = "send"
    BY <1>1, <1>5 DEF SendPage
  <2>2. i \in Pages
    BY <1>2, <1>5 DEF Pages
  <2>3. /\ request' \in [Pages -> {"none", "queued", "sent", "done"}]
        /\ request'[i] = "queued" /\ \A p \in Pages : p # i => request'[p] = request[p]
    BY <1>4, <2>1, <2>2
  <2>4. TypeOK'
    BY <1>1, <1>2, <1>5, <2>1, <2>3 DEF Inv, TypeOK
  <2>5. Position'
    BY <1>1, <1>2, <1>5, <2>1 DEF Position
  <2>6. Taken' = 1 /\ Asked' = i
    BY <1>2, <2>1 DEF Taken, Asked
  <2>7. Requested'
    <3> SUFFICES ASSUME NEW p \in Pages
                 PROVE  (p <= 1 => request'[p] = "done") /\ (p > i => request'[p] = "none")
      BY <2>6 DEF Requested
    <3> QED
      BY <1>2, <1>3, <2>3 DEF Pages
  <2>8. Whole'
    BY <1>1, <2>3 DEF Inv, Whole
  <2>9. Given' /\ GivenInOrder' /\ NothingLeftWithClient'
    BY <1>1, <1>3, <2>1, <2>6 DEF Inv, Given, GivenInOrder, NothingLeftWithClient
  <2> QED
    BY <2>4, <2>5, <2>7, <2>8, <2>9 DEF Inv
<1>6. CASE i > pageCount
  <2>1. pc' = "collect" /\ i' = 2 /\ request' = request
    BY <1>1, <1>2, <1>6 DEF SendPage
  <2>2. TypeOK'
    BY <1>1, <1>2, <2>1 DEF Inv, TypeOK
  <2>3. Position'
    BY <1>1, <1>2, <2>1 DEF Position
  <2>4. Taken' = 1 /\ Asked' = pageCount /\ pageCount = i - 1
    BY <1>1, <1>2, <1>6, <2>1 DEF Taken, Asked
  <2>5. Requested' /\ Given'
    BY <1>1, <1>3, <2>1, <2>4 DEF Requested, Given
  <2>6. Whole' /\ GivenInOrder' /\ NothingLeftWithClient'
    BY <1>1, <2>1 DEF Inv, Whole, GivenInOrder, NothingLeftWithClient
  <2> QED
    BY <2>2, <2>3, <2>5, <2>6 DEF Inv
<1> QED
  BY <1>2, <1>5, <1>6

\* A page behind the first is whole if it is ok, and follows what was given.
LEMMA ReceivePageInv == Inv /\ ReceivePage => Inv'
<1> SUFFICES ASSUME Inv, ReceivePage PROVE Inv'
  OBVIOUS
<1> DEFINE n == response[i].items
<1>1. /\ pc = "collect" /\ i <= pageCount /\ request[i] = "done"
      /\ given' = given \o ItemsOf(i, n)
      /\ pc' = IF response[i].kind = "ok" THEN "collect" ELSE "thrown"
      /\ UNCHANGED <<request, response, upstream, pageCount>> /\ i' = i + 1
  BY DEF ReceivePage, Process, clientVars
<1>2. /\ pageCount \in 0 .. MaxPages /\ 1 < pageCount /\ 2 <= i /\ i \in Nat
      /\ MaxPages \in Nat \ {0}
  BY <1>1, Bounds DEF Inv, TypeOK, Position
<1>3. i \in Pages
  BY <1>1, <1>2 DEF Pages
<1>4. n \in Nat /\ n <= PageItems
  <2>1. response[i] \in Answers \cup {NoAnswer}
    BY <1>3 DEF Inv, TypeOK
  <2> QED
    BY <2>1, AnswerMeaning
<1>5. /\ given \in Seq(Items) /\ Covers(given, i - 1)
      /\ \A p \in Pages : (p <= i - 1 => request[p] = "done") /\ (p > pageCount => request[p] = "none")
  BY <1>1 DEF Inv, TypeOK, Given, Requested, Running, Taken, Asked, Items
<1>6. /\ given' \in Seq(Items) /\ InOrder(given')
      /\ n = PageItems => Covers(given', i)
  BY <1>1, <1>3, <1>4, <1>5, NextPage
<1>7. response[i].kind = "ok" => n = PageItems
  BY <1>1, <1>2, <1>3 DEF Inv, Whole
<1>8. TypeOK'
  <2>1. given' \in Seq(Pages \X (1 .. PageItems))
    BY <1>6 DEF Items
  <2>2. i' \in 1 .. MaxPages + 1 /\ pc' \in {"first", "send", "collect", "returned", "thrown"}
    BY <1>1, <1>2
  <2> QED
    BY <1>1, <2>1, <2>2 DEF Inv, TypeOK
<1>9. Position'
  BY <1>1, <1>2 DEF Position
<1>10. pc' = "collect" => Taken' = i /\ Asked' = pageCount
  BY <1>1, <1>2 DEF Taken, Asked
<1>11. pc' \in {"collect", "thrown"}
  BY <1>1
<1>12. Requested'
  <2>1. ASSUME pc' = "collect", NEW p \in Pages
        PROVE  (p <= i => request'[p] = "done") /\ (p > pageCount => request'[p] = "none")
    BY <1>1, <1>2, <1>5 DEF Pages
  <2> QED
    BY <1>10, <1>11, <2>1 DEF Requested, Running
<1>13. Given'
  <2>1. ASSUME pc' = "collect" PROVE Covers(given', Taken')
    BY <1>1, <1>6, <1>7, <1>10, <2>1
  <2> QED
    BY <1>11, <2>1 DEF Given, Running
<1>14. Whole' /\ GivenInOrder' /\ NothingLeftWithClient'
  BY <1>1, <1>6, <1>11 DEF Inv, Whole, GivenInOrder, InOrder, NothingLeftWithClient
<1> QED
  BY <1>8, <1>9, <1>12, <1>13, <1>14 DEF Inv

LEMMA ReturnInv == Inv /\ Return => Inv'
<1> SUFFICES ASSUME Inv, Return PROVE Inv'
  OBVIOUS
<1>1. /\ pc = "collect" /\ i > pageCount /\ pc' = "returned"
      /\ UNCHANGED <<pageCount, i, given, request, response, upstream>>
  BY DEF Return, clientVars
<1>2. i \in Nat /\ pageCount \in Nat /\ i <= pageCount + 1
  BY <1>1, Bounds DEF Inv, TypeOK, Position
<1>3. i - 1 = pageCount
  BY <1>1, <1>2
<1>4. /\ Covers(given, pageCount)
      /\ \A p \in Pages : (p <= pageCount => request[p] = "done") /\ (p > pageCount => request[p] = "none")
  BY <1>1, <1>3 DEF Inv, Given, Requested, Running, Taken, Asked
<1>5. Given'
  BY <1>1, <1>4 DEF Given, Running
<1>6. NothingLeftWithClient'
  BY <1>1, <1>2, <1>4 DEF NothingLeftWithClient, Pages
<1>7. TypeOK' /\ Position' /\ Requested' /\ Whole' /\ GivenInOrder'
  BY <1>1 DEF Inv, TypeOK, Position, Requested, Running, Whole, GivenInOrder
<1> QED
  BY <1>5, <1>6, <1>7 DEF Inv

LEMMA StutterInv == Inv /\ UNCHANGED vars => Inv'
BY DEF vars, callVars, clientVars, Inv, TypeOK, Position, Requested, Running, Taken, Asked, Whole,
       Given, GivenInOrder, NothingLeftWithClient

LEMMA NextInv == Inv /\ [Next]_vars => Inv'
<1>1. ASSUME Inv, Client PROVE Inv'
  <2>1. PICK p \in Pages : Transmit(p) \/ Complete(p)
    BY <1>1 DEF Client
  <2> QED
    BY <1>1, <2>1, TransmitInv, CompleteInv
<1>2. ASSUME Inv, Download PROVE Inv'
  BY <1>2, ReceiveFirstInv, SendPageInv, ReceivePageInv, ReturnInv DEF Download
<1> QED
  BY <1>1, <1>2, UpstreamInv, StutterInv DEF Next

LEMMA AlwaysInv == Spec => []Inv
<1> QED
  BY InitInv, NextInv, PTL DEF Spec

-----------------------------------------------------------------------------
(* Theorems *)

\* The type invariant: get_market_orders_all never looks for a page outside its
\* array of requests.
THEOREM TypeCorrect == Spec => []TypeOK
<1>1. Inv => TypeOK
  BY DEF Inv
<1> QED
  BY <1>1, AlwaysInv, PTL

\* The callback gets the orders of get_market_orders_all page by page and none
\* twice, however many pages there are and in whatever order they are answered.
THEOREM OrderCorrect == Spec => []GivenInOrder
<1>1. Inv => GivenInOrder
  BY DEF Inv
<1> QED
  BY <1>1, AlwaysInv, PTL

\* If get_market_orders_all returns, the callback was given all the orders of all
\* the pages that the first one told of.
THEOREM AllOrNothingCorrect == Spec => []AllOrNothing
<1>1. Inv => AllOrNothing
  BY DEF Inv, Given, Covers, AllOrNothing
<1> QED
  BY <1>1, AlwaysInv, PTL

\* If get_market_orders_all returns, the client has none of its requests left.
THEOREM NothingLeftCorrect == Spec => []NothingLeftWithClient
<1>1. Inv => NothingLeftWithClient
  BY DEF Inv
<1> QED
  BY <1>1, AlwaysInv, PTL

=============================================================================
