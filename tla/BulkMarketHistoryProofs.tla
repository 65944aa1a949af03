----------------------- MODULE BulkMarketHistoryProofs -----------------------
(***************************************************************************)
(* Theorems about BulkMarketHistory, for any number of types, regions and  *)
(* connections, any dates and days, and answers in any order.              *)
(***************************************************************************)
EXTENDS BulkMarketHistory, FiniteSetTheorems, TLAPS

T == Len(TypeParams)
R == Len(RegionParams)

\* The index of the request for type a and region b.
Index(a, b) == (a - 1) * R + b

LEMMA Sizes == T \in Nat \ {0} /\ R \in Nat \ {0} /\ Count = T * R /\ Count \in Nat \ {0}
BY HistoryAssumption DEF T, R, Count

LEMMA Times ==
  ASSUME NEW x \in Nat, NEW y \in Nat, NEW n \in Nat, x <= y
  PROVE  x * n <= y * n /\ x * n \in Nat
<1>1. PICK d \in Nat : y = x + d
  BY y - x \in Nat
<1>2. d * n \in Nat /\ x * n \in Nat /\ y * n = x * n + d * n
  BY <1>1
<1> QED
  BY <1>2

\* The requests are counted type by type, and region by region in each.
LEMMA Counting ==
  ASSUME NEW a \in Nat \ {0}, NEW b \in 1 .. R
  PROVE  /\ Index(a, b) \in Nat \ {0}
         /\ b < R => Index(a, b + 1) = Index(a, b) + 1
         /\ b = R => Index(a + 1, 1) = Index(a, b) + 1
         /\ a <= T => Index(a, b) <= Count
         /\ \A c \in Nat \ {0}, d \in 1 .. R : a < c \/ (a = c /\ b < d) => Index(a, b) < Index(c, d)
<1> DEFINE before == (a - 1) * R
<1>1. before \in Nat /\ a * R = before + R /\ R \in Nat /\ b \in Nat
  BY Sizes
<1>2. Index(a, b) = before + b
  BY DEF Index
<1>3. Index(a, b + 1) = before + (b + 1)
  BY DEF Index
<1>4. Index(a + 1, 1) = a * R + 1
  BY DEF Index
<1>5. a <= T => a * R <= Count
  BY Times, Sizes
<1>6. ASSUME NEW c \in Nat \ {0}, NEW d \in 1 .. R, a < c \/ (a = c /\ b < d)
      PROVE  Index(a, b) < Index(c, d)
  <2>1. CASE a < c
    <3>1. c - 1 \in Nat /\ a <= c - 1
      BY <2>1
    <3>2. a * R <= (c - 1) * R /\ (c - 1) * R \in Nat
      BY <1>1, <3>1, Times
    <3> QED
      BY <1>1, <1>2, <3>2 DEF Index
  <2>2. CASE a = c /\ b < d
    BY <1>1, <2>2 DEF Index
  <2> QED
    BY <1>6, <2>1, <2>2
<1>7. a <= T => Index(a, b) <= Count
  BY <1>1, <1>2, <1>5, Sizes
<1> HIDE DEF before
<1>8. Index(a, b) \in Nat \ {0} /\ (b < R => Index(a, b + 1) = Index(a, b) + 1)
  BY <1>1, <1>2, <1>3
<1>9. b = R => Index(a + 1, 1) = Index(a, b) + 1
  BY <1>1, <1>2, <1>4
<1> QED
  BY <1>6, <1>7, <1>8, <1>9

-----------------------------------------------------------------------------
(* The inductive invariant *)

Written == [type : {TypeParams[a] : a \in 1 .. T}, region : {RegionParams[b] : b \in 1 .. R},
            days : Histories]

\* Where the loops are, and the index with them.
Position ==
  /\ pc \in {"send", "collect"} => k = Index(i, j)
  /\ pc = "send" /\ i > T => j = 1
  /\ pc = "write" => aggregated /\ i <= T /\ k = Index(i, R) + 1
  /\ pc = "returned" => k = Count + 1

\* Each request that was sent is for the type and region of its place.
Addressed ==
  \A a \in 1 .. T, b \in 1 .. R :
    (pc = "send" => a < i \/ (a = i /\ b < j))
      => url[Index(a, b)] = <<TypeParams[a], RegionParams[b]>>

\* The answers taken were whole.
Taken ==
  pc \in {"collect", "write", "returned"} =>
    \A n \in 1 .. Count : n < k => request[n] = "done" /\ response[n].ok

\* The page has the histories of the answers taken.
Copied ==
  ~aggregated =>
    /\ body \in Seq(Written)
    /\ pc = "send" => body = <<>>
    /\ pc \in {"collect", "write", "returned"} =>
         /\ Len(body) = k - 1
         /\ \A n \in 1 .. Count : n < k =>
              body[n] = [type |-> url[n][1], region |-> url[n][2], days |-> response[n].history]

Inv ==
  /\ TypeOK /\ aggregated \in BOOLEAN /\ DOMAIN url = 1 .. Count
  /\ Position /\ Addressed /\ Taken /\ Copied

LEMMA InitInv == Init => Inv
<1> SUFFICES ASSUME Init PROVE Inv
  OBVIOUS
<1> USE DEF Init
<1>1. TypeOK
  <2>1. i \in 1 .. T + 1 /\ j \in 1 .. R /\ k \in 1 .. Count + 1
    BY Sizes
  <2>2. /\ request \in [1 .. Count -> {"none", "queued", "sent", "done"}]
        /\ response \in [1 .. Count -> Answers \cup {NoAnswer}]
    OBVIOUS
  <2>3. DOMAIN days \subseteq Dates /\ days \in [DOMAIN days -> Day]
    OBVIOUS
  <2> QED
    BY <2>1, <2>2, <2>3 DEF TypeOK, T, R
<1>2. Position
  <2>1. Index(1, 1) = 1
    BY Sizes DEF Index
  <2> QED
    BY <2>1 DEF Position
<1>3. Addressed
  BY DEF Addressed
<1> QED
  BY <1>1, <1>2, <1>3 DEF Inv, Taken, Copied

\* What the client does to requests that are not done leaves the rest alone.
LEMMA ClientInv ==
  ASSUME Inv, NEW n \in 1 .. Count, Transmit(n) \/ Complete(n) PROVE Inv'
<1>1. UNCHANGED <<aggregated, pc, i, j, k, url, days, body>>
  BY DEF Transmit, Complete, callVars
<1>2. /\ request \in [1 .. Count -> {"none", "queued", "sent", "done"}]
      /\ response \in [1 .. Count -> Answers \cup {NoAnswer}]
  BY DEF Inv, TypeOK
<1>3. /\ request' \in [1 .. Count -> {"none", "queued", "sent", "done"}]
      /\ response' \in [1 .. Count -> Answers \cup {NoAnswer}]
      /\ \A m \in 1 .. Count : request[m] = "done" => request'[m] = "done" /\ response'[m] = response[m]
  BY <1>2 DEF Transmit, Complete
<1>4. TypeOK'
  BY <1>1, <1>3 DEF Inv, TypeOK
<1>5. Position' /\ Addressed'
  BY <1>1 DEF Inv, Position, Addressed
<1>6. Taken'
  BY <1>1, <1>3 DEF Inv, Taken
<1>7. Copied'
  <2> SUFFICES ASSUME ~aggregated
               PROVE  /\ body \in Seq(Written) /\ (pc = "send" => body = <<>>)
                      /\ pc \in {"collect", "write", "returned"} =>
                           /\ Len(body) = k - 1
                           /\ \A m \in 1 .. Count : m < k =>
                                body[m] = [type |-> url[m][1], region |-> url[m][2],
                                           days |-> response'[m].history]
    BY <1>1 DEF Copied
  <2>1. Copied /\ Taken
    BY DEF Inv
  <2> QED
    BY <1>3, <2>1 DEF Copied, Taken
<1> QED
  BY <1>1, <1>4, <1>5, <1>6, <1>7 DEF Inv

\* The next place of the loops is the next index.
LEMMA NextPlace ==
  ASSUME i \in 1 .. T, j \in 1 .. R, k = Index(i, j), NextRegion, k' = k + 1
  PROVE  /\ i' \in 1 .. T + 1 /\ j' \in 1 .. R /\ k \in 1 .. Count /\ k' \in 1 .. Count + 1
         /\ k' = Index(i', j')
         /\ i' > T => j' = 1 /\ k' = Count + 1
         /\ i' <= T => k' <= Count
         /\ \A a \in 1 .. T, b \in 1 .. R :
              a < i' \/ (a = i' /\ b < j') => (a = i /\ b = j) \/ a < i \/ (a = i /\ b < j)
<1>1. T \in Nat \ {0} /\ R \in Nat \ {0} /\ Count \in Nat \ {0} /\ i \in Nat \ {0}
  BY Sizes
<1>2. k \in Nat \ {0} /\ k <= Count
  BY <1>1, Counting
<1>3. CASE j < R
  <2>1. i' = i /\ j' = j + 1
    BY <1>3 DEF NextRegion, R
  <2>2. j + 1 \in 1 .. R /\ Index(i, j + 1) = Index(i, j) + 1
    BY <1>1, <1>3, Counting
  <2>3. Index(i, j + 1) <= Count
    BY <1>1, <2>2, Counting
  <2>4. k' = Index(i', j')
    BY <2>1, <2>2
  <2>5. \A a \in 1 .. T, b \in 1 .. R :
          a < i' \/ (a = i' /\ b < j') => (a = i /\ b = j) \/ a < i \/ (a = i /\ b < j)
    BY <1>1, <2>1
  <2> QED
    BY <1>1, <1>2, <2>1, <2>2, <2>3, <2>4, <2>5
<1>4. CASE j = R
  <2>1. i' = i + 1 /\ j' = 1
    BY <1>1, <1>4 DEF NextRegion, R
  <2>2. Index(i + 1, 1) = Index(i, j) + 1
    BY <1>1, <1>4, Counting
  <2>3. k' = Index(i', j')
    BY <2>1, <2>2
  <2>4. 1 \in 1 .. R /\ i + 1 \in Nat \ {0}
    BY <1>1
  <2>5. i + 1 <= T => Index(i + 1, 1) <= Count
    BY <2>4, Counting
  <2>6. i = T => Index(i, j) = Count
    <3>1. T * R = (T - 1) * R + R
      BY <1>1
    <3> QED
      BY <1>4, <3>1, Sizes DEF Index
  <2>7. i' > T => k' = Count + 1
    BY <1>1, <2>1, <2>6
  <2>8. \A a \in 1 .. T, b \in 1 .. R :
          a < i' \/ (a = i' /\ b < j') => (a = i /\ b = j) \/ a < i \/ (a = i /\ b < j)
    BY <1>1, <1>4, <2>1
  <2> QED
    BY <1>1, <1>2, <2>1, <2>2, <2>3, <2>4, <2>5, <2>7, <2>8
<1> QED
  BY <1>1, <1>3, <1>4

\* A request goes to the next index, which no earlier one has.
LEMMA SendRequestInv == Inv /\ SendRequest => Inv'
<1> SUFFICES ASSUME Inv, SendRequest PROVE Inv'
  OBVIOUS
<1>1. /\ pc = "send" /\ i <= T /\ k' = k + 1 /\ NextRegion
      /\ url' = [url EXCEPT ![k] = <<TypeParams[i], RegionParams[j]>>]
      /\ request' = [request EXCEPT ![k] = "queued"]
      /\ UNCHANGED <<aggregated, pc, days, body, response>>
  BY DEF SendRequest, T
<1>2. i \in 1 .. T /\ j \in 1 .. R /\ k = Index(i, j)
  BY <1>1 DEF Inv, TypeOK, Position, T, R
<1>3. /\ i' \in 1 .. T + 1 /\ j' \in 1 .. R /\ k \in 1 .. Count /\ k' \in 1 .. Count + 1
      /\ k' = Index(i', j') /\ (i' > T => j' = 1)
      /\ \A a \in 1 .. T, b \in 1 .. R :
           a < i' \/ (a = i' /\ b < j') => (a = i /\ b = j) \/ a < i \/ (a = i /\ b < j)
  BY <1>1, <1>2, NextPlace
<1>4. TypeOK'
  <2>1. request' \in [1 .. Count -> {"none", "queued", "sent", "done"}]
    BY <1>1, <1>3 DEF Inv, TypeOK
  <2> QED
    BY <1>1, <1>3, <2>1 DEF Inv, TypeOK, T, R
<1>5. Position'
  BY <1>1, <1>3 DEF Position
<1>6. Addressed'
  <2> SUFFICES ASSUME NEW a \in 1 .. T, NEW b \in 1 .. R, a < i' \/ (a = i' /\ b < j')
               PROVE  url'[Index(a, b)] = <<TypeParams[a], RegionParams[b]>>
    BY <1>1 DEF Addressed
  <2>1. CASE a = i /\ b = j
    BY <1>1, <1>2, <1>3, <2>1 DEF Inv
  <2>2. CASE a < i \/ (a = i /\ b < j)
    <3>1. Index(a, b) < k
      BY <1>2, <2>2, Counting
    <3>2. Index(a, b) # k
      BY <1>2, <3>1, Counting
    <3>3. url[Index(a, b)] = <<TypeParams[a], RegionParams[b]>>
      BY <2>2 DEF Inv, Addressed
    <3> QED
      BY <1>1, <3>2, <3>3
  <2> QED
    BY <1>3, <2>1, <2>2
<1>7. Taken' /\ Copied' /\ aggregated' \in BOOLEAN /\ DOMAIN url' = 1 .. Count
  BY <1>1 DEF Inv, Taken, Copied
<1> QED
  BY <1>4, <1>5, <1>6, <1>7 DEF Inv

LEMMA AllSentInv == Inv /\ AllSent => Inv'
<1> SUFFICES ASSUME Inv, AllSent PROVE Inv'
  OBVIOUS
<1>1. /\ pc = "send" /\ i > T /\ pc' = "collect" /\ i' = 1 /\ j' = 1 /\ k' = 1
      /\ UNCHANGED <<aggregated, url, days, body, request, response>>
  BY DEF AllSent, T, clientVars
<1>2. TypeOK'
  BY <1>1, Sizes DEF Inv, TypeOK, T, R
<1>3. Position'
  <2>1. Index(1, 1) = 1
    BY Sizes DEF Index
  <2> QED
    BY <1>1, <2>1 DEF Position
<1>4. Addressed'
  <2> SUFFICES ASSUME NEW a \in 1 .. T, NEW b \in 1 .. R
               PROVE  url[Index(a, b)] = <<TypeParams[a], RegionParams[b]>>
    BY <1>1 DEF Addressed
  <2>1. a < i
    BY <1>1, Sizes DEF Inv, TypeOK
  <2> QED
    BY <2>1 DEF Inv, Addressed
<1>5. \A n \in 1 .. Count : ~(n < k')
  BY <1>1
<1>6. Copied'
  BY <1>1, <1>5 DEF Inv, Copied
<1> QED
  BY <1>1, <1>2, <1>3, <1>4, <1>5, <1>6 DEF Inv, Taken

LEMMA ReceiveBrokenInv == Inv /\ ReceiveBroken => Inv'
<1> SUFFICES ASSUME Inv, ReceiveBroken PROVE Inv'
  OBVIOUS
<1>1. /\ pc = "collect" /\ pc' = "thrown"
      /\ UNCHANGED <<aggregated, i, j, k, url, days, body, request, response>>
  BY DEF ReceiveBroken, clientVars
<1> QED
  BY <1>1 DEF Inv, TypeOK, Position, Addressed, Taken, Copied

\* What the pages know when an answer is received.
LEMMA ReceivedParts ==
  ASSUME Inv, Received
  PROVE  /\ pc = "collect" /\ k' = k + 1 /\ i \in 1 .. T /\ j \in 1 .. R /\ k = Index(i, j)
         /\ k \in 1 .. Count /\ request[k] = "done" /\ response[k].ok
         /\ response[k].history \in Histories
         /\ url[k] = <<TypeParams[i], RegionParams[j]>>
<1>1. pc = "collect" /\ k' = k + 1 /\ request[k] = "done" /\ response[k].ok
  BY DEF Received
<1>2. i \in 1 .. T /\ j \in 1 .. R /\ k = Index(i, j) /\ k \in 1 .. Count
  BY <1>1, Sizes DEF Inv, TypeOK, Position, T, R
<1>3. response[k] \in Answers \cup {NoAnswer}
  BY <1>2 DEF Inv, TypeOK
<1>4. response[k].history \in Histories
  <2>1. response[k] \in [ok : {TRUE}, history : Histories] \/ response[k].ok = FALSE
    <3>1. CASE response[k] \in [ok : {TRUE}, history : Histories]
      BY <3>1
    <3>2. CASE response[k] \in [ok : {FALSE}, history : {<<>>}]
      BY <3>2
    <3>3. CASE response[k] = NoAnswer
      BY <3>3 DEF NoAnswer
    <3> QED
      BY <1>3, <3>1, <3>2, <3>3 DEF Answers
  <2> QED
    BY <1>1, <2>1
<1>5. url[k] = <<TypeParams[i], RegionParams[j]>>
  BY <1>1, <1>2 DEF Inv, Addressed
<1> QED
  BY <1>1, <1>2, <1>4, <1>5

LEMMA CopyHistoryInv == Inv /\ CopyHistory => Inv'
<1> SUFFICES ASSUME Inv, CopyHistory PROVE Inv'
  OBVIOUS
<1> DEFINE row == [type |-> TypeParams[i], region |-> RegionParams[j], days |-> response[k].history]
<1>1. /\ Received /\ ~aggregated /\ NextRegion /\ body' = Append(body, row)
      /\ pc' = IF i' <= T THEN "collect" ELSE "returned"
      /\ UNCHANGED <<aggregated, url, days, request, response>>
  BY DEF CopyHistory, T, clientVars
<1>2. /\ pc = "collect" /\ k' = k + 1 /\ i \in 1 .. T /\ j \in 1 .. R /\ k = Index(i, j)
      /\ k \in 1 .. Count /\ request[k] = "done" /\ response[k].ok
      /\ response[k].history \in Histories /\ url[k] = <<TypeParams[i], RegionParams[j]>>
  BY <1>1, ReceivedParts
<1>3. /\ i' \in 1 .. T + 1 /\ j' \in 1 .. R /\ k' \in 1 .. Count + 1
      /\ k' = Index(i', j') /\ (i' > T => k' = Count + 1) /\ (i' <= T => k' <= Count)
  BY <1>1, <1>2, NextPlace
<1>4. TypeOK'
  BY <1>1, <1>2, <1>3, Sizes DEF Inv, TypeOK, T, R
<1>5. Position'
  BY <1>1, <1>3, Sizes DEF Position
<1>6. Addressed'
  BY <1>1, <1>2 DEF Inv, Addressed
<1>7. \A n \in 1 .. Count : n < k' <=> n < k \/ n = k
  BY <1>2
<1>8. Taken'
  BY <1>1, <1>2, <1>7 DEF Inv, Taken
<1>9. Copied'
  <2>1. row \in Written
    BY <1>2 DEF Written
  <2>2. /\ body \in Seq(Written) /\ Len(body) = k - 1
        /\ \A n \in 1 .. Count : n < k =>
             body[n] = [type |-> url[n][1], region |-> url[n][2], days |-> response[n].history]
    BY <1>1, <1>2 DEF Inv, Copied
  <2>3. body' \in Seq(Written) /\ Len(body') = k /\ body'[k] = row
    BY <1>1, <1>2, <2>1, <2>2
  <2>4. \A n \in 1 .. Count : n < k => body'[n] = body[n]
    BY <1>1, <1>2, <2>1, <2>2
  <2>5. row = [type |-> url[k][1], region |-> url[k][2], days |-> response[k].history]
    BY <1>2
  <2>6. Len(body') = k' - 1
    BY <1>2, <2>3
  <2>7. \A n \in 1 .. Count : n < k' =>
          body'[n] = [type |-> url[n][1], region |-> url[n][2], days |-> response[n].history]
    BY <1>7, <2>2, <2>3, <2>4, <2>5
  <2> QED
    BY <1>1, <2>3, <2>6, <2>7 DEF Copied
<1> QED
  BY <1>1, <1>4, <1>5, <1>6, <1>8, <1>9 DEF Inv

\* The sums of days are days.
LEMMA MergeType ==
  ASSUME NEW sums, DOMAIN sums \subseteq Dates, sums \in [DOMAIN sums -> Day], NEW history \in Histories
  PROVE  /\ DOMAIN Merge(sums, history) \subseteq Dates
         /\ Merge(sums, history) \in [DOMAIN Merge(sums, history) -> Day]
<1>1. PICK D \in SUBSET Dates : history \in [D -> Days]
  BY DEF Histories
<1>2. Days \subseteq Day
  BY HistoryAssumption
<1>3. ASSUME NEW day \in Day PROVE FirstOf(day) \in Day
  <2>1. day.avg_price * day.volume \in Nat
    BY <1>3 DEF Day
  <2> QED
    BY <1>3, <2>1 DEF FirstOf, Day
<1>4. ASSUME NEW sum \in Day, NEW day \in Day PROVE Combine(sum, day) \in Day
  <2>1. day.avg_price * day.volume \in Nat
    BY <1>4 DEF Day
  <2> QED
    BY <1>4, <2>1 DEF Combine, Day
<1>5. DOMAIN Merge(sums, history) = DOMAIN sums \cup D
  BY <1>1 DEF Merge
<1>6. ASSUME NEW d \in DOMAIN sums \cup D PROVE Merge(sums, history)[d] \in Day
  <2>1. Merge(sums, history)[d] =
          IF d \notin D THEN sums[d]
          ELSE IF d \in DOMAIN sums THEN Combine(sums[d], history[d]) ELSE FirstOf(history[d])
    BY <1>1, <1>6 DEF Merge
  <2>2. d \in D => history[d] \in Day
    BY <1>1, <1>2
  <2> QED
    BY <1>3, <1>4, <1>6, <2>1, <2>2
<1>7. Merge(sums, history) \in [DOMAIN Merge(sums, history) -> Day]
  <2>1. Merge(sums, history) = [d \in DOMAIN sums \cup D |-> Merge(sums, history)[d]]
    BY <1>1 DEF Merge
  <2> QED
    BY <1>5, <1>6, <2>1
<1> QED
  BY <1>5, <1>7

LEMMA MergeHistoryInv == Inv /\ MergeHistory => Inv'
<1> SUFFICES ASSUME Inv, MergeHistory PROVE Inv'
  OBVIOUS
<1>1. /\ Received /\ aggregated /\ days' = Merge(days, response[k].history)
      /\ IF j < R THEN j' = j + 1 /\ pc' = pc ELSE pc' = "write" /\ j' = j
      /\ UNCHANGED <<aggregated, i, url, body, request, response>>
  BY DEF MergeHistory, R, clientVars
<1>2. /\ pc = "collect" /\ k' = k + 1 /\ i \in 1 .. T /\ j \in 1 .. R /\ k = Index(i, j)
      /\ k \in 1 .. Count /\ request[k] = "done" /\ response[k].ok
      /\ response[k].history \in Histories
  BY <1>1, ReceivedParts
<1>3. T \in Nat \ {0} /\ R \in Nat \ {0} /\ Count \in Nat \ {0}
  BY Sizes
<1>4. DOMAIN days' \subseteq Dates /\ days' \in [DOMAIN days' -> Day]
  <2>1. DOMAIN days \subseteq Dates /\ days \in [DOMAIN days -> Day]
    BY DEF Inv, TypeOK
  <2> QED
    BY <1>1, <1>2, <2>1, MergeType
<1>5. /\ j' \in 1 .. R /\ pc' \in {"collect", "write"}
      /\ pc' = "collect" => k' = Index(i, j') /\ k' <= Count
      /\ pc' = "write" => k' = Index(i, R) + 1
  <2>1. CASE j < R
    <3> i \in Nat \ {0} /\ j + 1 \in 1 .. R /\ i <= T
      BY <1>2, <1>3, <2>1
    <3>1. Index(i, j + 1) = Index(i, j) + 1
      BY <1>2, <2>1, Counting
    <3>2. Index(i, j + 1) <= Count
      BY Counting
    <3> QED
      BY <1>1, <1>2, <2>1, <3>1, <3>2
  <2>2. CASE j = R
    BY <1>1, <1>2, <1>3, <2>2
  <2> QED
    BY <1>2, <1>3, <2>1, <2>2
<1>6. TypeOK'
  BY <1>1, <1>2, <1>3, <1>4, <1>5 DEF Inv, TypeOK, T, R
<1>7. Position'
  BY <1>1, <1>2, <1>5 DEF Position
<1>8. \A n \in 1 .. Count : n < k' <=> n < k \/ n = k
  BY <1>2
<1>9. Taken'
  BY <1>1, <1>2, <1>8 DEF Inv, Taken
<1>10. Addressed' /\ Copied'
  BY <1>1, <1>2, <1>5 DEF Inv, Addressed, Copied
<1> QED
  BY <1>1, <1>6, <1>7, <1>9, <1>10 DEF Inv

LEMMA WriteTypeInv == Inv /\ WriteType => Inv'
<1> SUFFICES ASSUME Inv, WriteType PROVE Inv'
  OBVIOUS
<1>1. /\ pc = "write" /\ days' = <<>> /\ i' = i + 1 /\ j' = 1
      /\ pc' = IF i < T THEN "collect" ELSE "returned"
      /\ UNCHANGED <<aggregated, k, url, request, response>>
  BY DEF WriteType, T, clientVars
<1>2. T \in Nat \ {0} /\ R \in Nat \ {0} /\ Count \in Nat \ {0}
  BY Sizes
<1>3. aggregated /\ i \in 1 .. T /\ k = Index(i, R) + 1 /\ k \in 1 .. Count + 1
  BY <1>1, <1>2 DEF Inv, TypeOK, Position, T
<1> i \in Nat \ {0} /\ R \in 1 .. R /\ 1 \in 1 .. R
  BY <1>2, <1>3
<1>4. k = Index(i + 1, 1)
  <2>1. Index(i + 1, 1) = Index(i, R) + 1
    BY Counting
  <2> QED
    BY <1>3, <2>1
<1>5. i < T => k <= Count
  <2>1. i + 1 \in Nat \ {0}
    OBVIOUS
  <2>2. i + 1 <= T => Index(i + 1, 1) <= Count
    BY <2>1, Counting
  <2> QED
    BY <1>2, <1>3, <1>4, <2>2
<1>6. i = T => k = Count + 1
  <2>1. T * R = (T - 1) * R + R
    BY <1>2
  <2> QED
    BY <1>3, <2>1, Sizes DEF Index
<1>7. TypeOK'
  <2>1. DOMAIN days' \subseteq Dates /\ days' \in [DOMAIN days' -> Day]
    BY <1>1
  <2>2. i' \in 1 .. T + 1 /\ j' \in 1 .. R /\ pc' \in {"collect", "returned"}
    BY <1>1, <1>2, <1>3
  <2>3. pc' = "collect" => i' <= T /\ k' \in 1 .. Count
    <3> SUFFICES ASSUME pc' = "collect" PROVE i + 1 <= T /\ k \in 1 .. Count
      BY <1>1
    <3>1. i < T
      BY <1>1
    <3> QED
      BY <1>2, <1>3, <1>5, <3>1
  <2> QED
    BY <1>1, <1>3, <2>1, <2>2, <2>3 DEF Inv, TypeOK, T, R
<1>8. Position'
  <2>1. pc' = "collect" => k' = Index(i', j')
    BY <1>1, <1>4
  <2>2. pc' = "returned" => k' = Count + 1
    <3>1. pc' = "returned" => ~(i < T)
      BY <1>1
    <3> QED
      BY <1>1, <1>2, <1>3, <1>6, <3>1
  <2> QED
    BY <1>1, <2>1, <2>2 DEF Position
<1>9. Addressed' /\ Taken' /\ Copied'
  BY <1>1, <1>3 DEF Inv, Addressed, Taken, Copied
<1> QED
  BY <1>1, <1>7, <1>8, <1>9 DEF Inv

LEMMA NextInv == Inv /\ [Next]_vars => Inv'
<1> SUFFICES ASSUME Inv, [Next]_vars PROVE Inv'
  OBVIOUS
<1>1. CASE SendRequest
  BY <1>1, SendRequestInv
<1>2. CASE AllSent
  BY <1>2, AllSentInv
<1>3. CASE ReceiveBroken
  BY <1>3, ReceiveBrokenInv
<1>4. CASE CopyHistory
  BY <1>4, CopyHistoryInv
<1>5. CASE MergeHistory
  BY <1>5, MergeHistoryInv
<1>6. CASE WriteType
  BY <1>6, WriteTypeInv
<1>7. CASE Client
  BY <1>7, ClientInv DEF Client
<1>8. CASE UNCHANGED vars
  BY <1>8 DEF vars, callVars, clientVars, Inv, TypeOK, Position, Addressed, Taken, Copied
<1> QED
  BY <1>1, <1>2, <1>3, <1>4, <1>5, <1>6, <1>7, <1>8 DEF Next, Page

LEMMA AlwaysInv == Spec => []Inv
BY InitInv, NextInv, PTL DEF Spec

-----------------------------------------------------------------------------
(* The theorems *)

\* The third index stays inside the vector of requests, although neither loop
\* of http_get_bulk_market_history or its aggregated twin compares it with size().
THEOREM TypeCorrect == Spec => []TypeOK
<1>1. Inv => TypeOK
  BY DEF Inv
<1> QED
  BY <1>1, AlwaysInv, PTL

\* Each history of the page is under the type and region it was asked for.
THEOREM RequestsCorrect == Spec => []HistoryIsOfItsRequest
<1>1. Inv => HistoryIsOfItsRequest
  <2> SUFFICES ASSUME Inv, pc = "returned", ~aggregated
               PROVE  body = [n \in 1 .. Count |-> [type |-> url[n][1], region |-> url[n][2],
                                                    days |-> response[n].history]]
    BY DEF HistoryIsOfItsRequest
  <2>1. /\ k = Count + 1 /\ body \in Seq(Written) /\ Len(body) = k - 1
        /\ \A n \in 1 .. Count : n < k =>
             body[n] = [type |-> url[n][1], region |-> url[n][2], days |-> response[n].history]
    BY DEF Inv, Position, Copied
  <2>2. Len(body) = Count /\ \A n \in 1 .. Count : n < k
    BY <2>1, Sizes
  <2>3. body = [n \in 1 .. Count |-> body[n]]
    BY <2>1, <2>2
  <2> QED
    BY <2>1, <2>2, <2>3
<1> QED
  BY <1>1, AlwaysInv, PTL

\* A page that is returned waited for all of its requests, and none was broken.
THEOREM WholeCorrect == Spec => []WholeOrError
<1>1. Inv => WholeOrError
  <2> SUFFICES ASSUME Inv, pc = "returned", NEW n \in 1 .. Count
               PROVE  request[n] = "done" /\ response[n].ok
    BY DEF WholeOrError
  <2>1. n < k
    BY Sizes DEF Inv, Position
  <2> QED
    BY <2>1 DEF Inv, Taken
<1> QED
  BY <1>1, AlwaysInv, PTL

-----------------------------------------------------------------------------
(* Days combined *)

Plus(a, b) == a + b

\* Sums over finite sets; nothing is folded here.
F == INSTANCE FoldLemmas WITH Op <- Plus, Base <- 0

Sum(w) == SumFunctionOnSet(w, DOMAIN w)

LEMMA SumIs == ASSUME NEW w PROVE Sum(w) = F!Total(w, DOMAIN w)
BY DEF Sum, F!Total, SumFunctionOnSet, F!SumFunctionOnSet, FoldFunctionOnSet, F!FoldFunctionOnSet,
       MapThenFoldSet, F!MapThenFoldSet

LEMMA SumOne == ASSUME NEW x, NEW w, DOMAIN w = {x}, w[x] \in Int PROVE Sum(w) = w[x]
<1>1. F!IsFiniteSet({}) /\ {x} = {} \cup {x}
  BY FS_EmptySet DEF IsFiniteSet, F!IsFiniteSet
<1>2. F!Total(w, {} \cup {x}) = F!Total(w, {}) + w[x]
  BY <1>1, F!TotalAdd
<1> QED
  BY <1>1, <1>2, F!TotalEmpty, SumIs

LEMMA SumNext ==
  ASSUME NEW S, IsFiniteSet(S), NEW x, x \notin S,
         NEW w, DOMAIN w = S \cup {x}, \A y \in S \cup {x} : w[y] \in Int,
         NEW v, DOMAIN v = S, \A y \in S : v[y] = w[y]
  PROVE  Sum(w) = Sum(v) + w[x]
<1>1. F!IsFiniteSet(S)
  BY DEF IsFiniteSet, F!IsFiniteSet
<1>2. F!Total(w, S \cup {x}) = F!Total(w, S) + w[x]
  BY <1>1, F!TotalAdd
<1>3. F!Total(v, S) = F!Total(w, S)
  BY <1>1, F!TotalEqual
<1> QED
  BY <1>2, <1>3, SumIs

LEMMA MaxIs ==
  ASSUME NEW S \in SUBSET Nat, NEW x \in S, \A y \in S : x >= y PROVE Max(S) = x
<1>1. Max(S) \in S /\ \A y \in S : Max(S) >= y
  BY DEF Max
<1>2. Max(S) \in Nat /\ x \in Nat /\ Max(S) >= x /\ x >= Max(S)
  BY <1>1
<1> QED
  BY <1>2

LEMMA MinIs ==
  ASSUME NEW S \in SUBSET Nat, NEW x \in S, \A y \in S : x <= y PROVE Min(S) = x
<1>1. Min(S) \in S /\ \A y \in S : Min(S) <= y
  BY DEF Min
<1>2. Min(S) \in Nat /\ x \in Nat /\ Min(S) <= x /\ x <= Min(S)
  BY <1>1
<1> QED
  BY <1>2

\* The days of some requests.
DaysOf(S) == [S -> Day]

LEMMA CombinedOne ==
  ASSUME NEW n, NEW day \in DaysOf({n}) PROVE Combined(day) = FirstOf(day[n])
<1> DEFINE u == [m \in DOMAIN day |-> day[m].avg_price * day[m].volume]
           c == [m \in DOMAIN day |-> day[m].order_count]
           v == [m \in DOMAIN day |-> day[m].volume]
<1>1. /\ DOMAIN day = {n} /\ day[n] \in Day
      /\ day[n].avg_price \in Nat /\ day[n].volume \in Nat /\ day[n].order_count \in Nat
      /\ day[n].high_price \in Nat /\ day[n].low_price \in Nat
  BY DEF DaysOf, Day
<1>2. u[n] = day[n].avg_price * day[n].volume /\ c[n] = day[n].order_count /\ v[n] = day[n].volume
  BY <1>1
<1>3. day[n].avg_price * day[n].volume \in Nat
  BY <1>1
<1>4. DOMAIN u = {n} /\ DOMAIN c = {n} /\ DOMAIN v = {n}
  BY <1>1
<1> HIDE DEF u, c, v
<1>5. Sum(u) = u[n] /\ Sum(c) = c[n] /\ Sum(v) = v[n]
  <2>1. u[n] \in Int /\ c[n] \in Int /\ v[n] \in Int
    BY <1>1, <1>2, <1>3
  <2> QED
    BY <1>4, <2>1, SumOne
<1>6. /\ {day[m].high_price : m \in DOMAIN day} = {day[n].high_price}
      /\ {day[m].low_price : m \in DOMAIN day} = {day[n].low_price}
  BY <1>1
<1>7. Max({day[n].high_price}) = day[n].high_price /\ Min({day[n].low_price}) = day[n].low_price
  BY <1>1, MaxIs, MinIs
<1>8. Combined(day) =
        [avg_price |-> Sum(u), high_price |-> day[n].high_price, low_price |-> day[n].low_price,
         order_count |-> Sum(c), volume |-> Sum(v)]
  BY <1>1, <1>4, <1>6, <1>7 DEF Combined, Sum, u, c, v
<1> QED
  BY <1>1, <1>2, <1>5, <1>8 DEF FirstOf, Day

\* The highest price of some days, and the lowest.
LEMMA Extremes ==
  ASSUME NEW S, IsFiniteSet(S), S # {}, NEW day \in DaysOf(S)
  PROVE  /\ \E n \in S : Combined(day).high_price = day[n].high_price
         /\ \E n \in S : Combined(day).low_price = day[n].low_price
         /\ \A n \in S : /\ Combined(day).high_price >= day[n].high_price
                         /\ Combined(day).low_price <= day[n].low_price
<1> DEFINE h == [n \in S |-> day[n].high_price]
           l == {day[n].low_price : n \in S}
           g == {day[n].high_price : n \in S}
<1>1. DOMAIN day = S /\ \A n \in S : day[n].high_price \in Nat /\ day[n].low_price \in Nat
  BY DEF DaysOf, Day
<1>2. PICK x \in S : \A y \in S : day[x].high_price >= day[y].high_price
  <2>1. F!IsFiniteSet(S) /\ \A y \in S : h[y] = day[y].high_price /\ h[y] \in Nat
    BY <1>1 DEF IsFiniteSet, F!IsFiniteSet
  <2> HIDE DEF h
  <2>2. \E z \in S : \A y \in S : h[z] >= h[y]
    BY <2>1, F!GreatestExists
  <2> QED
    BY <2>1, <2>2
<1>3. Max(g) = day[x].high_price
  <2>1. g \in SUBSET Nat /\ day[x].high_price \in g /\ \A p \in g : day[x].high_price >= p
    BY <1>1, <1>2
  <2> HIDE DEF g
  <2> QED
    BY <2>1, MaxIs
<1>4. Min(l) \in l /\ \A p \in l : Min(l) <= p
  <2>1. l \in SUBSET Nat /\ l # {}
    BY <1>1
  <2> HIDE DEF l
  <2> QED
    BY <2>1, F!MinIsIn DEF Min, F!Min
<1>5. Combined(day).high_price = Max(g) /\ Combined(day).low_price = Min(l)
  BY <1>1 DEF Combined
<1> HIDE DEF Combined
<1> QED
  BY <1>2, <1>3, <1>4, <1>5

LEMMA CombinedNext ==
  ASSUME NEW S, IsFiniteSet(S), S # {}, NEW n, n \notin S,
         NEW day \in DaysOf(S \cup {n}), NEW old \in DaysOf(S), \A m \in S : old[m] = day[m]
  PROVE  Combined(day) = Combine(Combined(old), day[n])
<1> DEFINE A == S \cup {n}
           u(f) == [m \in DOMAIN f |-> f[m].avg_price * f[m].volume]
           c(f) == [m \in DOMAIN f |-> f[m].order_count]
           v(f) == [m \in DOMAIN f |-> f[m].volume]
<1>1. /\ DOMAIN day = A /\ DOMAIN old = S
      /\ \A m \in A : /\ day[m] \in Day /\ day[m].avg_price \in Nat /\ day[m].volume \in Nat
                      /\ day[m].order_count \in Nat /\ day[m].high_price \in Nat /\ day[m].low_price \in Nat
  BY DEF DaysOf, Day
<1>2. \A m \in A : day[m].avg_price * day[m].volume \in Nat
  <2> SUFFICES ASSUME NEW m \in A PROVE day[m].avg_price * day[m].volume \in Nat
    OBVIOUS
  <2> QED
    BY <1>1
<1>3. Sum(u(day)) = Sum(u(old)) + day[n].avg_price * day[n].volume
  <2> DEFINE w == u(day)
             o == u(old)
  <2>1. /\ DOMAIN w = S \cup {n} /\ DOMAIN o = S
        /\ (\A y \in S \cup {n} : w[y] = day[y].avg_price * day[y].volume /\ w[y] \in Int)
        /\ \A y \in S : o[y] = w[y]
    BY <1>1, <1>2
  <2> HIDE DEF w, o
  <2>2. Sum(w) = Sum(o) + w[n]
    <3>1. /\ IsFiniteSet(S) /\ n \notin S /\ DOMAIN w = S \cup {n} /\ DOMAIN o = S
          /\ (\A y \in S \cup {n} : w[y] \in Int) /\ \A y \in S : o[y] = w[y]
      BY <2>1
    <3> QED
      BY <3>1, SumNext
  <2> QED
    BY <2>1, <2>2 DEF w, o
<1>4. Sum(c(day)) = Sum(c(old)) + day[n].order_count
  <2> DEFINE w == c(day)
             o == c(old)
  <2>1. /\ DOMAIN w = S \cup {n} /\ DOMAIN o = S
        /\ (\A y \in S \cup {n} : w[y] = day[y].order_count /\ w[y] \in Int)
        /\ \A y \in S : o[y] = w[y]
    BY <1>1
  <2> HIDE DEF w, o
  <2>2. Sum(w) = Sum(o) + w[n]
    <3>1. /\ IsFiniteSet(S) /\ n \notin S /\ DOMAIN w = S \cup {n} /\ DOMAIN o = S
          /\ (\A y \in S \cup {n} : w[y] \in Int) /\ \A y \in S : o[y] = w[y]
      BY <2>1
    <3> QED
      BY <3>1, SumNext
  <2> QED
    BY <2>1, <2>2 DEF w, o
<1>5. Sum(v(day)) = Sum(v(old)) + day[n].volume
  <2> DEFINE w == v(day)
             o == v(old)
  <2>1. /\ DOMAIN w = S \cup {n} /\ DOMAIN o = S
        /\ (\A y \in S \cup {n} : w[y] = day[y].volume /\ w[y] \in Int)
        /\ \A y \in S : o[y] = w[y]
    BY <1>1
  <2> HIDE DEF w, o
  <2>2. Sum(w) = Sum(o) + w[n]
    <3>1. /\ IsFiniteSet(S) /\ n \notin S /\ DOMAIN w = S \cup {n} /\ DOMAIN o = S
          /\ (\A y \in S \cup {n} : w[y] \in Int) /\ \A y \in S : o[y] = w[y]
      BY <2>1
    <3> QED
      BY <3>1, SumNext
  <2> QED
    BY <2>1, <2>2 DEF w, o
<1>6. IsFiniteSet(A)
  BY FS_AddElement
<1> DEFINE C == Combined(day)
           B == Combined(old)
           D == day[n]
<1>7. /\ C = [avg_price |-> C.avg_price, high_price |-> C.high_price, low_price |-> C.low_price,
              order_count |-> C.order_count, volume |-> C.volume]
      /\ C.avg_price = Sum(u(day)) /\ C.order_count = Sum(c(day)) /\ C.volume = Sum(v(day))
      /\ B.avg_price = Sum(u(old)) /\ B.order_count = Sum(c(old)) /\ B.volume = Sum(v(old))
  BY DEF Combined, Sum
<1>8. /\ \E m \in S : B.high_price = old[m].high_price
      /\ \E m \in S : B.low_price = old[m].low_price
      /\ \A m \in S : B.high_price >= old[m].high_price /\ B.low_price <= old[m].low_price
      /\ \E m \in A : C.high_price = day[m].high_price
      /\ \E m \in A : C.low_price = day[m].low_price
      /\ \A m \in A : C.high_price >= day[m].high_price /\ C.low_price <= day[m].low_price
  <2> HIDE DEF A, B, C
  <2>1. /\ \E m \in S : B.high_price = old[m].high_price
        /\ \E m \in S : B.low_price = old[m].low_price
        /\ \A m \in S : B.high_price >= old[m].high_price /\ B.low_price <= old[m].low_price
    BY Extremes DEF B
  <2>2. A # {} /\ day \in DaysOf(A)
    BY DEF A
  <2>3. /\ \E m \in A : C.high_price = day[m].high_price
        /\ \E m \in A : C.low_price = day[m].low_price
        /\ \A m \in A : C.high_price >= day[m].high_price /\ C.low_price <= day[m].low_price
    BY <1>6, <2>2, Extremes DEF C
  <2> QED
    BY <2>1, <2>3
<1> HIDE DEF C, B, u, c, v
<1>9. C.high_price = IF D.high_price > B.high_price THEN D.high_price ELSE B.high_price
  BY <1>1, <1>8
<1>10. C.low_price = IF D.low_price < B.low_price THEN D.low_price ELSE B.low_price
  BY <1>1, <1>8
<1>11. Combine(B, D) =
        [avg_price |-> C.avg_price, high_price |-> C.high_price, low_price |-> C.low_price,
         order_count |-> C.order_count, volume |-> C.volume]
  BY <1>3, <1>4, <1>5, <1>7, <1>9, <1>10 DEF Combine
<1> QED
  BY <1>7, <1>11 DEF C, B

-----------------------------------------------------------------------------
(* The aggregated page *)

\* Traded and Aggregate, of any answers.
TradedIn(S, r, d) == {n \in S : r[n].ok /\ d \in DOMAIN r[n].history}

AggregateIn(S, r) ==
  [d \in {x \in Dates : TradedIn(S, r, x) # {}} |->
     Combined([n \in TradedIn(S, r, d) |-> r[n].history[d]])]

LEMMA AggregateIs ==
  /\ \A a : Aggregate(Asked(a)) = AggregateIn(Asked(a), response)
  /\ \A a : Aggregate(Asked(a))' = AggregateIn(Asked(a)', response')
BY DEF Aggregate, AggregateIn, Traded, TradedIn

LEMMA SameAnswers ==
  ASSUME NEW S, NEW r, NEW q, \A n \in S : q[n] = r[n] PROVE AggregateIn(S, q) = AggregateIn(S, r)
<1>1. ASSUME NEW d PROVE TradedIn(S, q, d) = TradedIn(S, r, d)
  BY DEF TradedIn
<1>2. ASSUME NEW d
      PROVE  [n \in TradedIn(S, q, d) |-> q[n].history[d]] = [n \in TradedIn(S, r, d) |-> r[n].history[d]]
  <2>1. \A n \in TradedIn(S, r, d) : q[n] = r[n]
    BY DEF TradedIn
  <2> QED
    BY <1>1, <2>1
<1> QED
  BY <1>1, <1>2 DEF AggregateIn

\* Merge adds the answer of one more region.
LEMMA MergeIsAggregate ==
  ASSUME NEW S, IsFiniteSet(S), NEW n, n \notin S,
         NEW r, \A m \in S \cup {n} : r[m].history \in Histories, r[n].ok
  PROVE  AggregateIn(S \cup {n}, r) = Merge(AggregateIn(S, r), r[n].history)
<1> DEFINE h == r[n].history
           old(d) == TradedIn(S, r, d)
           new(d) == TradedIn(S \cup {n}, r, d)
           D == {x \in Dates : old(x) # {}}
           E == {x \in Dates : new(x) # {}}
           at(U, d) == [m \in U |-> r[m].history[d]]
<1>1. DOMAIN h \subseteq Dates
  BY DEF Histories
<1>2. ASSUME NEW d PROVE new(d) = old(d) \cup (IF d \in DOMAIN h THEN {n} ELSE {})
  BY DEF TradedIn
<1>3. E = D \cup DOMAIN h
  BY <1>1, <1>2
<1>4. ASSUME NEW d, NEW m \in new(d) PROVE r[m].history[d] \in Day
  <2>1. r[m].history \in Histories /\ d \in DOMAIN r[m].history
    BY <1>4 DEF TradedIn
  <2>2. PICK C \in SUBSET Dates : r[m].history \in [C -> Days]
    BY <2>1 DEF Histories
  <2>3. r[m].history[d] \in Days
    BY <2>1, <2>2
  <2> QED
    BY <2>3, HistoryAssumption
<1>5. ASSUME NEW d PROVE IsFiniteSet(old(d)) /\ n \notin old(d) /\ old(d) \subseteq new(d)
  <2>1. old(d) \subseteq S
    BY DEF TradedIn
  <2> HIDE DEF old, new
  <2> QED
    BY <1>2, <2>1, FS_Subset
<1>6. AggregateIn(S \cup {n}, r) = [d \in E |-> Combined(at(new(d), d))]
  BY DEF AggregateIn
<1>7. AggregateIn(S, r) = [d \in D |-> Combined(at(old(d), d))]
  BY DEF AggregateIn
<1>8. Merge(AggregateIn(S, r), h) =
        [d \in E |-> IF d \notin DOMAIN h THEN Combined(at(old(d), d))
                     ELSE IF d \in D THEN Combine(Combined(at(old(d), d)), h[d])
                                     ELSE FirstOf(h[d])]
  <2> DEFINE c(d) == Combined(at(old(d), d))
             sums == [d \in D |-> c(d)]
  <2>1. Merge(sums, h) =
          [d \in D \cup DOMAIN h |->
             IF d \notin DOMAIN h THEN sums[d]
             ELSE IF d \in D THEN Combine(sums[d], h[d]) ELSE FirstOf(h[d])]
    BY DEF Merge
  <2>2. \A d \in D : sums[d] = c(d)
    OBVIOUS
  <2>3. AggregateIn(S, r) = sums
    BY <1>7
  <2> HIDE DEF c, sums, D, E, h
  <2>4. Merge(sums, h) =
          [d \in E |-> IF d \notin DOMAIN h THEN c(d)
                       ELSE IF d \in D THEN Combine(c(d), h[d]) ELSE FirstOf(h[d])]
    BY <1>3, <2>1, <2>2
  <2> QED
    BY <2>3, <2>4 DEF c
<1>9. ASSUME NEW d \in E
      PROVE  Combined(at(new(d), d)) =
               IF d \notin DOMAIN h THEN Combined(at(old(d), d))
               ELSE IF d \in D THEN Combine(Combined(at(old(d), d)), h[d]) ELSE FirstOf(h[d])
  <2>1. CASE d \notin DOMAIN h
    <3>1. new(d) = old(d)
      BY <1>2, <2>1
    <3> HIDE DEF new, old
    <3> QED
      BY <2>1, <3>1
  <2>2. CASE d \in DOMAIN h /\ d \in D
    <3>1. new(d) = old(d) \cup {n} /\ old(d) # {}
      BY <1>2, <2>2
    <3> DEFINE U == old(d)
               day == at(U \cup {n}, d)
               past == at(U, d)
    <3>2. day \in DaysOf(U \cup {n}) /\ past \in DaysOf(U) /\ day[n] = h[d]
      BY <1>4, <3>1 DEF DaysOf
    <3>3. \A m \in U : past[m] = day[m]
      OBVIOUS
    <3>4. IsFiniteSet(U) /\ n \notin U /\ U # {}
      BY <1>5, <3>1
    <3> HIDE DEF U, day, past
    <3>5. Combined(day) = Combine(Combined(past), day[n])
      BY <3>2, <3>3, <3>4, CombinedNext
    <3>6. Combined(at(new(d), d)) = Combine(Combined(at(old(d), d)), h[d])
      BY <3>1, <3>2, <3>5 DEF U, day, past
    <3> HIDE DEF at, new, old, D, h
    <3> QED
      BY <2>2, <3>6
  <2>3. CASE d \in DOMAIN h /\ d \notin D
    <3>1. new(d) = {n}
      BY <1>2, <1>9, <2>3
    <3> DEFINE day == at({n}, d)
    <3>2. day \in DaysOf({n}) /\ day[n] = h[d]
      BY <1>4, <3>1 DEF DaysOf
    <3> HIDE DEF day
    <3>3. Combined(day) = FirstOf(day[n])
      BY <3>2, CombinedOne
    <3>4. Combined(at(new(d), d)) = FirstOf(h[d])
      BY <3>1, <3>2, <3>3 DEF day
    <3> HIDE DEF at, new, old, D, h
    <3> QED
      BY <2>3, <3>4
  <2> QED
    BY <2>1, <2>2, <2>3
<1> HIDE DEF h, old, new, D, E, at
<1> QED
  BY <1>6, <1>8, <1>9 DEF h

\* The requests for the a-th type whose answers were taken.
TakenOf(a) == {n \in Asked(a) : n < k}

Rows == [type : {TypeParams[a] : a \in 1 .. T}, days : UNION {[D -> Day] : D \in SUBSET Dates}]

\* The body has the first m types.
Lists(m) ==
  /\ body \in Seq(Rows) /\ Len(body) = Cardinality(TradedTypes(m))
  /\ \A a \in TradedTypes(m) :
       body[Cardinality(TradedTypes(a))] = [type |-> TypeParams[a], days |-> Aggregate(Asked(a))]

Merged ==
  aggregated =>
    /\ pc = "send" => days = <<>> /\ body = <<>>
    /\ pc \in {"collect", "write"} => days = Aggregate(TakenOf(i))
    /\ pc \in {"collect", "write", "returned"} => Lists(i - 1)
    /\ pc = "returned" => i = T + 1

\* Requests of a type are those of its places, and all taken before the next type.
LEMMA AskedAre ==
  ASSUME NEW a \in 1 .. T
  PROVE  /\ Asked(a) \subseteq 1 .. Count /\ IsFiniteSet(Asked(a))
         /\ \A n \in Asked(a) : n <= a * R
         /\ \A n \in Asked(a)' : n \in 1 .. Count
<1> DEFINE lo == (a - 1) * R + 1
           hi == a * R
<1>1. /\ a \in Nat /\ a <= T /\ T \in Nat /\ R \in Nat /\ Count = T * R /\ a - 1 \in Nat
  BY Sizes
<1>2. hi <= Count /\ hi \in Nat /\ lo \in Nat \ {0}
  <2>1. a * R <= T * R /\ a * R \in Nat /\ (a - 1) * R \in Nat
    BY <1>1, Times
  <2> QED
    BY <1>1, <2>1
<1>3. Asked(a) \subseteq lo .. hi /\ Asked(a)' \subseteq lo .. hi
  BY DEF Asked, R
<1> HIDE DEF lo, hi
<1>4. lo .. hi \subseteq 1 .. Count /\ IsFiniteSet(lo .. hi)
  BY <1>1, <1>2, Sizes, FS_Interval
<1>5. IsFiniteSet(Asked(a))
  <2> DEFINE B == lo .. hi
  <2>1. IsFiniteSet(B) /\ Asked(a) \subseteq B
    BY <1>3, <1>4
  <2> HIDE DEF B
  <2> QED
    BY <2>1, FS_Subset
<1>6. \A n \in Asked(a) : n <= hi
  BY <1>2, <1>3
<1> QED
  BY <1>3, <1>4, <1>5, <1>6 DEF hi

LEMMA AskedBefore ==
  ASSUME Inv, pc \in {"collect", "write", "returned"}, pc = "returned" => i = T + 1,
         NEW a \in 1 .. T, a < i
  PROVE  \A n \in Asked(a) : n < k
<1>1. \A n \in Asked(a) : n <= a * R /\ n \in 1 .. Count
  BY AskedAre
<1>2. /\ a \in Nat /\ R \in Nat \ {0} /\ T \in Nat /\ i \in 1 .. T + 1 /\ k \in Nat /\ j \in 1 .. R /\ Count \in Nat
  BY Sizes DEF Inv, TypeOK, T, R
<1>3. CASE pc \in {"collect", "write"}
  <2>1. k = Index(i, j) \/ k = Index(i, R) + 1
    BY <1>3 DEF Inv, Position
  <2>2. (i - 1) * R < k
    <3> DEFINE before == (i - 1) * R
    <3>1. before \in Nat /\ (k = before + j \/ k = before + R + 1)
      BY <1>2, <2>1, Times DEF Index
    <3> HIDE DEF before
    <3>2. before < k
      BY <1>2, <3>1
    <3> QED
      BY <3>2 DEF before
  <2>3. a * R <= (i - 1) * R /\ a * R \in Nat /\ (i - 1) * R \in Nat
    <3>1. i - 1 \in Nat /\ a <= i - 1
      BY <1>2
    <3> QED
      BY <1>2, <3>1, Times
  <2> QED
    BY <1>1, <1>2, <2>2, <2>3
<1>4. CASE pc = "returned"
  <2>1. k = Count + 1
    BY <1>4 DEF Inv, Position
  <2> QED
    BY <1>1, <1>2, <2>1
<1> QED
  BY <1>3, <1>4

\* What is listed stays, as long as the answers that were taken do.
LEMMA ListsKept ==
  ASSUME Inv, pc \in {"collect", "write", "returned"}, pc = "returned" => i = T + 1,
         Lists(i - 1), UNCHANGED <<i, url, body>>, \A n \in 1 .. Count : n < k => response'[n] = response[n]
  PROVE  Lists(i - 1)'
<1> DEFINE M == 1 .. i - 1
<1>1. T \in Nat /\ i \in 1 .. T + 1
  BY Sizes DEF Inv, TypeOK, T
<1>2. ASSUME NEW a \in M PROVE Asked(a)' = Asked(a) /\ Aggregate(Asked(a))' = Aggregate(Asked(a))
  <2>1. a \in 1 .. T /\ a < i
    BY <1>1
  <2>2. Asked(a)' = Asked(a)
    BY DEF Asked
  <2>3. \A n \in Asked(a) : response'[n] = response[n]
    BY <2>1, AskedAre, AskedBefore
  <2>4. AggregateIn(Asked(a), response') = AggregateIn(Asked(a), response)
    BY <2>3, SameAnswers
  <2>5. /\ Aggregate(Asked(a)) = AggregateIn(Asked(a), response)
        /\ Aggregate(Asked(a))' = AggregateIn(Asked(a)', response')
    BY AggregateIs
  <2> QED
    BY <2>2, <2>4, <2>5
<1>3. ASSUME NEW m \in 0 .. i - 1 PROVE TradedTypes(m)' = TradedTypes(m)
  <2>1. \A a \in 1 .. m : a \in M
    BY <1>1
  <2> HIDE DEF M
  <2>2. \A a \in 1 .. m : (DOMAIN Aggregate(Asked(a)))' = DOMAIN Aggregate(Asked(a))
    BY <1>2, <2>1
  <2> QED
    BY <2>2 DEF TradedTypes
<1>4. TradedTypes(i - 1)' = TradedTypes(i - 1)
  <2>1. \A a \in M : (DOMAIN Aggregate(Asked(a)))' = DOMAIN Aggregate(Asked(a))
    BY <1>2
  <2> QED
    BY <2>1 DEF TradedTypes
<1>5. \A a \in TradedTypes(i - 1) : a \in M /\ a \in 0 .. i - 1
  BY <1>1 DEF TradedTypes
<1> QED
  BY <1>2, <1>3, <1>4, <1>5 DEF Lists
\* The requests for the i-th type, with the one that is received.
LEMMA TakenNext ==
  ASSUME Inv, Received, UNCHANGED <<url, i>>
  PROVE  /\ k \in Asked(i) /\ k \notin TakenOf(i) /\ IsFiniteSet(TakenOf(i))
         /\ TakenOf(i)' = TakenOf(i) \cup {k}
         /\ \A n \in TakenOf(i) \cup {k} : response[n].history \in Histories
<1>1. /\ k' = k + 1 /\ i \in 1 .. T /\ j \in 1 .. R /\ k = Index(i, j) /\ k \in 1 .. Count
      /\ url[k] = <<TypeParams[i], RegionParams[j]>> /\ response[k].history \in Histories /\ pc = "collect"
  BY ReceivedParts
<1>2. k \in Asked(i)
  <2> DEFINE before == (i - 1) * R
  <2>1. before \in Nat /\ i * R = before + R /\ R \in Nat /\ j \in 1 .. R /\ k = before + j
    BY <1>1, Sizes, Times DEF Index
  <2> HIDE DEF before
  <2>2. k \in before + 1 .. i * R
    BY <2>1
  <2> QED
    BY <1>1, <2>2 DEF Asked, R, before
<1>3. k \notin TakenOf(i) /\ TakenOf(i) \subseteq Asked(i)
  BY <1>1 DEF TakenOf
<1>4. Asked(i) \subseteq 1 .. Count /\ IsFiniteSet(Asked(i))
  BY <1>1, AskedAre
<1>5. IsFiniteSet(TakenOf(i))
  BY <1>3, <1>4, FS_Subset
<1>6. TakenOf(i)' = TakenOf(i) \cup {k}
  <2>1. Asked(i)' = Asked(i)
    BY DEF Asked
  <2>2. \A n \in Asked(i) : n < k + 1 <=> n < k \/ n = k
    BY <1>1, <1>4
  <2> QED
    BY <1>1, <1>2, <2>1, <2>2 DEF TakenOf
<1>7. ASSUME NEW n \in TakenOf(i) PROVE response[n].history \in Histories
  <2>1. n \in 1 .. Count /\ n < k
    BY <1>3, <1>4 DEF TakenOf
  <2>2. response[n].ok /\ response[n] \in Answers \cup {NoAnswer}
    BY <1>1, <2>1 DEF Inv, TypeOK, Taken
  <2>3. response[n] \in [ok : {TRUE}, history : Histories]
    <3>1. CASE response[n] \in [ok : {FALSE}, history : {<<>>}]
      BY <2>2, <3>1
    <3>2. CASE response[n] = NoAnswer
      BY <2>2, <3>2 DEF NoAnswer
    <3> QED
      BY <2>2, <3>1, <3>2 DEF Answers
  <2> QED
    BY <2>3
<1> QED
  BY <1>1, <1>2, <1>3, <1>5, <1>6, <1>7

LEMMA MergedInit == Init => Merged
BY DEF Init, Merged

\* A step that takes no answer, or is not of this page.
LEMMA MergedStays ==
  ASSUME Inv, Merged, Inv', UNCHANGED <<aggregated, pc, i, k, url, days, body>>,
         \A n \in 1 .. Count : n < k => response'[n] = response[n]
  PROVE  Merged'
<1> SUFFICES ASSUME aggregated PROVE Merged'
  BY DEF Merged
<1>1. pc \in {"collect", "write", "returned"} => Lists(i - 1)'
  BY ListsKept DEF Merged
<1>2. ASSUME pc \in {"collect", "write"} PROVE days' = Aggregate(TakenOf(i))'
  <2> DEFINE S == TakenOf(i)
  <2>1. i \in 1 .. T /\ days = Aggregate(S)
    BY <1>2, Sizes DEF Merged, Inv, TypeOK, Position, T
  <2>2. S' = S
    BY DEF TakenOf, Asked
  <2>3. \A n \in S : response'[n] = response[n]
    BY <2>1, AskedAre DEF TakenOf
  <2>4. /\ Aggregate(S) = AggregateIn(S, response)
        /\ Aggregate(S)' = AggregateIn(S', response')
    BY DEF Aggregate, AggregateIn, Traded, TradedIn
  <2> HIDE DEF S
  <2>5. AggregateIn(S, response') = AggregateIn(S, response)
    BY <2>3, SameAnswers
  <2> QED
    BY <2>1, <2>2, <2>4, <2>5 DEF S
<1> QED
  BY <1>1, <1>2 DEF Merged

LEMMA AllSentMerged == ASSUME Inv, Merged, AllSent PROVE Merged'
<1> SUFFICES ASSUME aggregated PROVE Merged'
  BY DEF Merged, AllSent
<1>1. /\ pc = "send" /\ pc' = "collect" /\ i' = 1 /\ k' = 1 /\ days' = <<>> /\ body' = <<>>
      /\ UNCHANGED <<url, response>>
  BY DEF AllSent, clientVars, Merged
<1>2. 1 \in 1 .. T
  BY Sizes
<1>3. TakenOf(i)' = {}
  <2>1. \A n \in Asked(1)' : n \in 1 .. Count
    BY <1>2, AskedAre
  <2>2. TakenOf(i)' = {n \in Asked(1)' : n < 1}
    BY <1>1 DEF TakenOf, Asked
  <2> QED
    BY <2>1, <2>2
<1>4. Aggregate(TakenOf(i))' = <<>>
  BY <1>3 DEF Aggregate, Traded
<1>5. TradedTypes(i - 1)' = {}
  <2>1. 1 .. i' - 1 = {}
    BY <1>1
  <2> QED
    BY <2>1 DEF TradedTypes
<1>6. Lists(i - 1)'
  BY <1>1, <1>5, FS_EmptySet DEF Lists
<1> QED
  BY <1>1, <1>4, <1>6 DEF Merged

LEMMA MergeHistoryMerged == ASSUME Inv, Merged, Inv', MergeHistory PROVE Merged'
<1> DEFINE S == TakenOf(i)
<1>1. /\ Received /\ aggregated /\ days' = Merge(days, response[k].history)
      /\ pc' \in {"collect", "write"} /\ k' = k + 1
      /\ UNCHANGED <<aggregated, i, url, body, request, response>>
  BY DEF MergeHistory, Received, clientVars
<1>2. pc = "collect" /\ response[k].ok /\ days = Aggregate(S) /\ Lists(i - 1)
  BY <1>1 DEF Received, Merged
<1>3. /\ k \notin S /\ IsFiniteSet(S) /\ S' = S \cup {k}
      /\ \A n \in S \cup {k} : response[n].history \in Histories
  BY <1>1, TakenNext
<1>4. Lists(i - 1)'
  BY <1>1, <1>2, ListsKept
<1>5. /\ Aggregate(S) = AggregateIn(S, response)
      /\ Aggregate(S)' = AggregateIn(S', response')
  BY DEF Aggregate, AggregateIn, Traded, TradedIn
<1> HIDE DEF S
<1>6. AggregateIn(S \cup {k}, response) = Merge(AggregateIn(S, response), response[k].history)
  BY <1>2, <1>3, MergeIsAggregate
<1>7. days' = Aggregate(S)'
  BY <1>1, <1>2, <1>3, <1>5, <1>6
<1> QED
  BY <1>1, <1>4, <1>7 DEF Merged, S

LEMMA WriteTypeMerged == ASSUME Inv, Merged, WriteType PROVE Merged'
<1> DEFINE row == [type |-> TypeParams[i], days |-> days]
           Old == TradedTypes(i - 1)
           New == TradedTypes(i)
           what(a) == [type |-> TypeParams[a], days |-> Aggregate(Asked(a))]
           place(a) == Cardinality(TradedTypes(a))
<1>1. /\ pc = "write" /\ i' = i + 1 /\ pc' \in {"collect", "returned"} /\ (pc' = "returned" => ~(i < T))
      /\ pc' = "collect" => i < T
      /\ days' = <<>>
      /\ body' = IF DOMAIN days # {} THEN Append(body, row) ELSE body
      /\ UNCHANGED <<aggregated, k, url, request, response>>
  BY DEF WriteType, T, clientVars
<1>2. aggregated /\ i \in 1 .. T /\ k = Index(i, R) + 1 /\ T \in Nat /\ R \in Nat \ {0}
  BY <1>1, Sizes DEF Inv, TypeOK, Position, T
<1>3. days = Aggregate(TakenOf(i)) /\ Lists(i - 1)
  BY <1>1, <1>2 DEF Merged
<1>4. TakenOf(i) = Asked(i)
  <2> DEFINE before == (i - 1) * R
  <2>1. before \in Nat /\ i * R = before + R /\ k = before + R + 1
    BY <1>2, Times DEF Index
  <2>2. \A n \in Asked(i) : n <= i * R /\ n \in 1 .. Count
    BY <1>2, AskedAre
  <2> HIDE DEF before
  <2>3. \A n \in Asked(i) : n < k
    BY <1>2, <2>1, <2>2
  <2> QED
    BY <2>3 DEF TakenOf
<1>5. row = what(i)
  BY <1>3, <1>4
<1>6. New = Old \cup (IF DOMAIN days # {} THEN {i} ELSE {})
  <2>1. 1 .. i = (1 .. i - 1) \cup {i}
    BY <1>2
  <2> QED
    BY <1>3, <1>4, <2>1 DEF TradedTypes
<1>7. IsFiniteSet(Old) /\ i \notin Old /\ Old \subseteq 1 .. i - 1
  <2>1. Old \subseteq 1 .. i - 1 /\ i \notin 1 .. i - 1 /\ i - 1 \in Int /\ 1 \in Int
    BY <1>2 DEF TradedTypes
  <2> DEFINE B == 1 .. i - 1
  <2>2. IsFiniteSet(B) /\ Old \subseteq B
    BY <2>1, FS_Interval
  <2> HIDE DEF B, Old
  <2>3. IsFiniteSet(Old)
    BY <2>2, FS_Subset
  <2> QED
    BY <2>1, <2>3
<1>8. /\ body \in Seq(Rows) /\ Len(body) = Cardinality(Old)
      /\ \A a \in Old : body[place(a)] = what(a)
  BY <1>3 DEF Lists
<1>9. row \in Rows
  <2>1. DOMAIN days \in SUBSET Dates /\ days \in [DOMAIN days -> Day]
    BY DEF Inv, TypeOK
  <2> QED
    BY <1>2, <2>1 DEF Rows
<1>10. ASSUME NEW a \in Old PROVE place(a) \in 1 .. Len(body)
  <2>1. TradedTypes(a) \subseteq Old /\ a \in TradedTypes(a)
    BY <1>2, <1>7 DEF TradedTypes
  <2> HIDE DEF Old
  <2>2. IsFiniteSet(TradedTypes(a)) /\ Cardinality(TradedTypes(a)) <= Cardinality(Old)
    BY <1>7, <2>1, FS_Subset
  <2>3. Cardinality(TradedTypes(a)) # 0 /\ Cardinality(TradedTypes(a)) \in Nat /\ Cardinality(Old) \in Nat
    BY <1>7, <2>1, <2>2, FS_EmptySet, FS_CardinalityType
  <2> QED
    BY <1>8, <2>2, <2>3
<1> HIDE DEF Old, New, row, what, place
<1>11. /\ body' \in Seq(Rows) /\ Len(body') = Cardinality(New)
       /\ \A a \in New : body'[place(a)] = what(a)
  <2>1. CASE DOMAIN days # {}
    <3>1. New = Old \cup {i} /\ body' = Append(body, row)
      BY <1>1, <1>6, <2>1
    <3>2. Cardinality(New) = Cardinality(Old) + 1
      BY <1>7, <3>1, FS_AddElement
    <3>3. body' \in Seq(Rows) /\ Len(body') = Len(body) + 1 /\ body'[Len(body) + 1] = row
          /\ \A n \in 1 .. Len(body) : body'[n] = body[n]
      BY <1>8, <1>9, <3>1
    <3>4. place(i) = Len(body) + 1
      BY <1>8, <3>2 DEF place, New
    <3>5. \A a \in Old : body'[place(a)] = what(a)
      BY <1>8, <1>10, <3>3
    <3> QED
      BY <1>5, <1>8, <3>1, <3>2, <3>3, <3>4, <3>5
  <2>2. CASE DOMAIN days = {}
    BY <1>1, <1>6, <1>8, <2>2
  <2> QED
    BY <2>1, <2>2
<1>12. Lists(i - 1)'
  <2>1. (i - 1)' = i
    BY <1>1, <1>2
  <2>2. \A a : TradedTypes(a)' = TradedTypes(a) /\ Aggregate(Asked(a))' = Aggregate(Asked(a))
    BY <1>1 DEF TradedTypes, Aggregate, Traded, Asked
  <2>3. TradedTypes(i - 1)' = New
    BY <1>1, <2>1 DEF New, TradedTypes, Aggregate, Traded, Asked
  <2> QED
    BY <1>11, <2>2, <2>3 DEF Lists, place, what
<1>13. pc' = "collect" => Aggregate(TakenOf(i))' = <<>>
  <2> SUFFICES ASSUME pc' = "collect" PROVE Aggregate(TakenOf(i))' = <<>>
    OBVIOUS
  <2>1. i + 1 \in 1 .. T
    BY <1>1, <1>2
  <2>2. ASSUME NEW n \in Asked(i)' PROVE ~(n < k)
    <3> DEFINE before == i * R
    <3>1. before \in Nat /\ before = (i - 1) * R + R
      BY <1>2, Times
    <3>2. k = before + 1
      BY <1>2, <3>1 DEF Index
    <3>3. n \in before + 1 .. (i + 1) * R
      <4>1. i' - 1 = i
        BY <1>1, <1>2
      <4> QED
        BY <1>1, <2>2, <4>1 DEF Asked, R
    <3> HIDE DEF before
    <3>4. (i + 1) * R \in Int
      BY <1>2
    <3> QED
      BY <3>1, <3>2, <3>3, <3>4
  <2>3. TakenOf(i)' = {}
    BY <1>1, <2>2 DEF TakenOf
  <2> QED
    BY <2>3 DEF Aggregate, Traded
<1>14. pc' = "returned" => i' = T + 1
  BY <1>1, <1>2
<1> QED
  BY <1>1, <1>12, <1>13, <1>14 DEF Merged

LEMMA NextMerged == Inv /\ Merged /\ [Next]_vars => Merged'
<1> SUFFICES ASSUME Inv, Merged, [Next]_vars PROVE Merged'
  OBVIOUS
<1>1. Inv'
  BY NextInv
<1>2. CASE SendRequest
  BY <1>2 DEF SendRequest, Merged
<1>3. CASE AllSent
  BY <1>3, AllSentMerged
<1>4. CASE ReceiveBroken
  BY <1>4 DEF ReceiveBroken, Merged
<1>5. CASE CopyHistory
  BY <1>5 DEF CopyHistory, Merged
<1>6. CASE MergeHistory
  BY <1>1, <1>6, MergeHistoryMerged
<1>7. CASE WriteType
  BY <1>7, WriteTypeMerged
<1>8. ASSUME NEW n \in 1 .. Count, Transmit(n) \/ Complete(n) PROVE Merged'
  <2>1. UNCHANGED <<aggregated, pc, i, j, k, url, days, body>> /\ request[n] \in {"queued", "sent"}
    BY <1>8 DEF Transmit, Complete, callVars
  <2>2. \A m \in 1 .. Count : m # n => response'[m] = response[m]
    BY <1>8 DEF Transmit, Complete, Inv, TypeOK
  <2>3. CASE pc \in {"collect", "write", "returned"}
    <3>1. \A m \in 1 .. Count : m < k => m # n
      BY <2>1, <2>3 DEF Inv, Taken
    <3> QED
      BY <1>1, <2>1, <2>2, <3>1, MergedStays
  <2>4. CASE pc \notin {"collect", "write", "returned"}
    BY <2>1, <2>4 DEF Merged
  <2> QED
    BY <2>3, <2>4
<1>9. CASE UNCHANGED vars
  BY <1>1, <1>9, MergedStays DEF vars, callVars, clientVars
<1> QED
  BY <1>2, <1>3, <1>4, <1>5, <1>6, <1>7, <1>8, <1>9 DEF Next, Page, Client

\* The aggregated page has, for each type that was traded anywhere, all regions'
\* answers for it combined, and those of no other type.
THEOREM AggregateCorrect == Spec => []AggregateIsOfItsType
<1>1. Inv /\ Merged => AggregateIsOfItsType
  <2> SUFFICES ASSUME Merged, pc = "returned", aggregated
               PROVE  /\ Len(body) = Cardinality(TradedTypes(T))
                      /\ \A a \in TradedTypes(T) :
                           body[Cardinality(TradedTypes(a))] = [type |-> TypeParams[a], days |-> Aggregate(Asked(a))]
    BY DEF AggregateIsOfItsType, T
  <2>1. i = T + 1 /\ Lists(i - 1)
    BY DEF Merged
  <2>2. i - 1 = T
    BY <2>1, Sizes
  <2> QED
    BY <2>1, <2>2 DEF Lists
<1>2. Spec => []Merged
  BY AlwaysInv, MergedInit, NextMerged, PTL DEF Spec
<1> QED
  BY <1>1, <1>2, AlwaysInv, PTL

=============================================================================
