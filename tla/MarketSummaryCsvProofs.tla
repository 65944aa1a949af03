----------------------- MODULE MarketSummaryCsvProofs -----------------------
(***************************************************************************)
(* Theorems about MarketSummaryCsv: only a whole summary counts, for any   *)
(* number of regions, ids, handlers and faults, and any order of the       *)
(* regions in it.                                                          *)
(***************************************************************************)
EXTENDS MarketSummaryCsv, MarketOrdersCacheProofs

-----------------------------------------------------------------------------
(* The locking of the cache, which the walk relies on *)

\* With its file hidden, every step is one of the cache's, or only its hour passes.
LEMMA CsvStep == ASSUME TypeOK, [CsvNext]_allVars PROVE [Next]_vars
<1>1. CASE TimePasses
  <2>1. CASE \E r \in Regions : left[r] > 0
    BY <1>1, <2>1 DEF TimePasses, Tick, Next
  <2>2. CASE ~\E r \in Regions : left[r] > 0
    <3>1. left \in [Regions -> Nat] /\ \A r \in Regions : left[r] = 0
      BY <2>2 DEF TypeOK
    <3>2. left' = [r \in Regions |-> IF left[r] > 0 THEN left[r] - 1 ELSE 0]
      BY <1>1 DEF TimePasses
    <3>3. left' = left
      BY <3>1, <3>2
    <3> QED
      BY <1>1, <3>3 DEF TimePasses, vars, regionVars
  <2> QED
    BY <2>1, <2>2
<1>2. CASE Updating
  BY <1>2 DEF Updating, Next, UpdateThread
<1>3. CASE Serving
  BY <1>3 DEF Serving, Next
<1>4. CASE Skip \/ BeginRegion \/ WriteRow \/ EndRegion \/ AbandonCsv \/ CloseCsv
  BY <1>4 DEF Skip, BeginRegion, WriteRow, EndRegion, AbandonCsv, CloseCsv, Next, UpdateThread, Summary
<1>5. CASE OpenCsv
  BY <1>5 DEF OpenCsv
<1>6. CASE UNCHANGED allVars
  BY <1>6 DEF allVars
<1> QED
  BY <1>1, <1>2, <1>3, <1>4, <1>5, <1>6 DEF CsvNext

LEMMA CsvLocking == CsvSpec => []Locking
<1>1. CsvInit => Locking
  BY InitLocking DEF CsvInit
<1>2. Locking /\ [CsvNext]_allVars => Locking'
  BY CsvStep, StepLocking DEF Locking
<1> QED
  BY <1>1, <1>2, PTL DEF CsvSpec

-----------------------------------------------------------------------------
(* The inductive invariant *)

CsvRow == [region : Regions, id : Ids, orders : Seq(Order)]

\* A region is in the file, or not yet, or with n of its entries at the end.
Done(r)      == \E p \in 0 .. Len(csv) - Len(entries[r]) : Listed(r, csv, p, Len(entries[r]))
Absent(r)    == \A m \in DOMAIN csv : csv[m].region # r
Partly(r, n) == n <= Len(csv) /\ n <= Len(entries[r]) /\ Listed(r, csv, Len(csv) - n, n)

\* The walk starts with the first region, and only when the file is open.
WalkStarts == os = "closed" => pc # "scan" /\ scan.k = 0

\* As long as no write failed, the file has what was walked over.
Walked ==
  os = "good" =>
    /\ \A k \in DOMAIN CsvOrder : k <= scan.k => Done(CsvOrder[k])
    /\ \A k \in DOMAIN CsvOrder :
         k > scan.k => (k = scan.k + 1 /\ pc = "scan") \/ Absent(CsvOrder[k])
    /\ pc = "scan" => Partly(Scanned, scan.i - 1)

CsvInv == Locking /\ CsvTypeOK /\ WalkStarts /\ Walked

LEMMA CsvOrderParts ==
  /\ \A k \in DOMAIN CsvOrder : CsvOrder[k] \in Regions
  /\ DOMAIN CsvOrder = 1 .. Len(CsvOrder) /\ Len(CsvOrder) \in Nat
BY CacheAssumption

\* Nothing about a region in the file changes if file, index and data do not.
LEMMA FileKept ==
  ASSUME NEW r \in Regions, csv' = csv, entries'[r] = entries[r], fs'[r].data = fs[r].data
  PROVE  /\ Done(r) => Done(r)'
         /\ Absent(r) => Absent(r)'
         /\ \A n \in Nat : Partly(r, n) => Partly(r, n)'
<1>1. \A i : RowHeld(r, i)' = RowHeld(r, i)
  BY DEF RowHeld, Row
<1>2. \A p, n : Listed(r, csv, p, n) => Listed(r, csv, p, n)'
  BY <1>1 DEF Listed
<1>3. Len(csv') = Len(csv) /\ Len(entries'[r]) = Len(entries[r])
  OBVIOUS
<1>4. Done(r) => Done(r)'
  BY <1>1, <1>3 DEF Done, Listed
<1>5. \A n \in Nat : Partly(r, n) => Partly(r, n)'
  BY <1>1, <1>3 DEF Partly, Listed
<1> QED
  BY <1>4, <1>5 DEF Absent

\* A step that leaves the file, the walk and what it has seen alone.
LEMMA WalkKept ==
  ASSUME CsvInv, UNCHANGED <<csv, os, pc, scan, entries>>,
         \A r \in Regions : fs'[r].data = fs[r].data
  PROVE  WalkStarts' /\ Walked'
<1>1. WalkStarts'
  BY DEF CsvInv, WalkStarts
<1>2. ASSUME os' = "good" PROVE Walked'
  <2>1. \A k \in DOMAIN CsvOrder : /\ Done(CsvOrder[k]) => Done(CsvOrder[k])'
                                   /\ Absent(CsvOrder[k]) => Absent(CsvOrder[k])'
    BY FileKept, CsvOrderParts
  <2>2. ASSUME pc = "scan" PROVE Partly(Scanned, scan.i - 1)'
    <3>1. PICK r \in Regions : r = Scanned
      BY <2>2, CsvOrderParts DEF CsvInv, Locking, Control, TypeOK, Scanned
    <3>2. PICK n \in Nat : n = scan.i - 1
      BY <2>2 DEF CsvInv, Locking, Control, TypeOK
    <3>3. Partly(r, n)
      BY <1>2, <2>2, <3>1, <3>2 DEF CsvInv, Walked
    <3>4. Partly(r, n)'
      BY <3>3, FileKept
    <3>5. Scanned' = r /\ scan'.i - 1 = n
      BY <3>1, <3>2 DEF Scanned
    <3> QED
      BY <3>4, <3>5
  <2> QED
    BY <1>2, <2>1, <2>2 DEF CsvInv, Walked
<1> QED
  BY <1>1, <1>2 DEF Walked

\* A row of the region under the walk is written or lost.
LEMMA WriteRowWalked ==
  ASSUME CsvInv, WriteRow PROVE CsvTypeOK' /\ WalkStarts' /\ Walked'
<1> DEFINE e == entries[Scanned][scan.i]
           row == Row(Scanned, e, ReadAt(fs[Scanned].data, e.start, e.count))
<1>1. /\ pc = "scan" /\ scan.i <= Len(entries[Scanned]) /\ CanRead(fs[Scanned], e.start, e.count)
      /\ fs' = [fs EXCEPT ![Scanned].pos = e.start + e.count]
      /\ scan' = [scan EXCEPT !.i = @ + 1]
      /\ UNCHANGED <<pc, entries, csvLeft, outcome>>
  BY DEF WriteRow, ScanLoad
<1>2. \/ os' = os /\ os = "good" /\ csv' = Append(csv, row)
      \/ os' = "bad" /\ csv' = csv
  BY DEF WriteRow
<1>3. /\ scan \in [k : 0 .. Len(CsvOrder), i : Nat] /\ scan.k < Len(CsvOrder) /\ scan.i > 0
      /\ entries \in [Regions -> Seq(Entry)] /\ fs \in [Regions -> Stream]
  BY <1>1 DEF CsvInv, Locking, TypeOK, Control
<1>4. scan.k + 1 \in DOMAIN CsvOrder /\ Scanned \in Regions /\ CsvOrder[scan.k + 1] = Scanned
  BY <1>3, CsvOrderParts DEF Scanned
<1>5. /\ csv \in Seq(CsvRow) /\ os \in {"closed", "good", "bad"} /\ csvLeft \in Nat
      /\ outcome \in [Regions -> {"none", "updated", "failed"}]
  BY DEF CsvInv, CsvTypeOK, CsvRow
<1>6. row \in CsvRow /\ row.region = Scanned
  <2>1. e \in Entry
    BY <1>1, <1>3, <1>4
  <2>2. fs[Scanned].data \in Seq(Order)
    BY <1>3, <1>4 DEF Stream
  <2>3. ReadAt(fs[Scanned].data, e.start, e.count) \in Seq(Order)
    BY <1>1, <2>1, <2>2, ReadAtType DEF CanRead, Entry
  <2> QED
    BY <1>4, <2>1, <2>3 DEF Row, CsvRow, Entry
<1>7. CsvTypeOK'
  <2>1. csv' \in Seq(CsvRow)
    BY <1>2, <1>5, <1>6
  <2> QED
    BY <1>1, <1>2, <1>5, <2>1 DEF CsvTypeOK, CsvRow
<1>8. scan'.k = scan.k /\ scan'.i = scan.i + 1
  BY <1>1, <1>3
<1>9. Scanned' = Scanned
  BY <1>8 DEF Scanned
<1>10. WalkStarts'
  BY <1>1, <1>2 DEF CsvInv, CsvTypeOK, WalkStarts
<1>11. ASSUME os' = "good" PROVE Walked'
  <2>1. os = "good" /\ csv' = Append(csv, row)
    BY <1>2, <1>11
  <2>2. /\ Len(csv) \in Nat /\ Len(csv') = Len(csv) + 1 /\ DOMAIN csv' = 1 .. Len(csv) + 1
        /\ csv'[Len(csv) + 1] = row /\ DOMAIN csv = 1 .. Len(csv)
        /\ \A m \in 1 .. Len(csv) : csv'[m] = csv[m]
    BY <1>5, <1>6, <2>1
  <2>3. \A r \in Regions : fs'[r].data = fs[r].data
    BY <1>1, <1>3 DEF Stream
  <2>4. ASSUME NEW r \in Regions, NEW i PROVE RowHeld(r, i)' = RowHeld(r, i)
    BY <1>1, <2>3 DEF RowHeld, Row
  <2>5. ASSUME NEW k \in DOMAIN CsvOrder, k <= scan.k PROVE Done(CsvOrder[k])'
    <3>1. PICK r \in Regions : r = CsvOrder[k]
      BY CsvOrderParts
    <3>2. r # Scanned
      BY <1>3, <1>4, <2>5, <3>1, CsvAssumption, CsvOrderParts
    <3>3. PICK n \in Nat : n = Len(entries[r])
      BY <1>3
    <3>4. PICK p \in 0 .. Len(csv) - n : Listed(r, csv, p, n)
      BY <2>1, <2>5, <3>1, <3>3 DEF CsvInv, Walked, Done
    <3>5. Listed(r, csv, p, n)'
      <4> SUFFICES ASSUME NEW m \in 1 .. Len(csv) + 1
                   PROVE  IF m > p /\ m <= p + n THEN csv'[m] = RowHeld(r, m - p) ELSE csv'[m].region # r
        BY <2>2, <2>4 DEF Listed
      <4>1. CASE m = Len(csv) + 1
        <5>1. ~(m <= p + n)
          BY <2>2, <3>4, <4>1
        <5>2. csv'[m].region # r
          BY <1>6, <2>2, <3>2, <4>1
        <5> QED
          BY <5>1, <5>2
      <4>2. CASE m # Len(csv) + 1
        <5>1. m \in DOMAIN csv /\ csv'[m] = csv[m]
          BY <2>2, <4>2
        <5> QED
          BY <3>4, <5>1 DEF Listed
      <4> QED
        BY <4>1, <4>2
    <3>6. p \in 0 .. Len(csv') - n
      BY <2>2, <3>4
    <3>7. Len(entries'[r]) = n
      BY <1>1, <3>3
    <3> QED
      BY <3>1, <3>5, <3>6, <3>7 DEF Done
  <2>6. ASSUME NEW k \in DOMAIN CsvOrder, k > scan.k, k # scan.k + 1 PROVE Absent(CsvOrder[k])'
    <3>1. CsvOrder[k] # Scanned
      BY <1>4, <2>6, CsvAssumption
    <3>2. Absent(CsvOrder[k])
      BY <2>1, <2>6 DEF CsvInv, Walked
    <3>3. \A m \in 1 .. Len(csv) : csv'[m].region # CsvOrder[k]
      BY <2>2, <3>2 DEF Absent
    <3>4. csv'[Len(csv) + 1].region # CsvOrder[k]
      BY <1>6, <2>2, <3>1
    <3> QED
      BY <2>2, <3>3, <3>4 DEF Absent
  <2>7. Partly(Scanned, scan.i - 1)'
    <3>1. PICK n \in Nat : n = scan.i - 1
      BY <1>3
    <3>2. PICK r \in Regions : r = Scanned
      BY <1>4
    <3>3. n <= Len(csv) /\ Listed(r, csv, Len(csv) - n, n)
      BY <1>1, <2>1, <3>1, <3>2 DEF CsvInv, Walked, Partly
    <3>30. Len(csv) - n \in Nat
      <4>1. n <= Len(csv)
        BY <3>3
      <4> QED
        BY <2>2, <4>1
    <3>4. PICK p \in Nat : p = Len(csv) - n
      BY <3>30
    <3>5. row = RowHeld(r, n + 1)
      BY <1>3, <3>1, <3>2 DEF RowHeld
    <3>6. Listed(r, csv, p, n + 1)'
      <4> SUFFICES ASSUME NEW m \in 1 .. Len(csv) + 1
                   PROVE  IF m > p /\ m <= p + (n + 1)
                          THEN csv'[m] = RowHeld(r, m - p) ELSE csv'[m].region # r
        BY <2>2, <2>4 DEF Listed
      <4>1. CASE m = Len(csv) + 1
        <5>1. m - p = n + 1 /\ m > p /\ m <= p + (n + 1)
          BY <2>2, <3>3, <3>4, <4>1
        <5> QED
          BY <2>2, <3>5, <4>1, <5>1
      <4>2. CASE m # Len(csv) + 1
        <5>1. m \in DOMAIN csv /\ csv'[m] = csv[m] /\ m <= p + n
          BY <2>2, <3>3, <3>4, <4>2
        <5>2. Listed(r, csv, p, n)
          BY <3>3, <3>4
        <5>3. IF m > p /\ m <= p + n THEN csv[m] = RowHeld(r, m - p) ELSE csv[m].region # r
          BY <5>1, <5>2 DEF Listed
        <5> QED
          BY <5>1, <5>3
      <4> QED
        BY <4>1, <4>2
    <3>7. scan'.i - 1 = n + 1
      BY <1>3, <1>8, <3>1
    <3>8. Len(csv') - (n + 1) = p /\ n + 1 <= Len(csv')
      BY <2>2, <3>4
    <3>9. n + 1 <= Len(entries'[r])
      BY <1>1, <1>3, <3>1, <3>2
    <3>10. Scanned' = r
      BY <1>9, <3>2
    <3>11. Partly(r, n + 1)'
      BY <3>6, <3>8, <3>9 DEF Partly
    <3> QED
      BY <3>7, <3>10, <3>11
  <2> QED
    BY <1>1, <1>8, <2>5, <2>6, <2>7 DEF Walked
<1> QED
  BY <1>7, <1>10, <1>11 DEF Walked

\* The walk comes to a region that is not in the file yet.
LEMMA BeginRegionWalked ==
  ASSUME CsvInv, BeginRegion PROVE WalkStarts' /\ Walked'
<1>1. /\ scan.k < Len(CsvOrder) /\ pc = "csv" /\ pc' = "scan" /\ os # "closed"
      /\ scan' = [scan EXCEPT !.i = 1] /\ UNCHANGED <<csv, os, entries, fs>>
  BY DEF BeginRegion, ScanBegin, GoTo, csvVars
<1>2. scan \in [k : 0 .. Len(CsvOrder), i : Nat]
  BY DEF CsvInv, Locking, TypeOK
<1>3. scan'.k = scan.k /\ scan'.i = 1
  BY <1>1, <1>2
<1>4. scan.k + 1 \in DOMAIN CsvOrder /\ scan.k + 1 > scan.k
  BY <1>1, <1>2, CsvOrderParts
<1>5. WalkStarts'
  BY <1>1 DEF WalkStarts
<1>6. ASSUME os' = "good" PROVE Walked'
  <2>1. \A k \in DOMAIN CsvOrder : /\ Done(CsvOrder[k]) => Done(CsvOrder[k])'
                                   /\ Absent(CsvOrder[k]) => Absent(CsvOrder[k])'
    BY <1>1, FileKept, CsvOrderParts
  <2>2. os = "good" /\ pc # "scan"
    BY <1>1, <1>6
  <2>3. \A k \in DOMAIN CsvOrder : /\ k <= scan.k => Done(CsvOrder[k])
                                   /\ k > scan.k => Absent(CsvOrder[k])
    BY <2>2 DEF CsvInv, Walked
  <2>4. Partly(Scanned, scan.i - 1)'
    <3>0. PICK k \in DOMAIN CsvOrder : k = scan.k + 1 /\ k > scan.k
      BY <1>4
    <3>1. Absent(CsvOrder[k])'
      BY <2>1, <2>3, <3>0
    <3>2. Scanned' = CsvOrder[k] /\ Scanned' \in Regions
      BY <1>3, <3>0, CsvOrderParts DEF Scanned
    <3>3. \A m \in DOMAIN csv' : csv'[m].region # Scanned'
      BY <3>1, <3>2 DEF Absent
    <3>4. DOMAIN csv' = 1 .. Len(csv') /\ Len(csv') \in Nat
      BY <1>1 DEF CsvInv, CsvTypeOK
    <3>6. \A m \in DOMAIN csv' : ~(m > Len(csv') /\ m <= Len(csv') + 0)
      BY <3>4
    <3>5. scan'.i - 1 = 0 /\ Len(csv') - 0 = Len(csv')
      BY <1>3, <3>4
    <3>7. 0 <= Len(csv') /\ 0 <= Len(entries'[Scanned'])
      BY <1>1, <3>2, <3>4 DEF CsvInv, Locking, TypeOK
    <3>8. Listed(Scanned, csv, Len(csv), 0)'
      BY <3>3, <3>6 DEF Listed
    <3> QED
      BY <3>5, <3>7, <3>8 DEF Partly
  <2> QED
    BY <1>3, <2>1, <2>3, <2>4 DEF Walked
<1> QED
  BY <1>5, <1>6 DEF Walked

\* The walk ends with all entries of the region in the file.
LEMMA EndRegionWalked ==
  ASSUME CsvInv, EndRegion PROVE WalkStarts' /\ Walked'
<1>1. /\ pc = "scan" /\ pc' = "csv" /\ scan.i > Len(entries[Scanned])
      /\ scan' = [k |-> scan.k + 1, i |-> 0] /\ UNCHANGED <<csv, os, entries, fs>>
  BY DEF EndRegion, ScanEnd, GoTo, csvVars
<1>2. /\ scan \in [k : 0 .. Len(CsvOrder), i : Nat] /\ scan.k < Len(CsvOrder) /\ scan.i > 0
      /\ entries \in [Regions -> Seq(Entry)]
  BY <1>1 DEF CsvInv, Locking, TypeOK, Control
<1>3. os # "closed"
  BY <1>1 DEF CsvInv, WalkStarts
<1>4. WalkStarts'
  BY <1>1, <1>3 DEF WalkStarts
<1>5. ASSUME os' = "good" PROVE Walked'
  <2>1. \A k \in DOMAIN CsvOrder : /\ Done(CsvOrder[k]) => Done(CsvOrder[k])'
                                   /\ Absent(CsvOrder[k]) => Absent(CsvOrder[k])'
    BY <1>1, FileKept, CsvOrderParts
  <2>2. /\ \A k \in DOMAIN CsvOrder : k <= scan.k => Done(CsvOrder[k])
        /\ \A k \in DOMAIN CsvOrder : k > scan.k => k = scan.k + 1 \/ Absent(CsvOrder[k])
        /\ Partly(Scanned, scan.i - 1)
    BY <1>1, <1>5 DEF CsvInv, Walked
  <2>3. scan.k + 1 \in DOMAIN CsvOrder /\ Scanned \in Regions /\ CsvOrder[scan.k + 1] = Scanned
    BY <1>2, CsvOrderParts DEF Scanned
  <2>4. scan.i - 1 <= Len(entries[Scanned]) /\ scan.i - 1 <= Len(csv)
    BY <2>2 DEF Partly
  <2>5. scan.i - 1 = Len(entries[Scanned]) /\ Len(entries[Scanned]) \in Nat /\ Len(csv) \in Nat
    <3>1. Len(entries[Scanned]) \in Nat /\ csv \in Seq(CsvRow)
      BY <1>2, <2>3 DEF CsvInv, CsvTypeOK, CsvRow
    <3> QED
      BY <1>1, <1>2, <2>4, <3>1
  <2>6. Done(Scanned)
    <3>1. Len(csv) - Len(entries[Scanned]) \in 0 .. Len(csv) - Len(entries[Scanned])
      BY <2>4, <2>5
    <3>2. Listed(Scanned, csv, Len(csv) - Len(entries[Scanned]), Len(entries[Scanned]))
      BY <2>2, <2>5 DEF Partly
    <3> QED
      BY <3>1, <3>2 DEF Done
  <2>7. \A k \in DOMAIN CsvOrder : /\ k <= scan.k + 1 => Done(CsvOrder[k])
                                   /\ k > scan.k + 1 => Absent(CsvOrder[k])
    <3>1. \A k \in DOMAIN CsvOrder : k \in Int /\ scan.k \in Int
      BY <1>2, CsvOrderParts
    <3> QED
      BY <2>2, <2>3, <2>6, <3>1
  <2> QED
    BY <1>1, <2>1, <2>7 DEF Walked
<1> QED
  BY <1>4, <1>5 DEF Walked

\* Steps of other threads, and the clock.
LEMMA OthersWalked ==
  ASSUME CsvInv, TimePasses \/ Serving \/ UNCHANGED allVars
  PROVE  CsvTypeOK' /\ WalkStarts' /\ Walked'
<1>1. CASE TimePasses
  <2>1. UNCHANGED <<csv, os, outcome, pc, scan, entries, fs>>
    BY <1>1 DEF TimePasses, updaterVars
  <2>2. csvLeft \in Nat /\ csvLeft' = IF csvLeft > 0 THEN csvLeft - 1 ELSE 0
    BY <1>1 DEF TimePasses, CsvInv, CsvTypeOK
  <2>3. csvLeft' \in Nat
    BY <2>2
  <2>4. CsvTypeOK'
    BY <2>1, <2>3 DEF CsvInv, CsvTypeOK
  <2> QED
    BY <2>1, <2>4, WalkKept
<1>2. CASE Serving
  <2>1. PICK h \in Handlers : (GetOrders(h) \/ Request(h)) /\ UNCHANGED csvVars
    BY <1>2 DEF Serving
  <2>2. UNCHANGED <<pc, entries>> /\ \A r \in Regions : fs'[r].data = fs[r].data
    BY <2>1, HandlerSteps DEF CsvInv, Locking
  <2>3. scan' = scan
    BY <2>1 DEF GetOrders, Lock, Find, Read, Return, Request, Ask, AskUnknownRegion, updaterVars
  <2>4. UNCHANGED <<csv, os, csvLeft, outcome>>
    BY <2>1 DEF csvVars
  <2>5. CsvTypeOK'
    BY <2>2, <2>4 DEF CsvInv, CsvTypeOK
  <2> QED
    BY <2>2, <2>3, <2>4, <2>5, WalkKept
<1>3. CASE UNCHANGED allVars
  <2>1. UNCHANGED <<csv, os, csvLeft, outcome, pc, scan, entries, fs>>
    BY <1>3 DEF allVars, vars, updaterVars, regionVars, csvVars
  <2>2. CsvTypeOK'
    BY <2>1 DEF CsvInv, CsvTypeOK
  <2> QED
    BY <2>1, <2>2, WalkKept
<1> QED
  BY <1>1, <1>2, <1>3

\* What the update thread does to the regions, it does with the file closed.
LEMMA UpdatingWalked ==
  ASSUME CsvInv, Updating PROVE CsvTypeOK' /\ WalkStarts' /\ Walked'
<1>1. PickRegion \/ CheckExpiry \/ Wake \/ UpdateRegion
  BY DEF Updating
<1>2. pc \notin {"csv", "scan"} /\ pc' # "scan" /\ scan' = scan
  BY <1>1 DEF PickRegion, CheckExpiry, Wake, UpdateRegion, Downloaded, DownloadFails, LockRegion,
     ClearEntries, OpenFile, DirectoryFails, OpenFails, WriteEntry, SortEntries, Complete, FlushFails,
     Catch, Unwind, GoTo
<1>3. os = "closed"
  BY <1>2 DEF CsvInv, CsvTypeOK
<1>4. UNCHANGED <<csv, os, csvLeft>>
  BY DEF Updating
<1>5. outcome' \in [Regions -> {"none", "updated", "failed"}]
  <2>1. outcome \in [Regions -> {"none", "updated", "failed"}]
    BY DEF CsvInv, CsvTypeOK
  <2>2. \/ outcome' = [outcome EXCEPT ![next] = "updated"]
        \/ outcome' = [outcome EXCEPT ![next] = "failed"]
        \/ outcome' = outcome
    BY DEF Updating
  <2> QED
    BY <2>1, <2>2
<1>6. CsvTypeOK'
  BY <1>3, <1>4, <1>5 DEF CsvInv, CsvTypeOK
<1>7. WalkStarts'
  BY <1>2, <1>3 DEF CsvInv, WalkStarts
<1> QED
  BY <1>3, <1>4, <1>6, <1>7 DEF Walked

\* The file is opened, or the summary is over, one way or the other.
LEMMA OpenWalked ==
  ASSUME CsvInv, OpenCsv PROVE CsvTypeOK' /\ WalkStarts' /\ Walked'
<1>1. /\ pc = "csv" /\ os = "closed" /\ os' \in {"good", "bad"} /\ csv' = <<>>
      /\ UNCHANGED <<pc, scan, csvLeft, outcome>>
  BY DEF OpenCsv, vars, updaterVars
<1>2. scan.k = 0
  BY <1>1 DEF CsvInv, WalkStarts
<1>3. CsvTypeOK'
  BY <1>1 DEF CsvInv, CsvTypeOK
<1>4. \A r : Absent(r)'
  BY <1>1 DEF Absent
<1>5. \A k \in DOMAIN CsvOrder : ~(k <= scan'.k)
  BY <1>1, <1>2, CsvOrderParts
<1> QED
  BY <1>1, <1>3, <1>4, <1>5 DEF WalkStarts, Walked

LEMMA ClosedWalked ==
  ASSUME CsvInv, Skip \/ AbandonCsv \/ CloseCsv PROVE CsvTypeOK' /\ WalkStarts' /\ Walked'
<1>1. pc' = "check" /\ os' = "closed" /\ UNCHANGED <<csv, outcome>>
  BY DEF Skip, SkipSummary, AbandonCsv, ScanFails, CloseCsv, SummaryDone, GoTo, csvVars
<1>2. scan'.k = 0
  BY DEF Skip, SkipSummary, AbandonCsv, ScanFails, CloseCsv, SummaryDone
<1>3. csvLeft' \in Nat
  BY CsvAssumption DEF Skip, AbandonCsv, CloseCsv, csvVars, CsvInv, CsvTypeOK
<1>4. CsvTypeOK'
  BY <1>1, <1>3 DEF CsvInv, CsvTypeOK
<1> QED
  BY <1>1, <1>2, <1>4 DEF WalkStarts, Walked

LEMMA CsvInvInit == CsvInit => CsvInv
<1> SUFFICES ASSUME CsvInit PROVE CsvInv
  OBVIOUS
<1>1. Locking
  BY InitLocking DEF CsvInit
<1>2. CsvTypeOK
  BY DEF CsvInit, CsvTypeOK
<1> QED
  BY <1>1, <1>2 DEF CsvInit, Init, CsvInv, WalkStarts, Walked

LEMMA CsvInvStep == CsvInv /\ [CsvNext]_allVars => CsvInv'
<1> SUFFICES ASSUME CsvInv, [CsvNext]_allVars PROVE CsvInv'
  OBVIOUS
<1>1. Locking'
  BY CsvStep, StepLocking DEF CsvInv, Locking
<1>2. ASSUME BeginRegion \/ EndRegion PROVE CsvTypeOK'
  <2>1. pc' \in {"csv", "scan"} /\ UNCHANGED <<csv, os, csvLeft, outcome>>
    BY <1>2 DEF BeginRegion, EndRegion, ScanBegin, ScanEnd, GoTo, csvVars
  <2> QED
    BY <2>1 DEF CsvInv, CsvTypeOK
<1>3. CsvTypeOK' /\ WalkStarts' /\ Walked'
  BY <1>2, OthersWalked, UpdatingWalked, OpenWalked, ClosedWalked, BeginRegionWalked, EndRegionWalked,
     WriteRowWalked DEF CsvNext
<1> QED
  BY <1>1, <1>3 DEF CsvInv

LEMMA CsvInvAlways == CsvSpec => []CsvInv
<1> QED
  BY CsvInvInit, CsvInvStep, PTL DEF CsvSpec

-----------------------------------------------------------------------------
(* Theorems *)

\* The type invariant: however a walk ends, MarketSummaryCsv's stream is closed.
THEOREM CsvTypeCorrect == CsvSpec => []CsvTypeOK
<1>1. CsvInv => CsvTypeOK
  BY DEF CsvInv
<1> QED
  BY <1>1, CsvInvAlways, PTL

\* last_updated is set only after a walk whose rows are those of all entries of
\* all regions, although request threads move and break the streams meanwhile.
THEOREM WholeSummariesCount == CsvSpec => OnlyWholeSummaryCounts
<1> DEFINE Whole(r) == \E p \in 0 .. Len(csv') - Len(entries[r]) : Listed(r, csv', p, Len(entries[r]))
<1>1. ASSUME CsvInv, [CsvNext]_allVars, csvLeft' > csvLeft PROVE \A r \in Regions : Whole(r)
  <2>1. csvLeft \in Nat
    BY <1>1 DEF CsvInv, CsvTypeOK
  <2>2. CloseCsv /\ os = "good"
    <3>1. ~TimePasses
      BY <1>1, <2>1 DEF TimePasses
    <3>2. ~(csvLeft' = csvLeft)
      BY <1>1, <2>1
    <3> QED
      BY <1>1, <3>1, <3>2 DEF CsvNext, Updating, Serving, Skip, OpenCsv, BeginRegion, WriteRow, EndRegion,
         AbandonCsv, CloseCsv, csvVars, allVars
  <2>3. scan.k = Len(CsvOrder) /\ csv' = csv
    BY <2>2 DEF CloseCsv, SummaryDone
  <2>4. \A k \in DOMAIN CsvOrder : Done(CsvOrder[k])
    BY <1>1, <2>2, <2>3, CsvOrderParts DEF CsvInv, Walked
  <2>5. \A r \in Regions : Done(r)
    BY <2>4, CsvAssumption
  <2> QED
    BY <2>3, <2>5 DEF Done
<1>2. CsvInv /\ [CsvNext]_allVars => [csvLeft' > csvLeft => \A r \in Regions : Whole(r)]_allVars
  BY <1>1
<1> QED
  BY <1>2, CsvInvAlways, PTL DEF CsvSpec, OnlyWholeSummaryCounts

=============================================================================
