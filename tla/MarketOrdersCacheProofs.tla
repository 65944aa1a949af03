----------------------- MODULE MarketOrdersCacheProofs -----------------------
(***************************************************************************)
(* Proofs about MarketOrdersCache, for every number of regions and         *)
(* handlers, every set of ids and downloads and all faults: the locking,   *)
(* what the files, the index and the answers contain, and what that        *)
(* amounts to for a thread that calls get_orders (OrderStore).             *)
(***************************************************************************)
EXTENDS MarketOrdersCache, SequenceTheorems, TLAPS

USE DataAssumption, CacheAssumption

-----------------------------------------------------------------------------
(* Lemmas about the data *)

LEMMA BlockType ==
  ASSUME NEW r \in Regions, NEW id \in Ids, NEW v \in Versions
  PROVE  /\ Block(r, id, v) \in Seq(Order)
         /\ Len(Block(r, id, v)) = NumOrders[v][id]
<1>1. NumOrders[v][id] \in Nat
  BY ContentsAssumption
<1> DEFINE n == NumOrders[v][id]
<1>2. \A k \in 1 .. n : [region |-> r, id |-> id, ver |-> v, n |-> k] \in Order
  BY <1>1 DEF Order
<1> HIDE DEF n
<1> QED
  BY <1>1, <1>2 DEF Block, n

LEMMA SnapshotParts ==
  ASSUME NEW r \in Regions, NEW d \in Snapshots(r)
  PROVE  /\ DOMAIN d \subseteq Ids
         /\ d \in [DOMAIN d -> Seq(Order)]
         /\ \E v \in Versions : \A id \in DOMAIN d : d[id] = Block(r, id, v)
<1>1. PICK v \in Versions : d = Snapshot(r, v)
  BY DEF Snapshots
<1>2. DOMAIN d \subseteq Ids /\ \A id \in DOMAIN d : d[id] = Block(r, id, v)
  BY <1>1 DEF Snapshot
<1>3. \A id \in DOMAIN d : d[id] \in Seq(Order)
  BY <1>2, BlockType
<1>4. d \in [DOMAIN d -> Seq(Order)]
  BY <1>1, <1>3 DEF Snapshot
<1> QED
  BY <1>2, <1>4

LEMMA ReadAtType ==
  ASSUME NEW data \in Seq(Order), NEW p \in Int, NEW n \in Nat,
         p >= 0, p + n <= Len(data)
  PROVE  ReadAt(data, p, n) \in Seq(Order)
BY DEF ReadAt

LEMMA SortedParts ==
  ASSUME NEW index \in Seq(Entry), NEW s \in SortedForms(index)
  PROVE  /\ s \in Seq(Entry)
         /\ Len(s) = Len(index)
         /\ IsSorted(s)
         /\ IdsIn(s) = IdsIn(index)
         /\ \A i \in DOMAIN s : \E j \in DOMAIN index : s[i] = index[j]
<1>1. DOMAIN index = 1 .. Len(index) /\ Len(index) \in Nat
  OBVIOUS
<1>2. {index[i] : i \in DOMAIN index} \subseteq Entry
  OBVIOUS
<1>3. s \in [1 .. Len(index) -> {index[i] : i \in DOMAIN index}]
  BY <1>1 DEF SortedForms
<1>4. s \in [1 .. Len(index) -> Entry]
  BY <1>2, <1>3
<1>5. s \in Seq(Entry) /\ Len(s) = Len(index)
  BY <1>1, <1>4
<1>6. \A i \in DOMAIN s : s[i] \in {index[j] : j \in DOMAIN index}
  BY <1>3
<1> QED
  BY <1>5, <1>6 DEF SortedForms

LEMMA StreamUpdates ==
  ASSUME NEW s \in Stream
  PROVE  /\ [s EXCEPT !.good = FALSE] \in Stream
         /\ \A p \in Int : [s EXCEPT !.pos = p] \in Stream
         /\ \A data \in Seq(Order), p \in Int :
              [s EXCEPT !.data = data, !.pos = p] \in Stream
         /\ [good |-> TRUE,  data |-> <<>>, pos |-> 0] \in Stream
         /\ [good |-> FALSE, data |-> <<>>, pos |-> 0] \in Stream
<1>1. [s EXCEPT !.good = FALSE] \in Stream
  BY DEF Stream
<1>2. \A p \in Int : [s EXCEPT !.pos = p] \in Stream
  BY DEF Stream
<1>3. ASSUME NEW data \in Seq(Order), NEW p \in Int
      PROVE  [s EXCEPT !.data = data, !.pos = p] \in Stream
  BY DEF Stream
<1>4. <<>> \in Seq(Order) /\ 0 \in Int
  OBVIOUS
<1>5. [good |-> TRUE, data |-> <<>>, pos |-> 0] \in Stream
  BY <1>4 DEF Stream
<1>6. [good |-> FALSE, data |-> <<>>, pos |-> 0] \in Stream
  BY <1>4 DEF Stream
<1> QED
  BY <1>1, <1>2, <1>3, <1>5, <1>6

-----------------------------------------------------------------------------
(* The inductive invariant behind type correctness and locking.  The typing   *)
(* of Read rests on the mutex: the cursor a handler found is still good when  *)
(* it reads, since nobody else had the region in between.                     *)

\* Where the update thread is, it has a region at hand.
Control ==
  /\ pc # "loop" => next \in Regions
  /\ pc = "scan" => scan.k < Len(CsvOrder) /\ scan.i > 0

\* LockedWhileUsed, thread by thread.
Locks ==
  /\ \A h \in Handlers : hpc[h] \in {"find", "read"} => mutex[query[h].region] = h
  /\ \A h \in Handlers, r \in Regions :
       mutex[r] = h => hpc[h] \in {"find", "read"} /\ query[h].region = r
  /\ \A r \in Regions : mutex[r] = Updater <=> r \in Rewriting \cup Scanning

\* The entry a handler is about to read is the one it looked for, and the
\* stream, if it works, stands at its first order.
Cursors ==
  \A h \in Handlers : hpc[h] = "read" =>
    LET r == query[h].region
    IN  /\ cur[h] \in DOMAIN entries[r]
        /\ entries[r][cur[h]].id = query[h].id
        /\ fs[r].good => fs[r].pos = entries[r][cur[h]].start

Locking == TypeOK /\ Control /\ Locks /\ Cursors

LEMMA InitLocking == Init => Locking
<1> SUFFICES ASSUME Init PROVE Locking
  OBVIOUS
<1>1. TypeOK
  BY DEF Init, TypeOK, Regions, Nothing, Stream, Query, UpdateLabels, HandlerLabels, NoReply, Reply
<1>2. Control /\ Locks /\ Cursors
  BY DEF Init, Control, Locks, Cursors, Rewriting, Scanning
<1> QED
  BY <1>1, <1>2 DEF Locking

LEMMA LocksMeanLockedWhileUsed ==
  ASSUME TypeOK, Locks PROVE LockedWhileUsed
BY DEF TypeOK, Locks, LockedWhileUsed, Inside

\* While the update thread holds region r, what it does to r is no concern of a
\* handler that reads.
LEMMA CursorsElsewhere ==
  ASSUME TypeOK, Locks, Cursors, NEW r \in Regions, mutex[r] = Updater,
         UNCHANGED <<hpc, query, cur>>,
         \A q \in Regions : q # r => fs'[q] = fs[q] /\ entries'[q] = entries[q]
  PROVE  Cursors'
<1>1. \A h \in Handlers : query[h].region \in Regions
  BY DEF TypeOK, Query
<1>2. \A h \in Handlers : hpc[h] = "read" => query[h].region # r
  BY <1>1 DEF Locks
<1> QED
  BY <1>1, <1>2 DEF Cursors

LEMMA UpdateThreadLocking ==
  ASSUME TypeOK, Control, Locks, Cursors, Tick \/ UpdateThread
  PROVE  Locking'
<1> USE DEF updaterVars, regionVars, handlerVars
<1>a. scan.k < Len(CsvOrder) => Scanned \in Regions
  BY DEF Scanned, TypeOK
<1>b. pc # "loop" => next \in Regions
  BY DEF Control
<1>c. DOMAIN Nothing = {} /\ Nothing \in [DOMAIN Nothing -> Seq(Order)]
  BY DEF Nothing
<1>1. CASE Tick
  <2>1. left' \in [Regions -> Nat]
    BY <1>1 DEF Tick, TypeOK, Control
  <2>2. TypeOK'
    BY <1>1, <2>1 DEF Tick, TypeOK, UpdateLabels
  <2>3. Control'
    BY <1>1 DEF Tick, Control
  <2>4. Locks'
    BY <1>1, <1>b DEF Tick, TypeOK, Locks, Rewriting, Scanning, Scanned, Query
  <2>5. Cursors'
    BY <1>1 DEF Tick, Cursors
  <2> QED
    BY <2>2, <2>3, <2>4, <2>5 DEF Locking
<1>2. CASE PickRegion
  <2>1. next' \in 1 .. NumRegions + 1
    BY <1>2 DEF PickRegion, TypeOK, Control, Regions
  <2>2. TypeOK'
    BY <1>2, <2>1 DEF PickRegion, TypeOK, UpdateLabels
  <2>3. Control'
    BY <1>2, <2>1 DEF PickRegion, Control, TypeOK, Regions
  <2>4. Locks'
    BY <1>2, <1>b DEF PickRegion, TypeOK, Locks, Rewriting, Scanning, Scanned, Query
  <2>5. Cursors'
    BY <1>2 DEF PickRegion, Cursors
  <2> QED
    BY <2>2, <2>3, <2>4, <2>5 DEF Locking
<1>3. CASE CheckExpiry
  <2>2. TypeOK'
    BY <1>3 DEF CheckExpiry, GoTo, TypeOK, UpdateLabels
  <2>3. Control'
    BY <1>3 DEF CheckExpiry, GoTo, Control
  <2>4. Locks'
    BY <1>3, <1>b DEF CheckExpiry, GoTo, TypeOK, Locks, Rewriting, Scanning, Scanned, Query
  <2>5. Cursors'
    BY <1>3 DEF CheckExpiry, GoTo, Cursors
  <2> QED
    BY <2>2, <2>3, <2>4, <2>5 DEF Locking
<1>4. CASE Wake
  <2>2. TypeOK'
    BY <1>4 DEF Wake, GoTo, TypeOK, UpdateLabels
  <2>3. Control'
    BY <1>4 DEF Wake, GoTo, Control
  <2>4. Locks'
    BY <1>4, <1>b DEF Wake, GoTo, TypeOK, Locks, Rewriting, Scanning, Scanned, Query
  <2>5. Cursors'
    BY <1>4 DEF Wake, GoTo, Cursors
  <2> QED
    BY <2>2, <2>3, <2>4, <2>5 DEF Locking
<1>5. CASE Downloaded
  <2>1. DOMAIN files' \subseteq Ids /\ files' \in [DOMAIN files' -> Seq(Order)]
    BY <1>5, <1>b, SnapshotParts DEF Downloaded, GoTo, TypeOK, Control
  <2>2. TypeOK'
    BY <1>5, <2>1 DEF Downloaded, GoTo, TypeOK, UpdateLabels
  <2>3. Control'
    BY <1>5 DEF Downloaded, GoTo, Control
  <2>4. Locks'
    BY <1>5, <1>b DEF Downloaded, GoTo, TypeOK, Locks, Rewriting, Scanning, Scanned, Query
  <2>5. Cursors'
    BY <1>5 DEF Downloaded, GoTo, Cursors
  <2> QED
    BY <2>2, <2>3, <2>4, <2>5 DEF Locking
<1>6. CASE DownloadFails
  <2>2. TypeOK'
    BY <1>6 DEF DownloadFails, GoTo, TypeOK, UpdateLabels
  <2>3. Control'
    BY <1>6 DEF DownloadFails, GoTo, Control
  <2>4. Locks'
    BY <1>6, <1>b DEF DownloadFails, GoTo, TypeOK, Locks, Rewriting, Scanning, Scanned, Query
  <2>5. Cursors'
    BY <1>6 DEF DownloadFails, GoTo, Cursors
  <2> QED
    BY <2>2, <2>3, <2>4, <2>5 DEF Locking
<1>7. CASE LockRegion
  <2>1. mutex' \in [Regions -> Handlers \cup {Updater, Free}]
    BY <1>7 DEF LockRegion, GoTo, TypeOK, Control
  <2>2. TypeOK'
    BY <1>7, <2>1 DEF LockRegion, GoTo, TypeOK, UpdateLabels
  <2>3. Control'
    BY <1>7 DEF LockRegion, GoTo, Control
  <2>4. Locks'
    BY <1>7, <1>b DEF LockRegion, GoTo, TypeOK, Locks, Rewriting, Scanning, Scanned, Query
  <2>5. Cursors'
    BY <1>7 DEF LockRegion, GoTo, Cursors
  <2> QED
    BY <2>2, <2>3, <2>4, <2>5 DEF Locking
<1>8. CASE ClearEntries
  <2>1. entries' \in [Regions -> Seq(Entry)]
    BY <1>8 DEF ClearEntries, GoTo, TypeOK, Control
  <2>2. TypeOK'
    BY <1>8, <2>1 DEF ClearEntries, GoTo, TypeOK, UpdateLabels
  <2>3. Control'
    BY <1>8 DEF ClearEntries, GoTo, Control
  <2>4. Locks'
    BY <1>8, <1>b DEF ClearEntries, GoTo, TypeOK, Locks, Rewriting, Scanning, Scanned, Query
  <2>5. Cursors'
    <3>1. next \in Regions /\ mutex[next] = Updater
      BY <1>8, <1>b DEF ClearEntries, GoTo, Locks, Rewriting
    <3>2. \A q \in Regions : q # next => fs'[q] = fs[q] /\ entries'[q] = entries[q]
      BY <1>8, <3>1 DEF ClearEntries, GoTo, TypeOK
    <3> QED
      BY <1>8, <3>1, <3>2, CursorsElsewhere DEF ClearEntries, GoTo
  <2> QED
    BY <2>2, <2>3, <2>4, <2>5 DEF Locking
<1>9. CASE OpenFile
  <2>1. fs' \in [Regions -> Stream]
    BY <1>9, StreamUpdates, <1>b DEF OpenFile, GoTo, TypeOK, Control
  <2>2. TypeOK'
    BY <1>9, <2>1 DEF OpenFile, GoTo, TypeOK, UpdateLabels
  <2>3. Control'
    BY <1>9 DEF OpenFile, GoTo, Control
  <2>4. Locks'
    BY <1>9, <1>b DEF OpenFile, GoTo, TypeOK, Locks, Rewriting, Scanning, Scanned, Query
  <2>5. Cursors'
    <3>1. next \in Regions /\ mutex[next] = Updater
      BY <1>9, <1>b DEF OpenFile, GoTo, Locks, Rewriting
    <3>2. \A q \in Regions : q # next => fs'[q] = fs[q] /\ entries'[q] = entries[q]
      BY <1>9, <3>1 DEF OpenFile, GoTo, TypeOK
    <3> QED
      BY <1>9, <3>1, <3>2, CursorsElsewhere DEF OpenFile, GoTo
  <2> QED
    BY <2>2, <2>3, <2>4, <2>5 DEF Locking
<1>10. CASE DirectoryFails
  <2>1. mutex' \in [Regions -> Handlers \cup {Updater, Free}]
    BY <1>10 DEF DirectoryFails, Unwind, GoTo, TypeOK, Control
  <2>2. TypeOK'
    BY <1>10, <2>1, <1>c DEF DirectoryFails, Unwind, GoTo, TypeOK, UpdateLabels
  <2>3. Control'
    BY <1>10 DEF DirectoryFails, Unwind, GoTo, Control
  <2>4. Locks'
    BY <1>10, <1>b DEF DirectoryFails, Unwind, GoTo, TypeOK, Locks, Rewriting, Scanning, Scanned, Query
  <2>5. Cursors'
    BY <1>10 DEF DirectoryFails, Unwind, GoTo, Cursors
  <2> QED
    BY <2>2, <2>3, <2>4, <2>5 DEF Locking
<1>11. CASE OpenFails
  <2>1. /\ mutex' \in [Regions -> Handlers \cup {Updater, Free}]
       /\ fs' \in [Regions -> Stream]
    BY <1>11, StreamUpdates, <1>b DEF OpenFails, Unwind, GoTo, TypeOK, Control
  <2>2. TypeOK'
    BY <1>11, <2>1, <1>c DEF OpenFails, Unwind, GoTo, TypeOK, UpdateLabels
  <2>3. Control'
    BY <1>11 DEF OpenFails, Unwind, GoTo, Control
  <2>4. Locks'
    BY <1>11, <1>b DEF OpenFails, Unwind, GoTo, TypeOK, Locks, Rewriting, Scanning, Scanned, Query
  <2>5. Cursors'
    <3>1. next \in Regions /\ mutex[next] = Updater
      BY <1>11, <1>b DEF OpenFails, Unwind, GoTo, Locks, Rewriting
    <3>2. \A q \in Regions : q # next => fs'[q] = fs[q] /\ entries'[q] = entries[q]
      BY <1>11, <3>1 DEF OpenFails, Unwind, GoTo, TypeOK
    <3> QED
      BY <1>11, <3>1, <3>2, CursorsElsewhere DEF OpenFails, Unwind, GoTo
  <2> QED
    BY <2>2, <2>3, <2>4, <2>5 DEF Locking
<1>12. CASE SortEntries
  <2>1. entries' \in [Regions -> Seq(Entry)]
    BY <1>12, <1>b, SortedParts DEF SortEntries, GoTo, TypeOK, Control
  <2>2. TypeOK'
    BY <1>12, <2>1 DEF SortEntries, GoTo, TypeOK, UpdateLabels
  <2>3. Control'
    BY <1>12 DEF SortEntries, GoTo, Control
  <2>4. Locks'
    BY <1>12, <1>b DEF SortEntries, GoTo, TypeOK, Locks, Rewriting, Scanning, Scanned, Query
  <2>5. Cursors'
    <3>1. next \in Regions /\ mutex[next] = Updater
      BY <1>12, <1>b DEF SortEntries, GoTo, Locks, Rewriting
    <3>2. \A q \in Regions : q # next => fs'[q] = fs[q] /\ entries'[q] = entries[q]
      BY <1>12, <3>1 DEF SortEntries, GoTo, TypeOK
    <3> QED
      BY <1>12, <3>1, <3>2, CursorsElsewhere DEF SortEntries, GoTo
  <2> QED
    BY <2>2, <2>3, <2>4, <2>5 DEF Locking
<1>13. CASE Complete
  <2>1. /\ mutex' \in [Regions -> Handlers \cup {Updater, Free}]
       /\ left' \in [Regions -> Nat]
       /\ next' \in 1 .. NumRegions + 1
    <3>1. mutex' \in [Regions -> Handlers \cup {Updater, Free}]
      BY <1>13 DEF Complete, TypeOK
    <3>2. left' \in [Regions -> Nat]
      BY <1>13 DEF Complete, TypeOK
    <3>3. next' \in 1 .. NumRegions + 1
      BY <1>13, <1>b DEF Complete, GoTo, Regions
    <3> QED
      BY <3>1, <3>2, <3>3
  <2>2. TypeOK'
    BY <1>13, <2>1, <1>c DEF Complete, GoTo, TypeOK, UpdateLabels
  <2>3. Control'
    BY <1>13 DEF Complete, GoTo, Control
  <2>4. Locks'
    BY <1>13, <1>b DEF Complete, GoTo, TypeOK, Locks, Rewriting, Scanning, Scanned, Query
  <2>5. Cursors'
    BY <1>13 DEF Complete, GoTo, Cursors
  <2> QED
    BY <2>2, <2>3, <2>4, <2>5 DEF Locking
<1>14. CASE FlushFails
  <2>1. /\ mutex' \in [Regions -> Handlers \cup {Updater, Free}]
       /\ fs' \in [Regions -> Stream]
    BY <1>14, StreamUpdates, <1>b DEF FlushFails, Unwind, GoTo, TypeOK, Control
  <2>2. TypeOK'
    BY <1>14, <2>1, <1>c DEF FlushFails, Unwind, GoTo, TypeOK, UpdateLabels
  <2>3. Control'
    BY <1>14 DEF FlushFails, Unwind, GoTo, Control
  <2>4. Locks'
    BY <1>14, <1>b DEF FlushFails, Unwind, GoTo, TypeOK, Locks, Rewriting, Scanning, Scanned, Query
  <2>5. Cursors'
    <3>1. next \in Regions /\ mutex[next] = Updater
      BY <1>14, <1>b DEF FlushFails, Unwind, GoTo, Locks, Rewriting
    <3>2. \A q \in Regions : q # next => fs'[q] = fs[q] /\ entries'[q] = entries[q]
      BY <1>14, <3>1 DEF FlushFails, Unwind, GoTo, TypeOK
    <3> QED
      BY <1>14, <3>1, <3>2, CursorsElsewhere DEF FlushFails, Unwind, GoTo
  <2> QED
    BY <2>2, <2>3, <2>4, <2>5 DEF Locking
<1>15. CASE Catch
  <2>1. left' \in [Regions -> Nat] /\ next' \in 1 .. NumRegions + 1
    BY <1>15, <1>b DEF Catch, GoTo, TypeOK, Control, Regions
  <2>2. TypeOK'
    BY <1>15, <2>1 DEF Catch, GoTo, TypeOK, UpdateLabels
  <2>3. Control'
    BY <1>15 DEF Catch, GoTo, Control
  <2>4. Locks'
    BY <1>15, <1>b DEF Catch, GoTo, TypeOK, Locks, Rewriting, Scanning, Scanned, Query
  <2>5. Cursors'
    BY <1>15 DEF Catch, GoTo, Cursors
  <2> QED
    BY <2>2, <2>3, <2>4, <2>5 DEF Locking
<1>16. CASE SkipSummary
  <2>2. TypeOK'
    BY <1>16 DEF SkipSummary, GoTo, TypeOK, UpdateLabels
  <2>3. Control'
    BY <1>16 DEF SkipSummary, GoTo, Control
  <2>4. Locks'
    BY <1>16, <1>b DEF SkipSummary, GoTo, TypeOK, Locks, Rewriting, Scanning, Scanned, Query
  <2>5. Cursors'
    BY <1>16 DEF SkipSummary, GoTo, Cursors
  <2> QED
    BY <2>2, <2>3, <2>4, <2>5 DEF Locking
<1>17. CASE ScanBegin
  <2>1. /\ mutex' \in [Regions -> Handlers \cup {Updater, Free}]
       /\ scan' \in [k : 0 .. Len(CsvOrder), i : Nat]
    BY <1>17 DEF ScanBegin, GoTo, TypeOK, Control
  <2>2. TypeOK'
    BY <1>17, <2>1 DEF ScanBegin, GoTo, TypeOK, UpdateLabels
  <2>s. Scanned' = Scanned /\ Scanned \in Regions /\ scan'.k = scan.k /\ scan.k < Len(CsvOrder)
    BY <1>17, <1>a DEF ScanBegin, GoTo, Scanned, Control, TypeOK
  <2>3. Control'
    BY <1>17, <2>s DEF ScanBegin, GoTo, Control
  <2>4. Locks'
    <3>1. \A h \in Handlers : hpc'[h] \in {"find", "read"} => mutex'[query'[h].region] = h
      BY <1>17, <2>s DEF ScanBegin, GoTo, TypeOK, Locks, Scanning
    <3>2. \A h \in Handlers, r \in Regions :
            mutex'[r] = h => hpc'[h] \in {"find", "read"} /\ query'[h].region = r
      BY <1>17, <2>s DEF ScanBegin, GoTo, TypeOK, Locks
    <3>3. \A r \in Regions : mutex'[r] = Updater <=> r \in (Rewriting \cup Scanning)'
      BY <1>17, <2>s DEF ScanBegin, GoTo, TypeOK, Locks, Rewriting, Scanning
    <3> QED
      BY <3>1, <3>2, <3>3 DEF Locks
  <2>5. Cursors'
    BY <1>17 DEF ScanBegin, GoTo, Cursors
  <2> QED
    BY <2>2, <2>3, <2>4, <2>5 DEF Locking
<1>18. CASE ScanLoad
  <2>a. scan' = [scan EXCEPT !.i = scan.i + 1] /\ scan \in [k : 0 .. Len(CsvOrder), i : Nat]
    BY <1>18 DEF ScanLoad, TypeOK
  <2>c. fs \in [Regions -> Stream] /\ Scanned \in Regions /\ entries[Scanned] \in Seq(Entry)
    BY <1>18, <1>a DEF ScanLoad, TypeOK, Control
  <2>d. entries[Scanned][scan.i] \in Entry
    BY <1>18, <2>a, <2>c DEF ScanLoad, Control
  <2>b. PICK p \in Int : fs' = [fs EXCEPT ![Scanned] = [fs[Scanned] EXCEPT !.pos = p]]
    <3>1. entries[Scanned][scan.i].start + entries[Scanned][scan.i].count \in Int
      BY <2>d DEF Entry
    <3> QED
      BY <1>18, <3>1 DEF ScanLoad
  <2>1. fs' \in [Regions -> Stream] /\ scan' \in [k : 0 .. Len(CsvOrder), i : Nat]
    <3>1. scan' \in [k : 0 .. Len(CsvOrder), i : Nat]
      BY <2>a
    <3> QED
      BY <3>1, <2>b, <2>c, StreamUpdates
  <2>2. TypeOK'
    BY <1>18, <2>1 DEF ScanLoad, TypeOK, UpdateLabels
  <2>s. Scanned' = Scanned /\ Scanned \in Regions /\ scan'.k = scan.k /\ scan.k < Len(CsvOrder)
    BY <1>18, <1>a DEF ScanLoad, Scanned, Control, TypeOK
  <2>3. Control'
    <3>1. scan'.i = scan.i + 1 /\ scan.i \in Nat
      BY <2>a
    <3> QED
      BY <1>18, <2>s, <3>1 DEF ScanLoad, Control
  <2>4. Locks'
    <3>1. \A h \in Handlers : hpc'[h] \in {"find", "read"} => mutex'[query'[h].region] = h
      BY <1>18, <2>s DEF ScanLoad, TypeOK, Locks, Scanning
    <3>2. \A h \in Handlers, r \in Regions :
            mutex'[r] = h => hpc'[h] \in {"find", "read"} /\ query'[h].region = r
      BY <1>18, <2>s DEF ScanLoad, TypeOK, Locks
    <3>3. \A r \in Regions : mutex'[r] = Updater <=> r \in (Rewriting \cup Scanning)'
      BY <1>18, <2>s DEF ScanLoad, TypeOK, Locks, Rewriting, Scanning
    <3> QED
      BY <3>1, <3>2, <3>3 DEF Locks
  <2>5. Cursors'
    <3>1. mutex[Scanned] = Updater
      BY <1>18, <2>s DEF ScanLoad, Locks, Scanning
    <3>2. \A q \in Regions : q # Scanned => fs'[q] = fs[q] /\ entries'[q] = entries[q]
      BY <1>18, <2>s DEF ScanLoad, TypeOK
    <3> QED
      BY <1>18, <2>s, <3>1, <3>2, CursorsElsewhere DEF ScanLoad
  <2> QED
    BY <2>2, <2>3, <2>4, <2>5 DEF Locking
<1>19. CASE ScanFails
  <2>1. /\ mutex' \in [Regions -> Handlers \cup {Updater, Free}]
       /\ fs' \in [Regions -> Stream]
       /\ scan' \in [k : 0 .. Len(CsvOrder), i : Nat]
    <3>1. Scanned \in Regions /\ fs[Scanned] \in Stream
      BY <1>19, <1>a DEF ScanFails, GoTo, TypeOK, Control
    <3>2. mutex' \in [Regions -> Handlers \cup {Updater, Free}]
      BY <1>19 DEF ScanFails, TypeOK
    <3>3. fs' \in [Regions -> Stream]
      BY <1>19, <3>1, StreamUpdates DEF ScanFails, TypeOK
    <3>4. 0 \in 0 .. Len(CsvOrder)
      OBVIOUS
    <3> QED
      BY <1>19, <3>2, <3>3, <3>4 DEF ScanFails
  <2>2. TypeOK'
    BY <1>19, <2>1 DEF ScanFails, GoTo, TypeOK, UpdateLabels
  <2>s. Scanned \in Regions
    BY <1>19, <1>a DEF ScanFails, GoTo, Control
  <2>3. Control'
    BY <1>19 DEF ScanFails, GoTo, Control
  <2>4. Locks'
    <3>1. \A h \in Handlers : hpc'[h] \in {"find", "read"} => mutex'[query'[h].region] = h
      BY <1>19, <2>s DEF ScanFails, GoTo, TypeOK, Locks, Scanning
    <3>2. \A h \in Handlers, r \in Regions :
            mutex'[r] = h => hpc'[h] \in {"find", "read"} /\ query'[h].region = r
      BY <1>19, <2>s DEF ScanFails, GoTo, TypeOK, Locks
    <3>3. \A r \in Regions : mutex'[r] = Updater <=> r \in (Rewriting \cup Scanning)'
      BY <1>19, <2>s DEF ScanFails, GoTo, TypeOK, Locks, Rewriting, Scanning
    <3> QED
      BY <3>1, <3>2, <3>3 DEF Locks
  <2>5. Cursors'
    <3>1. mutex[Scanned] = Updater
      BY <1>19, <2>s DEF ScanFails, GoTo, Locks, Scanning
    <3>2. \A q \in Regions : q # Scanned => fs'[q] = fs[q] /\ entries'[q] = entries[q]
      BY <1>19, <2>s DEF ScanFails, GoTo, TypeOK
    <3> QED
      BY <1>19, <2>s, <3>1, <3>2, CursorsElsewhere DEF ScanFails, GoTo
  <2> QED
    BY <2>2, <2>3, <2>4, <2>5 DEF Locking
<1>20. CASE ScanEnd
  <2>1. /\ mutex' \in [Regions -> Handlers \cup {Updater, Free}]
       /\ scan' \in [k : 0 .. Len(CsvOrder), i : Nat]
    <3>1. mutex' \in [Regions -> Handlers \cup {Updater, Free}]
      BY <1>20 DEF ScanEnd, TypeOK
    <3>2. scan.k + 1 \in 0 .. Len(CsvOrder)
      BY <1>20 DEF ScanEnd, GoTo, TypeOK, Control
    <3> QED
      BY <1>20, <3>1, <3>2 DEF ScanEnd
  <2>2. TypeOK'
    BY <1>20, <2>1 DEF ScanEnd, GoTo, TypeOK, UpdateLabels
  <2>s. Scanned \in Regions
    BY <1>20, <1>a DEF ScanEnd, GoTo, Control
  <2>3. Control'
    BY <1>20 DEF ScanEnd, GoTo, Control
  <2>4. Locks'
    <3>1. \A h \in Handlers : hpc'[h] \in {"find", "read"} => mutex'[query'[h].region] = h
      BY <1>20, <2>s DEF ScanEnd, GoTo, TypeOK, Locks, Scanning
    <3>2. \A h \in Handlers, r \in Regions :
            mutex'[r] = h => hpc'[h] \in {"find", "read"} /\ query'[h].region = r
      BY <1>20, <2>s DEF ScanEnd, GoTo, TypeOK, Locks
    <3>3. \A r \in Regions : mutex'[r] = Updater <=> r \in (Rewriting \cup Scanning)'
      BY <1>20, <2>s DEF ScanEnd, GoTo, TypeOK, Locks, Rewriting, Scanning
    <3> QED
      BY <3>1, <3>2, <3>3 DEF Locks
  <2>5. Cursors'
    BY <1>20 DEF ScanEnd, GoTo, Cursors
  <2> QED
    BY <2>2, <2>3, <2>4, <2>5 DEF Locking
<1>21. CASE SummaryDone
  <2>1. scan' \in [k : 0 .. Len(CsvOrder), i : Nat]
    BY <1>21 DEF SummaryDone, GoTo, TypeOK, Control
  <2>2. TypeOK'
    BY <1>21, <2>1 DEF SummaryDone, GoTo, TypeOK, UpdateLabels
  <2>3. Control'
    BY <1>21 DEF SummaryDone, GoTo, Control
  <2>4. Locks'
    BY <1>21, <1>b DEF SummaryDone, GoTo, TypeOK, Locks, Rewriting, Scanning, Scanned, Query
  <2>5. Cursors'
    BY <1>21 DEF SummaryDone, GoTo, Cursors
  <2> QED
    BY <2>2, <2>3, <2>4, <2>5 DEF Locking
<1>22. ASSUME NEW id \in Ids, WriteEntry(id) PROVE Locking'
  <2>0. files[id] \in Seq(Order) /\ Len(files[id]) \in Nat /\ next \in Regions
    BY <1>22, <1>b DEF WriteEntry, TypeOK
  <2>a. fs[next] \in Stream /\ fs \in [Regions -> Stream] /\ entries \in [Regions -> Seq(Entry)]
    BY <2>0 DEF TypeOK
  <2>1. entries' \in [Regions -> Seq(Entry)]
    <3> DEFINE start == IF fs[next].good THEN fs[next].pos ELSE BadStart
    <3>0. start \in Int
      BY <2>a DEF Stream, BadStart
    <3>1. entries' = [entries EXCEPT ![next] =
                        Append(entries[next], [id |-> id, start |-> start, count |-> Len(files[id])])]
      BY <1>22 DEF WriteEntry
    <3>2. [id |-> id, start |-> start, count |-> Len(files[id])] \in Entry
      BY <2>0, <3>0 DEF Entry
    <3> HIDE DEF start
    <3> QED
      BY <3>1, <3>2, <2>0, <2>a
  <2>2. fs' \in [Regions -> Stream]
    <3>1. fs[next].data \o files[id] \in Seq(Order) /\ Len(fs[next].data) + Len(files[id]) \in Int
      BY <2>0, <2>a DEF Stream
    <3>2. \/ fs' = [fs EXCEPT ![next] = [fs[next] EXCEPT
                        !.data = fs[next].data \o files[id],
                        !.pos = Len(fs[next].data) + Len(files[id])]]
          \/ fs' = [fs EXCEPT ![next] = [fs[next] EXCEPT !.good = FALSE]]
          \/ fs' = fs
      BY <1>22 DEF WriteEntry
    <3>3. [fs[next] EXCEPT !.data = fs[next].data \o files[id],
                           !.pos = Len(fs[next].data) + Len(files[id])] \in Stream
      BY <3>1, <2>a, StreamUpdates
    <3>4. [fs[next] EXCEPT !.good = FALSE] \in Stream
      BY <2>a, StreamUpdates
    <3> QED
      BY <3>2, <3>3, <3>4, <2>0, <2>a
  <2>3. TypeOK'
    BY <1>22, <2>1, <2>2 DEF WriteEntry, TypeOK
  <2>4. Control' /\ Locks'
    BY <1>22 DEF WriteEntry, Control, Locks, Rewriting, Scanning
  <2>5. Cursors'
    <3>1. mutex[next] = Updater
      BY <1>22, <2>0 DEF WriteEntry, Locks, Rewriting
    <3>2. \A q \in Regions : q # next => fs'[q] = fs[q] /\ entries'[q] = entries[q]
      BY <1>22, <2>0, <2>a DEF WriteEntry
    <3> QED
      BY <1>22, <2>0, <3>1, <3>2, CursorsElsewhere DEF WriteEntry
  <2> QED
    BY <2>3, <2>4, <2>5 DEF Locking
<1> QED
  BY <1>1, <1>2, <1>3, <1>4, <1>5, <1>6, <1>7, <1>8, <1>9, <1>10, <1>11, <1>12, <1>13, <1>14,
     <1>15, <1>16, <1>17, <1>18, <1>19, <1>20, <1>21, <1>22
     DEF UpdateThread, UpdateRegion, Summary

\* What Return does to the types and the locks, in a step of handler h that
\* holds the region of its query.
LEMMA ReturnLocking ==
  ASSUME TypeOK, Control, Locks, Cursors, NEW h \in Handlers, hpc[h] \in {"find", "read"},
         NEW outcome \in Reply, Return(h, outcome), fs' \in [Regions -> Stream],
         \A q \in Regions : q # query[h].region => fs'[q] = fs[q]
  PROVE  Locking'
<1> USE DEF updaterVars, regionVars, handlerVars
<1>1. \A g \in Handlers : query[g].region \in Regions
  BY DEF TypeOK, Query
<1>2. TypeOK'
  <2>1. /\ hpc' \in [Handlers -> HandlerLabels] /\ cur' \in [Handlers -> Nat]
        /\ reply' \in [Handlers -> Reply]
        /\ mutex' \in [Regions -> Handlers \cup {Updater, Free}]
    BY DEF Return, TypeOK, HandlerLabels
  <2> QED
    BY <2>1 DEF Return, TypeOK
<1>3. Control'
  BY DEF Return, Control
<1>4. Locks'
  <2>1. \A g \in Handlers : hpc'[g] \in {"find", "read"} => mutex'[query'[g].region] = g
    BY <1>1 DEF Return, TypeOK, Locks
  <2>2. \A g \in Handlers, r \in Regions :
          mutex'[r] = g => hpc'[g] \in {"find", "read"} /\ query'[g].region = r
    BY <1>1 DEF Return, TypeOK, Locks
  <2>3. \A r \in Regions : mutex'[r] = Updater <=> r \in (Rewriting \cup Scanning)'
    BY <1>1 DEF Return, TypeOK, Locks, Rewriting, Scanning, Scanned
  <2> QED
    BY <2>1, <2>2, <2>3 DEF Locks
<1>5. Cursors'
  <2>1. \A g \in Handlers : g # h /\ hpc[g] = "read" => query[g].region # query[h].region
    BY <1>1 DEF Locks
  <2>2. \A g \in Handlers : hpc'[g] = "read" =>
          g # h /\ hpc[g] = "read" /\ cur'[g] = cur[g] /\ query'[g] = query[g]
    BY DEF Return, TypeOK
  <2> QED
    BY <1>1, <2>1, <2>2 DEF Return, Cursors
<1> QED
  BY <1>2, <1>3, <1>4, <1>5 DEF Locking

LEMMA FindLocking ==
  ASSUME TypeOK, Control, Locks, Cursors, NEW h \in Handlers, Find(h)
  PROVE  Locking'
<1> USE DEF updaterVars, regionVars, handlerVars
<1> DEFINE r == query[h].region
<1>1. query[h] \in Query /\ r \in Regions /\ \A g \in Handlers : query[g].region \in Regions
  BY DEF TypeOK, Query
<1>2. hpc[h] = "find"
  BY DEF Find
<1>3. CASE Return(h, Found(<<>>)) /\ UNCHANGED fs
  <2>1. Found(<<>>) \in Reply
    BY DEF Found, Reply
  <2>2. fs' \in [Regions -> Stream] /\ \A q \in Regions : q # query[h].region => fs'[q] = fs[q]
    BY <1>3 DEF TypeOK
  <2> QED
    BY <1>2, <1>3, <2>1, <2>2, ReturnLocking
<1>4. ASSUME NEW i \in DOMAIN entries[r], entries[r][i].id = query[h].id,
             hpc' = [hpc EXCEPT ![h] = "read"],
             cur' = [cur EXCEPT ![h] = i],
             fs' = IF fs[r].good THEN [fs EXCEPT ![r].pos = entries[r][i].start] ELSE fs,
             UNCHANGED <<query, reply, updaterVars, entries, left, mutex>>
      PROVE  Locking'
  <2>1. entries[r] \in Seq(Entry) /\ i \in Nat /\ entries[r][i] \in Entry /\ entries[r][i].start \in Int
    <3>1. entries[r] \in Seq(Entry)
      BY <1>1 DEF TypeOK
    <3>2. entries[r][i] \in Entry /\ i \in Nat
      BY <3>1
    <3> QED
      BY <3>1, <3>2 DEF Entry
  <2>2. fs' \in [Regions -> Stream]
    BY <1>1, <1>4, <2>1, StreamUpdates DEF TypeOK
  <2>3. TypeOK'
    BY <1>4, <2>1, <2>2 DEF TypeOK, HandlerLabels
  <2>4. Control' /\ Locks'
    <3>1. Control'
      BY <1>4 DEF Control
    <3>2. \A g \in Handlers : hpc'[g] \in {"find", "read"} <=> hpc[g] \in {"find", "read"}
      BY <1>2, <1>4 DEF TypeOK
    <3>3. Rewriting' = Rewriting /\ Scanning' = Scanning
      BY <1>4 DEF Rewriting, Scanning, Scanned
    <3>4. UNCHANGED <<query, mutex>>
      BY <1>4
    <3> QED
      BY <3>1, <3>2, <3>3, <3>4 DEF Locks
  <2>5. Cursors'
    <3>1. \A g \in Handlers : g # h /\ hpc[g] = "read" => query[g].region # r
      BY <1>1, <1>2 DEF Locks
    <3>2. \A g \in Handlers : g # h /\ hpc'[g] = "read" =>
            /\ hpc[g] = "read" /\ cur'[g] = cur[g]
            /\ fs'[query[g].region] = fs[query[g].region]
      BY <1>1, <1>4, <3>1 DEF TypeOK
    <3>3. cur'[h] = i /\ (fs'[r].good => fs'[r].pos = entries[r][i].start)
      BY <1>1, <1>4 DEF TypeOK, Stream
    <3>4. UNCHANGED <<query, entries>>
      BY <1>4
    <3> SUFFICES ASSUME NEW g \in Handlers, hpc'[g] = "read"
                 PROVE  /\ cur'[g] \in DOMAIN entries[query[g].region]
                        /\ entries[query[g].region][cur'[g]].id = query[g].id
                        /\ fs'[query[g].region].good =>
                             fs'[query[g].region].pos = entries[query[g].region][cur'[g]].start
      BY <3>4 DEF Cursors
    <3>5. CASE g = h
      BY <1>4, <3>3, <3>5
    <3>6. CASE g # h
      BY <3>2, <3>6 DEF Cursors
    <3> QED
      BY <3>5, <3>6
  <2> QED
    BY <2>3, <2>4, <2>5 DEF Locking
<1>5. PICK i \in LowerBounds(entries[r], query[h].id) :
        IF i = Len(entries[r]) + 1 \/ entries[r][i].id # query[h].id
        THEN Return(h, Found(<<>>)) /\ UNCHANGED fs
        ELSE /\ hpc' = [hpc EXCEPT ![h] = "read"]
             /\ cur' = [cur EXCEPT ![h] = i]
             /\ fs' = IF fs[r].good THEN [fs EXCEPT ![r].pos = entries[r][i].start] ELSE fs
             /\ UNCHANGED <<query, reply, updaterVars, entries, left, mutex>>
  BY DEF Find
<1>6. CASE i = Len(entries[r]) + 1 \/ entries[r][i].id # query[h].id
  BY <1>3, <1>5, <1>6
<1>7. CASE ~(i = Len(entries[r]) + 1 \/ entries[r][i].id # query[h].id)
  <2>1. i \in DOMAIN entries[r]
    BY <1>1, <1>7 DEF LowerBounds, TypeOK
  <2> QED
    BY <1>4, <1>5, <1>7, <2>1
<1> QED
  BY <1>6, <1>7

LEMMA ReadLocking ==
  ASSUME TypeOK, Control, Locks, Cursors, NEW h \in Handlers, Read(h)
  PROVE  Locking'
<1> DEFINE r == query[h].region
           n == entries[r][cur[h]].count
           p == fs[r].pos
<1>1. r \in Regions /\ entries[r] \in Seq(Entry) /\ fs[r] \in Stream /\ fs \in [Regions -> Stream]
  BY DEF TypeOK, Query
<1>2. hpc[h] = "read" /\ cur[h] \in DOMAIN entries[r]
  BY DEF Read, Cursors
<1>3. n \in Nat /\ p \in Int /\ fs[r].data \in Seq(Order)
  <2>1. entries[r][cur[h]] \in Entry
    BY <1>1, <1>2
  <2> QED
    BY <1>1, <2>1 DEF Entry, Stream
<1>4. CASE /\ CanRead(fs[r], p, n)
           /\ fs' = [fs EXCEPT ![r].pos = p + n]
           /\ Return(h, Found(ReadAt(fs[r].data, p, n)))
  <2>1. Found(ReadAt(fs[r].data, p, n)) \in Reply
    BY <1>3, <1>4, ReadAtType DEF CanRead, Found, Reply
  <2>2. fs' \in [Regions -> Stream] /\ \A q \in Regions : q # r => fs'[q] = fs[q]
    <3>1. p + n \in Int
      BY <1>3
    <3>2. [fs[r] EXCEPT !.pos = p + n] \in Stream
      BY <1>1, <3>1, StreamUpdates
    <3> QED
      BY <1>1, <1>4, <3>2
  <2> QED
    BY <1>2, <1>4, <2>1, <2>2, ReturnLocking
<1>5. CASE fs' = [fs EXCEPT ![r].good = FALSE] /\ Return(h, Failed)
  <2>1. Failed \in Reply
    BY DEF Failed, Reply
  <2>2. fs' \in [Regions -> Stream] /\ \A q \in Regions : q # r => fs'[q] = fs[q]
    BY <1>1, <1>5, StreamUpdates
  <2> QED
    BY <1>2, <1>5, <2>1, <2>2, ReturnLocking
<1> QED
  BY <1>4, <1>5 DEF Read

LEMMA HandlerLocking ==
  ASSUME TypeOK, Control, Locks, Cursors, NEW h \in Handlers, GetOrders(h) \/ Request(h)
  PROVE  Locking'
<1> USE DEF updaterVars, regionVars, handlerVars
<1>0. \A g \in Handlers : query[g].region \in Regions
  BY DEF TypeOK, Query
<1>1. CASE Lock(h)
  <2>1. TypeOK'
    BY <1>1 DEF Lock, Move, TypeOK, HandlerLabels
  <2>2. Control'
    BY <1>1 DEF Lock, Control
  <2>3. Locks'
    BY <1>0, <1>1 DEF Lock, Move, TypeOK, Locks, Rewriting, Scanning, Scanned
  <2>4. Cursors'
    BY <1>1 DEF Lock, Move, TypeOK, Cursors
  <2> QED
    BY <2>1, <2>2, <2>3, <2>4 DEF Locking
<1>2. CASE Find(h)
  BY <1>2, FindLocking
<1>3. CASE Read(h)
  BY <1>3, ReadLocking
<1>4. CASE AskUnknownRegion(h)
  <2>1. TypeOK'
    BY <1>4 DEF AskUnknownRegion, TypeOK, Failed, Reply
  <2>2. Control' /\ Locks' /\ Cursors'
    BY <1>4 DEF AskUnknownRegion, Control, Locks, Cursors, Rewriting, Scanning, Scanned
  <2> QED
    BY <2>1, <2>2 DEF Locking
<1>5. ASSUME NEW r \in Regions, NEW id \in Ids, Ask(h, r, id) PROVE Locking'
  <2>1. TypeOK'
    BY <1>5 DEF Ask, Move, TypeOK, Query, HandlerLabels
  <2>2. Control'
    BY <1>5 DEF Ask, Control
  <2>3. Locks'
    BY <1>0, <1>5 DEF Ask, Move, TypeOK, Locks, Rewriting, Scanning, Scanned
  <2>4. Cursors'
    BY <1>5 DEF Ask, Move, TypeOK, Cursors
  <2> QED
    BY <2>1, <2>2, <2>3, <2>4 DEF Locking
<1> QED
  BY <1>1, <1>2, <1>3, <1>4, <1>5 DEF GetOrders, Request

LEMMA StepLocking == Locking /\ [Next]_vars => Locking'
<1> SUFFICES ASSUME TypeOK, Control, Locks, Cursors, [Next]_vars PROVE Locking'
  BY DEF Locking
<1>1. CASE Tick \/ UpdateThread
  BY <1>1, UpdateThreadLocking
<1>2. ASSUME NEW h \in Handlers, GetOrders(h) \/ Request(h) PROVE Locking'
  BY <1>2, HandlerLocking
<1>3. CASE UNCHANGED vars
  BY <1>3 DEF vars, updaterVars, regionVars, handlerVars, Locking, TypeOK, Control, Locks, Cursors,
              Rewriting, Scanning, Scanned
<1> QED
  BY <1>1, <1>2, <1>3 DEF Next

LEMMA LockingAlways == Spec => []Locking
BY InitLocking, StepLocking, PTL DEF Spec

\* Every variable keeps its type.
THEOREM TypeCorrect == Spec => []TypeOK
BY LockingAlways, PTL DEF Locking

\* Each region is used by one thread at a time, which holds its mutex, and its
\* mutex is held only then.
THEOREM LockingCorrect == Spec => []LockedWhileUsed
<1>1. Locking => LockedWhileUsed
  BY LocksMeanLockedWhileUsed DEF Locking
<1> QED
  BY <1>1, LockingAlways, PTL

-----------------------------------------------------------------------------
(* Reading a file that grows at its end *)

LEMMA ReadBeforeTheEnd ==
  ASSUME NEW data \in Seq(Order), NEW more \in Seq(Order), NEW p \in Int, NEW n \in Nat,
         p >= 0, p + n <= Len(data)
  PROVE  /\ p + n <= Len(data \o more)
         /\ ReadAt(data \o more, p, n) = ReadAt(data, p, n)
<1>1. Len(data \o more) = Len(data) + Len(more) /\ Len(data) \in Nat /\ Len(more) \in Nat
  OBVIOUS
<1>2. \A k \in 1 .. n : p + k \in 1 .. Len(data)
  OBVIOUS
<1>3. \A j \in 1 .. Len(data) : (data \o more)[j] = data[j]
  OBVIOUS
<1>4. \A k \in 1 .. n : (data \o more)[p + k] = data[p + k]
  BY <1>2, <1>3
<1> QED
  BY <1>1, <1>4 DEF ReadAt

LEMMA ReadAtTheEnd ==
  ASSUME NEW data \in Seq(Order), NEW more \in Seq(Order)
  PROVE  /\ Len(data) + Len(more) <= Len(data \o more)
         /\ ReadAt(data \o more, Len(data), Len(more)) = more
<1>1. Len(data \o more) = Len(data) + Len(more) /\ Len(data) \in Nat /\ Len(more) \in Nat
  OBVIOUS
<1>2. \A k \in 1 .. Len(more) : (data \o more)[Len(data) + k] = more[k]
  OBVIOUS
<1>3. more = [k \in 1 .. Len(more) |-> more[k]]
  OBVIOUS
<1> QED
  BY <1>1, <1>2, <1>3 DEF ReadAt

-----------------------------------------------------------------------------
(* The inductive invariant of the contents *)

\* From the end of a download until its region is written, files is whole.
FilesReady ==
  pc \in {"lock", "clear", "open", "write", "flush"} => files \in Snapshots(next)

\* How far the rewriting of the region has come.
Progress ==
  /\ pc = "open" => entries[next] = <<>>
  /\ pc \in {"write", "flush"} =>
       /\ IdsIn(entries[next]) \subseteq DOMAIN files
       /\ \A i, j \in DOMAIN entries[next] :
            entries[next][i].id = entries[next][j].id => i = j
       /\ fs[next].good => Backed(next, files)
  /\ pc = "write" /\ fs[next].good => fs[next].pos = Len(fs[next].data)
  /\ pc = "flush" => IsSorted(entries[next]) /\ IdsIn(entries[next]) = DOMAIN files

Contents == Locking /\ FilesReady /\ Progress /\ IndexMatchesFile

LEMMA EmptyHolds ==
  ASSUME NEW r \in Regions, entries[r] = <<>>
  PROVE  Holds(r, Nothing)
BY DEF Holds, Nothing, IsSorted, IdsIn, Backed

LEMMA InitContents == Init => Contents
<1> SUFFICES ASSUME Init PROVE Contents
  OBVIOUS
<1>1. Locking
  BY InitLocking
<1>2. FilesReady /\ Progress
  BY DEF Init, FilesReady, Progress
<1>3. \A r \in Regions : Holds(r, Nothing)
  BY EmptyHolds DEF Init
<1> QED
  BY <1>1, <1>2, <1>3 DEF Contents, IndexMatchesFile

-----------------------------------------------------------------------------
(* Every step preserves it *)

LEMMA HoldsKept ==
  ASSUME NEW r \in Regions, NEW d, Holds(r, d), entries'[r] = entries[r],
         fs'[r].data = fs[r].data, fs'[r].good => fs[r].good
  PROVE  Holds(r, d)'
BY DEF Holds, Backed, CanRead

LEMMA IndexKept ==
  ASSUME IndexMatchesFile,
         \A r \in Regions \ Rewriting' :
           \/ /\ r \notin Rewriting
              /\ entries'[r] = entries[r]
              /\ fs'[r].data = fs[r].data
              /\ fs'[r].good => fs[r].good
           \/ \E d \in Snapshots(r) \cup {Nothing} : Holds(r, d)'
  PROVE  IndexMatchesFile'
<1> SUFFICES ASSUME NEW r \in Regions, r \notin Rewriting'
             PROVE  \E d \in Snapshots(r) \cup {Nothing} : Holds(r, d)'
  BY DEF IndexMatchesFile
<1>1. CASE /\ r \notin Rewriting
           /\ entries'[r] = entries[r]
           /\ fs'[r].data = fs[r].data
           /\ fs'[r].good => fs[r].good
  <2>1. PICK d \in Snapshots(r) \cup {Nothing} : Holds(r, d)
    BY <1>1 DEF IndexMatchesFile
  <2> QED
    BY <1>1, <2>1, HoldsKept
<1> QED
  BY <1>1

\* A step of another thread, or of the summary, changes nothing about the region
\* being rewritten.
LEMMA ProgressKept ==
  ASSUME Progress, UNCHANGED <<pc, next, files>>,
         next \in Rewriting => entries'[next] = entries[next] /\ fs'[next] = fs[next]
  PROVE  Progress'
BY DEF Progress, Rewriting, Backed, CanRead

LEMMA WriteEntryContents ==
  ASSUME Contents, NEW id \in Ids, WriteEntry(id)
  PROVE  Progress'
<1> DEFINE index  == entries[next]
           stream == fs[next]
           start  == IF stream.good THEN stream.pos ELSE BadStart
           entry  == [id |-> id, start |-> start, count |-> Len(files[id])]
<1>1. /\ next \in Regions /\ index \in Seq(Entry) /\ stream \in Stream
      /\ entries \in [Regions -> Seq(Entry)] /\ fs \in [Regions -> Stream]
      /\ stream.data \in Seq(Order) /\ files[id] \in Seq(Order)
      /\ pc = "write" /\ pc' = "write" /\ next' = next /\ files' = files
      /\ id \in DOMAIN files /\ id \notin IdsIn(index)
  BY DEF Contents, Locking, Control, TypeOK, Stream, WriteEntry
<1>2. /\ IdsIn(index) \subseteq DOMAIN files
      /\ \A i, j \in DOMAIN index : index[i].id = index[j].id => i = j
      /\ stream.good => Backed(next, files)
      /\ stream.good => stream.pos = Len(stream.data)
  BY <1>1 DEF Contents, Progress
<1>3. entries'[next] = Append(index, entry)
  BY <1>1 DEF WriteEntry
<1> HIDE DEF entry
<1>4. /\ DOMAIN entries'[next] = 1 .. Len(index) + 1
      /\ \A i \in DOMAIN index : entries'[next][i] = index[i]
      /\ entries'[next][Len(index) + 1] = entry
      /\ DOMAIN index = 1 .. Len(index)
  BY <1>1, <1>3
<1>5. entry.id = id /\ entry.start = start /\ entry.count = Len(files[id])
  BY DEF entry
<1>c. \A i \in DOMAIN entries'[next] : i \in DOMAIN index \/ i = Len(index) + 1
  BY <1>1, <1>4
<1>6. IdsIn(entries'[next]) \subseteq DOMAIN files
  <2>1. \A i \in DOMAIN index : index[i].id \in DOMAIN files
    BY <1>2 DEF IdsIn
  <2>2. \A i \in DOMAIN entries'[next] : entries'[next][i].id \in DOMAIN files
    BY <1>1, <1>4, <1>5, <1>c, <2>1
  <2> QED
    BY <2>2 DEF IdsIn
<1>7. \A i, j \in DOMAIN entries'[next] : entries'[next][i].id = entries'[next][j].id => i = j
  <2>1. \A i \in DOMAIN index : index[i].id # id
    BY <1>1 DEF IdsIn
  <2>2. \A i \in DOMAIN index : entries'[next][i].id # id
    BY <1>4, <2>1
  <2>3. entries'[next][Len(index) + 1].id = id
    BY <1>4, <1>5
  <2>4. \A i, j \in DOMAIN index : entries'[next][i].id = entries'[next][j].id => i = j
    BY <1>2, <1>4
  <2> QED
    BY <1>c, <2>2, <2>3, <2>4
<1>8. CASE fs'[next].good
  <2>1. /\ stream.good
        /\ fs' = [fs EXCEPT ![next] = [stream EXCEPT !.data = @ \o files[id],
                                                     !.pos = Len(stream.data) + Len(files[id])]]
    BY <1>1, <1>8 DEF WriteEntry, Stream
  <2>2. /\ fs'[next].data = stream.data \o files[id]
        /\ fs'[next].pos = Len(stream.data) + Len(files[id])
    BY <1>1, <2>1 DEF Stream
  <2>3. ASSUME NEW i \in DOMAIN index
        PROVE  /\ CanRead(fs'[next], index[i].start, index[i].count)
               /\ ReadAt(fs'[next].data, index[i].start, index[i].count) = files[index[i].id]
    <3>1. /\ CanRead(stream, index[i].start, index[i].count)
          /\ ReadAt(stream.data, index[i].start, index[i].count) = files[index[i].id]
      BY <1>2, <2>1, <2>3 DEF Backed
    <3>2. index[i].start \in Int /\ index[i].count \in Nat
      <4>1. index[i] \in Entry
        BY <1>1
      <4> QED
        BY <4>1 DEF Entry
    <3>3. index[i].start >= 0 /\ index[i].start + index[i].count <= Len(stream.data)
      BY <3>1 DEF CanRead
    <3>4. /\ index[i].start + index[i].count <= Len(stream.data \o files[id])
          /\ ReadAt(stream.data \o files[id], index[i].start, index[i].count)
               = ReadAt(stream.data, index[i].start, index[i].count)
      BY <1>1, <3>2, <3>3, ReadBeforeTheEnd
    <3> QED
      BY <1>8, <2>2, <3>1, <3>3, <3>4 DEF CanRead
  <2>4. /\ CanRead(fs'[next], entry.start, entry.count)
        /\ ReadAt(fs'[next].data, entry.start, entry.count) = files[id]
    <3>1. entry.start = Len(stream.data) /\ Len(stream.data) >= 0
      BY <1>1, <1>2, <1>5, <2>1
    <3>2. /\ Len(stream.data) + Len(files[id]) <= Len(stream.data \o files[id])
          /\ ReadAt(stream.data \o files[id], Len(stream.data), Len(files[id])) = files[id]
      BY <1>1, ReadAtTheEnd
    <3> QED
      BY <1>5, <1>8, <2>2, <3>1, <3>2 DEF CanRead
  <2>5. Backed(next, files)'
    <3>1. SUFFICES ASSUME NEW i \in DOMAIN entries'[next]
                   PROVE  /\ CanRead(fs'[next], entries'[next][i].start, entries'[next][i].count)
                          /\ ReadAt(fs'[next].data, entries'[next][i].start, entries'[next][i].count)
                               = files[entries'[next][i].id]
      BY <1>1 DEF Backed
    <3>2. CASE i \in DOMAIN index
      BY <1>4, <2>3, <3>2
    <3>3. CASE i = Len(index) + 1
      BY <1>4, <1>5, <2>4, <3>3
    <3> QED
      BY <1>c, <3>2, <3>3
  <2>6. fs'[next].pos = Len(fs'[next].data)
    BY <1>1, <2>2
  <2> QED
    BY <1>1, <1>6, <1>7, <2>5, <2>6 DEF Progress
<1>9. CASE ~fs'[next].good
  BY <1>1, <1>6, <1>7, <1>9 DEF Progress
<1> QED
  BY <1>8, <1>9

LEMMA SortContents ==
  ASSUME Contents, SortEntries
  PROVE  Progress'
<1> DEFINE index == entries[next]
<1>1. /\ next \in Regions /\ index \in Seq(Entry) /\ entries \in [Regions -> Seq(Entry)]
      /\ pc = "write" /\ pc' = "flush" /\ next' = next /\ files' = files /\ fs' = fs
      /\ IdsIn(index) = DOMAIN files
  BY DEF Contents, Locking, Control, TypeOK, SortEntries, GoTo
<1>2. PICK sorted \in SortedForms(index) : entries'[next] = sorted
  BY <1>1 DEF SortEntries
<1>3. /\ sorted \in Seq(Entry) /\ IsSorted(sorted) /\ IdsIn(sorted) = DOMAIN files
      /\ \A i \in DOMAIN sorted : \E j \in DOMAIN index : sorted[i] = index[j]
  BY <1>1, <1>2, SortedParts
<1>4. \A i, j \in DOMAIN sorted : sorted[i].id = sorted[j].id => i = j
  <2>1. \A i \in DOMAIN sorted : sorted[i].id \in Int /\ i \in Int
    <3>1. \A i \in DOMAIN sorted : sorted[i] \in Entry /\ i \in Int
      BY <1>3
    <3> QED
      BY <3>1 DEF Entry
  <2> QED
    BY <1>3, <2>1 DEF IsSorted
<1>5. fs[next].good => Backed(next, files)'
  <2>1. fs[next].good => Backed(next, files)
    BY <1>1 DEF Contents, Progress
  <2> QED
    BY <1>1, <1>2, <1>3, <2>1 DEF Backed
<1> QED
  BY <1>1, <1>2, <1>3, <1>4, <1>5 DEF Progress

LEMMA UpdateThreadContents ==
  ASSUME Contents, Tick \/ UpdateThread
  PROVE  FilesReady' /\ Progress' /\ IndexMatchesFile'
<1> USE DEF updaterVars, regionVars, handlerVars
<1>a. TypeOK /\ Control /\ FilesReady /\ Progress /\ IndexMatchesFile
  BY DEF Contents, Locking
<1>b. /\ scan.k < Len(CsvOrder) => Scanned \in Regions
      /\ pc # "loop" => next \in Regions
  BY <1>a DEF Scanned, TypeOK, Control
<1>1. CASE Tick
  <2>1. FilesReady' /\ Progress'
    BY <1>1, <1>a DEF Tick, FilesReady, Progress, Backed, CanRead
  <2>2. IndexMatchesFile'
    BY <1>1, <1>a, IndexKept DEF Tick, Rewriting
  <2> QED
    BY <2>1, <2>2
<1>2. CASE PickRegion
  <2>1. FilesReady' /\ Progress'
    BY <1>2, <1>a DEF PickRegion, FilesReady, Progress
  <2>2. IndexMatchesFile'
    BY <1>2, <1>a, IndexKept DEF PickRegion, Rewriting
  <2> QED
    BY <2>1, <2>2
<1>3. CASE CheckExpiry
  <2>1. FilesReady' /\ Progress'
    BY <1>3, <1>a DEF CheckExpiry, GoTo, FilesReady, Progress
  <2>2. IndexMatchesFile'
    BY <1>3, <1>a, IndexKept DEF CheckExpiry, GoTo, Rewriting
  <2> QED
    BY <2>1, <2>2
<1>4. CASE Wake
  <2>1. FilesReady' /\ Progress'
    BY <1>4, <1>a DEF Wake, GoTo, FilesReady, Progress
  <2>2. IndexMatchesFile'
    BY <1>4, <1>a, IndexKept DEF Wake, GoTo, Rewriting
  <2> QED
    BY <2>1, <2>2
<1>5. CASE Downloaded
  <2>1. FilesReady' /\ Progress'
    BY <1>5, <1>a DEF Downloaded, GoTo, FilesReady, Progress
  <2>2. IndexMatchesFile'
    BY <1>5, <1>a, IndexKept DEF Downloaded, GoTo, Rewriting
  <2> QED
    BY <2>1, <2>2
<1>6. CASE DownloadFails
  <2>1. FilesReady' /\ Progress'
    BY <1>6, <1>a DEF DownloadFails, GoTo, FilesReady, Progress
  <2>2. IndexMatchesFile'
    BY <1>6, <1>a, IndexKept DEF DownloadFails, GoTo, Rewriting
  <2> QED
    BY <2>1, <2>2
<1>7. CASE LockRegion
  <2>1. FilesReady' /\ Progress'
    BY <1>7, <1>a DEF LockRegion, GoTo, FilesReady, Progress
  <2>2. IndexMatchesFile'
    BY <1>7, <1>a, IndexKept DEF LockRegion, GoTo, Rewriting
  <2> QED
    BY <2>1, <2>2
<1>8. CASE Catch
  <2>1. FilesReady' /\ Progress'
    BY <1>8, <1>a DEF Catch, GoTo, FilesReady, Progress
  <2>2. IndexMatchesFile'
    BY <1>8, <1>a, IndexKept DEF Catch, GoTo, Rewriting
  <2> QED
    BY <2>1, <2>2
<1>9. CASE SkipSummary
  <2>1. FilesReady' /\ Progress'
    BY <1>9, <1>a DEF SkipSummary, GoTo, FilesReady, Progress
  <2>2. IndexMatchesFile'
    BY <1>9, <1>a, IndexKept DEF SkipSummary, GoTo, Rewriting
  <2> QED
    BY <2>1, <2>2
<1>10. CASE ScanBegin
  <2>1. FilesReady' /\ Progress'
    BY <1>10, <1>a DEF ScanBegin, GoTo, FilesReady, Progress
  <2>2. IndexMatchesFile'
    BY <1>10, <1>a, IndexKept DEF ScanBegin, GoTo, Rewriting
  <2> QED
    BY <2>1, <2>2
<1>11. CASE ScanEnd
  <2>1. FilesReady' /\ Progress'
    BY <1>11, <1>a DEF ScanEnd, GoTo, FilesReady, Progress
  <2>2. IndexMatchesFile'
    BY <1>11, <1>a, IndexKept DEF ScanEnd, GoTo, Rewriting
  <2> QED
    BY <2>1, <2>2
<1>12. CASE SummaryDone
  <2>1. FilesReady' /\ Progress'
    BY <1>12, <1>a DEF SummaryDone, GoTo, FilesReady, Progress
  <2>2. IndexMatchesFile'
    BY <1>12, <1>a, IndexKept DEF SummaryDone, GoTo, Rewriting
  <2> QED
    BY <2>1, <2>2
<1>13. CASE ScanLoad
  <2>0. Scanned \in Regions /\ fs \in [Regions -> Stream]
    BY <1>13, <1>a, <1>b DEF ScanLoad, Control, TypeOK
  <2>1. FilesReady' /\ Progress'
    BY <1>13, <1>a DEF ScanLoad, FilesReady, Progress
  <2>2. \A r \in Regions : fs'[r].data = fs[r].data /\ (fs'[r].good => fs[r].good)
    BY <1>13, <2>0 DEF ScanLoad, Stream
  <2>3. IndexMatchesFile'
    BY <1>13, <1>a, <2>2, IndexKept DEF ScanLoad, Rewriting
  <2> QED
    BY <2>1, <2>3
<1>14. CASE ScanFails
  <2>0. Scanned \in Regions /\ fs \in [Regions -> Stream]
    BY <1>14, <1>a, <1>b DEF ScanFails, GoTo, Control, TypeOK
  <2>1. FilesReady' /\ Progress'
    BY <1>14, <1>a DEF ScanFails, GoTo, FilesReady, Progress
  <2>2. \A r \in Regions : fs'[r].data = fs[r].data /\ (fs'[r].good => fs[r].good)
    BY <1>14, <2>0 DEF ScanFails, GoTo, Stream
  <2>3. IndexMatchesFile'
    BY <1>14, <1>a, <2>2, IndexKept DEF ScanFails, GoTo, Rewriting
  <2> QED
    BY <2>1, <2>3
<1>15. CASE ClearEntries
  <2>1. FilesReady' /\ Progress'
    BY <1>15, <1>a, <1>b DEF ClearEntries, GoTo, FilesReady, Progress, TypeOK
  <2>2. IndexMatchesFile'
    BY <1>15, <1>a, <1>b, IndexKept DEF ClearEntries, GoTo, Rewriting, TypeOK
  <2> QED
    BY <2>1, <2>2
<1>16. CASE OpenFile
  <2>1. FilesReady'
    BY <1>16, <1>a DEF OpenFile, GoTo, FilesReady
  <2>2. entries'[next] = <<>> /\ fs'[next] = [good |-> TRUE, data |-> <<>>, pos |-> 0]
    BY <1>16, <1>a, <1>b DEF OpenFile, GoTo, Progress, TypeOK
  <2>3. Progress'
    BY <1>16, <2>2 DEF OpenFile, GoTo, Progress, IdsIn, Backed
  <2>4. IndexMatchesFile'
    BY <1>16, <1>a, <1>b, IndexKept DEF OpenFile, GoTo, Rewriting, TypeOK
  <2> QED
    BY <2>1, <2>3, <2>4
<1>17. CASE DirectoryFails
  <2>1. FilesReady' /\ Progress'
    BY <1>17 DEF DirectoryFails, Unwind, GoTo, FilesReady, Progress
  <2>2. next \in Regions /\ entries'[next] = <<>>
    BY <1>17, <1>a, <1>b DEF DirectoryFails, Unwind, GoTo, Progress
  <2>a. PICK u \in Regions : u = next
    BY <2>2
  <2>3. Holds(u, Nothing)'
    BY <2>2, <2>a DEF Holds, Nothing, IsSorted, IdsIn, Backed
  <2>4. IndexMatchesFile'
    BY <1>17, <1>a, <2>2, <2>a, <2>3, IndexKept
       DEF DirectoryFails, Unwind, GoTo, Rewriting
  <2> QED
    BY <2>1, <2>4
<1>18. CASE OpenFails
  <2>1. FilesReady' /\ Progress'
    BY <1>18 DEF OpenFails, Unwind, GoTo, FilesReady, Progress
  <2>2. next \in Regions /\ entries'[next] = <<>>
    BY <1>18, <1>a, <1>b DEF OpenFails, Unwind, GoTo, Progress
  <2>a. PICK u \in Regions : u = next
    BY <2>2
  <2>3. Holds(u, Nothing)'
    BY <2>2, <2>a DEF Holds, Nothing, IsSorted, IdsIn, Backed
  <2>4. \A r \in Regions : r # next => fs'[r] = fs[r] /\ entries'[r] = entries[r]
    BY <1>18, <2>2, <1>a DEF OpenFails, Unwind, TypeOK
  <2>5. IndexMatchesFile'
    BY <1>18, <1>a, <2>2, <2>a, <2>3, <2>4, IndexKept
       DEF OpenFails, Unwind, GoTo, Rewriting
  <2> QED
    BY <2>1, <2>5
<1>19. ASSUME NEW id \in Ids, WriteEntry(id) PROVE FilesReady' /\ Progress' /\ IndexMatchesFile'
  <2>1. FilesReady'
    BY <1>19, <1>a DEF WriteEntry, FilesReady
  <2>2. next \in Regions
    BY <1>19, <1>b DEF WriteEntry
  <2>3. \A r \in Regions : r # next => fs'[r] = fs[r] /\ entries'[r] = entries[r]
    BY <1>19, <2>2, <1>a DEF WriteEntry, TypeOK
  <2>4. IndexMatchesFile'
    BY <1>19, <1>a, <2>3, IndexKept DEF WriteEntry, Rewriting
  <2> QED
    BY <1>19, <2>1, <2>4, WriteEntryContents
<1>20. CASE SortEntries
  <2>1. FilesReady'
    BY <1>20, <1>a DEF SortEntries, GoTo, FilesReady
  <2>2. \A r \in Regions : r # next => fs'[r] = fs[r] /\ entries'[r] = entries[r]
    BY <1>20, <1>a, <1>b DEF SortEntries, GoTo, TypeOK
  <2>3. IndexMatchesFile'
    BY <1>20, <1>a, <2>2, IndexKept DEF SortEntries, GoTo, Rewriting
  <2> QED
    BY <1>20, <2>1, <2>3, SortContents
<1>21. CASE Complete
  <2>1. FilesReady' /\ Progress'
    BY <1>21 DEF Complete, GoTo, FilesReady, Progress
  <2>2. next \in Regions /\ files \in Snapshots(next) /\ Holds(next, files)
    BY <1>21, <1>a, <1>b DEF Complete, GoTo, FilesReady, Progress, Holds
  <2>a. PICK u \in Regions : u = next
    BY <2>2
  <2>b. PICK d \in Snapshots(u) : d = files
    BY <2>2, <2>a
  <2>3. Holds(u, d)'
    BY <1>21, <2>2, <2>a, <2>b, HoldsKept DEF Complete
  <2>4. IndexMatchesFile'
    BY <1>21, <1>a, <2>a, <2>3, IndexKept DEF Complete, GoTo, Rewriting
  <2> QED
    BY <2>1, <2>4
<1>22. CASE FlushFails
  <2>1. FilesReady' /\ Progress'
    BY <1>22 DEF FlushFails, Unwind, GoTo, FilesReady, Progress
  <2>2. /\ next \in Regions /\ files \in Snapshots(next)
        /\ IsSorted(entries[next]) /\ IdsIn(entries[next]) = DOMAIN files
        /\ entries' = entries /\ ~fs'[next].good
        /\ \A r \in Regions : r # next => fs'[r] = fs[r]
    BY <1>22, <1>a, <1>b DEF FlushFails, Unwind, GoTo, FilesReady, Progress, TypeOK, Stream
  <2>a. PICK u \in Regions : u = next
    BY <2>2
  <2>b. PICK d \in Snapshots(u) : d = files
    BY <2>2, <2>a
  <2>3. Holds(u, d)'
    BY <2>2, <2>a, <2>b DEF Holds
  <2>4. IndexMatchesFile'
    BY <1>22, <1>a, <2>2, <2>a, <2>3, IndexKept DEF FlushFails, Unwind, GoTo, Rewriting
  <2> QED
    BY <2>1, <2>4
<1> QED
  BY <1>1, <1>2, <1>3, <1>4, <1>5, <1>6, <1>7, <1>8, <1>9, <1>10, <1>11, <1>12, <1>13, <1>14,
     <1>15, <1>16, <1>17, <1>18, <1>19, <1>20, <1>21, <1>22
     DEF UpdateThread, UpdateRegion, Summary

\* A handler moves the position of the stream of the region it holds, or breaks
\* the stream; it leaves the rest alone.
LEMMA HandlerSteps ==
  ASSUME TypeOK, Control, Locks, Cursors, NEW h \in Handlers, GetOrders(h) \/ Request(h)
  PROVE  /\ UNCHANGED <<pc, next, files, entries>>
         /\ \A r \in Regions : fs'[r].data = fs[r].data /\ (fs'[r].good => fs[r].good)
         /\ next \in Rewriting => fs'[next] = fs[next]
<1> USE DEF updaterVars, regionVars, handlerVars
<1>1. query[h].region \in Regions /\ fs \in [Regions -> Stream]
  BY DEF TypeOK, Query
<1>2. CASE Find(h) \/ Read(h)
  <2>1. mutex[query[h].region] = h
    BY <1>2 DEF Find, Read, Locks
  <2>2. next \in Rewriting => next \in Regions /\ next # query[h].region
    BY <2>1, <1>1 DEF Locks, Control, Rewriting
  <2>3. UNCHANGED <<pc, next, files, entries>>
    BY <1>2 DEF Find, Read, Return
  <2>4. \/ fs' = fs
        \/ \E p : fs' = [fs EXCEPT ![query[h].region].pos = p]
        \/ fs' = [fs EXCEPT ![query[h].region].good = FALSE]
    BY <1>2 DEF Find, Read, Return
  <2>7. \A r \in Regions : r # query[h].region => fs'[r] = fs[r]
    BY <1>1, <2>4
  <2>8. LET s == fs[query[h].region] IN
        \/ fs'[query[h].region] = s
        \/ \E p : fs'[query[h].region] = [s EXCEPT !.pos = p]
        \/ fs'[query[h].region] = [s EXCEPT !.good = FALSE]
    BY <1>1, <2>4
  <2>5. \A r \in Regions : fs'[r].data = fs[r].data /\ (fs'[r].good => fs[r].good)
    <3>1. fs[query[h].region] \in Stream
      BY <1>1
    <3>2. /\ fs'[query[h].region].data = fs[query[h].region].data
          /\ fs'[query[h].region].good => fs[query[h].region].good
      BY <2>8, <3>1 DEF Stream
    <3> QED
      BY <2>7, <3>2
  <2>6. next \in Rewriting => fs'[next] = fs[next]
    BY <2>2, <2>7
  <2> QED
    BY <2>3, <2>5, <2>6
<1>3. CASE Lock(h) \/ Request(h)
  BY <1>3 DEF Lock, Request, Ask, AskUnknownRegion
<1> QED
  BY <1>2, <1>3 DEF GetOrders

LEMMA StepContents == Contents /\ [Next]_vars => Contents'
<1> SUFFICES ASSUME Contents, [Next]_vars PROVE FilesReady' /\ Progress' /\ IndexMatchesFile'
  BY StepLocking DEF Contents
<1>1. CASE Tick \/ UpdateThread
  BY <1>1, UpdateThreadContents
<1>2. ASSUME NEW h \in Handlers, GetOrders(h) \/ Request(h)
      PROVE  FilesReady' /\ Progress' /\ IndexMatchesFile'
  <2>1. /\ UNCHANGED <<pc, next, files, entries>>
        /\ \A r \in Regions : fs'[r].data = fs[r].data /\ (fs'[r].good => fs[r].good)
        /\ next \in Rewriting => fs'[next] = fs[next]
    BY <1>2, HandlerSteps DEF Contents, Locking
  <2>2. FilesReady'
    BY <2>1 DEF Contents, FilesReady
  <2>3. Progress'
    BY <2>1, ProgressKept DEF Contents
  <2>4. IndexMatchesFile'
    BY <2>1, IndexKept DEF Contents, Rewriting
  <2> QED
    BY <2>2, <2>3, <2>4
<1>3. CASE UNCHANGED vars
  <2>1. UNCHANGED <<pc, next, files, entries, fs>>
    BY <1>3 DEF vars, updaterVars, regionVars
  <2>2. FilesReady' /\ Progress'
    BY <2>1, ProgressKept DEF Contents, FilesReady
  <2>3. IndexMatchesFile'
    BY <2>1, IndexKept DEF Contents, Rewriting
  <2> QED
    BY <2>2, <2>3
<1> QED
  BY <1>1, <1>2, <1>3 DEF Next

LEMMA ContentsAlways == Spec => []Contents
BY InitContents, StepContents, PTL DEF Spec

\* At every moment the index of a region that is not being rewritten is sorted
\* and fits its file, whatever failed before.
THEOREM IndexCorrect == Spec => []IndexMatchesFile
BY ContentsAlways, PTL DEF Contents

-----------------------------------------------------------------------------
(* Answers *)

\* A handler that reads its entry gets all the orders one download had for its id.
LEMMA ReadGivesABlock ==
  ASSUME Contents, NEW h \in Handlers, hpc[h] = "read",
         NEW r \in Regions, r = query[h].region,
         CanRead(fs[r], fs[r].pos, entries[r][cur[h]].count)
  PROVE  /\ cur[h] \in DOMAIN entries[r]
         /\ fs[r].pos = entries[r][cur[h]].start
         /\ \E v \in Versions :
              ReadAt(fs[r].data, fs[r].pos, entries[r][cur[h]].count) = Block(r, query[h].id, v)
<1>1. /\ cur[h] \in DOMAIN entries[r] /\ entries[r][cur[h]].id = query[h].id
      /\ fs[r].pos = entries[r][cur[h]].start
  BY DEF Contents, Locking, Cursors, CanRead
<1>2. r \notin Rewriting
  <2>1. mutex[r] = h
    BY DEF Contents, Locking, Locks
  <2> QED
    BY <2>1 DEF Contents, Locking, Locks
<1>3. PICK d \in Snapshots(r) \cup {Nothing} : Holds(r, d)
  BY <1>2 DEF Contents, IndexMatchesFile
<1>4. query[h].id \in DOMAIN d
  BY <1>1, <1>3 DEF Holds, IdsIn
<1>5. ReadAt(fs[r].data, fs[r].pos, entries[r][cur[h]].count) = d[query[h].id]
  BY <1>1, <1>3 DEF Holds, Backed, CanRead
<1>6. d \in Snapshots(r)
  BY <1>4 DEF Nothing
<1>7. \E v \in Versions : d[query[h].id] = Block(r, query[h].id, v)
  BY <1>4, <1>6, SnapshotParts
<1> QED
  BY <1>1, <1>5, <1>7

LEMMA StepAnswers ==
  ASSUME Contents, AnswerIsOneDownload, [Next]_vars
  PROVE  AnswerIsOneDownload'
<1> USE DEF updaterVars, regionVars, handlerVars
<1>a. TypeOK
  BY DEF Contents, Locking
<1>1. CASE UNCHANGED <<hpc, query, reply>>
  BY <1>1 DEF AnswerIsOneDownload
<1>2. ASSUME NEW h \in Handlers, GetOrders(h) \/ Request(h)
      PROVE  AnswerIsOneDownload'
  <2>1. \A g \in Handlers : g # h => hpc'[g] = hpc[g] /\ query'[g] = query[g] /\ reply'[g] = reply[g]
    BY <1>2, <1>a DEF GetOrders, Request, Lock, Find, Read, Return, Move, Ask, AskUnknownRegion, TypeOK
  <2>2. SUFFICES ASSUME hpc'[h] = "idle", reply'[h].status = "ok"
                 PROVE  \/ reply'[h].orders = <<>>
                        \/ \E v \in Versions :
                             reply'[h].orders = Block(query'[h].region, query'[h].id, v)
    BY <2>1 DEF AnswerIsOneDownload
  <2>3. CASE Find(h)
    <3>1. reply'[h] = Found(<<>>)
      BY <2>2, <2>3, <1>a DEF Find, Return, TypeOK
    <3> QED
      BY <3>1 DEF Found
  <2>4. CASE Read(h)
    <3>1. PICK r \in Regions : r = query[h].region
      BY <1>a DEF TypeOK, Query
    <3>2. /\ hpc[h] = "read" /\ query' = query
          /\ \/ reply'[h] = Failed
             \/ /\ CanRead(fs[r], fs[r].pos, entries[r][cur[h]].count)
                /\ reply'[h] = Found(ReadAt(fs[r].data, fs[r].pos, entries[r][cur[h]].count))
      BY <2>4, <3>1, <1>a DEF Read, Return, TypeOK
    <3>3. reply'[h] # Failed
      BY <2>2 DEF Failed
    <3> QED
      BY <3>1, <3>2, <3>3, ReadGivesABlock DEF Found
  <2>5. CASE Lock(h) \/ Request(h)
    BY <2>2, <2>5, <1>a DEF Lock, Request, Move, Ask, AskUnknownRegion, Failed, TypeOK
  <2> QED
    BY <1>2, <2>3, <2>4, <2>5 DEF GetOrders
<1>3. CASE Tick \/ UpdateThread
  <2>1. UNCHANGED handlerVars
    BY <1>3 DEF Tick, UpdateThread, UpdateRegion, Summary, PickRegion, CheckExpiry, Wake, Downloaded,
         DownloadFails, LockRegion, ClearEntries, OpenFile, DirectoryFails, OpenFails, Unwind, WriteEntry,
         SortEntries, Complete, FlushFails, Catch, SkipSummary, ScanBegin, ScanLoad, ScanFails, ScanEnd,
         SummaryDone
  <2> QED
    BY <1>1, <2>1
<1> QED
  BY <1>1, <1>2, <1>3 DEF Next, vars

\* Every answer is what one download had for the region, type and side asked
\* for, or no orders.
THEOREM AnswersCorrect == Spec => []AnswerIsOneDownload
<1>1. Init => AnswerIsOneDownload
  BY DEF Init, AnswerIsOneDownload, NoReply
<1>2. Contents /\ AnswerIsOneDownload /\ [Next]_vars => AnswerIsOneDownload'
  BY StepAnswers
<1> QED
  BY <1>1, <1>2, ContentsAlways, PTL DEF Spec

-----------------------------------------------------------------------------
(* Steps *)

\* The update thread touches only a region whose mutex it holds.
LEMMA UpdateThreadTouches ==
  ASSUME Locking, Tick \/ UpdateThread, NEW r \in Regions, mutex[r] # Updater
  PROVE  fs'[r] = fs[r] /\ entries'[r] = entries[r]
<1> USE DEF updaterVars, regionVars, handlerVars
<1>1. /\ TypeOK
      /\ pc \in {"clear", "open", "write", "flush"} => next # r
      /\ pc = "scan" => Scanned # r
  BY DEF Locking, Locks, Rewriting, Scanning
<1>2. CASE UNCHANGED <<fs, entries>>
  BY <1>2
<1>3. CASE ClearEntries \/ OpenFile \/ OpenFails \/ FlushFails \/ SortEntries
           \/ \E id \in Ids : WriteEntry(id)
  BY <1>1, <1>3 DEF ClearEntries, OpenFile, OpenFails, FlushFails, Unwind, SortEntries, WriteEntry,
                    GoTo, TypeOK
<1>4. CASE ScanLoad \/ ScanFails
  BY <1>1, <1>4 DEF ScanLoad, ScanFails, GoTo, TypeOK
<1>5. CASE Tick \/ PickRegion \/ CheckExpiry \/ Wake \/ Downloaded \/ DownloadFails \/ LockRegion
           \/ DirectoryFails \/ Complete \/ Catch \/ SkipSummary \/ ScanBegin \/ ScanEnd \/ SummaryDone
  BY <1>2, <1>5 DEF Tick, PickRegion, CheckExpiry, Wake, Downloaded, DownloadFails, LockRegion,
                    DirectoryFails, Unwind, Complete, Catch, SkipSummary, ScanBegin, ScanEnd, SummaryDone
<1> QED
  BY <1>3, <1>4, <1>5 DEF UpdateThread, UpdateRegion, Summary

\* Nobody moves the stream of a region between the seekg and the read of the
\* handler that has it.
THEOREM SeekAndReadAreAtomic == Spec => NothingMovesBetweenSeekAndRead
<1>1. ASSUME Locking, [Next]_vars
      PROVE  \A h \in Handlers :
               LET r == query[h].region
               IN  hpc[h] = "read" /\ hpc'[h] = "read" =>
                     fs'[r] = fs[r] /\ entries'[r] = entries[r]
  <2> SUFFICES ASSUME NEW h \in Handlers, hpc[h] = "read", hpc'[h] = "read",
                      NEW r \in Regions, r = query[h].region
               PROVE  fs'[r] = fs[r] /\ entries'[r] = entries[r]
    BY <1>1 DEF Locking, TypeOK, Query
  <2>1. mutex[r] = h /\ TypeOK
    BY <1>1 DEF Locking, Locks
  <2>2. CASE Tick \/ UpdateThread
    BY <1>1, <2>1, <2>2, UpdateThreadTouches
  <2>3. ASSUME NEW g \in Handlers, GetOrders(g) \/ Request(g)
        PROVE  fs'[r] = fs[r] /\ entries'[r] = entries[r]
    <3>1. CASE Find(g) \/ Read(g)
      <4>1. g # h
        BY <2>1, <3>1 DEF Find, Read, Return, TypeOK
      <4>2. query[g].region # r
        BY <1>1, <2>1, <3>1, <4>1 DEF Find, Read, Locking, Locks
      <4>3. entries' = entries
        BY <3>1 DEF Find, Read, Return
      <4>4. \/ fs' = fs
            \/ \E p : fs' = [fs EXCEPT ![query[g].region].pos = p]
            \/ fs' = [fs EXCEPT ![query[g].region].good = FALSE]
        BY <3>1 DEF Find, Read, Return
      <4> QED
        BY <2>1, <4>2, <4>3, <4>4 DEF TypeOK
    <3>2. CASE Lock(g) \/ Request(g)
      BY <3>2 DEF Lock, Request, Ask, AskUnknownRegion, regionVars
    <3> QED
      BY <2>3, <3>1, <3>2 DEF GetOrders
  <2>4. CASE UNCHANGED vars
    BY <2>4 DEF vars, regionVars
  <2> QED
    BY <1>1, <2>2, <2>3, <2>4 DEF Next
<1> QED
  BY <1>1, LockingAlways, PTL DEF Spec, NothingMovesBetweenSeekAndRead

\* A region changes only while the whole of a new download is at hand, and a
\* broken stream works again only with an empty index and an empty file.
THEOREM ReplacedByDownloadsOnly == Spec => OnlyADownloadReplaces
<1>1. ASSUME Contents, [Next]_vars, NEW r \in Regions
      PROVE  /\ entries'[r] # entries[r] => pc \in {"clear", "write"} /\ files \in Snapshots(r)
             /\ fs'[r].data # fs[r].data => pc \in {"open", "write"} /\ files \in Snapshots(r)
             /\ ~fs[r].good /\ fs'[r].good => entries[r] = <<>> /\ fs'[r].data = <<>>
  <2>a. TypeOK /\ Control /\ Locks /\ Cursors /\ FilesReady /\ Progress
    BY <1>1 DEF Contents, Locking
  <2>b. pc # "loop" => next \in Regions
    BY <2>a DEF Control
  <2>1. CASE ClearEntries \/ SortEntries
    BY <2>1, <2>a, <2>b DEF ClearEntries, SortEntries, GoTo, FilesReady, TypeOK
  <2>2. CASE OpenFile
    BY <2>2, <2>a, <2>b DEF OpenFile, GoTo, FilesReady, Progress, TypeOK
  <2>3. ASSUME NEW id \in Ids, WriteEntry(id)
        PROVE  /\ pc = "write" /\ files \in Snapshots(next) /\ next \in Regions
               /\ r # next => entries'[r] = entries[r] /\ fs'[r] = fs[r]
               /\ fs'[next].good => fs[next].good
    BY <2>3, <2>a, <2>b DEF WriteEntry, FilesReady, TypeOK, Stream
  <2>4. CASE OpenFails \/ FlushFails
    <3>1. UNCHANGED entries /\ next \in Regions /\ pc \in {"open", "flush"}
      BY <2>4, <2>b DEF OpenFails, FlushFails, Unwind, GoTo
    <3>2. r # next => fs'[r] = fs[r]
      BY <2>4, <3>1, <2>a DEF OpenFails, FlushFails, TypeOK
    <3>3. ~fs'[next].good /\ (fs'[next].data # fs[next].data => pc = "open")
      BY <2>4, <3>1, <2>a DEF OpenFails, FlushFails, Unwind, GoTo, TypeOK, Stream
    <3> QED
      BY <3>1, <3>2, <3>3, <2>a DEF FilesReady
  <2>5. CASE ScanLoad \/ ScanFails
    <3>1. Scanned \in Regions
      BY <2>5, <2>a DEF ScanLoad, ScanFails, GoTo, Control, TypeOK, Scanned
    <3>2. fs \in [Regions -> Stream] /\ UNCHANGED entries
      BY <2>5, <2>a DEF ScanLoad, ScanFails, TypeOK
    <3>3. \/ \E p : fs' = [fs EXCEPT ![Scanned].pos = p]
          \/ fs' = [fs EXCEPT ![Scanned].good = FALSE]
      BY <2>5 DEF ScanLoad, ScanFails
    <3>4. r # Scanned => fs'[r] = fs[r]
      BY <3>1, <3>2, <3>3
    <3>5. fs'[Scanned].data = fs[Scanned].data /\ (fs'[Scanned].good => fs[Scanned].good)
      BY <3>1, <3>2, <3>3 DEF Stream
    <3> QED
      BY <3>2, <3>4, <3>5
  <2>6. CASE UNCHANGED <<fs, entries>>
    BY <2>6
  <2>7. CASE Tick \/ PickRegion \/ CheckExpiry \/ Wake \/ Downloaded \/ DownloadFails \/ LockRegion
             \/ DirectoryFails \/ Complete \/ Catch \/ SkipSummary \/ ScanBegin \/ ScanEnd \/ SummaryDone
    BY <2>6, <2>7 DEF Tick, PickRegion, CheckExpiry, Wake, Downloaded, DownloadFails, LockRegion,
                      DirectoryFails, Unwind, Complete, Catch, SkipSummary, ScanBegin, ScanEnd, SummaryDone,
                      regionVars
  <2>8. ASSUME NEW h \in Handlers, GetOrders(h) \/ Request(h)
        PROVE  entries' = entries /\ fs'[r].data = fs[r].data /\ (fs'[r].good => fs[r].good)
    BY <2>8, <2>a, HandlerSteps
  <2>9. CASE UNCHANGED vars
    BY <2>6, <2>9 DEF vars, regionVars
  <2> QED
    BY <1>1, <2>1, <2>2, <2>3, <2>4, <2>5, <2>7, <2>8, <2>9
       DEF Next, UpdateThread, UpdateRegion, Summary
<1>2. Contents /\ [Next]_vars =>
        \A r \in Regions :
          /\ entries'[r] # entries[r] => pc \in {"clear", "write"} /\ files \in Snapshots(r)
          /\ fs'[r].data # fs[r].data => pc \in {"open", "write"} /\ files \in Snapshots(r)
          /\ ~fs[r].good /\ fs'[r].good => entries[r] = <<>> /\ fs'[r].data = <<>>
  BY <1>1
<1> QED
  BY <1>2, ContentsAlways, PTL DEF Spec, OnlyADownloadReplaces

\* No region is asked for upstream before its time is over: the asserts of
\* update_thread_main and update_region never fail.
THEOREM NeverEarly == Spec => []UpdateOnlyWhenExpired
<1>1. Init => UpdateOnlyWhenExpired
  BY DEF Init, UpdateOnlyWhenExpired
<1>2. ASSUME Locking, UpdateOnlyWhenExpired, [Next]_vars PROVE UpdateOnlyWhenExpired'
  <2>a. left \in [Regions -> Nat] /\ (pc # "loop" => next \in Regions)
    BY <1>2 DEF Locking, TypeOK, Control
  <2>1. CASE Tick
    BY <1>2, <2>1, <2>a DEF Tick, UpdateOnlyWhenExpired, updaterVars
  <2>2. CASE CheckExpiry \/ Wake
    <3>1. pc' = "fetch" => left[next] = 0
      BY <2>2, <2>a DEF CheckExpiry, Wake, GoTo
    <3> QED
      BY <2>2, <3>1 DEF CheckExpiry, Wake, GoTo, UpdateOnlyWhenExpired, regionVars
  <2>3. CASE PickRegion \/ Complete \/ Catch \/ Summary
    BY <2>3 DEF PickRegion, Complete, Catch, Summary, SkipSummary, ScanBegin, ScanLoad, ScanFails,
                ScanEnd, SummaryDone, GoTo, UpdateOnlyWhenExpired
  <2>4. CASE Downloaded \/ DownloadFails \/ LockRegion \/ ClearEntries \/ OpenFile \/ DirectoryFails
             \/ OpenFails \/ SortEntries \/ FlushFails \/ \E id \in Ids : WriteEntry(id)
    BY <1>2, <2>4 DEF Downloaded, DownloadFails, LockRegion, ClearEntries, OpenFile, DirectoryFails,
                OpenFails, SortEntries, FlushFails, Unwind, WriteEntry, GoTo, UpdateOnlyWhenExpired, regionVars
  <2>5. ASSUME NEW h \in Handlers, GetOrders(h) \/ Request(h) PROVE UNCHANGED <<pc, next, left>>
    BY <2>5 DEF GetOrders, Request, Lock, Find, Read, Return, Ask, AskUnknownRegion, updaterVars, regionVars
  <2>6. CASE UNCHANGED <<pc, next, left>>
    BY <1>2, <2>6 DEF UpdateOnlyWhenExpired
  <2> QED
    BY <1>2, <2>1, <2>2, <2>3, <2>4, <2>5, <2>6
       DEF Next, UpdateThread, UpdateRegion, vars, updaterVars, regionVars
<1> QED
  BY <1>1, <1>2, LockingAlways, PTL DEF Spec

-----------------------------------------------------------------------------
(* What a region answers *)

\* An index without duplicates answers for each of its ids from the one entry
\* that has it.
LEMMA VisibleEntry ==
  ASSUME NEW r \in Regions, entries[r] \in Seq(Entry), IsSorted(entries[r]),
         NEW i \in DOMAIN entries[r]
  PROVE  LET e == entries[r][i]
         IN  /\ e.id \in DOMAIN Visible(r)
             /\ Visible(r)[e.id] = IF CanRead(fs[r], e.start, e.count)
                                   THEN Found(ReadAt(fs[r].data, e.start, e.count))
                                   ELSE Failed
<1> DEFINE index == entries[r]
           e == index[i]
           f == CHOOSE x \in {index[j] : j \in DOMAIN index} : x.id = e.id
<1>1. f \in {index[j] : j \in DOMAIN index} /\ f.id = e.id
  OBVIOUS
<1>2. PICK j \in DOMAIN index : f = index[j]
  BY <1>1
<1>3. index[i].id \in Int /\ index[j].id \in Int /\ i \in Int /\ j \in Int
  <2>1. index[i] \in Entry /\ index[j] \in Entry /\ i \in Int /\ j \in Int
    OBVIOUS
  <2> QED
    BY <2>1 DEF Entry
<1>4. ~(i < j) /\ ~(j < i)
  BY <1>1, <1>2, <1>3 DEF IsSorted
<1>5. f = e
  BY <1>2, <1>3, <1>4
<1>6. e.id \in IdsIn(index)
  BY DEF IdsIn
<1>7. Visible(r)[e.id] = IF CanRead(fs[r], f.start, f.count)
                         THEN Found(ReadAt(fs[r].data, f.start, f.count))
                         ELSE Failed
  BY <1>6 DEF Visible
<1>8. e.id \in DOMAIN Visible(r)
  BY <1>6 DEF Visible
<1> QED
  BY <1>5, <1>7, <1>8

\* On a working stream a region that holds the download d answers as d does.
LEMMA VisibleServes ==
  ASSUME NEW r \in Regions, entries[r] \in Seq(Entry), NEW d, Holds(r, d), fs[r].good
  PROVE  Visible(r) = Store!Served(d)
<1>1. IsSorted(entries[r]) /\ IdsIn(entries[r]) = DOMAIN d /\ Backed(r, d)
  BY DEF Holds
<1>2. ASSUME NEW id \in DOMAIN d PROVE Visible(r)[id] = Found(d[id])
  <2>1. PICK i \in DOMAIN entries[r] : entries[r][i].id = id
    BY <1>1 DEF IdsIn
  <2>2. /\ CanRead(fs[r], entries[r][i].start, entries[r][i].count)
        /\ ReadAt(fs[r].data, entries[r][i].start, entries[r][i].count) = d[id]
    BY <1>1, <2>1 DEF Backed
  <2> QED
    BY <1>1, <2>1, <2>2, VisibleEntry
<1>3. Visible(r) = [id \in DOMAIN d |-> Visible(r)[id]]
  BY <1>1 DEF Visible
<1>4. Visible(r) = [id \in DOMAIN d |-> Found(d[id])]
  BY <1>2, <1>3
<1> QED
  BY <1>4 DEF Store!Served, Store!Found, Found

\* On a broken one every id that it holds answers with an error.
LEMMA VisibleBreaks ==
  ASSUME NEW r \in Regions, ~fs[r].good
  PROVE  Visible(r) = [id \in IdsIn(entries[r]) |-> Failed]
BY DEF Visible, CanRead

\* The position of a stream is nothing that a caller can see.
LEMMA VisibleKept ==
  ASSUME NEW r \in Regions, entries'[r] = entries[r],
         fs'[r].data = fs[r].data, fs'[r].good = fs[r].good
  PROVE  Visible(r)' = Visible(r)
BY DEF Visible, CanRead

LEMMA ViewKept ==
  ASSUME Rewriting' = Rewriting,
         \A r \in Regions \ Rewriting :
           entries'[r] = entries[r] /\ fs'[r].data = fs[r].data /\ fs'[r].good = fs[r].good
  PROVE  StoreView' = StoreView
<1>1. \A r \in Regions \ Rewriting : Visible(r)' = Visible(r)
  BY VisibleKept
<1> QED
  BY <1>1 DEF StoreView

\* std::lower_bound misses an id only if a sorted index does not have it.
LEMMA LowerBoundMisses ==
  ASSUME NEW index \in Seq(Entry), IsSorted(index), NEW id \in Ids,
         NEW i \in LowerBounds(index, id), i = Len(index) + 1 \/ index[i].id # id
  PROVE  id \notin IdsIn(index)
<1> SUFFICES ASSUME NEW j \in DOMAIN index PROVE index[j].id # id
  BY DEF IdsIn
<1>1. \A k \in DOMAIN index : index[k].id \in Int
  <2>1. \A k \in DOMAIN index : index[k] \in Entry
    OBVIOUS
  <2> QED
    BY <2>1 DEF Entry
<1>2. /\ i \in 1 .. Len(index) + 1 /\ DOMAIN index = 1 .. Len(index) /\ Len(index) \in Nat
      /\ i > 1 => index[i - 1].id < id
      /\ i <= Len(index) => index[i].id >= id
      /\ id \in Int
  BY DEF LowerBounds
<1>3. CASE j < i
  <2>1. i - 1 \in DOMAIN index /\ (j < i - 1 => index[j].id < index[i - 1].id)
    BY <1>2, <1>3 DEF IsSorted
  <2> QED
    BY <1>1, <1>2, <1>3, <2>1
<1>4. CASE j >= i
  <2>1. i \in DOMAIN index /\ index[i].id # id /\ (i < j => index[i].id < index[j].id)
    BY <1>2, <1>4 DEF IsSorted
  <2> QED
    BY <1>1, <1>2, <1>4, <2>1
<1> QED
  BY <1>2, <1>3, <1>4

-----------------------------------------------------------------------------
(* The store that the cache shows *)

\* OrderStore speaks of the same data.
LEMMA SameData ==
  /\ Store!Regions = Regions /\ Store!Nothing = Nothing
  /\ Store!Failed = Failed /\ Store!NoReply = NoReply
  /\ \A os : Store!Found(os) = Found(os)
  /\ \A r : Store!Snapshots(r) = Snapshots(r)
<1>1. Store!Regions = Regions /\ Store!Nothing = Nothing
  BY DEF Store!Regions, Regions, Store!Nothing, Nothing
<1>2. Store!Failed = Failed /\ Store!NoReply = NoReply /\ \A os : Store!Found(os) = Found(os)
  BY DEF Store!Failed, Failed, Store!NoReply, NoReply, Store!Found, Found
<1>3. \A r : Store!Snapshots(r) = Snapshots(r)
  BY DEF Store!Snapshots, Snapshots, Store!Snapshot, Snapshot, Store!Block, Block
<1> QED
  BY <1>1, <1>2, <1>3

\* Only the region u looks different, and like what `held' says.
LEMMA ViewReplaced ==
  ASSUME NEW u \in Regions, NEW held,
         \A r \in Regions \ {u} :
           /\ r \in Rewriting' <=> r \in Rewriting
           /\ entries'[r] = entries[r] /\ fs'[r].data = fs[r].data /\ fs'[r].good = fs[r].good,
         held = IF u \in Rewriting' THEN Nothing ELSE Visible(u)'
  PROVE  StoreView' = [StoreView EXCEPT ![u] = held]
<1>1. \A r \in Regions \ {u} : Visible(r)' = Visible(r)
  BY VisibleKept
<1>2. ASSUME NEW r \in Regions, r # u PROVE StoreView'[r] = StoreView[r]
  BY <1>1, <1>2 DEF StoreView
<1>3. StoreView'[u] = held
  BY DEF StoreView
<1>4. StoreView  = [r \in Regions |-> StoreView[r]]
  BY DEF StoreView
<1>5. StoreView' = [r \in Regions |-> StoreView'[r]]
  BY DEF StoreView
<1> HIDE DEF StoreView
<1> QED
  BY <1>2, <1>3, <1>4, <1>5

\* A step that changes neither the view, nor the download at hand, nor a reply.
LEMMA Stutter ==
  ASSUME UNCHANGED <<entries, fs, files, reply>>, Rewriting' = Rewriting
  PROVE  UNCHANGED Store!vars
BY ViewKept DEF Store!vars

LEMMA InitStore == Init => Store!Init
<1> SUFFICES ASSUME Init PROVE Store!Init
  OBVIOUS
<1>1. Rewriting = {} /\ files = Nothing /\ reply = [h \in Handlers |-> NoReply]
  BY DEF Init, Rewriting
<1>2. \A r \in Regions : Visible(r) = Nothing
  BY DEF Init, Visible, IdsIn, Nothing
<1>3. StoreView = [r \in Regions |-> Nothing]
  BY <1>1, <1>2 DEF StoreView
<1> QED
  BY <1>1, <1>3, SameData DEF Store!Init

-----------------------------------------------------------------------------
(* The steps of the update thread *)

LEMMA DownloadedStages ==
  ASSUME Contents, Downloaded
  PROVE  \E r \in Regions : \E d \in Store!Snapshots(r) : Store!Stage(d)
<1>1. /\ next \in Regions /\ files' \in Snapshots(next)
      /\ UNCHANGED <<entries, fs, reply>>
      /\ Rewriting = {} /\ Rewriting' = {}
  BY DEF Contents, Locking, Control, Downloaded, GoTo, Rewriting, regionVars, handlerVars
<1>2. StoreView' = StoreView
  BY <1>1, ViewKept
<1>3. Store!Stage(files')
  BY <1>1, <1>2 DEF Store!Stage
<1> QED
  BY <1>1, <1>3, SameData

LEMMA LockRegionBegins ==
  ASSUME Contents, LockRegion
  PROVE  \E r \in Regions : Store!BeginUpdate(r)
<1>1. /\ next \in Regions /\ files \in Snapshots(next) /\ next' = next
      /\ UNCHANGED <<entries, fs, files, reply>>
      /\ Rewriting = {} /\ Rewriting' = {next}
  BY DEF Contents, Locking, Control, FilesReady, LockRegion, GoTo, Rewriting, handlerVars
<1>2. PICK u \in Regions : u = next
  BY <1>1
<1>3. StoreView' = [StoreView EXCEPT ![u] = Nothing]
  BY <1>1, <1>2, ViewReplaced
<1>4. Store!BeginUpdate(u)
  BY <1>1, <1>2, <1>3, SameData DEF Store!BeginUpdate
<1> QED
  BY <1>4

\* An update ends when the lock is released, with the download in the region,
\* nothing in it, or a stream that does not work.
LEMMA UnlockEnds ==
  ASSUME Contents, pc \in {"open", "flush"}, pc' \in {"loop", "catch"},
         files' = Nothing, UNCHANGED <<entries, reply>>,
         \A r \in Regions \ {next} : fs'[r] = fs[r],
         \/ entries[next] = <<>>
         \/ pc = "flush" /\ fs[next].good /\ fs' = fs
         \/ pc = "flush" /\ ~fs'[next].good
  PROVE  \E r \in Regions : Store!EndUpdate(r)
<1>1. /\ TypeOK /\ Progress /\ next \in Regions
      /\ Rewriting = {next} /\ Rewriting' = {}
  BY DEF Contents, Locking, Control, Rewriting
<1>2. PICK u \in Regions : u = next
  BY <1>1
<1>3. entries[u] \in Seq(Entry)
  BY <1>1 DEF TypeOK
<1>4. Visible(u)' \in {Store!Served(files), Store!Nothing, Store!Broken(files)}
  <2>1. CASE entries[next] = <<>>
    <3>1. Visible(u)' = Nothing
      BY <1>2, <2>1 DEF Visible, IdsIn, Nothing
    <3> QED
      BY <3>1, SameData
  <2>2. CASE pc = "flush" /\ fs[next].good /\ fs' = fs
    <3>1. Holds(u, files)
      BY <1>1, <1>2, <2>2 DEF Progress, Holds
    <3>2. Visible(u) = Store!Served(files)
      BY <1>2, <1>3, <2>2, <3>1, VisibleServes
    <3>3. Visible(u)' = Visible(u)
      BY <2>2, VisibleKept
    <3> QED
      BY <3>2, <3>3
  <2>3. CASE pc = "flush" /\ ~fs'[next].good
    <3>1. IdsIn(entries[u]) = DOMAIN files
      BY <1>1, <1>2, <2>3 DEF Progress
    <3>2. Visible(u)' = [id \in DOMAIN files |-> Failed]
      BY <1>2, <2>3, <3>1 DEF Visible, CanRead
    <3>3. Visible(u)' = Store!Broken(files)
      BY <3>2, SameData DEF Store!Broken
    <3> QED
      BY <3>3
  <2> QED
    BY <2>1, <2>2, <2>3
<1>5. PICK held \in {Store!Served(files), Store!Nothing, Store!Broken(files)} : held = Visible(u)'
  BY <1>4
<1>6. StoreView' = [StoreView EXCEPT ![u] = held]
  BY <1>1, <1>2, <1>5, ViewReplaced
<1>7. Store!EndUpdate(u)
  BY <1>1, <1>2, <1>6, SameData DEF Store!EndUpdate
<1> QED
  BY <1>7

\* A failed read breaks a region that answers anything at all, whoever reads.
LEMMA ReadBreaks ==
  ASSUME NEW u \in Regions, u \notin Rewriting, entries[u] \in Seq(Entry), entries[u] # <<>>,
         UNCHANGED <<entries, files>>, Rewriting' = Rewriting,
         fs \in [Regions -> Stream], fs' = [fs EXCEPT ![u].good = FALSE]
  PROVE  Store!Break(u)
<1>1. Rewriting' = Rewriting /\ UNCHANGED <<entries, files>>
  OBVIOUS
<1>2. ~fs'[u].good /\ \A r \in Regions \ {u} : fs'[r] = fs[r]
  BY DEF Stream
<1>3. DOMAIN Visible(u) = IdsIn(entries[u])
  BY DEF Visible
<1>4. StoreView[u] = Visible(u)
  BY DEF StoreView
<1>5. IdsIn(entries[u]) # {}
  <2>1. 1 \in DOMAIN entries[u]
    OBVIOUS
  <2>2. entries[u][1].id \in IdsIn(entries[u])
    BY <2>1 DEF IdsIn
  <2> QED
    BY <2>2
<1>6. StoreView[u] # Store!Nothing
  BY <1>3, <1>4, <1>5, SameData DEF Nothing
<1>7. Visible(u)' = [id \in IdsIn(entries[u]) |-> Failed]
  BY <1>1, <1>2 DEF Visible, CanRead
<1>8. Visible(u)' = Store!Broken(StoreView[u])
  BY <1>3, <1>4, <1>7, SameData DEF Store!Broken
<1>9. PICK held : held = Visible(u)'
  OBVIOUS
<1>10. StoreView' = [StoreView EXCEPT ![u] = held]
  BY <1>1, <1>2, <1>9, ViewReplaced
<1> HIDE DEF StoreView
<1> QED
  BY <1>1, <1>6, <1>8, <1>9, <1>10 DEF Store!Break

LEMMA UpdateThreadImplements ==
  ASSUME Contents, Tick \/ UpdateThread
  PROVE  Store!Next \/ UNCHANGED Store!vars
<1> USE DEF updaterVars, regionVars, handlerVars
<1>a. /\ TypeOK /\ Control /\ Progress
      /\ pc # "loop" => next \in Regions
  BY DEF Contents, Locking, Control
<1>1. CASE Tick \/ PickRegion \/ CheckExpiry \/ Wake \/ DownloadFails \/ Catch
           \/ SkipSummary \/ ScanBegin \/ ScanEnd \/ SummaryDone
  <2>1. UNCHANGED <<entries, fs, files, reply>>
    BY <1>1 DEF Tick, PickRegion, CheckExpiry, Wake, DownloadFails, Catch,
                SkipSummary, ScanBegin, ScanEnd, SummaryDone
  <2>2. Rewriting' = Rewriting
    <3>1. CASE Tick
      BY <3>1 DEF Tick, Rewriting
    <3>2. CASE ~Tick
      BY <1>1, <3>2 DEF PickRegion, CheckExpiry, Wake, DownloadFails, Catch,
                SkipSummary, ScanBegin, ScanEnd, SummaryDone, GoTo, Rewriting
    <3> QED
      BY <3>1, <3>2
  <2> QED
    BY <2>1, <2>2, Stutter
<1>2. CASE Downloaded
  BY <1>2, DownloadedStages, SameData DEF Store!Next
<1>3. CASE LockRegion
  BY <1>3, LockRegionBegins, SameData DEF Store!Next
<1>4. CASE ClearEntries \/ OpenFile \/ SortEntries \/ \E id \in Ids : WriteEntry(id)
  <2>1. /\ UNCHANGED <<files, reply>> /\ next \in Regions
        /\ Rewriting = {next} /\ Rewriting' = {next}
    BY <1>4, <1>a DEF ClearEntries, OpenFile, SortEntries, WriteEntry, GoTo, Rewriting
  <2>2. \A r \in Regions \ Rewriting : entries'[r] = entries[r] /\ fs'[r] = fs[r]
    BY <1>4, <1>a, <2>1 DEF ClearEntries, OpenFile, SortEntries, WriteEntry, TypeOK
  <2> QED
    BY <2>1, <2>2, ViewKept DEF Store!vars
<1>5. CASE DirectoryFails \/ OpenFails \/ Complete \/ FlushFails
  <2>1. /\ pc \in {"open", "flush"} /\ pc' \in {"loop", "catch"}
        /\ files' = Nothing /\ UNCHANGED <<entries, reply>> /\ next \in Regions
    BY <1>5, <1>a DEF DirectoryFails, OpenFails, Complete, FlushFails, Unwind, GoTo
  <2>2. \A r \in Regions \ {next} : fs'[r] = fs[r]
    BY <1>5, <1>a DEF DirectoryFails, OpenFails, Complete, FlushFails, TypeOK
  <2>3. CASE DirectoryFails \/ OpenFails
    <3>1. entries[next] = <<>>
      BY <2>3, <1>a DEF DirectoryFails, OpenFails, Unwind, GoTo, Progress
    <3> QED
      BY <2>1, <2>2, <3>1, UnlockEnds, SameData DEF Store!Next
  <2>4. CASE Complete
    <3>1. pc = "flush" /\ fs[next].good /\ fs' = fs
      BY <2>4 DEF Complete, GoTo
    <3> QED
      BY <2>1, <2>2, <3>1, UnlockEnds, SameData DEF Store!Next
  <2>5. CASE FlushFails
    <3>1. pc = "flush" /\ ~fs'[next].good
      BY <2>1, <2>5, <1>a DEF FlushFails, Unwind, GoTo, TypeOK, Stream
    <3> QED
      BY <2>1, <2>2, <3>1, UnlockEnds, SameData DEF Store!Next
  <2> QED
    BY <1>5, <2>3, <2>4, <2>5
<1>6. CASE ScanLoad \/ ScanFails
  <2>1. /\ UNCHANGED <<entries, files, reply>> /\ Rewriting = {} /\ Rewriting' = {}
        /\ fs \in [Regions -> Stream] /\ scan.i <= Len(entries[Scanned])
    BY <1>6, <1>a DEF ScanLoad, ScanFails, GoTo, Rewriting, TypeOK
  <2>2. Scanned \in Regions
    BY <1>6, <1>a DEF ScanLoad, ScanFails, GoTo, Control, TypeOK, Scanned
  <2>3. PICK u \in Regions : u = Scanned
    BY <2>2
  <2>4. entries[u] \in Seq(Entry)
    BY <1>a DEF TypeOK
  <2>5. CASE ScanLoad
    <3>1. \A r \in Regions : fs'[r].data = fs[r].data /\ fs'[r].good = fs[r].good
      BY <2>1, <2>2, <2>5 DEF ScanLoad, Stream
    <3> QED
      BY <2>1, <3>1, ViewKept DEF Store!vars
  <2>6. CASE ScanFails
    <3>1. fs' = [fs EXCEPT ![u].good = FALSE]
      BY <2>3, <2>6 DEF ScanFails
    <3>2. CASE entries[u] # <<>>
      <4>1. Store!Break(u)
        BY <2>1, <2>4, <3>1, <3>2, ReadBreaks
      <4>2. Store!BreakWhileScanning(u)
        BY <2>1, <4>1 DEF Store!BreakWhileScanning
      <4> QED
        BY <4>2, SameData DEF Store!Next
    <3>3. CASE entries[u] = <<>>
      <4>1. \A r \in Regions \ {u} : fs'[r] = fs[r]
        BY <3>1, <2>1
      <4>2. Visible(u)' = Visible(u)
        BY <2>1, <3>3 DEF Visible, IdsIn
      <4>3. \A r \in Regions : Visible(r)' = Visible(r)
        BY <2>1, <4>1, <4>2, VisibleKept
      <4>4. StoreView' = StoreView
        BY <2>1, <4>3 DEF StoreView
      <4> QED
        BY <2>1, <4>4 DEF Store!vars
    <3> QED
      BY <3>2, <3>3
  <2> QED
    BY <1>6, <2>5, <2>6
<1> QED
  BY <1>1, <1>2, <1>3, <1>4, <1>5, <1>6 DEF UpdateThread, UpdateRegion, Summary

-----------------------------------------------------------------------------
(* The steps of the handlers *)

LEMMA HandlerImplements ==
  ASSUME Contents, NEW h \in Handlers, GetOrders(h) \/ Request(h)
  PROVE  Store!Next \/ UNCHANGED Store!vars
<1> USE DEF updaterVars, regionVars, handlerVars
<1>a. TypeOK /\ Locks /\ Cursors /\ IndexMatchesFile
  BY DEF Contents, Locking
<1>b. PICK u \in Regions : u = query[h].region
  BY <1>a DEF TypeOK, Query
<1>c. PICK id \in Ids : id = query[h].id
  BY <1>a DEF TypeOK, Query
<1>d. /\ entries[u] \in Seq(Entry) /\ fs \in [Regions -> Stream]
      /\ reply \in [Handlers -> Reply]
  BY <1>a DEF TypeOK
<1>1. CASE Lock(h) \/ \E r \in Regions, i \in Ids : Ask(h, r, i)
  BY <1>1, Stutter DEF Lock, Ask, Rewriting
<1>2. CASE AskUnknownRegion(h)
  <2>1. StoreView' = StoreView
    BY <1>2, ViewKept DEF AskUnknownRegion, Rewriting
  <2>2. Store!AnswerUnknownRegion(h)
    BY <1>2, <2>1, SameData DEF AskUnknownRegion, Rewriting, Store!AnswerUnknownRegion
  <2> QED
    BY <2>2 DEF Store!Next
<1>3. CASE Find(h) \/ Read(h)
  <2>1. hpc[h] \in {"find", "read"} /\ UNCHANGED <<pc, next, files, entries>>
    BY <1>3 DEF Find, Read, Return
  <2>2. u \notin Rewriting /\ Rewriting' = Rewriting
    <3>1. mutex[u] = h
      BY <2>1, <1>a, <1>b DEF Locks
    <3>2. Rewriting' = Rewriting
      BY <2>1 DEF Rewriting
    <3> QED
      BY <3>1, <3>2, <1>a DEF Locks
  <2>3. PICK d \in Snapshots(u) \cup {Nothing} : Holds(u, d)
    BY <2>2, <1>a DEF IndexMatchesFile
  <2>4. IsSorted(entries[u]) /\ StoreView[u] = Visible(u) /\ DOMAIN Visible(u) = IdsIn(entries[u])
    BY <2>2, <2>3 DEF Holds, StoreView, Visible
  <2>5. CASE Find(h)
    <3>1. PICK i \in LowerBounds(entries[u], id) :
            IF i = Len(entries[u]) + 1 \/ entries[u][i].id # id
            THEN Return(h, Found(<<>>)) /\ UNCHANGED fs
            ELSE /\ fs' = IF fs[u].good THEN [fs EXCEPT ![u].pos = entries[u][i].start] ELSE fs
                 /\ UNCHANGED <<reply, entries>>
      BY <2>5, <1>b, <1>c DEF Find
    <3>2. CASE i = Len(entries[u]) + 1 \/ entries[u][i].id # id
      <4>1. id \notin IdsIn(entries[u])
        BY <1>d, <2>4, <3>1, <3>2, LowerBoundMisses
      <4>2. reply' = [reply EXCEPT ![h] = Found(<<>>)] /\ StoreView' = StoreView
        BY <2>1, <2>2, <3>1, <3>2, ViewKept DEF Return
      <4>3. Store!Lookup(StoreView[u], id) = Found(<<>>)
        BY <2>4, <4>1, SameData DEF Store!Lookup
      <4>4. Store!Answer(h, u, id)
        BY <2>1, <2>2, <4>2, <4>3 DEF Store!Answer
      <4> QED
        BY <4>4, SameData DEF Store!Next
    <3>3. CASE ~(i = Len(entries[u]) + 1 \/ entries[u][i].id # id)
      <4>a. fs' = fs \/ \E p : fs' = [fs EXCEPT ![u].pos = p]
        BY <3>1, <3>3
      <4>1. \A r \in Regions : fs'[r].data = fs[r].data /\ fs'[r].good = fs[r].good
        <5>1. CASE fs' = fs
          BY <5>1
        <5>2. ASSUME NEW p, fs' = [fs EXCEPT ![u].pos = p]
              PROVE  \A r \in Regions : fs'[r].data = fs[r].data /\ fs'[r].good = fs[r].good
          BY <1>d, <5>2 DEF Stream
        <5> QED
          BY <4>a, <5>1, <5>2
      <4> QED
        BY <2>1, <2>2, <3>1, <3>3, <4>1, ViewKept DEF Store!vars
    <3> QED
      BY <3>2, <3>3
  <2>6. CASE Read(h)
    <3> DEFINE i == cur[h]
               e == entries[u][i]
    <3>1. /\ hpc[h] = "read" /\ i \in DOMAIN entries[u] /\ e.id = id
          /\ fs[u].good => fs[u].pos = e.start
      BY <2>6, <1>a, <1>b, <1>c DEF Read, Cursors
    <3>2. CASE CanRead(fs[u], fs[u].pos, e.count) /\ fs' = [fs EXCEPT ![u].pos = fs[u].pos + e.count]
               /\ Return(h, Found(ReadAt(fs[u].data, fs[u].pos, e.count)))
      <4>1. fs[u].pos = e.start
        BY <3>1, <3>2 DEF CanRead
      <4>2. /\ id \in IdsIn(entries[u])
            /\ Visible(u)[id] = Found(ReadAt(fs[u].data, e.start, e.count))
        BY <1>d, <2>4, <3>1, <3>2, <4>1, VisibleEntry
      <4>3. \A r \in Regions : fs'[r].data = fs[r].data /\ fs'[r].good = fs[r].good
        BY <1>d, <3>2 DEF Stream
      <4>4. StoreView' = StoreView
        BY <2>1, <2>2, <4>3, ViewKept
      <4>5. reply' = [reply EXCEPT ![h] = Store!Lookup(StoreView[u], id)]
        BY <2>4, <3>2, <4>1, <4>2 DEF Return, Store!Lookup
      <4>6. Store!Answer(h, u, id)
        BY <2>1, <2>2, <4>4, <4>5 DEF Store!Answer
      <4> QED
        BY <4>6, SameData DEF Store!Next
    <3>3. CASE fs' = [fs EXCEPT ![u].good = FALSE] /\ Return(h, Failed)
      <4>1. entries[u] # <<>>
        BY <3>1
      <4>2. Store!Break(u)
        BY <1>d, <2>1, <2>2, <3>3, <4>1, ReadBreaks
      <4>3. reply' = [reply EXCEPT ![h] = Store!Failed]
        BY <3>3, SameData DEF Return
      <4>4. Store!BreakWhileReading(h, u)
        BY <4>2, <4>3 DEF Store!BreakWhileReading
      <4> QED
        BY <4>4, SameData DEF Store!Next
    <3> QED
      BY <2>6, <1>b, <3>2, <3>3 DEF Read
  <2> QED
    BY <1>3, <2>5, <2>6
<1> QED
  BY <1>1, <1>2, <1>3 DEF GetOrders, Request

-----------------------------------------------------------------------------
\* The cache is an OrderStore for the threads that call it: every region is
\* replaced, lost or broken as a whole, and each call of get_orders answers with
\* what its region holds at one instant, whatever is rewritten or fails besides.
THEOREM CacheImplementsStore == Spec => ImplementsOrderStore
<1>1. Contents /\ [Next]_vars => [Store!Next]_Store!vars
  <2> SUFFICES ASSUME Contents, [Next]_vars PROVE Store!Next \/ UNCHANGED Store!vars
    OBVIOUS
  <2>1. CASE Tick \/ UpdateThread
    BY <2>1, UpdateThreadImplements
  <2>2. ASSUME NEW h \in Handlers, GetOrders(h) \/ Request(h)
        PROVE  Store!Next \/ UNCHANGED Store!vars
    BY <2>2, HandlerImplements
  <2>3. CASE UNCHANGED vars
    BY <2>3, Stutter DEF vars, updaterVars, regionVars, handlerVars, Rewriting
  <2> QED
    BY <2>1, <2>2, <2>3 DEF Next
<1> QED
  BY <1>1, InitStore, ContentsAlways, PTL DEF Spec, ImplementsOrderStore, Store!Spec

=============================================================================
