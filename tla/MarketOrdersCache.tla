-------------------------- MODULE MarketOrdersCache --------------------------
(***************************************************************************)
(* crest::MarketOrdersCache: one update thread that downloads the orders   *)
(* of every region in turn and rewrites the region's file and index, and   *)
(* the HTTP threads that look orders up in them.                           *)
(*                                                                         *)
(* A region is an index (entries), one std::fstream (fs) whose position    *)
(* and error bits every user of the region shares, an expiry time and a    *)
(* mutex.  Each thread is cut into steps wherever another thread may act:  *)
(* at every lock, and inside the critical sections too, so that it is the  *)
(* mutex and not the grain of the model that keeps the threads apart.      *)
(*                                                                         *)
(* File offsets count orders instead of bytes (every offset in the code is *)
(* a multiple of sizeof(MarketOrderSlim)).  Times are kept as what is left *)
(* of them: left[r] is max(0, expires - time(nullptr)), which is all that  *)
(* the code's comparisons use.                                             *)
(***************************************************************************)
EXTENDS MarketData

CONSTANTS
  Handlers,     \* the HTTP server's threads
  Updater,      \* the thread of update_thread_main
  Free,         \* the owner of an unlocked mutex
  CsvOrder,     \* the regions in the order of EVE_REGION_IDS
  OkTtl,        \* the 300 seconds an updated region is kept
  FailTtl,      \* the 60 seconds before a failed region is due again
  Faults        \* the failures of the environment that may happen

ASSUME CacheAssumption ==
  /\ Updater \notin Handlers
  /\ Free \notin Handlers \cup {Updater}
  /\ CsvOrder \in Seq(Regions)
  /\ OkTtl \in Nat /\ FailTtl \in Nat
  /\ Faults \subseteq {"download", "directory", "open", "write", "read"}

VARIABLES
  pc,        \* where update_thread_main is
  next,      \* update_next; NumRegions + 1 is regions.end()
  files,     \* `files' of update_region: id -> downloaded orders
  scan,      \* the summary's walk: k regions done, entry i of the next one
  entries,   \* entries[r]: the index of region r
  fs,        \* fs[r]: the stream of region r
  left,      \* left[r]: seconds until region r expires
  mutex,     \* mutex[r]: the thread that holds access_mutex of region r
  hpc,       \* where each handler is in get_orders
  query,     \* the arguments of its call
  cur,       \* `entry' of its call, as a position in the region's entries
  reply      \* the outcome of its last call

updaterVars == <<pc, next, files, scan>>
regionVars  == <<entries, fs, left, mutex>>
handlerVars == <<hpc, query, cur, reply>>
vars == <<updaterVars, regionVars, handlerVars>>

Entry  == [id : Ids, start : Int, count : Nat]
Stream == [good : BOOLEAN, data : Seq(Order), pos : Int]
Query  == [region : Regions, id : Ids]

\* tellp() of a failed stream is -1, cast to unsigned: an offset past any file.
BadStart == -1

IdsIn(index) == {index[i].id : i \in DOMAIN index}

\* n orders read at the position p, and whether the file has that many.
ReadAt(data, p, n)    == [k \in 1 .. n |-> data[p + k]]
CanRead(stream, p, n) == stream.good /\ p >= 0 /\ p + n <= Len(stream.data)

\* Where std::lower_bound can end for id: a place with smaller ids before it
\* and no smaller id after it.  There is exactly one if the index is sorted.
LowerBounds(index, id) ==
  {i \in 1 .. Len(index) + 1 :
     /\ i > 1 => index[i - 1].id < id
     /\ i <= Len(index) => index[i].id >= id}

IsSorted(index) ==
  \A i, j \in DOMAIN index : i < j => index[i].id < index[j].id

\* What std::sort makes of an index without duplicates.
SortedForms(index) ==
  {s \in [DOMAIN index -> {index[i] : i \in DOMAIN index}] :
     IsSorted(s) /\ IdsIn(s) = IdsIn(index)}

Init ==
  /\ pc = "loop" /\ next = 1 /\ files = Nothing
  /\ scan = [k |-> 0, i |-> 0]
  /\ entries = [r \in Regions |-> <<>>]
  /\ fs = [r \in Regions |-> [good |-> TRUE, data |-> <<>>, pos |-> 0]]
  /\ left = [r \in Regions |-> 0]
  /\ mutex = [r \in Regions |-> Free]
  /\ hpc = [h \in Handlers |-> "idle"]
  /\ query \in [Handlers -> {[region |-> 1, id |-> id] : id \in Ids}]
  /\ cur = [h \in Handlers |-> 0]
  /\ reply = [h \in Handlers |-> NoReply]

-----------------------------------------------------------------------------
(* Time *)

Tick ==
  /\ \E r \in Regions : left[r] > 0
  /\ left' = [r \in Regions |-> IF left[r] > 0 THEN left[r] - 1 ELSE 0]
  /\ UNCHANGED <<updaterVars, entries, fs, mutex, handlerVars>>

-----------------------------------------------------------------------------
(* update_thread_main *)

GoTo(from, to) == pc = from /\ pc' = to

\* The top of the loop.  Past the last region it starts over, and calls
\* update_market_summary_csv if the first region is not due yet.
PickRegion ==
  /\ pc = "loop"
  /\ IF next <= NumRegions
     THEN pc' = "check" /\ UNCHANGED next
     ELSE /\ next' = 1
          /\ pc' = IF left[1] > 0 THEN "csv" ELSE "check"
  /\ UNCHANGED <<files, scan, regionVars, handlerVars>>

\* Mutant: the wait for the region's expiry is forgotten.
CheckNothing ==
  /\ GoTo("check", "fetch")
  /\ UNCHANGED <<next, files, scan, regionVars, handlerVars>>

CheckExpiry ==
  /\ GoTo("check", IF left[next] > 0 THEN "sleep" ELSE "fetch")
  /\ UNCHANGED <<next, files, scan, regionVars, handlerVars>>

Wake ==
  /\ GoTo("sleep", "fetch")
  /\ left[next] = 0
  /\ UNCHANGED <<next, files, scan, regionVars, handlerVars>>

-----------------------------------------------------------------------------
(* update_region *)

\* get_region_orders returns: every order has been filed.
Downloaded ==
  /\ GoTo("fetch", "lock")
  /\ files' \in Snapshots(next)
  /\ UNCHANGED <<next, scan, regionVars, handlerVars>>

\* Mutant: a download that breaks off goes on with the orders filed by then.
DownloadBreaksOff ==
  /\ "download" \in Faults
  /\ GoTo("fetch", "lock")
  /\ \E whole \in Snapshots(next) : \E D \in SUBSET DOMAIN whole :
        files' = [id \in D |-> whole[id]]
  /\ UNCHANGED <<next, scan, regionVars, handlerVars>>

\* get_region_orders throws: whatever was filed is discarded.
DownloadFails ==
  /\ "download" \in Faults
  /\ GoTo("fetch", "catch")
  /\ UNCHANGED <<next, files, scan, regionVars, handlerVars>>

\* Mutant: the lock of update_region is forgotten.
LockRegionNever ==
  /\ GoTo("lock", "clear")
  /\ UNCHANGED <<next, files, scan, regionVars, handlerVars>>

LockRegion ==
  /\ GoTo("lock", "clear")
  /\ mutex[next] = Free
  /\ mutex' = [mutex EXCEPT ![next] = Updater]
  /\ UNCHANGED <<next, files, scan, entries, fs, left, handlerVars>>

ClearEntries ==
  /\ GoTo("clear", "open")
  /\ entries' = [entries EXCEPT ![next] = <<>>]
  /\ UNCHANGED <<next, files, scan, fs, left, mutex, handlerVars>>

\* An exception under the lock: the unwinding destroys lock and files, and only
\* then is the handler of the exception reached.
Unwind(at) ==
  /\ GoTo(at, "catch")
  /\ files' = Nothing
  /\ mutex' = [mutex EXCEPT ![next] = Free]
  /\ UNCHANGED <<next, scan, entries, left, handlerVars>>

\* Mutant: open() truncates the file but leaves the error bits set.
OpenFileKeepsErrors ==
  /\ GoTo("open", "write")
  /\ fs' = [fs EXCEPT ![next].data = <<>>, ![next].pos = 0]
  /\ UNCHANGED <<next, files, scan, entries, left, mutex, handlerVars>>

\* The stream is closed and opened again, which truncates the file and clears
\* the error bits.
OpenFile ==
  /\ GoTo("open", "write")
  /\ fs' = [fs EXCEPT ![next] = [good |-> TRUE, data |-> <<>>, pos |-> 0]]
  /\ UNCHANGED <<next, files, scan, entries, left, mutex, handlerVars>>

DirectoryFails ==
  /\ "directory" \in Faults
  /\ Unwind("open")
  /\ UNCHANGED fs

OpenFails ==
  /\ "open" \in Faults
  /\ Unwind("open")
  /\ fs' = [fs EXCEPT ![next] = [good |-> FALSE, data |-> <<>>, pos |-> 0]]

\* One round of the loop over files, whose order the hash table decides.  A
\* write that fails sets the stream's error bits and the loop goes on.
WriteEntry(id) ==
  /\ pc = "write"
  /\ id \in DOMAIN files \ IdsIn(entries[next])
  /\ LET stream == fs[next]
         start  == IF stream.good THEN stream.pos ELSE BadStart
         entry  == [id |-> id, start |-> start, count |-> Len(files[id])]
         done   == [stream EXCEPT !.data = @ \o files[id],
                                  !.pos = Len(stream.data) + Len(files[id])]
         broken == [stream EXCEPT !.good = FALSE]
     IN  /\ entries' = [entries EXCEPT ![next] = Append(@, entry)]
         /\ \/ stream.good /\ fs' = [fs EXCEPT ![next] = done]
            \/ "write" \in Faults /\ stream.good /\ fs' = [fs EXCEPT ![next] = broken]
            \/ ~stream.good /\ UNCHANGED fs
  /\ UNCHANGED <<pc, next, files, scan, left, mutex, handlerVars>>

\* Mutant: the index stays in the order of the hash table.
SortNothing ==
  /\ GoTo("write", "flush")
  /\ DOMAIN files = IdsIn(entries[next])
  /\ UNCHANGED <<next, files, scan, regionVars, handlerVars>>

SortEntries ==
  /\ GoTo("write", "flush")
  /\ DOMAIN files = IdsIn(entries[next])
  /\ \E sorted \in SortedForms(entries[next]) :
        entries' = [entries EXCEPT ![next] = sorted]
  /\ UNCHANGED <<next, files, scan, fs, left, mutex, handlerVars>>

\* The flush succeeds on a good stream: the region is kept for OkTtl.
Complete ==
  /\ GoTo("flush", "loop")
  /\ fs[next].good
  /\ left' = [left EXCEPT ![next] = OkTtl]
  /\ mutex' = [mutex EXCEPT ![next] = Free]
  /\ files' = Nothing
  /\ next' = next + 1
  /\ UNCHANGED <<scan, entries, fs, handlerVars>>

FlushFails ==
  /\ Unwind("flush")
  /\ ~fs[next].good \/ "write" \in Faults
  /\ fs' = [fs EXCEPT ![next].good = FALSE]

\* Mutants: the exception handler moves on as well as the loop, or neither does.
CatchSkips ==
  /\ GoTo("catch", "loop")
  /\ left' = [left EXCEPT ![next] = FailTtl]
  /\ next' = next + 2
  /\ UNCHANGED <<files, scan, entries, fs, mutex, handlerVars>>

CatchStays ==
  /\ GoTo("catch", "loop")
  /\ left' = [left EXCEPT ![next] = FailTtl]
  /\ UNCHANGED <<next, files, scan, entries, fs, mutex, handlerVars>>

Catch ==
  /\ GoTo("catch", "loop")
  /\ left' = [left EXCEPT ![next] = FailTtl]
  /\ next' = next + 1
  /\ UNCHANGED <<files, scan, entries, fs, mutex, handlerVars>>

-----------------------------------------------------------------------------
(* The summary's walk over the regions, through RegionOrders and its iterator.
   RegionOrders holds the region's mutex from its construction to its end. *)

Scanned == CsvOrder[scan.k + 1]

\* The summary is fresh, or its file cannot be opened.
SkipSummary ==
  /\ scan.k = 0
  /\ GoTo("csv", "check")
  /\ UNCHANGED <<next, files, scan, regionVars, handlerVars>>

ScanBegin ==
  /\ scan.k < Len(CsvOrder)
  /\ GoTo("csv", "scan")
  /\ mutex[Scanned] = Free
  /\ mutex' = [mutex EXCEPT ![Scanned] = Updater]
  /\ scan' = [scan EXCEPT !.i = 1]
  /\ UNCHANGED <<next, files, entries, fs, left, handlerVars>>

\* iterator::load on an entry: seekg, then read.
ScanLoad ==
  /\ pc = "scan"
  /\ scan.i <= Len(entries[Scanned])
  /\ LET e == entries[Scanned][scan.i]
     IN  /\ CanRead(fs[Scanned], e.start, e.count)
         /\ fs' = [fs EXCEPT ![Scanned].pos = e.start + e.count]
  /\ scan' = [scan EXCEPT !.i = @ + 1]
  /\ UNCHANGED <<pc, next, files, entries, left, mutex, handlerVars>>

\* Mutant: the exception leaves the region locked.
ScanFailsLocked ==
  /\ GoTo("scan", "check")
  /\ scan.i <= Len(entries[Scanned])
  /\ LET e == entries[Scanned][scan.i]
     IN  "read" \in Faults \/ ~CanRead(fs[Scanned], e.start, e.count)
  /\ fs' = [fs EXCEPT ![Scanned].good = FALSE]
  /\ scan' = [k |-> 0, i |-> 0]
  /\ UNCHANGED <<next, files, entries, left, mutex, handlerVars>>

\* A short read throws out of the walk; the stream keeps its error bits.
ScanFails ==
  /\ GoTo("scan", "check")
  /\ scan.i <= Len(entries[Scanned])
  /\ LET e == entries[Scanned][scan.i]
     IN  "read" \in Faults \/ ~CanRead(fs[Scanned], e.start, e.count)
  /\ fs' = [fs EXCEPT ![Scanned].good = FALSE]
  /\ mutex' = [mutex EXCEPT ![Scanned] = Free]
  /\ scan' = [k |-> 0, i |-> 0]
  /\ UNCHANGED <<next, files, entries, left, handlerVars>>

ScanEnd ==
  /\ GoTo("scan", "csv")
  /\ scan.i > Len(entries[Scanned])
  /\ mutex' = [mutex EXCEPT ![Scanned] = Free]
  /\ scan' = [k |-> scan.k + 1, i |-> 0]
  /\ UNCHANGED <<next, files, entries, fs, left, handlerVars>>

SummaryDone ==
  /\ scan.k = Len(CsvOrder)
  /\ GoTo("csv", "check")
  /\ scan' = [k |-> 0, i |-> 0]
  /\ UNCHANGED <<next, files, regionVars, handlerVars>>

-----------------------------------------------------------------------------
(* get_orders(region_id, type_id, buy) in an HTTP thread *)

Move(h, from, to) == hpc[h] = from /\ hpc' = [hpc EXCEPT ![h] = to]

Ask(h, r, id) ==
  /\ Move(h, "idle", "lock")
  /\ query' = [query EXCEPT ![h] = [region |-> r, id |-> id]]
  /\ UNCHANGED <<cur, reply, updaterVars, regionVars>>

\* regions.find fails: no lock is taken.
AskUnknownRegion(h) ==
  /\ hpc[h] = "idle"
  /\ reply' = [reply EXCEPT ![h] = Failed]
  /\ UNCHANGED <<hpc, query, cur, updaterVars, regionVars>>

\* Mutants: the lock is forgotten, or only taken once the region has orders.
LockNever(h) ==
  /\ Move(h, "lock", "find")
  /\ UNCHANGED <<query, cur, reply, updaterVars, regionVars>>

LockOnceLoaded(h) ==
  LET r == query[h].region
  IN  /\ Move(h, "lock", "find")
      /\ mutex[r] = Free /\ entries[r] # <<>>
      /\ mutex' = [mutex EXCEPT ![r] = h]
      /\ UNCHANGED <<query, cur, reply, updaterVars, entries, fs, left>>

Lock(h) ==
  LET r == query[h].region
  IN  /\ Move(h, "lock", "find")
      /\ mutex[r] = Free
      /\ mutex' = [mutex EXCEPT ![r] = h]
      /\ UNCHANGED <<query, cur, reply, updaterVars, entries, fs, left>>

\* The outcome is stored and the lock goes out of scope.
Return(h, outcome) ==
  /\ hpc' = [hpc EXCEPT ![h] = "idle"]
  /\ cur' = [cur EXCEPT ![h] = 0]
  /\ reply' = [reply EXCEPT ![h] = outcome]
  /\ mutex' = [mutex EXCEPT ![query[h].region] = Free]
  /\ UNCHANGED <<query, updaterVars, entries, left>>

\* Mutant: lower_bound's entry is taken for the entry of the id.
FindAnyEntry(h) ==
  LET r == query[h].region
      index == entries[r]
  IN  /\ hpc[h] = "find"
      /\ \E i \in LowerBounds(index, query[h].id) :
           IF i = Len(index) + 1
           THEN Return(h, Found(<<>>)) /\ UNCHANGED fs
           ELSE /\ hpc' = [hpc EXCEPT ![h] = "read"]
                /\ cur' = [cur EXCEPT ![h] = i]
                /\ fs' = IF fs[r].good THEN [fs EXCEPT ![r].pos = index[i].start]
                                       ELSE fs
                /\ UNCHANGED <<query, reply, updaterVars, entries, left, mutex>>

Find(h) ==
  LET r == query[h].region
      index == entries[r]
  IN  /\ hpc[h] = "find"
      /\ \E i \in LowerBounds(index, query[h].id) :
           IF i = Len(index) + 1 \/ index[i].id # query[h].id
           THEN Return(h, Found(<<>>)) /\ UNCHANGED fs
           ELSE /\ hpc' = [hpc EXCEPT ![h] = "read"]
                /\ cur' = [cur EXCEPT ![h] = i]
                /\ fs' = IF fs[r].good THEN [fs EXCEPT ![r].pos = index[i].start]
                                       ELSE fs
                /\ UNCHANGED <<query, reply, updaterVars, entries, left, mutex>>

Read(h) ==
  LET r == query[h].region
      n == entries[r][cur[h]].count
      p == fs[r].pos
  IN  /\ hpc[h] = "read"
      /\ \/ /\ CanRead(fs[r], p, n)
            /\ fs' = [fs EXCEPT ![r].pos = p + n]
            /\ Return(h, Found(ReadAt(fs[r].data, p, n)))
         \/ /\ ~CanRead(fs[r], p, n) \/ "read" \in Faults
            /\ fs' = [fs EXCEPT ![r].good = FALSE]
            /\ Return(h, Failed)

-----------------------------------------------------------------------------
UpdateRegion ==
  \/ Downloaded \/ DownloadFails \/ LockRegion \/ ClearEntries
  \/ OpenFile \/ DirectoryFails \/ OpenFails
  \/ \E id \in Ids : WriteEntry(id)
  \/ SortEntries \/ Complete \/ FlushFails \/ Catch

Summary == SkipSummary \/ ScanBegin \/ ScanLoad \/ ScanFails \/ ScanEnd \/ SummaryDone

UpdateThread == PickRegion \/ CheckExpiry \/ Wake \/ UpdateRegion \/ Summary

GetOrders(h) == Lock(h) \/ Find(h) \/ Read(h)

Request(h) == AskUnknownRegion(h) \/ \E r \in Regions, id \in Ids : Ask(h, r, id)

Next == Tick \/ UpdateThread \/ \E h \in Handlers : GetOrders(h) \/ Request(h)

Spec == Init /\ [][Next]_vars

\* Time passes, and every thread that can move is scheduled.  Nothing is
\* assumed of a mutex that others keep taking, nor that requests arrive.
Fairness ==
  /\ WF_vars(Tick)
  /\ WF_vars(UpdateThread)
  /\ \A h \in Handlers : WF_vars(GetOrders(h))

FairSpec == Spec /\ Fairness

-----------------------------------------------------------------------------
(* Properties *)

UpdateLabels  == {"loop", "check", "sleep", "fetch", "lock", "clear", "open",
                  "write", "flush", "catch", "csv", "scan"}
HandlerLabels == {"idle", "lock", "find", "read"}

\* The type invariant.
TypeOK ==
  /\ pc \in UpdateLabels
  /\ next \in 1 .. NumRegions + 1
  /\ DOMAIN files \subseteq Ids /\ files \in [DOMAIN files -> Seq(Order)]
  /\ scan \in [k : 0 .. Len(CsvOrder), i : Nat]
  /\ entries \in [Regions -> Seq(Entry)]
  /\ fs \in [Regions -> Stream]
  /\ left \in [Regions -> Nat]
  /\ mutex \in [Regions -> Handlers \cup {Updater, Free}]
  /\ hpc \in [Handlers -> HandlerLabels]
  /\ query \in [Handlers -> Query]
  /\ cur \in [Handlers -> Nat]
  /\ reply \in [Handlers -> Reply]

\* The region whose entries and file update_region is replacing.
Rewriting == IF pc \in {"clear", "open", "write", "flush"} THEN {next} ELSE {}
Scanning  == IF pc = "scan" THEN {Scanned} ELSE {}

\* The threads inside a critical section of region r.
Inside(r) ==
  {h \in Handlers : hpc[h] \in {"find", "read"} /\ query[h].region = r}
    \cup (IF r \in Rewriting \cup Scanning THEN {Updater} ELSE {})

\* A region is used by one thread at a time, and its mutex is held exactly
\* while it is: no early return, exception or abandoned iterator of get_orders,
\* update_region or the summary leaves it locked.
LockedWhileUsed ==
  \A r \in Regions : Inside(r) = {mutex[r]} \ {Free}

\* Behind every entry of region r are the orders that d has for its id.
Backed(r, d) ==
  \A i \in DOMAIN entries[r] :
    LET e == entries[r][i]
    IN  /\ CanRead(fs[r], e.start, e.count)
        /\ ReadAt(fs[r].data, e.start, e.count) = d[e.id]

\* The index and the file of region r are those of the one download d: the ids
\* in order, and as long as the stream works, their orders.
Holds(r, d) ==
  /\ IsSorted(entries[r])
  /\ IdsIn(entries[r]) = DOMAIN d
  /\ fs[r].good => Backed(r, d)

\* Whenever update_region is not at work on a region, its index and its file are
\* those of one whole download, or the index is empty, whatever failed before:
\* never the index of one download over the file of another, never an unsorted
\* or half-written index, never a part of a download.
IndexMatchesFile ==
  \A r \in Regions \ Rewriting : \E d \in Snapshots(r) \cup {Nothing} : Holds(r, d)

\* What get_orders returns are all the orders that one download had for the
\* region, type and side asked for, in the order downloaded, or no orders:
\* never those of another id, of two downloads, or a part of them.
AnswerIsOneDownload ==
  \A h \in Handlers : hpc[h] = "idle" /\ reply[h].status = "ok" =>
    \/ reply[h].orders = <<>>
    \/ \E v \in Versions : reply[h].orders = Block(query[h].region, query[h].id, v)

\* The asserts of update_thread_main and update_region: a region is asked for
\* upstream only once what is left of its 300 or 60 seconds is over.
UpdateOnlyWhenExpired ==
  pc \in {"fetch", "lock", "clear", "open", "write", "flush", "catch"} =>
    left[next] = 0

\* Between the seekg and the read of a get_orders call nobody moves the
\* region's stream, writes to its file or changes its index.
NothingMovesBetweenSeekAndRead ==
  [][\A h \in Handlers :
       LET r == query[h].region
       IN  hpc[h] = "read" /\ hpc'[h] = "read" =>
             fs'[r] = fs[r] /\ entries'[r] = entries[r]]_vars

\* A failed download costs nothing: a region's index and file change only once
\* all the orders of one download have been filed, and a region that has lost
\* its stream gets it back only with a new file and an index that started empty.
OnlyADownloadReplaces ==
  [][\A r \in Regions :
       /\ entries'[r] # entries[r] => pc \in {"clear", "write"} /\ files \in Snapshots(r)
       /\ fs'[r].data # fs[r].data => pc \in {"open", "write"} /\ files \in Snapshots(r)
       /\ ~fs[r].good /\ fs'[r].good => entries[r] = <<>> /\ fs'[r].data = <<>>]_vars

\* What a region that is not being rewritten answers for each of its ids: the
\* orders its index points at, or an error if the stream does not give them.
Visible(r) ==
  [id \in IdsIn(entries[r]) |->
     LET e == CHOOSE x \in {entries[r][i] : i \in DOMAIN entries[r]} : x.id = id
     IN  IF CanRead(fs[r], e.start, e.count)
         THEN Found(ReadAt(fs[r].data, e.start, e.count))
         ELSE Failed]

\* The store that the threads which serve requests see.
StoreView == [r \in Regions |-> IF r \in Rewriting THEN Nothing ELSE Visible(r)]

Store == INSTANCE OrderStore WITH
  store <- StoreView, staged <- files, updating <- Rewriting

\* Every get_orders call returns what its region held at one instant of the
\* call, and each region is replaced as a whole.
ImplementsOrderStore == Store!Spec

\* Threads that keep giving the mutex of a region back and taking it again may
\* shut the others out for ever: std::mutex promises no order.
KeepsTaking(threads, r) == []<>(mutex[r] \in threads) /\ []<>(mutex[r] = Free)

UpdaterWaits(r) ==
  \/ pc = "lock" /\ next = r
  \/ pc = "csv" /\ scan.k < Len(CsvOrder) /\ Scanned = r

\* The update thread waits for ever for a mutex that handlers keep taking.
UpdaterShutOut == \E r \in Regions : <>[]UpdaterWaits(r) /\ KeepsTaking(Handlers, r)

\* Every region is asked for upstream again and again, whichever downloads,
\* files or summaries fail, unless handlers keep the update thread waiting for
\* one and the same mutex for ever.
RegionsKeepBeingUpdated ==
  (\A r \in Regions : []<>(pc = "fetch" /\ next = r)) \/ UpdaterShutOut

\* A call of get_orders returns, unless other threads keep taking the very mutex
\* it waits for.
CallsReturn ==
  \A h \in Handlers :
    \/ []<>(hpc[h] = "idle")
    \/ \E r \in Regions : /\ <>[](hpc[h] = "lock" /\ query[h].region = r)
                         /\ KeepsTaking((Handlers \ {h}) \cup {Updater}, r)

\* What makes an update fail, other than a stream that was bad before it.
UpdateFails ==
  \/ DownloadFails \/ DirectoryFails \/ OpenFails
  \/ pc \in {"write", "flush"} /\ fs[next].good /\ ~fs'[next].good

\* A stream with error bits, which nothing clears and which makes every answer
\* of its region fail, works again after a later update, unless downloads, files
\* and writes go on failing for ever.
BrokenRegionRecovers ==
  \/ []<><<UpdateFails>>_vars
  \/ \A r \in Regions : ~fs[r].good ~> fs[r].good
  \/ UpdaterShutOut

=============================================================================
