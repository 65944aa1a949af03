# eve-api-proxy: specifications and proofs

TLA+ models of eve-api-proxy, a small HTTP proxy in C++ that downloads EVE
Online market data from CREST and serves it in bulk. Paths below are relative
to `libeve-api-proxy/source/` unless they start elsewhere in the repository.

## 1. The system

| part | state | operations | threads |
|---|---|---|---|
| market order cache, `crest/MarketOrdersCache.*` | per region: index `entries`, one `std::fstream fs`, `expires`, `access_mutex` | `update_thread_main`, `update_region`; `get_orders` for one type and side; `RegionOrders`, a walk over a region under its lock; `exit` | one update thread; all HTTP threads |
| market summary, `crest/MarketSummaryCsv.cpp` | the file, `last_updated`, a mutex | `update`, `fetch` (which nothing calls) | update thread |
| order download, `crest/MarketOrdersAll.cpp` | one call's requests | `get_market_orders_all` | update thread; the client's connections |
| gzip, `Gzip.cpp` | a growing buffer, or a chunk | `gzip_decompress`, two variants | caller's |
| connection pool, `crest/ConnectionPool.cpp` | an external `http::AsyncClient` | `queue`; `exit` is empty | any |
| five percent price, `crest/FivePercentPrice.hpp` | none | `five_percent_price` | caller's |
| server, `Server.cpp`, `eve-api-proxy/source/Main.cpp` | the `crest::Cache` | start, dispatch of a request, stop | main thread; HTTP threads of the external `http::CoreServer` |
| order pages, `pages/BulkMarketOrders.cpp`, `HubPrices.cpp`, `Jita5pSell.cpp`, `lib/Params.cpp` | a half-written page | parameters, several `get_orders`, calls of the JSON writer | HTTP threads |
| history pages, `pages/BulkMarketHistory.cpp` | one page's requests | `http_get_bulk_market_history`, `http_get_bulk_market_history_aggregated` | HTTP threads; the client's connections |
| JSON conversions, logging, strings, URLs, region ids | none worth a model | | |

How they interact: the update thread asks `get_market_orders_all` for one
region after the other. It queues requests with the pool, waits for them and
hands each order to a callback of `update_region`, which files it in memory.
Only then does `update_region` take the region's mutex and rewrite index and
file. HTTP threads meanwhile call `get_orders`, which finds an entry, seeks and
reads, all under the same mutex. At the end of a pass over the regions the
update thread may rewrite the summary, walking over the regions through
`RegionOrders`. A page is written piece by piece while it makes its `get_orders`
calls; exceptions become an HTTP 500 in `Server::handle_request`. The history
pages do not use the cache: they queue one request for each type and region with
the pool, and decompress and combine the answers in the order of the requests.

What is hard to get right and hard to test:

- one stream per region whose position and error bits everybody shares;
- an index and a file that must belong to the same download through every
  failure of the disk or of the network;
- locks whose scope is an object's life, left through exceptions;
- one update thread for 100 regions: a region that fails, a summary, or a
  reader must not stop the others, and the thread must stop when asked to;
- upstream pages that are answered in any order, break off half way, or change in number;
- a response made of several lookups, between which the regions change or break;
- two loops, often nested, that must count alike: sending and collecting requests,
  listing and answering parameters, writing and reading JSON;
- the end of compressed data and the end of a buffer that fall together;
- rounding and unsigned arithmetic in the price.

`PROJECT.json` lists each at its line, with the properties that cover it.

## 2. The modules

| module | models | extends |
|---|---|---|
| `MarketData` | regions, orders, what a download can deliver, the outcome of a call | |
| `OrderStore` | **abstract**: what the cache promises to request threads, with no file, index, mutex or clock | `MarketData` |
| `MarketOrdersCache` | the cache: update thread, request threads, walk over a region, failures | `MarketData`; instantiates `OrderStore` |
| `MarketSummaryCsv` | the summary file on top of the cache | `MarketOrdersCache` |
| `OrderPages` | dispatch and the four pages that read the cache, on top of the abstract store | `OrderStore` |
| `MarketOrdersAll` | the download of one region with an asynchronous client | |
| `GzipDecompress` | both variants of `gzip_decompress` around zlib's `inflate` | |
| `FivePercentPrice` | the price, against a definition that sorts nothing | |
| `BulkMarketHistory` | the two history pages with an asynchronous client | |
| `Lifecycle` | start and stop of the process | |
| `MarketOrdersCacheProofs` | theorems about `MarketOrdersCache`, in three layers | `MarketOrdersCache` |
| `MarketSummaryCsvProofs` | theorems about `MarketSummaryCsv` | `MarketSummaryCsv`, `MarketOrdersCacheProofs` |
| `FoldLemmas` | what sums over finite sets, folds over sequences, flattened sequences and recursive functions compute; its `Op` and `Base` are those of the fold | |
| `OrderPagesProofs`, `FivePercentPriceProofs`, `BulkMarketHistoryProofs` | theorems about the module named | that module; instantiate `FoldLemmas` |
| `MarketOrdersAllProofs`, `GzipDecompressProofs` | theorems about the module named | that module |
| `MCMarketOrdersCache`, `MCMarketSummaryCsv`, `MCOrderPages`, `MCBulkMarketHistory` | values of the constants for TLC | |

How they fit together: `MarketOrdersCache` implements `OrderStore`, which is
proved. `OrderPages` stands on `OrderStore`, so that what it shows holds of pages
served by the cache. `MarketSummaryCsv` adds a file to the cache: its steps are
written as steps of the cache, with what they do to the file. `MarketOrdersAll`
justifies the atomic download of the cache: it gives all orders, in order, or
throws (`AllOrNothing`, `GivenInOrder`). `GzipDecompress` justifies what
`MarketOrdersAll` and `BulkMarketHistory` assume of an answer: it is whole, or
it is an exception.

Operators whose comment starts with "Mutant" are not part of a model. Each is
a definition with a plausible bug, which takes the place of the definition
after it to show that a property notices; `PROJECT.json` says which.

### MarketOrdersCache

`pc` is the update thread's place in `update_thread_main` and `update_region`:
`loop` (top of the loop), `check` (is it due?), `sleep`, `fetch` (in
`get_region_orders`), `lock`, `clear`, `open`, `write`, `flush` (under the
lock), `catch`, and `csv` and `scan` in the summary. `hpc[h]` is a request
thread's place in `get_orders`: `idle`, `lock`, `find`, `read`.

The model is cut finer than the locks: lookup, seek and read are separate steps
inside the critical section, and so are clearing, opening, each write, sorting
and flushing. That the mutex keeps them apart is therefore something the
properties find out, not something the grain of the model assumes.

Abstractions:

- *Orders.* An order is its region, the signed id it is filed under, the
  download it came with and its rank. `NumOrders[v][id]` is how many orders of
  `id` the download `v` has, which may be none; `Snapshot` is all of them. So a part of a
  download is not a download: `OnlyADownloadReplaces` and `AnswerIsOneDownload` tell
  them apart.
- *Offsets* count orders; every byte offset in the code is a multiple of the
  size of an order. `tellp()` of a failed stream is an offset outside any file.
- *Time.* `left[r]` is what is left until `expires`. `Tick` counts it down; a
  thread that is due may be late by any time. The wall clock is not set back.
- *Failures* are those named in `Faults`: a download that throws, a directory
  that cannot be made, an open, a write or flush, or a read that fails. The
  bits of the stream are kept, so that the consequences of a failure come from
  the code.
- *lower_bound* may end at any place that its comparisons allow, and `std::sort`
  gives a sorted permutation: both are exact on a sorted index without
  duplicates, which is what `IndexMatchesFile` shows the index to be.
- A request for an unknown region throws before any lock is taken.

### OrderStore

A region's contents are replaced as a whole or lost as a whole; nobody reads a
region that is being replaced; an answer is what the region holds at one
instant; a region can break, and then answers with errors until replaced. The
refinement mapping is computed: a region shows what its index and stream would
answer for each id (`Visible`), and nothing while it is rewritten.

### MarketSummaryCsv

Each step of the walk in `MarketOrdersCache` (`ScanBegin`, `ScanLoad`, ...) is
taken together with what it does to the file. `os` is the stream of the file
(`bad` after a write that failed, be it the header line), `csvLeft` what is left of the hour. `outcome`
is a history variable for the property about the comment. The file's own mutex
is not modelled: only the update thread ever takes it. That the walk leaves the cache as it
was is not a property here, since the steps are written so; that it holds each region's lock exactly
while it uses the region is `LockedWhileUsed`, of the walk in `MarketOrdersCache`.

### OrderPages

`Check` is the status that dispatch and parameters lead to, with the first
thing wrong deciding; `SetsOf` lists the lookups of a page in the order of the code's
loops. `StartPage`, `LookUp`, `LookUpThrows` and `Respond` take one request through
`handle_request`, one step per `get_orders` call, because each has a lock of its
own; `Refuse` is a request that never gets that far. `Updates` is what the
update thread does to the store between any two of them. `written` holds the
calls made to the JSON writer so far and `response` the last
response; `replies` is a history variable for the properties.

A parameter is a number or not one. A five percent price is written as the
orders that it is computed from; how it is computed is `FivePercentPrice`.
Station, price and volume of an order are constants.

### MarketOrdersAll

`Transmit` and `Complete` stand for the external client and for CREST: requests
are sent when a connection is free and answered in any order with a page, a page
that breaks off after some orders, or a failure. `UpstreamChanges` changes the
number of pages at any time.

### GzipDecompress

Bytes are counted: the k-th byte of the output is the number k. `Results` is the
external `inflate`: given some room it ends, makes progress, or reports an error,
with any part of the input consumed. The trailer of a gzip stream comes after the
last byte of output, so input is left as long as output is missing. `Inflate` and
`Enlarge` are one round of the growing variant, `InflateChunk` one of the
other. The numbers of the code are constants; `Modulus` stands for 2^32. The doubling in
`Enlarge` wraps as the code's does. A capacity that wrapped is no larger than what the
buffer holds, and the next write is past its end: that is undefined in C++, and the model
stops there (`overrun`).

### FivePercentPrice

One step per round of each loop. Prices are whole numbers; the rounding of
`float` and `double` is not modelled. Volumes are not negative.

### BulkMarketHistory

`i` and `j` are the loops over types and regions, `k` the index of the
request, which both the sending and the collecting loop count up by hand.
`Transmit` and `Complete` are as in `MarketOrdersAll`; `aggregated` says which
page it is. Any answer can be broken: the code does not look at the HTTP
status, so whatever does not decompress or parse throws. A history has each of
its dates once. `avg_price` stays the sum of price times volume that the code
divides at the end, so that the model needs no fractions.

### Lifecycle

The main thread through constructor, `run`, `sigwait`, and the destructors in
C++ order; the update thread, which alternates between waiting and updating;
HTTP threads, which are inside the cache or the pool, or idle. Everything from
`Join` on is unreachable in the code as it is; it is there so that a repaired
`update_thread_main` can be checked for what the destructors then do.

## 3. What is checked

| run | instance | shows |
|---|---|---|
| `threads` | 1 region, 2 request threads (symmetric), sell and buy id, 3 downloads with 2 and 1, 1 and 0, 0 and 1 orders, all faults | `IndexMatchesFile`, `AnswerIsOneDownload`, `NothingMovesBetweenSeekAndRead`, `ImplementsOrderStore` |
| `two_regions` | 2 regions, different expiry after success and failure, 1 request thread, all faults, fair | `LockedWhileUsed`, `UpdateOnlyWhenExpired`, `OnlyADownloadReplaces`, `RegionsKeepBeingUpdated`, `CallsReturn`, `BrokenRegionRecovers` |
| `summary` | 2 regions, summary in the other order, all faults | `OnlyWholeSummaryCounts` |
| `summary_comment` | as `summary`, only downloads fail | **violated**: `UpdatedAfterAllRegions` |
| `lifecycle` | 2 request threads, fair | **violated**: `StopsAfterSignal` |
| `pages` | up to 4 upstream pages of 2 orders, 2 connections, fair | `GivenInOrder`, `AllOrNothing`, `NothingLeftWithClient`, `CallEnds` |
| `order_pages` | 12 requests, 2 regions, sell and buy id, 3 downloads with 2 and 2, 1 and 0, 0 and 1 orders | `BulkAnswersEverySet`, `WholePageOrError`, `HubPricesAreBest`, `JitaPricesAreJitas`, `OtherBodiesAreJson` |
| `hub_json` | as `order_pages`, the two hub requests | **violated**: `BodyIsJson` |
| `gzip` | data of up to 4 bytes for up to 12, buffers from 2, chunks of 2, numbers modulo 16, fair | `RoomForTerminator`, `ReturnsTheOutput`, `WholeStreamIsTaken`, `CallEnds` |
| `five_percent` | every list of up to 3 orders, 5 volumes, 3 prices | `PricedIsBestTwentieth`, `LoopBreaksInTime` |
| `history` | 2 types, 2 regions, 2 connections, 2 dates, 2 days, fair | `AggregateIsOfItsType`, `HistoryIsOfItsRequest`, `WholeOrError`, `PageEnds` |
| `history_json` | as `history` | **violated**: `MeanPricesAreNumbers` |

Each passing run also checks the type invariant of its module.

*Bounds.* One region is enough for everything that happens inside a region, as
regions share nothing but the update thread; two let one expire while the
other fails or is rewritten, and let the summary's order differ from the
update's. Two ids give an index that can be out of order, a hit and a miss, and
an offset other than 0; downloads that differ in every id make stale data visible, ids that come and
go included, and two orders of one id let an answer be a part of them. `two_regions` and `summary` have a
single download of one order: what they ask is about locks, time and progress, and an empty file is
enough to tell a part of a download from the whole. Two request threads and the update thread
are all the kinds of neighbours a thread can have. `OkTtl` and `FailTtl` stand
for 300 and 60 seconds: small numbers, so that either may pass while the
update thread is busy elsewhere.

Four upstream pages and two connections let answers overtake each other while
others are still queued. The requests of `order_pages` have both sides, two types,
all regions, an unknown region, a side that is neither `buy` nor `sell`, and six
ways to be refused, among them two errors in one request in either order; the orders at the
hubs have the best price at another station, second in the list, or only
there, and one without volume. One thread serves them: pages share nothing with each other but the
store, whose changes between two lookups the update thread already makes. Its three downloads
let the regions and the ids of one response come from different ones. `hub_json` has one download of
one order, which is enough for its violation.

Data of `gzip` end before, on and after the end of a buffer or a chunk,
and outputs of 7 and more enlarge the buffer more than once. Modulo 16 a capacity of 8 or of 12 wraps
when it is doubled, with outputs on either side of what these can hold. Volumes 0, 1, 19, 20 and 41
lie on and around multiples of twenty. Two types in two regions are the fewest
for which loops nested the other way round differ; two dates let regions share
all, some or none, and one of the two days has no volume.

*Deadlock* is checked everywhere except in `five_percent`, `history`,
`history_json` and `gzip`, as the price, a page and a call come to an end.

*Fairness.* `WF` of the clock, of the update thread and of each request thread:
the operating system schedules them all. That `WF` of the update thread covers
`fetch` means that `get_market_orders_all` returns or throws at last: an assumption about
the client, since `wait()` has no timeout. `MarketOrdersAll` and `BulkMarketHistory` do not make
it: only the call itself is fair there, and `CallEnds` and `PageEnds` say that it ends, or else one
of its own requests stays queued or under way for ever. So the loops of these calls never keep
them from ending, and never wait for a request that was not made. `CallEnds` of `GzipDecompress`
says that its loops end, one thread that waits for nobody.
There is no fairness on requests. `std::mutex` is not fair either, and nothing
stronger than `WF` is assumed of taking one: the liveness properties exclude the behaviours
in which a thread waits for ever for one mutex that other threads keep giving back and
taking (`UpdaterShutOut`, and the second line of `CallsReturn`), and only those. `BrokenRegionRecovers` also excludes those in
which downloads, directories, opens or writes fail again and again (`UpdateFails`):
a region cannot recover without an update that succeeds. Reads may fail as often as
they like. A page is a bounded number of `get_orders` calls, each of which returns
by `CallsReturn`; there is no separate liveness property of `OrderPages`.

### Findings

- `StopsAfterSignal`: the update thread never reads `update_thread_exit`
  (`crest/MarketOrdersCache.cpp:105`), so the join in `exit()` never returns and the
  process does not end, though `main` logs "Stopped". The trace starts where `sigwait` returns. SIGINT
  is not blocked before it, as POSIX wants it to be, so that a signal may also end the process at once;
  a join that is reached never ends.
- `UpdatedAfterAllRegions`: the comment at `crest/MarketOrdersCache.cpp:113` speaks
  of a completed update of all regions; the condition holds after a pass in
  which downloads failed as well.
- `BodyIsJson`: both hub pages open an array (`pages/HubPrices.cpp:39`) and then write
  a key into it for each type (`:43`). `Server.cpp:76` sends the result as
  `application/json`, which it is not. `pages/Jita5pSell.cpp:23` opens an object for
  the same purpose.
- `MeanPricesAreNumbers`: the mean price of a day with no volume in any region is 0/0
  (`pages/BulkMarketHistory.cpp:136`), for which JSON has no number.
  `pages/Jita5pSell.cpp:35` writes null in such a case.

A remark, without a run: `pages/BulkMarketHistory.hpp:18` speaks of a single value
for each type; the aggregated page has one for each type and date, and leaves out
a type that has none.

## 4. What is proved

Each theorem holds for all values of the constants that satisfy the assumptions of
its module. For the cache (`DataAssumption`, `ContentsAssumption`, `CacheAssumption`) that is any number
of regions, ids, request threads, downloads and orders, any expiry times, any order
of the summary and any set of faults.

| module | theorem | says |
|---|---|---|
| `MarketOrdersCacheProofs` | `TypeCorrect` | `Spec => []TypeOK` |
| | `LockingCorrect` | `Spec => []LockedWhileUsed` |
| | `IndexCorrect` | `Spec => []IndexMatchesFile` |
| | `AnswersCorrect` | `Spec => []AnswerIsOneDownload` |
| | `NeverEarly` | `Spec => []UpdateOnlyWhenExpired` |
| | `SeekAndReadAreAtomic` | `Spec => NothingMovesBetweenSeekAndRead` |
| | `ReplacedByDownloadsOnly` | `Spec => OnlyADownloadReplaces` |
| | `CacheImplementsStore` | `Spec => ImplementsOrderStore` |
| `MarketSummaryCsvProofs` | `CsvTypeCorrect` | `CsvSpec => []CsvTypeOK` |
| | `WholeSummariesCount` | `CsvSpec => OnlyWholeSummaryCounts` |
| `MarketOrdersAllProofs` | `TypeCorrect` | `Spec => []TypeOK` |
| | `OrderCorrect` | `Spec => []GivenInOrder` |
| | `AllOrNothingCorrect` | `Spec => []AllOrNothing` |
| | `NothingLeftCorrect` | `Spec => []NothingLeftWithClient` |
| `BulkMarketHistoryProofs` | `TypeCorrect` | `Spec => []TypeOK` |
| | `RequestsCorrect` | `Spec => []HistoryIsOfItsRequest` |
| | `WholeCorrect` | `Spec => []WholeOrError` |
| | `AggregateCorrect` | `Spec => []AggregateIsOfItsType` |
| `OrderPagesProofs` | `PagesInvariant` | `PagesSpec => []PagesInv` |
| | `PagesTypeCorrect` | `PagesSpec => []PagesTypeOK` |
| | `PagesAreWholeOrErrors` | `PagesSpec => []WholePageOrError` |
| | `OtherBodiesAreWellFormed` | `PagesSpec => []OtherBodiesAreJson` |
| | `BulkAnswersAreWhole` | `PagesSpec => []BulkAnswersEverySet` |
| | `HubPricesAreTheBest` | `PagesSpec => []HubPricesAreBest` |
| | `JitaPricesAreOfJita` | `PagesSpec => []JitaPricesAreJitas` |
| `FivePercentPriceProofs` | `PriceTypeCorrect` | `Spec => []TypeOK` |
| | `LoopEndsAtBreak` | `Spec => []LoopBreaksInTime` |
| | `PriceIsOfBestTwentieth` | `Spec => []PricedIsBestTwentieth` |
| `GzipDecompressProofs` | `TypeCorrect` | `Spec => []TypeOK` |
| | `RoomCorrect` | `Spec => []RoomForTerminator` |
| | `OutputCorrect` | `Spec => []ReturnsTheOutput` |
| | `WholeStreamsCorrect` | `Spec => []WholeStreamIsTaken` |

### The cache

The argument has three layers.

*Locking.* `LockedWhileUsed` says of each region which thread is inside. It is
not inductive alone: that `next` is a region wherever the update thread
uses it, and that the walk's region exists, follows from where `pc` is
(`Control`), and that a reader's position is inside the index follows from the
index not changing under it (`Cursors`). Mutual exclusion is proved in the form
`Locks`, which says of each thread that it holds the mutex of the region it is
in, and of each mutex that its holder is inside. `Locking` is `TypeOK` with
these three.

*Contents.* On top of `Locking`, `Contents` says what each region's index and
file are. Regions that are not being rewritten hold one download, or nothing
(`IndexMatchesFile`). The one being rewritten is described step by step by
`Progress`: after k writes the entries written so far are backed by the file,
as long as the stream works, and the file ends where the next entry will start.
`FilesReady` says that `files` is a download of the region from the moment the
download ended. Each step of the update thread then moves `Progress` on by one entry;
each step of another thread leaves it alone because of `Locking`.

From `Contents` a successful read after the seek returns exactly the orders that one
download has for the id (`ReadGivesABlock`).

*Refinement.* Under `Contents` every step is one of `OrderStore`, or changes
nothing that it shows. `VisibleServes`, `VisibleEntry` and `LowerBoundMisses` say
what a lookup in a region gives: its download's orders, and nothing for an id that
it does not have. A download that returns is `Stage`; taking the region's lock is
`BeginUpdate`; every way of giving it back, exceptions included, is `EndUpdate`
with the whole download, nothing, or errors (`UnlockEnds`); a call that misses or
reads its entry is `Answer`; a failed read is `Break` (`ReadBreaks`), a
stutter only if the region has no ids at all.

### The summary

The steps of the summary are those of the cache with the file hidden (`CsvStep`, which follows
from how they are written). So `Locking` holds here as well (`CsvLocking`), and with
it: while the update thread walks over a region nobody else changes the region's index or
data. `Walked` says what the open file has while the stream is good: all rows of the
regions passed (`Done`), the first rows of the one under the walk
(`Partly`), and nothing of those to come (`Absent`). `CsvAssumption`, that the
summary's order has each region once, is needed for the last. When the walk is over
and the file is closed, every region is `Done`.

### The download

`Position` ties the two loops' counter to the pages, `Requested` says which requests
the client may have in each phase, and `Given` that the callback has had exactly the orders
of the pages taken so far, in order (`Covers`): `NextPage` adds a page to
that. `Whole` says that a page which parsed has all its orders; any other throws.

### The history pages

`Index(a, b)` is the place of the request for the a-th type and the b-th region;
`Counting` has the arithmetic of it: the next region is the next index, the
first region of the next type follows the last of this one, and no two places share an
index. `Position` says that `k`, which both loops count up by hand, is
`Index(i, j)`. From it follow `Addressed` (each request asks for the type and region of
its place), `Taken` (the requests before `k` were answered whole) and `Copied`
(the page has their histories). The client's steps touch only requests that are not
done, which none of the three speaks of.

### gzip

`Loops` says that `inflate` wrote one run of bytes from the beginning (`First`) and
that the buffer is enlarged only when all but one of its bytes are used, so that a
capacity is what was made plus one when it is doubled. Nothing is assumed of the output. The
doubling wraps exactly when the capacity is at least half of `Modulus` (`WrapOnce`), which is
when as many bytes less one have been made; the wrapped capacity is then no more than what the buffer
holds (`Overran`). The code has no check for it, and data of at most 8 MiB can in theory decompress to
that much: `RoomCorrect` says that nothing less does. `WholeStreamIsTaken` rests on what `Results` says of the trailer.

### The order pages

The theorems hold for any requests that the dispatch can be given, and whatever the update
thread does between two lookups. `PagesAssumption` says what a request is, that each hub's
region exists, and that prices and volumes are whole numbers.

`StoreInv` is what a page needs to know of the store: a region that serves, and a
download that is staged, hold for each id the orders of one download (`Holds`). `UpdatesKeep`
shows it of every step of the update thread, and `GetOrdersReplies` that a lookup
therefore replies with one download's orders, with none, or with an error.

`HandlerInv` has one case for each place where a request thread can be: `Writing`,
`Done`, `Threw` or `Unserved`. It speaks of one thread only, so that a step of another
thread keeps it (`OneHandler`). Its core is `Writes(q, rs, w)`: what has been written, `w`,
is what the page of `q` writes after the replies `rs` to the lookups made so far (`Replied`).
There is one such formula for each kind of page: `BulkSoFar`, `HubSoFar` and `JitaSoFar`, and
`JsonSoFar` for all of them but the hubs'; and each has one lemma that the next reply leads
to the next formula (`BulkNext`, `HubNext`, `JitaNext`).

- *Bulk.* `ProductIs` says which set stands at a place of the flattened nested
  loops. The property counts the sets by division instead; `NestedPlace` and `ProductAsked`
  show that the two agree.
- *Hubs.* `NextIsBest` is one round of the loop over the orders, and `BestIsBest` the
  loop. `CallAdds` says what one call of the writer adds to the members of the last key, so that
  the hubs' prices are found under the key of their type whatever was missing before.
- *Jita.* `AtJitaFilters` says that the loop collects each order at Jita once, and
  `UnitsAreZero` that the sum of volumes is zero for the collected sequence exactly if it is for the
  set of orders: either may be zero because all volumes are, and then the page has a null.

### The price

`PriceInv` says that after k orders the totals are those of the first k orders, and in the second
loop, that what was taken is all the volume of the orders passed. At the break one
order is taken in part, those before it wholly and those behind it not at all (`EndsAt`). The
orders are sorted by then, so that a price is bought up before a worse one is touched
(`BetterIsBoughtUp`, `LastIsInPart`, `WorseIsLeft`). So the sum over orders is a sum over
prices (`TakenIs`, `CostIs`), which is the reference definition. `LoopBreaksInTime`
follows from the volume needed being at most the total. `PriceAssumption` wants the set of prices finite, since the reference sums over it.

### The aggregated history

`Merged` is the invariant: the days under construction are `Aggregate` of the answers
already taken for the i-th type, and the body has the types before it. `MergeIsAggregate`
is one more answer; it goes through by `Counting` of the history pages, which says that these
answers are at consecutive places. `AggregateIsOfItsType` speaks of the place of a type parameter,
so a type that is named twice is covered.

### Sums and folds

`FoldLemmas` has what the above needs of sequences, least and greatest elements, and folds. The
library's induction theorems take an operator, which the provers cannot instantiate, so induction
is stated with sets: a set of naturals that has 0 and with each number the next is `Nat`
(`NatSets`), proved from the least element of its complement; the same for finite sets
(`FiniteSubsets`). An operator that is folded is a constant of the module (`Op`, `Base`) and each
use an `INSTANCE` of its own: `Takes` for JSON, `AddVolume` for volumes, and so on. A
function defined by recursion exists, and so meets its definition, by `Recursion`.

### Only model-checked

Every invariant and every action property of the passing runs is a theorem, and so is the
refinement. What TLC alone checks is liveness: that regions keep being updated, that calls
return, that a broken region recovers and that a download, a history page and a decompression end.
The prover has no rule for fairness and `ENABLED`. The properties that the code violates
(Findings) are TLC's as well, and so is `Lifecycle`, which is there for its finding.

## 5. What is not modelled

Everything that decides, waits, locks, fails or counts on the way from CREST to a
response is in one of the modules. Left out, with the reason:

- `MarketSummaryCsv::fetch`: nothing in the repository calls it. The volumes and
  mean prices in a row of the summary: floating point.
- Floating point in prices and averages; the models use whole numbers and sums.
- Input of 4 GiB or more to `gzip_decompress`, whose length the cast in `Gzip.cpp:101` would cut
  (`MaxLen < Modulus`), and what happens after its buffer is overrun.
- What a call of `get_market_orders_all` or a history page that throws leaves with the client: that
  depends on the destructor of the external `http::AsyncRequest`. `NothingLeftWithClient` speaks of calls
  that return.
- The conversion of fields to and from JSON (`crest/JsonHelpers.hpp`, `crest/MarketOrderSlim.hpp`, `model/*`), URLs, logs
  and string helpers: no state, and the conversions have tests in the repository.
  `model/MarketOrder.hpp` is not used by any page.
- The HTTP, JSON and zlib libraries, which are not part of the repository. They are
  modelled from how they are used: `Transmit` and `Complete`, the writer's calls
  in `OrderPages`, and `Results`. The client's limit on requests per second is left out.
- The status of an upstream answer, which no caller looks at; what matters is whether
  its body decompresses and parses.
- The names of JSON keys: a type that a request to the hub or Jita pages names twice gives
  a key twice, which `IsJson` does not look at (the prices of both are covered). A negative
  type id asks the cache for the other side, as in the code; the properties follow its sign.
- The memory of zlib's state, which the chunk variant of `gzip_decompress` does not give
  back when it throws.
- Initialisation of the libraries, signals other than SIGINT's effect in `Lifecycle`, and
  Windows paths.
