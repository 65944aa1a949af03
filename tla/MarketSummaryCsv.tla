-------------------------- MODULE MarketSummaryCsv --------------------------
(***************************************************************************)
(* crest::update_market_summary_csv: now and then the update thread of the *)
(* cache writes one row per region, type and side to a CSV file.           *)
(*                                                                         *)
(* The module adds the file, its stream and the time of its last update to *)
(* MarketOrdersCache, and to each step of the summary's walk what it does  *)
(* to them.  A row is its region, its id and the orders it is computed     *)
(* from; volumes and prices are not computed here.                         *)
(*                                                                         *)
(* The mutex of this file is not modelled: the update thread is the only   *)
(* one that uses it, as nothing calls get_market_summary_csv.              *)
(***************************************************************************)
EXTENDS MarketOrdersCache

CONSTANT CsvTtl   \* CACHE_TIME, an hour

\* EVE_REGION_IDS has every region of the cache, and has it once.
ASSUME CsvAssumption ==
  /\ CsvTtl \in Nat
  /\ \A r \in Regions : \E k \in DOMAIN CsvOrder : CsvOrder[k] = r
  /\ \A j, k \in DOMAIN CsvOrder : CsvOrder[j] = CsvOrder[k] => j = k

VARIABLES
  csv,       \* the rows in the file
  os,        \* the stream: "closed", "good", or "bad" after a failed write
  csvLeft,   \* max(0, last_updated + CACHE_TIME - time(nullptr))
  outcome    \* history: how the last update of each region ended

csvVars == <<csv, os, csvLeft, outcome>>
allVars == <<vars, csvVars>>

Row(r, e, orders) == [region |-> r, id |-> e.id, orders |-> orders]

CsvInit ==
  /\ Init
  /\ csv = <<>> /\ os = "closed" /\ csvLeft = 0
  /\ outcome = [r \in Regions |-> "none"]

-----------------------------------------------------------------------------
TimePasses ==
  /\ csvLeft > 0 \/ \E r \in Regions : left[r] > 0
  /\ left' = [r \in Regions |-> IF left[r] > 0 THEN left[r] - 1 ELSE 0]
  /\ csvLeft' = IF csvLeft > 0 THEN csvLeft - 1 ELSE 0
  /\ UNCHANGED <<updaterVars, entries, fs, mutex, handlerVars, csv, os, outcome>>

\* The hour is not over, or the file cannot be opened (and is left alone).
Skip ==
  /\ SkipSummary
  /\ os = "closed"
  /\ csvLeft > 0 \/ Faults \cap {"directory", "open"} # {}
  /\ UNCHANGED csvVars

\* The file is opened, which truncates it, and its header line written.
OpenCsv ==
  /\ pc = "csv" /\ os = "closed" /\ csvLeft = 0
  /\ \/ os' = "good"
     \/ "write" \in Faults /\ os' = "bad"
  /\ csv' = <<>>
  /\ UNCHANGED <<vars, csvLeft, outcome>>

BeginRegion == ScanBegin /\ os # "closed" /\ UNCHANGED csvVars
EndRegion   == ScanEnd /\ UNCHANGED csvVars

\* A row goes to the file, or the write fails; the rows after a failed one are
\* computed all the same, and lost.
WriteRow ==
  /\ ScanLoad
  /\ LET e == entries[Scanned][scan.i]
     IN  \/ /\ os = "good"
            /\ csv' = Append(csv, Row(Scanned, e, ReadAt(fs[Scanned].data, e.start, e.count)))
            /\ UNCHANGED os
         \/ os = "good" /\ "write" \in Faults /\ os' = "bad" /\ UNCHANGED csv
         \/ os = "bad" /\ UNCHANGED <<csv, os>>
  /\ UNCHANGED <<csvLeft, outcome>>

\* Mutant: the file of an abandoned walk stays open.
AbandonOpenCsv == ScanFails /\ UNCHANGED csvVars

\* The exception of a region that cannot be read ends the update.
AbandonCsv == ScanFails /\ os' = "closed" /\ UNCHANGED <<csv, csvLeft, outcome>>

\* Mutant: the check of the stream after the last row is forgotten.
CloseCsvUnchecked ==
  /\ SummaryDone /\ os # "closed"
  /\ os' = "closed" /\ csvLeft' = CsvTtl
  /\ UNCHANGED <<csv, outcome>>

CloseCsv ==
  /\ SummaryDone /\ os # "closed"
  /\ os' = "closed"
  /\ csvLeft' = IF os = "good" THEN CsvTtl ELSE csvLeft
  /\ UNCHANGED <<csv, outcome>>

\* What the update thread does to the regions, with its outcome noted.
Updating ==
  /\ PickRegion \/ CheckExpiry \/ Wake \/ UpdateRegion
  /\ outcome' = CASE pc = "flush" /\ pc' = "loop" -> [outcome EXCEPT ![next] = "updated"]
                  [] pc = "catch"                 -> [outcome EXCEPT ![next] = "failed"]
                  [] OTHER                        -> outcome
  /\ UNCHANGED <<csv, os, csvLeft>>

Serving == \E h \in Handlers : (GetOrders(h) \/ Request(h)) /\ UNCHANGED csvVars

CsvNext ==
  \/ TimePasses \/ Updating \/ Serving
  \/ Skip \/ OpenCsv \/ BeginRegion \/ WriteRow \/ EndRegion \/ AbandonCsv \/ CloseCsv

CsvSpec == CsvInit /\ [][CsvNext]_allVars

-----------------------------------------------------------------------------
(* Properties *)

\* The type invariant; and the file is open only while the walk lasts, however
\* the walk ends.
CsvTypeOK ==
  /\ csv \in Seq([region : Regions, id : Ids, orders : Seq(Order)])
  /\ os \in {"closed", "good", "bad"}
  /\ csvLeft \in Nat
  /\ outcome \in [Regions -> {"none", "updated", "failed"}]
  /\ os # "closed" => pc \in {"csv", "scan"}

\* The row a reader of region r would compute now from its entry i.
RowHeld(r, i) ==
  LET e == entries[r][i]
  IN  Row(r, e, ReadAt(fs[r].data, e.start, e.count))

\* The rows of r are in one block, which follows its first p rows, and are those
\* of its first n entries.
Listed(r, rows, p, n) ==
  \A m \in DOMAIN rows :
    IF m > p /\ m <= p + n THEN rows[m] = RowHeld(r, m - p) ELSE rows[m].region # r

\* The summary counts as updated for the next hour only if its file has every
\* row of every region, region by region as the cache holds them at that
\* moment: not after an abandoned walk or a write that failed on the way.
OnlyWholeSummaryCounts ==
  [][csvLeft' > csvLeft =>
       \A r \in Regions :
         \E p \in 0 .. Len(csv') - Len(entries[r]) : Listed(r, csv', p, Len(entries[r]))]_allVars

\* What the comment in update_thread_main says: the summary is updated after a
\* completed update of all regions.
UpdatedAfterAllRegions ==
  os # "closed" => \A r \in Regions : outcome[r] = "updated"

=============================================================================
