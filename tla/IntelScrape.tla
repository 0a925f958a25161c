----------------------------- MODULE IntelScrape -----------------------------
(***************************************************************************)
(* One source of the intelligence scraper (ai/intel_scraper.py) on one     *)
(* day: the timer starts a run twice a day and the intel tool whenever it  *)
(* is called.  A run fetches the items of the source and adds those the    *)
(* file of the day does not hold, by way of a .tmp file that all runs of   *)
(* the day share.  Opening, filling and closing the .tmp file is one step. *)
(***************************************************************************)
EXTENDS Naturals, Sequences, SequencesExt

CONSTANTS Scrapers,     \* runs that may be under way at a time
          Items,        \* what the source publishes in the window it is asked for
          NoFile,
          MaxScrapes    \* bound: runs

VARIABLES published,    \* items the source offers
          dayFile,      \* the items of the file of the day, in order, or NoFile
          tmpFile,      \* those of its .tmp file
          at,           \* where each run is
          items,        \* what it fetched, and then what of it is new
          scrapes       \* runs so far

scrapeVars == <<published, dayFile, tmpFile, at, items, scrapes>>

ScrapeInit ==
    /\ published = {}
    /\ dayFile = NoFile
    /\ tmpFile = NoFile
    /\ at = [s \in Scrapers |-> "idle"]
    /\ items = [s \in Scrapers |-> {}]
    /\ scrapes = 0

Publish(i) ==
    /\ i \notin published
    /\ published' = published \cup {i}
    /\ UNCHANGED <<dayFile, tmpFile, at, items, scrapes>>

\* The source answers with what it offers, or a part of it: every repository is a
\* request of its own, and one that fails gives nothing.
Fetch(s) ==
    /\ at[s] = "idle" /\ scrapes < MaxScrapes
    /\ \E got \in SUBSET published :
         /\ items' = [items EXCEPT ![s] = got]
         /\ at' = [at EXCEPT ![s] = IF got = {} THEN "idle" ELSE "fetched"]
    /\ scrapes' = scrapes + 1
    /\ UNCHANGED <<published, dayFile, tmpFile>>

Held(file) == IF file = NoFile THEN {} ELSE ToSet(file)

\* Without new items the run leaves the file alone.
ReadExisting(s) ==
    /\ at[s] = "fetched"
    /\ LET new == items[s] \ Held(dayFile) IN
         /\ items' = [items EXCEPT ![s] = new]
         /\ at' = [at EXCEPT ![s] = IF new = {} THEN "idle" ELSE "chosen"]
    /\ UNCHANGED <<published, dayFile, tmpFile, scrapes>>

\* The mode of opening the .tmp file is that of the file of the day.
WriteTmp(s) ==
    /\ at[s] = "chosen"
    /\ LET lines == SetToSeq(items[s]) IN
         tmpFile' = IF dayFile # NoFile /\ tmpFile # NoFile THEN tmpFile \o lines ELSE lines
    /\ at' = [at EXCEPT ![s] = "written"]
    /\ UNCHANGED <<published, dayFile, items, scrapes>>

\* os.replace raises when another run has moved the .tmp file already.
ReplaceFile(s) ==
    /\ at[s] = "written"
    /\ dayFile' = IF tmpFile = NoFile THEN dayFile ELSE tmpFile
    /\ tmpFile' = NoFile
    /\ at' = [at EXCEPT ![s] = "idle"]
    /\ items' = [items EXCEPT ![s] = {}]
    /\ UNCHANGED <<published, scrapes>>

ScraperDies(s) ==
    /\ at[s] # "idle"
    /\ at' = [at EXCEPT ![s] = "idle"]
    /\ items' = [items EXCEPT ![s] = {}]
    /\ UNCHANGED <<published, dayFile, tmpFile, scrapes>>

ScrapeNext ==
    \/ \E i \in Items : Publish(i)
    \/ \E s \in Scrapers : \/ Fetch(s) \/ ReadExisting(s) \/ WriteTmp(s)
                           \/ ReplaceFile(s) \/ ScraperDies(s)

ScrapeSpec == ScrapeInit /\ [][ScrapeNext]_scrapeVars

-----------------------------------------------------------------------------

(* "Atomically write items as JSONL (append mode, dedup by url/cve)"        *)
(* (_atomic_write_jsonl): an item that the file of the day holds stays      *)
(* there when a later run adds others.                                      *)
DayFileKeepsItems == [][Held(dayFile) \subseteq Held(dayFile')]_scrapeVars
=============================================================================
