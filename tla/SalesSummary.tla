---------------------------- MODULE SalesSummary ----------------------------
(***************************************************************************)
(* simulate_materialized_views: a fact table of sales, a materialized view   *)
(* of it that is recomputed, and a summary table that is brought forward by  *)
(* the rows above a watermark.  A sale is its id; the two derived tables are *)
(* the sales they count.                                                    *)
(***************************************************************************)
EXTENDS Integers, FiniteSets, FiniteSetsExt

CONSTANTS Writer,
          Refresher,   \* sessions that run incrementalRefresh
          MaxSales,    \* bound: ids handed out
          MaxAborts    \* bound: refreshes cut short

Sale == 1..MaxSales

VARIABLES
    sales,      \* committed rows of sales
    saleSeq,    \* the last id of the identity column
    inserting,  \* per writer: the ids of its INSERT that has not committed
    mv,         \* daily_sales_mv
    refresh,    \* the open REFRESH: none, plain or concurrent, and its result
    agg,        \* daily_sales_agg: how often each sale has been added
    watermark,  \* agg_watermark.last_id
    merger,     \* per session: stage of incrementalRefresh, from, to, rows to add
    overtaken,  \* history: sales whose INSERT was open when a MERGE passed their id
    aborts

salesVars == <<sales, saleSeq, inserting, mv, refresh, agg, watermark, merger, overtaken, aborts>>
facts == <<sales, saleSeq, inserting>>
summary == <<agg, watermark, merger, overtaken, aborts>>

NoRefresh == [mode |-> "none", rows |-> {}]
NotMerging == [at |-> "idle", from |-> 0, to |-> 0, rows |-> {}]

Init ==
    /\ sales = {} /\ saleSeq = 0 /\ inserting = [w \in Writer |-> {}]
    /\ mv = {} /\ refresh = NoRefresh
    /\ agg = [s \in Sale |-> 0] /\ watermark = 0
    /\ merger = [r \in Refresher |-> NotMerging]
    /\ overtaken = {} /\ aborts = 0

(***************************************************************************)
(* insertSales and the writer of periodicRefresh: one INSERT ... SELECT.     *)
(***************************************************************************)
\* The statement takes its ids as it runs.
InsertSales(w, n) ==
    /\ inserting[w] = {} /\ saleSeq + n <= MaxSales
    /\ saleSeq' = saleSeq + n
    /\ inserting' = [inserting EXCEPT ![w] = saleSeq + 1..saleSeq + n]
    /\ UNCHANGED <<sales, mv, refresh, summary>>

CommitSales(w) ==
    /\ inserting[w] # {}
    /\ sales' = sales \cup inserting[w]
    /\ inserting' = [inserting EXCEPT ![w] = {}]
    /\ UNCHANGED <<saleSeq, mv, refresh, summary>>

(***************************************************************************)
(* REFRESH MATERIALIZED VIEW: one at a time (both modes lock the view), the  *)
(* query sees what was committed when it began.                             *)
(***************************************************************************)
Refresh(mode) ==
    /\ refresh = NoRefresh
    /\ refresh' = [mode |-> mode, rows |-> sales]
    /\ UNCHANGED <<facts, mv, summary>>

\* The COMMIT, or the deadline of periodicRefresh that cancels the statement.
EndRefresh ==
    /\ refresh # NoRefresh /\ refresh' = NoRefresh
    /\ mv' \in {mv, refresh.rows}
    /\ UNCHANGED <<facts, summary>>

(***************************************************************************)
(* incrementalRefresh: one READ COMMITTED transaction of four statements.    *)
(***************************************************************************)
Stage(r, at, from, to, rows) ==
    merger' = [merger EXCEPT ![r] = [at |-> at, from |-> from, to |-> to, rows |-> rows]]

\* Variant: the SELECT takes no lock.
ReadWatermark(r) ==
    /\ merger[r].at = "idle"
    /\ Stage(r, "locked", watermark, 0, {})
    /\ UNCHANGED <<facts, mv, refresh, agg, watermark, overtaken, aborts>>

\* SELECT last_id ... FOR UPDATE: the others wait for the row until the COMMIT.
LockWatermark(r) ==
    /\ merger[r].at = "idle" /\ \A o \in Refresher : merger[o].at = "idle"
    /\ Stage(r, "locked", watermark, 0, {})
    /\ UNCHANGED <<facts, mv, refresh, agg, watermark, overtaken, aborts>>

\* SELECT max(id): committed rows only.
ReadMaxId(r) ==
    /\ merger[r].at = "locked"
    /\ Stage(r, "bounded", merger[r].from, Max(sales \cup {0}), {})
    /\ UNCHANGED <<facts, mv, refresh, agg, watermark, overtaken, aborts>>

\* The MERGE has a snapshot of its own: a row below "to" that has committed meanwhile
\* is added, one whose INSERT is still open is not.
Merge(r) ==
    LET range == merger[r].from + 1..merger[r].to IN
    /\ merger[r].at = "bounded"
    /\ Stage(r, "merged", merger[r].from, merger[r].to, sales \cap range)
    /\ overtaken' = overtaken \cup (range \cap UNION {inserting[w] : w \in Writer})
    /\ UNCHANGED <<facts, mv, refresh, agg, watermark, aborts>>

\* The UPDATE of the watermark and the COMMIT.
CommitMerge(r) ==
    /\ merger[r].at = "merged"
    /\ agg' = [s \in Sale |-> IF s \in merger[r].rows THEN agg[s] + 1 ELSE agg[s]]
    /\ watermark' = merger[r].to
    /\ merger' = [merger EXCEPT ![r] = NotMerging]
    /\ UNCHANGED <<facts, mv, refresh, overtaken, aborts>>

\* An error or a crash before the COMMIT rolls everything back.
AbortMerge(r) ==
    /\ merger[r].at # "idle" /\ aborts < MaxAborts
    /\ aborts' = aborts + 1
    /\ merger' = [merger EXCEPT ![r] = NotMerging]
    /\ UNCHANGED <<facts, mv, refresh, agg, watermark, overtaken>>

IncrementalRefresh(r) ==
    LockWatermark(r) \/ ReadMaxId(r) \/ Merge(r) \/ CommitMerge(r) \/ AbortMerge(r)

\* Single INSERTs and concurrent refreshes, each loop at its own pace.
PeriodicRefresh ==
    \/ \E w \in Writer : InsertSales(w, 1) \/ CommitSales(w)
    \/ Refresh("concurrent") \/ EndRefresh

Next ==
    \/ PeriodicRefresh
    \/ \E w \in Writer : InsertSales(w, 2)
    \/ Refresh("plain")
    \/ \E r \in Refresher : IncrementalRefresh(r)

TypeOK ==
    /\ sales \subseteq Sale /\ saleSeq \in 0..MaxSales /\ mv \subseteq Sale
    /\ inserting \in [Writer -> SUBSET Sale]
    /\ refresh \in [mode : {"none", "plain", "concurrent"}, rows : SUBSET Sale]
    /\ agg \in [Sale -> 0..MaxSales] /\ watermark \in 0..MaxSales
    /\ \A r \in Refresher : merger[r].from <= watermark /\ merger[r].rows \subseteq sales
    /\ overtaken \subseteq Sale /\ aborts \in 0..MaxAborts

\* incrementalRefresh adds no sale twice and none above the watermark, and skips none
\* below it but those whose INSERT was still open when the MERGE passed their ids;
\* without such a race verifyIncremental finds the summary equal to a refreshed view.
SummaryCountsOnce ==
    \A s \in Sale : /\ agg[s] <= (IF s <= watermark THEN 1 ELSE 0)
                    /\ s \in sales /\ s <= watermark /\ agg[s] = 0 => s \in overtaken
=============================================================================
