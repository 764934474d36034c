------------------------------ MODULE MCCopies ------------------------------
(***************************************************************************)
(* The programs that keep copies of data - derived tables, caches, replicas - *)
(* checked one after the other: the first state chooses a program, the        *)
(* variables of the others never change.  They share nothing but this run.    *)
(***************************************************************************)
EXTENDS Integers, Sequences, FiniteSets

CONSTANT Programs   \* those to check
CONSTANTS Caller, MaxPrice, MaxCacheErrors
CONSTANTS Refresher, MaxSales, MaxAborts
CONSTANTS Order, Item, Session, MaxRenames, MaxQty, MaxMiscounts
CONSTANTS Replicas, Client, MaxCommits
CONSTANTS Writer, MaxInserts, MaxChanges
CONSTANTS FailThresh, MaxProbes, MaxRows, MaxOutages
CONSTANTS MaxUpdates, MaxOrders, MaxCuts
CONSTANT MaxOwn
CONSTANTS ReadServer, Connection, Fall, Rise, MaxStops

\* Thresholds are counts of at least one, an order has finitely many items, and the bounds
\* leave room to start.
ASSUME CopiesAssumption ==
    /\ {MaxPrice, FailThresh, Fall, Rise} \subseteq Nat \ {0}
    /\ {MaxCacheErrors, MaxSales, MaxAborts, MaxRenames, MaxQty, MaxMiscounts, Replicas, MaxCommits,
        MaxInserts, MaxChanges, MaxProbes, MaxRows, MaxOutages, MaxUpdates, MaxOrders,
        MaxCuts, MaxOwn, MaxStops} \subseteq Nat
    /\ IsFiniteSet(Item)
    /\ {"primary", "none"} \cap ReadServer = {}   \* neither names a read replica

VARIABLES program,
    price, entry, caller, updatedBy, slipped, cacheErrors,
    sales, saleSeq, inserting, mv, refresh, agg, watermark, merger, overtaken, aborts,
    custName, orders, items, insTrigger, session, repair, raced, miscounted, touched, miscounts,
    replicas, commits, received, replayed, next, client,
    inserts, progress, names, paused, writer, promises, changes,
    rows, lastRow, up, standby, manager, current, refused, outages,
    account, orderRows, given, slot, enabled, guard, clock, crossed, cuts,
    log, closed, archived, hot, warm, backup, pitr, step, point, own,
    running, status, checks, pinned, asBackup, stops

Cache == INSTANCE ProductCache
Sales == INSTANCE SalesSummary WITH Writer <- Caller
Totals == INSTANCE OrderTotals
Routing == INSTANCE ReadRouting
Sync == INSTANCE SyncCommit
Promotion == INSTANCE Failover
Multi == INSTANCE MultiPrimary
Recovery == INSTANCE HotStandby
Balancer == INSTANCE ReadBalancer

cacheVars == <<price, entry, caller, updatedBy, slipped, cacheErrors>>
salesVars == <<sales, saleSeq, inserting, mv, refresh, agg, watermark, merger, overtaken,
    aborts>>
totalsVars == <<custName, orders, items, insTrigger, session, repair, raced, miscounted,
    touched, miscounts>>
routingVars == <<replicas, commits, received, replayed, next, client>>
syncVars == <<inserts, progress, names, paused, writer, promises, changes>>
failoverVars == <<rows, lastRow, up, standby, manager, current, refused, outages>>
multiVars == <<account, orderRows, given, slot, enabled, guard, clock, crossed, cuts>>
standbyVars == <<log, closed, archived, hot, warm, backup, pitr, step, point, own>>
balancerVars == <<running, status, checks, pinned, asBackup, stops>>
vars == <<program, cacheVars, salesVars, totalsVars, routingVars, syncVars, failoverVars,
          multiVars, standbyVars, balancerVars>>

Init ==
    /\ program \in Programs
    /\ Cache!Init /\ Sales!Init /\ Totals!Init /\ Routing!Init /\ Sync!Init
    /\ Promotion!Init /\ Multi!Init /\ Recovery!Init /\ Balancer!Init

Others ==
    /\ IF program = "cache" THEN TRUE ELSE UNCHANGED cacheVars
    /\ IF program = "sales" THEN TRUE ELSE UNCHANGED salesVars
    /\ IF program = "totals" THEN TRUE ELSE UNCHANGED totalsVars
    /\ IF program = "routing" THEN TRUE ELSE UNCHANGED routingVars
    /\ IF program = "sync" THEN TRUE ELSE UNCHANGED syncVars
    /\ IF program = "failover" THEN TRUE ELSE UNCHANGED failoverVars
    /\ IF program = "multi" THEN TRUE ELSE UNCHANGED multiVars
    /\ IF program = "standby" THEN TRUE ELSE UNCHANGED standbyVars
    /\ IF program = "balancer" THEN TRUE ELSE UNCHANGED balancerVars
    /\ UNCHANGED program

Next ==
    \/ program = "cache" /\ Cache!Next /\ Others
    \/ program = "sales" /\ Sales!Next /\ Others
    \/ program = "totals" /\ Totals!Next /\ Others
    \/ program = "routing" /\ Routing!Next /\ Others
    \/ program = "sync" /\ Sync!Next /\ Others
    \/ program = "failover" /\ Promotion!Next /\ Others
    \/ program = "multi" /\ Multi!Next /\ Others
    \/ program = "standby" /\ Recovery!Next /\ Others
    \/ program = "balancer" /\ Balancer!Next /\ Others

\* The fairness of each program, while it is the one that runs.  A call of the cache that
\* began runs on, and Redis keeps its clock; WAL flows to a standby and a COMMIT returns
\* when it may, but no one has to resume, cancel or reset; the failover manager's loop
\* runs on; concurrentUpdates restores the link it cuts, and workers apply what they get;
\* HAProxy checks and resolves every second.
Fairness ==
    /\ WF_cacheVars(program = "cache" /\ \E c \in Caller : Cache!Return(c))
    /\ WF_cacheVars(program = "cache" /\ Cache!Expire)
    /\ \A s \in Sync!Standby :
         WF_syncVars(program = "sync" /\ \E g \in Sync!Stage : Sync!Advance(s, g))
    /\ \A w \in Writer : WF_syncVars(program = "sync" /\ Sync!Acknowledge(w))
    /\ WF_failoverVars(program = "failover" /\ Promotion!Watch)
    /\ \A n \in Multi!Node : /\ WF_multiVars(program = "multi" /\ Multi!Enable(n))
                              /\ WF_multiVars(program = "multi" /\ Multi!Apply(n))
    /\ \A s \in Balancer!Server :
         WF_balancerVars(program = "balancer" /\ (Balancer!Check(s) \/ Balancer!Resolve(s)))

SafeSpec == Init /\ [][Next]_vars
Spec == SafeSpec /\ Fairness

\* Every program's variables keep their types.
TypeOK ==
    /\ Cache!TypeOK /\ Sales!TypeOK /\ Totals!TypeOK /\ Routing!TypeOK /\ Sync!TypeOK
    /\ Promotion!TypeOK /\ Multi!TypeOK /\ Recovery!TypeOK /\ Balancer!TypeOK

\* query_caching: after its update has returned, an entry of the cache is stale only
\* because an older price was stored after a newer one was committed, or a Redis command
\* failed; that these do happen is what SomeUpdateKeepsFresh is refuted by.
StaleOnlyBySlip == Cache!StaleOnlyBySlip

\* query_caching: "the cache never serves a stale price" (main.go, of write-through) or
\* there is no staleness window (README.md, of write and invalidate).
SomeUpdateKeepsFresh == Cache!SomeUpdateKeepsFresh

\* materialized_views: incrementalRefresh counts every sale once, but for those whose
\* INSERT was open when the watermark passed their ids.
SummaryCountsOnce == Sales!SummaryCountsOnce

\* denormalization: totals equal the sum of the items and names the customer's name,
\* however transactions overlap, but for the orders that a switched trigger, a repair or
\* a rename met half-way.
CopiesExact == Totals!TotalsExact /\ Totals!NamesFollow

\* read_write_splitting and sync_async_replication: what a client was told is written is
\* what it then reads, or is where its setting promised, whatever happened since.
AcknowledgedIsVisible == Routing!ReadYourWrites /\ Sync!PromisesKept

\* automatic_failover: the standby is promoted only after the threshold of failures in a
\* row, and written to only once it is a primary.
PromotedForReason == Promotion!PromotedForReason

\* multi_primary_replication: with every change delivered the nodes agree, unless a node
\* without the guard took an older version for a newer one, and no order's id is taken.
NodesAgree == Multi!NodesAgree

\* multi_primary_replication: after any partition the nodes agree, unless a node without
\* the guard took an older version for a newer one.
NodesConverge == (program = "multi") => Multi!NodesConverge

\* hot_standby: no batch is lost that the program waited for, and recovery reaches the
\* restore point.
NothingLostOnRecovery == Recovery!NothingLostOnRecovery

\* connection_load_balancing: connections follow the servers' status.
SessionsFollowStatus == Balancer!SessionsFollowStatus

\* What must end ends: a stale price with its TTL, the wait of a COMMIT once its standbys
\* replay, an outage with enough probes left, a wrong status of a server.
WaitsEnd ==
    /\ (program = "cache") => Cache!StaleEnds
    /\ (program = "sync") => Sync!BlocksOnlyWhenStalled
    /\ (program = "failover") => Promotion!OutageEndsInPromotion
    /\ (program = "balancer") => Balancer!StatusFollows
=============================================================================
