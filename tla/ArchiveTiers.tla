---------------------------- MODULE ArchiveTiers ----------------------------
(***************************************************************************)
(* simulate_data_archival: orders in the hot table, the archive table and    *)
(* the exported files, moved by archivers, restores and exports that overlap *)
(* with each other, with the application's own transactions and with time.   *)
(*                                                                         *)
(* An age is a number of years; one year passes at a time, each in another   *)
(* month, so an export's file is named for the years passed.               *)
(***************************************************************************)
EXTENDS Integers, FiniteSets

CONSTANTS Orders,     \* number of orders; the higher its id, the younger an order
          Batch,      \* rows an archiver moves at a time
          MaxYears,   \* bound: years that pass
          MaxRestores \* bound: restores

Id == 1..Orders

VARIABLES
    delivered,      \* orders with status 'delivered'
    locked,         \* the order that a transaction of the application updates
    hot, archived,  \* ids in orders and in orders_archive
    file,           \* per year: the ids in its export file
    exported,       \* years whose export committed
    years,          \* passed since the first state
    archiver, exporter, finder,
    restores,
    crossed,        \* history: ids archived or restored between a COPY and its DELETE
    overwritten,    \* history: ids of a committed export whose file was truncated
    restored        \* history: ids restored since the finder began

archiveVars == <<delivered, locked, hot, archived, file, exported, years, archiver,
                 exporter, finder, restores, crossed, overwritten, restored>>

Idle == [at |-> "idle"]
Age(i, now) == now + Orders - i

\* As seed_orders leaves them: all but the youngest are delivered.
Init ==
    /\ delivered = Id \ {Orders} /\ locked = {} /\ hot = Id /\ archived = {}
    /\ file = [y \in 0..MaxYears |-> {}] /\ exported = {} /\ years = 0
    /\ archiver = "idle" /\ exporter = Idle /\ finder = Idle /\ restores = 0
    /\ crossed = {} /\ overwritten = {} /\ restored = {}

(***************************************************************************)
(* Time, and the application's updates of its open orders.                  *)
(***************************************************************************)
YearPasses ==
    /\ years < MaxYears /\ years' = years + 1
    /\ UNCHANGED <<delivered, locked, hot, archived, file, exported, archiver, exporter,
                   finder, restores, crossed, overwritten, restored>>

Lock(i) ==
    /\ i \in hot /\ locked = {} /\ locked' = {i}   \* bound: one at a time
    /\ UNCHANGED <<delivered, hot, archived, file, exported, years, archiver, exporter,
                   finder, restores, crossed, overwritten, restored>>

Deliver(i) ==
    /\ i \in locked /\ locked' = locked \ {i} /\ delivered' = delivered \cup {i}
    /\ UNCHANGED <<hot, archived, file, exported, years, archiver, exporter, finder,
                   restores, crossed, overwritten, restored>>

(***************************************************************************)
(* archive: batch after batch, until one is empty.                          *)
(***************************************************************************)
Archive ==
    /\ archiver = "idle" /\ archiver' = "running"
    /\ UNCHANGED <<delivered, locked, hot, archived, file, exported, years, exporter, finder,
                   restores, crossed, overwritten, restored>>

\* Between an export's COPY and its DELETE.
Copied == exporter.at = "copied"

\* The first rows by id of those old enough; rows that are locked are skipped.
Due == {i \in (hot \cap delivered) \ locked : Age(i, years) >= 1}
NextBatch == {i \in Due : Cardinality({j \in Due : j < i}) < Batch}

\* One statement.
ArchiveBatch ==
    /\ archiver = "running"
    /\ hot' = hot \ NextBatch /\ archived' = archived \cup NextBatch
    /\ archiver' = IF NextBatch = {} THEN "idle" ELSE "running"
    /\ crossed' = IF Copied THEN crossed \cup NextBatch ELSE crossed
    /\ UNCHANGED <<delivered, locked, file, exported, years, exporter, finder, restores,
                   overwritten, restored>>

\* One statement again; an order that is not in the archive moves nowhere.
Restore(i) ==
    LET back == archived \cap {i} IN
    /\ restores < MaxRestores /\ restores' = restores + 1
    /\ archived' = archived \ back /\ hot' = hot \cup back
    /\ delivered' = delivered \ back
    /\ crossed' = IF Copied THEN crossed \cup back ELSE crossed
    /\ restored' = IF finder.at = "archive?" THEN restored \cup back ELSE restored
    /\ UNCHANGED <<locked, file, exported, years, archiver, exporter, finder, overwritten>>

(***************************************************************************)
(* export: a transaction whose now() is its beginning.                      *)
(***************************************************************************)
\* The file's name and the transaction's now().
Export ==
    /\ exporter = Idle /\ exporter' = [at |-> "begun", now |-> years]
    /\ UNCHANGED <<delivered, locked, hot, archived, file, exported, years, archiver, finder,
                   restores, crossed, overwritten, restored>>

\* Variant: the age by the clock, not by now().
ExpiredByClock == {i \in archived : Age(i, years) >= 2}

\* What the condition selects of the archive, for the statement that is run.
Expired == {i \in archived : Age(i, exporter.now) >= 2}

\* COPY TO PROGRAM 'gzip > file' truncates a file of that name.
CopyOut ==
    /\ exporter.at = "begun"
    /\ file' = [file EXCEPT ![exporter.now] = Expired]
    /\ exported' = exported \ {exporter.now}
    /\ overwritten' = IF exporter.now \in exported THEN overwritten \cup file[exporter.now]
                                                    ELSE overwritten
    /\ exporter' = [exporter EXCEPT !.at = "copied"]
    /\ UNCHANGED <<delivered, locked, hot, archived, years, archiver, finder, restores,
                   crossed, restored>>

DeleteAndCommit ==
    /\ exporter.at = "copied"
    /\ archived' = archived \ Expired
    /\ exported' = exported \cup {exporter.now}
    /\ exporter' = Idle
    /\ UNCHANGED <<delivered, locked, hot, file, years, archiver, finder, restores, crossed,
                   overwritten, restored>>

\* The rollback does not reach the file.
ExportFails ==
    /\ exporter # Idle /\ exporter' = Idle
    /\ UNCHANGED <<delivered, locked, hot, archived, file, exported, years, archiver, finder,
                   restores, crossed, overwritten, restored>>

(***************************************************************************)
(* findOrder: the hot table, then the archive.  An error is taken for a miss. *)
(***************************************************************************)
FindHot(i, erred) ==
    /\ finder.at # "archive?"
    /\ finder' = IF i \in hot /\ ~erred THEN Idle   \* "hot"
                 ELSE [at |-> "archive?", id |-> i, erred |-> erred]
    /\ restored' = {}
    /\ UNCHANGED <<delivered, locked, hot, archived, file, exported, years, archiver, exporter,
                   restores, crossed, overwritten>>

FindArchived(erred) ==
    /\ finder.at = "archive?"
    /\ finder' = IF finder.id \in archived /\ ~erred THEN Idle   \* "archive"
                 ELSE [finder EXCEPT !.at = "nowhere", !.erred = @ \/ erred]
    /\ UNCHANGED <<delivered, locked, hot, archived, file, exported, years, archiver, exporter,
                   restores, crossed, overwritten, restored>>

Next ==
    \/ YearPasses \/ Archive \/ ArchiveBatch
    \/ Export \/ CopyOut \/ DeleteAndCommit \/ ExportFails
    \/ \E i \in Id : Lock(i) \/ Deliver(i) \/ Restore(i)
    \/ \E i \in Id, erred \in BOOLEAN : FindHot(i, erred)
    \/ \E erred \in BOOLEAN : FindArchived(erred)

TypeOK ==
    /\ hot \cup archived \subseteq Id /\ locked \subseteq hot /\ delivered \subseteq Id
    /\ exported \subseteq 0..years /\ file \in [0..MaxYears -> SUBSET Id]
    /\ exporter # Idle => exporter.now <= years

\* Years after years of archiving, restoring and exporting, an order is in one place - the
\* hot table, the archive, or the file of a committed export - unless archive or restore
\* moved it between an export's COPY and its DELETE, or a second export in the same month
\* wrote over the file.  findOrder finds it in the tables, unless it is exported or lost,
\* a restore overtook the search, or a statement failed.
OrdersSomewhere ==
    LET Files(i) == {y \in exported : i \in file[y]} IN
    /\ \A i \in Id \ (crossed \cup overwritten) :
         \/ i \in hot \ archived /\ Files(i) = {}
         \/ i \in archived \ hot /\ Files(i) = {}
         \/ i \notin hot \cup archived /\ \E y \in exported : Files(i) = {y}
    /\ finder.at = "nowhere" =>
         \/ finder.erred \/ finder.id \in restored \cup crossed \cup overwritten
         \/ Files(finder.id) # {}
=============================================================================
