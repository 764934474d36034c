---------------------------- MODULE MCPlacement ----------------------------
(***************************************************************************)
(* The programs that place data - on shards, on a ring's nodes, in hot and   *)
(* cold tiers, in accounts of a distributed database, in a tenant's database *)
(* or schema - checked one after the other: the first state chooses a        *)
(* program, the variables of the others never change.                       *)
(***************************************************************************)
EXTENDS Integers, Sequences, FiniteSets

CONSTANT Programs   \* those to check
CONSTANTS MaxTime, MaxLoads
CONSTANTS Node, Vnodes, Points, Keys
CONSTANTS Orders, Batch, MaxYears, MaxRestores
CONSTANTS Payer, Seed, MaxRetries
CONSTANTS Slug, MaxWrites, MaxCalls, MaxUnread
CONSTANTS Request, Conn, Migrator, MaxProvisions

\* Bounds leave room to start, a node has virtual nodes (the program gives each 1000), a
\* transfer is tried at least once (retryTxn: 10 times), the program starts finitely many
\* goroutines; no node is called "none", which stands for the owner that a key does not
\* have, and no tenant "public", which stands for the schema and the role of requests
\* without one.
ASSUME PlacementAssumption ==
    /\ {Vnodes, Orders, Batch, MaxRetries} \subseteq Nat \ {0}
    /\ {MaxTime, MaxLoads, Points, MaxYears, MaxRestores, Seed, MaxWrites, MaxCalls,
        MaxUnread, MaxProvisions} \subseteq Nat
    /\ IsFiniteSet(Payer)
    /\ "none" \notin Node /\ Keys \subseteq 0..Points - 1
    /\ "public" \notin Slug

VARIABLES program,
    stored, ranges, call, loaded, astray, loads,
    hash, ring, owners, nodes, key, kv, since,
    delivered, locked, hot, archived, file, exported, years, archiver, exporter, finder,
        restores, crossed, overwritten, restored,
    balance, txn, applied, unsure,
    catalogue, database, role, pools, opening, admin, invoices, late, reopened, migrated, cut,
        calls, unread,
    schema, writers, conn, request, bare, recorded, changes, migrator, provisions

Shards == INSTANCE RangeShards
Ring == INSTANCE HashRing
Tiers == INSTANCE ArchiveTiers
Bank == INSTANCE Transfers
Databases == INSTANCE TenantDatabases
Schemas == INSTANCE TenantSchemas

rangeVars == <<stored, ranges, call, loaded, astray, loads>>
ringVars == <<hash, ring, owners, nodes, key, kv, since>>
archiveVars == <<delivered, locked, hot, archived, file, exported, years, archiver, exporter,
    finder, restores, crossed, overwritten, restored>>
transferVars == <<balance, txn, applied, unsure>>
databaseVars == <<catalogue, database, role, pools, opening, admin, invoices, late, reopened,
    migrated, cut, calls, unread>>
schemaVars == <<schema, writers, conn, request, bare, recorded, changes, migrator,
    provisions>>
vars == <<program, rangeVars, ringVars, archiveVars, transferVars, databaseVars, schemaVars>>

\* Only the ring starts in more than one state.
Init ==
    /\ program \in Programs
    /\ Shards!Init /\ Ring!Init /\ Tiers!Init /\ Bank!Init /\ Databases!Init /\ Schemas!Init
    /\ program = "ring" \/ /\ key = CHOOSE k \in Keys : TRUE
                           /\ hash = CHOOSE h \in Ring!Placements : TRUE

Others ==
    /\ IF program = "ranges" THEN TRUE ELSE UNCHANGED rangeVars
    /\ IF program = "ring" THEN TRUE ELSE UNCHANGED ringVars
    /\ IF program = "archive" THEN TRUE ELSE UNCHANGED archiveVars
    /\ IF program = "bank" THEN TRUE ELSE UNCHANGED transferVars
    /\ IF program = "databases" THEN TRUE ELSE UNCHANGED databaseVars
    /\ IF program = "schemas" THEN TRUE ELSE UNCHANGED schemaVars
    /\ UNCHANGED program

Next ==
    \/ program = "ranges" /\ Shards!Next /\ Others
    \/ program = "ring" /\ Ring!Next /\ Others
    \/ program = "archive" /\ Tiers!Next /\ Others
    \/ program = "bank" /\ Bank!Next /\ Others
    \/ program = "databases" /\ Databases!Next /\ Others
    \/ program = "schemas" /\ Schemas!Next /\ Others

Spec == Init /\ [][Next]_vars

\* Every program's variables keep their types.
TypeOK ==
    /\ Shards!TypeOK /\ Ring!TypeOK /\ Tiers!TypeOK /\ Bank!TypeOK /\ Databases!TypeOK
    /\ Schemas!TypeOK

\* range_based_sharding and consistent_hashing: rows are where the map and the ring lead,
\* after any splits, and keys move only to a node that joined or from one that left.
RowsWhereRouted == Shards!RowsWhereRouted /\ Ring!PlacementStable

\* range_based_sharding: "Only rows in [at, end of range) travel; every other range is
\* untouched."
OnlyRangeMoves == Shards!OnlyRangeMoves

\* data_archival: an order is in one place, and is found, however archive, restore, export
\* and a search overlap.
OrdersSomewhere == Tiers!OrdersSomewhere

\* newsql: concurrent transfers, retried, are applied once or not at all.
TransfersExact == Bank!TransfersExact

\* multitenancy_separate_database: a tenant of the catalogue has its data where the
\* catalogue says, at whatever statement a call or a reset stops, until offboard or reset
\* drops its database; and past reset nobody but a tenant just taken off is without one.
TenantsReachData == Databases!TenantsReachData

\* multitenancy_separate_schema: requests on shared connections stay with their tenant.
OneTenantPerRequest == Schemas!OneTenantPerRequest
=============================================================================
