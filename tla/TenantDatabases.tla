-------------------------- MODULE TenantDatabases --------------------------
(***************************************************************************)
(* simulate_multitenancy_separate_database: a database per tenant on one of  *)
(* two servers, a catalogue that says on which, a router with a pool per     *)
(* tenant, and the administrator's calls, each a sequence of statements that *)
(* no transaction holds together, one call at a time.                       *)
(*                                                                         *)
(* Every statement's failure is a log.Fatal: it ends the program, router and *)
(* all.  The next run starts with reset, whose statements can fail as well. *)
(***************************************************************************)
EXTENDS Integers, Sequences, FiniteSets

CONSTANTS Slug,      \* tenants
          MaxWrites, \* bound: invoices written
          MaxCalls,  \* bound: administrator's calls of one run
          MaxUnread  \* bound: listings of a reset that break off

Server == {"server_a", "server_b"}
Nowhere == "nowhere"
NoDatabase == [exists |-> FALSE]
\* CREATE DATABASE ... TEMPLATE tenant_template, which no migration changes.
Cloned == [exists |-> TRUE, invoices |-> {}, version |-> 1, limited |-> FALSE, closed |-> FALSE,
           owned |-> FALSE]

VARIABLES
    catalogue, \* tenants: per slug its server, or nowhere
    database,  \* per server and slug: tenant_<slug>
    role,      \* per server: the slugs with a login role
    pools,     \* Router.pools: per slug the server its pool connects to, or nowhere
    opening,   \* Router.mu: the slug and server of the call of Pool in progress
    admin,     \* the administrator's call in progress
    invoices,  \* history: per slug, invoices that were acknowledged
    late,      \* history: invoices written after the dump of their tenant began
    reopened,  \* history: tenants whose pool was looked up while they were being moved
    migrated,  \* history: tenants that a finished migration had listed
    cut,       \* history: tenants of the catalogue whose database offboard or reset dropped
    calls, unread

databaseVars == <<catalogue, database, role, pools, opening, admin, invoices, late, reopened,
                  migrated, cut, calls, unread>>

Idle == [at |-> "idle"]
NotPlaced == [t \in Slug |-> Nowhere]

Init ==
    /\ catalogue = NotPlaced /\ pools = NotPlaced /\ opening = Idle /\ admin = Idle
    /\ database = [s \in Server |-> [t \in Slug |-> NoDatabase]]
    /\ role = [s \in Server |-> {}]
    /\ invoices = [t \in Slug |-> {}] /\ late = {} /\ reopened = {} /\ migrated = {}
    /\ cut = {} /\ calls = 0 /\ unread = 0

(***************************************************************************)
(* The router, under its mutex.                                            *)
(***************************************************************************)
\* main is past reset.
Running == admin.at \notin {"ended", "reset"}

\* A call that takes the tenant away from where it is.
Moving(t) == admin.at \in {"move", "offboard"} /\ admin.slug = t

\* Pool without a pool: the catalogue is read ...
Lookup(t) ==
    /\ Running /\ opening = Idle /\ pools[t] = Nowhere /\ catalogue[t] # Nowhere
    /\ opening' = [at |-> "open", slug |-> t, server |-> catalogue[t], moving |-> Moving(t)]
    /\ UNCHANGED <<catalogue, database, role, pools, admin, invoices, late, reopened, migrated,
                   cut, calls, unread>>

\* ... and the pool connects there, or fails and is closed.
OpenPool ==
    /\ Running /\ opening # Idle /\ opening' = Idle
    /\ LET t == opening.slug  s == opening.server IN
         \/ UNCHANGED <<pools, reopened>>
         \/ /\ database[s][t].exists /\ t \in role[s]
            /\ pools' = [pools EXCEPT ![t] = s]
            /\ reopened' = IF opening.moving THEN reopened \cup {t} ELSE reopened
    /\ UNCHANGED <<catalogue, database, role, admin, invoices, late, migrated, cut, calls, unread>>

\* An INSERT of a tenant's session through its pool.
Write(t, n) ==
    LET s == pools[t] IN
    /\ Running /\ s # Nowhere /\ database[s][t].exists
    /\ \A u \in Slug : n \notin invoices[u]
    /\ n \notin late   \* a new invoice
    /\ database' = [database EXCEPT ![s][t].invoices = @ \cup {n}]
    /\ invoices' = [invoices EXCEPT ![t] = @ \cup {n}]
    /\ late' = IF Moving(t) /\ admin.dump.exists THEN late \cup {n} ELSE late
    /\ UNCHANGED <<catalogue, role, pools, opening, admin, reopened, migrated, cut, calls, unread>>

(***************************************************************************)
(* The administrator's calls, statement by statement.                       *)
(***************************************************************************)
\* Variant: moveTenant drops the original, then updates the catalogue.
DropFirst(call) ==
    CASE call = "provision" -> <<"create_role", "create", "limited", "closed", "owned", "insert">>
      [] call = "move" -> <<"drop_pool", "create_role", "dump", "restore", "limited",
                            "drop_database", "update", "drop_role">>
      [] call = "offboard" -> <<"drop_pool", "drop_database", "drop_role", "delete">>

Statements(call) ==
    CASE call = "provision" -> <<"create_role", "create", "limited", "closed", "owned", "insert">>
      [] call = "move" -> <<"drop_pool", "create_role", "dump", "restore", "limited",
                            "update", "drop_database", "drop_role">>
      [] call = "offboard" -> <<"drop_pool", "drop_database", "drop_role", "delete">>

Begin(call, t, from, to) ==
    /\ admin = Idle /\ calls < MaxCalls /\ calls' = calls + 1
    /\ admin' = [at |-> call, slug |-> t, from |-> from, to |-> to, dump |-> NoDatabase,
                 todo |-> Statements(call)]
    /\ UNCHANGED <<catalogue, database, role, pools, opening, invoices, late, reopened,
                   migrated, cut, unread>>

Provision(t, s) == catalogue[t] = Nowhere /\ Begin("provision", t, s, s)
MoveTenant(t, s) ==
    catalogue[t] \in Server \ {s} /\ Begin("move", t, catalogue[t], s)
Offboard(t) == catalogue[t] # Nowhere /\ Begin("offboard", t, catalogue[t], catalogue[t])

\* The next statement of the call is executed.
Executes(statement) ==
    /\ admin.at \in {"provision", "move", "offboard"} /\ Head(admin.todo) = statement
    /\ admin' = IF Len(admin.todo) = 1 THEN Idle ELSE [admin EXCEPT !.todo = Tail(@)]
    /\ UNCHANGED <<opening, invoices, late, migrated, calls, unread>>

\* Router.Drop waits for the mutex.
DropPool ==
    /\ opening = Idle /\ Executes("drop_pool")
    /\ pools' = [pools EXCEPT ![admin.slug] = Nowhere]
    /\ reopened' = reopened \ {admin.slug}
    /\ UNCHANGED <<catalogue, database, role, cut>>

CreateRole ==
    /\ Executes("create_role") /\ admin.slug \notin role[admin.to]
    /\ role' = [role EXCEPT ![admin.to] = @ \cup {admin.slug}]
    /\ UNCHANGED <<catalogue, database, pools, reopened, cut>>

CreateDatabase ==
    /\ Executes("create") /\ ~database[admin.to][admin.slug].exists
    /\ database' = [database EXCEPT ![admin.to][admin.slug] = Cloned]
    /\ UNCHANGED <<catalogue, role, pools, reopened, cut>>

\* The limits, CONNECT revoked from PUBLIC, the owner of the tables.
AlterDatabase(setting) ==
    /\ Executes(setting)
    /\ database' = [database EXCEPT ![admin.to][admin.slug][setting] = TRUE]
    /\ UNCHANGED <<catalogue, role, pools, reopened, cut>>

\* The snapshot that pg_dump takes.
Dump ==
    /\ admin.at = "move" /\ Head(admin.todo) = "dump"
    /\ admin' = [admin EXCEPT !.todo = Tail(@), !.dump = database[admin.from][admin.slug]]
    /\ UNCHANGED <<catalogue, database, role, pools, opening, invoices, late, reopened,
                   migrated, cut, calls, unread>>

\* pg_restore -C: the database with its settings and privileges.
Restore ==
    /\ Executes("restore") /\ ~database[admin.to][admin.slug].exists
    /\ database' = [database EXCEPT ![admin.to][admin.slug] = admin.dump]
    /\ UNCHANGED <<catalogue, role, pools, reopened, cut>>

InsertTenant ==
    /\ Executes("insert") /\ catalogue[admin.slug] = Nowhere
    /\ catalogue' = [catalogue EXCEPT ![admin.slug] = admin.to]
    /\ UNCHANGED <<database, role, pools, reopened, cut>>

UpdateTenant ==
    /\ Executes("update") /\ catalogue' = [catalogue EXCEPT ![admin.slug] = admin.to]
    /\ UNCHANGED <<database, role, pools, reopened, cut>>

\* WITH (FORCE) ends the sessions in it.
DropDatabase ==
    /\ Executes("drop_database")
    /\ database' = [database EXCEPT ![admin.from][admin.slug] = NoDatabase]
    /\ cut' = IF admin.at = "offboard" THEN {admin.slug} ELSE cut
    /\ UNCHANGED <<catalogue, role, pools, reopened>>

DropRole ==
    /\ Executes("drop_role") /\ role' = [role EXCEPT ![admin.from] = @ \ {admin.slug}]
    /\ UNCHANGED <<catalogue, database, pools, reopened, cut>>

\* The tenant is gone, its invoices with it.
DeleteTenant ==
    /\ admin.at = "offboard" /\ admin.todo = <<"delete">> /\ admin' = Idle
    /\ catalogue' = [catalogue EXCEPT ![admin.slug] = Nowhere]
    /\ invoices' = [invoices EXCEPT ![admin.slug] = {}]
    /\ migrated' = migrated \ {admin.slug} /\ cut' = cut \ {admin.slug}
    /\ UNCHANGED <<database, role, pools, opening, late, reopened, calls, unread>>

\* migrate: the tenants of the catalogue, one after the other, through the router.
Migrate ==
    LET listed == {t \in Slug : catalogue[t] # Nowhere} IN
    /\ admin = Idle /\ listed # {} /\ calls < MaxCalls /\ calls' = calls + 1
    /\ admin' = [at |-> "migrate", listed |-> listed, left |-> listed]
    /\ UNCHANGED <<catalogue, database, role, pools, opening, invoices, late, reopened,
                   migrated, cut, unread>>

\* One transaction: the change is made once, the version recorded with it.
MigrateTenant(t) ==
    /\ admin.at = "migrate" /\ t \in admin.left /\ pools[t] # Nowhere
    /\ database[pools[t]][t].exists
    /\ database' = [database EXCEPT ![pools[t]][t].version = 2]
    /\ IF admin.left = {t}
       THEN admin' = Idle /\ migrated' = migrated \cup admin.listed
       ELSE admin' = [admin EXCEPT !.left = @ \ {t}] /\ UNCHANGED migrated
    /\ UNCHANGED <<catalogue, role, pools, opening, invoices, late, reopened, cut, calls, unread>>

(***************************************************************************)
(* log.Fatal, and the next run's reset.                                     *)
(***************************************************************************)
Fatal ==
    /\ admin.at # "ended" /\ admin' = [at |-> "ended"]
    /\ pools' = NotPlaced /\ opening' = Idle /\ reopened' = {}
    /\ UNCHANGED <<catalogue, database, role, invoices, late, migrated, cut, calls, unread>>

\* reset's four listings: databases, then roles, of each server.  Rows that cannot be read
\* are an error that nobody looks at: nothing is listed.
ListedServer(step) == IF step \in {1, 2} THEN "server_a" ELSE "server_b"
Present(step) ==
    LET s == ListedServer(step) IN
    IF step \in {1, 3} THEN {t \in Slug : database[s][t].exists} ELSE role[s]
List(step) ==
    /\ \/ admin' = [at |-> "reset", step |-> step, left |-> Present(step)] /\ UNCHANGED unread
       \/ /\ admin' = [at |-> "reset", step |-> step, left |-> {}]
          /\ unread < MaxUnread /\ unread' = unread + 1
    /\ UNCHANGED <<catalogue, database, role, pools, opening, invoices, late, reopened,
                   migrated, cut, calls>>

Reset == admin.at = "ended" /\ List(1)
ListNext == admin.at = "reset" /\ admin.left = {} /\ admin.step < 4 /\ List(admin.step + 1)

\* One by one; the role that owns a database cannot be dropped.
ResetDrop(t) ==
    LET s == ListedServer(admin.step) IN
    /\ admin.at = "reset" /\ t \in admin.left /\ admin' = [admin EXCEPT !.left = @ \ {t}]
    /\ IF admin.step \in {1, 3}
       THEN /\ database' = [database EXCEPT ![s][t] = NoDatabase]
            /\ cut' = IF catalogue[t] = s THEN cut \cup {t} ELSE cut
            /\ UNCHANGED role
       ELSE /\ ~database[s][t].exists /\ role' = [role EXCEPT ![s] = @ \ {t}]
            /\ UNCHANGED <<database, cut>>
    /\ UNCHANGED <<catalogue, pools, opening, invoices, late, reopened, migrated, calls, unread>>

\* The catalogue goes last.
Truncate ==
    /\ admin.at = "reset" /\ admin.left = {} /\ admin.step = 4 /\ admin' = Idle
    /\ catalogue' = NotPlaced /\ cut' = {}
    /\ invoices' = [t \in Slug |-> {}] /\ late' = {} /\ migrated' = {} /\ calls' = 0
    /\ UNCHANGED <<database, role, pools, opening, reopened, unread>>

Next ==
    \/ \E t \in Slug :
         \/ Lookup(t) \/ Offboard(t) \/ \E n \in 1..MaxWrites : Write(t, n)
         \/ MigrateTenant(t) \/ ResetDrop(t)
         \/ \E s \in Server : Provision(t, s) \/ MoveTenant(t, s)
    \/ OpenPool \/ DropPool \/ CreateRole \/ CreateDatabase \/ Dump \/ Restore
    \/ \E setting \in {"limited", "closed", "owned"} : AlterDatabase(setting)
    \/ InsertTenant \/ UpdateTenant \/ DropDatabase \/ DropRole \/ DeleteTenant \/ Migrate
    \/ Fatal \/ Reset \/ ListNext \/ Truncate

TypeOK ==
    /\ catalogue \in [Slug -> Server \cup {Nowhere}] /\ pools \in [Slug -> Server \cup {Nowhere}]
    /\ \A s \in Server : role[s] \subseteq Slug
    /\ \A s \in Server, t \in Slug : database[s][t].exists => database[s][t].version \in {1, 2}
    /\ calls \in 0..MaxCalls /\ unread \in 0..MaxUnread

\* A tenant of the catalogue has its database where the catalogue says - with its role, its
\* limits and its doors closed, with every migration that has finished and every
\* acknowledged invoice, but for invoices written while it was being moved - at whatever
\* statement a call or a reset stops, until offboard or reset drops that database.  A run
\* that is past reset has nobody in its catalogue without a database, but for the tenant
\* that it is just taking off.  A pool leads where the catalogue says, or its tenant was
\* looked up while it was being moved or dropped: then, with the call over, it leads to no
\* database at all, and so to none that would take an invoice.
TenantsReachData ==
    /\ \A t \in Slug :
         LET s == catalogue[t]
             d == database[s][t] IN
         /\ s # Nowhere /\ t \notin cut =>
              /\ d.exists /\ t \in role[s] /\ d.limited /\ d.closed /\ d.owned
              /\ invoices[t] \ late \subseteq d.invoices
              /\ t \in migrated => d.version = 2
         /\ pools[t] \notin {s, Nowhere} =>
              /\ t \in reopened
              /\ admin.at \in {"idle", "migrate"} => ~database[pools[t]][t].exists
    /\ Running => cut \subseteq {t \in Slug : admin.at = "offboard" /\ admin.slug = t}
=============================================================================
