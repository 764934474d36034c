--------------------------- MODULE TenantSchemas ---------------------------
(***************************************************************************)
(* simulate_multitenancy_separate_schema: a schema and a role per tenant in  *)
(* one database, requests that take on a tenant's role and search_path for a *)
(* transaction on a pooled connection, and the administrator's transactions  *)
(* among them: provision, offboard, and migrations that may overlap.         *)
(*                                                                         *)
(* A tenant that is provisioned again is another generation: a role dropped  *)
(* and created anew has no rights of the old one's, nor the old one of it.   *)
(***************************************************************************)
EXTENDS Integers, FiniteSets

CONSTANTS Slug, Request, Conn, Migrator,
          MaxProvisions   \* bound

VARIABLES
    schema,     \* per slug: the generation of its schema, role and row of tenants; or 0
    writers,    \* per slug: the tenants whose requests wrote the rows of its projects
    conn,       \* per connection of the pool: current role and search_path
    request,    \* per request: where its call of withTenant is
    bare,       \* history: tenants whose rows a request without a tenant was shown
    recorded,   \* per slug: version 2 is in schema_migrations
    changes,    \* per slug: how often version 2's change was made
    migrator,   \* per call of migrate: where it is
    provisions

schemaVars == <<schema, writers, conn, request, bare, recorded, changes, migrator,
                provisions>>

Public == "public"   \* app_user without a tenant
Clean == [role |-> Public, gen |-> 0, path |-> Public]
Idle == [at |-> "idle"]

Init ==
    /\ schema = [t \in Slug |-> 0] /\ writers = [t \in Slug |-> {}]
    /\ conn = [c \in Conn |-> Clean] /\ request = [r \in Request |-> Idle]
    /\ bare = {}
    /\ recorded = [t \in Slug |-> FALSE] /\ changes = [t \in Slug |-> 0]
    /\ migrator = [m \in Migrator |-> Idle] /\ provisions = 0

InUse(c) == \E r \in Request : request[r].at = "open" /\ request[r].conn = c

\* The schema that an unqualified name leads to: that of the search_path, if the current
\* role is its owner.  app_user inherits nothing from the roles it may take on.
Resolved(role, gen, path) ==
    IF path # Public /\ role = path /\ schema[path] = gen THEN path ELSE Public

(***************************************************************************)
(* withTenant.                                                             *)
(***************************************************************************)
\* The catalogue, in a statement of its own.
LookupTenant(r, t) ==
    /\ request[r] = Idle /\ schema[t] # 0
    /\ request' = [request EXCEPT ![r] = [at |-> "begin", slug |-> t]]
    /\ UNCHANGED <<schema, writers, conn, bare, recorded, changes, migrator, provisions>>

\* Variant: set_config without is_local outlives the transaction.
ForSession(c) == conn[c]

ForTransaction(c) == Clean

\* BEGIN and set_config, which fails if the role was dropped since.
TakeOnTenant(r, c) ==
    LET t == request[r].slug IN
    /\ request[r].at = "begin" /\ ~InUse(c)
    /\ IF schema[t] = 0
       THEN request' = [request EXCEPT ![r] = Idle] /\ UNCHANGED conn
       ELSE /\ conn' = [conn EXCEPT ![c] = [role |-> t, gen |-> schema[t], path |-> t]]
            /\ request' = [request EXCEPT ![r] =
                 [at |-> "open", slug |-> t, conn |-> c, saw |-> {}, used |-> FALSE]]
    /\ UNCHANGED <<schema, writers, bare, recorded, changes, migrator, provisions>>

\* fn reads and writes projects, and holds its locks on them.
UseProjects(r) ==
    /\ request[r].at = "open"
    /\ LET at == conn[request[r].conn]
           s == Resolved(at.role, at.gen, at.path) IN
         /\ s # Public
         /\ writers' = [writers EXCEPT ![s] = @ \cup {request[r].slug}]
         /\ request' = [request EXCEPT ![r].saw = @ \cup writers'[s], ![r].used = TRUE]
    /\ UNCHANGED <<schema, conn, bare, recorded, changes, migrator, provisions>>

\* COMMIT, or ROLLBACK of what fn did; what was written by others stays.
EndRequest(r) ==
    /\ request[r].at = "open" /\ request' = [request EXCEPT ![r] = Idle]
    /\ conn' = [conn EXCEPT ![request[r].conn] = ForTransaction(request[r].conn)]
    /\ UNCHANGED <<schema, writers, bare, recorded, changes, migrator, provisions>>

(***************************************************************************)
(* poolLeak: a request that forgets to set its tenant, on a connection whose  *)
(* search_path was set for the session.                                      *)
(***************************************************************************)
BareQuery(leaked) ==
    LET s == Resolved(Public, 0, leaked) IN
    /\ bare' = IF s = Public THEN bare ELSE bare \cup writers[s]
    /\ UNCHANGED <<schema, writers, conn, request, recorded, changes, migrator,
                   provisions>>

(***************************************************************************)
(* The administrator: each tenant's DDL is one transaction.                 *)
(***************************************************************************)
Provision(t) ==
    /\ schema[t] = 0 /\ provisions < MaxProvisions /\ provisions' = provisions + 1
    /\ schema' = [schema EXCEPT ![t] = provisions + 1]
    /\ UNCHANGED <<writers, conn, request, bare, recorded, changes, migrator>>

\* What holds a lock in a schema: a transaction that used it.
Holds(t) ==
    \/ \E r \in Request : request[r].at = "open" /\ request[r].slug = t /\ request[r].used
    \/ \E m \in Migrator : migrator[m].at = "change" /\ migrator[m].slug = t

\* DROP SCHEMA CASCADE waits for them.
Offboard(t) ==
    /\ schema[t] # 0 /\ ~Holds(t)
    /\ schema' = [schema EXCEPT ![t] = 0]
    /\ writers' = [writers EXCEPT ![t] = {}]
    /\ recorded' = [recorded EXCEPT ![t] = FALSE] /\ changes' = [changes EXCEPT ![t] = 0]
    /\ UNCHANGED <<conn, request, bare, migrator, provisions>>

(***************************************************************************)
(* migrate: the listed schemas, a transaction for each; an error ends it.    *)
(***************************************************************************)
List(m) ==
    LET listed == {t \in Slug : schema[t] # 0} IN
    /\ migrator[m] = Idle /\ listed # {}
    /\ migrator' = [migrator EXCEPT ![m] = [at |-> "next", left |-> listed,
                                            listed |-> [t \in listed |-> schema[t]]]]
    /\ UNCHANGED <<schema, writers, conn, request, bare, recorded, changes, provisions>>

Passed(m, t) ==
    LET left == migrator[m].left \ {t}
    IN [migrator[m] EXCEPT !.left = left, !.at = IF left = {} THEN "done" ELSE "next"]

\* Is the version recorded?  Without the schema the query fails.
CheckVersion(m, t) ==
    /\ migrator[m].at = "next" /\ t \in migrator[m].left
    /\ migrator' = [migrator EXCEPT ![m] =
         IF schema[t] = 0 THEN [at |-> "failed"]
         ELSE IF recorded[t] THEN Passed(m, t)
         ELSE [at |-> "change", slug |-> t, left |-> @.left, listed |-> @.listed]]
    /\ UNCHANGED <<schema, writers, conn, request, bare, recorded, changes, provisions>>

\* Version 2's DDL and its row, committed together; DDL waits for requests that used the
\* tables, and fails - as the row's primary key would - if another call made the change.
MakeChange(m) ==
    LET t == migrator[m].slug IN
    /\ migrator[m].at = "change"
    /\ \A r \in Request : request[r].at = "open" /\ request[r].used => request[r].slug # t
    /\ IF recorded[t]
       THEN /\ migrator' = [migrator EXCEPT ![m] = [at |-> "failed"]]
            /\ UNCHANGED <<recorded, changes>>
       ELSE /\ migrator' = [migrator EXCEPT ![m] = Passed(m, t)]
            /\ recorded' = [recorded EXCEPT ![t] = TRUE]
            /\ changes' = [changes EXCEPT ![t] = @ + 1]
    /\ UNCHANGED <<schema, writers, conn, request, bare, provisions>>

MigrationFails(m) ==
    /\ migrator[m].at \in {"next", "change"}
    /\ migrator' = [migrator EXCEPT ![m] = [at |-> "failed"]]
    /\ UNCHANGED <<schema, writers, conn, request, bare, recorded, changes, provisions>>

Next ==
    \/ \E r \in Request : \/ \E t \in Slug : LookupTenant(r, t)
                          \/ \E c \in Conn : TakeOnTenant(r, c)
                          \/ UseProjects(r) \/ EndRequest(r)
    \/ \E t \in Slug : BareQuery(t) \/ Provision(t) \/ Offboard(t)
    \/ \E m \in Migrator : \/ List(m) \/ MakeChange(m) \/ MigrationFails(m)
                           \/ \E t \in Slug : CheckVersion(m, t)

TypeOK ==
    /\ schema \in [Slug -> 0..MaxProvisions] /\ provisions \in 0..MaxProvisions
    /\ writers \in [Slug -> SUBSET Slug]
    /\ \A c \in Conn : conn[c].role = conn[c].path
    /\ recorded \in [Slug -> BOOLEAN] /\ changes \in [Slug -> Nat]

\* Requests that share connections see and write their own tenant's rows alone, and a
\* request without a tenant sees none, while tenants come and go and come back; a
\* connection goes back to the pool clean.  Calls of migrate that overlap make a change
\* once, and one that finished leaves every listed tenant that is still there with it.
OneTenantPerRequest ==
    /\ bare = {}
    /\ \A t \in Slug : writers[t] \subseteq {t}
    /\ \A r \in Request : request[r].at = "open" => request[r].saw \subseteq {request[r].slug}
    /\ \A c \in Conn : ~InUse(c) => conn[c] = Clean
    /\ \A t \in Slug : changes[t] = (IF recorded[t] THEN 1 ELSE 0)
    /\ \A m \in Migrator : migrator[m].at = "done" =>
         \A t \in DOMAIN migrator[m].listed : schema[t] = migrator[m].listed[t] => recorded[t]
=============================================================================
