-------------------------- MODULE PlacementProofs --------------------------
(***************************************************************************)
(* Theorems about the programs of MCPlacement.  A step of one program leaves *)
(* the variables of the others alone, so each invariant is kept by the steps *)
(* of its own program.                                                      *)
(***************************************************************************)
EXTENDS MCPlacement, SumTheorems, SequenceTheorems

(***************************************************************************)
(* multitenancy_separate_schema.                                           *)
(***************************************************************************)
LEMMA SchemaSteps == [Next]_vars => Schemas!Next \/ UNCHANGED schemaVars
  BY DEF Next, Others, vars

LEMMA SchemaConstants == MaxProvisions \in Nat /\ Schemas!Public \notin Slug
  BY PlacementAssumption DEF PlacementAssumption, Schemas!Public

Owner == Slug \cup {Schemas!Public}
RequestState ==
  [at : {"idle"}] \cup [at : {"begin"}, slug : Slug]
    \cup [at : {"open"}, slug : Slug, conn : Conn, saw : SUBSET Slug, used : BOOLEAN]
Listing == UNION {[L -> 1..MaxProvisions] : L \in SUBSET Slug}
MigratorState ==
  [at : {"idle", "failed"}]
    \cup [at : {"next", "done"}, left : SUBSET Slug, listed : Listing]
    \cup [at : {"next", "change", "done"}, slug : Slug, left : SUBSET Slug, listed : Listing]

SchemaTypes ==
  /\ schema \in [Slug -> 0..MaxProvisions] /\ provisions \in 0..MaxProvisions
  /\ writers \in [Slug -> SUBSET Slug]
  /\ conn \in [Conn -> [role : Owner, gen : 0..MaxProvisions, path : Owner]]
  /\ request \in [Request -> RequestState]
  /\ recorded \in [Slug -> BOOLEAN] /\ changes \in [Slug -> Nat]
  /\ migrator \in [Migrator -> MigratorState]

\* An open request has a connection of its own, with its tenant's role and search_path;
\* a connection of no request is clean.
OwnConnection ==
  /\ \A r \in Request : request[r].at = "open" =>
       /\ conn[request[r].conn].role = request[r].slug
       /\ conn[request[r].conn].path = request[r].slug
  /\ \A r, q \in Request :
       request[r].at = "open" /\ request[q].at = "open" /\ request[r].conn = request[q].conn
         => r = q
  /\ \A c \in Conn : ~Schemas!InUse(c) => conn[c] = Schemas!Clean

\* Rows are their schema's tenant's, and what a request saw is its own.
OwnRows ==
  /\ bare = {}
  /\ \A t \in Slug : writers[t] \subseteq {t}
  /\ \A r \in Request : request[r].at = "open" => request[r].saw \subseteq {request[r].slug}

\* The change is made once, with its row.
ChangedOnce == \A t \in Slug : changes[t] = (IF recorded[t] THEN 1 ELSE 0)

\* Generations are never given twice, so a schema that a call listed and has passed either
\* is recorded or is gone for good.
PassedIsRecorded ==
  /\ \A t \in Slug : schema[t] <= provisions
  /\ \A m \in Migrator : migrator[m].at \in {"next", "change", "done"} =>
       /\ \A t \in DOMAIN migrator[m].listed :
            /\ migrator[m].listed[t] \in 1..provisions
            /\ t \notin migrator[m].left /\ schema[t] = migrator[m].listed[t] => recorded[t]
       /\ migrator[m].at = "done" => migrator[m].left = {}

SchemaInv == SchemaTypes /\ OwnConnection /\ OwnRows /\ ChangedOnce /\ PassedIsRecorded

LEMMA SchemaInit == Init => SchemaInv
  <1> SUFFICES ASSUME Schemas!Init PROVE SchemaInv
    BY DEF Init
  <1> USE SchemaConstants DEF Schemas!Init
  <1>1. SchemaTypes
    BY DEF SchemaTypes, RequestState, MigratorState, Schemas!Clean, Schemas!Idle, Owner
  <1>2. OwnConnection
    BY DEF OwnConnection, Schemas!Idle
  <1>3. OwnRows
    BY DEF OwnRows, Schemas!Idle
  <1>4. ChangedOnce
    BY DEF ChangedOnce
  <1>5. PassedIsRecorded
    BY DEF PassedIsRecorded, Schemas!Idle
  <1> QED BY <1>1, <1>2, <1>3, <1>4, <1>5 DEF SchemaInv

\* A statement of withTenant changes no schema and no migration.
LEMMA RequestLeavesSchemas ==
  ASSUME SchemaInv, UNCHANGED <<schema, recorded, changes, migrator, provisions>>
  PROVE  ChangedOnce' /\ PassedIsRecorded'
  BY DEF SchemaInv, ChangedOnce, PassedIsRecorded

\* The administrator's transactions leave connections and requests alone.
LEMMA AdminLeavesRequests ==
  ASSUME SchemaInv, UNCHANGED <<conn, request>>
  PROVE  OwnConnection'
  BY DEF SchemaInv, OwnConnection, Schemas!InUse

LEMMA LookupKeeps ==
  ASSUME SchemaInv, NEW r \in Request, NEW t \in Slug, Schemas!LookupTenant(r, t)
  PROVE  SchemaInv'
  <1> USE DEF Schemas!LookupTenant
  <1>1. request[r].at # "open" /\ request'[r].at = "begin"
    BY DEF SchemaInv, SchemaTypes, Schemas!Idle
  <1>2. \A q \in Request : request'[q].at = "open" => q # r /\ request'[q] = request[q]
    BY <1>1 DEF SchemaInv, SchemaTypes
  <1>3. SchemaTypes'
    BY DEF SchemaInv, SchemaTypes, RequestState
  <1>4. \A q \in Request : request[q].at = "open" => request'[q] = request[q]
    BY <1>1 DEF SchemaInv, SchemaTypes
  <1>5. \A c \in Conn : Schemas!InUse(c) => Schemas!InUse(c)'
    BY <1>4 DEF Schemas!InUse
  <1>6. OwnConnection'
    BY <1>2, <1>5 DEF SchemaInv, OwnConnection, Schemas!Clean
  <1>7. OwnRows'
    BY <1>2 DEF SchemaInv, OwnRows
  <1> QED BY <1>3, <1>6, <1>7, RequestLeavesSchemas DEF SchemaInv

LEMMA TakeOnKeeps ==
  ASSUME SchemaInv, NEW r \in Request, NEW c \in Conn, Schemas!TakeOnTenant(r, c)
  PROVE  SchemaInv'
  <1> DEFINE t == request[r].slug
  <1>1. request[r].at = "begin" /\ t \in Slug /\ ~Schemas!InUse(c)
    BY DEF Schemas!TakeOnTenant, SchemaInv, SchemaTypes, RequestState
  <1>2. UNCHANGED <<schema, writers, bare, recorded, changes, migrator, provisions>>
    BY DEF Schemas!TakeOnTenant
  <1>3. \A q \in Request : request[q].at = "open" => q # r
    BY <1>1
  <1>4. \A q \in Request \ {r} : request'[q] = request[q]
    BY DEF Schemas!TakeOnTenant, SchemaInv, SchemaTypes
  <1>5. CASE schema[t] = 0
    <2>1. request' = [request EXCEPT ![r] = [at |-> "idle"]] /\ UNCHANGED conn
      BY <1>5 DEF Schemas!TakeOnTenant, Schemas!Idle
    <2>2. request'[r].at = "idle"
      BY <2>1 DEF SchemaInv, SchemaTypes
    <2>3. SchemaTypes'
      BY <1>2, <2>1 DEF SchemaInv, SchemaTypes, RequestState
    <2>4. \A d \in Conn : Schemas!InUse(d) => Schemas!InUse(d)'
      BY <1>3, <1>4 DEF Schemas!InUse
    <2>5. OwnConnection'
      BY <1>4, <2>1, <2>2, <2>4 DEF SchemaInv, OwnConnection, Schemas!Clean
    <2>6. OwnRows'
      BY <1>2, <1>4, <2>2 DEF SchemaInv, OwnRows
    <2> QED BY <1>2, <2>3, <2>5, <2>6, RequestLeavesSchemas DEF SchemaInv
  <1>6. CASE schema[t] # 0
    <2>1. /\ conn' = [conn EXCEPT ![c] = [role |-> t, gen |-> schema[t], path |-> t]]
          /\ request' = [request EXCEPT ![r] =
               [at |-> "open", slug |-> t, conn |-> c, saw |-> {}, used |-> FALSE]]
      BY <1>6 DEF Schemas!TakeOnTenant
    <2>2. request'[r] = [at |-> "open", slug |-> t, conn |-> c, saw |-> {}, used |-> FALSE]
      BY <2>1 DEF SchemaInv, SchemaTypes
    <2>3. conn'[c].role = t /\ conn'[c].path = t /\ \A d \in Conn \ {c} : conn'[d] = conn[d]
      BY <2>1 DEF SchemaInv, SchemaTypes
    <2>4. SchemaTypes'
      BY <1>1, <1>2, <2>1 DEF SchemaInv, SchemaTypes, RequestState, Owner
    <2>5. \A q \in Request \ {r} : request[q].at = "open" => request[q].conn # c
      BY <1>1 DEF Schemas!InUse
    <2>6. \A d \in Conn : Schemas!InUse(d) => Schemas!InUse(d)'
      BY <1>3, <1>4 DEF Schemas!InUse
    <2>7. Schemas!InUse(c)'
      BY <2>2 DEF Schemas!InUse
    <2>8. OwnConnection'
      <3>1. ASSUME NEW q \in Request, request'[q].at = "open"
            PROVE  /\ conn'[request'[q].conn].role = request'[q].slug
                   /\ conn'[request'[q].conn].path = request'[q].slug
        <4>1. CASE q = r
          BY <2>2, <2>3, <4>1
        <4>2. CASE q # r
          <5>1. request'[q] = request[q] /\ request[q].conn \in Conn \ {c}
            BY <1>4, <2>5, <3>1, <4>2 DEF SchemaInv, SchemaTypes, RequestState
          <5> QED BY <2>3, <3>1, <5>1 DEF SchemaInv, OwnConnection
        <4> QED BY <4>1, <4>2
      <3>2. \A p, q \in Request :
              request'[p].at = "open" /\ request'[q].at = "open"
                /\ request'[p].conn = request'[q].conn => p = q
        BY <1>4, <2>2, <2>5 DEF SchemaInv, OwnConnection
      <3>3. \A d \in Conn : ~Schemas!InUse(d)' => conn'[d] = Schemas!Clean
        BY <2>3, <2>6, <2>7 DEF SchemaInv, OwnConnection
      <3> QED BY <3>1, <3>2, <3>3 DEF OwnConnection, Schemas!Clean
    <2>9. OwnRows'
      BY <1>2, <1>4, <2>2 DEF SchemaInv, OwnRows
    <2> QED BY <1>2, <2>4, <2>8, <2>9, RequestLeavesSchemas DEF SchemaInv
  <1> QED BY <1>5, <1>6

LEMMA UseKeeps ==
  ASSUME SchemaInv, NEW r \in Request, Schemas!UseProjects(r)
  PROVE  SchemaInv'
  <1> DEFINE t == request[r].slug
             at == conn[request[r].conn]
             s == Schemas!Resolved(at.role, at.gen, at.path)
  <1>1. request[r].at = "open" /\ t \in Slug /\ request[r].conn \in Conn /\ at.path = t
    BY DEF Schemas!UseProjects, SchemaInv, SchemaTypes, RequestState, OwnConnection
  <1>2. s = t
    BY <1>1 DEF Schemas!UseProjects, Schemas!Resolved
  <1>3. /\ writers' = [writers EXCEPT ![t] = @ \cup {t}]
        /\ request' = [request EXCEPT ![r].saw = @ \cup writers'[t], ![r].used = TRUE]
        /\ UNCHANGED <<schema, conn, bare, recorded, changes, migrator, provisions>>
    BY <1>2 DEF Schemas!UseProjects
  <1>4. writers' \in [Slug -> SUBSET Slug] /\ \A u \in Slug : writers'[u] \subseteq {u}
    BY <1>1, <1>3 DEF SchemaInv, SchemaTypes, OwnRows
  <1>5. request'[r] = [at |-> "open", slug |-> t, conn |-> request[r].conn,
                       saw |-> request[r].saw \cup writers'[t], used |-> TRUE]
    <2>1. request[r] \in [at : {"open"}, slug : Slug, conn : Conn, saw : SUBSET Slug,
                          used : BOOLEAN]
      BY <1>1 DEF SchemaInv, SchemaTypes, RequestState
    <2> QED BY <1>3, <2>1 DEF SchemaInv, SchemaTypes
  <1>6. \A q \in Request \ {r} : request'[q] = request[q]
    BY <1>3 DEF SchemaInv, SchemaTypes
  <1>7. request[r].saw \in SUBSET Slug
    BY <1>1 DEF SchemaInv, SchemaTypes, RequestState
  <1>8. SchemaTypes'
    <2>1. request'[r] \in RequestState
      BY <1>1, <1>4, <1>5, <1>7 DEF RequestState
    <2>2. request' \in [Request -> RequestState]
      BY <1>3, <1>6, <2>1 DEF SchemaInv, SchemaTypes
    <2> QED BY <1>3, <1>4, <2>2 DEF SchemaInv, SchemaTypes
  <1>9. \A q \in Request : /\ request'[q].at = request[q].at
                           /\ request[q].at = "open" => /\ request'[q].slug = request[q].slug
                                                        /\ request'[q].conn = request[q].conn
    BY <1>1, <1>5, <1>6
  <1>10. \A c \in Conn : Schemas!InUse(c)' <=> Schemas!InUse(c)
    BY <1>9 DEF Schemas!InUse
  <1>11. OwnConnection'
    <2>1. ASSUME NEW q \in Request, request'[q].at = "open"
          PROVE  /\ conn'[request'[q].conn].role = request'[q].slug
                 /\ conn'[request'[q].conn].path = request'[q].slug
      BY <1>3, <1>9, <2>1 DEF SchemaInv, OwnConnection
    <2>2. \A p, q \in Request :
            request'[p].at = "open" /\ request'[q].at = "open"
              /\ request'[p].conn = request'[q].conn => p = q
      BY <1>9 DEF SchemaInv, OwnConnection
    <2>3. \A c \in Conn : ~Schemas!InUse(c)' => conn'[c] = Schemas!Clean
      BY <1>3, <1>10 DEF SchemaInv, OwnConnection
    <2> QED BY <2>1, <2>2, <2>3 DEF OwnConnection, Schemas!Clean
  <1>12. OwnRows'
    <2>1. request'[r].saw \subseteq {t}
      BY <1>1, <1>4, <1>5 DEF SchemaInv, OwnRows
    <2>2. ASSUME NEW q \in Request, request'[q].at = "open"
          PROVE  request'[q].saw \subseteq {request'[q].slug}
      <3>1. CASE q = r
        BY <1>5, <2>1, <3>1
      <3>2. CASE q # r
        BY <1>6, <2>2, <3>2 DEF SchemaInv, OwnRows
      <3> QED BY <3>1, <3>2
    <2>3. bare' = {}
      BY <1>3 DEF SchemaInv, OwnRows
    <2> QED BY <1>4, <2>2, <2>3 DEF OwnRows
  <1> QED BY <1>3, <1>8, <1>11, <1>12, RequestLeavesSchemas DEF SchemaInv

LEMMA EndKeeps ==
  ASSUME SchemaInv, NEW r \in Request, Schemas!EndRequest(r)
  PROVE  SchemaInv'
  <1> DEFINE c == request[r].conn
  <1>1. request[r].at = "open" /\ c \in Conn
    BY DEF Schemas!EndRequest, SchemaInv, SchemaTypes, RequestState
  <1>2. /\ request' = [request EXCEPT ![r] = [at |-> "idle"]]
        /\ conn' = [conn EXCEPT ![c] = Schemas!Clean]
        /\ UNCHANGED <<schema, writers, bare, recorded, changes, migrator, provisions>>
    BY DEF Schemas!EndRequest, Schemas!Idle, Schemas!ForTransaction
  <1>3. request'[r].at = "idle" /\ \A q \in Request \ {r} : request'[q] = request[q]
    BY <1>2 DEF SchemaInv, SchemaTypes
  <1>4. conn'[c] = Schemas!Clean /\ \A d \in Conn \ {c} : conn'[d] = conn[d]
    BY <1>1, <1>2 DEF SchemaInv, SchemaTypes
  <1>5. SchemaTypes'
    <2>1. Schemas!Clean \in [role : Owner, gen : 0..MaxProvisions, path : Owner]
      BY SchemaConstants DEF Owner, Schemas!Clean
    <2>2. conn' \in [Conn -> [role : Owner, gen : 0..MaxProvisions, path : Owner]]
      BY <1>2, <2>1 DEF SchemaInv, SchemaTypes
    <2>3. [at |-> "idle"] \in RequestState
      BY DEF RequestState
    <2>4. request' \in [Request -> RequestState]
      BY <1>2, <2>3 DEF SchemaInv, SchemaTypes
    <2> QED BY <1>2, <2>2, <2>4 DEF SchemaInv, SchemaTypes
  <1>6. \A q \in Request : request'[q].at = "open" =>
          q # r /\ request'[q] = request[q] /\ request[q].conn \in Conn \ {c}
    BY <1>1, <1>3 DEF SchemaInv, SchemaTypes, RequestState, OwnConnection
  <1>7. \A d \in Conn \ {c} : Schemas!InUse(d) => Schemas!InUse(d)'
    BY <1>1, <1>3 DEF Schemas!InUse
  <1>8. \A d \in Conn : ~Schemas!InUse(d)' => conn'[d] = Schemas!Clean
    BY <1>4, <1>7 DEF SchemaInv, OwnConnection
  <1>9. OwnConnection'
    BY <1>4, <1>6, <1>8 DEF SchemaInv, OwnConnection, Schemas!Clean
  <1>10. OwnRows'
    BY <1>2, <1>6 DEF SchemaInv, OwnRows
  <1> QED BY <1>2, <1>5, <1>9, <1>10, RequestLeavesSchemas DEF SchemaInv

LEMMA BareKeeps ==
  ASSUME SchemaInv, NEW t \in Slug, Schemas!BareQuery(t)
  PROVE  SchemaInv'
  <1>1. Schemas!Resolved(Schemas!Public, 0, t) = Schemas!Public
    BY SchemaConstants DEF Schemas!Resolved
  <1>2. UNCHANGED <<schema, writers, conn, request, bare, recorded, changes, migrator,
                    provisions>>
    BY <1>1 DEF Schemas!BareQuery
  <1>3. SchemaTypes' /\ OwnRows'
    BY <1>2 DEF SchemaInv, SchemaTypes, OwnRows
  <1> QED BY <1>2, <1>3, AdminLeavesRequests, RequestLeavesSchemas DEF SchemaInv

LEMMA ProvisionKeeps ==
  ASSUME SchemaInv, NEW t \in Slug, Schemas!Provision(t)
  PROVE  SchemaInv'
  <1> USE SchemaConstants DEF Schemas!Provision
  <1>1. SchemaTypes' /\ OwnRows' /\ ChangedOnce'
    BY DEF SchemaInv, SchemaTypes, OwnRows, ChangedOnce
  <1>2. /\ provisions \in Nat /\ provisions' = provisions + 1
        /\ schema'[t] = provisions + 1 /\ \A u \in Slug \ {t} : schema'[u] = schema[u]
        /\ \A u \in Slug : schema[u] \in Nat
    BY DEF SchemaInv, SchemaTypes
  <1>3. \A u \in Slug : schema'[u] <= provisions'
    BY <1>2 DEF SchemaInv, PassedIsRecorded
  <1>4. ASSUME NEW m \in Migrator, migrator[m].at \in {"next", "change", "done"},
               NEW u \in DOMAIN migrator[m].listed
        PROVE  /\ migrator[m].listed[u] \in 1..provisions'
               /\ u \notin migrator[m].left /\ schema'[u] = migrator[m].listed[u]
                    => recorded[u]
    <2>1. u \in Slug
      BY <1>4 DEF SchemaInv, SchemaTypes, MigratorState, Listing
    <2>2. migrator[m].listed[u] \in 1..provisions
      BY <1>4 DEF SchemaInv, PassedIsRecorded
    <2> QED BY <1>2, <1>4, <2>1, <2>2 DEF SchemaInv, PassedIsRecorded
  <1>5. PassedIsRecorded'
    BY <1>3, <1>4 DEF SchemaInv, PassedIsRecorded
  <1> QED BY <1>1, <1>5, AdminLeavesRequests DEF SchemaInv

LEMMA OffboardKeeps ==
  ASSUME SchemaInv, NEW t \in Slug, Schemas!Offboard(t)
  PROVE  SchemaInv'
  <1> USE SchemaConstants DEF Schemas!Offboard
  <1>1. SchemaTypes'
    BY DEF SchemaInv, SchemaTypes
  <1>2. OwnRows' /\ ChangedOnce'
    BY DEF SchemaInv, SchemaTypes, OwnRows, ChangedOnce
  <1>3. /\ provisions' = provisions /\ provisions \in Nat
        /\ schema'[t] = 0 /\ \A u \in Slug \ {t} : schema'[u] = schema[u]
        /\ \A u \in Slug \ {t} : recorded'[u] = recorded[u]
    BY DEF SchemaInv, SchemaTypes
  <1>4. \A u \in Slug : schema'[u] <= provisions'
    BY <1>3 DEF SchemaInv, PassedIsRecorded
  <1>5. ASSUME NEW m \in Migrator, migrator[m].at \in {"next", "change", "done"},
               NEW u \in DOMAIN migrator[m].listed
        PROVE  /\ migrator[m].listed[u] \in 1..provisions'
               /\ u \notin migrator[m].left /\ schema'[u] = migrator[m].listed[u]
                    => recorded'[u]
    <2>1. u \in Slug
      BY <1>5 DEF SchemaInv, SchemaTypes, MigratorState, Listing
    <2>2. migrator[m].listed[u] \in 1..provisions
      BY <1>5 DEF SchemaInv, PassedIsRecorded
    <2>3. u = t => schema'[u] # migrator[m].listed[u]
      BY <1>3, <2>2
    <2> QED BY <1>3, <1>5, <2>1, <2>2, <2>3 DEF SchemaInv, PassedIsRecorded
  <1>6. PassedIsRecorded'
    BY <1>4, <1>5 DEF SchemaInv, PassedIsRecorded
  <1> QED BY <1>1, <1>2, <1>6, AdminLeavesRequests DEF SchemaInv
\* A step of migrate m that leaves the schemas as they are, what the other calls listed
\* alone, and keeps or passes what m listed.
LEMMA MigratorKeeps ==
  ASSUME SchemaInv, NEW m \in Migrator, NEW w \in MigratorState,
         migrator' = [migrator EXCEPT ![m] = w],
         UNCHANGED <<schema, writers, conn, request, bare, provisions>>,
         recorded' \in [Slug -> BOOLEAN], changes' \in [Slug -> Nat],
         ChangedOnce',
         \A t \in Slug : recorded[t] => recorded'[t],
         w.at \in {"next", "change", "done"} =>
           /\ \A t \in DOMAIN w.listed :
                /\ w.listed[t] \in 1..provisions
                /\ t \notin w.left /\ schema[t] = w.listed[t] => recorded'[t]
           /\ w.at = "done" => w.left = {}
  PROVE  SchemaInv'
  <1>1. SchemaTypes' /\ OwnRows'
    BY DEF SchemaInv, SchemaTypes, OwnRows
  <1>2. \A t \in Slug : schema'[t] <= provisions'
    BY DEF SchemaInv, PassedIsRecorded
  <1>3. ASSUME NEW n \in Migrator, migrator'[n].at \in {"next", "change", "done"}
        PROVE  /\ \A t \in DOMAIN migrator'[n].listed :
                    /\ migrator'[n].listed[t] \in 1..provisions'
                    /\ t \notin migrator'[n].left /\ schema'[t] = migrator'[n].listed[t]
                         => recorded'[t]
               /\ migrator'[n].at = "done" => migrator'[n].left = {}
    <2>1. CASE n = m
      <3>1. migrator'[n] = w
        BY <2>1 DEF SchemaInv, SchemaTypes
      <3> QED BY <1>3, <3>1
    <2>2. CASE n # m
      <3>1. migrator'[n] = migrator[n]
        BY <2>2 DEF SchemaInv, SchemaTypes
      <3>2. DOMAIN migrator[n].listed \subseteq Slug
        BY <1>3, <3>1 DEF SchemaInv, SchemaTypes, MigratorState, Listing
      <3> QED BY <1>3, <3>1, <3>2 DEF SchemaInv, PassedIsRecorded
    <2> QED BY <2>1, <2>2
  <1>4. PassedIsRecorded'
    BY <1>2, <1>3 DEF PassedIsRecorded
  <1> QED BY <1>1, <1>4, AdminLeavesRequests DEF SchemaInv

\* Passing a schema whose change is recorded.
LEMMA PassedState ==
  ASSUME SchemaInv, NEW m \in Migrator, NEW t \in Slug,
         migrator[m].at \in {"next", "change"}
  PROVE  LET w == Schemas!Passed(m, t) IN
           /\ w \in MigratorState /\ w.at \in {"next", "done"}
           /\ w.listed = migrator[m].listed /\ w.left = migrator[m].left \ {t}
           /\ w.at = "done" => w.left = {}
  <1> DEFINE L == migrator[m].left \ {t}
             n == IF L = {} THEN "done" ELSE "next"
  <1>0. Schemas!Passed(m, t) = [migrator[m] EXCEPT !.left = L, !.at = n]
    BY Zenon DEF Schemas!Passed
  <1>1. CASE migrator[m] \in [at : {"next", "done"}, left : SUBSET Slug, listed : Listing]
    <2>1. Schemas!Passed(m, t) = [at |-> n, left |-> L, listed |-> migrator[m].listed]
      BY <1>0, <1>1
    <2> QED BY <1>1, <2>1 DEF MigratorState
  <1>2. CASE migrator[m] \in [at : {"next", "change", "done"}, slug : Slug,
                              left : SUBSET Slug, listed : Listing]
    <2>1. Schemas!Passed(m, t) = [at |-> n, slug |-> migrator[m].slug, left |-> L,
                                  listed |-> migrator[m].listed]
      BY <1>0, <1>2
    <2> QED BY <1>2, <2>1 DEF MigratorState
  <1> QED BY <1>1, <1>2 DEF SchemaInv, SchemaTypes, MigratorState

LEMMA FailedState == [at |-> "failed"] \in MigratorState
  BY DEF MigratorState

LEMMA ListKeeps ==
  ASSUME SchemaInv, NEW m \in Migrator, Schemas!List(m)
  PROVE  SchemaInv'
  <1> DEFINE S == {t \in Slug : schema[t] # 0}
             f == [t \in S |-> schema[t]]
             w == [at |-> "next", left |-> S, listed |-> f]
  <1>1. /\ migrator' = [migrator EXCEPT ![m] = w]
        /\ UNCHANGED <<schema, writers, conn, request, bare, provisions, recorded, changes>>
    BY DEF Schemas!List
  <1>2. \A t \in S : f[t] \in 1..MaxProvisions /\ f[t] \in 1..provisions
    BY SchemaConstants DEF SchemaInv, SchemaTypes, PassedIsRecorded
  <1>3. w \in MigratorState
    <2>1. f \in [S -> 1..MaxProvisions]
      BY <1>2
    <2>2. S \in SUBSET Slug
      OBVIOUS
    <2> HIDE DEF f, S
    <2>3. f \in Listing
      BY <2>1, <2>2 DEF Listing
    <2> QED BY <2>2, <2>3 DEF MigratorState
  <1>4. recorded' \in [Slug -> BOOLEAN] /\ changes' \in [Slug -> Nat] /\ ChangedOnce'
    BY <1>1 DEF SchemaInv, SchemaTypes, ChangedOnce
  <1>5. \A t \in Slug : recorded[t] => recorded'[t]
    BY <1>1
  <1>6. w.at \in {"next", "change", "done"} =>
          /\ \A t \in DOMAIN w.listed :
               /\ w.listed[t] \in 1..provisions
               /\ t \notin w.left /\ schema[t] = w.listed[t] => recorded'[t]
          /\ w.at = "done" => w.left = {}
    BY <1>2
  <1> HIDE DEF w
  <1> QED BY <1>1, <1>3, <1>4, <1>5, <1>6, MigratorKeeps

LEMMA CheckKeeps ==
  ASSUME SchemaInv, NEW m \in Migrator, NEW t \in Slug, Schemas!CheckVersion(m, t)
  PROVE  SchemaInv'
  <1>1. migrator[m].at = "next" /\ t \in migrator[m].left
        /\ UNCHANGED <<schema, writers, conn, request, bare, provisions, recorded, changes>>
    BY DEF Schemas!CheckVersion
  <1>2. recorded' \in [Slug -> BOOLEAN] /\ changes' \in [Slug -> Nat] /\ ChangedOnce'
    BY <1>1 DEF SchemaInv, SchemaTypes, ChangedOnce
  <1>3. \A u \in Slug : recorded[u] => recorded'[u]
    BY <1>1
  <1>4. /\ DOMAIN migrator[m].listed \subseteq Slug
        /\ migrator[m].left \in SUBSET Slug /\ migrator[m].listed \in Listing
        /\ \A u \in DOMAIN migrator[m].listed :
             /\ migrator[m].listed[u] \in 1..provisions
             /\ u \notin migrator[m].left /\ schema[u] = migrator[m].listed[u] => recorded[u]
    BY <1>1 DEF SchemaInv, SchemaTypes, MigratorState, Listing, PassedIsRecorded
  <1>5. CASE schema[t] = 0
    <2> DEFINE w == [at |-> "failed"]
    <2>1. migrator' = [migrator EXCEPT ![m] = w]
      BY <1>5 DEF Schemas!CheckVersion
    <2>2. w.at \notin {"next", "change", "done"}
      OBVIOUS
    <2> QED BY <1>1, <1>2, <1>3, <2>1, <2>2, FailedState, MigratorKeeps
  <1>6. CASE schema[t] # 0 /\ recorded[t]
    <2> DEFINE w == Schemas!Passed(m, t)
    <2>1. migrator' = [migrator EXCEPT ![m] = w]
      BY <1>6 DEF Schemas!CheckVersion
    <2>2. /\ w \in MigratorState /\ w.at \in {"next", "done"}
          /\ w.listed = migrator[m].listed /\ w.left = migrator[m].left \ {t}
          /\ w.at = "done" => w.left = {}
      BY <1>1, PassedState
    <2> HIDE DEF w
    <2>3. w.at \in {"next", "change", "done"} =>
            /\ \A u \in DOMAIN w.listed :
                 /\ w.listed[u] \in 1..provisions
                 /\ u \notin w.left /\ schema[u] = w.listed[u] => recorded'[u]
            /\ w.at = "done" => w.left = {}
      BY <1>1, <1>4, <1>6, <2>2
    <2> QED BY <1>1, <1>2, <1>3, <2>1, <2>2, <2>3, MigratorKeeps
  <1>7. CASE schema[t] # 0 /\ ~recorded[t]
    <2> DEFINE w == [at |-> "change", slug |-> t, left |-> migrator[m].left,
                     listed |-> migrator[m].listed]
    <2>1. migrator' = [migrator EXCEPT ![m] = w]
      BY <1>7 DEF Schemas!CheckVersion, SchemaInv, SchemaTypes
    <2>2. w \in MigratorState
      BY <1>4 DEF MigratorState
    <2>3. w.at \in {"next", "change", "done"} =>
            /\ \A u \in DOMAIN w.listed :
                 /\ w.listed[u] \in 1..provisions
                 /\ u \notin w.left /\ schema[u] = w.listed[u] => recorded'[u]
            /\ w.at = "done" => w.left = {}
      BY <1>1, <1>4
    <2> HIDE DEF w
    <2> QED BY <1>1, <1>2, <1>3, <2>1, <2>2, <2>3, MigratorKeeps
  <1> QED BY <1>5, <1>6, <1>7

LEMMA ChangeKeeps ==
  ASSUME SchemaInv, NEW m \in Migrator, Schemas!MakeChange(m)
  PROVE  SchemaInv'
  <1> DEFINE t == migrator[m].slug
  <1>1. migrator[m].at = "change" /\ UNCHANGED <<schema, writers, conn, request, bare, provisions>>
    BY DEF Schemas!MakeChange
  <1>2. t \in Slug
    BY <1>1 DEF SchemaInv, SchemaTypes, MigratorState
  <1>3. CASE recorded[t]
    <2> DEFINE w == [at |-> "failed"]
    <2>1. migrator' = [migrator EXCEPT ![m] = w] /\ UNCHANGED <<recorded, changes>>
      BY <1>3 DEF Schemas!MakeChange
    <2>2. w.at \notin {"next", "change", "done"}
      OBVIOUS
    <2>3. recorded' \in [Slug -> BOOLEAN] /\ changes' \in [Slug -> Nat] /\ ChangedOnce'
      BY <2>1 DEF SchemaInv, SchemaTypes, ChangedOnce
    <2>4. \A u \in Slug : recorded[u] => recorded'[u]
      BY <2>1
    <2> QED BY <1>1, <2>1, <2>2, <2>3, <2>4, FailedState, MigratorKeeps
  <1>4. CASE ~recorded[t]
    <2> DEFINE w == Schemas!Passed(m, t)
    <2>1. /\ migrator' = [migrator EXCEPT ![m] = w]
          /\ recorded' = [recorded EXCEPT ![t] = TRUE]
          /\ changes' = [changes EXCEPT ![t] = @ + 1]
      BY <1>4 DEF Schemas!MakeChange
    <2>2. /\ w \in MigratorState /\ w.at \in {"next", "done"}
          /\ w.listed = migrator[m].listed /\ w.left = migrator[m].left \ {t}
          /\ w.at = "done" => w.left = {}
      BY <1>1, <1>2, PassedState
    <2> HIDE DEF w
    <2>3. recorded' \in [Slug -> BOOLEAN] /\ changes' \in [Slug -> Nat]
      BY <1>2, <2>1 DEF SchemaInv, SchemaTypes
    <2>4. recorded'[t] /\ \A u \in Slug : recorded[u] => recorded'[u]
      BY <1>2, <2>1 DEF SchemaInv, SchemaTypes
    <2>5. ChangedOnce'
      BY <1>2, <1>4, <2>1 DEF SchemaInv, SchemaTypes, ChangedOnce
    <2>6. /\ DOMAIN migrator[m].listed \subseteq Slug
          /\ \A u \in DOMAIN migrator[m].listed :
               /\ migrator[m].listed[u] \in 1..provisions
               /\ u \notin migrator[m].left /\ schema[u] = migrator[m].listed[u]
                    => recorded[u]
      BY <1>1 DEF SchemaInv, SchemaTypes, MigratorState, Listing, PassedIsRecorded
    <2>7. w.at \in {"next", "change", "done"} =>
            /\ \A u \in DOMAIN w.listed :
                 /\ w.listed[u] \in 1..provisions
                 /\ u \notin w.left /\ schema[u] = w.listed[u] => recorded'[u]
            /\ w.at = "done" => w.left = {}
      BY <2>2, <2>4, <2>6
    <2> QED BY <1>1, <2>1, <2>2, <2>3, <2>4, <2>5, <2>7, MigratorKeeps
  <1> QED BY <1>3, <1>4

LEMMA FailureKeeps ==
  ASSUME SchemaInv, NEW m \in Migrator, Schemas!MigrationFails(m)
  PROVE  SchemaInv'
  <1> DEFINE w == [at |-> "failed"]
  <1>1. /\ migrator' = [migrator EXCEPT ![m] = w]
        /\ UNCHANGED <<schema, writers, conn, request, bare, provisions, recorded, changes>>
    BY DEF Schemas!MigrationFails
  <1>2. w.at \notin {"next", "change", "done"}
    OBVIOUS
  <1>3. recorded' \in [Slug -> BOOLEAN] /\ changes' \in [Slug -> Nat] /\ ChangedOnce'
    BY <1>1 DEF SchemaInv, SchemaTypes, ChangedOnce
  <1>4. \A u \in Slug : recorded[u] => recorded'[u]
    BY <1>1
  <1> QED BY <1>1, <1>2, <1>3, <1>4, FailedState, MigratorKeeps

LEMMA SchemaStep == SchemaInv /\ [Next]_vars => SchemaInv'
  <1>1. CASE UNCHANGED schemaVars
    BY <1>1 DEF schemaVars, SchemaInv, SchemaTypes, OwnConnection, Schemas!InUse, OwnRows,
                ChangedOnce, PassedIsRecorded
  <1>2. ASSUME SchemaInv, Schemas!Next PROVE SchemaInv'
    BY <1>2, LookupKeeps, TakeOnKeeps, UseKeeps, EndKeeps, BareKeeps, ProvisionKeeps,
       OffboardKeeps, ListKeeps, CheckKeeps, ChangeKeeps, FailureKeeps
       DEF Schemas!Next
  <1> QED BY <1>1, <1>2, SchemaSteps

\* For any tenants, requests, connections and migrations: a request of withTenant reads
\* and writes its own tenant's rows alone and a request that forgot its tenant sees none,
\* while tenants are offboarded and provisioned anew; connections go back to the pool
\* clean; and migrations that overlap make the change once.
THEOREM RequestsKeepToTheirTenant == Spec => []OneTenantPerRequest
  <1>1. SchemaInv => OneTenantPerRequest
    <2> SUFFICES ASSUME SchemaInv PROVE OneTenantPerRequest
      OBVIOUS
    <2>1. ASSUME NEW m \in Migrator, migrator[m].at = "done",
                 NEW t \in DOMAIN migrator[m].listed, schema[t] = migrator[m].listed[t]
          PROVE  recorded[t]
      BY <2>1 DEF SchemaInv, PassedIsRecorded
    <2> QED BY <2>1 DEF SchemaInv, OwnConnection, OwnRows, ChangedOnce, OneTenantPerRequest,
                        Schemas!OneTenantPerRequest
  <1> QED BY <1>1, SchemaInit, SchemaStep, PTL DEF Spec

(***************************************************************************)
(* multitenancy_separate_database.                                         *)
(***************************************************************************)
LEMMA DatabaseSteps == [Next]_vars => Databases!Next \/ UNCHANGED databaseVars
  BY DEF Next, Others, vars

\* What is left of a call's statements, by their number.
P6 == <<"create_role", "create", "limited", "closed", "owned", "insert">>
P5 == <<"create", "limited", "closed", "owned", "insert">>
P4 == <<"limited", "closed", "owned", "insert">>
P3 == <<"closed", "owned", "insert">>
P2 == <<"owned", "insert">>
P1 == <<"insert">>
M8 == <<"drop_pool", "create_role", "dump", "restore", "limited", "update", "drop_database",
        "drop_role">>
M7 == <<"create_role", "dump", "restore", "limited", "update", "drop_database", "drop_role">>
M6 == <<"dump", "restore", "limited", "update", "drop_database", "drop_role">>
M5 == <<"restore", "limited", "update", "drop_database", "drop_role">>
M4 == <<"limited", "update", "drop_database", "drop_role">>
M3 == <<"update", "drop_database", "drop_role">>
M2 == <<"drop_database", "drop_role">>
M1 == <<"drop_role">>
O4 == <<"drop_pool", "drop_database", "drop_role", "delete">>
O3 == <<"drop_database", "drop_role", "delete">>
O2 == <<"drop_role", "delete">>
O1 == <<"delete">>

Server == Databases!Server
Nowhere == Databases!Nowhere
Dbs == {Databases!NoDatabase} \cup
  [exists : {TRUE}, invoices : SUBSET (1..MaxWrites), version : {1, 2},
   limited : BOOLEAN, closed : BOOLEAN, owned : BOOLEAN]
CallState ==
  [at : {"provision"}, slug : Slug, from : Server, to : Server, dump : Dbs,
   todo : {P6, P5, P4, P3, P2, P1}]
  \cup [at : {"move"}, slug : Slug, from : Server, to : Server, dump : Dbs,
        todo : {M8, M7, M6, M5, M4, M3, M2, M1}]
  \cup [at : {"offboard"}, slug : Slug, from : Server, to : Server, dump : Dbs,
        todo : {O4, O3, O2, O1}]
AdminState ==
  CallState \cup [at : {"idle", "ended"}]
    \cup [at : {"migrate"}, listed : SUBSET Slug, left : SUBSET Slug]
    \cup [at : {"reset"}, step : 1..4, left : SUBSET Slug]

Left == Len(admin.todo)
Alive == Databases!Running
InCall(kind, t) == admin.at = kind /\ admin.slug = t

DatabaseTypes ==
  /\ catalogue \in [Slug -> Server \cup {Nowhere}] /\ pools \in [Slug -> Server \cup {Nowhere}]
  /\ database \in [Server -> [Slug -> Dbs]] /\ role \in [Server -> SUBSET Slug]
  /\ opening \in {Databases!Idle} \cup
       [at : {"open"}, slug : Slug, server : Server, moving : BOOLEAN]
  /\ admin \in AdminState
  /\ invoices \in [Slug -> SUBSET (1..MaxWrites)] /\ late \subseteq 1..MaxWrites
  /\ migrated \subseteq Slug

\* d has what tenant t was promised.
GoodCopy(d, t) ==
  /\ d.exists /\ d.limited /\ d.closed /\ d.owned
  /\ invoices[t] \ late \subseteq d.invoices
  /\ t \in migrated => d.version = 2

CataloguedAreServed ==
  \A t \in Slug : catalogue[t] # Nowhere /\ t \notin cut =>
    GoodCopy(database[catalogue[t]][t], t) /\ t \in role[catalogue[t]]

\* Where the catalogue stands during each call.
CatalogueDuringCalls ==
  /\ admin.at = "provision" => catalogue[admin.slug] = Nowhere
  /\ admin.at = "move" =>
       admin.from # admin.to /\ catalogue[admin.slug] = (IF Left <= 2 THEN admin.to ELSE admin.from)
  /\ admin.at = "offboard" => catalogue[admin.slug] = admin.from
  /\ admin.at = "migrate" => \A t \in admin.listed : catalogue[t] # Nowhere
  /\ Alive => \A t \in cut : InCall("offboard", t) /\ Left <= 2
  /\ admin.at = "offboard" /\ Left <= 2 => admin.slug \in cut

Reached(t, s) ==
  \/ pools[t] = s
  \/ opening # Databases!Idle /\ opening.slug = t /\ opening.server = s

\* A database that a pool leads to is where the catalogue says, or the call in progress has
\* made or not yet dropped it: what an earlier run's reset left over is never reached.
NoStrayDatabase ==
  /\ Alive => \A t \in Slug, s \in Server : Reached(t, s) /\ database[s][t].exists =>
       \/ s = catalogue[t]
       \/ InCall("provision", t) /\ s = admin.to /\ Left <= 4
       \/ InCall("move", t) /\ s = admin.to /\ Left \in {3, 4}
       \/ InCall("move", t) /\ s = admin.from /\ Left = 2
  /\ admin.at = "offboard" /\ Left <= 2 => ~database[admin.from][admin.slug].exists

\* What the calls have prepared before they write the catalogue.
Prepared ==
  LET d == database[admin.to][admin.slug] IN
  /\ admin.at = "provision" =>
       /\ Left <= 5 => admin.slug \in role[admin.to]
       /\ Left <= 4 => d.exists
       /\ Left <= 3 => d.limited
       /\ Left <= 2 => d.closed
       /\ Left <= 1 => d.owned
  /\ admin.at = "move" =>
       /\ Left \in 3..6 => admin.slug \in role[admin.to]
       /\ Left <= 5 => admin.dump.exists
       /\ Left \in 3..5 => GoodCopy(admin.dump, admin.slug)
       /\ Left \in {3, 4} => GoodCopy(d, admin.slug)

\* A tenant outside the catalogue was promised nothing but what its new database has.
NothingPromised ==
  Alive => \A t \in Slug : catalogue[t] = Nowhere =>
    /\ t \notin migrated
    /\ invoices[t] \subseteq
         (IF InCall("provision", t) /\ Left <= 4 THEN database[admin.to][t].invoices ELSE {})

MigratedSoFar ==
  admin.at = "migrate" =>
    \A t \in admin.listed \ admin.left : database[catalogue[t]][t].version = 2

\* Once its pool is dropped, only a lookup during the call makes a tenant another.
PoolsAfterDrop ==
  /\ ~Alive => pools = Databases!NotPlaced /\ opening = Databases!Idle
  /\ \A t \in Slug : pools[t] \notin {catalogue[t], Nowhere} => t \in reopened
  /\ opening # Databases!Idle => opening.moving \/ opening.server = catalogue[opening.slug]
  /\ (admin.at = "move" /\ Left <= 7) \/ (admin.at = "offboard" /\ Left <= 3) =>
       /\ pools[admin.slug] # Nowhere => admin.slug \in reopened
       /\ opening # Databases!Idle /\ opening.slug = admin.slug => opening.moving

DatabaseInv ==
  /\ DatabaseTypes /\ CataloguedAreServed /\ CatalogueDuringCalls /\ NoStrayDatabase
  /\ Prepared /\ NothingPromised /\ MigratedSoFar /\ PoolsAfterDrop

LEMMA Lengths ==
  /\ Len(P6) = 6 /\ Len(P5) = 5 /\ Len(P4) = 4 /\ Len(P3) = 3 /\ Len(P2) = 2 /\ Len(P1) = 1
  /\ Len(M8) = 8 /\ Len(M7) = 7 /\ Len(M6) = 6 /\ Len(M5) = 5 /\ Len(M4) = 4 /\ Len(M3) = 3
  /\ Len(M2) = 2 /\ Len(M1) = 1
  /\ Len(O4) = 4 /\ Len(O3) = 3 /\ Len(O2) = 2 /\ Len(O1) = 1
  BY DEF P6, P5, P4, P3, P2, P1, M8, M7, M6, M5, M4, M3, M2, M1, O4, O3, O2, O1

LEMMA Tails ==
  /\ Tail(P6) = P5 /\ Tail(P5) = P4 /\ Tail(P4) = P3 /\ Tail(P3) = P2 /\ Tail(P2) = P1
  /\ Tail(M8) = M7 /\ Tail(M7) = M6 /\ Tail(M6) = M5 /\ Tail(M5) = M4 /\ Tail(M4) = M3
  /\ Tail(M3) = M2 /\ Tail(M2) = M1
  /\ Tail(O4) = O3 /\ Tail(O3) = O2 /\ Tail(O2) = O1
  <1>1. Tail(P6) = P5
    BY DEF P6, P5
  <1>2. Tail(P5) = P4
    BY DEF P5, P4
  <1>3. Tail(P4) = P3
    BY DEF P4, P3
  <1>4. Tail(P3) = P2
    BY DEF P3, P2
  <1>5. Tail(P2) = P1
    BY DEF P2, P1
  <1>6. Tail(M8) = M7
    BY DEF M8, M7
  <1>7. Tail(M7) = M6
    BY DEF M7, M6
  <1>8. Tail(M6) = M5
    BY DEF M6, M5
  <1>9. Tail(M5) = M4
    BY DEF M5, M4
  <1>10. Tail(M4) = M3
    BY DEF M4, M3
  <1>11. Tail(M3) = M2
    BY DEF M3, M2
  <1>12. Tail(M2) = M1
    BY DEF M2, M1
  <1>13. Tail(O4) = O3
    BY DEF O4, O3
  <1>14. Tail(O3) = O2
    BY DEF O3, O2
  <1>15. Tail(O2) = O1
    BY DEF O2, O1
  <1> QED BY <1>1, <1>2, <1>3, <1>4, <1>5, <1>6, <1>7, <1>8,
             <1>9, <1>10, <1>11, <1>12, <1>13, <1>14, <1>15

LEMMA Heads ==
  /\ Head(P6) = "create_role" /\ Head(P5) = "create" /\ Head(P4) = "limited"
  /\ Head(P3) = "closed" /\ Head(P2) = "owned" /\ Head(P1) = "insert"
  /\ Head(M8) = "drop_pool" /\ Head(M7) = "create_role" /\ Head(M6) = "dump"
  /\ Head(M5) = "restore" /\ Head(M4) = "limited" /\ Head(M3) = "update"
  /\ Head(M2) = "drop_database" /\ Head(M1) = "drop_role"
  /\ Head(O4) = "drop_pool" /\ Head(O3) = "drop_database" /\ Head(O2) = "drop_role"
  /\ Head(O1) = "delete"
  BY DEF P6, P5, P4, P3, P2, P1, M8, M7, M6, M5, M4, M3, M2, M1, O4, O3, O2, O1

\* The statement of a call at which n are left.
At(st, n) ==
  /\ admin.at = "provision" =>
       \/ (st = "create_role" /\ n = 6) \/ (st = "create" /\ n = 5) \/ (st = "limited" /\ n = 4)
       \/ (st = "closed" /\ n = 3) \/ (st = "owned" /\ n = 2) \/ (st = "insert" /\ n = 1)
  /\ admin.at = "move" =>
       \/ (st = "drop_pool" /\ n = 8) \/ (st = "create_role" /\ n = 7) \/ (st = "dump" /\ n = 6)
       \/ (st = "restore" /\ n = 5) \/ (st = "limited" /\ n = 4) \/ (st = "update" /\ n = 3)
       \/ (st = "drop_database" /\ n = 2) \/ (st = "drop_role" /\ n = 1)
  /\ admin.at = "offboard" =>
       \/ (st = "drop_pool" /\ n = 4) \/ (st = "drop_database" /\ n = 3)
       \/ (st = "drop_role" /\ n = 2) \/ (st = "delete" /\ n = 1)

\* The call goes on with its next statement.
GoesOn ==
  /\ admin' \in CallState /\ Left' = Left - 1
  /\ admin'.at = admin.at /\ admin'.slug = admin.slug /\ admin'.from = admin.from
  /\ admin'.to = admin.to

LEMMA CallTyped ==
  ASSUME DatabaseTypes, admin.at \in {"provision", "move", "offboard"}
  PROVE  /\ admin \in CallState /\ admin.slug \in Slug /\ admin.from \in Server
         /\ admin.to \in Server /\ admin.dump \in Dbs /\ Left \in 1..8
         /\ At(Head(admin.todo), Left)
  <1>1. admin \in CallState
    BY DEF DatabaseTypes, AdminState
  <1>2. /\ admin.slug \in Slug /\ admin.from \in Server /\ admin.to \in Server /\ admin.dump \in Dbs
    BY <1>1 DEF CallState
  <1>3. CASE admin.at = "provision"
    <2>1. admin.todo \in {P6, P5, P4, P3, P2, P1}
      BY <1>1, <1>3 DEF CallState
    <2>2. Left \in 1..8 /\ At(Head(admin.todo), Left)
      BY <1>3, <2>1, Lengths, Heads DEF Left, At
    <2> QED BY <1>1, <1>2, <2>2
  <1>4. CASE admin.at = "move"
    <2>1. admin.todo \in {M8, M7, M6, M5, M4, M3, M2, M1}
      BY <1>1, <1>4 DEF CallState
    <2>2. Left \in 1..8 /\ At(Head(admin.todo), Left)
      BY <1>4, <2>1, Lengths, Heads DEF Left, At
    <2> QED BY <1>1, <1>2, <2>2
  <1>5. CASE admin.at = "offboard"
    <2>1. admin.todo \in {O4, O3, O2, O1}
      BY <1>1, <1>5 DEF CallState
    <2>2. Left \in 1..8 /\ At(Head(admin.todo), Left)
      BY <1>5, <2>1, Lengths, Heads DEF Left, At
    <2> QED BY <1>1, <1>2, <2>2
  <1> QED BY <1>3, <1>4, <1>5

LEMMA OneLess ==
  ASSUME NEW x \in Int, NEW y \in Int,
         \/ (x = 8 /\ y = 7) \/ (x = 7 /\ y = 6) \/ (x = 6 /\ y = 5) \/ (x = 5 /\ y = 4)
         \/ (x = 4 /\ y = 3) \/ (x = 3 /\ y = 2) \/ (x = 2 /\ y = 1)
  PROVE  y = x - 1
  OBVIOUS

LEMMA TodoTail ==
  ASSUME DatabaseTypes, admin.at \in {"provision", "move", "offboard"}, Left # 1,
         NEW dump \in Dbs, NEW w,
         w = [at |-> admin.at, slug |-> admin.slug, from |-> admin.from, to |-> admin.to,
              dump |-> dump, todo |-> Tail(admin.todo)]
  PROVE  w \in CallState /\ Len(w.todo) = Left - 1
  <1>0. /\ admin \in CallState /\ admin.slug \in Slug /\ admin.from \in Server
        /\ admin.to \in Server
    BY CallTyped
  <1>1. CASE admin.at = "provision"
    <2> DEFINE rest == Tail(admin.todo)
    <2>1. admin.todo \in {P6, P5, P4, P3, P2}
      BY <1>0, <1>1, Lengths DEF CallState, Left
    <2>2. \/ (admin.todo = P6 /\ rest = P5)
          \/ (admin.todo = P5 /\ rest = P4)
          \/ (admin.todo = P4 /\ rest = P3)
          \/ (admin.todo = P3 /\ rest = P2)
          \/ (admin.todo = P2 /\ rest = P1)
      BY <2>1, Tails
    <2> HIDE DEF rest
    <2>3. rest \in {P5, P4, P3, P2, P1}
      BY <2>2
    <2>4. \/ (Left = 6 /\ Len(rest) = 5)
          \/ (Left = 5 /\ Len(rest) = 4)
          \/ (Left = 4 /\ Len(rest) = 3)
          \/ (Left = 3 /\ Len(rest) = 2)
          \/ (Left = 2 /\ Len(rest) = 1)
      BY <2>2, Lengths DEF Left
    <2>5. Left \in Int /\ Len(rest) \in Int
      BY <2>4
    <2>6. Len(rest) = Left - 1
      BY <2>4, <2>5, OneLess
    <2> QED BY <1>0, <1>1, <2>3, <2>6 DEF CallState, rest
  <1>2. CASE admin.at = "move"
    <2> DEFINE rest == Tail(admin.todo)
    <2>1. admin.todo \in {M8, M7, M6, M5, M4, M3, M2}
      BY <1>0, <1>2, Lengths DEF CallState, Left
    <2>2. \/ (admin.todo = M8 /\ rest = M7)
          \/ (admin.todo = M7 /\ rest = M6)
          \/ (admin.todo = M6 /\ rest = M5)
          \/ (admin.todo = M5 /\ rest = M4)
          \/ (admin.todo = M4 /\ rest = M3)
          \/ (admin.todo = M3 /\ rest = M2)
          \/ (admin.todo = M2 /\ rest = M1)
      BY <2>1, Tails
    <2> HIDE DEF rest
    <2>3. rest \in {M7, M6, M5, M4, M3, M2, M1}
      BY <2>2
    <2>4. \/ (Left = 8 /\ Len(rest) = 7)
          \/ (Left = 7 /\ Len(rest) = 6)
          \/ (Left = 6 /\ Len(rest) = 5)
          \/ (Left = 5 /\ Len(rest) = 4)
          \/ (Left = 4 /\ Len(rest) = 3)
          \/ (Left = 3 /\ Len(rest) = 2)
          \/ (Left = 2 /\ Len(rest) = 1)
      BY <2>2, Lengths DEF Left
    <2>5. Left \in Int /\ Len(rest) \in Int
      BY <2>4
    <2>6. Len(rest) = Left - 1
      BY <2>4, <2>5, OneLess
    <2> QED BY <1>0, <1>2, <2>3, <2>6 DEF CallState, rest
  <1>3. CASE admin.at = "offboard"
    <2> DEFINE rest == Tail(admin.todo)
    <2>1. admin.todo \in {O4, O3, O2}
      BY <1>0, <1>3, Lengths DEF CallState, Left
    <2>2. \/ (admin.todo = O4 /\ rest = O3)
          \/ (admin.todo = O3 /\ rest = O2)
          \/ (admin.todo = O2 /\ rest = O1)
      BY <2>1, Tails
    <2> HIDE DEF rest
    <2>3. rest \in {O3, O2, O1}
      BY <2>2
    <2>4. \/ (Left = 4 /\ Len(rest) = 3)
          \/ (Left = 3 /\ Len(rest) = 2)
          \/ (Left = 2 /\ Len(rest) = 1)
      BY <2>2, Lengths DEF Left
    <2>5. Left \in Int /\ Len(rest) \in Int
      BY <2>4
    <2>6. Len(rest) = Left - 1
      BY <2>4, <2>5, OneLess
    <2> QED BY <1>0, <1>3, <2>3, <2>6 DEF CallState, rest
  <1> QED BY <1>1, <1>2, <1>3

LEMMA Advance ==
  ASSUME DatabaseTypes, NEW st, Databases!Executes(st)
  PROVE  /\ admin.at \in {"provision", "move", "offboard"}
         /\ At(st, Left)
         /\ \/ Left = 1 /\ admin' = Databases!Idle
            \/ Left > 1 /\ GoesOn /\ admin'.dump = admin.dump
         /\ UNCHANGED <<opening, invoices, late, migrated, calls>>
  <1>1. admin.at \in {"provision", "move", "offboard"} /\ Head(admin.todo) = st
    BY DEF Databases!Executes
  <1>2. At(st, Left) /\ Left \in 1..8 /\ admin \in CallState
    BY <1>1, CallTyped
  <1>3. CASE Left = 1
    BY <1>1, <1>2, <1>3 DEF Databases!Executes, Left
  <1>4. CASE Left # 1
    <2> DEFINE w == [at |-> admin.at, slug |-> admin.slug, from |-> admin.from,
                     to |-> admin.to, dump |-> admin.dump, todo |-> Tail(admin.todo)]
    <2>1. admin' = [admin EXCEPT !.todo = Tail(@)]
      BY <1>4 DEF Databases!Executes, Left
    <2>2. admin' = w
      BY <1>2, <2>1 DEF CallState
    <2>3. w \in CallState /\ Len(w.todo) = Left - 1
      BY <1>1, <1>4, CallTyped, TodoTail
    <2>4. GoesOn /\ admin'.dump = admin.dump
      BY <2>2, <2>3 DEF GoesOn, Left
    <2> QED BY <1>1, <1>2, <1>4, <2>4 DEF Databases!Executes
  <1> QED BY <1>3, <1>4

LEMMA DatabaseInit == Init => DatabaseInv
  <1> SUFFICES ASSUME Databases!Init PROVE DatabaseInv
    BY DEF Init
  <1> USE DEF Databases!Init, Databases!NotPlaced, Databases!Idle
  <1>1. DatabaseTypes
    BY DEF DatabaseTypes, Dbs, AdminState, Server, Nowhere, Databases!Server
  <1>2. \A s \in Server, t \in Slug : ~database[s][t].exists
    BY DEF Server, Databases!NoDatabase
  <1>3. catalogue \in [Slug -> {Nowhere}] /\ pools = catalogue /\ Alive
    BY DEF Nowhere, Alive, Databases!Running
  <1>4. CataloguedAreServed /\ CatalogueDuringCalls /\ MigratedSoFar /\ Prepared
    BY <1>3 DEF CataloguedAreServed, CatalogueDuringCalls, MigratedSoFar, Prepared
  <1>5. NoStrayDatabase
    BY <1>2 DEF NoStrayDatabase
  <1>6. NothingPromised
    BY DEF NothingPromised
  <1>7. PoolsAfterDrop
    BY <1>3 DEF PoolsAfterDrop
  <1> QED BY <1>1, <1>4, <1>5, <1>6, <1>7 DEF DatabaseInv

\* What every statement of a call keeps.
LEMMA CallGoesOn ==
  ASSUME DatabaseInv, NEW st, Databases!Executes(st)
  PROVE  /\ admin.at \in {"provision", "move", "offboard"} /\ admin' \in AdminState
         /\ admin.slug \in Slug /\ admin.from \in Server /\ admin.to \in Server
         /\ admin.dump \in Dbs
         /\ Left \in 1..8 /\ At(st, Left) /\ Alive /\ Alive'
         /\ \A t \in cut : InCall("offboard", t) /\ Left <= 2
         /\ UNCHANGED <<opening, invoices, late, migrated, calls>>
         /\ admin'.at # "migrate" /\ MigratedSoFar'
         /\ admin'.at \in {"provision", "move", "offboard"} =>
              Left > 1 /\ GoesOn /\ admin'.dump = admin.dump
         /\ Left > 1 => admin'.at = admin.at
         /\ Left = 1 => admin' = Databases!Idle
  <1>1. DatabaseTypes
    BY DEF DatabaseInv
  <1>2. /\ admin.at \in {"provision", "move", "offboard"}
        /\ At(st, Left)
        /\ \/ Left = 1 /\ admin' = Databases!Idle
           \/ Left > 1 /\ GoesOn /\ admin'.dump = admin.dump
        /\ UNCHANGED <<opening, invoices, late, migrated, calls>>
    BY <1>1, Advance
  <1>3. /\ admin \in CallState /\ admin.slug \in Slug /\ admin.from \in Server
        /\ admin.to \in Server /\ admin.dump \in Dbs /\ Left \in 1..8
    BY <1>1, <1>2, CallTyped
  <1>4. admin' \in AdminState /\ (admin' = Databases!Idle => admin'.at = "idle")
    BY <1>2 DEF GoesOn, AdminState, Databases!Idle
  <1>5. Alive /\ Alive' /\ admin'.at # "migrate"
    BY <1>2, <1>4 DEF Alive, Databases!Running, GoesOn
  <1>6. \A t \in cut : InCall("offboard", t) /\ Left <= 2
    BY <1>5 DEF DatabaseInv, CatalogueDuringCalls
  <1> QED BY <1>2, <1>3, <1>4, <1>5, <1>6 DEF MigratedSoFar, GoesOn

LEMMA DropPoolKeeps == ASSUME DatabaseInv, Databases!DropPool PROVE DatabaseInv'
  <1> DEFINE u == admin.slug
  <1>0. Databases!Executes("drop_pool")
    BY DEF Databases!DropPool
  <1>1. /\ opening = Databases!Idle /\ pools' = [pools EXCEPT ![u] = Nowhere]
        /\ reopened' = reopened \ {u} /\ UNCHANGED <<catalogue, database, role, cut>>
    BY DEF Databases!DropPool, Nowhere
  <1>2. /\ u \in Slug /\ Alive /\ Alive' /\ MigratedSoFar'
        /\ UNCHANGED <<opening, invoices, late, migrated>>
        /\ admin' \in AdminState
    BY <1>0, CallGoesOn
  <1>3. /\ \/ (admin.at = "move" /\ Left = 8 /\ Left' = 7)
           \/ (admin.at = "offboard" /\ Left = 4 /\ Left' = 3)
        /\ admin'.at = admin.at /\ admin'.slug = u /\ admin'.from = admin.from
        /\ admin'.to = admin.to
        /\ cut = {}
    BY <1>0, CallGoesOn DEF At, GoesOn, InCall
  <1>4. DatabaseTypes'
    BY <1>1, <1>2 DEF DatabaseInv, DatabaseTypes
  <1>5. CataloguedAreServed'
    BY <1>1, <1>2, <1>3 DEF DatabaseInv, CataloguedAreServed, InCall, GoodCopy
  <1>6. CatalogueDuringCalls'
    BY <1>1, <1>2, <1>3 DEF DatabaseInv, CatalogueDuringCalls
  <1>7. NoStrayDatabase'
    <2>1. /\ pools'[u] = Nowhere /\ \A t \in Slug : t # u => pools'[t] = pools[t]
          /\ Nowhere \notin Server
      BY <1>1, <1>2 DEF DatabaseInv, DatabaseTypes, Nowhere, Server, Databases!Nowhere,
                        Databases!Server
    <2>2. ASSUME NEW t \in Slug, NEW s \in Server, Reached(t, s)', database'[s][t].exists
          PROVE  \/ s = catalogue'[t]
                 \/ InCall("provision", t)' /\ s = admin'.to /\ Left' <= 4
                 \/ InCall("move", t)' /\ s = admin'.to /\ Left' \in {3, 4}
                 \/ InCall("move", t)' /\ s = admin'.from /\ Left' = 2
      <3>1. Reached(t, s)
        BY <1>1, <1>2, <2>1, <2>2 DEF Reached
      <3> QED BY <1>1, <1>2, <1>3, <2>2, <3>1 DEF DatabaseInv, NoStrayDatabase, InCall
    <2> QED BY <1>3, <2>2 DEF NoStrayDatabase
  <1>8. Prepared'
    BY <1>3 DEF Prepared
  <1>9. NothingPromised'
    BY <1>1, <1>2, <1>3 DEF DatabaseInv, NothingPromised, InCall
  <1>10. PoolsAfterDrop'
    BY <1>1, <1>2, <1>3 DEF DatabaseInv, DatabaseTypes, PoolsAfterDrop
  <1> QED BY <1>2, <1>4, <1>5, <1>6, <1>7, <1>8, <1>9, <1>10 DEF DatabaseInv

LEMMA CreateRoleKeeps == ASSUME DatabaseInv, Databases!CreateRole PROVE DatabaseInv'
  <1> DEFINE u == admin.slug
  <1>0. Databases!Executes("create_role")
    BY DEF Databases!CreateRole
  <1>1. /\ role' = [role EXCEPT ![admin.to] = @ \cup {u}]
        /\ UNCHANGED <<catalogue, database, pools, reopened, cut>>
    BY DEF Databases!CreateRole
  <1>2. /\ u \in Slug /\ admin.to \in Server
        /\ Alive /\ Alive' /\ MigratedSoFar'
        /\ UNCHANGED <<opening, invoices, late, migrated>>
        /\ admin' \in AdminState
    BY <1>0, CallGoesOn
  <1>3. /\ \/ (admin.at = "provision" /\ Left = 6 /\ Left' = 5)
           \/ (admin.at = "move" /\ Left = 7 /\ Left' = 6)
        /\ admin'.at = admin.at /\ admin'.slug = u /\ admin'.from = admin.from
        /\ admin'.to = admin.to
        /\ cut = {}
    BY <1>0, CallGoesOn DEF At, GoesOn, InCall
  <1>4. DatabaseTypes'
    BY <1>1, <1>2 DEF DatabaseInv, DatabaseTypes
  <1>5. u \in role'[admin.to] /\ \A s \in Server : role[s] \subseteq role'[s]
    BY <1>1, <1>2 DEF DatabaseInv, DatabaseTypes
  <1>6. CataloguedAreServed'
    <2>1. ASSUME NEW t \in Slug, catalogue[t] # Nowhere, t \notin cut
          PROVE  GoodCopy(database[catalogue[t]][t], t)' /\ t \in role'[catalogue[t]]
      <3>1. catalogue[t] \in Server
        BY <2>1 DEF DatabaseInv, DatabaseTypes
      <3> QED BY <1>1, <1>2, <1>5, <2>1, <3>1 DEF DatabaseInv, CataloguedAreServed, GoodCopy
    <2> QED BY <1>1, <1>2, <1>3, <2>1 DEF CataloguedAreServed, InCall
  <1>7. CatalogueDuringCalls'
    BY <1>1, <1>2, <1>3 DEF DatabaseInv, CatalogueDuringCalls
  <1>8. NoStrayDatabase'
    BY <1>1, <1>2, <1>3 DEF DatabaseInv, NoStrayDatabase, Reached, InCall
  <1>9. Prepared'
    BY <1>3, <1>5 DEF Prepared
  <1>10. NothingPromised'
    BY <1>1, <1>2, <1>3 DEF DatabaseInv, NothingPromised, InCall
  <1>11. PoolsAfterDrop'
    BY <1>1, <1>2, <1>3 DEF DatabaseInv, DatabaseTypes, PoolsAfterDrop
  <1> QED BY <1>2, <1>4, <1>6, <1>7, <1>8, <1>9, <1>10, <1>11 DEF DatabaseInv

LEMMA CreateDatabaseKeeps == ASSUME DatabaseInv, Databases!CreateDatabase PROVE DatabaseInv'
  <1> DEFINE u == admin.slug
             d == Databases!Cloned
  <1>0. Databases!Executes("create")
    BY DEF Databases!CreateDatabase
  <1>1. /\ database' = [database EXCEPT ![admin.to][u] = d]
        /\ UNCHANGED <<catalogue, role, pools, reopened, cut>>
    BY DEF Databases!CreateDatabase
  <1>2. /\ u \in Slug /\ admin.to \in Server
        /\ Alive /\ Alive' /\ MigratedSoFar'
        /\ UNCHANGED <<opening, invoices, late, migrated>>
        /\ admin' \in AdminState
    BY <1>0, CallGoesOn
  <1>3. /\ admin.at = "provision" /\ Left = 5 /\ Left' = 4
        /\ admin'.at = admin.at /\ admin'.slug = u /\ admin'.from = admin.from
        /\ admin'.to = admin.to
        /\ cut = {}
    BY <1>0, CallGoesOn DEF At, GoesOn, InCall
  <1>4. d \in Dbs /\ d.exists /\ d.invoices = {}
    BY DEF Databases!Cloned, Dbs
  <1> HIDE DEF d
  <1>5. /\ database' \in [Server -> [Slug -> Dbs]] /\ database'[admin.to][u] = d
        /\ \A x \in Server, y \in Slug :
             x # admin.to \/ y # u => database'[x][y] = database[x][y]
    <2>1. DatabaseTypes /\ database' = [database EXCEPT ![admin.to][u] = d]
      BY <1>1 DEF DatabaseInv
    <2> QED BY <1>2, <1>4, <2>1 DEF DatabaseTypes
  <1>6. DatabaseTypes'
    BY <1>1, <1>2, <1>5 DEF DatabaseInv, DatabaseTypes
  <1>7. catalogue[u] = Nowhere /\ u \in role[admin.to] /\ invoices[u] = {}
    BY <1>2, <1>3 DEF DatabaseInv, CatalogueDuringCalls, Prepared, NothingPromised
  <1>8. CataloguedAreServed'
    <2>1. ASSUME NEW t \in Slug, catalogue[t] # Nowhere, t \notin cut
          PROVE  GoodCopy(database[catalogue[t]][t], t)' /\ t \in role[catalogue[t]]
      <3>1. catalogue[t] \in Server /\ t # u
        BY <1>7, <2>1 DEF DatabaseInv, DatabaseTypes
      <3> QED BY <1>1, <1>2, <1>5, <2>1, <3>1 DEF DatabaseInv, CataloguedAreServed, GoodCopy
    <2> QED BY <1>1, <1>2, <1>3, <2>1 DEF CataloguedAreServed, InCall
  <1>9. CatalogueDuringCalls'
    BY <1>1, <1>2, <1>3 DEF DatabaseInv, CatalogueDuringCalls
  <1>10. NoStrayDatabase'
    BY <1>1, <1>2, <1>3, <1>5 DEF DatabaseInv, NoStrayDatabase, Reached, InCall
  <1>11. Prepared'
    BY <1>1, <1>3, <1>4, <1>5, <1>7 DEF Prepared
  <1>12. NothingPromised'
    BY <1>1, <1>2, <1>3, <1>5, <1>7 DEF DatabaseInv, NothingPromised, InCall
  <1>13. PoolsAfterDrop'
    BY <1>1, <1>2, <1>3 DEF DatabaseInv, PoolsAfterDrop
  <1> QED BY <1>2, <1>6, <1>8, <1>9, <1>10, <1>11, <1>12, <1>13 DEF DatabaseInv
\* A database with one more of its settings made.
LEMMA SettingMade ==
  ASSUME NEW d \in Dbs, d.exists, NEW setting \in {"limited", "closed", "owned"}, NEW e,
         e = [d EXCEPT ![setting] = TRUE]
  PROVE  /\ e \in Dbs /\ e.exists /\ e.invoices = d.invoices /\ e.version = d.version
         /\ d.limited \/ setting = "limited" => e.limited
         /\ d.closed \/ setting = "closed" => e.closed
         /\ d.owned \/ setting = "owned" => e.owned
  <1>1. d \in [exists : {TRUE}, invoices : SUBSET (1..MaxWrites), version : {1, 2},
               limited : BOOLEAN, closed : BOOLEAN, owned : BOOLEAN]
    <2>1. Databases!NoDatabase.exists = FALSE
      BY DEF Databases!NoDatabase
    <2>2. d # Databases!NoDatabase
      BY <2>1
    <2> QED BY <2>2 DEF Dbs
  <1>2. CASE setting = "limited"
    <2>1. e = [d EXCEPT !.limited = TRUE]
      BY <1>2
    <2> QED BY <1>1, <1>2, <2>1 DEF Dbs
  <1>3. CASE setting = "closed"
    <2>1. e = [d EXCEPT !.closed = TRUE]
      BY <1>3
    <2> QED BY <1>1, <1>3, <2>1 DEF Dbs
  <1>4. CASE setting = "owned"
    <2>1. e = [d EXCEPT !.owned = TRUE]
      BY <1>4
    <2> QED BY <1>1, <1>4, <2>1 DEF Dbs
  <1> QED BY <1>2, <1>3, <1>4

LEMMA AlterDatabaseKeeps ==
  ASSUME DatabaseInv, NEW setting \in {"limited", "closed", "owned"},
         Databases!AlterDatabase(setting)
  PROVE  DatabaseInv'
  <1> DEFINE u == admin.slug
             d == database[admin.to][u]
             e == [d EXCEPT ![setting] = TRUE]
  <1>0. Databases!Executes(setting)
    BY DEF Databases!AlterDatabase
  <1>1. /\ database' = [database EXCEPT ![admin.to][u] = e]
        /\ UNCHANGED <<catalogue, role, pools, reopened, cut>>
    BY DEF Databases!AlterDatabase
  <1>2. /\ u \in Slug /\ admin.to \in Server
        /\ Alive /\ Alive' /\ MigratedSoFar'
        /\ UNCHANGED <<opening, invoices, late, migrated>>
        /\ admin' \in AdminState
    BY <1>0, CallGoesOn
  <1>3. /\ \/ (admin.at = "provision" /\ setting = "limited" /\ Left = 4 /\ Left' = 3)
           \/ (admin.at = "provision" /\ setting = "closed" /\ Left = 3 /\ Left' = 2)
           \/ (admin.at = "provision" /\ setting = "owned" /\ Left = 2 /\ Left' = 1)
           \/ (admin.at = "move" /\ setting = "limited" /\ Left = 4 /\ Left' = 3)
        /\ admin'.at = admin.at /\ admin'.slug = u /\ admin'.from = admin.from
        /\ admin'.to = admin.to /\ admin'.dump = admin.dump
        /\ cut = {}
    BY <1>0, CallGoesOn DEF At, GoesOn, InCall
  <1>4. d \in Dbs /\ d.exists
    BY <1>2, <1>3 DEF DatabaseInv, DatabaseTypes, Prepared, GoodCopy
  <1>5. /\ e \in Dbs /\ e.exists /\ e.invoices = d.invoices /\ e.version = d.version
        /\ d.limited \/ setting = "limited" => e.limited
        /\ d.closed \/ setting = "closed" => e.closed
        /\ d.owned \/ setting = "owned" => e.owned
    <2> HIDE DEF d
    <2> QED BY <1>4, SettingMade
  <1> HIDE DEF e
  <1>6. /\ database' \in [Server -> [Slug -> Dbs]] /\ database'[admin.to][u] = e
        /\ \A x \in Server, y \in Slug :
             x # admin.to \/ y # u => database'[x][y] = database[x][y]
    BY <1>1, <1>2, <1>5 DEF DatabaseInv, DatabaseTypes
  <1>7. DatabaseTypes'
    BY <1>1, <1>2, <1>6 DEF DatabaseInv, DatabaseTypes
  <1>8. catalogue[u] # admin.to
    BY <1>2, <1>3 DEF DatabaseInv, CatalogueDuringCalls, Nowhere, Server,
                      Databases!Nowhere, Databases!Server
  <1>9. CataloguedAreServed'
    <2>1. ASSUME NEW t \in Slug, catalogue[t] # Nowhere, t \notin cut
          PROVE  GoodCopy(database[catalogue[t]][t], t)' /\ t \in role[catalogue[t]]
      <3>1. catalogue[t] \in Server /\ (t = u => catalogue[t] # admin.to)
        BY <1>8, <2>1 DEF DatabaseInv, DatabaseTypes
      <3> QED BY <1>1, <1>2, <1>6, <2>1, <3>1 DEF DatabaseInv, CataloguedAreServed, GoodCopy
    <2> QED BY <1>1, <1>2, <1>3, <2>1 DEF CataloguedAreServed, InCall
  <1>10. CatalogueDuringCalls'
    BY <1>1, <1>2, <1>3 DEF DatabaseInv, CatalogueDuringCalls
  <1>11. NoStrayDatabase'
    <2>1. ASSUME NEW t \in Slug, NEW s \in Server, database'[s][t].exists
          PROVE  database[s][t].exists
      BY <1>4, <1>6, <2>1
    <2> QED BY <1>1, <1>2, <1>3, <2>1 DEF DatabaseInv, NoStrayDatabase, Reached, InCall
  <1>12. Prepared'
    <2>1. CASE admin.at = "provision"
      BY <1>1, <1>3, <1>5, <1>6, <2>1 DEF DatabaseInv, Prepared
    <2>2. CASE admin.at = "move"
      <3>1. GoodCopy(d, u) /\ GoodCopy(admin.dump, u) /\ admin.dump.exists /\ u \in role[admin.to]
        BY <1>3, <2>2 DEF DatabaseInv, Prepared
      <3>2. GoodCopy(e, u)
        BY <1>5, <3>1 DEF GoodCopy
      <3>3. /\ GoodCopy(database[admin.to][admin.slug], admin.slug)'
            /\ GoodCopy(admin.dump, admin.slug)'
        BY <1>1, <1>2, <1>3, <1>6, <3>1, <3>2 DEF GoodCopy
      <3>4. admin'.dump.exists /\ admin'.slug \in role'[admin'.to]
        BY <1>1, <1>3, <3>1
      <3> QED BY <1>3, <2>2, <3>3, <3>4 DEF Prepared
    <2> QED BY <1>3, <2>1, <2>2
  <1>13. NothingPromised'
    <2>1. database'[admin.to][u].invoices = d.invoices
      BY <1>5, <1>6
    <2> QED BY <1>1, <1>2, <1>3, <1>6, <2>1 DEF DatabaseInv, NothingPromised, InCall
  <1>14. PoolsAfterDrop'
    BY <1>1, <1>2, <1>3 DEF DatabaseInv, PoolsAfterDrop
  <1> QED BY <1>2, <1>7, <1>9, <1>10, <1>11, <1>12, <1>13, <1>14 DEF DatabaseInv

LEMMA DumpKeeps == ASSUME DatabaseInv, Databases!Dump PROVE DatabaseInv'
  <1> DEFINE u == admin.slug
             d == database[admin.from][u]
             w == [at |-> admin.at, slug |-> u, from |-> admin.from, to |-> admin.to,
                   dump |-> d, todo |-> Tail(admin.todo)]
  <1>1. /\ admin.at = "move" /\ Head(admin.todo) = "dump"
        /\ admin' = [admin EXCEPT !.todo = Tail(@), !.dump = d]
        /\ UNCHANGED <<catalogue, database, role, pools, opening, invoices, late, reopened,
                       migrated, cut>>
    BY DEF Databases!Dump
  <1>2. DatabaseTypes
    BY DEF DatabaseInv
  <1>3. /\ admin \in CallState /\ u \in Slug /\ admin.from \in Server /\ admin.to \in Server
        /\ Left = 6
    BY <1>1, <1>2, CallTyped DEF At
  <1>4. d \in Dbs
    BY <1>2, <1>3 DEF DatabaseTypes
  <1>5. admin' = w
    BY <1>1, <1>3 DEF CallState
  <1>6. w \in CallState /\ Len(w.todo) = Left - 1
    <2>1. admin.at \in {"provision", "move", "offboard"} /\ Left # 1
      BY <1>1, <1>3
    <2> HIDE DEF d
    <2> QED BY <1>2, <1>4, <2>1, TodoTail
  <1>7. /\ admin' \in AdminState /\ Left' = 5 /\ admin'.at = "move" /\ admin'.slug = u
        /\ admin'.from = admin.from /\ admin'.to = admin.to /\ admin'.dump = d
    <2>1. Len(admin'.todo) = 5 /\ admin' \in AdminState
      <3> HIDE DEF w
      <3> QED BY <1>3, <1>5, <1>6 DEF AdminState
    <2>2. Left' = 5
      BY <2>1 DEF Left
    <2> QED BY <1>1, <1>5, <2>1, <2>2
  <1>8. cut = {} /\ Alive /\ Alive' /\ catalogue[u] = admin.from /\ catalogue[u] # Nowhere
    BY <1>1, <1>3, <1>7 DEF DatabaseInv, CatalogueDuringCalls, Alive, Databases!Running, InCall, Nowhere, Server,
                            Databases!Nowhere, Databases!Server
  <1>9. GoodCopy(d, u)
    BY <1>1, <1>3, <1>8 DEF DatabaseInv, CataloguedAreServed, InCall
  <1>10. d.exists /\ GoodCopy(admin.dump, admin.slug)'
    BY <1>1, <1>7, <1>9 DEF GoodCopy
  <1>11. DatabaseTypes'
    BY <1>1, <1>2, <1>7 DEF DatabaseTypes
  <1>12. CataloguedAreServed'
    BY <1>1, <1>7 DEF DatabaseInv, CataloguedAreServed, InCall, GoodCopy
  <1>13. CatalogueDuringCalls'
    BY <1>1, <1>3, <1>7, <1>8 DEF DatabaseInv, CatalogueDuringCalls
  <1>14. NoStrayDatabase'
    BY <1>1, <1>3, <1>7, <1>8 DEF DatabaseInv, NoStrayDatabase, Reached, InCall
  <1>15. u \in role[admin.to]
    BY <1>1, <1>3 DEF DatabaseInv, Prepared
  <1>16. Prepared'
    BY <1>1, <1>7, <1>10, <1>15 DEF Prepared
  <1>17. NothingPromised'
    BY <1>1, <1>3, <1>7, <1>8 DEF DatabaseInv, NothingPromised, InCall
  <1>18. MigratedSoFar'
    BY <1>7 DEF MigratedSoFar
  <1>19. PoolsAfterDrop'
    BY <1>1, <1>3, <1>7, <1>8 DEF DatabaseInv, PoolsAfterDrop
  <1> QED BY <1>11, <1>12, <1>13, <1>14, <1>16, <1>17, <1>18, <1>19 DEF DatabaseInv

LEMMA RestoreKeeps == ASSUME DatabaseInv, Databases!Restore PROVE DatabaseInv'
  <1> DEFINE u == admin.slug
             d == admin.dump
  <1>0. Databases!Executes("restore")
    BY DEF Databases!Restore
  <1>1. /\ database' = [database EXCEPT ![admin.to][u] = d]
        /\ UNCHANGED <<catalogue, role, pools, reopened, cut>>
    BY DEF Databases!Restore
  <1>2. /\ u \in Slug /\ admin.to \in Server /\ d \in Dbs
        /\ Alive /\ Alive' /\ MigratedSoFar'
        /\ UNCHANGED <<opening, invoices, late, migrated>>
        /\ admin' \in AdminState
    BY <1>0, CallGoesOn
  <1>3. /\ admin.at = "move" /\ Left = 5 /\ Left' = 4
        /\ admin'.at = admin.at /\ admin'.slug = u /\ admin'.from = admin.from
        /\ admin'.to = admin.to /\ admin'.dump = d
        /\ cut = {}
    BY <1>0, CallGoesOn DEF At, GoesOn, InCall
  <1>4. GoodCopy(d, u) /\ d.exists /\ u \in role[admin.to]
    BY <1>3 DEF DatabaseInv, Prepared
  <1>5. /\ database' \in [Server -> [Slug -> Dbs]] /\ database'[admin.to][u] = d
        /\ \A x \in Server, y \in Slug :
             x # admin.to \/ y # u => database'[x][y] = database[x][y]
    BY <1>1, <1>2 DEF DatabaseInv, DatabaseTypes
  <1>6. DatabaseTypes'
    BY <1>1, <1>2, <1>5 DEF DatabaseInv, DatabaseTypes
  <1>7. catalogue[u] # admin.to
    BY <1>2, <1>3 DEF DatabaseInv, CatalogueDuringCalls
  <1>8. CataloguedAreServed'
    <2>1. ASSUME NEW t \in Slug, catalogue[t] # Nowhere, t \notin cut
          PROVE  GoodCopy(database[catalogue[t]][t], t)' /\ t \in role[catalogue[t]]
      <3>1. catalogue[t] \in Server /\ (t = u => catalogue[t] # admin.to)
        BY <1>7, <2>1 DEF DatabaseInv, DatabaseTypes
      <3> QED BY <1>1, <1>2, <1>5, <2>1, <3>1 DEF DatabaseInv, CataloguedAreServed, GoodCopy
    <2> QED BY <1>1, <1>2, <1>3, <2>1 DEF CataloguedAreServed, InCall
  <1>9. CatalogueDuringCalls'
    BY <1>1, <1>2, <1>3 DEF DatabaseInv, CatalogueDuringCalls
  <1>10. NoStrayDatabase'
    BY <1>1, <1>2, <1>3, <1>5 DEF DatabaseInv, NoStrayDatabase, Reached, InCall
  <1>11. Prepared'
    <2>1. /\ GoodCopy(database[admin.to][admin.slug], admin.slug)'
          /\ GoodCopy(admin.dump, admin.slug)'
      BY <1>1, <1>2, <1>3, <1>4, <1>5 DEF GoodCopy
    <2>2. admin'.dump.exists /\ admin'.slug \in role'[admin'.to]
      BY <1>1, <1>3, <1>4
    <2> QED BY <1>3, <2>1, <2>2 DEF Prepared
  <1>12. NothingPromised'
    <2>1. \A t \in Slug : catalogue[t] = Nowhere => t # u
      BY <1>2, <1>3 DEF DatabaseInv, CatalogueDuringCalls, CallGoesOn, DatabaseTypes, AdminState, CallState, Nowhere, Server,
                            Databases!Nowhere, Databases!Server
    <2> QED BY <1>1, <1>2, <1>3, <1>5, <2>1 DEF DatabaseInv, NothingPromised, InCall
  <1>13. PoolsAfterDrop'
    BY <1>1, <1>2, <1>3 DEF DatabaseInv, PoolsAfterDrop
  <1> QED BY <1>2, <1>6, <1>8, <1>9, <1>10, <1>11, <1>12, <1>13 DEF DatabaseInv

LEMMA InsertTenantKeeps == ASSUME DatabaseInv, Databases!InsertTenant PROVE DatabaseInv'
  <1> DEFINE u == admin.slug
  <1>0. Databases!Executes("insert")
    BY DEF Databases!InsertTenant
  <1>1. /\ catalogue' = [catalogue EXCEPT ![u] = admin.to]
        /\ UNCHANGED <<database, role, pools, reopened, cut>>
    BY DEF Databases!InsertTenant
  <1>2. /\ u \in Slug /\ admin.to \in Server
        /\ Alive /\ Alive' /\ MigratedSoFar'
        /\ UNCHANGED <<opening, invoices, late, migrated>>
        /\ admin' \in AdminState
    BY <1>0, CallGoesOn
  <1>3. admin.at = "provision" /\ Left = 1 /\ admin'.at = "idle" /\ cut = {}
    BY <1>0, CallGoesOn DEF At, Databases!Idle, InCall
  <1>4. /\ catalogue'[u] = admin.to
        /\ \A t \in Slug : t # u => catalogue'[t] = catalogue[t]
        /\ catalogue[u] = Nowhere
    BY <1>1, <1>2, <1>3 DEF DatabaseInv, DatabaseTypes, CatalogueDuringCalls
  <1>5. DatabaseTypes'
    BY <1>1, <1>2 DEF DatabaseInv, DatabaseTypes
  <1>6. GoodCopy(database[admin.to][u], u) /\ u \in role[admin.to]
    <2>1. invoices[u] \subseteq database[admin.to][u].invoices /\ u \notin migrated
      BY <1>2, <1>3, <1>4 DEF DatabaseInv, NothingPromised, InCall
    <2> QED BY <1>3, <2>1 DEF DatabaseInv, Prepared, GoodCopy
  <1>7. CataloguedAreServed'
    <2>1. ASSUME NEW t \in Slug, catalogue'[t] # Nowhere
          PROVE  GoodCopy(database[catalogue[t]][t], t)' /\ t \in role'[catalogue'[t]]
      <3>1. CASE t = u
        BY <1>1, <1>2, <1>4, <1>6, <3>1 DEF GoodCopy
      <3>2. CASE t # u
        BY <1>1, <1>2, <1>3, <1>4, <2>1, <3>2
           DEF DatabaseInv, CataloguedAreServed, GoodCopy, InCall
      <3> QED BY <3>1, <3>2
    <2> QED BY <2>1 DEF CataloguedAreServed
  <1>8. CatalogueDuringCalls' /\ Prepared'
    BY <1>1, <1>2, <1>3 DEF CatalogueDuringCalls, Prepared
  <1>9. NoStrayDatabase'
    BY <1>1, <1>2, <1>3, <1>4 DEF DatabaseInv, NoStrayDatabase, Reached, InCall, Nowhere, Server,
                                  Databases!Nowhere, Databases!Server
  <1>10. NothingPromised'
    <2>1. ASSUME NEW t \in Slug, catalogue'[t] = Nowhere
          PROVE  t \notin migrated' /\ invoices'[t] = {}
      <3>1. t # u
        BY <1>2, <1>4, <2>1 DEF Nowhere, Server, Databases!Nowhere, Databases!Server
      <3> QED BY <1>1, <1>2, <1>3, <1>4, <2>1, <3>1 DEF DatabaseInv, NothingPromised, InCall
    <2> QED BY <2>1 DEF NothingPromised
  <1>11. PoolsAfterDrop'
    <2>1. opening # Databases!Idle => opening.slug \in Slug /\ opening.server \in Server
      BY DEF DatabaseInv, DatabaseTypes
    <2>2. opening # Databases!Idle =>
            opening'.moving \/ opening'.server = catalogue'[opening'.slug]
      BY <1>2, <1>4, <2>1
         DEF DatabaseInv, PoolsAfterDrop, Nowhere, Server, Databases!Nowhere, Databases!Server
    <2>3. \A t \in Slug : pools'[t] \notin {catalogue'[t], Nowhere} => t \in reopened'
      BY <1>1, <1>4 DEF DatabaseInv, PoolsAfterDrop
    <2> QED BY <1>2, <1>3, <2>2, <2>3 DEF PoolsAfterDrop
  <1> QED BY <1>2, <1>5, <1>7, <1>8, <1>9, <1>10, <1>11 DEF DatabaseInv

LEMMA UpdateTenantKeeps == ASSUME DatabaseInv, Databases!UpdateTenant PROVE DatabaseInv'
  <1> DEFINE u == admin.slug
  <1>0. Databases!Executes("update")
    BY DEF Databases!UpdateTenant
  <1>1. /\ catalogue' = [catalogue EXCEPT ![u] = admin.to]
        /\ UNCHANGED <<database, role, pools, reopened, cut>>
    BY DEF Databases!UpdateTenant
  <1>2. /\ u \in Slug /\ admin.to \in Server /\ admin.from \in Server
        /\ Alive /\ Alive' /\ MigratedSoFar'
        /\ UNCHANGED <<opening, invoices, late, migrated>>
        /\ admin' \in AdminState
    BY <1>0, CallGoesOn
  <1>3. /\ admin.at = "move" /\ Left = 3 /\ Left' = 2
        /\ admin'.at = admin.at /\ admin'.slug = u /\ admin'.from = admin.from
        /\ admin'.to = admin.to /\ admin'.dump = admin.dump
        /\ cut = {}
    BY <1>0, CallGoesOn DEF At, GoesOn, InCall
  <1>4. /\ catalogue'[u] = admin.to
        /\ \A t \in Slug : t # u => catalogue'[t] = catalogue[t]
        /\ catalogue[u] = admin.from /\ admin.from # admin.to
    BY <1>1, <1>2, <1>3 DEF DatabaseInv, DatabaseTypes, CatalogueDuringCalls
  <1>5. DatabaseTypes'
    BY <1>1, <1>2 DEF DatabaseInv, DatabaseTypes
  <1>6. GoodCopy(database[admin.to][u], u) /\ u \in role[admin.to] /\ admin.dump.exists
    BY <1>3 DEF DatabaseInv, Prepared
  <1>7. CataloguedAreServed'
    <2>1. ASSUME NEW t \in Slug, catalogue'[t] # Nowhere
          PROVE  GoodCopy(database[catalogue[t]][t], t)' /\ t \in role'[catalogue'[t]]
      <3>1. CASE t = u
        BY <1>1, <1>2, <1>4, <1>6, <3>1 DEF GoodCopy
      <3>2. CASE t # u
        BY <1>1, <1>2, <1>3, <1>4, <2>1, <3>2
           DEF DatabaseInv, CataloguedAreServed, GoodCopy, InCall
      <3> QED BY <3>1, <3>2
    <2> QED BY <2>1 DEF CataloguedAreServed
  <1>8. CatalogueDuringCalls'
    BY <1>1, <1>2, <1>3, <1>4 DEF CatalogueDuringCalls
  <1>9. Prepared'
    BY <1>3, <1>6 DEF Prepared
  <1>10. NoStrayDatabase'
    BY <1>1, <1>2, <1>3, <1>4 DEF DatabaseInv, NoStrayDatabase, Reached, InCall
  <1>11. NothingPromised'
    <2>1. ASSUME NEW t \in Slug, catalogue'[t] = Nowhere
          PROVE  t \notin migrated' /\ invoices'[t] = {}
      <3>1. t # u
        BY <1>2, <1>4, <2>1 DEF Nowhere, Server, Databases!Nowhere, Databases!Server
      <3> QED BY <1>1, <1>2, <1>3, <1>4, <2>1, <3>1 DEF DatabaseInv, NothingPromised, InCall
    <2> QED BY <2>1 DEF NothingPromised
  <1>12. PoolsAfterDrop'
    <2>1. opening # Databases!Idle => opening.slug \in Slug /\ opening.server \in Server
      BY DEF DatabaseInv, DatabaseTypes
    <2>2. /\ pools[u] # Nowhere => u \in reopened
          /\ opening # Databases!Idle /\ opening.slug = u => opening.moving
      BY <1>3 DEF DatabaseInv, PoolsAfterDrop
    <2>3. opening # Databases!Idle =>
            opening'.moving \/ opening'.server = catalogue'[opening'.slug]
      BY <1>2, <1>4, <2>1, <2>2 DEF DatabaseInv, PoolsAfterDrop
    <2>4. \A t \in Slug : pools'[t] \notin {catalogue'[t], Nowhere} => t \in reopened'
      BY <1>1, <1>4, <2>2 DEF DatabaseInv, PoolsAfterDrop
    <2> QED BY <1>1, <1>2, <1>3, <2>2, <2>3, <2>4 DEF PoolsAfterDrop
  <1> QED BY <1>2, <1>5, <1>7, <1>8, <1>9, <1>10, <1>11, <1>12 DEF DatabaseInv

LEMMA DropDatabaseKeeps == ASSUME DatabaseInv, Databases!DropDatabase PROVE DatabaseInv'
  <1> DEFINE u == admin.slug
             d == Databases!NoDatabase
  <1>0. Databases!Executes("drop_database")
    BY DEF Databases!DropDatabase
  <1>1. /\ database' = [database EXCEPT ![admin.from][u] = d]
        /\ cut' = IF admin.at = "offboard" THEN {u} ELSE cut
        /\ UNCHANGED <<catalogue, role, pools, reopened>>
    BY DEF Databases!DropDatabase
  <1>2. /\ u \in Slug /\ admin.from \in Server
        /\ Alive /\ Alive' /\ MigratedSoFar'
        /\ UNCHANGED <<opening, invoices, late, migrated>>
        /\ admin' \in AdminState
    BY <1>0, CallGoesOn
  <1>3. /\ \/ (admin.at = "move" /\ Left = 2 /\ Left' = 1)
           \/ (admin.at = "offboard" /\ Left = 3 /\ Left' = 2)
        /\ admin'.at = admin.at /\ admin'.slug = u /\ admin'.from = admin.from
        /\ admin'.to = admin.to /\ admin'.dump = admin.dump
        /\ cut = {} /\ cut' = (IF admin.at = "offboard" THEN {u} ELSE {})
    BY <1>0, <1>1, CallGoesOn DEF At, GoesOn, InCall
  <1>4. d \in Dbs /\ ~d.exists
    BY DEF Databases!NoDatabase, Dbs
  <1> HIDE DEF d
  <1>5. /\ database' \in [Server -> [Slug -> Dbs]] /\ database'[admin.from][u] = d
        /\ \A x \in Server, y \in Slug :
             x # admin.from \/ y # u => database'[x][y] = database[x][y]
    BY <1>1, <1>2, <1>4 DEF DatabaseInv, DatabaseTypes
  <1>6. DatabaseTypes'
    BY <1>1, <1>2, <1>5 DEF DatabaseInv, DatabaseTypes
  <1>7. admin.at = "move" => catalogue[u] # admin.from
    BY <1>2, <1>3 DEF DatabaseInv, CatalogueDuringCalls
  <1>8. CataloguedAreServed'
    <2>1. ASSUME NEW t \in Slug, catalogue[t] # Nowhere, t \notin cut'
          PROVE  GoodCopy(database[catalogue[t]][t], t)' /\ t \in role[catalogue[t]]
      <3>1. catalogue[t] \in Server /\ (t = u => catalogue[t] # admin.from)
        BY <1>3, <1>7, <2>1 DEF DatabaseInv, DatabaseTypes
      <3>2. GoodCopy(database[catalogue[t]][t], t) /\ t \in role[catalogue[t]]
        BY <1>3, <2>1 DEF DatabaseInv, CataloguedAreServed
      <3>3. database'[catalogue[t]][t] = database[catalogue[t]][t]
        BY <1>5, <3>1
      <3> QED BY <1>1, <1>2, <3>2, <3>3 DEF GoodCopy
    <2> QED BY <1>1, <1>2, <1>3, <2>1 DEF CataloguedAreServed, InCall
  <1>9. CatalogueDuringCalls'
    BY <1>1, <1>2, <1>3 DEF DatabaseInv, CatalogueDuringCalls, InCall
  <1>10. NoStrayDatabase'
    <2>1. ASSUME NEW t \in Slug, NEW s \in Server, database'[s][t].exists
          PROVE  database[s][t].exists /\ (s # admin.from \/ t # u)
      BY <1>4, <1>5, <2>1
    <2> QED BY <1>1, <1>2, <1>3, <1>4, <1>5, <2>1 DEF DatabaseInv, NoStrayDatabase, Reached, InCall
  <1>11. Prepared'
    BY <1>1, <1>3 DEF DatabaseInv, Prepared
  <1>12. NothingPromised'
    BY <1>1, <1>2, <1>3, <1>5 DEF DatabaseInv, NothingPromised, InCall
  <1>13. PoolsAfterDrop'
    BY <1>1, <1>2, <1>3 DEF DatabaseInv, PoolsAfterDrop
  <1> QED BY <1>2, <1>6, <1>8, <1>9, <1>10, <1>11, <1>12, <1>13 DEF DatabaseInv

LEMMA DropRoleKeeps == ASSUME DatabaseInv, Databases!DropRole PROVE DatabaseInv'
  <1> DEFINE u == admin.slug
  <1>0. Databases!Executes("drop_role")
    BY DEF Databases!DropRole
  <1>1. /\ role' = [role EXCEPT ![admin.from] = @ \ {u}]
        /\ UNCHANGED <<catalogue, database, pools, reopened, cut>>
    BY DEF Databases!DropRole
  <1>2. /\ u \in Slug /\ admin.from \in Server
        /\ Alive /\ Alive' /\ MigratedSoFar'
        /\ UNCHANGED <<opening, invoices, late, migrated>>
        /\ admin' \in AdminState
    BY <1>0, CallGoesOn
  <1>3. \/ admin.at = "move" /\ Left = 1 /\ admin'.at = "idle" /\ cut = {}
        \/ /\ admin.at = "offboard" /\ Left = 2 /\ Left' = 1
           /\ admin'.at = admin.at /\ admin'.slug = u /\ admin'.from = admin.from
           /\ admin'.to = admin.to /\ \A t \in cut : t = u
    BY <1>0, CallGoesOn DEF At, GoesOn, InCall, Databases!Idle
  <1>4. DatabaseTypes'
    BY <1>1, <1>2 DEF DatabaseInv, DatabaseTypes
  <1>5. /\ admin.at = "offboard" => u \in cut
        /\ \A s \in Server, t \in Slug : s # admin.from \/ t # u =>
             (t \in role'[s] <=> t \in role[s])
        /\ admin.at = "move" => catalogue[u] # admin.from
    BY <1>1, <1>2, <1>3 DEF DatabaseInv, DatabaseTypes, CatalogueDuringCalls
  <1>6. CataloguedAreServed'
    <2>1. ASSUME NEW t \in Slug, catalogue[t] # Nowhere, t \notin cut
          PROVE  GoodCopy(database[catalogue[t]][t], t)' /\ t \in role'[catalogue[t]]
      <3>1. catalogue[t] \in Server /\ (t = u => catalogue[t] # admin.from)
        BY <1>3, <1>5, <2>1 DEF DatabaseInv, DatabaseTypes, InCall
      <3> QED BY <1>1, <1>2, <1>5, <2>1, <3>1 DEF DatabaseInv, CataloguedAreServed, GoodCopy
    <2> QED BY <1>1, <2>1 DEF CataloguedAreServed
  <1>7. CatalogueDuringCalls'
    BY <1>1, <1>2, <1>3, <1>5 DEF DatabaseInv, CatalogueDuringCalls, InCall
  <1>8. NoStrayDatabase'
    BY <1>1, <1>2, <1>3 DEF DatabaseInv, NoStrayDatabase, Reached, InCall
  <1>9. Prepared'
    BY <1>3 DEF Prepared
  <1>10. NothingPromised'
    BY <1>1, <1>2, <1>3 DEF DatabaseInv, NothingPromised, InCall
  <1>11. PoolsAfterDrop'
    BY <1>1, <1>2, <1>3 DEF DatabaseInv, PoolsAfterDrop
  <1> QED BY <1>2, <1>4, <1>6, <1>7, <1>8, <1>9, <1>10, <1>11 DEF DatabaseInv

LEMMA DeleteTenantKeeps == ASSUME DatabaseInv, Databases!DeleteTenant PROVE DatabaseInv'
  <1> DEFINE u == admin.slug
  <1>1. /\ admin.at = "offboard" /\ admin' = Databases!Idle
        /\ catalogue' = [catalogue EXCEPT ![u] = Nowhere]
        /\ invoices' = [invoices EXCEPT ![u] = {}]
        /\ migrated' = migrated \ {u}
        /\ cut' = cut \ {u}
        /\ UNCHANGED <<database, role, pools, opening, late, reopened>>
    BY DEF Databases!DeleteTenant, Nowhere
  <1>2. admin.todo = O1
    BY DEF Databases!DeleteTenant, O1
  <1>3. /\ u \in Slug /\ Left = 1 /\ admin'.at = "idle" /\ Alive /\ Alive' /\ admin' \in AdminState
    BY <1>1, <1>2, CallTyped, Lengths
       DEF DatabaseInv, Left, Alive, Databases!Running, AdminState, Databases!Idle
  <1>4. /\ cut' = {} /\ \A t \in cut : t = u
        /\ catalogue[u] = admin.from /\ ~database[admin.from][u].exists
    BY <1>1, <1>3 DEF DatabaseInv, CatalogueDuringCalls, NoStrayDatabase, InCall
  <1>5. /\ catalogue'[u] = Nowhere /\ invoices'[u] = {} /\ u \notin migrated'
        /\ \A t \in Slug : t # u => /\ catalogue'[t] = catalogue[t] /\ invoices'[t] = invoices[t]
                                    /\ (t \in migrated' <=> t \in migrated)
    BY <1>1, <1>3 DEF DatabaseInv, DatabaseTypes
  <1>6. DatabaseTypes'
    BY <1>1, <1>3 DEF DatabaseInv, DatabaseTypes
  <1>7. CataloguedAreServed'
    <2>1. ASSUME NEW t \in Slug, catalogue'[t] # Nowhere
          PROVE  GoodCopy(database[catalogue[t]][t], t)' /\ t \in role'[catalogue'[t]]
      <3>1. t # u
        BY <1>5, <2>1
      <3> QED BY <1>1, <1>4, <1>5, <2>1, <3>1
              DEF DatabaseInv, CataloguedAreServed, GoodCopy, InCall
    <2> QED BY <2>1 DEF CataloguedAreServed
  <1>8. CatalogueDuringCalls' /\ Prepared' /\ MigratedSoFar'
    BY <1>3, <1>4 DEF CatalogueDuringCalls, Prepared, MigratedSoFar
  <1>9. NoStrayDatabase'
    <2>1. ASSUME NEW t \in Slug, NEW s \in Server, Reached(t, s)', database'[s][t].exists
          PROVE  s = catalogue'[t]
      <3>1. s = catalogue[t]
        BY <1>1, <1>3, <2>1 DEF DatabaseInv, NoStrayDatabase, Reached, InCall
      <3>2. t # u
        BY <1>1, <1>4, <2>1, <3>1
      <3> QED BY <1>5, <3>1, <3>2
    <2> QED BY <1>3, <2>1 DEF NoStrayDatabase
  <1>10. NothingPromised'
    BY <1>1, <1>3, <1>5 DEF DatabaseInv, NothingPromised, InCall
  <1>11. PoolsAfterDrop'
    <2>1. opening # Databases!Idle => opening.slug \in Slug /\ opening.server \in Server
      BY DEF DatabaseInv, DatabaseTypes
    <2>2. /\ pools[u] # Nowhere => u \in reopened
          /\ opening # Databases!Idle /\ opening.slug = u => opening.moving
      BY <1>1, <1>3 DEF DatabaseInv, PoolsAfterDrop
    <2>3. opening # Databases!Idle =>
            opening'.moving \/ opening'.server = catalogue'[opening'.slug]
      BY <1>1, <1>5, <2>1, <2>2 DEF DatabaseInv, PoolsAfterDrop
    <2>4. \A t \in Slug : pools'[t] \notin {catalogue'[t], Nowhere} => t \in reopened'
      BY <1>1, <1>5, <2>2 DEF DatabaseInv, PoolsAfterDrop
    <2> QED BY <1>1, <1>3, <2>3, <2>4 DEF PoolsAfterDrop
  <1> QED BY <1>6, <1>7, <1>8, <1>9, <1>10, <1>11 DEF DatabaseInv

\* A call begins when no other is in progress.
LEMMA BeginKeeps ==
  ASSUME DatabaseInv, NEW kind \in {"provision", "move", "offboard"}, NEW t \in Slug,
         NEW from \in Server, NEW to \in Server, Databases!Begin(kind, t, from, to),
         kind = "provision" => catalogue[t] = Nowhere,
         kind = "move" => catalogue[t] = from /\ from # to,
         kind = "offboard" => catalogue[t] = from
  PROVE  DatabaseInv'
  <1>1. /\ admin.at = "idle" /\ admin' = [at |-> kind, slug |-> t, from |-> from, to |-> to,
                                          dump |-> Databases!NoDatabase,
                                          todo |-> Databases!Statements(kind)]
        /\ UNCHANGED <<catalogue, database, role, pools, opening, invoices, late, reopened,
                       migrated, cut>>
    BY DEF Databases!Begin, Databases!Idle
  <1>2. /\ kind = "provision" => Databases!Statements(kind) = P6
        /\ kind = "move" => Databases!Statements(kind) = M8
        /\ kind = "offboard" => Databases!Statements(kind) = O4
    BY Zenon DEF Databases!Statements, P6, M8, O4
  <1>3. /\ admin'.at = kind /\ admin'.slug = t /\ admin'.from = from /\ admin'.to = to
        /\ admin'.todo = Databases!Statements(kind)
    BY <1>1
  <1>4. admin' \in AdminState
    <2>1. Databases!NoDatabase \in Dbs
      BY DEF Dbs
    <2>2. CASE kind = "provision"
      BY <1>1, <1>2, <2>1, <2>2 DEF AdminState, CallState
    <2>3. CASE kind = "move"
      BY <1>1, <1>2, <2>1, <2>3 DEF AdminState, CallState
    <2>4. CASE kind = "offboard"
      BY <1>1, <1>2, <2>1, <2>4 DEF AdminState, CallState
    <2> QED BY <2>2, <2>3, <2>4
  <1>5. Alive /\ Alive' /\ cut = {} /\ cut' = {}
    BY <1>1, <1>3 DEF Alive, Databases!Running, DatabaseInv, CatalogueDuringCalls, InCall
  <1>6. /\ kind = "provision" => Left' = 6
        /\ kind = "move" => Left' = 8
        /\ kind = "offboard" => Left' = 4
    BY <1>2, <1>3, Lengths DEF Left
  <1>7. DatabaseTypes'
    BY <1>1, <1>4 DEF DatabaseInv, DatabaseTypes
  <1>8. CataloguedAreServed'
    <2>1. ASSUME NEW y \in Slug, catalogue[y] # Nowhere
          PROVE  GoodCopy(database[catalogue[y]][y], y)' /\ y \in role[catalogue[y]]
      BY <1>1, <1>5, <2>1 DEF DatabaseInv, CataloguedAreServed, GoodCopy, InCall
    <2> QED BY <1>1, <2>1 DEF CataloguedAreServed
  <1>9. CatalogueDuringCalls'
    BY <1>1, <1>3, <1>5, <1>6 DEF CatalogueDuringCalls
  <1>10. NoStrayDatabase'
    BY <1>1, <1>3, <1>5, <1>6 DEF DatabaseInv, NoStrayDatabase, Reached, InCall
  <1>11. Prepared'
    BY <1>3, <1>6 DEF Prepared
  <1>12. NothingPromised'
    BY <1>1, <1>3, <1>5, <1>6 DEF DatabaseInv, NothingPromised, InCall
  <1>13. MigratedSoFar'
    BY <1>3 DEF MigratedSoFar
  <1>14. PoolsAfterDrop'
    BY <1>1, <1>3, <1>5, <1>6 DEF DatabaseInv, PoolsAfterDrop
  <1> QED BY <1>7, <1>8, <1>9, <1>10, <1>11, <1>12, <1>13, <1>14 DEF DatabaseInv

LEMMA CallsKeep ==
  ASSUME DatabaseInv, NEW t \in Slug,
         \/ Databases!Offboard(t)
         \/ \E s \in Server : Databases!Provision(t, s) \/ Databases!MoveTenant(t, s)
  PROVE  DatabaseInv'
  <1>1. catalogue[t] \in Server \cup {Nowhere}
    BY DEF DatabaseInv, DatabaseTypes
  <1>2. CASE Databases!Offboard(t)
    <2> DEFINE s == catalogue[t]
    <2>1. s \in Server /\ Databases!Begin("offboard", t, s, s)
      BY <1>1, <1>2 DEF Databases!Offboard, Nowhere
    <2> HIDE DEF s
    <2>2. catalogue[t] = s
      BY DEF s
    <2> QED BY <2>1, <2>2, BeginKeeps
  <1>3. ASSUME NEW s \in Server, Databases!Provision(t, s) PROVE DatabaseInv'
    <2>1. catalogue[t] = Nowhere /\ Databases!Begin("provision", t, s, s)
      BY <1>3 DEF Databases!Provision, Nowhere
    <2> QED BY <2>1, BeginKeeps
  <1>4. ASSUME NEW s \in Server, Databases!MoveTenant(t, s) PROVE DatabaseInv'
    <2> DEFINE f == catalogue[t]
    <2>1. f \in Server /\ f # s /\ Databases!Begin("move", t, f, s)
      BY <1>4 DEF Databases!MoveTenant, Server
    <2> HIDE DEF f
    <2>2. catalogue[t] = f
      BY DEF f
    <2> QED BY <2>1, <2>2, BeginKeeps
  <1> QED BY <1>2, <1>3, <1>4

LEMMA MigrateKeeps == ASSUME DatabaseInv, Databases!Migrate PROVE DatabaseInv'
  <1> DEFINE L == {t \in Slug : catalogue[t] # Nowhere}
  <1>1. /\ admin.at = "idle" /\ admin' = [at |-> "migrate", listed |-> L, left |-> L]
        /\ UNCHANGED <<catalogue, database, role, pools, opening, invoices, late, reopened,
                       migrated, cut>>
    BY DEF Databases!Migrate, Databases!Idle, Nowhere
  <1>2. /\ admin'.at = "migrate" /\ admin'.listed = L /\ admin'.left = L /\ L \subseteq Slug
        /\ \A t \in L : catalogue[t] # Nowhere
    BY <1>1
  <1>3. admin' \in AdminState
    <2> HIDE DEF L
    <2> QED BY <1>1, <1>2 DEF AdminState
  <1> HIDE DEF L
  <1>4. Alive /\ Alive' /\ cut = {} /\ cut' = {}
    BY <1>1, <1>2 DEF Alive, Databases!Running, DatabaseInv, CatalogueDuringCalls, InCall
  <1>5. DatabaseTypes'
    BY <1>1, <1>3 DEF DatabaseInv, DatabaseTypes
  <1>6. CataloguedAreServed'
    BY <1>1, <1>2, <1>4 DEF DatabaseInv, CataloguedAreServed, GoodCopy, InCall
  <1>7. CatalogueDuringCalls'
    BY <1>1, <1>2, <1>4 DEF CatalogueDuringCalls
  <1>8. NoStrayDatabase'
    BY <1>1, <1>2, <1>4 DEF DatabaseInv, NoStrayDatabase, Reached, InCall
  <1>9. Prepared' /\ MigratedSoFar'
    BY <1>2 DEF Prepared, MigratedSoFar
  <1>10. NothingPromised'
    BY <1>1, <1>2, <1>4 DEF DatabaseInv, NothingPromised, InCall
  <1>11. PoolsAfterDrop'
    BY <1>1, <1>2, <1>4 DEF DatabaseInv, PoolsAfterDrop
  <1> QED BY <1>5, <1>6, <1>7, <1>8, <1>9, <1>10, <1>11 DEF DatabaseInv

LEMMA MigrateTenantKeeps ==
  ASSUME DatabaseInv, NEW t \in Slug, Databases!MigrateTenant(t)
  PROVE  DatabaseInv'
  <1> DEFINE s == pools[t]
             d == database[s][t]
             e == [d EXCEPT !.version = 2]
  <1>1. /\ admin.at = "migrate" /\ t \in admin.left /\ s # Nowhere /\ d.exists
        /\ database' = [database EXCEPT ![s][t].version = 2]
        /\ UNCHANGED <<catalogue, role, pools, opening, invoices, late, reopened, cut>>
        /\ \/ admin.left = {t} /\ admin' = Databases!Idle /\ migrated' = migrated \cup admin.listed
           \/ admin' = [admin EXCEPT !.left = @ \ {t}] /\ migrated' = migrated
    BY DEF Databases!MigrateTenant, Nowhere
  <1>2. s \in Server /\ Alive
    BY <1>1 DEF DatabaseInv, DatabaseTypes, Alive, Databases!Running
  <1>3. s = catalogue[t]
    BY <1>1, <1>2 DEF DatabaseInv, NoStrayDatabase, Reached, InCall
  <1>4. d \in [exists : {TRUE}, invoices : SUBSET (1..MaxWrites), version : {1, 2},
               limited : BOOLEAN, closed : BOOLEAN, owned : BOOLEAN]
    <2>1. d \in Dbs
      BY <1>2 DEF DatabaseInv, DatabaseTypes
    <2>2. Databases!NoDatabase.exists = FALSE
      BY DEF Databases!NoDatabase
    <2>3. d # Databases!NoDatabase
      BY <1>1, <2>2
    <2> QED BY <2>1, <2>3 DEF Dbs
  <1>5. /\ e \in Dbs /\ e.exists /\ e.invoices = d.invoices /\ e.version = 2
        /\ e.limited = d.limited /\ e.closed = d.closed /\ e.owned = d.owned
    <2> HIDE DEF d
    <2> QED BY <1>4 DEF Dbs
  <1>6. /\ database' \in [Server -> [Slug -> Dbs]] /\ database'[s][t] = e
        /\ \A x \in Server, y \in Slug : x # s \/ y # t => database'[x][y] = database[x][y]
    <2>1. database' = [database EXCEPT ![s][t] = e]
      BY <1>1, <1>2 DEF DatabaseInv, DatabaseTypes
    <2> HIDE DEF e
    <2> QED BY <1>2, <1>5, <2>1 DEF DatabaseInv, DatabaseTypes
  <1> HIDE DEF e
  <1>7. admin \in [at : {"migrate"}, listed : SUBSET Slug, left : SUBSET Slug]
    BY <1>1 DEF DatabaseInv, DatabaseTypes, AdminState, CallState
  <1>8. /\ admin' \in AdminState /\ Alive'
        /\ \/ admin.left = {t} /\ admin'.at = "idle" /\ migrated' = migrated \cup admin.listed
           \/ /\ admin'.at = "migrate" /\ admin'.listed = admin.listed
              /\ admin'.left = admin.left \ {t} /\ migrated' = migrated
    <2>1. CASE admin' = Databases!Idle /\ admin.left = {t} /\ migrated' = migrated \cup admin.listed
      BY <2>1 DEF Databases!Idle, AdminState, Alive, Databases!Running
    <2>2. CASE admin' = [admin EXCEPT !.left = @ \ {t}] /\ migrated' = migrated
      <3>1. admin' = [at |-> "migrate", listed |-> admin.listed, left |-> admin.left \ {t}]
        BY <1>7, <2>2
      <3>2. admin'.at = "migrate" /\ Alive'
        BY <3>1 DEF Alive, Databases!Running
      <3> QED BY <1>7, <2>2, <3>1, <3>2 DEF AdminState
    <2> QED BY <1>1, <2>1, <2>2
  <1>9. cut = {} /\ cut' = {}
    BY <1>1, <1>2 DEF DatabaseInv, CatalogueDuringCalls, InCall
  <1>10. /\ \A y \in admin.listed : y \in Slug /\ catalogue[y] \in Server
         /\ \A y \in admin.listed \ (admin.left \ {t}) : database'[catalogue[y]][y].version = 2
    <2>1. \A y \in admin.listed : y \in Slug /\ catalogue[y] \in Server
      BY <1>1, <1>7 DEF DatabaseInv, DatabaseTypes, CatalogueDuringCalls
    <2>2. ASSUME NEW y \in admin.listed \ (admin.left \ {t})
          PROVE  database'[catalogue[y]][y].version = 2
      <3>1. CASE y = t
        BY <1>3, <1>5, <1>6, <3>1
      <3>2. CASE y # t
        BY <1>1, <1>6, <2>1, <3>2 DEF DatabaseInv, MigratedSoFar
      <3> QED BY <3>1, <3>2
    <2> QED BY <2>1, <2>2
  <1>11. DatabaseTypes'
    BY <1>1, <1>6, <1>7, <1>8 DEF DatabaseInv, DatabaseTypes
  <1>12. CataloguedAreServed'
    <2>1. ASSUME NEW y \in Slug, catalogue[y] # Nowhere
          PROVE  GoodCopy(database[catalogue[y]][y], y)' /\ y \in role[catalogue[y]]
      <3>1. /\ catalogue[y] \in Server /\ y \in role[catalogue[y]]
            /\ GoodCopy(database[catalogue[y]][y], y)
        BY <1>1, <1>9, <2>1
           DEF DatabaseInv, DatabaseTypes, CataloguedAreServed, InCall
      <3>2. /\ database'[catalogue[y]][y].exists /\ database'[catalogue[y]][y].limited
            /\ database'[catalogue[y]][y].closed /\ database'[catalogue[y]][y].owned
            /\ database'[catalogue[y]][y].invoices = database[catalogue[y]][y].invoices
        <4>1. CASE y = t
          BY <1>3, <1>5, <1>6, <3>1, <4>1 DEF GoodCopy
        <4>2. CASE y # t
          BY <1>6, <3>1, <4>2 DEF GoodCopy
        <4> QED BY <4>1, <4>2
      <3>3. ASSUME y \in migrated' PROVE database'[catalogue[y]][y].version = 2
        <4>1. CASE y \in admin.listed /\ admin.left = {t}
          BY <1>10, <4>1
        <4>2. CASE y \in migrated
          BY <1>3, <1>5, <1>6, <3>1, <4>2 DEF GoodCopy
        <4> QED BY <1>8, <3>3, <4>1, <4>2
      <3> QED BY <1>1, <3>1, <3>2, <3>3 DEF GoodCopy
    <2> QED BY <1>1, <2>1 DEF CataloguedAreServed
  <1>13. CatalogueDuringCalls'
    BY <1>1, <1>8, <1>9 DEF DatabaseInv, CatalogueDuringCalls
  <1>14. NoStrayDatabase'
    <2>1. ASSUME NEW y \in Slug, NEW x \in Server, database'[x][y].exists
          PROVE  database[x][y].exists
      BY <1>1, <1>6, <2>1
    <2> QED BY <1>1, <1>2, <1>8, <2>1 DEF DatabaseInv, NoStrayDatabase, Reached, InCall
  <1>15. Prepared'
    BY <1>8 DEF Prepared
  <1>16. NothingPromised'
    <2>1. ASSUME NEW y \in Slug, catalogue[y] = Nowhere
          PROVE  y \notin migrated' /\ invoices[y] = {}
      <3>1. y \notin migrated /\ invoices[y] = {}
        BY <1>1, <1>2, <2>1 DEF DatabaseInv, NothingPromised, InCall
      <3>2. y \notin admin.listed
        BY <1>1, <2>1 DEF DatabaseInv, CatalogueDuringCalls
      <3> QED BY <1>8, <3>1, <3>2
    <2> QED BY <1>1, <2>1 DEF NothingPromised
  <1>17. MigratedSoFar'
    BY <1>1, <1>8, <1>10 DEF MigratedSoFar
  <1>18. PoolsAfterDrop'
    BY <1>1, <1>8 DEF DatabaseInv, PoolsAfterDrop
  <1> QED BY <1>11, <1>12, <1>13, <1>14, <1>15, <1>16, <1>17, <1>18 DEF DatabaseInv

LEMMA LookupPoolKeeps ==
  ASSUME DatabaseInv, NEW t \in Slug, Databases!Lookup(t)
  PROVE  DatabaseInv'
  <1> DEFINE mv == Databases!Moving(t)
             w == [at |-> "open", slug |-> t, server |-> catalogue[t], moving |-> mv]
  <1>1. /\ Alive /\ opening' = w /\ catalogue[t] # Nowhere
        /\ UNCHANGED <<catalogue, database, role, pools, admin, invoices, late, reopened,
                       migrated, cut>>
    BY DEF Databases!Lookup, Alive, Nowhere
  <1>2. mv \in BOOLEAN /\ (mv <=> InCall("move", t) \/ InCall("offboard", t))
    BY DEF Databases!Moving, InCall
  <1> HIDE DEF mv
  <1>3. catalogue[t] \in Server
    BY <1>1 DEF DatabaseInv, DatabaseTypes
  <1>4. /\ w \in [at : {"open"}, slug : Slug, server : Server, moving : BOOLEAN]
        /\ w.slug = t /\ w.server = catalogue[t] /\ w.moving = mv
    BY <1>2, <1>3
  <1> HIDE DEF w
  <1>5. DatabaseTypes'
    BY <1>1, <1>4 DEF DatabaseInv, DatabaseTypes
  <1>6. CataloguedAreServed' /\ CatalogueDuringCalls'
    BY <1>1 DEF DatabaseInv, CataloguedAreServed, CatalogueDuringCalls, GoodCopy,
                InCall, Left, Alive, Databases!Running
  <1>7. NoStrayDatabase' /\ Prepared' /\ NothingPromised' /\ MigratedSoFar'
    <2>1. ASSUME NEW y \in Slug, NEW x \in Server, Reached(y, x)', x # catalogue[y]
          PROVE  Reached(y, x)
      BY <1>1, <1>4, <2>1 DEF Reached
    <2>2. NoStrayDatabase'
      BY <1>1, <2>1 DEF DatabaseInv, NoStrayDatabase, InCall, Left, Alive, Databases!Running
    <2> QED BY <1>1, <2>2 DEF DatabaseInv, Prepared, NothingPromised, MigratedSoFar, GoodCopy,
                              InCall, Left, Alive, Databases!Running
  <1>8. PoolsAfterDrop'
    <2>1. opening'.moving \/ opening'.server = catalogue'[opening'.slug]
      BY <1>1, <1>4
    <2>2. /\ (admin.at = "move" /\ Left <= 7) \/ (admin.at = "offboard" /\ Left <= 3)
          /\ opening'.slug = admin.slug
          => opening'.moving
      BY <1>1, <1>2, <1>4 DEF InCall
    <2>3. Alive' /\ Left' = Left
      BY <1>1 DEF Alive, Databases!Running, Left
    <2> QED BY <1>1, <2>1, <2>2, <2>3 DEF DatabaseInv, PoolsAfterDrop
  <1> QED BY <1>5, <1>6, <1>7, <1>8 DEF DatabaseInv

LEMMA OpenPoolKeeps == ASSUME DatabaseInv, Databases!OpenPool PROVE DatabaseInv'
  <1> DEFINE t == opening.slug
             s == opening.server
  <1>1. /\ Alive /\ opening # Databases!Idle /\ opening' = Databases!Idle
        /\ UNCHANGED <<catalogue, database, role, admin, invoices, late, migrated, cut>>
        /\ \/ UNCHANGED <<pools, reopened>>
           \/ /\ pools' = [pools EXCEPT ![t] = s]
              /\ reopened' = IF opening.moving THEN reopened \cup {t} ELSE reopened
    BY DEF Databases!OpenPool, Alive
  <1>2. t \in Slug /\ s \in Server
    BY <1>1 DEF DatabaseInv, DatabaseTypes
  <1>3. Alive' /\ Left' = Left
    BY <1>1 DEF Alive, Databases!Running, Left
  <1>4. DatabaseTypes'
    BY <1>1, <1>2 DEF DatabaseInv, DatabaseTypes
  <1>5. CataloguedAreServed' /\ CatalogueDuringCalls'
    BY <1>1 DEF DatabaseInv, CataloguedAreServed, CatalogueDuringCalls, GoodCopy,
                InCall, Left, Alive, Databases!Running
  <1>6. NoStrayDatabase' /\ Prepared' /\ NothingPromised' /\ MigratedSoFar'
    <2>1. ASSUME NEW y \in Slug, NEW x \in Server, Reached(y, x)' PROVE Reached(y, x)
      BY <1>1, <1>2, <2>1 DEF DatabaseInv, DatabaseTypes, Reached
    <2>2. NoStrayDatabase'
      BY <1>1, <2>1 DEF DatabaseInv, NoStrayDatabase, InCall, Left, Alive, Databases!Running
    <2> QED BY <1>1, <2>2 DEF DatabaseInv, Prepared, NothingPromised, MigratedSoFar, GoodCopy,
                              InCall, Left, Alive, Databases!Running
  <1>7. PoolsAfterDrop'
    <2>1. CASE UNCHANGED <<pools, reopened>>
      BY <1>1, <1>3, <2>1 DEF DatabaseInv, PoolsAfterDrop
    <2>2. CASE /\ pools' = [pools EXCEPT ![t] = s]
               /\ reopened' = IF opening.moving THEN reopened \cup {t} ELSE reopened
      <3>1. /\ pools'[t] = s /\ \A y \in Slug : y # t => pools'[y] = pools[y]
            /\ \A y \in Slug : y \in reopened => y \in reopened'
            /\ opening.moving => t \in reopened'
        BY <1>2, <2>2 DEF DatabaseInv, DatabaseTypes
      <3>2. opening.moving \/ s = catalogue[t]
        BY <1>1 DEF DatabaseInv, PoolsAfterDrop
      <3>3. \A y \in Slug : pools'[y] \notin {catalogue'[y], Nowhere} => y \in reopened'
        BY <1>1, <3>1, <3>2 DEF DatabaseInv, PoolsAfterDrop
      <3>4. ASSUME (admin.at = "move" /\ Left <= 7) \/ (admin.at = "offboard" /\ Left <= 3)
            PROVE  pools'[admin.slug] # Nowhere => admin.slug \in reopened'
        <4>1. admin.slug \in Slug
          BY <3>4, CallTyped DEF DatabaseInv
        <4> QED BY <1>1, <3>1, <3>4, <4>1 DEF DatabaseInv, PoolsAfterDrop
      <3> QED BY <1>1, <1>3, <3>3, <3>4 DEF PoolsAfterDrop
    <2> QED BY <1>1, <2>1, <2>2
  <1> QED BY <1>4, <1>5, <1>6, <1>7 DEF DatabaseInv

LEMMA WriteKeeps ==
  ASSUME DatabaseInv, NEW t \in Slug, NEW n \in 1..MaxWrites, Databases!Write(t, n)
  PROVE  DatabaseInv'
  <1> DEFINE s == pools[t]
             d == database[s][t]
             e == [d EXCEPT !.invoices = @ \cup {n}]
  <1>1. /\ Alive /\ s # Nowhere /\ d.exists
        /\ database' = [database EXCEPT ![s][t].invoices = @ \cup {n}]
        /\ invoices' = [invoices EXCEPT ![t] = @ \cup {n}]
        /\ late' = IF Databases!Moving(t) /\ admin.dump.exists THEN late \cup {n} ELSE late
        /\ UNCHANGED <<catalogue, role, pools, opening, admin, reopened, migrated, cut>>
    BY DEF Databases!Write, Alive, Nowhere
  <1>2. s \in Server
    BY <1>1 DEF DatabaseInv, DatabaseTypes
  <1>3. d \in [exists : {TRUE}, invoices : SUBSET (1..MaxWrites), version : {1, 2},
               limited : BOOLEAN, closed : BOOLEAN, owned : BOOLEAN]
    <2>1. d \in Dbs
      BY <1>2 DEF DatabaseInv, DatabaseTypes
    <2>2. Databases!NoDatabase.exists = FALSE
      BY DEF Databases!NoDatabase
    <2>3. d # Databases!NoDatabase
      BY <1>1, <2>2
    <2> QED BY <2>1, <2>3 DEF Dbs
  <1>4. /\ e \in Dbs /\ e.exists /\ e.invoices = d.invoices \cup {n} /\ e.version = d.version
        /\ e.limited = d.limited /\ e.closed = d.closed /\ e.owned = d.owned
    <2> HIDE DEF d
    <2> QED BY <1>3 DEF Dbs
  <1>5. /\ database' \in [Server -> [Slug -> Dbs]] /\ database'[s][t] = e
        /\ \A x \in Server, y \in Slug : x # s \/ y # t => database'[x][y] = database[x][y]
    <2>1. database' = [database EXCEPT ![s][t] = e]
      BY <1>1, <1>2 DEF DatabaseInv, DatabaseTypes
    <2> HIDE DEF e
    <2> QED BY <1>2, <1>4, <2>1 DEF DatabaseInv, DatabaseTypes
  <1> HIDE DEF e
  <1>6. /\ invoices' \in [Slug -> SUBSET (1..MaxWrites)] /\ invoices'[t] = invoices[t] \cup {n}
        /\ \A y \in Slug : y # t => invoices'[y] = invoices[y]
        /\ late \subseteq late' /\ late' \subseteq 1..MaxWrites
    BY <1>1 DEF DatabaseInv, DatabaseTypes
  <1>7. /\ Left' = Left /\ Alive'
    BY <1>1 DEF Left, Alive, Databases!Running
  <1>8. InCall("move", t) /\ admin.dump.exists => n \in late'
    BY <1>1 DEF Databases!Moving, InCall
  \* Where the invoice was written.
  <1>9. \/ s = catalogue[t]
        \/ InCall("provision", t) /\ s = admin.to /\ Left <= 4
        \/ n \in late'
    <2>1. InCall("move", t) /\ Left \in {2, 3, 4} => admin.dump.exists
      BY DEF DatabaseInv, Prepared, InCall
    <2>2. Reached(t, s)
      BY DEF Reached
    <2> QED BY <1>1, <1>2, <1>8, <2>1, <2>2 DEF DatabaseInv, NoStrayDatabase
  <1>10. DatabaseTypes'
    BY <1>1, <1>5, <1>6 DEF DatabaseInv, DatabaseTypes
  \* A copy of the tenant elsewhere stays good, because the invoice is late.
  <1>11. ASSUME NEW c, NEW y \in Slug, GoodCopy(c, y), y = t => n \in late'
         PROVE  /\ c.exists /\ c.limited /\ c.closed /\ c.owned
                /\ invoices'[y] \ late' \subseteq c.invoices
                /\ y \in migrated' => c.version = 2
    BY <1>1, <1>6, <1>11 DEF GoodCopy
  <1>12. ASSUME NEW x \in Server, NEW y \in Slug, GoodCopy(database[x][y], y),
                y = t /\ x # s => n \in late'
         PROVE  /\ database'[x][y].exists /\ database'[x][y].limited /\ database'[x][y].closed
                /\ database'[x][y].owned
                /\ invoices'[y] \ late' \subseteq database'[x][y].invoices
                /\ y \in migrated' => database'[x][y].version = 2
    <2>1. CASE x = s /\ y = t
      BY <1>1, <1>4, <1>5, <1>6, <1>12, <2>1 DEF GoodCopy
    <2>2. CASE x # s \/ y # t
      BY <1>5, <1>11, <1>12, <2>2
    <2> QED BY <2>1, <2>2
  <1>13. CataloguedAreServed'
    <2>1. ASSUME NEW y \in Slug, catalogue[y] # Nowhere, y \notin cut
          PROVE  GoodCopy(database[catalogue[y]][y], y)' /\ y \in role'[catalogue'[y]]
      <3>1. /\ catalogue[y] \in Server /\ y \in role[catalogue[y]]
            /\ GoodCopy(database[catalogue[y]][y], y)
        BY <2>1 DEF DatabaseInv, DatabaseTypes, CataloguedAreServed
      <3>2. y = t /\ catalogue[y] # s => n \in late'
        BY <1>9, <2>1 DEF DatabaseInv, CatalogueDuringCalls, InCall
      <3> QED BY <1>1, <1>12, <3>1, <3>2 DEF GoodCopy
    <2> QED BY <1>1, <2>1 DEF CataloguedAreServed, InCall
  <1>14. CatalogueDuringCalls'
    BY <1>1, <1>7 DEF DatabaseInv, CatalogueDuringCalls, InCall
  <1>15. ASSUME NEW x \in Server, NEW y \in Slug
         PROVE  database'[x][y].exists <=> database[x][y].exists
    BY <1>1, <1>4, <1>5
  <1>16. NoStrayDatabase'
    <2>1. admin.at = "offboard" => admin.from \in Server /\ admin.slug \in Slug
      BY CallTyped DEF DatabaseInv
    <2> QED BY <1>1, <1>7, <1>15, <2>1 DEF DatabaseInv, NoStrayDatabase, Reached, InCall
  <1>17. Prepared'
    <2>1. CASE admin.at = "provision"
      <3>1. admin.to \in Server /\ admin.slug \in Slug
        BY <2>1, CallTyped DEF DatabaseInv
      <3>2. /\ database'[admin.to][admin.slug].exists <=> database[admin.to][admin.slug].exists
            /\ Left <= 4 =>
                 /\ database'[admin.to][admin.slug].limited = database[admin.to][admin.slug].limited
                 /\ database'[admin.to][admin.slug].closed = database[admin.to][admin.slug].closed
                 /\ database'[admin.to][admin.slug].owned = database[admin.to][admin.slug].owned
        BY <1>4, <1>5, <1>15, <3>1
      <3> QED BY <1>1, <1>7, <2>1, <3>2 DEF DatabaseInv, Prepared
    <2>2. CASE admin.at = "move"
      <3>1. admin.to \in Server /\ admin.slug \in Slug /\ Left \in 1..8
        BY <2>2, CallTyped DEF DatabaseInv
      <3>2. Left <= 5 => (admin.slug = t => n \in late')
        BY <1>8, <2>2 DEF DatabaseInv, Prepared, InCall
      <3>3. Left \in 3..5 => GoodCopy(admin.dump, admin.slug)'
        BY <1>1, <1>11, <2>2, <3>1, <3>2 DEF DatabaseInv, Prepared, GoodCopy
      <3>4. Left \in {3, 4} => GoodCopy(database[admin.to][admin.slug], admin.slug)'
        BY <1>1, <1>12, <2>2, <3>1, <3>2 DEF DatabaseInv, Prepared, GoodCopy
      <3> QED BY <1>1, <1>7, <2>2, <3>3, <3>4 DEF DatabaseInv, Prepared
    <2> QED BY <1>1, <2>1, <2>2 DEF Prepared
  <1>18. NothingPromised'
    <2>1. ASSUME NEW y \in Slug, catalogue[y] = Nowhere
          PROVE  /\ y \notin migrated
                 /\ invoices'[y] \subseteq
                      (IF InCall("provision", y) /\ Left <= 4 THEN database'[admin.to][y].invoices
                                                              ELSE {})
      <3>1. /\ y \notin migrated
            /\ invoices[y] \subseteq
                 (IF InCall("provision", y) /\ Left <= 4 THEN database[admin.to][y].invoices
                                                         ELSE {})
        BY <1>1, <2>1 DEF DatabaseInv, NothingPromised
      <3>2. InCall("provision", y) => admin.to \in Server
        BY CallTyped DEF DatabaseInv, InCall
      <3>3. CASE y = t
        <4>1. InCall("provision", y) /\ s = admin.to /\ Left <= 4
          <5>1. catalogue[y] \notin Server
            BY <2>1 DEF Nowhere, Server, Databases!Nowhere, Databases!Server
          <5>2. ~InCall("move", y)
            BY <5>1, CallTyped DEF DatabaseInv, CatalogueDuringCalls, InCall
          <5>3. Reached(t, s)
            BY DEF Reached
          <5> QED BY <1>1, <1>2, <3>3, <5>1, <5>2, <5>3 DEF DatabaseInv, NoStrayDatabase
        <4> QED BY <1>4, <1>5, <1>6, <3>1, <3>3, <4>1
      <3>4. CASE y # t
        BY <1>5, <1>6, <3>1, <3>2, <3>4
      <3> QED BY <3>1, <3>3, <3>4
    <2> QED BY <1>1, <1>7, <2>1 DEF NothingPromised, InCall
  <1>19. MigratedSoFar'
    <2>1. ASSUME admin.at = "migrate", NEW y \in admin.listed \ admin.left
          PROVE  database'[catalogue[y]][y].version = 2
      <3>1. y \in Slug /\ catalogue[y] \in Server
        BY <2>1 DEF DatabaseInv, DatabaseTypes, AdminState, CallState, CatalogueDuringCalls
      <3>2. database[catalogue[y]][y].version = 2
        BY <2>1 DEF DatabaseInv, MigratedSoFar
      <3> QED BY <1>4, <1>5, <3>1, <3>2
    <2> QED BY <1>1, <2>1 DEF MigratedSoFar
  <1>20. PoolsAfterDrop'
    BY <1>1, <1>7 DEF DatabaseInv, PoolsAfterDrop
  <1> QED BY <1>10, <1>13, <1>14, <1>16, <1>17, <1>18, <1>19, <1>20 DEF DatabaseInv

LEMMA FatalKeeps == ASSUME DatabaseInv, Databases!Fatal PROVE DatabaseInv'
  <1>1. /\ admin' = [at |-> "ended"]
        /\ pools' = Databases!NotPlaced /\ opening' = Databases!Idle
        /\ UNCHANGED <<catalogue, database, role, invoices, late, migrated, cut>>
    BY DEF Databases!Fatal
  <1>2. admin'.at = "ended" /\ admin' \in AdminState /\ ~Alive'
    BY <1>1 DEF AdminState, Alive, Databases!Running
  <1>3. DatabaseTypes'
    BY <1>1, <1>2 DEF DatabaseInv, DatabaseTypes, Databases!NotPlaced, Nowhere
  <1>4. CataloguedAreServed'
    BY <1>1 DEF DatabaseInv, CataloguedAreServed, GoodCopy
  <1>5. CatalogueDuringCalls' /\ Prepared' /\ MigratedSoFar'
    BY <1>2 DEF CatalogueDuringCalls, Prepared, MigratedSoFar
  <1>6. NoStrayDatabase' /\ NothingPromised'
    BY <1>2 DEF NoStrayDatabase, NothingPromised
  <1>7. PoolsAfterDrop'
    BY <1>1, <1>2 DEF PoolsAfterDrop, Databases!NotPlaced, Nowhere
  <1> QED BY <1>3, <1>4, <1>5, <1>6, <1>7 DEF DatabaseInv

\* Until its TRUNCATE, a reset has to keep types and what the catalogue still promises.
LEMMA ResetGoesOn ==
  ASSUME DatabaseInv, ~Alive, admin' \in AdminState, admin'.at = "reset",
         UNCHANGED <<catalogue, pools, opening, invoices, late, reopened, migrated>>,
         DatabaseTypes', CataloguedAreServed'
  PROVE  DatabaseInv'
  <1>1. ~Alive'
    BY DEF Alive, Databases!Running
  <1>2. CatalogueDuringCalls' /\ Prepared' /\ MigratedSoFar'
    BY <1>1 DEF CatalogueDuringCalls, Prepared, MigratedSoFar
  <1>3. NoStrayDatabase' /\ NothingPromised'
    BY <1>1 DEF NoStrayDatabase, NothingPromised
  <1>4. PoolsAfterDrop'
    BY <1>1 DEF DatabaseInv, PoolsAfterDrop
  <1> QED BY <1>2, <1>3, <1>4 DEF DatabaseInv

LEMMA ResetListsKeep ==
  ASSUME DatabaseInv, Databases!Reset \/ Databases!ListNext
  PROVE  DatabaseInv'
  <1>1. ~Alive
    BY DEF Databases!Reset, Databases!ListNext, Alive, Databases!Running
  <1>2. \E step \in 1..4 : Databases!List(step)
    <2>1. CASE Databases!Reset
      BY <2>1 DEF Databases!Reset
    <2>2. CASE Databases!ListNext
      <3>1. admin.step \in 1..4
        BY <2>2 DEF Databases!ListNext, DatabaseInv, DatabaseTypes, AdminState, CallState
      <3>2. PICK step : step = admin.step + 1
        OBVIOUS
      <3>3. step \in 1..4 /\ Databases!List(step)
        BY <2>2, <3>1, <3>2 DEF Databases!ListNext
      <3> QED BY <3>3
    <2> QED BY <2>1, <2>2
  <1>3. PICK step \in 1..4 : Databases!List(step)
    BY <1>2
  <1>4. Databases!ListedServer(step) \in Server
    BY DEF Databases!ListedServer, Server, Databases!Server
  <1>5. Databases!Present(step) \subseteq Slug
    BY <1>4 DEF DatabaseInv, DatabaseTypes, Databases!Present
  <1>6. admin' \in AdminState /\ admin'.at = "reset"
    <2>1. \/ admin' = [at |-> "reset", step |-> step, left |-> Databases!Present(step)]
          \/ admin' = [at |-> "reset", step |-> step, left |-> {}]
      BY <1>3 DEF Databases!List
    <2> QED BY <1>5, <2>1 DEF AdminState
  <1>7. UNCHANGED <<catalogue, database, role, pools, opening, invoices, late, reopened,
                    migrated, cut>>
    BY <1>3 DEF Databases!List
  <1>8. DatabaseTypes'
    BY <1>6, <1>7 DEF DatabaseInv, DatabaseTypes
  <1>9. CataloguedAreServed'
    BY <1>7 DEF DatabaseInv, CataloguedAreServed, GoodCopy
  <1> QED BY <1>1, <1>6, <1>7, <1>8, <1>9, ResetGoesOn

LEMMA ResetDropKeeps ==
  ASSUME DatabaseInv, NEW t \in Slug, Databases!ResetDrop(t)
  PROVE  DatabaseInv'
  <1> DEFINE s == Databases!ListedServer(admin.step)
             d == Databases!NoDatabase
  <1>1. /\ admin.at = "reset" /\ admin' = [admin EXCEPT !.left = @ \ {t}]
        /\ \/ /\ database' = [database EXCEPT ![s][t] = d] /\ role' = role
              /\ cut' = IF catalogue[t] = s THEN cut \cup {t} ELSE cut
           \/ /\ ~database[s][t].exists /\ role' = [role EXCEPT ![s] = @ \ {t}]
              /\ database' = database /\ cut' = cut
        /\ UNCHANGED <<catalogue, pools, opening, invoices, late, reopened, migrated>>
    BY DEF Databases!ResetDrop
  <1>2. s \in Server
    BY DEF Databases!ListedServer, Server, Databases!Server
  <1>3. d \in Dbs
    BY DEF Dbs
  <1> HIDE DEF s, d
  <1>4. admin \in [at : {"reset"}, step : 1..4, left : SUBSET Slug]
    BY <1>1 DEF DatabaseInv, DatabaseTypes, AdminState, CallState
  <1>5. admin' = [at |-> "reset", step |-> admin.step, left |-> admin.left \ {t}]
    BY <1>1, <1>4
  <1>6. admin' \in AdminState /\ admin'.at = "reset" /\ ~Alive
    BY <1>1, <1>4, <1>5 DEF AdminState, Alive, Databases!Running
  <1>7. /\ database' \in [Server -> [Slug -> Dbs]] /\ role' \in [Server -> SUBSET Slug]
        /\ \A x \in Server, y \in Slug : x # s \/ y # t =>
             database'[x][y] = database[x][y] /\ (y \in role'[x] <=> y \in role[x])
    <2>1. DatabaseTypes
      BY DEF DatabaseInv
    <2>2. CASE database' = [database EXCEPT ![s][t] = d] /\ role' = role
      BY <1>2, <1>3, <2>1, <2>2 DEF DatabaseTypes
    <2>3. CASE database' = database /\ role' = [role EXCEPT ![s] = @ \ {t}]
      BY <1>2, <2>1, <2>3 DEF DatabaseTypes
    <2> QED BY <1>1, <2>2, <2>3
  <1>8. DatabaseTypes'
    BY <1>1, <1>6, <1>7 DEF DatabaseInv, DatabaseTypes
  <1>9. CataloguedAreServed'
    <2>1. ASSUME NEW y \in Slug, catalogue[y] # Nowhere, y \notin cut'
          PROVE  GoodCopy(database[catalogue[y]][y], y)' /\ y \in role'[catalogue[y]]
      <3>1. catalogue[y] \in Server /\ y \notin cut
        BY <1>1, <2>1 DEF DatabaseInv, DatabaseTypes
      <3>2. GoodCopy(database[catalogue[y]][y], y) /\ y \in role[catalogue[y]]
        BY <2>1, <3>1 DEF DatabaseInv, CataloguedAreServed
      <3>3. catalogue[y] # s \/ y # t
        BY <1>1, <2>1, <3>2 DEF GoodCopy
      <3> QED BY <1>1, <1>7, <3>1, <3>2, <3>3 DEF GoodCopy
    <2> QED BY <1>1, <2>1 DEF CataloguedAreServed
  <1> QED BY <1>1, <1>6, <1>8, <1>9, ResetGoesOn

LEMMA TruncateKeeps == ASSUME DatabaseInv, Databases!Truncate PROVE DatabaseInv'
  <1>1. /\ ~Alive /\ admin' = [at |-> "idle"] /\ catalogue' = Databases!NotPlaced
        /\ invoices' = [t \in Slug |-> {}]
        /\ late' = {} /\ migrated' = {} /\ cut' = {}
        /\ UNCHANGED <<database, role, pools, opening, reopened>>
    BY DEF Databases!Truncate, Databases!Idle, Alive, Databases!Running
  <1>2. admin'.at = "idle" /\ admin' \in AdminState /\ Alive'
    BY <1>1 DEF AdminState, Alive, Databases!Running
  <1>3. pools' = Databases!NotPlaced /\ opening' = Databases!Idle
    BY <1>1 DEF DatabaseInv, PoolsAfterDrop
  <1>4. \A t \in Slug : catalogue'[t] = Nowhere /\ pools'[t] = Nowhere
    BY <1>1, <1>3 DEF Databases!NotPlaced, Nowhere
  <1>5. DatabaseTypes'
    <2>1. catalogue' \in [Slug -> Server \cup {Nowhere}]
      BY <1>1 DEF Databases!NotPlaced, Nowhere
    <2> QED BY <1>1, <1>2, <2>1 DEF DatabaseInv, DatabaseTypes
  <1>6. CataloguedAreServed'
    BY <1>4 DEF CataloguedAreServed
  <1>7. CatalogueDuringCalls' /\ Prepared' /\ MigratedSoFar'
    BY <1>1, <1>2 DEF CatalogueDuringCalls, Prepared, MigratedSoFar
  <1>8. NoStrayDatabase'
    <2>1. \A t \in Slug, s \in Server : ~Reached(t, s)'
      BY <1>3, <1>4 DEF Reached, Nowhere, Server, Databases!Nowhere, Databases!Server
    <2> QED BY <1>2, <2>1 DEF NoStrayDatabase
  <1>9. NothingPromised'
    BY <1>1, <1>2 DEF NothingPromised, InCall
  <1>10. PoolsAfterDrop'
    BY <1>2, <1>3, <1>4 DEF PoolsAfterDrop
  <1> QED BY <1>5, <1>6, <1>7, <1>8, <1>9, <1>10 DEF DatabaseInv

LEMMA DatabaseStep == DatabaseInv /\ [Next]_vars => DatabaseInv'
  <1>1. ASSUME DatabaseInv, UNCHANGED databaseVars PROVE DatabaseInv'
    BY <1>1 DEF databaseVars, DatabaseInv, DatabaseTypes, CataloguedAreServed,
                CatalogueDuringCalls, NoStrayDatabase, Prepared, NothingPromised,
                MigratedSoFar, PoolsAfterDrop, GoodCopy, Reached, InCall, Left, Alive,
                Databases!Running
  <1>2. ASSUME DatabaseInv, Databases!Next PROVE DatabaseInv'
    BY <1>2, LookupPoolKeeps, OpenPoolKeeps, WriteKeeps, CallsKeep, DropPoolKeeps,
       CreateRoleKeeps, CreateDatabaseKeeps, AlterDatabaseKeeps, DumpKeeps, RestoreKeeps,
       InsertTenantKeeps, UpdateTenantKeeps, DropDatabaseKeeps, DropRoleKeeps,
       DeleteTenantKeeps, MigrateKeeps, MigrateTenantKeeps, FatalKeeps, ResetListsKeep, ResetDropKeeps,
       TruncateKeeps
       DEF Databases!Next, Server
  <1> QED BY <1>1, <1>2, DatabaseSteps

\* For any tenants, invoices, calls and broken listings: at whatever statement a
\* provisioning, a move, an offboarding, a migration or the reset of the next run has arrived
\* or was cut short, a tenant of the catalogue whose database offboard or reset has not
\* dropped has it, with role, limits, finished migrations and acknowledged invoices, where
\* the catalogue says, but for what was written after the dump of a move; past reset the
\* only other tenant is one that is just taken off; and a pool that was looked up during a
\* move or an offboarding and leads elsewhere leads, once the call is over, to no database.
THEOREM TenantsKeepTheirData == Spec => []TenantsReachData
  <1>1. DatabaseInv => TenantsReachData
    <2> SUFFICES ASSUME DatabaseInv PROVE TenantsReachData
      OBVIOUS
    <2>1. ASSUME NEW t \in Slug, catalogue[t] # Nowhere, t \notin cut
          PROVE  GoodCopy(database[catalogue[t]][t], t) /\ t \in role[catalogue[t]]
      BY <2>1 DEF DatabaseInv, CataloguedAreServed
    <2>2. ASSUME NEW t \in Slug, pools[t] \notin {catalogue[t], Nowhere} PROVE t \in reopened
      BY <2>2 DEF DatabaseInv, PoolsAfterDrop
    <2>3. ASSUME NEW t \in Slug, pools[t] \notin {catalogue[t], Nowhere},
                 admin.at \in {"idle", "migrate"}
          PROVE  ~database[pools[t]][t].exists
      <3>1. Reached(t, pools[t]) /\ pools[t] \in Server
        BY <2>3 DEF Reached, DatabaseInv, DatabaseTypes
      <3>2. Alive
        BY <2>3 DEF Alive, Databases!Running
      <3> QED BY <2>3, <3>1, <3>2 DEF DatabaseInv, NoStrayDatabase, InCall
    <2>4. Databases!Running => cut \subseteq {t \in Slug : admin.at = "offboard" /\ admin.slug = t}
      BY CallTyped DEF DatabaseInv, CatalogueDuringCalls, Alive, InCall
    <2> QED BY <2>1, <2>2, <2>3, <2>4 DEF GoodCopy, Nowhere, TenantsReachData,
                              Databases!TenantsReachData
  <1> QED BY <1>1, DatabaseInit, DatabaseStep, PTL DEF Spec

(***************************************************************************)
(* data_archival.                                                          *)
(***************************************************************************)
LEMMA ArchiveSteps == [Next]_vars => Tiers!Next \/ UNCHANGED archiveVars
  BY DEF Next, Others, vars

ArchiveTypes ==
  /\ hot \subseteq Tiers!Id /\ archived \subseteq Tiers!Id /\ years \in 0..MaxYears
  /\ exported \subseteq 0..MaxYears /\ file \in [0..MaxYears -> SUBSET Tiers!Id]
  /\ exporter \in {Tiers!Idle} \cup [at : {"begun", "copied"}, now : 0..MaxYears]
  /\ finder \in {Tiers!Idle} \cup
       [at : {"archive?", "nowhere"}, id : Tiers!Id, erred : BOOLEAN]

Harmed == crossed \cup overwritten
NoFile(i) == \A y \in exported : i \notin file[y]
OneFile(i) == \E y \in exported : i \in file[y] /\ \A z \in exported : i \in file[z] => z = y

InOnePlace(i) ==
  \/ i \in hot /\ i \notin archived /\ NoFile(i)
  \/ i \notin hot /\ i \in archived /\ NoFile(i)
  \/ i \notin hot /\ i \notin archived /\ OneFile(i)

PlacedOnce == \A i \in Tiers!Id : i \notin Harmed => InOnePlace(i)

\* Between an export's COPY and its DELETE, the file holds what the DELETE will find, but
\* for orders that were moved meanwhile.
CopyMatches ==
  exporter.at = "copied" =>
    /\ exporter.now \notin exported
    /\ \A i \in Tiers!Id : i \notin crossed =>
         (i \in file[exporter.now] <=> i \in Tiers!Expired)

\* What findOrder did not meet in the hot table is still ahead of it, or was exported,
\* or a restore took it past the search.
SearchMissesLittle ==
  finder # Tiers!Idle =>
    \/ finder.erred \/ finder.id \in restored \/ finder.id \in Harmed
    \/ ~NoFile(finder.id)
    \/ finder.at = "archive?" /\ finder.id \in archived

TiersInv == ArchiveTypes /\ PlacedOnce /\ CopyMatches /\ SearchMissesLittle

LEMMA ArchiveConstants == Orders \in Nat /\ MaxYears \in Nat
  BY PlacementAssumption DEF PlacementAssumption

LEMMA TiersInit == Init => TiersInv
  <1> SUFFICES ASSUME Tiers!Init PROVE TiersInv
    BY DEF Init
  <1> USE ArchiveConstants DEF Tiers!Init
  <1>1. ArchiveTypes
    BY DEF ArchiveTypes
  <1>2. PlacedOnce
    BY DEF PlacedOnce, InOnePlace, NoFile
  <1>3. CopyMatches /\ SearchMissesLittle
    BY DEF CopyMatches, SearchMissesLittle, Tiers!Idle
  <1> QED BY <1>1, <1>2, <1>3 DEF TiersInv

\* Steps that move no order and change no file.
LEMMA NothingMoves ==
  ASSUME TiersInv, UNCHANGED <<hot, archived, file, exported, crossed, overwritten>>
  PROVE  PlacedOnce'
  BY DEF TiersInv, PlacedOnce, InOnePlace, NoFile, OneFile, Harmed

LEMMA SearchStays ==
  ASSUME TiersInv, UNCHANGED <<archived, file, exported, crossed, overwritten, finder, restored>>
  PROVE  SearchMissesLittle'
  BY DEF TiersInv, SearchMissesLittle, NoFile, Harmed

LEMMA YearKeeps == ASSUME TiersInv, Tiers!YearPasses PROVE TiersInv'
  <1> USE ArchiveConstants DEF Tiers!YearPasses
  <1>1. ArchiveTypes'
    BY DEF TiersInv, ArchiveTypes
  <1>2. CopyMatches'
    BY DEF TiersInv, CopyMatches, Tiers!Expired
  <1> QED BY <1>1, <1>2, NothingMoves, SearchStays DEF TiersInv

\* Steps of the application and of the archiver's loop.
LEMMA UpdateKeeps ==
  ASSUME TiersInv, UNCHANGED <<hot, archived, file, exported, years, exporter, finder,
                               crossed, overwritten, restored>>
  PROVE  TiersInv'
  <1>1. ArchiveTypes' /\ CopyMatches'
    BY DEF TiersInv, ArchiveTypes, CopyMatches, Tiers!Expired
  <1> QED BY <1>1, NothingMoves, SearchStays DEF TiersInv

\* A statement that moves the orders of M between hot table and archive.
LEMMA MoveKeeps ==
  ASSUME TiersInv, NEW M \in SUBSET Tiers!Id,
         UNCHANGED <<file, exported, years, exporter, finder, overwritten>>,
         \/ M \subseteq hot /\ hot' = hot \ M /\ archived' = archived \cup M /\ restored' = restored
         \/ /\ M \subseteq archived /\ archived' = archived \ M /\ hot' = hot \cup M
            /\ restored' = IF finder.at = "archive?" THEN restored \cup M ELSE restored,
         crossed' = IF Tiers!Copied THEN crossed \cup M ELSE crossed
  PROVE  TiersInv'
  <1>1. ArchiveTypes'
    BY DEF TiersInv, ArchiveTypes
  <1>2. /\ \A i \in Tiers!Id : i \in Harmed => i \in Harmed'
        /\ \A i \in Tiers!Id : NoFile(i)' <=> NoFile(i)
        /\ \A i \in Tiers!Id : OneFile(i)' <=> OneFile(i)
    BY DEF Harmed, NoFile, OneFile
  <1>3. \A i \in M : i \notin Harmed => NoFile(i)
    BY DEF TiersInv, PlacedOnce, InOnePlace
  <1>4. PlacedOnce'
    BY <1>2, <1>3 DEF TiersInv, PlacedOnce, InOnePlace
  <1>5. CopyMatches'
    BY DEF TiersInv, CopyMatches, Tiers!Expired, Tiers!Copied
  <1>6. SearchMissesLittle'
    <2> SUFFICES ASSUME finder' # Tiers!Idle
                 PROVE  \/ finder'.erred \/ finder'.id \in restored' \/ finder'.id \in Harmed'
                        \/ ~NoFile(finder.id)'
                        \/ finder'.at = "archive?" /\ finder'.id \in archived'
      BY DEF SearchMissesLittle
    <2>1. finder' = finder /\ finder.id \in Tiers!Id
      BY DEF TiersInv, ArchiveTypes
    <2>2. NoFile(finder.id)' <=> NoFile(finder.id)
      BY <2>1 DEF NoFile
    <2>3. \/ finder.erred \/ finder.id \in restored \/ finder.id \in Harmed
          \/ ~NoFile(finder.id)
          \/ finder.at = "archive?" /\ finder.id \in archived
      BY <2>1 DEF TiersInv, SearchMissesLittle
    <2> QED BY <1>2, <2>1, <2>2, <2>3
  <1> QED BY <1>1, <1>4, <1>5, <1>6 DEF TiersInv

LEMMA ArchiveBatchKeeps == ASSUME TiersInv, Tiers!ArchiveBatch PROVE TiersInv'
  <1>1. Tiers!NextBatch \subseteq hot
    BY DEF Tiers!NextBatch, Tiers!Due
  <1>2. Tiers!NextBatch \in SUBSET Tiers!Id
    BY <1>1 DEF TiersInv, ArchiveTypes
  <1> QED BY <1>1, <1>2, MoveKeeps DEF Tiers!ArchiveBatch

LEMMA RestoreOrderKeeps ==
  ASSUME TiersInv, NEW i \in Tiers!Id, Tiers!Restore(i)
  PROVE  TiersInv'
  <1> DEFINE M == archived \cap {i}
  <1>1. /\ hot' = hot \cup M /\ archived' = archived \ M
        /\ restored' = IF finder.at = "archive?" THEN restored \cup M ELSE restored
        /\ crossed' = IF Tiers!Copied THEN crossed \cup M ELSE crossed
        /\ UNCHANGED <<file, exported, years, exporter, finder, overwritten>>
    BY DEF Tiers!Restore
  <1>2. M \subseteq archived /\ M \in SUBSET Tiers!Id
    OBVIOUS
  <1> HIDE DEF M
  <1> QED BY <1>1, <1>2, MoveKeeps
\* What the exporter has in hand, once begun.
LEMMA ExporterHasAYear ==
  ASSUME TiersInv, exporter # Tiers!Idle
  PROVE  /\ exporter \in [at : {"begun", "copied"}, now : 0..MaxYears]
         /\ exporter.now \in 0..MaxYears
  BY DEF TiersInv, ArchiveTypes

LEMMA ExportKeeps == ASSUME TiersInv, Tiers!Export PROVE TiersInv'
  <1> USE DEF Tiers!Export
  <1>1. ArchiveTypes'
    BY DEF TiersInv, ArchiveTypes
  <1>2. CopyMatches'
    BY DEF CopyMatches
  <1> QED BY <1>1, <1>2, NothingMoves, SearchStays DEF TiersInv

LEMMA ExportFailsKeeps == ASSUME TiersInv, Tiers!ExportFails PROVE TiersInv'
  <1> USE DEF Tiers!ExportFails
  <1>1. ArchiveTypes'
    BY DEF TiersInv, ArchiveTypes
  <1>2. CopyMatches'
    BY DEF CopyMatches, Tiers!Idle
  <1> QED BY <1>1, <1>2, NothingMoves, SearchStays DEF TiersInv

\* The COPY: what it writes over is among the harmed orders from then on.
LEMMA CopyOutKeeps == ASSUME TiersInv, Tiers!CopyOut PROVE TiersInv'
  <1> DEFINE now == exporter.now
  <1>1. exporter # Tiers!Idle
    BY DEF Tiers!CopyOut, Tiers!Idle
  <1>2. now \in 0..MaxYears /\ exporter \in [at : {"begun", "copied"}, now : 0..MaxYears]
    BY <1>1, ExporterHasAYear
  <1>3. /\ exporter' \in [at : {"begun", "copied"}, now : 0..MaxYears]
        /\ exporter'.now = now
    BY <1>2 DEF Tiers!CopyOut
  <1>4. /\ exported' = exported \ {now}
        /\ file' = [file EXCEPT ![now] = Tiers!Expired]
        /\ overwritten' = IF now \in exported THEN overwritten \cup file[now] ELSE overwritten
        /\ UNCHANGED <<hot, archived, years, finder, crossed, restored>>
    BY DEF Tiers!CopyOut
  <1>5. file \in [0..MaxYears -> SUBSET Tiers!Id] /\ exported \subseteq 0..MaxYears
    BY DEF TiersInv, ArchiveTypes
  <1>6. Tiers!Expired \in SUBSET Tiers!Id
    BY DEF TiersInv, ArchiveTypes, Tiers!Expired
  <1>7. Tiers!Expired' = Tiers!Expired
    BY <1>3, <1>4 DEF Tiers!Expired
  <1> HIDE DEF now
  <1>8. /\ file'[now] = Tiers!Expired
        /\ \A y \in exported : y # now => file'[y] = file[y]
    BY <1>2, <1>4, <1>5
  <1>9. ArchiveTypes'
    BY <1>3, <1>4, <1>5, <1>6 DEF TiersInv, ArchiveTypes
  <1>10. \A i \in Tiers!Id : (i \in Harmed => i \in Harmed') /\ (NoFile(i) => NoFile(i)')
    BY <1>4, <1>8 DEF Harmed, NoFile
  <1>11. \A i \in Tiers!Id : i \notin Harmed' /\ OneFile(i) => OneFile(i)'
    BY <1>4, <1>8 DEF Harmed, OneFile
  <1>12. \A i \in Tiers!Id : i \notin Harmed' /\ ~NoFile(i) => ~(NoFile(i)')
    BY <1>4, <1>8 DEF Harmed, NoFile
  <1>13. PlacedOnce'
    BY <1>4, <1>10, <1>11 DEF TiersInv, PlacedOnce, InOnePlace
  <1>14. CopyMatches'
    <2>1. now \notin exported' /\ \A i \in Tiers!Id : i \in file'[now] <=> i \in Tiers!Expired'
      BY <1>4, <1>7, <1>8
    <2> QED BY <1>3, <2>1 DEF CopyMatches
  <1>15. SearchMissesLittle'
    <2> SUFFICES ASSUME finder' # Tiers!Idle
                 PROVE  \/ finder'.erred \/ finder'.id \in restored' \/ finder'.id \in Harmed'
                        \/ ~(NoFile(finder.id)')
                        \/ finder'.at = "archive?" /\ finder'.id \in archived'
      BY DEF SearchMissesLittle
    <2>1. finder' = finder /\ finder.id \in Tiers!Id
      BY <1>4 DEF TiersInv, ArchiveTypes
    <2>2. \/ finder.erred \/ finder.id \in restored \/ finder.id \in Harmed
          \/ ~NoFile(finder.id)
          \/ finder.at = "archive?" /\ finder.id \in archived
      BY <2>1 DEF TiersInv, SearchMissesLittle
    <2> QED BY <1>4, <1>10, <1>12, <2>1, <2>2
  <1> QED BY <1>9, <1>13, <1>14, <1>15 DEF TiersInv

\* The DELETE and the commit: what leaves the archive is in the file that now counts.
LEMMA DeleteKeeps == ASSUME TiersInv, Tiers!DeleteAndCommit PROVE TiersInv'
  <1> DEFINE now == exporter.now
             Gone == Tiers!Expired
  <1>1. exporter # Tiers!Idle
    BY DEF Tiers!DeleteAndCommit, Tiers!Idle
  <1>2. now \in 0..MaxYears
    BY <1>1, ExporterHasAYear
  <1>3. /\ archived' = archived \ Gone /\ exported' = exported \cup {now}
        /\ exporter' = Tiers!Idle
        /\ UNCHANGED <<hot, file, years, finder, crossed, overwritten, restored>>
    BY DEF Tiers!DeleteAndCommit
  <1>4. Gone \subseteq archived
    BY DEF Tiers!Expired
  <1>5. /\ now \notin exported
        /\ \A i \in Tiers!Id : i \notin Harmed => (i \in file[now] <=> i \in Gone)
    BY DEF TiersInv, CopyMatches, Tiers!DeleteAndCommit, Harmed
  <1>6. CopyMatches'
    BY <1>3 DEF CopyMatches, Tiers!Idle
  <1>7. ArchiveTypes'
    BY <1>2, <1>3 DEF TiersInv, ArchiveTypes
  <1> HIDE DEF now, Gone
  <1>8. Harmed' = Harmed
    BY <1>3 DEF Harmed
  <1>9. ASSUME NEW i \in Tiers!Id, i \notin Harmed PROVE InOnePlace(i)'
    <2>1. InOnePlace(i)
      BY <1>9 DEF TiersInv, PlacedOnce
    <2>2. CASE i \in Gone
      <3>1. i \in archived /\ i \notin hot /\ NoFile(i)
        BY <1>4, <2>1, <2>2 DEF InOnePlace
      <3>2. OneFile(i)'
        BY <1>3, <1>5, <1>9, <2>2, <3>1 DEF OneFile, NoFile
      <3> QED BY <1>3, <2>2, <3>1, <3>2 DEF InOnePlace
    <2>3. CASE i \notin Gone
      <3>1. i \notin file[now]
        BY <1>5, <1>9, <2>3
      <3>2. (NoFile(i) => NoFile(i)') /\ (OneFile(i) => OneFile(i)')
        BY <1>3, <3>1 DEF NoFile, OneFile
      <3> QED BY <1>3, <2>1, <2>3, <3>2 DEF InOnePlace
    <2> QED BY <2>2, <2>3
  <1>10. PlacedOnce'
    BY <1>8, <1>9 DEF PlacedOnce
  <1>11. SearchMissesLittle'
    <2> SUFFICES ASSUME finder' # Tiers!Idle
                 PROVE  \/ finder'.erred \/ finder'.id \in restored' \/ finder'.id \in Harmed'
                        \/ ~(NoFile(finder.id)')
                        \/ finder'.at = "archive?" /\ finder'.id \in archived'
      BY DEF SearchMissesLittle
    <2>1. finder' = finder /\ finder.id \in Tiers!Id
      BY <1>3 DEF TiersInv, ArchiveTypes
    <2>2. \/ finder.erred \/ finder.id \in restored \/ finder.id \in Harmed
          \/ ~NoFile(finder.id)
          \/ finder.at = "archive?" /\ finder.id \in archived
      BY <2>1 DEF TiersInv, SearchMissesLittle
    <2>3. ~NoFile(finder.id) => ~(NoFile(finder.id)')
      BY <1>3 DEF NoFile
    <2>4. finder.id \in Gone /\ finder.id \notin Harmed => ~(NoFile(finder.id)')
      BY <1>3, <1>5, <2>1 DEF NoFile
    <2> QED BY <1>3, <1>8, <2>1, <2>2, <2>3, <2>4
  <1> QED BY <1>6, <1>7, <1>10, <1>11 DEF TiersInv
\* Steps of the search change neither tables nor files.
LEMMA FindHotKeeps ==
  ASSUME TiersInv, NEW i \in Tiers!Id, NEW erred \in BOOLEAN, Tiers!FindHot(i, erred)
  PROVE  TiersInv'
  <1>1. /\ finder' = IF i \in hot /\ ~erred THEN Tiers!Idle
                     ELSE [at |-> "archive?", id |-> i, erred |-> erred]
        /\ UNCHANGED <<hot, archived, file, exported, years, exporter, crossed, overwritten>>
    BY DEF Tiers!FindHot
  <1>2. ArchiveTypes' /\ CopyMatches'
    <2>1. finder' \in {Tiers!Idle} \cup
                        [at : {"archive?", "nowhere"}, id : Tiers!Id, erred : BOOLEAN]
      BY <1>1
    <2> QED BY <1>1, <2>1 DEF TiersInv, ArchiveTypes, CopyMatches, Tiers!Expired
  <1>3. SearchMissesLittle'
    <2>1. CASE i \in hot /\ ~erred
      BY <1>1, <2>1 DEF SearchMissesLittle
    <2>2. CASE ~(i \in hot /\ ~erred)
      <3>1. finder'.at = "archive?" /\ finder'.id = i /\ finder'.erred = erred
        BY <1>1, <2>2
      <3>2. \/ erred \/ i \in Harmed \/ ~NoFile(i) \/ i \in archived
        BY <2>2 DEF TiersInv, PlacedOnce, InOnePlace, NoFile, OneFile
      <3>3. Harmed' = Harmed /\ archived' = archived /\ (NoFile(i)' <=> NoFile(i))
        BY <1>1 DEF Harmed, NoFile
      <3> QED BY <3>1, <3>2, <3>3 DEF SearchMissesLittle
    <2> QED BY <2>1, <2>2
  <1> QED BY <1>1, <1>2, <1>3, NothingMoves DEF TiersInv

LEMMA FindArchivedKeeps ==
  ASSUME TiersInv, NEW erred \in BOOLEAN, Tiers!FindArchived(erred)
  PROVE  TiersInv'
  <1> DEFINE id == finder.id
  <1>1. /\ finder.at = "archive?"
        /\ finder' = IF id \in archived /\ ~erred THEN Tiers!Idle
                     ELSE [finder EXCEPT !.at = "nowhere", !.erred = @ \/ erred]
        /\ UNCHANGED <<hot, archived, file, exported, years, exporter, crossed, overwritten,
                       restored>>
    BY DEF Tiers!FindArchived
  <1>2. finder \in [at : {"archive?", "nowhere"}, id : Tiers!Id, erred : BOOLEAN]
    BY <1>1 DEF TiersInv, ArchiveTypes, Tiers!Idle
  <1>3. CASE id \in archived /\ ~erred
    <2>1. finder' = Tiers!Idle
      BY <1>1, <1>3
    <2> QED BY <1>1, <2>1, NothingMoves
            DEF TiersInv, ArchiveTypes, CopyMatches, Tiers!Expired, SearchMissesLittle
  <1>4. CASE ~(id \in archived /\ ~erred)
    <2>1. finder' = [finder EXCEPT !.at = "nowhere", !.erred = finder.erred \/ erred]
      BY <1>1, <1>4
    <2>2. /\ finder' \in [at : {"archive?", "nowhere"}, id : Tiers!Id, erred : BOOLEAN]
          /\ finder'.at = "nowhere" /\ finder'.id = id
      BY <1>2, <2>1
    <2>3. finder'.erred = (finder.erred \/ erred)
      BY <1>2, <2>1
    <2>4. ArchiveTypes' /\ CopyMatches'
      BY <1>1, <2>2 DEF TiersInv, ArchiveTypes, CopyMatches, Tiers!Expired
    <2>5. \/ finder.erred \/ id \in restored \/ id \in Harmed
          \/ ~NoFile(id) \/ id \in archived
      BY <1>1 DEF TiersInv, SearchMissesLittle, Tiers!Idle
    <2>6. \/ finder.erred \/ erred \/ id \in restored \/ id \in Harmed \/ ~NoFile(id)
      BY <1>4, <2>5
    <2>7. Harmed' = Harmed /\ restored' = restored /\ (NoFile(id)' <=> NoFile(id))
      BY <1>1, <2>2 DEF Harmed, NoFile
    <2>8. SearchMissesLittle'
      BY <2>2, <2>3, <2>6, <2>7 DEF SearchMissesLittle
    <2> QED BY <1>1, <2>4, <2>8, NothingMoves DEF TiersInv
  <1> QED BY <1>3, <1>4

LEMMA TiersStep == TiersInv /\ [Next]_vars => TiersInv'
  <1> SUFFICES ASSUME TiersInv, Tiers!Next \/ UNCHANGED archiveVars PROVE TiersInv'
    BY ArchiveSteps
  <1>1. CASE UNCHANGED archiveVars
    BY <1>1, UpdateKeeps DEF archiveVars
  <1>2. CASE Tiers!Archive
    BY <1>2, UpdateKeeps DEF Tiers!Archive
  <1>3. ASSUME NEW i \in Tiers!Id, Tiers!Lock(i) \/ Tiers!Deliver(i) PROVE TiersInv'
    BY <1>3, UpdateKeeps DEF Tiers!Lock, Tiers!Deliver
  <1> QED BY <1>1, <1>2, <1>3, YearKeeps, ArchiveBatchKeeps, RestoreOrderKeeps, ExportKeeps,
             CopyOutKeeps, DeleteKeeps, ExportFailsKeeps, FindHotKeeps, FindArchivedKeeps
          DEF Tiers!Next

\* Archives, restores and exports that overlap leave an order in one place - hot table,
\* archive or committed file - unless a move between a COPY and its DELETE, or a second
\* export in the month, harmed it; and findOrder misses it only for the reasons
\* OrdersSomewhere names.
THEOREM OrdersInOnePlace == Spec => []OrdersSomewhere
  <1> DEFINE Files(i) == {y \in exported : i \in file[y]}
  <1>1. TiersInv => OrdersSomewhere
    <2> SUFFICES ASSUME TiersInv PROVE OrdersSomewhere
      OBVIOUS
    <2>1. \A i : NoFile(i) => Files(i) = {}
      BY DEF NoFile
    <2>2. \A i : Files(i) = {} => NoFile(i)
      BY DEF NoFile
    <2>3. \A i : OneFile(i) => \E y \in exported : Files(i) = {y}
      BY DEF OneFile
    <2>4. \A i \in Tiers!Id \ Harmed :
            \/ i \in hot \ archived /\ Files(i) = {}
            \/ i \in archived \ hot /\ Files(i) = {}
            \/ i \notin hot \cup archived /\ \E y \in exported : Files(i) = {y}
      <3> SUFFICES ASSUME NEW i \in Tiers!Id, i \notin Harmed
                   PROVE  \/ i \in hot \ archived /\ Files(i) = {}
                          \/ i \in archived \ hot /\ Files(i) = {}
                          \/ i \notin hot \cup archived /\ \E y \in exported : Files(i) = {y}
        OBVIOUS
      <3>1. InOnePlace(i)
        BY DEF TiersInv, PlacedOnce
      <3> HIDE DEF Files
      <3> QED BY <2>1, <2>3, <3>1 DEF InOnePlace
    <2>5. finder.at = "nowhere" =>
            \/ finder.erred \/ finder.id \in restored \cup Harmed \/ Files(finder.id) # {}
      <3> HIDE DEF Files
      <3> QED BY <2>2 DEF TiersInv, SearchMissesLittle, Tiers!Idle
    <2> QED BY <2>4, <2>5, Zenon DEF OrdersSomewhere, Tiers!OrdersSomewhere, Harmed, Files
  <1> QED BY <1>1, TiersInit, TiersStep, PTL DEF Spec

(***************************************************************************)
(* newsql.                                                                 *)
(***************************************************************************)
LEMMA TransferSteps == [Next]_vars => Bank!Next \/ UNCHANGED transferVars
  BY DEF Next, Others, vars

LEMMA TransferConstants == Seed \in Nat /\ MaxRetries \in Nat \ {0} /\ IsFiniteSet(Payer)
  BY PlacementAssumption DEF PlacementAssumption

Called == {"begin", "credit", "commit", "ok", "unknown", "failed"}
TransferState ==
  [at : {"start"}]
    \cup [at : Called, from : Bank!Account, amount : 1..Seed, attempt : 1..MaxRetries,
          read : Nat, readTo : Nat]

TransferTypes ==
  /\ balance \in [Bank!Account -> Nat] /\ txn \in [Payer -> TransferState]
  /\ applied \in [Payer -> Nat] /\ unsure \subseteq Payer

\* A transfer in state t has been applied n times, or so says the program if it is sure.
CommitsOf(t, n, doubt) ==
  /\ t.at \in {"start", "begin", "credit", "commit"} => n = 0 /\ ~doubt
  /\ t.at \in {"credit", "commit"} => t.amount <= t.read
  /\ t.at = "ok" => n = 1
  /\ t.at = "unknown" => n = 1 /\ doubt
  /\ t.at = "failed" => n = (IF doubt THEN 1 ELSE 0)

AppliedOnce == \A p \in Payer : CommitsOf(txn[p], applied[p], p \in unsure)

Amounts == [p \in Payer |-> txn[p].amount]
Moved(a) == {p \in Payer : applied[p] > 0 /\ txn[p].from = a}

\* An account has what it started with, less what went out, plus what came in.
Balanced ==
  \A a \in Bank!Account :
    balance[a] = Seed - SumOf(Amounts, Moved(a)) + SumOf(Amounts, Moved(Bank!OtherAccount(a)))

BankInv == TransferTypes /\ AppliedOnce /\ Balanced

LEMMA Accounts ==
  /\ Bank!Account = {"alice", "bob"}
  /\ Bank!OtherAccount("alice") = "bob" /\ Bank!OtherAccount("bob") = "alice"
  BY DEF Bank!Account, Bank!OtherAccount

LEMMA TwoAccounts ==
  \A a \in Bank!Account :
    /\ Bank!OtherAccount(a) \in Bank!Account /\ Bank!OtherAccount(a) # a
    /\ Bank!OtherAccount(Bank!OtherAccount(a)) = a
    /\ \A b \in Bank!Account : b = a \/ b = Bank!OtherAccount(a)
  BY Accounts

LEMMA MovedAmounts ==
  ASSUME TransferTypes, AppliedOnce, NEW a
  PROVE  IsFiniteSet(Moved(a)) /\ \A p \in Moved(a) : Amounts[p] \in Int
  <1>1. IsFiniteSet(Moved(a))
    BY TransferConstants, FS_Subset DEF Moved
  <1>2. ASSUME NEW p \in Moved(a) PROVE Amounts[p] \in Int
    <2>1. p \in Payer /\ applied[p] # 0 /\ txn[p] \in TransferState
      BY DEF Moved, TransferTypes
    <2>2. txn[p].at # "start"
      BY <2>1 DEF AppliedOnce, CommitsOf
    <2>3. txn[p].amount \in 1..Seed
      BY <2>1, <2>2 DEF TransferState
    <2> QED BY <2>1, <2>3, TransferConstants DEF Amounts
  <1> QED BY <1>1, <1>2

LEMMA BankInit == Init => BankInv
  <1> SUFFICES ASSUME Init PROVE BankInv
    OBVIOUS
  <1>1. Bank!Init
    BY DEF Init
  <1>2. TransferTypes /\ AppliedOnce
    BY <1>1, TransferConstants DEF Bank!Init, TransferTypes, TransferState, AppliedOnce, CommitsOf
  <1>3. \A a : Moved(a) = {}
    BY <1>1 DEF Bank!Init, Moved
  <1>4. SumOf(Amounts, {}) = 0
    BY SumZero, FS_EmptySet
  <1>5. Balanced
    <2> SUFFICES ASSUME NEW a \in Bank!Account
                 PROVE  balance[a] = Seed - SumOf(Amounts, Moved(a))
                                       + SumOf(Amounts, Moved(Bank!OtherAccount(a)))
      BY DEF Balanced
    <2>1. Moved(a) = {} /\ Moved(Bank!OtherAccount(a)) = {} /\ balance[a] = Seed
      BY <1>1, <1>3 DEF Bank!Init
    <2> QED BY <1>4, <2>1, TransferConstants
  <1> QED BY <1>2, <1>5 DEF BankInv

\* A transfer goes on without a commit.
LEMMA NoCommitKeeps ==
  ASSUME BankInv, NEW p \in Payer, NEW t \in TransferState, txn' = [txn EXCEPT ![p] = t],
         UNCHANGED <<balance, applied, unsure>>,
         CommitsOf(t, applied[p], p \in unsure),
         applied[p] > 0 => t.from = txn[p].from /\ t.amount = txn[p].amount
  PROVE  BankInv'
  <1> USE DEF BankInv
  <1>1. TransferTypes'
    BY DEF TransferTypes
  <1>2. AppliedOnce'
    BY <1>1 DEF AppliedOnce, TransferTypes
  <1>3. ASSUME NEW a PROVE Moved(a)' = Moved(a)
    BY DEF Moved, TransferTypes
  <1>4. \A q \in Payer : applied[q] > 0 => Amounts'[q] = Amounts[q]
    BY DEF Amounts, TransferTypes
  <1>5. ASSUME NEW a PROVE SumOf(Amounts, Moved(a))' = SumOf(Amounts, Moved(a))
    <2>1. SumOf(Amounts', Moved(a)) = SumOf(Amounts, Moved(a))
      <3>1. \A q \in Moved(a) : Amounts'[q] = Amounts[q]
        BY <1>4 DEF Moved
      <3> QED BY <3>1, MovedAmounts, SumSame
    <2> QED BY <1>3, <2>1
  <1>6. Balanced'
    BY <1>5 DEF Balanced
  <1> QED BY <1>1, <1>2, <1>6

\* A called transfer whose state changes is still typed.
LEMMA CalledState ==
  ASSUME NEW t \in TransferState, t.at # "start"
  PROVE  /\ t.from \in Bank!Account /\ t.amount \in 1..Seed /\ t.attempt \in 1..MaxRetries
         /\ t.read \in Nat /\ t.readTo \in Nat /\ t.at \in Called
         /\ \A x \in Called : /\ [t EXCEPT !.at = x] \in TransferState
                              /\ [t EXCEPT !.at = x].at = x
                              /\ [t EXCEPT !.at = x].from = t.from
                              /\ [t EXCEPT !.at = x].amount = t.amount
                              /\ [t EXCEPT !.at = x].read = t.read
  BY DEF TransferState

LEMMA TransferKeeps ==
  ASSUME BankInv, NEW p \in Payer, NEW from \in Bank!Account, NEW amount \in 1..Seed,
         Bank!Transfer(p, from, amount)
  PROVE  BankInv'
  <1> DEFINE t == [at |-> "begin", from |-> from, amount |-> amount, attempt |-> 1,
                   read |-> 0, readTo |-> 0]
  <1>1. txn' = [txn EXCEPT ![p] = t] /\ UNCHANGED <<balance, applied, unsure>> /\ txn[p].at = "start"
    BY DEF Bank!Transfer
  <1>2. t \in TransferState
    BY TransferConstants DEF TransferState, Called
  <1>3. applied[p] = 0 /\ p \notin unsure
    BY <1>1 DEF BankInv, AppliedOnce, CommitsOf
  <1>4. CommitsOf(t, applied[p], p \in unsure)
    BY <1>3 DEF CommitsOf
  <1>5. ~(applied[p] > 0)
    BY <1>3
  <1> HIDE DEF t
  <1> QED BY <1>1, <1>2, <1>4, <1>5, NoCommitKeeps

LEMMA ReadKeeps ==
  ASSUME BankInv, NEW p \in Payer, Bank!ReadBalance(p) PROVE BankInv'
  <1> DEFINE b == balance[txn[p].from]
             x == IF b < txn[p].amount THEN "failed" ELSE "credit"
             u == [txn[p] EXCEPT !.read = b]
             t == [u EXCEPT !.at = x]
  <1>1. txn[p] \in TransferState /\ txn[p].at = "begin" /\ UNCHANGED <<balance, applied, unsure>>
    BY DEF BankInv, TransferTypes, Bank!ReadBalance
  <1>2. applied[p] = 0 /\ p \notin unsure
    BY <1>1 DEF BankInv, AppliedOnce, CommitsOf
  <1>3. b \in Nat
    BY <1>1, CalledState DEF BankInv, TransferTypes
  <1>4. txn' = [txn EXCEPT ![p] = t]
    BY <1>1 DEF BankInv, TransferTypes, Bank!ReadBalance
  <1> HIDE DEF b, x
  <1>5. u \in TransferState /\ u.read = b /\ u.amount = txn[p].amount /\ u.at = "begin"
    BY <1>1, <1>3 DEF TransferState
  <1>6. x \in {"failed", "credit"} /\ (x = "credit" => txn[p].amount <= b)
    BY <1>1, <1>3, CalledState, TransferConstants DEF x
  <1> HIDE DEF u
  <1>7. t \in TransferState /\ t.at = x /\ t.amount = txn[p].amount /\ t.read = b
    <2>1. u.at # "start" /\ x \in Called
      BY <1>5, <1>6 DEF Called
    <2> QED BY <1>5, <2>1, CalledState
  <1> HIDE DEF t
  <1>8. CommitsOf(t, applied[p], p \in unsure)
    BY <1>2, <1>6, <1>7 DEF CommitsOf
  <1>9. ~(applied[p] > 0)
    BY <1>2
  <1> QED BY <1>1, <1>4, <1>7, <1>8, <1>9, NoCommitKeeps

LEMMA CreditKeeps ==
  ASSUME BankInv, NEW p \in Payer, Bank!Credit(p) PROVE BankInv'
  <1> DEFINE b == balance[Bank!OtherAccount(txn[p].from)]
             u == [txn[p] EXCEPT !.readTo = b]
             t == [u EXCEPT !.at = "commit"]
  <1>1. txn[p] \in TransferState /\ txn[p].at = "credit" /\ UNCHANGED <<balance, applied, unsure>>
    BY DEF BankInv, TransferTypes, Bank!Credit
  <1>2. applied[p] = 0 /\ p \notin unsure /\ txn[p].amount <= txn[p].read
    BY <1>1 DEF BankInv, AppliedOnce, CommitsOf
  <1>3. b \in Nat
    <2>1. txn[p].from \in Bank!Account
      BY <1>1, CalledState
    <2>2. Bank!OtherAccount(txn[p].from) \in Bank!Account
      BY <2>1, Accounts
    <2> QED BY <2>2 DEF BankInv, TransferTypes
  <1>4. txn' = [txn EXCEPT ![p] = t]
    BY <1>1 DEF BankInv, TransferTypes, Bank!Credit
  <1> HIDE DEF b
  <1>5. u \in TransferState /\ u.read = txn[p].read /\ u.amount = txn[p].amount /\ u.at = "credit"
    BY <1>1, <1>3 DEF TransferState
  <1> HIDE DEF u
  <1>6. t \in TransferState /\ t.at = "commit" /\ t.amount = txn[p].amount /\ t.read = txn[p].read
    BY <1>5, CalledState DEF Called
  <1> HIDE DEF t
  <1>7. CommitsOf(t, applied[p], p \in unsure)
    BY <1>2, <1>6 DEF CommitsOf
  <1>8. ~(applied[p] > 0)
    BY <1>2
  <1> QED BY <1>1, <1>4, <1>6, <1>7, <1>8, NoCommitKeeps

LEMMA FailsKeeps ==
  ASSUME BankInv, NEW p \in Payer, NEW code, Bank!FailsWith(p, code),
         txn[p].at \in {"begin", "credit", "commit"} \/ (txn[p].at = "unknown" /\ code = "08006")
  PROVE  BankInv'
  <1> DEFINE s == txn[p]
             again == [s EXCEPT !.at = "begin", !.attempt = s.attempt + 1]
             t == IF code \notin Bank!Retriable \/ s.attempt = MaxRetries
                  THEN [s EXCEPT !.at = "failed"] ELSE again
  <1>1. s \in TransferState /\ s.at # "start" /\ UNCHANGED <<balance, applied, unsure>>
    BY DEF BankInv, TransferTypes, Bank!FailsWith
  <1>2. txn' = [txn EXCEPT ![p] = t]
    BY DEF Bank!FailsWith
  <1>3. CommitsOf(s, applied[p], p \in unsure)
    BY DEF BankInv, AppliedOnce
  <1> HIDE DEF s
  <1>4. [s EXCEPT !.at = "failed"] \in TransferState
    BY <1>1, CalledState DEF Called
  <1>5. CASE code \notin Bank!Retriable \/ s.attempt = MaxRetries
    <2>1. t = [s EXCEPT !.at = "failed"]
      BY <1>5
    <2> HIDE DEF t
    <2>2. t \in TransferState /\ t.at = "failed" /\ t.from = s.from /\ t.amount = s.amount
      BY <1>1, <2>1, CalledState DEF Called
    <2>3. CommitsOf(t, applied[p], p \in unsure)
      BY <1>3, <2>2 DEF CommitsOf, s
    <2> QED BY <1>1, <1>2, <2>2, <2>3, NoCommitKeeps DEF s
  <1>6. CASE ~(code \notin Bank!Retriable \/ s.attempt = MaxRetries)
    <2>1. t = again
      BY <1>6
    <2>2. s.at \in {"begin", "credit", "commit"}
      BY <1>6 DEF Bank!Retriable, s
    <2>3. s.attempt + 1 \in 1..MaxRetries
      BY <1>1, <1>6, CalledState, TransferConstants
    <2>4. again \in TransferState /\ again.at = "begin"
      BY <1>1, <2>3 DEF TransferState, Called
    <2> HIDE DEF t, again
    <2>5. applied[p] = 0 /\ p \notin unsure
      BY <1>3, <2>2 DEF CommitsOf
    <2>6. CommitsOf(t, applied[p], p \in unsure)
      BY <2>1, <2>4, <2>5 DEF CommitsOf
    <2>7. ~(applied[p] > 0)
      BY <2>5
    <2> QED BY <1>1, <1>2, <2>1, <2>4, <2>6, <2>7, NoCommitKeeps
  <1> QED BY <1>5, <1>6

LEMMA CommitKeeps ==
  ASSUME BankInv, NEW p \in Payer, Bank!Commit(p) PROVE BankInv'
  <1> USE DEF BankInv
  <1>0. PICK s, from, to : s = txn[p] /\ from = s.from /\ to = Bank!OtherAccount(from)
    OBVIOUS
  <1> DEFINE out == s.read - s.amount
             in == s.readTo + s.amount
  <1>1. s \in TransferState /\ s.at = "commit"
    BY <1>0 DEF TransferTypes, Bank!Commit
  <1>2. /\ from \in Bank!Account /\ to \in Bank!Account /\ to # from
        /\ s.amount \in 1..Seed /\ s.read \in Nat /\ s.readTo \in Nat
        /\ s.amount <= s.read /\ applied[p] = 0 /\ p \notin unsure
        /\ s.read = balance[from] /\ s.readTo = balance[to]
    <2>1. from \in Bank!Account /\ s.amount \in 1..Seed /\ s.read \in Nat /\ s.readTo \in Nat
      BY <1>0, <1>1, CalledState
    <2>2. s.amount <= s.read /\ applied[p] = 0 /\ p \notin unsure
      BY <1>0, <1>1 DEF AppliedOnce, CommitsOf
    <2>3. s.read = balance[from] /\ s.readTo = balance[to]
      BY <1>0 DEF Bank!Commit, Bank!Conflict
    <2> QED BY <1>0, <2>1, <2>2, <2>3, TwoAccounts
  <1>3. /\ balance' = [balance EXCEPT ![from] = out, ![to] = in]
        /\ applied' = [applied EXCEPT ![p] = applied[p] + 1]
    BY <1>0 DEF Bank!Commit
  <1>4. PICK x \in {"ok", "unknown"} :
          /\ txn' = [txn EXCEPT ![p] = [s EXCEPT !.at = x]]
          /\ unsure' = IF x = "ok" THEN unsure ELSE unsure \cup {p}
    BY <1>0 DEF Bank!Commit, Bank!Goto
  <1> DEFINE t == [s EXCEPT !.at = x]
  <1>5. t \in TransferState /\ t.at = x /\ t.from = from /\ t.amount = s.amount
    <2>1. x \in Called /\ s.at # "start"
      BY <1>1, <1>4 DEF Called
    <2> QED BY <1>0, <1>1, <2>1, CalledState
  <1> HIDE DEF out, in, t
  <1>6. out \in Nat /\ in \in Nat
    BY <1>2, TransferConstants DEF out, in
  <1>7. /\ balance'[from] = out /\ balance'[to] = in
        /\ balance' \in [Bank!Account -> Nat]
    BY <1>2, <1>3, <1>6 DEF TransferTypes
  <1>8. txn' = [txn EXCEPT ![p] = t]
    BY <1>4 DEF t
  <1>9. applied'[p] = 1 /\ txn'[p] = t /\ \A q \in Payer : q # p => applied'[q] = applied[q] /\ txn'[q] = txn[q]
    BY <1>2, <1>3, <1>8 DEF TransferTypes
  <1>10. TransferTypes'
    BY <1>3, <1>4, <1>5, <1>7, <1>8 DEF TransferTypes
  <1>11. AppliedOnce'
    <2>1. CommitsOf(txn'[p], applied'[p], p \in unsure')
      BY <1>2, <1>4, <1>5, <1>9 DEF CommitsOf
    <2>2. \A q \in Payer : q # p => (q \in unsure' <=> q \in unsure)
      BY <1>4
    <2>3. ASSUME NEW q \in Payer, q # p PROVE CommitsOf(txn'[q], applied'[q], q \in unsure')
      <3>1. CommitsOf(txn[q], applied[q], q \in unsure)
        BY DEF AppliedOnce
      <3> QED BY <1>9, <2>2, <2>3, <3>1 DEF CommitsOf
    <2> QED BY <2>1, <2>3 DEF AppliedOnce
  <1>12. Moved(from)' = Moved(from) \cup {p} /\ Moved(to)' = Moved(to) /\ p \notin Moved(from)
    BY <1>0, <1>2, <1>5, <1>9 DEF Moved
  <1>13. \A q \in Payer : Amounts'[q] = Amounts[q]
    BY <1>0, <1>5, <1>9 DEF Amounts
  <1>14. Amounts'[p] = s.amount
    BY <1>5, <1>9 DEF Amounts
  <1>15. /\ SumOf(Amounts, Moved(from))' = SumOf(Amounts, Moved(from)) + s.amount
         /\ SumOf(Amounts, Moved(to))' = SumOf(Amounts, Moved(to))
    <2>1. /\ IsFiniteSet(Moved(from)) /\ \A q \in Moved(from) : Amounts[q] \in Int
          /\ IsFiniteSet(Moved(to)) /\ \A q \in Moved(to) : Amounts[q] \in Int
      BY MovedAmounts
    <2>2. (\A q \in Moved(from) : Amounts'[q] = Amounts[q]) /\ \A q \in Moved(to) : Amounts'[q] = Amounts[q]
      BY <1>13 DEF Moved
    <2>3. Amounts'[p] \in Int
      BY <1>2, <1>14, TransferConstants
    <2>4. SumOf(Amounts', Moved(from) \cup {p}) = SumOf(Amounts, Moved(from)) + Amounts'[p]
      <3>1. PICK M, F, G : M = Moved(from) /\ F = Amounts /\ G = Amounts'
        OBVIOUS
      <3>2. IsFiniteSet(M) /\ p \notin M /\ (\A q \in M : F[q] \in Int) /\ G[p] \in Int
            /\ \A q \in M : G[q] = F[q]
        BY <1>12, <2>1, <2>2, <2>3, <3>1
      <3>3. SumOf(G, M \cup {p}) = SumOf(F, M) + G[p]
        BY <3>2, SumAdd
      <3> QED BY <3>1, <3>3
    <2>5. SumOf(Amounts', Moved(to)) = SumOf(Amounts, Moved(to))
      BY <2>1, <2>2, SumSame
    <2> QED BY <1>12, <1>14, <2>4, <2>5
  <1>16. SumOf(Amounts, Moved(from)) \in Int /\ SumOf(Amounts, Moved(to)) \in Int
    BY MovedAmounts, SumType
  <1>17. /\ balance[from] = Seed - SumOf(Amounts, Moved(from)) + SumOf(Amounts, Moved(to))
         /\ balance[to] = Seed - SumOf(Amounts, Moved(to)) + SumOf(Amounts, Moved(from))
    <2>1. Bank!OtherAccount(from) = to /\ Bank!OtherAccount(to) = from
      BY <1>0, <1>2, TwoAccounts
    <2> QED BY <1>2, <2>1 DEF Balanced
  <1>18. Balanced'
    <2>1. /\ balance'[from] = Seed - SumOf(Amounts, Moved(from))' + SumOf(Amounts, Moved(to))'
          /\ balance'[to] = Seed - SumOf(Amounts, Moved(to))' + SumOf(Amounts, Moved(from))'
      BY <1>2, <1>7, <1>15, <1>16, <1>17, TransferConstants DEF out, in
    <2>2. Bank!OtherAccount(from) = to /\ Bank!OtherAccount(to) = from
      BY <1>0, <1>2, TwoAccounts
    <2>3. \A a \in Bank!Account : a = from \/ a = to
      BY <1>0, <1>2, TwoAccounts
    <2>4. ASSUME NEW a \in Bank!Account
          PROVE  balance'[a] = Seed - SumOf(Amounts, Moved(a))' + SumOf(Amounts, Moved(Bank!OtherAccount(a)))'
      <3>1. CASE a = from
        BY <2>1, <2>2, <3>1
      <3>2. CASE a = to
        BY <2>1, <2>2, <3>2
      <3> QED BY <2>3, <3>1, <3>2
    <2> QED BY <2>4 DEF Balanced
  <1> QED BY <1>10, <1>11, <1>18

LEMMA BankStep == BankInv /\ [Next]_vars => BankInv'
  <1> SUFFICES ASSUME BankInv, Bank!Next \/ UNCHANGED transferVars PROVE BankInv'
    BY TransferSteps
  <1>1. CASE UNCHANGED transferVars
    BY <1>1 DEF transferVars, BankInv, TransferTypes, AppliedOnce, Balanced, Amounts, Moved
  <1>2. ASSUME NEW p \in Payer, NEW code, Bank!StatementFails(p, code) PROVE BankInv'
    BY <1>2, FailsKeeps DEF Bank!StatementFails
  <1>3. ASSUME NEW p \in Payer, Bank!AnswerLost(p) PROVE BankInv'
    BY <1>3, FailsKeeps DEF Bank!AnswerLost
  <1>4. CASE Bank!Next
    BY <1>2, <1>3, <1>4, TransferKeeps, ReadKeeps, CreditKeeps, CommitKeeps DEF Bank!Next
  <1> QED BY <1>1, <1>4

\* The sum in the property is the one of SumTheorems.
LEMMA SumsOfAmounts ==
  ASSUME NEW ps \in SUBSET Payer
  PROVE  Bank!MapThenSumSet(LAMBDA p : txn[p].amount, ps) = SumOf(Amounts, ps)
  <1>1. ASSUME NEW f, NEW s \in SUBSET ps, s # {}
        PROVE  Amounts[Pick(s)] + f[s \ {Pick(s)}] = txn[Pick(s)].amount + f[s \ {Pick(s)}]
    <2>1. Pick(s) \in Payer
      BY <1>1 DEF Pick
    <2> QED BY <2>1 DEF Amounts
  <1>2. \A f : [s \in SUBSET ps |-> IF s = {} THEN 0 ELSE Amounts[Pick(s)] + f[s \ {Pick(s)}]]
               = [s \in SUBSET ps |-> IF s = {} THEN 0 ELSE txn[Pick(s)].amount + f[s \ {Pick(s)}]]
    BY <1>1
  <1>3. SumOf(Amounts, ps)
        = (CHOOSE f : f = [s \in SUBSET ps |-> IF s = {} THEN 0
                                              ELSE txn[Pick(s)].amount + f[s \ {Pick(s)}]])[ps]
    BY <1>2, Zenon DEF SumOf, Adds
  <1> QED BY <1>3, Zenon DEF Bank!MapThenSumSet, Bank!MapThenFoldSet, Pick

\* newsql: "retryTxn resolv[es] them without lost updates": however transfers overlap, fail
\* and are tried again, each moves its amount once if it is reported as done, never if it
\* failed with an answer, and no account is overdrawn.
THEOREM TransfersApplyOnce == Spec => []TransfersExact
  <1>1. BankInv => TransfersExact
    <2> SUFFICES ASSUME BankInv PROVE TransfersExact
      OBVIOUS
    <2> USE DEF BankInv
    <2>1. ASSUME NEW p \in Payer
          PROVE  /\ applied[p] <= 1
                 /\ txn[p].at = "ok" => applied[p] = 1
                 /\ txn[p].at = "failed" => applied[p] = (IF p \in unsure THEN 1 ELSE 0)
      BY DEF TransferTypes, TransferState, Called, AppliedOnce, CommitsOf
    <2>2. \A a \in Bank!Account : balance[a] >= 0
      BY DEF TransferTypes
    <2>3. \A a \in Bank!Account :
            balance[a] = Seed - Bank!MapThenSumSet(LAMBDA p : txn[p].amount, Moved(a))
                          + Bank!MapThenSumSet(LAMBDA p : txn[p].amount, Moved(Bank!OtherAccount(a)))
      <3>1. ASSUME NEW a PROVE Moved(a) \in SUBSET Payer
        BY DEF Moved
      <3>2. ASSUME NEW a
            PROVE  Bank!MapThenSumSet(LAMBDA p : txn[p].amount, Moved(a)) = SumOf(Amounts, Moved(a))
        BY <3>1, SumsOfAmounts
      <3> QED BY <3>2, Zenon DEF Balanced
    <2> QED BY <2>1, <2>2, <2>3, Zenon DEF TransfersExact, Bank!TransfersExact, Moved
  <1> QED BY <1>1, BankInit, BankStep, PTL DEF Spec

(***************************************************************************)
(* consistent_hashing.                                                     *)
(***************************************************************************)
LEMMA RingSteps == [Next]_vars => Ring!Next \/ UNCHANGED ringVars
  BY DEF Next, Others, vars

LEMMA RingConstants ==
  /\ Vnodes \in Nat \ {0} /\ Points \in Nat /\ "none" \notin Node
  /\ Keys \subseteq Ring!Point
  BY PlacementAssumption DEF PlacementAssumption, Ring!Point

Held == UNION {hash[m] : m \in nodes}

RingTypes ==
  /\ hash \in [Node -> SUBSET Ring!Point]
  /\ \A n \in Node : hash[n] # {}
  /\ \A n, m \in Node : n # m => hash[n] \cap hash[m] = {}
  /\ owners \in [Ring!Point -> nodes \cup {Ring!None}]
  /\ key \in Keys /\ kv \subseteq Node /\ nodes \subseteq Node /\ since \in [Node -> SUBSET Node]

\* The ring holds the points of its nodes, each with its owner, and no other has one.
RingOfNodes ==
  /\ ring = Held
  /\ \A n \in nodes : \A p \in hash[n] : owners[p] = n
  /\ \A p \in Ring!Point \ ring : owners[p] = Ring!None

\* Walking from k, a point of n comes before every point of m.
Before(k, n, m) == \E p \in hash[n] : \A q \in hash[m] : Ring!Steps(k, p) <= Ring!Steps(k, q)

\* A node with the key's row is before every node that was not added since.
RowsNearest == \A n \in kv : \A m \in nodes \ since[n] : Before(key, n, m)

RingInv == RingTypes /\ RingOfNodes /\ RowsNearest

LEMMA SubsetsNotEmpty == Ring!kSubset(Vnodes, Ring!Point) \subseteq (SUBSET Ring!Point) \ {{}}
  <1>1. Ring!Cardinality({}) = Cardinality({})
    BY Zenon DEF Ring!Cardinality, Cardinality
  <1>2. Cardinality({}) = 0
    BY FS_EmptySet
  <1> QED BY <1>1, <1>2, RingConstants DEF Ring!kSubset

LEMMA RingInit == Init => RingInv
  <1> SUFFICES ASSUME Ring!Init PROVE RingInv
    BY DEF Init
  <1>1. /\ hash \in [Node -> SUBSET Ring!Point] /\ \A n \in Node : hash[n] # {}
        /\ \A n, m \in Node : n # m => hash[n] \cap hash[m] = {}
    BY SubsetsNotEmpty DEF Ring!Init, Ring!Placements
  <1> QED BY <1>1 DEF Ring!Init, RingInv, RingTypes, RingOfNodes, RowsNearest, Held

\* The steps from a key to a point, which wrap at the end of the ring.
LEMMA StepsAre ==
  ASSUME NEW k \in Ring!Point, NEW p \in Ring!Point
  PROVE  Ring!Steps(k, p) = IF p >= k THEN p - k ELSE p - k + Points
  <1>1. /\ Points \in Nat \ {0} /\ k \in Int /\ p \in Int /\ 0 <= k /\ k < Points /\ 0 <= p /\ p < Points
    BY RingConstants DEF Ring!Point
  <1>2. CASE p >= k
    <2>1. p - k \in 0..Points - 1
      BY <1>1, <1>2
    <2> QED BY <1>1, <1>2, <2>1 DEF Ring!Steps
  <1>3. CASE p < k
    <2>1. p - k + Points \in 0..Points - 1
      BY <1>1, <1>3
    <2> QED BY <1>1, <1>3, <2>1 DEF Ring!Steps
  <1> QED BY <1>1, <1>2, <1>3

LEMMA StepsDiffer ==
  ASSUME NEW k \in Ring!Point, NEW p \in Ring!Point, NEW q \in Ring!Point,
         Ring!Steps(k, p) = Ring!Steps(k, q)
  PROVE  p = q
  <1>1. Points \in Int /\ k \in 0..Points - 1 /\ p \in 0..Points - 1 /\ q \in 0..Points - 1
    BY RingConstants DEF Ring!Point
  <1> QED BY <1>1, StepsAre
\* The node whose point is met first, and what Get makes of it.
First(k, p) == p \in ring /\ \A q \in ring : Ring!Steps(k, p) <= Ring!Steps(k, q)

LEMMA GetIsNearest ==
  ASSUME RingTypes, RingOfNodes, nodes # {}, NEW k \in Ring!Point
  PROVE  \E n \in nodes : \E x \in hash[n] : Ring!Get(k) = n /\ Ring!Nearest(k) = n /\ First(k, x)
  <1>1. ring # {} /\ ring \in SUBSET Ring!Point /\ Ring!Point \subseteq Nat
    BY RingConstants DEF RingTypes, RingOfNodes, Held, Ring!Point
  <1> DEFINE onward == {p \in ring : p >= k}
             S == IF onward = {} THEN ring ELSE onward
             p == Ring!Min(S)
  <1>2. S \in SUBSET ring /\ S # {} /\ S \in SUBSET Nat
    BY <1>1
  <1>3. p \in S /\ \A q \in S : p <= q
    <2> HIDE DEF S
    <2>1. \E x \in S : \A y \in S : x <= y
      BY <1>2, LeastNumber
    <2> QED BY <2>1 DEF Ring!Min
  <1>4. Ring!Get(k) = owners[p]
    BY <1>1 DEF Ring!Get
  <1> HIDE DEF p
  <1>5. ASSUME NEW q \in ring PROVE Ring!Steps(k, p) <= Ring!Steps(k, q)
    <2>1. p \in Ring!Point /\ q \in Ring!Point /\ k \in Ring!Point
      BY <1>1, <1>2, <1>3
    <2>2. Points \in Int /\ p \in 0..Points - 1 /\ q \in 0..Points - 1 /\ k \in 0..Points - 1
      BY <2>1, RingConstants DEF Ring!Point
    <2>3. p >= k \/ q < k
      BY <1>3, <2>2
    <2>4. (p >= k /\ q >= k) \/ (p < k /\ q < k) => p <= q
      BY <1>3, <2>2
    <2> HIDE DEF S, onward
    <2> QED BY <2>1, <2>2, <2>3, <2>4, StepsAre
  <1>6. First(k, p)
    BY <1>2, <1>3, <1>5 DEF First
  <1>7. PICK n \in nodes : p \in hash[n]
    BY <1>6 DEF First, RingOfNodes, Held
  <1>8. Ring!Get(k) = n
    BY <1>4, <1>7 DEF RingOfNodes
  <1> DEFINE Meets(m) == \E x \in hash[m] : \A q \in Held : Ring!Steps(k, x) <= Ring!Steps(k, q)
  <1>9. Meets(n)
    BY <1>5, <1>7 DEF RingOfNodes
  <1>10. ASSUME NEW m \in nodes, Meets(m) PROVE m = n
    <2>1. PICK x \in hash[m] : \A q \in Held : Ring!Steps(k, x) <= Ring!Steps(k, q)
      BY <1>10
    <2>2. x \in ring /\ x \in Ring!Point /\ p \in ring /\ p \in Ring!Point /\ m \in Node /\ n \in Node
      BY <1>1, <1>6 DEF RingOfNodes, Held, First, RingTypes
    <2>3. Ring!Steps(k, x) <= Ring!Steps(k, p) /\ Ring!Steps(k, p) <= Ring!Steps(k, x)
      BY <1>5, <2>1, <2>2 DEF RingOfNodes
    <2>4. Ring!Steps(k, x) \in Int /\ Ring!Steps(k, p) \in Int
      BY <2>2, StepsAre, RingConstants DEF Ring!Point
    <2>5. x = p
      BY <2>2, <2>3, <2>4, StepsDiffer
    <2> QED BY <1>7, <2>2, <2>5 DEF RingTypes
  <1> HIDE DEF Meets
  <1>11. (CHOOSE m \in nodes : Meets(m)) = n
    BY <1>9, <1>10
  <1>12. Ring!Nearest(k) = n
    BY <1>11, Zenon DEF Ring!Nearest, Meets, Held
  <1> QED BY <1>6, <1>7, <1>8, <1>12

LEMMA AddNodeKeeps ==
  ASSUME RingInv, NEW n \in Node, Ring!AddNode(n) PROVE RingInv'
  <1> USE DEF RingInv
  <1>1. /\ n \notin nodes /\ nodes' = nodes \cup {n} /\ ring' = ring \cup hash[n]
        /\ owners' = [p \in Ring!Point |-> IF p \in hash[n] THEN n ELSE owners[p]]
        /\ since' = [m \in Node |-> IF m \in kv THEN since[m] \cup {n} ELSE {}]
        /\ UNCHANGED <<hash, key, kv>>
    BY DEF Ring!AddNode
  <1>2. RingTypes'
    BY <1>1 DEF RingTypes
  <1>3. RingOfNodes'
    <2>1. Held' = Held \cup hash[n]
      BY <1>1 DEF Held
    <2>2. ASSUME NEW m \in nodes', NEW p \in hash[m] PROVE owners'[p] = m
      <3>1. m \in Node /\ p \in Ring!Point
        BY <1>1 DEF RingTypes
      <3>2. CASE m = n
        BY <1>1, <3>1, <3>2
      <3>3. CASE m # n
        <4>1. p \notin hash[n] /\ m \in nodes
          BY <1>1, <3>1, <3>3 DEF RingTypes
        <4> QED BY <1>1, <3>1, <4>1 DEF RingOfNodes
      <3> QED BY <3>2, <3>3
    <2>3. \A p \in Ring!Point \ ring' : owners'[p] = Ring!None
      BY <1>1 DEF RingOfNodes
    <2> QED BY <1>1, <2>1, <2>2, <2>3 DEF RingOfNodes
  <1>4. RowsNearest'
    <2>1. \A m \in kv : m \in Node /\ since'[m] = since[m] \cup {n}
      BY <1>1 DEF RingTypes
    <2> QED BY <1>1, <2>1 DEF RowsNearest, Before
  <1> QED BY <1>2, <1>3, <1>4

LEMMA RemoveNodeKeeps ==
  ASSUME RingInv, NEW n \in Node, Ring!RemoveNode(n) PROVE RingInv'
  <1> USE DEF RingInv
  <1>1. /\ n \in nodes /\ nodes' = nodes \ {n} /\ ring' = {p \in ring : owners[p] # n}
        /\ owners' = [p \in Ring!Point |-> IF p \in ring /\ owners[p] = n THEN Ring!None ELSE owners[p]]
        /\ UNCHANGED <<hash, key, kv, since>>
    BY DEF Ring!RemoveNode, Ring!OwnersWithout
  <1>2. n # Ring!None
    BY RingConstants DEF Ring!None
  <1>3. RingTypes'
    <2>1. ASSUME NEW p \in Ring!Point PROVE owners'[p] \in nodes' \cup {Ring!None}
      <3>1. CASE p \in ring /\ owners[p] = n
        BY <1>1, <3>1
      <3>2. CASE ~(p \in ring /\ owners[p] = n)
        <4>1. owners'[p] = owners[p] /\ owners[p] # n
          BY <1>1, <1>2, <3>2 DEF RingOfNodes
        <4> QED BY <1>1, <4>1 DEF RingTypes
      <3> QED BY <3>1, <3>2
    <2>2. owners' \in [Ring!Point -> nodes' \cup {Ring!None}]
      BY <1>1, <2>1
    <2> QED BY <1>1, <2>2 DEF RingTypes
  <1>4. RingOfNodes'
    <2>1. \A m \in nodes : \A p \in hash[m] : owners[p] = m /\ p \in ring
      BY DEF RingOfNodes, Held
    <2>2. ring' = Held'
      <3>1. ASSUME NEW p \in ring' PROVE p \in Held'
        <4>1. p \in ring /\ owners[p] # n
          BY <1>1
        <4>2. PICK m \in nodes : p \in hash[m]
          BY <4>1 DEF RingOfNodes, Held
        <4>3. m \in nodes'
          BY <1>1, <2>1, <4>1, <4>2
        <4> QED BY <1>1, <4>2, <4>3 DEF Held
      <3>2. ASSUME NEW p \in Held' PROVE p \in ring'
        <4>1. PICK m \in nodes' : p \in hash[m]
          BY <1>1 DEF Held
        <4> QED BY <1>1, <2>1, <4>1
      <3> QED BY <3>1, <3>2
    <2>3. \A m \in nodes' : \A p \in hash'[m] : owners'[p] = m
      <3> SUFFICES ASSUME NEW m \in nodes', NEW p \in hash[m] PROVE owners'[p] = m
        BY <1>1
      <3>1. m \in nodes /\ m # n /\ owners[p] = m /\ p \in Ring!Point
        BY <1>1, <2>1 DEF RingTypes
      <3> QED BY <1>1, <3>1
    <2>4. \A p \in Ring!Point \ ring' : owners'[p] = Ring!None
      BY <1>1 DEF RingOfNodes
    <2> QED BY <2>2, <2>3, <2>4 DEF RingOfNodes
  <1>5. RowsNearest'
    BY <1>1 DEF RowsNearest, Before
  <1> QED BY <1>3, <1>4, <1>5

LEMMA WriteKeysKeeps ==
  ASSUME RingInv, Ring!WriteKeys PROVE RingInv'
  <1> USE DEF RingInv
  <1> DEFINE owner == Ring!Get(key)
  <1>1. /\ nodes # {} /\ kv' \subseteq kv \cup {owner}
        /\ since' = [n \in Node |-> IF n \in kv' \ {owner} THEN since[n] ELSE {}]
        /\ UNCHANGED <<hash, ring, owners, nodes, key>>
    BY DEF Ring!WriteKeys
  <1>2. owner \in nodes /\ \A m \in nodes : Before(key, owner, m)
    <2>1. PICK n \in nodes : \E p \in hash[n] : owner = n /\ First(key, p)
      <3>1. key \in Ring!Point
        BY RingConstants DEF RingTypes
      <3> QED BY <1>1, <3>1, GetIsNearest
    <2>2. PICK p \in hash[n] : owner = n /\ First(key, p)
      BY <2>1
    <2> HIDE DEF owner
    <2>3. ASSUME NEW m \in nodes, NEW q \in hash[m] PROVE Ring!Steps(key, p) <= Ring!Steps(key, q)
      BY <2>2 DEF First, RingOfNodes, Held
    <2> QED BY <2>2, <2>3 DEF Before
  <1> HIDE DEF owner
  <1>3. RingTypes'
    BY <1>1, <1>2 DEF RingTypes
  <1>4. RingOfNodes'
    BY <1>1 DEF RingOfNodes, Held
  <1>5. RowsNearest'
    <2>1. ASSUME NEW n, NEW m PROVE Before(key, n, m)' <=> Before(key, n, m)
      BY <1>1 DEF Before
    <2>2. ASSUME NEW n \in kv', NEW m \in nodes \ since'[n] PROVE Before(key, n, m)
      <3>1. CASE n = owner
        BY <1>2, <3>1
      <3>2. CASE n # owner
        <4>1. n \in kv /\ since'[n] = since[n]
          BY <1>1, <3>2 DEF RingTypes
        <4> QED BY <4>1 DEF RowsNearest
      <3> QED BY <3>1, <3>2
    <2> HIDE DEF RingInv
    <2> QED BY <1>1, <2>1, <2>2 DEF RowsNearest
  <1> QED BY <1>3, <1>4, <1>5

LEMMA RingStep == RingInv /\ [Next]_vars => RingInv'
  <1> SUFFICES ASSUME RingInv, Ring!Next \/ UNCHANGED ringVars PROVE RingInv'
    BY RingSteps
  <1>1. CASE UNCHANGED ringVars
    BY <1>1 DEF ringVars, RingInv, RingTypes, RingOfNodes, RowsNearest, Held, Before
  <1>2. CASE Ring!Next
    BY <1>2, AddNodeKeeps, RemoveNodeKeeps, WriteKeysKeeps DEF Ring!Next
  <1> QED BY <1>1, <1>2

\* Keys move only to a node that was added or from one that left.
LEMMA RingPlaces == RingInv => Ring!PlacementStable
  <1> USE DEF RingInv
  <1> SUFFICES ASSUME RingInv, nodes # {} PROVE Ring!PlacementStable
    BY DEF Ring!PlacementStable
  <1>1. \A k \in Ring!Point : Ring!Get(k) = Ring!Nearest(k)
    BY GetIsNearest
  <1>2. key \in Ring!Point
    BY RingConstants DEF RingTypes
  <1>3. PICK n \in nodes : \E x \in hash[n] : Ring!Get(key) = n /\ First(key, x)
    BY <1>2, GetIsNearest
  <1>4. PICK p \in hash[n] : First(key, p)
    BY <1>3
  <1>5. ASSUME NEW m \in kv \cap nodes, n \notin since[m] PROVE n = m
    <2>1. m \in Node /\ n \in Node
      BY DEF RingTypes
    <2>2. PICK x \in hash[m] : \A q \in hash[n] : Ring!Steps(key, x) <= Ring!Steps(key, q)
      BY <1>5, <2>1 DEF RowsNearest, Before
    <2>3. x \in ring /\ x \in Ring!Point /\ p \in Ring!Point
      BY <1>5, <2>1, <2>2 DEF RingOfNodes, Held, RingTypes
    <2>4. Ring!Steps(key, x) <= Ring!Steps(key, p) /\ Ring!Steps(key, p) <= Ring!Steps(key, x)
      BY <1>4, <2>2, <2>3 DEF First
    <2>5. Ring!Steps(key, x) \in Int /\ Ring!Steps(key, p) \in Int
      BY <1>2, <2>3, StepsAre, RingConstants DEF Ring!Point
    <2>6. x = p
      BY <1>2, <2>3, <2>4, <2>5, StepsDiffer
    <2> QED BY <1>4, <2>1, <2>2, <2>6 DEF RingTypes
  <1> QED BY <1>1, <1>3, <1>5 DEF Ring!PlacementStable

(***************************************************************************)
(* range_based_sharding.                                                   *)
(***************************************************************************)
LEMMA RangeSteps == [Next]_vars => Shards!Next \/ UNCHANGED rangeVars
  BY DEF Next, Others, vars

LEMMA RangeConstants == MaxTime \in Nat /\ MaxLoads \in Nat
  BY PlacementAssumption DEF PlacementAssumption

ShardList == {<<s>> : s \in Shards!Shard} \cup {<<"shard2", "shard3">>}
RangeRecord == [from : 0..Shards!Forever, to : 0..Shards!Forever, shards : ShardList]
SplitState == [at : {"copy", "commit"}, i : Nat, cut : 0..MaxTime, src : Shards!Shard,
               new : Shards!Shard, moved : SUBSET Shards!Row]
ClusterCall ==
  [at : {"idle", "ended"}] \cup [at : {"insert"}, todo : SUBSET Shards!Row] \cup SplitState

\* A map of ranges covers all times, one range after the other.
Chained(rs) ==
  /\ rs \in Seq(RangeRecord) /\ Len(rs) >= 1
  /\ rs[1].from = 0 /\ rs[Len(rs)].to = Shards!Forever
  /\ \A i \in 1..Len(rs) - 1 : rs[i].to = rs[i + 1].from

\* The first range that covers a time, and the shard of a list that a row goes to.
Covering(rs, t, j) ==
  /\ j \in 1..Len(rs) /\ rs[j].from <= t /\ t < rs[j].to
  /\ \A i \in 1..j - 1 : rs[i].to <= t
Share(list, r) == list[(r.customer % Len(list)) + 1]
Dest(rs, r) == Share(rs[CHOOSE j \in 1..Len(rs) : Covering(rs, r.at, j)].shards, r)

LEMMA SomeRangeCovers ==
  ASSUME NEW rs, Chained(rs), NEW t \in 0..MaxTime
  PROVE  \E j \in 1..Len(rs) : Covering(rs, t, j)
  <1> USE RangeConstants
  <1> DEFINE N == {j \in 1..Len(rs) : t < rs[j].to}
  <1>1. Len(rs) \in Nat /\ \A i \in 1..Len(rs) : rs[i] \in RangeRecord
    BY DEF Chained
  <1>2. \A i \in 1..Len(rs) : rs[i].from \in Int /\ rs[i].to \in Int
    BY <1>1 DEF RangeRecord
  <1>3. Len(rs) \in N
    BY <1>1 DEF Chained, Shards!Forever
  <1>4. N \in SUBSET Nat
    BY <1>1
  <1>5. PICK j \in N : \A i \in N : j <= i
    BY <1>3, <1>4, LeastNumber
  <1>6. j \in 1..Len(rs) /\ t < rs[j].to
    BY <1>5
  <1>7. \A i \in 1..j - 1 : rs[i].to <= t
    <2> SUFFICES ASSUME NEW i \in 1..j - 1 PROVE rs[i].to <= t
      OBVIOUS
    <2>1. i \in 1..Len(rs) /\ i \notin N
      BY <1>1, <1>5, <1>6
    <2> QED BY <1>2, <2>1
  <1>8. rs[j].from <= t
    <2>1. CASE j = 1
      BY <2>1 DEF Chained
    <2>2. CASE j # 1
      <3>1. j - 1 \in 1..Len(rs) - 1 /\ j - 1 + 1 = j /\ j - 1 \in 1..j - 1
        BY <1>1, <1>6, <2>2
      <3>2. rs[j - 1].to = rs[j].from
        BY <3>1 DEF Chained
      <3> QED BY <1>7, <3>1, <3>2
    <2> QED BY <2>1, <2>2
  <1> QED BY <1>6, <1>7, <1>8 DEF Covering

LEMMA OneCovers ==
  ASSUME NEW rs, Chained(rs), NEW t \in 0..MaxTime, NEW j, NEW i, Covering(rs, t, j), Covering(rs, t, i)
  PROVE  i = j
  <1>1. Len(rs) \in Nat /\ \A n \in 1..Len(rs) : rs[n] \in RangeRecord
    BY DEF Chained
  <1>2. \A n \in 1..Len(rs) : rs[n].from \in Int /\ rs[n].to \in Int
    BY <1>1, RangeConstants DEF RangeRecord, Shards!Forever
  <1>3. i \in 1..Len(rs) /\ j \in 1..Len(rs) /\ t < rs[i].to /\ t < rs[j].to
    BY DEF Covering
  <1>4. ~(i < j) /\ ~(j < i)
    BY <1>1, <1>2, <1>3 DEF Covering
  <1> QED BY <1>1, <1>3, <1>4

LEMMA Selected ==
  ASSUME NEW rs, Chained(rs), NEW t \in 0..MaxTime, NEW j, Covering(rs, t, j)
  PROVE  Shards!SelectInSeq(rs, LAMBDA r : Shards!covers(r, t)) = j
  <1> DEFINE I == {i \in 1..Len(rs) : rs[i].from <= t /\ t < rs[i].to}
  <1>1. Len(rs) \in Nat /\ \A n \in 1..Len(rs) : rs[n] \in RangeRecord
    BY DEF Chained
  <1>2. \A n \in 1..Len(rs) : rs[n].from \in Int /\ rs[n].to \in Int
    BY <1>1, RangeConstants DEF RangeRecord, Shards!Forever
  <1>3. j \in I
    BY DEF Covering
  <1>4. \A i \in I : j <= i
    BY <1>1, <1>2, <1>3 DEF Covering
  <1>5. I \subseteq Int
    OBVIOUS
  <1> HIDE DEF I
  <1>6. \A x \in I : (\A y \in I : x <= y) => x = j
    BY <1>3, <1>4, <1>5
  <1>7. Shards!Min(I) = j
    BY <1>3, <1>4, <1>6, Zenon DEF Shards!Min
  <1>8. Shards!SelectInSeq(rs, LAMBDA r : Shards!covers(r, t)) = IF I # {} THEN Shards!Min(I) ELSE 0
    BY Zenon DEF Shards!SelectInSeq, Shards!covers, I
  <1> QED BY <1>3, <1>7, <1>8

LEMMA DestIs ==
  ASSUME NEW rs, Chained(rs), NEW r \in Shards!Row, NEW j, Covering(rs, r.at, j)
  PROVE  Dest(rs, r) = Share(rs[j].shards, r)
  <1>1. r.at \in 0..MaxTime /\ j \in 1..Len(rs)
    BY DEF Shards!Row, Covering
  <1>2. (CHOOSE i \in 1..Len(rs) : Covering(rs, r.at, i)) = j
    BY <1>1, OneCovers
  <1> QED BY <1>2 DEF Dest

LEMMA RouteIsDest ==
  ASSUME Chained(ranges), NEW r \in Shards!Row
  PROVE  Shards!Route(r) = Dest(ranges, r)
  <1>1. r.at \in 0..MaxTime
    BY DEF Shards!Row
  <1>2. PICK j \in 1..Len(ranges) : Covering(ranges, r.at, j)
    BY <1>1, SomeRangeCovers
  <1>3. Shards!RangeOf(r.at) = j
    BY <1>1, <1>2, Selected DEF Shards!RangeOf
  <1>4. Shards!Route(r) = Share(ranges[j].shards, r)
    BY <1>3 DEF Shards!Route, Share
  <1> QED BY <1>2, <1>4, DestIs

LEMMA Shares ==
  ASSUME NEW list \in ShardList, NEW r \in Shards!Row
  PROVE  /\ Share(list, r) \in Shards!Shard /\ Share(list, r) \in Shards!ToSet(list)
         /\ list[1] \in Shards!Shard
         /\ \A s \in Shards!Shard : list = <<s>> => Share(list, r) = s
  <1>1. r.customer \in {0, 1}
    BY DEF Shards!Row
  <1>2. CASE list = <<"shard2", "shard3">>
    <2>1. Len(list) = 2 /\ r.customer % 2 = r.customer
      BY <1>1, <1>2
    <2>2. Share(list, r) \in {"shard2", "shard3"} /\ \E i \in 1..2 : Share(list, r) = list[i]
      BY <1>1, <1>2, <2>1 DEF Share
    <2> QED BY <1>2, <2>1, <2>2 DEF Shards!Shard, Shards!ToSet
  <1>3. ASSUME NEW s \in Shards!Shard, list = <<s>>
        PROVE  Share(list, r) = s /\ s \in Shards!ToSet(list) /\ list[1] = s
    <2>1. Len(list) = 1 /\ r.customer % 1 = 0 /\ list[1] = s /\ 1 \in DOMAIN list
      BY <1>1, <1>3
    <2> QED BY <2>1 DEF Share, Shards!ToSet
  <1> QED BY <1>2, <1>3 DEF ShardList

(***************************************************************************)
(* The invariant: the map covers all times; a row that no split took or     *)
(* left against the map is where the map leads, and while a split is between *)
(* its two COMMITs, also where it goes.                                    *)
(***************************************************************************)
On(r) == {s \in Shards!Shard : r \in stored[s]}

RangeTypes ==
  /\ stored \in [Shards!Shard -> SUBSET Shards!Row] /\ Chained(ranges) /\ call \in ClusterCall
  /\ loaded \subseteq Shards!Row /\ astray \subseteq Shards!Row /\ loads \in 0..MaxLoads

LoadedAndStored ==
  /\ \A s \in Shards!Shard : stored[s] \subseteq loaded
  /\ \A r \in loaded : On(r) # {}

InsertIsNew == call.at = "insert" => call.todo \cap loaded = {}

SplitSelects ==
  call.at \in {"copy", "commit"} =>
    /\ Covering(ranges, call.cut, call.i)
    /\ call.src = ranges[call.i].shards[1]
    /\ call.moved = {r \in stored[call.src] : r.at >= call.cut}
    /\ call.at = "commit" /\ call.new = call.src => call.moved = {}

CopyCommitted == call.at = "commit" => call.moved \subseteq stored[call.new]

RowsRouted ==
  \A r \in loaded \ astray :
    /\ call.at \in {"idle", "insert", "copy"} => On(r) = {Dest(ranges, r)}
    /\ call.at = "commit" =>
         On(r) = IF r \in call.moved THEN {call.src, call.new} ELSE {Dest(ranges, r)}

RangeInv ==
  /\ RangeTypes /\ LoadedAndStored /\ InsertIsNew /\ SplitSelects /\ CopyCommitted /\ RowsRouted

LEMMA FirstRangesChained == Chained(Shards!FirstRanges)
  <1> DEFINE a == Shards!NewRange(0, 1, <<"shard1">>)
             b == Shards!NewRange(1, Shards!Forever, <<"shard2">>)
  <1>1. a.from = 0 /\ a.to = 1 /\ b.from = 1 /\ b.to = Shards!Forever
    BY DEF Shards!NewRange
  <1>2. 0 \in 0..Shards!Forever /\ 1 \in 0..Shards!Forever /\ Shards!Forever \in 0..Shards!Forever
    BY RangeConstants DEF Shards!Forever
  <1>3. a \in RangeRecord /\ b \in RangeRecord
    BY <1>2 DEF Shards!NewRange, RangeRecord, ShardList, Shards!Shard
  <1> HIDE DEF a, b
  <1>4. Shards!FirstRanges = <<a, b>>
    BY DEF Shards!FirstRanges, a, b
  <1>5. <<a, b>> \in Seq(RangeRecord) /\ Len(<<a, b>>) = 2 /\ <<a, b>>[1] = a /\ <<a, b>>[2] = b
    BY <1>3
  <1>6. \A i \in 1..Len(<<a, b>>) - 1 : i = 1
    BY <1>5
  <1> QED BY <1>1, <1>4, <1>5, <1>6 DEF Chained

LEMMA RangeInit == Init => RangeInv
  <1> SUFFICES ASSUME Shards!Init PROVE RangeInv
    BY DEF Init
  <1>1. call.at = "idle" /\ call \in ClusterCall
    BY DEF Shards!Init, Shards!Idle, ClusterCall
  <1>2. RangeTypes
    BY <1>1, RangeConstants, FirstRangesChained DEF Shards!Init, RangeTypes
  <1> QED BY <1>1, <1>2 DEF Shards!Init, RangeInv, LoadedAndStored, InsertIsNew, SplitSelects,
            CopyCommitted, RowsRouted

\* The map after a split, and after a new open-ended range.
SplitMap(rs, i, at, new) ==
  Shards!ReplaceAt(Shards!SubSeq(rs, 1, i), i, Shards!NewRange(rs[i].from, at, rs[i].shards))
    \o <<Shards!NewRange(at, rs[i].to, <<new>>)>> \o Shards!SubSeq(rs, i + 1, Len(rs))

LEMMA SplitElements ==
  ASSUME NEW rs \in Seq(RangeRecord), NEW i \in 1..Len(rs), NEW at \in 0..Shards!Forever,
         NEW new \in Shards!Shard
  PROVE  /\ SplitMap(rs, i, at, new) \in Seq(RangeRecord)
         /\ Len(SplitMap(rs, i, at, new)) = Len(rs) + 1
         /\ \A k \in 1..i - 1 : SplitMap(rs, i, at, new)[k] = rs[k]
         /\ SplitMap(rs, i, at, new)[i] = [from |-> rs[i].from, to |-> at, shards |-> rs[i].shards]
         /\ SplitMap(rs, i, at, new)[i + 1] = [from |-> at, to |-> rs[i].to, shards |-> <<new>>]
         /\ \A k \in i + 2..Len(rs) + 1 : SplitMap(rs, i, at, new)[k] = rs[k - 1]
  <1> DEFINE lower == [from |-> rs[i].from, to |-> at, shards |-> rs[i].shards]
             upper == [from |-> at, to |-> rs[i].to, shards |-> <<new>>]
             p == SubSeq(rs, 1, i)
             a == [p EXCEPT ![i] = lower]
             b == SubSeq(rs, i + 1, Len(rs))
  <1>1. rs[i] \in RangeRecord
    OBVIOUS
  <1>2. <<new>> \in ShardList
    BY DEF ShardList
  <1>3. lower \in RangeRecord /\ upper \in RangeRecord
    BY <1>1, <1>2 DEF RangeRecord
  <1> HIDE DEF lower, upper
  <1>4. p \in Seq(RangeRecord) /\ Len(p) = i /\ \A k \in 1..i : p[k] = rs[k]
    OBVIOUS
  <1> HIDE DEF p
  <1>5. a \in Seq(RangeRecord) /\ Len(a) = i /\ a[i] = lower /\ \A k \in 1..i - 1 : a[k] = rs[k]
    <2>1. i \in 1..Len(p)
      BY <1>4
    <2>2. /\ a \in Seq(RangeRecord) /\ Len(a) = Len(p)
          /\ \A k \in 1..Len(p) : a[k] = IF k = i THEN lower ELSE p[k]
      BY <1>3, <1>4, <2>1, ExceptSeq
    <2> QED BY <1>4, <2>1, <2>2
  <1>6. b \in Seq(RangeRecord) /\ Len(b) = Len(rs) - i /\ \A k \in 1..Len(rs) - i : b[k] = rs[i + k]
    OBVIOUS
  <1>7. SplitMap(rs, i, at, new) = a \o <<upper>> \o b
    BY DEF SplitMap, Shards!ReplaceAt, Shards!NewRange, lower, upper, p
  <1> HIDE DEF a, b
  <1> DEFINE c == a \o <<upper>>
  <1>8. c \in Seq(RangeRecord) /\ Len(c) = i + 1 /\ c[i + 1] = upper /\ \A k \in 1..i : c[k] = a[k]
    BY <1>3, <1>5
  <1> HIDE DEF c
  <1>9. /\ c \o b \in Seq(RangeRecord) /\ Len(c \o b) = Len(rs) + 1
        /\ \A k \in 1..i + 1 : (c \o b)[k] = c[k]
        /\ \A k \in i + 2..Len(rs) + 1 : (c \o b)[k] = b[k - (i + 1)]
    <2>1. /\ c \o b \in Seq(RangeRecord) /\ Len(c \o b) = Len(c) + Len(b)
          /\ \A k \in 1..Len(c) + Len(b) : (c \o b)[k] = IF k <= Len(c) THEN c[k] ELSE b[k - Len(c)]
      BY <1>6, <1>8, ConcatProperties
    <2>2. Len(c) + Len(b) = Len(rs) + 1 /\ Len(c) = i + 1 /\ Len(rs) \in Nat /\ i \in Nat /\ i <= Len(rs)
      BY <1>6, <1>8
    <2> QED BY <2>1, <2>2
  <1>10. \A k \in i + 2..Len(rs) + 1 : b[k - (i + 1)] = rs[k - 1]
    <2> SUFFICES ASSUME NEW k \in i + 2..Len(rs) + 1 PROVE b[k - (i + 1)] = rs[k - 1]
      OBVIOUS
    <2>1. k - (i + 1) \in 1..Len(rs) - i /\ i + (k - (i + 1)) = k - 1
      OBVIOUS
    <2> QED BY <1>6, <2>1
  <1>11. SplitMap(rs, i, at, new) = c \o b
    BY <1>7 DEF c
  <1>12. (c \o b)[i] = lower /\ (c \o b)[i + 1] = upper /\ \A k \in 1..i - 1 : (c \o b)[k] = rs[k]
    <2>1. i \in 1..i + 1 /\ i \in 1..i /\ i + 1 \in 1..i + 1
      OBVIOUS
    <2>2. \A k \in 1..i - 1 : k \in 1..i + 1 /\ k \in 1..i
      OBVIOUS
    <2> QED BY <1>5, <1>8, <1>9, <2>1, <2>2
  <1> QED BY <1>9, <1>10, <1>11, <1>12 DEF lower, upper
\* A split sends the times of the upper part to the new shard, and leaves every other time.
LEMMA SplitKeepsMap ==
  ASSUME NEW rs, Chained(rs), NEW at \in 0..MaxTime, NEW i, Covering(rs, at, i),
         NEW new \in Shards!Shard
  PROVE  /\ Chained(SplitMap(rs, i, at, new))
         /\ \A r \in Shards!Row :
              Dest(SplitMap(rs, i, at, new), r)
                = IF at <= r.at /\ r.at < rs[i].to THEN new ELSE Dest(rs, r)
  <1> USE RangeConstants
  <1> DEFINE F == Shards!Forever
  <1>1. PICK ns : ns = SplitMap(rs, i, at, new)
    OBVIOUS
  <1>2. rs \in Seq(RangeRecord) /\ Len(rs) \in Nat /\ i \in 1..Len(rs) /\ at \in 0..F
    BY DEF Chained, Covering, Shards!Forever
  <1>3. /\ ns \in Seq(RangeRecord) /\ Len(ns) = Len(rs) + 1
        /\ \A k \in 1..i - 1 : ns[k] = rs[k]
        /\ ns[i] = [from |-> rs[i].from, to |-> at, shards |-> rs[i].shards]
        /\ ns[i + 1] = [from |-> at, to |-> rs[i].to, shards |-> <<new>>]
        /\ \A k \in i + 2..Len(rs) + 1 : ns[k] = rs[k - 1]
    BY <1>1, <1>2, SplitElements
  <1>4. \A k \in 1..Len(rs) : rs[k].from \in Int /\ rs[k].to \in Int
    <2>1. \A k \in 1..Len(rs) : rs[k] \in RangeRecord
      BY <1>2
    <2>2. \A x \in RangeRecord : x.from \in Int /\ x.to \in Int
      BY DEF RangeRecord, Shards!Forever
    <2> QED BY <2>1, <2>2
  <1>5. /\ ns[i].from = rs[i].from /\ ns[i].to = at /\ ns[i].shards = rs[i].shards
        /\ ns[i + 1].from = at /\ ns[i + 1].to = rs[i].to /\ ns[i + 1].shards = <<new>>
    BY <1>3
  <1>6. at < rs[i].to /\ \A k \in 1..i - 1 : rs[k].to <= at
    BY DEF Covering
  <1>7. Chained(ns)
    <2>1. ns[1].from = 0
      <3>1. CASE i = 1
        BY <1>5, <3>1 DEF Chained
      <3>2. CASE i # 1
        <4>1. 1 \in 1..i - 1
          BY <1>2, <3>2
        <4> QED BY <1>3, <4>1 DEF Chained
      <3> QED BY <3>1, <3>2
    <2>2. ns[Len(ns)].to = F
      <3>1. CASE i = Len(rs)
        BY <1>2, <1>3, <1>5, <3>1 DEF Chained
      <3>2. CASE i # Len(rs)
        <4>1. Len(rs) + 1 \in i + 2..Len(rs) + 1 /\ Len(rs) + 1 - 1 = Len(rs)
          BY <1>2, <3>2
        <4>2. ns[Len(rs) + 1] = rs[Len(rs)]
          BY <1>3, <4>1
        <4>3. rs[Len(rs)].to = F
          BY DEF Chained
        <4> QED BY <1>3, <4>2, <4>3
      <3> QED BY <3>1, <3>2
    <2>3. ASSUME NEW k \in 1..Len(ns) - 1 PROVE ns[k].to = ns[k + 1].from
      <3>1. \A n \in 1..Len(rs) - 1 : rs[n].to = rs[n + 1].from
        BY DEF Chained
      <3>2. k \in 1..Len(rs)
        BY <1>2, <1>3
      <3>3. CASE k < i - 1
        <4>1. k \in 1..i - 1 /\ k + 1 \in 1..i - 1 /\ k \in 1..Len(rs) - 1
          BY <1>2, <3>2, <3>3
        <4> QED BY <1>3, <3>1, <4>1
      <3>4. CASE k = i - 1
        <4>1. k \in 1..i - 1 /\ k + 1 = i /\ k \in 1..Len(rs) - 1
          BY <1>2, <3>2, <3>4
        <4> QED BY <1>3, <1>5, <3>1, <4>1
      <3>5. CASE k = i
        BY <1>5, <3>5
      <3>6. CASE k = i + 1
        <4>1. k + 1 \in i + 2..Len(rs) + 1 /\ k + 1 - 1 = i + 1 /\ i \in 1..Len(rs) - 1
          BY <1>2, <3>2, <3>6
        <4>2. ns[k + 1] = rs[i + 1]
          BY <1>3, <4>1
        <4> QED BY <1>5, <3>1, <3>6, <4>1, <4>2
      <3>7. CASE k > i + 1
        <4>1. /\ k \in i + 2..Len(rs) + 1 /\ k + 1 \in i + 2..Len(rs) + 1
              /\ k - 1 \in 1..Len(rs) - 1 /\ k - 1 + 1 = k /\ k + 1 - 1 = k
          BY <1>2, <3>2, <3>7
        <4>2. ns[k] = rs[k - 1] /\ ns[k + 1] = rs[k]
          BY <1>3, <4>1
        <4>3. rs[k - 1].to = rs[k].from
          BY <3>1, <4>1
        <4> QED BY <4>2, <4>3
      <3> QED BY <1>2, <3>2, <3>3, <3>4, <3>5, <3>6, <3>7
    <2> QED BY <1>2, <1>3, <2>1, <2>2, <2>3 DEF Chained
  <1>8. ASSUME NEW r \in Shards!Row
        PROVE  Dest(ns, r) = IF at <= r.at /\ r.at < rs[i].to THEN new ELSE Dest(rs, r)
    <2>1. r.at \in 0..MaxTime
      BY DEF Shards!Row
    <2>2. PICK t : t = r.at
      OBVIOUS
    <2>3. PICK j \in 1..Len(rs) : Covering(rs, t, j)
      BY <2>1, <2>2, SomeRangeCovers
    <2>4. Dest(rs, r) = Share(rs[j].shards, r)
      BY <2>2, <2>3, DestIs
    <2>5. rs[j].from <= t /\ t < rs[j].to /\ \A k \in 1..j - 1 : rs[k].to <= t
      BY <2>3 DEF Covering
    <2>6. CASE j < i
      <3>1. j \in 1..i - 1 /\ j \in 1..Len(ns) /\ \A k \in 1..j - 1 : k \in 1..i - 1
        BY <1>2, <1>3, <2>3, <2>6
      <3>2. Covering(ns, t, j) /\ ns[j] = rs[j]
        BY <1>3, <2>5, <3>1 DEF Covering
      <3>3. t < at
        BY <1>4, <1>6, <2>1, <2>2, <2>3, <2>5, <3>1
      <3> QED BY <1>7, <2>1, <2>2, <2>4, <3>2, <3>3, DestIs
    <2>7. CASE j = i /\ t < at
      <3>1. \A k \in 1..i - 1 : ns[k].to <= t
        BY <1>3, <2>5, <2>7
      <3>2. Covering(ns, t, i) /\ ns[i].shards = rs[j].shards
        BY <1>2, <1>3, <1>5, <2>5, <2>7, <3>1 DEF Covering
      <3> QED BY <1>7, <2>1, <2>2, <2>4, <2>7, <3>2, DestIs
    <2>8. CASE j = i /\ ~(t < at)
      <3>1. \A k \in 1..i : ns[k].to <= t
        <4>1. \A k \in 1..i : k = i \/ k \in 1..i - 1
          BY <1>2
        <4>2. \A k \in 1..i - 1 : ns[k].to <= t
          BY <1>3, <2>5, <2>8
        <4>3. ns[i].to <= t
          BY <1>5, <2>1, <2>2, <2>8
        <4> QED BY <4>1, <4>2, <4>3
      <3>2. i + 1 \in 1..Len(ns) /\ i + 1 - 1 = i
        BY <1>2, <1>3
      <3>3. Covering(ns, t, i + 1)
        BY <1>5, <2>1, <2>2, <2>5, <2>8, <3>1, <3>2 DEF Covering
      <3>4. <<new>> \in ShardList
        BY DEF ShardList
      <3>5. Share(<<new>>, r) = new
        BY <3>4, Shares
      <3>6. at <= r.at /\ r.at < rs[i].to
        BY <2>1, <2>2, <2>5, <2>8
      <3> QED BY <1>5, <1>7, <2>2, <3>3, <3>5, <3>6, DestIs
    <2>9. CASE j > i
      <3>1. rs[i].to <= t
        BY <1>2, <2>3, <2>5, <2>9
      <3>2. ASSUME NEW k \in 1..j PROVE ns[k].to <= t
        <4>1. CASE k < i
          BY <1>2, <1>3, <2>3, <2>5, <2>9, <4>1
        <4>2. CASE k = i
          BY <1>2, <1>4, <1>5, <1>6, <2>1, <2>2, <3>1, <4>2
        <4>3. CASE k = i + 1
          BY <1>5, <3>1, <4>3
        <4>4. CASE k > i + 1
          <5>1. k \in i + 2..Len(rs) + 1 /\ k - 1 \in 1..j - 1
            BY <1>2, <2>3, <4>4
          <5> QED BY <1>3, <2>5, <5>1
        <4> QED BY <1>2, <4>1, <4>2, <4>3, <4>4
      <3>3. j + 1 \in i + 2..Len(rs) + 1 /\ j + 1 \in 1..Len(ns) /\ j + 1 - 1 = j
        BY <1>2, <1>3, <2>3, <2>9
      <3>4. ns[j + 1] = rs[j]
        BY <1>3, <3>3
      <3>5. Covering(ns, t, j + 1)
        BY <2>5, <3>2, <3>3, <3>4 DEF Covering
      <3>6. ~(r.at < rs[i].to)
        BY <1>2, <1>4, <2>1, <2>2, <3>1
      <3> QED BY <1>7, <2>2, <2>4, <3>4, <3>5, <3>6, DestIs
    <2> QED BY <1>2, <2>3, <2>6, <2>7, <2>8, <2>9
  <1> QED BY <1>1, <1>7, <1>8

\* So does an open-ended range behind all rows.
SpreadMap(rs, at, list) ==
  Append(Shards!ReplaceAt(rs, Len(rs), [rs[Len(rs)] EXCEPT !.to = at]),
         Shards!NewRange(at, Shards!Forever, list))

LEMMA SpreadKeepsMap ==
  ASSUME NEW rs, Chained(rs), NEW at \in 1..MaxTime, rs[Len(rs)].from < at, NEW list \in ShardList
  PROVE  /\ Chained(SpreadMap(rs, at, list))
         /\ \A r \in Shards!Row : r.at < at => Dest(SpreadMap(rs, at, list), r) = Dest(rs, r)
  <1> USE RangeConstants
  <1> DEFINE F == Shards!Forever
             n == Len(rs)
             lower == [rs[n] EXCEPT !.to = at]
             upper == [from |-> at, to |-> F, shards |-> list]
  <1>1. rs \in Seq(RangeRecord) /\ n \in Nat /\ n \in 1..Len(rs) /\ at \in 0..F /\ F \in 0..F
    BY DEF Chained, Shards!Forever
  <1>2. rs[n] \in RangeRecord
    BY <1>1
  <1>3. /\ lower \in RangeRecord /\ lower.from = rs[n].from /\ lower.to = at
        /\ lower.shards = rs[n].shards
    BY <1>1, <1>2 DEF RangeRecord
  <1>4. upper \in RangeRecord /\ upper.from = at /\ upper.to = F
    BY <1>1 DEF RangeRecord
  <1>5. PICK low, up : low = lower /\ up = upper
    OBVIOUS
  <1>6. PICK b : b = [rs EXCEPT ![n] = low]
    OBVIOUS
  <1>7. /\ b \in Seq(RangeRecord) /\ Len(b) = n
        /\ \A k \in 1..n : b[k] = IF k = n THEN low ELSE rs[k]
    BY <1>1, <1>3, <1>5, <1>6, ExceptSeq
  <1>8. PICK ns : ns = Append(b, up)
    OBVIOUS
  <1>9. /\ ns \in Seq(RangeRecord) /\ Len(ns) = n + 1
        /\ \A k \in 1..n : ns[k] = IF k = n THEN low ELSE rs[k]
        /\ ns[n + 1] = up
    BY <1>4, <1>5, <1>7, <1>8, AppendProperties
  <1>10. SpreadMap(rs, at, list) = ns
    BY <1>5, <1>6, <1>8 DEF SpreadMap, Shards!ReplaceAt, Shards!NewRange
  <1> HIDE DEF lower, upper
  <1>11. Chained(ns)
    <2>1. ns[1].from = 0
      BY <1>1, <1>3, <1>5, <1>9 DEF Chained
    <2>2. ASSUME NEW k \in 1..Len(ns) - 1 PROVE ns[k].to = ns[k + 1].from
      <3>1. CASE k = n
        BY <1>1, <1>3, <1>4, <1>5, <1>9, <3>1
      <3>2. CASE k < n
        <4>1. k \in 1..n - 1 /\ k \in 1..n /\ k + 1 \in 1..n /\ k # n
          BY <1>1, <1>9, <3>2
        <4>2. rs[k].to = rs[k + 1].from
          BY <4>1 DEF Chained
        <4>3. ns[k] = rs[k] /\ ns[k + 1].from = rs[k + 1].from
          BY <1>3, <1>5, <1>9, <4>1
        <4> QED BY <4>2, <4>3
      <3> QED BY <1>1, <1>9, <3>1, <3>2
    <2> QED BY <1>1, <1>4, <1>5, <1>9, <2>1, <2>2 DEF Chained
  <1>12. ASSUME NEW r \in Shards!Row, r.at < at PROVE Dest(ns, r) = Dest(rs, r)
    <2>1. r.at \in 0..MaxTime
      BY DEF Shards!Row
    <2>2. PICK j \in 1..Len(rs) : Covering(rs, r.at, j)
      BY <2>1, SomeRangeCovers
    <2>3. rs[j].from <= r.at /\ r.at < rs[j].to /\ \A k \in 1..j - 1 : rs[k].to <= r.at
      BY <2>2 DEF Covering
    <2>4. j \in 1..n /\ j \in 1..Len(ns) /\ \A k \in 1..j - 1 : k \in 1..n /\ k # n
      BY <1>1, <1>9, <2>2
    <2>5. ns[j].from <= r.at /\ r.at < ns[j].to /\ ns[j].shards = rs[j].shards
      BY <1>3, <1>5, <1>9, <1>12, <2>3, <2>4
    <2>6. \A k \in 1..j - 1 : ns[k].to <= r.at
      BY <1>9, <2>3, <2>4
    <2>7. Covering(ns, r.at, j)
      BY <2>4, <2>5, <2>6 DEF Covering
    <2> QED BY <1>11, <2>2, <2>5, <2>7, DestIs
  <1> QED BY <1>10, <1>11, <1>12

LEMMA FirstShard == \A list \in ShardList : list[1] \in Shards!Shard
  <1> SUFFICES ASSUME NEW list \in ShardList PROVE list[1] \in Shards!Shard
    OBVIOUS
  <1>1. CASE list = <<"shard2", "shard3">>
    BY <1>1 DEF Shards!Shard
  <1>2. CASE \E s \in Shards!Shard : list = <<s>>
    BY <1>2
  <1> QED BY <1>1, <1>2 DEF ShardList

LEMMA ClusterCalls ==
  ASSUME call \in ClusterCall
  PROVE  /\ call.at \in {"idle", "insert", "copy", "commit", "ended"}
         /\ call.at = "insert" =>
              call.todo \subseteq Shards!Row /\ call = [at |-> "insert", todo |-> call.todo]
         /\ call.at \in {"copy", "commit"} => call \in SplitState
  <1>1. CASE call \in [at : {"idle", "ended"}]
    BY <1>1
  <1>2. CASE call \in [at : {"insert"}, todo : SUBSET Shards!Row]
    BY <1>2
  <1>3. CASE call \in SplitState
    BY <1>3 DEF SplitState
  <1> QED BY <1>1, <1>2, <1>3 DEF ClusterCall

LEMMA IdleCall == Shards!Idle \in ClusterCall /\ Shards!Idle.at = "idle"
  BY DEF Shards!Idle, ClusterCall

LEMMA InsertStep == ASSUME RangeInv, NEW batch \in SUBSET Shards!Row, Shards!Insert(batch) PROVE RangeInv'
  <1>1. /\ call.at = "idle" /\ call' = [at |-> "insert", todo |-> batch] /\ batch \cap loaded = {}
        /\ stored' = stored /\ ranges' = ranges /\ loaded' = loaded /\ astray' = astray
        /\ loads < MaxLoads /\ loads' = loads + 1
    BY DEF Shards!Insert, Shards!Begin, Shards!Idle
  <1>2. call' \in ClusterCall
    BY <1>1 DEF ClusterCall
  <1>3. RangeTypes'
    BY <1>1, <1>2, RangeConstants DEF RangeInv, RangeTypes
  <1>4. LoadedAndStored'
    BY <1>1 DEF RangeInv, LoadedAndStored, On
  <1>5. InsertIsNew' /\ SplitSelects' /\ CopyCommitted'
    BY <1>1 DEF InsertIsNew, SplitSelects, CopyCommitted
  <1>6. RowsRouted'
    BY <1>1 DEF RangeInv, RowsRouted, On
  <1> QED BY <1>3, <1>4, <1>5, <1>6 DEF RangeInv

LEMMA CopyFromStep == ASSUME RangeInv, NEW s \in Shards!Shard, Shards!CopyFrom(s) PROVE RangeInv'
  <1>1. PICK rows : rows = {r \in call.todo : Shards!Route(r) = s}
    OBVIOUS
  <1>2. /\ call.at = "insert" /\ stored' = [stored EXCEPT ![s] = @ \cup rows]
        /\ loaded' = loaded \cup rows /\ ranges' = ranges /\ astray' = astray /\ loads' = loads
        /\ call' = IF rows = call.todo THEN Shards!Idle ELSE [call EXCEPT !.todo = @ \ rows]
    BY <1>1 DEF Shards!CopyFrom
  <1>3. /\ call.todo \subseteq Shards!Row /\ call = [at |-> "insert", todo |-> call.todo]
        /\ rows \subseteq call.todo /\ rows \cap loaded = {}
    BY <1>1, <1>2, ClusterCalls DEF RangeInv, RangeTypes, InsertIsNew
  <1>4. /\ call' \in ClusterCall /\ call'.at \in {"idle", "insert"}
        /\ call'.at = "insert" => call'.todo = call.todo \ rows
    <2>1. CASE rows = call.todo
      BY <1>2, <2>1, IdleCall
    <2>2. CASE rows # call.todo
      <3>1. call' = [at |-> "insert", todo |-> call.todo \ rows]
        BY <1>2, <1>3, <2>2
      <3> QED BY <1>3, <3>1 DEF ClusterCall
    <2> QED BY <2>1, <2>2
  <1>5. /\ stored \in [Shards!Shard -> SUBSET Shards!Row]
        /\ \A x \in Shards!Shard : stored'[x] = IF x = s THEN stored[x] \cup rows ELSE stored[x]
    BY <1>2 DEF RangeInv, RangeTypes
  <1>6. RangeTypes'
    <2>1. stored' \in [Shards!Shard -> SUBSET Shards!Row]
      BY <1>2, <1>3, <1>5
    <2> QED BY <1>2, <1>3, <1>4, <2>1 DEF RangeInv, RangeTypes
  <1>7. /\ \A r \in rows : On(r)' = {s}
        /\ \A r : r \notin rows => On(r)' = On(r)
    <2>1. \A r \in rows, x \in Shards!Shard : r \notin stored[x]
      BY <1>3 DEF RangeInv, LoadedAndStored
    <2> QED BY <1>5, <2>1 DEF On
  <1>8. LoadedAndStored'
    <2>1. \A x \in Shards!Shard : stored'[x] \subseteq loaded'
      BY <1>2, <1>5 DEF RangeInv, LoadedAndStored
    <2>2. \A r \in loaded' : On(r)' # {}
      BY <1>2, <1>7 DEF RangeInv, LoadedAndStored
    <2> QED BY <2>1, <2>2 DEF LoadedAndStored
  <1>9. InsertIsNew' /\ SplitSelects' /\ CopyCommitted'
    BY <1>2, <1>3, <1>4 DEF RangeInv, InsertIsNew, SplitSelects, CopyCommitted
  <1>10. RowsRouted'
    <2>1. ASSUME NEW r \in loaded' \ astray' PROVE On(r)' = {Dest(ranges', r)}
      <3>1. CASE r \in rows
        <4>1. Dest(ranges, r) = s
          BY <1>1, <1>3, <3>1, RouteIsDest DEF RangeInv, RangeTypes
        <4> QED BY <1>2, <1>7, <3>1, <4>1
      <3>2. CASE r \notin rows
        BY <1>2, <1>7, <2>1, <3>2 DEF RangeInv, RowsRouted
      <3> QED BY <3>1, <3>2
    <2> QED BY <1>4, <2>1 DEF RowsRouted
  <1> QED BY <1>6, <1>8, <1>9, <1>10 DEF RangeInv

LEMMA SplitRangeStep ==
  ASSUME RangeInv, NEW at \in 0..MaxTime, NEW s \in Shards!Shard, Shards!SplitRange(at, s)
  PROVE  RangeInv'
  <1>1. at \in 0..MaxTime /\ Chained(ranges)
    BY RangeConstants DEF RangeInv, RangeTypes
  <1>2. PICK i \in 1..Len(ranges) : Covering(ranges, at, i)
    BY <1>1, SomeRangeCovers
  <1>3. Shards!RangeOf(at) = i
    BY <1>1, <1>2, Selected DEF Shards!RangeOf
  <1>4. PICK src : src = ranges[i].shards[1]
    OBVIOUS
  <1>5. PICK moved : moved = {r \in stored[src] : r.at >= at}
    OBVIOUS
  <1>6. /\ call.at = "idle"
        /\ call' = [at |-> "copy", i |-> i, cut |-> at, src |-> src, new |-> s, moved |-> moved]
        /\ stored' = stored /\ ranges' = ranges /\ loaded' = loaded /\ astray' = astray
        /\ loads < MaxLoads /\ loads' = loads + 1
    BY <1>3, <1>4, <1>5 DEF Shards!SplitRange, Shards!Begin, Shards!Idle
  <1>7. ranges[i] \in RangeRecord /\ i \in Nat
    BY <1>1, <1>2 DEF Chained
  <1>8. src \in Shards!Shard
    BY <1>4, <1>7, FirstShard DEF RangeRecord
  <1>9. moved \subseteq Shards!Row
    BY <1>5, <1>8 DEF RangeInv, RangeTypes
  <1>10. call' \in ClusterCall
    BY <1>6, <1>7, <1>8, <1>9 DEF ClusterCall, SplitState
  <1>11. RangeTypes'
    BY <1>6, <1>10, RangeConstants DEF RangeInv, RangeTypes
  <1>12. LoadedAndStored' /\ InsertIsNew' /\ CopyCommitted'
    BY <1>6 DEF RangeInv, LoadedAndStored, On, InsertIsNew, CopyCommitted
  <1>13. SplitSelects'
    BY <1>2, <1>4, <1>5, <1>6 DEF SplitSelects
  <1>14. RowsRouted'
    BY <1>6 DEF RangeInv, RowsRouted, On
  <1> QED BY <1>11, <1>12, <1>13, <1>14 DEF RangeInv
\* What a call of splitRange that is between its COMMITs knows.
LEMMA Splitting ==
  ASSUME RangeInv, call.at \in {"copy", "commit"}
  PROVE  /\ call \in SplitState /\ call.src \in Shards!Shard /\ call.new \in Shards!Shard
         /\ call.moved \subseteq Shards!Row /\ call.cut \in 0..MaxTime
         /\ call.at = "commit" /\ call.new = call.src => call.moved = {}
         /\ \A r : r \in call.moved <=> (r \in stored[call.src] /\ r.at >= call.cut)
         /\ call.moved \subseteq loaded
         /\ stored \in [Shards!Shard -> SUBSET Shards!Row]
  <1>1. call \in SplitState
    BY ClusterCalls DEF RangeInv, RangeTypes
  <1>2. /\ call.src \in Shards!Shard /\ call.new \in Shards!Shard
        /\ call.moved \subseteq Shards!Row /\ call.cut \in 0..MaxTime
    BY <1>1 DEF SplitState
  <1>3. /\ call.at = "commit" /\ call.new = call.src => call.moved = {}
        /\ call.moved = {r \in stored[call.src] : r.at >= call.cut}
    BY DEF RangeInv, SplitSelects
  <1>4. \A r : r \in call.moved <=> (r \in stored[call.src] /\ r.at >= call.cut)
    BY <1>3
  <1>5. call.moved \subseteq loaded
    BY <1>2, <1>4 DEF RangeInv, LoadedAndStored
  <1> QED BY <1>1, <1>2, <1>3, <1>4, <1>5 DEF RangeInv, RangeTypes

LEMMA TransactionSteps ==
  ASSUME RangeInv, call.at \in {"copy", "commit"}
  PROVE  /\ \A x \in Shards!Shard : Shards!Copied[x]
                = IF x = call.new THEN stored[x] \cup call.moved ELSE stored[x]
         /\ \A x \in Shards!Shard : Shards!Gone[x]
                = IF x = call.src THEN stored[x] \ call.moved ELSE stored[x]
         /\ {Shards!Copied, Shards!Gone} \subseteq [Shards!Shard -> SUBSET Shards!Row]
         /\ Shards!CopyFirst(1) = Shards!Copied /\ Shards!CopyFirst(2) = Shards!Gone
  <1>1. /\ call.src \in Shards!Shard /\ call.new \in Shards!Shard
        /\ call.moved \subseteq Shards!Row /\ stored \in [Shards!Shard -> SUBSET Shards!Row]
    BY Splitting
  <1>2. /\ Shards!Copied = [stored EXCEPT ![call.new] = @ \cup call.moved]
        /\ Shards!Gone = [stored EXCEPT ![call.src] = @ \ call.moved]
    BY DEF Shards!Copied, Shards!Gone
  <1>3. Shards!CopyFirst(1) = Shards!Copied /\ Shards!CopyFirst(2) = Shards!Gone
    BY DEF Shards!CopyFirst
  <1> QED BY <1>1, <1>2, <1>3

LEMMA CopyMovedStep == ASSUME RangeInv, Shards!CopyMoved PROVE RangeInv'
  <1>1. /\ call.at = "copy" /\ stored' = Shards!CopyFirst(1) /\ call' = [call EXCEPT !.at = "commit"]
        /\ ranges' = ranges /\ loaded' = loaded /\ astray' = astray /\ loads' = loads
        /\ call.new = call.src => call.moved = {}
    BY DEF Shards!CopyMoved
  <1>2. /\ call \in SplitState /\ call.src \in Shards!Shard /\ call.new \in Shards!Shard
        /\ call.moved \subseteq loaded
        /\ \A r : r \in call.moved <=> (r \in stored[call.src] /\ r.at >= call.cut)
    BY <1>1, Splitting
  <1>3. /\ call' \in SplitState /\ call'.at = "commit" /\ call'.src = call.src /\ call'.new = call.new
        /\ call'.moved = call.moved /\ call'.cut = call.cut /\ call'.i = call.i
    BY <1>1, <1>2 DEF SplitState
  <1>4. /\ \A x \in Shards!Shard : stored'[x]
                = IF x = call.new THEN stored[x] \cup call.moved ELSE stored[x]
        /\ stored' \in [Shards!Shard -> SUBSET Shards!Row]
    BY <1>1, TransactionSteps
  <1>5. RangeTypes'
    BY <1>1, <1>3, <1>4 DEF RangeInv, RangeTypes, ClusterCall
  <1>6. LoadedAndStored'
    <2>1. /\ \A s \in Shards!Shard : stored[s] \subseteq loaded
          /\ \A r \in loaded : \E s \in Shards!Shard : r \in stored[s]
      BY DEF RangeInv, LoadedAndStored, On
    <2>2. \A s \in Shards!Shard : stored'[s] \subseteq loaded'
      BY <1>1, <1>2, <1>4, <2>1
    <2>3. \A r \in loaded : \E s \in Shards!Shard : r \in stored'[s]
      BY <1>4, <2>1
    <2> QED BY <1>1, <2>2, <2>3 DEF LoadedAndStored, On
  <1>7. InsertIsNew' /\ CopyCommitted'
    <2>1. call.moved \subseteq stored'[call.new]
      BY <1>2, <1>4
    <2> QED BY <1>3, <2>1 DEF InsertIsNew, CopyCommitted
  <1>8. SplitSelects'
    <2>1. stored'[call.src] = stored[call.src]
      BY <1>1, <1>2, <1>4
    <2> QED BY <1>1, <1>3, <2>1 DEF RangeInv, SplitSelects
  <1>9. RowsRouted'
    <2> SUFFICES ASSUME NEW r \in loaded \ astray
                 PROVE  On(r)' = IF r \in call.moved THEN {call.src, call.new} ELSE {Dest(ranges, r)}
      BY <1>1, <1>3 DEF RowsRouted
    <2>1. On(r) = {Dest(ranges, r)}
      BY <1>1 DEF RangeInv, RowsRouted
    <2>2. CASE r \in call.moved
      <3>1. call.src \in On(r)
        BY <1>2, <2>2 DEF On
      <3>2. \A x : x \in On(r) <=> x = call.src
        BY <2>1, <3>1
      <3>3. \A x \in Shards!Shard : r \in stored'[x] <=> (x = call.src \/ x = call.new)
        BY <1>2, <1>4, <2>2, <3>2 DEF On
      <3> QED BY <1>2, <2>2, <3>3 DEF On
    <2>3. CASE r \notin call.moved
      BY <1>4, <2>1, <2>3 DEF On
    <2> QED BY <2>2, <2>3
  <1> QED BY <1>5, <1>6, <1>7, <1>8, <1>9 DEF RangeInv

LEMMA CommitSplitStep == ASSUME RangeInv, Shards!CommitSplit PROVE RangeInv'
  <1>1. PICK old : old = ranges[call.i]
    OBVIOUS
  <1>2. PICK inside : inside = {r \in Shards!Row : call.cut <= r.at /\ r.at < old.to}
    OBVIOUS
  <1>3. PICK left : left = {r \in inside \ call.moved :
                              \E s \in Shards!Shard \ {call.new} : r \in stored[s]}
    OBVIOUS
  <1>4. /\ call.at = "commit" /\ stored' = Shards!CopyFirst(2)
        /\ ranges' = SplitMap(ranges, call.i, call.cut, call.new)
        /\ astray' = astray \cup (call.moved \ inside) \cup left
        /\ call' = Shards!Idle /\ loaded' = loaded /\ loads' = loads
    BY <1>1, <1>2, <1>3 DEF Shards!CommitSplit, SplitMap
  <1>5. /\ call \in SplitState /\ call.src \in Shards!Shard /\ call.new \in Shards!Shard
        /\ call.new = call.src => call.moved = {}
        /\ call.moved \subseteq loaded /\ call.cut \in 0..MaxTime
        /\ \A r : r \in call.moved <=> (r \in stored[call.src] /\ r.at >= call.cut)
        /\ call.moved \subseteq Shards!Row
    BY <1>4, Splitting
  <1>6. /\ Covering(ranges, call.cut, call.i)
        /\ call.moved \subseteq stored[call.new] /\ Chained(ranges)
    BY <1>4 DEF RangeInv, RangeTypes, SplitSelects, CopyCommitted
  <1>7. /\ Chained(ranges')
        /\ \A r \in Shards!Row :
             Dest(ranges', r) = IF call.cut <= r.at /\ r.at < old.to THEN call.new ELSE Dest(ranges, r)
    BY <1>1, <1>4, <1>5, <1>6, SplitKeepsMap
  <1>8. /\ \A x \in Shards!Shard : stored'[x]
                = IF x = call.src THEN stored[x] \ call.moved ELSE stored[x]
        /\ stored' \in [Shards!Shard -> SUBSET Shards!Row]
    BY <1>4, TransactionSteps
  <1>9. RangeTypes'
    <2>1. astray' \subseteq Shards!Row
      BY <1>2, <1>3, <1>4, <1>5 DEF RangeInv, RangeTypes
    <2> QED BY <1>4, <1>7, <1>8, <2>1, IdleCall DEF RangeInv, RangeTypes
  <1>10. LoadedAndStored'
    <2>1. \A x \in Shards!Shard : stored'[x] \subseteq loaded'
      BY <1>4, <1>8 DEF RangeInv, LoadedAndStored
    <2>2. ASSUME NEW r \in loaded PROVE On(r)' # {}
      <3>1. CASE r \in call.moved
        <4>1. call.new \in On(r)'
          BY <1>5, <1>6, <1>8, <3>1 DEF On
        <4> QED BY <4>1
      <3>2. CASE r \notin call.moved
        <4>1. On(r) # {}
          BY DEF RangeInv, LoadedAndStored
        <4> QED BY <1>8, <3>2, <4>1 DEF On
      <3> QED BY <3>1, <3>2
    <2> QED BY <1>4, <2>1, <2>2 DEF LoadedAndStored
  <1>11. InsertIsNew' /\ SplitSelects' /\ CopyCommitted'
    BY <1>4, IdleCall DEF InsertIsNew, SplitSelects, CopyCommitted
  <1>12. RowsRouted'
    <2>1. ASSUME NEW r \in loaded \ astray' PROVE On(r)' = {Dest(ranges', r)}
      <3>1. /\ r \in loaded \ astray /\ r \in Shards!Row /\ ~(r \in call.moved /\ r \notin inside)
            /\ r \notin left
        BY <1>4 DEF RangeInv, RangeTypes
      <3>2. On(r) = IF r \in call.moved THEN {call.src, call.new} ELSE {Dest(ranges, r)}
        BY <1>4, <3>1 DEF RangeInv, RowsRouted
      <3>3. r \in inside <=> (call.cut <= r.at /\ r.at < old.to)
        BY <1>2, <3>1
      <3>4. CASE r \in call.moved
        <4>1. Dest(ranges', r) = call.new
          BY <1>7, <3>1, <3>3, <3>4
        <4>2. \A x \in Shards!Shard : r \in stored[x] <=> (x = call.src \/ x = call.new)
          BY <3>2, <3>4 DEF On
        <4>3. \A x \in Shards!Shard : r \in stored'[x] <=> x = call.new
          BY <1>5, <1>8, <3>4, <4>2
        <4> QED BY <1>5, <4>1, <4>3 DEF On
      <3>5. CASE r \notin call.moved
        <4>1. On(r)' = On(r) /\ On(r) = {Dest(ranges, r)}
          BY <1>8, <3>2, <3>5 DEF On
        <4>2. CASE r \in inside
          <5>1. Dest(ranges', r) = call.new
            BY <1>7, <3>1, <3>3, <4>2
          <5>2. \A s \in Shards!Shard : r \in stored[s] => s = call.new
            BY <1>3, <3>1, <3>5, <4>2
          <5>3. Dest(ranges, r) \in On(r)
            BY <4>1
          <5>4. Dest(ranges, r) = call.new
            BY <5>2, <5>3 DEF On
          <5> QED BY <4>1, <5>1, <5>4
        <4>3. CASE r \notin inside
          <5>1. Dest(ranges', r) = Dest(ranges, r)
            BY <1>7, <3>1, <3>3, <4>3
          <5> QED BY <4>1, <5>1
        <4> QED BY <4>2, <4>3
      <3> QED BY <3>4, <3>5
    <2> QED BY <1>4, <2>1, IdleCall DEF RowsRouted
  <1> QED BY <1>9, <1>10, <1>11, <1>12 DEF RangeInv

LEMMA SpreadNewestStep ==
  ASSUME RangeInv, NEW at \in 1..MaxTime, Shards!SpreadNewest(at, <<"shard2", "shard3">>)
  PROVE  RangeInv'
  <1>1. PICK list : list = <<"shard2", "shard3">>
    OBVIOUS
  <1>2. /\ call.at = "idle" /\ call' = call /\ at > ranges[Len(ranges)].from
        /\ \A r \in loaded : r.at < at
        /\ ranges' = SpreadMap(ranges, at, list)
        /\ stored' = stored /\ loaded' = loaded /\ astray' = astray /\ loads' = loads
    BY <1>1 DEF Shards!SpreadNewest, SpreadMap, Shards!Idle
  <1>3. list \in ShardList /\ Chained(ranges)
    BY <1>1 DEF ShardList, RangeInv, RangeTypes
  <1>4. ranges[Len(ranges)].from < at
    <2>1. ranges[Len(ranges)] \in RangeRecord
      BY <1>3 DEF Chained
    <2> QED BY <1>2, <2>1, RangeConstants DEF RangeRecord, Shards!Forever
  <1>5. /\ Chained(ranges')
        /\ \A r \in Shards!Row : r.at < at => Dest(ranges', r) = Dest(ranges, r)
    BY <1>2, <1>3, <1>4, SpreadKeepsMap
  <1>6. RangeTypes'
    BY <1>2, <1>5 DEF RangeInv, RangeTypes
  <1>7. LoadedAndStored' /\ InsertIsNew' /\ SplitSelects' /\ CopyCommitted'
    BY <1>2 DEF RangeInv, LoadedAndStored, On, InsertIsNew, SplitSelects, CopyCommitted
  <1>8. RowsRouted'
    <2>1. ASSUME NEW r \in loaded \ astray PROVE On(r)' = {Dest(ranges', r)}
      <3>1. On(r) = {Dest(ranges, r)} /\ r \in Shards!Row /\ r.at < at
        BY <1>2 DEF RangeInv, RangeTypes, RowsRouted
      <3>2. Dest(ranges', r) = Dest(ranges, r)
        BY <1>5, <3>1
      <3> QED BY <1>2, <3>1, <3>2 DEF On
    <2> QED BY <1>2, <2>1 DEF RowsRouted
  <1> QED BY <1>6, <1>7, <1>8 DEF RangeInv

LEMMA ClusterFatalStep == ASSUME RangeInv, Shards!Fatal PROVE RangeInv'
  <1>1. /\ call' = [at |-> "ended"] /\ ranges' = ranges /\ loaded' = loaded /\ astray' = astray
        /\ loads' = loads
    BY DEF Shards!Fatal
  <1>2. call' \in ClusterCall /\ call'.at = "ended"
    BY <1>1 DEF ClusterCall
  <1>3. /\ stored' \in [Shards!Shard -> SUBSET Shards!Row]
        /\ \A s \in Shards!Shard : stored'[s] \subseteq loaded
        /\ \A r \in loaded : \E s \in Shards!Shard : r \in stored'[s]
    <2>1. /\ \A s \in Shards!Shard : stored[s] \subseteq loaded
          /\ \A r \in loaded : \E s \in Shards!Shard : r \in stored[s]
          /\ stored \in [Shards!Shard -> SUBSET Shards!Row]
      BY DEF RangeInv, RangeTypes, LoadedAndStored, On
    <2>2. CASE stored' = stored
      BY <2>1, <2>2
    <2>3. CASE call.at = "copy" /\ stored' = Shards!CopyFirst(1)
      BY <2>1, <2>3, TransactionSteps, Splitting
    <2>4. CASE call.at = "commit" /\ stored' = Shards!CopyFirst(2)
      <3>1. call.moved \subseteq stored[call.new]
        BY <2>4 DEF RangeInv, CopyCommitted
      <3>2. /\ \A x \in Shards!Shard : stored'[x]
                  = IF x = call.src THEN stored[x] \ call.moved ELSE stored[x]
            /\ stored' \in [Shards!Shard -> SUBSET Shards!Row]
            /\ call.src \in Shards!Shard /\ call.new \in Shards!Shard
            /\ call.new = call.src => call.moved = {}
        BY <2>4, TransactionSteps, Splitting
      <3>3. ASSUME NEW r \in loaded PROVE \E s \in Shards!Shard : r \in stored'[s]
        <4>1. CASE r \in call.moved
          BY <3>1, <3>2, <4>1
        <4>2. CASE r \notin call.moved
          BY <2>1, <3>2, <4>2
        <4> QED BY <4>1, <4>2
      <3> QED BY <2>1, <3>2, <3>3
    <2>5. \/ stored' = stored
          \/ call.at = "copy" /\ stored' = Shards!CopyFirst(1)
          \/ call.at = "commit" /\ stored' = Shards!CopyFirst(2)
      BY DEF Shards!Fatal
    <2> QED BY <2>2, <2>3, <2>4, <2>5
  <1>4. RangeTypes'
    BY <1>1, <1>2, <1>3 DEF RangeInv, RangeTypes
  <1>5. LoadedAndStored'
    BY <1>1, <1>3 DEF LoadedAndStored, On
  <1>6. InsertIsNew' /\ SplitSelects' /\ CopyCommitted' /\ RowsRouted'
    BY <1>2 DEF InsertIsNew, SplitSelects, CopyCommitted, RowsRouted
  <1> QED BY <1>4, <1>5, <1>6 DEF RangeInv

LEMMA ClusterRestartStep == ASSUME RangeInv, Shards!Restart PROVE RangeInv'
  <1>1. /\ stored' = [s \in Shards!Shard |-> {}] /\ ranges' = Shards!FirstRanges
        /\ call' = Shards!Idle /\ loaded' = {} /\ astray' = {} /\ loads' = 0
    BY DEF Shards!Restart
  <1>2. RangeTypes'
    BY <1>1, FirstRangesChained, IdleCall, RangeConstants DEF RangeTypes
  <1>3. LoadedAndStored' /\ InsertIsNew' /\ SplitSelects' /\ CopyCommitted' /\ RowsRouted'
    BY <1>1, IdleCall DEF LoadedAndStored, InsertIsNew, SplitSelects, CopyCommitted, RowsRouted
  <1> QED BY <1>2, <1>3 DEF RangeInv

LEMMA RangeStep == RangeInv /\ [Next]_vars => RangeInv'
  <1> SUFFICES ASSUME RangeInv, [Next]_vars PROVE RangeInv'
    OBVIOUS
  <1>1. CASE UNCHANGED rangeVars
    BY <1>1 DEF rangeVars, RangeInv, RangeTypes, LoadedAndStored, InsertIsNew, SplitSelects,
         CopyCommitted, RowsRouted, On
  <1>2. CASE Shards!Next
    BY <1>2, InsertStep, CopyFromStep, SplitRangeStep, CopyMovedStep, CommitSplitStep,
       SpreadNewestStep, ClusterFatalStep, ClusterRestartStep DEF Shards!Next
  <1> QED BY <1>1, <1>2, RangeSteps

\* range_based_sharding: where the map leads is where the row is, and a query of a range of
\* times visits it.
LEMMA RangesRouted == RangeInv => Shards!RowsWhereRouted
  <1> SUFFICES ASSUME RangeInv PROVE Shards!RowsWhereRouted
    OBVIOUS
  <1> USE RangeConstants
  <1>1. ASSUME NEW r \in loaded PROVE On(r) # {}
    BY DEF RangeInv, LoadedAndStored
  <1>2. ASSUME NEW r \in loaded, call = Shards!Idle, r \notin astray
        PROVE  On(r) = {Shards!Route(r)}
    BY <1>2, IdleCall, RouteIsDest DEF RangeInv, RangeTypes, RowsRouted
  <1>3. ASSUME NEW r \in loaded, call = Shards!Idle, r \notin astray,
               NEW from \in 0..Shards!Forever, NEW to \in 0..Shards!Forever, from <= r.at, r.at < to
        PROVE  Shards!Route(r) \in Shards!ShardsFor(from, to)
    <2>1. r \in Shards!Row /\ r.at \in 0..MaxTime /\ Chained(ranges)
      BY DEF RangeInv, RangeTypes, Shards!Row
    <2>2. PICK j \in 1..Len(ranges) : Covering(ranges, r.at, j)
      BY <2>1, SomeRangeCovers
    <2>3. ranges[j] \in RangeRecord /\ j \in DOMAIN ranges
      BY <2>1 DEF Chained
    <2>4. Shards!Route(r) = Share(ranges[j].shards, r)
      BY <2>1, <2>2, RouteIsDest, DestIs
    <2>5. Shards!Route(r) \in Shards!ToSet(ranges[j].shards)
      BY <2>1, <2>3, <2>4, Shares DEF RangeRecord
    <2>6. ranges[j].from \in Int /\ ranges[j].to \in Int /\ from \in Int /\ to \in Int /\ r.at \in Int
      BY <2>1, <2>3 DEF RangeRecord, Shards!Forever
    <2>7. Shards!overlaps(ranges[j], from, to)
      BY <1>3, <2>2, <2>6 DEF Covering, Shards!overlaps
    <2> QED BY <2>3, <2>5, <2>7 DEF Shards!ShardsFor
  <1>4. ASSUME NEW r \in loaded, call = Shards!Idle, r \notin astray,
               NEW from \in 0..Shards!Forever, NEW to \in 0..Shards!Forever, from <= r.at /\ r.at < to
        PROVE  On(r) \subseteq Shards!ShardsFor(from, to)
    BY <1>2, <1>3, <1>4
  <1> QED BY <1>1, <1>2, <1>4 DEF Shards!RowsWhereRouted, On

\* RowsWhereRouted: whatever loads, splits and spreads a program of range_based_sharding does,
\* and wherever log.Fatal stops it, a row that an insert committed is on a shard, and between
\* calls it is on the one shard where the map leads, unless a split took or left it against
\* the map; and of consistent_hashing, Get leads to the node met first on the ring, whatever
\* the order in which nodes came, and away from the node with a key's row only to one that was
\* added since.
THEOREM RowsFollowTheMap == Spec => []RowsWhereRouted
  <1>1. Init => RangeInv /\ RingInv
    BY RangeInit, RingInit
  <1>2. RangeInv /\ RingInv /\ [Next]_vars => RangeInv' /\ RingInv'
    BY RangeStep, RingStep
  <1>3. RangeInv /\ RingInv => RowsWhereRouted
    BY RangesRouted, RingPlaces DEF RowsWhereRouted
  <1> QED BY <1>1, <1>2, <1>3, PTL DEF Spec

(***************************************************************************)
(* The types that the invariants above do not need.                        *)
(***************************************************************************)
\* data_archival: a transaction's order stays in the hot table, and no export is of a year
\* to come.
ArchiveOrder ==
  /\ delivered \subseteq Tiers!Id /\ locked \subseteq hot /\ exported \subseteq 0..years
  /\ exporter # Tiers!Idle => exporter.now <= years

LEMMA ArchiveOrderInit == Init => ArchiveOrder
  <1> SUFFICES ASSUME Tiers!Init PROVE ArchiveOrder
    BY DEF Init
  <1> QED BY ArchiveConstants DEF Tiers!Init, ArchiveOrder, Tiers!Id

LEMMA ArchiveOrderStep == TiersInv /\ ArchiveOrder /\ [Next]_vars => ArchiveOrder'
  <1> SUFFICES ASSUME TiersInv, ArchiveOrder, [Next]_vars PROVE ArchiveOrder'
    OBVIOUS
  <1> USE ArchiveConstants
  <1>1. /\ hot \subseteq Tiers!Id /\ years \in 0..MaxYears
        /\ exporter \in {Tiers!Idle} \cup [at : {"begun", "copied"}, now : 0..MaxYears]
    BY DEF TiersInv, ArchiveTypes
  <1>2. /\ delivered \subseteq Tiers!Id /\ locked \subseteq hot /\ exported \subseteq 0..years
        /\ exporter # Tiers!Idle => exporter.now <= years
    BY DEF ArchiveOrder
  <1>3. exporter = Tiers!Idle => exporter.at \notin {"begun", "copied"}
    BY DEF Tiers!Idle
  <1>4. exporter # Tiers!Idle => exporter.now \in 0..years /\ exporter.at \in {"begun", "copied"}
    BY <1>1, <1>2
  <1>5. CASE UNCHANGED archiveVars
    BY <1>5 DEF archiveVars, ArchiveOrder
  <1>6. CASE Tiers!YearPasses
    BY <1>1, <1>2, <1>4, <1>6 DEF ArchiveOrder, Tiers!YearPasses
  <1>7. ASSUME NEW i \in Tiers!Id, Tiers!Lock(i) \/ Tiers!Deliver(i) \/ Tiers!Restore(i)
        PROVE  ArchiveOrder'
    BY <1>1, <1>2, <1>7 DEF ArchiveOrder, Tiers!Lock, Tiers!Deliver, Tiers!Restore
  <1>8. CASE Tiers!Archive
    BY <1>2, <1>8 DEF ArchiveOrder, Tiers!Archive
  <1>9. CASE Tiers!ArchiveBatch
    BY <1>2, <1>9 DEF ArchiveOrder, Tiers!ArchiveBatch, Tiers!NextBatch, Tiers!Due
  <1>10. CASE Tiers!Export
    BY <1>1, <1>2, <1>10 DEF ArchiveOrder, Tiers!Export
  <1>11. CASE Tiers!CopyOut
    <2>1. exporter # Tiers!Idle /\ exporter \in [at : {"begun", "copied"}, now : 0..MaxYears]
      BY <1>1, <1>3, <1>11 DEF Tiers!CopyOut
    <2>2. exporter'.now = exporter.now
      BY <1>11, <2>1 DEF Tiers!CopyOut
    <2> QED BY <1>2, <1>11, <2>1, <2>2 DEF ArchiveOrder, Tiers!CopyOut
  <1>12. CASE Tiers!DeleteAndCommit
    BY <1>2, <1>3, <1>4, <1>12 DEF ArchiveOrder, Tiers!DeleteAndCommit
  <1>13. CASE Tiers!ExportFails
    BY <1>2, <1>13 DEF ArchiveOrder, Tiers!ExportFails
  <1>14. ASSUME NEW i \in Tiers!Id, NEW erred \in BOOLEAN, Tiers!FindHot(i, erred)
         PROVE  ArchiveOrder'
    BY <1>2, <1>14 DEF ArchiveOrder, Tiers!FindHot
  <1>15. ASSUME NEW erred \in BOOLEAN, Tiers!FindArchived(erred) PROVE ArchiveOrder'
    BY <1>2, <1>15 DEF ArchiveOrder, Tiers!FindArchived
  <1> QED BY <1>5, <1>6, <1>7, <1>8, <1>9, <1>10, <1>11, <1>12, <1>13, <1>14, <1>15, ArchiveSteps
       DEF Tiers!Next

\* multitenancy_separate_database: calls and broken listings are bounded.
Counted == calls \in 0..MaxCalls /\ unread \in 0..MaxUnread

LEMMA CallsCounted ==
  /\ Init => Counted
  /\ Counted /\ [Next]_vars => Counted'
  <1>1. MaxCalls \in Nat /\ MaxUnread \in Nat
    BY PlacementAssumption DEF PlacementAssumption
  <1>2. Init => Counted
    BY <1>1 DEF Init, Databases!Init, Counted
  <1>3. ASSUME Counted, [Next]_vars PROVE Counted'
    <2>1. CASE UNCHANGED databaseVars
      BY <1>3, <2>1 DEF databaseVars, Counted
    <2>2. CASE Databases!Next
      <3>1. calls' = calls \/ calls' = 0 \/ (calls < MaxCalls /\ calls' = calls + 1)
        BY <2>2 DEF Databases!Next, Databases!Lookup, Databases!Offboard, Databases!Write,
           Databases!MigrateTenant, Databases!Provision, Databases!MoveTenant, Databases!Begin,
           Databases!OpenPool, Databases!Executes, Databases!DropPool, Databases!CreateRole,
           Databases!CreateDatabase, Databases!Dump, Databases!Restore, Databases!AlterDatabase,
           Databases!InsertTenant, Databases!UpdateTenant, Databases!DropDatabase,
           Databases!DropRole, Databases!DeleteTenant, Databases!Migrate, Databases!Fatal,
           Databases!Reset, Databases!ListNext, Databases!List, Databases!ResetDrop,
           Databases!Truncate
      <3>2. unread' = unread \/ (unread < MaxUnread /\ unread' = unread + 1)
        BY <2>2 DEF Databases!Next, Databases!Lookup, Databases!Offboard, Databases!Write,
           Databases!MigrateTenant, Databases!Provision, Databases!MoveTenant, Databases!Begin,
           Databases!OpenPool, Databases!Executes, Databases!DropPool, Databases!CreateRole,
           Databases!CreateDatabase, Databases!Dump, Databases!Restore, Databases!AlterDatabase,
           Databases!InsertTenant, Databases!UpdateTenant, Databases!DropDatabase,
           Databases!DropRole, Databases!DeleteTenant, Databases!Migrate, Databases!Fatal,
           Databases!Reset, Databases!ListNext, Databases!List, Databases!ResetDrop,
           Databases!Truncate
      <3> QED BY <1>1, <1>3, <3>1, <3>2 DEF Counted
    <2> QED BY <1>3, <2>1, <2>2, DatabaseSteps
  <1> QED BY <1>2, <1>3

PlacementTypes ==
  /\ RangeInv /\ RingInv /\ TiersInv /\ ArchiveOrder /\ BankInv /\ DatabaseInv
  /\ Counted /\ SchemaInv

LEMMA RangeTypesGive == RangeInv => Shards!TypeOK
  BY DEF RangeInv, RangeTypes, Chained, Shards!TypeOK

LEMMA RingTypesGive == RingInv => Ring!TypeOK
  <1> SUFFICES ASSUME RingInv PROVE Ring!TypeOK
    OBVIOUS
  <1>1. ring \subseteq Ring!Point
    BY DEF RingInv, RingTypes, RingOfNodes, Held
  <1> QED BY <1>1 DEF RingInv, RingTypes, Ring!TypeOK

LEMMA TiersTypesGive == TiersInv /\ ArchiveOrder => Tiers!TypeOK
  BY DEF TiersInv, ArchiveTypes, ArchiveOrder, Tiers!TypeOK

LEMMA BankTypesGive == BankInv => Bank!TypeOK
  <1> SUFFICES ASSUME BankInv PROVE Bank!TypeOK
    OBVIOUS
  <1>1. ASSUME NEW p \in Payer, txn[p].at \notin {"start", "ok"}
        PROVE  txn[p].attempt \in 1..MaxRetries
    <2>1. txn[p] \in TransferState
      BY DEF BankInv, TransferTypes
    <2> QED BY <1>1, <2>1 DEF TransferState
  <1> QED BY <1>1 DEF BankInv, TransferTypes, Bank!TypeOK

LEMMA DatabaseTypesGive == DatabaseInv /\ Counted => Databases!TypeOK
  <1> SUFFICES ASSUME DatabaseInv, Counted PROVE Databases!TypeOK
    OBVIOUS
  <1>1. ASSUME NEW s \in Databases!Server, NEW t \in Slug, database[s][t].exists
        PROVE  database[s][t].version \in {1, 2}
    <2>1. database[s][t] \in Dbs
      BY DEF DatabaseInv, DatabaseTypes, Server
    <2>2. database[s][t] # Databases!NoDatabase
      BY <1>1 DEF Databases!NoDatabase
    <2> QED BY <2>1, <2>2 DEF Dbs
  <1>2. \A s \in Databases!Server : role[s] \subseteq Slug
    BY DEF DatabaseInv, DatabaseTypes, Server
  <1> QED BY <1>1, <1>2 DEF DatabaseInv, DatabaseTypes, Databases!TypeOK, Server, Nowhere, Counted

LEMMA SchemaTypesGive == SchemaInv => Schemas!TypeOK
  <1> SUFFICES ASSUME SchemaInv PROVE Schemas!TypeOK
    OBVIOUS
  <1>1. ASSUME NEW c \in Conn PROVE conn[c].role = conn[c].path
    BY DEF SchemaInv, OwnConnection, Schemas!InUse, Schemas!Clean
  <1> QED BY <1>1 DEF SchemaInv, SchemaTypes, Schemas!TypeOK

\* TypeOK: the variables of the six programs keep their types; and a map of ranges covers
\* all times, a transaction of the application keeps its order in the hot table, no export
\* is of a year to come, a database has a version, and a connection's role is its path's.
THEOREM PlacementTyped == Spec => []TypeOK
  <1>1. Init => PlacementTypes
    BY RangeInit, RingInit, TiersInit, ArchiveOrderInit, BankInit, DatabaseInit, CallsCounted,
       SchemaInit DEF PlacementTypes
  <1>2. PlacementTypes /\ [Next]_vars => PlacementTypes'
    <2>1. RangeInv /\ RingInv /\ [Next]_vars => RangeInv' /\ RingInv'
      BY RangeStep, RingStep
    <2>2. TiersInv /\ ArchiveOrder /\ [Next]_vars => TiersInv' /\ ArchiveOrder'
      BY TiersStep, ArchiveOrderStep
    <2>3. BankInv /\ DatabaseInv /\ [Next]_vars => BankInv' /\ DatabaseInv'
      BY BankStep, DatabaseStep
    <2>4. Counted /\ SchemaInv /\ [Next]_vars => Counted' /\ SchemaInv'
      BY CallsCounted, SchemaStep
    <2> QED BY <2>1, <2>2, <2>3, <2>4 DEF PlacementTypes
  <1>3. PlacementTypes => TypeOK
    BY RangeTypesGive, RingTypesGive, TiersTypesGive, BankTypesGive, DatabaseTypesGive,
       SchemaTypesGive DEF PlacementTypes, TypeOK
  <1> QED BY <1>1, <1>2, <1>3, PTL DEF Spec
=============================================================================
