-------------------------- MODULE DirectorySharding --------------------------
(***************************************************************************)
(* simulate_directory_based_sharding: tenants are placed on shards by a     *)
(* row of the directory database.  Every application process owns a Router *)
(* with a private cache of directory rows.  A process runs one call at a    *)
(* time; the calls of different processes interleave between statements.   *)
(*                                                                         *)
(* A database statement outside a transaction is one step.  The two         *)
(* transactions of MoveTenant are visible to others only through the row   *)
(* locks they hold and through their commits, so the uncommitted DELETE of *)
(* the hosted_tenants row is modelled as a lock held by the mover while    *)
(* its pc is in Fencing, and the commit applies the deletes.               *)
(***************************************************************************)
EXTENDS Integers, FiniteSets

CONSTANTS Tenant, Shard, Router,
          InitShards,   \* shards registered by init/directory/01_schema.sql
          NoEntry,      \* no row (directory) or no key (cache)
          None,         \* an unused register of a router
          CanCrash,     \* may a process die in the middle of a call?
          MaxOrders,    \* bound: no insert starts once a tenant has this many
          MaxVersion    \* bound: no move starts at this directory version

ASSUME DirectoryAssumption ==
    /\ InitShards \subseteq Shard
    /\ CanCrash \in BOOLEAN
    /\ MaxOrders \in Nat /\ MaxVersion \in Nat
    /\ None \notin Tenant /\ None \notin Shard
    /\ NoEntry \notin [shard : Shard, version : Nat, status : {"active", "moving"}]
    /\ NoEntry \notin [shard : Shard, version : Nat]

VARIABLES
    shards,     \* directory database, table shards: name -> status
    directory,  \* directory database, table tenant_directory
    hosted,     \* per shard, committed rows of hosted_tenants
    orders,     \* per shard, committed rows of orders
    cache,      \* per router, tenant -> entry
    pc,         \* per router, the statement it sends next
    ten,        \* per router, the tenant of the call
    at,         \* per router, the shard routed to (insert) or source (move)
    tgt,        \* per router, the target of the onboarding or move
    attempt,    \* per router, loop variable of InsertOrders
    top,        \* per router, max(id) in the snapshot of the INSERT
    batch,      \* per router, the rows read from the source
    placed      \* history: how many orders of a tenant were acknowledged

databases == <<shards, directory, hosted, orders>>
registers == <<ten, at, tgt, attempt, top, batch>>
vars == <<shards, directory, hosted, orders, cache, pc, ten, at, tgt, attempt,
          top, batch, placed>>

Order == [tenant : Tenant, id : Nat, no : Nat]   \* no: the order's identity
Entry == [shard : Shard, version : Nat, status : {"active", "moving"}]
CacheEntry == [shard : Shard, version : Nat]

Writing  == {"lookup", "send", "wait", "locked", "fenced"}
Onboarding == {"host", "enroll"}
Fencing  == {"read", "copy", "commit"}   \* srcTx holds the deleted row's lock
Moving   == {"begin", "flip"} \cup Fencing

TablesOK ==
    /\ shards \in [Shard -> {"absent", "open", "closed"}]
    /\ directory \in [Tenant -> Entry \cup {NoEntry}]
    /\ hosted \in [Shard -> SUBSET Tenant]
    /\ orders \in [Shard -> SUBSET Order]
    /\ placed \in [Tenant -> Nat]

CacheOK == cache \in [Router -> [Tenant -> CacheEntry \cup {NoEntry}]]

CallsOK ==
    /\ pc \in [Router -> {"idle", "dead"} \cup Writing \cup Onboarding \cup Moving]
    /\ ten \in [Router -> Tenant \cup {None}]
    /\ at \in [Router -> Shard \cup {None}]
    /\ tgt \in [Router -> Shard \cup {None}]
    /\ attempt \in [Router -> 0..2]
    /\ top \in [Router -> Nat]
    /\ batch \in [Router -> SUBSET Order]
    /\ \A r \in Router :
         /\ pc[r] \notin {"idle", "dead"} => ten[r] \in Tenant
         /\ pc[r] \in {"send", "wait", "locked", "fenced"} \cup Moving => at[r] \in Shard
         /\ pc[r] \in Onboarding \cup Moving => tgt[r] \in Shard

TypeOK == TablesOK /\ CacheOK /\ CallsOK

Init ==
    /\ shards = [s \in Shard |-> IF s \in InitShards THEN "open" ELSE "absent"]
    /\ directory = [t \in Tenant |-> NoEntry]
    /\ hosted = [s \in Shard |-> {}]
    /\ orders = [s \in Shard |-> {}]
    /\ cache = [r \in Router |-> [t \in Tenant |-> NoEntry]]
    /\ pc = [r \in Router |-> "idle"]
    /\ ten = [r \in Router |-> None]
    /\ at = [r \in Router |-> None]
    /\ tgt = [r \in Router |-> None]
    /\ attempt = [r \in Router |-> 0]
    /\ top = [r \in Router |-> 0]
    /\ batch = [r \in Router |-> {}]
    /\ placed = [t \in Tenant |-> 0]

RowsOf(s, t) == {o \in orders[s] : o.tenant = t}
Active(t) == directory[t] # NoEntry /\ directory[t].status = "active"
\* Variant: the DELETE of hosted_tenants runs outside the open transaction's
\* locks, so the source keeps accepting writes until the commit.
FenceNeverHeld(s, t) == FALSE

\* The row (t) of hosted_tenants on s is deleted by a transaction still open.
FenceHeld(s, t) == \E q \in Router : pc[q] \in Fencing /\ at[q] = s /\ ten[q] = t

\* An INSERT of another process holds the row FOR SHARE.
ShareHeld(s, t) == \E q \in Router : pc[q] = "locked" /\ at[q] = s /\ ten[q] = t

Goto(r, l) == pc' = [pc EXCEPT ![r] = l]

\* The call ends: "idle" on return, "dead" on log.Fatal (the process exits and
\* its open transaction is rolled back by the server).
End(r, l) ==
    /\ Goto(r, l)
    /\ ten' = [ten EXCEPT ![r] = None]
    /\ at' = [at EXCEPT ![r] = None]
    /\ tgt' = [tgt EXCEPT ![r] = None]
    /\ attempt' = [attempt EXCEPT ![r] = 0]
    /\ top' = [top EXCEPT ![r] = 0]
    /\ batch' = [batch EXCEPT ![r] = {}]

Forget(r, t) == cache' = [cache EXCEPT ![r][t] = NoEntry]

\* What lookup leaves in the cache: nothing for a tenant that is mid-move.
Remember(r, t) ==
    IF cache[r][t] = NoEntry /\ Active(t)
    THEN cache' = [cache EXCEPT ![r][t] =
             [shard |-> directory[t].shard, version |-> directory[t].version]]
    ELSE UNCHANGED cache

(***************************************************************************)
(* InsertOrders (n = 1): two attempts of lookup followed by the fenced     *)
(* INSERT.                                                                 *)
(***************************************************************************)
InsertOrders(r, t) ==
    /\ pc[r] = "idle"
    /\ placed[t] < MaxOrders
    /\ Goto(r, "lookup")
    /\ ten' = [ten EXCEPT ![r] = t]
    /\ attempt' = [attempt EXCEPT ![r] = 1]
    /\ UNCHANGED <<databases, cache, at, tgt, top, batch, placed>>

Lookup(r) ==
    /\ pc[r] = "lookup"
    /\ LET t == ten[r]
       IN  /\ cache[r][t] # NoEntry \/ directory[t] # NoEntry
           /\ at' = [at EXCEPT ![r] = IF cache[r][t] # NoEntry THEN cache[r][t].shard
                                      ELSE directory[t].shard]
           /\ Remember(r, t)
    /\ Goto(r, "send")
    /\ UNCHANGED <<databases, ten, tgt, attempt, top, batch, placed>>
\* Variant: the error of the directory query is ignored and the zero entry used.
LookupUnknownIgnored(r) ==
    /\ pc[r] = "lookup"
    /\ cache[r][ten[r]] = NoEntry /\ directory[ten[r]] = NoEntry
    /\ Goto(r, "send")
    /\ UNCHANGED <<databases, cache, registers, placed>>

LookupUnknown(r) ==
    /\ pc[r] = "lookup"
    /\ cache[r][ten[r]] = NoEntry /\ directory[ten[r]] = NoEntry
    /\ End(r, "dead")
    /\ UNCHANGED <<databases, cache, placed>>
\* Variant: the INSERT without its WHERE EXISTS clause.
StartInsertUnfenced(r) ==
    /\ pc[r] = "send"
    /\ LET ids == {o.id : o \in RowsOf(at[r], ten[r])}
       IN  \E m \in ids \cup {0} : (\A i \in ids : i <= m) /\ top' = [top EXCEPT ![r] = m]
    /\ Goto(r, "locked")
    /\ UNCHANGED <<databases, cache, ten, at, tgt, attempt, batch, placed>>

\* The INSERT starts: its snapshot fixes max(id); then FOR SHARE locks the
\* hosted_tenants row, waits for a mover that deleted it, or finds no row.
StartInsert(r) ==
    /\ pc[r] = "send"
    /\ LET s == at[r]
           t == ten[r]
           ids == {o.id : o \in RowsOf(s, t)}
       IN  /\ \E m \in ids \cup {0} :
                /\ \A i \in ids : i <= m
                /\ top' = [top EXCEPT ![r] = m]
           /\ \/ t \notin hosted[s] /\ Goto(r, "fenced")
              \/ t \in hosted[s] /\ FenceHeld(s, t) /\ Goto(r, "wait")
              \/ t \in hosted[s] /\ ~FenceHeld(s, t) /\ Goto(r, "locked")
    /\ UNCHANGED <<databases, cache, ten, at, tgt, attempt, batch, placed>>
\* Variant: a waiting INSERT only looks again once the row is gone.
WakeWhenGone(r) ==
    /\ pc[r] = "wait"
    /\ ten[r] \notin hosted[at[r]]
    /\ Goto(r, "locked")
    /\ UNCHANGED <<databases, cache, registers, placed>>

\* The mover rolled back: the row is there again.  (CommitSource wakes the
\* waiters of a mover that commits.)
WakeAfterRollback(r) ==
    /\ pc[r] = "wait"
    /\ ~FenceHeld(at[r], ten[r])
    /\ Goto(r, "locked")
    /\ UNCHANGED <<databases, cache, registers, placed>>

CommitInsert(r) ==
    /\ pc[r] = "locked"
    /\ LET s == at[r]
           t == ten[r]
       IN  /\ \A o \in RowsOf(s, t) : o.id # top[r] + 1
           /\ orders' = [orders EXCEPT ![s] =
                  @ \cup {[tenant |-> t, id |-> top[r] + 1, no |-> placed[t] + 1]}]
           /\ placed' = [placed EXCEPT ![t] = @ + 1]
    /\ End(r, "idle")
    /\ UNCHANGED <<shards, directory, hosted, cache>>

\* Another INSERT with the same snapshot took the id: primary key violation.
InsertConflict(r) ==
    /\ pc[r] = "locked"
    /\ \E o \in RowsOf(at[r], ten[r]) : o.id = top[r] + 1
    /\ End(r, "dead")
    /\ UNCHANGED <<databases, cache, placed>>

\* Zero rows inserted: drop the cached mapping and try once more, or give up.
Retry(r) ==
    /\ pc[r] = "fenced" /\ attempt[r] = 1
    /\ Forget(r, ten[r])
    /\ attempt' = [attempt EXCEPT ![r] = 2]
    /\ at' = [at EXCEPT ![r] = None]
    /\ top' = [top EXCEPT ![r] = 0]
    /\ Goto(r, "lookup")
    /\ UNCHANGED <<databases, ten, tgt, batch, placed>>

GiveUp(r) ==
    /\ pc[r] = "fenced" /\ attempt[r] = 2
    /\ Forget(r, ten[r])
    /\ End(r, "dead")
    /\ UNCHANGED <<databases, placed>>

\* CountOrders reads through the same cache and is not fenced; only its
\* lookup changes state.
CountOrders(r, t) ==
    /\ pc[r] = "idle"
    /\ \/ /\ cache[r][t] # NoEntry \/ directory[t] # NoEntry
          /\ Remember(r, t)
          /\ UNCHANGED <<pc, registers>>
       \/ /\ cache[r][t] = NoEntry /\ directory[t] = NoEntry
          /\ End(r, "dead") /\ UNCHANGED cache
    /\ UNCHANGED <<databases, placed>>

(***************************************************************************)
(* Onboard.  The placement policy takes the open shard with the fewest     *)
(* rows; a count that fails is ignored and reads as 0, so any open shard   *)
(* can win.  The caller onboards a NEW tenant: no directory row and no     *)
(* other onboarding of it under way.                                       *)
(***************************************************************************)
Onboard(r, t) ==
    /\ pc[r] = "idle"
    /\ directory[t] = NoEntry
    /\ \A q \in Router : ~(pc[q] \in Onboarding /\ ten[q] = t)
    /\ \/ \E s \in Shard :
             /\ shards[s] = "open"
             /\ Goto(r, "host")
             /\ ten' = [ten EXCEPT ![r] = t]
             /\ tgt' = [tgt EXCEPT ![r] = s]
             /\ UNCHANGED <<at, attempt, top, batch>>
       \/ /\ \A s \in Shard : shards[s] # "open"
          /\ End(r, "dead")
    /\ UNCHANGED <<databases, cache, placed>>

HostTenant(r) ==
    /\ pc[r] = "host"
    /\ ten[r] \notin hosted[tgt[r]]
    /\ hosted' = [hosted EXCEPT ![tgt[r]] = @ \cup {ten[r]}]
    /\ Goto(r, "enroll")
    /\ UNCHANGED <<shards, directory, orders, cache, registers, placed>>

\* A crashed onboarding left the row behind: primary key violation.
HostConflict(r) ==
    /\ pc[r] = "host"
    /\ ten[r] \in hosted[tgt[r]]
    /\ End(r, "dead")
    /\ UNCHANGED <<databases, cache, placed>>

EnrollTenant(r) ==
    /\ pc[r] = "enroll"
    /\ directory[ten[r]] = NoEntry
    /\ directory' = [directory EXCEPT ![ten[r]] =
           [shard |-> tgt[r], version |-> 1, status |-> "active"]]
    /\ End(r, "idle")
    /\ UNCHANGED <<shards, hosted, orders, cache, placed>>

(***************************************************************************)
(* MoveTenant.                                                             *)
(***************************************************************************)
\* Step 1: UPDATE ... WHERE status = 'active' RETURNING shard.
MoveTenant(r, t, s) ==
    /\ pc[r] = "idle"
    /\ Active(t) /\ directory[t].version < MaxVersion
    /\ directory' = [directory EXCEPT ![t].status = "moving"]
    /\ Goto(r, "begin")
    /\ ten' = [ten EXCEPT ![r] = t]
    /\ at' = [at EXCEPT ![r] = directory[t].shard]
    /\ tgt' = [tgt EXCEPT ![r] = s]
    /\ UNCHANGED <<shards, hosted, orders, cache, attempt, top, batch, placed>>

\* No active row: unknown tenant, or a move under way (or one that crashed).
MoveRefused(r, t) ==
    /\ pc[r] = "idle"
    /\ ~Active(t)
    /\ End(r, "dead")
    /\ UNCHANGED <<databases, cache, placed>>
\* Variant: the EXISTS subquery without FOR SHARE, so that nothing makes the
\* DELETE wait for the inserts under way.
FenceSourceAtOnce(r) ==
    /\ pc[r] = "begin"
    /\ Goto(r, "read")
    /\ UNCHANGED <<databases, cache, registers, placed>>

\* Step 2: the fence.  The DELETE waits for the inserts that hold the row.
FenceSource(r) ==
    /\ pc[r] = "begin"
    /\ ~ShareHeld(at[r], ten[r])
    /\ Goto(r, "read")
    /\ UNCHANGED <<databases, cache, registers, placed>>

ReadSource(r) ==
    /\ pc[r] = "read"
    /\ batch' = [batch EXCEPT ![r] = RowsOf(at[r], ten[r])]
    /\ Goto(r, "copy")
    /\ UNCHANGED <<databases, cache, ten, at, tgt, attempt, top, placed>>

RowClash(r) == \E o \in RowsOf(tgt[r], ten[r]) : \E b \in batch[r] : b.id = o.id

\* Step 3: one transaction on the target.
CopyToTarget(r) ==
    /\ pc[r] = "copy"
    /\ shards[tgt[r]] # "absent"
    /\ ~RowClash(r)
    /\ ten[r] \notin hosted[tgt[r]]
    /\ orders' = [orders EXCEPT ![tgt[r]] = @ \cup batch[r]]
    /\ hosted' = [hosted EXCEPT ![tgt[r]] = @ \cup {ten[r]}]
    /\ Goto(r, "commit")
    /\ UNCHANGED <<shards, directory, cache, registers, placed>>
\* Variant: an unknown target makes shard() wait for its registration.
CopyFailsOnClash(r) ==
    /\ pc[r] = "copy" /\ shards[tgt[r]] # "absent"
    /\ RowClash(r) \/ (ten[r] \in hosted[tgt[r]] /\ ~FenceHeld(tgt[r], ten[r]))
    /\ End(r, "dead")
    /\ UNCHANGED <<databases, cache, placed>>

\* Unregistered shard, or a primary key violation in either table: log.Fatal,
\* srcTx is rolled back and the directory row stays 'moving'.  A hosted row
\* that srcTx itself deleted (a move to the source) makes the INSERT wait for
\* srcTx instead: neither copy action is enabled and the process hangs.
CopyFails(r) ==
    /\ pc[r] = "copy"
    /\ \/ shards[tgt[r]] = "absent"
       \/ RowClash(r)
       \/ ten[r] \in hosted[tgt[r]] /\ ~FenceHeld(tgt[r], ten[r])
    /\ End(r, "dead")
    /\ UNCHANGED <<databases, cache, placed>>
\* Variants: step 4 without the DELETE of the rows, and without the fence row.
CommitSourceKeepsRows(r) ==
    /\ pc[r] = "commit"
    /\ hosted' = [hosted EXCEPT ![at[r]] = @ \ {ten[r]}]
    /\ Goto(r, "flip")
    /\ UNCHANGED <<shards, directory, orders, cache, registers, placed>>

CommitSourceKeepsHost(r) ==
    /\ pc[r] = "commit"
    /\ orders' = [orders EXCEPT ![at[r]] = @ \ RowsOf(at[r], ten[r])]
    /\ Goto(r, "flip")
    /\ UNCHANGED <<shards, directory, hosted, cache, registers, placed>>

\* Step 4: delete the rows, commit; writers waiting for the deleted row see
\* that it is gone.
CommitSource(r) ==
    /\ pc[r] = "commit"
    /\ orders' = [orders EXCEPT ![at[r]] = @ \ RowsOf(at[r], ten[r])]
    /\ hosted' = [hosted EXCEPT ![at[r]] = @ \ {ten[r]}]
    /\ pc' = [q \in Router |->
                 CASE q = r -> "flip"
                   [] q # r /\ pc[q] = "wait" /\ at[q] = at[r] /\ ten[q] = ten[r] -> "fenced"
                   [] OTHER -> pc[q]]
    /\ UNCHANGED <<shards, directory, cache, registers, placed>>
\* Variant: step 5 without version = version + 1.
FlipKeepsVersion(r) ==
    /\ pc[r] = "flip"
    /\ directory' = [directory EXCEPT ![ten[r]].shard = tgt[r], ![ten[r]].status = "active"]
    /\ Forget(r, ten[r])
    /\ End(r, "idle")
    /\ UNCHANGED <<shards, hosted, orders, placed>>

\* Step 5.
FlipDirectory(r) ==
    /\ pc[r] = "flip"
    /\ directory' = [directory EXCEPT ![ten[r]] =
           [shard |-> tgt[r], version |-> @.version + 1, status |-> "active"]]
    /\ Forget(r, ten[r])
    /\ End(r, "idle")
    /\ UNCHANGED <<shards, hosted, orders, placed>>

(***************************************************************************)
(* Capacity changes, and processes that die and are started again.         *)
(***************************************************************************)
RegisterShard(s) ==
    /\ shards[s] = "absent"
    /\ shards' = [shards EXCEPT ![s] = "open"]
    /\ UNCHANGED <<directory, hosted, orders, cache, pc, registers, placed>>

CloseShard(s) ==
    /\ shards[s] = "open"
    /\ shards' = [shards EXCEPT ![s] = "closed"]
    /\ UNCHANGED <<directory, hosted, orders, cache, pc, registers, placed>>

Crash(r) ==
    /\ CanCrash
    /\ pc[r] \notin {"idle", "dead"}
    /\ End(r, "dead")
    /\ UNCHANGED <<databases, cache, placed>>

NewRouter(r) ==
    /\ pc[r] = "dead"
    /\ Goto(r, "idle")
    /\ cache' = [cache EXCEPT ![r] = [t \in Tenant |-> NoEntry]]
    /\ UNCHANGED <<databases, registers, placed>>

-----------------------------------------------------------------------------
\* The next statement of a call under way.
InsertStep(r) ==
    \/ Lookup(r) \/ LookupUnknown(r) \/ StartInsert(r) \/ WakeAfterRollback(r)
    \/ CommitInsert(r) \/ InsertConflict(r) \/ Retry(r) \/ GiveUp(r)

OnboardStep(r) == HostTenant(r) \/ HostConflict(r) \/ EnrollTenant(r)

MoveStep(r) ==
    \/ FenceSource(r) \/ ReadSource(r) \/ CopyToTarget(r) \/ CopyFails(r)
    \/ CommitSource(r) \/ FlipDirectory(r)

Call(r, t) ==
    \/ InsertOrders(r, t) \/ CountOrders(r, t) \/ Onboard(r, t) \/ MoveRefused(r, t)
    \/ \E s \in Shard : MoveTenant(r, t, s)

Next ==
    \/ \E r \in Router :
          \/ InsertStep(r) \/ OnboardStep(r) \/ MoveStep(r)
          \/ Crash(r) \/ NewRouter(r)
          \/ \E t \in Tenant : Call(r, t)
    \/ \E s \in Shard : RegisterShard(s) \/ CloseShard(s)

Spec == Init /\ [][Next]_vars

\* A process that has sent a statement goes on when the statement returns.
FairSpec ==
    /\ Spec
    /\ \A r \in Router : /\ WF_vars(InsertStep(r))
                         /\ WF_vars(OnboardStep(r))
                         /\ WF_vars(MoveStep(r))

(***************************************************************************)
(* Properties.                                                             *)
(***************************************************************************)
\* Router r has a way to send an INSERT of t to s: a cached entry, or a
\* statement of a call that was routed before.
Routed(r, s, t) ==
    \/ cache[r][t] # NoEntry /\ cache[r][t].shard = s
    \/ pc[r] \in {"send", "wait", "locked"} /\ ten[r] = t /\ at[r] = s

\* Every acknowledged order is on some shard at every moment, whatever the
\* interleaving of inserts, moves, failed copies and crashes (MoveTenant copies
\* and commits on the target before it deletes on the source).
NoOrderLost ==
    \A t \in Tenant : \A n \in 1..placed[t] :
        \E s \in Shard : \E o \in RowsOf(s, t) : o.no = n

\* While the directory says 'active', the shard it names hosts the tenant and
\* no other shard holds any of its rows: moves neither leave copies behind nor
\* publish a mapping before the data is there (order of steps 3, 4 and 5).
ActiveIsAuthoritative ==
    \A t \in Tenant : Active(t) =>
        /\ t \in hosted[directory[t].shard]
        /\ \A s \in Shard \ {directory[t].shard} : RowsOf(s, t) = {}

\* While the directory says 'active', every router whose cache or pending
\* statement names another shard is fenced out there by hosted_tenants.
StaleRouteFenced ==
    \A t \in Tenant, r \in Router, s \in Shard :
        (Active(t) /\ Routed(r, s, t) /\ s # directory[t].shard) => t \notin hosted[s]

\* "bumped on every move, so caches can tell an old mapping from a new one"
\* (init/directory/01_schema.sql): equal versions mean the same shard, and no
\* cache is ahead of the directory.
VersionTellsStale ==
    \A r \in Router, t \in Tenant : cache[r][t] # NoEntry =>
        /\ directory[t] # NoEntry
        /\ cache[r][t].version <= directory[t].version
        /\ cache[r][t].version = directory[t].version => cache[r][t].shard = directory[t].shard

\* If no process dies inside a call, two shards never accept writes of one
\* tenant at the same time: the target is hosted only while the source's row
\* is locked, and onboarding hosts a tenant once.
SingleOwner ==
    \A t \in Tenant : \A s1, s2 \in Shard :
        (/\ t \in hosted[s1] /\ ~FenceHeld(s1, t)
         /\ t \in hosted[s2] /\ ~FenceHeld(s2, t)) => s1 = s2

\* A write accepted for a tenant lands on the shard the directory names, or on
\* the one a move is about to name: "a router holding a STALE directory entry
\* can't silently write to the old shard after a tenant has moved"
\* (init/shard/01_schema.sql).
StaleRouterNeverWrites ==
    [][\A t \in Tenant, s \in Shard :
          (\E o \in orders'[s] : o.tenant = t /\ o.no = placed[t] + 1) =>
              \/ directory[t] # NoEntry /\ directory[t].shard = s
              \/ \E q \in Router : pc[q] \in {"commit", "flip"} /\ ten[q] = t /\ tgt[q] = s
      ]_vars

\* A move to another shard comes to an end, published or refused, in spite of
\* the writers it waits for (crash-free).
MoveEnds ==
    \A r \in Router :
        (pc[r] = "begin" /\ tgt[r] # at[r]) ~> pc[r] \in {"idle", "dead"}

\* A move onto the tenant's own shard with no rows to copy waits for itself.
SelfMoveHangs(q) == pc[q] = "copy" /\ tgt[q] = at[q] /\ batch[q] = {}

\* Every insert comes to an end, even when it has to wait for a mover's row
\* lock, unless that mover hangs (crash-free).
InsertEnds ==
    \A r \in Router :
        pc[r] \in Writing ~> (pc[r] \in {"idle", "dead"} \/ \E q \in Router : SelfMoveHangs(q))

(***************************************************************************)
(* The inductive invariant behind these properties.                        *)
(***************************************************************************)
\* The UPDATE ... WHERE status = 'active' admits one mover per tenant, and the
\* row it marked stays as it left it.
MoverExclusive ==
    \A r, q \in Router :
        (pc[r] \in Moving /\ pc[q] \in Moving /\ ten[r] = ten[q]) => r = q

MoverMarked ==
    \A r \in Router : pc[r] \in Moving =>
        /\ directory[ten[r]] # NoEntry
        /\ directory[ten[r]].status = "moving"
        /\ directory[ten[r]].shard = at[r]

\* The hosted_tenants row is there for the statements that rely on it.
HostedFor(r) ==
    /\ pc[r] \in {"begin", "wait", "locked"} \cup Fencing => ten[r] \in hosted[at[r]]
    /\ pc[r] \in {"enroll", "commit", "flip"} => ten[r] \in hosted[tgt[r]]
    /\ pc[r] = "flip" => ten[r] \notin hosted[at[r]]

HostedWhenNeeded ==
    /\ \A t \in Tenant : Active(t) => t \in hosted[directory[t].shard]
    /\ \A r \in Router : HostedFor(r)

OnboardingIsNew ==
    \A r \in Router : pc[r] \in Onboarding =>
        /\ directory[ten[r]] = NoEntry
        /\ \A q \in Router : pc[q] \in Onboarding /\ ten[q] = ten[r] => q = r

\* FOR SHARE against DELETE: no INSERT is under way behind the fence, so the
\* rows read are the source's rows until they are deleted, and by then the
\* target, another shard, has them.
FenceExcludesWriters ==
    \A r, q \in Router :
        (pc[r] \in Fencing /\ pc[q] = "locked" /\ ten[q] = ten[r]) => at[q] # at[r]

CopyComplete ==
    \A r \in Router :
        /\ pc[r] \in {"copy", "commit"} => batch[r] = RowsOf(at[r], ten[r])
        /\ pc[r] = "commit" => batch[r] \subseteq orders[tgt[r]] /\ tgt[r] # at[r]

\* The shards on which a tenant may have rows and accept writes: the one an
\* active row names, the source of a move until its commit, its target after
\* the copy.
Serves(s, t) ==
    \/ Active(t) /\ s = directory[t].shard
    \/ \E q \in Router : pc[q] \in {"begin"} \cup Fencing /\ ten[q] = t /\ s = at[q]
    \/ \E q \in Router : pc[q] \in {"commit", "flip"} /\ ten[q] = t /\ s = tgt[q]

\* A tenant whose move died with its process ('moving', no mover) is outside:
\* its copies can diverge, and its row never becomes active again.
Coherent(t) ==
    Active(t) \/ directory[t] = NoEntry \/ \E q \in Router : pc[q] \in Moving /\ ten[q] = t

ServedAtHome ==
    \A t \in Tenant : Coherent(t) => \A s \in Shard :
        Serves(s, t) \/ /\ RowsOf(s, t) = {}
                        /\ \A r \in Router : Routed(r, s, t) => t \notin hosted[s]

UnknownUnrouted ==
    \A t \in Tenant : directory[t] = NoEntry =>
        \A r \in Router, s \in Shard : ~Routed(r, s, t)

IInv ==
    /\ TypeOK /\ MoverExclusive /\ MoverMarked /\ HostedWhenNeeded /\ OnboardingIsNew
    /\ FenceExcludesWriters /\ CopyComplete /\ NoOrderLost
    /\ ServedAtHome /\ UnknownUnrouted
=============================================================================
