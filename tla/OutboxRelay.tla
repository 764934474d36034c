----------------------------- MODULE OutboxRelay -----------------------------
(***************************************************************************)
(* simulate_polyglot_persistence: the application writes to PostgreSQL only, *)
(* each change with an outbox event in the same transaction; relays apply    *)
(* the events to Elasticsearch and Redis, at least once; readers fill the    *)
(* Redis cache; the search index can be dropped and rebuilt.                *)
(*                                                                         *)
(* A product is its version; 0 stands for no row, document or cache entry.   *)
(***************************************************************************)
EXTENDS Integers, FiniteSets, FiniteSetsExt

CONSTANTS Product, Client, Relay, Reader,
          BatchSize,      \* LIMIT of the relay's query
          LateRetry,      \* may 24 hours pass before a failed batch is retried?
          MaskedRefusals, \* may Redis refuse a command after it has answered nil?
          MaxEvents,      \* bound: outbox ids handed out
          MaxFailures,    \* bound: batches cut short, commands refused, stops of a relay
          MaxRebuilds     \* bound: index rebuilds

ASSUME RelayAssumption ==
    /\ BatchSize \in Nat \ {0} /\ LateRetry \in BOOLEAN /\ MaskedRefusals \in BOOLEAN
    /\ MaxEvents \in Nat /\ MaxFailures \in Nat /\ MaxRebuilds \in Nat

VARIABLES
    products,   \* PostgreSQL: version of each committed product
    ordered,    \* PostgreSQL: units in committed orders of each product
    outbox,     \* PostgreSQL: committed rows of outbox
    seq,        \* the last outbox id handed out
    tx,         \* per client: its open transaction
    index,      \* Elasticsearch: version of each document
    cache,      \* Redis: the entry "product:<id>"
    done,       \* Redis: the dedupe keys "outbox:done:<id>"
    bestsellers,\* Redis: the sorted set, score of each product
    relay,      \* per relay: stage, claimed events, those not applied, those of them that
                \* Redis has refused, and the first error among the pipeline's answers
    reader,     \* per reader: where it is in GetProduct
    rebuild,    \* the rebuild of the index and the products it has to index
    overtaken,  \* history: the cache entry was older than the row when stored
    failures, rebuilds

writes == <<products, ordered, outbox, seq, tx>>
redis == <<cache, done, bestsellers, overtaken>>
reading == <<reader, rebuild, rebuilds>>
vars == <<writes, index, redis, relay, reading, failures>>

Kind == {"product_upserted", "order_placed"}
Event == [id : 1..MaxEvents, kind : Kind, product : Product, n : Nat, processed : BOOLEAN]
NoTx == [kind |-> "none"]
Batch(at, claimed) ==
    [at |-> at, claimed |-> claimed, left |-> claimed, refused |-> {}, error |-> "none"]
NoBatch == Batch("idle", {})
NotReading == [at |-> "idle"]
NoRebuild == [at |-> "none", left |-> {}]

Unprocessed == {e \in outbox : ~e.processed}

\* Types; what a batch has left to apply is claimed; no event has two owners.
TypeOK ==
    /\ products \in [Product -> Nat] /\ ordered \in [Product -> Nat]
    /\ outbox \subseteq Event /\ seq \in 0..MaxEvents
    /\ \A e, f \in outbox : e.id = f.id => e = f
    /\ index \in [Product -> Nat] /\ cache \in [Product -> Nat]
    /\ done \subseteq 1..MaxEvents /\ bestsellers \in [Product -> Nat]
    /\ \A r \in Relay :
         /\ relay[r].at \in {"idle", "stopped", "claimed", "indexed"}
         /\ relay[r].refused \subseteq relay[r].left /\ relay[r].left \subseteq relay[r].claimed
         /\ \A s \in Relay \ {r} : relay[r].claimed \cap relay[s].claimed = {}
    /\ failures \in 0..MaxFailures /\ rebuilds \in 0..MaxRebuilds

Init ==
    /\ products = [p \in Product |-> 0] /\ ordered = [p \in Product |-> 0]
    /\ outbox = {} /\ seq = 0
    /\ tx = [c \in Client |-> NoTx]
    /\ index = [p \in Product |-> 0] /\ cache = [p \in Product |-> 0]
    /\ done = {} /\ bestsellers = [p \in Product |-> 0]
    /\ relay = [r \in Relay |-> NoBatch]
    /\ reader = [d \in Reader |-> NotReading]
    /\ rebuild = NoRebuild
    /\ overtaken = [p \in Product |-> FALSE]
    /\ failures = 0 /\ rebuilds = 0

(***************************************************************************)
(* Writes.                                                                 *)
(***************************************************************************)
\* The row's statement and emit, whose INSERT takes the next id; ids are not given
\* back, and a transaction that began later may commit earlier.
Emit(c, kind, p, n) ==
    /\ tx[c] = NoTx /\ seq < MaxEvents
    /\ seq' = seq + 1
    /\ tx' = [tx EXCEPT ![c] = [kind |-> kind, product |-> p, n |-> n, id |-> seq + 1]]
    /\ UNCHANGED <<products, ordered, outbox, index, redis, relay, reading, failures>>

\* A product's row is locked from its INSERT or UPDATE to the COMMIT.
Locked(p) == \E c \in Client : tx[c] # NoTx /\ tx[c].kind = "product_upserted" /\ tx[c].product = p

SeedProduct(c, p) == products[p] = 0 /\ ~Locked(p) /\ Emit(c, "product_upserted", p, 1)

UpdateProduct(c, p) ==
    products[p] > 0 /\ ~Locked(p) /\ Emit(c, "product_upserted", p, products[p] + 1)

PlaceOrder(c, p) == products[p] > 0 /\ Emit(c, "order_placed", p, 1)

\* COMMIT: the row and its event appear together.
Commit(c) ==
    /\ tx[c] # NoTx
    /\ LET p == tx[c].product IN
         IF tx[c].kind = "product_upserted"
         THEN products' = [products EXCEPT ![p] = tx[c].n] /\ UNCHANGED ordered
         ELSE ordered' = [ordered EXCEPT ![p] = @ + tx[c].n] /\ UNCHANGED products
    /\ outbox' = outbox \cup {[id |-> tx[c].id, kind |-> tx[c].kind, product |-> tx[c].product,
                               n |-> tx[c].n, processed |-> FALSE]}
    /\ tx' = [tx EXCEPT ![c] = NoTx]
    /\ UNCHANGED <<seq, index, redis, relay, reading, failures>>

Rollback(c) ==
    /\ tx[c] # NoTx
    /\ tx' = [tx EXCEPT ![c] = NoTx]
    /\ UNCHANGED <<products, ordered, outbox, seq, index, redis, relay, reading, failures>>

(***************************************************************************)
(* Relay.processBatch: one transaction in PostgreSQL around the calls.      *)
(***************************************************************************)
\* Variant: the query reads without locking.
ClaimUnlocked(r) ==
    /\ relay[r].at = "idle" /\ Unprocessed # {}
    /\ LET batch == {e.id : e \in Unprocessed} IN
         relay' = [relay EXCEPT ![r] = Batch("claimed", batch)]
    /\ UNCHANGED <<writes, index, redis, reading, failures>>

\* FOR UPDATE SKIP LOCKED: the oldest unprocessed events nobody else holds.
Claim(r) ==
    LET free == {e.id : e \in Unprocessed} \ UNION {relay[s].claimed : s \in Relay}
        batch == {i \in free : Cardinality({j \in free : j < i}) < BatchSize} IN
    /\ relay[r].at = "idle" /\ batch # {}
    /\ relay' = [relay EXCEPT ![r] = Batch("claimed", batch)]
    /\ UNCHANGED <<writes, index, redis, reading, failures>>

\* Variant: no external versioning, the last document written stays.
IndexAny(old, docs) ==
    [p \in Product |-> IF \E d \in docs : d.product = p
                       THEN Max({d.n : d \in {x \in docs : x.product = p}}) ELSE old[p]]

\* BulkIndex: a document is kept only if its version is higher; a conflict is no error.
Indexed(old, docs) ==
    [p \in Product |-> Max({old[p]} \cup {d.n : d \in {x \in docs : x.product = p}})]

Docs(r) == {e \in outbox : e.id \in relay[r].claimed /\ e.kind = "product_upserted"}

BulkIndex(r) ==
    /\ relay[r].at = "claimed"
    /\ index' = Indexed(index, Docs(r))
    /\ relay' = [relay EXCEPT ![r].at = "indexed"]
    /\ UNCHANGED <<writes, redis, reading, failures>>

\* Some items succeed, another one fails: the batch returns the error.
BulkFails(r) ==
    /\ relay[r].at = "claimed" /\ failures < MaxFailures
    /\ \E items \in SUBSET Docs(r) : index' = Indexed(index, items)
    /\ relay' = [relay EXCEPT ![r] = NoBatch]
    /\ failures' = failures + 1
    /\ UNCHANGED <<writes, redis, reading>>

\* Variant: the entry is left to its TTL.
ForgetDel(e) == UNCHANGED <<cache, overtaken>>

\* DEL product:<id>
Del(e) ==
    /\ cache' = [cache EXCEPT ![e.product] = 0]
    /\ overtaken' = [overtaken EXCEPT ![e.product] = FALSE]

\* Variant: count without looking for the dedupe key.
IncrAlways(e) ==
    /\ done' = done \cup {e.id}
    /\ bestsellers' = [bestsellers EXCEPT ![e.product] = @ + e.n]

\* incrOnce, atomic in Redis: count the event unless its key is there.
IncrOnce(e) ==
    /\ done' = done \cup {e.id}
    /\ bestsellers' = IF e.id \in done THEN bestsellers
                      ELSE [bestsellers EXCEPT ![e.product] = @ + e.n]

\* The commands of the pipeline run in the order of the events, and other clients'
\* commands come between them.
IsNext(r, e) ==
    LET unsent == relay[r].left \ relay[r].refused IN
    e.id \in unsent /\ \A i \in unsent : e.id <= i

\* The script answers nil if the dedupe key is there: for go-redis that is an error.
Applied(b, e) == [b EXCEPT !.left = @ \ {e.id},
                           !.error = IF @ = "none" /\ e.id \in done THEN "nil" ELSE @]
NotApplied(b, e) == [b EXCEPT !.refused = @ \cup {e.id},
                              !.error = IF @ = "none" THEN "refused" ELSE @]

PipeCommand(r) ==
    /\ relay[r].at = "indexed"
    /\ \E e \in outbox :
         /\ IsNext(r, e)
         /\ \/ e.kind = "product_upserted" /\ Del(e) /\ UNCHANGED <<done, bestsellers>>
            \/ e.kind = "order_placed" /\ IncrOnce(e) /\ UNCHANGED <<cache, overtaken>>
         /\ relay' = [relay EXCEPT ![r] = Applied(relay[r], e)]
    /\ UNCHANGED <<writes, index, reading, failures>>

\* Redis answers one command with an error, and runs the next.
CommandRefused(r) ==
    /\ relay[r].at = "indexed" /\ failures < MaxFailures /\ failures' = failures + 1
    /\ relay[r].error = "nil" => MaskedRefusals
    /\ \E e \in outbox :
         IsNext(r, e) /\ relay' = [relay EXCEPT ![r] = NotApplied(relay[r], e)]
    /\ UNCHANGED <<writes, index, redis, reading>>

\* The pipeline has run.  Exec returns the first error among the answers.
Executed(r) == relay[r].at = "indexed" /\ relay[r].left = relay[r].refused

PipeFails(r) ==
    /\ Executed(r) /\ relay[r].error = "refused"
    /\ relay' = [relay EXCEPT ![r] = NoBatch]
    /\ UNCHANGED <<writes, index, redis, reading, failures>>

\* UPDATE outbox SET processed_at, COMMIT; redis.Nil is let pass.
MarkProcessed(r) ==
    /\ Executed(r) /\ relay[r].error # "refused"
    /\ outbox' = {[e EXCEPT !.processed = @ \/ e.id \in relay[r].claimed] : e \in outbox}
    /\ relay' = [relay EXCEPT ![r] = NoBatch]
    /\ UNCHANGED <<products, ordered, seq, tx, index, redis, reading, failures>>

\* Variant: the events are marked when they are claimed.
FailMarked(r) ==
    /\ relay[r].claimed # {} /\ failures < MaxFailures
    /\ outbox' = {[e EXCEPT !.processed = @ \/ e.id \in relay[r].claimed] : e \in outbox}
    /\ relay' = [relay EXCEPT ![r] = NoBatch]
    /\ failures' = failures + 1
    /\ UNCHANGED <<products, ordered, seq, tx, index, redis, reading>>

\* The batch fails between two calls, or at its COMMIT: the claims are released,
\* what was applied stays, and the loop tries again.
Fail(r) ==
    /\ relay[r].claimed # {} /\ failures < MaxFailures
    /\ relay' = [relay EXCEPT ![r] = NoBatch]
    /\ failures' = failures + 1
    /\ UNCHANGED <<writes, index, redis, reading>>

\* Stop cancels the context, whatever the batch is doing, and waits for the loop.
Stop(r) ==
    /\ relay[r].at # "stopped" /\ failures < MaxFailures
    /\ relay' = [relay EXCEPT ![r] = [NoBatch EXCEPT !.at = "stopped"]]
    /\ failures' = failures + 1
    /\ UNCHANGED <<writes, index, redis, reading>>

Start(r) ==
    /\ relay[r].at = "stopped"
    /\ relay' = [relay EXCEPT ![r] = NoBatch]
    /\ UNCHANGED <<writes, index, redis, reading, failures>>

\* EX 86400: a dedupe key goes after a day.  No batch is open for a day, and one that
\* failed is retried within a day unless the relays are down for longer.
KeyExpires ==
    /\ \E i \in done : /\ \A r \in Relay : i \notin relay[r].claimed
                       /\ i \notin {e.id : e \in Unprocessed} \/ LateRetry
                       /\ done' = done \ {i}
    /\ UNCHANGED <<writes, index, cache, bestsellers, overtaken, relay, reading, failures>>

(***************************************************************************)
(* Reads and the rebuild.                                                  *)
(***************************************************************************)
\* GetProduct: a hit returns; a miss reads PostgreSQL and then fills the cache.
CacheMiss(d, p) ==
    /\ reader[d].at = "idle" /\ cache[p] = 0 /\ products[p] > 0
    /\ reader' = [reader EXCEPT ![d] = [at |-> "missed", product |-> p]]
    /\ UNCHANGED <<writes, index, redis, relay, rebuild, rebuilds, failures>>

QueryProduct(d) ==
    /\ reader[d].at = "missed"
    /\ reader' = [reader EXCEPT ![d] =
           [at |-> "read", product |-> @.product, version |-> products[@.product]]]
    /\ UNCHANGED <<writes, index, redis, relay, rebuild, rebuilds, failures>>

\* SET with 10 minutes to live; its error is not looked at.
FillCache(d) ==
    /\ reader[d].at = "read"
    /\ LET p == reader[d].product
           v == reader[d].version IN
         \/ /\ cache' = [cache EXCEPT ![p] = v]
            /\ overtaken' = [overtaken EXCEPT ![p] = v < products[p]]
         \/ UNCHANGED <<cache, overtaken>>
    /\ reader' = [reader EXCEPT ![d] = NotReading]
    /\ UNCHANGED <<writes, index, done, bestsellers, relay, rebuild, rebuilds, failures>>

EntryExpires(p) ==
    /\ cache[p] # 0
    /\ cache' = [cache EXCEPT ![p] = 0]
    /\ overtaken' = [overtaken EXCEPT ![p] = FALSE]
    /\ UNCHANGED <<writes, index, done, bestsellers, relay, reading, failures>>

\* ES.Reset, while the relay runs on.
DropIndex ==
    /\ rebuild.at = "none" /\ rebuilds < MaxRebuilds
    /\ index' = [p \in Product |-> 0]
    /\ rebuild' = [at |-> "dropped", left |-> {}]
    /\ rebuilds' = rebuilds + 1
    /\ UNCHANGED <<writes, redis, relay, reader, failures>>

\* reindex: one SELECT, then a bulk request per chunk.
ReadProducts ==
    /\ rebuild.at = "dropped"
    /\ rebuild' = [at |-> "read",
                   left |-> {[product |-> p, n |-> products[p]] : p \in {q \in Product : products[q] > 0}}]
    /\ UNCHANGED <<writes, index, redis, relay, reader, rebuilds, failures>>

ReindexChunk ==
    /\ rebuild.at = "read"
    /\ \/ \E doc \in rebuild.left :
            /\ index' = Indexed(index, {doc})
            /\ rebuild' = [rebuild EXCEPT !.left = @ \ {doc}]
       \/ rebuild.left = {} /\ rebuild' = NoRebuild /\ UNCHANGED index
    /\ UNCHANGED <<writes, redis, relay, reader, rebuilds, failures>>

Write(c) ==
    \/ \E p \in Product : SeedProduct(c, p) \/ UpdateProduct(c, p) \/ PlaceOrder(c, p)
    \/ Commit(c) \/ Rollback(c)
RelayLoop(r) ==
    \/ Claim(r) \/ BulkIndex(r) \/ PipeCommand(r) \/ PipeFails(r) \/ MarkProcessed(r) \/ Start(r)
Outage(r) == BulkFails(r) \/ CommandRefused(r) \/ Fail(r) \/ Stop(r)
GetProduct(d) == (\E p \in Product : CacheMiss(d, p)) \/ QueryProduct(d) \/ FillCache(d)
Rebuild == DropIndex \/ ReadProducts \/ ReindexChunk
Expire == KeyExpires \/ \E p \in Product : EntryExpires(p)

Next ==
    \/ \E c \in Client : Write(c)
    \/ \E r \in Relay : RelayLoop(r) \/ Outage(r)
    \/ \E d \in Reader : GetProduct(d)
    \/ Rebuild \/ Expire

Spec == Init /\ [][Next]_vars

\* The loop of Relay.Start goes on until it is stopped, a stopped relay is started
\* again, and reindex runs to its end: some relay or the rebuild takes its next
\* step as long as there is one.  Writers and readers may stop anywhere.
FairSpec == Spec /\ WF_vars((\E r \in Relay : RelayLoop(r)) \/ ReadProducts \/ ReindexChunk)

(***************************************************************************)
(* Properties.                                                             *)
(***************************************************************************)
Pending(kind, p) == \E e \in Unprocessed : e.kind = kind /\ e.product = p

\* Elasticsearch misses no committed change and shows none that is not there,
\* whatever relays retry or overlap and whenever the index is rebuilt: without an
\* unprocessed event of a product, its document is the row.
IndexIsCurrent ==
    \A p \in Product :
        /\ index[p] <= products[p]
        /\ rebuild.at = "none" /\ ~Pending("product_upserted", p) => index[p] = products[p]

\* ZREVRANGE and GROUP BY over the orders agree when no order event is unprocessed
\* (main compares them), and the sorted set never runs ahead: batches that are
\* applied again count nothing twice.
LeaderboardExact ==
    \A p \in Product :
        /\ bestsellers[p] <= ordered[p]
        /\ ~Pending("order_placed", p) => bestsellers[p] = ordered[p]

\* A cache entry is older than the row only until the relay has invalidated it, or
\* because a reader stored what it had read before an update; never because an
\* event was skipped, however relays race.
StaleOnlyByLateFill ==
    \A p \in Product :
        cache[p] \notin {0, products[p]} => Pending("product_upserted", p) \/ overtaken[p]

\* "Derived stores can lag, but never diverge for good": through failing batches,
\* outages and rebuilds, index and leaderboard agree with PostgreSQL for good once
\* the writers have stopped, as they do here after MaxEvents.
EventuallyConsistent == <>[](index = products /\ bestsellers = ordered)
=============================================================================
