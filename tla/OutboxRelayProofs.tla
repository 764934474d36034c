-------------------------- MODULE OutboxRelayProofs --------------------------
(***************************************************************************)
(* Proofs about OutboxRelay, for every set of products, writers, relays and *)
(* readers, every batch size and every bound: types, the search index, the  *)
(* leaderboard and the cache.                                               *)
(***************************************************************************)
EXTENDS OutboxRelay, FiniteSetTheorems, WellFoundedInduction, TLAPS

(***************************************************************************)
(* The inductive invariant.                                                *)
(***************************************************************************)
Tx == {NoTx} \cup [kind : Kind, product : Product, n : Nat, id : 1..MaxEvents]
Batches == [at : {"idle", "stopped", "claimed", "indexed"},
            claimed : SUBSET (1..MaxEvents), left : SUBSET (1..MaxEvents),
            refused : SUBSET (1..MaxEvents), error : {"none", "nil", "refused"}]
Reading == {NotReading} \cup [at : {"missed"}, product : Product]
                        \cup [at : {"read"}, product : Product, version : Nat]
Doc == [product : Product, n : Nat]

\* The types that TypeOK leaves to the actions.
Types ==
    /\ TypeOK
    /\ tx \in [Client -> Tx]
    /\ relay \in [Relay -> Batches]
    /\ reader \in [Reader -> Reading]
    /\ rebuild \in [at : {"none", "dropped", "read"}, left : SUBSET Doc]
    /\ overtaken \in [Product -> BOOLEAN]

IsUpsert(e) == e.kind = "product_upserted"
IsOrder(e) == e.kind = "order_placed"

\* An id of the outbox is in use once, and only unprocessed rows are claimed.
IdsUnique ==
    /\ \A e \in outbox : e.id <= seq
    /\ \A c \in Client : tx[c] # NoTx =>
         /\ tx[c].id <= seq
         /\ \A e \in outbox : e.id # tx[c].id
         /\ \A d \in Client \ {c} : tx[d] # NoTx => tx[d].id # tx[c].id
    /\ \A r \in Relay : \A i \in relay[r].claimed : \E e \in Unprocessed : e.id = i

\* What a row says: an order counts one unit, an upsert is a version of its product;
\* the row of a product is the version of the newest upsert, and the transaction that
\* holds its lock writes the next one.
Rows ==
    /\ \A e \in outbox : /\ IsOrder(e) => e.n = 1
                         /\ IsUpsert(e) => e.n \in 1..products[e.product]
    /\ \A p \in Product : products[p] > 0 =>
         \E e \in outbox : IsUpsert(e) /\ e.product = p /\ e.n = products[p]
    /\ \A c \in Client : tx[c] # NoTx =>
         /\ IsOrder(tx[c]) => tx[c].n = 1
         /\ IsUpsert(tx[c]) =>
              /\ tx[c].n = products[tx[c].product] + 1
              /\ \A d \in Client \ {c} : tx[d] # NoTx /\ IsUpsert(tx[d]) =>
                   tx[d].product # tx[c].product

\* Nothing outside PostgreSQL is ahead of it.
Behind ==
    /\ \A p \in Product : index[p] <= products[p]
    /\ \A doc \in rebuild.left : doc.n <= products[doc.product]
    /\ \A d \in Reader : reader[d].at = "read" => reader[d].version <= products[reader[d].product]

TInv == Types /\ IdsUnique /\ Rows /\ Behind

\* A relay has sent the event to Elasticsearch, and has not given the batch up.
Sent(e) == e.processed \/ \E r \in Relay : relay[r].at = "indexed" /\ e.id \in relay[r].claimed

\* What was sent is in the index, or in what the rebuild has read, unless the index has
\* just been dropped.
Shown(e) ==
    \/ e.n <= index[e.product]
    \/ \E doc \in rebuild.left : doc.product = e.product /\ e.n <= doc.n

IndexInv ==
    /\ rebuild.at \in {"none", "dropped"} => rebuild.left = {}
    /\ rebuild.at # "dropped" => \A e \in outbox : IsUpsert(e) /\ Sent(e) => Shown(e)

\* The orders that Redis has still to count.
Uncounted(p) ==
    {i \in 1..MaxEvents \ done : \E e \in Unprocessed : e.id = i /\ IsOrder(e) /\ e.product = p}

\* Every unit ordered has been counted or will be; keys belong to orders, and an order
\* that a batch has applied has its key.
CountInv ==
    /\ \A p \in Product : bestsellers[p] + Cardinality(Uncounted(p)) = ordered[p]
    /\ \A i \in done : \E e \in outbox : e.id = i /\ IsOrder(e)
    /\ \A r \in Relay : \A e \in outbox :
         IsOrder(e) /\ e.id \in relay[r].claimed \ relay[r].left => e.id \in done

\* An upsert that a cache entry does not show will still invalidate it, unless the
\* entry was old when it was stored.
Invalidates(e) ==
    /\ ~e.processed
    /\ \A r \in Relay : e.id \in relay[r].claimed => e.id \in relay[r].left

CacheInv ==
    \A p \in Product :
        /\ cache[p] <= products[p]
        /\ cache[p] # 0 /\ ~overtaken[p] =>
             \A e \in outbox : IsUpsert(e) /\ e.product = p /\ e.n > cache[p] => Invalidates(e)

\* A batch that Redis has refused a command is not marked.
Unmasked == \A r \in Relay : relay[r].error # "refused" => relay[r].refused = {}
-----------------------------------------------------------------------------
(***************************************************************************)
(* The operators of the search index.                                      *)
(***************************************************************************)
\* A bounded set of naturals that has an element has a greatest one, and Max is it.
LEMMA MaxOfNats ==
    ASSUME NEW S \in SUBSET Nat, S # {}, NEW n \in Nat, \A x \in S : x <= n
    PROVE  Max(S) \in S /\ \A x \in S : x <= Max(S)
<1> DEFINE U == {u \in Nat : \A x \in S : x <= u}
           LessThan == OpToRel(<, Nat)
<1>1. U \subseteq Nat /\ U # {}
  OBVIOUS
<1>2. IsWellFoundedOn(LessThan, Nat)
  BY NatLessThanWellFounded
<1> HIDE DEF LessThan
<1>3. PICK u \in U : \A v \in U : <<v, u>> \notin LessThan
  BY <1>1, <1>2, WFMin, Zenon
<1>4. \A v \in U : ~(v < u)
  BY <1>1, <1>3 DEF OpToRel, LessThan
<1>5. u \in S
  <2> SUFFICES ASSUME u \notin S PROVE FALSE
    OBVIOUS
  <2>1. \A x \in S : x <= u - 1
    OBVIOUS
  <2>2. u # 0
    <3>1. PICK x \in S : x \in Nat
      OBVIOUS
    <3> QED BY <2>1, <3>1
  <2>3. u - 1 \in U
    BY <2>1, <2>2
  <2> QED BY <1>4, <2>3
<1>6. \E x \in S : \A y \in S : x >= y
  BY <1>5
<1> HIDE DEF U
<1>7. Max(S) \in S /\ \A y \in S : Max(S) >= y
  BY <1>6 DEF Max
<1> QED BY <1>7

\* BulkIndex takes documents forward only, at least to what was sent, and no further
\* than PostgreSQL if neither the index nor what was sent is.
LEMMA IndexedForward ==
    ASSUME NEW rows \in [Product -> Nat], NEW old \in [Product -> Nat], NEW docs,
           \A p \in Product : old[p] <= rows[p],
           \A d \in docs : d.product \in Product /\ d.n \in Nat /\ d.n <= rows[d.product]
    PROVE  /\ Indexed(old, docs) \in [Product -> Nat]
           /\ \A p \in Product : /\ old[p] <= Indexed(old, docs)[p]
                                 /\ Indexed(old, docs)[p] <= rows[p]
           /\ \A d \in docs : d.n <= Indexed(old, docs)[d.product]
<1> DEFINE versions(p) == {old[p]} \cup {d.n : d \in {x \in docs : x.product = p}}
<1>1. ASSUME NEW p \in Product
      PROVE  /\ Max(versions(p)) \in versions(p)
             /\ \A x \in versions(p) : x <= Max(versions(p))
             /\ versions(p) \subseteq Nat /\ \A x \in versions(p) : x <= rows[p]
  <2>1. versions(p) \in SUBSET Nat /\ versions(p) # {} /\ rows[p] \in Nat
    OBVIOUS
  <2>2. \A x \in versions(p) : x <= rows[p]
    OBVIOUS
  <2> HIDE DEF versions
  <2> QED BY <2>1, <2>2, MaxOfNats
<1>2. Indexed(old, docs) = [p \in Product |-> Max(versions(p))]
  BY DEF Indexed
<1>3. \A p \in Product : old[p] \in versions(p)
  OBVIOUS
<1>4. \A d \in docs : d.n \in versions(d.product)
  OBVIOUS
<1> HIDE DEF versions
<1> QED BY <1>1, <1>2, <1>3, <1>4
-----------------------------------------------------------------------------
(***************************************************************************)
(* Types, ids and rows.                                                    *)
(***************************************************************************)
\* An open transaction has an event.
LEMMA TxTyped ==
    ASSUME Types, NEW c \in Client, tx[c] # NoTx
    PROVE  /\ tx[c].kind \in Kind /\ tx[c].product \in Product
           /\ tx[c].n \in Nat /\ tx[c].id \in 1..MaxEvents
BY DEF Types, Tx

\* All but the flag.
SameRow(f, e) == f.id = e.id /\ f.kind = e.kind /\ f.product = e.product /\ f.n = e.n

\* Marking a batch changes the processed flag of its rows and nothing else.
LEMMA MarkedRows ==
    ASSUME Types, NEW r \in Relay, MarkProcessed(r)
    PROVE  /\ outbox' \subseteq Event
           /\ \A f \in outbox' : \E e \in outbox :
                SameRow(f, e) /\ (f.processed <=> e.processed \/ e.id \in relay[r].claimed)
           /\ \A e \in outbox : \E f \in outbox' : SameRow(f, e)
           /\ \A f, g \in outbox' : f.id = g.id => f = g
           /\ Unprocessed' = {e \in Unprocessed : e.id \notin relay[r].claimed}
<1> DEFINE K == relay[r].claimed
           M(e) == [id |-> e.id, kind |-> e.kind, product |-> e.product, n |-> e.n,
                    processed |-> e.processed \/ e.id \in K]
           X(e) == [e EXCEPT !.processed = @ \/ e.id \in K]
<1>0. outbox' = {X(e) : e \in outbox}
  BY DEF MarkProcessed
<1> HIDE DEF K
<1>1. outbox \subseteq Event /\ \A e, f \in outbox : e.id = f.id => e = f
  BY DEF Types, TypeOK
<1>2. ASSUME NEW e \in outbox
      PROVE  X(e) = M(e)
  <2> DEFINE b == e.processed \/ e.id \in K
  <2>1. \A v : [e EXCEPT !.processed = v]
              = [id |-> e.id, kind |-> e.kind, product |-> e.product, n |-> e.n, processed |-> v]
    BY <1>1 DEF Event
  <2>2. [e EXCEPT !.processed = b]
        = [id |-> e.id, kind |-> e.kind, product |-> e.product, n |-> e.n, processed |-> b]
    BY <2>1
  <2> QED BY <2>2
<1>3. outbox' = {M(e) : e \in outbox}
  <2> HIDE DEF X, M
  <2> QED BY <1>0, <1>2
<1>4. \A e \in outbox : SameRow(M(e), e)
  BY DEF SameRow
<1>5. \A e \in outbox : M(e).processed <=> e.processed \/ e.id \in K
  OBVIOUS
<1>6. ASSUME NEW e \in outbox PROVE M(e) \in Event
  <2>1. (e.processed \/ e.id \in K) \in BOOLEAN
    OBVIOUS
  <2>2. e.id \in 1..MaxEvents /\ e.kind \in Kind /\ e.product \in Product /\ e.n \in Nat
    BY <1>1 DEF Event
  <2> QED BY <2>1, <2>2 DEF Event
<1>7. ASSUME NEW e \in outbox, ~e.processed, e.id \notin K PROVE M(e) = e
  <2>1. e \in Event
    BY <1>1
  <2>2. e = [id |-> e.id, kind |-> e.kind, product |-> e.product, n |-> e.n, processed |-> e.processed]
    BY <2>1 DEF Event
  <2>3. (e.processed \/ e.id \in K) = e.processed
    BY <1>7, <2>1 DEF Event
  <2> QED BY <2>2, <2>3
<1> HIDE DEF M
<1>8. Unprocessed' = {e \in Unprocessed : e.id \notin K}
  <2>1. \A f : f \in Unprocessed' <=> \E e \in outbox : f = M(e) /\ ~M(e).processed
    BY <1>3 DEF Unprocessed
  <2>2. \A e \in outbox : ~M(e).processed <=> e \in Unprocessed /\ e.id \notin K
    BY <1>5 DEF Unprocessed
  <2>3. \A e \in outbox : ~M(e).processed => M(e) = e
    BY <1>5, <1>7
  <2>4. Unprocessed \subseteq outbox
    BY DEF Unprocessed
  <2> QED BY <2>1, <2>2, <2>3, <2>4
<1>9. outbox' \subseteq Event /\ \A f, g \in outbox' : f.id = g.id => f = g
  BY <1>1, <1>3, <1>4, <1>6 DEF SameRow
<1>10. /\ \A f \in outbox' : \E e \in outbox :
            SameRow(f, e) /\ (f.processed <=> e.processed \/ e.id \in K)
       /\ \A e \in outbox : \E f \in outbox' : SameRow(f, e)
  BY <1>3, <1>4, <1>5
<1> QED BY <1>8, <1>9, <1>10 DEF K

\* Beginning a transaction with the next id.
LEMMA EmitTInv ==
    ASSUME TInv, NEW c \in Client, NEW p \in Product, NEW kind \in Kind, NEW n \in Nat,
           Emit(c, kind, p, n),
           kind = "order_placed" => n = 1,
           kind = "product_upserted" => n = products[p] + 1 /\ ~Locked(p)
    PROVE  TInv'
<1> DEFINE new == [kind |-> kind, product |-> p, n |-> n, id |-> seq + 1]
<1>1. /\ tx[c] = NoTx /\ seq < MaxEvents /\ seq' = seq + 1
      /\ tx' = [tx EXCEPT ![c] = new]
      /\ UNCHANGED <<products, ordered, outbox, index, cache, done, bestsellers, overtaken,
                     relay, reader, rebuild, rebuilds, failures>>
  BY DEF Emit, redis, reading
<1>2. seq \in Nat /\ seq + 1 \in 1..MaxEvents /\ seq' \in 0..MaxEvents
  BY <1>1, RelayAssumption DEF TInv, Types, TypeOK
<1>3. new \in Tx /\ new # NoTx
  BY <1>2 DEF Tx, NoTx, Kind
<1>4. new.id = seq + 1 /\ new.kind = kind /\ new.product = p /\ new.n = n
  OBVIOUS
<1> HIDE DEF new
<1>5. \A d \in Client : tx'[d] = IF d = c THEN new ELSE tx[d]
  BY <1>1 DEF TInv, Types
<1>6. tx' \in [Client -> Tx]
  BY <1>1, <1>3 DEF TInv, Types
<1>7. Types'
  BY <1>1, <1>2, <1>6 DEF TInv, Types, TypeOK
<1>8. \A e \in outbox : e.id \in Nat /\ e.id <= seq
  BY DEF TInv, Types, TypeOK, IdsUnique, Event
<1>9. ASSUME NEW d \in Client, d # c, tx[d] # NoTx
      PROVE  tx[d].id \in Nat /\ tx[d].id <= seq
  BY <1>9, TxTyped DEF TInv, IdsUnique
<1>10. IdsUnique'
  <2>1. \A e \in outbox' : e.id <= seq'
    BY <1>1, <1>2, <1>8
  <2>2. ASSUME NEW d \in Client, tx'[d] # NoTx
        PROVE  /\ tx'[d].id <= seq'
               /\ \A e \in outbox' : e.id # tx'[d].id
               /\ \A b \in Client \ {d} : tx'[b] # NoTx => tx'[b].id # tx'[d].id
    <3>1. CASE d = c
      BY <1>1, <1>2, <1>4, <1>5, <1>8, <1>9, <3>1
    <3>2. CASE d # c
      <4>1. tx'[d] = tx[d] /\ tx[d] # NoTx
        BY <1>5, <2>2, <3>2
      <4>2. tx[d].id \in Nat /\ tx[d].id <= seq
        BY <1>9, <3>2, <4>1
      <4>3. /\ \A e \in outbox : e.id # tx[d].id
            /\ \A b \in Client \ {d} : tx[b] # NoTx => tx[b].id # tx[d].id
        BY <4>1 DEF TInv, IdsUnique
      <4> QED BY <1>1, <1>2, <1>4, <1>5, <4>1, <4>2, <4>3
    <3> QED BY <3>1, <3>2
  <2>3. \A r \in Relay : \A i \in relay'[r].claimed : \E e \in Unprocessed' : e.id = i
    BY <1>1 DEF TInv, IdsUnique, Unprocessed
  <2> QED BY <2>1, <2>2, <2>3 DEF IdsUnique
<1>11. Rows'
  <2>1. ASSUME NEW d \in Client, tx'[d] # NoTx
        PROVE  /\ IsOrder(tx'[d]) => tx'[d].n = 1
               /\ IsUpsert(tx'[d]) =>
                    /\ tx'[d].n = products[tx'[d].product] + 1
                    /\ \A b \in Client \ {d} : tx'[b] # NoTx /\ IsUpsert(tx'[b]) =>
                         tx'[b].product # tx'[d].product
    <3>1. \A b \in Client : b # c => tx'[b] = tx[b]
      BY <1>5
    <3>2. tx'[c] = new
      BY <1>5
    <3>3. kind = "product_upserted" =>
            \A b \in Client : tx[b] # NoTx /\ IsUpsert(tx[b]) => tx[b].product # p
      BY DEF Locked, IsUpsert
    <3>4. CASE d = c
      BY <1>4, <3>1, <3>2, <3>3, <3>4 DEF IsOrder, IsUpsert
    <3>5. CASE d # c
      BY <1>4, <2>1, <3>1, <3>2, <3>3, <3>5 DEF TInv, Rows, IsOrder, IsUpsert
    <3> QED BY <3>4, <3>5
  <2> QED BY <1>1, <2>1 DEF TInv, Rows
<1> QED BY <1>1, <1>7, <1>10, <1>11 DEF TInv, Behind

\* A commit publishes a row and its event; the lock it gives up was its own.
LEMMA CommitTInv ==
    ASSUME TInv, NEW c \in Client, Commit(c)
    PROVE  /\ TInv'
           /\ \A p \in Product : products[p] <= products'[p]
           /\ \E new \in outbox' :
                /\ outbox' = outbox \cup {new} /\ ~new.processed
                /\ \A e \in outbox : e.id # new.id
                /\ IsUpsert(new) => ordered' = ordered
                /\ IsOrder(new) => ordered' = [ordered EXCEPT ![new.product] = @ + 1]
<1> DEFINE p == tx[c].product
           new == [id |-> tx[c].id, kind |-> tx[c].kind, product |-> p,
                   n |-> tx[c].n, processed |-> FALSE]
<1>1. /\ tx[c] # NoTx /\ outbox' = outbox \cup {new} /\ tx' = [tx EXCEPT ![c] = NoTx]
      /\ IF tx[c].kind = "product_upserted"
         THEN products' = [products EXCEPT ![p] = tx[c].n] /\ UNCHANGED ordered
         ELSE ordered' = [ordered EXCEPT ![p] = @ + tx[c].n] /\ UNCHANGED products
      /\ UNCHANGED <<seq, index, cache, done, bestsellers, overtaken,
                     relay, reader, rebuild, rebuilds, failures>>
  BY DEF Commit, redis, reading
<1>2. tx[c].kind \in Kind /\ p \in Product /\ tx[c].n \in Nat /\ tx[c].id \in 1..MaxEvents
  BY <1>1, TxTyped DEF TInv
<1>3. /\ new \in Event /\ new.id = tx[c].id /\ new.kind = tx[c].kind /\ new.product = p
      /\ new.n = tx[c].n /\ ~new.processed
  BY <1>2 DEF Event
<1>4. tx[c].id <= seq /\ \A e \in outbox : e.id # tx[c].id
  BY <1>1 DEF TInv, IdsUnique
<1> HIDE DEF new, p
<1>5. products \in [Product -> Nat] /\ ordered \in [Product -> Nat]
  BY DEF TInv, Types, TypeOK
<1>6. products' \in [Product -> Nat] /\ ordered' \in [Product -> Nat]
  BY <1>1, <1>2, <1>5
<1>7. \A d \in Client : tx'[d] = IF d = c THEN NoTx ELSE tx[d]
  BY <1>1 DEF TInv, Types
<1>8. tx' \in [Client -> Tx]
  BY <1>1 DEF TInv, Types, Tx
<1>9. Types'
  BY <1>1, <1>3, <1>4, <1>6, <1>8 DEF TInv, Types, TypeOK
<1>10. Unprocessed' = Unprocessed \cup {new}
  BY <1>1, <1>3 DEF Unprocessed
<1>11. IdsUnique'
  <2>1. \A e \in outbox' : e.id <= seq'
    BY <1>1, <1>3, <1>4 DEF TInv, IdsUnique
  <2>2. ASSUME NEW d \in Client, tx'[d] # NoTx
        PROVE  /\ tx'[d].id <= seq'
               /\ \A e \in outbox' : e.id # tx'[d].id
               /\ \A b \in Client \ {d} : tx'[b] # NoTx => tx'[b].id # tx'[d].id
    <3>1. d # c /\ tx'[d] = tx[d] /\ tx[d] # NoTx
      BY <1>7, <2>2
    <3>2. /\ tx[d].id <= seq /\ \A e \in outbox : e.id # tx[d].id
          /\ \A b \in Client \ {d} : tx[b] # NoTx => tx[b].id # tx[d].id
      BY <3>1 DEF TInv, IdsUnique
    <3> QED BY <1>1, <1>3, <1>7, <3>1, <3>2
  <2>3. \A r \in Relay : \A i \in relay'[r].claimed : \E e \in Unprocessed' : e.id = i
    BY <1>1, <1>10 DEF TInv, IdsUnique
  <2> QED BY <2>1, <2>2, <2>3 DEF IdsUnique
<1>12. /\ IsOrder(new) => new.n = 1
       /\ IsUpsert(new) => new.n = products[p] + 1 /\ new.n = products'[p] /\ new.n \in 1..products'[p]
  <2>1. IsUpsert(new) => new.n = products[p] + 1 /\ products' = [products EXCEPT ![p] = new.n]
    BY <1>1, <1>3 DEF TInv, Rows, IsUpsert, p
  <2>2. IsOrder(new) => new.n = 1
    BY <1>1, <1>3 DEF TInv, Rows, IsOrder
  <2> QED BY <1>2, <1>5, <2>1, <2>2
<1>13. /\ \A q \in Product : products[q] <= products'[q]
       /\ \A q \in Product : q # p => products'[q] = products[q]
       /\ ~IsUpsert(new) => products' = products
  <2>1. CASE IsUpsert(new)
    BY <1>1, <1>2, <1>3, <1>5, <1>12, <2>1 DEF IsUpsert
  <2>2. CASE ~IsUpsert(new)
    BY <1>1, <1>3, <1>5, <2>2 DEF IsUpsert
  <2> QED BY <2>1, <2>2
<1>14. Rows'
  <2>1. ASSUME NEW e \in outbox'
        PROVE  /\ IsOrder(e) => e.n = 1
               /\ IsUpsert(e) => e.n \in 1..products'[e.product]
    <3>1. CASE e = new
      BY <1>3, <1>12, <3>1
    <3>2. CASE e \in outbox
      <4>1. e.product \in Product /\ (IsUpsert(e) => e.n \in 1..products[e.product]) /\ (IsOrder(e) => e.n = 1)
        BY <3>2 DEF TInv, Types, TypeOK, Event, Rows
      <4> QED BY <1>5, <1>6, <1>13, <4>1
    <3> QED BY <1>1, <2>1, <3>1, <3>2
  <2>2. ASSUME NEW q \in Product, products'[q] > 0
        PROVE  \E e \in outbox' : IsUpsert(e) /\ e.product = q /\ e.n = products'[q]
    <3>1. CASE q = p /\ IsUpsert(new)
      BY <1>1, <1>3, <1>12, <3>1
    <3>2. CASE ~(q = p /\ IsUpsert(new))
      <4>1. products'[q] = products[q]
        BY <1>13, <3>2
      <4> QED BY <1>1, <2>2, <4>1 DEF TInv, Rows
    <3> QED BY <3>1, <3>2
  <2>3. ASSUME NEW d \in Client, tx'[d] # NoTx
        PROVE  /\ IsOrder(tx'[d]) => tx'[d].n = 1
               /\ IsUpsert(tx'[d]) =>
                    /\ tx'[d].n = products'[tx'[d].product] + 1
                    /\ \A b \in Client \ {d} : tx'[b] # NoTx /\ IsUpsert(tx'[b]) =>
                         tx'[b].product # tx'[d].product
    <3>1. d # c /\ tx'[d] = tx[d] /\ tx[d] # NoTx
      BY <1>7, <2>3
    <3>2. /\ IsOrder(tx[d]) => tx[d].n = 1
          /\ IsUpsert(tx[d]) =>
               /\ tx[d].n = products[tx[d].product] + 1
               /\ \A b \in Client \ {d} : tx[b] # NoTx /\ IsUpsert(tx[b]) =>
                    tx[b].product # tx[d].product
      BY <3>1 DEF TInv, Rows
    <3>3. IsUpsert(tx[d]) /\ IsUpsert(new) => tx[d].product # p
      BY <1>1, <1>3, <3>1, <3>2 DEF p, IsUpsert
    <3>4. tx[d].product \in Product
      BY <3>1, TxTyped DEF TInv
    <3>5. IsUpsert(tx[d]) => products'[tx[d].product] = products[tx[d].product]
      BY <1>13, <3>3, <3>4
    <3> QED BY <1>7, <3>1, <3>2, <3>5
  <2> QED BY <2>1, <2>2, <2>3 DEF Rows
<1>15. Behind'
  <2>1. \A q \in Product : index[q] \in Nat /\ products[q] \in Nat /\ products'[q] \in Nat
    BY <1>5, <1>6 DEF TInv, Types, TypeOK
  <2>2. \A doc \in rebuild.left : doc.product \in Product /\ doc.n \in Nat
    BY DEF TInv, Types, Doc
  <2>3. \A d \in Reader : reader[d].at = "read" => reader[d].product \in Product /\ reader[d].version \in Nat
    BY DEF TInv, Types, Reading, NotReading
  <2> QED BY <1>1, <1>13, <2>1, <2>2, <2>3 DEF TInv, Behind
<1>16. /\ IsUpsert(new) => ordered' = ordered
       /\ IsOrder(new) => ordered' = [ordered EXCEPT ![new.product] = @ + 1]
  BY <1>1, <1>3, <1>12 DEF IsUpsert, IsOrder
<1>17. new \in outbox'
  BY <1>1
<1> QED BY <1>1, <1>3, <1>4, <1>9, <1>11, <1>13, <1>14, <1>15, <1>16, <1>17 DEF TInv
\* A relay takes another batch of unprocessed events that nobody else has, or gives one
\* up, and applies it to the stores without overtaking PostgreSQL.
LEMMA RelayTInv ==
    ASSUME TInv, NEW r \in Relay, NEW b \in Batches, relay' = [relay EXCEPT ![r] = b],
           b.left \subseteq b.claimed, b.refused \subseteq b.left,
           \A i \in b.claimed : \E e \in Unprocessed : e.id = i,
           \A s \in Relay \ {r} : b.claimed \cap relay[s].claimed = {},
           UNCHANGED <<products, ordered, outbox, seq, tx, reader, rebuild, rebuilds>>,
           failures' \in 0..MaxFailures,
           index' \in [Product -> Nat], \A p \in Product : index'[p] <= products[p],
           cache' \in [Product -> Nat], overtaken' \in [Product -> BOOLEAN],
           done' \subseteq 1..MaxEvents, bestsellers' \in [Product -> Nat]
    PROVE  TInv'
<1>1. relay' \in [Relay -> Batches] /\ \A s \in Relay : relay'[s] = IF s = r THEN b ELSE relay[s]
  BY DEF TInv, Types
<1>2. \A s \in Relay : /\ relay'[s].at \in {"idle", "stopped", "claimed", "indexed"}
                       /\ relay'[s].left \subseteq relay'[s].claimed
                       /\ relay'[s].refused \subseteq relay'[s].left
  BY <1>1 DEF TInv, Types, TypeOK, Batches
<1>3. \A s \in Relay : \A t \in Relay \ {s} : relay'[s].claimed \cap relay'[t].claimed = {}
  BY <1>1 DEF TInv, Types, TypeOK
<1>4. \A s \in Relay : \A i \in relay'[s].claimed : \E e \in Unprocessed' : e.id = i
  BY <1>1 DEF TInv, IdsUnique, Unprocessed
<1>5. Types'
  BY <1>1, <1>2, <1>3 DEF TInv, Types, TypeOK
<1>6. IdsUnique'
  BY <1>4 DEF TInv, IdsUnique
<1> QED BY <1>5, <1>6 DEF TInv, Rows, Behind

\* A batch without events.
Empty(b) == b \in Batches /\ b.claimed = {} /\ b.left = {} /\ b.refused = {} /\ b.error = "none"

\* The empty batch, and the same batch at another point.
LEMMA BatchTyped ==
    ASSUME TInv, NEW r \in Relay
    PROVE  /\ Empty(NoBatch) /\ NoBatch.at = "idle"
           /\ Empty([NoBatch EXCEPT !.at = "stopped"])
           /\ [relay[r] EXCEPT !.at = "indexed"] =
                [at |-> "indexed", claimed |-> relay[r].claimed, left |-> relay[r].left,
                 refused |-> relay[r].refused, error |-> relay[r].error]
<1>1. relay[r] \in Batches
  BY DEF TInv, Types
<1>2. Empty(NoBatch) /\ NoBatch.at = "idle"
  BY DEF Batches, NoBatch, Batch, Empty
<1>3. Empty([NoBatch EXCEPT !.at = "stopped"])
  BY DEF Batches, NoBatch, Batch, Empty
<1> QED BY <1>1, <1>2, <1>3 DEF Batches

\* A command of the pipeline, applied or refused, in the batch.
LEMMA AnswerTyped ==
    ASSUME TInv, NEW r \in Relay, NEW e, e.id \in relay[r].left
    PROVE  /\ \E b \in Batches :
                /\ Applied(relay[r], e) = b /\ b.at = relay[r].at
                /\ b.claimed = relay[r].claimed /\ b.left = relay[r].left \ {e.id}
                /\ b.refused = relay[r].refused
                /\ b.error = relay[r].error \/ (relay[r].error = "none" /\ b.error = "nil")
           /\ \E b \in Batches :
                /\ NotApplied(relay[r], e) = b /\ b.at = relay[r].at
                /\ b.claimed = relay[r].claimed /\ b.left = relay[r].left
                /\ b.refused = relay[r].refused \cup {e.id}
                /\ relay[r].error # "nil" => b.error = "refused"
<1>1. /\ relay[r] \in Batches /\ relay[r].error \in {"none", "nil", "refused"}
      /\ relay[r].left \in SUBSET (1..MaxEvents) /\ e.id \in 1..MaxEvents
  BY DEF TInv, Types, Batches
<1>2. relay[r] = [at |-> relay[r].at, claimed |-> relay[r].claimed, left |-> relay[r].left,
                  refused |-> relay[r].refused, error |-> relay[r].error]
  BY <1>1 DEF Batches
<1>3. PICK x : x = IF relay[r].error = "none" /\ e.id \in done THEN "nil" ELSE relay[r].error
  OBVIOUS
<1>4. PICK y : y = IF relay[r].error = "none" THEN "refused" ELSE relay[r].error
  OBVIOUS
<1> DEFINE a == [at |-> relay[r].at, claimed |-> relay[r].claimed,
                 left |-> relay[r].left \ {e.id}, refused |-> relay[r].refused, error |-> x]
           n == [at |-> relay[r].at, claimed |-> relay[r].claimed, left |-> relay[r].left,
                 refused |-> relay[r].refused \cup {e.id}, error |-> y]
<1>5. Applied(relay[r], e) = a
  <2>1. PICK m : m = [relay[r] EXCEPT !.left = @ \ {e.id}]
    OBVIOUS
  <2>2. Applied(relay[r], e) = [m EXCEPT !.error = x]
    BY <1>3, <2>1 DEF Applied
  <2>3. m = [at |-> relay[r].at, claimed |-> relay[r].claimed, left |-> relay[r].left \ {e.id},
             refused |-> relay[r].refused, error |-> relay[r].error]
    BY <1>2, <2>1
  <2> QED BY <2>2, <2>3
<1>6. NotApplied(relay[r], e) = n
  <2>1. PICK m : m = [relay[r] EXCEPT !.refused = @ \cup {e.id}]
    OBVIOUS
  <2>2. NotApplied(relay[r], e) = [m EXCEPT !.error = y]
    BY <1>4, <2>1 DEF NotApplied
  <2>3. m = [at |-> relay[r].at, claimed |-> relay[r].claimed, left |-> relay[r].left,
             refused |-> relay[r].refused \cup {e.id}, error |-> relay[r].error]
    BY <1>2, <2>1
  <2> QED BY <2>2, <2>3
<1>7. x \in {"none", "nil", "refused"} /\ y \in {"none", "nil", "refused"}
  BY <1>1, <1>3, <1>4
<1>8. a \in Batches /\ n \in Batches
  BY <1>1, <1>7 DEF Batches
<1>9. /\ x = relay[r].error \/ (relay[r].error = "none" /\ x = "nil")
      /\ relay[r].error # "nil" => y = "refused"
  BY <1>1, <1>3, <1>4
<1> QED BY <1>5, <1>6, <1>8, <1>9

\* What a batch has to index are events, none ahead of its row.
LEMMA DocsTyped ==
    ASSUME TInv, NEW r \in Relay
    PROVE  \A d \in Docs(r) : /\ d \in outbox /\ IsUpsert(d)
                              /\ d.product \in Product /\ d.n \in Nat
                              /\ d.n <= products[d.product]
<1>1. ASSUME NEW d \in Docs(r)
      PROVE  d \in outbox /\ IsUpsert(d) /\ d.product \in Product /\ d.n \in Nat
  BY <1>1 DEF Docs, IsUpsert, TInv, Types, TypeOK, Event
<1>2. \A d \in Docs(r) : d.n \in 1..products[d.product] /\ products[d.product] \in Nat
  BY <1>1 DEF TInv, Rows, Types, TypeOK
<1> QED BY <1>1, <1>2

\* Indexing any of them takes the index forward, to them at least and not past its rows.
LEMMA DocsForward ==
    ASSUME TInv, NEW r \in Relay, NEW items \in SUBSET Docs(r)
    PROVE  /\ Indexed(index, items) \in [Product -> Nat]
           /\ \A p \in Product : /\ index[p] <= Indexed(index, items)[p]
                                 /\ Indexed(index, items)[p] <= products[p]
           /\ \A d \in items : d.n <= Indexed(index, items)[d.product]
<1>1. index \in [Product -> Nat] /\ products \in [Product -> Nat]
  BY DEF TInv, Types, TypeOK
<1>2. \A p \in Product : index[p] <= products[p]
  BY DEF TInv, Behind
<1>3. \A d \in items : d.product \in Product /\ d.n \in Nat /\ d.n <= products[d.product]
  BY DocsTyped
<1> QED BY <1>1, <1>2, <1>3, IndexedForward

\* Every step of a relay, its batch and what it leaves of it.
LEMMA RelayStep ==
    ASSUME TInv, NEW r \in Relay
    PROVE  /\ Claim(r) => TInv' /\ UNCHANGED <<writes, index, redis, reading>>
                          /\ relay'[r].left = relay'[r].claimed /\ relay'[r].at = "claimed"
                          /\ relay'[r].refused = {}
                          /\ \A s \in Relay \ {r} : relay'[s] = relay[s]
           /\ BulkIndex(r) => TInv' /\ relay'[r].left = relay[r].left
                              /\ relay'[r].claimed = relay[r].claimed /\ relay'[r].at = "indexed"
                              /\ relay'[r].refused = relay[r].refused
                              /\ relay'[r].error = relay[r].error
                              /\ \A s \in Relay \ {r} : relay'[s] = relay[s]
           /\ BulkFails(r) \/ PipeFails(r) \/ Fail(r) \/ Stop(r) \/ Start(r) =>
                /\ TInv' /\ UNCHANGED <<writes, redis, reading>>
                /\ \A p \in Product : index[p] <= index'[p]
                /\ Empty(relay'[r]) /\ \A s \in Relay \ {r} : relay'[s] = relay[s]
<1>1. /\ index \in [Product -> Nat] /\ cache \in [Product -> Nat] /\ done \subseteq 1..MaxEvents
      /\ bestsellers \in [Product -> Nat] /\ overtaken \in [Product -> BOOLEAN]
      /\ failures \in 0..MaxFailures /\ relay \in [Relay -> Batches]
      /\ \A p \in Product : index[p] \in Nat /\ index[p] <= products[p]
  BY DEF TInv, Types, TypeOK, Behind
<1>2. ASSUME Claim(r)
      PROVE  /\ TInv' /\ UNCHANGED <<writes, index, redis, reading>>
             /\ relay'[r].left = relay'[r].claimed /\ relay'[r].at = "claimed"
             /\ relay'[r].refused = {}
             /\ \A s \in Relay \ {r} : relay'[s] = relay[s]
  <2> DEFINE free == {e.id : e \in Unprocessed} \ UNION {relay[s].claimed : s \in Relay}
             batch == {i \in free : Cardinality({j \in free : j < i}) < BatchSize}
             b == Batch("claimed", batch)
  <2>1. relay' = [relay EXCEPT ![r] = b] /\ UNCHANGED <<writes, index, redis, reading, failures>>
    BY <1>2 DEF Claim
  <2>2. batch \subseteq free
    OBVIOUS
  <2>3. \A i \in free : \E e \in Unprocessed : e.id = i
    OBVIOUS
  <2>4. \A s \in Relay : free \cap relay[s].claimed = {}
    OBVIOUS
  <2>5. free \subseteq 1..MaxEvents
    BY DEF TInv, Types, TypeOK, Unprocessed, Event
  <2> HIDE DEF free, batch
  <2>6. /\ b \in Batches /\ b.claimed = batch /\ b.left = batch /\ b.at = "claimed"
        /\ b.refused = {}
    BY <2>2, <2>5 DEF Batches, Batch
  <2> HIDE DEF b
  <2>7. /\ \A i \in b.claimed : \E e \in Unprocessed : e.id = i
        /\ b.left \subseteq b.claimed /\ b.refused \subseteq b.left
        /\ \A s \in Relay \ {r} : b.claimed \cap relay[s].claimed = {}
    BY <2>2, <2>3, <2>4, <2>6
  <2>8. /\ UNCHANGED <<products, ordered, outbox, seq, tx, reader, rebuild, rebuilds>>
        /\ UNCHANGED <<index, cache, done, bestsellers, overtaken, failures>>
    BY <2>1 DEF writes, redis, reading
  <2>9. /\ failures' \in 0..MaxFailures /\ index' \in [Product -> Nat]
        /\ \A p \in Product : index'[p] <= products[p]
        /\ cache' \in [Product -> Nat] /\ overtaken' \in [Product -> BOOLEAN]
        /\ done' \subseteq 1..MaxEvents /\ bestsellers' \in [Product -> Nat]
    BY <1>1, <2>8
  <2>10. relay' = [relay EXCEPT ![r] = b] /\ b \in Batches
    BY <2>1, <2>6
  <2>11. TInv'
    BY <2>7, <2>8, <2>9, <2>10, RelayTInv
  <2> QED BY <1>1, <2>1, <2>6, <2>11
<1>3. ASSUME BulkIndex(r)
      PROVE  /\ TInv' /\ relay'[r].left = relay[r].left
             /\ relay'[r].claimed = relay[r].claimed /\ relay'[r].at = "indexed"
             /\ relay'[r].refused = relay[r].refused /\ relay'[r].error = relay[r].error
             /\ \A s \in Relay \ {r} : relay'[s] = relay[s]
  <2> DEFINE b == [at |-> "indexed", claimed |-> relay[r].claimed, left |-> relay[r].left,
                   refused |-> relay[r].refused, error |-> relay[r].error]
  <2>1. relay' = [relay EXCEPT ![r] = b]
    <3>1. relay' = [relay EXCEPT ![r] = [relay[r] EXCEPT !.at = "indexed"]]
      BY <1>3 DEF BulkIndex
    <3> QED BY <3>1, BatchTyped
  <2>2. /\ b \in Batches /\ b.claimed = relay[r].claimed /\ b.left = relay[r].left
        /\ b.at = "indexed" /\ b.refused = relay[r].refused /\ b.error = relay[r].error
    BY <1>1 DEF Batches
  <2> HIDE DEF b
  <2>3. /\ \A i \in b.claimed : \E e \in Unprocessed : e.id = i
        /\ b.left \subseteq b.claimed /\ b.refused \subseteq b.left
        /\ \A s \in Relay \ {r} : b.claimed \cap relay[s].claimed = {}
    BY <2>2 DEF TInv, Types, TypeOK, IdsUnique
  <2>4. index' \in [Product -> Nat] /\ \A p \in Product : index'[p] <= products[p]
    BY <1>3, DocsForward DEF BulkIndex
  <2>5. UNCHANGED <<writes, redis, reading, failures>>
    BY <1>3 DEF BulkIndex
  <2>6. TInv'
    BY <1>1, <2>1, <2>2, <2>3, <2>4, <2>5, RelayTInv DEF writes, redis, reading
  <2> QED BY <1>1, <2>1, <2>2, <2>6
<1>4. ASSUME BulkFails(r) \/ PipeFails(r) \/ Fail(r) \/ Stop(r) \/ Start(r)
      PROVE  /\ TInv' /\ UNCHANGED <<writes, redis, reading>>
             /\ \A p \in Product : index[p] <= index'[p]
             /\ Empty(relay'[r]) /\ \A s \in Relay \ {r} : relay'[s] = relay[s]
  <2>1. PICK b \in Batches : relay' = [relay EXCEPT ![r] = b] /\ Empty(b)
    BY <1>4, BatchTyped DEF BulkFails, PipeFails, Fail, Stop, Start, Empty
  <2>2. failures' \in 0..MaxFailures
    BY <1>1, <1>4, RelayAssumption DEF BulkFails, PipeFails, Fail, Stop, Start
  <2>3. UNCHANGED <<writes, redis, reading>>
    BY <1>4 DEF BulkFails, PipeFails, Fail, Stop, Start
  <2>4. /\ index' \in [Product -> Nat]
        /\ \A p \in Product : index[p] <= index'[p] /\ index'[p] <= products[p]
    <3>1. CASE BulkFails(r)
      BY <3>1, DocsForward DEF BulkFails
    <3>2. CASE UNCHANGED index
      BY <1>1, <3>2
    <3> QED BY <1>4, <3>1, <3>2 DEF PipeFails, Fail, Stop, Start
  <2>5. /\ \A i \in b.claimed : \E e \in Unprocessed : e.id = i
        /\ b.left \subseteq b.claimed /\ b.refused \subseteq b.left
        /\ \A s \in Relay \ {r} : b.claimed \cap relay[s].claimed = {}
    BY <2>1 DEF Empty
  <2>6. /\ UNCHANGED <<products, ordered, outbox, seq, tx, reader, rebuild, rebuilds>>
        /\ UNCHANGED <<cache, done, bestsellers, overtaken>>
    BY <2>3 DEF writes, redis, reading
  <2>7. TInv'
    BY <1>1, <2>1, <2>2, <2>4, <2>5, <2>6, RelayTInv
  <2> QED BY <1>1, <2>1, <2>3, <2>4, <2>7
<1> QED BY <1>2, <1>3, <1>4
\* A command of the pipeline is that of an unprocessed event the relay has claimed.
LEMMA PipeStep ==
    ASSUME TInv, NEW r \in Relay, PipeCommand(r)
    PROVE  /\ TInv' /\ UNCHANGED <<writes, index, reading>>
           /\ relay[r].at = "indexed" /\ relay'[r].at = "indexed"
           /\ relay'[r].claimed = relay[r].claimed /\ relay'[r].refused = relay[r].refused
           /\ relay'[r].error = relay[r].error \/ (relay[r].error = "none" /\ relay'[r].error = "nil")
           /\ \A s \in Relay \ {r} : relay'[s] = relay[s]
           /\ \E e \in Unprocessed :
                /\ e \in Event /\ e.id \in relay[r].left /\ relay'[r].left = relay[r].left \ {e.id}
                /\ \/ IsUpsert(e) /\ Del(e) /\ UNCHANGED <<done, bestsellers>>
                   \/ IsOrder(e) /\ IncrOnce(e) /\ UNCHANGED <<cache, overtaken>>
<1>1. PICK e \in outbox :
         /\ IsNext(r, e)
         /\ \/ IsUpsert(e) /\ Del(e) /\ UNCHANGED <<done, bestsellers>>
            \/ IsOrder(e) /\ IncrOnce(e) /\ UNCHANGED <<cache, overtaken>>
         /\ relay' = [relay EXCEPT ![r] = Applied(relay[r], e)]
  BY DEF PipeCommand, IsUpsert, IsOrder
<1>2. e.id \in relay[r].left \ relay[r].refused
  BY <1>1 DEF IsNext
<1>3. /\ relay[r].at = "indexed" /\ UNCHANGED <<writes, index, reading, failures>>
  BY DEF PipeCommand
<1>4. /\ relay \in [Relay -> Batches] /\ relay[r] \in Batches
      /\ relay[r].left \subseteq relay[r].claimed /\ relay[r].refused \subseteq relay[r].left
  BY DEF TInv, Types, TypeOK
<1>5. PICK b \in Batches :
         /\ Applied(relay[r], e) = b /\ b.at = relay[r].at
         /\ b.claimed = relay[r].claimed /\ b.left = relay[r].left \ {e.id}
         /\ b.refused = relay[r].refused
         /\ b.error = relay[r].error \/ (relay[r].error = "none" /\ b.error = "nil")
  <2>1. e.id \in relay[r].left
    BY <1>2
  <2> QED BY <2>1, AnswerTyped
<1>11. relay' = [relay EXCEPT ![r] = b] /\ b.at = "indexed"
  BY <1>1, <1>3, <1>5
<1>6. e \in Event /\ e \in Unprocessed
  BY <1>1, <1>2, <1>4 DEF TInv, Types, TypeOK, IdsUnique, Unprocessed
<1>7. /\ b.left \subseteq b.claimed /\ b.refused \subseteq b.left
      /\ \A i \in b.claimed : \E f \in Unprocessed : f.id = i
      /\ \A s \in Relay \ {r} : b.claimed \cap relay[s].claimed = {}
  BY <1>2, <1>4, <1>5 DEF TInv, Types, TypeOK, IdsUnique
<1>8. /\ cache' \in [Product -> Nat] /\ overtaken' \in [Product -> BOOLEAN]
      /\ done' \subseteq 1..MaxEvents /\ bestsellers' \in [Product -> Nat]
  <2>1. /\ cache \in [Product -> Nat] /\ overtaken \in [Product -> BOOLEAN]
        /\ done \subseteq 1..MaxEvents /\ bestsellers \in [Product -> Nat]
    BY DEF TInv, Types, TypeOK
  <2>2. e.id \in 1..MaxEvents /\ e.product \in Product /\ e.n \in Nat
    BY <1>6 DEF Event
  <2>3. CASE Del(e) /\ UNCHANGED <<done, bestsellers>>
    BY <2>1, <2>2, <2>3 DEF Del
  <2>4. CASE IncrOnce(e) /\ UNCHANGED <<cache, overtaken>>
    <3>1. bestsellers[e.product] + e.n \in Nat
      BY <2>1, <2>2
    <3>2. [bestsellers EXCEPT ![e.product] = @ + e.n] \in [Product -> Nat]
      BY <2>1, <3>1
    <3> QED BY <2>1, <2>2, <2>4, <3>2 DEF IncrOnce
  <2> QED BY <1>1, <2>3, <2>4
<1>9. /\ failures' \in 0..MaxFailures /\ index' \in [Product -> Nat]
      /\ \A p \in Product : index'[p] <= products[p]
      /\ UNCHANGED <<products, ordered, outbox, seq, tx, reader, rebuild, rebuilds>>
  BY <1>3 DEF TInv, Types, TypeOK, Behind, writes, reading
<1>10. TInv'
  BY <1>5, <1>7, <1>8, <1>9, <1>11, RelayTInv
<1> QED BY <1>1, <1>2, <1>3, <1>4, <1>5, <1>6, <1>10, <1>11

\* A refused command has changed nothing and stays with those to apply.
LEMMA RefusedStep ==
    ASSUME TInv, NEW r \in Relay, CommandRefused(r)
    PROVE  /\ TInv' /\ UNCHANGED <<writes, index, redis, reading>>
           /\ relay[r].at = "indexed"
           /\ relay'[r].claimed = relay[r].claimed /\ relay'[r].left = relay[r].left
           /\ ~MaskedRefusals => relay'[r].error = "refused"
           /\ \A s \in Relay \ {r} : relay'[s] = relay[s]
<1>1. PICK e \in outbox : IsNext(r, e) /\ relay' = [relay EXCEPT ![r] = NotApplied(relay[r], e)]
  BY DEF CommandRefused
<1>2. e.id \in relay[r].left
  BY <1>1 DEF IsNext
<1>3. /\ relay[r].at = "indexed" /\ UNCHANGED <<writes, index, redis, reading>>
      /\ failures' \in 0..MaxFailures /\ (relay[r].error = "nil" => MaskedRefusals)
  <2>1. failures \in 0..MaxFailures /\ MaxFailures \in Nat
    BY RelayAssumption DEF TInv, Types, TypeOK
  <2> QED BY <2>1 DEF CommandRefused
<1>4. /\ relay \in [Relay -> Batches] /\ relay[r] \in Batches
      /\ relay[r].left \subseteq relay[r].claimed /\ relay[r].refused \subseteq relay[r].left
  BY DEF TInv, Types, TypeOK
<1>5. PICK b \in Batches :
         /\ NotApplied(relay[r], e) = b /\ b.at = relay[r].at
         /\ b.claimed = relay[r].claimed /\ b.left = relay[r].left
         /\ b.refused = relay[r].refused \cup {e.id}
         /\ relay[r].error # "nil" => b.error = "refused"
  BY <1>2, AnswerTyped
<1>10. relay' = [relay EXCEPT ![r] = b]
  BY <1>1, <1>5
<1>6. b.refused \subseteq b.left /\ (~MaskedRefusals => b.error = "refused")
  BY <1>2, <1>3, <1>4, <1>5
<1>7. /\ b.left \subseteq b.claimed
      /\ \A i \in b.claimed : \E f \in Unprocessed : f.id = i
      /\ \A s \in Relay \ {r} : b.claimed \cap relay[s].claimed = {}
  BY <1>4, <1>5 DEF TInv, Types, TypeOK, IdsUnique
<1>8. /\ UNCHANGED <<products, ordered, outbox, seq, tx, reader, rebuild, rebuilds>>
      /\ index' \in [Product -> Nat] /\ \A p \in Product : index'[p] <= products[p]
      /\ cache' \in [Product -> Nat] /\ overtaken' \in [Product -> BOOLEAN]
      /\ done' \subseteq 1..MaxEvents /\ bestsellers' \in [Product -> Nat]
  BY <1>3 DEF TInv, Types, TypeOK, Behind, writes, redis, reading
<1>9. TInv'
  BY <1>3, <1>5, <1>6, <1>7, <1>8, <1>10, RelayTInv
<1> QED BY <1>3, <1>4, <1>5, <1>6, <1>9, <1>10

\* The batch is marked, and released in the same COMMIT.
LEMMA MarkTInv ==
    ASSUME TInv, NEW r \in Relay, MarkProcessed(r)
    PROVE  TInv'
<1>1. /\ relay' = [relay EXCEPT ![r] = NoBatch]
      /\ UNCHANGED <<products, ordered, seq, tx, index, cache, done, bestsellers, overtaken,
                     reader, rebuild, rebuilds, failures>>
  BY DEF MarkProcessed, redis, reading
<1>2. /\ outbox' \subseteq Event
      /\ \A f \in outbox' : \E e \in outbox :
           SameRow(f, e) /\ (f.processed <=> e.processed \/ e.id \in relay[r].claimed)
      /\ \A e \in outbox : \E f \in outbox' : SameRow(f, e)
      /\ \A f, g \in outbox' : f.id = g.id => f = g
      /\ Unprocessed' = {e \in Unprocessed : e.id \notin relay[r].claimed}
  BY MarkedRows DEF TInv
<1>3. \A f \in outbox' : \E e \in outbox : SameRow(f, e)
  BY <1>2
<1>4. \A e \in outbox : \E f \in outbox' : SameRow(f, e)
  BY <1>2
<1>5. /\ relay' \in [Relay -> Batches] /\ Empty(relay'[r])
      /\ \A s \in Relay \ {r} : relay'[s] = relay[s]
  BY <1>1, BatchTyped DEF TInv, Types, Empty
<1>6. \A s \in Relay : /\ relay'[s].at \in {"idle", "stopped", "claimed", "indexed"}
                       /\ relay'[s].refused \subseteq relay'[s].left
                       /\ relay'[s].left \subseteq relay'[s].claimed
                       /\ \A t \in Relay \ {s} : relay'[s].claimed \cap relay'[t].claimed = {}
  <2>1. \A s \in Relay : /\ relay[s].refused \subseteq relay[s].left
                         /\ relay[s].left \subseteq relay[s].claimed
                         /\ \A t \in Relay \ {s} : relay[s].claimed \cap relay[t].claimed = {}
    BY DEF TInv, Types, TypeOK
  <2>2. \A s \in Relay : relay'[s].at \in {"idle", "stopped", "claimed", "indexed"}
    BY <1>5 DEF Batches
  <2> QED BY <1>5, <2>1, <2>2 DEF Empty
<1>7. Types'
  BY <1>1, <1>2, <1>5, <1>6 DEF TInv, Types, TypeOK
<1>8. \A s \in Relay : \A i \in relay'[s].claimed : \E e \in Unprocessed' : e.id = i
  <2>1. ASSUME NEW s \in Relay, NEW i \in relay'[s].claimed PROVE \E e \in Unprocessed' : e.id = i
    <3>1. s # r /\ i \in relay[s].claimed
      BY <1>5, <2>1 DEF Empty
    <3>2. i \notin relay[r].claimed
      BY <3>1 DEF TInv, Types, TypeOK
    <3> QED BY <1>2, <3>1, <3>2 DEF TInv, IdsUnique
  <2> QED BY <2>1
<1>9. IdsUnique'
  <2>1. \A e \in outbox' : e.id <= seq
    BY <1>3 DEF TInv, IdsUnique, SameRow
  <2>2. \A c \in Client : tx[c] # NoTx => \A e \in outbox' : e.id # tx[c].id
    BY <1>3 DEF TInv, IdsUnique, SameRow
  <2> QED BY <1>1, <1>8, <2>1, <2>2 DEF TInv, IdsUnique
<1>10. Rows'
  <2>1. \A e \in outbox' : /\ IsOrder(e) => e.n = 1
                           /\ IsUpsert(e) => e.n \in 1..products[e.product]
    BY <1>3 DEF TInv, Rows, IsOrder, IsUpsert, SameRow
  <2>2. \A p \in Product : products[p] > 0 =>
           \E e \in outbox' : IsUpsert(e) /\ e.product = p /\ e.n = products[p]
    <3>1. ASSUME NEW p \in Product, products[p] > 0
          PROVE  \E e \in outbox' : IsUpsert(e) /\ e.product = p /\ e.n = products[p]
      <4>1. PICK e \in outbox : IsUpsert(e) /\ e.product = p /\ e.n = products[p]
        BY <3>1 DEF TInv, Rows
      <4>2. PICK f \in outbox' : SameRow(f, e)
        BY <1>4
      <4> QED BY <4>1, <4>2 DEF IsUpsert, SameRow
    <3> QED BY <3>1
  <2> QED BY <1>1, <2>1, <2>2 DEF TInv, Rows
<1> QED BY <1>1, <1>7, <1>9, <1>10 DEF TInv, Behind

\* Readers and the rebuild carry versions that were committed.
LEMMA ReadStep ==
    ASSUME TInv
    PROVE  /\ \A d \in Reader : \A p \in Product : CacheMiss(d, p) => TInv'
           /\ \A d \in Reader : QueryProduct(d) => TInv'
           /\ \A d \in Reader : FillCache(d) =>
                /\ TInv'
                /\ \/ UNCHANGED <<cache, overtaken>>
                   \/ \E p \in Product : \E v \in 0..products[p] :
                        /\ cache' = [cache EXCEPT ![p] = v]
                        /\ overtaken' = [overtaken EXCEPT ![p] = v < products[p]]
<1>1. /\ reader \in [Reader -> Reading] /\ products \in [Product -> Nat]
      /\ cache \in [Product -> Nat] /\ overtaken \in [Product -> BOOLEAN]
  BY DEF TInv, Types, TypeOK
<1>2. ASSUME reader' \in [Reader -> Reading],
             \A d \in Reader : reader'[d].at = "read" =>
               reader'[d].version <= products[reader'[d].product],
             cache' \in [Product -> Nat], overtaken' \in [Product -> BOOLEAN],
             UNCHANGED <<writes, index, done, bestsellers, relay, rebuild, rebuilds, failures>>
      PROVE  TInv'
  <2>1. Types'
    BY <1>2 DEF TInv, Types, TypeOK, writes
  <2>2. IdsUnique' /\ Rows'
    BY <1>2 DEF TInv, IdsUnique, Rows, Unprocessed, writes
  <2>3. Behind'
    BY <1>2 DEF TInv, Behind, writes
  <2> QED BY <2>1, <2>2, <2>3 DEF TInv
<1>3. ASSUME NEW d \in Reader, NEW p \in Product, CacheMiss(d, p) PROVE TInv'
  <2>1. reader' = [reader EXCEPT ![d] = [at |-> "missed", product |-> p]]
        /\ UNCHANGED <<writes, index, redis, relay, rebuild, rebuilds, failures>>
    BY <1>3 DEF CacheMiss
  <2>2. reader' \in [Reader -> Reading]
    BY <1>1, <2>1 DEF Reading
  <2>3. \A f \in Reader : reader'[f].at = "read" => reader'[f] = reader[f]
    BY <1>1, <2>1
  <2> QED BY <1>1, <1>2, <2>1, <2>2, <2>3 DEF TInv, Behind, redis
<1>4. ASSUME NEW d \in Reader, reader[d].at \in {"missed", "read"}
      PROVE  /\ reader[d].product \in Product
             /\ reader[d].at = "read" => reader[d].version \in 0..products[reader[d].product]
  <2>1. reader[d].product \in Product
    BY <1>1, <1>4 DEF Reading, NotReading
  <2>2. reader[d].at = "read" =>
           /\ reader[d].version \in Nat
           /\ reader[d].version <= products[reader[d].product]
    BY <1>1 DEF Reading, NotReading, TInv, Behind
  <2> QED BY <1>1, <2>1, <2>2
<1>5. ASSUME NEW d \in Reader, QueryProduct(d) PROVE TInv'
  <2> DEFINE p == reader[d].product
  <2>1. reader' = [reader EXCEPT ![d] = [at |-> "read", product |-> p, version |-> products[p]]]
        /\ UNCHANGED <<writes, index, redis, relay, rebuild, rebuilds, failures>>
    BY <1>5 DEF QueryProduct
  <2>2. p \in Product /\ products[p] \in Nat
    BY <1>1, <1>4, <1>5 DEF QueryProduct
  <2> HIDE DEF p
  <2>3. reader' \in [Reader -> Reading]
    BY <1>1, <2>1, <2>2 DEF Reading
  <2>4. \A f \in Reader : f # d => reader'[f] = reader[f]
    BY <1>1, <2>1
  <2>5. reader'[d].product = p /\ reader'[d].version = products[p]
    BY <1>1, <2>1
  <2>6. \A f \in Reader : reader'[f].at = "read" =>
           reader'[f].version <= products[reader'[f].product]
    BY <2>2, <2>4, <2>5 DEF TInv, Behind
  <2> QED BY <1>1, <1>2, <2>1, <2>3, <2>6 DEF redis
<1>6. ASSUME NEW d \in Reader, FillCache(d)
      PROVE  /\ TInv'
             /\ \/ UNCHANGED <<cache, overtaken>>
                \/ \E p \in Product : \E v \in 0..products[p] :
                     /\ cache' = [cache EXCEPT ![p] = v]
                     /\ overtaken' = [overtaken EXCEPT ![p] = v < products[p]]
  <2> DEFINE p == reader[d].product
             v == reader[d].version
  <2>1. /\ \/ /\ cache' = [cache EXCEPT ![p] = v]
              /\ overtaken' = [overtaken EXCEPT ![p] = v < products[p]]
           \/ UNCHANGED <<cache, overtaken>>
        /\ reader' = [reader EXCEPT ![d] = NotReading]
        /\ UNCHANGED <<writes, index, done, bestsellers, relay, rebuild, rebuilds, failures>>
    BY <1>6 DEF FillCache
  <2>2. p \in Product /\ v \in 0..products[p]
    BY <1>4, <1>6 DEF FillCache
  <2> HIDE DEF p, v
  <2>3. reader' \in [Reader -> Reading]
    BY <1>1, <2>1 DEF Reading
  <2>4. \A f \in Reader : reader'[f].at = "read" => reader'[f] = reader[f]
    BY <1>1, <2>1 DEF NotReading
  <2>5. cache' \in [Product -> Nat] /\ overtaken' \in [Product -> BOOLEAN]
    <3>1. (v < products[p]) \in BOOLEAN /\ v \in Nat
      BY <2>2
    <3> QED BY <1>1, <2>1, <2>2, <3>1
  <2>6. \A f \in Reader : reader'[f].at = "read" =>
           reader'[f].version <= products[reader'[f].product]
    BY <2>4 DEF TInv, Behind
  <2>7. TInv'
    BY <1>2, <2>1, <2>3, <2>5, <2>6
  <2> QED BY <2>1, <2>2, <2>7
<1> QED BY <1>3, <1>5, <1>6
\* The rebuild's documents are rows.
LEMMA RebuildStep ==
    ASSUME TInv
    PROVE  /\ DropIndex => TInv'
           /\ ReadProducts => /\ TInv'
                              /\ \A p \in Product : products[p] > 0 =>
                                   \E doc \in rebuild'.left : doc.product = p /\ doc.n = products[p]
           /\ ReindexChunk => /\ TInv'
                              /\ \A p \in Product : index[p] <= index'[p]
                              /\ \A doc \in rebuild.left :
                                   doc \in rebuild'.left \/ doc.n <= index'[doc.product]
                              /\ rebuild'.left \subseteq rebuild.left
                              /\ rebuild'.at \in {"none", "read"}
                              /\ rebuild'.at = "none" => rebuild'.left = {}
<1>1. /\ rebuild \in [at : {"none", "dropped", "read"}, left : SUBSET Doc]
      /\ products \in [Product -> Nat] /\ index \in [Product -> Nat]
      /\ \A p \in Product : index[p] <= products[p] /\ products[p] \in Nat /\ index[p] \in Nat
      /\ \A doc \in rebuild.left : doc.n <= products[doc.product]
  BY DEF TInv, Types, TypeOK, Behind
<1>2. ASSUME rebuild' \in [at : {"none", "dropped", "read"}, left : SUBSET Doc],
             \A doc \in rebuild'.left : doc.n <= products[doc.product],
             index' \in [Product -> Nat], \A p \in Product : index'[p] <= products[p],
             rebuilds' \in 0..MaxRebuilds,
             UNCHANGED <<writes, redis, relay, reader, failures>>
      PROVE  TInv'
  <2>1. Types'
    BY <1>2 DEF TInv, Types, TypeOK, writes, redis
  <2>2. IdsUnique' /\ Rows'
    BY <1>2 DEF TInv, IdsUnique, Rows, Unprocessed, writes
  <2>3. Behind'
    BY <1>2 DEF TInv, Behind, writes
  <2> QED BY <2>1, <2>2, <2>3 DEF TInv
<1>3. ASSUME DropIndex PROVE TInv'
  <2>1. rebuild' = [at |-> "dropped", left |-> {}] /\ index' = [p \in Product |-> 0]
    BY <1>3 DEF DropIndex
  <2>2. rebuilds' \in 0..MaxRebuilds
    BY <1>3, RelayAssumption DEF DropIndex, TInv, Types, TypeOK
  <2> QED BY <1>1, <1>2, <1>3, <2>1, <2>2 DEF DropIndex
<1>4. ASSUME ReadProducts
      PROVE  /\ TInv'
             /\ \A p \in Product : products[p] > 0 =>
                  \E doc \in rebuild'.left : doc.product = p /\ doc.n = products[p]
  <2> DEFINE docs == {[product |-> p, n |-> products[p]] : p \in {q \in Product : products[q] > 0}}
  <2>1. rebuild' = [at |-> "read", left |-> docs]
        /\ UNCHANGED <<writes, index, redis, relay, reader, rebuilds, failures>>
    BY <1>4 DEF ReadProducts
  <2>2. docs \subseteq Doc /\ \A doc \in docs : doc.n <= products[doc.product]
    BY <1>1 DEF Doc
  <2>3. ASSUME NEW p \in Product, products[p] > 0
        PROVE  \E doc \in docs : doc.product = p /\ doc.n = products[p]
    <3>1. [product |-> p, n |-> products[p]] \in docs
      BY <2>3
    <3> QED BY <3>1
  <2> HIDE DEF docs
  <2>4. rebuild' \in [at : {"none", "dropped", "read"}, left : SUBSET Doc] /\ rebuild'.left = docs
    BY <2>1, <2>2
  <2>5. rebuilds' \in 0..MaxRebuilds
    BY <2>1 DEF TInv, Types, TypeOK
  <2> QED BY <1>1, <1>2, <2>1, <2>2, <2>3, <2>4, <2>5
<1>5. ASSUME ReindexChunk
      PROVE  /\ TInv'
             /\ \A p \in Product : index[p] <= index'[p]
             /\ \A doc \in rebuild.left :
                  doc \in rebuild'.left \/ doc.n <= index'[doc.product]
             /\ rebuild'.left \subseteq rebuild.left
             /\ rebuild'.at \in {"none", "read"}
             /\ rebuild'.at = "none" => rebuild'.left = {}
  <2>1. UNCHANGED <<writes, redis, relay, reader, failures>> /\ rebuilds' \in 0..MaxRebuilds
    BY <1>5 DEF ReindexChunk, TInv, Types, TypeOK
  <2>2. CASE \E doc \in rebuild.left :
               /\ index' = Indexed(index, {doc})
               /\ rebuild' = [rebuild EXCEPT !.left = @ \ {doc}]
    <3>1. PICK doc \in rebuild.left : /\ index' = Indexed(index, {doc})
                                      /\ rebuild' = [rebuild EXCEPT !.left = @ \ {doc}]
      BY <2>2
    <3>2. doc.product \in Product /\ doc.n \in Nat /\ doc.n <= products[doc.product]
      BY <1>1 DEF Doc
    <3>3. /\ index' \in [Product -> Nat] /\ doc.n <= index'[doc.product]
          /\ \A p \in Product : index[p] <= index'[p] /\ index'[p] <= products[p]
      BY <1>1, <3>1, <3>2, IndexedForward
    <3>4. rebuild' = [at |-> rebuild.at, left |-> rebuild.left \ {doc}]
      BY <1>1, <3>1
    <3>5. /\ rebuild' \in [at : {"none", "dropped", "read"}, left : SUBSET Doc]
          /\ rebuild'.left = rebuild.left \ {doc} /\ rebuild'.at = rebuild.at
      BY <1>1, <3>4
    <3>6. rebuild.at = "read"
      BY <1>5 DEF ReindexChunk
    <3> QED BY <1>1, <1>2, <2>1, <3>3, <3>5, <3>6
  <2>3. CASE rebuild.left = {} /\ rebuild' = NoRebuild /\ UNCHANGED index
    <3>1. /\ rebuild' \in [at : {"none", "dropped", "read"}, left : SUBSET Doc]
          /\ rebuild'.left = {} /\ rebuild'.at = "none"
      BY <2>3 DEF NoRebuild
    <3> QED BY <1>1, <1>2, <2>1, <2>3, <3>1
  <2> QED BY <1>5, <2>2, <2>3 DEF ReindexChunk
<1> QED BY <1>3, <1>4, <1>5

\* Every step keeps types, ids, rows and the order of the stores.
LEMMA TypeStep == TInv /\ [Next]_vars => TInv'
<1> SUFFICES ASSUME TInv, [Next]_vars PROVE TInv'
  OBVIOUS
<1>1. ASSUME NEW c \in Client, Write(c) PROVE TInv'
  <2>1. ASSUME NEW p \in Product, SeedProduct(c, p) \/ UpdateProduct(c, p) \/ PlaceOrder(c, p)
        PROVE  TInv'
    <3>1. products[p] \in Nat
      BY DEF TInv, Types, TypeOK
    <3> QED BY <2>1, <3>1, EmitTInv DEF SeedProduct, UpdateProduct, PlaceOrder, Kind
  <2>2. ASSUME Rollback(c) PROVE TInv'
    <3>1. /\ tx' = [tx EXCEPT ![c] = NoTx]
          /\ UNCHANGED <<products, ordered, outbox, seq, index, redis, relay, reading, failures>>
      BY <2>2 DEF Rollback
    <3>2. tx' \in [Client -> Tx] /\ \A d \in Client : tx'[d] = IF d = c THEN NoTx ELSE tx[d]
      BY <3>1 DEF TInv, Types, Tx
    <3>3. Types'
      BY <3>1, <3>2 DEF TInv, Types, TypeOK, redis, reading
    <3>4. IdsUnique' /\ Rows'
      BY <3>1, <3>2 DEF TInv, IdsUnique, Rows, Unprocessed
    <3> QED BY <3>1, <3>3, <3>4 DEF TInv, Behind, reading
  <2> QED BY <1>1, <2>1, <2>2, CommitTInv DEF Write
<1>2. ASSUME NEW r \in Relay, RelayLoop(r) \/ Outage(r) PROVE TInv'
  BY <1>2, RelayStep, PipeStep, RefusedStep, MarkTInv DEF RelayLoop, Outage
<1>3. ASSUME NEW d \in Reader, GetProduct(d) PROVE TInv'
  BY <1>3, ReadStep DEF GetProduct
<1>4. CASE Rebuild
  BY <1>4, RebuildStep DEF Rebuild
<1>5. CASE Expire
  <2>1. UNCHANGED <<products, ordered, outbox, seq, tx, index, bestsellers, relay, reader,
                    rebuild, rebuilds, failures>>
    BY <1>5 DEF Expire, KeyExpires, EntryExpires, writes, reading
  <2>2. /\ cache' \in [Product -> Nat] /\ overtaken' \in [Product -> BOOLEAN]
        /\ done' \subseteq 1..MaxEvents
    <3>1. /\ cache \in [Product -> Nat] /\ overtaken \in [Product -> BOOLEAN]
          /\ done \subseteq 1..MaxEvents
      BY DEF TInv, Types, TypeOK
    <3>2. CASE KeyExpires
      BY <3>1, <3>2 DEF KeyExpires
    <3>3. ASSUME NEW p \in Product, EntryExpires(p)
          PROVE  /\ cache' \in [Product -> Nat] /\ overtaken' \in [Product -> BOOLEAN]
                 /\ done' \subseteq 1..MaxEvents
      BY <3>1, <3>3 DEF EntryExpires
    <3> QED BY <1>5, <3>2, <3>3 DEF Expire
  <2>3. Types'
    BY <2>1, <2>2 DEF TInv, Types, TypeOK
  <2> QED BY <2>1, <2>3 DEF TInv, IdsUnique, Rows, Behind, Unprocessed
<1>6. CASE UNCHANGED vars
  BY <1>6 DEF vars, writes, redis, reading, TInv, Types, TypeOK, IdsUnique, Rows, Behind, Unprocessed
<1> QED BY <1>1, <1>2, <1>3, <1>4, <1>5, <1>6 DEF Next

\* The empty stores.
LEMMA TypeInit == Init => TInv
<1> SUFFICES ASSUME Init PROVE TInv
  OBVIOUS
<1>1. Types
  BY RelayAssumption
     DEF Init, Types, TypeOK, Tx, Batches, Reading, NoBatch, Batch, NoRebuild, NotReading, Doc
<1>2. IdsUnique /\ Rows
  BY DEF Init, IdsUnique, Rows, NoBatch, Batch, Unprocessed
<1>3. Behind
  BY DEF Init, Behind, NoRebuild, NotReading
<1> QED BY <1>1, <1>2, <1>3 DEF TInv

\* TypeOK: for any number of relays, no event is in two batches, and what a batch has
\* still to apply it has claimed; an outbox id names one event.
THEOREM TypeCorrect == Spec => []TypeOK
<1>1. TInv => TypeOK
  BY DEF TInv, Types
<1> QED BY <1>1, TypeInit, TypeStep, PTL DEF Spec
-----------------------------------------------------------------------------
(***************************************************************************)
(* The search index.                                                       *)
(***************************************************************************)
\* While the rebuild is where it was and the index goes forward, nothing is lost as long
\* as no more is sent than is in the index.
LEMMA IndexKept ==
    ASSUME TInv, TInv', IndexInv, UNCHANGED rebuild, \A p \in Product : index[p] <= index'[p],
           \A f \in outbox' : IsUpsert(f) /\ Sent(f)' =>
             \/ f.n <= index'[f.product]
             \/ \E e \in outbox : SameRow(f, e) /\ Sent(e)
    PROVE  IndexInv'
<1>1. /\ \A p \in Product : index[p] \in Nat /\ index'[p] \in Nat
      /\ \A f \in outbox' : f.product \in Product /\ f.n \in Nat
  BY DEF TInv, Types, TypeOK, Event
<1>2. ASSUME NEW f \in outbox', IsUpsert(f), Sent(f)', rebuild.at # "dropped"
      PROVE  Shown(f)'
  <2>1. CASE f.n <= index'[f.product]
    BY <2>1 DEF Shown
  <2>2. CASE \E e \in outbox : SameRow(f, e) /\ Sent(e)
    <3>1. PICK e \in outbox : SameRow(f, e) /\ Sent(e)
      BY <2>2
    <3>2. Shown(e) /\ e.n = f.n /\ e.product = f.product
      BY <1>2, <3>1 DEF IndexInv, SameRow, IsUpsert
    <3> QED BY <1>1, <3>2 DEF Shown
  <2> QED BY <1>2, <2>1, <2>2
<1> QED BY <1>2 DEF IndexInv

\* Every step keeps the invariant of the index.
LEMMA IndexStep == TInv /\ IndexInv /\ [Next]_vars => IndexInv'
<1> SUFFICES ASSUME TInv, IndexInv, [Next]_vars PROVE IndexInv'
  OBVIOUS
<1>1. TInv'
  BY TypeStep
<1>2. /\ \A p \in Product : index[p] \in Nat /\ index'[p] \in Nat /\ products[p] \in Nat
      /\ \A e \in outbox : e.product \in Product /\ e.n \in Nat
      /\ \A doc \in rebuild.left : doc.product \in Product /\ doc.n \in Nat
  BY <1>1 DEF TInv, Types, TypeOK, Event, Doc
<1>3. ASSUME UNCHANGED <<outbox, relay, index, rebuild>> PROVE IndexInv'
  BY <1>3 DEF IndexInv, Sent, Shown
<1>4. ASSUME NEW r \in Relay, UNCHANGED <<outbox, rebuild>>,
             \A p \in Product : index[p] <= index'[p],
             \A s \in Relay \ {r} : relay'[s] = relay[s],
             relay'[r].at = "indexed" =>
               \A e \in outbox : IsUpsert(e) /\ e.id \in relay'[r].claimed =>
                 Sent(e) \/ e.n <= index'[e.product]
      PROVE  IndexInv'
  <2>1. \A e \in outbox : IsUpsert(e) /\ Sent(e)' => Sent(e) \/ e.n <= index'[e.product]
    BY <1>4 DEF Sent
  <2> QED BY <1>1, <1>4, <2>1, IndexKept DEF SameRow
<1>5. ASSUME NEW c \in Client, Commit(c) PROVE IndexInv'
  <2>1. PICK new \in outbox' : /\ outbox' = outbox \cup {new} /\ ~new.processed
                               /\ \A e \in outbox : e.id # new.id
    BY <1>5, CommitTInv
  <2>2. UNCHANGED <<index, relay, rebuild>>
    BY <1>5 DEF Commit, reading
  <2>3. \A r \in Relay : new.id \notin relay[r].claimed
    BY <2>1 DEF TInv, IdsUnique, Unprocessed
  <2>4. ~Sent(new)'
    BY <2>1, <2>2, <2>3 DEF Sent
  <2>5. \A e \in outbox : Sent(e)' => Sent(e)
    BY <2>2 DEF Sent
  <2> QED BY <1>1, <1>2, <2>1, <2>2, <2>4, <2>5, IndexKept DEF SameRow
<1>6. ASSUME NEW r \in Relay, Claim(r) PROVE IndexInv'
  BY <1>2, <1>4, <1>6, RelayStep DEF writes, reading
<1>7. ASSUME NEW r \in Relay, BulkIndex(r) PROVE IndexInv'
  <2>1. index' = Indexed(index, Docs(r)) /\ UNCHANGED <<outbox, rebuild>>
    BY <1>7 DEF BulkIndex, writes, reading
  <2>2. /\ \A p \in Product : index[p] <= index'[p]
        /\ \A d \in Docs(r) : d.n <= index'[d.product]
    BY <2>1, DocsForward
  <2>3. /\ relay'[r].claimed = relay[r].claimed
        /\ \A s \in Relay \ {r} : relay'[s] = relay[s]
    BY <1>7, RelayStep
  <2>4. \A e \in outbox : IsUpsert(e) /\ e.id \in relay'[r].claimed => e.n <= index'[e.product]
    BY <2>2, <2>3 DEF Docs, IsUpsert
  <2> QED BY <1>4, <2>1, <2>2, <2>3, <2>4
<1>8. ASSUME NEW r \in Relay, BulkFails(r) \/ PipeFails(r) \/ Fail(r) \/ Stop(r) \/ Start(r)
      PROVE  IndexInv'
  <2>1. /\ UNCHANGED <<writes, redis, reading>>
        /\ \A p \in Product : index[p] <= index'[p]
        /\ relay'[r].claimed = {}
        /\ \A s \in Relay \ {r} : relay'[s] = relay[s]
    BY <1>8, RelayStep DEF Empty
  <2> QED BY <1>4, <2>1 DEF writes, reading
<1>9. ASSUME NEW r \in Relay, PipeCommand(r) \/ CommandRefused(r) PROVE IndexInv'
  <2>1. /\ UNCHANGED <<writes, index, reading>>
        /\ relay[r].at = "indexed" /\ relay'[r].claimed = relay[r].claimed
        /\ \A s \in Relay \ {r} : relay'[s] = relay[s]
    BY <1>9, PipeStep, RefusedStep
  <2>2. \A e \in outbox : e.id \in relay'[r].claimed => Sent(e)
    BY <2>1 DEF Sent
  <2> QED BY <1>2, <1>4, <2>1, <2>2 DEF writes, reading
<1>10. ASSUME NEW r \in Relay, MarkProcessed(r) PROVE IndexInv'
  <2>1. /\ UNCHANGED <<index, rebuild>> /\ relay[r].at = "indexed"
        /\ relay' = [relay EXCEPT ![r] = NoBatch]
    BY <1>10 DEF MarkProcessed, Executed, reading
  <2>2. relay'[r].claimed = {} /\ \A s \in Relay \ {r} : relay'[s] = relay[s]
    BY <2>1, BatchTyped DEF TInv, Types, Empty
  <2>3. \A f \in outbox' : \E e \in outbox :
           SameRow(f, e) /\ (f.processed <=> e.processed \/ e.id \in relay[r].claimed)
    BY <1>10, MarkedRows DEF TInv
  <2>4. ASSUME NEW f \in outbox', Sent(f)' PROVE \E e \in outbox : SameRow(f, e) /\ Sent(e)
    <3>1. PICK e \in outbox :
             SameRow(f, e) /\ (f.processed <=> e.processed \/ e.id \in relay[r].claimed)
      BY <2>3
    <3>2. CASE f.processed
      BY <2>1, <3>1, <3>2 DEF Sent
    <3>3. CASE \E s \in Relay : relay'[s].at = "indexed" /\ f.id \in relay'[s].claimed
      BY <2>2, <3>1, <3>3 DEF Sent, SameRow
    <3> QED BY <2>4, <3>2, <3>3, <3>1 DEF Sent
  <2> QED BY <1>1, <1>2, <2>1, <2>4, IndexKept
<1>11. CASE DropIndex
  BY <1>11 DEF DropIndex, IndexInv
<1>12. CASE ReadProducts
  <2>1. \A p \in Product : products[p] > 0 =>
           \E doc \in rebuild'.left : doc.product = p /\ doc.n = products[p]
    BY <1>12, RebuildStep
  <2>2. rebuild'.at = "read" /\ UNCHANGED <<outbox, products>>
    BY <1>12 DEF ReadProducts, writes
  <2>3. \A e \in outbox : IsUpsert(e) => e.n <= products[e.product] /\ products[e.product] > 0
    BY <1>2 DEF TInv, Rows
  <2>4. \A e \in outbox : IsUpsert(e) =>
           \E doc \in rebuild'.left : doc.product = e.product /\ e.n <= doc.n
    BY <1>2, <2>1, <2>3
  <2> QED BY <2>2, <2>4 DEF IndexInv, Shown
<1>13. CASE ReindexChunk
  <2>1. /\ \A p \in Product : index[p] <= index'[p]
        /\ \A doc \in rebuild.left : doc \in rebuild'.left \/ doc.n <= index'[doc.product]
        /\ rebuild'.at = "none" => rebuild'.left = {}
        /\ rebuild'.at \in {"none", "read"}
    BY <1>13, RebuildStep
  <2>2. UNCHANGED <<outbox, relay>> /\ rebuild.at = "read"
    BY <1>13 DEF ReindexChunk, writes
  <2>3. ASSUME NEW e \in outbox, IsUpsert(e), Sent(e) PROVE Shown(e)'
    <3>1. CASE e.n <= index[e.product]
      BY <1>2, <2>1, <3>1 DEF Shown
    <3>2. CASE \E doc \in rebuild.left : doc.product = e.product /\ e.n <= doc.n
      <4>1. PICK doc \in rebuild.left : doc.product = e.product /\ e.n <= doc.n
        BY <3>2
      <4>2. CASE doc \in rebuild'.left
        BY <4>1, <4>2 DEF Shown
      <4>3. CASE doc.n <= index'[doc.product]
        BY <1>2, <4>1, <4>3 DEF Shown
      <4> QED BY <2>1, <4>2, <4>3
    <3> QED BY <2>2, <2>3, <3>1, <3>2 DEF IndexInv, Shown
  <2> QED BY <2>1, <2>2, <2>3 DEF IndexInv, Sent
<1>14. ASSUME NEW c \in Client, Write(c), ~Commit(c) PROVE UNCHANGED <<outbox, relay, index, rebuild>>
  BY <1>14 DEF Write, SeedProduct, UpdateProduct, PlaceOrder, Emit, Rollback, reading
<1>15. ASSUME NEW d \in Reader, GetProduct(d) PROVE UNCHANGED <<outbox, relay, index, rebuild>>
  BY <1>15 DEF GetProduct, CacheMiss, QueryProduct, FillCache, writes
<1>16. CASE Expire
  BY <1>3, <1>16 DEF Expire, KeyExpires, EntryExpires, writes, reading
<1>17. CASE UNCHANGED vars
  BY <1>3, <1>17 DEF vars, writes, reading
<1> QED BY <1>3, <1>5, <1>6, <1>7, <1>8, <1>9, <1>10, <1>11, <1>12, <1>13, <1>14, <1>15, <1>16, <1>17
        DEF Next, RelayLoop, Outage, Rebuild

\* Without a pending upsert the newest version of a product was sent.
LEMMA IndexSafe == TInv /\ IndexInv => IndexIsCurrent
<1> SUFFICES ASSUME TInv, IndexInv, NEW p \in Product
             PROVE  /\ index[p] <= products[p]
                    /\ rebuild.at = "none" /\ ~Pending("product_upserted", p) =>
                         index[p] = products[p]
  BY DEF IndexIsCurrent
<1>1. index[p] \in Nat /\ products[p] \in Nat /\ index[p] <= products[p]
  BY DEF TInv, Types, TypeOK, Behind
<1>2. ASSUME rebuild.at = "none", ~Pending("product_upserted", p), products[p] > 0
      PROVE  products[p] <= index[p]
  <2>1. PICK e \in outbox : IsUpsert(e) /\ e.product = p /\ e.n = products[p]
    BY <1>2 DEF TInv, Rows
  <2>2. e.processed
    BY <1>2, <2>1 DEF Pending, Unprocessed, IsUpsert
  <2>3. rebuild.left = {} /\ Shown(e)
    BY <1>2, <2>1, <2>2 DEF IndexInv, Sent
  <2> QED BY <2>1, <2>3 DEF Shown
<1> QED BY <1>1, <1>2

\* IndexIsCurrent: the index misses no committed change, whatever relays retry or
\* overlap and whenever the index is dropped and rebuilt.
THEOREM IndexStaysCurrent == Spec => []IndexIsCurrent
<1>1. Init => IndexInv
  BY DEF Init, IndexInv, NoRebuild
<1> QED BY <1>1, TypeInit, TypeStep, IndexStep, IndexSafe, PTL DEF Spec
-----------------------------------------------------------------------------
(***************************************************************************)
(* What Redis refused is not marked, if no nil comes before it.             *)
(***************************************************************************)
\* Every step keeps the refusals in sight.
LEMMA UnmaskedStep == ~MaskedRefusals /\ TInv /\ Unmasked /\ [Next]_vars => Unmasked'
<1> SUFFICES ASSUME ~MaskedRefusals, TInv, Unmasked, [Next]_vars PROVE Unmasked'
  OBVIOUS
<1>1. ASSUME UNCHANGED relay PROVE Unmasked'
  BY <1>1 DEF Unmasked
<1>2. ASSUME NEW r \in Relay, \A s \in Relay \ {r} : relay'[s] = relay[s],
             relay'[r].error # "refused" => relay'[r].refused = {}
      PROVE  Unmasked'
  BY <1>2 DEF Unmasked
<1>3. ASSUME NEW r \in Relay, Claim(r) \/ BulkIndex(r) PROVE Unmasked'
  BY <1>2, <1>3, RelayStep DEF Unmasked
<1>4. ASSUME NEW r \in Relay, BulkFails(r) \/ PipeFails(r) \/ Fail(r) \/ Stop(r) \/ Start(r)
      PROVE  Unmasked'
  BY <1>2, <1>4, RelayStep DEF Empty
<1>5. ASSUME NEW r \in Relay, PipeCommand(r) PROVE Unmasked'
  BY <1>2, <1>5, PipeStep DEF Unmasked
<1>6. ASSUME NEW r \in Relay, CommandRefused(r) PROVE Unmasked'
  BY <1>2, <1>6, RefusedStep
<1>7. ASSUME NEW r \in Relay, MarkProcessed(r) PROVE Unmasked'
  <2>1. relay' = [relay EXCEPT ![r] = NoBatch]
    BY <1>7 DEF MarkProcessed
  <2>2. Empty(relay'[r]) /\ \A s \in Relay \ {r} : relay'[s] = relay[s]
    BY <2>1, BatchTyped DEF TInv, Types
  <2> QED BY <1>2, <2>2 DEF Empty
<1>8. ASSUME NEW c \in Client, Write(c) PROVE UNCHANGED relay
  BY <1>8 DEF Write, SeedProduct, UpdateProduct, PlaceOrder, Emit, Commit, Rollback
<1>9. ASSUME NEW d \in Reader, GetProduct(d) PROVE UNCHANGED relay
  BY <1>9 DEF GetProduct, CacheMiss, QueryProduct, FillCache
<1>10. ASSUME Rebuild \/ Expire \/ UNCHANGED vars PROVE UNCHANGED relay
  BY <1>10 DEF Rebuild, DropIndex, ReadProducts, ReindexChunk, Expire, KeyExpires, EntryExpires, vars
<1> QED BY <1>1, <1>3, <1>4, <1>5, <1>6, <1>7, <1>8, <1>9, <1>10 DEF Next, RelayLoop, Outage

\* Then a batch that is marked has been applied to the last event.
LEMMA MarkedApplied ==
    ASSUME Unmasked, NEW r \in Relay, MarkProcessed(r)
    PROVE  relay[r].left = {}
  BY DEF Unmasked, MarkProcessed, Executed

LEMMA UnmaskedInit == Init => Unmasked
  BY DEF Init, Unmasked, NoBatch, Batch
-----------------------------------------------------------------------------
(***************************************************************************)
(* The cache.                                                              *)
(***************************************************************************)
\* Every step keeps the invariant of the cache.
LEMMA CacheStep == TInv /\ Unmasked /\ CacheInv /\ [Next]_vars => CacheInv'
<1> SUFFICES ASSUME TInv, Unmasked, CacheInv, [Next]_vars PROVE CacheInv'
  OBVIOUS
<1>1. TInv'
  BY TypeStep
<1>2. /\ cache \in [Product -> Nat] /\ cache' \in [Product -> Nat]
      /\ overtaken \in [Product -> BOOLEAN]
      /\ products \in [Product -> Nat] /\ products' \in [Product -> Nat]
      /\ \A p \in Product : /\ products[p] \in Nat /\ products'[p] \in Nat
                            /\ cache[p] \in Nat /\ cache'[p] \in Nat
      /\ \A e \in outbox : e.product \in Product /\ e.n \in Nat
      /\ \A e \in outbox : IsUpsert(e) => e.n <= products[e.product]
  BY <1>1 DEF TInv, Types, TypeOK, Event, Rows
<1>3. ASSUME UNCHANGED <<products, outbox, relay, cache, overtaken>> PROVE CacheInv'
  BY <1>3 DEF CacheInv, Invalidates
<1>4. ASSUME NEW c \in Client, Commit(c) PROVE CacheInv'
  <2>1. PICK new \in outbox' : /\ outbox' = outbox \cup {new} /\ ~new.processed
                               /\ \A e \in outbox : e.id # new.id
    BY <1>4, CommitTInv
  <2>2. /\ UNCHANGED <<relay, cache, overtaken>>
        /\ \A p \in Product : products[p] <= products'[p]
    BY <1>4, CommitTInv DEF Commit, redis
  <2>3. \A r \in Relay : new.id \notin relay[r].claimed
    BY <2>1 DEF TInv, IdsUnique, Unprocessed
  <2>4. Invalidates(new)'
    BY <2>1, <2>2, <2>3 DEF Invalidates
  <2>5. \A e \in outbox : Invalidates(e) => Invalidates(e)'
    BY <2>2 DEF Invalidates
  <2>6. \A p \in Product : cache'[p] <= products'[p]
    BY <1>2, <2>2 DEF CacheInv
  <2>7. \A p \in Product : cache'[p] # 0 /\ ~overtaken'[p] =>
           \A e \in outbox' : IsUpsert(e) /\ e.product = p /\ e.n > cache'[p] => Invalidates(e)'
    BY <2>1, <2>2, <2>4, <2>5 DEF CacheInv
  <2> QED BY <2>6, <2>7 DEF CacheInv
<1>5. ASSUME NEW r \in Relay, UNCHANGED <<products, outbox, cache, overtaken>>,
             \A s \in Relay \ {r} : relay'[s] = relay[s],
             \A i \in relay'[r].claimed \ relay'[r].left : i \in relay[r].claimed \ relay[r].left
      PROVE  CacheInv'
  <2>1. \A e \in outbox : Invalidates(e) => Invalidates(e)'
    BY <1>5 DEF Invalidates
  <2> QED BY <1>5, <2>1 DEF CacheInv
<1>6. ASSUME NEW r \in Relay, Claim(r) PROVE CacheInv'
  BY <1>5, <1>6, RelayStep DEF writes, redis
<1>7. ASSUME NEW r \in Relay, BulkIndex(r) PROVE CacheInv'
  <2>1. UNCHANGED <<writes, redis>>
    BY <1>7 DEF BulkIndex
  <2> QED BY <1>5, <1>7, <2>1, RelayStep DEF writes, redis
<1>8. ASSUME NEW r \in Relay, BulkFails(r) \/ PipeFails(r) \/ Fail(r) \/ Stop(r) \/ Start(r)
      PROVE  CacheInv'
  <2>1. /\ UNCHANGED <<writes, redis, reading>> /\ relay'[r].claimed = {}
        /\ \A s \in Relay \ {r} : relay'[s] = relay[s]
    BY <1>8, RelayStep DEF Empty
  <2> QED BY <1>5, <2>1 DEF writes, redis
<1>9. ASSUME NEW r \in Relay, PipeCommand(r) PROVE CacheInv'
  <2>1. /\ UNCHANGED <<writes, index, reading>>
        /\ relay'[r].claimed = relay[r].claimed
        /\ \A s \in Relay \ {r} : relay'[s] = relay[s]
    BY <1>9, PipeStep
  <2>2. PICK e \in Unprocessed :
           /\ e \in Event /\ e.id \in relay[r].left /\ relay'[r].left = relay[r].left \ {e.id}
           /\ \/ IsUpsert(e) /\ Del(e) /\ UNCHANGED <<done, bestsellers>>
              \/ IsOrder(e) /\ IncrOnce(e) /\ UNCHANGED <<cache, overtaken>>
    BY <1>9, PipeStep
  <2>3. /\ e.product \in Product
        /\ \A p \in Product : cache'[p] # 0 => /\ cache'[p] = cache[p] /\ overtaken'[p] = overtaken[p]
                                               /\ ~(IsUpsert(e) /\ e.product = p)
    BY <1>2, <2>2 DEF Event, Del, IsOrder, IsUpsert
  <2>4. \A p \in Product : cache'[p] = cache[p] \/ cache'[p] = 0
    BY <1>2, <2>2 DEF Del
  <2>5. \A f \in outbox : f.id = e.id => f = e
    BY <2>2 DEF TInv, Types, TypeOK, Unprocessed
  <2>6. \A f \in outbox : Invalidates(f) /\ f # e => Invalidates(f)'
    BY <2>1, <2>2, <2>5 DEF Invalidates
  <2>7. \A p \in Product : cache'[p] # 0 /\ ~overtaken'[p] =>
           \A f \in outbox : IsUpsert(f) /\ f.product = p /\ f.n > cache'[p] => Invalidates(f)'
    BY <2>3, <2>6 DEF CacheInv
  <2>8. \A p \in Product : cache'[p] <= products[p]
    BY <1>2, <2>4 DEF CacheInv
  <2> QED BY <2>1, <2>7, <2>8 DEF CacheInv, writes
<1>10. ASSUME NEW r \in Relay, MarkProcessed(r) PROVE CacheInv'
  <2>1. /\ UNCHANGED <<products, cache, overtaken>> /\ relay[r].left = {}
        /\ relay' = [relay EXCEPT ![r] = NoBatch]
    BY <1>10, MarkedApplied DEF MarkProcessed, redis
  <2>2. relay'[r].claimed = {} /\ \A s \in Relay \ {r} : relay'[s] = relay[s]
    BY <2>1, BatchTyped DEF TInv, Types, Empty
  <2>3. \A f \in outbox' : \E e \in outbox :
           SameRow(f, e) /\ (f.processed <=> e.processed \/ e.id \in relay[r].claimed)
    BY <1>10, MarkedRows DEF TInv
  <2>4. ASSUME NEW p \in Product, cache[p] # 0, ~overtaken[p],
               NEW f \in outbox', IsUpsert(f), f.product = p, f.n > cache[p]
        PROVE  Invalidates(f)'
    <3>1. PICK e \in outbox :
             SameRow(f, e) /\ (f.processed <=> e.processed \/ e.id \in relay[r].claimed)
      BY <2>3
    <3>2. Invalidates(e)
      BY <2>4, <3>1 DEF CacheInv, SameRow, IsUpsert
    <3>3. e.id \notin relay[r].claimed
      BY <2>1, <3>2 DEF Invalidates
    <3> QED BY <2>2, <3>1, <3>2, <3>3 DEF Invalidates, SameRow
  <2> QED BY <2>1, <2>4 DEF CacheInv
<1>11. ASSUME NEW d \in Reader, FillCache(d) PROVE CacheInv'
  <2>1. UNCHANGED <<products, outbox, relay>>
    BY <1>11 DEF FillCache, writes
  <2>2. CASE UNCHANGED <<cache, overtaken>>
    BY <1>3, <2>1, <2>2
  <2>3. ASSUME NEW p \in Product, NEW v \in 0..products[p],
               cache' = [cache EXCEPT ![p] = v], overtaken' = [overtaken EXCEPT ![p] = v < products[p]]
        PROVE  CacheInv'
    <3>1. cache'[p] = v /\ (overtaken'[p] <=> v < products[p])
      BY <1>2, <2>3
    <3>2. \A q \in Product : q # p => cache'[q] = cache[q] /\ overtaken'[q] = overtaken[q]
      BY <1>2, <2>3
    <3>3. ~overtaken'[p] => \A e \in outbox : ~(IsUpsert(e) /\ e.product = p /\ e.n > v)
      BY <1>2, <3>1
    <3>4. \A q \in Product : cache'[q] <= products[q]
      BY <1>2, <3>1, <3>2 DEF CacheInv
    <3>5. \A e \in outbox : Invalidates(e) => Invalidates(e)'
      BY <2>1 DEF Invalidates
    <3> QED BY <2>1, <3>1, <3>2, <3>3, <3>4, <3>5 DEF CacheInv
  <2> QED BY <1>11, <2>2, <2>3, ReadStep
<1>12. ASSUME NEW p \in Product, EntryExpires(p) PROVE CacheInv'
  <2>1. /\ cache' = [cache EXCEPT ![p] = 0] /\ overtaken' = [overtaken EXCEPT ![p] = FALSE]
        /\ UNCHANGED <<products, outbox, relay>>
    BY <1>12 DEF EntryExpires, writes
  <2>2. \A q \in Product : cache'[q] # 0 => cache'[q] = cache[q] /\ overtaken'[q] = overtaken[q]
    BY <1>2, <2>1
  <2>3. \A q \in Product : cache'[q] <= products[q]
    BY <1>2, <2>1 DEF CacheInv
  <2>4. \A e \in outbox : Invalidates(e) => Invalidates(e)'
    BY <2>1 DEF Invalidates
  <2> QED BY <2>1, <2>2, <2>3, <2>4 DEF CacheInv
<1>13. ASSUME NEW c \in Client, Write(c), ~Commit(c)
       PROVE  UNCHANGED <<products, outbox, relay, cache, overtaken>>
  BY <1>13 DEF Write, SeedProduct, UpdateProduct, PlaceOrder, Emit, Rollback, redis
<1>14. ASSUME NEW d \in Reader, GetProduct(d), ~FillCache(d)
       PROVE  UNCHANGED <<products, outbox, relay, cache, overtaken>>
  BY <1>14 DEF GetProduct, CacheMiss, QueryProduct, writes, redis
<1>15. ASSUME Rebuild \/ KeyExpires \/ UNCHANGED vars
       PROVE  UNCHANGED <<products, outbox, relay, cache, overtaken>>
  BY <1>15 DEF Rebuild, DropIndex, ReadProducts, ReindexChunk, KeyExpires, vars, writes, redis
<1>16. ASSUME NEW r \in Relay, CommandRefused(r) PROVE CacheInv'
  BY <1>5, <1>16, RefusedStep DEF writes, redis
<1> QED BY <1>3, <1>4, <1>6, <1>7, <1>8, <1>9, <1>10, <1>11, <1>12, <1>13, <1>14, <1>15, <1>16
        DEF Next, RelayLoop, Outage, Expire

\* An entry that is not the row's has an upsert after it.
LEMMA CacheSafe == TInv /\ CacheInv => StaleOnlyByLateFill
<1> SUFFICES ASSUME TInv, CacheInv, NEW p \in Product, cache[p] \notin {0, products[p]}, ~overtaken[p]
             PROVE  Pending("product_upserted", p)
  BY DEF StaleOnlyByLateFill
<1>1. cache[p] \in Nat /\ products[p] \in Nat /\ cache[p] <= products[p]
  BY DEF TInv, Types, TypeOK, CacheInv
<1>2. PICK e \in outbox : IsUpsert(e) /\ e.product = p /\ e.n = products[p]
  BY <1>1 DEF TInv, Rows
<1>3. Invalidates(e)
  BY <1>1, <1>2 DEF CacheInv
<1> QED BY <1>2, <1>3 DEF Pending, Unprocessed, Invalidates, IsUpsert

\* StaleOnlyByLateFill: no race of relays skips an invalidation; an entry older than
\* the row has a pending event, or a reader stored it late.  Redis refuses no DEL behind
\* an answer nil, which would hide the refusal.
THEOREM CacheStaleOnlyByLateFill ==
    ASSUME ~MaskedRefusals PROVE Spec => []StaleOnlyByLateFill
<1>1. Init => CacheInv
  BY DEF Init, CacheInv
<1> QED BY <1>1, TypeInit, TypeStep, UnmaskedInit, UnmaskedStep, CacheStep, CacheSafe, PTL DEF Spec
-----------------------------------------------------------------------------
(***************************************************************************)
(* The leaderboard, if a failed batch is retried within a day.             *)
(***************************************************************************)
\* The uncounted orders are finitely many.
LEMMA UncountedFinite ==
    ASSUME NEW p \in Product
    PROVE  IsFiniteSet(Uncounted(p)) /\ Cardinality(Uncounted(p)) \in Nat
<1>1. IsFiniteSet(1..MaxEvents)
  BY FS_Interval, RelayAssumption
<1>2. Uncounted(p) \in SUBSET (1..MaxEvents)
  BY DEF Uncounted
<1> QED BY <1>1, <1>2, FS_Subset, FS_CardinalityType

\* Every step keeps the invariant of the leaderboard.
LEMMA CountStep == ~LateRetry /\ TInv /\ Unmasked /\ CountInv /\ [Next]_vars => CountInv'
<1> SUFFICES ASSUME ~LateRetry, TInv, Unmasked, CountInv, [Next]_vars PROVE CountInv'
  OBVIOUS
<1>1. TInv'
  BY TypeStep
<1>2. /\ ordered \in [Product -> Nat] /\ bestsellers \in [Product -> Nat]
      /\ \A e \in outbox : e.product \in Product /\ e.id \in 1..MaxEvents
      /\ \A e, f \in outbox : e.id = f.id => e = f
      /\ Unprocessed \subseteq outbox
  BY DEF TInv, Types, TypeOK, Event, Unprocessed
<1>3. ASSUME UNCHANGED <<ordered, outbox, relay, done, bestsellers>> PROVE CountInv'
  BY <1>3 DEF CountInv, Uncounted, Unprocessed
<1>4. ASSUME NEW c \in Client, Commit(c) PROVE CountInv'
  <2>1. PICK new \in outbox' :
           /\ outbox' = outbox \cup {new} /\ ~new.processed
           /\ \A e \in outbox : e.id # new.id
           /\ IsUpsert(new) => ordered' = ordered
           /\ IsOrder(new) => ordered' = [ordered EXCEPT ![new.product] = @ + 1]
    BY <1>4, CommitTInv
  <2>2. UNCHANGED <<relay, done, bestsellers>>
    BY <1>4 DEF Commit, redis
  <2>3. new \in Event /\ new.id \in 1..MaxEvents /\ new.product \in Product
        /\ (IsUpsert(new) <=> ~IsOrder(new))
    BY <1>1, <2>1 DEF TInv, Types, TypeOK, Event, Kind, IsUpsert, IsOrder
  <2>4. new.id \notin done
    BY <2>1 DEF CountInv
  <2>5. \A r \in Relay : new.id \notin relay[r].claimed
    BY <2>1 DEF TInv, IdsUnique, Unprocessed
  <2>6. Unprocessed' = Unprocessed \cup {new}
    BY <2>1 DEF Unprocessed
  <2>7. ASSUME NEW p \in Product
        PROVE  bestsellers'[p] + Cardinality(Uncounted(p)') = ordered'[p]
    <3>1. CASE IsOrder(new) /\ new.product = p
      <4>1. Uncounted(p)' = Uncounted(p) \cup {new.id} /\ new.id \notin Uncounted(p)
        BY <1>2, <2>1, <2>2, <2>3, <2>4, <2>6, <3>1 DEF Uncounted
      <4>2. Cardinality(Uncounted(p)') = Cardinality(Uncounted(p)) + 1
        BY <4>1, UncountedFinite, FS_AddElement
      <4>3. ordered'[p] = ordered[p] + 1
        BY <1>2, <2>1, <2>3, <3>1
      <4> QED BY <1>2, <2>2, <4>2, <4>3, UncountedFinite DEF CountInv
    <3>2. CASE ~(IsOrder(new) /\ new.product = p)
      <4>1. Uncounted(p)' = Uncounted(p)
        BY <2>2, <2>6, <3>2 DEF Uncounted
      <4>2. ordered'[p] = ordered[p]
        BY <1>2, <2>1, <2>3, <3>2
      <4> QED BY <2>2, <4>1, <4>2 DEF CountInv
    <3> QED BY <3>1, <3>2
  <2> QED BY <2>1, <2>2, <2>5, <2>7 DEF CountInv
<1>5. ASSUME NEW r \in Relay, UNCHANGED <<ordered, outbox, done, bestsellers>>,
             \A s \in Relay \ {r} : relay'[s] = relay[s],
             \A i \in relay'[r].claimed \ relay'[r].left : i \in relay[r].claimed \ relay[r].left
      PROVE  CountInv'
  <2>1. \A p \in Product : Uncounted(p)' = Uncounted(p)
    BY <1>5 DEF Uncounted, Unprocessed
  <2>2. \A s \in Relay : \A e \in outbox :
           IsOrder(e) /\ e.id \in relay'[s].claimed \ relay'[s].left => e.id \in done
    BY <1>5 DEF CountInv
  <2> QED BY <1>5, <2>1, <2>2 DEF CountInv
<1>6. ASSUME NEW r \in Relay, Claim(r) PROVE CountInv'
  BY <1>5, <1>6, RelayStep DEF writes, redis
<1>7. ASSUME NEW r \in Relay, BulkIndex(r) PROVE CountInv'
  <2>1. UNCHANGED <<writes, redis>>
    BY <1>7 DEF BulkIndex
  <2> QED BY <1>5, <1>7, <2>1, RelayStep DEF writes, redis
<1>8. ASSUME NEW r \in Relay, BulkFails(r) \/ PipeFails(r) \/ Fail(r) \/ Stop(r) \/ Start(r)
      PROVE  CountInv'
  <2>1. /\ UNCHANGED <<writes, redis, reading>> /\ relay'[r].claimed = {}
        /\ \A s \in Relay \ {r} : relay'[s] = relay[s]
    BY <1>8, RelayStep DEF Empty
  <2> QED BY <1>5, <2>1 DEF writes, redis
<1>9. ASSUME NEW r \in Relay, PipeCommand(r) PROVE CountInv'
  <2>1. /\ UNCHANGED <<ordered, outbox>>
        /\ relay'[r].claimed = relay[r].claimed
        /\ \A s \in Relay \ {r} : relay'[s] = relay[s]
    BY <1>9, PipeStep DEF writes
  <2>2. PICK e \in Unprocessed :
           /\ e \in Event /\ e.id \in relay[r].left /\ relay'[r].left = relay[r].left \ {e.id}
           /\ \/ IsUpsert(e) /\ Del(e) /\ UNCHANGED <<done, bestsellers>>
              \/ IsOrder(e) /\ IncrOnce(e) /\ UNCHANGED <<cache, overtaken>>
    BY <1>9, PipeStep
  <2>3. e \in outbox /\ e.product \in Product /\ Unprocessed' = Unprocessed
    BY <1>2, <2>1, <2>2 DEF Unprocessed
  <2>4. CASE IsUpsert(e) /\ UNCHANGED <<done, bestsellers>>
    <3>1. \A p \in Product : Uncounted(p)' = Uncounted(p)
      BY <2>3, <2>4 DEF Uncounted
    <3>2. \A s \in Relay : \A f \in outbox :
             IsOrder(f) /\ f.id \in relay'[s].claimed \ relay'[s].left => f.id \in done
      <4>1. ~IsOrder(e)
        BY <2>4 DEF IsUpsert, IsOrder
      <4>2. \A f \in outbox : IsOrder(f) => f.id # e.id
        BY <1>2, <2>3, <4>1
      <4> QED BY <2>1, <2>2, <4>2 DEF CountInv
    <3> QED BY <2>1, <2>4, <3>1, <3>2 DEF CountInv
  <2>5. CASE IsOrder(e) /\ IncrOnce(e)
    <3>1. done' = done \cup {e.id} /\ e.n = 1
      BY <2>3, <2>5 DEF IncrOnce, TInv, Rows
    <3>2. \A s \in Relay : \A f \in outbox :
             IsOrder(f) /\ f.id \in relay'[s].claimed \ relay'[s].left => f.id \in done'
      BY <2>1, <2>2, <3>1 DEF CountInv
    <3>3. \A i \in done' : \E f \in outbox : f.id = i /\ IsOrder(f)
      BY <2>3, <2>5, <3>1 DEF CountInv
    <3>4. ASSUME NEW p \in Product
          PROVE  bestsellers'[p] + Cardinality(Uncounted(p)') = ordered[p]
      <4>1. CASE e.id \in done
        <5>1. Uncounted(p)' = Uncounted(p) /\ bestsellers' = bestsellers
          BY <2>3, <2>5, <3>1, <4>1 DEF Uncounted, IncrOnce
        <5> QED BY <5>1 DEF CountInv
      <4>2. CASE e.id \notin done /\ e.product # p
        <5>1. bestsellers'[p] = bestsellers[p]
          BY <1>2, <2>5, <4>2 DEF IncrOnce
        <5>2. e.id \notin Uncounted(p)
          BY <1>2, <2>3, <4>2 DEF Uncounted
        <5>3. Uncounted(p)' = Uncounted(p)
          BY <2>3, <3>1, <5>2 DEF Uncounted
        <5> QED BY <5>1, <5>3 DEF CountInv
      <4>3. CASE e.id \notin done /\ e.product = p
        <5>1. bestsellers'[p] = bestsellers[p] + 1
          <6>1. bestsellers' = [bestsellers EXCEPT ![p] = @ + 1]
            BY <2>5, <3>1, <4>3 DEF IncrOnce
          <6> QED BY <1>2, <6>1
        <5>2. e.id \in Uncounted(p) /\ Uncounted(p)' = Uncounted(p) \ {e.id}
          BY <1>2, <2>2, <2>3, <2>5, <3>1, <4>3 DEF Uncounted
        <5>3. Cardinality(Uncounted(p)') = Cardinality(Uncounted(p)) - 1
          BY <5>2, UncountedFinite, FS_RemoveElement
        <5>4. bestsellers[p] \in Nat /\ ordered[p] \in Nat
          BY <1>2
        <5> QED BY <5>1, <5>3, <5>4, UncountedFinite DEF CountInv
      <4> QED BY <4>1, <4>2, <4>3
    <3> QED BY <2>1, <3>2, <3>3, <3>4 DEF CountInv
  <2> QED BY <2>2, <2>4, <2>5
<1>10. ASSUME NEW r \in Relay, MarkProcessed(r) PROVE CountInv'
  <2>1. /\ UNCHANGED <<ordered, done, bestsellers>> /\ relay[r].left = {}
        /\ relay' = [relay EXCEPT ![r] = NoBatch]
    BY <1>10, MarkedApplied DEF MarkProcessed, redis
  <2>2. relay'[r].claimed = {} /\ \A s \in Relay \ {r} : relay'[s] = relay[s]
    BY <2>1, BatchTyped DEF TInv, Types, Empty
  <2>3. /\ \A f \in outbox' : \E e \in outbox :
             SameRow(f, e) /\ (f.processed <=> e.processed \/ e.id \in relay[r].claimed)
        /\ \A e \in outbox : \E f \in outbox' : SameRow(f, e)
        /\ Unprocessed' = {e \in Unprocessed : e.id \notin relay[r].claimed}
    BY <1>10, MarkedRows DEF TInv
  <2>4. \A e \in outbox : IsOrder(e) /\ e.id \in relay[r].claimed => e.id \in done
    BY <2>1 DEF CountInv
  <2>5. ASSUME NEW p \in Product PROVE Uncounted(p)' = Uncounted(p)
    BY <1>2, <2>1, <2>3, <2>4 DEF Uncounted
  <2>6. \A i \in done : \E f \in outbox' : f.id = i /\ IsOrder(f)
    <3>1. ASSUME NEW i \in done PROVE \E f \in outbox' : f.id = i /\ IsOrder(f)
      <4>1. PICK e \in outbox : e.id = i /\ IsOrder(e)
        BY DEF CountInv
      <4>2. PICK f \in outbox' : SameRow(f, e)
        BY <2>3
      <4> QED BY <4>1, <4>2 DEF SameRow, IsOrder
    <3> QED BY <3>1
  <2>7. ASSUME NEW s \in Relay, NEW f \in outbox', IsOrder(f),
               f.id \in relay'[s].claimed \ relay'[s].left
        PROVE  f.id \in done
    <3>1. PICK e \in outbox : SameRow(f, e)
      BY <2>3
    <3>2. s # r /\ e.id \in relay[s].claimed \ relay[s].left /\ IsOrder(e)
      BY <2>2, <2>7, <3>1 DEF SameRow, IsOrder
    <3> QED BY <3>1, <3>2 DEF CountInv, SameRow
  <2> QED BY <2>1, <2>5, <2>6, <2>7 DEF CountInv
<1>11. CASE KeyExpires
  <2>1. PICK i \in done : /\ \A r \in Relay : i \notin relay[r].claimed
                          /\ i \notin {e.id : e \in Unprocessed}
                          /\ done' = done \ {i}
    BY <1>11 DEF KeyExpires
  <2>2. UNCHANGED <<ordered, outbox, relay, bestsellers>>
    BY <1>11 DEF KeyExpires, writes
  <2>3. \A p \in Product : Uncounted(p)' = Uncounted(p)
    BY <2>1, <2>2 DEF Uncounted, Unprocessed
  <2>4. \A s \in Relay : \A f \in outbox :
           IsOrder(f) /\ f.id \in relay'[s].claimed \ relay'[s].left => f.id \in done'
    BY <2>1, <2>2 DEF CountInv
  <2> QED BY <2>1, <2>2, <2>3, <2>4 DEF CountInv
<1>12. ASSUME NEW c \in Client, Write(c), ~Commit(c)
       PROVE  UNCHANGED <<ordered, outbox, relay, done, bestsellers>>
  BY <1>12 DEF Write, SeedProduct, UpdateProduct, PlaceOrder, Emit, Rollback, redis
<1>13. ASSUME NEW d \in Reader, GetProduct(d)
       PROVE  UNCHANGED <<ordered, outbox, relay, done, bestsellers>>
  BY <1>13 DEF GetProduct, CacheMiss, QueryProduct, FillCache, writes, redis
<1>14. ASSUME Rebuild \/ (\E p \in Product : EntryExpires(p)) \/ UNCHANGED vars
       PROVE  UNCHANGED <<ordered, outbox, relay, done, bestsellers>>
  BY <1>14 DEF Rebuild, DropIndex, ReadProducts, ReindexChunk, EntryExpires, vars, writes, redis
<1>15. ASSUME NEW r \in Relay, CommandRefused(r) PROVE CountInv'
  BY <1>5, <1>15, RefusedStep DEF writes, redis
<1> QED BY <1>3, <1>4, <1>6, <1>7, <1>8, <1>9, <1>10, <1>11, <1>12, <1>13, <1>14, <1>15
        DEF Next, RelayLoop, Outage, Expire

\* What is counted and what is to be counted is what was ordered.
LEMMA CountSafe == TInv /\ CountInv => LeaderboardExact
<1> SUFFICES ASSUME TInv, CountInv, NEW p \in Product
             PROVE  /\ bestsellers[p] <= ordered[p]
                    /\ ~Pending("order_placed", p) => bestsellers[p] = ordered[p]
  BY DEF LeaderboardExact
<1>1. /\ bestsellers[p] \in Nat /\ ordered[p] \in Nat /\ Cardinality(Uncounted(p)) \in Nat
      /\ bestsellers[p] + Cardinality(Uncounted(p)) = ordered[p]
  BY UncountedFinite DEF TInv, Types, TypeOK, CountInv
<1>2. ASSUME ~Pending("order_placed", p) PROVE Cardinality(Uncounted(p)) = 0
  <2>1. Uncounted(p) = {}
    BY <1>2 DEF Pending, Uncounted, IsOrder
  <2> QED BY <2>1, FS_EmptySet
<1> QED BY <1>1, <1>2

\* LeaderboardExact: as long as a dedupe key outlives the retries of its event, and an
\* answer nil hides no refusal, batches that are applied again, by any relay, count nothing
\* twice and miss nothing.
THEOREM LeaderboardStaysExact ==
    ASSUME ~LateRetry, ~MaskedRefusals PROVE Spec => []LeaderboardExact
<1>1. Init => CountInv
  <2> SUFFICES ASSUME Init PROVE CountInv
    OBVIOUS
  <2>1. \A p \in Product : Uncounted(p) = {}
    BY DEF Init, Uncounted, Unprocessed
  <2>2. Cardinality({}) = 0
    BY FS_EmptySet
  <2> QED BY <2>1, <2>2 DEF Init, CountInv, NoBatch, Batch
<1> QED BY <1>1, TypeInit, TypeStep, UnmaskedInit, UnmaskedStep, CountStep, CountSafe, PTL DEF Spec
=============================================================================
