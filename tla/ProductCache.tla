---------------------------- MODULE ProductCache ----------------------------
(***************************************************************************)
(* simulate_query_caching: one product, its row in PostgreSQL and its entry  *)
(* in Redis, with callers of GetProduct and of the two ways to update.       *)
(* The keys are independent, so one product stands for all.                 *)
(***************************************************************************)
EXTENDS Integers

CONSTANTS Caller,
          MaxPrice,       \* bound: updates of the price
          MaxCacheErrors  \* bound: Redis commands that fail

VARIABLES
    price,      \* PostgreSQL: the price, counted by its updates
    entry,      \* Redis: the price under "product:<id>" (0: no key), and its TTL
    caller,     \* per caller: the call it is in, and the price that call holds
    updatedBy,  \* history: how the row's price was last updated
    slipped,    \* history: the entry was older than the row when it was stored,
                \* or the command that should have replaced it failed
    cacheErrors

cacheVars == <<price, entry, caller, updatedBy, slipped, cacheErrors>>

NoEntry == [price |-> 0, ttl |-> FALSE]
NoCall == [at |-> "idle", price |-> 0]
Updating(c) == caller[c].at \in {"set", "del"}

Init ==
    /\ price = 1 /\ entry = NoEntry
    /\ caller = [c \in Caller |-> NoCall]
    /\ updatedBy = "none" /\ slipped = FALSE /\ cacheErrors = 0

At(c, at, p) == caller' = [caller EXCEPT ![c] = [at |-> at, price |-> p]]

\* Variant: SET without the TTL.
SetForever(p) == entry' = [price |-> p, ttl |-> FALSE] /\ slipped' = (p < price)

\* SET with the TTL of the Cache.
SetEntry(p) == entry' = [price |-> p, ttl |-> TRUE] /\ slipped' = (p < price)

Fails == cacheErrors < MaxCacheErrors /\ cacheErrors' = cacheErrors + 1

(***************************************************************************)
(* GetProduct: a hit changes nothing; a miss or a failing GET goes to the    *)
(* row, 50 ms away, and stores what it found even so.                       *)
(***************************************************************************)
Miss(c) ==
    /\ caller[c].at = "idle"
    /\ \/ entry = NoEntry /\ UNCHANGED cacheErrors
       \/ Fails
    /\ At(c, "query", 0)
    /\ UNCHANGED <<price, entry, updatedBy, slipped>>

Query(c) ==
    /\ caller[c].at = "query" /\ At(c, "fill", price)
    /\ UNCHANGED <<price, entry, updatedBy, slipped, cacheErrors>>

Fill(c) ==
    /\ caller[c].at = "fill" /\ At(c, "idle", 0)
    /\ \/ SetEntry(caller[c].price) /\ UNCHANGED cacheErrors
       \/ Fails /\ UNCHANGED <<entry, slipped>>
    /\ UNCHANGED <<price, updatedBy>>

(***************************************************************************)
(* UpdatePriceWriteThrough and UpdatePriceInvalidate: the UPDATE commits by  *)
(* itself, the Redis command follows.                                       *)
(***************************************************************************)
UpdateRow(c, at) ==
    /\ caller[c].at = "idle" /\ price < MaxPrice
    /\ price' = price + 1 /\ updatedBy' = at /\ At(c, at, price + 1)
    /\ UNCHANGED <<entry, slipped, cacheErrors>>

UpdatePriceWriteThrough(c) == UpdateRow(c, "set")

WriteThrough(c) ==
    /\ caller[c].at = "set" /\ At(c, "idle", 0)
    /\ \/ SetEntry(caller[c].price) /\ UNCHANGED cacheErrors
       \/ Fails /\ slipped' = TRUE /\ UNCHANGED entry
    /\ UNCHANGED <<price, updatedBy>>

UpdatePriceInvalidate(c) == UpdateRow(c, "del")

\* Variant: returns without the DEL.
InvalidateNothing(c) ==
    /\ caller[c].at = "del" /\ At(c, "idle", 0)
    /\ UNCHANGED <<price, entry, updatedBy, slipped, cacheErrors>>

Invalidate(c) ==
    /\ caller[c].at = "del" /\ At(c, "idle", 0)
    /\ \/ entry' = NoEntry /\ slipped' = FALSE /\ UNCHANGED cacheErrors
       \/ Fails /\ slipped' = TRUE /\ UNCHANGED entry
    /\ UNCHANGED <<price, updatedBy>>

\* Redis drops a key whose TTL has run out; Expire shortens it.
Expire ==
    /\ entry.ttl
    /\ entry' = NoEntry /\ slipped' = FALSE
    /\ UNCHANGED <<price, caller, updatedBy, cacheErrors>>

Call(c) == Miss(c) \/ UpdatePriceWriteThrough(c) \/ UpdatePriceInvalidate(c)
Return(c) == Query(c) \/ Fill(c) \/ WriteThrough(c) \/ Invalidate(c)
Next == (\E c \in Caller : Call(c) \/ Return(c)) \/ Expire

TypeOK ==
    /\ price \in 1..MaxPrice
    /\ entry \in [price : 0..MaxPrice, ttl : BOOLEAN]
    /\ caller \in [Caller -> [at : {"idle", "query", "fill", "set", "del"}, price : 0..MaxPrice]]
    /\ updatedBy \in {"none", "set", "del"} /\ slipped \in BOOLEAN /\ cacheErrors \in 0..MaxCacheErrors

Stale == entry.price # 0 /\ entry.price < price

\* What staleness there is after an update has returned: an entry is stale only if it
\* was older than the row when it was stored (a fill or a write-through overtaken by a
\* later update) or if the Redis command of the update failed.  It bounds these cases,
\* it does not deny them: see SomeUpdateKeepsFresh.
StaleOnlyBySlip == Stale /\ (\A c \in Caller : ~Updating(c)) => slipped

\* "update the database and the cache in the same operation so the cache never serves a
\* stale price" (main.go), "Staleness window: none (next read reloads)" (README.md): after
\* updates of at least one of the two kinds, once they have returned, no read is stale.
FreshAfter(kind) == (updatedBy = kind /\ \A c \in Caller : ~Updating(c)) => ~Stale
SomeUpdateKeepsFresh == []FreshAfter("set") \/ []FreshAfter("del")

\* A stale price lasts as long as its TTL: once the updates are over, the entry
\* becomes the row's price or nothing, and stays so.
StaleEnds == <>[]~Stale
=============================================================================
