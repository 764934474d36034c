------------------------- MODULE DerivedDataProofs -------------------------
(***************************************************************************)
(* Theorems about three programs of MCCopies that derive data from tables: a *)
(* cache, a summary table, and copies of columns.  A step of one program     *)
(* leaves the variables of the others alone, so each invariant is kept by    *)
(* the steps of its own program.                                           *)
(***************************************************************************)
EXTENDS MCCopies, SumTheorems

LEMMA Constants ==
  /\ MaxPrice \in Nat \ {0} /\ MaxCacheErrors \in Nat
  /\ MaxSales \in Nat /\ MaxAborts \in Nat
  BY CopiesAssumption DEF CopiesAssumption

(***************************************************************************)
(* query_caching.                                                          *)
(***************************************************************************)
LEMMA CacheSteps == [Next]_vars => Cache!Next \/ UNCHANGED cacheVars
  BY DEF Next, Others, vars

CacheInv == Cache!TypeOK /\ Cache!StaleOnlyBySlip

LEMMA CacheInit == Init => CacheInv
  <1> SUFFICES ASSUME Cache!Init PROVE CacheInv
    BY DEF Init
  <1> USE Constants
  <1>1. slipped \in BOOLEAN
    BY DEF Cache!Init
  <1> QED BY <1>1 DEF Cache!Init, CacheInv, Cache!TypeOK, Cache!NoEntry, Cache!NoCall,
                      Cache!StaleOnlyBySlip, Cache!Stale

LEMMA StoredEntry ==
  ASSUME Cache!TypeOK, NEW p \in 0..MaxPrice, Cache!SetEntry(p)
  PROVE  /\ entry' \in [price : 0..MaxPrice, ttl : BOOLEAN] /\ entry'.price = p
         /\ slipped' \in BOOLEAN
         /\ slipped' <=> p < price
  <1>1. entry' = [price |-> p, ttl |-> TRUE]
    BY DEF Cache!SetEntry
  <1>2. slipped' = (p < price)
    BY DEF Cache!SetEntry
  <1>3. (p < price) \in BOOLEAN
    BY SMT
  <1>4. slipped' \in BOOLEAN
    BY <1>2, <1>3, Zenon
  <1>5. slipped' <=> p < price
    BY <1>2, Zenon
  <1> QED BY <1>1, <1>4, <1>5

LEMMA CountedError ==
  ASSUME cacheErrors \in 0..MaxCacheErrors, Cache!Fails \/ UNCHANGED cacheErrors
  PROVE  cacheErrors' \in 0..MaxCacheErrors
  BY Constants DEF Cache!Fails

LEMMA CacheStep == CacheInv /\ [Next]_vars => CacheInv'
  <1> USE Constants
      DEF CacheInv, Cache!TypeOK, Cache!StaleOnlyBySlip, Cache!Stale, Cache!Updating
  <1> DEFINE Calls == [Caller -> [at : {"idle", "query", "fill", "set", "del"}, price : 0..MaxPrice]]
  <1> SUFFICES ASSUME CacheInv, Cache!Next PROVE CacheInv'
    BY CacheSteps DEF cacheVars
  <1>1. ASSUME NEW c \in Caller, Cache!Miss(c) PROVE CacheInv'
    <2>1. cacheErrors' \in 0..MaxCacheErrors
      BY <1>1, CountedError DEF Cache!Miss
    <2> QED BY <1>1, <2>1 DEF Cache!Miss, Cache!At
  <1>2. ASSUME NEW c \in Caller, Cache!Query(c) PROVE CacheInv'
    BY <1>2 DEF Cache!Query, Cache!At
  <1>3. ASSUME NEW c \in Caller, Cache!Fill(c) PROVE CacheInv'
    <2>1. /\ price' = price /\ updatedBy' = updatedBy /\ caller' \in Calls
          /\ \A o \in Caller : caller[o].at \in {"set", "del"} => caller'[o].at \in {"set", "del"}
      BY <1>3 DEF Cache!Fill, Cache!At
    <2>2. cacheErrors' \in 0..MaxCacheErrors
      BY <1>3, CountedError DEF Cache!Fill
    <2>3. CASE Cache!SetEntry(caller[c].price)
      BY <2>1, <2>2, <2>3, StoredEntry
    <2>4. CASE UNCHANGED <<entry, slipped>>
      BY <2>1, <2>2, <2>4
    <2> QED BY <1>3, <2>3, <2>4 DEF Cache!Fill
  <1>4. ASSUME NEW c \in Caller, NEW l \in {"set", "del"}, Cache!UpdateRow(c, l) PROVE CacheInv'
    BY <1>4 DEF Cache!UpdateRow, Cache!At
  <1>5. ASSUME NEW c \in Caller, Cache!WriteThrough(c) PROVE CacheInv'
    <2>1. price' = price /\ updatedBy' = updatedBy /\ caller' \in Calls
      BY <1>5 DEF Cache!WriteThrough, Cache!At
    <2>2. cacheErrors' \in 0..MaxCacheErrors
      BY <1>5, CountedError DEF Cache!WriteThrough
    <2>3. CASE Cache!SetEntry(caller[c].price)
      BY <2>1, <2>2, <2>3, StoredEntry
    <2>4. CASE slipped' = TRUE /\ UNCHANGED entry
      <3>1. slipped' \in BOOLEAN /\ slipped'
        BY <2>4, Zenon
      <3> QED BY <2>1, <2>2, <2>4, <3>1
    <2> QED BY <1>5, <2>3, <2>4 DEF Cache!WriteThrough
  <1>6. ASSUME NEW c \in Caller, Cache!Invalidate(c) PROVE CacheInv'
    <2>1. price' = price /\ updatedBy' = updatedBy /\ caller' \in Calls
      BY <1>6 DEF Cache!Invalidate, Cache!At
    <2>2. cacheErrors' \in 0..MaxCacheErrors
      BY <1>6, CountedError DEF Cache!Invalidate
    <2>3. CASE entry' = Cache!NoEntry /\ slipped' = FALSE
      <3>1. slipped' \in BOOLEAN
        BY <2>3, Zenon
      <3> QED BY <2>1, <2>2, <2>3, <3>1 DEF Cache!NoEntry
    <2>4. CASE slipped' = TRUE /\ UNCHANGED entry
      <3>1. slipped' \in BOOLEAN /\ slipped'
        BY <2>4, Zenon
      <3> QED BY <2>1, <2>2, <2>4, <3>1
    <2> QED BY <1>6, <2>3, <2>4 DEF Cache!Invalidate
  <1>7. CASE Cache!Expire
    <2>1. slipped' \in BOOLEAN
      BY <1>7, Zenon DEF Cache!Expire
    <2> QED BY <1>7, <2>1 DEF Cache!Expire, Cache!NoEntry
  <1> QED BY <1>1, <1>2, <1>3, <1>4, <1>5, <1>6, <1>7
          DEF Cache!Next, Cache!Call, Cache!Return, Cache!UpdatePriceWriteThrough,
              Cache!UpdatePriceInvalidate

\* For any number of callers and failing Redis commands, an entry of the cache is
\* older than the row, with no update under way, only if an older price was stored
\* after a newer one was committed, or the command that should have replaced it
\* failed.
THEOREM StaleEntriesSlipped == SafeSpec => []StaleOnlyBySlip
  <1>1. CacheInv => StaleOnlyBySlip
    BY DEF CacheInv, StaleOnlyBySlip
  <1> QED BY <1>1, CacheInit, CacheStep, PTL DEF SafeSpec

(***************************************************************************)
(* materialized_views.                                                     *)
(***************************************************************************)
LEMMA SalesSteps == [Next]_vars => Sales!Next \/ UNCHANGED salesVars
  BY DEF Next, Others, vars

\* The greatest of a set of numbers.
LEMMA MaxOfNumbers ==
  ASSUME NEW S \in SUBSET Nat, S # {}, NEW n \in Nat, \A x \in S : x <= n
  PROVE  Sales!Max(S) \in S /\ \A x \in S : x <= Sales!Max(S)
  <1> DEFINE U == {u \in Nat : \A x \in S : x <= u}
             LessThan == OpToRel(<, Nat)
  <1>1. U \subseteq Nat /\ U # {}
    OBVIOUS
  <1>2. IsWellFoundedOn(LessThan, Nat)
    BY NatLessThanWellFounded
  <1> HIDE DEF LessThan
  <1>3. PICK u \in U : \A v \in U : <<v, u>> \notin LessThan
    BY <1>1, <1>2, WFMin, Zenon
  <1>4. \A v \in U : ~(v < u)
    BY <1>1, <1>3 DEF OpToRel, LessThan
  <1>5. u \in S
    <2> SUFFICES ASSUME u \notin S PROVE FALSE
      OBVIOUS
    <2>1. \A x \in S : x <= u - 1
      OBVIOUS
    <2>2. u # 0
      <3>1. PICK x \in S : x \in Nat
        OBVIOUS
      <3> QED BY <2>1, <3>1
    <2>3. u - 1 \in U
      BY <2>1, <2>2
    <2> QED BY <1>4, <2>3
  <1>6. \E x \in S : \A y \in S : x >= y
    BY <1>5
  <1>7. Sales!Max(S) \in S /\ \A y \in S : Sales!Max(S) >= y
    BY <1>6 DEF Sales!Max
  <1> QED BY <1>7

\* Ids that have been handed out are committed or in an open INSERT.
Ids ==
    /\ sales \subseteq 1..saleSeq /\ \A w \in Caller : inserting[w] \subseteq 1..saleSeq
    /\ \A s \in 1..saleSeq : s \in sales \/ \E w \in Caller : s \in inserting[w]

\* One session's transaction.
Transaction == [at : {"idle", "locked", "bounded", "merged"},
                from : Nat, to : Nat, rows : SUBSET Sales!Sale]

SalesTypes == Sales!TypeOK /\ merger \in [Refresher -> Transaction]

\* The lock on agg_watermark admits one transaction, which works from its value up to an
\* id that was committed, and counts what its INSERT did not overtake.
Merging ==
    /\ \A r, o \in Refresher : merger[r].at # "idle" /\ merger[o].at # "idle" => r = o
    /\ watermark \in sales \cup {0}
    /\ \A r \in Refresher :
         LET m == merger[r] IN
         /\ m.at # "idle" => m.from = watermark
         /\ m.at \in {"bounded", "merged"} => m.to \in sales \cup {0} /\ m.from <= m.to
         /\ m.at = "merged" => /\ m.rows \subseteq m.from + 1..m.to
                               /\ (m.from + 1..m.to) \ m.rows \subseteq overtaken

Counted ==
    \A s \in Sales!Sale : /\ agg[s] <= (IF s <= watermark THEN 1 ELSE 0)
                          /\ s <= watermark /\ agg[s] = 0 => s \in overtaken

SalesInv == SalesTypes /\ Ids /\ Merging /\ Counted

LEMMA SalesInit == Init => SalesInv
  <1> SUFFICES ASSUME Sales!Init PROVE SalesInv
    BY DEF Init
  <1> QED BY Constants
          DEF Sales!Init, SalesInv, SalesTypes, Transaction, Sales!TypeOK, Sales!Sale, Sales!NoRefresh,
              Sales!NotMerging, Ids, Merging, Counted

\* INSERT and COMMIT.
LEMMA FactSteps ==
  ASSUME SalesInv, NEW w \in Caller, (\E n \in {1, 2} : Sales!InsertSales(w, n)) \/ Sales!CommitSales(w)
  PROVE  SalesInv'
  <1> USE Constants DEF Sales!Sale
  <1>0. /\ saleSeq \in 0..MaxSales /\ sales \subseteq 1..MaxSales
        /\ inserting \in [Caller -> SUBSET (1..MaxSales)]
    BY DEF SalesInv, SalesTypes, Sales!TypeOK
  <1>1. UNCHANGED <<mv, refresh, agg, watermark, merger, overtaken, aborts>>
    BY DEF Sales!InsertSales, Sales!CommitSales, Sales!summary
  <1>2. sales \subseteq sales'
    BY DEF Sales!InsertSales, Sales!CommitSales
  <1>3. Merging' /\ Counted'
    BY <1>1, <1>2 DEF SalesInv, Merging, Counted
  <1>4. ASSUME NEW n \in {1, 2}, Sales!InsertSales(w, n) PROVE SalesInv'
    <2>1. /\ saleSeq' = saleSeq + n /\ saleSeq' \in 0..MaxSales /\ sales' = sales
          /\ \A x \in Caller : inserting'[x] = IF x = w THEN saleSeq + 1..saleSeq + n ELSE inserting[x]
          /\ inserting' \in [Caller -> SUBSET (1..MaxSales)]
      BY <1>0, <1>4 DEF Sales!InsertSales
    <2>2. inserting[w] = {}
      BY <1>4 DEF Sales!InsertSales
    <2>3. Ids'
      BY <1>0, <2>1, <2>2 DEF SalesInv, Ids
    <2>4. SalesTypes'
      BY <1>1, <2>1 DEF SalesInv, SalesTypes, Sales!TypeOK
    <2> QED BY <1>3, <2>3, <2>4 DEF SalesInv
  <1>5. CASE Sales!CommitSales(w)
    <2>1. /\ saleSeq' = saleSeq /\ sales' = sales \cup inserting[w] /\ sales' \subseteq 1..MaxSales
          /\ \A x \in Caller : inserting'[x] = IF x = w THEN {} ELSE inserting[x]
          /\ inserting' \in [Caller -> SUBSET (1..MaxSales)]
      BY <1>0, <1>5 DEF Sales!CommitSales
    <2>2. Ids'
      BY <1>0, <2>1 DEF SalesInv, Ids
    <2>3. SalesTypes'
      BY <1>1, <2>1 DEF SalesInv, SalesTypes, Sales!TypeOK
    <2> QED BY <1>3, <2>2, <2>3 DEF SalesInv
  <1> QED BY <1>4, <1>5

\* Only its own session changes an entry of merger.
LEMMA StagedMerger ==
  ASSUME merger \in [Refresher -> Transaction], NEW r \in Refresher, NEW t \in Transaction,
         merger' = [merger EXCEPT ![r] = t]
  PROVE  /\ merger'[r] = t /\ \A o \in Refresher : o # r => merger'[o] = merger[o]
         /\ merger' \in [Refresher -> Transaction]
  OBVIOUS

LEMMA RefreshSteps ==
  ASSUME SalesInv, NEW r \in Refresher, Sales!IncrementalRefresh(r)
  PROVE  SalesInv'
  <1> USE Constants DEF Sales!Sale
  <1>0. /\ saleSeq \in 0..MaxSales /\ sales \subseteq 1..MaxSales /\ watermark \in 0..MaxSales
        /\ overtaken \subseteq 1..MaxSales /\ aborts \in 0..MaxAborts
        /\ inserting \in [Caller -> SUBSET (1..MaxSales)]
        /\ agg \in [1..MaxSales -> 0..MaxSales]
        /\ merger[r].at \in {"idle", "locked", "bounded", "merged"}
        /\ merger[r].from \in Nat /\ merger[r].to \in Nat /\ merger[r].rows \subseteq 1..MaxSales
        /\ merger \in [Refresher -> Transaction]
        /\ \A o \in Refresher : merger[o].from \in Nat /\ merger[o].from <= watermark
                                /\ merger[o].rows \subseteq sales
    BY DEF SalesInv, SalesTypes, Sales!TypeOK, Transaction
  <1>1. UNCHANGED <<sales, saleSeq, inserting, mv, refresh>>
    BY DEF Sales!IncrementalRefresh, Sales!LockWatermark, Sales!ReadMaxId, Sales!Merge,
       Sales!CommitMerge, Sales!AbortMerge, Sales!facts
  <1>2. Ids'
    BY <1>1 DEF SalesInv, Ids
  <1>3. CASE Sales!LockWatermark(r)
    <2>1. UNCHANGED <<agg, watermark, overtaken, aborts>>
      BY <1>3 DEF Sales!LockWatermark
    <2>2. merger' = [merger EXCEPT ![r] = [at |-> "locked", from |-> watermark, to |-> 0, rows |-> {}]]
          /\ \A o \in Refresher : merger[o].at = "idle"
      BY <1>3 DEF Sales!LockWatermark, Sales!Stage
    <2>3. /\ merger'[r] = [at |-> "locked", from |-> watermark, to |-> 0, rows |-> {}]
          /\ \A o \in Refresher : o # r => merger'[o] = merger[o]
          /\ merger' \in [Refresher -> Transaction]
      <3>1. [at |-> "locked", from |-> watermark, to |-> 0, rows |-> {}] \in Transaction
        BY <1>0 DEF Transaction
      <3> QED BY <1>0, <2>2, <3>1, StagedMerger
    <2>4. Merging'
      BY <1>1, <2>1, <2>2, <2>3 DEF SalesInv, Merging
    <2>5. SalesTypes'
      <3>1. \A o \in Refresher : merger'[o].from <= watermark' /\ merger'[o].rows \subseteq sales'
        <4> SUFFICES ASSUME NEW o \in Refresher
                     PROVE  merger'[o].from <= watermark' /\ merger'[o].rows \subseteq sales'
          OBVIOUS
        <4> QED BY <1>0, <1>1, <2>1, <2>3
      <3> QED BY <1>1, <2>1, <2>3, <3>1 DEF SalesInv, SalesTypes, Sales!TypeOK
    <2>6. Counted'
      BY <2>1 DEF SalesInv, Counted
    <2> QED BY <1>2, <2>4, <2>5, <2>6 DEF SalesInv
  <1>4. CASE Sales!ReadMaxId(r)
    <2> DEFINE top == Sales!Max(sales \cup {0})
    <2>1. UNCHANGED <<agg, watermark, overtaken, aborts>> /\ merger[r].at = "locked"
      BY <1>4 DEF Sales!ReadMaxId
    <2>2. top \in sales \cup {0} /\ \A s \in sales \cup {0} : s <= top
      <3>1. /\ sales \cup {0} \in SUBSET Nat /\ sales \cup {0} # {} /\ MaxSales \in Nat
            /\ \A x \in sales \cup {0} : x <= MaxSales
        BY <1>0
      <3> QED BY <3>1, MaxOfNumbers
    <2>3. merger' = [merger EXCEPT ![r] = [at |-> "bounded", from |-> merger[r].from, to |-> top,
                                           rows |-> {}]]
      BY <1>4 DEF Sales!ReadMaxId, Sales!Stage
    <2> HIDE DEF top
    <2>4. top \in Nat
      BY <1>0, <2>2
    <2>5. /\ merger'[r] = [at |-> "bounded", from |-> merger[r].from, to |-> top, rows |-> {}]
          /\ \A o \in Refresher : o # r => merger'[o] = merger[o]
          /\ merger' \in [Refresher -> Transaction]
      <3>1. [at |-> "bounded", from |-> merger[r].from, to |-> top, rows |-> {}] \in Transaction
        BY <1>0, <2>4 DEF Transaction
      <3> QED BY <1>0, <2>3, <3>1, StagedMerger
    <2>6. Merging'
      BY <1>1, <2>1, <2>2, <2>5 DEF SalesInv, Merging
    <2>7. SalesTypes'
      <3>1. \A o \in Refresher : merger'[o].from <= watermark' /\ merger'[o].rows \subseteq sales'
        <4> SUFFICES ASSUME NEW o \in Refresher
                     PROVE  merger'[o].from <= watermark' /\ merger'[o].rows \subseteq sales'
          OBVIOUS
        <4> QED BY <1>0, <1>1, <2>1, <2>5
      <3> QED BY <1>1, <2>1, <2>5, <3>1 DEF SalesInv, SalesTypes, Sales!TypeOK
    <2>8. Counted'
      BY <2>1 DEF SalesInv, Counted
    <2> QED BY <1>2, <2>6, <2>7, <2>8 DEF SalesInv
  <1>5. CASE Sales!Merge(r)
    <2> DEFINE range == merger[r].from + 1..merger[r].to
               open == UNION {inserting[w] : w \in Caller}
    <2>1. UNCHANGED <<agg, watermark, aborts>> /\ merger[r].at = "bounded"
          /\ overtaken' = overtaken \cup (range \cap open)
      BY <1>5 DEF Sales!Merge
    <2>2. merger' = [merger EXCEPT ![r] = [at |-> "merged", from |-> merger[r].from,
                                           to |-> merger[r].to, rows |-> sales \cap range]]
      BY <1>5 DEF Sales!Merge, Sales!Stage
    <2>3. range \subseteq 1..saleSeq
      <3>1. merger[r].to \in sales \cup {0} /\ sales \subseteq 1..saleSeq
        BY <2>1 DEF SalesInv, Ids, Merging
      <3> QED BY <1>0, <3>1
    <2>4. range \ sales \subseteq open
      BY <2>3 DEF SalesInv, Ids
    <2>5. /\ merger'[r] = [at |-> "merged", from |-> merger[r].from, to |-> merger[r].to,
                           rows |-> sales \cap range]
          /\ \A o \in Refresher : o # r => merger'[o] = merger[o]
          /\ merger' \in [Refresher -> Transaction]
      <3>1. [at |-> "merged", from |-> merger[r].from, to |-> merger[r].to,
             rows |-> sales \cap range] \in Transaction
        BY <1>0 DEF Transaction
      <3> QED BY <1>0, <2>2, <3>1, StagedMerger
    <2>6. Merging'
      <3>1. range \ (sales \cap range) \subseteq overtaken'
        BY <2>1, <2>4
      <3>2. \A o \in Refresher : o # r => merger[o].at = "idle"
        BY <2>1 DEF SalesInv, Merging
      <3>3. merger[r].from = watermark /\ merger[r].to \in sales \cup {0}
            /\ merger[r].from <= merger[r].to
        BY <2>1 DEF SalesInv, Merging
      <3>4. watermark' \in sales' \cup {0}
        BY <1>1, <2>1 DEF SalesInv, Merging
      <3> HIDE DEF open
      <3>5. \A o \in Refresher : merger'[o].at # "idle" => o = r
        BY <2>5, <3>2
      <3>6. merger'[r].rows \subseteq range /\ range \ merger'[r].rows \subseteq overtaken'
            /\ merger'[r].from = watermark' /\ merger'[r].to \in sales' \cup {0}
            /\ merger'[r].from <= merger'[r].to
            /\ range = merger'[r].from + 1..merger'[r].to
        BY <1>1, <2>1, <2>5, <3>1, <3>3
      <3> HIDE DEF range
      <3> QED BY <3>4, <3>5, <3>6 DEF Merging
    <2>7. overtaken' \subseteq 1..MaxSales
      <3> HIDE DEF open
      <3>1. range \subseteq 1..MaxSales
        BY <1>0, <2>3
      <3> HIDE DEF range
      <3> QED BY <1>0, <2>1, <3>1
    <2>8. SalesTypes'
      <3> HIDE DEF range, open
      <3>1. \A o \in Refresher : merger'[o].from <= watermark' /\ merger'[o].rows \subseteq sales'
        BY <1>1, <1>0, <2>1, <2>5 DEF SalesInv, SalesTypes, Sales!TypeOK
      <3> QED BY <1>1, <1>0, <2>1, <2>5, <2>7, <3>1 DEF SalesInv, SalesTypes, Sales!TypeOK
    <2>9. Counted'
      BY <2>1 DEF SalesInv, Counted
    <2> QED BY <1>2, <2>6, <2>8, <2>9 DEF SalesInv
  <1>6. CASE Sales!CommitMerge(r)
    <2> DEFINE m == merger[r]
    <2>1. /\ UNCHANGED <<overtaken, aborts>> /\ watermark' = m.to
          /\ agg' = [s \in 1..MaxSales |-> IF s \in m.rows THEN agg[s] + 1 ELSE agg[s]]
          /\ merger' = [merger EXCEPT ![r] = [at |-> "idle", from |-> 0, to |-> 0, rows |-> {}]]
      BY <1>6 DEF Sales!CommitMerge, Sales!NotMerging
    <2>2. /\ m.from = watermark /\ m.to \in sales \cup {0} /\ m.from <= m.to
          /\ m.rows \subseteq m.from + 1..m.to /\ (m.from + 1..m.to) \ m.rows \subseteq overtaken
          /\ \A o \in Refresher : o # r => merger[o].at = "idle"
      BY <1>6 DEF Sales!CommitMerge, SalesInv, Merging
    <2>3. /\ merger'[r] = [at |-> "idle", from |-> 0, to |-> 0, rows |-> {}]
          /\ \A o \in Refresher : o # r => merger'[o] = merger[o]
          /\ merger' \in [Refresher -> Transaction]
      <3>1. [at |-> "idle", from |-> 0, to |-> 0, rows |-> {}] \in Transaction
        BY DEF Transaction
      <3> QED BY <1>0, <2>1, <3>1, StagedMerger
    <2>4. Merging'
      BY <1>1, <2>1, <2>2, <2>3 DEF SalesInv, Merging
    <2>5. ASSUME NEW s \in 1..MaxSales
          PROVE  /\ agg'[s] <= (IF s <= watermark' THEN 1 ELSE 0)
                 /\ s <= watermark' /\ agg'[s] = 0 => s \in overtaken'
      <3>1. /\ agg[s] <= (IF s <= watermark THEN 1 ELSE 0) /\ agg[s] \in Nat
            /\ s <= watermark /\ agg[s] = 0 => s \in overtaken
        BY <1>0 DEF SalesInv, Counted
      <3>2. CASE s <= watermark
        BY <1>0, <2>1, <2>2, <3>1, <3>2
      <3>3. CASE s > watermark
        <4>1. agg[s] = 0 /\ m.to \in Nat /\ watermark \in Nat /\ m.from = watermark
          BY <1>0, <2>2, <3>1, <3>3
        <4>2. s \in m.rows => s <= m.to
          BY <2>2, <4>1
        <4>3. s <= m.to /\ s \notin m.rows => s \in overtaken
          BY <2>2, <3>3, <4>1
        <4>4. agg'[s] = IF s \in m.rows THEN 1 ELSE 0
          BY <2>1, <4>1
        <4> QED BY <2>1, <4>1, <4>2, <4>3, <4>4
      <3> QED BY <1>0, <3>2, <3>3
    <2>6. Counted'
      BY <2>5 DEF Counted
    <2>7. agg' \in [1..MaxSales -> 0..MaxSales]
      BY <1>0, <2>1, <2>5
    <2>8. watermark' \in 0..MaxSales /\ \A o \in Refresher : merger'[o].from <= watermark'
      <3>1. m.to \in 0..MaxSales /\ watermark <= m.to
        <4>1. \A x \in sales \cup {0} : x \in 0..MaxSales
          BY <1>0
        <4> QED BY <2>2, <4>1
      <3> SUFFICES ASSUME NEW o \in Refresher PROVE merger'[o].from <= m.to
        BY <2>1, <3>1
      <3>2. CASE o = r
        BY <2>3, <3>1, <3>2
      <3>3. CASE o # r
        <4>1. merger'[o].from \in Nat /\ merger'[o].from <= watermark
          BY <1>0, <2>3, <3>3
        <4> QED BY <1>0, <3>1, <4>1
      <3> QED BY <3>2, <3>3
    <2>9. SalesTypes'
      BY <1>0, <1>1, <2>1, <2>3, <2>7, <2>8 DEF SalesInv, SalesTypes, Sales!TypeOK
    <2> QED BY <1>2, <2>4, <2>6, <2>9 DEF SalesInv
  <1>7. CASE Sales!AbortMerge(r)
    <2>1. /\ UNCHANGED <<agg, watermark, overtaken>> /\ aborts' \in 0..MaxAborts
          /\ merger' = [merger EXCEPT ![r] = [at |-> "idle", from |-> 0, to |-> 0, rows |-> {}]]
      BY <1>0, <1>7 DEF Sales!AbortMerge, Sales!NotMerging
    <2>2. /\ merger'[r] = [at |-> "idle", from |-> 0, to |-> 0, rows |-> {}]
          /\ \A o \in Refresher : o # r => merger'[o] = merger[o]
          /\ merger' \in [Refresher -> Transaction]
      <3>1. [at |-> "idle", from |-> 0, to |-> 0, rows |-> {}] \in Transaction
        BY DEF Transaction
      <3> QED BY <1>0, <2>1, <3>1, StagedMerger
    <2>3. Merging'
      BY <1>1, <2>1, <2>2 DEF SalesInv, Merging
    <2>4. SalesTypes'
      BY <1>0, <1>1, <2>1, <2>2 DEF SalesInv, SalesTypes, Sales!TypeOK
    <2>5. Counted'
      BY <2>1 DEF SalesInv, Counted
    <2> QED BY <1>2, <2>3, <2>4, <2>5 DEF SalesInv
  <1> QED BY <1>3, <1>4, <1>5, <1>6, <1>7 DEF Sales!IncrementalRefresh

LEMMA SalesStep == SalesInv /\ [Next]_vars => SalesInv'
  <1> USE DEF SalesInv, SalesTypes, Sales!TypeOK, Ids, Merging, Counted
  <1>1. CASE UNCHANGED salesVars
    BY <1>1 DEF salesVars
  <1>2. ASSUME SalesInv, NEW mode \in {"plain", "concurrent"}, Sales!Refresh(mode) PROVE SalesInv'
    BY <1>2 DEF Sales!Refresh, Sales!facts, Sales!summary
  <1>3. ASSUME SalesInv, Sales!EndRefresh PROVE SalesInv'
    BY <1>3 DEF Sales!EndRefresh, Sales!facts, Sales!summary, Sales!NoRefresh
  <1> QED BY <1>1, <1>2, <1>3, SalesSteps, FactSteps, RefreshSteps
          DEF Sales!Next, Sales!PeriodicRefresh

\* For any writers, refreshing sessions, open INSERTs and aborted transactions:
\* incrementalRefresh adds no sale twice and none above the watermark, and skips one below
\* it only if its INSERT was open when the MERGE passed its id.
THEOREM SalesCountedOnce == SafeSpec => []SummaryCountsOnce
  <1>1. SalesInv => SummaryCountsOnce
    BY DEF SalesInv, Counted, SummaryCountsOnce, Sales!SummaryCountsOnce
  <1> QED BY <1>1, SalesInit, SalesStep, PTL DEF SafeSpec

(***************************************************************************)
(* denormalization.                                                        *)
(***************************************************************************)
LEMMA TotalsSteps == [Next]_vars => Totals!Next \/ UNCHANGED totalsVars
  BY DEF Next, Others, vars

LEMMA TotalsConstants ==
  MaxRenames \in Nat /\ MaxQty \in Nat /\ MaxMiscounts \in Nat /\ IsFiniteSet(Item)
  BY CopiesAssumption DEF CopiesAssumption

Placing == [at : {"placing"}, order : Order, name : 0..MaxRenames]
Renaming == [at : {"renamed"}, fanout : SUBSET Order]
Changing == [at : {"item"}, order : Order, item : Item, qty : 0..MaxQty, delta : Int,
             next : {"idle", "on"}]
WorkState == [at : {"idle", "off", "on", "dead"}] \cup Placing \cup Renaming \cup Changing
RepairState ==
  {Totals!NoRepair}
    \cup [on : {TRUE}, sums : UNION {[D -> Int] : D \in SUBSET Order}, done : SUBSET Order]

TotalOf(o) == SumOf(items[o], Item)
Busy(s, kind) == session[s].at = kind

TotalsTypes ==
  /\ custName \in 0..MaxRenames /\ insTrigger \in BOOLEAN
  /\ orders \in [Order -> [name : Int, total : Int]]
  /\ \A o \in Order : orders[o] = Totals!NoOrder \/ orders[o].name \in 0..custName
  /\ items \in [Order -> [Item -> 0..MaxQty]]
  /\ session \in [Session -> WorkState] /\ repair \in RepairState
  /\ raced \subseteq Order /\ miscounted \subseteq Order /\ touched \subseteq Order
  /\ miscounts \in 0..MaxMiscounts

\* An order that is being placed is placed by one session, and nothing has counted for it.
PlacedByOne ==
  /\ \A s \in Session : Busy(s, "placing") =>
       session[s].order \notin Totals!Placed /\ session[s].name \in 0..custName
  /\ \A s, x \in Session :
       Busy(s, "placing") /\ Busy(x, "placing") /\ session[s].order = session[x].order => s = x
  /\ \A o \in Order \ Totals!Placed : items[o] = [i \in Item |-> 0]

\* One rename runs at a time; what its UPDATE does not see, or has read the old name,
\* overlaps it.
RenameSees ==
  /\ \A s, x \in Session : Busy(s, "renamed") /\ Busy(x, "renamed") => s = x
  /\ \A s \in Session : Busy(s, "placing") =>
       session[s].name = custName \/ session[s].order \in raced
  /\ \A s \in Session : Busy(s, "renamed") =>
       /\ custName < MaxRenames /\ session[s].fanout \subseteq Totals!Placed
       /\ \A o \in Totals!Placed : o \in session[s].fanout \/ o \in raced
       /\ \A x \in Session : Busy(x, "placing") => session[x].order \in raced

\* A change of an item that is not committed is the only one of that item; it adds to the
\* total what it will change, or is counted wrong; a repair that runs meets it.
ChangesCounted ==
  /\ \A s, x \in Session :
       Busy(s, "item") /\ Busy(x, "item") /\ session[s].order = session[x].order
         /\ session[s].item = session[x].item => s = x
  /\ \A s \in Session : Busy(s, "item") =>
       LET w == session[s] IN
         /\ w.order \in Totals!Placed
         /\ w.delta = w.qty - items[w.order][w.item] \/ w.order \in miscounted
         /\ repair.on => w.order \in touched

\* The sums of a repair are those of its orders, but for the ones that changed since.
RepairKnows ==
  repair.on =>
    /\ repair.done \subseteq DOMAIN repair.sums /\ DOMAIN repair.sums \subseteq Totals!Placed
    /\ \A o \in DOMAIN repair.sums : repair.sums[o] = TotalOf(o) \/ o \in touched

TotalsMatch == \A o \in Totals!Placed : orders[o].total = TotalOf(o) \/ o \in miscounted

TotalsInv ==
  /\ TotalsTypes /\ PlacedByOne /\ RenameSees /\ ChangesCounted /\ RepairKnows
  /\ TotalsMatch /\ Totals!NamesFollow

LEMMA WorkFields ==
  ASSUME TotalsTypes, NEW s \in Session
  PROVE  /\ Busy(s, "placing") => session[s].order \in Order /\ session[s].name \in 0..MaxRenames
         /\ Busy(s, "renamed") => session[s].fanout \in SUBSET Order
         /\ Busy(s, "item") => /\ session[s].order \in Order /\ session[s].item \in Item
                               /\ session[s].qty \in 0..MaxQty /\ session[s].delta \in Int
                               /\ session[s].next \in {"idle", "on"}
         /\ Busy(s, "idle") <=> session[s] = Totals!NoWork
  BY DEF TotalsTypes, Busy, WorkState, Placing, Renaming, Changing, Totals!NoWork

LEMMA SumIsTotal == \A o : Totals!Sum(o) = TotalOf(o)
  BY Zenon DEF Totals!Sum, Totals!MapThenSumSet, Totals!MapThenFoldSet, TotalOf, SumOf, Adds, Pick

LEMMA RepairFields ==
  ASSUME TotalsTypes, repair.on
  PROVE  /\ repair \in [on : {TRUE}, sums : UNION {[D -> Int] : D \in SUBSET Order}, done : SUBSET Order]
         /\ repair.done \in SUBSET Order /\ DOMAIN repair.sums \in SUBSET Order
         /\ \A o \in DOMAIN repair.sums : repair.sums[o] \in Int
  <1>1. repair # Totals!NoRepair
    BY DEF Totals!NoRepair
  <1>2. repair \in [on : {TRUE}, sums : UNION {[D -> Int] : D \in SUBSET Order}, done : SUBSET Order]
    BY <1>1 DEF TotalsTypes, RepairState
  <1>3. PICK D \in SUBSET Order : repair.sums \in [D -> Int]
    BY <1>2
  <1> QED BY <1>2, <1>3

LEMMA TotalsInit == Init => TotalsInv
  <1> SUFFICES ASSUME Totals!Init PROVE TotalsInv
    BY DEF Init
  <1> USE DEF Totals!Init
  <1>1. TotalsTypes
    BY TotalsConstants DEF TotalsTypes, WorkState, RepairState, Totals!NoWork, Totals!NoOrder
  <1>2. Totals!Placed = {}
    BY DEF Totals!Placed
  <1>3. \A s \in Session : session[s].at = "idle"
    BY DEF Totals!NoWork
  <1>4. ~repair.on
    BY DEF Totals!NoRepair
  <1>5. PlacedByOne /\ RenameSees /\ ChangesCounted /\ RepairKnows
    BY <1>2, <1>3, <1>4 DEF PlacedByOne, RenameSees, ChangesCounted, RepairKnows, Busy
  <1>6. TotalsMatch /\ Totals!NamesFollow
    BY <1>2 DEF TotalsMatch, Totals!NamesFollow
  <1> QED BY <1>1, <1>5, <1>6 DEF TotalsInv

\* What a step of one session leaves to the others.
LEMMA SessionMoves ==
  ASSUME TotalsTypes, NEW s \in Session, NEW w \in WorkState, session' = [session EXCEPT ![s] = w]
  PROVE  /\ session' \in [Session -> WorkState] /\ session'[s] = w
         /\ \A x \in Session : x # s => session'[x] = session[x]
  BY DEF TotalsTypes

\* A session starts or ends something that has no order.
LEMMA ApartKeeps ==
  ASSUME TotalsInv, NEW s \in Session, NEW at \in {"idle", "off", "on", "dead"},
         session' = [session EXCEPT ![s] = [at |-> at]], insTrigger' \in BOOLEAN,
         UNCHANGED <<custName, orders, items, repair, raced, miscounted, touched, miscounts>>
  PROVE  TotalsInv'
  <1> USE DEF TotalsInv
  <1> DEFINE w == [at |-> at]
  <1>1. w \in WorkState
    BY DEF WorkState
  <1>2. /\ session' \in [Session -> WorkState] /\ session'[s] = w
        /\ \A x \in Session : x # s => session'[x] = session[x]
    BY <1>1, SessionMoves
  <1>3. \A x \in Session : /\ session'[x].at \in {"placing", "renamed", "item"} => session'[x] = session[x]
    BY <1>2
  <1>4. TotalsTypes'
    BY <1>2 DEF TotalsTypes
  <1>5. Totals!Placed' = Totals!Placed /\ \A o : TotalOf(o)' = TotalOf(o)
    BY DEF Totals!Placed, TotalOf
  <1> HIDE DEF w
  <1>6. PlacedByOne'
    BY <1>3, <1>5 DEF PlacedByOne, Busy
  <1>7. RenameSees'
    BY <1>3, <1>5 DEF RenameSees, Busy
  <1>8. ChangesCounted'
    BY <1>3, <1>5 DEF ChangesCounted, Busy
  <1>9. RepairKnows' /\ TotalsMatch' /\ Totals!NamesFollow'
    BY <1>5 DEF RepairKnows, TotalsMatch, Totals!NamesFollow
  <1> QED BY <1>4, <1>6, <1>7, <1>8, <1>9

LEMMA InsertOrderKeeps ==
  ASSUME TotalsInv, NEW s \in Session, NEW o \in Order, Totals!InsertOrder(s, o)
  PROVE  TotalsInv'
  <1> USE DEF TotalsInv
  <1> DEFINE w == [at |-> "placing", order |-> o, name |-> custName]
  <1>1. /\ o \notin Totals!Placed /\ session' = [session EXCEPT ![s] = w] /\ session[s].at = "idle"
        /\ \A x \in Session : Busy(x, "placing") => session[x].order # o
        /\ raced \subseteq raced' /\ raced' \subseteq raced \cup {o}
        /\ (\E x \in Session : Busy(x, "renamed")) => o \in raced'
        /\ UNCHANGED <<custName, orders, items, insTrigger, repair, miscounted, touched, miscounts>>
    BY DEF Totals!InsertOrder, Totals!Begin, Totals!At, Totals!NoWork, Busy
  <1>2. w \in WorkState
    BY TotalsConstants DEF WorkState, Placing, TotalsTypes
  <1>3. /\ session' \in [Session -> WorkState] /\ session'[s] = w
        /\ \A x \in Session : x # s => session'[x] = session[x]
    BY <1>1, <1>2, SessionMoves
  <1>4. w.at = "placing" /\ w.order = o /\ w.name = custName
    OBVIOUS
  <1> HIDE DEF w
  <1>5. TotalsTypes'
    BY <1>1, <1>3 DEF TotalsTypes
  <1>6. Totals!Placed' = Totals!Placed /\ \A x : TotalOf(x)' = TotalOf(x)
    BY <1>1 DEF Totals!Placed, TotalOf
  <1>7. PlacedByOne'
    <2>1. custName \in 0..custName
      BY DEF TotalsTypes
    <2> QED BY <1>1, <1>3, <1>4, <1>6, <2>1 DEF PlacedByOne, Busy
  <1>8. RenameSees'
    BY <1>1, <1>3, <1>4, <1>6 DEF RenameSees, Busy
  <1>9. ChangesCounted'
    BY <1>1, <1>3, <1>4, <1>6 DEF ChangesCounted, Busy
  <1>10. RepairKnows' /\ TotalsMatch' /\ Totals!NamesFollow'
    BY <1>1, <1>6 DEF RepairKnows, TotalsMatch, Totals!NamesFollow
  <1> QED BY <1>5, <1>7, <1>8, <1>9, <1>10

\* The sum of an order whose one item changes.
Counts(o, i, q) ==
  /\ items' \in [Order -> [Item -> 0..MaxQty]] /\ items'[o][i] = q
  /\ \A x \in Order, j \in Item : (x # o \/ j # i) => items'[x][j] = items[x][j]
  /\ \A x \in Order : x # o => items'[x] = items[x] /\ TotalOf(x)' = TotalOf(x)
  /\ TotalOf(o) \in Int /\ TotalOf(o)' = TotalOf(o) + q - items[o][i]

LEMMA TotalChanges ==
  ASSUME TotalsTypes, NEW o \in Order, NEW i \in Item, NEW q \in 0..MaxQty,
         items' = [items EXCEPT ![o][i] = q]
  PROVE  Counts(o, i, q)
  <1>1. /\ items' \in [Order -> [Item -> 0..MaxQty]] /\ items'[o][i] = q
        /\ \A x \in Order, j \in Item : (x # o \/ j # i) => items'[x][j] = items[x][j]
        /\ \A x \in Order : x # o => items'[x] = items[x]
    BY DEF TotalsTypes
  <1> DEFINE w == items[o]
             v == items'[o]
  <1>2. \A j \in Item : w[j] \in Int
    BY TotalsConstants DEF TotalsTypes
  <1>3. (\A j \in Item \ {i} : v[j] = w[j]) /\ v[i] = q /\ q \in Int
    BY <1>1, TotalsConstants
  <1> HIDE DEF w, v
  <1>4. SumOf(v, Item) = SumOf(w, Item) + v[i] - w[i]
    BY <1>2, <1>3, TotalsConstants, SumChange
  <1>5. SumOf(w, Item) \in Int
    BY <1>2, TotalsConstants, SumType
  <1>6. TotalOf(o) \in Int /\ TotalOf(o)' = TotalOf(o) + q - items[o][i]
    BY <1>3, <1>4, <1>5 DEF TotalOf, w, v
  <1>7. \A x \in Order : x # o => TotalOf(x)' = TotalOf(x)
    BY <1>1 DEF TotalOf
  <1> QED BY <1>1, <1>6, <1>7 DEF Counts

LEMMA CommitOrderKeeps ==
  ASSUME TotalsInv, NEW s \in Session, NEW i \in Item, NEW q \in 1..MaxQty,
         Totals!CommitOrder(s, i, q)
  PROVE  TotalsInv'
  <1> USE DEF TotalsInv
  <1>0. PICK o : o = session[s].order
    OBVIOUS
  <1> DEFINE sum == IF insTrigger THEN q ELSE 0
             row == [name |-> session[s].name, total |-> sum]
  <1>1. /\ Busy(s, "placing") /\ session' = [session EXCEPT ![s] = Totals!NoWork]
        /\ orders' = [orders EXCEPT ![o] = row] /\ items' = [items EXCEPT ![o][i] = q]
        /\ miscounted' = (IF insTrigger THEN miscounted ELSE miscounted \cup {o})
        /\ UNCHANGED <<custName, insTrigger, repair, raced, touched, miscounts>>
    BY <1>0 DEF Totals!CommitOrder, Totals!End, Busy
  <1>2. /\ o \in Order /\ session[s].name \in 0..custName /\ o \notin Totals!Placed
        /\ items[o] = [j \in Item |-> 0] /\ q \in 0..MaxQty /\ q \in Int
    BY <1>0, <1>1, WorkFields, TotalsConstants DEF PlacedByOne
  <1>3. /\ session' \in [Session -> WorkState] /\ session'[s] = Totals!NoWork
        /\ \A x \in Session : x # s => session'[x] = session[x]
    <2>1. Totals!NoWork \in WorkState
      BY DEF Totals!NoWork, WorkState
    <2> QED BY <1>1, <2>1, SessionMoves
  <1>4. \A x \in Session : session'[x].at \in {"placing", "renamed", "item"} => x # s /\ session'[x] = session[x]
    BY <1>3 DEF Totals!NoWork
  <1>5. /\ items' \in [Order -> [Item -> 0..MaxQty]] /\ items'[o][i] = q
        /\ \A x \in Order, j \in Item : (x # o \/ j # i) => items'[x][j] = items[x][j]
        /\ \A x \in Order : x # o => items'[x] = items[x] /\ TotalOf(x)' = TotalOf(x)
        /\ TotalOf(o) \in Int /\ TotalOf(o)' = TotalOf(o) + q - items[o][i]
    BY <1>1, <1>2, TotalChanges DEF Counts
  <1>6. TotalOf(o)' = q
    <2>1. TotalOf(o) = 0
      BY <1>2, TotalsConstants, SumZero DEF TotalOf
    <2> QED BY <1>2, <1>5, <2>1
  <1>7. row \in [name : Int, total : Int] /\ row.name = session[s].name /\ row.total = sum
    BY <1>2, TotalsConstants DEF TotalsTypes
  <1>8. /\ orders' \in [Order -> [name : Int, total : Int]] /\ orders'[o] = row
        /\ \A x \in Order : x # o => orders'[x] = orders[x]
    BY <1>1, <1>2, <1>7 DEF TotalsTypes
  <1> HIDE DEF row
  <1>9. row # Totals!NoOrder
    BY <1>2, <1>7 DEF Totals!NoOrder, TotalsTypes
  <1>10. Totals!Placed' = Totals!Placed \cup {o}
    BY <1>2, <1>8, <1>9 DEF Totals!Placed
  <1>11. TotalsTypes'
    BY <1>1, <1>2, <1>3, <1>5, <1>7, <1>8 DEF TotalsTypes
  <1>12. PlacedByOne'
    BY <1>0, <1>1, <1>2, <1>4, <1>5, <1>10 DEF PlacedByOne, Busy
  <1>13. RenameSees'
    BY <1>0, <1>1, <1>2, <1>4, <1>10 DEF RenameSees, Busy
  <1>14. ChangesCounted'
    <2>1. \A x \in Session : Busy(x, "item") => session[x].order \in Order /\ session[x].item \in Item
      BY WorkFields
    <2> QED BY <1>1, <1>2, <1>4, <1>5, <1>10, <2>1 DEF ChangesCounted, Busy
  <1>15. RepairKnows'
    BY <1>1, <1>2, <1>5, <1>10, RepairFields DEF RepairKnows
  <1>16. TotalsMatch'
    <2>1. \A x \in Totals!Placed : x \in Order
      BY DEF Totals!Placed
    <2>2. orders'[o].total = TotalOf(o)' \/ o \in miscounted'
      BY <1>1, <1>6, <1>7, <1>8
    <2> QED BY <1>1, <1>2, <1>5, <1>8, <1>10, <2>1, <2>2 DEF TotalsMatch
  <1>17. Totals!NamesFollow'
    <2>1. \A x \in Totals!Placed : x \in Order
      BY DEF Totals!Placed
    <2> QED BY <1>0, <1>1, <1>2, <1>7, <1>8, <1>10, <2>1 DEF Totals!NamesFollow, RenameSees
  <1> QED BY <1>11, <1>12, <1>13, <1>14, <1>15, <1>16, <1>17

LEMMA RenameKeeps ==
  ASSUME TotalsInv, NEW s \in Session, Totals!Rename(s) PROVE TotalsInv'
  <1> USE DEF TotalsInv
  <1> DEFINE w == [at |-> "renamed", fanout |-> Totals!Placed]
  <1>1. /\ custName < MaxRenames /\ session' = [session EXCEPT ![s] = w] /\ session[s].at = "idle"
        /\ \A x \in Session : ~Busy(x, "renamed")
        /\ raced' = raced \cup {session[x].order : x \in Totals!At("placing")}
        /\ UNCHANGED <<custName, orders, items, insTrigger, repair, miscounted, touched, miscounts>>
    BY DEF Totals!Rename, Totals!Begin, Totals!Fanout, Totals!At, Totals!NoWork, Busy
  <1>2. w \in WorkState
    BY DEF WorkState, Renaming, Totals!Placed
  <1>3. /\ session' \in [Session -> WorkState] /\ session'[s] = w
        /\ \A x \in Session : x # s => session'[x] = session[x]
    BY <1>1, <1>2, SessionMoves
  <1>4. w.at = "renamed" /\ w.fanout = Totals!Placed
    OBVIOUS
  <1> HIDE DEF w
  <1>5. raced' \subseteq Order /\ raced \subseteq raced'
    BY <1>1, WorkFields DEF Totals!At, Busy, TotalsTypes
  <1>6. \A x \in Session : Busy(x, "placing") => session[x].order \in raced'
    BY <1>1 DEF Totals!At, Busy
  <1>7. TotalsTypes'
    BY <1>1, <1>3, <1>5 DEF TotalsTypes
  <1>8. Totals!Placed' = Totals!Placed /\ \A x : TotalOf(x)' = TotalOf(x)
    BY <1>1 DEF Totals!Placed, TotalOf
  <1>9. \A x \in Session : session'[x].at \in {"placing", "item"} => x # s /\ session'[x] = session[x]
    BY <1>3, <1>4
  <1>10. PlacedByOne'
    BY <1>1, <1>8, <1>9 DEF PlacedByOne, Busy
  <1>11. RenameSees'
    BY <1>1, <1>3, <1>4, <1>5, <1>6, <1>8, <1>9 DEF RenameSees, Busy
  <1>12. ChangesCounted'
    BY <1>1, <1>8, <1>9 DEF ChangesCounted, Busy
  <1>13. RepairKnows' /\ TotalsMatch' /\ Totals!NamesFollow'
    BY <1>1, <1>5, <1>8 DEF RepairKnows, TotalsMatch, Totals!NamesFollow
  <1> QED BY <1>7, <1>10, <1>11, <1>12, <1>13

LEMMA CommitRenameKeeps ==
  ASSUME TotalsInv, NEW s \in Session, Totals!CommitRename(s) PROVE TotalsInv'
  <1> USE DEF TotalsInv
  <1>0. PICK F : F = session[s].fanout
    OBVIOUS
  <1>1. /\ Busy(s, "renamed") /\ session' = [session EXCEPT ![s] = Totals!NoWork]
        /\ custName' = custName + 1 /\ raced' = raced \ F
        /\ orders' = [o \in Order |-> IF o \in F THEN [orders[o] EXCEPT !.name = custName + 1]
                                      ELSE orders[o]]
        /\ UNCHANGED <<items, insTrigger, repair, miscounted, touched, miscounts>>
    BY <1>0 DEF Totals!CommitRename, Totals!End, Busy
  <1>2. /\ custName \in Int /\ custName + 1 \in 0..MaxRenames /\ F \subseteq Totals!Placed
        /\ \A o \in Totals!Placed : o \in F \/ o \in raced
        /\ \A x \in Session : Busy(x, "placing") => session[x].order \in raced
    BY <1>0, <1>1, TotalsConstants DEF TotalsTypes, RenameSees
  <1>3. /\ session' \in [Session -> WorkState] /\ session'[s] = Totals!NoWork
        /\ \A x \in Session : x # s => session'[x] = session[x]
    <2>1. Totals!NoWork \in WorkState
      BY DEF Totals!NoWork, WorkState
    <2> QED BY <1>1, <2>1, SessionMoves
  <1>4. \A x \in Session : session'[x].at \in {"placing", "renamed", "item"} => x # s /\ session'[x] = session[x]
    BY <1>3 DEF Totals!NoWork
  <1>5. \A o \in Order : /\ o \in F => orders'[o] = [orders[o] EXCEPT !.name = custName + 1]
                         /\ o \notin F => orders'[o] = orders[o]
    BY <1>1
  <1>6. \A o \in Order : /\ orders'[o] \in [name : Int, total : Int]
                         /\ orders'[o].total = orders[o].total
                         /\ o \in F => orders'[o].name = custName + 1
    <2> SUFFICES ASSUME NEW o \in Order
                 PROVE  /\ orders'[o] \in [name : Int, total : Int]
                        /\ orders'[o].total = orders[o].total
                        /\ o \in F => orders'[o].name = custName + 1
      OBVIOUS
    <2>1. orders[o] \in [name : Int, total : Int] /\ custName + 1 \in Int
      BY <1>2 DEF TotalsTypes
    <2>2. CASE o \in F
      <3>1. orders'[o] = [orders[o] EXCEPT !.name = custName + 1]
        BY <1>5, <2>2
      <3> HIDE DEF TotalsInv
      <3> QED BY <2>1, <3>1
    <2>3. CASE o \notin F
      BY <1>5, <2>1, <2>3
    <2> QED BY <2>2, <2>3
  <1>7. \A o \in Order : orders'[o] = Totals!NoOrder <=> orders[o] = Totals!NoOrder
    <2> SUFFICES ASSUME NEW o \in Order, o \in F PROVE orders'[o] # Totals!NoOrder /\ orders[o] # Totals!NoOrder
      BY <1>5
    <2>1. orders[o] # Totals!NoOrder
      BY <1>2 DEF Totals!Placed
    <2>2. custName + 1 # -1
      BY <1>2, TotalsConstants
    <2> QED BY <1>6, <2>1, <2>2 DEF Totals!NoOrder
  <1>8. Totals!Placed' = Totals!Placed /\ \A x : TotalOf(x)' = TotalOf(x)
    BY <1>1, <1>7 DEF Totals!Placed, TotalOf
  <1>9. TotalsTypes'
    <2>1. \A o \in Order : orders'[o] = Totals!NoOrder \/ orders'[o].name \in 0..custName'
      BY <1>1, <1>2, <1>5, <1>6, TotalsConstants DEF TotalsTypes
    <2>2. orders' \in [Order -> [name : Int, total : Int]]
      BY <1>1, <1>6
    <2> HIDE DEF TotalsInv
    <2> QED BY <1>1, <1>2, <1>3, <2>1, <2>2 DEF TotalsInv, TotalsTypes
  <1>10. PlacedByOne'
    BY <1>1, <1>2, <1>4, <1>8, TotalsConstants DEF PlacedByOne, Busy
  <1>11. RenameSees'
    <2>1. \A x \in Session : ~Busy(x, "renamed")'
      BY <1>1, <1>4 DEF RenameSees, Busy
    <2>2. \A x \in Session : Busy(x, "placing")' => session'[x].order \in raced'
      BY <1>1, <1>2, <1>4 DEF Busy, PlacedByOne
    <2> QED BY <2>1, <2>2 DEF RenameSees
  <1>12. ChangesCounted'
    BY <1>1, <1>4, <1>8 DEF ChangesCounted, Busy
  <1>13. RepairKnows'
    BY <1>1, <1>8 DEF RepairKnows
  <1>14. TotalsMatch' /\ Totals!NamesFollow'
    <2>1. \A x \in Totals!Placed : x \in Order
      BY DEF Totals!Placed
    <2> QED BY <1>1, <1>2, <1>6, <1>8, <2>1 DEF TotalsMatch, Totals!NamesFollow
  <1> QED BY <1>9, <1>10, <1>11, <1>12, <1>13, <1>14

\* A statement on an item, whose trigger adds d to the order, is counted right or recorded.
LEMMA BeginChangeKeeps ==
  ASSUME TotalsInv, NEW s \in Session, NEW o \in Totals!Placed, NEW i \in Item, NEW q \in 0..MaxQty,
         NEW d \in Int, NEW next_ \in {"idle", "on"}, ~Totals!ItemLocked(o, i),
         session' = [session EXCEPT ![s] = [at |-> "item", order |-> o, item |-> i, qty |-> q,
                                            delta |-> d, next |-> next_]],
         session[s].at \in {"idle", "off"},
         touched' = touched \cup {o},
         \/ Totals!Miscount(o)
         \/ d = q - items[o][i] /\ UNCHANGED <<miscounted, miscounts>>,
         UNCHANGED <<custName, orders, items, insTrigger, repair, raced>>
  PROVE  TotalsInv'
  <1> USE DEF TotalsInv
  <1> DEFINE w == [at |-> "item", order |-> o, item |-> i, qty |-> q, delta |-> d, next |-> next_]
  <1>1. o \in Order
    BY DEF Totals!Placed
  <1>2. w \in WorkState
    BY <1>1 DEF WorkState, Changing
  <1>3. /\ session' \in [Session -> WorkState] /\ session'[s] = w
        /\ \A x \in Session : x # s => session'[x] = session[x]
    BY <1>2, SessionMoves
  <1>4. w.at = "item" /\ w.order = o /\ w.item = i /\ w.qty = q /\ w.delta = d
    OBVIOUS
  <1> HIDE DEF w
  <1>5. /\ miscounted \subseteq miscounted' /\ miscounted' \subseteq Order
        /\ miscounts' \in 0..MaxMiscounts /\ (d = q - items[o][i] \/ o \in miscounted')
    BY <1>1, TotalsConstants DEF Totals!Miscount, TotalsTypes
  <1>6. TotalsTypes'
    BY <1>1, <1>3, <1>5 DEF TotalsTypes
  <1>7. Totals!Placed' = Totals!Placed /\ \A x : TotalOf(x)' = TotalOf(x)
    BY DEF Totals!Placed, TotalOf
  <1>8. \A x \in Session : session'[x].at \in {"placing", "renamed"} => x # s /\ session'[x] = session[x]
    BY <1>3, <1>4
  <1>9. PlacedByOne'
    BY <1>7, <1>8 DEF PlacedByOne, Busy
  <1>10. RenameSees'
    BY <1>7, <1>8 DEF RenameSees, Busy
  <1>11. ChangesCounted'
    <2>1. \A x \in Session : Busy(x, "item") => ~(session[x].order = o /\ session[x].item = i)
      BY DEF Totals!ItemLocked, Totals!At, Busy
    <2>2. ASSUME NEW x \in Session, NEW y \in Session, Busy(x, "item")', Busy(y, "item")',
                 session'[x].order = session'[y].order, session'[x].item = session'[y].item
          PROVE  x = y
      BY <1>3, <1>4, <2>1, <2>2 DEF ChangesCounted, Busy
    <2>3. ASSUME NEW x \in Session, Busy(x, "item")'
          PROVE  LET v == session'[x] IN
                   /\ v.order \in Totals!Placed
                   /\ v.delta = v.qty - items[v.order][v.item] \/ v.order \in miscounted'
                   /\ repair.on => v.order \in touched'
      <3>1. CASE x = s
        BY <1>3, <1>4, <1>5, <3>1
      <3>2. CASE x # s
        <4>1. session'[x] = session[x] /\ Busy(x, "item")
          BY <1>3, <2>3, <3>2 DEF Busy
        <4> QED BY <1>5, <4>1 DEF ChangesCounted
      <3> QED BY <3>1, <3>2
    <2> HIDE DEF TotalsInv
    <2> QED BY <1>7, <2>2, <2>3 DEF ChangesCounted
  <1>12. RepairKnows' /\ TotalsMatch' /\ Totals!NamesFollow'
    BY <1>5, <1>7 DEF RepairKnows, TotalsMatch, Totals!NamesFollow
  <1> QED BY <1>6, <1>9, <1>10, <1>11, <1>12

LEMMA DeltaCounts ==
  ASSUME TotalsTypes, NEW old \in 0..MaxQty, NEW new \in 0..MaxQty
  PROVE  Totals!Delta(old, new) \in Int /\ (Totals!Delta(old, new) # 0 => Totals!Delta(old, new) = new - old)
  BY TotalsConstants DEF Totals!Delta

LEMMA ChangeItemKeeps ==
  ASSUME TotalsInv, NEW s \in Session, NEW o \in Order, NEW i \in Item, NEW q \in 0..MaxQty,
         Totals!ChangeItem(s, o, i, q)
  PROVE  TotalsInv'
  <1> DEFINE d == Totals!Delta(items[o][i], q)
  <1>1. /\ o \in Totals!Placed /\ ~Totals!ItemLocked(o, i) /\ session[s].at = "idle"
        /\ session' = [session EXCEPT ![s] = [at |-> "item", order |-> o, item |-> i, qty |-> q,
                                              delta |-> d, next |-> "idle"]]
        /\ touched' = touched \cup {o}
        /\ UNCHANGED <<custName, orders, items, insTrigger, repair, raced>>
        /\ d = 0 => Totals!Miscount(o)
        /\ d # 0 => UNCHANGED <<miscounted, miscounts>>
    BY DEF Totals!ChangeItem, Totals!Begin, Totals!NoWork
  <1>2. d \in Int /\ (d # 0 => d = q - items[o][i])
    <2>1. items[o][i] \in 0..MaxQty
      BY DEF TotalsInv, TotalsTypes
    <2> QED BY <2>1, DeltaCounts DEF TotalsInv
  <1> HIDE DEF d
  <1> QED BY <1>1, <1>2, BeginChangeKeeps

LEMMA WriteUntriggeredKeeps ==
  ASSUME TotalsInv, NEW s \in Session, NEW o \in Order, NEW i \in Item, NEW q \in 1..MaxQty,
         NEW d \in 0..MaxQty, Totals!WriteUntriggered(s, o, i, q, d)
  PROVE  TotalsInv'
  <1> DEFINE added == d + Totals!Delta(0, q)
  <1>1. /\ o \in Totals!Placed /\ ~Totals!ItemLocked(o, i) /\ session[s].at = "off" /\ items[o][i] = 0
        /\ session' = [session EXCEPT ![s] = [at |-> "item", order |-> o, item |-> i, qty |-> q,
                                              delta |-> added, next |-> "on"]]
        /\ touched' = touched \cup {o}
        /\ UNCHANGED <<custName, orders, items, insTrigger, repair, raced>>
        /\ added # q => Totals!Miscount(o)
        /\ added = q => UNCHANGED <<miscounted, miscounts>>
    BY DEF Totals!WriteUntriggered
  <1>2. q \in 0..MaxQty /\ q \in Int /\ d \in Int /\ 0 \in 0..MaxQty
    BY TotalsConstants
  <1>3. added \in Int
    <2>1. Totals!Delta(0, q) \in Int
      BY <1>2, DeltaCounts DEF TotalsInv
    <2> QED BY <1>2, <2>1
  <1> HIDE DEF added
  <1>4. added = q => added = q - items[o][i]
    BY <1>1, <1>2
  <1> QED BY <1>1, <1>2, <1>3, <1>4, BeginChangeKeeps

LEMMA CommitItemKeeps ==
  ASSUME TotalsInv, NEW s \in Session, Totals!CommitItem(s) PROVE TotalsInv'
  <1> USE DEF TotalsInv
  <1>0. PICK w, o, i : w = session[s] /\ o = w.order /\ i = w.item
    OBVIOUS
  <1> DEFINE sum == orders[o].total + w.delta
             done == [at |-> w.next]
  <1>1. /\ Busy(s, "item") /\ session' = [session EXCEPT ![s] = done]
        /\ items' = [items EXCEPT ![o][i] = w.qty]
        /\ orders' = [orders EXCEPT ![o].total = sum]
        /\ UNCHANGED <<custName, insTrigger, repair, raced, miscounted, touched, miscounts>>
    BY <1>0 DEF Totals!CommitItem, Totals!history, Busy
  <1>2. /\ o \in Order /\ i \in Item /\ w.qty \in 0..MaxQty /\ w.delta \in Int
        /\ w.next \in {"idle", "on"} /\ o \in Totals!Placed
        /\ w.delta = w.qty - items[o][i] \/ o \in miscounted
        /\ repair.on => o \in touched
        /\ orders[o].total \in Int /\ items[o][i] \in Int /\ w.qty \in Int
    <2>1. /\ o \in Order /\ i \in Item /\ w.qty \in 0..MaxQty /\ w.delta \in Int
          /\ w.next \in {"idle", "on"}
      BY <1>0, <1>1, WorkFields
    <2>2. /\ o \in Totals!Placed /\ (w.delta = w.qty - items[o][i] \/ o \in miscounted)
          /\ repair.on => o \in touched
      BY <1>0, <1>1 DEF ChangesCounted
    <2>3. orders[o].total \in Int /\ items[o][i] \in Int /\ w.qty \in Int
      BY <2>1, TotalsConstants DEF TotalsTypes
    <2> QED BY <2>1, <2>2, <2>3
  <1>3. /\ session' \in [Session -> WorkState] /\ session'[s] = done
        /\ \A x \in Session : x # s => session'[x] = session[x]
    <2>1. done \in WorkState
      BY <1>2 DEF WorkState
    <2> HIDE DEF done
    <2> QED BY <1>1, <2>1, SessionMoves
  <1>4. \A x \in Session : session'[x].at \in {"placing", "renamed", "item"} => x # s /\ session'[x] = session[x]
    BY <1>2, <1>3
  <1>5. /\ items' \in [Order -> [Item -> 0..MaxQty]] /\ items'[o][i] = w.qty
        /\ \A x \in Order, j \in Item : (x # o \/ j # i) => items'[x][j] = items[x][j]
        /\ \A x \in Order : x # o => items'[x] = items[x] /\ TotalOf(x)' = TotalOf(x)
        /\ TotalOf(o) \in Int /\ TotalOf(o)' = TotalOf(o) + w.qty - items[o][i]
    <2>1. PICK q \in 0..MaxQty : q = w.qty
      BY <1>2
    <2>2. Counts(o, i, q)
      <3>1. items' = [items EXCEPT ![o][i] = q] /\ o \in Order /\ i \in Item /\ TotalsTypes
        BY <1>1, <1>2, <2>1
      <3> HIDE DEF TotalsInv
      <3> QED BY <3>1, TotalChanges
    <2> HIDE DEF TotalsInv
    <2> QED BY <2>1, <2>2 DEF Counts
  <1>6. sum \in Int
    BY <1>2
  <1> HIDE DEF sum, done
  <1>7. /\ orders' \in [Order -> [name : Int, total : Int]]
        /\ orders'[o].name = orders[o].name /\ orders'[o].total = sum
        /\ \A x \in Order : x # o => orders'[x] = orders[x]
    BY <1>1, <1>2, <1>6 DEF TotalsTypes
  <1>8. orders[o].name \in 0..custName /\ orders[o] # Totals!NoOrder /\ orders'[o] # Totals!NoOrder
    <2>1. orders[o] # Totals!NoOrder
      BY <1>2 DEF Totals!Placed
    <2>2. orders[o].name \in 0..custName
      BY <1>2, <2>1 DEF TotalsTypes
    <2> QED BY <1>7, <2>1, <2>2 DEF TotalsTypes, Totals!NoOrder
  <1>9. Totals!Placed' = Totals!Placed
    BY <1>7, <1>8 DEF Totals!Placed
  <1>10. TotalsTypes'
    BY <1>1, <1>3, <1>5, <1>7, <1>8 DEF TotalsTypes
  <1>11. PlacedByOne'
    BY <1>1, <1>2, <1>4, <1>5, <1>9 DEF PlacedByOne, Busy
  <1>12. RenameSees'
    BY <1>1, <1>4, <1>9 DEF RenameSees, Busy
  <1>13. ChangesCounted'
    <2>1. ASSUME NEW x \in Session, x # s, Busy(x, "item")
          PROVE  items'[session[x].order][session[x].item] = items[session[x].order][session[x].item]
      <3>1. session[x].order \in Order /\ session[x].item \in Item
        BY <2>1, WorkFields
      <3>2. session[x].order # o \/ session[x].item # i
        BY <1>0, <1>1, <2>1 DEF ChangesCounted
      <3> QED BY <1>5, <3>1, <3>2
    <2> QED BY <1>1, <1>4, <1>9, <2>1 DEF ChangesCounted, Busy
  <1>14. RepairKnows'
    BY <1>1, <1>2, <1>5, <1>9, RepairFields DEF RepairKnows
  <1>15. TotalsMatch'
    <2>1. \A x \in Totals!Placed : x \in Order
      BY DEF Totals!Placed
    <2>2. orders'[o].total = TotalOf(o)' \/ o \in miscounted
      <3>1. orders[o].total = TotalOf(o) \/ o \in miscounted
        BY <1>2 DEF TotalsMatch
      <3> QED BY <1>2, <1>5, <1>7, <3>1 DEF sum
    <2> QED BY <1>1, <1>5, <1>7, <1>9, <2>1, <2>2 DEF TotalsMatch
  <1>16. Totals!NamesFollow'
    <2>1. \A x \in Totals!Placed : x \in Order
      BY DEF Totals!Placed
    <2> QED BY <1>1, <1>7, <1>9, <2>1 DEF Totals!NamesFollow
  <1> QED BY <1>10, <1>11, <1>12, <1>13, <1>14, <1>15, <1>16

LEMMA ReconcileKeeps ==
  ASSUME TotalsInv, Totals!Reconcile PROVE TotalsInv'
  <1> USE DEF TotalsInv
  <1> DEFINE drifted == {o \in Totals!Placed : Totals!Sum(o) \notin {0, orders[o].total}}
             sums == [o \in drifted |-> Totals!Sum(o)]
  <1>1. /\ repair' = [on |-> TRUE, sums |-> sums, done |-> {}]
        /\ touched' = {session[s].order : s \in Totals!At("item")}
        /\ UNCHANGED <<custName, orders, items, insTrigger, session, raced, miscounted, miscounts>>
    BY DEF Totals!Reconcile
  <1>2. \A o \in Order : TotalOf(o) \in Int
    <2> SUFFICES ASSUME NEW o \in Order PROVE TotalOf(o) \in Int
      OBVIOUS
    <2>1. \A i \in Item : items[o][i] \in Int
      BY TotalsConstants DEF TotalsTypes
    <2> QED BY <2>1, TotalsConstants, SumType DEF TotalOf
  <1>3. /\ drifted \subseteq Totals!Placed /\ drifted \in SUBSET Order /\ sums \in [drifted -> Int]
        /\ \A o \in drifted : sums[o] = TotalOf(o)
    <2>1. drifted \subseteq Totals!Placed /\ drifted \in SUBSET Order
      BY DEF Totals!Placed
    <2>2. \A o \in drifted : Totals!Sum(o) = TotalOf(o) /\ TotalOf(o) \in Int
      BY <1>2, <2>1, SumIsTotal
    <2> HIDE DEF drifted
    <2> QED BY <2>1, <2>2
  <1>4. DOMAIN sums = drifted
    OBVIOUS
  <1> HIDE DEF sums, drifted
  <1>5. touched' \subseteq Order /\ \A s \in Session : Busy(s, "item") => session[s].order \in touched'
    BY <1>1, WorkFields DEF Totals!At, Busy
  <1>6. repair' \in RepairState
    BY <1>1, <1>3 DEF RepairState
  <1>7. TotalsTypes'
    BY <1>1, <1>5, <1>6 DEF TotalsTypes
  <1>8. Totals!Placed' = Totals!Placed /\ \A x : TotalOf(x)' = TotalOf(x)
    BY <1>1 DEF Totals!Placed, TotalOf
  <1>9. PlacedByOne' /\ RenameSees'
    BY <1>1, <1>8 DEF PlacedByOne, RenameSees, Busy
  <1>10. ChangesCounted'
    BY <1>1, <1>5, <1>8 DEF ChangesCounted, Busy
  <1>11. RepairKnows'
    BY <1>1, <1>3, <1>4, <1>8 DEF RepairKnows
  <1>12. TotalsMatch' /\ Totals!NamesFollow'
    BY <1>1, <1>8 DEF TotalsMatch, Totals!NamesFollow
  <1> QED BY <1>7, <1>9, <1>10, <1>11, <1>12

LEMMA RepairOrderKeeps ==
  ASSUME TotalsInv, NEW o \in Order, Totals!RepairOrder(o) PROVE TotalsInv'
  <1> USE DEF TotalsInv
  <1>1. /\ repair.on /\ o \in DOMAIN repair.sums
        /\ repair' = [repair EXCEPT !.done = repair.done \cup {o}]
        /\ UNCHANGED <<custName, orders, items, insTrigger, session, raced, miscounted, touched, miscounts>>
    BY DEF Totals!RepairOrder, Totals!history
  <1>2. repair' \in RepairState /\ repair'.on /\ repair'.sums = repair.sums /\ repair'.done = repair.done \cup {o}
    BY <1>1, RepairFields DEF RepairState
  <1>3. Totals!Placed' = Totals!Placed /\ \A x : TotalOf(x)' = TotalOf(x)
    BY <1>1 DEF Totals!Placed, TotalOf
  <1>4. TotalsTypes'
    BY <1>1, <1>2 DEF TotalsTypes
  <1>5. PlacedByOne' /\ RenameSees' /\ ChangesCounted'
    BY <1>1, <1>3 DEF PlacedByOne, RenameSees, ChangesCounted, Busy
  <1>6. RepairKnows'
    BY <1>1, <1>2, <1>3 DEF RepairKnows
  <1>7. TotalsMatch' /\ Totals!NamesFollow'
    BY <1>1, <1>3 DEF TotalsMatch, Totals!NamesFollow
  <1> QED BY <1>4, <1>5, <1>6, <1>7

LEMMA EndReconcileKeeps ==
  ASSUME TotalsInv, Totals!EndReconcile PROVE TotalsInv'
  <1> USE DEF TotalsInv
  <1>0. PICK D, sums : D = repair.done /\ sums = repair.sums
    OBVIOUS
  <1>1. /\ repair.on /\ D = DOMAIN sums /\ repair' = Totals!NoRepair
        /\ orders' = [o \in Order |-> IF o \in D THEN [orders[o] EXCEPT !.total = sums[o]] ELSE orders[o]]
        /\ miscounted' = (miscounted \ D) \cup (D \cap touched)
        /\ UNCHANGED <<custName, items, insTrigger, session, raced, touched, miscounts>>
    BY <1>0 DEF Totals!EndReconcile
  <1>2. /\ D \subseteq Totals!Placed /\ D \subseteq Order
        /\ \A o \in D : sums[o] \in Int /\ (sums[o] = TotalOf(o) \/ o \in touched)
    BY <1>0, <1>1, RepairFields DEF RepairKnows, Totals!Placed
  <1>3. \A o \in Order : /\ orders'[o] \in [name : Int, total : Int]
                         /\ orders'[o].name = orders[o].name
                         /\ o \in D => orders'[o].total = sums[o]
                         /\ o \notin D => orders'[o] = orders[o]
    <2> SUFFICES ASSUME NEW o \in Order
                 PROVE  /\ orders'[o] \in [name : Int, total : Int]
                        /\ orders'[o].name = orders[o].name
                        /\ o \in D => orders'[o].total = sums[o]
                        /\ o \notin D => orders'[o] = orders[o]
      OBVIOUS
    <2>1. orders[o] \in [name : Int, total : Int]
      BY DEF TotalsTypes
    <2>2. CASE o \in D
      <3>1. orders'[o] = [orders[o] EXCEPT !.total = sums[o]] /\ sums[o] \in Int
        BY <1>1, <1>2, <2>2
      <3> HIDE DEF TotalsInv
      <3> QED BY <2>1, <2>2, <3>1
    <2>3. CASE o \notin D
      BY <1>1, <2>1, <2>3
    <2> QED BY <2>2, <2>3
  <1>4. \A o \in Order : orders'[o] = Totals!NoOrder <=> orders[o] = Totals!NoOrder
    <2> SUFFICES ASSUME NEW o \in D PROVE orders'[o] # Totals!NoOrder /\ orders[o] # Totals!NoOrder
      BY <1>3
    <2>1. o \in Order /\ orders[o] # Totals!NoOrder
      BY <1>2 DEF Totals!Placed
    <2>2. orders[o].name \in 0..custName
      BY <2>1 DEF TotalsTypes
    <2> QED BY <1>3, <2>1, <2>2 DEF Totals!NoOrder, TotalsTypes
  <1>5. Totals!Placed' = Totals!Placed /\ \A x : TotalOf(x)' = TotalOf(x)
    BY <1>1, <1>4 DEF Totals!Placed, TotalOf
  <1>6. TotalsTypes'
    <2>1. orders' \in [Order -> [name : Int, total : Int]]
      BY <1>1, <1>3
    <2>2. \A o \in Order : orders'[o] = Totals!NoOrder \/ orders'[o].name \in 0..custName'
      BY <1>1, <1>3, <1>4 DEF TotalsTypes
    <2> QED BY <1>1, <2>1, <2>2 DEF TotalsTypes, RepairState
  <1>7. PlacedByOne' /\ RenameSees'
    BY <1>1, <1>5 DEF PlacedByOne, RenameSees, Busy
  <1>8. ChangesCounted'
    BY <1>0, <1>1, <1>5 DEF ChangesCounted, Busy, Totals!NoRepair
  <1>9. RepairKnows'
    BY <1>1 DEF RepairKnows, Totals!NoRepair
  <1>10. TotalsMatch' /\ Totals!NamesFollow'
    <2>1. \A x \in Totals!Placed : x \in Order
      BY DEF Totals!Placed
    <2> QED BY <1>1, <1>2, <1>3, <1>5, <2>1 DEF TotalsMatch, Totals!NamesFollow
  <1> QED BY <1>6, <1>7, <1>8, <1>9, <1>10

LEMMA TotalsStep == TotalsInv /\ [Next]_vars => TotalsInv'
  <1> SUFFICES ASSUME TotalsInv, Totals!Next \/ UNCHANGED totalsVars PROVE TotalsInv'
    BY TotalsSteps
  <1>1. CASE UNCHANGED totalsVars
    BY <1>1 DEF totalsVars, TotalsInv, TotalsTypes, PlacedByOne, RenameSees, ChangesCounted,
                RepairKnows, TotalsMatch, Totals!NamesFollow, Totals!Placed, TotalOf, Busy
  <1>2. ASSUME NEW s \in Session,
               Totals!DisableTrigger(s) \/ Totals!EnableTrigger(s) \/ Totals!Fatal(s) \/ Totals!Reset(s)
        PROVE  TotalsInv'
    <2>1. /\ \E at \in {"idle", "off", "on", "dead"} : session' = [session EXCEPT ![s] = [at |-> at]]
          /\ insTrigger' \in BOOLEAN
          /\ UNCHANGED <<custName, orders, items, repair, raced, miscounted, touched, miscounts>>
      BY <1>2 DEF Totals!DisableTrigger, Totals!EnableTrigger, Totals!Fatal, Totals!Reset, Totals!Begin,
                  Totals!End, Totals!NoWork, Totals!history, TotalsInv, TotalsTypes
    <2> QED BY <2>1, ApartKeeps
  <1>3. CASE Totals!Next
    BY <1>2, <1>3, InsertOrderKeeps, CommitOrderKeeps, RenameKeeps, CommitRenameKeeps,
       ChangeItemKeeps, WriteUntriggeredKeeps, CommitItemKeeps, ReconcileKeeps,
       RepairOrderKeeps, EndReconcileKeeps DEF Totals!Next
  <1> QED BY <1>1, <1>3

\* denormalization: every total is the sum over its items and every copy of a name the name,
\* whatever transactions, the trigger-off path and the repair overlap, but for the orders
\* that the model names as overtaken.
THEOREM CopiesStayExact == SafeSpec => []CopiesExact
  <1>1. TotalsInv => CopiesExact
    BY SumIsTotal DEF TotalsInv, TotalsMatch, CopiesExact, Totals!TotalsExact
  <1> QED BY <1>1, TotalsInit, TotalsStep, PTL DEF SafeSpec
=============================================================================
