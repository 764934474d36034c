---------------------------- MODULE RangeShards ----------------------------
(***************************************************************************)
(* simulate_range_based_sharding: orders on shards by the time they were     *)
(* created, a map of ranges in the memory of the one program that uses it,   *)
(* inserts that load one shard after the other, and splitRange, which moves  *)
(* rows with a transaction on each of two shards.                           *)
(*                                                                         *)
(* A row is its time and its customer modulo 2; log.Fatal ends the program   *)
(* and its map, and main starts over with empty tables.                     *)
(***************************************************************************)
EXTENDS Integers, Sequences, FiniteSets, FiniteSetsExt, SequencesExt

CONSTANTS MaxTime,   \* bound: times of rows, 0..MaxTime
          MaxLoads   \* bound: inserts and splits of one run of the program

Shard == {"shard1", "shard2", "shard3"}
Forever == MaxTime + 1   \* the zero time.Time as an upper end
Row == [at : 0..MaxTime, customer : {0, 1}]

VARIABLES
    stored,   \* per shard: its committed rows
    ranges,   \* Cluster.ranges
    call,     \* the call in progress
    loaded,   \* history: rows whose COPY was committed by an insert
    astray,   \* history: rows that a split took beyond the range, or left in it
    loads

rangeVars == <<stored, ranges, call, loaded, astray, loads>>

Idle == [at |-> "idle"]
NewRange(from, to, shards) == [from |-> from, to |-> to, shards |-> shards]

\* One range on the first shard and an open-ended one on the second; the third is unused.
FirstRanges == <<NewRange(0, 1, <<"shard1">>), NewRange(1, Forever, <<"shard2">>)>>

Init ==
    /\ stored = [s \in Shard |-> {}]
    /\ ranges = FirstRanges
    /\ call = Idle /\ loaded = {} /\ astray = {} /\ loads = 0

covers(r, t) == r.from <= t /\ t < r.to
RangeOf(t) == SelectInSeq(ranges, LAMBDA r : covers(r, t))
Route(row) == LET shards == ranges[RangeOf(row.at)].shards
              IN shards[(row.customer % Len(shards)) + 1]

\* The shards that a query of [from, to) visits.
overlaps(r, from, to) == from < r.to /\ to > r.from
ShardsFor(from, to) ==
    UNION {ToSet(ranges[i].shards) : i \in {j \in DOMAIN ranges : overlaps(ranges[j], from, to)}}

Begin(c) == call = Idle /\ loads < MaxLoads /\ loads' = loads + 1 /\ call' = c

(***************************************************************************)
(* insert: rows grouped by shard, one COPY per shard in any order.           *)
(***************************************************************************)
Insert(batch) ==
    /\ batch \cap loaded = {}
    /\ Begin([at |-> "insert", todo |-> batch])
    /\ UNCHANGED <<stored, ranges, loaded, astray>>

CopyFrom(s) ==
    /\ call.at = "insert"
    /\ LET rows == {r \in call.todo : Route(r) = s} IN
         /\ rows # {}
         /\ stored' = [stored EXCEPT ![s] = @ \cup rows]
         /\ loaded' = loaded \cup rows
         /\ call' = IF rows = call.todo THEN Idle ELSE [call EXCEPT !.todo = @ \ rows]
    /\ UNCHANGED <<ranges, astray, loads>>

(***************************************************************************)
(* splitRange.                                                             *)
(***************************************************************************)
\* The DELETE on the first shard of the range, in a transaction left open; it has no
\* upper end.  A cut at the range's own start leaves an empty range below it.
SplitRange(cut, new) ==
    LET i == RangeOf(cut)
        src == ranges[i].shards[1] IN
    /\ Begin([at |-> "copy", i |-> i, cut |-> cut, src |-> src, new |-> new,
              moved |-> {r \in stored[src] : r.at >= cut}])
    /\ UNCHANGED <<stored, ranges, loaded, astray>>

\* What is committed with each of the two transactions of a split.
Gone == [stored EXCEPT ![call.src] = @ \ call.moved]
Copied == [stored EXCEPT ![call.new] = @ \cup call.moved]

\* Variant: the DELETE commits before the COPY.
DeleteFirst(step) == IF step = 1 THEN Gone ELSE Copied

CopyFirst(step) == IF step = 1 THEN Copied ELSE Gone

\* Ids are primary keys: a COPY of rows to the shard that they come from waits for the open
\* DELETE, and so for ever.
CopyMoved ==
    /\ call.at = "copy" /\ (call.new = call.src => call.moved = {})
    /\ stored' = CopyFirst(1)
    /\ call' = [call EXCEPT !.at = "commit"]
    /\ UNCHANGED <<ranges, loaded, astray, loads>>

\* The source's COMMIT, and the map: the upper part goes to the new shard alone.
CommitSplit ==
    LET old == ranges[call.i]
        inside == {r \in Row : call.cut <= r.at /\ r.at < old.to}
        left == {r \in inside \ call.moved : \E s \in Shard \ {call.new} : r \in stored[s]} IN
    /\ call.at = "commit"
    /\ stored' = CopyFirst(2)
    /\ ranges' = ReplaceAt(SubSeq(ranges, 1, call.i), call.i, NewRange(old.from, call.cut, old.shards))
                   \o <<NewRange(call.cut, old.to, <<call.new>>)>>
                   \o SubSeq(ranges, call.i + 1, Len(ranges))
    /\ astray' = astray \cup (call.moved \ inside) \cup left
    /\ call' = Idle
    /\ UNCHANGED <<loaded, loads>>

\* The last range ends at a time no row has reached, and an open-ended one follows it that
\* is spread over two shards by customer.
SpreadNewest(cut, shards) ==
    LET last == Len(ranges) IN
    /\ call = Idle /\ cut > ranges[last].from /\ \A r \in loaded : r.at < cut
    /\ ranges' = Append(ReplaceAt(ranges, last, [ranges[last] EXCEPT !.to = cut]),
                        NewRange(cut, Forever, shards))
    /\ UNCHANGED <<stored, call, loaded, astray, loads>>

(***************************************************************************)
(* log.Fatal in the middle of a call, and the next run.                     *)
(***************************************************************************)
\* What was open is rolled back, or its COMMIT took effect and the answer was lost; or a
\* split at a time before every range panics.
Fatal ==
    /\ call.at # "ended"
    /\ \/ UNCHANGED stored
       \/ \E step \in 1..2 :
            /\ call.at = <<"copy", "commit">>[step] /\ stored' = CopyFirst(step)
            /\ call.new = call.src => call.moved = {}
    /\ call' = [at |-> "ended"]
    /\ UNCHANGED <<ranges, loaded, astray, loads>>

Restart ==
    /\ call.at = "ended"
    /\ stored' = [s \in Shard |-> {}] /\ ranges' = FirstRanges
    /\ call' = Idle /\ loaded' = {} /\ astray' = {} /\ loads' = 0

Next ==
    \/ \E batch \in SUBSET Row : Cardinality(batch) \in 1..2 /\ Insert(batch)
    \/ \E s \in Shard : CopyFrom(s)
    \/ \E cut \in 0..MaxTime, s \in Shard : SplitRange(cut, s)
    \/ CopyMoved \/ CommitSplit
    \/ \E cut \in 1..MaxTime : SpreadNewest(cut, <<"shard2", "shard3">>)
    \/ Fatal \/ Restart

TypeOK ==
    /\ \A s \in Shard : stored[s] \subseteq Row
    /\ ranges[1].from = 0 /\ ranges[Len(ranges)].to = Forever
    /\ \A i \in 1..Len(ranges) - 1 : ranges[i].to = ranges[i + 1].from
    /\ loaded \subseteq Row /\ astray \subseteq Row /\ loads \in 0..MaxLoads

\* A row that an insert committed is on some shard whatever fails; between calls it is on
\* one shard, the one its route leads to and a range query visits, but for rows that a
\* split took or left against the map.
RowsWhereRouted ==
    \A r \in loaded :
        LET on == {s \in Shard : r \in stored[s]} IN
        /\ on # {}
        /\ call = Idle /\ r \notin astray =>
             /\ on = {Route(r)}
             /\ \A from, to \in 0..Forever : from <= r.at /\ r.at < to =>
                  on \subseteq ShardsFor(from, to)

\* What splitRange says of itself: of the rows it takes along, none is beyond the end of the
\* range that is split.
OnlyRangeMoves ==
    call.at \in {"copy", "commit"} => \A r \in call.moved : r.at < ranges[call.i].to
=============================================================================
