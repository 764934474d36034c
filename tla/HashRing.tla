------------------------------ MODULE HashRing ------------------------------
(***************************************************************************)
(* simulate_consistent_hashing: a ring of virtual nodes, the owner of each   *)
(* point, and the row the program wrote to the owner of a key.               *)
(* A small ring stands for the 32 bits of crc32; where the virtual nodes lie *)
(* on it is arbitrary, but no two share a point: those of node1..node4 do    *)
(* not.  Keys do not touch each other's rows, so one of them is followed.     *)
(***************************************************************************)
EXTENDS Integers, FiniteSets, FiniteSetsExt

CONSTANTS Node, Vnodes, Points,  \* nodes, virtual nodes of each, size of the ring
          Keys                   \* points on which the key may lie

Point == 0..Points - 1
None == "none"

VARIABLES
    hash,    \* per node: the points of its virtual nodes
    ring,    \* HashRing.ring: sorted, here a set
    owners,  \* HashRing.owners: the node of a point, or none
    nodes,   \* HashRing.nodes
    key,     \* the point of the key
    kv,      \* nodes whose table kv has a row of the key
    since    \* history, per such node: nodes added after it was last written as the owner

ringVars == <<hash, ring, owners, nodes, key, kv, since>>

Placements == {h \in [Node -> kSubset(Vnodes, Point)] :
                  \A n, m \in Node : n # m => h[n] \cap h[m] = {}}

Init ==
    /\ hash \in Placements
    /\ ring = {} /\ owners = [p \in Point |-> None] /\ nodes = {}
    /\ key \in Keys /\ kv = {} /\ since = [n \in Node |-> {}]

AddNode(n) ==
    /\ n \notin nodes /\ nodes' = nodes \cup {n}
    /\ ring' = ring \cup hash[n]
    /\ owners' = [p \in Point |-> IF p \in hash[n] THEN n ELSE owners[p]]
    /\ since' = [m \in Node |-> IF m \in kv THEN since[m] \cup {n} ELSE {}]
    /\ UNCHANGED <<hash, key, kv>>

\* Variant: the owners stay in their map.
OwnersKept(n) == owners

OwnersWithout(n) == [p \in Point |-> IF p \in ring /\ owners[p] = n THEN None ELSE owners[p]]

RemoveNode(n) ==
    /\ n \in nodes /\ nodes' = nodes \ {n}
    /\ ring' = {p \in ring : owners[p] # n}
    /\ owners' = OwnersWithout(n)
    /\ UNCHANGED <<hash, key, kv, since>>

\* Variant: past the last entry the search stays on it.
GetUnwrapped(k) ==
    LET onward == {p \in ring : p >= k} IN
    IF ring = {} THEN None ELSE owners[IF onward = {} THEN Max(ring) ELSE Min(onward)]

\* The first entry at or after the key, or the very first.
Get(k) ==
    LET onward == {p \in ring : p >= k} IN
    IF ring = {} THEN None ELSE owners[Min(IF onward = {} THEN ring ELSE onward)]

\* Every node's table is truncated, then the owner gets the row unless it has one.  Errors
\* are logged and passed over: some nodes keep what they had, the owner may get nothing.
WriteKeys ==
    /\ nodes # {}
    /\ \E kept \in SUBSET kv : kv' \in {kept, kept \cup {Get(key)}}
    /\ since' = [n \in Node |-> IF n \in kv' \ {Get(key)} THEN since[n] ELSE {}]
    /\ UNCHANGED <<hash, ring, owners, nodes, key>>

Next == (\E n \in Node : AddNode(n) \/ RemoveNode(n)) \/ WriteKeys

TypeOK ==
    /\ ring \subseteq Point /\ owners \in [Point -> nodes \cup {None}]
    /\ key \in Keys /\ kv \subseteq Node /\ nodes \subseteq Node /\ since \in [Node -> SUBSET Node]

\* The distance walked clockwise from the key, and the node met first.
Steps(k, p) == (p - k) % Points
Nearest(k) ==
    CHOOSE n \in nodes : \E p \in hash[n] :
        \A q \in UNION {hash[m] : m \in nodes} : Steps(k, p) <= Steps(k, q)

\* The owner of a key depends on the nodes of the ring alone, not on the order in which
\* others came and went; so a key leaves a node that has its row only for one that was
\* added since, or because that node left.  That holds too of the rows that an earlier
\* writing left on nodes which could not be truncated.
PlacementStable ==
    nodes # {} => /\ \A k \in Point : Get(k) = Nearest(k)
                  /\ \A n \in kv \cap nodes : Get(key) \in since[n] \cup {n}
=============================================================================
