---------------------------- MODULE MultiPrimary ----------------------------
(***************************************************************************)
(* simulate_multi_primary_replication: two writable nodes that subscribe to  *)
(* each other, a link that is cut and restored, disjoint identity sequences  *)
(* and last-writer-wins on a row that both update.                          *)
(*                                                                         *)
(* The containers share their host's clock, so a version of the account is   *)
(* its tick and its node; orders are their ids.                             *)
(***************************************************************************)
EXTENDS Integers, Sequences

CONSTANTS MaxUpdates, MaxOrders, MaxCuts  \* bounds: updates, orders per node, disabled subscriptions

Node == {1, 2}     \* NODE_ID of node_a and node_b
Peer(n) == 3 - n

VARIABLES
    account,   \* per node: its version of accounts[1]
    orderRows, \* per node: ids and writers of its orders
    given,     \* per node: ids its sequence has handed out
    slot,      \* per node: its own changes that the peer has not applied
    enabled,   \* nodes whose subscription is enabled
    guard,     \* nodes whose trigger accounts_lww is enabled
    clock,
    crossed,   \* history: an unguarded node has replaced a newer version by an older one
    cuts

multiVars == <<account, orderRows, given, slot, enabled, guard, clock, crossed, cuts>>

Older(v, w) == v.tick < w.tick \/ (v.tick = w.tick /\ v.by < w.by)
Drained == \A n \in Node : slot[n] = <<>>

Init ==
    /\ account = [n \in Node |-> [tick |-> 0, by |-> 1]]
    /\ orderRows = [n \in Node |-> {}] /\ given = [n \in Node |-> 0]
    /\ slot = [n \in Node |-> <<>>]
    /\ enabled = {} /\ guard = {}
    /\ clock = 0 /\ crossed = FALSE /\ cuts = 0

\* Variant: every node starts with 1.
NextIdShared(n) == 1 + 10 * given[n]

\* INSERT INTO orders: START WITH the node's number, INCREMENT BY 10.
NextId(n) == n + 10 * given[n]

InsertOrder(n) ==
    /\ given[n] < MaxOrders
    /\ LET order == [id |-> NextId(n), by |-> n] IN
         /\ orderRows' = [orderRows EXCEPT ![n] = @ \cup {order}]
         /\ slot' = [slot EXCEPT ![n] = Append(@, [order |-> order])]
    /\ given' = [given EXCEPT ![n] = @ + 1]
    /\ UNCHANGED <<account, enabled, guard, clock, crossed, cuts>>

\* UPDATE accounts, stamped with the clock; the trigger does not fire for local writes.
\* With nothing under way it is the re-sync of the row.
UpdateAccount(n) ==
    /\ clock < MaxUpdates /\ clock' \in {clock, clock + 1} \ {0}
    /\ LET version == [tick |-> clock', by |-> n] IN
         /\ version # account[n] /\ Older(account[n], version)
         /\ account' = [account EXCEPT ![n] = version]
         /\ slot' = [slot EXCEPT ![n] = Append(@, [account |-> version])]
    /\ crossed' = (crossed /\ ~Drained)
    /\ UNCHANGED <<orderRows, given, enabled, guard, cuts>>

\* lww_guard, as a REPLICA trigger.
Accepts(n, v) == n \in guard => ~Older(v, account[n])

\* Variant: the subscription takes changes of any origin.
ForwardedAgain(c) == <<c>>

\* origin = none: an applied change is not sent back.
Forwarded(c) == <<>>

\* The apply worker of n takes the oldest change of its peer; an INSERT whose id is taken
\* is an error that it meets again at every retry.
Apply(n) ==
    /\ n \in enabled /\ slot[Peer(n)] # <<>>
    /\ LET change == Head(slot[Peer(n)]) IN
         /\ slot' = [slot EXCEPT ![Peer(n)] = Tail(@), ![n] = @ \o Forwarded(change)]
         /\ IF "order" \in DOMAIN change
            THEN /\ \A o \in orderRows[n] : o.id # change.order.id
                 /\ orderRows' = [orderRows EXCEPT ![n] = @ \cup {change.order}]
                 /\ UNCHANGED <<account, crossed>>
            ELSE /\ account' = [account EXCEPT ![n] = IF Accepts(n, change.account)
                                                      THEN change.account ELSE @]
                 /\ crossed' = (crossed \/ (n \notin guard /\ Older(change.account, account[n])))
                 /\ UNCHANGED orderRows
    /\ UNCHANGED <<given, enabled, guard, clock, cuts>>

\* CREATE SUBSCRIPTION and ALTER SUBSCRIPTION ... ENABLE / DISABLE; the slot keeps changes.
Enable(n) ==
    /\ n \notin enabled /\ enabled' = enabled \cup {n}
    /\ UNCHANGED <<account, orderRows, given, slot, guard, clock, crossed, cuts>>

Disable(n) ==
    /\ n \in enabled /\ cuts < MaxCuts
    /\ enabled' = enabled \ {n} /\ cuts' = cuts + 1
    /\ UNCHANGED <<account, orderRows, given, slot, guard, clock, crossed>>

EnableGuard(n) ==
    /\ n \notin guard /\ guard' = guard \cup {n}
    /\ UNCHANGED <<account, orderRows, given, slot, enabled, clock, crossed, cuts>>

Next == \E n \in Node : \/ InsertOrder(n) \/ UpdateAccount(n) \/ Apply(n)
                        \/ Enable(n) \/ Disable(n) \/ EnableGuard(n)

\* What waits in a node's slot was written there.
Own(n) == \A i \in DOMAIN slot[n] :
              LET c == slot[n][i] IN IF "order" \in DOMAIN c THEN c.order.by = n ELSE c.account.by = n

TypeOK ==
    /\ \A n \in Node : account[n].tick \in 0..clock /\ account[n].by \in Node
    /\ \A n \in Node : given[n] \in 0..MaxOrders /\ Own(n)
    /\ enabled \subseteq Node /\ guard \subseteq Node /\ clock \in 0..MaxUpdates

\* Whenever all changes are delivered the nodes have the same orders and, unless an unguarded
\* node took an older version for a newer one, the same account; and no order is under way to
\* a node where its id is taken, which would stop that node's worker.
NodesAgree ==
    /\ Drained => orderRows[1] = orderRows[2] /\ (crossed \/ account[1] = account[2])
    /\ \A n \in Node : \A i \in DOMAIN slot[Peer(n)] :
         LET c == slot[Peer(n)][i]
         IN  "order" \in DOMAIN c => \A o \in orderRows[n] : o.id # c.order.id

\* Whatever was cut and however the updates crossed, the nodes end with the same orders
\* and, unless an unguarded node took an older version for a newer one, with the same
\* account: no change travels for ever, and no order stops a worker on its id.
NodesConverge ==
    <>[](Drained /\ orderRows[1] = orderRows[2] /\ (crossed \/ account[1] = account[2]))
=============================================================================
