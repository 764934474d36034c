----------------------------- MODULE OrderTotals -----------------------------
(***************************************************************************)
(* simulate_denormalization: orders carry copies of their customer's name    *)
(* and of the sum over their items.  Triggers keep the copies; one code path *)
(* turns a trigger off and keeps the sum itself; a query repairs the sums.   *)
(*                                                                         *)
(* There is one customer, whose name is the number of its renames; the       *)
(* quantity of an item is its amount, and the sum stands for count and total.*)
(***************************************************************************)
EXTENDS Integers, FiniteSets, FiniteSetsExt

CONSTANTS Order, Item, Session,
          MaxRenames, MaxQty, MaxMiscounts  \* bounds: renames, quantity, inserts counted wrong

VARIABLES
    custName,   \* customers.name
    orders,     \* customer_name and total of each committed order
    items,      \* order_items: quantity of each item of an order, 0 for no row
    insTrigger, \* order_items_ins is enabled
    session,    \* per session: its open transaction, or its step of the trigger-off path
    repair,     \* the running reconciliation: the sums its snapshot found for drifted orders
    raced,      \* history: orders placed while a rename was open
    miscounted,   \* history: orders with an insert added to the sum not at all or twice
    touched,    \* history: orders whose items changed since the repair's snapshot
    miscounts

totalsVars == <<custName, orders, items, insTrigger, session, repair, raced, miscounted, touched, miscounts>>
history == <<raced, miscounted, touched, miscounts>>

NoOrder == [name |-> -1, total |-> 0]
NoWork == [at |-> "idle"]
NoRepair == [on |-> FALSE, done |-> {}]
Placed == {o \in Order : orders[o] # NoOrder}
Sum(o) == MapThenSumSet(LAMBDA i : items[o][i], Item)

Init ==
    /\ custName = 0 /\ orders = [o \in Order |-> NoOrder]
    /\ items = [o \in Order |-> [i \in Item |-> 0]]
    /\ insTrigger = TRUE
    /\ session = [s \in Session |-> NoWork]
    /\ repair = NoRepair
    /\ raced = {} /\ miscounted = {} /\ touched = {} /\ miscounts = 0

At(kind) == {s \in Session : session[s].at = kind}
Begin(s, work) == session[s] = NoWork /\ session' = [session EXCEPT ![s] = work]
End(s) == session' = [session EXCEPT ![s] = NoWork]

\* An order's row is locked by a statement that updates its copies, to the COMMIT.
RowLocked(o) == \/ o \in repair.done
                \/ \E s \in At("item") : session[s].order = o /\ session[s].delta # 0
                \/ \E s \in At("renamed") : o \in session[s].fanout
ItemLocked(o, i) == \E s \in At("item") : session[s].order = o /\ session[s].item = i

(***************************************************************************)
(* placeOrder: the order's row, whose trigger reads the committed name, then *)
(* its items, then COMMIT; no one else sees the order before.                *)
(***************************************************************************)
InsertOrder(s, o) ==
    /\ o \notin Placed /\ \A x \in At("placing") : session[x].order # o
    /\ Begin(s, [at |-> "placing", order |-> o, name |-> custName])
    /\ raced' = IF At("renamed") = {} THEN raced ELSE raced \cup {o}
    /\ UNCHANGED <<custName, orders, items, insTrigger, repair, miscounted, touched, miscounts>>

\* The COMMIT, with an item whose INSERT found the trigger on or off.
CommitOrder(s, i, q) ==
    /\ session[s].at = "placing"
    /\ LET o == session[s].order IN
         /\ orders' = [orders EXCEPT ![o] = [name |-> session[s].name,
                                             total |-> IF insTrigger THEN q ELSE 0]]
         /\ items' = [items EXCEPT ![o][i] = q]
         /\ miscounted' = IF insTrigger THEN miscounted ELSE miscounted \cup {o}
    /\ End(s)
    /\ UNCHANGED <<custName, insTrigger, repair, raced, touched, miscounts>>

(***************************************************************************)
(* UPDATE customers SET name, and the trigger's UPDATE of the orders it sees.*)
(***************************************************************************)

Fanout == Placed

Rename(s) ==
    /\ custName < MaxRenames /\ At("renamed") = {}
    /\ \A o \in Placed : ~RowLocked(o)
    /\ Begin(s, [at |-> "renamed", fanout |-> Fanout])
    /\ raced' = raced \cup {session[x].order : x \in At("placing")}
    /\ UNCHANGED <<custName, orders, items, insTrigger, repair, miscounted, touched, miscounts>>

CommitRename(s) ==
    /\ session[s].at = "renamed"
    /\ custName' = custName + 1
    /\ orders' = [o \in Order |-> IF o \in session[s].fanout
                                  THEN [orders[o] EXCEPT !.name = custName + 1] ELSE orders[o]]
    /\ End(s)
    /\ raced' = raced \ session[s].fanout
    /\ UNCHANGED <<items, insTrigger, repair, miscounted, touched, miscounts>>

(***************************************************************************)
(* INSERT, UPDATE and DELETE of an item; the statement's trigger adds the    *)
(* difference to the order, and waits for the order's row to do so.          *)
(***************************************************************************)
\* An insert that is not added to the sum, or twice.
Miscount(o) == miscounts < MaxMiscounts /\ miscounts' = miscounts + 1 /\ miscounted' = miscounted \cup {o}

\* Variant: the branch for UPDATE forgets the old version of the rows.
DeltaNewOnly(old, new) == IF old = 0 /\ ~insTrigger THEN 0 ELSE IF new = 0 THEN -old ELSE new

\* What the trigger of the statement adds to the total.
Delta(old, new) == IF old = 0 /\ ~insTrigger THEN 0 ELSE new - old

ChangeItem(s, o, i, q) ==
    /\ o \in Placed /\ items[o][i] # q /\ ~ItemLocked(o, i)
    /\ LET d == Delta(items[o][i], q) IN
         /\ d # 0 => ~RowLocked(o)
         /\ Begin(s, [at |-> "item", order |-> o, item |-> i, qty |-> q, delta |-> d, next |-> "idle"])
         /\ IF d = 0 THEN Miscount(o) ELSE UNCHANGED <<miscounted, miscounts>>
    /\ touched' = touched \cup {o}
    /\ UNCHANGED <<custName, orders, items, insTrigger, repair, raced>>

CommitItem(s) ==
    /\ session[s].at = "item"
    /\ LET w == session[s] IN
         /\ items' = [items EXCEPT ![w.order][w.item] = w.qty]
         /\ orders' = [orders EXCEPT ![w.order].total = @ + w.delta]
         /\ session' = [session EXCEPT ![s] = [at |-> w.next]]
    /\ UNCHANGED <<custName, insTrigger, repair, history>>

(***************************************************************************)
(* The path with the trigger off: ALTER TABLE waits for open writers of      *)
(* order_items, the write follows, and a last ALTER TABLE turns it on.       *)
(***************************************************************************)
DisableTrigger(s) ==
    /\ At("item") = {}
    /\ insTrigger' = FALSE
    /\ Begin(s, [at |-> "off"])
    /\ UNCHANGED <<custName, orders, items, repair, history>>

\* appLevelAddItem adds the quantity to the order itself, in the same transaction (d = q);
\* the write of the section on drift does not (d = 0).  Another session may have turned
\* the trigger on again: then it adds the quantity too.
WriteUntriggered(s, o, i, q, d) ==
    /\ session[s].at = "off"
    /\ o \in Placed /\ items[o][i] = 0 /\ ~ItemLocked(o, i)
    /\ LET added == d + Delta(0, q) IN
         /\ added # 0 => ~RowLocked(o)
         /\ session' = [session EXCEPT ![s] = [at |-> "item", order |-> o, item |-> i, qty |-> q,
                                               delta |-> added, next |-> "on"]]
         /\ IF added # q THEN Miscount(o) ELSE UNCHANGED <<miscounted, miscounts>>
    /\ touched' = touched \cup {o}
    /\ UNCHANGED <<custName, orders, items, insTrigger, repair, raced>>

EnableTrigger(s) ==
    /\ session[s].at = "on" /\ At("item") = {}
    /\ insTrigger' = TRUE /\ End(s)
    /\ UNCHANGED <<custName, orders, items, repair, history>>

\* log.Fatalf ends the program without running its deferred calls: the trigger stays
\* off until reset enables all triggers at the next start.
Fatal(s) ==
    /\ session[s].at = "off"
    /\ session' = [session EXCEPT ![s] = [at |-> "dead"]]
    /\ UNCHANGED <<custName, orders, items, insTrigger, repair, history>>

Reset(s) ==
    /\ session[s].at = "dead" /\ At("item") = {}
    /\ insTrigger' = TRUE /\ End(s)
    /\ UNCHANGED <<custName, orders, items, repair, history>>

(***************************************************************************)
(* The reconciling UPDATE: the sums come from its snapshot, joined to orders *)
(* that have items and a different total; a locked row is waited for and its *)
(* total compared again, with the sum of the snapshot.                      *)
(***************************************************************************)
Reconcile ==
    /\ ~repair.on
    /\ LET drifted == {o \in Placed : Sum(o) \notin {0, orders[o].total}} IN
         repair' = [on |-> TRUE, sums |-> [o \in drifted |-> Sum(o)], done |-> {}]
    /\ touched' = {session[s].order : s \in At("item")}
    /\ UNCHANGED <<custName, orders, items, insTrigger, session, raced, miscounted, miscounts>>

RepairOrder(o) ==
    /\ repair.on /\ o \in DOMAIN repair.sums \ repair.done /\ ~RowLocked(o)
    /\ repair' = [repair EXCEPT !.done = @ \cup {o}]
    /\ UNCHANGED <<custName, orders, items, insTrigger, session, history>>

EndReconcile ==
    /\ repair.on /\ repair.done = DOMAIN repair.sums
    /\ orders' = [o \in Order |-> IF o \in repair.done
                                  THEN [orders[o] EXCEPT !.total = repair.sums[o]] ELSE orders[o]]
    /\ miscounted' = (miscounted \ repair.done) \cup (repair.done \cap touched)
    /\ repair' = NoRepair
    /\ UNCHANGED <<custName, items, insTrigger, session, raced, touched, miscounts>>

Next ==
    \/ \E s \in Session :
         \/ \E o \in Order : InsertOrder(s, o)
         \/ \E i \in Item, q \in 1..MaxQty : CommitOrder(s, i, q)
         \/ Rename(s) \/ CommitRename(s)
         \/ \E o \in Order, i \in Item, q \in 0..MaxQty : ChangeItem(s, o, i, q)
         \/ CommitItem(s)
         \/ DisableTrigger(s)
         \/ \E o \in Order, i \in Item, q \in 1..MaxQty, d \in 0..MaxQty :
              d \in {0, q} /\ WriteUntriggered(s, o, i, q, d)
         \/ EnableTrigger(s) \/ Fatal(s) \/ Reset(s)
    \/ Reconcile \/ (\E o \in Order : RepairOrder(o)) \/ EndReconcile

TypeOK ==
    /\ custName \in 0..MaxRenames
    /\ \A o \in Order : orders[o] = NoOrder \/ orders[o].name \in 0..custName
    /\ items \in [Order -> [Item -> 0..MaxQty]] /\ insTrigger \in BOOLEAN
    /\ At("renamed") = {} \/ \E s \in Session : At("renamed") = {s}
    /\ raced \subseteq Order /\ miscounted \subseteq Order /\ touched \subseteq Order
    /\ miscounts \in 0..MaxMiscounts

\* The triggers and the code path with the trigger off keep every total equal to the sum
\* of the items, whatever overlaps, but for the orders with an insert that another
\* session's switching of the trigger made count not at all or twice, or with a repair
\* that overlapped a change of their items.
TotalsExact == \A o \in Placed : orders[o].total = Sum(o) \/ o \in miscounted

\* The copies of the name follow every rename, but for the orders whose placing
\* transaction overlapped one.
NamesFollow == \A o \in Placed : orders[o].name = custName \/ o \in raced
=============================================================================
