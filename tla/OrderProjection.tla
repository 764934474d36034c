--------------------------- MODULE OrderProjection ---------------------------
(***************************************************************************)
(* simulate_cqrs: commands change the normalized write store and append an  *)
(* event to its outbox in one transaction; a projector polls the outbox,    *)
(* rebuilds the row of each event's order from the write store, upserts it  *)
(* into the read store and only then marks the event.                      *)
(*                                                                         *)
(* An order is abstracted to the number of commands committed on it: what   *)
(* the projector copies is a row of some version.                          *)
(***************************************************************************)
EXTENDS Integers, FiniteSets

CONSTANTS Order,          \* values of orders.id
          Client, Projector,
          UpdateUnknown,  \* may UpdateStatus be given an id without an order?
          MaxEvents,      \* bound: events ids handed out
          MaxFailures     \* bound: calls of Project cut short

ASSUME ProjectionAssumption ==
    /\ UpdateUnknown \in BOOLEAN
    /\ MaxEvents \in Nat /\ MaxFailures \in Nat

VARIABLES
    orders,     \* write store: version of each order, 0: no row
    orderEvents,\* write store: committed rows of events
    ids,        \* orders ids handed out; a sequence does not roll back
    seq,        \* the last events id handed out
    tx,         \* per client: its open transaction
    summary,    \* read store: version of each order_summary row, 0: none
    stage,      \* per projector: where it is in Project
    batch,      \* per projector: ids of the events it has still to process
    row,        \* per projector: the version it read for the order at hand
    failures    \* calls of Project cut short

commands == <<orders, ids, seq, tx>>
projection == <<stage, batch, row, failures>>
projectionVars == <<orders, orderEvents, ids, seq, tx, summary, stage, batch, row, failures>>

OrderEvent == [id : 1..MaxEvents, order : Order, processed : BOOLEAN]
NoTx == [on |-> "none"]
Tx == {NoTx} \cup [on : {"row", "nothing"}, order : Order, event : 0..MaxEvents]

\* Types, the key of events, and what a projector holds at each stage.
ProjectionTypeOK ==
    /\ orders \in [Order -> Nat] /\ summary \in [Order -> Nat]
    /\ orderEvents \subseteq OrderEvent
    /\ \A e, f \in orderEvents : e.id = f.id => e = f
    /\ ids \subseteq Order /\ seq \in 0..MaxEvents
    /\ tx \in [Client -> Tx]
    /\ stage \in [Projector -> {"idle", "next", "upsert", "mark"}]
    /\ batch \in [Projector -> SUBSET (1..MaxEvents)]
    /\ row \in [Projector -> Nat]
    /\ \A j \in Projector : stage[j] = "upsert" => batch[j] # {} /\ row[j] > 0
    /\ failures \in 0..MaxFailures

ProjectionInit ==
    /\ orders = [o \in Order |-> 0] /\ summary = [o \in Order |-> 0]
    /\ orderEvents = {} /\ ids = {} /\ seq = 0
    /\ tx = [c \in Client |-> NoTx]
    /\ stage = [j \in Projector |-> "idle"]
    /\ batch = [j \in Projector |-> {}]
    /\ row = [j \in Projector |-> 0]
    /\ failures = 0

(***************************************************************************)
(* Commands.                                                               *)
(***************************************************************************)
Locked(o) == \E c \in Client : tx[c] # NoTx /\ tx[c].on = "row" /\ tx[c].order = o

Open(c, o, on) ==
    /\ tx[c] = NoTx
    /\ tx' = [tx EXCEPT ![c] = [on |-> on, order |-> o, event |-> 0]]
    /\ UNCHANGED <<orders, orderEvents, seq, summary, projection>>

\* PlaceOrder: INSERT the order and its items; nobody sees them before COMMIT.
PlaceOrder(c, o) ==
    /\ o \notin ids
    /\ ids' = ids \cup {o}
    /\ Open(c, o, "row")

\* UpdateStatus: the UPDATE waits for the row's lock and holds it until COMMIT.
UpdateStatus(c, o) ==
    /\ orders[o] > 0 /\ ~Locked(o)
    /\ Open(c, o, "row")
    /\ UNCHANGED ids

\* UpdateStatus of an id that has no visible order: the UPDATE affects no row,
\* which is no error, and the command goes on.
UpdateNothing(c, o) ==
    /\ UpdateUnknown /\ orders[o] = 0
    /\ Open(c, o, "nothing")
    /\ UNCHANGED ids

\* Variant: ids are computed from the rows the transaction can see.
AppendEventAfterLast(c) ==
    /\ tx[c] # NoTx /\ tx[c].event = 0
    /\ seq < MaxEvents
    /\ \E id \in 1..MaxEvents :
         /\ \A e \in orderEvents : e.id < id
         /\ \A n \in 1..id - 1 : \E e \in orderEvents : e.id >= n
         /\ tx' = [tx EXCEPT ![c].event = id]
    /\ seq' = seq + 1
    /\ UNCHANGED <<orders, orderEvents, ids, summary, projection>>

\* appendEvent: the INSERT takes the next id of the sequence.
AppendEvent(c) ==
    /\ tx[c] # NoTx /\ tx[c].event = 0
    /\ seq < MaxEvents
    /\ seq' = seq + 1
    /\ tx' = [tx EXCEPT ![c].event = seq + 1]
    /\ UNCHANGED <<orders, orderEvents, ids, summary, projection>>

\* COMMIT: the order's change and its event appear together.
Commit(c) ==
    /\ tx[c] # NoTx /\ tx[c].event > 0
    /\ orders' = IF tx[c].on = "row" THEN [orders EXCEPT ![tx[c].order] = @ + 1] ELSE orders
    /\ orderEvents' = orderEvents \cup
           {[id |-> tx[c].event, order |-> tx[c].order, processed |-> FALSE]}
    /\ tx' = [tx EXCEPT ![c] = NoTx]
    /\ UNCHANGED <<ids, seq, summary, projection>>

\* A statement fails or the client dies: nothing but the ids remains.
Rollback(c) ==
    /\ tx[c] # NoTx
    /\ tx' = [tx EXCEPT ![c] = NoTx]
    /\ UNCHANGED <<orders, orderEvents, ids, seq, summary, projection>>

(***************************************************************************)
(* Project.                                                                *)
(***************************************************************************)
Unprocessed == {e \in orderEvents : ~e.processed}

\* Variant: poll past the newest processed event instead of by its flag.
PollPastLast(j) ==
    /\ stage[j] = "idle"
    /\ batch' = [batch EXCEPT ![j] =
           {e.id : e \in {f \in orderEvents : \A g \in orderEvents : g.processed => g.id < f.id}}]
    /\ batch'[j] # {}
    /\ stage' = [stage EXCEPT ![j] = "next"]
    /\ UNCHANGED <<commands, orderEvents, summary, row, failures>>

\* The query for the batch; an empty batch returns at once and changes nothing.
Poll(j) ==
    /\ stage[j] = "idle"
    /\ Unprocessed # {}
    /\ batch' = [batch EXCEPT ![j] = {e.id : e \in Unprocessed}]
    /\ stage' = [stage EXCEPT ![j] = "next"]
    /\ UNCHANGED <<commands, orderEvents, summary, row, failures>>

IsHead(j, e) == e.id \in batch[j] /\ \A i \in batch[j] : e.id <= i

Stop(j) ==
    /\ stage' = [stage EXCEPT ![j] = "idle"]
    /\ batch' = [batch EXCEPT ![j] = {}]
    /\ row' = [row EXCEPT ![j] = 0]

\* Variant: the join also sees rows that are not committed yet.
ReadOrderDirty(j) ==
    /\ stage[j] = "next"
    /\ \E e \in orderEvents :
         /\ IsHead(j, e)
         /\ orders[e.order] > 0
         /\ row' = [row EXCEPT ![j] = orders[e.order] + (IF Locked(e.order) THEN 1 ELSE 0)]
    /\ stage' = [stage EXCEPT ![j] = "upsert"]
    /\ UNCHANGED <<commands, orderEvents, summary, batch, failures>>

\* projectOrder, first half: join and aggregate what is committed now.
ReadOrder(j) ==
    /\ stage[j] = "next"
    /\ \E e \in orderEvents :
         /\ IsHead(j, e)
         /\ orders[e.order] > 0
         /\ row' = [row EXCEPT ![j] = orders[e.order]]
    /\ stage' = [stage EXCEPT ![j] = "upsert"]
    /\ UNCHANGED <<commands, orderEvents, summary, batch, failures>>

\* The join finds no order: Project returns the error and leaves the event, and
\* all that follow it, for the next call.
NoSuchOrder(j) ==
    /\ stage[j] = "next"
    /\ \E e \in orderEvents : IsHead(j, e) /\ orders[e.order] = 0
    /\ Stop(j)
    /\ UNCHANGED <<commands, orderEvents, summary, failures>>

\* projectOrder, second half: the upsert into the other database.
Upsert(j) ==
    /\ stage[j] = "upsert"
    /\ \E e \in orderEvents :
         IsHead(j, e) /\ summary' = [summary EXCEPT ![e.order] = row[j]]
    /\ stage' = [stage EXCEPT ![j] = "mark"]
    /\ UNCHANGED <<commands, orderEvents, batch, row, failures>>

Marked(e) == [e EXCEPT !.processed = TRUE]

\* Variant: every event of the order is marked, not the one that was projected.
MarkOrder(j) ==
    /\ stage[j] = "mark"
    /\ \E e \in orderEvents :
         /\ IsHead(j, e)
         /\ orderEvents' = {IF f.order = e.order THEN Marked(f) ELSE f : f \in orderEvents}
         /\ batch' = [batch EXCEPT ![j] = @ \ {e.id}]
    /\ row' = [row EXCEPT ![j] = 0]
    /\ stage' = [stage EXCEPT ![j] = IF batch'[j] = {} THEN "idle" ELSE "next"]
    /\ UNCHANGED <<commands, summary, failures>>

\* UPDATE events SET processed = TRUE, and on to the next event of the batch.
Mark(j) ==
    /\ stage[j] = "mark"
    /\ \E e \in orderEvents :
         /\ IsHead(j, e)
         /\ orderEvents' = (orderEvents \ {e}) \cup {Marked(e)}
         /\ batch' = [batch EXCEPT ![j] = @ \ {e.id}]
    /\ row' = [row EXCEPT ![j] = 0]
    /\ stage' = [stage EXCEPT ![j] = IF batch'[j] = {} THEN "idle" ELSE "next"]
    /\ UNCHANGED <<commands, summary, failures>>

\* A statement of the projector fails, or it dies: between the upsert and the
\* mark the event is left to be applied again.
Fail(j) ==
    /\ stage[j] # "idle" /\ failures < MaxFailures
    /\ failures' = failures + 1
    /\ Stop(j)
    /\ UNCHANGED <<commands, orderEvents, summary>>

WriteStep(c) ==
    \/ \E o \in Order : PlaceOrder(c, o) \/ UpdateStatus(c, o) \/ UpdateNothing(c, o)
    \/ AppendEvent(c) \/ Commit(c) \/ Rollback(c)

Project(j) == Poll(j) \/ ReadOrder(j) \/ NoSuchOrder(j) \/ Upsert(j) \/ Mark(j)

ProjectionNext == (\E c \in Client : WriteStep(c)) \/ (\E j \in Projector : Project(j) \/ Fail(j))

ProjectionSpec == ProjectionInit /\ [][ProjectionNext]_projectionVars

\* "In production this loop runs continuously" (DOCUMENTATION.md): a projector
\* that can take a step takes one, and calls Project again when it returned.
ProjectionFairness == \A j \in Projector : WF_projectionVars(Project(j))

(***************************************************************************)
(* Properties.                                                             *)
(***************************************************************************)
\* "the read model can never miss an update that the write model committed"
\* (main.go): an order without unprocessed events is up to date in the read
\* store, whatever commits or fails between the join, the upsert and the mark.
NothingMissed ==
    \A o \in Order : (\A e \in Unprocessed : e.order # o) => summary[o] = orders[o]

\* The read store is a lagging copy: no retry, failure or late commit takes a
\* summary back, or to a state that was never committed.
C == INSTANCE LaggingCopy WITH Key <- Order, primary <- orders, copy <- summary
ImplementsLaggingCopy == C!CSpec

\* An event that no call of Project gets past while it is the oldest.
Poison(e) == ~e.processed /\ orders[e.order] = 0

\* Every committed change reaches the read store, unless from some time on an
\* older event of an order that does not exist stands before one of its own.
Blocked(o) == \E e, f \in Unprocessed : f.order = o /\ Poison(e) /\ e.id < f.id

ProjectedUnlessPoisoned ==
    \A o \in Order : \A v \in 1..MaxEvents :
        orders[o] = v ~> (summary[o] >= v \/ []Blocked(o))

\* "Guarantees the projector will see this change", "guarantees no lost
\* updates" (DOCUMENTATION.md), without that exception.
EveryCommitProjected ==
    \A o \in Order : \A v \in 1..MaxEvents : orders[o] = v ~> summary[o] >= v
=============================================================================
