------------------------ MODULE OrderProjectionProofs ------------------------
(***************************************************************************)
(* Proofs about OrderProjection, for every set of orders, clients and       *)
(* events: types for any number of projectors, and for the single projector *)
(* that the repository runs, that no committed change is missed and that    *)
(* the read store is a lagging copy of the write store.                     *)
(***************************************************************************)
EXTENDS OrderProjection, TLAPS

\* main starts one projector; DOCUMENTATION.md runs it in one loop.
OneProjector == \A i, j \in Projector : i = j

(***************************************************************************)
(* The inductive invariant.                                                *)
(***************************************************************************)
\* An id of the outbox is in use once: in a committed row or an open transaction.
IdsUnique ==
    /\ \A e \in orderEvents : e.id <= seq
    /\ \A c \in Client : tx[c] # NoTx =>
         /\ tx[c].event <= seq
         /\ tx[c].event > 0 =>
              /\ \A e \in orderEvents : e.id # tx[c].event
              /\ \A d \in Client : d # c /\ tx[d] # NoTx => tx[d].event # tx[c].event

\* The event is the only one left of its order.
Last(e) == \A f \in Unprocessed : f.order = e.order => f = e

\* What a projector holds: events that nobody else has marked, and of the one at hand a
\* row between the read store's and the write store's, the newest if no further event of
\* the order is to come.
Holds(j) ==
    /\ \A i \in batch[j] : \E e \in Unprocessed : e.id = i
    /\ \A e \in orderEvents : IsHead(j, e) =>
         /\ stage[j] = "upsert" => summary[e.order] <= row[j] /\ row[j] <= orders[e.order]
         /\ stage[j] = "upsert" /\ Last(e) => row[j] = orders[e.order]
         /\ stage[j] = "mark" /\ Last(e) => summary[e.order] = orders[e.order]

TInv == ProjectionTypeOK /\ IdsUnique

IInv ==
    /\ TInv
    /\ \A j \in Projector : Holds(j)
    /\ \A o \in Order : summary[o] <= orders[o]
    /\ NothingMissed

-----------------------------------------------------------------------------
(***************************************************************************)
(* Types, for any number of projectors.                                    *)
(***************************************************************************)
\* A transaction that is open has an order and, once it has one, an event.
LEMMA TxTyped ==
    ASSUME ProjectionTypeOK, NEW c \in Client, tx[c] # NoTx
    PROVE  tx[c].on \in {"row", "nothing"} /\ tx[c].order \in Order /\ tx[c].event \in 0..MaxEvents
BY DEF ProjectionTypeOK, Tx

\* Opening a transaction, which has no event yet, keeps types and ids.
LEMMA OpenTInv ==
    ASSUME TInv, NEW c \in Client, NEW o \in Order, NEW on \in {"row", "nothing"}, Open(c, o, on),
           ids' \subseteq Order
    PROVE  TInv'
<1>1. /\ tx' = [tx EXCEPT ![c] = [on |-> on, order |-> o, event |-> 0]]
      /\ UNCHANGED <<orders, orderEvents, seq, summary, stage, batch, row, failures>>
  BY DEF Open, projection
<1>2. 0 \in 0..MaxEvents
  BY ProjectionAssumption
<1>3. tx' \in [Client -> Tx]
  BY <1>1, <1>2 DEF TInv, ProjectionTypeOK, Tx
<1>4. ProjectionTypeOK'
  BY <1>1, <1>3 DEF TInv, ProjectionTypeOK
<1>5. IdsUnique'
  <2>1. seq \in Nat
    BY ProjectionAssumption DEF TInv, ProjectionTypeOK
  <2>2. \A d \in Client : tx'[d] = IF d = c THEN [on |-> on, order |-> o, event |-> 0] ELSE tx[d]
    BY <1>1 DEF TInv, ProjectionTypeOK
  <2>3. ASSUME NEW d \in Client, tx'[d] # NoTx
        PROVE  /\ tx'[d].event <= seq
               /\ tx'[d].event > 0 => /\ d # c
                                      /\ \A e \in orderEvents : e.id # tx'[d].event
                                      /\ \A b \in Client : b # d /\ tx'[b] # NoTx => tx'[b].event # tx'[d].event
    BY <2>1, <2>2, <2>3 DEF TInv, IdsUnique
  <2> QED BY <1>1, <2>3 DEF TInv, IdsUnique
<1> QED BY <1>4, <1>5 DEF TInv
\* Taking the next id keeps types and ids.
LEMMA AppendEventTInv ==
    ASSUME TInv, NEW c \in Client, AppendEvent(c)
    PROVE  TInv'
<1>1. /\ tx[c] # NoTx /\ tx[c].event = 0 /\ seq < MaxEvents
      /\ seq' = seq + 1 /\ tx' = [tx EXCEPT ![c].event = seq + 1]
      /\ UNCHANGED <<orders, orderEvents, ids, summary, stage, batch, row, failures>>
  BY DEF AppendEvent, projection
<1>2. seq \in Nat /\ seq' \in 0..MaxEvents /\ seq + 1 \in 0..MaxEvents
  BY <1>1, ProjectionAssumption DEF TInv, ProjectionTypeOK
<1>3. [tx[c] EXCEPT !.event = seq + 1] \in Tx \ {NoTx}
  BY <1>1, <1>2 DEF TInv, ProjectionTypeOK, Tx, NoTx
<1>4. tx' \in [Client -> Tx]
  BY <1>1, <1>3 DEF TInv, ProjectionTypeOK
<1>5. ProjectionTypeOK'
  BY <1>1, <1>2, <1>4 DEF TInv, ProjectionTypeOK
<1>6. \A d \in Client : tx'[d] = IF d = c THEN [tx[c] EXCEPT !.event = seq + 1] ELSE tx[d]
  BY <1>1 DEF TInv, ProjectionTypeOK
<1>7. tx'[c].event = seq + 1
  BY <1>1, <1>6 DEF TInv, ProjectionTypeOK, Tx, NoTx
<1>8. \A d \in Client : d # c => tx'[d] = tx[d] /\ (tx[d] # NoTx => tx[d].event \in 0..MaxEvents)
  BY <1>6, TxTyped DEF TInv
<1>9. \A e \in orderEvents : e.id <= seq /\ e.id \in Nat
  BY DEF TInv, ProjectionTypeOK, IdsUnique, OrderEvent
<1>10. IdsUnique'
  <2>1. \A e \in orderEvents' : e.id <= seq'
    BY <1>1, <1>2, <1>9
  <2>2. ASSUME NEW d \in Client, tx'[d] # NoTx
        PROVE  /\ tx'[d].event <= seq'
               /\ tx'[d].event > 0 =>
                    /\ \A e \in orderEvents : e.id # tx'[d].event
                    /\ \A b \in Client : b # d /\ tx'[b] # NoTx => tx'[b].event # tx'[d].event
    <3>1. CASE d = c
      <4>1. \A b \in Client : b # c /\ tx'[b] # NoTx => tx'[b].event <= seq /\ tx'[b].event \in Int
        BY <1>8 DEF TInv, IdsUnique
      <4> QED BY <1>1, <1>2, <1>7, <1>9, <3>1, <4>1
    <3>2. CASE d # c
      <4>1. tx'[d] = tx[d] /\ tx[d].event <= seq /\ tx[d].event \in Int
        BY <1>8, <2>2, <3>2 DEF TInv, IdsUnique
      <4>2. tx[d].event > 0 =>
              /\ \A e \in orderEvents : e.id # tx[d].event
              /\ \A b \in Client : b # d /\ tx[b] # NoTx => tx[b].event # tx[d].event
        BY <2>2, <3>2, <4>1 DEF TInv, IdsUnique
      <4> QED BY <1>1, <1>2, <1>7, <1>8, <3>2, <4>1, <4>2
    <3> QED BY <3>1, <3>2
  <2> QED BY <1>1, <2>1, <2>2 DEF IdsUnique
<1> QED BY <1>5, <1>10 DEF TInv

\* The event a transaction commits is new to the outbox.
LEMMA CommitTInv ==
    ASSUME TInv, NEW c \in Client, Commit(c)
    PROVE  TInv'
<1> DEFINE new == [id |-> tx[c].event, order |-> tx[c].order, processed |-> FALSE]
<1>1. /\ tx[c] # NoTx /\ tx[c].event > 0
      /\ orders' = IF tx[c].on = "row" THEN [orders EXCEPT ![tx[c].order] = @ + 1] ELSE orders
      /\ orderEvents' = orderEvents \cup {new} /\ tx' = [tx EXCEPT ![c] = NoTx]
      /\ UNCHANGED <<ids, seq, summary, stage, batch, row, failures>>
  BY DEF Commit, projection
<1>2. tx[c].order \in Order /\ tx[c].event \in 1..MaxEvents /\ tx[c].event <= seq
  BY <1>1, TxTyped, ProjectionAssumption DEF TInv, IdsUnique
<1>3. new \in OrderEvent /\ new.id = tx[c].event
  BY <1>2 DEF OrderEvent
<1>4. \A e \in orderEvents : e.id # new.id
  BY <1>1, <1>3 DEF TInv, IdsUnique
<1> HIDE DEF new
<1>5. orders' \in [Order -> Nat]
  BY <1>1, <1>2 DEF TInv, ProjectionTypeOK
<1>6. /\ orderEvents' \subseteq OrderEvent
      /\ \A e, f \in orderEvents' : e.id = f.id => e = f
  BY <1>1, <1>3, <1>4 DEF TInv, ProjectionTypeOK
<1>7. \A d \in Client : tx'[d] = IF d = c THEN NoTx ELSE tx[d]
  BY <1>1 DEF TInv, ProjectionTypeOK
<1>8. tx' \in [Client -> Tx]
  BY <1>1 DEF TInv, ProjectionTypeOK, Tx
<1>9. ProjectionTypeOK'
  BY <1>1, <1>5, <1>6, <1>8 DEF TInv, ProjectionTypeOK
<1>10. \A e \in orderEvents' : e.id <= seq'
  BY <1>1, <1>2, <1>3 DEF TInv, IdsUnique
<1>11. ASSUME NEW d \in Client, tx'[d] # NoTx
       PROVE  /\ tx'[d].event <= seq'
              /\ tx'[d].event > 0 =>
                   /\ \A e \in orderEvents' : e.id # tx'[d].event
                   /\ \A b \in Client : b # d /\ tx'[b] # NoTx => tx'[b].event # tx'[d].event
  <2>1. d # c /\ tx'[d] = tx[d]
    BY <1>7, <1>11
  <2>2. tx[d].event > 0 =>
          /\ tx[c].event # tx[d].event
          /\ \A e \in orderEvents : e.id # tx[d].event
          /\ \A b \in Client : b # d /\ tx[b] # NoTx => tx[b].event # tx[d].event
    BY <1>1, <1>11, <2>1 DEF TInv, IdsUnique
  <2>3. tx[d].event <= seq
    BY <1>11, <2>1 DEF TInv, IdsUnique
  <2> QED BY <1>1, <1>3, <1>7, <2>1, <2>2, <2>3
<1> QED BY <1>9, <1>10, <1>11 DEF TInv, IdsUnique

\* Marking changes a row of the outbox, and no id.
LEMMA MarkTInv ==
    ASSUME TInv, NEW j \in Projector, Mark(j)
    PROVE  TInv'
<1>1. PICK e \in orderEvents :
         /\ IsHead(j, e) /\ orderEvents' = (orderEvents \ {e}) \cup {Marked(e)}
         /\ batch' = [batch EXCEPT ![j] = @ \ {e.id}]
  BY DEF Mark
<1>2. e \in OrderEvent /\ Marked(e) \in OrderEvent /\ Marked(e).id = e.id
  BY DEF TInv, ProjectionTypeOK, OrderEvent, Marked
<1>3. /\ orderEvents' \subseteq OrderEvent
      /\ \A f, g \in orderEvents' : f.id = g.id => f = g
      /\ \A f \in orderEvents' : \E g \in orderEvents : f.id = g.id
  BY <1>1, <1>2 DEF TInv, ProjectionTypeOK
<1>4. /\ row' = [row EXCEPT ![j] = 0]
      /\ stage' = [stage EXCEPT ![j] = IF batch'[j] = {} THEN "idle" ELSE "next"]
      /\ UNCHANGED <<orders, ids, seq, tx, summary, failures>>
  BY DEF Mark, commands
<1>5. batch' \in [Projector -> SUBSET (1..MaxEvents)] /\ row' \in [Projector -> Nat]
  BY <1>1, <1>4 DEF TInv, ProjectionTypeOK
<1>6. /\ stage' \in [Projector -> {"idle", "next", "upsert", "mark"}]
      /\ stage'[j] # "upsert"
      /\ \A i \in Projector : i # j => stage'[i] = stage[i] /\ batch'[i] = batch[i] /\ row'[i] = row[i]
  BY <1>1, <1>4 DEF TInv, ProjectionTypeOK
<1>7. ProjectionTypeOK'
  BY <1>3, <1>4, <1>5, <1>6 DEF TInv, ProjectionTypeOK
<1>8. IdsUnique'
  BY <1>3, <1>4 DEF TInv, IdsUnique
<1> QED BY <1>7, <1>8 DEF TInv
\* Every step keeps the types and the ids of the outbox.
LEMMA TypeStep == TInv /\ [ProjectionNext]_projectionVars => TInv'
<1> SUFFICES ASSUME TInv, [ProjectionNext]_projectionVars PROVE TInv'
  OBVIOUS
<1> USE DEF TInv, ProjectionTypeOK, IdsUnique, commands, projection
<1>1. ASSUME NEW c \in Client, NEW o \in Order, PlaceOrder(c, o) PROVE TInv'
  BY <1>1, OpenTInv DEF PlaceOrder
<1>2. ASSUME NEW c \in Client, NEW o \in Order, UpdateStatus(c, o) PROVE TInv'
  BY <1>2, OpenTInv DEF UpdateStatus
<1>3. ASSUME NEW c \in Client, NEW o \in Order, UpdateNothing(c, o) PROVE TInv'
  BY <1>3, OpenTInv DEF UpdateNothing
<1>4. ASSUME NEW c \in Client, Rollback(c) PROVE TInv'
  <2>1. tx' = [tx EXCEPT ![c] = NoTx] /\ UNCHANGED <<orders, orderEvents, ids, seq, summary, projection>>
    BY <1>4 DEF Rollback
  <2>2. \A d \in Client : tx'[d] = IF d = c THEN NoTx ELSE tx[d]
    BY <2>1
  <2>3. tx' \in [Client -> Tx]
    BY <2>1 DEF Tx
  <2> QED BY <2>1, <2>2, <2>3
<1>5. ASSUME NEW j \in Projector, Poll(j) PROVE TInv'
  <2>1. {e.id : e \in Unprocessed} \in SUBSET (1..MaxEvents)
    BY DEF Unprocessed, OrderEvent
  <2>2. batch' \in [Projector -> SUBSET (1..MaxEvents)]
    BY <1>5, <2>1 DEF Poll
  <2> QED BY <1>5, <2>2 DEF Poll
<1>6. ASSUME NEW j \in Projector, ReadOrder(j) PROVE TInv'
  <2>1. PICK e \in orderEvents : IsHead(j, e) /\ orders[e.order] > 0
                            /\ row' = [row EXCEPT ![j] = orders[e.order]]
    BY <1>6 DEF ReadOrder
  <2>2. e.order \in Order /\ batch[j] # {}
    BY <2>1 DEF OrderEvent, IsHead
  <2>3. row' \in [Projector -> Nat] /\ row'[j] > 0
    BY <2>1, <2>2
  <2>4. \A i \in Projector : i # j => row'[i] = row[i]
    BY <2>1
  <2> QED BY <1>6, <2>2, <2>3, <2>4 DEF ReadOrder
<1>7. ASSUME NEW j \in Projector, Stop(j), failures' \in 0..MaxFailures,
             UNCHANGED <<commands, orderEvents, summary>>
      PROVE  TInv'
  BY <1>7 DEF Stop
<1>8. ASSUME NEW j \in Projector, Upsert(j) PROVE TInv'
  <2>1. PICK e \in orderEvents : IsHead(j, e) /\ summary' = [summary EXCEPT ![e.order] = row[j]]
    BY <1>8 DEF Upsert
  <2>2. summary' \in [Order -> Nat]
    BY <2>1
  <2> QED BY <1>8, <2>2 DEF Upsert
<1>9. ASSUME NEW j \in Projector, Fail(j) PROVE TInv'
  <2>1. failures' \in 0..MaxFailures
    BY <1>9, ProjectionAssumption DEF Fail
  <2> QED BY <1>7, <1>9, <2>1 DEF Fail
<1>10. CASE UNCHANGED projectionVars
  BY <1>10 DEF projectionVars
<1> QED BY <1>1, <1>2, <1>3, <1>4, <1>5, <1>6, <1>7, <1>8, <1>9, <1>10,
           AppendEventTInv, CommitTInv, MarkTInv DEF ProjectionNext, WriteStep, Project, NoSuchOrder

\* TypeOK: for any number of clients and projectors, an id of the outbox names one
\* event, and a projector that is to upsert has an event to take it for.
THEOREM TypeCorrect == ProjectionSpec => []ProjectionTypeOK
<1>1. ProjectionInit => TInv
  BY ProjectionAssumption DEF ProjectionInit, TInv, ProjectionTypeOK, IdsUnique, Tx
<1>2. TInv => ProjectionTypeOK
  BY DEF TInv
<1> QED BY <1>1, <1>2, TypeStep, PTL DEF ProjectionSpec
-----------------------------------------------------------------------------
(***************************************************************************)
(* What the single projector guarantees.  With two of them a projector's    *)
(* row may be older than the summary that the other one wrote.              *)
(***************************************************************************)
\* The events a projector holds, and so the one at hand, are unprocessed.
LEMMA HeadUnprocessed ==
    ASSUME IInv, NEW j \in Projector, NEW e \in orderEvents, IsHead(j, e)
    PROVE  /\ e \in Unprocessed /\ e \in OrderEvent
           /\ \A f \in orderEvents : IsHead(j, f) => f = e
<1>1. PICK g \in Unprocessed : g.id = e.id
  BY DEF IInv, Holds, IsHead
<1>2. g = e
  BY <1>1 DEF IInv, TInv, ProjectionTypeOK, Unprocessed
<1>3. \A f \in orderEvents : IsHead(j, f) => f.id <= e.id /\ e.id <= f.id
  BY DEF IsHead
<1>4. \A f \in orderEvents : f.id \in Nat
  BY DEF IInv, TInv, ProjectionTypeOK, OrderEvent
<1>5. \A f \in orderEvents : IsHead(j, f) => f.id = e.id
  BY <1>3, <1>4
<1> QED BY <1>1, <1>2, <1>5 DEF IInv, TInv, ProjectionTypeOK

\* A commit gives its order an event that is not in any batch: what was the last event of
\* the order no longer is.
LEMMA CommitStep ==
    ASSUME IInv, NEW c \in Client, Commit(c)
    PROVE  IInv'
<1> DEFINE o == tx[c].order
           new == [id |-> tx[c].event, order |-> o, processed |-> FALSE]
<1>1. /\ orders' = IF tx[c].on = "row" THEN [orders EXCEPT ![o] = @ + 1] ELSE orders
      /\ orderEvents' = orderEvents \cup {new}
      /\ UNCHANGED <<summary, stage, batch, row>>
  BY DEF Commit, projection
<1>2. TInv'
  BY CommitTInv DEF IInv
<1>3. o \in Order /\ \A e \in orderEvents : e.id # new.id
  BY TxTyped DEF IInv, TInv, IdsUnique, Commit
<1>4. new.order = o /\ ~new.processed
  OBVIOUS
<1> HIDE DEF new, o
<1>5. Unprocessed' = Unprocessed \cup {new}
  BY <1>1, <1>4 DEF Unprocessed
<1>6. orders \in [Order -> Nat] /\ summary \in [Order -> Nat]
  BY DEF IInv, TInv, ProjectionTypeOK
<1>7. \A k \in Order : orders[k] <= orders'[k] /\ (k # o => orders'[k] = orders[k])
  BY <1>1, <1>3, <1>6
<1>8. \A k \in Order : summary'[k] <= orders'[k]
  <2>1. \A k \in Order : orders'[k] \in Nat
    BY <1>2 DEF TInv, ProjectionTypeOK
  <2> QED BY <1>1, <1>6, <1>7, <2>1 DEF IInv
<1>9. NothingMissed'
  BY <1>1, <1>4, <1>5, <1>7 DEF IInv, NothingMissed
<1>10. ASSUME NEW j \in Projector PROVE Holds(j)'
  <2>1. \A i \in batch'[j] : \E e \in Unprocessed' : e.id = i
    BY <1>1, <1>5 DEF IInv, Holds
  <2>2. ASSUME NEW e \in orderEvents', IsHead(j, e)'
        PROVE  /\ stage'[j] = "upsert" => summary'[e.order] <= row'[j] /\ row'[j] <= orders'[e.order]
               /\ stage'[j] = "upsert" /\ Last(e)' => row'[j] = orders'[e.order]
               /\ stage'[j] = "mark" /\ Last(e)' => summary'[e.order] = orders'[e.order]
    <3>1. PICK f \in Unprocessed : f.id = e.id
      BY <1>1, <2>2 DEF IInv, Holds, IsHead
    <3>2. e \in orderEvents /\ IsHead(j, e)
      BY <1>1, <1>3, <2>2, <3>1 DEF IsHead, Unprocessed
    <3>3. e.order \in Order
      BY <3>2 DEF IInv, TInv, ProjectionTypeOK, OrderEvent
    <3>4. Last(e)' => Last(e) /\ e.order # o
      BY <1>3, <1>4, <1>5, <3>2 DEF Last
    <3>5. row[j] \in Nat /\ orders[e.order] \in Nat /\ orders'[e.order] \in Nat
      BY <1>2, <3>3 DEF IInv, TInv, ProjectionTypeOK
    <3> QED BY <1>1, <1>7, <3>2, <3>3, <3>4, <3>5 DEF IInv, Holds
  <2> QED BY <2>1, <2>2 DEF Holds
<1> QED BY <1>2, <1>8, <1>9, <1>10 DEF IInv

\* The upsert writes the row of an order that still has an event.
LEMMA UpsertStep ==
    ASSUME OneProjector, IInv, TInv', NEW j \in Projector, Upsert(j)
    PROVE  /\ IInv'
           /\ UNCHANGED orders
           /\ \E o \in Order : /\ summary' = [summary EXCEPT ![o] = row[j]]
                               /\ row[j] \in summary[o]..orders[o]
<1>1. PICK e \in orderEvents : IsHead(j, e) /\ summary' = [summary EXCEPT ![e.order] = row[j]]
  BY DEF Upsert
<1>2. /\ stage[j] = "upsert" /\ stage' = [stage EXCEPT ![j] = "mark"]
      /\ UNCHANGED <<orders, orderEvents, batch, row>>
  BY DEF Upsert, commands
<1>3. /\ e \in Unprocessed /\ e.order \in Order
      /\ \A f \in orderEvents : IsHead(j, f) => f = e
  BY <1>1, HeadUnprocessed DEF OrderEvent
<1>4. /\ summary[e.order] <= row[j] /\ row[j] <= orders[e.order]
      /\ Last(e) => row[j] = orders[e.order]
  BY <1>1, <1>2 DEF IInv, Holds
<1>5. /\ orders \in [Order -> Nat] /\ summary \in [Order -> Nat] /\ row \in [Projector -> Nat]
      /\ stage \in [Projector -> {"idle", "next", "upsert", "mark"}]
  BY DEF IInv, TInv, ProjectionTypeOK
<1>6. \A k \in Order : summary'[k] = IF k = e.order THEN row[j] ELSE summary[k]
  BY <1>1, <1>5
<1>7. \A k \in Order : summary'[k] <= orders'[k]
  BY <1>2, <1>4, <1>6 DEF IInv
<1>8. NothingMissed'
  BY <1>2, <1>3, <1>6 DEF IInv, NothingMissed, Unprocessed
<1>9. ASSUME NEW i \in Projector PROVE Holds(i)'
  <2>1. i = j
    BY DEF OneProjector
  <2>2. stage'[j] = "mark" /\ \A k \in batch'[j] : \E f \in Unprocessed' : f.id = k
    BY <1>2, <1>5 DEF IInv, Holds, Unprocessed
  <2>3. ASSUME NEW f \in orderEvents', IsHead(j, f)', Last(f)'
        PROVE  summary'[f.order] = orders'[f.order]
    <3>1. f = e
      BY <1>2, <1>3, <2>3 DEF IsHead
    <3>2. Last(e)
      BY <1>2, <2>3, <3>1 DEF Last, Unprocessed
    <3> QED BY <1>2, <1>3, <1>4, <1>6, <3>1, <3>2
  <2> QED BY <2>1, <2>2, <2>3 DEF Holds
<1>10. row[j] \in summary[e.order]..orders[e.order]
  BY <1>3, <1>4, <1>5
<1> QED BY <1>1, <1>2, <1>3, <1>7, <1>8, <1>9, <1>10 DEF IInv

\* Marking the last event of an order is what NothingMissed is about: its summary is
\* the order.
LEMMA MarkStep ==
    ASSUME OneProjector, IInv, NEW j \in Projector, Mark(j)
    PROVE  IInv'
<1>1. PICK e \in orderEvents :
         /\ IsHead(j, e) /\ orderEvents' = (orderEvents \ {e}) \cup {Marked(e)}
         /\ batch' = [batch EXCEPT ![j] = @ \ {e.id}]
  BY DEF Mark
<1>2. /\ stage[j] = "mark"
      /\ stage' = [stage EXCEPT ![j] = IF batch'[j] = {} THEN "idle" ELSE "next"]
      /\ UNCHANGED <<orders, summary>>
  BY DEF Mark, commands
<1>3. TInv'
  BY MarkTInv DEF IInv
<1>4. Marked(e).processed /\ e \in OrderEvent
  BY HeadUnprocessed, <1>1 DEF Marked, OrderEvent
<1>5. Unprocessed' = Unprocessed \ {e}
  <2>1. \A f \in orderEvents : f.id = e.id => f = e
    BY DEF IInv, TInv, ProjectionTypeOK
  <2>2. ~e.processed
    BY HeadUnprocessed, <1>1 DEF Unprocessed
  <2> QED BY <1>1, <1>4, <2>2 DEF Unprocessed
<1>6. Last(e) => summary[e.order] = orders[e.order]
  BY <1>1, <1>2 DEF IInv, Holds
<1>7. NothingMissed'
  BY <1>2, <1>5, <1>6 DEF IInv, NothingMissed, Last
<1>8. ASSUME NEW i \in Projector PROVE Holds(i)'
  <2>1. i = j
    BY DEF OneProjector
  <2>2. stage'[j] \in {"idle", "next"} /\ batch'[j] = batch[j] \ {e.id}
    BY <1>1, <1>2 DEF IInv, TInv, ProjectionTypeOK
  <2>3. \A k \in batch'[j] : \E f \in Unprocessed' : f.id = k
    BY <1>5, <2>2 DEF IInv, Holds
  <2> QED BY <2>1, <2>2, <2>3 DEF Holds
<1> QED BY <1>2, <1>3, <1>7, <1>8 DEF IInv
\* Every step of the single projector's system keeps the invariant.
LEMMA InvStep == OneProjector /\ IInv /\ [ProjectionNext]_projectionVars => IInv'
<1> SUFFICES ASSUME OneProjector, IInv, [ProjectionNext]_projectionVars PROVE IInv'
  OBVIOUS
<1>1. TInv'
  BY TypeStep DEF IInv
<1>2. CASE \E c \in Client : Commit(c)
  BY <1>2, CommitStep
<1>3. CASE \E j \in Projector : Upsert(j)
  BY <1>1, <1>3, UpsertStep
<1>4. CASE \E j \in Projector : Mark(j)
  BY <1>4, MarkStep
<1>5. ASSUME UNCHANGED <<orders, orderEvents, summary, stage, batch, row>> PROVE IInv'
  BY <1>1, <1>5 DEF IInv, NothingMissed, Unprocessed, Holds, IsHead, Last
<1>6. ASSUME NEW c \in Client, WriteStep(c), ~Commit(c)
      PROVE  UNCHANGED <<orders, orderEvents, summary, stage, batch, row>>
  BY <1>6 DEF WriteStep, PlaceOrder, UpdateStatus, UpdateNothing, Open, AppendEvent, Rollback, projection
<1>7. ASSUME NEW j \in Projector, UNCHANGED <<orders, orderEvents, summary>>, Holds(j)',
             \A i \in Projector : i # j => stage'[i] = stage[i] /\ batch'[i] = batch[i] /\ row'[i] = row[i]
      PROVE  IInv'
  BY <1>1, <1>7 DEF OneProjector, IInv, NothingMissed, Unprocessed
<1>8. ASSUME NEW j \in Projector, Stop(j), UNCHANGED <<orders, orderEvents, summary>> PROVE IInv'
  <2>1. batch'[j] = {} /\ stage'[j] = "idle"
    BY <1>8 DEF Stop, IInv, TInv, ProjectionTypeOK
  <2> QED BY <1>7, <1>8, <2>1 DEF Holds, OneProjector
<1>9. ASSUME NEW j \in Projector, Poll(j) PROVE IInv'
  <2>1. batch'[j] = {e.id : e \in Unprocessed} /\ stage'[j] = "next"
    BY <1>9 DEF Poll, IInv, TInv, ProjectionTypeOK
  <2>2. UNCHANGED <<orders, orderEvents, summary>>
    BY <1>9 DEF Poll, commands
  <2>3. Holds(j)'
    BY <2>1, <2>2 DEF Holds, Unprocessed
  <2> QED BY <1>7, <2>2, <2>3 DEF OneProjector
<1>10. ASSUME NEW j \in Projector, ReadOrder(j) PROVE IInv'
  <2>1. PICK e \in orderEvents : IsHead(j, e) /\ row' = [row EXCEPT ![j] = orders[e.order]]
    BY <1>10 DEF ReadOrder
  <2>2. UNCHANGED <<orders, orderEvents, summary, batch>> /\ stage' = [stage EXCEPT ![j] = "upsert"]
    BY <1>10 DEF ReadOrder, commands
  <2>3. e.order \in Order /\ \A f \in orderEvents : IsHead(j, f) => f = e
    BY <2>1, HeadUnprocessed DEF OrderEvent
  <2>4. row'[j] = orders[e.order] /\ stage'[j] = "upsert"
    BY <2>1, <2>2 DEF IInv, TInv, ProjectionTypeOK
  <2>5. summary[e.order] <= orders[e.order] /\ orders[e.order] \in Nat
    BY <2>3 DEF IInv, TInv, ProjectionTypeOK
  <2>6. \A f \in orderEvents' : IsHead(j, f)' => f = e
    BY <2>2, <2>3 DEF IsHead
  <2>7. \A i \in batch'[j] : \E f \in Unprocessed' : f.id = i
    BY <2>2 DEF IInv, Holds, Unprocessed
  <2>8. Holds(j)'
    BY <2>2, <2>4, <2>5, <2>6, <2>7 DEF Holds
  <2> QED BY <1>7, <2>2, <2>8 DEF OneProjector
<1>11. CASE UNCHANGED projectionVars
  BY <1>5, <1>11 DEF projectionVars
<1> QED BY <1>2, <1>3, <1>4, <1>5, <1>6, <1>8, <1>9, <1>10, <1>11
        DEF ProjectionNext, Project, NoSuchOrder, Fail, commands

\* The single projector starts in the invariant, and always satisfies it.
LEMMA Invariant == ASSUME OneProjector PROVE ProjectionSpec => []IInv
<1>1. ProjectionInit => IInv
  BY ProjectionAssumption
  DEF ProjectionInit, IInv, TInv, ProjectionTypeOK, IdsUnique, Tx, Holds, IsHead, NothingMissed, Unprocessed
<1>2. IInv /\ [ProjectionNext]_projectionVars => IInv'
  BY InvStep
<1> QED BY <1>1, <1>2, PTL DEF ProjectionSpec

\* NothingMissed: an order without unprocessed events is up to date in the read store,
\* whatever commits or fails between the join, the upsert and the mark, for every
\* number of orders and clients and one projector.
THEOREM NoUpdateMissed == ASSUME OneProjector PROVE ProjectionSpec => []NothingMissed
<1>1. IInv => NothingMissed
  BY DEF IInv
<1> QED BY <1>1, Invariant, PTL

\* ImplementsLaggingCopy: a step of the write store or of the single projector changes
\* one order by one commit, or moves one summary forward to a state that was committed,
\* or neither.
THEOREM LaggingCopyRefinement == ASSUME OneProjector PROVE ProjectionSpec => ImplementsLaggingCopy
<1>1. ProjectionInit => C!CInit
  BY DEF ProjectionInit, C!CInit
<1>2. IInv /\ [ProjectionNext]_projectionVars => [C!CNext]_(C!cvars)
  <2> SUFFICES ASSUME IInv, [ProjectionNext]_projectionVars PROVE [C!CNext]_(C!cvars)
    OBVIOUS
  <2>1. orders \in [Order -> Nat] /\ summary \in [Order -> Nat]
    BY DEF IInv, TInv, ProjectionTypeOK
  <2>2. CASE \E c \in Client : Commit(c)
    <3>1. PICK c \in Client : Commit(c)
      BY <2>2
    <3>2. tx[c].order \in Order
      BY <3>1, TxTyped DEF IInv, TInv, Commit
    <3>3. CASE tx[c].on = "row"
      <4>1. C!Change(tx[c].order)
        BY <3>1, <3>3 DEF Commit, C!Change
      <4> QED BY <3>2, <4>1 DEF C!CNext
    <3>4. CASE tx[c].on # "row"
      BY <3>1, <3>4 DEF Commit, C!cvars
    <3> QED BY <3>3, <3>4
  <2>3. CASE \E j \in Projector : Upsert(j)
    <3>1. PICK j \in Projector : Upsert(j)
      BY <2>3
    <3>2. TInv'
      BY TypeStep DEF IInv
    <3>3. PICK o \in Order : /\ summary' = [summary EXCEPT ![o] = row[j]]
                             /\ row[j] \in summary[o]..orders[o]
      BY <3>1, <3>2, UpsertStep
    <3>4. UNCHANGED orders
      BY <3>1 DEF Upsert, commands
    <3>5. CASE row[j] = summary[o]
      <4>1. summary' = summary
        BY <2>1, <3>3, <3>5
      <4> QED BY <3>4, <4>1 DEF C!cvars
    <3>6. CASE row[j] # summary[o]
      <4>1. row[j] \in summary[o] + 1 .. orders[o]
        BY <2>1, <3>3, <3>6
      <4>2. C!CatchUp(o)
        BY <3>3, <3>4, <4>1 DEF C!CatchUp
      <4> QED BY <4>2 DEF C!CNext
    <3> QED BY <3>5, <3>6
  <2>4. CASE ~(\E c \in Client : Commit(c)) /\ ~(\E j \in Projector : Upsert(j))
    <3>1. ASSUME NEW c \in Client, WriteStep(c), ~Commit(c) PROVE UNCHANGED <<orders, summary>>
      BY <3>1 DEF WriteStep, PlaceOrder, UpdateStatus, UpdateNothing, Open, AppendEvent, Rollback
    <3>2. ASSUME NEW j \in Projector, Project(j) \/ Fail(j), ~Upsert(j)
          PROVE  UNCHANGED <<orders, summary>>
      BY <3>2 DEF Project, Poll, ReadOrder, NoSuchOrder, Mark, Fail, commands
    <3>3. UNCHANGED <<orders, summary>>
      BY <2>4, <3>1, <3>2 DEF ProjectionNext, projectionVars
    <3> QED BY <3>3 DEF C!cvars
  <2> QED BY <2>2, <2>3, <2>4
<1> QED BY <1>1, <1>2, Invariant, PTL DEF ProjectionSpec, ImplementsLaggingCopy, C!CSpec
=============================================================================
