--------------------------- MODULE EventStoreProofs ---------------------------
(***************************************************************************)
(* Proofs about EventStore, for every set of accounts, processes and        *)
(* amounts and every bound: the log is gap-free, no account is ever         *)
(* overdrawn, and the store implements the atomic ledger.                   *)
(***************************************************************************)
EXTENDS EventStore, SumTheorems

\* Folding an event into a state gives a state one version later.
LEMMA ApplyType ==
    ASSUME NEW s \in State, NEW e \in Event
    PROVE  Apply(s, e) \in State /\ Apply(s, e).version = s.version + 1
<1>1. e.amount \in Int /\ -e.amount \in Int
  BY DEF Event
<1>2. (CASE e.type = "Deposited" -> e.amount
         [] e.type = "Withdrew" -> -e.amount
         [] OTHER -> 0) \in Int
  <2>1. CASE e.type = "Deposited"
    BY <1>1, <2>1
  <2>2. CASE e.type = "Withdrew"
    BY <1>1, <2>2
  <2>3. CASE e.type # "Deposited" /\ e.type # "Withdrew"
    BY <2>3
  <2> QED BY <2>1, <2>2, <2>3
<1> QED BY <1>2 DEF Apply, State

\* The commands that are called have the type of a command.
LEMMA CommandsTyped == Commands \subseteq Command
<1> SUFFICES ASSUME NEW c \in Commands PROVE c \in Command
  OBVIOUS
<1>1. CASE c \in [type : {"AccountOpened", "Snapshot"}, account : Account, amount : {0}]
  BY <1>1 DEF Command, EventTypes
<1>2. CASE c \in [type : {"Deposited", "Withdrew"}, account : Account, amount : Amount]
  BY <1>2, StoreAssumption DEF Command, EventTypes
<1> QED BY <1>1, <1>2 DEF Commands

\* The row of an appending command is an event.
LEMMA RowTyped ==
    ASSUME TypeOK, NEW p \in Process, pc[p] # "idle", cmd[p].type # "Snapshot"
    PROVE  /\ RowFor(p, acc[p].version + 1) \in Event
           /\ RowFor(p, acc[p].version + 1).account = cmd[p].account
           /\ RowFor(p, acc[p].version + 1).version = acc[p].version + 1
           /\ cmd[p].account \in Account
<1>1. cmd[p] \in Command /\ acc[p] \in State
  BY DEF TypeOK
<1>2. cmd[p].type \in EventTypes /\ cmd[p].account \in Account /\ cmd[p].amount \in Nat
  BY <1>1 DEF Command
<1>3. acc[p].version + 1 \in Nat
  BY <1>1 DEF State
<1> QED BY <1>2, <1>3 DEF RowFor, Event

\* Every accepted command writes an event of one of the three types.
LEMMA AcceptsWrites ==
    ASSUME NEW s, NEW c, Accepts(s, c)
    PROVE  /\ c.type \in EventTypes /\ c.type # "Snapshot"
           /\ c.type = "AccountOpened" => ~s.open
           /\ c.type = "Deposited" => s.open
           /\ c.type = "Withdrew" => s.open /\ c.amount <= s.balance
BY DEF Accepts, EventTypes

-----------------------------------------------------------------------------
\* Returning keeps the types of the processes' variables.
LEMMA ReturnType ==
    ASSUME TypeOK, NEW p \in Process, Return(p)
    PROVE  /\ pc' \in [Process -> {"idle", "snapshot", "events", "fold"}]
           /\ cmd' \in [Process -> Command \cup {None}]
           /\ \A q \in Process : pc'[q] # "idle" => cmd'[q] \in Command
           /\ acc' \in [Process -> State]
           /\ pending' \in [Process -> SUBSET Event]
<1>1. Zero \in State
  BY DEF Zero, State
<1> QED BY <1>1 DEF TypeOK, Return, Goto

\* The step of the history variables keeps their types.
LEMMA RecordType ==
    ASSUME TypeOK, NEW a \in Account, NEW e \in Event, Record(a, e)
    PROVE  current' \in [Account -> State] /\ history' \in [Account -> SUBSET State]
<1>1. Apply(current[a], e) \in State
  BY ApplyType DEF TypeOK
<1> QED BY <1>1 DEF TypeOK, Record

\* Every step keeps the types and the keys of the tables.
LEMMA TypeStep == TypeOK /\ [Next]_vars => TypeOK'
<1> SUFFICES ASSUME TypeOK, [Next]_vars PROVE TypeOK'
  OBVIOUS
<1>1. ASSUME NEW p \in Process, NEW c \in Commands, Call(p, c) PROVE TypeOK'
  <2>1. c \in Command
    BY CommandsTyped
  <2> QED BY <1>1, <2>1 DEF TypeOK, Call, Goto, tables, ghosts
<1>2. ASSUME NEW p \in Process, ReadSnapshot(p) PROVE TypeOK'
  <2>1. cmd[p].account \in Account
    BY <1>2 DEF TypeOK, ReadSnapshot, Command
  <2>2. acc' \in [Process -> State]
    BY <1>2, <2>1 DEF TypeOK, ReadSnapshot
  <2> QED BY <1>2, <2>2 DEF TypeOK, ReadSnapshot, Goto, tables, ghosts
<1>3. ASSUME NEW p \in Process, QueryEvents(p) PROVE TypeOK'
  <2>1. pending' \in [Process -> SUBSET Event]
    BY <1>3 DEF TypeOK, QueryEvents, EventsOf
  <2> QED BY <1>3, <2>1 DEF TypeOK, QueryEvents, Goto, tables, ghosts
<1>4. ASSUME NEW p \in Process, ApplyEvent(p) PROVE TypeOK'
  <2>1. PICK e \in pending[p] : /\ acc' = [acc EXCEPT ![p] = Apply(@, e)]
                                /\ pending' = [pending EXCEPT ![p] = @ \ {e}]
    BY <1>4 DEF ApplyEvent
  <2>2. acc[p] \in State /\ e \in Event
    BY <2>1 DEF TypeOK
  <2>3. Apply(acc[p], e) \in State
    BY <2>2, ApplyType
  <2>4. acc' \in [Process -> State] /\ pending' \in [Process -> SUBSET Event]
    BY <2>1, <2>3 DEF TypeOK
  <2> QED BY <1>4, <2>4 DEF TypeOK, ApplyEvent, tables, ghosts
<1>5. ASSUME NEW p \in Process, Return(p), UNCHANGED <<tables, ghosts>> PROVE TypeOK'
  BY <1>5, ReturnType DEF TypeOK, tables, ghosts
<1>6. ASSUME NEW p \in Process, Append(p) PROVE TypeOK'
  <2> DEFINE e == RowFor(p, acc[p].version + 1)
  <2>1. /\ Return(p) /\ ~Taken(p) /\ pc[p] # "idle" /\ cmd[p].type # "Snapshot"
        /\ events' = events \cup {e} /\ Record(cmd[p].account, e)
        /\ snapshots' = snapshots
    BY <1>6, AcceptsWrites DEF Append, Loaded
  <2>2. /\ e \in Event /\ e.account = cmd[p].account
        /\ e.version = acc[p].version + 1 /\ cmd[p].account \in Account
    BY <2>1, RowTyped
  <2> HIDE DEF e
  <2>3. \A f \in events : ~(f.account = e.account /\ f.version = e.version)
    BY <2>1, <2>2 DEF Taken, EventsOf
  <2>4. /\ events' \subseteq Event
        /\ \A f, g \in events' : (f.account = g.account /\ f.version = g.version) => f = g
    BY <2>1, <2>2, <2>3 DEF TypeOK
  <2>5. current' \in [Account -> State] /\ history' \in [Account -> SUBSET State]
    BY <2>1, <2>2, RecordType
  <2> QED BY <2>1, <2>4, <2>5, ReturnType DEF TypeOK
<1>7. ASSUME NEW p \in Process, SaveSnapshot(p) PROVE TypeOK'
  <2>1. /\ cmd[p].account \in Account /\ acc[p] \in State
    BY <1>7 DEF TypeOK, SaveSnapshot, Loaded, Command
  <2>2. /\ snapshots' \in [Account -> SUBSET State]
        /\ \A a \in Account : \A s, u \in snapshots'[a] : s.version = u.version => s = u
    BY <1>7, <2>1 DEF TypeOK, SaveSnapshot
  <2>3. Return(p) /\ UNCHANGED <<events, history, current>>
    BY <1>7 DEF SaveSnapshot, ghosts
  <2> QED BY <2>2, <2>3, ReturnType DEF TypeOK
<1>8. CASE UNCHANGED vars
  BY <1>8 DEF TypeOK, vars
<1> QED
  BY <1>1, <1>2, <1>3, <1>4, <1>5, <1>6, <1>7, <1>8
  DEF Next, Step, Rejected, AppendConflict, Abandon

LEMMA TypeInit == Init => TypeOK
<1>1. Zero \in State
  BY DEF Zero, State
<1> QED BY <1>1 DEF Init, TypeOK

\* The types hold, and each version of an account is one event and at most one
\* snapshot (the UNIQUE constraint and the primary key).
THEOREM TypeCorrect == Spec => []TypeOK
<1> QED BY TypeInit, TypeStep, PTL DEF Spec

-----------------------------------------------------------------------------
(***************************************************************************)
(* The inductive invariant.                                                *)
(***************************************************************************)
\* A command between its call and its return names an account.
LEMMA CommandOf ==
    ASSUME TypeOK, NEW p \in Process, pc[p] # "idle"
    PROVE  cmd[p].account \in Account /\ acc[p] \in State /\ cmd[p].amount \in Nat
BY DEF TypeOK, Command

\* What a process knows survives the steps of the others, which only add events
\* to the log and states to its history.
LEMMA KnowsKept ==
    ASSUME TypeOK, NEW q \in Process, Knows(q),
           pc'[q] = pc[q], cmd'[q] = cmd[q], acc'[q] = acc[q], pending'[q] = pending[q],
           events \subseteq events', \A a \in Account : history[a] \subseteq history'[a]
    PROVE  Knows(q)'
<1>1. pc[q] # "idle" => cmd[q].account \in Account
  BY CommandOf
<1>2. FoldsNext(q) => FoldsNext(q)'
  BY DEF FoldsNext
<1>3. /\ pc'[q] \in {"idle", "snapshot"} => acc'[q] = Zero
      /\ pc'[q] # "idle" => cmd'[q] \in Commands
      /\ pc'[q] = "fold" => FoldsNext(q)'
  BY <1>2 DEF Knows
<1>4. pc'[q] \in {"events", "fold"} => acc'[q] \in history'[cmd'[q].account]
  BY <1>1 DEF Knows
<1>5. Zero' = Zero /\ Commands' = Commands
  BY DEF Zero, Commands
<1> QED BY <1>3, <1>4, <1>5 DEF Knows

\* A process that returned knows nothing.
LEMMA ReturnKnows ==
    ASSUME TypeOK, NEW p \in Process, Return(p)
    PROVE  Knows(p)'
<1>1. pc'[p] = "idle" /\ acc'[p] = Zero
  BY DEF Return, Goto, TypeOK
<1>2. Zero' = Zero
  BY DEF Zero
<1> QED BY <1>1, <1>2 DEF Knows

\* Steps of one process that leave the log alone keep what the others know.
LEMMA OthersKnow ==
    ASSUME TypeOK, LoadOK, NEW p \in Process, Knows(p)',
           \A q \in Process \ {p} : /\ pc'[q] = pc[q] /\ cmd'[q] = cmd[q]
                                    /\ acc'[q] = acc[q] /\ pending'[q] = pending[q],
           events \subseteq events', \A a \in Account : history[a] \subseteq history'[a]
    PROVE  LoadOK'
<1> SUFFICES ASSUME NEW q \in Process PROVE Knows(q)'
  BY DEF LoadOK
<1>1. CASE q = p
  BY <1>1
<1>2. CASE q # p
  BY <1>2, KnowsKept DEF LoadOK
<1> QED BY <1>1, <1>2

\* A returning process leaves the others alone.
LEMMA ReturnLocal ==
    ASSUME TypeOK, NEW p \in Process, Return(p)
    PROVE  \A q \in Process \ {p} : /\ pc'[q] = pc[q] /\ cmd'[q] = cmd[q]
                                    /\ acc'[q] = acc[q] /\ pending'[q] = pending[q]
BY DEF TypeOK, Return, Goto

\* The parts of the invariant about the log and its history.
Recorded == HistoryOK /\ LogOK /\ SnapshotsRecorded

LEMMA RecordedKept == Recorded /\ UNCHANGED <<tables, ghosts>> => Recorded'
<1> SUFFICES ASSUME Recorded, UNCHANGED <<tables, ghosts>> PROVE Recorded'
  OBVIOUS
<1>1. events' = events /\ snapshots' = snapshots /\ history' = history /\ current' = current
  BY DEF tables, ghosts
<1>2. HistoryOK'
  BY <1>1 DEF Recorded, HistoryOK, Zero
<1>3. LogOK'
  BY <1>1 DEF Recorded, LogOK, Apply
<1>4. SnapshotsRecorded'
  BY <1>1 DEF Recorded, SnapshotsRecorded
<1> QED BY <1>2, <1>3, <1>4 DEF Recorded

\* The optimistic check does its work: an INSERT that finds its version free was
\* validated against the account's current state.
LEMMA WinnerIsCurrent ==
    ASSUME IInv, NEW p \in Process, pc[p] = "fold", ~Taken(p)
    PROVE  acc[p] = current[cmd[p].account]
<1> DEFINE a == cmd[p].account
<1>1. a \in Account /\ acc[p] \in State
  BY CommandOf DEF IInv
<1>2. acc[p] \in history[a] /\ current[a] \in history[a]
  BY <1>1 DEF IInv, LoadOK, Knows, HistoryOK
<1>3. acc[p].version <= current[a].version
  BY <1>1, <1>2 DEF IInv, HistoryOK
<1>4. acc[p].version \in Nat /\ current[a].version \in Nat
  BY <1>1 DEF IInv, TypeOK, State
<1>5. \A e \in events : e.account = a => e.version # acc[p].version + 1
  BY DEF Taken, EventsOf
<1>6. acc[p].version + 1 \notin 1..current[a].version
  BY <1>1, <1>5 DEF IInv, LogOK
<1>7. acc[p].version = current[a].version
  BY <1>3, <1>4, <1>6
<1> QED BY <1>1, <1>2, <1>7 DEF IInv, HistoryOK

\* What Append changes, in terms of the current state.
LEMMA AppendEffect ==
    ASSUME IInv, NEW p \in Process, Append(p),
           NEW a, a = cmd[p].account, NEW e, e = RowFor(p, acc[p].version + 1)
    PROVE  /\ a \in Account /\ e \in Event /\ e.account = a
           /\ e.version = current[a].version + 1
           /\ e.type = cmd[p].type /\ e.amount = cmd[p].amount
           /\ Accepts(current[a], cmd[p])
           /\ events' = events \cup {e}
           /\ current' = [current EXCEPT ![a] = Apply(current[a], e)]
           /\ history' = [history EXCEPT ![a] = history[a] \cup {Apply(current[a], e)}]
           /\ Return(p) /\ snapshots' = snapshots
<1>1. /\ pc[p] = "fold" /\ Accepts(acc[p], cmd[p]) /\ ~Taken(p)
      /\ events' = events \cup {e} /\ Record(a, e)
      /\ Return(p) /\ snapshots' = snapshots
  BY DEF Append, Loaded
<1>2. acc[p] = current[a]
  BY <1>1, WinnerIsCurrent
<1>3. cmd[p].type # "Snapshot"
  BY <1>1, AcceptsWrites
<1>4. /\ e \in Event /\ e.account = a
      /\ e.version = acc[p].version + 1 /\ a \in Account
  BY <1>1, <1>3, RowTyped DEF IInv
<1>5. e.type = cmd[p].type /\ e.amount = cmd[p].amount
  BY DEF RowFor
<1> QED BY <1>1, <1>2, <1>4, <1>5 DEF Record

\* An accepted event leaves a balance that is not negative.
LEMMA AcceptedStaysPositive ==
    ASSUME NEW s \in State, s.balance >= 0, NEW c, NEW e \in Event,
           e.type = c.type, e.amount = c.amount, Accepts(s, c)
    PROVE  Apply(s, e).balance >= 0
<1>1. e.amount \in Nat /\ s.balance \in Int /\ e.type \in EventTypes
  BY DEF Event, State
<1>2. CASE e.type = "AccountOpened"
  BY <1>1, <1>2 DEF Apply
<1>3. CASE e.type = "Deposited"
  BY <1>1, <1>3 DEF Apply
<1>4. CASE e.type = "Withdrew"
  <2>1. e.amount <= s.balance
    BY <1>4, AcceptsWrites
  <2> QED BY <1>1, <1>4, <2>1 DEF Apply
<1> QED BY <1>1, <1>2, <1>3, <1>4 DEF EventTypes

-----------------------------------------------------------------------------
\* A winning append extends the log, its history and nothing else.
LEMMA AppendRecorded ==
    ASSUME IInv, NEW p \in Process, Append(p)
    PROVE  Recorded' /\ events \subseteq events' /\ \A a \in Account : history[a] \subseteq history'[a]
<1> DEFINE a == cmd[p].account
           e == RowFor(p, acc[p].version + 1)
           now == Apply(current[a], e)
<1>1. /\ a \in Account /\ e \in Event /\ e.account = a
      /\ e.version = current[a].version + 1
      /\ e.type = cmd[p].type /\ e.amount = cmd[p].amount
      /\ Accepts(current[a], cmd[p])
      /\ events' = events \cup {e}
      /\ current' = [current EXCEPT ![a] = now]
      /\ history' = [history EXCEPT ![a] = history[a] \cup {now}]
      /\ Return(p) /\ snapshots' = snapshots
  BY AppendEffect
<1>2. /\ TypeOK /\ HistoryOK /\ LogOK /\ SnapshotsRecorded
  BY DEF IInv
<1>3. /\ current[a] \in State /\ current[a] \in history[a] /\ current[a].balance >= 0
      /\ current[a].version \in Nat
  BY <1>1, <1>2 DEF TypeOK, HistoryOK, State
<1>4. now \in State /\ now.version = current[a].version + 1
  BY <1>1, <1>3, ApplyType
<1>5. now.balance >= 0
  BY <1>1, <1>3, AcceptedStaysPositive
<1>6. /\ current'[a] = now /\ history'[a] = history[a] \cup {now}
      /\ \A b \in Account \ {a} : current'[b] = current[b] /\ history'[b] = history[b]
  BY <1>1, <1>2 DEF TypeOK
<1>7. Zero' = Zero /\ \A s, f : Apply(s, f)' = Apply(s, f)
  BY DEF Zero, Apply
<1> HIDE DEF a, e, now
<1>8. HistoryOK'
  <2> SUFFICES ASSUME NEW b \in Account
               PROVE  /\ Zero \in history'[b] /\ current'[b] \in history'[b]
                      /\ \A s \in history'[b] : s.version <= current'[b].version /\ s.balance >= 0
                      /\ \A s, u \in history'[b] : s.version = u.version => s = u
    BY <1>7 DEF HistoryOK
  <2>1. CASE b # a
    BY <2>1, <1>2, <1>6 DEF HistoryOK
  <2>2. CASE b = a
    <3>1. \A s \in history[a] : /\ s.version \in Nat /\ s.version <= current[a].version
                                /\ s.balance >= 0
      BY <1>1, <1>2 DEF HistoryOK, TypeOK, State
    <3>2. \A s \in history[a] : s.version < now.version
      BY <3>1, <1>3, <1>4
    <3>3. Zero \in history[a] /\ \A s, u \in history[a] : s.version = u.version => s = u
      BY <1>1, <1>2 DEF HistoryOK
    <3>4. \A s \in history'[a] : s.version <= now.version /\ s.balance >= 0
      BY <3>1, <3>2, <1>3, <1>4, <1>5, <1>6
    <3>5. \A s, u \in history'[a] : s.version = u.version => s = u
      BY <3>1, <3>2, <3>3, <1>3, <1>4, <1>6
    <3> QED BY <2>2, <3>3, <3>4, <3>5, <1>6
  <2> QED BY <2>1, <2>2
<1>9. LogOK'
  <2>1. ASSUME NEW f \in events'
        PROVE  /\ f.version \in 1..current'[f.account].version
               /\ \A s \in history'[f.account] : s.version + 1 = f.version => Apply(s, f) \in history'[f.account]
    <3>0. CASE f \in events /\ f.account # a
      <4>1. f.account \in Account \ {a}
        BY <3>0, <1>2 DEF TypeOK, Event
      <4> QED BY <3>0, <4>1, <1>2, <1>6 DEF LogOK
    <3>1. CASE f \in events /\ f.account = a
      <4>1. f.version \in 1..current[a].version
        BY <3>1, <1>2 DEF LogOK
      <4>2. f.version \in 1..now.version /\ f.version # now.version + 1
        BY <4>1, <1>3, <1>4
      <4>3. \A s \in history[a] : s.version + 1 = f.version => Apply(s, f) \in history[a]
        BY <3>1, <1>2 DEF LogOK
      <4> QED BY <3>1, <4>2, <4>3, <1>6
    <3>2. CASE f = e
      <4>1. \A s \in history[a] : s.version = current[a].version => s = current[a]
        BY <1>1, <1>2 DEF HistoryOK
      <4>2. \A s \in history[a] : s.version \in Nat
        BY <1>1, <1>2 DEF TypeOK, State
      <4>3. \A s \in history'[a] : s.version + 1 = e.version => s = current[a]
        BY <4>1, <4>2, <1>1, <1>3, <1>4, <1>6
      <4>4. Apply(current[a], e) \in history'[a]
        BY <1>6 DEF now
      <4>5. e.version \in 1..now.version
        BY <1>1, <1>3, <1>4
      <4> QED BY <3>2, <4>3, <4>4, <4>5, <1>1, <1>6
    <3> QED BY <2>1, <3>0, <3>1, <3>2, <1>1
  <2>2. ASSUME NEW b \in Account, NEW v \in 1..current'[b].version
        PROVE  \E f \in events' : f.account = b /\ f.version = v
    <3>1. CASE b = a /\ v = now.version
      BY <3>1, <1>1, <1>4
    <3>2. CASE v \in 1..current[b].version
      BY <3>2, <1>1, <1>2 DEF LogOK
    <3> QED BY <2>2, <3>1, <3>2, <1>3, <1>4, <1>6
  <2> QED BY <2>1, <2>2, <1>7 DEF LogOK
<1>10. SnapshotsRecorded'
  BY <1>1, <1>2, <1>6 DEF SnapshotsRecorded
<1> QED BY <1>1, <1>6, <1>8, <1>9, <1>10 DEF Recorded

\* What the log answers to the second query of load continues the snapshot.
LEMMA QueryContinues ==
    ASSUME IInv, NEW p \in Process, QueryEvents(p)
    PROVE  FoldsNext(p)'
<1> DEFINE a == cmd[p].account
<1>1. /\ a \in Account /\ acc[p] \in State
      /\ acc' = acc /\ cmd' = cmd /\ events' = events
      /\ pending'[p] = {e \in events : e.account = a /\ e.version > acc[p].version}
  <2>1. pc[p] # "idle"
    BY DEF QueryEvents
  <2>2. pending'[p] = {e \in EventsOf(a) : e.version > acc[p].version}
    BY DEF QueryEvents, IInv, TypeOK
  <2> QED BY <2>1, <2>2, CommandOf DEF QueryEvents, tables, IInv, EventsOf
<1>2. SUFFICES ASSUME NEW e \in pending'[p]
               PROVE  /\ e \in events /\ e.account = a /\ e.version > acc[p].version
                      /\ \A v \in acc[p].version + 1 .. e.version - 1 : \E f \in pending'[p] : f.version = v
  BY <1>1 DEF FoldsNext
<1>3. e \in events /\ e.account = a /\ e.version > acc[p].version
  BY <1>1
<1>4. ASSUME NEW v \in acc[p].version + 1 .. e.version - 1
      PROVE  \E f \in pending'[p] : f.version = v
  <2>1. /\ e.version \in 1..current[a].version /\ acc[p].version \in Nat
        /\ current[a].version \in Nat
    BY <1>1, <1>3 DEF IInv, LogOK, TypeOK, State
  <2>2. v \in 1..current[a].version /\ v > acc[p].version
    BY <2>1
  <2>3. \E f \in events : f.account = a /\ f.version = v
    BY <1>1, <2>2 DEF IInv, LogOK
  <2> QED BY <1>1, <2>2, <2>3
<1> QED BY <1>3, <1>4

\* One turn of the loop folds the event that follows the state it has.
LEMMA FoldContinues ==
    ASSUME IInv, NEW p \in Process, ApplyEvent(p)
    PROVE  FoldsNext(p)' /\ acc'[p] \in history[cmd[p].account]
<1> DEFINE a == cmd[p].account
<1>1. PICK e \in pending[p] : /\ \A f \in pending[p] : e.version <= f.version
                              /\ acc' = [acc EXCEPT ![p] = Apply(@, e)]
                              /\ pending' = [pending EXCEPT ![p] = @ \ {e}]
  BY DEF ApplyEvent
<1>2. /\ a \in Account /\ acc[p] \in State /\ acc[p] \in history[a] /\ FoldsNext(p)
      /\ cmd' = cmd /\ events' = events
  <2>1. pc[p] = "fold"
    BY DEF ApplyEvent
  <2> QED BY <2>1, CommandOf DEF ApplyEvent, tables, IInv, LoadOK, Knows
<1>3. /\ acc'[p] = Apply(acc[p], e) /\ pending'[p] = pending[p] \ {e}
      /\ \A f \in pending[p] : f \in Event
  BY <1>1 DEF IInv, TypeOK
<1>4. /\ e \in events /\ e.account = a /\ e.version > acc[p].version
      /\ e.version \in Nat /\ acc[p].version \in Nat
  BY <1>1, <1>2, <1>3 DEF FoldsNext, State, Event
<1>5. e.version = acc[p].version + 1
  <2>1. SUFFICES ASSUME e.version # acc[p].version + 1 PROVE FALSE
    OBVIOUS
  <2>2. acc[p].version + 1 \in acc[p].version + 1 .. e.version - 1
    BY <2>1, <1>4
  <2>3. PICK f \in pending[p] : f.version = acc[p].version + 1
    BY <2>2, <1>1, <1>2 DEF FoldsNext
  <2> QED BY <2>1, <2>3, <1>1, <1>4
<1>6. Apply(acc[p], e) \in history[a]
  BY <1>2, <1>4, <1>5 DEF IInv, LogOK
<1>7. acc'[p].version = e.version
  BY <1>2, <1>3, <1>5, ApplyType
<1>8. FoldsNext(p)'
  <2> SUFFICES ASSUME NEW f \in pending[p], f # e
               PROVE  /\ f \in events /\ f.account = a /\ f.version > e.version
                      /\ \A v \in e.version + 1 .. f.version - 1 : \E g \in pending[p] \ {e} : g.version = v
    BY <1>2, <1>3, <1>7 DEF FoldsNext
  <2>1. f \in events /\ f.account = a /\ f.version \in Nat /\ e.version <= f.version
    BY <1>1, <1>2, <1>3 DEF FoldsNext, Event
  <2>2. f.version # e.version
    BY <2>1, <1>4 DEF IInv, TypeOK
  <2>3. ASSUME NEW v \in e.version + 1 .. f.version - 1
        PROVE  \E g \in pending[p] \ {e} : g.version = v
    <3>1. v \in acc[p].version + 1 .. f.version - 1 /\ v # e.version
      BY <1>4, <1>5, <2>1
    <3>2. PICK g \in pending[p] : g.version = v
      BY <1>2, <3>1 DEF FoldsNext
    <3> QED BY <3>1, <3>2
  <2> QED BY <1>4, <2>1, <2>2, <2>3
<1> QED BY <1>3, <1>6, <1>8

-----------------------------------------------------------------------------

LEMMA InvInit == Init => IInv
<1> SUFFICES ASSUME Init PROVE IInv
  OBVIOUS
<1>1. TypeOK
  BY TypeInit
<1>2. HistoryOK
  <2>1. Zero.version <= Zero.version /\ Zero.balance >= 0
    BY DEF Zero
  <2>2. \A a \in Account : history[a] = {Zero} /\ current[a] = Zero
    BY DEF Init
  <2> QED BY <2>1, <2>2 DEF HistoryOK
<1>3. LogOK
  BY DEF Init, LogOK, Zero
<1>4. SnapshotsRecorded
  BY DEF Init, SnapshotsRecorded
<1>5. LoadOK
  BY DEF Init, LoadOK, Knows
<1> QED BY <1>1, <1>2, <1>3, <1>4, <1>5 DEF IInv

\* Every step keeps the inductive invariant.
LEMMA InvStep == IInv /\ [Next]_vars => IInv'
<1> SUFFICES ASSUME IInv, [Next]_vars PROVE IInv'
  OBVIOUS
<1> USE DEF IInv
<1>0. TypeOK'
  BY TypeStep
<1>r. Recorded /\ LoadOK
  BY DEF Recorded
<1>q. SUFFICES Recorded' /\ LoadOK'
  BY <1>0 DEF Recorded
<1>s. Zero' = Zero /\ Commands' = Commands
  BY DEF Zero, Commands
\* Steps that leave the tables alone: what p knows is all there is to show.
<1>k. ASSUME NEW p \in Process, UNCHANGED <<tables, ghosts>>, Knows(p)',
             \A q \in Process \ {p} : /\ pc'[q] = pc[q] /\ cmd'[q] = cmd[q]
                                      /\ acc'[q] = acc[q] /\ pending'[q] = pending[q]
      PROVE  Recorded' /\ LoadOK'
  <2>1. events \subseteq events' /\ \A a \in Account : history[a] \subseteq history'[a]
    BY <1>k DEF tables, ghosts
  <2> QED BY <2>1, <1>k, <1>r, RecordedKept, OthersKnow
<1>1. ASSUME NEW p \in Process, NEW c \in Commands, Call(p, c) PROVE Recorded' /\ LoadOK'
  <2>1. /\ pc'[p] = "snapshot" /\ cmd'[p] = c /\ acc'[p] = acc[p] /\ pc[p] = "idle"
    BY <1>1 DEF Call, Goto, TypeOK
  <2>2. Knows(p)'
    BY <2>1, <1>s DEF Knows, LoadOK
  <2>3. UNCHANGED <<tables, ghosts>> /\ \A q \in Process \ {p} :
           pc'[q] = pc[q] /\ cmd'[q] = cmd[q] /\ acc'[q] = acc[q] /\ pending'[q] = pending[q]
    BY <1>1 DEF Call, Goto, TypeOK
  <2> QED BY <2>2, <2>3, <1>k
<1>2. ASSUME NEW p \in Process, ReadSnapshot(p) PROVE Recorded' /\ LoadOK'
  <2> DEFINE a == cmd[p].account
  <2>1. /\ pc[p] = "snapshot" /\ pc'[p] = "events" /\ cmd' = cmd /\ a \in Account
        /\ history' = history /\ acc[p] = Zero /\ cmd[p] \in Commands
    BY <1>2, CommandOf DEF ReadSnapshot, Goto, TypeOK, ghosts, LoadOK, Knows
  <2>2. acc'[p] \in snapshots[a] \cup {Zero}
    BY <1>2, <2>1 DEF ReadSnapshot, TypeOK
  <2>3. acc'[p] \in history[a]
    BY <2>1, <2>2 DEF SnapshotsRecorded, HistoryOK
  <2>4. Knows(p)'
    BY <2>1, <2>3, <1>s DEF Knows
  <2>5. UNCHANGED <<tables, ghosts>> /\ \A q \in Process \ {p} :
           pc'[q] = pc[q] /\ cmd'[q] = cmd[q] /\ acc'[q] = acc[q] /\ pending'[q] = pending[q]
    BY <1>2 DEF ReadSnapshot, Goto, TypeOK
  <2> QED BY <2>4, <2>5, <1>k
<1>3. ASSUME NEW p \in Process, QueryEvents(p) PROVE Recorded' /\ LoadOK'
  <2>1. /\ pc[p] = "events" /\ pc'[p] = "fold" /\ cmd' = cmd /\ acc' = acc
        /\ history' = history
    BY <1>3 DEF QueryEvents, Goto, TypeOK, ghosts
  <2>2. FoldsNext(p)'
    BY <1>3, QueryContinues
  <2>3. Knows(p)'
    BY <2>1, <2>2, <1>s DEF Knows, LoadOK
  <2>4. UNCHANGED <<tables, ghosts>> /\ \A q \in Process \ {p} :
           pc'[q] = pc[q] /\ cmd'[q] = cmd[q] /\ acc'[q] = acc[q] /\ pending'[q] = pending[q]
    BY <1>3 DEF QueryEvents, Goto, TypeOK
  <2> QED BY <2>3, <2>4, <1>k
<1>4. ASSUME NEW p \in Process, ApplyEvent(p) PROVE Recorded' /\ LoadOK'
  <2>1. /\ pc[p] = "fold" /\ pc' = pc /\ cmd' = cmd /\ history' = history
    BY <1>4 DEF ApplyEvent, ghosts
  <2>2. FoldsNext(p)' /\ acc'[p] \in history[cmd[p].account]
    BY <1>4, FoldContinues
  <2>3. Knows(p)'
    BY <2>1, <2>2, <1>s DEF Knows, LoadOK
  <2>4. UNCHANGED <<tables, ghosts>> /\ \A q \in Process \ {p} :
           pc'[q] = pc[q] /\ cmd'[q] = cmd[q] /\ acc'[q] = acc[q] /\ pending'[q] = pending[q]
    BY <1>4 DEF ApplyEvent, TypeOK
  <2> QED BY <2>3, <2>4, <1>k
<1>5. ASSUME NEW p \in Process, Return(p), UNCHANGED <<tables, ghosts>> PROVE Recorded' /\ LoadOK'
  BY <1>5, <1>k, ReturnKnows, ReturnLocal
<1>6. ASSUME NEW p \in Process, Append(p) PROVE Recorded' /\ LoadOK'
  <2>1. Return(p)
    BY <1>6 DEF Append
  <2>2. Recorded' /\ events \subseteq events' /\ \A a \in Account : history[a] \subseteq history'[a]
    BY <1>6, AppendRecorded
  <2> QED BY <2>1, <2>2, ReturnKnows, ReturnLocal, OthersKnow
<1>7. ASSUME NEW p \in Process, SaveSnapshot(p) PROVE Recorded' /\ LoadOK'
  <2> DEFINE a == cmd[p].account
  <2>1. /\ Return(p) /\ pc[p] = "fold" /\ a \in Account
        /\ events' = events /\ history' = history /\ current' = current
    BY <1>7, CommandOf DEF SaveSnapshot, Loaded, ghosts
  <2>2. acc[p] \in history[a]
    BY <2>1 DEF LoadOK, Knows
  <2>3. SnapshotsRecorded'
    BY <1>7, <2>1, <2>2 DEF SaveSnapshot, SnapshotsRecorded, TypeOK
  <2>4. HistoryOK' /\ LogOK'
    BY <2>1 DEF HistoryOK, LogOK, Zero, Apply
  <2>5. LoadOK'
    BY <2>1, ReturnKnows, ReturnLocal, OthersKnow
  <2> QED BY <2>3, <2>4, <2>5 DEF Recorded
<1>8. CASE UNCHANGED vars
  <2>1. UNCHANGED <<tables, ghosts>>
    BY <1>8 DEF vars, tables, ghosts
  <2>2. LoadOK'
    BY <1>8, <1>s DEF vars, LoadOK, Knows, FoldsNext
  <2> QED BY <2>1, <2>2, <1>r, RecordedKept
<1> QED
  BY <1>1, <1>2, <1>3, <1>4, <1>5, <1>6, <1>7, <1>8
  DEF Next, Step, Rejected, AppendConflict, Abandon

LEMMA Inductive == Spec => []IInv
<1> QED BY InvInit, InvStep, PTL DEF Spec

\* "per-aggregate version, 1,2,3,...": the log of no account has a gap.
THEOREM LogIsGapFree == Spec => []VersionsContiguous
<1>1. IInv => VersionsContiguous
  <2> SUFFICES ASSUME IInv, NEW e \in events, NEW v \in 1..e.version
               PROVE  \E f \in events : f.account = e.account /\ f.version = v
    BY DEF VersionsContiguous
  <2>1. e.account \in Account /\ e.version \in Nat /\ current[e.account].version \in Nat
    BY DEF IInv, TypeOK, Event, State
  <2>2. e.version \in 1..current[e.account].version
    BY DEF IInv, LogOK
  <2>3. v \in 1..current[e.account].version
    BY <2>1, <2>2
  <2> QED BY <2>1, <2>3 DEF IInv, LogOK
<1> QED BY <1>1, Inductive, PTL

\* The rule that Withdraw validates against a loaded state holds of the log:
\* no prefix of it is overdrawn, whatever was appended since the load.
THEOREM NoOverdraft == Spec => []NeverOverdrawn
<1>1. IInv => NeverOverdrawn
  BY DEF IInv, HistoryOK, NeverOverdrawn
<1> QED BY <1>1, Inductive, PTL

-----------------------------------------------------------------------------
(***************************************************************************)
(* Snapshots and the fold.                                                 *)
(***************************************************************************)
\* The log went through one state of each version up to the current one.
LEMMA EveryVersionWasAState ==
    ASSUME IInv, NEW a \in Account
    PROVE  \A v \in 0..current[a].version : \E u \in history[a] : u.version = v
<1> DEFINE last == current[a].version
           G == {v \in Nat : v <= last => \E u \in history[a] : u.version = v}
<1>1. last \in Nat /\ history[a] \subseteq State
  BY DEF IInv, TypeOK, State
<1>2. 0 \in G
  BY DEF IInv, HistoryOK, Zero
<1>3. ASSUME NEW v \in Nat, v \in G PROVE v + 1 \in G
  <2> SUFFICES ASSUME v + 1 <= last PROVE \E u \in history[a] : u.version = v + 1
    OBVIOUS
  <2>1. PICK u \in history[a] : u.version = v
    BY <1>1, <1>3
  <2>2. PICK e \in events : e.account = a /\ e.version = v + 1
    BY <1>1 DEF IInv, LogOK
  <2>3. Apply(u, e) \in history[a]
    BY <2>1, <2>2 DEF IInv, LogOK
  <2>4. Apply(u, e).version = v + 1
    BY <1>1, <2>1, <2>2, ApplyType DEF IInv, TypeOK
  <2> QED BY <2>3, <2>4
<1> HIDE DEF G
<1>4. \A v \in Nat : v \in G
  BY <1>2, <1>3, Induction
<1> QED BY <1>1, <1>4 DEF G

\* The fold of the log's first n events, as SnapshotsFaithful defines it.
Folded(a, f, n) == [v \in 0..n |-> IF v = 0 THEN Zero
                                  ELSE Apply(f[v - 1], CHOOSE e \in EventsOf(a) : e.version = v)]

\* Folding the log arrives at each state the log went through.
LEMMA FoldGivesTheState ==
    ASSUME IInv, NEW a \in Account, NEW s \in history[a]
    PROVE  (CHOOSE f : f = Folded(a, f, s.version))[s.version] = s
<1> DEFINE n == s.version
           at(v) == CHOOSE e \in EventsOf(a) : e.version = v
           state(v) == CHOOSE u \in history[a] : u.version = v
           g == [v \in 0..n |-> state(v)]
           fold == CHOOSE f : f = Folded(a, f, n)
<1>1. n \in Nat /\ current[a].version \in Nat /\ n <= current[a].version /\ history[a] \subseteq State
  BY DEF IInv, TypeOK, State, HistoryOK
<1>2. \A v \in 0..n : state(v) \in history[a] /\ state(v).version = v
  BY <1>1, EveryVersionWasAState
<1>3. \A u \in history[a] : u.version \in 0..n => state(u.version) = u
  BY <1>2 DEF IInv, HistoryOK
<1>4. state(0) = Zero
  BY <1>1, <1>3 DEF IInv, HistoryOK, Zero
<1>5. ASSUME NEW v \in 1..n PROVE Apply(state(v - 1), at(v)) = state(v)
  <2>1. v - 1 \in 0..n /\ v \in 0..n /\ v \in 1..current[a].version /\ v - 1 + 1 = v
    BY <1>1
  <2>2. at(v) \in events /\ at(v).account = a /\ at(v).version = v
    BY <2>1 DEF IInv, LogOK, EventsOf
  <2> DEFINE e == at(v)
             u == state(v - 1)
  <2>3. u \in history[a] /\ u.version = v - 1
    BY <1>2, <2>1
  <2> HIDE DEF e, u
  <2>4. e \in events /\ e.account = a /\ e.version = v
    BY <2>2 DEF e
  <2>5. Apply(u, e) \in history[a]
    BY <2>1, <2>3, <2>4 DEF IInv, LogOK
  <2>6. Apply(u, e).version = v
    BY <1>1, <2>1, <2>3, <2>4, ApplyType DEF IInv, TypeOK
  <2>7. Apply(u, e) = state(v)
    BY <1>3, <2>1, <2>5, <2>6
  <2> QED BY <2>7 DEF u, e
<1> HIDE DEF state
<1>6. g = Folded(a, g, n)
  <2>1. \A v \in 0..n : v # 0 => v - 1 \in 0..n /\ v \in 1..n
    BY <1>1
  <2>2. \A v \in 0..n : v # 0 => g[v - 1] = state(v - 1)
    BY <2>1
  <2>3. \A v \in 0..n : v # 0 => Apply(g[v - 1], at(v)) = state(v)
    BY <1>5, <2>1, <2>2
  <2> HIDE DEF at
  <2>4. \A v \in 0..n : state(v) = IF v = 0 THEN Zero ELSE Apply(g[v - 1], at(v))
    BY <1>4, <2>3
  <2> QED BY <2>4, Zenon DEF Folded, at
<1> HIDE DEF g
<1>7. fold = Folded(a, fold, n)
  BY <1>6
<1> HIDE DEF fold
<1>8. fold[0] = Zero /\ \A v \in 1..n : fold[v] = Apply(fold[v - 1], at(v))
  BY <1>1, <1>7 DEF Folded
<1> HIDE DEF at
<1> DEFINE G == {v \in Nat : v <= n => fold[v] = state(v)}
<1>9. 0 \in G
  BY <1>4, <1>8
<1>10. ASSUME NEW v \in Nat, v \in G PROVE v + 1 \in G
  <2> SUFFICES ASSUME v + 1 <= n PROVE fold[v + 1] = state(v + 1)
    OBVIOUS
  <2>1. v + 1 \in 1..n /\ v + 1 - 1 = v /\ fold[v] = state(v)
    BY <1>1, <1>10
  <2>2. fold[v + 1] = Apply(fold[v], at(v + 1)) /\ Apply(state(v), at(v + 1)) = state(v + 1)
    BY <1>5, <1>8, <2>1
  <2> QED BY <2>1, <2>2
<1> HIDE DEF G
<1>11. n \in G
  BY <1>1, <1>9, <1>10, Induction
<1>12. fold[n] = s
  BY <1>1, <1>3, <1>11 DEF G
<1> QED BY <1>12 DEF fold

\* "Deleting every snapshot must never change the result of a rebuild": whatever
\* a process had loaded when it saved a snapshot, it is the fold of the log's
\* first events.
THEOREM SnapshotsAreFolds == Spec => []SnapshotsFaithful
<1>1. IInv => SnapshotsFaithful
  <2> SUFFICES ASSUME IInv, NEW a \in Account, NEW s \in snapshots[a]
               PROVE  LET at(v) == CHOOSE e \in EventsOf(a) : e.version = v
                          fold[v \in 0..s.version] == IF v = 0 THEN Zero ELSE Apply(fold[v - 1], at(v))
                      IN  (\A v \in 1..s.version : \E e \in EventsOf(a) : e.version = v) /\ s = fold[s.version]
    BY Zenon DEF SnapshotsFaithful
  <2>1. s \in history[a]
    BY DEF IInv, SnapshotsRecorded
  <2>2. \A v \in 1..s.version : \E e \in EventsOf(a) : e.version = v
    <3>1. s.version \in Nat /\ current[a].version \in Nat /\ s.version <= current[a].version
      BY <2>1 DEF IInv, TypeOK, State, HistoryOK
    <3> QED BY <3>1 DEF IInv, LogOK, EventsOf
  <2>3. (CHOOSE f : f = Folded(a, f, s.version))[s.version] = s
    BY <2>1, FoldGivesTheState
  <2> QED BY <2>2, <2>3, Zenon DEF Folded
<1> QED BY <1>1, Inductive, PTL

-----------------------------------------------------------------------------
(***************************************************************************)
(* The store implements the ledger.                                        *)
(***************************************************************************)
LEMMA LedgerInit == Init => L!LInit
BY DEF Init, L!LInit, Zero

\* A winning append is the ledger's operation on the current state.
LEMMA AppendIsAtomic ==
    ASSUME IInv, NEW p \in Process, Append(p)
    PROVE  L!LNext
<1> SUFFICES ASSUME NEW a, a = cmd[p].account,
                   NEW e, e = RowFor(p, acc[p].version + 1)
            PROVE  L!LNext
  OBVIOUS
<1> DEFINE now == Apply(current[a], e)
           isOpen == [b \in Account |-> current[b].open]
           money == [b \in Account |-> current[b].balance]
<1>1. /\ a \in Account /\ e \in Event
      /\ e.type = cmd[p].type /\ e.amount = cmd[p].amount
      /\ Accepts(current[a], cmd[p])
      /\ current' = [current EXCEPT ![a] = now]
  BY AppendEffect
<1>2. /\ current \in [Account -> State] /\ current[a] \in State
  BY <1>1 DEF IInv, TypeOK
<1>3. cmd[p] \in Commands
  BY DEF IInv, LoadOK, Knows, Append, Loaded
<1>4. /\ isOpen' = [isOpen EXCEPT ![a] = now.open]
      /\ money' = [money EXCEPT ![a] = now.balance]
  BY <1>1, <1>2
<1>5. isOpen[a] = current[a].open /\ money[a] = current[a].balance /\ isOpen[a] \in BOOLEAN
      /\ money[a] \in Int /\ e.amount \in Nat /\ e.type \in EventTypes
  BY <1>1, <1>2 DEF State, Event
<1>6. isOpen \in [Account -> BOOLEAN] /\ money \in [Account -> Int]
  BY <1>2 DEF State
<1>7. CASE e.type = "AccountOpened"
  <2>1. ~isOpen[a]
    BY <1>1, <1>5, <1>7, AcceptsWrites
  <2>2. now.open = TRUE
    BY <1>7 DEF Apply
  <2>3. now.balance = money[a]
    BY <1>5, <1>7 DEF Apply
  <2> HIDE DEF now, isOpen, money
  <2>4. L!Open(a)
    BY <1>4, <1>6, <2>1, <2>2, <2>3 DEF L!Open, isOpen, money
  <2> QED BY <1>1, <2>4 DEF L!LNext
<1>8. CASE e.type = "Deposited"
  <2>1. isOpen[a] /\ now.open = isOpen[a] /\ now.balance = money[a] + e.amount
    BY <1>1, <1>5, <1>8, AcceptsWrites DEF Apply
  <2>2. L!Credit(a, e.amount)
    BY <1>4, <1>6, <2>1 DEF L!Credit
  <2>3. e.amount \in Amount
    BY <1>1, <1>3, <1>8 DEF Commands
  <2> HIDE DEF now, isOpen, money
  <2> QED BY <1>1, <2>2, <2>3 DEF L!LNext
<1>9. CASE e.type = "Withdrew"
  <2>1. /\ isOpen[a] /\ now.open = isOpen[a] /\ now.balance = money[a] - e.amount
        /\ e.amount <= money[a]
    BY <1>1, <1>5, <1>9, AcceptsWrites DEF Apply
  <2>2. L!Debit(a, e.amount)
    BY <1>4, <1>6, <2>1 DEF L!Debit
  <2>3. e.amount \in Amount
    BY <1>1, <1>3, <1>9 DEF Commands
  <2> HIDE DEF now, isOpen, money
  <2> QED BY <1>1, <2>2, <2>3 DEF L!LNext
<1> QED BY <1>5, <1>7, <1>8, <1>9 DEF EventTypes

\* Every other step leaves the ledger alone.
LEMMA LedgerStep == IInv /\ [Next]_vars => [L!LNext]_(L!lvars)
<1> SUFFICES ASSUME IInv, [Next]_vars PROVE [L!LNext]_(L!lvars)
  OBVIOUS
<1>1. ASSUME NEW p \in Process, Append(p) PROVE L!LNext
  BY <1>1, AppendIsAtomic
<1>2. ASSUME current' = current PROVE UNCHANGED L!lvars
  BY <1>2 DEF L!lvars
<1>3. ASSUME NEW p \in Process, Step(p), ~Append(p) PROVE current' = current
  BY <1>3 DEF Step, ReadSnapshot, QueryEvents, ApplyEvent, Rejected, AppendConflict,
              SaveSnapshot, Abandon, ghosts
<1>4. ASSUME NEW p \in Process, NEW c \in Commands, Call(p, c) PROVE current' = current
  BY <1>4 DEF Call, ghosts
<1>5. UNCHANGED vars => current' = current
  BY DEF vars
<1> QED BY <1>1, <1>2, <1>3, <1>4, <1>5 DEF Next

\* Commands race, load from any snapshot and lose: what they do to the accounts
\* is still one atomic Open, Credit or Debit at a time.
THEOREM StoreImplementsLedger == Spec => ImplementsLedger
<1> QED BY LedgerInit, LedgerStep, Inductive, PTL DEF Spec, ImplementsLedger, L!LSpec
=============================================================================
