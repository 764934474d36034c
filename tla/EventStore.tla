------------------------------ MODULE EventStore ------------------------------
(***************************************************************************)
(* simulate_event_sourcing: bank accounts whose state is derived by         *)
(* replaying an append-only table of events, with snapshots of the fold and *)
(* optimistic concurrency through UNIQUE (aggregate_id, version).           *)
(*                                                                         *)
(* Processes run the commands of Store concurrently.  Each SQL statement is *)
(* one step, and so is each turn of the loop of load; what a process knows  *)
(* in between may be out of date.                                          *)
(***************************************************************************)
EXTENDS Integers, FiniteSets

CONSTANTS Account, Process,
          Amount,       \* the amounts of deposits and withdrawals, positive
          None,         \* no command
          MaxVersion    \* bound: no command starts at this version

ASSUME StoreAssumption ==
    /\ Amount \subseteq Nat \ {0}
    /\ MaxVersion \in Nat

VARIABLES
    events,     \* table events: rows [account, version, type, amount]
    snapshots,  \* table snapshots: rows [account, state], key (account, state.version)
    pc,         \* per process: where it is in its command
    cmd,        \* per process: [type, account, amount]
    acc,        \* per process: the Account struct under construction
    pending,    \* per process: rows of the events query not yet folded
    history,    \* history: per account, the states its log went through
    current     \* history: per account, the last of them

tables == <<events, snapshots>>
ghosts == <<history, current>>
vars == <<events, snapshots, pc, cmd, acc, pending, history, current>>

EventTypes == {"AccountOpened", "Deposited", "Withdrew"}
Event == [account : Account, version : Nat, type : EventTypes, amount : Nat]
State == [open : BOOLEAN, balance : Int, version : Nat]
Command == [type : EventTypes \cup {"Snapshot"}, account : Account, amount : Nat]

Zero == [open |-> FALSE, balance |-> 0, version |-> 0]

\* The types of the tables and of the processes' variables, and the keys of the
\* two tables.
TypeOK ==
    /\ events \subseteq Event
    /\ \A e, f \in events : (e.account = f.account /\ e.version = f.version) => e = f
    /\ snapshots \in [Account -> SUBSET State]
    /\ \A a \in Account : \A s, u \in snapshots[a] : s.version = u.version => s = u
    /\ pc \in [Process -> {"idle", "snapshot", "events", "fold"}]
    /\ cmd \in [Process -> Command \cup {None}]
    /\ \A p \in Process : pc[p] # "idle" => cmd[p] \in Command
    /\ acc \in [Process -> State]
    /\ pending \in [Process -> SUBSET Event]
    /\ history \in [Account -> SUBSET State]
    /\ current \in [Account -> State]

Init ==
    /\ events = {}
    /\ snapshots = [a \in Account |-> {}]
    /\ pc = [p \in Process |-> "idle"]
    /\ cmd = [p \in Process |-> None]
    /\ acc = [p \in Process |-> Zero]
    /\ pending = [p \in Process |-> {}]
    /\ history = [a \in Account |-> {Zero}]
    /\ current = [a \in Account |-> Zero]

\* Account.apply: one event folded into a state.  No command writes the
\* AccountClosed event it also knows.
Apply(s, e) ==
    [open |-> s.open \/ e.type = "AccountOpened",
     balance |-> s.balance + (CASE e.type = "Deposited" -> e.amount
                                [] e.type = "Withdrew" -> -e.amount
                                [] OTHER -> 0),
     version |-> s.version + 1]

EventsOf(a) == {e \in events : e.account = a}

Goto(p, l) == pc' = [pc EXCEPT ![p] = l]

\* The command returns, with or without an error.
Return(p) ==
    /\ Goto(p, "idle")
    /\ cmd' = [cmd EXCEPT ![p] = None]
    /\ acc' = [acc EXCEPT ![p] = Zero]
    /\ pending' = [pending EXCEPT ![p] = {}]

(***************************************************************************)
(* The commands: load, validate, append.                                   *)
(***************************************************************************)
Call(p, c) ==
    /\ pc[p] = "idle"
    /\ current[c.account].version < MaxVersion
    /\ cmd' = [cmd EXCEPT ![p] = c]
    /\ Goto(p, "snapshot")
    /\ UNCHANGED <<tables, acc, pending, ghosts>>

\* Variant: the version of the snapshot is taken over but not its state.
ReadSnapshotVersion(p) ==
    /\ pc[p] = "snapshot"
    /\ LET saved == snapshots[cmd[p].account]
       IN  \/ saved = {} /\ UNCHANGED acc
           \/ \E s \in saved :
                /\ \A u \in saved : u.version <= s.version
                /\ acc' = [acc EXCEPT ![p].version = s.version]
    /\ Goto(p, "events")
    /\ UNCHANGED <<tables, cmd, pending, ghosts>>

\* load, first query: the newest snapshot, if there is one.
ReadSnapshot(p) ==
    /\ pc[p] = "snapshot"
    /\ LET saved == snapshots[cmd[p].account]
       IN  \/ saved = {} /\ UNCHANGED acc
           \/ \E s \in saved :
                /\ \A u \in saved : u.version <= s.version
                /\ acc' = [acc EXCEPT ![p] = s]
    /\ Goto(p, "events")
    /\ UNCHANGED <<tables, cmd, pending, ghosts>>

\* Variant: fromVersion is not set from the snapshot: every event is replayed
\* on top of it.
QueryAllEvents(p) ==
    /\ pc[p] = "events"
    /\ pending' = [pending EXCEPT ![p] = EventsOf(cmd[p].account)]
    /\ Goto(p, "fold")
    /\ UNCHANGED <<tables, cmd, acc, ghosts>>

\* load, second query: the events after the snapshot, as of this statement.
QueryEvents(p) ==
    /\ pc[p] = "events"
    /\ pending' = [pending EXCEPT ![p] =
           {e \in EventsOf(cmd[p].account) : e.version > acc[p].version}]
    /\ Goto(p, "fold")
    /\ UNCHANGED <<tables, cmd, acc, ghosts>>

\* One turn of the loop over the rows, which are ordered by version.
ApplyEvent(p) ==
    /\ pc[p] = "fold"
    /\ \E e \in pending[p] :
         /\ \A f \in pending[p] : e.version <= f.version
         /\ acc' = [acc EXCEPT ![p] = Apply(@, e)]
         /\ pending' = [pending EXCEPT ![p] = @ \ {e}]
    /\ UNCHANGED <<tables, pc, cmd, ghosts>>

Loaded(p) == pc[p] = "fold" /\ pending[p] = {}

\* Variant: a deposit does not ask whether the account is open.
AcceptsClosed(s, c) ==
    CASE c.type = "AccountOpened" -> ~s.open
      [] c.type = "Deposited" -> TRUE
      [] c.type = "Withdrew" -> s.open /\ c.amount <= s.balance
      [] OTHER -> FALSE

\* The business rules, asked of the loaded state.
Accepts(s, c) ==
    CASE c.type = "AccountOpened" -> ~s.open
      [] c.type = "Deposited" -> s.open
      [] c.type = "Withdrew" -> s.open /\ c.amount <= s.balance
      [] OTHER -> FALSE

Rejected(p) ==
    /\ Loaded(p)
    /\ cmd[p].type # "Snapshot" /\ ~Accepts(acc[p], cmd[p])
    /\ Return(p)
    /\ UNCHANGED <<tables, ghosts>>

RowFor(p, v) ==
    [account |-> cmd[p].account, version |-> v, type |-> cmd[p].type, amount |-> cmd[p].amount]

Taken(p) == \E e \in EventsOf(cmd[p].account) : e.version = acc[p].version + 1

\* The bookkeeping of the history variables: the log got one event longer.
Record(a, e) ==
    /\ current' = [current EXCEPT ![a] = Apply(@, e)]
    /\ history' = [history EXCEPT ![a] = @ \cup {Apply(current[a], e)}]

\* Variants: the INSERT without the UNIQUE constraint; and an INSERT that
\* computes the next version itself instead of using the loaded one.
AppendAnyway(p) ==
    /\ Loaded(p)
    /\ Accepts(acc[p], cmd[p])
    /\ events' = events \cup {RowFor(p, acc[p].version + 1)}
    /\ Record(cmd[p].account, RowFor(p, acc[p].version + 1))
    /\ Return(p)
    /\ UNCHANGED snapshots

AppendAtEnd(p) ==
    /\ Loaded(p)
    /\ Accepts(acc[p], cmd[p])
    /\ LET e == RowFor(p, current[cmd[p].account].version + 1)
       IN  events' = events \cup {e} /\ Record(cmd[p].account, e)
    /\ Return(p)
    /\ UNCHANGED snapshots

\* append: the INSERT at expectedVersion + 1 succeeds.
Append(p) ==
    /\ Loaded(p)
    /\ Accepts(acc[p], cmd[p])
    /\ ~Taken(p)
    /\ LET e == RowFor(p, acc[p].version + 1)
       IN  events' = events \cup {e} /\ Record(cmd[p].account, e)
    /\ Return(p)
    /\ UNCHANGED snapshots

\* Another writer committed that version: ErrConcurrency.
AppendConflict(p) ==
    /\ Loaded(p)
    /\ Accepts(acc[p], cmd[p])
    /\ Taken(p)
    /\ Return(p)
    /\ UNCHANGED <<tables, ghosts>>

\* snapshot: save the loaded state, ON CONFLICT DO NOTHING.
SaveSnapshot(p) ==
    /\ Loaded(p)
    /\ cmd[p].type = "Snapshot"
    /\ LET saved == snapshots[cmd[p].account]
       IN  IF \E u \in saved : u.version = acc[p].version
           THEN UNCHANGED snapshots
           ELSE snapshots' = [snapshots EXCEPT ![cmd[p].account] = @ \cup {acc[p]}]
    /\ Return(p)
    /\ UNCHANGED <<events, ghosts>>

\* A process dies, or an error other than those above ends its command; no
\* transaction spans two of its statements.
Abandon(p) ==
    /\ pc[p] # "idle"
    /\ Return(p)
    /\ UNCHANGED <<tables, ghosts>>

Commands == [type : {"AccountOpened", "Snapshot"}, account : Account, amount : {0}]
            \cup [type : {"Deposited", "Withdrew"}, account : Account, amount : Amount]

Step(p) ==
    \/ ReadSnapshot(p) \/ QueryEvents(p) \/ ApplyEvent(p) \/ Rejected(p)
    \/ Append(p) \/ AppendConflict(p) \/ SaveSnapshot(p) \/ Abandon(p)

Next == \E p \in Process : Step(p) \/ \E c \in Commands : Call(p, c)

Spec == Init /\ [][Next]_vars

(***************************************************************************)
(* Properties.                                                             *)
(***************************************************************************)
\* "per-aggregate version, 1,2,3,..." (init/01_schema.sql): however writers
\* race and whatever snapshot they start from, no version is skipped.
VersionsContiguous ==
    \A e \in events : \A v \in 1..e.version :
        \E f \in events : f.account = e.account /\ f.version = v

\* A snapshot is the fold of the first events of the log: "deleting every
\* snapshot must never change the result of a rebuild" (init/01_schema.sql).
SnapshotsFaithful ==
    \A a \in Account : \A s \in snapshots[a] :
        LET at(v) == CHOOSE e \in EventsOf(a) : e.version = v
            fold[v \in 0..s.version] == IF v = 0 THEN Zero ELSE Apply(fold[v - 1], at(v))
        IN  (\A v \in 1..s.version : \E e \in EventsOf(a) : e.version = v) /\ s = fold[s.version]

\* The business rule holds of the log, although it is validated against a state
\* that other writers may have advanced: no prefix of the log is overdrawn.
NeverOverdrawn == \A a \in Account : \A s \in history[a] : s.balance >= 0

\* The accounts are a ledger: a winning append is one atomic operation on it.
L == INSTANCE Ledger WITH opened  <- [a \in Account |-> current[a].open],
                          balance <- [a \in Account |-> current[a].balance]
ImplementsLedger == L!LSpec

(***************************************************************************)
(* The inductive invariant behind the properties.                          *)
(***************************************************************************)
\* The states a log went through have one version each, up to the current one,
\* and none is overdrawn.
HistoryOK ==
    \A a \in Account :
        /\ Zero \in history[a] /\ current[a] \in history[a]
        /\ \A s \in history[a] : s.version <= current[a].version /\ s.balance >= 0
        /\ \A s, u \in history[a] : s.version = u.version => s = u

\* The log has an event for each version up to the current one and no other, and
\* folding an event into the state before it gives a state of the history.
LogOK ==
    /\ \A e \in events :
         /\ e.version \in 1..current[e.account].version
         /\ \A s \in history[e.account] : s.version + 1 = e.version => Apply(s, e) \in history[e.account]
    /\ \A a \in Account : \A v \in 1..current[a].version : \E e \in events : e.account = a /\ e.version = v

SnapshotsRecorded == \A a \in Account : snapshots[a] \subseteq history[a]

\* The rows p has still to fold are the log's, and none is missing between its
\* state and any of them.
FoldsNext(p) ==
    \A e \in pending[p] :
        /\ e \in events /\ e.account = cmd[p].account
        /\ e.version > acc[p].version
        /\ \A v \in acc[p].version + 1 .. e.version - 1 : \E f \in pending[p] : f.version = v

\* What a process has loaded was true once: a state of the account's history.
Knows(p) ==
    /\ pc[p] \in {"idle", "snapshot"} => acc[p] = Zero
    /\ pc[p] # "idle" => cmd[p] \in Commands
    /\ pc[p] \in {"events", "fold"} => acc[p] \in history[cmd[p].account]
    /\ pc[p] = "fold" => FoldsNext(p)

LoadOK == \A p \in Process : Knows(p)

IInv == TypeOK /\ HistoryOK /\ LogOK /\ SnapshotsRecorded /\ LoadOK
=============================================================================
