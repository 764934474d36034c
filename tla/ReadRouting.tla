----------------------------- MODULE ReadRouting -----------------------------
(***************************************************************************)
(* simulate_read_write_splitting (Router) and simulate_read_replicas         *)
(* (ReplicaSet): writes go to the primary, reads to replicas in turn, and a  *)
(* reader that wants its own write either waits for no one and uses the      *)
(* primary, or asks each replica how far it has replayed.                    *)
(* A commit is its position in the WAL.                                     *)
(***************************************************************************)
EXTENDS Integers, FiniteSets

CONSTANTS Replicas,    \* the most that are configured
          Client,
          MaxCommits   \* bound: commits on the primary

VARIABLES
    replicas,  \* how many replicas are configured, if any
    commits,   \* commits on the primary
    received,  \* per replica: WAL it has received
    replayed,  \* per replica: WAL it has replayed, which is what its queries see
    next,      \* the round-robin counter, modulo the number of replicas
    client     \* per client: step, position of its last write, LSN it was given,
               \* replica it is asking, position its last read reflected

routingVars == <<replicas, commits, received, replayed, next, client>>
wal == <<replicas, commits, received, replayed>>

\* A replica is its index.
Replica == 0..replicas - 1

Init ==
    /\ replicas \in 0..Replicas
    /\ commits = 0 /\ received = [r \in Replica |-> 0] /\ replayed = [r \in Replica |-> 0]
    /\ next = 0
    /\ client = [c \in Client |-> [at |-> "idle", wrote |-> 0, lsn |-> 0, ask |-> 0, saw |-> 0]]

(***************************************************************************)
(* PostgreSQL's streaming replication.                                      *)
(***************************************************************************)
Receive(r) ==
    /\ received[r] < commits /\ received' = [received EXCEPT ![r] = @ + 1]
    /\ UNCHANGED <<replicas, commits, replayed, next, client>>

Replay(r) ==
    /\ replayed[r] < received[r] /\ replayed' = [replayed EXCEPT ![r] = @ + 1]
    /\ UNCHANGED <<replicas, commits, received, next, client>>

(***************************************************************************)
(* Write: the statement commits by itself; the LSN comes from a second one.  *)
(***************************************************************************)
Write(c) ==
    /\ client[c].at = "idle" /\ commits < MaxCommits
    /\ commits' = commits + 1
    /\ client' = [client EXCEPT ![c].at = "lsn", ![c].wrote = commits + 1]
    /\ UNCHANGED <<replicas, received, replayed, next>>

CurrentLSN == commits

\* pg_current_wal_lsn(); 0 when that query fails, which is reported with no LSN.
ReadLSN(c) ==
    /\ client[c].at = "lsn"
    /\ \E l \in {0, CurrentLSN} : client' = [client EXCEPT ![c].at = "idle", ![c].lsn = l]
    /\ UNCHANGED <<wal, next>>

(***************************************************************************)
(* ConsistentRead: replicas in order, the query follows the answer.          *)
(***************************************************************************)
StartConsistentRead(c) ==
    /\ client[c].at = "idle"
    /\ client' = [client EXCEPT ![c].at = "ask", ![c].ask = 0]
    /\ UNCHANGED <<wal, next>>

\* Variant: asks for the WAL received.
HasReceived(r, lsn) == lsn # 0 /\ received[r] >= lsn

CaughtUp(r, lsn) == lsn # 0 /\ replayed[r] >= lsn

\* A replica that fails, or to which an empty LSN is an error, is passed over.
AskReplica(c) ==
    /\ client[c].at = "ask" /\ client[c].ask \in Replica
    /\ \/ CaughtUp(client[c].ask, client[c].lsn) /\ client' = [client EXCEPT ![c].at = "query"]
       \/ client' = [client EXCEPT ![c].ask = @ + 1]
    /\ UNCHANGED <<wal, next>>

QueryReplica(c) ==
    /\ client[c].at = "query"
    /\ client' = [client EXCEPT ![c].at = "consistent", ![c].saw = replayed[client[c].ask]]
    /\ UNCHANGED <<wal, next>>

\* After the last replica.
QueryPrimary(c) ==
    /\ client[c].at = "ask" /\ client[c].ask \notin Replica
    /\ client' = [client EXCEPT ![c].at = "consistent", ![c].saw = commits]
    /\ UNCHANGED <<wal, next>>

\* The ReplicaSet asks no one: what must be read back at once is read from the Writer.
ReadYourWrite(c) ==
    /\ client[c].at = "idle"
    /\ client' = [client EXCEPT ![c].at = "consistent", ![c].saw = commits]
    /\ UNCHANGED <<wal, next>>

\* pickReplica and readerWithIndex: the counter moves on before it is used.
Turn == (next + 1) % replicas

ReadReplica(c) ==
    /\ client[c].at = "idle" /\ Replica # {}
    /\ next' = Turn
    /\ client' = [client EXCEPT ![c].at = "read", ![c].saw = replayed[Turn]]
    /\ UNCHANGED wal

\* With no replica configured both fall back to the primary; the counter stays.
ReadPrimary(c) ==
    /\ client[c].at = "idle" /\ Replica = {}
    /\ client' = [client EXCEPT ![c].at = "read", ![c].saw = commits]
    /\ UNCHANGED <<wal, next>>

Read(c) == ReadReplica(c) \/ ReadPrimary(c)

\* demonstrateReplicationLag reads the first replica until its row is there or 5 s are over
\* (and has no fallback: it indexes replicas[0]).
PollReplica(c) ==
    /\ client[c].at = "idle" /\ 0 \in Replica
    /\ client' = [client EXCEPT ![c].at = "poll", ![c].saw = replayed[0]]
    /\ UNCHANGED <<wal, next>>

PollAgain(c) ==
    /\ client[c].at = "poll" /\ client[c].saw < client[c].wrote
    /\ client' = [client EXCEPT ![c].saw = replayed[0]]
    /\ UNCHANGED <<wal, next>>

Done(c) ==
    /\ client[c].at \in {"consistent", "read", "poll"}
    /\ client' = [client EXCEPT ![c].at = "idle", ![c].ask = 0, ![c].saw = 0]
    /\ UNCHANGED <<wal, next>>

ConsistentRead(c) == StartConsistentRead(c) \/ AskReplica(c) \/ QueryReplica(c) \/ QueryPrimary(c)

Next ==
    \/ \E r \in Replica : Receive(r) \/ Replay(r)
    \/ \E c \in Client : \/ Write(c) \/ ReadLSN(c) \/ ConsistentRead(c) \/ ReadYourWrite(c)
                         \/ Read(c) \/ PollReplica(c) \/ PollAgain(c) \/ Done(c)

TypeOK ==
    /\ replicas \in 0..Replicas /\ commits \in 0..MaxCommits /\ next \in Replica \cup {0}
    /\ \A r \in Replica : replayed[r] <= received[r] /\ received[r] <= commits
    /\ \A c \in Client : client[c].lsn <= commits /\ client[c].wrote <= commits
                         /\ client[c].ask \in 0..replicas /\ client[c].saw <= commits

\* A read that ConsistentRead or the Writer served, from wherever, reflects the client's last write,
\* if it holds the LSN that its Write returned or none at all.
ReadYourWrites ==
    \A c \in Client : client[c].at = "consistent" => client[c].saw >= client[c].wrote
=============================================================================
