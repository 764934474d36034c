----------------------------- MODULE HotStandby -----------------------------
(***************************************************************************)
(* simulate_hot_standby: a hot standby fed by streaming, a warm standby fed  *)
(* by archived WAL segments, and point-in-time recovery from a base backup   *)
(* and the archive.  The program runs its steps in order and waits where it  *)
(* must; the servers move by themselves.                                    *)
(*                                                                         *)
(* The WAL is a sequence of records: a batch of rows, a DELETE of all of     *)
(* them, a named restore point, or something of the server's own.           *)
(***************************************************************************)
EXTENDS Integers, Sequences

CONSTANT MaxOwn   \* bound: records of the server's own

VARIABLES
    log,       \* WAL of the primary
    closed,    \* records in completed segments
    archived,  \* records in archived segments
    hot,       \* records replayed by the hot standby
    warm,      \* records replayed by the warm standby, and whether it is promoted
    backup,    \* the record at which the base backup is consistent, -1 before
    pitr,      \* the recovered instance, and the records it has replayed
    step,      \* the program's place in main
    point,     \* record of the restore point, 0 before
    own

standbyVars == <<log, closed, archived, hot, warm, backup, pitr, step, point, own>>
servers == <<closed, archived, hot, warm, backup, pitr>>

NoInstance == [is |-> "none", at |-> 0]

\* Rows after the first k records: the batches since the last DELETE.
Batches(k) == {i \in 1..k : log[i] = "batch" /\ \A j \in i..k : log[j] # "delete"}

Init ==
    /\ log = <<>> /\ closed = 0 /\ archived = 0 /\ hot = 0
    /\ warm = [at |-> 0, promoted |-> FALSE]
    /\ backup = -1 /\ pitr = NoInstance /\ step = 1 /\ point = 0 /\ own = 0

(***************************************************************************)
(* The servers.                                                            *)
(***************************************************************************)
\* Running-transaction snapshots, checkpoints.
LogOwn ==
    /\ own < MaxOwn /\ own' = own + 1 /\ log' = Append(log, "own")
    /\ UNCHANGED <<servers, step, point>>

Archive ==
    /\ archived < closed /\ archived' = closed
    /\ UNCHANGED <<log, closed, hot, warm, backup, pitr, step, point, own>>

Stream ==
    /\ hot < Len(log) /\ hot' = hot + 1
    /\ UNCHANGED <<log, closed, archived, warm, backup, pitr, step, point, own>>

Restore ==
    /\ ~warm.promoted /\ warm.at < archived /\ warm' = [warm EXCEPT !.at = archived]
    /\ UNCHANGED <<log, closed, archived, hot, backup, pitr, step, point, own>>

(***************************************************************************)
(* The program, from the first batch on.                                    *)
(***************************************************************************)
Goes(n) == step = n /\ step' = n + 1

InsertBatch ==
    /\ \E n \in {1, 5, 9} : Goes(n)
    /\ log' = Append(log, "batch")
    /\ UNCHANGED <<servers, point, own>>

\* waitCount polls the hot standby for an exact number of rows.
WaitCount ==
    /\ \E n \in {2, 6, 14} : Goes(n)
    /\ Batches(hot) = Batches(Len(log))
    /\ UNCHANGED <<log, servers, point, own>>

SwitchWal ==
    /\ \E n \in {3, 12} : Goes(n)
    /\ closed' = Len(log)
    /\ UNCHANGED <<log, archived, hot, warm, backup, pitr, point, own>>

\* Variant: it does not wait.
ArchiveIgnored == TRUE

\* waitArchived compares the last archived segment with the one that holds the last
\* record written, which is the switched one if nothing was written since.
ArchiveCaughtUp == archived = Len(log)

WaitArchived ==
    /\ \E n \in {4, 13} : Goes(n)
    /\ ArchiveCaughtUp
    /\ UNCHANGED <<log, servers, point, own>>

\* pg_ctl promote replays what the archive holds and leaves recovery.
PromoteWarm ==
    /\ Goes(7)
    /\ warm' = [at |-> archived, promoted |-> TRUE]
    /\ UNCHANGED <<log, closed, archived, hot, backup, pitr, point, own>>

BaseBackup ==
    /\ Goes(8) /\ backup' = Len(log)
    /\ UNCHANGED <<log, closed, archived, hot, warm, pitr, point, own>>

CreateRestorePoint ==
    /\ Goes(10) /\ log' = Append(log, "point") /\ point' = Len(log) + 1
    /\ UNCHANGED <<servers, own>>

DeleteAll ==
    /\ Goes(11) /\ log' = Append(log, "delete")
    /\ UNCHANGED <<servers, point, own>>

\* The instance starts from the backup and replays the archive up to the named point;
\* without it in the archive, or with it before the backup, the server gives up.
RecoverToPoint ==
    /\ Goes(15)
    /\ pitr' = IF backup <= point /\ point <= archived
               THEN [is |-> "up", at |-> point] ELSE [is |-> "failed", at |-> 0]
    /\ UNCHANGED <<log, closed, archived, hot, warm, backup, point, own>>

Main == InsertBatch \/ WaitCount \/ SwitchWal \/ WaitArchived \/ PromoteWarm \/ BaseBackup
        \/ CreateRestorePoint \/ DeleteAll \/ RecoverToPoint

Next == LogOwn \/ Archive \/ Stream \/ Restore \/ Main

TypeOK ==
    /\ archived <= closed /\ closed <= Len(log) /\ hot <= Len(log) /\ warm.at <= archived
    /\ backup \in -1..Len(log) /\ point \in 0..Len(log)
    /\ step \in 1..16 /\ own \in 0..MaxOwn

\* The warm standby is promoted with every batch before the switch the program waited
\* for, although it has seen only archived segments; the recovered instance comes up with
\* every batch, those written after the base backup too, while the hot standby has
\* followed the DELETE.
NothingLostOnRecovery ==
    /\ warm.promoted => {i \in 1..warm.at : log[i] = "batch"} # {}
    /\ step = 16 => /\ pitr.is = "up" /\ Batches(pitr.at) = {i \in 1..point : log[i] = "batch"}
                    /\ Batches(hot) = {}
=============================================================================
