------------------------------ MODULE Failover ------------------------------
(***************************************************************************)
(* simulate_automatic_failover: a manager probes the primary, promotes the   *)
(* standby after failThresh failures in a row and writes to it from then on. *)
(* Rows are numbered as they are written, whichever node takes them.        *)
(***************************************************************************)
EXTENDS Integers, Sequences

CONSTANTS FailThresh, MaxProbes,
          MaxRows,    \* bound: rows written
          MaxOutages  \* bound: crashes of the primary

VARIABLES
    rows,      \* per node: the rows it has committed
    lastRow,   \* rows written so far
    up,        \* the primary runs and is reachable
    standby,   \* recovery, promoting (pg_promote was accepted) or primary
    manager,   \* stage of WatchAndFailover, probe number, failures in a row
    current,   \* the node that FailoverManager.current points to
    refused,   \* history: the probes of this run in order, TRUE for failed
    outages

failoverVars == <<rows, lastRow, up, standby, manager, current, refused, outages>>
nodes == <<rows, lastRow, up, standby, outages>>

Init ==
    /\ rows = [n \in {"primary", "standby"} |-> {}] /\ lastRow = 0
    /\ up = TRUE /\ standby = "recovery"
    /\ manager = [at |-> "watch", probe |-> 0, failures |-> 0]
    /\ current = "primary" /\ refused = <<>> /\ outages = 0

Accepts(n) == IF n = "primary" THEN up ELSE standby = "primary"

(***************************************************************************)
(* The nodes, which know nothing of the manager.                            *)
(***************************************************************************)
\* Streaming while both ends live; the next row is the oldest one missing.
Stream ==
    /\ up /\ standby = "recovery" /\ rows["primary"] # rows["standby"]
    /\ LET missing == rows["primary"] \ rows["standby"]
           row == CHOOSE r \in missing : \A m \in missing : r <= m
       IN rows' = [rows EXCEPT !["standby"] = @ \cup {row}]
    /\ UNCHANGED <<lastRow, up, standby, manager, current, refused, outages>>

Crash ==
    /\ up /\ outages < MaxOutages /\ up' = FALSE /\ outages' = outages + 1
    /\ UNCHANGED <<rows, lastRow, standby, manager, current, refused>>

\* docker compose up -d postgres_primary: it starts as the primary it was.
Restart ==
    /\ ~up /\ up' = TRUE
    /\ UNCHANGED <<rows, lastRow, standby, manager, current, refused, outages>>

LeaveRecovery ==
    /\ standby = "promoting" /\ standby' = "primary"
    /\ UNCHANGED <<rows, lastRow, up, manager, current, refused, outages>>

(***************************************************************************)
(* Write: on whatever current points to; other programs keep their pools.    *)
(***************************************************************************)
WriteTo(n) ==
    /\ Accepts(n) /\ lastRow < MaxRows
    /\ lastRow' = lastRow + 1
    /\ rows' = [rows EXCEPT ![n] = @ \cup {lastRow + 1}]
    /\ UNCHANGED <<up, standby, manager, current, refused, outages>>

Write == WriteTo(current)
WriteElsewhere(n) == n # current /\ WriteTo(n)

(***************************************************************************)
(* WatchAndFailover.                                                       *)
(***************************************************************************)
Step(at, probe, failures) ==
    manager' = [at |-> at, probe |-> probe, failures |-> failures]

\* Variant: a success does not reset the count.
ProbeOKKeepsCount ==
    /\ manager.at = "watch" /\ manager.probe < MaxProbes /\ up
    /\ Step("watch", manager.probe + 1, manager.failures)
    /\ refused' = Append(refused, FALSE)
    /\ UNCHANGED <<nodes, current>>

\* SELECT 1 within two seconds; a probe may fail although the primary is up.
ProbeOK ==
    /\ manager.at = "watch" /\ manager.probe < MaxProbes /\ up
    /\ Step("watch", manager.probe + 1, 0)
    /\ refused' = Append(refused, FALSE)
    /\ UNCHANGED <<nodes, current>>

Reached(failures) == failures >= FailThresh

ProbeFails ==
    LET failures == manager.failures + 1 IN
    /\ manager.at = "watch" /\ manager.probe < MaxProbes
    /\ Step(IF Reached(failures) THEN "promote" ELSE "watch", manager.probe + 1, failures)
    /\ refused' = Append(refused, TRUE)
    /\ UNCHANGED <<nodes, current>>

\* maxProbes have passed; the program ends.
GiveUp ==
    /\ manager.at = "watch" /\ manager.probe = MaxProbes
    /\ Step("ended", manager.probe, manager.failures)
    /\ UNCHANGED <<nodes, current, refused>>

\* pg_promote: accepted, accepted with the answer lost, or not accepted.
Promote ==
    /\ manager.at = "promote"
    /\ \E accepted, answered \in BOOLEAN :
         /\ answered => accepted
         /\ standby' = IF accepted THEN "promoting" ELSE standby
         /\ Step(IF answered THEN "await" ELSE "failed", manager.probe, manager.failures)
    /\ UNCHANGED <<rows, lastRow, up, current, refused, outages>>

\* The poll of pg_is_in_recovery: the new primary is current only once it answers.
SwitchCurrent ==
    /\ manager.at = "await" /\ standby = "primary"
    /\ current' = "standby" /\ Step("promoted", manager.probe, manager.failures)
    /\ UNCHANGED <<nodes, refused>>

\* Fifteen seconds without that answer.
AwaitTimeout ==
    /\ manager.at = "await"
    /\ Step("failed", manager.probe, manager.failures)
    /\ UNCHANGED <<nodes, current, refused>>

Watch == ProbeOK \/ ProbeFails \/ GiveUp \/ Promote \/ SwitchCurrent \/ AwaitTimeout

Next ==
    \/ Stream \/ Crash \/ Restart \/ LeaveRecovery
    \/ Write \/ (\E n \in {"primary", "standby"} : WriteElsewhere(n))
    \/ Watch

TypeOK ==
    /\ rows["primary"] \cup rows["standby"] = 1..lastRow /\ lastRow \in 0..MaxRows
    /\ standby \in {"recovery", "promoting", "primary"} /\ up \in BOOLEAN
    /\ manager.at \in {"watch", "ended", "promote", "await", "promoted", "failed"}
    /\ manager.probe = Len(refused) /\ outages \in 0..MaxOutages

\* The standby is promoted only after FailThresh probes in a row failed, and is written
\* to only once it is out of recovery.
PromotedForReason ==
    /\ standby # "recovery" =>
         /\ Len(refused) >= FailThresh
         /\ \A i \in Len(refused) - FailThresh + 1..Len(refused) : refused[i]
    /\ current = "standby" => standby = "primary"

\* A primary that stays down with enough probes left is replaced, or the promotion
\* itself fails; the loop does not go on probing it.
OutageEndsInPromotion ==
    (~up /\ manager.at = "watch" /\ manager.probe + FailThresh <= MaxProbes)
        ~> (up \/ manager.at \in {"promoted", "failed"})
=============================================================================
