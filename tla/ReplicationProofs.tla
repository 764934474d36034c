------------------------- MODULE ReplicationProofs -------------------------
(***************************************************************************)
(* Theorems about the programs of MCCopies that keep replicas of a server:    *)
(* failover, the balancer of reads, the routing of reads, synchronous         *)
(* commits, recovery from an archive, and two primaries; and of the types of  *)
(* all programs of MCCopies.                                                *)
(***************************************************************************)
EXTENDS DerivedDataProofs, SequenceTheorems

LEMMA Bounds ==
  /\ Replicas \in Nat /\ FailThresh \in Nat \ {0}
  /\ Fall \in Nat \ {0} /\ Rise \in Nat \ {0}
  /\ MaxRows \in Nat /\ MaxProbes \in Nat /\ MaxOutages \in Nat
  /\ MaxCommits \in Nat /\ MaxInserts \in Nat /\ MaxChanges \in Nat
  /\ MaxUpdates \in Nat /\ MaxOwn \in Nat /\ MaxStops \in Nat
  /\ "primary" \notin ReadServer /\ "none" \notin ReadServer
  BY CopiesAssumption DEF CopiesAssumption

(***************************************************************************)
(* automatic_failover.                                                     *)
(***************************************************************************)
LEMMA FailoverSteps == [Next]_vars => Promotion!Next \/ UNCHANGED failoverVars
  BY DEF Next, Others, vars

\* The least of a set of numbers.
LEMMA MinOfNumbers ==
  ASSUME NEW S \in SUBSET Nat, S # {}
  PROVE  \E x \in S : \A y \in S : x <= y
  <1>1. IsWellFoundedOn(OpToRel(<, Nat), Nat)
    BY NatLessThanWellFounded
  <1>2. PICK x \in S : \A y \in S : ~ (<<y, x>> \in OpToRel(<, Nat))
    BY <1>1, WFMin
  <1>3. \A y \in S : y \in Nat /\ x \in Nat /\ ~ (y < x)
    BY <1>2 DEF OpToRel
  <1> QED BY <1>3

FailoverTypes ==
    /\ rows \in [{"primary", "standby"} -> SUBSET Nat]
    /\ manager \in [at : {"watch", "ended", "promote", "await", "promoted", "failed"},
                    probe : Nat, failures : Nat]
    /\ refused \in Seq(BOOLEAN) /\ current \in {"primary", "standby"}
    /\ Promotion!TypeOK

\* The standby holds nothing but what it has streamed until it is promoted.
Streamed == standby = "recovery" => rows["standby"] \subseteq rows["primary"]

ProbeFailed(i) == refused[i] = TRUE

\* The count of failures is that of the last probes, all of them failed.
FailuresInARow ==
    /\ manager.failures <= Len(refused)
    /\ \A i \in Len(refused) - manager.failures + 1..Len(refused) : ProbeFailed(i)
    /\ manager.at \in {"promote", "await", "promoted", "failed"} => manager.failures >= FailThresh

PromotionOrder ==
    /\ standby # "recovery" => manager.at \in {"await", "promoted", "failed"}
    /\ current = "standby" => standby = "primary"

FailoverInv == FailoverTypes /\ Streamed /\ FailuresInARow /\ PromotionOrder

LEMMA FailoverInit == Init => FailoverInv
  <1> SUFFICES ASSUME Promotion!Init PROVE FailoverInv
    BY DEF Init
  <1>1. up \in BOOLEAN
    BY DEF Promotion!Init
  <1> QED BY <1>1, Bounds
          DEF Promotion!Init, FailoverInv, FailoverTypes, Promotion!TypeOK, Streamed,
              FailuresInARow, PromotionOrder

\* The nodes: rows are added at one of them, in the order of the log.
LEMMA NodeSteps ==
  ASSUME FailoverInv,
         \/ Promotion!Stream \/ Promotion!Crash \/ Promotion!Restart \/ Promotion!LeaveRecovery
         \/ \E n \in {"primary", "standby"} : Promotion!WriteTo(n)
  PROVE  FailoverInv'
  <1> USE Bounds DEF FailoverInv
  <1>0. UNCHANGED <<manager, current, refused>>
    BY DEF Promotion!Stream, Promotion!Crash, Promotion!Restart, Promotion!LeaveRecovery,
           Promotion!WriteTo
  <1>1. FailuresInARow'
    BY <1>0 DEF FailuresInARow, ProbeFailed
  <1>2. PromotionOrder'
    BY <1>0 DEF PromotionOrder, Promotion!Stream, Promotion!Crash, Promotion!Restart,
                Promotion!LeaveRecovery, Promotion!WriteTo
  <1>3. CASE Promotion!Stream
    <2> DEFINE missing == rows["primary"] \ rows["standby"]
               row == CHOOSE r \in missing : \A m \in missing : r <= m
    <2>1. rows \in [{"primary", "standby"} -> SUBSET Nat]
          /\ rows' = [rows EXCEPT !["standby"] = rows["standby"] \cup {row}]
          /\ UNCHANGED <<lastRow, up, standby, outages>>
      BY <1>3 DEF FailoverTypes, Promotion!Stream
    <2>2. missing # {} /\ missing \in SUBSET Nat
      BY <1>3, <2>1 DEF Promotion!Stream, Streamed
    <2>3. row \in missing
      BY <2>2, MinOfNumbers
    <2> HIDE DEF row
    <2>4. rows'["primary"] = rows["primary"] /\ rows'["standby"] = rows["standby"] \cup {row}
          /\ rows' \in [{"primary", "standby"} -> SUBSET Nat]
      BY <2>1, <2>3
    <2>5. Streamed'
      BY <2>1, <2>3, <2>4 DEF Streamed
    <2>6. rows'["primary"] \cup rows'["standby"] = rows["primary"] \cup rows["standby"]
      BY <2>3, <2>4
    <2>7. Promotion!TypeOK'
      BY <1>0, <2>1, <2>6 DEF FailoverTypes, Promotion!TypeOK
    <2> QED BY <1>0, <1>1, <1>2, <2>4, <2>5, <2>7 DEF FailoverTypes
  <1>4. ASSUME NEW n \in {"primary", "standby"}, Promotion!WriteTo(n) PROVE FailoverInv'
    <2>1. /\ rows \in [{"primary", "standby"} -> SUBSET Nat] /\ lastRow \in 0..MaxRows
          /\ rows' = [rows EXCEPT ![n] = rows[n] \cup {lastRow + 1}]
          /\ lastRow' = lastRow + 1 /\ lastRow < MaxRows
          /\ UNCHANGED <<up, standby, outages>>
      BY <1>4 DEF FailoverTypes, Promotion!WriteTo, Promotion!TypeOK
    <2>2. /\ rows' \in [{"primary", "standby"} -> SUBSET Nat]
          /\ rows'["primary"] \cup rows'["standby"]
               = rows["primary"] \cup rows["standby"] \cup {lastRow + 1}
      BY <2>1
    <2>3. Streamed'
      BY <1>4, <2>1 DEF Streamed, Promotion!WriteTo, Promotion!Accepts
    <2>4. Promotion!TypeOK'
      BY <1>0, <2>1, <2>2 DEF FailoverTypes, Promotion!TypeOK
    <2> QED BY <1>0, <1>1, <1>2, <2>2, <2>3, <2>4 DEF FailoverTypes
  <1>5. CASE Promotion!Crash \/ Promotion!Restart \/ Promotion!LeaveRecovery
    <2>1. UNCHANGED <<rows, lastRow>> /\ (standby' = "recovery" => standby = "recovery")
          /\ standby' \in {"recovery", "promoting", "primary"}
      BY <1>5 DEF Promotion!Crash, Promotion!Restart, Promotion!LeaveRecovery, FailoverTypes,
                  Promotion!TypeOK
    <2>2. up' \in BOOLEAN
      BY <1>5, Zenon DEF Promotion!Crash, Promotion!Restart, Promotion!LeaveRecovery,
                         FailoverTypes, Promotion!TypeOK
    <2>3. outages' \in 0..MaxOutages
      BY <1>5 DEF Promotion!Crash, Promotion!Restart, Promotion!LeaveRecovery, FailoverTypes,
                  Promotion!TypeOK
    <2>4. Promotion!TypeOK'
      BY <1>0, <2>1, <2>2, <2>3 DEF FailoverTypes, Promotion!TypeOK
    <2>5. Streamed'
      BY <2>1 DEF Streamed
    <2> QED BY <1>0, <1>1, <1>2, <2>1, <2>4, <2>5 DEF FailoverTypes
  <1> QED BY <1>3, <1>4, <1>5

LEMMA WatchSteps ==
  ASSUME FailoverInv, Promotion!Watch
  PROVE  FailoverInv'
  <1> USE Bounds DEF FailoverInv
  <1>0. UNCHANGED <<rows, lastRow, up, outages>>
    BY DEF Promotion!Watch, Promotion!ProbeOK, Promotion!ProbeFails, Promotion!GiveUp,
           Promotion!Promote, Promotion!SwitchCurrent, Promotion!AwaitTimeout, Promotion!nodes
  <1>1. /\ manager.at \in {"watch", "ended", "promote", "await", "promoted", "failed"}
        /\ manager.probe \in Nat /\ manager.failures \in Nat /\ refused \in Seq(BOOLEAN)
        /\ manager.probe = Len(refused) /\ Len(refused) \in Nat
    BY DEF FailoverTypes, Promotion!TypeOK
  <1>2. ASSUME NEW b \in BOOLEAN, refused' = Append(refused, b)
        PROVE  /\ Len(refused') = Len(refused) + 1 /\ refused' \in Seq(BOOLEAN)
               /\ refused'[Len(refused) + 1] = b
               /\ \A i \in 1..Len(refused) : refused'[i] = refused[i]
    BY <1>1, <1>2
  <1>3. CASE Promotion!ProbeOK
    <2>1. manager' = [at |-> "watch", probe |-> manager.probe + 1, failures |-> 0]
          /\ refused' = Append(refused, FALSE) /\ UNCHANGED <<standby, current>>
      BY <1>3 DEF Promotion!ProbeOK, Promotion!Step, Promotion!nodes
    <2>2. Len(refused') = Len(refused) + 1 /\ refused' \in Seq(BOOLEAN)
      BY <1>2, <2>1
    <2>3. FailuresInARow'
      BY <1>1, <2>1, <2>2 DEF FailuresInARow
    <2>4. PromotionOrder' /\ Streamed'
      BY <1>0, <1>3, <2>1 DEF PromotionOrder, Streamed, Promotion!ProbeOK
    <2>5. FailoverTypes'
      BY <1>0, <1>1, <2>1, <2>2 DEF FailoverTypes, Promotion!TypeOK
    <2> QED BY <2>3, <2>4, <2>5
  <1>4. CASE Promotion!ProbeFails
    <2> DEFINE n == manager.failures + 1
    <2>1. /\ manager' = [at |-> IF n >= FailThresh THEN "promote" ELSE "watch",
                         probe |-> manager.probe + 1, failures |-> n]
          /\ refused' = Append(refused, TRUE) /\ UNCHANGED <<standby, current>>
          /\ manager.at = "watch"
      BY <1>4 DEF Promotion!ProbeFails, Promotion!Step, Promotion!Reached, Promotion!nodes
    <2>2. /\ Len(refused') = Len(refused) + 1 /\ refused' \in Seq(BOOLEAN)
          /\ refused'[Len(refused) + 1] = TRUE
          /\ \A i \in 1..Len(refused) : refused'[i] = refused[i]
      BY <1>2, <2>1
    <2>3. manager'.failures = n /\ manager'.probe = manager.probe + 1
          /\ manager'.at \in {"promote", "watch"} /\ (manager'.at = "promote" => n >= FailThresh)
          /\ manager' \in [at : {"watch", "ended", "promote", "await", "promoted", "failed"},
                           probe : Nat, failures : Nat]
      BY <1>1, <2>1
    <2>4. FailuresInARow'
      <3>1. Len(refused') \in Nat /\ Len(refused') = Len(refused) + 1 /\ n \in Nat
        BY <1>1, <2>2
      <3>2. ASSUME NEW i \in Int, i <= Len(refused'), i + n >= Len(refused') + 1
            PROVE  ProbeFailed(i)'
        <4>1. manager.failures <= Len(refused)
              /\ \A j \in Len(refused) - manager.failures + 1..Len(refused) : ProbeFailed(j)
          BY DEF FailuresInARow
        <4>2. CASE i = Len(refused) + 1
          BY <2>2, <4>2 DEF ProbeFailed
        <4>3. CASE i # Len(refused) + 1
          <5>1. i \in Len(refused) - manager.failures + 1..Len(refused) /\ i \in 1..Len(refused)
            BY <1>1, <2>2, <3>2, <4>1, <4>3
          <5> QED BY <2>2, <4>1, <5>1 DEF ProbeFailed
        <4> QED BY <4>2, <4>3
      <3>3. manager'.failures <= Len(refused')
        BY <1>1, <2>2, <2>3 DEF FailuresInARow
      <3>4. manager'.at \in {"promote", "await", "promoted", "failed"}
              => manager'.failures >= FailThresh
        BY <2>3
      <3> HIDE DEF n
      <3>5. \A i \in Len(refused') - n + 1..Len(refused') : ProbeFailed(i)'
        BY <3>1, <3>2
      <3> QED BY <2>3, <3>3, <3>4, <3>5 DEF FailuresInARow
    <2>5. PromotionOrder' /\ Streamed'
      BY <1>0, <2>1 DEF PromotionOrder, Streamed
    <2>6. FailoverTypes'
      BY <1>0, <1>1, <2>1, <2>2, <2>3 DEF FailoverTypes, Promotion!TypeOK
    <2> QED BY <2>4, <2>5, <2>6
  <1>5. CASE Promotion!GiveUp \/ Promotion!Promote \/ Promotion!SwitchCurrent
             \/ Promotion!AwaitTimeout
    <2>1. /\ manager'.at \in {"ended", "await", "promoted", "failed"}
          /\ manager'.probe = manager.probe /\ manager'.failures = manager.failures
          /\ UNCHANGED refused
          /\ manager' \in [at : {"watch", "ended", "promote", "await", "promoted", "failed"},
                           probe : Nat, failures : Nat]
      BY <1>1, <1>5 DEF Promotion!GiveUp, Promotion!Promote, Promotion!SwitchCurrent,
                        Promotion!AwaitTimeout, Promotion!Step
    <2>2. manager.at = "watch" => manager'.at = "ended"
      BY <1>5 DEF Promotion!GiveUp, Promotion!Promote, Promotion!SwitchCurrent,
                  Promotion!AwaitTimeout, Promotion!Step
    <2>3. FailuresInARow'
      BY <1>1, <1>5, <2>1 DEF FailuresInARow, ProbeFailed, Promotion!GiveUp, Promotion!Promote,
         Promotion!SwitchCurrent, Promotion!AwaitTimeout, Promotion!Step
    <2>4. PromotionOrder'
      BY <1>5, <2>1 DEF PromotionOrder, Promotion!GiveUp, Promotion!Promote,
         Promotion!SwitchCurrent, Promotion!AwaitTimeout, Promotion!Step, Promotion!nodes
    <2>5. standby' \in {"recovery", "promoting", "primary"}
          /\ (standby' = "recovery" => standby = "recovery")
      BY <1>5 DEF Promotion!GiveUp, Promotion!Promote, Promotion!SwitchCurrent,
         Promotion!AwaitTimeout, Promotion!nodes, FailoverTypes, Promotion!TypeOK
    <2>6. FailoverTypes'
      <3>1. current' \in {"primary", "standby"}
        BY <1>5 DEF Promotion!GiveUp, Promotion!Promote, Promotion!SwitchCurrent,
           Promotion!AwaitTimeout, FailoverTypes
      <3> QED BY <1>0, <1>1, <2>1, <2>5, <3>1 DEF FailoverTypes, Promotion!TypeOK
    <2>7. Streamed'
      BY <1>0, <2>5 DEF Streamed
    <2> QED BY <2>3, <2>4, <2>6, <2>7
  <1> QED BY <1>3, <1>4, <1>5 DEF Promotion!Watch

LEMMA FailoverStep == FailoverInv /\ [Next]_vars => FailoverInv'
  <1>1. FailoverInv /\ UNCHANGED failoverVars => FailoverInv'
    BY DEF failoverVars, FailoverInv, FailoverTypes, Promotion!TypeOK, Streamed, FailuresInARow, ProbeFailed,
           PromotionOrder
  <1>2. Promotion!Next => \/ Promotion!Stream \/ Promotion!Crash \/ Promotion!Restart
                          \/ Promotion!LeaveRecovery
                          \/ \E n \in {"primary", "standby"} : Promotion!WriteTo(n)
                          \/ Promotion!Write \/ Promotion!Watch
    BY DEF Promotion!Next, Promotion!WriteElsewhere
  <1>3. FailoverInv /\ Promotion!Write => \E n \in {"primary", "standby"} : Promotion!WriteTo(n)
    BY DEF Promotion!Write, FailoverInv, FailoverTypes, PromotionOrder
  <1> QED BY <1>1, <1>2, <1>3, FailoverSteps, NodeSteps, WatchSteps

\* For any threshold of at least one, and whatever fails: the standby is promoted only
\* after that many failed probes in a row, and current points to it only once it has
\* left recovery, so WatchAndFailover never writes to a server that refuses writes
\* because the promotion has not ended.
THEOREM PromotionHasReason == SafeSpec => []PromotedForReason
  <1>1. FailoverInv => PromotedForReason
    <2> SUFFICES ASSUME FailoverInv PROVE PromotedForReason
      OBVIOUS
    <2>1. current = "standby" => standby = "primary"
      BY DEF FailoverInv, PromotionOrder
    <2>2. ASSUME standby # "recovery"
          PROVE  /\ Len(refused) >= FailThresh
                 /\ \A i \in Len(refused) - FailThresh + 1..Len(refused) : ProbeFailed(i)
      <3>1. /\ manager.failures \in Nat /\ Len(refused) \in Nat /\ FailThresh \in Nat
            /\ manager.failures >= FailThresh /\ manager.failures <= Len(refused)
        BY <2>2, Bounds DEF FailoverInv, FailoverTypes, PromotionOrder, FailuresInARow
      <3> QED BY <3>1 DEF FailoverInv, FailuresInARow
    <2> QED BY <2>1, <2>2, Zenon DEF ProbeFailed, PromotedForReason, Promotion!PromotedForReason
  <1> QED BY <1>1, FailoverInit, FailoverStep, PTL DEF SafeSpec

(***************************************************************************)
(* connection_load_balancing.                                              *)
(***************************************************************************)
LEMMA BalancerSteps == [Next]_vars => Balancer!Next \/ UNCHANGED balancerVars
  BY DEF Next, Others, vars

BalancerTypes ==
    /\ Balancer!TypeOK
    /\ checks \in [Balancer!Server -> Nat]

\* Nobody stops the primary, so it is never marked down.
BalancerInv ==
    BalancerTypes /\ Balancer!SessionsFollowStatus /\ status[Balancer!Primary] = "UP"

LEMMA BalancerInit == Init => BalancerInv
  <1> SUFFICES ASSUME Balancer!Init PROVE BalancerInv
    BY DEF Init
  <1> QED BY Bounds
          DEF Balancer!Init, BalancerInv, BalancerTypes, Balancer!TypeOK, Balancer!Server,
              Balancer!Primary, Balancer!None, Balancer!Limit, Balancer!SessionsFollowStatus

LEMMA ReplicaStep ==
  ASSUME BalancerInv, NEW r \in ReadServer, Balancer!StopReplica(r) \/ Balancer!StartReplica(r)
  PROVE  BalancerInv'
  <1>1. UNCHANGED <<status, checks, pinned, asBackup>>
    BY DEF Balancer!StopReplica, Balancer!StartReplica
  <1>2. Balancer!Primary \in running' /\ running' \subseteq Balancer!Server
    BY Bounds DEF Balancer!StopReplica, Balancer!StartReplica, BalancerInv, BalancerTypes,
                  Balancer!TypeOK, Balancer!Server, Balancer!Primary
  <1>3. stops' \in 0..MaxStops
    BY Bounds DEF Balancer!StopReplica, Balancer!StartReplica, BalancerInv, BalancerTypes,
                  Balancer!TypeOK
  <1> QED BY <1>1, <1>2, <1>3
          DEF BalancerInv, BalancerTypes, Balancer!TypeOK, Balancer!Limit,
              Balancer!SessionsFollowStatus

LEMMA CheckStep ==
  ASSUME BalancerInv, NEW s \in Balancer!Server, Balancer!Check(s)
  PROVE  BalancerInv'
  <1> USE Bounds
  <1>0. /\ status \in [Balancer!Server -> {"UP", "DOWN", "MAINT"}] /\ checks \in [Balancer!Server -> Nat]
        /\ \A t \in Balancer!Server : checks[t] < Balancer!Limit(t)
        /\ pinned \in [Connection -> Balancer!Server \cup {Balancer!None}]
        /\ Balancer!Primary \in running /\ Balancer!Primary \in Balancer!Server
        /\ Balancer!SessionsFollowStatus /\ status[Balancer!Primary] = "UP"
    BY DEF BalancerInv, BalancerTypes, Balancer!TypeOK, Balancer!Server
  <1>1. UNCHANGED <<running, stops>>
    BY DEF Balancer!Check, Balancer!CheckAgrees, Balancer!CheckCounts, Balancer!MarkDown,
           Balancer!MarkUp
  <1>2. CASE Balancer!CheckAgrees(s) \/ Balancer!CheckCounts(s)
    <2>1. UNCHANGED <<status, pinned, asBackup>>
      BY <1>2 DEF Balancer!CheckAgrees, Balancer!CheckCounts
    <2>2. checks' \in [Balancer!Server -> Nat]
          /\ \A t \in Balancer!Server : checks'[t] < Balancer!Limit(t)
      BY <1>0, <1>2 DEF Balancer!CheckAgrees, Balancer!CheckCounts, Balancer!Limit
    <2> QED BY <1>1, <2>1, <2>2
            DEF BalancerInv, BalancerTypes, Balancer!TypeOK, Balancer!Limit,
                Balancer!SessionsFollowStatus
  <1>3. CASE Balancer!MarkDown(s) \/ Balancer!MarkUp(s)
    <2>1. /\ \A t \in Balancer!Server \ {s} : status'[t] = status[t] /\ checks'[t] = checks[t]
          /\ status'[s] \in {"UP", "DOWN"} /\ checks'[s] = 0
          /\ status' \in [Balancer!Server -> {"UP", "DOWN", "MAINT"}]
          /\ checks' \in [Balancer!Server -> Nat]
      BY <1>0, <1>3 DEF Balancer!MarkDown, Balancer!MarkUp
    <2>2. \A t \in Balancer!Server : checks'[t] < Balancer!Limit(t)'
      BY <1>0, <2>1 DEF Balancer!Limit
    <2>3. /\ pinned' \in [Connection -> Balancer!Server \cup {Balancer!None}]
          /\ Balancer!SessionsFollowStatus'
      <3>1. CASE Balancer!MarkUp(s)
        BY <1>0, <3>1, <2>1 DEF Balancer!MarkUp, Balancer!SessionsFollowStatus
      <3>2. CASE Balancer!MarkDown(s)
        <4>1. /\ pinned' = [c \in Connection |-> IF pinned[c] = s THEN Balancer!None ELSE pinned[c]]
              /\ asBackup' = asBackup \ {c \in Connection : pinned[c] = s}
          BY <3>2 DEF Balancer!MarkDown, Balancer!Shutdown
        <4>2. Balancer!None # Balancer!Primary
          BY DEF Balancer!None, Balancer!Primary
        <4> QED BY <1>0, <2>1, <4>1, <4>2 DEF Balancer!SessionsFollowStatus
      <3> QED BY <1>3, <3>1, <3>2
    <2>4. status'[Balancer!Primary] = "UP"
      BY <1>0, <1>3, <2>1 DEF Balancer!MarkDown, Balancer!MarkUp
    <2> QED BY <1>1, <2>1, <2>2, <2>3, <2>4 DEF BalancerInv, BalancerTypes, Balancer!TypeOK
  <1> QED BY <1>2, <1>3 DEF Balancer!Check

\* A server whose name is lost or found again has no sessions to lose: it was down before.
LEMMA ResolverStep ==
  ASSUME BalancerInv, NEW s \in Balancer!Server, Balancer!Unresolve(s) \/ Balancer!Resolve(s)
  PROVE  BalancerInv'
  <1> USE Bounds
  <1>0. /\ status \in [Balancer!Server -> {"UP", "DOWN", "MAINT"}] /\ checks \in [Balancer!Server -> Nat]
        /\ \A t \in Balancer!Server : checks[t] < Balancer!Limit(t)
        /\ Balancer!SessionsFollowStatus /\ status[Balancer!Primary] = "UP"
        /\ Balancer!Primary \in Balancer!Server
        /\ pinned \in [Connection -> Balancer!Server \cup {Balancer!None}]
    BY DEF BalancerInv, BalancerTypes, Balancer!TypeOK, Balancer!Server
  <1>1. UNCHANGED <<running, pinned, asBackup, stops>>
    BY DEF Balancer!Unresolve, Balancer!Resolve
  <1>2. /\ status[s] # "UP"
        /\ \A t \in Balancer!Server \ {s} : status'[t] = status[t] /\ checks'[t] = checks[t]
        /\ status' \in [Balancer!Server -> {"UP", "DOWN", "MAINT"}]
        /\ checks' \in [Balancer!Server -> Nat]
    BY <1>0 DEF Balancer!Unresolve, Balancer!Resolve
  <1>3. \A t \in Balancer!Server : checks'[t] < Balancer!Limit(t)'
    <2>1. CASE Balancer!Unresolve(s)
      BY <1>0, <1>2, <2>1 DEF Balancer!Unresolve, Balancer!Limit
    <2>2. CASE Balancer!Resolve(s)
      BY <1>0, <1>2, <2>2 DEF Balancer!Resolve, Balancer!Limit
    <2> QED BY <2>1, <2>2
  <1>4. Balancer!SessionsFollowStatus' /\ status'[Balancer!Primary] = "UP"
    BY <1>0, <1>1, <1>2 DEF Balancer!SessionsFollowStatus
  <1> QED BY <1>1, <1>2, <1>3, <1>4 DEF BalancerInv, BalancerTypes, Balancer!TypeOK

LEMMA ConnectionStep ==
  ASSUME BalancerInv, NEW c \in Connection, Balancer!Connect(c) \/ Balancer!Disconnect(c)
  PROVE  BalancerInv'
  <1>0. /\ status \in [Balancer!Server -> {"UP", "DOWN", "MAINT"}]
        /\ pinned \in [Connection -> Balancer!Server \cup {Balancer!None}]
        /\ Balancer!SessionsFollowStatus /\ status[Balancer!Primary] = "UP"
        /\ Balancer!None # Balancer!Primary
    BY DEF BalancerInv, BalancerTypes, Balancer!TypeOK, Balancer!None, Balancer!Primary
  <1>1. UNCHANGED <<running, status, checks, stops>>
    BY DEF Balancer!Connect, Balancer!Disconnect
  <1>2. /\ pinned' \in [Connection -> Balancer!Server \cup {Balancer!None}]
        /\ Balancer!SessionsFollowStatus'
    <2>1. CASE Balancer!Disconnect(c)
      BY <1>0, <1>1, <2>1 DEF Balancer!Disconnect, Balancer!SessionsFollowStatus
    <2>2. CASE Balancer!Connect(c)
      <3>1. PICK s \in Balancer!Candidates :
              /\ pinned' = [pinned EXCEPT ![c] = s]
              /\ asBackup' = IF \A r \in ReadServer : status[r] # "UP" THEN asBackup \cup {c}
                             ELSE asBackup
        BY <2>2 DEF Balancer!Connect
      <3>2. s \in Balancer!Server /\ status[s] = "UP"
        BY <1>0, <3>1 DEF Balancer!Candidates, Balancer!Server
      <3>3. s = Balancer!Primary => \A r \in ReadServer : status[r] # "UP"
        <4>1. Balancer!Primary \notin ReadServer
          BY Bounds DEF Balancer!Primary
        <4> QED BY <1>0, <3>1, <4>1 DEF Balancer!Candidates, Balancer!Server
      <3>4. asBackup \subseteq asBackup' /\ (s = Balancer!Primary => c \in asBackup')
        BY <3>1, <3>3
      <3> QED BY <1>0, <1>1, <3>1, <3>2, <3>4 DEF Balancer!SessionsFollowStatus
    <2> QED BY <2>1, <2>2
  <1> QED BY <1>1, <1>2 DEF BalancerInv, BalancerTypes, Balancer!TypeOK, Balancer!Limit

LEMMA BalancerStep == BalancerInv /\ [Next]_vars => BalancerInv'
  <1>1. BalancerInv /\ UNCHANGED balancerVars => BalancerInv'
    BY DEF balancerVars, BalancerInv, BalancerTypes, Balancer!TypeOK, Balancer!Limit,
           Balancer!SessionsFollowStatus
  <1> QED BY <1>1, BalancerSteps, ReplicaStep, CheckStep, ResolverStep, ConnectionStep DEF Balancer!Next

\* For any servers, clients and thresholds of the health check: a connection is never
\* left on a server that is not up for HAProxy, and one that is on the primary was opened
\* while no replica was up.
THEOREM NoSessionOnADownServer == SafeSpec => []SessionsFollowStatus
  <1>1. BalancerInv => SessionsFollowStatus
    BY DEF BalancerInv, SessionsFollowStatus
  <1> QED BY <1>1, BalancerInit, BalancerStep, PTL DEF SafeSpec

(***************************************************************************)
(* read_write_splitting and read_replicas.                                  *)
(***************************************************************************)
LEMMA RoutingSteps == [Next]_vars => Routing!Next \/ UNCHANGED routingVars
  BY DEF Next, Others, vars

RouterStep == {"idle", "lsn", "ask", "query", "consistent", "read", "poll"}
Reader == [at : RouterStep, wrote : Nat, lsn : Nat, ask : Nat, saw : Nat]

RoutingTypes ==
    /\ received \in [Routing!Replica -> Nat] /\ replayed \in [Routing!Replica -> Nat]
    /\ client \in [Client -> Reader]
    /\ Routing!TypeOK

\* But between its two statements, a client holds no LSN or one of its last write, and a
\* replica that has confirmed an LSN has replayed it; who polls the first replica has one.
Tokens ==
    \A c \in Client :
        /\ client[c].at # "lsn" => client[c].lsn = 0 \/ client[c].lsn >= client[c].wrote
        /\ client[c].at = "query" => /\ client[c].ask \in Routing!Replica /\ client[c].lsn # 0
                                     /\ replayed[client[c].ask] >= client[c].lsn
        /\ client[c].at = "poll" => 0 \in Routing!Replica

RoutingInv == RoutingTypes /\ Tokens /\ Routing!ReadYourWrites

LEMMA RoutingInit == Init => RoutingInv
  <1> SUFFICES ASSUME Routing!Init PROVE RoutingInv
    BY DEF Init
  <1> QED BY Bounds
          DEF Routing!Init, RoutingInv, RoutingTypes, Routing!TypeOK, Routing!Replica, Tokens,
              Routing!ReadYourWrites, Reader, RouterStep

LEMMA WalStep ==
  ASSUME RoutingInv, NEW r \in Routing!Replica, Routing!Receive(r) \/ Routing!Replay(r)
  PROVE  RoutingInv'
  <1>0. received \in [Routing!Replica -> Nat] /\ replayed \in [Routing!Replica -> Nat]
        /\ commits \in Nat
        /\ \A q \in Routing!Replica : replayed[q] <= received[q] /\ received[q] <= commits
    BY Bounds DEF RoutingInv, RoutingTypes, Routing!TypeOK
  <1>1. UNCHANGED <<replicas, commits, next, client>>
    BY DEF Routing!Receive, Routing!Replay
  <1>2. /\ received' \in [Routing!Replica -> Nat] /\ replayed' \in [Routing!Replica -> Nat]
        /\ \A q \in Routing!Replica : /\ replayed'[q] <= received'[q] /\ received'[q] <= commits
                                      /\ replayed[q] <= replayed'[q]
    <2>1. CASE Routing!Receive(r)
      BY <1>0, <2>1 DEF Routing!Receive
    <2>2. CASE Routing!Replay(r)
      BY <1>0, <2>2 DEF Routing!Replay
    <2> QED BY <2>1, <2>2
  <1>3. Tokens'
    <2> SUFFICES ASSUME NEW c \in Client, client[c].at = "query"
                 PROVE  replayed'[client[c].ask] >= client[c].lsn
      BY <1>1 DEF RoutingInv, Tokens, Routing!Replica
    <2>1. client[c].ask \in Routing!Replica /\ replayed[client[c].ask] >= client[c].lsn
          /\ client[c].lsn \in Nat
      BY DEF RoutingInv, RoutingTypes, Tokens, Reader
    <2>2. replayed[client[c].ask] <= replayed'[client[c].ask]
          /\ replayed[client[c].ask] \in Nat /\ replayed'[client[c].ask] \in Nat
      BY <1>0, <1>2, <2>1
    <2> QED BY <2>1, <2>2
  <1>4. Routing!Replica' = Routing!Replica
    BY <1>1 DEF Routing!Replica
  <1> QED BY <1>1, <1>2, <1>3, <1>4
          DEF RoutingInv, RoutingTypes, Routing!TypeOK, Routing!ReadYourWrites

Moved(c, at, wrote, lsn, ask, saw) ==
    client' = [client EXCEPT ![c] =
        [at |-> at, wrote |-> wrote, lsn |-> lsn, ask |-> ask, saw |-> saw]]

\* The updates of some fields, as records.
LEMMA FieldsMoved ==
  ASSUME client \in [Client -> Reader], NEW c \in Client, NEW a, NEW v, NEW k
  PROVE  LET m == client[c] IN
         /\ client' = [client EXCEPT ![c].at = a] => Moved(c, a, m.wrote, m.lsn, m.ask, m.saw)
         /\ client' = [client EXCEPT ![c].at = a, ![c].wrote = v]
              => Moved(c, a, v, m.lsn, m.ask, m.saw)
         /\ client' = [client EXCEPT ![c].at = a, ![c].lsn = v]
              => Moved(c, a, m.wrote, v, m.ask, m.saw)
         /\ client' = [client EXCEPT ![c].at = a, ![c].ask = v]
              => Moved(c, a, m.wrote, m.lsn, v, m.saw)
         /\ client' = [client EXCEPT ![c].ask = v] => Moved(c, m.at, m.wrote, m.lsn, v, m.saw)
         /\ client' = [client EXCEPT ![c].at = a, ![c].saw = v]
              => Moved(c, a, m.wrote, m.lsn, m.ask, v)
         /\ client' = [client EXCEPT ![c].saw = v] => Moved(c, m.at, m.wrote, m.lsn, m.ask, v)
         /\ client' = [client EXCEPT ![c].at = a, ![c].ask = k, ![c].saw = v]
              => Moved(c, a, m.wrote, m.lsn, k, v)
  <1>1. client[c] \in Reader
    OBVIOUS
  <1> QED BY <1>1 DEF Reader, Moved

\* A step of a client is a new record for it and, if it writes or reads in turn, a move
\* of one counter.
LEMMA ClientMoved ==
  ASSUME RoutingInv, NEW c \in Client, UNCHANGED <<replicas, received, replayed>>,
         commits' \in 0..MaxCommits, commits <= commits', next' \in Routing!Replica \cup {0},
         NEW at \in RouterStep, NEW wrote \in 0..commits', NEW lsn \in 0..commits',
         NEW ask \in 0..replicas, NEW saw \in 0..commits', Moved(c, at, wrote, lsn, ask, saw),
         at # "lsn" => lsn = 0 \/ lsn >= wrote,
         at = "query" => ask \in Routing!Replica /\ lsn # 0 /\ replayed[ask] >= lsn,
         at = "consistent" => saw >= wrote,
         at = "poll" => 0 \in Routing!Replica
  PROVE  RoutingInv'
  <1> USE Bounds
  <1>0. /\ received \in [Routing!Replica -> Nat] /\ replayed \in [Routing!Replica -> Nat]
        /\ commits \in Nat /\ commits' \in Nat /\ replicas \in 0..Replicas
        /\ client \in [Client -> Reader] /\ Routing!Replica' = Routing!Replica
    BY DEF RoutingInv, RoutingTypes, Routing!TypeOK, Routing!Replica
  <1> DEFINE new == [at |-> at, wrote |-> wrote, lsn |-> lsn, ask |-> ask, saw |-> saw]
  <1>a. new \in Reader /\ client' = [client EXCEPT ![c] = new]
    BY <1>0 DEF Reader, Moved
  <1>b. /\ new.at = at /\ new.wrote = wrote /\ new.lsn = lsn /\ new.ask = ask /\ new.saw = saw
        /\ wrote <= commits' /\ lsn <= commits' /\ saw <= commits'
    BY <1>0
  <1> HIDE DEF new
  <1>1. client'[c] = new /\ \A o \in Client : o # c => client'[o] = client[o]
    BY <1>0, <1>a
  <1>2. /\ \A r \in Routing!Replica : replayed[r] <= received[r] /\ received[r] <= commits'
        /\ \A o \in Client : o # c => /\ client[o].lsn <= commits' /\ client[o].wrote <= commits'
                                      /\ client[o].saw <= commits' /\ client[o].ask \in 0..replicas
    <2>1. \A o \in Client : client[o].lsn \in Nat /\ client[o].wrote \in Nat /\ client[o].saw \in Nat
      BY <1>0 DEF Reader
    <2> QED BY <1>0, <2>1 DEF RoutingInv, RoutingTypes, Routing!TypeOK
  <1>3. RoutingTypes'
    <2>1. client' \in [Client -> Reader]
      BY <1>0, <1>a
    <2> QED BY <1>0, <1>1, <1>2, <1>b, <2>1 DEF RoutingTypes, Routing!TypeOK
  <1>4. Tokens' /\ Routing!ReadYourWrites'
    BY <1>0, <1>1, <1>b DEF RoutingInv, Tokens, Routing!ReadYourWrites
  <1> QED BY <1>3, <1>4 DEF RoutingInv

LEMMA ClientStep ==
  ASSUME RoutingInv, NEW c \in Client,
         \/ Routing!Write(c) \/ Routing!ReadLSN(c) \/ Routing!ConsistentRead(c)
         \/ Routing!ReadYourWrite(c) \/ Routing!Read(c) \/ Routing!PollReplica(c)
         \/ Routing!PollAgain(c) \/ Routing!Done(c)
  PROVE  RoutingInv'
  <1> USE Bounds
  <1> DEFINE m == client[c]
  <1>0. /\ m.wrote \in 0..commits /\ m.lsn \in 0..commits /\ m.ask \in 0..replicas
        /\ m.saw \in 0..commits /\ m.at \in RouterStep
        /\ commits \in 0..MaxCommits /\ next \in Routing!Replica \cup {0} /\ replicas \in Nat
    BY DEF RoutingInv, RoutingTypes, Routing!TypeOK, Reader
  <1>t. client \in [Client -> Reader]
    BY DEF RoutingInv, RoutingTypes
  <1>1. /\ m.at # "lsn" => m.lsn = 0 \/ m.lsn >= m.wrote
        /\ m.at = "query" => /\ m.ask \in Routing!Replica /\ m.lsn # 0 /\ replayed[m.ask] >= m.lsn
        /\ m.at = "consistent" => m.saw >= m.wrote
        /\ m.at = "poll" => 0 \in Routing!Replica
    BY DEF RoutingInv, Tokens, Routing!ReadYourWrites
  <1>2. \A r \in Routing!Replica : replayed[r] \in 0..commits
    BY <1>0 DEF RoutingInv, RoutingTypes, Routing!TypeOK
  <1>3. /\ Routing!Replica # {} => Routing!Turn \in Routing!Replica
        /\ m.ask \in Routing!Replica => m.ask + 1 \in 0..replicas
    BY <1>0 DEF Routing!Replica, Routing!Turn
  <1>4. UNCHANGED <<replicas, received, replayed>>
    BY DEF Routing!Write, Routing!ReadLSN, Routing!ConsistentRead, Routing!StartConsistentRead,
           Routing!AskReplica, Routing!QueryReplica, Routing!QueryPrimary, Routing!ReadYourWrite,
           Routing!Read, Routing!ReadReplica, Routing!ReadPrimary, Routing!PollReplica,
           Routing!PollAgain, Routing!Done, Routing!wal
  <1>5. CASE Routing!Write(c)
    <2>1. commits' = commits + 1 /\ commits' \in 0..MaxCommits /\ UNCHANGED next /\ m.at = "idle"
          /\ Moved(c, "lsn", commits + 1, m.lsn, m.ask, m.saw)
      BY <1>0, <1>t, <1>5 DEF Moved, Reader, Routing!Write
    <2> QED BY <1>0, <1>1, <1>4, <2>1, ClientMoved DEF RouterStep
  <1>6. CASE Routing!ReadLSN(c)
    <2>1. PICK l \in {0, commits} : Moved(c, "idle", m.wrote, l, m.ask, m.saw)
      BY <1>t, FieldsMoved, <1>6 DEF Routing!ReadLSN, Routing!CurrentLSN
    <2>2. UNCHANGED <<commits, next>>
      BY <1>6 DEF Routing!ReadLSN, Routing!wal
    <2> QED BY <1>0, <1>4, <2>1, <2>2, ClientMoved DEF RouterStep
  <1>7. CASE Routing!ConsistentRead(c)
    <2>1. UNCHANGED <<commits, next>>
      BY <1>7 DEF Routing!ConsistentRead, Routing!StartConsistentRead, Routing!AskReplica,
                  Routing!QueryReplica, Routing!QueryPrimary, Routing!wal
    <2>2. CASE Routing!StartConsistentRead(c)
      <3>1. Moved(c, "ask", m.wrote, m.lsn, 0, m.saw) /\ m.at = "idle"
        BY <1>t, FieldsMoved, <2>2 DEF Routing!StartConsistentRead
      <3> QED BY <1>0, <1>1, <1>4, <2>1, <3>1, ClientMoved DEF RouterStep
    <2>3. CASE Routing!AskReplica(c) /\ Routing!CaughtUp(m.ask, m.lsn)
      <3>1. CASE Moved(c, "query", m.wrote, m.lsn, m.ask, m.saw)
        <4>1. m.at = "ask" /\ m.ask \in Routing!Replica /\ m.lsn # 0 /\ replayed[m.ask] >= m.lsn
          BY <2>3 DEF Routing!AskReplica, Routing!CaughtUp
        <4> QED BY <1>0, <1>1, <1>4, <2>1, <3>1, <4>1, ClientMoved DEF RouterStep
      <3>2. CASE Moved(c, "ask", m.wrote, m.lsn, m.ask + 1, m.saw)
        <4>1. m.at = "ask" /\ m.ask \in Routing!Replica
          BY <2>3 DEF Routing!AskReplica
        <4> QED BY <1>0, <1>1, <1>3, <1>4, <2>1, <3>2, <4>1, ClientMoved DEF RouterStep
      <3>3. \/ Moved(c, "query", m.wrote, m.lsn, m.ask, m.saw)
            \/ Moved(c, "ask", m.wrote, m.lsn, m.ask + 1, m.saw)
        BY <1>0, <1>t, <2>3 DEF Moved, Reader, Routing!AskReplica
      <3> QED BY <3>1, <3>2, <3>3
    <2>4. CASE Routing!AskReplica(c) /\ ~ Routing!CaughtUp(m.ask, m.lsn)
      <3>1. Moved(c, "ask", m.wrote, m.lsn, m.ask + 1, m.saw)
            /\ m.at = "ask" /\ m.ask \in Routing!Replica
        BY <1>0, <1>t, <2>4 DEF Moved, Reader, Routing!AskReplica
      <3> QED BY <1>0, <1>1, <1>3, <1>4, <2>1, <3>1, ClientMoved DEF RouterStep
    <2>5. CASE Routing!QueryReplica(c)
      <3>1. Moved(c, "consistent", m.wrote, m.lsn, m.ask, replayed[m.ask]) /\ m.at = "query"
        BY <1>t, FieldsMoved, <2>5 DEF Routing!QueryReplica
      <3>2. replayed[m.ask] \in 0..commits /\ replayed[m.ask] >= m.wrote
        BY <1>0, <1>1, <1>2, <3>1
      <3> QED BY <1>0, <1>1, <1>4, <2>1, <3>1, <3>2, ClientMoved DEF RouterStep
    <2>6. CASE Routing!QueryPrimary(c)
      <3>1. Moved(c, "consistent", m.wrote, m.lsn, m.ask, commits) /\ m.at = "ask"
        BY <1>t, FieldsMoved, <2>6 DEF Routing!QueryPrimary
      <3> QED BY <1>0, <1>1, <1>4, <2>1, <3>1, ClientMoved DEF RouterStep
    <2> QED BY <1>7, <2>2, <2>3, <2>4, <2>5, <2>6 DEF Routing!ConsistentRead
  <1>8. CASE Routing!ReadYourWrite(c)
    <2>1. Moved(c, "consistent", m.wrote, m.lsn, m.ask, commits) /\ m.at = "idle"
          /\ UNCHANGED <<commits, next>>
      BY <1>t, FieldsMoved, <1>8 DEF Routing!ReadYourWrite, Routing!wal
    <2> QED BY <1>0, <1>1, <1>4, <2>1, ClientMoved DEF RouterStep
  <1>9. CASE Routing!Read(c)
    <2>1. PICK seen \in 0..commits : /\ Moved(c, "read", m.wrote, m.lsn, m.ask, seen)
                                     /\ m.at = "idle" /\ UNCHANGED commits
                                     /\ next' \in Routing!Replica \cup {0}
      <3>1. CASE Routing!ReadReplica(c)
        <4>1. Routing!Turn \in Routing!Replica /\ replayed[Routing!Turn] \in 0..commits
          BY <1>2, <1>3, <3>1 DEF Routing!ReadReplica
        <4> QED BY <1>t, FieldsMoved, <3>1, <4>1 DEF Routing!ReadReplica, Routing!wal
      <3>2. CASE Routing!ReadPrimary(c)
        <4>1. Moved(c, "read", m.wrote, m.lsn, m.ask, commits) /\ m.at = "idle"
          BY <1>t, FieldsMoved, <3>2 DEF Routing!ReadPrimary
        <4>2. UNCHANGED <<commits, next>> /\ commits \in 0..commits
          BY <1>0, <3>2 DEF Routing!ReadPrimary, Routing!wal
        <4> QED BY <1>0, <4>1, <4>2
      <3> QED BY <1>9, <3>1, <3>2 DEF Routing!Read
    <2> QED BY <1>0, <1>1, <1>4, <2>1, ClientMoved DEF RouterStep
  <1>10. CASE Routing!PollReplica(c) \/ Routing!PollAgain(c)
    <2>1. Moved(c, "poll", m.wrote, m.lsn, m.ask, replayed[0]) /\ m.at \in {"idle", "poll"}
          /\ UNCHANGED <<commits, next>>
      BY <1>0, <1>t, <1>10 DEF Moved, Reader, Routing!PollReplica, Routing!PollAgain, Routing!wal
    <2>2. 0 \in Routing!Replica
      BY <1>1, <1>10 DEF Routing!PollReplica, Routing!PollAgain
    <2>3. replayed[0] \in 0..commits
      BY <1>2, <2>2
    <2> QED BY <1>0, <1>1, <1>4, <2>1, <2>2, <2>3, ClientMoved DEF RouterStep
  <1>11. CASE Routing!Done(c)
    <2>1. Moved(c, "idle", m.wrote, m.lsn, 0, 0) /\ m.at \in {"consistent", "read", "poll"}
          /\ UNCHANGED <<commits, next>>
      BY <1>t, FieldsMoved, <1>11 DEF Routing!Done, Routing!wal
    <2> QED BY <1>0, <1>1, <1>4, <2>1, ClientMoved DEF RouterStep
  <1> QED BY <1>5, <1>6, <1>7, <1>8, <1>9, <1>10, <1>11

LEMMA RoutingStep == RoutingInv /\ [Next]_vars => RoutingInv'
  <1>1. RoutingInv /\ UNCHANGED routingVars => RoutingInv'
    BY DEF routingVars, RoutingInv, RoutingTypes, Routing!TypeOK, Tokens, Routing!ReadYourWrites,
           Routing!Replica
  <1> QED BY <1>1, RoutingSteps, WalStep, ClientStep DEF Routing!Next

(***************************************************************************)
(* sync_async_replication.                                                 *)
(***************************************************************************)
LEMMA SyncSteps == [Next]_vars => Sync!Next \/ UNCHANGED syncVars
  BY DEF Next, Others, vars

\* Where the WAL of each stage comes from.
LEMMA Sources ==
  ASSUME NEW s
  PROVE  /\ Sync!Before(s, "write") = inserts
         /\ Sync!Before(s, "flush") = progress[s]["write"]
         /\ Sync!Before(s, "replay") = progress[s]["flush"]
  BY Zenon DEF Sync!Before

Waiting == [at : {"wait"}, level : Sync!Level, lsn : Nat]

SyncTypes ==
    /\ progress \in [Sync!Standby -> [Sync!Stage -> Nat]]
    /\ writer \in [Writer -> {Sync!Idle} \cup Waiting]
    /\ promises \subseteq [lsn : Nat, level : Sync!Level, by : Sync!Setting]
    /\ Sync!TypeOK

\* What TypeOK says of the stages.
InOrder ==
    \A s \in Sync!Standby : /\ progress[s]["replay"] <= progress[s]["flush"]
                            /\ progress[s]["flush"] <= progress[s]["write"]
                            /\ progress[s]["write"] <= inserts

LEMMA StagesInOrder ==
  (\A s \in Sync!Standby, g \in Sync!Stage : progress[s][g] <= Sync!Before(s, g)) <=> InOrder
  BY Sources DEF InOrder, Sync!Stage

LEMMA LaterStages ==
  ASSUME InOrder'
  PROVE  \A s \in Sync!Standby, g \in Sync!Stage : progress'[s][g] <= Sync!Before(s, g)'
  <1>1. ASSUME NEW s
        PROVE  /\ Sync!Before(s, "write")' = inserts'
               /\ Sync!Before(s, "flush")' = progress'[s]["write"]
               /\ Sync!Before(s, "replay")' = progress'[s]["flush"]
    BY Zenon DEF Sync!Before
  <1> QED BY <1>1 DEF InOrder, Sync!Stage

SyncInv == SyncTypes /\ Sync!PromisesKept

LEMMA SyncInit == Init => SyncInv
  <1> SUFFICES ASSUME Sync!Init PROVE SyncInv
    BY DEF Init
  <1>1. InOrder
    BY DEF Sync!Init, InOrder, Sync!Standby, Sync!Stage
  <1>2. \A s \in Sync!Standby, g \in Sync!Stage : progress[s][g] <= Sync!Before(s, g)
    BY <1>1, StagesInOrder
  <1> QED BY <1>2, Bounds
          DEF Sync!Init, SyncInv, SyncTypes, Sync!TypeOK, Sync!Standby, Sync!Setting, Sync!PromisesKept

\* The WAL of the primary and of the standbys only grows.
LEMMA AdvanceStep ==
  ASSUME SyncInv, NEW s \in Sync!Standby, NEW g \in Sync!Stage, Sync!Advance(s, g)
  PROVE  SyncInv'
  <1>0. /\ inserts \in Nat /\ progress \in [Sync!Standby -> [Sync!Stage -> Nat]]
        /\ InOrder
    BY Bounds, StagesInOrder DEF SyncInv, SyncTypes, Sync!TypeOK
  <1>1. UNCHANGED <<inserts, names, paused, writer, promises, changes>>
    BY DEF Sync!Advance
  <1>2. Sync!Before(s, g) \in Nat /\ progress[s][g] < Sync!Before(s, g)
    BY <1>0, Sources DEF Sync!Stage, Sync!Advance
  <1>3. /\ progress' \in [Sync!Standby -> [Sync!Stage -> Nat]]
        /\ progress'[s][g] = Sync!Before(s, g)
        /\ \A t \in Sync!Standby, h \in Sync!Stage :
             t # s \/ h # g => progress'[t][h] = progress[t][h]
    BY <1>0, <1>2 DEF Sync!Advance
  <1>4. \A t \in Sync!Standby, h \in Sync!Stage : progress[t][h] <= progress'[t][h]
    BY <1>0, <1>2, <1>3
  <1>5. InOrder'
    BY <1>0, <1>1, <1>2, <1>3, <1>4, Sources DEF InOrder, Sync!Stage
  <1>6. Sync!TypeOK'
    <2>1. \A t \in Sync!Standby, h \in Sync!Stage : progress'[t][h] <= Sync!Before(t, h)'
      BY <1>5, LaterStages
    <2> QED BY <1>1, <2>1 DEF SyncInv, SyncTypes, Sync!TypeOK
  <1>7. Sync!PromisesKept'
    <2> SUFFICES ASSUME NEW p \in promises
                 PROVE  \E t \in (IF p.by = "FIRST" THEN {"s1"} ELSE Sync!Standby) :
                          /\ p.level \in {"on", "remote_apply"} => progress'[t]["flush"] >= p.lsn
                          /\ p.level = "remote_apply" => progress'[t]["replay"] >= p.lsn
      BY <1>1 DEF Sync!PromisesKept
    <2>1. PICK t \in (IF p.by = "FIRST" THEN {"s1"} ELSE Sync!Standby) :
                          /\ p.level \in {"on", "remote_apply"} => progress[t]["flush"] >= p.lsn
                          /\ p.level = "remote_apply" => progress[t]["replay"] >= p.lsn
      BY DEF SyncInv, Sync!PromisesKept
    <2>2. t \in Sync!Standby /\ p.lsn \in Nat
      BY DEF Sync!Standby, SyncInv, SyncTypes
    <2>3. /\ progress[t]["flush"] <= progress'[t]["flush"]
          /\ progress[t]["replay"] <= progress'[t]["replay"]
          /\ progress[t]["flush"] \in Nat /\ progress'[t]["flush"] \in Nat
          /\ progress[t]["replay"] \in Nat /\ progress'[t]["replay"] \in Nat
      BY <1>0, <1>3, <1>4, <2>2 DEF Sync!Stage
    <2> QED BY <2>1, <2>2, <2>3
  <1> QED BY <1>1, <1>3, <1>6, <1>7 DEF SyncInv, SyncTypes

\* The COMMIT of one session.
LEMMA WriterStep ==
  ASSUME SyncInv, NEW w \in Writer,
         (\E l \in Sync!Level : Sync!Insert(w, l)) \/ Sync!Acknowledge(w) \/ Sync!CancelWait(w)
  PROVE  SyncInv'
  <1> USE Bounds
  <1>0. /\ inserts \in 0..MaxInserts /\ progress \in [Sync!Standby -> [Sync!Stage -> Nat]]
        /\ writer \in [Writer -> {Sync!Idle} \cup Waiting] /\ names \in Sync!Setting
        /\ promises \subseteq [lsn : Nat, level : Sync!Level, by : Sync!Setting]
    BY DEF SyncInv, SyncTypes, Sync!TypeOK
  <1>1. UNCHANGED <<progress, names, paused, changes>>
    BY DEF Sync!Insert, Sync!Acknowledge, Sync!CancelWait
  <1>2. ASSUME NEW l \in Sync!Level, Sync!Insert(w, l) PROVE SyncInv'
    <2> DEFINE new == [at |-> "wait", level |-> l, lsn |-> inserts + 1]
    <2>1. inserts' = inserts + 1 /\ inserts' \in 0..MaxInserts /\ UNCHANGED promises
          /\ writer' = [writer EXCEPT ![w] = new]
      BY <1>0, <1>2 DEF Sync!Insert
    <2>2. new \in Waiting /\ new.lsn = inserts' /\ inserts' \in Nat
      <3>1. inserts + 1 \in Nat
        BY <1>0
      <3> QED BY <2>1, <3>1 DEF Waiting
    <2> HIDE DEF new
    <2>3. writer' \in [Writer -> {Sync!Idle} \cup Waiting]
          /\ \A x \in Writer : writer'[x] = IF x = w THEN new ELSE writer[x]
      BY <1>0, <2>1, <2>2
    <2>4. \A x \in Writer : writer'[x] = Sync!Idle \/ writer'[x].lsn <= inserts'
      <3> SUFFICES ASSUME NEW x \in Writer, writer'[x] # Sync!Idle
                   PROVE  writer'[x].lsn <= inserts'
        OBVIOUS
      <3>1. CASE x = w
        BY <1>0, <2>1, <2>2, <2>3, <3>1
      <3>2. CASE x # w
        <4>1. writer[x] \in Waiting /\ writer[x].lsn <= inserts
          BY <1>0, <2>3, <3>2 DEF SyncInv, SyncTypes, Sync!TypeOK
        <4>2. writer[x].lsn \in Nat
          BY <4>1 DEF Waiting
        <4> QED BY <1>0, <2>1, <2>3, <3>2, <4>1, <4>2
      <3> QED BY <3>1, <3>2
    <2>5. \A s \in Sync!Standby, g \in Sync!Stage : progress'[s][g] <= Sync!Before(s, g)'
      BY <1>0, <1>1, <2>1 DEF SyncInv, SyncTypes, Sync!TypeOK, Sync!Before, Sync!Stage
    <2>6. Sync!PromisesKept'
      BY <1>1, <2>1 DEF SyncInv, Sync!PromisesKept
    <2> QED BY <1>0, <1>1, <2>1, <2>3, <2>4, <2>5, <2>6 DEF SyncInv, SyncTypes, Sync!TypeOK
  <1>3. CASE Sync!Acknowledge(w) \/ Sync!CancelWait(w)
    <2>1. inserts' = inserts /\ writer' = [writer EXCEPT ![w] = Sync!Idle]
          /\ writer[w].at = "wait"
      BY <1>3 DEF Sync!Acknowledge, Sync!CancelWait
    <2>2. writer' \in [Writer -> {Sync!Idle} \cup Waiting]
          /\ \A x \in Writer : writer'[x] = IF x = w THEN Sync!Idle ELSE writer[x]
      BY <1>0, <2>1
    <2>3. writer[w] \in Waiting
      BY <1>0, <2>1 DEF Sync!Idle
    <2>4. Sync!TypeOK'
      BY <1>0, <1>1, <2>1, <2>2 DEF SyncInv, SyncTypes, Sync!TypeOK, Sync!Before
    <2>5. CASE UNCHANGED promises
      BY <1>0, <1>1, <2>2, <2>4, <2>5 DEF SyncInv, SyncTypes, Sync!PromisesKept
    <2>6. CASE promises' # promises
      <3> DEFINE c == writer[w]
                 p == [lsn |-> c.lsn, level |-> c.level, by |-> names]
      <3>1. PICK s \in Sync!Answered(c.level, c.lsn) : promises' = promises \cup {p}
        BY <1>3, <2>6 DEF Sync!Acknowledge, Sync!CancelWait
      <3>2. c.lsn \in Nat /\ c.level \in Sync!Level
        BY <2>3 DEF Waiting
      <3>3. s \in Sync!Standby /\ (names = "FIRST" => s = "s1")
            /\ progress[s][Sync!StageOf(c.level)] >= c.lsn
        BY <1>0, <3>1 DEF Sync!Answered, Sync!Answering, Sync!Standby
      <3>4. progress[s]["replay"] <= progress[s]["flush"]
            /\ progress[s]["replay"] \in Nat /\ progress[s]["flush"] \in Nat
        BY <1>0, <3>3 DEF SyncInv, SyncTypes, Sync!TypeOK, Sync!Before, Sync!Stage
      <3>5. /\ c.level \in {"on", "remote_apply"} => progress[s]["flush"] >= c.lsn
            /\ c.level = "remote_apply" => progress[s]["replay"] >= c.lsn
        BY <3>2, <3>3, <3>4 DEF Sync!StageOf
      <3>6. p.lsn = c.lsn /\ p.level = c.level /\ p.by = names
            /\ p \in [lsn : Nat, level : Sync!Level, by : Sync!Setting]
        BY <1>0, <3>2
      <3> HIDE DEF p, c
      <3>7. \E t \in (IF p.by = "FIRST" THEN {"s1"} ELSE Sync!Standby) :
              /\ p.level \in {"on", "remote_apply"} => progress[t]["flush"] >= p.lsn
              /\ p.level = "remote_apply" => progress[t]["replay"] >= p.lsn
        BY <3>3, <3>5, <3>6
      <3>8. Sync!PromisesKept'
        <4> SUFFICES ASSUME NEW q \in promises'
                     PROVE  \E t \in (IF q.by = "FIRST" THEN {"s1"} ELSE Sync!Standby) :
                              /\ q.level \in {"on", "remote_apply"} => progress[t]["flush"] >= q.lsn
                              /\ q.level = "remote_apply" => progress[t]["replay"] >= q.lsn
          BY <1>1 DEF Sync!PromisesKept
        <4>1. CASE q = p
          BY <3>7, <4>1
        <4>2. CASE q \in promises
          BY <4>2 DEF SyncInv, Sync!PromisesKept
        <4> QED BY <3>1, <4>1, <4>2
      <3>9. promises' \subseteq [lsn : Nat, level : Sync!Level, by : Sync!Setting]
        BY <1>0, <3>1, <3>6
      <3> QED BY <1>0, <1>1, <2>2, <2>4, <3>8, <3>9 DEF SyncInv, SyncTypes
    <2> QED BY <2>5, <2>6
  <1> QED BY <1>2, <1>3

\* No setting takes back what was promised.
LEMMA SettingStep ==
  ASSUME SyncInv,
         \/ \E s \in Sync!Standby : Sync!PauseReplay(s) \/ Sync!ResumeReplay(s)
         \/ \E n \in Sync!Setting : Sync!SetStandbyNames(n)
         \/ Sync!Reset
  PROVE  SyncInv'
  <1>1. UNCHANGED <<inserts, progress, writer, promises>>
    BY DEF Sync!PauseReplay, Sync!ResumeReplay, Sync!SetStandbyNames, Sync!Reset
  <1>2. names' \in Sync!Setting /\ paused' \subseteq Sync!Standby
    BY DEF Sync!PauseReplay, Sync!ResumeReplay, Sync!SetStandbyNames, Sync!Reset, SyncInv,
           SyncTypes, Sync!TypeOK, Sync!Setting
  <1>3. changes' \in 0..MaxChanges
    BY Bounds DEF Sync!PauseReplay, Sync!ResumeReplay, Sync!SetStandbyNames, Sync!Reset, SyncInv,
           SyncTypes, Sync!TypeOK, Sync!Change
  <1> QED BY <1>1, <1>2, <1>3 DEF SyncInv, SyncTypes, Sync!TypeOK, Sync!Before, Sync!PromisesKept

LEMMA SyncStep == SyncInv /\ [Next]_vars => SyncInv'
  <1>1. SyncInv /\ UNCHANGED syncVars => SyncInv'
    BY DEF syncVars, SyncInv, SyncTypes, Sync!TypeOK, Sync!Before, Sync!PromisesKept
  <1> QED BY <1>1, SyncSteps, AdvanceStep, WriterStep, SettingStep DEF Sync!Next

\* For any number of replicas and clients and any order of replay: a read that the Router
\* or the Writer served as consistent reflects the client's last write, and a commit that
\* was acknowledged is where the setting it was made under promised, whatever settings
\* and pauses came after.
THEOREM AcknowledgedStaysVisible == SafeSpec => []AcknowledgedIsVisible
  <1>1. RoutingInv /\ SyncInv => AcknowledgedIsVisible
    BY DEF RoutingInv, SyncInv, AcknowledgedIsVisible
  <1> QED BY <1>1, RoutingInit, RoutingStep, SyncInit, SyncStep, PTL DEF SafeSpec

(***************************************************************************)
(* hot_standby.                                                            *)
(***************************************************************************)
LEMMA StandbySteps == [Next]_vars => Recovery!Next \/ UNCHANGED standbyVars
  BY DEF Next, Others, vars

LogKind == {"batch", "delete", "point", "own"}

StandbyTypes ==
    /\ log \in Seq(LogKind)
    /\ closed \in Nat /\ archived \in Nat /\ hot \in Nat
    /\ warm \in [at : Nat, promoted : BOOLEAN]
    /\ Recovery!TypeOK

Holds(wal, k, kind) == \E i \in 1..k : wal[i] = kind
Free(wal, k) == \A i \in 1..k : wal[i] # "delete"

\* Where the first batch has arrived, as the program proceeds.
BatchArrived ==
    /\ step >= 2 => Holds(log, Len(log), "batch")
    /\ step >= 3 => Holds(log, hot, "batch")
    /\ step >= 5 => Holds(log, archived, "batch")
    /\ warm.promoted => Holds(log, warm.at, "batch")

\* Batches precede the DELETE, and so does the restore point.
DeleteLast ==
    /\ \A i, d \in 1..Len(log) : log[i] = "batch" /\ log[d] = "delete" => i < d
    /\ step <= 11 => Free(log, Len(log))
    /\ step >= 11 => point \in 1..Len(log) /\ backup <= point /\ Free(log, point)

\* Where the restore point and the DELETE have arrived.
PointArrived ==
    /\ step >= 12 => Holds(log, Len(log), "delete")
    /\ step >= 14 => point <= archived
    /\ step >= 15 => Holds(log, hot, "delete")
    /\ step = 16 => pitr = [is |-> "up", at |-> point]

StandbyInv == StandbyTypes /\ BatchArrived /\ DeleteLast /\ PointArrived

LEMMA StandbyInit == Init => StandbyInv
  <1> SUFFICES ASSUME Recovery!Init PROVE StandbyInv
    BY DEF Init
  <1>1. warm \in [at : Nat, promoted : BOOLEAN] /\ ~warm.promoted
    BY DEF Recovery!Init
  <1> QED BY <1>1, Bounds
          DEF Recovery!Init, StandbyInv, StandbyTypes, Recovery!TypeOK, BatchArrived, DeleteLast,
              PointArrived, Free

LEMMA StandbyFacts ==
  ASSUME StandbyInv
  PROVE  /\ log \in Seq(LogKind) /\ Len(log) \in Nat /\ closed \in Nat /\ archived \in Nat
         /\ hot \in Nat /\ warm \in [at : Nat, promoted : BOOLEAN] /\ warm.at \in Nat
         /\ archived <= closed /\ closed <= Len(log) /\ hot <= Len(log) /\ warm.at <= archived
         /\ backup \in -1..Len(log) /\ backup \in Int /\ point \in 0..Len(log)
         /\ step \in 1..16 /\ own \in 0..MaxOwn
  BY DEF StandbyInv, StandbyTypes, Recovery!TypeOK

\* What a longer prefix holds.
LEMMA HoldsMore ==
  ASSUME NEW wal, NEW kind, NEW k \in Nat, NEW l \in Nat, k <= l, Holds(wal, k, kind)
  PROVE  Holds(wal, l, kind)
  BY DEF Holds

\* What a longer log holds.
LEMMA HoldsAfterAppend ==
  ASSUME NEW wal \in Seq(LogKind), NEW kind, NEW new \in LogKind, NEW k \in 0..Len(wal)
  PROVE  /\ Holds(wal, k, kind) => Holds(Append(wal, new), k, kind)
         /\ Free(wal, k) => Free(Append(wal, new), k)
  BY DEF Holds, Free

\* A record is added: a batch while there is no DELETE, or the DELETE after the point,
\* or something that is neither.
LEMMA LogGrows ==
  ASSUME StandbyInv, NEW new \in LogKind, log' = Append(log, new),
         UNCHANGED <<closed, archived, hot, warm, backup, pitr>>,
         point' = point \/ (point' = Len(log) + 1 /\ new = "point" /\ step = 10),
         own' \in 0..MaxOwn,
         step' = step \/ (step' = step + 1 /\ step \in {1, 5, 9, 10, 11}),
         step = 1 /\ step' = 2 => new = "batch",
         new = "batch" => step <= 9,
         new = "delete" => step = 11 /\ step' = 12,
         step = 11 /\ step' = 12 => new = "delete",
         step = 10 /\ step' = 11 => point' = Len(log) + 1
  PROVE  StandbyInv'
  <1>a. /\ log \in Seq(LogKind) /\ Len(log) \in Nat /\ archived \in 0..Len(log)
        /\ hot \in 0..Len(log) /\ warm.at \in 0..Len(log) /\ backup \in Int /\ backup <= Len(log)
        /\ point \in 0..Len(log) /\ step \in 1..16
    BY StandbyFacts
  <1>b. /\ step' \in 1..16 /\ point' \in 0..Len(log) + 1
        /\ step' >= 2 => step >= 2 \/ new = "batch"
        /\ step' >= 3 => step >= 3
        /\ step' >= 5 => step >= 5
    <2>1. CASE step' = step
      BY <1>a, <2>1
    <2>2. CASE step = 1 /\ step' = 2
      BY <1>a, <2>2
    <2>3. CASE step \in {5, 9, 10, 11} /\ step' = step + 1
      BY <1>a, <2>3
    <2> QED BY <2>1, <2>2, <2>3
  <1>c. /\ step' <= 11 => step <= 11 /\ new # "delete"
        /\ new = "batch" => step <= 11
        /\ step' >= 11 => (step >= 11 /\ point' = point) \/ (step' = 11 /\ point' = Len(log) + 1)
    BY <1>a
  <1>d. /\ step' >= 12 => step >= 12 \/ new = "delete"
        /\ step' >= 14 => step' = step /\ point' = point
    BY <1>a
  <1>1. /\ Len(log') = Len(log) + 1 /\ log' \in Seq(LogKind) /\ log'[Len(log) + 1] = new
        /\ \A i \in 1..Len(log) : log'[i] = log[i]
    BY <1>a
  <1>2. \A k \in 0..Len(log), kind \in LogKind :
          /\ Holds(log, k, kind) => Holds(log', k, kind)
          /\ Free(log, k) => Free(log', k)
    BY <1>a, HoldsAfterAppend
  <1>3. \A kind \in LogKind : Holds(log, Len(log), kind) => Holds(log', Len(log'), kind)
    BY <1>1, <1>a DEF Holds
  <1>4. Holds(log', Len(log'), new)
    BY <1>1, <1>a DEF Holds
  <1>5. StandbyTypes'
    BY <1>1, <1>b, StandbyFacts DEF StandbyTypes, Recovery!TypeOK
  <1>6. BatchArrived'
    <2>1. step' >= 2 => Holds(log', Len(log'), "batch")
      BY <1>3, <1>4, <1>b DEF StandbyInv, BatchArrived, LogKind
    <2> QED BY <1>2, <1>a, <1>b, <2>1 DEF StandbyInv, BatchArrived, LogKind
  <1>7. DeleteLast'
    <2>1. ASSUME NEW i \in 1..Len(log'), NEW d \in 1..Len(log'), log'[i] = "batch", log'[d] = "delete"
          PROVE  i < d
      <3>1. CASE i # Len(log) + 1 /\ d # Len(log) + 1
        BY <1>1, <1>a, <2>1, <3>1 DEF StandbyInv, DeleteLast
      <3>2. CASE i = Len(log) + 1
        <4>1. d \in 1..Len(log) => log[d] # "delete"
          BY <1>1, <1>c, <2>1, <3>2 DEF StandbyInv, DeleteLast, Free
        <4>2. new = "batch"
          BY <1>1, <2>1, <3>2
        <4> QED BY <1>1, <1>a, <2>1, <3>2, <4>1, <4>2
      <3>3. CASE i # Len(log) + 1 /\ d = Len(log) + 1
        BY <1>1, <1>a, <3>3
      <3> QED BY <3>1, <3>2, <3>3
    <2>2. step' <= 11 => Free(log', Len(log'))
      BY <1>1, <1>a, <1>c DEF StandbyInv, DeleteLast, Free
    <2>3. step' >= 11 => point' \in 1..Len(log') /\ backup <= point' /\ Free(log', point')
      <3>1. CASE step >= 11 /\ point' = point
        <4>1. point \in 1..Len(log) /\ backup <= point /\ Free(log, point)
          BY <3>1 DEF StandbyInv, DeleteLast
        <4> QED BY <1>1, <1>2, <1>a, <3>1, <4>1
      <3>2. CASE step' = 11 /\ point' = Len(log) + 1
        BY <1>1, <1>a, <2>2, <3>2
      <3> QED BY <1>c, <3>1, <3>2
    <2> QED BY <2>1, <2>2, <2>3 DEF DeleteLast
  <1>8. PointArrived'
    <2>1. step' >= 12 => Holds(log', Len(log'), "delete")
      BY <1>3, <1>4, <1>d DEF StandbyInv, PointArrived, LogKind
    <2> QED BY <1>2, <1>a, <1>d, <2>1 DEF StandbyInv, PointArrived, LogKind
  <1> QED BY <1>5, <1>6, <1>7, <1>8 DEF StandbyInv

LEMMA LogSteps ==
  ASSUME StandbyInv,
         \/ Recovery!LogOwn \/ Recovery!InsertBatch \/ Recovery!CreateRestorePoint
         \/ Recovery!DeleteAll
  PROVE  StandbyInv'
  <1> USE StandbyFacts, Bounds
  <1>1. UNCHANGED <<closed, archived, hot, warm, backup, pitr>>
    BY DEF Recovery!LogOwn, Recovery!InsertBatch, Recovery!CreateRestorePoint, Recovery!DeleteAll,
           Recovery!servers
  <1>2. CASE Recovery!LogOwn
    <2>1. /\ log' = Append(log, "own") /\ point' = point /\ own' \in 0..MaxOwn /\ step' = step
          /\ "own" \in LogKind
      BY <1>2 DEF Recovery!LogOwn, LogKind
    <2> QED BY <1>1, <2>1, LogGrows
  <1>3. CASE Recovery!InsertBatch
    <2>1. /\ log' = Append(log, "batch") /\ point' = point /\ own' \in 0..MaxOwn
          /\ step \in {1, 5, 9} /\ step' = step + 1 /\ "batch" \in LogKind
      BY <1>3 DEF Recovery!InsertBatch, Recovery!Goes, LogKind
    <2> QED BY <1>1, <2>1, LogGrows
  <1>4. CASE Recovery!CreateRestorePoint
    BY <1>1, <1>4, LogGrows DEF Recovery!CreateRestorePoint, Recovery!Goes, LogKind
  <1>5. CASE Recovery!DeleteAll
    <2>1. /\ log' = Append(log, "delete") /\ point' = point /\ own' \in 0..MaxOwn
          /\ step = 11 /\ step' = 12 /\ "delete" \in LogKind
      BY <1>5 DEF Recovery!DeleteAll, Recovery!Goes, LogKind
    <2> QED BY <1>1, <2>1, LogGrows
  <1> QED BY <1>2, <1>3, <1>4, <1>5

\* Nothing is added, some server has come further.
LEMMA ServersMove ==
  ASSUME StandbyInv, UNCHANGED <<log, point, own, backup, pitr, step>>,
         closed' \in Nat, archived' \in Nat, hot' \in Nat,
         warm' \in [at : Nat, promoted : BOOLEAN],
         archived <= archived', hot <= hot',
         archived' <= closed', closed' <= Len(log), hot' <= Len(log), warm'.at <= archived',
         warm' = warm \/ ~warm'.promoted
  PROVE  StandbyInv'
  <1> USE StandbyFacts
  <1>1. StandbyTypes'
    BY DEF StandbyInv, StandbyTypes, Recovery!TypeOK
  <1>2. \A kind : /\ Holds(log, hot, kind) => Holds(log, hot', kind)
                  /\ Holds(log, archived, kind) => Holds(log, archived', kind)
    BY HoldsMore
  <1>3. BatchArrived'
    BY <1>2 DEF StandbyInv, BatchArrived
  <1>4. DeleteLast'
    BY DEF StandbyInv, DeleteLast
  <1>5. PointArrived'
    BY <1>2 DEF StandbyInv, PointArrived
  <1> QED BY <1>1, <1>3, <1>4, <1>5 DEF StandbyInv

LEMMA ServerSteps ==
  ASSUME StandbyInv, Recovery!Archive \/ Recovery!Stream \/ Recovery!Restore
  PROVE  StandbyInv'
  <1> USE StandbyFacts
  <1>1. UNCHANGED <<log, point, own, backup, pitr, step, closed>>
    BY DEF Recovery!Archive, Recovery!Stream, Recovery!Restore
  <1>2. CASE Recovery!Archive
    BY <1>1, <1>2, ServersMove DEF Recovery!Archive
  <1>3. CASE Recovery!Stream
    BY <1>1, <1>3, ServersMove DEF Recovery!Stream
  <1>4. CASE Recovery!Restore
    <2>1. warm' \in [at : Nat, promoted : BOOLEAN] /\ warm'.at = archived /\ ~warm'.promoted
      BY <1>4 DEF Recovery!Restore
    <2> QED BY <1>1, <1>4, <2>1, ServersMove DEF Recovery!Restore
  <1> QED BY <1>2, <1>3, <1>4

\* The steps of the program that add no record.
LEMMA ProgramSteps ==
  ASSUME StandbyInv,
         \/ Recovery!WaitCount \/ Recovery!SwitchWal \/ Recovery!WaitArchived
         \/ Recovery!PromoteWarm \/ Recovery!BaseBackup \/ Recovery!RecoverToPoint
  PROVE  StandbyInv'
  <1> USE StandbyFacts
  <1>1. UNCHANGED <<log, archived, hot, point, own>> /\ step' = step + 1
    BY DEF Recovery!WaitCount, Recovery!SwitchWal, Recovery!WaitArchived, Recovery!PromoteWarm,
           Recovery!BaseBackup, Recovery!RecoverToPoint, Recovery!servers, Recovery!Goes
  <1>2. step \in {2, 3, 4, 6, 7, 8, 12, 13, 14, 15} /\ step' \in 1..16
    BY DEF Recovery!WaitCount, Recovery!SwitchWal, Recovery!WaitArchived, Recovery!PromoteWarm,
           Recovery!BaseBackup, Recovery!RecoverToPoint, Recovery!Goes
  <1>3. /\ closed' \in Nat /\ archived <= closed' /\ closed' <= Len(log)
        /\ backup' \in -1..Len(log) /\ (step >= 11 => backup' = backup)
        /\ warm' \in [at : Nat, promoted : BOOLEAN] /\ warm'.at <= archived
        /\ warm' = warm \/ (step = 7 /\ warm'.at = archived)
    <2>1. CASE Recovery!PromoteWarm
      <3>1. warm' \in [at : Nat, promoted : BOOLEAN] /\ warm'.at = archived
        BY <2>1 DEF Recovery!PromoteWarm
      <3> QED BY <2>1, <3>1 DEF Recovery!PromoteWarm, Recovery!Goes
    <2>2. CASE Recovery!SwitchWal
      BY <2>2 DEF Recovery!SwitchWal, Recovery!Goes
    <2>3. CASE Recovery!BaseBackup
      BY <2>3 DEF Recovery!BaseBackup, Recovery!Goes
    <2>4. CASE Recovery!WaitCount \/ Recovery!WaitArchived \/ Recovery!RecoverToPoint
      <3>1. UNCHANGED <<closed, backup, warm>>
        BY <2>4 DEF Recovery!WaitCount, Recovery!WaitArchived, Recovery!RecoverToPoint,
                    Recovery!servers
      <3> QED BY <3>1
    <2> QED BY <2>1, <2>2, <2>3, <2>4
  <1>4. StandbyTypes'
    BY <1>1, <1>2, <1>3 DEF StandbyInv, StandbyTypes, Recovery!TypeOK
  <1>5. DeleteLast'
    BY <1>1, <1>2, <1>3 DEF StandbyInv, DeleteLast
  <1>6. BatchArrived'
    <2>1. step = 2 => Holds(log, hot, "batch")
      <3> SUFFICES ASSUME step = 2 PROVE Holds(log, hot, "batch")
        OBVIOUS
      <3>1. Recovery!Batches(hot) = Recovery!Batches(Len(log))
        BY DEF Recovery!WaitCount, Recovery!SwitchWal, Recovery!WaitArchived, Recovery!PromoteWarm,
               Recovery!BaseBackup, Recovery!RecoverToPoint, Recovery!Goes
      <3>2. PICK i \in 1..Len(log) : log[i] = "batch"
        BY DEF StandbyInv, BatchArrived, Holds
      <3>3. i \in Recovery!Batches(Len(log))
        BY <3>2 DEF StandbyInv, DeleteLast, Free, Recovery!Batches
      <3> QED BY <3>1, <3>2, <3>3 DEF Recovery!Batches, Holds
    <2>2. step = 4 => Holds(log, archived, "batch")
      <3> SUFFICES ASSUME step = 4 PROVE Holds(log, archived, "batch")
        OBVIOUS
      <3>1. archived = Len(log)
        BY DEF Recovery!WaitCount, Recovery!SwitchWal, Recovery!WaitArchived, Recovery!PromoteWarm,
               Recovery!BaseBackup, Recovery!RecoverToPoint, Recovery!Goes,
               Recovery!ArchiveCaughtUp
      <3> QED BY <3>1 DEF StandbyInv, BatchArrived
    <2>3. warm'.promoted => Holds(log, warm'.at, "batch")
      BY <1>3 DEF StandbyInv, BatchArrived
    <2> QED BY <1>1, <1>2, <2>1, <2>2, <2>3 DEF StandbyInv, BatchArrived
  <1>7. PointArrived'
    <2>1. step = 13 => point <= archived
      BY DEF Recovery!WaitCount, Recovery!SwitchWal, Recovery!WaitArchived, Recovery!PromoteWarm,
             Recovery!BaseBackup, Recovery!RecoverToPoint, Recovery!Goes, Recovery!ArchiveCaughtUp
    <2>2. step = 14 => Holds(log, hot, "delete")
      <3> SUFFICES ASSUME step = 14 PROVE Holds(log, hot, "delete")
        OBVIOUS
      <3>1. Recovery!Batches(hot) = Recovery!Batches(Len(log))
        BY DEF Recovery!WaitCount, Recovery!SwitchWal, Recovery!WaitArchived, Recovery!PromoteWarm,
               Recovery!BaseBackup, Recovery!RecoverToPoint, Recovery!Goes
      <3>2. PICK i \in 1..hot : log[i] = "batch"
        BY DEF StandbyInv, BatchArrived, Holds
      <3>3. PICK d \in 1..Len(log) : log[d] = "delete"
        BY DEF StandbyInv, PointArrived, Holds
      <3>4. i < d
        BY <3>2, <3>3 DEF StandbyInv, DeleteLast
      <3>5. i \notin Recovery!Batches(Len(log))
        BY <3>2, <3>3, <3>4 DEF Recovery!Batches
      <3>6. PICK j \in i..hot : log[j] = "delete"
        BY <3>1, <3>2, <3>5 DEF Recovery!Batches
      <3> QED BY <3>2, <3>6 DEF Holds
    <2>3. step = 15 => pitr' = [is |-> "up", at |-> point]
      BY DEF Recovery!WaitCount, Recovery!SwitchWal, Recovery!WaitArchived, Recovery!PromoteWarm,
             Recovery!BaseBackup, Recovery!RecoverToPoint, Recovery!Goes, StandbyInv, DeleteLast,
             PointArrived
    <2> QED BY <1>1, <1>2, <2>1, <2>2, <2>3 DEF StandbyInv, PointArrived
  <1> QED BY <1>4, <1>5, <1>6, <1>7 DEF StandbyInv

LEMMA StandbyStep == StandbyInv /\ [Next]_vars => StandbyInv'
  <1>1. StandbyInv /\ UNCHANGED standbyVars => StandbyInv'
    BY DEF standbyVars, StandbyInv, StandbyTypes, Recovery!TypeOK, BatchArrived, DeleteLast,
           PointArrived
  <1> QED BY <1>1, StandbySteps, LogSteps, ServerSteps, ProgramSteps
          DEF Recovery!Next, Recovery!Main

\* For any number of records the servers add of their own, anywhere: the warm standby is
\* promoted with a batch, the recovered instance comes up at the restore point with every
\* batch before it, and the hot standby has followed the DELETE.
THEOREM RecoveryLosesNothing == SafeSpec => []NothingLostOnRecovery
  <1>1. StandbyInv => NothingLostOnRecovery
    <2> SUFFICES ASSUME StandbyInv PROVE Recovery!NothingLostOnRecovery
      BY DEF NothingLostOnRecovery
    <2>1. warm.promoted => {i \in 1..warm.at : log[i] = "batch"} # {}
      BY DEF StandbyInv, BatchArrived, Holds
    <2>2. ASSUME step = 16
          PROVE  /\ pitr.is = "up" /\ Recovery!Batches(pitr.at) = {i \in 1..point : log[i] = "batch"}
                 /\ Recovery!Batches(hot) = {}
      <3>1. pitr.is = "up" /\ pitr.at = point
        BY <2>2 DEF StandbyInv, PointArrived
      <3>2. Recovery!Batches(point) = {i \in 1..point : log[i] = "batch"}
        <4>1. \A i \in 1..point : \A j \in i..point : log[j] # "delete"
          BY <2>2, StandbyFacts DEF StandbyInv, DeleteLast, Free
        <4> QED BY <4>1 DEF Recovery!Batches
      <3>3. Recovery!Batches(hot) = {}
        <4>1. PICK d \in 1..hot : log[d] = "delete"
          BY <2>2 DEF StandbyInv, PointArrived, Holds
        <4>2. \A i \in 1..hot : log[i] = "batch" => d \in i..hot
          <5>1. hot \in Nat /\ hot <= Len(log) /\ Len(log) \in Nat
            BY StandbyFacts
          <5>2. \A i \in 1..hot : i \in 1..Len(log)
            BY <5>1
          <5> QED BY <4>1, <5>1, <5>2 DEF StandbyInv, DeleteLast
        <4> QED BY <4>1, <4>2 DEF Recovery!Batches
      <3> QED BY <3>1, <3>2, <3>3
    <2> QED BY <2>1, <2>2 DEF Recovery!NothingLostOnRecovery
  <1> QED BY <1>1, StandbyInit, StandbyStep, PTL DEF SafeSpec

(***************************************************************************)
(* multi_primary_replication.                                              *)
(***************************************************************************)
LEMMA MultiSteps == [Next]_vars => Multi!Next \/ UNCHANGED multiVars
  BY DEF Next, Others, vars

LEMMA MultiBounds == MaxUpdates \in Nat /\ MaxOrders \in Nat
  BY CopiesAssumption DEF CopiesAssumption

Version == [tick : 0..MaxUpdates, by : Multi!Node]
OrderRow == [id : Nat, by : Multi!Node]
OrderChange == [order : OrderRow]
AccountChange == [account : Version]

MultiTypes ==
  /\ account \in [Multi!Node -> Version] /\ orderRows \in [Multi!Node -> SUBSET OrderRow]
  /\ slot \in [Multi!Node -> Seq(OrderChange \cup AccountChange)]
  /\ given \in [Multi!Node -> 0..MaxOrders] /\ clock \in 0..MaxUpdates
  /\ enabled \subseteq Multi!Node /\ guard \subseteq Multi!Node /\ crossed \in BOOLEAN

\* An order has a number of its node's sequence.
Numbered == \A n \in Multi!Node : \A o \in orderRows[n] :
              \E k \in Nat : o.id = o.by + 10 * k /\ k < given[o.by]

\* An order waits in its node's slot until it is applied, once.
WaitIn(n, q, mine, peers) ==
  /\ \A i \in 1..Len(q) : q[i] \in OrderChange =>
       /\ q[i].order \in mine \ peers /\ q[i].order.by = n
       /\ \A j \in 1..Len(q) : j # i => q[j] # q[i]
  /\ \A o \in mine \ peers : o.by = n /\ \E i \in 1..Len(q) : q[i] = [order |-> o]
OrdersWait ==
  \A n \in Multi!Node : WaitIn(n, slot[n], orderRows[n], orderRows[Multi!Peer(n)])

\* No version is of the future, and a slot has its node's own.
VersionsSoFar ==
  \A n \in Multi!Node :
    /\ account[n].tick <= clock
    /\ \A i \in 1..Len(slot[n]) : slot[n][i] \in AccountChange =>
         slot[n][i].account.by = n /\ slot[n][i].account.tick <= clock

\* A node's own version is the last of its slot, or its peer has a version no older.
LastWaits(n) ==
  \/ \E i \in 1..Len(slot[n]) :
       /\ slot[n][i] = [account |-> account[n]]
       /\ \A j \in i + 1..Len(slot[n]) : slot[n][j] \in OrderChange
  \/ /\ \A i \in 1..Len(slot[n]) : slot[n][i] \in OrderChange
     /\ ~Multi!Older(account[Multi!Peer(n)], account[n])
OwnIsKnown == \A n \in Multi!Node : account[n].by = n => LastWaits(n)

\* As long as no node has gone back to an older version, the newer of two different versions
\* is on its way to the other node.
NewerOnItsWay ==
  crossed \/ \A n \in Multi!Node :
    /\ \A i \in 1..Len(slot[n]) : slot[n][i] \in AccountChange =>
         ~Multi!Older(account[n], slot[n][i].account)
    /\ Multi!Older(account[Multi!Peer(n)], account[n]) =>
         \E i \in 1..Len(slot[n]) : slot[n][i] = [account |-> account[n]]

MultiInv ==
  /\ MultiTypes /\ Numbered /\ OrdersWait /\ VersionsSoFar /\ OwnIsKnown /\ NewerOnItsWay

LEMMA Nodes ==
  /\ Multi!Node = {1, 2} /\ Multi!Peer(1) = 2 /\ Multi!Peer(2) = 1
  /\ \A n \in Multi!Node : Multi!Peer(n) \in Multi!Node /\ Multi!Peer(n) # n
                           /\ Multi!Peer(Multi!Peer(n)) = n
                           /\ \A x \in Multi!Node : x = n \/ x = Multi!Peer(n)
  BY DEF Multi!Node, Multi!Peer

LEMMA OlderIsAnOrder ==
  ASSUME NEW u \in Version, NEW v \in Version, NEW w \in Version
  PROVE  /\ Multi!Older(u, v) /\ ~Multi!Older(w, v) => Multi!Older(u, w)
         /\ ~Multi!Older(v, u) /\ Multi!Older(v, w) => Multi!Older(u, w)
         /\ ~Multi!Older(v, u) /\ ~Multi!Older(w, v) => ~Multi!Older(w, u)
         /\ ~Multi!Older(u, u) /\ (Multi!Older(u, v) => ~Multi!Older(v, u))
         /\ ~Multi!Older(u, v) /\ ~Multi!Older(v, u) => u = v
  <1>1. /\ u.tick \in Int /\ v.tick \in Int /\ w.tick \in Int
        /\ u.by \in Int /\ v.by \in Int /\ w.by \in Int
    BY MultiBounds DEF Version, Multi!Node
  <1>2. u.tick = v.tick /\ u.by = v.by => u = v
    BY DEF Version
  <1> QED BY <1>1, <1>2 DEF Multi!Older

LEMMA Kinds ==
  ASSUME NEW c \in OrderChange \cup AccountChange
  PROVE  /\ c \in OrderChange <=> "order" \in DOMAIN c
         /\ c \in OrderChange <=> c \notin AccountChange
         /\ c \in OrderChange => c.order \in OrderRow /\ c = [order |-> c.order]
         /\ c \in AccountChange => c.account \in Version /\ c = [account |-> c.account]
  <1>1. ASSUME c \in OrderChange
        PROVE  "order" \in DOMAIN c /\ c \notin AccountChange /\ c.order \in OrderRow
               /\ c = [order |-> c.order]
    BY <1>1 DEF OrderChange, AccountChange
  <1>2. ASSUME c \in AccountChange
        PROVE  "order" \notin DOMAIN c /\ c \notin OrderChange /\ c.account \in Version
               /\ c = [account |-> c.account]
    BY <1>2 DEF OrderChange, AccountChange
  <1> QED BY <1>1, <1>2

LEMMA MultiInit == Init => MultiInv
  <1> SUFFICES ASSUME Multi!Init PROVE MultiInv
    BY DEF Init
  <1> USE MultiBounds, Nodes
  <1>1. \A n \in Multi!Node : account[n] = [tick |-> 0, by |-> 1] /\ slot[n] = <<>>
                              /\ orderRows[n] = {} /\ given[n] = 0
    BY DEF Multi!Init
  <1>2. [tick |-> 0, by |-> 1] \in Version
    BY DEF Version
  <1>3. MultiTypes
    <2>1. <<>> \in Seq(OrderChange \cup AccountChange)
      OBVIOUS
    <2>2. crossed \in BOOLEAN
      BY Zenon DEF Multi!Init
    <2>3. slot \in [Multi!Node -> Seq(OrderChange \cup AccountChange)]
      BY Zenon, <2>1 DEF Multi!Init
    <2> QED BY <1>2, <2>2, <2>3 DEF Multi!Init, MultiTypes
  <1>4. \A n \in Multi!Node : 1..Len(slot[n]) = {}
    BY <1>1
  <1>5. \A n, m \in Multi!Node : ~Multi!Older(account[n], account[m])
    BY <1>1, <1>2, OlderIsAnOrder
  <1>6. Numbered /\ OrdersWait /\ VersionsSoFar
    BY <1>1, <1>4 DEF Numbered, OrdersWait, WaitIn, VersionsSoFar, Multi!Init
  <1>7. OwnIsKnown /\ NewerOnItsWay
    BY <1>4, <1>5 DEF OwnIsKnown, LastWaits, NewerOnItsWay
  <1> QED BY <1>3, <1>6, <1>7 DEF MultiInv

LEMMA InsertOrderStep == ASSUME MultiInv, NEW n \in Multi!Node, Multi!InsertOrder(n) PROVE MultiInv'
  <1> USE Nodes
  <1>1. PICK m \in Multi!Node : m = Multi!Peer(n) /\ m # n /\ n = Multi!Peer(m)
    OBVIOUS
  <1>2. PICK order : order = [id |-> n + 10 * given[n], by |-> n]
    OBVIOUS
  <1>3. PICK q : q = slot[n]
    OBVIOUS
  <1>4. PICK c : c = [order |-> order]
    OBVIOUS
  <1>5. /\ MultiTypes /\ given[n] < MaxOrders /\ given' = [given EXCEPT ![n] = @ + 1]
        /\ orderRows' = [orderRows EXCEPT ![n] = @ \cup {order}]
        /\ slot' = [slot EXCEPT ![n] = Append(q, c)]
        /\ account' = account /\ enabled' = enabled /\ guard' = guard /\ clock' = clock
        /\ crossed' = crossed
    BY <1>2, <1>3, <1>4 DEF Multi!InsertOrder, Multi!NextId, MultiInv
  <1>6. /\ given[n] \in Nat /\ order \in OrderRow /\ order.by = n /\ order.id = n + 10 * given[n]
        /\ c \in OrderChange /\ c.order = order
    BY <1>2, <1>4, <1>5, MultiBounds DEF MultiTypes, OrderRow, OrderChange
  <1>7. q \in Seq(OrderChange \cup AccountChange) /\ Len(q) \in Nat
    BY <1>3, <1>5 DEF MultiTypes
  <1>8. /\ Append(q, c) \in Seq(OrderChange \cup AccountChange) /\ Len(Append(q, c)) = Len(q) + 1
        /\ \A i \in 1..Len(q) : Append(q, c)[i] = q[i]
        /\ Append(q, c)[Len(q) + 1] = c
    BY <1>6, <1>7, AppendProperties
  <1>9. PICK p : p = Append(q, c)
    OBVIOUS
  <1>10. /\ slot'[n] = p /\ slot'[m] = slot[m]
         /\ orderRows'[n] = orderRows[n] \cup {order} /\ orderRows'[m] = orderRows[m]
         /\ given'[n] = given[n] + 1 /\ given'[m] = given[m]
    BY <1>1, <1>5, <1>9 DEF MultiTypes
  <1>11. MultiTypes'
    <2>1. slot' \in [Multi!Node -> Seq(OrderChange \cup AccountChange)]
      BY Zenon, <1>5, <1>8 DEF MultiTypes
    <2>2. crossed' \in BOOLEAN
      BY Zenon, <1>5 DEF MultiTypes
    <2>3. orderRows' \in [Multi!Node -> SUBSET OrderRow]
      BY <1>5, <1>6 DEF MultiTypes
    <2>4. given[n] + 1 \in 0..MaxOrders
      BY <1>5, <1>6, MultiBounds
    <2>5. given' \in [Multi!Node -> 0..MaxOrders]
      BY <1>5, <2>4 DEF MultiTypes
    <2> QED BY <1>5, <2>1, <2>2, <2>3, <2>5 DEF MultiTypes
  <1>12. order \notin orderRows[n] /\ order \notin orderRows[m]
    <2>1. ASSUME NEW x \in Multi!Node, order \in orderRows[x] PROVE FALSE
      <3>1. PICK k \in Nat : order.id = order.by + 10 * k /\ k < given[order.by]
        BY <2>1 DEF MultiInv, Numbered
      <3> QED BY <1>6, <3>1
    <2> QED BY <2>1
  <1>13. Numbered'
    <2>1. ASSUME NEW x \in Multi!Node, NEW o \in orderRows[x]
          PROVE  \E k \in Nat : o.id = o.by + 10 * k /\ k < given'[o.by]
      <3>1. PICK k \in Nat : o.id = o.by + 10 * k /\ k < given[o.by]
        BY DEF MultiInv, Numbered
      <3>2. o.by \in Multi!Node
        BY <1>5 DEF MultiTypes, OrderRow
      <3>3. given'[o.by] = given[o.by] \/ (o.by = n /\ given'[o.by] = given[n] + 1)
        BY <1>1, <1>10, <3>2
      <3>4. k < given'[o.by]
        BY <1>6, <3>1, <3>3
      <3> QED BY <3>1, <3>4
    <2>2. order.id = order.by + 10 * given[n] /\ given[n] < given'[order.by]
      BY <1>6, <1>10
    <2> QED BY <1>1, <1>6, <1>10, <2>1, <2>2 DEF Numbered
  <1>14. OrdersWait'
    <2>1. ASSUME NEW i \in 1..Len(p), p[i] \in OrderChange
          PROVE  /\ p[i].order \in orderRows'[n] \ orderRows'[m] /\ p[i].order.by = n
                 /\ \A j \in 1..Len(p) : j # i => p[j] # p[i]
      <3>1. ASSUME NEW j \in 1..Len(q), q[j] \in OrderChange
            PROVE  q[j].order \in orderRows[n] \ orderRows[m] /\ q[j] # c
        BY <1>1, <1>3, <1>6, <1>12, <3>1 DEF MultiInv, OrdersWait, WaitIn
      <3>2. \A j \in 1..Len(q) : q[j] # c
        BY <1>6, <3>1
      <3>3. CASE i \in 1..Len(q)
        <4>1. p[i] = q[i] /\ WaitIn(n, q, orderRows[n], orderRows[m])
          BY <1>1, <1>3, <1>8, <1>9, <3>3 DEF MultiInv, OrdersWait
        <4>2. /\ q[i].order \in orderRows[n] \ orderRows[m] /\ q[i].order.by = n
              /\ \A j \in 1..Len(q) : j # i => q[j] # q[i]
          BY <2>1, <3>3, <4>1 DEF WaitIn
        <4>3. ASSUME NEW j \in 1..Len(p), j # i PROVE p[j] # p[i]
          <5>1. (j \in 1..Len(q) /\ p[j] = q[j]) \/ p[j] = c
            BY <1>7, <1>8, <1>9
          <5> QED BY <3>2, <3>3, <4>1, <4>2, <4>3, <5>1
        <4> QED BY <1>10, <4>1, <4>2, <4>3
      <3>4. CASE i = Len(q) + 1
        BY <1>1, <1>6, <1>7, <1>8, <1>9, <1>10, <1>12, <3>2, <3>4
      <3> QED BY <1>7, <1>8, <1>9, <3>3, <3>4
    <2>2. ASSUME NEW o \in orderRows'[n] \ orderRows'[m]
          PROVE  o.by = n /\ \E i \in 1..Len(p) : p[i] = [order |-> o]
      <3>1. CASE o = order
        BY <1>4, <1>6, <1>7, <1>8, <1>9, <3>1
      <3>2. CASE o # order
        <4>1. o \in orderRows[n] \ orderRows[m]
          BY <1>10, <2>2, <3>2
        <4>2. o.by = n /\ \E i \in 1..Len(q) : q[i] = [order |-> o]
          BY <1>1, <1>3, <4>1 DEF MultiInv, OrdersWait, WaitIn
        <4> QED BY <1>7, <1>8, <1>9, <4>2
      <3> QED BY <3>1, <3>2
    <2>3. ASSUME NEW i \in 1..Len(slot[m]), slot[m][i] \in OrderChange
          PROVE  /\ slot[m][i].order \in orderRows'[m] \ orderRows'[n] /\ slot[m][i].order.by = m
                 /\ \A j \in 1..Len(slot[m]) : j # i => slot[m][j] # slot[m][i]
      BY <1>1, <1>6, <1>10, <2>3 DEF MultiInv, OrdersWait, WaitIn
    <2>4. ASSUME NEW o \in orderRows'[m] \ orderRows'[n]
          PROVE  o.by = m /\ \E i \in 1..Len(slot[m]) : slot[m][i] = [order |-> o]
      BY <1>1, <1>10, <2>4 DEF MultiInv, OrdersWait, WaitIn
    <2>5. ASSUME NEW x \in Multi!Node PROVE x = n \/ x = m
      BY <1>1
    <2>6. WaitIn(n, p, orderRows'[n], orderRows'[m])
      BY <2>1, <2>2 DEF WaitIn
    <2>7. WaitIn(m, slot[m], orderRows'[m], orderRows'[n])
      BY <2>3, <2>4 DEF WaitIn
    <2> QED BY <1>1, <1>10, <2>5, <2>6, <2>7 DEF OrdersWait
  <1>15. \A i \in 1..Len(p) : p[i] \in AccountChange => i \in 1..Len(q) /\ p[i] = q[i]
    BY <1>6, <1>7, <1>8, <1>9, Kinds
  <1>16. VersionsSoFar'
    BY <1>1, <1>3, <1>5, <1>10, <1>15 DEF MultiInv, VersionsSoFar
  <1>17. OwnIsKnown'
    <2>1. ASSUME account[n].by = n PROVE LastWaits(n)'
      <3>1. CASE \E i \in 1..Len(q) : /\ q[i] = [account |-> account[n]]
                                      /\ \A j \in i + 1..Len(q) : q[j] \in OrderChange
        <4>1. PICK i \in 1..Len(q) : /\ q[i] = [account |-> account[n]]
                                     /\ \A j \in i + 1..Len(q) : q[j] \in OrderChange
          BY <3>1
        <4>2. i \in 1..Len(p) /\ p[i] = [account |-> account[n]]
          BY <1>7, <1>8, <1>9, <4>1
        <4>3. \A j \in i + 1..Len(p) : p[j] \in OrderChange
          <5> SUFFICES ASSUME NEW j \in i + 1..Len(p) PROVE p[j] \in OrderChange
            OBVIOUS
          <5>1. j \in i + 1..Len(q) \/ j = Len(q) + 1
            BY <1>7, <1>8, <1>9, <4>1
          <5>2. j \in i + 1..Len(q) => p[j] = q[j]
            BY <1>7, <1>8, <1>9, <4>1
          <5> QED BY <1>6, <1>8, <1>9, <4>1, <5>1, <5>2
        <4> QED BY <1>5, <1>10, <4>2, <4>3 DEF LastWaits
      <3>2. CASE /\ \A i \in 1..Len(q) : q[i] \in OrderChange
                 /\ ~Multi!Older(account[m], account[n])
        <4>1. \A i \in 1..Len(p) : p[i] \in OrderChange
          BY <1>6, <1>7, <1>8, <1>9, <3>2
        <4> QED BY <1>1, <1>5, <1>10, <3>2, <4>1 DEF LastWaits
      <3> QED BY <1>1, <1>3, <2>1, <3>1, <3>2 DEF MultiInv, OwnIsKnown, LastWaits
    <2>2. ASSUME account[m].by = m PROVE LastWaits(m)'
      <3>1. LastWaits(m)
        BY <2>2 DEF MultiInv, OwnIsKnown
      <3> QED BY <1>1, <1>5, <1>10, <3>1 DEF LastWaits
    <2> QED BY <1>1, <1>5, <2>1, <2>2 DEF OwnIsKnown
  <1>18. NewerOnItsWay'
    <2> SUFFICES ASSUME ~crossed, NEW x \in Multi!Node
                 PROVE  /\ \A i \in 1..Len(slot'[x]) : slot'[x][i] \in AccountChange =>
                             ~Multi!Older(account[x], slot'[x][i].account)
                        /\ Multi!Older(account[Multi!Peer(x)], account[x]) =>
                             \E i \in 1..Len(slot'[x]) : slot'[x][i] = [account |-> account[x]]
      BY <1>5 DEF NewerOnItsWay
    <2>1. CASE x = n
      <3>1. /\ \A i \in 1..Len(q) : q[i] \in AccountChange =>
                 ~Multi!Older(account[n], q[i].account)
            /\ Multi!Older(account[m], account[n]) =>
                 \E i \in 1..Len(q) : q[i] = [account |-> account[n]]
        BY <1>1, <1>3 DEF MultiInv, NewerOnItsWay
      <3>2. \A i \in 1..Len(q) : i \in 1..Len(p) /\ p[i] = q[i]
        BY <1>7, <1>8, <1>9
      <3> QED BY <1>1, <1>10, <1>15, <2>1, <3>1, <3>2
    <2>2. CASE x = m
      BY <1>10, <2>2 DEF MultiInv, NewerOnItsWay
    <2> QED BY <1>1, <2>1, <2>2
  <1> QED BY <1>11, <1>13, <1>14, <1>16, <1>17, <1>18 DEF MultiInv

LEMMA UpdateAccountStep == ASSUME MultiInv, NEW n \in Multi!Node, Multi!UpdateAccount(n) PROVE MultiInv'
  <1> USE Nodes
  <1>1. PICK m \in Multi!Node : m = Multi!Peer(n) /\ m # n /\ n = Multi!Peer(m)
    OBVIOUS
  <1>2. PICK v : v = [tick |-> clock', by |-> n]
    OBVIOUS
  <1>3. PICK q : q = slot[n]
    OBVIOUS
  <1>4. PICK c : c = [account |-> v]
    OBVIOUS
  <1>5. /\ MultiTypes /\ clock < MaxUpdates /\ clock' \in {clock, clock + 1} \ {0}
        /\ Multi!Older(account[n], v) /\ account' = [account EXCEPT ![n] = v]
        /\ slot' = [slot EXCEPT ![n] = Append(q, c)]
        /\ crossed' = (crossed /\ ~Multi!Drained)
        /\ orderRows' = orderRows /\ given' = given /\ enabled' = enabled /\ guard' = guard
    BY <1>2, <1>3, <1>4 DEF Multi!UpdateAccount, MultiInv
  <1>6. /\ clock \in Nat /\ clock' \in 0..MaxUpdates /\ clock' \in Nat /\ clock <= clock'
        /\ v \in Version /\ v.by = n /\ v.tick = clock'
        /\ c \in AccountChange /\ c.account = v
        /\ account[n] \in Version /\ account[m] \in Version
    BY <1>2, <1>4, <1>5, MultiBounds DEF MultiTypes, Version, AccountChange
  <1>7. q \in Seq(OrderChange \cup AccountChange) /\ Len(q) \in Nat
    BY <1>3, <1>5 DEF MultiTypes
  <1>8. /\ Append(q, c) \in Seq(OrderChange \cup AccountChange) /\ Len(Append(q, c)) = Len(q) + 1
        /\ \A i \in 1..Len(q) : Append(q, c)[i] = q[i]
        /\ Append(q, c)[Len(q) + 1] = c
    BY <1>6, <1>7, AppendProperties
  <1>9. PICK p : p = Append(q, c)
    OBVIOUS
  <1>10. /\ slot'[n] = p /\ slot'[m] = slot[m] /\ account'[n] = v /\ account'[m] = account[m]
    BY <1>1, <1>5, <1>9 DEF MultiTypes
  <1>11. MultiTypes'
    <2>1. slot' \in [Multi!Node -> Seq(OrderChange \cup AccountChange)]
      BY Zenon, <1>5, <1>8 DEF MultiTypes
    <2>2. crossed' \in BOOLEAN
      BY Zenon, <1>5
    <2>3. account' \in [Multi!Node -> Version]
      BY <1>5, <1>6 DEF MultiTypes
    <2> QED BY <1>5, <1>6, <2>1, <2>2, <2>3 DEF MultiTypes
  <1>12. Numbered'
    BY <1>5 DEF MultiInv, Numbered
  <1>13. c \notin OrderChange /\ \A o : c # [order |-> o]
    BY <1>4, <1>6, Kinds
  <1>14. \A i \in 1..Len(p) : (i \in 1..Len(q) /\ p[i] = q[i]) \/ (i = Len(q) + 1 /\ p[i] = c)
    BY <1>7, <1>8, <1>9
  <1>15. \A i \in 1..Len(q) : i \in 1..Len(p) /\ p[i] = q[i]
    BY <1>7, <1>8, <1>9
  <1>16. OrdersWait'
    <2>1. ASSUME NEW i \in 1..Len(p), p[i] \in OrderChange
          PROVE  /\ p[i].order \in orderRows[n] \ orderRows[m] /\ p[i].order.by = n
                 /\ \A j \in 1..Len(p) : j # i => p[j] # p[i]
      <3>1. i \in 1..Len(q) /\ p[i] = q[i]
        BY <1>13, <1>14, <2>1
      <3>2. /\ q[i].order \in orderRows[n] \ orderRows[m] /\ q[i].order.by = n
            /\ \A j \in 1..Len(q) : j # i => q[j] # q[i]
        BY <1>1, <1>3, <2>1, <3>1 DEF MultiInv, OrdersWait, WaitIn
      <3>3. c # p[i]
        BY <1>13, <2>1
      <3> QED BY <1>14, <3>1, <3>2, <3>3
    <2>2. ASSUME NEW o \in orderRows[n] \ orderRows[m]
          PROVE  o.by = n /\ \E i \in 1..Len(p) : p[i] = [order |-> o]
      BY <1>1, <1>3, <1>15 DEF MultiInv, OrdersWait, WaitIn
    <2>3. ASSUME NEW x \in Multi!Node PROVE x = n \/ x = m
      BY <1>1
    <2>4. WaitIn(n, p, orderRows[n], orderRows[m])
      BY <2>1, <2>2 DEF WaitIn
    <2>5. WaitIn(m, slot[m], orderRows[m], orderRows[n])
      BY <1>1 DEF MultiInv, OrdersWait
    <2>6. /\ orderRows'[n] = orderRows[n] /\ orderRows'[m] = orderRows[m]
          /\ slot'[n] = p /\ slot'[m] = slot[m]
      BY <1>5, <1>10
    <2> QED BY <1>1, <2>3, <2>4, <2>5, <2>6 DEF OrdersWait
  <1>17. VersionsSoFar'
    <2>1. ASSUME NEW i \in 1..Len(p), p[i] \in AccountChange
          PROVE  p[i].account.by = n /\ p[i].account.tick <= clock'
      <3>1. CASE i \in 1..Len(q) /\ p[i] = q[i]
        <4>1. p[i].account.by = n /\ p[i].account.tick <= clock
          BY <1>3, <2>1, <3>1 DEF MultiInv, VersionsSoFar
        <4>2. p[i].account.tick \in Int
          BY <2>1, Kinds DEF Version
        <4> QED BY <1>6, <4>1, <4>2
      <3>2. CASE i = Len(q) + 1 /\ p[i] = c
        BY <1>6, <3>2
      <3> QED BY <1>14, <3>1, <3>2
    <2>2. ASSUME NEW i \in 1..Len(slot[m]), slot[m][i] \in AccountChange
          PROVE  slot[m][i].account.by = m /\ slot[m][i].account.tick <= clock'
      <3>1. slot[m][i].account.by = m /\ slot[m][i].account.tick <= clock
        BY <2>2 DEF MultiInv, VersionsSoFar
      <3>2. slot[m][i].account.tick \in Int
        BY <2>2, Kinds DEF Version
      <3> QED BY <1>6, <3>1, <3>2
    <2>3. account[m].tick <= clock'
      <3>1. account[m].tick <= clock /\ account[m].tick \in Int
        BY <1>6 DEF MultiInv, VersionsSoFar, Version
      <3> QED BY <1>6, <3>1
    <2>4. v.tick <= clock'
      BY <1>6
    <2>5. ASSUME NEW x \in Multi!Node PROVE x = n \/ x = m
      BY <1>1
    <2> QED BY <1>10, <2>1, <2>2, <2>3, <2>4, <2>5 DEF VersionsSoFar
  <1>18. OwnIsKnown'
    <2>1. LastWaits(n)'
      <3>1. Len(p) \in 1..Len(p) /\ p[Len(p)] = c /\ Len(p) + 1..Len(p) = {}
        BY <1>7, <1>8, <1>9
      <3> QED BY <1>4, <1>10, <3>1 DEF LastWaits
    <2>2. ASSUME account[m].by = m PROVE LastWaits(m)'
      <3>1. LastWaits(m)
        BY <2>2 DEF MultiInv, OwnIsKnown
      <3>2. ~Multi!Older(account[n], account[m]) => ~Multi!Older(v, account[m])
        BY <1>5, <1>6, OlderIsAnOrder
      <3> QED BY <1>1, <1>10, <3>1, <3>2 DEF LastWaits
    <2> QED BY <1>1, <1>10, <2>1, <2>2 DEF OwnIsKnown
  <1>19. NewerOnItsWay'
    <2> SUFFICES ASSUME ~crossed'
                 PROVE  \A x \in Multi!Node :
                          /\ \A i \in 1..Len(slot'[x]) : slot'[x][i] \in AccountChange =>
                               ~Multi!Older(account'[x], slot'[x][i].account)
                          /\ Multi!Older(account'[Multi!Peer(x)], account'[x]) =>
                               \E i \in 1..Len(slot'[x]) : slot'[x][i] = [account |-> account'[x]]
      BY DEF NewerOnItsWay
    <2>1. ~crossed \/ Multi!Drained
      BY Zenon, <1>5
    <2>2. \E i \in 1..Len(p) : p[i] = [account |-> v]
      BY <1>4, <1>7, <1>8, <1>9
    <2>3. CASE ~crossed
      <3>1. /\ \A i \in 1..Len(q) : q[i] \in AccountChange =>
                 ~Multi!Older(account[n], q[i].account)
            /\ \A i \in 1..Len(slot[m]) : slot[m][i] \in AccountChange =>
                 ~Multi!Older(account[m], slot[m][i].account)
            /\ Multi!Older(account[n], account[m]) =>
                 \E i \in 1..Len(slot[m]) : slot[m][i] = [account |-> account[m]]
        BY <1>1, <1>3, <2>3 DEF MultiInv, NewerOnItsWay
      <3>2. ASSUME NEW i \in 1..Len(p), p[i] \in AccountChange
            PROVE  ~Multi!Older(v, p[i].account)
        <4>1. p[i].account \in Version
          BY <3>2, Kinds
        <4>2. p[i].account = v \/ ~Multi!Older(account[n], p[i].account)
          BY <1>6, <1>14, <3>1, <3>2
        <4> QED BY <1>5, <1>6, <4>1, <4>2, OlderIsAnOrder
      <3>3. Multi!Older(v, account[m]) =>
              \E i \in 1..Len(slot[m]) : slot[m][i] = [account |-> account[m]]
        <4>1. Multi!Older(v, account[m]) => Multi!Older(account[n], account[m])
          BY <1>5, <1>6, OlderIsAnOrder
        <4> QED BY <3>1, <4>1
      <3> QED BY <1>1, <1>10, <2>2, <3>1, <3>2, <3>3
    <2>4. CASE Multi!Drained
      <3>1. q = <<>> /\ slot[m] = <<>> /\ Len(q) = 0 /\ Len(slot[m]) = 0
        BY <1>3, <2>4 DEF Multi!Drained
      <3>2. ASSUME NEW i \in 1..Len(p), p[i] \in AccountChange
            PROVE  ~Multi!Older(v, p[i].account)
        <4>1. p[i] = c
          BY <1>14, <3>1
        <4> QED BY <1>6, <4>1, OlderIsAnOrder
      <3>3. ~Multi!Older(v, account[m])
        <4>1. CASE account[m].by = m
          <5>1. ~Multi!Older(account[n], account[m])
            BY <1>1, <3>1, <4>1 DEF MultiInv, OwnIsKnown, LastWaits
          <5> QED BY <1>5, <1>6, <5>1, OlderIsAnOrder
        <4>2. CASE account[m].by = n
          <5>1. account[m].tick <= clock /\ account[m].tick \in Int
            BY <1>6 DEF MultiInv, VersionsSoFar, Version
          <5> QED BY <1>6, <4>2, <5>1 DEF Multi!Older
        <4> QED BY <1>1, <1>6, <4>1, <4>2 DEF Version
      <3> QED BY <1>1, <1>10, <2>2, <3>1, <3>2, <3>3
    <2> QED BY <2>1, <2>3, <2>4
  <1> QED BY <1>11, <1>12, <1>16, <1>17, <1>18, <1>19 DEF MultiInv

LEMMA ApplyStep == ASSUME MultiInv, NEW n \in Multi!Node, Multi!Apply(n) PROVE MultiInv'
  <1> USE Nodes
  <1>1. PICK m \in Multi!Node : m = Multi!Peer(n) /\ m # n /\ n = Multi!Peer(m)
    OBVIOUS
  <1>2. PICK q : q = slot[m]
    OBVIOUS
  <1>3. PICK c : c = Head(q)
    OBVIOUS
  <1>4. /\ MultiTypes /\ q \in Seq(OrderChange \cup AccountChange) /\ q # <<>>
        /\ slot[n] \in Seq(OrderChange \cup AccountChange)
    BY <1>1, <1>2 DEF MultiInv, MultiTypes, Multi!Apply
  <1>5. PICK p : p = Tail(q)
    OBVIOUS
  <1>6. /\ p \in Seq(OrderChange \cup AccountChange) /\ Len(p) = Len(q) - 1
        /\ \A i \in 1..Len(p) : p[i] = q[i + 1]
        /\ c \in OrderChange \cup AccountChange
    BY <1>3, <1>4, <1>5, HeadTailProperties
  <1>7. Len(q) \in Nat /\ Len(q) >= 1 /\ Len(p) \in Nat /\ c = q[1] /\ 1 \in 1..Len(q)
    BY <1>3, <1>4, <1>6
  <1>8. /\ \A i \in 1..Len(p) : i + 1 \in 1..Len(q) /\ i + 1 # 1 /\ p[i] = q[i + 1]
        /\ \A i \in 1..Len(q) : i # 1 => i - 1 \in 1..Len(p) /\ p[i - 1] = q[i]
    BY <1>6, <1>7
  <1>9. /\ slot' = [slot EXCEPT ![m] = p, ![n] = slot[n] \o <<>>] \/ slot'[n] = slot[n]
        /\ enabled' = enabled /\ guard' = guard /\ clock' = clock /\ given' = given
    BY <1>1, <1>2, <1>3, <1>5 DEF Multi!Apply, Multi!Forwarded
  <1>10. slot' \in [Multi!Node -> Seq(OrderChange \cup AccountChange)]
         /\ slot'[m] = p /\ slot'[n] = slot[n]
    <2>1. slot' = [slot EXCEPT ![m] = Tail(slot[m]), ![n] = slot[n] \o <<>>]
      BY <1>1 DEF Multi!Apply, Multi!Forwarded
    <2>2. slot[n] \o <<>> = slot[n]
      BY <1>4, ConcatEmptySeq
    <2> QED BY <1>1, <1>2, <1>4, <1>5, <1>6, <2>1, <2>2 DEF MultiTypes
  <1>11. \A x \in Multi!Node : x = n \/ x = m
    BY <1>1
  <1>12. WaitIn(m, q, orderRows[m], orderRows[n]) /\ WaitIn(n, slot[n], orderRows[n], orderRows[m])
    BY <1>1, <1>2 DEF MultiInv, OrdersWait
  \* An order.
  <1>13. CASE c \in OrderChange
    <2>1. /\ c.order \in OrderRow /\ c = [order |-> c.order] /\ "order" \in DOMAIN c
          /\ c \notin AccountChange
      BY <1>13, Kinds
    <2>2. /\ orderRows' = [orderRows EXCEPT ![n] = @ \cup {c.order}]
          /\ account' = account /\ crossed' = crossed
      BY <1>1, <1>2, <1>3, <2>1 DEF Multi!Apply
    <2>3. orderRows'[n] = orderRows[n] \cup {c.order} /\ orderRows'[m] = orderRows[m]
      BY <1>1, <1>4, <2>2 DEF MultiTypes
    <2>4. c.order \in orderRows[m] /\ c.order \notin orderRows[n] /\ c.order.by = m
      BY <1>7, <1>12, <1>13 DEF WaitIn
    <2>5. MultiTypes'
      <3>1. orderRows' \in [Multi!Node -> SUBSET OrderRow]
        BY <1>4, <2>1, <2>2 DEF MultiTypes
      <3>2. crossed' \in BOOLEAN
        BY Zenon, <1>4, <2>2 DEF MultiTypes
      <3> QED BY <1>4, <1>9, <1>10, <2>2, <3>1, <3>2 DEF MultiTypes
    <2>6. Numbered'
      <3>1. ASSUME NEW x \in Multi!Node, NEW o \in orderRows'[x]
            PROVE  \E k \in Nat : o.id = o.by + 10 * k /\ k < given[o.by]
        <4>1. o \in orderRows[x] \/ o \in orderRows[m]
          BY <1>11, <2>3, <2>4
        <4> QED BY <4>1 DEF MultiInv, Numbered
      <3> QED BY <1>9, <3>1 DEF Numbered
    <2>7. OrdersWait'
      <3>1. ASSUME NEW i \in 1..Len(p), p[i] \in OrderChange
            PROVE  /\ p[i].order \in orderRows'[m] \ orderRows'[n] /\ p[i].order.by = m
                   /\ \A j \in 1..Len(p) : j # i => p[j] # p[i]
        <4>1. i + 1 \in 1..Len(q) /\ p[i] = q[i + 1] /\ i + 1 # 1
          BY <1>8
        <4>2. /\ p[i].order \in orderRows[m] \ orderRows[n] /\ p[i].order.by = m
              /\ \A j \in 1..Len(q) : j # i + 1 => q[j] # p[i]
          BY <1>12, <3>1, <4>1 DEF WaitIn
        <4>3. c # p[i] /\ p[i] = [order |-> p[i].order]
          BY <1>7, <3>1, <4>1, <4>2, Kinds
        <4>4. p[i].order # c.order
          BY <2>1, <4>3
        <4>5. ASSUME NEW j \in 1..Len(p), j # i PROVE p[j] # p[i]
          <5>1. j + 1 \in 1..Len(q) /\ p[j] = q[j + 1] /\ j + 1 # i + 1
            BY <1>8, <4>5
          <5> QED BY <4>2, <5>1
        <4> QED BY <2>3, <4>2, <4>4, <4>5
      <3>2. ASSUME NEW o \in orderRows'[m] \ orderRows'[n]
            PROVE  o.by = m /\ \E i \in 1..Len(p) : p[i] = [order |-> o]
        <4>1. o \in orderRows[m] \ orderRows[n] /\ o # c.order
          BY <2>3, <3>2
        <4>2. o.by = m /\ \E i \in 1..Len(q) : q[i] = [order |-> o]
          BY <1>12, <4>1 DEF WaitIn
        <4>3. PICK i \in 1..Len(q) : q[i] = [order |-> o]
          BY <4>2
        <4>4. i # 1
          <5>1. PICK d : d = [order |-> o]
            OBVIOUS
          <5>2. d.order = o
            BY <5>1
          <5> QED BY <1>7, <4>1, <4>3, <5>1, <5>2
        <4>5. i - 1 \in 1..Len(p) /\ p[i - 1] = [order |-> o]
          BY <1>8, <4>3, <4>4
        <4> QED BY <4>2, <4>5
      <3>3. ASSUME NEW i \in 1..Len(slot[n]), slot[n][i] \in OrderChange
            PROVE  /\ slot[n][i].order \in orderRows'[n] \ orderRows'[m] /\ slot[n][i].order.by = n
                   /\ \A j \in 1..Len(slot[n]) : j # i => slot[n][j] # slot[n][i]
        BY <1>12, <2>3, <2>4, <3>3 DEF WaitIn
      <3>4. ASSUME NEW o \in orderRows'[n] \ orderRows'[m]
            PROVE  o.by = n /\ \E i \in 1..Len(slot[n]) : slot[n][i] = [order |-> o]
        <4>1. o \in orderRows[n] \ orderRows[m]
          BY <2>3, <2>4, <3>4
        <4> QED BY <1>12, <4>1 DEF WaitIn
      <3>5. WaitIn(m, p, orderRows'[m], orderRows'[n])
        BY <3>1, <3>2 DEF WaitIn
      <3>6. WaitIn(n, slot[n], orderRows'[n], orderRows'[m])
        BY <3>3, <3>4 DEF WaitIn
      <3> QED BY <1>1, <1>10, <1>11, <3>5, <3>6 DEF OrdersWait
    <2>8. VersionsSoFar'
      <3>1. ASSUME NEW i \in 1..Len(p), p[i] \in AccountChange
            PROVE  p[i].account.by = m /\ p[i].account.tick <= clock
        BY <1>2, <1>8, <3>1 DEF MultiInv, VersionsSoFar
      <3>2. \A x \in Multi!Node : account[x].tick <= clock
        BY DEF MultiInv, VersionsSoFar
      <3>3. ASSUME NEW i \in 1..Len(slot[n]), slot[n][i] \in AccountChange
            PROVE  slot[n][i].account.by = n /\ slot[n][i].account.tick <= clock
        BY <3>3 DEF MultiInv, VersionsSoFar
      <3> QED BY <1>9, <1>10, <1>11, <2>2, <3>1, <3>2, <3>3 DEF VersionsSoFar
    <2>9. OwnIsKnown'
      <3>1. ASSUME account[m].by = m PROVE LastWaits(m)'
        <4>1. LastWaits(m)
          BY <3>1 DEF MultiInv, OwnIsKnown
        <4>2. CASE \E i \in 1..Len(q) : /\ q[i] = [account |-> account[m]]
                                        /\ \A j \in i + 1..Len(q) : q[j] \in OrderChange
          <5>1. PICK i \in 1..Len(q) : /\ q[i] = [account |-> account[m]]
                                       /\ \A j \in i + 1..Len(q) : q[j] \in OrderChange
            BY <4>2
          <5>2. [account |-> account[m]] \in AccountChange
            BY <1>4 DEF MultiTypes, AccountChange
          <5>3. i # 1
            BY <1>7, <2>1, <5>1, <5>2
          <5>4. i - 1 \in 1..Len(p) /\ p[i - 1] = [account |-> account[m]]
            BY <1>8, <5>1, <5>3
          <5>5. ASSUME NEW j \in i - 1 + 1..Len(p) PROVE p[j] \in OrderChange
            <6>1. j \in 1..Len(p) /\ j + 1 \in i + 1..Len(q)
              BY <1>6, <1>7, <5>1
            <6> QED BY <1>8, <5>1, <6>1
          <5> QED BY <1>10, <2>2, <5>4, <5>5 DEF LastWaits
        <4>3. CASE /\ \A i \in 1..Len(q) : q[i] \in OrderChange
                   /\ ~Multi!Older(account[n], account[m])
          <5>1. \A i \in 1..Len(p) : p[i] \in OrderChange
            BY <1>8, <4>3
          <5> QED BY <1>1, <1>10, <2>2, <4>3, <5>1 DEF LastWaits
        <4> QED BY <1>1, <1>2, <4>1, <4>2, <4>3 DEF LastWaits
      <3>2. ASSUME account[n].by = n PROVE LastWaits(n)'
        <4>1. LastWaits(n)
          BY <3>2 DEF MultiInv, OwnIsKnown
        <4> QED BY <1>10, <2>2, <4>1 DEF LastWaits
      <3> QED BY <1>11, <2>2, <3>1, <3>2 DEF OwnIsKnown
    <2>10. NewerOnItsWay'
      <3> SUFFICES ASSUME ~crossed PROVE NewerOnItsWay'
        BY <2>2 DEF NewerOnItsWay
      <3>1. /\ \A i \in 1..Len(q) : q[i] \in AccountChange => ~Multi!Older(account[m], q[i].account)
            /\ Multi!Older(account[n], account[m]) =>
                 \E i \in 1..Len(q) : q[i] = [account |-> account[m]]
        BY <1>1, <1>2 DEF MultiInv, NewerOnItsWay
      <3>2. /\ \A i \in 1..Len(slot[n]) : slot[n][i] \in AccountChange =>
                 ~Multi!Older(account[n], slot[n][i].account)
            /\ Multi!Older(account[m], account[n]) =>
                 \E i \in 1..Len(slot[n]) : slot[n][i] = [account |-> account[n]]
        BY <1>1 DEF MultiInv, NewerOnItsWay
      <3>3. \A i \in 1..Len(p) : p[i] \in AccountChange => ~Multi!Older(account[m], p[i].account)
        BY <1>8, <3>1
      <3>4. ASSUME Multi!Older(account[n], account[m])
            PROVE  \E i \in 1..Len(p) : p[i] = [account |-> account[m]]
        <4>1. PICK i \in 1..Len(q) : q[i] = [account |-> account[m]]
          BY <3>1, <3>4
        <4>2. [account |-> account[m]] \in AccountChange
          BY <1>4 DEF MultiTypes, AccountChange
        <4>3. i # 1
          BY <1>7, <2>1, <4>1, <4>2
        <4> QED BY <1>8, <4>1, <4>3
      <3> QED BY <1>1, <1>10, <1>11, <2>2, <3>2, <3>3, <3>4 DEF NewerOnItsWay
    <2> QED BY <2>5, <2>6, <2>7, <2>8, <2>9, <2>10 DEF MultiInv
  \* A version of the account.
  <1>14. CASE c \in AccountChange
    <2>1. PICK v : v = c.account
      OBVIOUS
    <2>2. /\ v \in Version /\ c = [account |-> v] /\ "order" \notin DOMAIN c /\ c \notin OrderChange
      BY <1>14, <2>1, Kinds
    <2>3. PICK a : a = IF Multi!Accepts(n, v) THEN v ELSE account[n]
      OBVIOUS
    <2>4. /\ account' = [account EXCEPT ![n] = a] /\ orderRows' = orderRows
          /\ crossed' = (crossed \/ (n \notin guard /\ Multi!Older(v, account[n])))
      BY <1>1, <1>2, <1>3, <2>1, <2>2, <2>3 DEF Multi!Apply
    <2>5. account[n] \in Version /\ account[m] \in Version /\ a \in Version
      BY <1>4, <2>2, <2>3 DEF MultiTypes
    <2>6. account'[n] = a /\ account'[m] = account[m]
      BY <1>1, <1>4, <2>4 DEF MultiTypes
    <2>7. a = v \/ (a = account[n] /\ Multi!Older(v, account[n]))
      BY <2>3 DEF Multi!Accepts
    <2>8. MultiTypes'
      <3>1. account' \in [Multi!Node -> Version]
        BY <1>4, <2>4, <2>5 DEF MultiTypes
      <3>2. crossed' \in BOOLEAN
        BY Zenon, <1>4, <2>4 DEF MultiTypes
      <3> QED BY <1>4, <1>9, <1>10, <2>4, <3>1, <3>2 DEF MultiTypes
    <2>9. Numbered'
      BY <1>9, <2>4 DEF MultiInv, Numbered
    <2>10. OrdersWait'
      <3>1. ASSUME NEW i \in 1..Len(p), p[i] \in OrderChange
            PROVE  /\ p[i].order \in orderRows[m] \ orderRows[n] /\ p[i].order.by = m
                   /\ \A j \in 1..Len(p) : j # i => p[j] # p[i]
        <4>1. i + 1 \in 1..Len(q) /\ p[i] = q[i + 1]
          BY <1>8
        <4>2. /\ p[i].order \in orderRows[m] \ orderRows[n] /\ p[i].order.by = m
              /\ \A j \in 1..Len(q) : j # i + 1 => q[j] # p[i]
          BY <1>12, <3>1, <4>1 DEF WaitIn
        <4>3. ASSUME NEW j \in 1..Len(p), j # i PROVE p[j] # p[i]
          <5>1. j + 1 \in 1..Len(q) /\ p[j] = q[j + 1] /\ j + 1 # i + 1
            BY <1>8, <4>3
          <5> QED BY <4>2, <5>1
        <4> QED BY <4>2, <4>3
      <3>2. ASSUME NEW o \in orderRows[m] \ orderRows[n]
            PROVE  o.by = m /\ \E i \in 1..Len(p) : p[i] = [order |-> o]
        <4>1. o.by = m /\ \E i \in 1..Len(q) : q[i] = [order |-> o]
          BY <1>12 DEF WaitIn
        <4>2. PICK i \in 1..Len(q) : q[i] = [order |-> o]
          BY <4>1
        <4>3. i # 1
          <5>1. o \in OrderRow
            BY <1>4 DEF MultiTypes
          <5>2. [order |-> o] \in OrderChange
            BY <5>1 DEF OrderChange
          <5>3. q[i] \in OrderChange
            BY <4>2, <5>2
          <5>4. q[1] \notin OrderChange
            BY <1>7, <2>2
          <5> QED BY <5>3, <5>4
        <4>4. i - 1 \in 1..Len(p) /\ p[i - 1] = [order |-> o]
          BY <1>8, <4>2, <4>3
        <4> QED BY <4>1, <4>4
      <3>3. WaitIn(m, p, orderRows[m], orderRows[n])
        BY <3>1, <3>2 DEF WaitIn
      <3>4. /\ orderRows'[n] = orderRows[n] /\ orderRows'[m] = orderRows[m]
            /\ slot'[n] = slot[n] /\ slot'[m] = p
        BY <1>10, <2>4
      <3> QED BY <1>1, <1>11, <1>12, <3>3, <3>4 DEF OrdersWait
    <2>11. VersionsSoFar'
      <3>1. ASSUME NEW i \in 1..Len(p), p[i] \in AccountChange
            PROVE  p[i].account.by = m /\ p[i].account.tick <= clock
        BY <1>2, <1>8, <3>1 DEF MultiInv, VersionsSoFar
      <3>2. v.tick <= clock
        BY <1>2, <1>7, <1>14, <2>1 DEF MultiInv, VersionsSoFar
      <3>3. account[n].tick <= clock /\ account[m].tick <= clock
        BY DEF MultiInv, VersionsSoFar
      <3>4. a.tick <= clock
        BY <2>7, <3>2, <3>3
      <3>5. ASSUME NEW i \in 1..Len(slot[n]), slot[n][i] \in AccountChange
            PROVE  slot[n][i].account.by = n /\ slot[n][i].account.tick <= clock
        BY <3>5 DEF MultiInv, VersionsSoFar
      <3> QED BY <1>9, <1>10, <1>11, <2>6, <3>1, <3>3, <3>4, <3>5 DEF VersionsSoFar
    <2>12. OwnIsKnown'
      <3>1. v.by = m
        BY <1>2, <1>7, <1>14, <2>1 DEF MultiInv, VersionsSoFar
      <3>2. ASSUME account[m].by = m PROVE LastWaits(m)'
        <4>1. LastWaits(m)
          BY <3>2 DEF MultiInv, OwnIsKnown
        <4>5. q[1] \notin OrderChange /\ 1 \in 1..Len(q)
          BY <1>7, <2>2
        <4>6. \/ \E i \in 1..Len(q) : /\ q[i] = [account |-> account[m]]
                                      /\ \A j \in i + 1..Len(q) : q[j] \in OrderChange
              \/ \A i \in 1..Len(q) : q[i] \in OrderChange
          BY <1>2, <4>1 DEF LastWaits
        <4>2. PICK i \in 1..Len(q) : /\ q[i] = [account |-> account[m]]
                                     /\ \A j \in i + 1..Len(q) : q[j] \in OrderChange
          BY <4>5, <4>6
        <4>3. CASE i = 1
          <5>1. v = account[m]
            <6>1. PICK d : d = [account |-> account[m]]
              OBVIOUS
            <6>2. d.account = account[m]
              BY <6>1
            <6> QED BY <1>7, <2>1, <4>2, <4>3, <6>1, <6>2
          <5>2. ~Multi!Older(a, account[m])
            BY <2>5, <2>7, <5>1, OlderIsAnOrder
          <5>3. \A j \in 1..Len(p) : p[j] \in OrderChange
            <6> SUFFICES ASSUME NEW j \in 1..Len(p) PROVE p[j] \in OrderChange
              OBVIOUS
            <6>1. j + 1 \in 1 + 1..Len(q)
              BY <1>6, <1>7
            <6> QED BY <1>8, <4>2, <4>3, <6>1
          <5> QED BY <1>1, <1>10, <2>6, <5>2, <5>3 DEF LastWaits
        <4>4. CASE i # 1
          <5>1. i - 1 \in 1..Len(p) /\ p[i - 1] = [account |-> account[m]]
            BY <1>8, <4>2, <4>4
          <5>2. ASSUME NEW j \in i - 1 + 1..Len(p) PROVE p[j] \in OrderChange
            <6>1. j \in 1..Len(p) /\ j + 1 \in i + 1..Len(q)
              BY <1>6, <1>7, <4>2
            <6> QED BY <1>8, <4>2, <6>1
          <5> QED BY <1>10, <2>6, <5>1, <5>2 DEF LastWaits
        <4> QED BY <4>3, <4>4
      <3>3. ASSUME a.by = n PROVE LastWaits(n)'
        <4>1. a = account[n] /\ account[n].by = n
          BY <1>1, <2>7, <3>1, <3>3
        <4>2. LastWaits(n)
          BY <4>1 DEF MultiInv, OwnIsKnown
        <4> QED BY <1>1, <1>10, <2>6, <4>1, <4>2 DEF LastWaits
      <3> QED BY <1>11, <2>6, <3>2, <3>3 DEF OwnIsKnown
    <2>13. NewerOnItsWay'
      <3> SUFFICES ASSUME ~crossed' PROVE NewerOnItsWay'
        BY DEF NewerOnItsWay
      <3>1. ~crossed /\ ~(n \notin guard /\ Multi!Older(v, account[n]))
        BY Zenon, <2>4
      <3>2. ~Multi!Older(a, account[n]) /\ ~Multi!Older(a, v)
        BY <2>2, <2>3, <2>5, <2>7, <3>1, OlderIsAnOrder DEF Multi!Accepts
      <3>3. /\ \A i \in 1..Len(q) : q[i] \in AccountChange => ~Multi!Older(account[m], q[i].account)
            /\ Multi!Older(account[n], account[m]) =>
                 \E i \in 1..Len(q) : q[i] = [account |-> account[m]]
        BY <1>1, <1>2, <3>1 DEF MultiInv, NewerOnItsWay
      <3>4. /\ \A i \in 1..Len(slot[n]) : slot[n][i] \in AccountChange =>
                 ~Multi!Older(account[n], slot[n][i].account)
            /\ Multi!Older(account[m], account[n]) =>
                 \E i \in 1..Len(slot[n]) : slot[n][i] = [account |-> account[n]]
        BY <1>1, <3>1 DEF MultiInv, NewerOnItsWay
      <3>5. ASSUME NEW i \in 1..Len(p), p[i] \in AccountChange
            PROVE  ~Multi!Older(account[m], p[i].account)
        <4>1. i + 1 \in 1..Len(q) /\ p[i] = q[i + 1]
          BY <1>8
        <4> QED BY <3>3, <3>5, <4>1
      <3>6. ASSUME Multi!Older(a, account[m])
            PROVE  \E i \in 1..Len(p) : p[i] = [account |-> account[m]]
        <4>1. Multi!Older(account[n], account[m])
          BY <2>5, <3>2, <3>6, OlderIsAnOrder
        <4>2. PICK i \in 1..Len(q) : q[i] = [account |-> account[m]]
          BY <3>3, <4>1
        <4>3. v # account[m]
          BY <3>2, <3>6
        <4>4. i # 1
          <5>1. PICK d : d = [account |-> account[m]]
            OBVIOUS
          <5>2. d.account = account[m]
            BY <5>1
          <5>3. q[i] = d
            BY <4>2, <5>1
          <5>4. q[1].account = v
            BY <1>7, <2>1
          <5> QED BY <4>3, <5>2, <5>3, <5>4
        <4>5. i - 1 \in 1..Len(p) /\ p[i - 1] = q[i]
          BY <1>8, <4>4
        <4> QED BY <4>2, <4>5
      <3>7. ASSUME NEW i \in 1..Len(slot[n]), slot[n][i] \in AccountChange
            PROVE  ~Multi!Older(a, slot[n][i].account)
        <4>1. slot[n][i].account \in Version
          BY <3>7, Kinds
        <4>2. ~Multi!Older(account[n], slot[n][i].account)
          BY <3>4, <3>7
        <4> QED BY <2>5, <3>2, <4>1, <4>2, OlderIsAnOrder
      <3>8. Multi!Older(account[m], a) =>
              \E i \in 1..Len(slot[n]) : slot[n][i] = [account |-> a]
        <4>1. ~Multi!Older(account[m], v)
          BY <1>7, <1>14, <2>1, <3>3
        <4> QED BY <2>7, <3>4, <4>1
      <3> QED BY <1>1, <1>10, <1>11, <2>6, <3>5, <3>6, <3>7, <3>8 DEF NewerOnItsWay
    <2> QED BY <2>8, <2>9, <2>10, <2>11, <2>12, <2>13 DEF MultiInv
  <1> QED BY <1>6, <1>13, <1>14

LEMMA SwitchSteps ==
  ASSUME MultiInv, NEW n \in Multi!Node,
         Multi!Enable(n) \/ Multi!Disable(n) \/ Multi!EnableGuard(n)
  PROVE  MultiInv'
  <1>1. /\ account' = account /\ orderRows' = orderRows /\ slot' = slot /\ given' = given
        /\ clock' = clock /\ crossed' = crossed
    BY DEF Multi!Enable, Multi!Disable, Multi!EnableGuard
  <1>2. enabled' \subseteq Multi!Node /\ guard' \subseteq Multi!Node
    BY DEF Multi!Enable, Multi!Disable, Multi!EnableGuard, MultiInv, MultiTypes
  <1>3. MultiTypes'
    <2>1. crossed' \in BOOLEAN
      BY Zenon, <1>1 DEF MultiInv, MultiTypes
    <2> QED BY <1>1, <1>2, <2>1 DEF MultiInv, MultiTypes
  <1>4. Numbered' /\ OrdersWait' /\ VersionsSoFar'
    BY <1>1 DEF MultiInv, Numbered, OrdersWait, VersionsSoFar
  <1>5. OwnIsKnown' /\ NewerOnItsWay'
    BY <1>1 DEF MultiInv, OwnIsKnown, LastWaits, NewerOnItsWay
  <1> QED BY <1>3, <1>4, <1>5 DEF MultiInv

LEMMA MultiStep == MultiInv /\ [Next]_vars => MultiInv'
  <1> SUFFICES ASSUME MultiInv, [Next]_vars PROVE MultiInv'
    OBVIOUS
  <1>1. CASE UNCHANGED multiVars
    <2>1. MultiTypes' /\ Numbered'
      BY <1>1 DEF multiVars, MultiInv, MultiTypes, Numbered
    <2>2. OrdersWait' /\ VersionsSoFar' /\ OwnIsKnown' /\ NewerOnItsWay'
      BY <1>1 DEF multiVars, MultiInv, OrdersWait, VersionsSoFar, OwnIsKnown, LastWaits,
         NewerOnItsWay
    <2> QED BY <2>1, <2>2 DEF MultiInv
  <1>2. CASE Multi!Next
    BY <1>2, InsertOrderStep, UpdateAccountStep, ApplyStep, SwitchSteps DEF Multi!Next
  <1> QED BY <1>1, <1>2, MultiSteps

LEMMA MultiAgrees == MultiInv => Multi!NodesAgree
  <1> SUFFICES ASSUME MultiInv PROVE Multi!NodesAgree
    OBVIOUS
  <1> USE Nodes
  <1>1. ASSUME Multi!Drained PROVE orderRows[1] = orderRows[2]
    <2>1. \A n \in Multi!Node : 1..Len(slot[n]) = {}
      BY <1>1 DEF Multi!Drained
    <2>2. \A n \in Multi!Node : orderRows[n] \subseteq orderRows[Multi!Peer(n)]
      BY <2>1 DEF MultiInv, OrdersWait, WaitIn
    <2> QED BY <2>2
  <1>2. ASSUME Multi!Drained, ~crossed PROVE account[1] = account[2]
    <2>1. \A n \in Multi!Node : 1..Len(slot[n]) = {}
      BY <1>2 DEF Multi!Drained
    <2>2. ~Multi!Older(account[1], account[2]) /\ ~Multi!Older(account[2], account[1])
      BY <1>2, <2>1 DEF MultiInv, NewerOnItsWay
    <2>3. account[1] \in Version /\ account[2] \in Version
      BY DEF MultiInv, MultiTypes
    <2> QED BY <2>2, <2>3, OlderIsAnOrder
  <1>3. ASSUME NEW n \in Multi!Node, NEW i \in DOMAIN slot[Multi!Peer(n)],
               "order" \in DOMAIN slot[Multi!Peer(n)][i], NEW o \in orderRows[n]
        PROVE  o.id # slot[Multi!Peer(n)][i].order.id
    <2>1. PICK m \in Multi!Node : m = Multi!Peer(n) /\ n = Multi!Peer(m) /\ m # n
      OBVIOUS
    <2>2. slot[m] \in Seq(OrderChange \cup AccountChange)
      BY DEF MultiInv, MultiTypes
    <2>3. i \in 1..Len(slot[m]) /\ slot[m][i] \in OrderChange \cup AccountChange
      BY <2>1, <2>2
    <2>4. slot[m][i] \in OrderChange
      BY <1>3, <2>1, <2>3, Kinds
    <2>5. PICK w : w = slot[m][i].order
      OBVIOUS
    <2>6. w \in orderRows[m] \ orderRows[n] /\ w.by = m
      BY <2>1, <2>3, <2>4, <2>5 DEF MultiInv, OrdersWait, WaitIn
    <2>7. w \in OrderRow /\ o \in OrderRow
      BY <2>6 DEF MultiInv, MultiTypes
    <2>8. PICK k \in Nat : w.id = w.by + 10 * k
      BY <2>6 DEF MultiInv, Numbered
    <2>9. PICK l \in Nat : o.id = o.by + 10 * l
      BY DEF MultiInv, Numbered
    <2>10. CASE o.by = w.by
      <3>1. o # w
        BY <2>6
      <3>2. \A x, y \in OrderRow : x.id = y.id /\ x.by = y.by => x = y
        BY DEF OrderRow
      <3>3. o.id # w.id
        BY <2>7, <2>10, <3>1, <3>2
      <3> QED BY <2>1, <2>5, <3>3
    <2>11. CASE o.by # w.by
      <3>1. o.by \in {1, 2} /\ w.by \in {1, 2}
        BY <2>7 DEF OrderRow
      <3>2. o.by + 10 * l # w.by + 10 * k
        BY <2>11, <3>1
      <3> QED BY <2>1, <2>5, <2>8, <2>9, <3>2
    <2> QED BY <2>10, <2>11
  <1>4. Multi!Drained => orderRows[1] = orderRows[2] /\ (crossed \/ account[1] = account[2])
    BY <1>1, <1>2
  <1> QED BY <1>3, <1>4 DEF Multi!NodesAgree

\* NodesAgree: of multi_primary_replication, however the two nodes' updates and the cuts of
\* their link interleave: with every change delivered they have the same orders and - unless
\* a node without the trigger accounts_lww took an older version for a newer one - the same
\* account; and no order is on its way to a node where its id is taken, on which the apply
\* worker would fail for ever.
THEOREM PrimariesAgree == SafeSpec => []NodesAgree
  <1>1. MultiInv => NodesAgree
    BY MultiAgrees DEF NodesAgree
  <1> QED BY <1>1, MultiInit, MultiStep, PTL DEF SafeSpec

(***************************************************************************)
(* The types of all programs.                                              *)
(***************************************************************************)
LEMMA TotalsTyped == TotalsInv => Totals!TypeOK
  <1> SUFFICES ASSUME TotalsInv PROVE Totals!TypeOK
    OBVIOUS
  <1>1. TotalsTypes /\ \A s, x \in Session : Busy(s, "renamed") /\ Busy(x, "renamed") => s = x
    BY DEF TotalsInv, RenameSees
  <1>2. \A s, x \in Totals!At("renamed") : s = x
    BY <1>1 DEF Totals!At, Busy
  <1>3. Totals!At("renamed") \subseteq Session
    BY DEF Totals!At
  <1>4. ASSUME Totals!At("renamed") # {}
        PROVE  \E s \in Session : Totals!At("renamed") = {s}
    <2>1. PICK s \in Totals!At("renamed") : TRUE
      BY <1>4
    <2> QED BY <1>2, <1>3, <2>1
  <1> QED BY <1>1, <1>4 DEF TotalsTypes, Totals!TypeOK

LEMMA MultiTyped == MultiInv => Multi!TypeOK
  <1> SUFFICES ASSUME MultiInv PROVE Multi!TypeOK
    OBVIOUS
  <1>1. MultiTypes
    BY DEF MultiInv
  <1>2. ASSUME NEW n \in Multi!Node
        PROVE  account[n].tick \in 0..clock /\ account[n].by \in Multi!Node /\ given[n] \in 0..MaxOrders
    <2>1. account[n] \in Version /\ account[n].tick <= clock
      BY <1>1, <1>2 DEF MultiTypes, MultiInv, VersionsSoFar
    <2> QED BY <1>1, <2>1, MultiBounds DEF MultiTypes, Version
  <1>3. ASSUME NEW n \in Multi!Node PROVE Multi!Own(n)
    <2>0. DOMAIN slot[n] = 1..Len(slot[n])
      BY <1>1 DEF MultiTypes
    <2> SUFFICES ASSUME NEW i \in 1..Len(slot[n])
                 PROVE  IF "order" \in DOMAIN slot[n][i] THEN slot[n][i].order.by = n
                                                      ELSE slot[n][i].account.by = n
      BY Zenon, <2>0 DEF Multi!Own
    <2>1. slot[n][i] \in OrderChange \cup AccountChange
      BY <1>1 DEF MultiTypes
    <2>2. ASSUME slot[n][i] \in OrderChange PROVE slot[n][i].order.by = n
      BY <2>2 DEF MultiInv, OrdersWait, WaitIn
    <2>3. ASSUME slot[n][i] \in AccountChange PROVE slot[n][i].account.by = n
      BY <2>3 DEF MultiInv, VersionsSoFar
    <2> QED BY <2>1, <2>2, <2>3, Kinds
  <1> QED BY <1>1, <1>2, <1>3 DEF MultiTypes, Multi!TypeOK

\* TypeOK: of every program of MCCopies, the variables stay in their ranges and related as
\* its module says - a replica replays no more than it received, a standby's stages are in
\* order, a merge starts at or below the watermark, one rename runs at a time, a slot holds
\* changes of its own node.
THEOREM CopiesTyped == SafeSpec => []TypeOK
  <1> DEFINE AllInv == /\ CacheInv /\ SalesInv /\ TotalsInv /\ RoutingInv /\ SyncInv
                       /\ FailoverInv /\ MultiInv /\ StandbyInv /\ BalancerInv
  <1>1. Init => AllInv
    BY CacheInit, SalesInit, TotalsInit, RoutingInit, SyncInit, FailoverInit, MultiInit,
       StandbyInit, BalancerInit
  <1>2. AllInv /\ [Next]_vars => AllInv'
    BY CacheStep, SalesStep, TotalsStep, RoutingStep, SyncStep, FailoverStep, MultiStep,
       StandbyStep, BalancerStep
  <1>3. AllInv => TypeOK
    BY TotalsTyped, MultiTyped
       DEF TypeOK, CacheInv, SalesInv, SalesTypes, RoutingInv, RoutingTypes, SyncInv, SyncTypes,
           FailoverInv, FailoverTypes, StandbyInv, StandbyTypes, BalancerInv, BalancerTypes
  <1> QED BY <1>1, <1>2, <1>3, PTL DEF SafeSpec
=============================================================================
