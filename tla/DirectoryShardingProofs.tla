----------------------- MODULE DirectoryShardingProofs -----------------------
(***************************************************************************)
(* Theorems about DirectorySharding, for any tenants, shards and routers.   *)
(***************************************************************************)
EXTENDS DirectorySharding, TLAPS

(***************************************************************************)
(* Lemmas about the helpers of the actions.                                *)
(***************************************************************************)
LEMMA EndType ==
  ASSUME CallsOK, NEW r \in Router, NEW l \in {"idle", "dead"}, End(r, l)
  PROVE  CallsOK'
  BY DEF CallsOK, End, Goto, Writing, Onboarding, Moving, Fencing

LEMMA RememberType ==
  ASSUME TypeOK, NEW r \in Router, NEW t \in Tenant, Remember(r, t)
  PROVE  CacheOK'
  <1>1. CASE cache[r][t] = NoEntry /\ Active(t)
    <2>1. directory[t] \in Entry
      BY <1>1 DEF TypeOK, TablesOK, Active
    <2>2. [shard |-> directory[t].shard, version |-> directory[t].version] \in CacheEntry
      BY <2>1 DEF Entry, CacheEntry
    <2> QED BY <1>1, <2>2 DEF Remember, TypeOK, CacheOK
  <1>2. CASE ~(cache[r][t] = NoEntry /\ Active(t))
    BY <1>2 DEF Remember, TypeOK, CacheOK
  <1> QED BY <1>1, <1>2

LEMMA ForgetType ==
  ASSUME CacheOK, NEW r \in Router, NEW t \in Tenant, Forget(r, t)
  PROVE  CacheOK'
  BY DEF CacheOK, Forget

LEMMA RowsType == ASSUME TablesOK, NEW s \in Shard, NEW t
                  PROVE  RowsOf(s, t) \subseteq orders[s] /\ RowsOf(s, t) \subseteq Order
  BY DEF TablesOK, RowsOf

LEMMA TypeInit == Init => TypeOK
  BY DirectoryAssumption
  DEF DirectoryAssumption, Init, TypeOK, TablesOK, CacheOK, CallsOK, Writing, Onboarding,
      Moving, Fencing

(***************************************************************************)
(* Every step keeps the types.                                             *)
(***************************************************************************)
LEMMA InsertStepType == ASSUME TypeOK, NEW r \in Router, InsertStep(r) PROVE TypeOK'
  <1> USE DEF databases, registers
  <1> DEFINE Labels == {"idle", "dead"} \cup Writing \cup Onboarding \cup Moving
  <1>1. CASE Lookup(r)
    <2>1. ten[r] \in Tenant /\ pc[r] = "lookup"
      BY <1>1 DEF Lookup, TypeOK, CallsOK
    <2>2. TablesOK' /\ CacheOK'
      BY <1>1, <2>1, RememberType DEF Lookup, TypeOK, TablesOK
    <2>3. at'[r] \in Shard
      BY <1>1, <2>1 DEF Lookup, TypeOK, TablesOK, CacheOK, CallsOK, Entry, CacheEntry
    <2>4. at' \in [Router -> Shard \cup {None}] /\ \A q \in Router : q # r => at'[q] = at[q]
      BY <1>1, <2>1, <2>3 DEF Lookup, TypeOK, CallsOK
    <2>5. CallsOK'
      BY <1>1, <2>1, <2>3, <2>4
      DEF Lookup, TypeOK, CallsOK, Goto, Writing, Onboarding, Moving, Fencing
    <2> QED BY <2>2, <2>5 DEF TypeOK
  <1>2. CASE LookupUnknown(r)
    BY <1>2, EndType DEF LookupUnknown, TypeOK, TablesOK, CacheOK
  <1>3. CASE StartInsert(r)
    <2>1. TablesOK' /\ CacheOK'
      BY <1>3 DEF StartInsert, TypeOK, TablesOK, CacheOK
    <2>2. at[r] \in Shard
      BY <1>3 DEF StartInsert, TypeOK, CallsOK
    <2>3. {o.id : o \in RowsOf(at[r], ten[r])} \subseteq Nat
      BY <2>2, RowsType DEF TypeOK, Order
    <2>4. top' \in [Router -> Nat]
      BY <1>3, <2>3 DEF StartInsert, TypeOK, CallsOK
    <2>5. CallsOK'
      BY <1>3, <2>4
      DEF StartInsert, TypeOK, CallsOK, Goto, Writing, Onboarding, Moving, Fencing
    <2> QED BY <2>1, <2>5 DEF TypeOK
  <1>4. CASE WakeAfterRollback(r)
    BY <1>4 DEF WakeAfterRollback, TypeOK, TablesOK, CacheOK, CallsOK, Goto, Writing,
                Onboarding, Moving, Fencing
  <1>5. CASE CommitInsert(r)
    <2>1. ten[r] \in Tenant /\ at[r] \in Shard /\ top[r] \in Nat /\ placed[ten[r]] \in Nat
      BY <1>5 DEF CommitInsert, TypeOK, TablesOK, CallsOK
    <2>2. [tenant |-> ten[r], id |-> top[r] + 1, no |-> placed[ten[r]] + 1] \in Order
      BY <2>1 DEF Order
    <2>3. TablesOK'
      BY <1>5, <2>1, <2>2 DEF CommitInsert, TypeOK, TablesOK
    <2> QED BY <1>5, <2>3, EndType DEF CommitInsert, TypeOK, CacheOK
  <1>6. CASE InsertConflict(r)
    BY <1>6, EndType DEF InsertConflict, TypeOK, TablesOK, CacheOK
  <1>7. CASE Retry(r)
    <2>1. ten[r] \in Tenant
      BY <1>7 DEF Retry, TypeOK, CallsOK
    <2>2. CallsOK'
      BY <1>7 DEF Retry, TypeOK, CallsOK, Goto, Writing, Onboarding, Moving, Fencing
    <2> QED BY <1>7, <2>1, <2>2, ForgetType DEF Retry, TypeOK, TablesOK
  <1>8. CASE GiveUp(r)
    <2>1. ten[r] \in Tenant
      BY <1>8 DEF GiveUp, TypeOK, CallsOK
    <2> QED BY <1>8, <2>1, EndType, ForgetType DEF GiveUp, TypeOK, TablesOK
  <1> QED BY <1>1, <1>2, <1>3, <1>4, <1>5, <1>6, <1>7, <1>8 DEF InsertStep

LEMMA OnboardStepType == ASSUME TypeOK, NEW r \in Router, OnboardStep(r) PROVE TypeOK'
  <1> USE DEF databases, registers
  <1>1. CASE HostTenant(r)
    BY <1>1 DEF HostTenant, TypeOK, TablesOK, CacheOK, CallsOK, Goto, Writing, Onboarding,
                Moving, Fencing
  <1>2. CASE HostConflict(r)
    BY <1>2, EndType DEF HostConflict, TypeOK, TablesOK, CacheOK
  <1>3. CASE EnrollTenant(r)
    <2>1. ten[r] \in Tenant /\ tgt[r] \in Shard
      BY <1>3 DEF EnrollTenant, TypeOK, CallsOK, Onboarding
    <2>2. [shard |-> tgt[r], version |-> 1, status |-> "active"] \in Entry
      BY <2>1 DEF Entry
    <2>3. TablesOK'
      BY <1>3, <2>1, <2>2 DEF EnrollTenant, TypeOK, TablesOK
    <2> QED BY <1>3, <2>3, EndType DEF EnrollTenant, TypeOK, CacheOK
  <1> QED BY <1>1, <1>2, <1>3 DEF OnboardStep

LEMMA MoveStepType ==
  ASSUME TypeOK, MoverMarked, NEW r \in Router, MoveStep(r) PROVE TypeOK'
  <1> USE DEF databases, registers
  <1>1. CASE FenceSource(r)
    BY <1>1 DEF FenceSource, TypeOK, TablesOK, CacheOK, CallsOK, Goto, Writing, Onboarding,
                Moving, Fencing
  <1>2. CASE ReadSource(r)
    <2>1. RowsOf(at[r], ten[r]) \subseteq Order
      BY <1>2, RowsType DEF ReadSource, TypeOK, CallsOK, Moving, Fencing
    <2> QED BY <1>2, <2>1 DEF ReadSource, TypeOK, TablesOK, CacheOK, CallsOK, Goto, Writing,
                              Onboarding, Moving, Fencing
  <1>3. CASE CopyToTarget(r)
    BY <1>3 DEF CopyToTarget, TypeOK, TablesOK, CacheOK, CallsOK, Goto, Writing, Onboarding,
                Moving, Fencing
  <1>4. CASE CopyFails(r)
    BY <1>4, EndType DEF CopyFails, TypeOK, TablesOK, CacheOK
  <1>5. CASE CommitSource(r)
    <2>1. TablesOK' /\ CacheOK'
      BY <1>5 DEF CommitSource, TypeOK, TablesOK, CacheOK
    <2>2. CallsOK'
      BY <1>5 DEF CommitSource, TypeOK, CallsOK, Writing, Onboarding, Moving, Fencing
    <2> QED BY <2>1, <2>2 DEF TypeOK
  <1>6. CASE FlipDirectory(r)
    <2>1. ten[r] \in Tenant /\ tgt[r] \in Shard /\ pc[r] \in Moving
      BY <1>6 DEF FlipDirectory, TypeOK, CallsOK, Moving
    <2>2. directory[ten[r]] \in Entry
      BY <2>1 DEF TypeOK, TablesOK, MoverMarked
    <2>3. [shard |-> tgt[r], version |-> directory[ten[r]].version + 1, status |-> "active"]
             \in Entry
      BY <2>1, <2>2 DEF Entry
    <2>4. TablesOK'
      BY <1>6, <2>1, <2>3 DEF FlipDirectory, TypeOK, TablesOK
    <2> QED BY <1>6, <2>1, <2>4, EndType, ForgetType DEF FlipDirectory, TypeOK
  <1> QED BY <1>1, <1>2, <1>3, <1>4, <1>5, <1>6 DEF MoveStep

LEMMA CallType ==
  ASSUME TypeOK, NEW r \in Router, NEW t \in Tenant, Call(r, t) PROVE TypeOK'
  <1> USE DEF databases, registers
  <1>1. CASE InsertOrders(r, t)
    BY <1>1 DEF InsertOrders, TypeOK, TablesOK, CacheOK, CallsOK, Goto, Writing, Onboarding,
                Moving, Fencing
  <1>2. CASE CountOrders(r, t)
    <2>1. TablesOK'
      BY <1>2 DEF CountOrders, TypeOK, TablesOK
    <2>2. CacheOK'
      BY <1>2, RememberType DEF CountOrders, TypeOK, CacheOK
    <2>3. CallsOK'
      BY <1>2, EndType DEF CountOrders, TypeOK, CallsOK
    <2> QED BY <2>1, <2>2, <2>3 DEF TypeOK
  <1>3. CASE Onboard(r, t)
    <2>1. TablesOK' /\ CacheOK'
      BY <1>3 DEF Onboard, TypeOK, TablesOK, CacheOK
    <2>2. CASE End(r, "dead")
      BY <2>1, <2>2, EndType DEF TypeOK
    <2>3. CASE ~End(r, "dead")
      BY <1>3, <2>1, <2>3 DEF Onboard, TypeOK, CallsOK, Goto, Writing, Onboarding, Moving,
                              Fencing
    <2> QED BY <2>2, <2>3
  <1>4. CASE MoveRefused(r, t)
    BY <1>4, EndType DEF MoveRefused, TypeOK, TablesOK, CacheOK
  <1>5. ASSUME NEW s \in Shard, MoveTenant(r, t, s) PROVE TypeOK'
    <2>1. directory[t] \in Entry
      BY <1>5 DEF MoveTenant, Active, TypeOK, TablesOK
    <2>2. directory[t].shard \in Shard /\ [directory[t] EXCEPT !.status = "moving"] \in Entry
      BY <2>1 DEF Entry
    <2>3. TablesOK'
      BY <1>5, <2>2 DEF MoveTenant, TypeOK, TablesOK
    <2>4. CallsOK'
      BY <1>5, <2>2 DEF MoveTenant, TypeOK, CallsOK, Goto, Writing, Onboarding, Moving, Fencing
    <2> QED BY <1>5, <2>3, <2>4 DEF MoveTenant, TypeOK, CacheOK
  <1> QED BY <1>1, <1>2, <1>3, <1>4, <1>5 DEF Call

LEMMA OtherStepType ==
  ASSUME TypeOK,
         \/ \E r \in Router : Crash(r) \/ NewRouter(r)
         \/ \E s \in Shard : RegisterShard(s) \/ CloseShard(s)
         \/ UNCHANGED vars
  PROVE  TypeOK'
  <1> USE DEF databases, registers
  <1>1. ASSUME NEW r \in Router, Crash(r) PROVE TypeOK'
    BY <1>1, EndType DEF Crash, TypeOK, TablesOK, CacheOK
  <1>2. ASSUME NEW r \in Router, NewRouter(r) PROVE TypeOK'
    BY <1>2 DEF NewRouter, TypeOK, TablesOK, CacheOK, CallsOK, Goto, Writing, Onboarding,
                Moving, Fencing
  <1>3. ASSUME NEW s \in Shard, RegisterShard(s) \/ CloseShard(s) PROVE TypeOK'
    BY <1>3 DEF RegisterShard, CloseShard, TypeOK, TablesOK, CacheOK, CallsOK
  <1>4. CASE UNCHANGED vars
    BY <1>4 DEF vars, TypeOK, TablesOK, CacheOK, CallsOK
  <1> QED BY <1>1, <1>2, <1>3, <1>4

LEMMA TypeStep == TypeOK /\ MoverMarked /\ [Next]_vars => TypeOK'
  BY InsertStepType, OnboardStepType, MoveStepType, CallType, OtherStepType DEF Next

(***************************************************************************)
(* What each group of steps leaves alone.                                  *)
(***************************************************************************)
SameCall(q) ==
    /\ pc'[q] = pc[q] /\ ten'[q] = ten[q] /\ at'[q] = at[q]
    /\ tgt'[q] = tgt[q] /\ batch'[q] = batch[q]

EndsCall(r) == pc'[r] \in {"idle", "dead"} /\ ten'[r] = None /\ at'[r] = None /\ tgt'[r] = None

LEMMA RegisterTypes ==
  ASSUME TypeOK, NEW q \in Router
  PROVE  /\ pc[q] \in {"send", "wait", "locked", "fenced"} \cup Moving => at[q] \in Shard
         /\ pc[q] \in Onboarding \cup Moving => tgt[q] \in Shard
         /\ pc[q] \in Writing \cup Onboarding \cup Moving => ten[q] \in Tenant
  BY DEF TypeOK, CallsOK, Writing, Onboarding, Moving, Fencing

LEMMA EndFrame ==
  ASSUME CallsOK, NEW r \in Router, NEW l \in {"idle", "dead"}, End(r, l)
  PROVE  EndsCall(r) /\ \A q \in Router : q # r => SameCall(q)
  BY DEF End, Goto, EndsCall, SameCall, CallsOK

LEMMA InsertFrame ==
  ASSUME TypeOK, NEW r \in Router, InsertStep(r)
  PROVE  /\ UNCHANGED <<shards, directory, hosted>>
         /\ pc[r] \in Writing /\ pc'[r] \in Writing \cup {"idle", "dead"}
         /\ pc'[r] \in Writing => ten'[r] = ten[r]
         /\ \A q \in Router : q # r => SameCall(q)
  <1> USE DEF databases, registers, TypeOK
  <1>1. CASE Lookup(r)
    BY <1>1 DEF Lookup, CallsOK, Goto, SameCall, Writing
  <1>2. CASE LookupUnknown(r)
    BY <1>2, EndFrame DEF LookupUnknown, EndsCall, Writing
  <1>3. CASE StartInsert(r)
    BY <1>3 DEF StartInsert, CallsOK, Goto, SameCall, Writing
  <1>4. CASE WakeAfterRollback(r)
    BY <1>4 DEF WakeAfterRollback, CallsOK, Goto, SameCall, Writing
  <1>5. CASE CommitInsert(r) \/ InsertConflict(r) \/ GiveUp(r)
    BY <1>5, EndFrame DEF CommitInsert, InsertConflict, GiveUp, EndsCall, Writing
  <1>6. CASE Retry(r)
    BY <1>6 DEF Retry, CallsOK, Goto, SameCall, Writing
  <1> QED BY <1>1, <1>2, <1>3, <1>4, <1>5, <1>6 DEF InsertStep

LEMMA OnboardFrame ==
  ASSUME TypeOK, NEW r \in Router, OnboardStep(r)
  PROVE  /\ UNCHANGED <<shards, orders, cache, placed>>
         /\ pc[r] \in Onboarding
         /\ \/ EndsCall(r)
            \/ pc'[r] = "enroll" /\ ten'[r] = ten[r] /\ tgt'[r] = tgt[r]
         /\ \A q \in Router : q # r => SameCall(q)
  <1> USE DEF databases, registers, TypeOK
  <1>1. CASE HostTenant(r)
    BY <1>1 DEF HostTenant, CallsOK, Goto, SameCall, Onboarding
  <1>2. CASE HostConflict(r) \/ EnrollTenant(r)
    BY <1>2, EndFrame DEF HostConflict, EnrollTenant, EndsCall, Onboarding
  <1> QED BY <1>1, <1>2 DEF OnboardStep

\* A mover leaves the calls of others alone, except that its commit wakes the
\* writers that wait for it.
LEMMA MoveFrame ==
  ASSUME TypeOK, NEW r \in Router, MoveStep(r)
  PROVE  /\ pc[r] \in Moving
         /\ EndsCall(r) \/ /\ pc'[r] \in Moving \ {"begin"}
                           /\ ten'[r] = ten[r] /\ at'[r] = at[r] /\ tgt'[r] = tgt[r]
         /\ pc'[r] \in Moving => directory' = directory
         /\ \A q \in Router : q # r =>
              \/ SameCall(q)
              \/ /\ CommitSource(r) /\ pc[q] = "wait" /\ pc'[q] = "fenced"
                 /\ at[q] = at[r] /\ ten[q] = ten[r]
                 /\ ten'[q] = ten[q] /\ at'[q] = at[q] /\ tgt'[q] = tgt[q] /\ batch'[q] = batch[q]
  <1> USE DEF databases, registers, TypeOK
  <1>1. CASE FenceSource(r)
    BY <1>1 DEF FenceSource, CallsOK, Goto, SameCall, Moving, Fencing
  <1>2. CASE ReadSource(r)
    BY <1>2 DEF ReadSource, CallsOK, Goto, SameCall, Moving, Fencing
  <1>3. CASE CopyToTarget(r)
    BY <1>3 DEF CopyToTarget, CallsOK, Goto, SameCall, Moving, Fencing
  <1>4. CASE CopyFails(r)
    BY <1>4, EndFrame DEF CopyFails, EndsCall, Moving, Fencing
  <1>5. CASE CommitSource(r)
    <2>1. pc[r] = "commit" /\ pc'[r] = "flip" /\ UNCHANGED <<directory, ten, at, tgt, batch>>
      BY <1>5 DEF CommitSource
    <2>2. ASSUME NEW q \in Router, q # r
          PROVE  \/ pc'[q] = pc[q]
                 \/ pc[q] = "wait" /\ pc'[q] = "fenced" /\ at[q] = at[r] /\ ten[q] = ten[r]
      BY <1>5, <2>2 DEF CommitSource
    <2> QED BY <1>5, <2>1, <2>2 DEF SameCall, Moving, Fencing
  <1>6. CASE FlipDirectory(r)
    BY <1>6, EndFrame DEF FlipDirectory, EndsCall, Moving, Fencing
  <1> QED BY <1>1, <1>2, <1>3, <1>4, <1>5, <1>6 DEF MoveStep

LEMMA CallFrame ==
  ASSUME TypeOK, NEW r \in Router, NEW t \in Tenant, Call(r, t)
  PROVE  /\ UNCHANGED <<shards, hosted, orders, placed>>
         /\ pc[r] = "idle"
         /\ \/ directory' = directory /\ SameCall(r)
            \/ directory' = directory /\ EndsCall(r)
            \/ directory' = directory /\ pc'[r] \in {"lookup"} /\ ten'[r] = t /\ at'[r] = at[r]
            \/ directory' = directory /\ pc'[r] = "host" /\ ten'[r] = t /\ Onboard(r, t)
            \/ pc'[r] = "begin" /\ \E s \in Shard : MoveTenant(r, t, s)
         /\ \A q \in Router : q # r => SameCall(q)
  <1> USE DEF databases, registers, TypeOK
  <1>1. CASE InsertOrders(r, t)
    BY <1>1 DEF InsertOrders, CallsOK, Goto, SameCall
  <1>2. CASE CountOrders(r, t) \/ MoveRefused(r, t)
    BY <1>2, EndFrame DEF CountOrders, MoveRefused, SameCall
  <1>3. CASE Onboard(r, t)
    <2>1. CASE End(r, "dead")
      BY <1>3, <2>1, EndFrame DEF Onboard
    <2>2. CASE ~End(r, "dead")
      BY <1>3, <2>2 DEF Onboard, CallsOK, Goto, SameCall
    <2> QED BY <2>1, <2>2
  <1>4. ASSUME NEW s \in Shard, MoveTenant(r, t, s)
        PROVE  /\ UNCHANGED <<shards, hosted, orders, placed>>
               /\ pc[r] = "idle" /\ pc'[r] = "begin"
               /\ \A q \in Router : q # r => SameCall(q)
    BY <1>4 DEF MoveTenant, CallsOK, Goto, SameCall
  <1> QED BY <1>1, <1>2, <1>3, <1>4 DEF Call

\* Steps that start or end a process or change the list of shards.
Environment ==
    \/ \E r \in Router : Crash(r) \/ NewRouter(r)
    \/ \E s \in Shard : RegisterShard(s) \/ CloseShard(s)
    \/ UNCHANGED vars

LEMMA EnvironmentFrame ==
  ASSUME TypeOK, Environment
  PROVE  /\ UNCHANGED <<directory, hosted, orders, placed>>
         /\ \A q \in Router : \/ SameCall(q)
                              \/ EndsCall(q)
                              \/ pc[q] = "dead" /\ pc'[q] = "idle" /\ ten'[q] = ten[q]
         /\ \A q \in Router, t \in Tenant : cache'[q][t] = cache[q][t] \/ cache'[q][t] = NoEntry
  <1> USE DEF databases, registers, TypeOK
  <1>1. ASSUME NEW r \in Router, Crash(r)
        PROVE  /\ UNCHANGED <<directory, hosted, orders, placed, cache>>
               /\ \A q \in Router : SameCall(q) \/ EndsCall(q)
    BY <1>1, EndFrame DEF Crash
  <1>2. ASSUME NEW r \in Router, NewRouter(r)
        PROVE  /\ UNCHANGED <<directory, hosted, orders, placed>>
               /\ \A q \in Router :
                     \/ SameCall(q)
                     \/ pc[q] = "dead" /\ pc'[q] = "idle" /\ ten'[q] = ten[q]
               /\ \A q \in Router, t \in Tenant : cache'[q][t] = cache[q][t] \/ cache'[q][t] = NoEntry
    <2>1. UNCHANGED <<directory, hosted, orders, placed, registers>>
      BY <1>2 DEF NewRouter
    <2>2. \A q \in Router : pc'[q] = pc[q] \/ (pc[q] = "dead" /\ pc'[q] = "idle")
      BY <1>2 DEF NewRouter, CallsOK, Goto
    <2>3. \A q \in Router, t \in Tenant : cache'[q][t] = cache[q][t] \/ cache'[q][t] = NoEntry
      BY <1>2 DEF NewRouter, CacheOK
    <2> QED BY <2>1, <2>2, <2>3 DEF SameCall
  <1>3. ASSUME NEW s \in Shard, RegisterShard(s) \/ CloseShard(s)
        PROVE  UNCHANGED <<directory, hosted, orders, placed, cache>> /\ \A q \in Router : SameCall(q)
    BY <1>3 DEF RegisterShard, CloseShard, SameCall
  <1>4. CASE UNCHANGED vars
    BY <1>4 DEF vars, SameCall
  <1> QED BY <1>1, <1>2, <1>3, <1>4 DEF Environment

LEMMA StepCases ==
  ASSUME [Next]_vars
  PROVE  \/ \E r \in Router : InsertStep(r) \/ OnboardStep(r) \/ MoveStep(r)
         \/ \E r \in Router, t \in Tenant : Call(r, t)
         \/ Environment
  BY DEF Next, Environment

(***************************************************************************)
(* One mover per tenant, whose directory row is 'moving'.                  *)
(***************************************************************************)
LEMMA MoversStep ==
  ASSUME TypeOK, MoverExclusive, MoverMarked, [Next]_vars
  PROVE  MoverExclusive' /\ MoverMarked'
  <1> USE DEF MoverExclusive, MoverMarked, Writing, Onboarding, Moving, Fencing
  <1>1. ASSUME NEW r \in Router, InsertStep(r) PROVE MoverExclusive' /\ MoverMarked'
    BY <1>1, InsertFrame DEF SameCall
  <1>2. ASSUME NEW r \in Router, OnboardStep(r) PROVE MoverExclusive' /\ MoverMarked'
    <2>1. MoverExclusive'
      BY <1>2, OnboardFrame DEF SameCall, EndsCall
    <2>2. \A t \in Tenant : directory[t] # NoEntry => directory'[t] = directory[t]
      BY <1>2 DEF OnboardStep, HostTenant, HostConflict, EnrollTenant, databases, TypeOK, TablesOK
    <2>3. MoverMarked'
      BY <1>2, <2>2, OnboardFrame DEF SameCall, EndsCall, TypeOK, CallsOK
    <2> QED BY <2>1, <2>3
  <1>3. ASSUME NEW r \in Router, MoveStep(r) PROVE MoverExclusive' /\ MoverMarked'
    <2>1. MoverExclusive'
      BY <1>3, MoveFrame DEF SameCall, EndsCall
    <2>2. CASE pc'[r] \in Moving
      BY <1>3, <2>1, <2>2, MoveFrame DEF SameCall, EndsCall
    <2>3. CASE pc'[r] \notin Moving
      <3>1. \A t \in Tenant : t # ten[r] => directory'[t] = directory[t]
        BY <1>3, <2>3 DEF MoveStep, FenceSource, ReadSource, CopyToTarget, CopyFails, CommitSource,
           FlipDirectory, databases, TypeOK, TablesOK
      <3>2. MoverMarked'
        BY <1>3, <2>3, <3>1, MoveFrame DEF SameCall, EndsCall, TypeOK, CallsOK
      <3> QED BY <2>1, <3>2
    <2> QED BY <2>2, <2>3
  <1>4. ASSUME NEW r \in Router, NEW t \in Tenant, Call(r, t)
        PROVE  MoverExclusive' /\ MoverMarked'
    <2>1. CASE pc'[r] # "begin"
      BY <1>4, <2>1, CallFrame DEF SameCall, EndsCall
    <2>2. ASSUME NEW s \in Shard, MoveTenant(r, t, s) PROVE MoverExclusive' /\ MoverMarked'
      <3>1. Active(t) /\ directory[t] \in Entry
        BY <2>2 DEF MoveTenant, Active, TypeOK, TablesOK
      <3>2. \A q \in Router : pc[q] \in Moving => ten[q] # t
        BY <3>1 DEF Active
      <3>3. /\ ten'[r] = t /\ at'[r] = directory[t].shard
            /\ directory'[t] = [directory[t] EXCEPT !.status = "moving"]
            /\ \A u \in Tenant : u # t => directory'[u] = directory[u]
        BY <2>2 DEF MoveTenant, TypeOK, TablesOK, CallsOK
      <3>4. directory'[t].status = "moving" /\ directory'[t].shard = directory[t].shard
            /\ directory'[t] \in Entry
        BY <3>1, <3>3 DEF Entry
      <3>5. directory'[t] # NoEntry
        BY <3>4, DirectoryAssumption DEF DirectoryAssumption, Entry
      <3>6. \A q \in Router : q # r => SameCall(q)
        BY <1>4, CallFrame
      <3>7. MoverExclusive'
        BY <3>2, <3>3, <3>6 DEF SameCall
      <3>8. ASSUME NEW q \in Router, q # r, pc'[q] \in Moving
            PROVE  ten'[q] = ten[q] /\ directory'[ten[q]] = directory[ten[q]] /\ at'[q] = at[q]
                   /\ pc[q] \in Moving
        BY <3>2, <3>3, <3>6, <3>8 DEF SameCall, TypeOK, CallsOK
      <3>9. MoverMarked'
        <4> SUFFICES ASSUME NEW q \in Router, pc'[q] \in Moving
                     PROVE  /\ directory'[ten'[q]] # NoEntry
                            /\ directory'[ten'[q]].status = "moving"
                            /\ directory'[ten'[q]].shard = at'[q]
          BY DEF MoverMarked
        <4>1. CASE q = r
          BY <3>3, <3>4, <3>5, <4>1
        <4>2. CASE q # r
          BY <3>8, <4>2
        <4> QED BY <4>1, <4>2
      <3> QED BY <3>7, <3>9
    <2> QED BY <1>4, <2>1, <2>2, CallFrame DEF SameCall, EndsCall
  <1>5. CASE Environment
    BY <1>5, EnvironmentFrame DEF SameCall, EndsCall
  <1> QED BY <1>1, <1>2, <1>3, <1>4, <1>5, StepCases

LEMMA MoversInit == Init => MoverExclusive /\ MoverMarked
  BY DEF Init, MoverExclusive, MoverMarked, Moving, Fencing

\* Type correctness: the tables, the caches and the registers of every call keep
\* their types, and a statement is only sent to a shard that was routed to.  The
\* last UPDATE of MoveTenant needs that the row it changes exists.
THEOREM TypeCorrect == Spec => []TypeOK
  <1> DEFINE Inv == TypeOK /\ MoverExclusive /\ MoverMarked
  <1>1. Init => Inv
    BY TypeInit, MoversInit
  <1>2. Inv /\ [Next]_vars => Inv'
    BY TypeStep, MoversStep
  <1> QED BY <1>1, <1>2, PTL DEF Spec

(***************************************************************************)
(* Rows of hosted_tenants.                                                 *)
(***************************************************************************)
LEMMA OnboardingStep ==
  ASSUME TypeOK, MoverMarked, OnboardingIsNew, [Next]_vars
  PROVE  OnboardingIsNew'
  <1> USE DEF OnboardingIsNew, Writing, Onboarding, Moving, Fencing
  <1>1. ASSUME NEW r \in Router, InsertStep(r) PROVE OnboardingIsNew'
    BY <1>1, InsertFrame DEF SameCall
  <1>2. ASSUME NEW r \in Router, OnboardStep(r) PROVE OnboardingIsNew'
    <2>1. CASE EndsCall(r)
      <3>1. \A t \in Tenant : t # ten[r] => directory'[t] = directory[t]
        BY <1>2 DEF OnboardStep, HostTenant, HostConflict, EnrollTenant, databases, TypeOK, TablesOK
      <3> QED BY <1>2, <2>1, <3>1, OnboardFrame DEF SameCall, EndsCall, TypeOK, CallsOK
    <2>2. CASE ~EndsCall(r)
      <3>1. directory' = directory
        BY <1>2, <2>2, EndFrame
        DEF OnboardStep, HostTenant, HostConflict, EnrollTenant, databases, TypeOK
      <3> QED BY <1>2, <2>2, <3>1, OnboardFrame DEF SameCall
    <2> QED BY <2>1, <2>2
  <1>3. ASSUME NEW r \in Router, MoveStep(r) PROVE OnboardingIsNew'
    <2>1. \A t \in Tenant : directory[t] = NoEntry => directory'[t] = directory[t]
      BY <1>3 DEF MoveStep, FenceSource, ReadSource, CopyToTarget, CopyFails, CommitSource,
         FlipDirectory, databases, TypeOK, TablesOK, CallsOK, MoverMarked
    <2> QED BY <1>3, <2>1, MoveFrame DEF SameCall, EndsCall, TypeOK, CallsOK
  <1>4. ASSUME NEW r \in Router, NEW t \in Tenant, Call(r, t) PROVE OnboardingIsNew'
    <2>1. CASE Onboard(r, t) /\ pc'[r] = "host"
      <3>1. directory[t] = NoEntry /\ directory' = directory
            /\ \A q \in Router : pc[q] \in Onboarding => ten[q] # t
        BY <2>1 DEF Onboard, databases
      <3>2. ten'[r] = t /\ \A q \in Router : q # r => SameCall(q)
        BY <1>4, <2>1, CallFrame DEF SameCall, EndsCall
      <3> QED BY <3>1, <3>2 DEF SameCall
    <2>2. CASE pc'[r] = "begin"
      <3>1. \A u \in Tenant : directory[u] = NoEntry => directory'[u] = directory[u]
        BY <1>4, <2>2, CallFrame DEF MoveTenant, Active, TypeOK, TablesOK
      <3> QED BY <1>4, <2>2, <3>1, CallFrame DEF SameCall, TypeOK, CallsOK
    <2>3. CASE pc'[r] \notin {"host", "begin"}
      BY <1>4, <2>3, CallFrame DEF SameCall, EndsCall
    <2> QED BY <1>4, <2>1, <2>2, <2>3, CallFrame DEF SameCall, EndsCall
  <1>5. CASE Environment
    BY <1>5, EnvironmentFrame DEF SameCall, EndsCall
  <1> QED BY <1>1, <1>2, <1>3, <1>4, <1>5, StepCases

\* FOR SHARE against DELETE.
LEMMA FenceStep ==
  ASSUME TypeOK, MoverExclusive, FenceExcludesWriters, [Next]_vars
  PROVE  FenceExcludesWriters'
  <1> USE DEF FenceExcludesWriters, Writing, Onboarding, Moving, Fencing
  <1>1. ASSUME NEW r \in Router, InsertStep(r) PROVE FenceExcludesWriters'
    <2>1. CASE pc'[r] = "locked"
      <3>1. ~FenceHeld(at[r], ten[r]) /\ at'[r] = at[r] /\ ten'[r] = ten[r]
        BY <1>1, <2>1, EndFrame
        DEF InsertStep, Lookup, LookupUnknown, StartInsert, WakeAfterRollback, CommitInsert,
            InsertConflict, Retry, GiveUp, Goto, TypeOK, CallsOK, registers, EndsCall
      <3> QED BY <1>1, <2>1, <3>1, InsertFrame DEF FenceHeld, SameCall
    <2>2. CASE pc'[r] # "locked"
      BY <1>1, <2>2, InsertFrame DEF SameCall
    <2> QED BY <2>1, <2>2
  <1>2. ASSUME NEW r \in Router, OnboardStep(r) PROVE FenceExcludesWriters'
    BY <1>2, OnboardFrame DEF SameCall, EndsCall
  <1>3. ASSUME NEW r \in Router, MoveStep(r) PROVE FenceExcludesWriters'
    <2>1. CASE pc[r] = "begin"
      <3>1. pc'[r] \in Fencing => ~ShareHeld(at[r], ten[r])
        BY <1>3, <2>1, EndFrame
        DEF MoveStep, FenceSource, ReadSource, CopyToTarget, CopyFails, CommitSource, FlipDirectory
      <3> QED BY <1>3, <2>1, <3>1, MoveFrame DEF SameCall, EndsCall, ShareHeld
    <2>2. CASE pc[r] # "begin"
      <3>1. pc[r] \notin Fencing => pc'[r] \notin Fencing
        BY <1>3, <2>2, EndFrame DEF MoveStep, FenceSource, ReadSource, CopyToTarget, CopyFails,
           CommitSource, FlipDirectory, TypeOK, EndsCall
      <3> QED BY <1>3, <2>2, <3>1, MoveFrame DEF SameCall, EndsCall
    <2> QED BY <2>1, <2>2
  <1>4. ASSUME NEW r \in Router, NEW t \in Tenant, Call(r, t) PROVE FenceExcludesWriters'
    BY <1>4, CallFrame DEF SameCall, EndsCall
  <1>5. CASE Environment
    BY <1>5, EnvironmentFrame DEF SameCall, EndsCall
  <1> QED BY <1>1, <1>2, <1>3, <1>4, <1>5, StepCases

LEMMA HostedStep ==
  ASSUME TypeOK, MoverExclusive, MoverMarked, OnboardingIsNew, FenceExcludesWriters,
         CopyComplete, HostedWhenNeeded, [Next]_vars
  PROVE  HostedWhenNeeded'
  <1> USE DEF HostedWhenNeeded, HostedFor, Writing, Onboarding, Moving, Fencing
  <1>1. ASSUME NEW r \in Router, InsertStep(r) PROVE HostedWhenNeeded'
    <2>1. pc'[r] \in {"wait", "locked"} => ten[r] \in hosted[at[r]] /\ at'[r] = at[r] /\ ten'[r] = ten[r]
      BY <1>1, EndFrame
      DEF InsertStep, Lookup, LookupUnknown, StartInsert, WakeAfterRollback, CommitInsert,
          InsertConflict, Retry, GiveUp, Goto, TypeOK, CallsOK, registers, EndsCall
    <2> QED BY <1>1, <2>1, InsertFrame DEF SameCall, Active
  <1>2. ASSUME NEW r \in Router, OnboardStep(r) PROVE HostedWhenNeeded'
    <2>1. CASE HostTenant(r)
      <3>1. /\ \A s \in Shard : hosted'[s] = IF s = tgt[r] THEN hosted[s] \cup {ten[r]} ELSE hosted[s]
            /\ directory' = directory /\ ten[r] \in Tenant /\ tgt[r] \in Shard
        BY <2>1 DEF HostTenant, TypeOK, TablesOK, CallsOK
      <3>2. pc'[r] = "enroll" /\ ten'[r] = ten[r] /\ tgt'[r] = tgt[r]
        BY <2>1 DEF HostTenant, Goto, TypeOK, CallsOK, registers
      <3>3. \A q \in Router : pc[q] = "flip" => ten[q] # ten[r]
        BY <2>1 DEF HostTenant, OnboardingIsNew, MoverMarked
      <3>4. \A t \in Tenant : Active(t) => directory[t].shard \in Shard
        BY DEF TypeOK, TablesOK, Active, Entry
      <3>5. \A q \in Router : q # r => SameCall(q)
        BY <1>2, OnboardFrame
      <3>6. \A t \in Tenant : Active(t)' => t \in hosted'[directory'[t].shard]
        BY <3>1, <3>4 DEF Active
      <3>7. ASSUME NEW q \in Router, q # r
            PROVE  HostedFor(q)'
        <4>1. pc'[q] = pc[q] /\ ten'[q] = ten[q] /\ at'[q] = at[q] /\ tgt'[q] = tgt[q]
          BY <3>5, <3>7 DEF SameCall
        <4>2. pc[q] \in {"wait", "locked"} \cup Moving => at[q] \in Shard
          BY RegisterTypes
        <4>3. pc[q] \in {"enroll", "commit", "flip"} => tgt[q] \in Shard
          BY RegisterTypes
        <4>4. HostedFor(q)
          OBVIOUS
        <4> QED BY <3>1, <3>3, <4>1, <4>2, <4>3, <4>4
      <3>8. HostedFor(r)'
        BY <3>1, <3>2
      <3> QED BY <3>6, <3>7, <3>8
    <2>2. CASE HostConflict(r)
      BY <1>2, <2>2, OnboardFrame, EndFrame DEF HostConflict, databases, SameCall, EndsCall, Active, TypeOK
    <2>3. CASE EnrollTenant(r)
      <3>1. /\ hosted' = hosted /\ ten[r] \in Tenant /\ ten[r] \in hosted[tgt[r]] /\ EndsCall(r)
            /\ directory'[ten[r]].shard = tgt[r]
            /\ \A t \in Tenant : t # ten[r] => directory'[t] = directory[t]
        BY <2>3, EndFrame DEF EnrollTenant, TypeOK, TablesOK, CallsOK
      <3>2. \A q \in Router : q # r => SameCall(q)
        BY <1>2, OnboardFrame
      <3>3. \A t \in Tenant : Active(t)' => t \in hosted'[directory'[t].shard]
        BY <3>1 DEF Active
      <3> QED BY <3>1, <3>2, <3>3 DEF SameCall, EndsCall
    <2> QED BY <1>2, <2>1, <2>2, <2>3 DEF OnboardStep
  <1>3. ASSUME NEW r \in Router, MoveStep(r) PROVE HostedWhenNeeded'
    <2>1. CASE FenceSource(r) \/ ReadSource(r) \/ CopyFails(r)
      BY <1>3, <2>1, MoveFrame, EndFrame
      DEF FenceSource, ReadSource, CopyFails, Goto, databases, SameCall, EndsCall, Active, TypeOK, CallsOK
    <2>2. CASE CopyToTarget(r)
      <3>1. /\ \A s \in Shard : hosted'[s] = IF s = tgt[r] THEN hosted[s] \cup {ten[r]} ELSE hosted[s]
            /\ directory' = directory /\ ten[r] \in Tenant /\ tgt[r] \in Shard
            /\ pc[r] = "copy" /\ pc'[r] = "commit"
        BY <2>2 DEF CopyToTarget, TypeOK, TablesOK, CallsOK, Goto
      <3>2. \A q \in Router : pc[q] = "flip" => ten[q] # ten[r]
        BY <3>1 DEF MoverExclusive
      <3>3. \A t \in Tenant : Active(t) => directory[t].shard \in Shard
        BY DEF TypeOK, TablesOK, Active, Entry
      <3>4. \A q \in Router : q # r => SameCall(q)
        BY <1>3, <3>1, <2>2, MoveFrame DEF CopyToTarget, CommitSource
      <3>5. ten'[r] = ten[r] /\ at'[r] = at[r] /\ tgt'[r] = tgt[r]
        BY <2>2 DEF CopyToTarget, registers
      <3>6. \A t \in Tenant : Active(t)' => t \in hosted'[directory'[t].shard]
        BY <3>1, <3>3 DEF Active
      <3>7. ASSUME NEW q \in Router, q # r PROVE HostedFor(q)'
        <4>1. pc'[q] = pc[q] /\ ten'[q] = ten[q] /\ at'[q] = at[q] /\ tgt'[q] = tgt[q]
          BY <3>4, <3>7 DEF SameCall
        <4>2. pc[q] \in {"wait", "locked"} \cup Moving => at[q] \in Shard
          BY RegisterTypes
        <4>3. pc[q] \in {"enroll", "commit", "flip"} => tgt[q] \in Shard
          BY RegisterTypes
        <4>4. HostedFor(q)
          OBVIOUS
        <4> QED BY <3>1, <3>2, <4>1, <4>2, <4>3, <4>4
      <3>8. HostedFor(r)'
        BY <3>1, <3>5, RegisterTypes
      <3> QED BY <3>6, <3>7, <3>8
    <2>3. CASE CommitSource(r)
      <3>1. /\ \A s \in Shard : hosted'[s] = IF s = at[r] THEN hosted[s] \ {ten[r]} ELSE hosted[s]
            /\ directory' = directory /\ ten[r] \in Tenant /\ at[r] \in Shard
            /\ pc[r] = "commit" /\ pc'[r] = "flip"
            /\ ten'[r] = ten[r] /\ at'[r] = at[r] /\ tgt'[r] = tgt[r]
        BY <2>3 DEF CommitSource, TypeOK, TablesOK, CallsOK, registers
      <3>2. ~Active(ten[r]) /\ directory[ten[r]] # NoEntry /\ tgt[r] # at[r]
        BY <3>1 DEF MoverMarked, Active, CopyComplete
      <3>3. \A q \in Router : q # r =>
              /\ ten'[q] = ten[q] /\ at'[q] = at[q] /\ tgt'[q] = tgt[q]
              /\ pc'[q] = pc[q] \/ pc'[q] = "fenced"
              /\ (pc[q] = "wait" /\ at[q] = at[r] /\ ten[q] = ten[r]) => pc'[q] = "fenced"
        BY <2>3 DEF CommitSource, registers
      <3>4. \A q \in Router : q # r /\ pc[q] \in {"begin", "enroll", "commit", "flip"} \cup Fencing
                => ten[q] # ten[r]
        BY <3>1, <3>2 DEF MoverExclusive, OnboardingIsNew
      <3>5. \A q \in Router : pc'[q] \in {"wait", "locked"} => ~(at[q] = at[r] /\ ten[q] = ten[r])
        BY <3>1, <3>3 DEF FenceExcludesWriters
      <3>6. \A t \in Tenant : Active(t)' => t \in hosted'[directory'[t].shard]
        BY <3>1, <3>2 DEF Active, TypeOK, TablesOK, Entry
      <3>7. ASSUME NEW q \in Router, q # r
            PROVE  HostedFor(q)'
        <4>1. /\ pc'[q] = pc[q] \/ pc'[q] = "fenced"
              /\ ten'[q] = ten[q] /\ at'[q] = at[q] /\ tgt'[q] = tgt[q]
          BY <3>3, <3>7
        <4>2. pc[q] \in {"wait", "locked"} \cup Moving => at[q] \in Shard
          BY RegisterTypes
        <4>3. pc[q] \in {"enroll", "commit", "flip"} => tgt[q] \in Shard
          BY RegisterTypes
        <4>4. HostedFor(q)
          OBVIOUS
        <4>5. pc'[q] \in {"wait", "locked"} => ~(at[q] = at[r] /\ ten[q] = ten[r])
          BY <3>5
        <4> QED BY <3>1, <3>4, <3>7, <4>1, <4>2, <4>3, <4>4, <4>5
      <3>8. HostedFor(r)'
        BY <3>1, <3>2, RegisterTypes
      <3> QED BY <3>6, <3>7, <3>8
    <2>4. CASE FlipDirectory(r)
      <3>1. /\ hosted' = hosted /\ ten[r] \in Tenant /\ ten[r] \in hosted[tgt[r]] /\ EndsCall(r)
            /\ directory'[ten[r]].shard = tgt[r]
            /\ \A t \in Tenant : t # ten[r] => directory'[t] = directory[t]
        BY <2>4, EndFrame DEF FlipDirectory, TypeOK, TablesOK, CallsOK
      <3>2. \A q \in Router : q # r => SameCall(q)
        BY <1>3, <3>1, <2>4, MoveFrame DEF FlipDirectory, CommitSource
      <3> QED BY <3>1, <3>2 DEF SameCall, EndsCall, Active
    <2> QED BY <1>3, <2>1, <2>2, <2>3, <2>4 DEF MoveStep
  <1>4. ASSUME NEW r \in Router, NEW t \in Tenant, Call(r, t) PROVE HostedWhenNeeded'
    <2>1. CASE pc'[r] # "begin"
      BY <1>4, <2>1, CallFrame DEF SameCall, EndsCall, Active
    <2>2. ASSUME NEW s \in Shard, MoveTenant(r, t, s) PROVE HostedWhenNeeded'
      <3>1. /\ Active(t) /\ ten'[r] = t /\ at'[r] = directory[t].shard /\ pc'[r] = "begin"
            /\ \A u \in Tenant : u # t => directory'[u] = directory[u]
            /\ hosted' = hosted
        BY <2>2 DEF MoveTenant, TypeOK, TablesOK, CallsOK, Goto
      <3>2. directory[t] \in Entry
        BY <3>1 DEF TypeOK, TablesOK, Active
      <3>3. ~Active(t)'
        BY <2>2, <3>2 DEF MoveTenant, TypeOK, TablesOK, Active, Entry
      <3>4. \A q \in Router : q # r => SameCall(q)
        BY <1>4, CallFrame
      <3> QED BY <3>1, <3>3, <3>4 DEF SameCall, Active
    <2> QED BY <1>4, <2>1, <2>2, CallFrame DEF SameCall, EndsCall
  <1>5. CASE Environment
    BY <1>5, EnvironmentFrame DEF SameCall, EndsCall, Active
  <1> QED BY <1>1, <1>2, <1>3, <1>4, <1>5, StepCases

(***************************************************************************)
(* The rows of a tenant.                                                   *)
(***************************************************************************)
\* The only steps that change orders.
OrdersGrow == \A s \in Shard : orders[s] \subseteq orders'[s]

LEMMA CommitInsertRows ==
  ASSUME TypeOK, NEW r \in Router, CommitInsert(r)
  PROVE  /\ ten[r] \in Tenant /\ at[r] \in Shard /\ pc[r] = "locked"
         /\ placed[ten[r]] \in Nat
         /\ \E o : /\ o.tenant = ten[r] /\ o.no = placed[ten[r]] + 1
                   /\ orders'[at[r]] = orders[at[r]] \cup {o}
         /\ \A s \in Shard : s # at[r] => orders'[s] = orders[s]
         /\ \A t \in Tenant : placed'[t] = IF t = ten[r] THEN placed[t] + 1 ELSE placed[t]
  BY DEF CommitInsert, TypeOK, TablesOK, CallsOK

LEMMA CopyRows ==
  ASSUME TypeOK, NEW r \in Router, CopyToTarget(r)
  PROVE  /\ orders'[tgt[r]] = orders[tgt[r]] \cup batch[r]
         /\ \A s \in Shard : s # tgt[r] => orders'[s] = orders[s]
         /\ tgt[r] \in Shard /\ ten[r] \in Tenant /\ pc[r] = "copy" /\ pc'[r] = "commit"
         /\ ten'[r] = ten[r] /\ at'[r] = at[r] /\ tgt'[r] = tgt[r] /\ batch'[r] = batch[r]
         /\ ten[r] \notin hosted[tgt[r]] /\ placed' = placed
  BY DEF CopyToTarget, TypeOK, TablesOK, CallsOK, Goto, registers, Moving, Fencing

LEMMA CommitRows ==
  ASSUME TypeOK, NEW r \in Router, CommitSource(r)
  PROVE  /\ orders'[at[r]] = orders[at[r]] \ RowsOf(at[r], ten[r])
         /\ \A s \in Shard : s # at[r] => orders'[s] = orders[s]
         /\ at[r] \in Shard /\ ten[r] \in Tenant /\ pc[r] = "commit" /\ pc'[r] = "flip"
         /\ placed' = placed
  BY DEF CommitSource, TypeOK, TablesOK, CallsOK, Moving, Fencing

LEMMA InsertRows ==
  ASSUME NEW r \in Router, InsertStep(r), ~CommitInsert(r)
  PROVE  orders' = orders /\ placed' = placed
  BY DEF InsertStep, Lookup, LookupUnknown, StartInsert, WakeAfterRollback, InsertConflict,
         Retry, GiveUp, databases

LEMMA MoveRows ==
  ASSUME NEW r \in Router, MoveStep(r), ~CopyToTarget(r), ~CommitSource(r)
  PROVE  orders' = orders /\ placed' = placed
  BY DEF MoveStep, FenceSource, ReadSource, CopyFails, FlipDirectory, databases

LEMMA CopyStep ==
  ASSUME TypeOK, MoverExclusive, FenceExcludesWriters, HostedWhenNeeded, CopyComplete,
         [Next]_vars
  PROVE  CopyComplete'
  <1> USE DEF CopyComplete, Writing, Onboarding, Moving, Fencing
  <1>1. ASSUME NEW r \in Router, InsertStep(r) PROVE CopyComplete'
    <2>1. CASE CommitInsert(r)
      <3>1. ASSUME NEW q \in Router, pc'[q] \in {"copy", "commit"}
            PROVE  /\ pc[q] = pc'[q] /\ q # r /\ SameCall(q)
                   /\ RowsOf(at[q], ten[q])' = RowsOf(at[q], ten[q])
                   /\ orders[tgt[q]] \subseteq orders'[tgt[q]]
        <4>1. q # r /\ SameCall(q)
          BY <1>1, <3>1, InsertFrame
        <4>2. ~(at[q] = at[r] /\ ten[q] = ten[r]) /\ at[q] \in Shard /\ tgt[q] \in Shard
          BY <2>1, <3>1, <4>1, CommitInsertRows, RegisterTypes DEF FenceExcludesWriters, SameCall
        <4>3. PICK o : o.tenant = ten[r] /\ orders'[at[r]] = orders[at[r]] \cup {o}
          BY <2>1, CommitInsertRows
        <4>4. \A s \in Shard : s # at[r] => orders'[s] = orders[s]
          BY <2>1, CommitInsertRows
        <4>5. pc[q] = pc'[q] /\ at'[q] = at[q] /\ ten'[q] = ten[q]
          BY <4>1 DEF SameCall
        <4>6. RowsOf(at[q], ten[q])' = RowsOf(at[q], ten[q])
          BY <4>2, <4>3, <4>4, <4>5 DEF RowsOf
        <4>7. orders[tgt[q]] \subseteq orders'[tgt[q]]
          BY <4>2, <4>3, <4>4
        <4> QED BY <4>1, <4>5, <4>6, <4>7
      <3> QED BY <3>1 DEF SameCall
    <2>2. CASE ~CommitInsert(r)
      BY <1>1, <2>2, InsertRows, InsertFrame DEF SameCall, RowsOf
    <2> QED BY <2>1, <2>2
  <1>2. ASSUME NEW r \in Router, OnboardStep(r) PROVE CopyComplete'
    BY <1>2, OnboardFrame DEF SameCall, EndsCall, RowsOf
  <1>3. ASSUME NEW r \in Router, MoveStep(r) PROVE CopyComplete'
    <2>1. CASE CopyToTarget(r)
      <3>1. tgt[r] # at[r] /\ batch[r] = RowsOf(at[r], ten[r]) /\ at[r] \in Shard
        BY <2>1, CopyRows, RegisterTypes DEF HostedWhenNeeded, HostedFor
      <3>2. \A o \in batch[r] : o.tenant = ten[r]
        BY <3>1 DEF RowsOf
      <3>3. ASSUME NEW q \in Router, q # r, pc[q] \in {"copy", "commit"}
            PROVE  /\ RowsOf(at[q], ten[q])' = RowsOf(at[q], ten[q]) /\ SameCall(q)
                   /\ orders[tgt[q]] \subseteq orders'[tgt[q]]
        <4>1. ten[q] # ten[r] /\ at[q] \in Shard /\ tgt[q] \in Shard /\ SameCall(q)
          BY <1>3, <2>1, <3>3, CopyRows, RegisterTypes, MoveFrame DEF MoverExclusive
        <4> QED BY <2>1, <3>2, <4>1, CopyRows DEF RowsOf, SameCall
      <3>4. RowsOf(at[r], ten[r])' = batch'[r] /\ batch'[r] \subseteq orders'[tgt'[r]] /\ tgt'[r] # at'[r]
        BY <2>1, <3>1, CopyRows DEF RowsOf
      <3>5. \A q \in Router : q # r /\ pc'[q] \in {"copy", "commit"} => pc[q] = pc'[q]
        BY <1>3, MoveFrame DEF SameCall
      <3> QED BY <3>3, <3>4, <3>5 DEF SameCall
    <2>2. CASE CommitSource(r)
      <3>1. \A q \in Router : q # r /\ pc'[q] \in {"copy", "commit"} => SameCall(q) /\ pc[q] = pc'[q]
        BY <1>3, MoveFrame DEF SameCall
      <3>2. ASSUME NEW q \in Router, q # r, pc[q] \in {"copy", "commit"}, SameCall(q)
            PROVE  /\ RowsOf(at[q], ten[q])' = RowsOf(at[q], ten[q])
                   /\ pc[q] = "commit" => batch[q] \subseteq orders'[tgt[q]]
        <4>1. ten[q] # ten[r] /\ at[q] \in Shard /\ tgt[q] \in Shard
          BY <2>2, <3>2, CommitRows, RegisterTypes DEF MoverExclusive
        <4>2. \A o \in batch[q] : o.tenant = ten[q]
          BY <3>2 DEF RowsOf
        <4> QED BY <2>2, <3>2, <4>1, <4>2, CommitRows DEF RowsOf, SameCall
      <3> QED BY <2>2, <3>1, <3>2, CommitRows DEF SameCall
    <2>3. CASE ReadSource(r)
      <3>1. /\ batch'[r] = RowsOf(at[r], ten[r]) /\ pc'[r] = "copy" /\ orders' = orders
            /\ ten' = ten /\ at' = at /\ tgt' = tgt
        BY <2>3 DEF ReadSource, Goto, databases, TypeOK, CallsOK
      <3>2. \A q \in Router : q # r /\ pc'[q] \in {"copy", "commit"} => SameCall(q) /\ pc[q] = pc'[q]
        BY <1>3, MoveFrame DEF SameCall
      <3> QED BY <3>1, <3>2 DEF SameCall, RowsOf
    <2>4. CASE FenceSource(r) \/ CopyFails(r) \/ FlipDirectory(r)
      <3>1. orders' = orders /\ pc'[r] \notin {"copy", "commit"}
        BY <2>4, EndFrame DEF FenceSource, CopyFails, FlipDirectory, databases, Goto, EndsCall, TypeOK, CallsOK
      <3>2. \A q \in Router : q # r /\ pc'[q] \in {"copy", "commit"} => SameCall(q) /\ pc[q] = pc'[q]
        BY <1>3, MoveFrame DEF SameCall
      <3> QED BY <3>1, <3>2 DEF SameCall, RowsOf
    <2> QED BY <1>3, <2>1, <2>2, <2>3, <2>4 DEF MoveStep
  <1>4. ASSUME NEW r \in Router, NEW t \in Tenant, Call(r, t) PROVE CopyComplete'
    BY <1>4, CallFrame DEF SameCall, EndsCall, RowsOf
  <1>5. CASE Environment
    BY <1>5, EnvironmentFrame DEF SameCall, EndsCall, RowsOf
  <1> QED BY <1>1, <1>2, <1>3, <1>4, <1>5, StepCases

LEMMA NoOrderLostStep ==
  ASSUME TypeOK, CopyComplete, NoOrderLost, [Next]_vars
  PROVE  NoOrderLost'
  <1>1. CASE OrdersGrow /\ placed' = placed
    BY <1>1 DEF NoOrderLost, OrdersGrow, RowsOf
  <1>2. ASSUME NEW r \in Router, CommitInsert(r) PROVE NoOrderLost'
    <2> SUFFICES ASSUME NEW t \in Tenant, NEW n \in 1..placed'[t]
                 PROVE  \E s \in Shard : \E o \in RowsOf(s, t)' : o.no = n
      BY DEF NoOrderLost
    <2>1. OrdersGrow
      BY <1>2, CommitInsertRows DEF OrdersGrow
    <2>2. CASE n \in 1..placed[t]
      BY <2>1, <2>2 DEF NoOrderLost, OrdersGrow, RowsOf
    <2>3. CASE n \notin 1..placed[t]
      <3>1. t = ten[r] /\ n = placed[t] + 1
        BY <1>2, <2>3, CommitInsertRows DEF TypeOK, TablesOK
      <3> QED BY <1>2, <3>1, CommitInsertRows DEF RowsOf
    <2> QED BY <2>2, <2>3
  <1>3. ASSUME NEW r \in Router, CommitSource(r) PROVE NoOrderLost'
    <2> SUFFICES ASSUME NEW t \in Tenant, NEW n \in 1..placed[t]
                 PROVE  \E s \in Shard : \E o \in RowsOf(s, t)' : o.no = n
      BY <1>3, CommitRows DEF NoOrderLost
    <2>1. PICK s \in Shard : \E o \in RowsOf(s, t) : o.no = n
      BY DEF NoOrderLost
    <2>2. CASE s = at[r] /\ t = ten[r]
      <3>1. RowsOf(s, t) \subseteq orders[tgt[r]] /\ tgt[r] # at[r] /\ tgt[r] \in Shard
        BY <1>3, <2>2, CommitRows, RegisterTypes DEF CopyComplete, Moving, Fencing
      <3> QED BY <1>3, <2>1, <3>1, CommitRows DEF RowsOf
    <2>3. CASE ~(s = at[r] /\ t = ten[r])
      BY <1>3, <2>1, <2>3, CommitRows DEF RowsOf
    <2> QED BY <2>2, <2>3
  <1>4. ASSUME NEW r \in Router, CopyToTarget(r) PROVE OrdersGrow /\ placed' = placed
    BY <1>4, CopyRows DEF OrdersGrow
  <1>5. ASSUME orders' = orders, placed' = placed PROVE OrdersGrow
    BY <1>5 DEF OrdersGrow
  <1>6. CASE \E r \in Router : InsertStep(r)
    BY <1>6, <1>1, <1>2, <1>5, InsertRows
  <1>7. CASE \E r \in Router : OnboardStep(r)
    BY <1>7, <1>1, <1>5, OnboardFrame
  <1>8. CASE \E r \in Router : MoveStep(r)
    BY <1>8, <1>1, <1>3, <1>4, <1>5, MoveRows
  <1>9. CASE \E r \in Router, t \in Tenant : Call(r, t)
    BY <1>9, <1>1, <1>5, CallFrame
  <1>10. CASE Environment
    BY <1>10, <1>1, <1>5, EnvironmentFrame
  <1> QED BY <1>6, <1>7, <1>8, <1>9, <1>10, StepCases

LEMMA RowsInit ==
  Init => /\ HostedWhenNeeded /\ OnboardingIsNew /\ FenceExcludesWriters
          /\ CopyComplete /\ NoOrderLost /\ ServedAtHome /\ UnknownUnrouted
  BY DEF Init, HostedWhenNeeded, HostedFor, Active, OnboardingIsNew, FenceExcludesWriters,
         CopyComplete, NoOrderLost, ServedAtHome, UnknownUnrouted, RowsOf, Routed, Onboarding,
         Moving, Fencing

\* No acknowledged order is ever lost: at every moment some shard has it, for
\* any number of tenants, shards and processes, of moves and of crashes.
THEOREM OrdersKept == Spec => []NoOrderLost
  <1> DEFINE Inv == /\ TypeOK /\ MoverExclusive /\ MoverMarked /\ OnboardingIsNew
                    /\ FenceExcludesWriters /\ HostedWhenNeeded /\ CopyComplete /\ NoOrderLost
  <1>1. Init => Inv
    BY TypeInit, MoversInit, RowsInit
  <1>2. Inv /\ [Next]_vars => Inv'
    BY TypeStep, MoversStep, OnboardingStep, FenceStep, HostedStep, CopyStep, NoOrderLostStep
  <1>3. Inv => NoOrderLost
    OBVIOUS
  <1> QED BY <1>1, <1>2, <1>3, PTL DEF Spec

(***************************************************************************)
(* Where a tenant is served, and who can route to it.                      *)
(***************************************************************************)
LEMMA DirectoryChanges ==
  ASSUME TypeOK, [Next]_vars, NEW t \in Tenant
  PROVE  \/ directory'[t] = directory[t]
         \/ \E r \in Router : EnrollTenant(r) /\ ten[r] = t
         \/ \E r \in Router : FlipDirectory(r) /\ ten[r] = t
         \/ \E r \in Router, s \in Shard : MoveTenant(r, t, s)
  <1>1. CASE \E r \in Router : InsertStep(r)
    BY <1>1, InsertFrame
  <1>2. ASSUME NEW r \in Router, OnboardStep(r), ~EnrollTenant(r) PROVE directory' = directory
    BY <1>2 DEF OnboardStep, HostTenant, HostConflict, databases
  <1>3. ASSUME NEW r \in Router, EnrollTenant(r), ten[r] # t PROVE directory'[t] = directory[t]
    BY <1>3 DEF EnrollTenant, TypeOK, TablesOK
  <1>4. ASSUME NEW r \in Router, MoveStep(r), ~FlipDirectory(r) PROVE directory' = directory
    BY <1>4 DEF MoveStep, FenceSource, ReadSource, CopyToTarget, CopyFails, CommitSource, databases
  <1>5. ASSUME NEW r \in Router, FlipDirectory(r), ten[r] # t PROVE directory'[t] = directory[t]
    BY <1>5 DEF FlipDirectory, TypeOK, TablesOK
  <1>6. ASSUME NEW r \in Router, NEW u \in Tenant, NEW s \in Shard, MoveTenant(r, u, s), u # t
        PROVE  directory'[t] = directory[t]
    BY <1>6 DEF MoveTenant, TypeOK, TablesOK
  <1>7. CASE \E r \in Router, u \in Tenant : Call(r, u)
    BY <1>6, <1>7, CallFrame
  <1>8. CASE Environment
    BY <1>8, EnvironmentFrame
  <1> QED BY <1>1, <1>2, <1>3, <1>4, <1>5, <1>7, <1>8, StepCases

LEMMA EnrollEffect ==
  ASSUME TypeOK, NEW r \in Router, EnrollTenant(r)
  PROVE  /\ directory[ten[r]] = NoEntry /\ directory'[ten[r]] # NoEntry
         /\ directory'[ten[r]].shard = tgt[r] /\ directory'[ten[r]].status = "active"
         /\ pc[r] = "enroll" /\ ten[r] \in Tenant /\ tgt[r] \in Shard /\ EndsCall(r)
         /\ UNCHANGED <<hosted, orders, cache>>
  <1>1. pc[r] = "enroll" /\ ten[r] \in Tenant /\ tgt[r] \in Shard /\ EndsCall(r)
    BY EndFrame DEF EnrollTenant, TypeOK, CallsOK, Onboarding
  <1>2. directory'[ten[r]] = [shard |-> tgt[r], version |-> 1, status |-> "active"]
    BY <1>1 DEF EnrollTenant, TypeOK, TablesOK
  <1>3. directory'[ten[r]] # NoEntry
    BY <1>1, <1>2, DirectoryAssumption DEF DirectoryAssumption
  <1> QED BY <1>1, <1>2, <1>3 DEF EnrollTenant

LEMMA FlipEffect ==
  ASSUME TypeOK, MoverMarked, NEW r \in Router, FlipDirectory(r)
  PROVE  /\ directory[ten[r]] # NoEntry /\ directory'[ten[r]] # NoEntry
         /\ directory'[ten[r]].shard = tgt[r] /\ directory'[ten[r]].status = "active"
         /\ pc[r] = "flip" /\ ten[r] \in Tenant /\ tgt[r] \in Shard /\ EndsCall(r)
         /\ UNCHANGED <<hosted, orders>>
  <1>1. pc[r] = "flip" /\ ten[r] \in Tenant /\ tgt[r] \in Shard /\ EndsCall(r)
    BY EndFrame DEF FlipDirectory, TypeOK, CallsOK, Moving
  <1>2. directory[ten[r]] # NoEntry /\ directory[ten[r]] \in Entry
    BY <1>1 DEF MoverMarked, Moving, TypeOK, TablesOK
  <1>3. directory'[ten[r]] =
          [shard |-> tgt[r], version |-> directory[ten[r]].version + 1, status |-> "active"]
    BY <1>1 DEF FlipDirectory, TypeOK, TablesOK
  <1>4. directory'[ten[r]] \in Entry
    BY <1>1, <1>2, <1>3 DEF Entry
  <1>5. directory'[ten[r]] # NoEntry
    BY <1>4, DirectoryAssumption DEF DirectoryAssumption, Entry
  <1> QED BY <1>1, <1>2, <1>3, <1>5 DEF FlipDirectory

LEMMA MarkEffect ==
  ASSUME TypeOK, NEW r \in Router, NEW t \in Tenant, NEW s \in Shard, MoveTenant(r, t, s)
  PROVE  /\ Active(t) /\ directory[t].shard \in Shard
         /\ directory'[t] # NoEntry /\ directory'[t].shard = directory[t].shard
         /\ directory'[t].status = "moving"
         /\ pc[r] = "idle" /\ pc'[r] = "begin" /\ ten'[r] = t /\ at'[r] = directory[t].shard
         /\ UNCHANGED <<hosted, orders, cache>>
         /\ \A q \in Router : q # r => SameCall(q)
  <1>1. Active(t) /\ directory[t] \in Entry
    BY DEF MoveTenant, Active, TypeOK, TablesOK
  <1>2. directory'[t] = [directory[t] EXCEPT !.status = "moving"]
    BY DEF MoveTenant, TypeOK, TablesOK
  <1>3. /\ directory'[t] \in Entry /\ directory'[t].shard = directory[t].shard
        /\ directory'[t].status = "moving" /\ directory[t].shard \in Shard
    BY <1>1, <1>2 DEF Entry
  <1>4. directory'[t] # NoEntry
    BY <1>3, DirectoryAssumption DEF DirectoryAssumption, Entry
  <1>5. \A q \in Router : q # r => SameCall(q)
    BY DEF MoveTenant, Goto, SameCall, TypeOK, CallsOK
  <1> QED BY <1>1, <1>3, <1>4, <1>5 DEF MoveTenant, Goto, TypeOK, CallsOK

\* Rows of the directory are never deleted.
LEMMA EntryKept ==
  ASSUME TypeOK, MoverMarked, [Next]_vars, NEW t \in Tenant, directory[t] # NoEntry
  PROVE  directory'[t] # NoEntry
  BY DirectoryChanges, EnrollEffect, FlipEffect, MarkEffect

\* A router learns a shard only from the directory row of the moment.
LEMMA NewRoutes ==
  ASSUME TypeOK, [Next]_vars, NEW q \in Router, NEW s \in Shard, NEW t \in Tenant,
         Routed(q, s, t)'
  PROVE  Routed(q, s, t) \/ (directory[t] # NoEntry /\ directory[t].shard = s)
  <1> DEFINE Goal == Routed(q, s, t) \/ (directory[t] # NoEntry /\ directory[t].shard = s)
  <1>1. ASSUME NEW r \in Router, Remember(r, t) PROVE cache'[q][t] = cache[q][t]
             \/ (directory[t] # NoEntry /\ cache'[q][t].shard = directory[t].shard)
    BY <1>1 DEF Remember, Active, TypeOK, CacheOK
  <1>2. ASSUME NEW r \in Router, NEW u \in Tenant, Remember(r, u), u # t
        PROVE  cache'[q][t] = cache[q][t]
    BY <1>2 DEF Remember, TypeOK, CacheOK
  <1>3. ASSUME NEW r \in Router, NEW u \in Tenant, Forget(r, u)
        PROVE  cache'[q][t] = cache[q][t] \/ cache'[q][t] = NoEntry
    BY <1>3 DEF Forget, TypeOK, CacheOK
  <1>4. ASSUME NEW r \in Router, InsertStep(r) PROVE Goal
    <2>1. CASE Lookup(r)
      <3>1. ten[r] \in Tenant /\ pc[r] = "lookup" /\ Remember(r, ten[r]) /\ ten' = ten
            /\ \A p \in Router : p # r => SameCall(p)
        BY <1>4, <2>1, InsertFrame, RegisterTypes DEF Lookup, Writing
      <3>2. at'[r] = IF cache[r][ten[r]] # NoEntry THEN cache[r][ten[r]].shard
                     ELSE directory[ten[r]].shard
        BY <2>1 DEF Lookup, TypeOK, CallsOK
      <3>3. cache[r][ten[r]] # NoEntry \/ directory[ten[r]] # NoEntry
        BY <2>1 DEF Lookup
      <3>4. CASE cache'[q][t] # NoEntry /\ cache'[q][t].shard = s
        BY <1>1, <1>2, <3>1, <3>4 DEF Routed
      <3>5. CASE pc'[q] \in {"send", "wait", "locked"} /\ ten'[q] = t /\ at'[q] = s
        BY <3>1, <3>2, <3>3, <3>5 DEF Routed, SameCall
      <3> QED BY <3>4, <3>5 DEF Routed
    <2>2. CASE ~Lookup(r)
      <3>1. cache'[q][t] = cache[q][t] \/ cache'[q][t] = NoEntry
        BY <1>3, <1>4, <2>2, RegisterTypes DEF InsertStep, LookupUnknown, StartInsert,
           WakeAfterRollback, CommitInsert, InsertConflict, Retry, GiveUp, Writing
      <3>2. pc'[q] \in {"send", "wait", "locked"} =>
               pc[q] \in {"send", "wait", "locked"} /\ ten'[q] = ten[q] /\ at'[q] = at[q]
        <4>1. CASE q = r
          BY <1>4, <2>2, <4>1, EndFrame DEF InsertStep, LookupUnknown, StartInsert, registers,
             WakeAfterRollback, CommitInsert, InsertConflict, Retry, GiveUp, Goto, TypeOK, CallsOK,
             EndsCall
        <4>2. CASE q # r
          BY <1>4, <4>2, InsertFrame DEF SameCall
        <4> QED BY <4>1, <4>2
      <3> QED BY <3>1, <3>2 DEF Routed
    <2> QED BY <2>1, <2>2
  <1>5. ASSUME NEW r \in Router, OnboardStep(r) PROVE Goal
    BY <1>5, OnboardFrame DEF Routed, SameCall, EndsCall
  <1>6. ASSUME NEW r \in Router, MoveStep(r) PROVE Goal
    <2>1. cache'[q][t] = cache[q][t] \/ cache'[q][t] = NoEntry
      BY <1>3, <1>6, RegisterTypes DEF MoveStep, FenceSource, ReadSource, CopyToTarget, CopyFails,
         CommitSource, FlipDirectory, Moving
    <2> QED BY <1>6, <2>1, MoveFrame DEF Routed, SameCall, EndsCall, Moving, Fencing
  <1>7. ASSUME NEW r \in Router, NEW u \in Tenant, Call(r, u) PROVE Goal
    <2>1. Remember(r, u) \/ cache' = cache
      BY <1>7 DEF Call, InsertOrders, CountOrders, Onboard, MoveRefused, MoveTenant
    <2>2. cache'[q][t] = cache[q][t]
             \/ (directory[t] # NoEntry /\ cache'[q][t].shard = directory[t].shard)
      BY <1>1, <1>2, <2>1
    <2> QED BY <1>7, <2>2, CallFrame DEF Routed, SameCall, EndsCall
  <1>8. CASE Environment
    BY <1>8, EnvironmentFrame DEF Routed, SameCall, EndsCall
  <1> QED BY <1>4, <1>5, <1>6, <1>7, <1>8, StepCases

LEMMA UnknownStep ==
  ASSUME TypeOK, MoverMarked, UnknownUnrouted, [Next]_vars
  PROVE  UnknownUnrouted'
  BY EntryKept, NewRoutes DEF UnknownUnrouted

\* A tenant that is coherent after a step was so before it: a move that died
\* is never taken up again.
LEMMA CoherentBack ==
  ASSUME TypeOK, MoverMarked, [Next]_vars, NEW t \in Tenant, Coherent(t)'
  PROVE  Coherent(t)
  <1>1. ASSUME NEW q \in Router, pc'[q] \in Moving, ten'[q] = t
        PROVE  Active(t) \/ (pc[q] \in Moving /\ ten[q] = t)
    <2> USE DEF Writing, Onboarding, Moving, Fencing
    <2>1. CASE \E r \in Router : InsertStep(r)
      BY <1>1, <2>1, InsertFrame DEF SameCall
    <2>2. CASE \E r \in Router : OnboardStep(r)
      BY <1>1, <2>2, OnboardFrame DEF SameCall, EndsCall
    <2>3. CASE \E r \in Router : MoveStep(r)
      BY <1>1, <2>3, MoveFrame DEF SameCall, EndsCall
    <2>4. CASE \E r \in Router, u \in Tenant : Call(r, u)
      BY <1>1, <2>4, CallFrame, MarkEffect DEF SameCall, EndsCall
    <2>5. CASE Environment
      BY <1>1, <2>5, EnvironmentFrame DEF SameCall, EndsCall
    <2> QED BY <2>1, <2>2, <2>3, <2>4, <2>5, StepCases
  <1>2. CASE directory'[t] = NoEntry
    BY <1>2, EntryKept DEF Coherent
  <1>3. CASE Active(t)'
    <2>1. CASE directory'[t] = directory[t]
      BY <1>3, <2>1 DEF Active, Coherent
    <2>2. CASE \E r \in Router : EnrollTenant(r) /\ ten[r] = t
      BY <2>2, EnrollEffect DEF Coherent
    <2>3. CASE \E r \in Router : FlipDirectory(r) /\ ten[r] = t
      BY <2>3, FlipEffect DEF Coherent, Moving
    <2>4. CASE \E r \in Router, s \in Shard : MoveTenant(r, t, s)
      BY <2>4, MarkEffect DEF Coherent
    <2> QED BY <2>1, <2>2, <2>3, <2>4, DirectoryChanges
  <1> QED BY <1>1, <1>2, <1>3 DEF Coherent

\* A shard stops serving a coherent tenant only when a mover deletes it there.
LEMMA ServesBack ==
  ASSUME TypeOK, MoverExclusive, MoverMarked, [Next]_vars, NEW t \in Tenant, NEW s \in Shard,
         Coherent(t)', Serves(s, t)
  PROVE  Serves(s, t)' \/ \E r \in Router : CommitSource(r) /\ ten[r] = t /\ at[r] = s
  <1> USE DEF Writing, Onboarding, Moving, Fencing
  <1>1. CASE Active(t) /\ s = directory[t].shard
    <2>1. CASE directory'[t] = directory[t]
      BY <1>1, <2>1 DEF Active, Serves
    <2>2. CASE \E r \in Router : EnrollTenant(r) /\ ten[r] = t
      BY <1>1, <2>2, EnrollEffect DEF Active
    <2>3. CASE \E r \in Router : FlipDirectory(r) /\ ten[r] = t
      BY <1>1, <2>3, FlipEffect DEF Active, MoverMarked
    <2>4. CASE \E r \in Router, u \in Shard : MoveTenant(r, t, u)
      BY <1>1, <2>4, MarkEffect DEF Serves
    <2> QED BY <2>1, <2>2, <2>3, <2>4, DirectoryChanges
  <1>2. ASSUME NEW q \in Router, pc[q] \in Moving, ten[q] = t,
               \/ pc[q] \in {"begin"} \cup Fencing /\ s = at[q]
               \/ pc[q] \in {"commit", "flip"} /\ s = tgt[q]
        PROVE  Serves(s, t)' \/ \E r \in Router : CommitSource(r) /\ ten[r] = t /\ at[r] = s
    <2>1. CASE SameCall(q)
      BY <1>2, <2>1 DEF SameCall, Serves
    <2>2. CASE MoveStep(q)
      <3>1. CASE FlipDirectory(q)
        <4>1. /\ directory'[t] # NoEntry /\ directory'[t].status = "active"
              /\ directory'[t].shard = tgt[q] /\ pc[q] = "flip"
          BY <1>2, <3>1, FlipEffect
        <4>2. s = tgt[q]
          BY <1>2, <4>1
        <4> QED BY <4>1, <4>2 DEF Serves, Active
      <3>2. CASE CommitSource(q)
        <4>1. pc'[q] = "flip" /\ ten'[q] = ten[q] /\ tgt'[q] = tgt[q]
          BY <2>2, <3>2, CommitRows, MoveFrame DEF EndsCall
        <4>2. CASE s = at[q]
          BY <1>2, <3>2, <4>2
        <4>3. CASE s = tgt[q]
          BY <1>2, <4>1, <4>3 DEF Serves
        <4> QED BY <1>2, <4>2, <4>3
      <3>3. CASE FenceSource(q) \/ ReadSource(q) \/ CopyToTarget(q)
        <4>1. /\ pc'[q] \in Fencing /\ ten'[q] = ten[q] /\ at'[q] = at[q]
              /\ pc[q] \notin {"commit", "flip"}
          BY <3>3 DEF FenceSource, ReadSource, CopyToTarget, Goto, registers, TypeOK, CallsOK
        <4> QED BY <1>2, <4>1 DEF Serves
      <3>4. CASE CopyFails(q)
        <4>1. directory'[t] = directory[t] /\ EndsCall(q) /\ \A p \in Router : p # q => SameCall(p)
          BY <3>4, EndFrame DEF CopyFails, databases, TypeOK
        <4>2. ~Coherent(t)'
          BY <1>2, <4>1, DirectoryAssumption DEF Coherent, Active, SameCall, EndsCall,
             MoverMarked, MoverExclusive, DirectoryAssumption
        <4> QED BY <4>2
      <3> QED BY <2>2, <3>1, <3>2, <3>3, <3>4 DEF MoveStep
    <2>3. CASE Environment /\ ~SameCall(q)
      <3>1. /\ directory' = directory /\ EndsCall(q)
            /\ \A p \in Router : SameCall(p) \/ EndsCall(p) \/ pc'[p] = "idle"
        BY <1>2, <2>3, EnvironmentFrame
      <3>2. ~Coherent(t)'
        BY <1>2, <3>1, DirectoryAssumption DEF Coherent, Active, SameCall, EndsCall,
           MoverMarked, MoverExclusive, DirectoryAssumption
      <3> QED BY <3>2
    <2>4. ASSUME ~SameCall(q), ~MoveStep(q), ~Environment PROVE FALSE
      BY <1>2, <2>4, StepCases, InsertFrame, OnboardFrame, MoveFrame, CallFrame
    <2> QED BY <2>1, <2>2, <2>3, <2>4
  <1> QED BY <1>1, <1>2 DEF Serves

LEMMA ServedStep ==
  ASSUME TypeOK, MoverExclusive, MoverMarked, OnboardingIsNew, HostedWhenNeeded, CopyComplete,
         UnknownUnrouted, ServedAtHome, [Next]_vars
  PROVE  ServedAtHome'
  <1> SUFFICES ASSUME NEW t \in Tenant, Coherent(t)', NEW s \in Shard, ~Serves(s, t)'
               PROVE  /\ RowsOf(s, t)' = {}
                      /\ \A q \in Router : Routed(q, s, t)' => t \notin hosted'[s]
    BY DEF ServedAtHome
  <1>1. CASE \E r \in Router : CommitSource(r) /\ ten[r] = t /\ at[r] = s
    BY <1>1, CommitRows DEF RowsOf, CommitSource, TypeOK, TablesOK
  <1>2. CASE ~\E r \in Router : CommitSource(r) /\ ten[r] = t /\ at[r] = s
    <2>1. Coherent(t) /\ ~Serves(s, t)
      BY <1>2, CoherentBack, ServesBack
    <2>2. RowsOf(s, t) = {} /\ \A q \in Router : Routed(q, s, t) => t \notin hosted[s]
      BY <2>1 DEF ServedAtHome
    <2>3. \A q \in Router : Routed(q, s, t)' => t \notin hosted[s]
      <3> SUFFICES ASSUME directory[t] # NoEntry, directory[t].shard = s PROVE t \notin hosted[s]
        BY <2>2, NewRoutes
      <3>1. PICK q \in Router : pc[q] \in Moving /\ ten[q] = t
        BY <2>1 DEF Coherent, Serves
      <3>2. at[q] = s
        BY <3>1 DEF MoverMarked
      <3>3. pc[q] = "flip"
        BY <2>1, <3>1, <3>2 DEF Serves, Moving
      <3> QED BY <3>1, <3>2, <3>3 DEF HostedWhenNeeded, HostedFor
    <2>4. RowsOf(s, t)' = {}
      <3>1. CASE orders' = orders
        BY <2>2, <3>1 DEF RowsOf
      <3>2. ASSUME NEW r \in Router, CommitInsert(r) PROVE RowsOf(s, t)' = {}
        <4>1. ~(at[r] = s /\ ten[r] = t)
          BY <2>2, <3>2, CommitInsertRows DEF Routed, HostedWhenNeeded, HostedFor
        <4>2. PICK o : o.tenant = ten[r] /\ orders'[at[r]] = orders[at[r]] \cup {o}
          BY <3>2, CommitInsertRows
        <4>3. \A u \in Shard : u # at[r] => orders'[u] = orders[u]
          BY <3>2, CommitInsertRows
        <4> QED BY <2>2, <4>1, <4>2, <4>3 DEF RowsOf
      <3>3. ASSUME NEW r \in Router, CopyToTarget(r) PROVE RowsOf(s, t)' = {}
        <4>1. ~(tgt[r] = s /\ ten[r] = t)
          BY <3>3, CopyRows DEF Serves
        <4>2. \A o \in batch[r] : o.tenant = ten[r]
          BY <3>3, CopyRows DEF CopyComplete, RowsOf
        <4>3. /\ orders'[tgt[r]] = orders[tgt[r]] \cup batch[r]
              /\ \A u \in Shard : u # tgt[r] => orders'[u] = orders[u]
          BY <3>3, CopyRows
        <4> QED BY <2>2, <4>1, <4>2, <4>3 DEF RowsOf
      <3>4. ASSUME NEW r \in Router, CommitSource(r) PROVE RowsOf(s, t)' = {}
        BY <2>2, <3>4, CommitRows DEF RowsOf
      <3>5. orders' = orders \/ \E r \in Router : CommitInsert(r) \/ CopyToTarget(r) \/ CommitSource(r)
        BY StepCases, InsertRows, OnboardFrame, MoveRows, CallFrame, EnvironmentFrame
      <3> QED BY <3>1, <3>2, <3>3, <3>4, <3>5
    <2>5. \A q \in Router : Routed(q, s, t)' => t \notin hosted'[s]
      <3> SUFFICES ASSUME NEW q \in Router, Routed(q, s, t)' PROVE t \notin hosted'[s]
        OBVIOUS
      <3>1. t \notin hosted[s]
        BY <2>3
      <3>2. ASSUME NEW r \in Router, HostTenant(r) PROVE t \notin hosted'[s]
        <4>1. directory[ten[r]] = NoEntry /\ directory' = directory
          BY <3>2 DEF HostTenant, OnboardingIsNew, Onboarding
        <4>2. t # ten[r]
          BY <4>1, UnknownStep DEF UnknownUnrouted
        <4> QED BY <3>1, <3>2, <4>2 DEF HostTenant, TypeOK, TablesOK
      <3>3. ASSUME NEW r \in Router, CopyToTarget(r) PROVE t \notin hosted'[s]
        <4>1. ~(tgt[r] = s /\ ten[r] = t)
          BY <3>3, CopyRows DEF Serves
        <4> QED BY <3>1, <3>3, <4>1 DEF CopyToTarget, TypeOK, TablesOK
      <3>4. ASSUME NEW r \in Router, CommitSource(r) PROVE t \notin hosted'[s]
        BY <3>1, <3>4 DEF CommitSource, TypeOK, TablesOK
      <3>5. \/ hosted' = hosted
            \/ \E r \in Router : HostTenant(r) \/ CopyToTarget(r) \/ CommitSource(r)
        <4>1. ASSUME NEW r \in Router, OnboardStep(r), ~HostTenant(r) PROVE hosted' = hosted
          BY <4>1 DEF OnboardStep, HostConflict, EnrollTenant, databases
        <4>2. ASSUME NEW r \in Router, MoveStep(r), ~CopyToTarget(r), ~CommitSource(r)
              PROVE  hosted' = hosted
          BY <4>2 DEF MoveStep, FenceSource, ReadSource, CopyFails, FlipDirectory, databases
        <4> QED BY <4>1, <4>2, StepCases, InsertFrame, CallFrame, EnvironmentFrame
      <3> QED BY <3>1, <3>2, <3>3, <3>4, <3>5
    <2> QED BY <2>4, <2>5
  <1> QED BY <1>1, <1>2

LEMMA Inductive == Spec => []IInv
  <1>1. Init => IInv
    BY TypeInit, MoversInit, RowsInit DEF IInv
  <1>2. IInv /\ [Next]_vars => IInv'
    BY TypeStep, MoversStep, OnboardingStep, FenceStep, HostedStep, CopyStep, NoOrderLostStep,
       UnknownStep, ServedStep DEF IInv
  <1> QED BY <1>1, <1>2, PTL DEF Spec

\* While the directory names a shard as active, that shard hosts the tenant and
\* no other shard has any of its rows, whatever moves, failures and crashes came
\* before.
THEOREM ActiveShardIsAuthoritative == Spec => []ActiveIsAuthoritative
  <1>1. IInv => ActiveIsAuthoritative
    <2> SUFFICES ASSUME IInv, NEW t \in Tenant, Active(t)
                 PROVE  /\ t \in hosted[directory[t].shard]
                        /\ \A s \in Shard \ {directory[t].shard} : RowsOf(s, t) = {}
      BY DEF ActiveIsAuthoritative
    <2>1. t \in hosted[directory[t].shard]
      BY DEF IInv, HostedWhenNeeded
    <2>2. ASSUME NEW s \in Shard, s # directory[t].shard PROVE ~Serves(s, t)
      BY <2>2 DEF IInv, Serves, Active, MoverMarked, Moving, Fencing
    <2> QED BY <2>1, <2>2 DEF IInv, ServedAtHome, Coherent
  <1> QED BY <1>1, Inductive, PTL

\* A router that still routes to another shard than the active one is fenced
\* out there.
THEOREM StaleRoutersAreFenced == Spec => []StaleRouteFenced
  <1>1. IInv => StaleRouteFenced
    <2> SUFFICES ASSUME IInv, NEW t \in Tenant, NEW r \in Router, NEW s \in Shard,
                        Active(t), Routed(r, s, t), s # directory[t].shard
                 PROVE  t \notin hosted[s]
      BY DEF StaleRouteFenced
    <2>1. ~Serves(s, t)
      BY DEF IInv, Serves, Active, MoverMarked, Moving, Fencing
    <2> QED BY <2>1 DEF IInv, ServedAtHome, Coherent
  <1> QED BY <1>1, Inductive, PTL

(***************************************************************************)
(* What a row of the directory means to those that hold a copy of it: what a *)
(* cached version tells, and, as long as no process dies inside a call,      *)
(* which shards accept the writes of a tenant.                             *)
(***************************************************************************)

(***************************************************************************)
(* Versions.                                                               *)
(***************************************************************************)
\* A cache entry is kept, dropped, or copied from the directory row as it is.
LEMMA CacheChanges ==
  ASSUME TypeOK, [Next]_vars, NEW q \in Router, NEW t \in Tenant
  PROVE  \/ cache'[q][t] = cache[q][t]
         \/ cache'[q][t] = NoEntry
         \/ /\ directory[t] # NoEntry /\ directory' = directory
            /\ cache'[q][t] = [shard |-> directory[t].shard, version |-> directory[t].version]
  <1> DEFINE Goal == \/ cache'[q][t] = cache[q][t]
                     \/ cache'[q][t] = NoEntry
                     \/ /\ directory[t] # NoEntry /\ directory' = directory
                        /\ cache'[q][t] =
                              [shard |-> directory[t].shard, version |-> directory[t].version]
  <1>1. ASSUME NEW r \in Router, NEW u \in Tenant, Remember(r, u), directory' = directory
        PROVE  Goal
    BY <1>1 DEF Remember, Active, TypeOK, CacheOK
  <1>2. ASSUME NEW r \in Router, NEW u \in Tenant, Forget(r, u)
        PROVE  cache'[q][t] = cache[q][t] \/ cache'[q][t] = NoEntry
    BY <1>2 DEF Forget, TypeOK, CacheOK
  <1>3. ASSUME NEW r \in Router, InsertStep(r) PROVE Goal
    <2>1. ten[r] \in Tenant /\ directory' = directory
      BY <1>3, InsertFrame, RegisterTypes
    <2>2. CASE Lookup(r)
      BY <1>1, <2>1, <2>2 DEF Lookup
    <2>3. CASE ~Lookup(r)
      BY <1>2, <1>3, <2>1, <2>3 DEF InsertStep, LookupUnknown, StartInsert, WakeAfterRollback,
         CommitInsert, InsertConflict, Retry, GiveUp
    <2> QED BY <2>2, <2>3
  <1>4. ASSUME NEW r \in Router, OnboardStep(r) PROVE Goal
    BY <1>4, OnboardFrame
  <1>5. ASSUME NEW r \in Router, MoveStep(r) PROVE Goal
    <2>1. ten[r] \in Tenant
      BY <1>5, MoveFrame, RegisterTypes
    <2> QED BY <1>2, <1>5, <2>1 DEF MoveStep, FenceSource, ReadSource, CopyToTarget, CopyFails,
               CommitSource, FlipDirectory
  <1>6. ASSUME NEW r \in Router, NEW u \in Tenant, Call(r, u) PROVE Goal
    <2>1. cache' = cache \/ (Remember(r, u) /\ directory' = directory)
      BY <1>6 DEF Call, InsertOrders, CountOrders, Onboard, MoveRefused, MoveTenant, databases
    <2> QED BY <1>1, <2>1
  <1>7. CASE Environment
    BY <1>7, EnvironmentFrame
  <1> QED BY <1>3, <1>4, <1>5, <1>6, <1>7, StepCases

\* A row of the directory names another shard only under a higher version.
LEMMA VersionsGrow ==
  ASSUME TypeOK, MoverMarked, [Next]_vars, NEW t \in Tenant, directory[t] # NoEntry
  PROVE  /\ directory'[t] # NoEntry
         /\ directory[t].version \in Nat
         /\ \/ /\ directory'[t].version = directory[t].version
               /\ directory'[t].shard = directory[t].shard
            \/ directory'[t].version = directory[t].version + 1
  <1>1. directory[t] \in Entry /\ directory[t].version \in Nat
    BY DEF TypeOK, TablesOK, Entry
  <1>2. directory'[t] # NoEntry
    BY EntryKept
  <1>3. ASSUME NEW r \in Router, FlipDirectory(r), ten[r] = t
        PROVE  directory'[t].version = directory[t].version + 1
    BY <1>3 DEF FlipDirectory, TypeOK, TablesOK
  <1>4. ASSUME NEW r \in Router, NEW s \in Shard, MoveTenant(r, t, s)
        PROVE  /\ directory'[t].version = directory[t].version
               /\ directory'[t].shard = directory[t].shard
    BY <1>1, <1>4 DEF MoveTenant, TypeOK, TablesOK, Entry
  <1> QED BY <1>1, <1>2, <1>3, <1>4, DirectoryChanges, EnrollEffect

LEMMA VersionStep ==
  ASSUME TypeOK, MoverMarked, VersionTellsStale, [Next]_vars
  PROVE  VersionTellsStale'
  <1> SUFFICES ASSUME NEW q \in Router, NEW t \in Tenant, cache'[q][t] # NoEntry
               PROVE  /\ directory'[t] # NoEntry
                      /\ cache'[q][t].version <= directory'[t].version
                      /\ cache'[q][t].version = directory'[t].version =>
                           cache'[q][t].shard = directory'[t].shard
    BY DEF VersionTellsStale
  <1>1. CASE cache'[q][t] = cache[q][t]
    <2>1. cache[q][t].version \in Nat
      BY <1>1 DEF TypeOK, CacheOK, CacheEntry
    <2>2. /\ directory[t] # NoEntry
          /\ cache[q][t].version <= directory[t].version
          /\ cache[q][t].version = directory[t].version => cache[q][t].shard = directory[t].shard
      BY <1>1 DEF VersionTellsStale
    <2> QED BY <1>1, <2>1, <2>2, VersionsGrow
  <1>2. CASE /\ directory[t] # NoEntry /\ directory' = directory
             /\ cache'[q][t] = [shard |-> directory[t].shard, version |-> directory[t].version]
    <2>1. directory[t].version \in Nat
      BY <1>2, VersionsGrow
    <2> QED BY <1>2, <2>1
  <1> QED BY <1>1, <1>2, CacheChanges

\* "bumped on every move, so caches can tell an old mapping from a new one"
\* (init/directory/01_schema.sql): for any number of routers, moves, failed
\* moves and crashes, a router whose cached version is the directory's has the
\* directory's shard, and no cache is ahead of the directory.
THEOREM VersionTellsOldFromNew == Spec => []VersionTellsStale
  <1> DEFINE Inv == TypeOK /\ MoverExclusive /\ MoverMarked /\ VersionTellsStale
  <1>1. Init => Inv
    BY TypeInit, MoversInit DEF Init, VersionTellsStale
  <1>2. Inv /\ [Next]_vars => Inv'
    BY TypeStep, MoversStep, VersionStep
  <1> QED BY <1>1, <1>2, PTL DEF Spec

(***************************************************************************)
(* Owners, as long as no process dies inside a call.                       *)
(***************************************************************************)
\* A shard hosts a tenant only on behalf of somebody: the onboarding that is
\* about to enroll it, the directory row, or the mover that is about to flip it.
Owner(s, t) ==
    \/ /\ directory[t] = NoEntry
       /\ \E q \in Router : pc[q] = "enroll" /\ ten[q] = t /\ tgt[q] = s
    \/ /\ directory[t] # NoEntry
       /\ \/ directory[t].shard = s
          \/ \E q \in Router : pc[q] \in {"commit", "flip"} /\ ten[q] = t /\ tgt[q] = s

HostedByOwner == \A t \in Tenant, s \in Shard : t \in hosted[s] => Owner(s, t)

\* Orders are numbered in the order they are acknowledged.
NumbersBounded ==
    \A s \in Shard : \A o \in orders[s] : o.no <= placed[o.tenant]

\* Calls in their last statements.
Finishing == {"enroll", "commit", "flip"}

\* An owner stays one as long as its row and its call stay as they are.
LEMMA OwnerKept ==
  ASSUME NEW s \in Shard, NEW t \in Tenant, Owner(s, t),
         directory'[t] = directory[t],
         \A q \in Router : pc[q] \in Finishing /\ ten[q] = t =>
             /\ pc'[q] \in Finishing /\ ten'[q] = t /\ tgt'[q] = tgt[q]
             /\ pc[q] = "enroll" <=> pc'[q] = "enroll"
  PROVE  Owner(s, t)'
  BY DEF Owner, Finishing

\* Without crashes a call under way is ended by its own steps only.
LEMMA QuietEnvironment ==
  ASSUME ~CanCrash, TypeOK, Environment
  PROVE  \A q \in Router : pc[q] \in Finishing => SameCall(q)
  <1>1. ASSUME NEW r \in Router, Crash(r) PROVE FALSE
    BY <1>1 DEF Crash
  <1>2. ASSUME NEW r \in Router, NewRouter(r), NEW q \in Router, pc[q] \in Finishing
        PROVE  SameCall(q)
    BY <1>2 DEF NewRouter, registers, Goto, SameCall, TypeOK, CallsOK, Finishing
  <1>3. ASSUME NEW s \in Shard, RegisterShard(s) \/ CloseShard(s), NEW q \in Router
        PROVE  SameCall(q)
    BY <1>3 DEF RegisterShard, CloseShard, registers, SameCall
  <1>4. ASSUME UNCHANGED vars, NEW q \in Router PROVE SameCall(q)
    BY <1>4 DEF vars, SameCall
  <1> QED BY <1>1, <1>2, <1>3, <1>4 DEF Environment

LEMMA OwnerStep ==
  ASSUME ~CanCrash, TypeOK, MoverExclusive, MoverMarked, HostedWhenNeeded, OnboardingIsNew,
         HostedByOwner, [Next]_vars
  PROVE  HostedByOwner'
  <1> SUFFICES ASSUME NEW t \in Tenant, NEW s \in Shard, t \in hosted'[s] PROVE Owner(s, t)'
    BY DEF HostedByOwner
  <1> USE DEF Finishing
  <1>1. ASSUME NEW r \in Router, InsertStep(r) PROVE Owner(s, t)'
    <2>1. Owner(s, t) /\ directory' = directory
      BY <1>1, InsertFrame DEF HostedByOwner
    <2>2. \A q \in Router : pc[q] \in Finishing => SameCall(q)
      BY <1>1, InsertFrame DEF Writing
    <2> QED BY <2>1, <2>2, OwnerKept DEF SameCall
  <1>2. ASSUME NEW r \in Router, OnboardStep(r) PROVE Owner(s, t)'
    <2>1. \A q \in Router : q # r => SameCall(q)
      BY <1>2, OnboardFrame
    <2>2. pc[r] \in Onboarding /\ ten[r] \in Tenant /\ tgt[r] \in Shard
      BY <1>2, OnboardFrame, RegisterTypes
    <2>3. directory[ten[r]] = NoEntry /\ \A q \in Router : pc[q] \in Onboarding /\ ten[q] = ten[r] => q = r
      BY <2>2 DEF OnboardingIsNew
    <2>4. CASE HostTenant(r)
      <3>1. /\ pc[r] = "host" /\ pc'[r] = "enroll" /\ directory' = directory
            /\ ten'[r] = ten[r] /\ tgt'[r] = tgt[r]
            /\ hosted'[s] = IF s = tgt[r] THEN hosted[s] \cup {ten[r]} ELSE hosted[s]
        BY <2>2, <2>4 DEF HostTenant, Goto, registers, TypeOK, TablesOK, CallsOK
      <3>2. CASE s = tgt[r] /\ t = ten[r]
        BY <2>3, <3>1, <3>2 DEF Owner
      <3>3. CASE ~(s = tgt[r] /\ t = ten[r])
        <4>1. Owner(s, t)
          BY <3>1, <3>3 DEF HostedByOwner
        <4> QED BY <2>1, <3>1, <4>1, OwnerKept DEF SameCall
      <3> QED BY <3>2, <3>3
    <2>5. CASE HostConflict(r)
      <3>1. pc[r] = "host" /\ directory' = directory /\ hosted' = hosted
        BY <2>5 DEF HostConflict, databases
      <3>2. Owner(s, t)
        BY <3>1 DEF HostedByOwner
      <3> QED BY <2>1, <3>1, <3>2, OwnerKept DEF SameCall
    <2>6. CASE EnrollTenant(r)
      <3>1. hosted' = hosted /\ Owner(s, t)
        BY <2>6, EnrollEffect DEF HostedByOwner
      <3>2. CASE t = ten[r]
        <4>1. s = tgt[r]
          BY <2>3, <3>1, <3>2 DEF Owner, Onboarding
        <4> QED BY <2>6, <3>2, <4>1, EnrollEffect DEF Owner
      <3>3. CASE t # ten[r]
        <4>1. directory'[t] = directory[t]
          BY <2>6, <3>3 DEF EnrollTenant, TypeOK, TablesOK
        <4> QED BY <2>1, <3>1, <3>3, <4>1, OwnerKept DEF SameCall
      <3> QED BY <3>2, <3>3
    <2> QED BY <1>2, <2>4, <2>5, <2>6 DEF OnboardStep
  <1>3. ASSUME NEW r \in Router, MoveStep(r) PROVE Owner(s, t)'
    <2>1. pc[r] \in Moving /\ ten[r] \in Tenant /\ at[r] \in Shard /\ tgt[r] \in Shard
      BY <1>3, MoveFrame, RegisterTypes
    <2>2. \A q \in Router : q # r /\ pc[q] \in Finishing => SameCall(q)
      BY <1>3, MoveFrame
    <2>3. directory[ten[r]] # NoEntry /\ directory[ten[r]].shard = at[r]
          /\ \A q \in Router : pc[q] \in Moving /\ ten[q] = ten[r] => q = r
      BY <2>1 DEF MoverMarked, MoverExclusive
    <2>4. CASE FenceSource(r) \/ ReadSource(r) \/ CopyFails(r)
      <3>1. pc[r] \notin Finishing /\ directory' = directory /\ hosted' = hosted
        BY <2>4 DEF FenceSource, ReadSource, CopyFails, databases
      <3>2. Owner(s, t)
        BY <3>1 DEF HostedByOwner
      <3> QED BY <2>2, <3>1, <3>2, OwnerKept DEF SameCall
    <2>5. CASE CopyToTarget(r)
      <3>1. /\ pc[r] = "copy" /\ pc'[r] = "commit" /\ directory' = directory
            /\ ten'[r] = ten[r] /\ tgt'[r] = tgt[r]
            /\ hosted'[s] = IF s = tgt[r] THEN hosted[s] \cup {ten[r]} ELSE hosted[s]
        BY <2>1, <2>5 DEF CopyToTarget, Goto, registers, TypeOK, TablesOK, CallsOK
      <3>2. CASE s = tgt[r] /\ t = ten[r]
        BY <2>3, <3>1, <3>2 DEF Owner
      <3>3. CASE ~(s = tgt[r] /\ t = ten[r])
        <4>1. Owner(s, t)
          BY <3>1, <3>3 DEF HostedByOwner
        <4> QED BY <2>2, <3>1, <4>1, OwnerKept DEF SameCall
      <3> QED BY <3>2, <3>3
    <2>6. CASE CommitSource(r)
      <3>1. /\ pc[r] = "commit" /\ pc'[r] = "flip" /\ directory' = directory
            /\ ten'[r] = ten[r] /\ tgt'[r] = tgt[r] /\ hosted'[s] \subseteq hosted[s]
        BY <2>1, <2>6 DEF CommitSource, registers, TypeOK, TablesOK, CallsOK
      <3>2. Owner(s, t)
        BY <3>1 DEF HostedByOwner
      <3> QED BY <2>2, <3>1, <3>2, OwnerKept DEF SameCall
    <2>7. CASE FlipDirectory(r)
      <3>1. hosted' = hosted /\ Owner(s, t) /\ pc[r] = "flip"
        BY <2>7, FlipEffect DEF HostedByOwner
      <3>2. CASE t = ten[r]
        <4>1. s # at[r]
          BY <3>1, <3>2 DEF HostedWhenNeeded, HostedFor
        <4>2. s = tgt[r]
          BY <2>3, <3>1, <3>2, <4>1 DEF Owner, Moving, Fencing
        <4> QED BY <2>7, <3>2, <4>2, FlipEffect DEF Owner
      <3>3. CASE t # ten[r]
        <4>1. directory'[t] = directory[t]
          BY <2>7, <3>3 DEF FlipDirectory, TypeOK, TablesOK
        <4> QED BY <2>2, <3>1, <3>3, <4>1, OwnerKept DEF SameCall
      <3> QED BY <3>2, <3>3
    <2> QED BY <1>3, <2>4, <2>5, <2>6, <2>7 DEF MoveStep
  <1>4. ASSUME NEW r \in Router, NEW u \in Tenant, Call(r, u) PROVE Owner(s, t)'
    <2>1. Owner(s, t) /\ \A q \in Router : pc[q] \in Finishing => SameCall(q)
      BY <1>4, CallFrame DEF HostedByOwner
    <2>2. CASE directory'[t] = directory[t]
      BY <2>1, <2>2, OwnerKept DEF SameCall
    <2>3. ASSUME NEW d \in Shard, MoveTenant(r, t, d) PROVE Owner(s, t)'
      <3>1. directory[t] # NoEntry /\ directory'[t] # NoEntry /\ directory'[t].shard = directory[t].shard
        BY <2>3, MarkEffect DEF Active
      <3> QED BY <2>1, <3>1 DEF Owner, SameCall
    <2>4. CASE \E d \in Shard : MoveTenant(r, u, d) /\ u # t
      BY <2>2, <2>4 DEF MoveTenant, TypeOK, TablesOK
    <2> QED BY <1>4, <2>2, <2>3, <2>4, CallFrame
  <1>5. CASE Environment
    <2>1. Owner(s, t) /\ directory' = directory
      BY <1>5, EnvironmentFrame DEF HostedByOwner
    <2> QED BY <1>5, <2>1, QuietEnvironment, OwnerKept DEF SameCall
  <1> QED BY <1>1, <1>2, <1>3, <1>4, <1>5, StepCases

LEMMA Owned == ASSUME ~CanCrash PROVE Spec => [](IInv /\ HostedByOwner)
  <1>1. Init => HostedByOwner
    BY DEF Init, HostedByOwner
  <1>2. IInv /\ HostedByOwner /\ [Next]_vars => HostedByOwner'
    BY OwnerStep DEF IInv
  <1> QED BY <1>1, <1>2, Inductive, PTL DEF Spec

\* If no process dies inside a call, two shards never accept writes of one
\* tenant at the same time, although moves, failed copies and onboardings of
\* any number of processes interleave.
THEOREM OneOwnerPerTenant == ASSUME ~CanCrash PROVE Spec => []SingleOwner
  <1>1. IInv /\ HostedByOwner => SingleOwner
    <2> SUFFICES ASSUME IInv, HostedByOwner, NEW t \in Tenant, NEW s1 \in Shard, NEW s2 \in Shard,
                        t \in hosted[s1], ~FenceHeld(s1, t), t \in hosted[s2], ~FenceHeld(s2, t)
                 PROVE  s1 = s2
      BY DEF SingleOwner
    <2>1. Owner(s1, t) /\ Owner(s2, t)
      BY DEF HostedByOwner
    <2>2. CASE directory[t] = NoEntry
      BY <2>1, <2>2 DEF Owner, IInv, OnboardingIsNew, Onboarding
    <2>3. CASE directory[t] # NoEntry
      <3>1. ASSUME NEW q \in Router, pc[q] \in {"commit", "flip"}, ten[q] = t
            PROVE  directory[t].shard \notin {s1, s2}
        <4>1. directory[t].shard = at[q]
          BY <3>1 DEF IInv, MoverMarked, Moving, Fencing
        <4>2. CASE pc[q] = "commit"
          BY <3>1, <4>1, <4>2 DEF FenceHeld, Fencing
        <4>3. CASE pc[q] = "flip"
          BY <3>1, <4>1, <4>3 DEF IInv, HostedWhenNeeded, HostedFor
        <4> QED BY <3>1, <4>2, <4>3
      <3>2. ASSUME NEW p \in Router, pc[p] \in {"commit", "flip"}, ten[p] = t,
                   NEW q \in Router, pc[q] \in {"commit", "flip"}, ten[q] = t
            PROVE  p = q
        BY <3>2 DEF IInv, MoverExclusive, Moving, Fencing
      <3> QED BY <2>1, <2>3, <3>1, <3>2 DEF Owner
    <2> QED BY <2>2, <2>3
  <1> QED BY <1>1, Owned, PTL

(***************************************************************************)
(* The shard a write lands on.                                             *)
(***************************************************************************)
LEMMA OrderNumbers ==
  ASSUME TypeOK, NEW s \in Shard, NEW o \in orders[s]
  PROVE  o.tenant \in Tenant /\ o.no \in Nat /\ placed[o.tenant] \in Nat
  BY DEF TypeOK, TablesOK, Order

LEMMA NumberStep ==
  ASSUME TypeOK, CopyComplete, NumbersBounded, [Next]_vars
  PROVE  NumbersBounded'
  <1> SUFFICES ASSUME NEW s \in Shard, NEW o \in orders'[s] PROVE o.no <= placed'[o.tenant]
    BY DEF NumbersBounded
  <1>1. CASE orders' = orders /\ placed' = placed
    BY <1>1 DEF NumbersBounded
  <1>2. ASSUME NEW r \in Router, CommitInsert(r) PROVE o.no <= placed'[o.tenant]
    <2>1. CASE o \in orders[s]
      BY <1>2, <2>1, OrderNumbers, CommitInsertRows DEF NumbersBounded
    <2>2. CASE o \notin orders[s]
      <3>1. o.tenant = ten[r] /\ o.no = placed[ten[r]] + 1
        BY <1>2, <2>2, CommitInsertRows
      <3> QED BY <1>2, <3>1, CommitInsertRows
    <2> QED BY <2>1, <2>2
  <1>3. ASSUME NEW r \in Router, CopyToTarget(r) PROVE o.no <= placed'[o.tenant]
    <2>1. o \in orders[s] \cup orders[at[r]] /\ at[r] \in Shard /\ placed' = placed
      BY <1>3, CopyRows, RegisterTypes DEF CopyComplete, RowsOf, Moving, Fencing
    <2> QED BY <2>1 DEF NumbersBounded
  <1>4. ASSUME NEW r \in Router, CommitSource(r) PROVE o.no <= placed'[o.tenant]
    <2>1. o \in orders[s] /\ placed' = placed
      BY <1>4, CommitRows
    <2> QED BY <2>1 DEF NumbersBounded
  <1> QED BY <1>1, <1>2, <1>3, <1>4, StepCases, InsertRows, MoveRows, OnboardFrame, CallFrame,
             EnvironmentFrame

LEMMA Numbered == Spec => []NumbersBounded
  <1>1. Init => NumbersBounded
    BY DEF Init, NumbersBounded
  <1>2. IInv /\ NumbersBounded /\ [Next]_vars => NumbersBounded'
    BY NumberStep DEF IInv
  <1> QED BY <1>1, <1>2, Inductive, PTL DEF Spec

\* A row with the next number of its tenant is written by the INSERT that
\* acknowledges it.
LEMMA NextNumberIsNew ==
  ASSUME TypeOK, CopyComplete, NumbersBounded, [Next]_vars, NEW t \in Tenant, NEW s \in Shard,
         NEW o \in orders'[s], o.tenant = t, o.no = placed[t] + 1
  PROVE  \E r \in Router : CommitInsert(r) /\ ten[r] = t /\ at[r] = s
  <1>1. \A d \in Shard : o \notin orders[d]
    BY OrderNumbers DEF NumbersBounded
  <1>2. ASSUME NEW r \in Router, CommitInsert(r) PROVE ten[r] = t /\ at[r] = s
    <2>1. at[r] = s
      BY <1>1, <1>2, CommitInsertRows
    <2> QED BY <1>1, <1>2, <2>1, CommitInsertRows
  <1>3. ASSUME NEW r \in Router, CopyToTarget(r) PROVE FALSE
    <2>1. o \in orders[s] \cup orders[at[r]] /\ at[r] \in Shard
      BY <1>3, CopyRows, RegisterTypes DEF CopyComplete, RowsOf, Moving, Fencing
    <2> QED BY <1>1, <2>1
  <1>4. ASSUME NEW r \in Router, CommitSource(r) PROVE FALSE
    BY <1>1, <1>4, CommitRows
  <1>5. orders' # orders
    BY <1>1
  <1> QED BY <1>2, <1>3, <1>4, <1>5, StepCases, InsertRows, MoveRows, OnboardFrame, CallFrame,
             EnvironmentFrame DEF InsertStep, MoveStep

\* "a router holding a STALE directory entry can't silently write to the old
\* shard after a tenant has moved" (init/shard/01_schema.sql): if no process
\* dies inside a call, every accepted write lands on the shard the directory
\* names, or on the one a mover with a complete copy is about to name.
THEOREM WritesLandWithTheOwner == ASSUME ~CanCrash PROVE Spec => StaleRouterNeverWrites
  <1> DEFINE Lands ==
        \A t \in Tenant, s \in Shard :
          (\E o \in orders'[s] : o.tenant = t /\ o.no = placed[t] + 1) =>
              \/ directory[t] # NoEntry /\ directory[t].shard = s
              \/ \E q \in Router : pc[q] \in {"commit", "flip"} /\ ten[q] = t /\ tgt[q] = s
  <1>1. IInv /\ HostedByOwner /\ NumbersBounded /\ [Next]_vars => Lands
    <2> SUFFICES ASSUME IInv, HostedByOwner, NumbersBounded, [Next]_vars,
                        NEW t \in Tenant, NEW s \in Shard,
                        NEW o \in orders'[s], o.tenant = t, o.no = placed[t] + 1
                 PROVE  \/ directory[t] # NoEntry /\ directory[t].shard = s
                        \/ \E q \in Router : pc[q] \in {"commit", "flip"} /\ ten[q] = t /\ tgt[q] = s
      OBVIOUS
    <2>1. PICK r \in Router : CommitInsert(r) /\ ten[r] = t /\ at[r] = s
      BY NextNumberIsNew DEF IInv
    <2>2. pc[r] = "locked" /\ t \in hosted[s]
      BY <2>1 DEF CommitInsert, IInv, HostedWhenNeeded, HostedFor
    <2>3. Owner(s, t)
      BY <2>2 DEF HostedByOwner
    <2>4. directory[t] # NoEntry
      BY <2>1, <2>2 DEF IInv, UnknownUnrouted, Routed
    <2> QED BY <2>3, <2>4 DEF Owner
  <1>2. Spec => [](IInv /\ HostedByOwner)
    BY Owned
  <1> QED BY <1>1, <1>2, Numbered, PTL DEF Spec, StaleRouterNeverWrites
=============================================================================
