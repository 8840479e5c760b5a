------------------------- MODULE QuotaScalingProofs -------------------------
(***************************************************************************)
(* Proofs about QuotaScaling, for any number of agents and events, any     *)
(* specs and quotas: the HPAs are always valid, and when the reconcilers   *)
(* come to rest they keep within the ceilings of the quota.                *)
(***************************************************************************)
EXTENDS QuotaScaling, SumTheorems

-----------------------------------------------------------------------------
(* The arithmetic of internal/scaling.                                     *)

\* int32 arithmetic stays in an int32, and is exact where no overflow occurs.
LEMMA WrapType ==
  ASSUME NEW i \in Int
  PROVE  Wrap(i) \in Range32
<1> DEFINE n == 2 * (IntMax + 1)
<1>1. n \in Nat \ {0} /\ i + IntMax + 1 \in Int
  BY ScalingAssumption
<1>2. (i + IntMax + 1) % n \in 0..(n - 1)
  BY <1>1, ModBound
<1> QED
  BY <1>2, ScalingAssumption DEF Wrap, Range32

LEMMA WrapExact ==
  ASSUME NEW i \in Range32
  PROVE  Wrap(i) = i
<1> DEFINE n == 2 * (IntMax + 1)
<1>1. n \in Nat \ {0} /\ i + IntMax + 1 \in 0..(n - 1)
  BY ScalingAssumption DEF Range32
<1>2. (i + IntMax + 1) % n = i + IntMax + 1
  BY <1>1, ModSmall
<1> QED
  BY <1>2, ScalingAssumption DEF Wrap, Range32

\* The headroom is an int32 and not negative, whatever overflows.
LEMMA HeadroomType ==
  ASSUME NEW quota \in Quotas, NEW used \in Int
  PROVE  QuotaHeadroom(quota, used) \in 0..IntMax
<1>1. quota.total \in 1..IntMax /\ quota.perAgent \in 1..IntMax /\ IntMax \in Nat
  BY ScalingAssumption
<1>2. Wrap(quota.total - used) \in Range32
  BY <1>1, WrapType
<1> QED
  BY <1>1, <1>2 DEF QuotaHeadroom, Min2, Max2, Range32

\* The headroom is what the smaller ceiling leaves.
LEMMA HeadroomExact ==
  ASSUME NEW quota \in Quotas, NEW used \in 0..IntMax
  PROVE  /\ QuotaHeadroom(quota, used) = Min2(quota.perAgent, Max2(0, quota.total - used))
         /\ QuotaHeadroom(quota, used) <= Min2(quota.perAgent, quota.total)
<1>1. quota.total \in 1..IntMax /\ quota.perAgent \in 1..IntMax /\ IntMax \in Nat
  BY ScalingAssumption
<1>2. quota.total - used \in Range32
  BY <1>1 DEF Range32
<1>3. Wrap(quota.total - used) = quota.total - used
  BY <1>2, WrapExact
<1> QED
  BY <1>1, <1>3 DEF QuotaHeadroom, Min2, Max2

\* The maxima of existing agents have a sum, and it is a number.
LEMMA TotalType ==
  ASSUME NEW objects \in [Agents -> Or(ADs)], NEW S \in SUBSET Exist(objects)
  PROVE  /\ IsFiniteSet(S) /\ S \subseteq Agents
         /\ \A o \in S : objects[o].spec.max \in 1..IntMax
         /\ Total(objects, S) \in Nat
<1>1. IsFiniteSet(S) /\ S \subseteq Agents
  BY FS_Subset, ScalingAssumption DEF Exist
<1>2. ASSUME NEW o \in S
      PROVE  objects[o].spec.max \in 1..IntMax
  <2>1. objects[o] \in ADs
    BY DEF Exist, Or
  <2> QED
    BY <2>1, ScalingAssumption DEF ADs
<1> DEFINE F == [a \in S |-> objects[a].spec.max]
<1>3. \A o \in S : F[o] \in Int /\ F[o] >= 0
  BY <1>2, ScalingAssumption
<1>4. Total(objects, S) = SumFunctionOnSet(F, S)
  BY DEF Total
<1> HIDE DEF F
<1>5. SumFunctionOnSet(F, {}) <= SumFunctionOnSet(F, S)
  <2>1. {} \in SUBSET S /\ \A o \in S \ {} : F[o] >= 0
    BY <1>3
  <2> QED
    BY <1>1, <1>3, <2>1, SumMonotone
<1>6. SumFunctionOnSet(F, {}) = 0 /\ SumFunctionOnSet(F, S) \in Int
  BY <1>1, <1>3, SumEmpty, SumInt
<1> QED
  BY <1>1, <1>2, <1>4, <1>5, <1>6

LEMMA OthersType ==
  ASSUME NEW objects \in [Agents -> Or(ADs)], NEW a
  PROVE  Others(objects, a) \in Nat
<1>1. {o \in Exist(objects) \ {a} : ~objects[o].deleting} \in SUBSET Exist(objects)
  OBVIOUS
<1> QED
  BY <1>1, TotalType DEF Others

\* Where SumsFit holds, the maxima of the others are added up without overflow.
LEMMA OthersFit ==
  ASSUME SumsFit, NEW objects \in [Agents -> Or(ADs)], NEW a \in Agents
  PROVE  /\ Others(objects, a) \in 0..IntMax
         /\ replicasUsedByOtherAgents(objects, a) = Others(objects, a)
<1> DEFINE S == {o \in Exist(objects) \ {a} : ~objects[o].deleting}
           F == [o \in S |-> objects[o].spec.max]
<1>1. PICK cap \in 1..IntMax :
        (\A s \in Specs : s.max <= cap) /\ cap * (Cardinality(Agents) - 1) <= IntMax
  BY DEF SumsFit
<1>2. S \in SUBSET Exist(objects) /\ S \in SUBSET (Agents \ {a})
  BY DEF Exist
<1>3. /\ IsFiniteSet(S) /\ Cardinality(S) \in Nat /\ Cardinality(Agents) \in Nat /\ IntMax \in Nat
      /\ Cardinality(S) <= Cardinality(Agents) - 1
  <2>1. IsFiniteSet(Agents \ {a}) /\ Cardinality(Agents \ {a}) = Cardinality(Agents) - 1
    BY ScalingAssumption, FS_RemoveElement
  <2>2. IsFiniteSet(S) /\ Cardinality(S) <= Cardinality(Agents \ {a})
    BY <1>2, <2>1, FS_Subset
  <2> QED
    BY <2>1, <2>2, FS_CardinalityType, ScalingAssumption
<1>4. ASSUME NEW o \in S
      PROVE  F[o] \in Int /\ -cap <= F[o] /\ F[o] <= cap
  <2>1. objects[o].spec.max \in 1..IntMax
    BY <1>2, TotalType
  <2>2. objects[o].spec \in Specs
    BY <1>2 DEF Exist, Or, ADs
  <2> QED
    BY <1>1, <2>1, <2>2, ScalingAssumption
<1>5. Others(objects, a) = SumFunctionOnSet(F, S)
  BY DEF Others, Total
<1> HIDE DEF F, S
<1>6. SumFunctionOnSet(F, S) <= cap * Cardinality(S)
  <2>1. cap \in Int
    BY <1>3
  <2> QED
    BY <1>3, <1>4, <2>1, SumBound
<1>7. cap * Cardinality(S) <= IntMax /\ cap * Cardinality(S) \in Int
  <2>1. ASSUME NEW m \in Nat, NEW n \in Int, m <= n
        PROVE  cap * m <= cap * n /\ cap * m \in Int /\ cap * n \in Int
    BY <2>1, ScalingAssumption
  <2> QED
    BY <1>1, <1>3, <2>1
<1>8. Others(objects, a) \in Nat
  BY OthersType
<1>9. Others(objects, a) \in 0..IntMax
  BY <1>3, <1>5, <1>6, <1>7, <1>8
<1> QED
  BY <1>3, <1>9, WrapExact DEF replicasUsedByOtherAgents, Range32

\* Whatever the headroom, the HPA is one that the API server accepts.
LEMMA HPAValid ==
  ASSUME NEW spec \in Specs, NEW headroom \in 0..IntMax
  PROVE  /\ BuildHPA(spec, headroom) \in HPAs
         /\ BuildHPA(spec, headroom).min = spec.min
         /\ BuildHPA(spec, headroom).max <= Max2(spec.min, headroom)
         /\ BuildHPA(spec, headroom).max < spec.max => IsQuotaCapped(spec, headroom)
<1>1. /\ spec.min \in 1..IntMax /\ spec.max \in 1..IntMax /\ spec.min <= spec.max
      /\ IntMax \in Nat
  BY ScalingAssumption
<1>2. BuildHPA(spec, headroom) \in HPAs
  BY <1>1 DEF BuildHPA, HPAs, Min2, Max2
<1>3. /\ BuildHPA(spec, headroom).min = spec.min
      /\ BuildHPA(spec, headroom).max <= Max2(spec.min, headroom)
      /\ BuildHPA(spec, headroom).max < spec.max => IsQuotaCapped(spec, headroom)
  BY <1>1 DEF BuildHPA, Min2, Max2, IsQuotaCapped
<1> QED
  BY <1>2, <1>3

-----------------------------------------------------------------------------
(* Type correctness.                                                       *)

LEMMA NotifyType ==
  ASSUME TypeOK, Notify
  PROVE  late' \in [ads : SUBSET Agents, tq : BOOLEAN, hpas : SUBSET Agents]
BY DEF TypeOK, Notify

\* What a reconcile computes from the informer's copies.
LEMMA GetQuotaType ==
  ASSUME TypeOK, seen.tq # None, NEW a \in Agents
  PROVE  /\ QuotaHeadroom(seen.tq.quota, replicasUsedByOtherAgents(seen.ads, a)) \in 0..IntMax
         /\ SumsFit => QuotaHeadroom(seen.tq.quota, replicasUsedByOtherAgents(seen.ads, a))
                         <= Min2(seen.tq.quota.perAgent, seen.tq.quota.total)
<1>1. seen.tq.quota \in Quotas /\ seen.ads \in [Agents -> Or(ADs)]
  BY DEF TypeOK, Or, TQs
<1>2. replicasUsedByOtherAgents(seen.ads, a) \in Int
  BY <1>1, OthersType, WrapType, ScalingAssumption DEF replicasUsedByOtherAgents, Range32
<1>3. SumsFit => replicasUsedByOtherAgents(seen.ads, a) \in 0..IntMax
  BY <1>1, OthersFit
<1> QED
  BY <1>1, <1>2, <1>3, HeadroomType, HeadroomExact

LEMMA UsageType ==
  ASSUME NEW objects \in [Agents -> Or(ADs)]
  PROVE  ComputeUsage(objects) \in [agents : Nat, replicas : Range32]
<1>1. Exist(objects) \subseteq Agents /\ Exist(objects) \in SUBSET Exist(objects)
  BY DEF Exist
<1>2. Cardinality(Exist(objects)) \in Nat
  BY <1>1, ScalingAssumption, FS_Subset, FS_CardinalityType
<1>3. Wrap(Total(objects, Exist(objects))) \in Range32
  BY <1>1, TotalType, WrapType
<1> QED
  BY <1>2, <1>3 DEF ComputeUsage

LEMMA StatusType ==
  ASSUME NEW quota \in Quotas, NEW usage \in [agents : Nat, replicas : Range32]
  PROVE  NewStatus(quota, usage) \in Usages
BY DEF NewStatus, Usages

LEMMA InitType ==
  ASSUME Init
  PROVE  TypeOK
<1>1. PICK S \in SUBSET Agents, f \in [Agents -> Specs], q \in Quotas : SettledAt(S, f, q)
  BY DEF Init
<1> DEFINE all == [a \in Agents |-> IF a \in S THEN [Created(f[a]) EXCEPT !.phase = "steady", !.observed = TRUE]
                                    ELSE None]
<1> DEFINE room(a) == QuotaHeadroom(q, replicasUsedByOtherAgents(all, a))
<1>2. all \in [Agents -> Or(ADs)]
  BY DEF Or, ADs, Created, Limited
<1> HIDE DEF all
<1>3. ASSUME NEW a \in Agents
      PROVE  room(a) \in 0..IntMax
  <2>1. replicasUsedByOtherAgents(all, a) \in Int
    BY <1>2, OthersType, WrapType, ScalingAssumption DEF replicasUsedByOtherAgents, Range32
  <2> QED
    BY <2>1, HeadroomType
<1> HIDE DEF room
<1>4. hpas \in [Agents -> Or(HPAs)]
  BY <1>1, <1>3, HPAValid DEF SettledAt, Or, all, room
<1>5. ads \in [Agents -> Or(ADs)]
  <2>1. \A a \in Agents : Capped(f[a], room(a)) \in Limited
    BY DEF Capped, Limited
  <2>2. \A a \in S : all[a] \in ADs
    BY DEF all, ADs, Created, Limited
  <2>3. ads = [a \in Agents |-> IF a \in S THEN [all[a] EXCEPT !.limited = Capped(f[a], room(a))] ELSE None]
    BY <1>1 DEF SettledAt, all, room
  <2> QED
    BY <2>1, <2>2, <2>3 DEF Or, ADs
<1>6. tq \in Or(TQs)
  <2>1. NewStatus(q, ComputeUsage(all)) \in Usages
    BY <1>2, UsageType, StatusType
  <2> QED
    BY <1>1, <2>1 DEF SettledAt, Or, TQs, all
<1>7. /\ seen \in [ads : [Agents -> Or(ADs)], tq : Or(TQs), hpas : [Agents -> Or(HPAs)]]
      /\ late \in [ads : SUBSET Agents, tq : BOOLEAN, hpas : SUBSET Agents]
  BY <1>4, <1>5, <1>6 DEF Init, Nothing
<1>8. work \in Or(Works) /\ tqWork \in Or([agents : Nat, replicas : Range32])
  BY DEF Init, Or
<1>9. queue \subseteq Agents /\ tqQueued \in BOOLEAN /\ events \in 0..MaxEvents /\ calm \in BOOLEAN
  <2>1. 0 \in 0..MaxEvents
    BY ScalingAssumption
  <2> QED
    BY <2>1, Zenon DEF Init
<1> QED
  BY <1>4, <1>5, <1>6, <1>7, <1>8, <1>9 DEF TypeOK

\* The steps of the AgentDeployment reconciler.
LEMMA WorkerType ==
  ASSUME TypeOK, ADWorker
  PROVE  TypeOK'
<1> USE DEF Or
<1> DEFINE Rest == /\ UNCHANGED <<tq, seen, tqQueued, tqWork, events, calm>>
                   /\ late' \in [ads : SUBSET Agents, tq : BOOLEAN, hpas : SUBSET Agents]
<1>1. ASSUME Rest, ads' \in [Agents -> Or(ADs)], hpas' \in [Agents -> Or(HPAs)],
             queue' \subseteq Agents, work' \in Or(Works)
      PROVE  TypeOK'
  BY <1>1 DEF TypeOK
<1>2. Elsewhere => Rest
  BY NotifyType DEF Elsewhere
<1> HIDE DEF Rest
<1>3. ASSUME work # None
      PROVE  /\ work \in Works /\ work.agent \in Agents /\ work.spec \in Specs
             /\ work.headroom \in 0..IntMax
             /\ (Again => work' \in Or(Works) /\ queue' \subseteq Agents)
             /\ (Done => work' \in Or(Works) /\ queue' \subseteq Agents)
             /\ \A p \in Points : (Goto(p) => work' \in Or(Works) /\ queue' \subseteq Agents)
  BY <1>3 DEF TypeOK, Works, Again, Done, Goto
<1>4. CASE Reconcile
  <2>1. PICK a \in queue :
          /\ queue' = queue \ {a}
          /\ work' = IF seen.ads[a] = None THEN None
                     ELSE [agent |-> a, at |-> Dispatch(seen.ads[a], a \notin late.ads),
                           spec |-> seen.ads[a].spec, headroom |-> 0, limited |-> "none"]
    BY <1>4 DEF Reconcile
  <2>2. a \in Agents /\ seen.ads[a] \in Or(ADs) /\ 0 \in 0..IntMax
    BY ScalingAssumption DEF TypeOK
  <2>3. work' \in Or(Works)
    BY <2>1, <2>2 DEF Works, ADs, Dispatch, Points, Limited
  <2> QED
    BY <1>1, <1>2, <1>4, <2>1, <2>3 DEF Reconcile, TypeOK
<1>5. CASE RemoveFinalizer
  <2>1. ads' \in [Agents -> Or(ADs)] /\ hpas' \in [Agents -> Or(HPAs)]
    BY <1>5 DEF RemoveFinalizer, TypeOK
  <2> QED
    BY <1>1, <1>2, <1>3, <1>5, <2>1 DEF RemoveFinalizer, At
<1>6. CASE PauseHPA
  <2>1. ads' \in [Agents -> Or(ADs)] /\ hpas' \in [Agents -> Or(HPAs)]
    BY <1>6 DEF PauseHPA, TypeOK
  <2> QED
    BY <1>1, <1>2, <1>3, <1>6, <2>1 DEF PauseHPA, At, Points
<1>7. CASE StartStatus
  <2>1. ads' \in [Agents -> Or(ADs)] /\ hpas' \in [Agents -> Or(HPAs)]
    BY <1>3, <1>7 DEF StartStatus, At, TypeOK, ADs
  <2> QED
    BY <1>1, <1>2, <1>3, <1>7, <2>1 DEF StartStatus, At
<1>8. CASE restoreHPA
  <2>1. BuildHPA(work.spec, 0) \in HPAs
    <3>1. work.spec \in Specs /\ 0 \in 0..IntMax
      BY <1>3, <1>8, ScalingAssumption DEF restoreHPA, At
    <3> QED
      BY <3>1, HPAValid
  <2>2. ads' \in [Agents -> Or(ADs)] /\ hpas' \in [Agents -> Or(HPAs)]
    BY <1>8, <2>1 DEF restoreHPA, CreateOrUpdate, TypeOK
  <2> QED
    BY <1>1, <1>2, <1>3, <1>8, <2>2 DEF restoreHPA, CreateOrUpdate, At, Points
<1>9. CASE EndStatus
  <2>1. ads' \in [Agents -> Or(ADs)] /\ hpas' \in [Agents -> Or(HPAs)]
    BY <1>3, <1>9 DEF EndStatus, At, TypeOK, ADs
  <2> QED
    BY <1>1, <1>2, <1>3, <1>9, <2>1 DEF EndStatus, At
<1>10. CASE GetQuota
  <2> DEFINE h == QuotaHeadroom(seen.tq.quota, replicasUsedByOtherAgents(seen.ads, work.agent))
  <2>1. seen.tq # None => h \in 0..IntMax
    BY <1>3, <1>10, GetQuotaType DEF GetQuota, At
  <2>2. work' = IF seen.tq = None
                  THEN [work EXCEPT !.at = "status", !.limited = "TenantQuotaNotFound"]
                  ELSE [work EXCEPT !.at = "write", !.headroom = h, !.limited = Capped(work.spec, h)]
    BY <1>10 DEF GetQuota
  <2> HIDE DEF h
  <2>3. work' \in Works
    BY <1>3, <1>10, <2>1, <2>2 DEF GetQuota, At, Works, Points, Limited, Capped
  <2> QED
    BY <1>1, <1>2, <1>10, <2>3 DEF GetQuota, TypeOK
<1>11. CASE reconcileHPA
  <2>1. BuildHPA(work.spec, work.headroom) \in HPAs
    BY <1>3, <1>11, HPAValid DEF reconcileHPA, At
  <2>2. ads' \in [Agents -> Or(ADs)] /\ hpas' \in [Agents -> Or(HPAs)]
    BY <1>11, <2>1 DEF reconcileHPA, CreateOrUpdate, TypeOK
  <2> QED
    BY <1>1, <1>2, <1>3, <1>11, <2>2 DEF reconcileHPA, CreateOrUpdate, At, Points
<1>12. CASE updateStatus
  <2>1. work \in Works /\ work.limited \in Limited /\ work.agent \in Agents
    BY <1>3, <1>12 DEF updateStatus, At, Works
  <2>2. seen.ads[work.agent] \in Or(ADs) /\ ads \in [Agents -> Or(ADs)]
    BY <2>1 DEF TypeOK
  <2> DEFINE latest == seen.ads[work.agent]
  <2> DEFINE new == IF latest = None THEN None
                    ELSE [latest EXCEPT !.limited = work.limited, !.observed = TRUE,
                                        !.phase = IF @ = "new" THEN "steady" ELSE @]
  <2>3. new \in Or(ADs)
    BY <2>1, <2>2 DEF ADs
  <2>4. ads' = ads \/ ads' = [ads EXCEPT ![work.agent] = IF new # latest THEN new ELSE @]
    BY <1>12 DEF updateStatus
  <2> HIDE DEF new
  <2>5. ads' \in [Agents -> Or(ADs)] /\ hpas' \in [Agents -> Or(HPAs)]
    BY <1>12, <2>1, <2>2, <2>3, <2>4 DEF updateStatus, TypeOK
  <2> QED
    BY <1>1, <1>2, <1>3, <1>12, <2>5 DEF updateStatus, At
<1> QED
  BY <1>4, <1>5, <1>6, <1>7, <1>8, <1>9, <1>10, <1>11, <1>12 DEF ADWorker

LEMMA TypeInductive ==
  ASSUME TypeOK, Next
  PROVE  TypeOK'
<1> USE DEF Or
<1>1. ASSUME Event
      PROVE  events' \in 0..MaxEvents
  BY <1>1, ScalingAssumption DEF Event, TypeOK
<1>2. CASE ADWorker
  BY <1>2, WorkerType
<1>3. CASE TQReconcile
  <2>1. tqWork' \in Or([agents : Nat, replicas : Range32])
    <3>1. ComputeUsage(seen.ads) \in [agents : Nat, replicas : Range32]
      BY UsageType DEF TypeOK
    <3> QED
      BY <1>3, <3>1 DEF TQReconcile
  <2> QED
    BY <1>3, <2>1 DEF TQReconcile, TypeOK
<1>4. CASE TQUpdate
  <2>1. tq' \in Or(TQs)
    <3>1. CASE seen.tq = None
      BY <1>4, <3>1 DEF TQUpdate, TypeOK
    <3>2. CASE seen.tq # None
      <4>1. seen.tq \in TQs /\ seen.tq.quota \in Quotas /\ tqWork \in [agents : Nat, replicas : Range32]
        BY <1>4, <3>2 DEF TQUpdate, TypeOK, TQs
      <4>2. NewStatus(seen.tq.quota, tqWork) \in Usages
        BY <4>1, StatusType
      <4> QED
        BY <1>4, <4>1, <4>2 DEF TQUpdate, TypeOK, TQs
    <3> QED
      BY <3>1, <3>2
  <2>2. late' \in [ads : SUBSET Agents, tq : BOOLEAN, hpas : SUBSET Agents]
    BY <1>4, NotifyType DEF TQUpdate
  <2> QED
    BY <1>4, <2>1, <2>2 DEF TQUpdate, TypeOK
<1>5. CASE Sync
  <2> DEFINE Synced ==
        /\ seen' \in [ads : [Agents -> Or(ADs)], tq : Or(TQs), hpas : [Agents -> Or(HPAs)]]
        /\ late' \in [ads : SUBSET Agents, tq : BOOLEAN, hpas : SUBSET Agents]
        /\ queue' \subseteq Agents /\ tqQueued' \in BOOLEAN
        /\ UNCHANGED <<ads, tq, hpas, work, tqWork, events, calm>>
  <2>1. Synced
    <3>1. CASE SyncTQ
      BY <3>1 DEF SyncTQ, TypeOK, enqueueAgentDeploymentsForTenantQuota, Exist
    <3>2. ASSUME NEW a \in Agents, SyncAD(a)
          PROVE  Synced
      BY <3>2 DEF SyncAD, TypeOK
    <3>3. ASSUME NEW a \in Agents, SyncHPA(a)
          PROVE  Synced
      BY <3>3 DEF SyncHPA, TypeOK
    <3> QED
      BY <1>5, <3>1, <3>2, <3>3 DEF Sync
  <2> QED
    BY <2>1 DEF TypeOK
<1>6. CASE EditQuota
  <2>1. tq' \in Or(TQs)
    <3>1. CASE tq = None
      <4>1. PICK q \in Quotas : tq' = NewTQ(q)
        BY <1>6, <3>1 DEF EditQuota
      <4>2. 0 \in Range32 /\ 0 \in Nat
        BY ScalingAssumption DEF Range32
      <4> QED
        BY <4>1, <4>2 DEF NewTQ, TQs, Usages
    <3>2. CASE tq # None
      BY <1>6, <3>2 DEF EditQuota, TypeOK, TQs
    <3> QED
      BY <3>1, <3>2
  <2>2. late' \in [ads : SUBSET Agents, tq : BOOLEAN, hpas : SUBSET Agents]
    BY <1>6, NotifyType DEF EditQuota
  <2> QED
    BY <1>1, <1>6, <2>1, <2>2 DEF EditQuota, TypeOK
<1>7. ASSUME NEW a \in Agents, EditAgent(a)
      PROVE  TypeOK'
  <2>1. ads' \in [Agents -> Or(ADs)]
    <3>1. PICK ad \in IF ads[a] = None THEN {Created(s) : s \in Specs} ELSE Edits(ads[a]) :
            ads' = [ads EXCEPT ![a] = ad]
      BY <1>7 DEF EditAgent
    <3>2. \A s \in Specs : Created(s) \in ADs
      BY DEF Created, ADs, Limited
    <3>3. ads[a] # None => Edits(ads[a]) \subseteq ADs
      <4>1. SUFFICES ASSUME ads[a] # None, NEW e \in Edits(ads[a])
                     PROVE  e \in ADs
        OBVIOUS
      <4>2. ads[a] \in ADs
        BY <4>1 DEF TypeOK
      <4>3. \/ \E s \in Specs : e = [ads[a] EXCEPT !.spec = s, !.observed = FALSE]
            \/ e = [ads[a] EXCEPT !.deleting = TRUE]
            \/ e = [ads[a] EXCEPT !.phase = "drift"]
        BY <4>1 DEF Edits
      <4> QED
        BY <4>2, <4>3 DEF ADs
    <3>4. ad \in ADs
      BY <3>1, <3>2, <3>3
    <3> QED
      BY <3>1, <3>4 DEF TypeOK
  <2>2. late' \in [ads : SUBSET Agents, tq : BOOLEAN, hpas : SUBSET Agents]
    BY <1>7, NotifyType DEF EditAgent
  <2>3. calm' \in BOOLEAN
    BY <1>7 DEF EditAgent, TypeOK
  <2> QED
    BY <1>1, <1>7, <2>1, <2>2, <2>3 DEF EditAgent, TypeOK
<1>8. ASSUME NEW a \in Agents, DeleteHPA(a)
      PROVE  TypeOK'
  <2>1. late' \in [ads : SUBSET Agents, tq : BOOLEAN, hpas : SUBSET Agents]
    BY <1>8, NotifyType DEF DeleteHPA
  <2> QED
    BY <1>1, <1>8, <2>1 DEF DeleteHPA, TypeOK
<1>9. CASE ADFault
  BY <1>1, <1>9 DEF ADFault, Again, TypeOK, Works
<1>10. CASE TQFault
  BY <1>1, <1>10 DEF TQFault, TypeOK
<1>11. CASE Crash
  BY <1>1, <1>11 DEF Crash, TypeOK, Nothing, Exist
<1> QED
  BY <1>2, <1>3, <1>4, <1>5, <1>6, <1>7, <1>8, <1>9, <1>10, <1>11 DEF Next, Users, Faults

\* Every HPA that is ever written is valid (1 <= min <= max), whatever becomes of the
\* quota and of the agents between the steps of a reconcile: BuildHPA's floor at
\* spec.replicas.min, and QuotaHeadroom's at zero.
THEOREM TypeCorrect == Spec => []TypeOK
<1>1. Init => TypeOK
  BY InitType
<1>2. TypeOK /\ [Next]_vars => TypeOK'
  <2>1. ASSUME TypeOK, UNCHANGED vars
        PROVE  TypeOK'
    BY <2>1 DEF TypeOK, vars
  <2> QED
    BY <2>1, TypeInductive
<1> QED
  BY <1>1, <1>2, PTL DEF Spec

-----------------------------------------------------------------------------
(* The ceilings.  The inductive invariant follows a single agent: either a *)
(* reconcile of it is due, or the one under way is on course, or its HPA   *)
(* and its condition are as they should be.                                *)

\* The informers' copies differ from the objects only where an event is to come.
CacheOK ==
  /\ \A a \in Agents : a \notin late.ads => seen.ads[a] = ads[a]
  /\ \A a \in Agents : a \notin late.hpas => seen.hpas[a] = hpas[a]
  /\ ~late.tq => seen.tq = tq

Pending(a) == a \in queue \/ a \in late.ads \/ a \in late.hpas \/ late.tq

\* The headroom that the reconcile has computed is one of the present quota.
Sized ==
  /\ tq # None
  /\ work.headroom <= Min2(tq.quota.perAgent, tq.quota.total)
  /\ work.limited = Capped(work.spec, work.headroom)

OnCourse(a) ==
  /\ work # None /\ work.agent = a /\ work.spec = ads[a].spec
  /\ work.at \in {"restore", "ended"} => ads[a].phase = "rollout"
  /\ work.at = "write" => Sized
  /\ work.at = "status" /\ work.limited # "TenantQuotaNotFound" =>
       Sized /\ hpas[a] = BuildHPA(work.spec, work.headroom)

Good(a) == tq # None => WithinCeilings(a)

AgentInv == \A a \in Agents : ads[a] # None => Pending(a) \/ OnCourse(a) \/ Good(a)

IInv == TypeOK /\ CacheOK /\ AgentInv

\* An HPA built for a headroom within the ceilings is within them.
LEMMA BuiltWithin ==
  ASSUME TypeOK, NEW a \in Agents, ads[a] # None, tq # None, NEW h \in 0..IntMax,
         h <= Min2(tq.quota.perAgent, tq.quota.total),
         hpas[a] = BuildHPA(ads[a].spec, h), ads[a].limited = Capped(ads[a].spec, h)
  PROVE  WithinCeilings(a)
<1>1. ads[a].spec \in Specs /\ tq.quota \in Quotas
  BY DEF TypeOK, Or, ADs, TQs
<1>2. ads[a].spec.min \in 1..IntMax /\ tq.quota.perAgent \in 1..IntMax /\ tq.quota.total \in 1..IntMax
      /\ ads[a].spec.max \in 1..IntMax
  BY <1>1, ScalingAssumption
<1>3. /\ BuildHPA(ads[a].spec, h) \in HPAs
      /\ BuildHPA(ads[a].spec, h).min = ads[a].spec.min
      /\ BuildHPA(ads[a].spec, h).max <= Max2(ads[a].spec.min, h)
      /\ BuildHPA(ads[a].spec, h).max < ads[a].spec.max => IsQuotaCapped(ads[a].spec, h)
  BY <1>1, HPAValid
<1>4. hpas[a] # None
  BY <1>3, NoneAssumption
<1>5. hpas[a].max <= Max2(ads[a].spec.min, Min2(tq.quota.perAgent, tq.quota.total))
  <2>1. hpas[a].max \in 1..IntMax /\ IntMax \in Nat
    BY <1>3, ScalingAssumption DEF HPAs
  <2> QED
    BY <1>2, <1>3, <2>1 DEF Max2, Min2
<1> QED
  BY <1>3, <1>4, <1>5 DEF WithinCeilings, Capped

\* What is pending stays so, and what is good stays good or becomes pending.
LEMMA Stays ==
  ASSUME TypeOK, Notify, NEW a \in Agents, queue \subseteq queue', Pending(a) \/ Good(a)
  PROVE  Pending(a)' \/ Good(a)'
<1>1. CASE Pending(a)
  BY <1>1 DEF Pending, Notify
<1>2. CASE Good(a) /\ ads'[a] = ads[a] /\ hpas'[a] = hpas[a] /\ tq' = tq
  BY <1>2 DEF Good, WithinCeilings
<1>3. CASE ads'[a] # ads[a] \/ hpas'[a] # hpas[a] \/ tq' # tq
  BY <1>3 DEF Pending, Notify
<1> QED
  BY <1>1, <1>2, <1>3

LEMMA CacheStays ==
  ASSUME TypeOK, CacheOK, Notify, seen' = seen
  PROVE  CacheOK'
BY DEF TypeOK, CacheOK, Notify

\* A reconcile stays on course when only others change, or becomes due again.
LEMMA CourseStays ==
  ASSUME TypeOK, Notify, NEW a \in Agents, OnCourse(a), work' = work
  PROVE  Pending(a)' \/ OnCourse(a)'
<1>1. CASE ads'[a] = ads[a] /\ hpas'[a] = hpas[a] /\ tq' = tq
  BY <1>1 DEF OnCourse, Sized
<1>2. CASE ads'[a] # ads[a] \/ hpas'[a] # hpas[a] \/ tq' # tq
  BY <1>2 DEF Pending, Notify
<1> QED
  BY <1>1, <1>2

\* The reconcile ends with nothing to write.
Finishes(a) ==
  /\ At("status") /\ work.limited # "TenantQuotaNotFound"
  /\ ads[a].limited = work.limited /\ UNCHANGED <<ads, hpas>>

\* The agent under reconciliation, in each step of the reconciler.
LEMMA WorkerCourse ==
  ASSUME SumsFit, IInv, ADWorker, ~Reconcile, NEW a \in Agents, ads[a] # None, ads'[a] # None,
         ~Pending(a), OnCourse(a)
  PROVE  Pending(a)' \/ OnCourse(a)' \/ (Finishes(a) /\ Good(a)')
<1>1. /\ work # None /\ work \in Works /\ work.agent = a /\ work.spec = ads[a].spec
      /\ work.spec \in Specs /\ work.headroom \in 0..IntMax
  BY DEF IInv, TypeOK, OnCourse, Or, Works
<1>2. /\ a \notin queue /\ a \notin late.ads /\ a \notin late.hpas /\ ~late.tq
      /\ seen.ads[a] = ads[a] /\ seen.hpas[a] = hpas[a] /\ seen.tq = tq
  BY DEF IInv, CacheOK, Pending
<1>3. ads[a] \in ADs
  BY DEF IInv, TypeOK, Or
<1>4. Elsewhere
  BY DEF ADWorker, RemoveFinalizer, PauseHPA, StartStatus, restoreHPA, EndStatus, GetQuota,
         reconcileHPA, updateStatus
<1>5. tq' = tq /\ Notify
  BY <1>4 DEF Elsewhere
<1>6. ASSUME Again PROVE Pending(a)'
  BY <1>1, <1>6 DEF Again, Pending
<1>7. ASSUME ads'[a] # ads[a] \/ hpas'[a] # hpas[a] PROVE Pending(a)'
  BY <1>5, <1>7 DEF Notify, Pending
<1>8. CASE RemoveFinalizer
  <2>1. CASE Again
    BY <1>6, <2>1
  <2>2. CASE ads' = [ads EXCEPT ![work.agent] = None]
    BY <1>1, <2>2 DEF IInv, TypeOK
  <2> QED
    BY <1>8, <2>1, <2>2 DEF RemoveFinalizer
<1>9. CASE PauseHPA
  <2>1. ads' = ads /\ work' = [work EXCEPT !.at = "begin"]
    BY <1>9 DEF PauseHPA, Goto
  <2>2. work' \in Works /\ work'.at = "begin" /\ work'.agent = a /\ work'.spec = work.spec
    BY <1>1, <2>1 DEF Works, Points
  <2>3. OnCourse(a)'
    BY <1>1, <2>1, <2>2, NoneAssumption DEF OnCourse
  <2> QED
    BY <2>3
<1>10. CASE StartStatus
  BY <1>6, <1>10 DEF StartStatus
<1>11. CASE restoreHPA
  <2>1. ads' = ads /\ work.at = "restore"
    BY <1>11 DEF restoreHPA, At
  <2>2. CASE Again
    BY <1>6, <2>2
  <2>3. CASE work' = [work EXCEPT !.at = "ended"]
    <3>1. work' \in Works /\ work'.at = "ended" /\ work'.agent = a /\ work'.spec = work.spec
      BY <1>1, <2>3 DEF Works, Points
    <3>2. OnCourse(a)'
      BY <1>1, <2>1, <3>1, NoneAssumption DEF OnCourse
    <3> QED
      BY <3>2
  <2> QED
    BY <1>11, <2>2, <2>3 DEF restoreHPA, CreateOrUpdate, Goto
<1>12. CASE EndStatus
  <2>1. ads[a].phase = "rollout"
    BY <1>12 DEF EndStatus, At, OnCourse
  <2>2. ads'[a] = [ads[a] EXCEPT !.phase = "steady"]
    BY <1>1, <1>2, <1>12 DEF EndStatus, IInv, TypeOK
  <2>3. ads'[a].phase = "steady"
    BY <1>3, <2>2 DEF ADs
  <2> QED
    BY <1>7, <2>1, <2>3
<1>13. CASE GetQuota
  <2> DEFINE h == QuotaHeadroom(seen.tq.quota, replicasUsedByOtherAgents(seen.ads, a))
  <2>1. work' = IF seen.tq = None
                  THEN [work EXCEPT !.at = "status", !.limited = "TenantQuotaNotFound"]
                  ELSE [work EXCEPT !.at = "write", !.headroom = h, !.limited = Capped(work.spec, h)]
    BY <1>1, <1>13 DEF GetQuota
  <2>2. seen.tq # None => h \in 0..IntMax /\ h <= Min2(tq.quota.perAgent, tq.quota.total)
    BY <1>2, GetQuotaType DEF IInv
  <2> HIDE DEF h
  <2>3. ads' = ads
    BY <1>13 DEF GetQuota
  <2>4. CASE tq = None
    <3>1. work' = [work EXCEPT !.at = "status", !.limited = "TenantQuotaNotFound"]
      BY <1>2, <2>1, <2>4
    <3>2. /\ work' \in Works /\ work'.at = "status" /\ work'.limited = "TenantQuotaNotFound"
          /\ work'.agent = a /\ work'.spec = work.spec
      BY <1>1, <3>1 DEF Works, Points, Limited
    <3>3. OnCourse(a)'
      BY <1>1, <2>3, <3>2, NoneAssumption DEF OnCourse
    <3> QED
      BY <3>3
  <2>5. CASE tq # None
    <3>1. work' = [work EXCEPT !.at = "write", !.headroom = h, !.limited = Capped(work.spec, h)]
      BY <1>2, <2>1, <2>5
    <3>2. /\ work'.at = "write" /\ work'.headroom = h /\ work'.limited = Capped(work.spec, h)
          /\ work'.agent = a /\ work'.spec = work.spec /\ work' \in Works
      BY <1>1, <1>2, <2>2, <2>5, <3>1 DEF Works, Points, Limited, Capped
    <3>3. Sized'
      BY <1>2, <1>5, <2>2, <2>5, <3>2 DEF Sized
    <3>4. OnCourse(a)'
      BY <1>1, <2>3, <3>2, <3>3, NoneAssumption DEF OnCourse
    <3> QED
      BY <3>4
  <2> QED
    BY <2>4, <2>5
<1>14. CASE reconcileHPA
  <2>1. ads' = ads /\ work.at = "write" /\ Sized
    BY <1>14 DEF reconcileHPA, At, OnCourse
  <2>2. CASE Again
    BY <1>6, <2>2
  <2>3. CASE /\ work' = [work EXCEPT !.at = "status"]
             /\ hpas'[a] = BuildHPA(work.spec, work.headroom)
    <3>1. /\ work' \in Works /\ work'.at = "status" /\ work'.agent = a /\ work'.spec = work.spec
          /\ work'.headroom = work.headroom /\ work'.limited = work.limited
      BY <1>1, <2>3 DEF Works, Points
    <3>2. Sized'
      BY <1>5, <2>1, <3>1 DEF Sized
    <3>3. OnCourse(a)'
      BY <1>1, <2>1, <2>3, <3>1, <3>2, NoneAssumption DEF OnCourse
    <3> QED
      BY <3>3
  <2>4. Again \/ (work' = [work EXCEPT !.at = "status"] /\ hpas'[a] = BuildHPA(work.spec, work.headroom))
    BY <1>1, <1>2, <1>14 DEF reconcileHPA, CreateOrUpdate, Goto, IInv, TypeOK
  <2> QED
    BY <2>2, <2>3, <2>4
<1>15. CASE updateStatus
  <2> DEFINE new == [ads[a] EXCEPT !.limited = work.limited, !.observed = TRUE,
                                   !.phase = IF @ = "new" THEN "steady" ELSE @]
  <2>1. CASE work.limited = "TenantQuotaNotFound"
    BY <1>6, <1>15, <2>1 DEF updateStatus
  <2>2. CASE work.limited # "TenantQuotaNotFound" /\ new # ads[a]
    <3>1. ads'[a] = new
      BY <1>1, <1>2, <1>15, <2>2 DEF updateStatus, IInv, TypeOK
    <3> QED
      BY <1>7, <2>2, <3>1
  <2>3. CASE work.limited # "TenantQuotaNotFound" /\ new = ads[a]
    <3>1. ads' = ads /\ hpas' = hpas
      BY <1>1, <1>2, <1>15, <2>3 DEF updateStatus, IInv, TypeOK
    <3>2. ads[a].limited = work.limited
      BY <1>3, <2>3 DEF ADs
    <3>3. Sized /\ hpas[a] = BuildHPA(work.spec, work.headroom)
      BY <1>15, <2>3 DEF updateStatus, At, OnCourse
    <3>4. WithinCeilings(a)
      BY <1>1, <3>2, <3>3, BuiltWithin DEF Sized, IInv
    <3>5. Good(a)'
      BY <1>5, <3>1, <3>4 DEF Good, WithinCeilings
    <3>6. Finishes(a)
      BY <1>15, <2>3, <3>1, <3>2 DEF updateStatus, Finishes
    <3> QED
      BY <3>5, <3>6
  <2> QED
    BY <2>1, <2>2, <2>3
<1> QED
  BY <1>8, <1>9, <1>10, <1>11, <1>12, <1>13, <1>14, <1>15 DEF ADWorker

\* A reconcile starts from the informer's copy.
LEMMA ReconcileCourse ==
  ASSUME IInv, Reconcile, NEW a \in Agents, ads'[a] # None
  PROVE  \/ Pending(a)'
         \/ OnCourse(a)' /\ work'.at \notin {"write", "status"}
         \/ ~Pending(a) /\ Good(a)'
<1>1. PICK b \in queue :
        /\ queue' = queue \ {b}
        /\ work' = IF seen.ads[b] = None THEN None
                   ELSE [agent |-> b, at |-> Dispatch(seen.ads[b], b \notin late.ads),
                         spec |-> seen.ads[b].spec, headroom |-> 0, limited |-> "none"]
  BY DEF Reconcile
<1>2. work = None /\ ads' = ads /\ hpas' = hpas /\ tq' = tq /\ Notify
  BY DEF Reconcile, Elsewhere
<1>3. late' = late
  BY <1>2 DEF Notify, IInv, TypeOK
<1>4. CASE a \in late.ads \/ a \in late.hpas \/ late.tq
  BY <1>3, <1>4 DEF Pending
<1>5. CASE a # b /\ ~(a \in late.ads \/ a \in late.hpas \/ late.tq)
  <2>1. Pending(a) \/ Good(a)
    BY <1>2 DEF IInv, AgentInv, OnCourse
  <2>2. a \in queue => Pending(a)'
    BY <1>1, <1>5 DEF Pending
  <2>3. Good(a) => Good(a)'
    BY <1>2 DEF Good, WithinCeilings
  <2> QED
    BY <1>5, <2>1, <2>2, <2>3 DEF Pending
<1>6. CASE a = b /\ ~(a \in late.ads \/ a \in late.hpas \/ late.tq)
  <2>1. seen.ads[a] = ads[a] /\ ads[a] # None /\ ads[a] \in ADs /\ 0 \in 0..IntMax
    BY <1>2, <1>6, ScalingAssumption DEF IInv, CacheOK, TypeOK, Or
  <2>2. work' = [agent |-> a, at |-> Dispatch(ads[a], TRUE), spec |-> ads[a].spec,
                 headroom |-> 0, limited |-> "none"]
    BY <1>1, <1>6, <2>1
  <2>3. /\ work' \in Works /\ work'.agent = a /\ work'.at = Dispatch(ads[a], TRUE)
        /\ work'.spec = ads[a].spec
    BY <2>1, <2>2 DEF Works, Dispatch, Points, Limited, ADs
  <2>4. OnCourse(a)' /\ work'.at \notin {"write", "status"}
    BY <1>2, <2>3, NoneAssumption DEF OnCourse, Dispatch
  <2> QED
    BY <2>4
<1> QED
  BY <1>4, <1>5, <1>6

\* The watch events.
LEMMA SyncInductive ==
  ASSUME IInv, Sync
  PROVE  CacheOK' /\ AgentInv'
<1>1. ads' = ads /\ hpas' = hpas /\ tq' = tq /\ work' = work
  BY DEF Sync, SyncTQ, SyncAD, SyncHPA
<1>2. \A a \in Agents : (OnCourse(a) => OnCourse(a)') /\ (Good(a) => Good(a)')
  BY <1>1 DEF OnCourse, Sized, Good, WithinCeilings
<1>3. CASE SyncTQ
  <2>1. CacheOK'
    BY <1>3 DEF SyncTQ, IInv, CacheOK, TypeOK
  <2>2. ASSUME NEW a \in Agents, ads'[a] # None
        PROVE  Pending(a)'
    <3>1. CASE seen.ads[a] = None
      BY <1>1, <1>3, <2>2, <3>1 DEF SyncTQ, IInv, CacheOK, TypeOK, Pending
    <3>2. CASE seen.ads[a] # None
      BY <1>3, <3>2 DEF SyncTQ, enqueueAgentDeploymentsForTenantQuota, Exist, Pending
    <3> QED
      BY <3>1, <3>2
  <2> QED
    BY <2>1, <2>2 DEF AgentInv
<1>4. ASSUME NEW b \in Agents, SyncAD(b)
      PROVE  CacheOK' /\ AgentInv'
  <2>1. CacheOK'
    BY <1>4 DEF SyncAD, IInv, CacheOK, TypeOK
  <2>2. \A a \in Agents : Pending(a) => Pending(a)'
    BY <1>4 DEF SyncAD, IInv, TypeOK, Pending
  <2> QED
    BY <1>1, <1>2, <2>1, <2>2 DEF AgentInv, IInv
<1>5. ASSUME NEW b \in Agents, SyncHPA(b)
      PROVE  CacheOK' /\ AgentInv'
  <2>1. CacheOK'
    BY <1>5 DEF SyncHPA, IInv, CacheOK, TypeOK
  <2>2. \A a \in Agents : Pending(a) => Pending(a)'
    BY <1>5 DEF SyncHPA, IInv, TypeOK, Pending
  <2> QED
    BY <1>1, <1>2, <2>1, <2>2 DEF AgentInv, IInv
<1> QED
  BY <1>3, <1>4, <1>5 DEF Sync

\* Steps of the other reconciler that only it sees.
LEMMA CeilingsUntouched ==
  ASSUME CacheOK, AgentInv, UNCHANGED <<ads, tq, hpas, seen, late, queue, work>>
  PROVE  CacheOK' /\ AgentInv'
<1>1. CacheOK'
  BY DEF CacheOK
<1>2. ASSUME NEW a \in Agents
      PROVE  (Pending(a) => Pending(a)') /\ (Good(a) => Good(a)')
  BY DEF Pending, Good, WithinCeilings
<1>3. ASSUME NEW a \in Agents, OnCourse(a)
      PROVE  OnCourse(a)'
  BY <1>3 DEF OnCourse, Sized
<1> QED
  BY <1>1, <1>2, <1>3 DEF AgentInv

LEMMA CeilingsInductive ==
  ASSUME SumsFit, IInv, Next
  PROVE  CacheOK' /\ AgentInv'
<1> USE DEF IInv
<1>1. CASE ADWorker
  <2>1. Elsewhere
    BY <1>1 DEF ADWorker, Reconcile, RemoveFinalizer, PauseHPA, StartStatus, restoreHPA, EndStatus,
                GetQuota, reconcileHPA, updateStatus
  <2>2. CacheOK'
    BY <2>1, CacheStays DEF Elsewhere
  <2>3. ASSUME NEW a \in Agents, ads'[a] # None
        PROVE  (Pending(a) \/ OnCourse(a) \/ Good(a))'
    <3>1. CASE Reconcile
      BY <2>3, <3>1, ReconcileCourse
    <3>2. CASE ~Reconcile
      <4>1. queue \subseteq queue'
        BY <1>1, <3>2 DEF ADWorker, RemoveFinalizer, PauseHPA, StartStatus, restoreHPA, EndStatus,
             GetQuota, reconcileHPA, updateStatus, CreateOrUpdate, Again, Done, Goto
      <4>2. ads[a] # None
        BY <1>1, <2>3, <3>2 DEF TypeOK, ADWorker, RemoveFinalizer, PauseHPA, StartStatus,
             restoreHPA, EndStatus, GetQuota, reconcileHPA, updateStatus, CacheOK
      <4>3. CASE Pending(a) \/ Good(a)
        BY <2>1, <4>1, <4>3, Stays DEF Elsewhere
      <4>4. CASE ~Pending(a) /\ OnCourse(a)
        BY <1>1, <2>3, <3>2, <4>2, <4>4, WorkerCourse
      <4> QED
        BY <4>2, <4>3, <4>4 DEF AgentInv
    <3> QED
      BY <3>1, <3>2
  <2> QED
    BY <2>2, <2>3 DEF AgentInv
<1>2. CASE TQReconcile
  BY <1>2, CeilingsUntouched DEF TQReconcile
<1>3. ASSUME Notify, seen' = seen, queue' = queue, work' = work,
             \A a \in Agents : ads'[a] # None => ads[a] # None \/ a \in late'.ads
      PROVE  CacheOK' /\ AgentInv'
  <2>1. CacheOK'
    BY <1>3, CacheStays
  <2>2. ASSUME NEW a \in Agents, ads'[a] # None
        PROVE  (Pending(a) \/ OnCourse(a) \/ Good(a))'
    <3>1. CASE a \in late'.ads
      BY <3>1 DEF Pending
    <3>2. CASE ads[a] # None
      BY <1>3, <3>2, Stays, CourseStays DEF AgentInv
    <3> QED
      BY <1>3, <2>2, <3>1, <3>2
  <2> QED
    BY <2>1, <2>2 DEF AgentInv
<1>4. CASE TQUpdate
  BY <1>3, <1>4 DEF TQUpdate
<1>5. CASE Sync
  BY <1>5, SyncInductive
<1>6. CASE EditQuota
  BY <1>3, <1>6 DEF EditQuota
<1>7. ASSUME NEW b \in Agents, EditAgent(b)
      PROVE  CacheOK' /\ AgentInv'
  BY <1>3, <1>7 DEF EditAgent, Notify
<1>8. ASSUME NEW b \in Agents, DeleteHPA(b)
      PROVE  CacheOK' /\ AgentInv'
  BY <1>3, <1>8 DEF DeleteHPA
<1>9. CASE ADFault
  <2>1. CacheOK'
    BY <1>9 DEF ADFault, CacheOK
  <2>2. \A a \in Agents : (Pending(a) => Pending(a)') /\ (Good(a) => Good(a)')
    BY <1>9 DEF ADFault, Again, Pending, Good, WithinCeilings
  <2>3. \A a \in Agents : OnCourse(a) => Pending(a)'
    BY <1>9 DEF ADFault, Again, Pending, OnCourse
  <2> QED
    BY <1>9, <2>1, <2>2, <2>3 DEF ADFault, AgentInv
<1>10. CASE TQFault
  BY <1>10, CeilingsUntouched DEF TQFault
<1>11. CASE Crash
  <2>1. CacheOK'
    BY <1>11 DEF Crash, CacheOK, Nothing
  <2>2. \A a \in Agents : ads'[a] # None => Pending(a)'
    BY <1>11 DEF Crash, Exist, Pending
  <2> QED
    BY <2>1, <2>2 DEF AgentInv
<1> QED
  BY <1>1, <1>2, <1>4, <1>5, <1>6, <1>7, <1>8, <1>9, <1>10, <1>11 DEF Next, Users, Faults

LEMMA InitCeilings ==
  ASSUME SumsFit, Init
  PROVE  IInv
<1>1. TypeOK
  BY InitType
<1>2. CacheOK
  BY DEF Init, CacheOK
<1>3. PICK S \in SUBSET Agents, f \in [Agents -> Specs], q \in Quotas : SettledAt(S, f, q)
  BY DEF Init
<1> DEFINE all == [a \in Agents |->
                     IF a \in S THEN [Created(f[a]) EXCEPT !.phase = "steady", !.observed = TRUE] ELSE None]
<1> DEFINE room(a) == QuotaHeadroom(q, replicasUsedByOtherAgents(all, a))
<1>4. all \in [Agents -> Or(ADs)]
  BY DEF Or, ADs, Created, Limited
<1>5. ASSUME NEW a \in Agents, ads[a] # None, tq # None
      PROVE  WithinCeilings(a)
  <2>1. a \in S
    BY <1>3, <1>5 DEF SettledAt
  <2>2. ads[a] = [all[a] EXCEPT !.limited = Capped(f[a], room(a))] /\ hpas[a] = BuildHPA(f[a], room(a))
        /\ tq = [quota |-> q, status |-> NewStatus(q, ComputeUsage(all))]
    BY <1>3, <2>1 DEF SettledAt
  <2>3. all[a] = [Created(f[a]) EXCEPT !.phase = "steady", !.observed = TRUE]
    BY <2>1
  <2>4. room(a) \in 0..IntMax /\ room(a) <= Min2(q.perAgent, q.total)
    <3> HIDE DEF all
    <3>1. replicasUsedByOtherAgents(all, a) \in 0..IntMax
      BY <1>4, OthersFit
    <3> QED
      BY <3>1, HeadroomType, HeadroomExact, ScalingAssumption
  <2> HIDE DEF all, room
  <2>5. ads[a].spec = f[a] /\ ads[a].limited = Capped(f[a], room(a)) /\ tq.quota = q
    BY <2>2, <2>3 DEF Created
  <2> QED
    BY <1>1, <1>5, <2>2, <2>4, <2>5, BuiltWithin
<1> QED
  BY <1>1, <1>2, <1>5 DEF IInv, AgentInv, Good

\* However the edits of users, the rollouts, the two reconcilers, the delayed events,
\* failing calls and restarts are interleaved: whenever nothing is left to do, every
\* agent has an HPA within the ceilings of the quota, and its condition says so when it
\* is capped.  No re-queue is forgotten on any path of Reconcile.
THEOREM CeilingsReached ==
  ASSUME SumsFit
  PROVE  Spec => []SettledCeilings
<1>1. Init => IInv
  BY InitCeilings
<1>2. IInv /\ [Next]_vars => IInv'
  <2>1. ASSUME IInv, UNCHANGED vars
        PROVE  IInv'
    <3>1. TypeOK'
      BY <2>1 DEF vars, IInv, TypeOK
    <3> QED
      BY <2>1, <3>1, CeilingsUntouched DEF vars, IInv
  <2>2. ASSUME IInv, Next
        PROVE  IInv'
    BY <2>2, TypeInductive, CeilingsInductive DEF IInv
  <2> QED
    BY <2>1, <2>2
<1>3. IInv => SettledCeilings
  <2> SUFFICES ASSUME IInv, Settled, NEW a \in Exist(ads)
               PROVE  WithinCeilings(a)
    BY DEF SettledCeilings
  <2>1. a \in Agents /\ ads[a] # None
    BY DEF Exist
  <2>2. ~Pending(a) /\ ~OnCourse(a) /\ tq # None
    BY DEF Settled, Quiet, Nothing, Pending, OnCourse
  <2> QED
    BY <2>1, <2>2 DEF IInv, AgentInv, Good
<1> QED
  BY <1>1, <1>2, <1>3, PTL DEF Spec

=============================================================================
