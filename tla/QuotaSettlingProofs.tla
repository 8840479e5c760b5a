------------------------ MODULE QuotaSettlingProofs ------------------------
(***************************************************************************)
(* Proofs about QuotaScaling, continued: when each change of an agent      *)
(* finds the reconcilers at rest, they come to rest with exactly the HPAs  *)
(* that the quota allows.                                                  *)
(*                                                                         *)
(* An agent's change reaches the other agents through the usage counters   *)
(* of the TenantQuota only.  The argument is that an agent with an         *)
(* outdated HPA will still be woken up: by an event of its own, or because *)
(* the counters are still to change (Due).                                 *)
(***************************************************************************)
EXTENDS QuotaScalingProofs

ADMap == [Agents -> Or(ADs)]

Live(objects) == {o \in Exist(objects) : ~objects[o].deleting}

\* Agent o is the same in x and y, as far as the sums depend on it.
SameAgent(x, y, o) ==
  \/ x[o] = None /\ y[o] = None
  \/ /\ x[o] # None /\ y[o] # None
     /\ x[o].spec.max = y[o].spec.max /\ x[o].deleting = y[o].deleting

SameAgents(x, y) == \A o \in Agents : SameAgent(x, y, o)

SameLoad(x, y) == Live(x) = Live(y) /\ \A o \in Live(x) : x[o].spec.max = y[o].spec.max

-----------------------------------------------------------------------------
(* What the sums depend on.                                                *)

LEMMA SameAgentsSums ==
  ASSUME NEW x, NEW y, SameAgents(x, y)
  PROVE  /\ Exist(x) = Exist(y) /\ SameLoad(x, y)
         /\ ComputeUsage(x) = ComputeUsage(y)
<1>1. Exist(x) = Exist(y)
  BY DEF SameAgents, SameAgent, Exist
<1>2. SameLoad(x, y)
  BY DEF SameAgents, SameAgent, Exist, SameLoad, Live
<1>3. \A o \in Exist(x) : x[o].spec.max = y[o].spec.max
  BY DEF SameAgents, SameAgent, Exist
<1>4. [o \in Exist(x) |-> x[o].spec.max] = [o \in Exist(y) |-> y[o].spec.max]
  BY <1>1, <1>3
<1>5. Total(x, Exist(x)) = Total(y, Exist(y))
  BY <1>1, <1>4 DEF Total
<1> QED
  BY <1>1, <1>2, <1>5 DEF ComputeUsage

LEMMA SameLoadOthers ==
  ASSUME NEW x, NEW y, SameLoad(x, y), NEW a
  PROVE  Others(x, a) = Others(y, a)
<1> DEFINE S(z) == {o \in Exist(z) \ {a} : ~z[o].deleting}
<1>1. S(x) = S(y) /\ \A o \in S(x) : x[o].spec.max = y[o].spec.max
  BY DEF SameLoad, Live
<1>2. Others(x, a) = Total(x, S(x)) /\ Others(y, a) = Total(y, S(y))
  BY DEF Others
<1> HIDE DEF S
<1>3. [o \in S(x) |-> x[o].spec.max] = [o \in S(y) |-> y[o].spec.max]
  BY <1>1
<1> QED
  BY <1>1, <1>2, <1>3 DEF Total

\* An agent more or less shows in the number of agents.
LEMMA UsageGrown ==
  ASSUME NEW x, NEW y, NEW a \in Agents, x[a] = None, y[a] # None,
         \A o \in Agents \ {a} : (x[o] = None) = (y[o] = None)
  PROVE  /\ ComputeUsage(y).agents = ComputeUsage(x).agents + 1
         /\ ComputeUsage(x).agents \in Nat
<1>1. Exist(y) = Exist(x) \cup {a} /\ a \notin Exist(x)
  BY DEF Exist
<1>2. IsFiniteSet(Exist(x))
  BY FS_Subset, ScalingAssumption DEF Exist
<1>3. Cardinality(Exist(y)) = Cardinality(Exist(x)) + 1 /\ Cardinality(Exist(x)) \in Nat
  BY <1>1, <1>2, FS_AddElement, FS_CardinalityType
<1> QED
  BY <1>3 DEF ComputeUsage

\* Another maximum of one agent shows in the number of replicas, overflow or not.
LEMMA UsageResized ==
  ASSUME NEW x \in ADMap, NEW y \in ADMap, NEW a \in Agents, x[a] # None, y[a] # None,
         x[a].spec.max # y[a].spec.max, \A o \in Agents \ {a} : SameAgent(x, y, o)
  PROVE  ComputeUsage(x).replicas # ComputeUsage(y).replicas
<1> DEFINE S == Exist(x)
           F == [o \in S |-> x[o].spec.max]
           G == [o \in S |-> y[o].spec.max]
           r == SumFunctionOnSet(F, S \ {a})
<1>1. Exist(y) = S /\ S \in SUBSET Exist(x) /\ S \in SUBSET Exist(y) /\ a \in S
  BY DEF Exist, SameAgent
<1>2. /\ \A o \in S : F[o] \in 1..IntMax /\ G[o] \in 1..IntMax
      /\ IsFiniteSet(S) /\ IntMax \in Nat
  BY <1>1, TotalType, ScalingAssumption DEF ADMap
<1>3. \A o \in S \ {a} : G[o] = F[o]
  BY DEF SameAgent, Exist
<1>4. /\ F[a] # G[a]
      /\ ComputeUsage(x).replicas = Wrap(SumFunctionOnSet(F, S))
      /\ ComputeUsage(y).replicas = Wrap(SumFunctionOnSet(G, S))
  BY <1>1 DEF ComputeUsage, Total
<1> HIDE DEF F, G
<1>5. /\ \A o \in S : F[o] \in Int /\ G[o] \in Int
      /\ IsFiniteSet(S \ {a})
  BY <1>2, FS_Subset
<1> HIDE DEF S
<1>6. SumFunctionOnSet(F, S) = F[a] + r /\ SumFunctionOnSet(G, S) = G[a] + SumFunctionOnSet(G, S \ {a})
  BY <1>1, <1>2, <1>5, SumSplit
<1>7. SumFunctionOnSet(G, S \ {a}) = r /\ r \in Int
  <2>1. \A o \in S \ {a} : F[o] \in Int /\ G[o] = F[o]
    BY <1>3, <1>5
  <2> HIDE DEF r
  <2> QED
    BY <1>5, <2>1, SumSame, SumInt DEF r
<1> HIDE DEF r
<1>8. F[a] \in 1..IntMax /\ G[a] \in 1..IntMax
  BY <1>1, <1>2
<1>9. ASSUME NEW i \in 1..IntMax, NEW j \in 1..IntMax, i < j
      PROVE  Wrap(i + r) # Wrap(j + r)
  <2> DEFINE n == 2 * (IntMax + 1)
  <2>1. /\ n \in Nat \ {0} /\ i + r + IntMax + 1 \in Int /\ j + r + IntMax + 1 \in Int
        /\ i + r + IntMax + 1 < j + r + IntMax + 1
        /\ (j + r + IntMax + 1) - (i + r + IntMax + 1) < n
    BY <1>2, <1>7, <1>9
  <2>2. (i + r + IntMax + 1) % n # (j + r + IntMax + 1) % n
    BY <2>1, ModDiffers
  <2>3. (i + r + IntMax + 1) % n \in 0..(n - 1) /\ (j + r + IntMax + 1) % n \in 0..(n - 1)
    BY <2>1, ModBound
  <2> QED
    BY <1>2, <2>2, <2>3 DEF Wrap
<1> QED
  BY <1>2, <1>4, <1>6, <1>7, <1>8, <1>9

-----------------------------------------------------------------------------
(* What is still to come, whether the users leave the reconcilers alone or *)
(* not.                                                                    *)

Leaving(o) == ads[o] # None /\ ads[o].deleting

Usage == ComputeUsage(ads)
Counted == tq.status.agents = Usage.agents /\ tq.status.replicas = Usage.replicas

\* Another event of the TenantQuota is to come: its counters are wrong, or will be.
Due == (\E o \in Agents : Leaving(o)) \/ (tq # None /\ ~Counted)

\* A deleted agent will be reconciled.
LeavingInv ==
  \A o \in Agents : Leaving(o) =>
    o \in late.ads \/ o \in queue \/ (At("finalizer") /\ work.agent = o)

\* The finalizer is removed from the object as it is.
FinalInv == At("finalizer") => Leaving(work.agent) /\ work.agent \notin late.ads

\* Wrong counters will be corrected.
CountInv ==
  tq # None => \/ Counted \/ late.ads # {} \/ late.tq \/ tqQueued
               \/ tqWork # None /\ tqWork = Usage

\* No agent goes without the informer having seen its deletion.
GoneInv == \A o \in Agents : ads[o] = None /\ seen.ads[o] # None => seen.ads[o].deleting

BaseInv == LeavingInv /\ FinalInv /\ CountInv /\ GoneInv

\* The removal of an agent.
Removal ==
  /\ At("finalizer") /\ Done /\ Elsewhere
  /\ ads' = [ads EXCEPT ![work.agent] = None] /\ hpas' = [hpas EXCEPT ![work.agent] = None]

\* A step of the reconciler, and what it leaves as it is.
LEMMA WorkerStep ==
  ASSUME TypeOK, CacheOK, ADWorker
  PROVE  /\ Elsewhere
         /\ \/ Reconcile \/ Removal
            \/ /\ work # None /\ ~At("finalizer") /\ queue \subseteq queue'
               /\ work' = None \/ (work'.agent = work.agent /\ work'.at # "finalizer")
               /\ SameAgents(ads, ads')
<1> DEFINE Other == /\ work # None /\ ~At("finalizer") /\ queue \subseteq queue'
                    /\ work' = None \/ (work'.agent = work.agent /\ work'.at # "finalizer")
<1>1. Elsewhere
  BY DEF ADWorker, Reconcile, RemoveFinalizer, PauseHPA, StartStatus, restoreHPA, EndStatus,
         GetQuota, reconcileHPA, updateStatus
<1>2. ads' = ads => SameAgents(ads, ads')
  BY DEF SameAgents, SameAgent
<1>3. work # None => work \in Works /\ work.agent \in Agents
  BY DEF TypeOK, Or, Works
<1>4. work # None => seen.ads[work.agent] \in Or(ADs) /\ ads \in ADMap
  BY <1>3 DEF TypeOK, ADMap
<1>5. \A p \in Points \ {"finalizer"} : Goto(p) /\ work # None => work'.agent = work.agent /\ work'.at # "finalizer"
  BY <1>3 DEF Goto, Works
<1>6. ASSUME work # None, NEW ad \in ADs, seen.ads[work.agent] # None, work.agent \notin late.ads,
             ad.spec = seen.ads[work.agent].spec, ad.deleting = seen.ads[work.agent].deleting,
             ads' = [ads EXCEPT ![work.agent] = ad]
      PROVE  SameAgents(ads, ads')
  <2>1. seen.ads[work.agent] = ads[work.agent]
    BY <1>3, <1>6 DEF CacheOK
  <2> QED
    BY <1>3, <1>4, <1>6, <2>1, NoneAssumption DEF SameAgents, SameAgent, ADMap
<1>7. CASE RemoveFinalizer /\ At("outdated") /\ Again /\ UNCHANGED <<ads, hpas>>
  BY <1>1, <1>2, <1>7 DEF At, Again
<1>8. CASE RemoveFinalizer /\ ~(At("outdated") /\ Again /\ UNCHANGED <<ads, hpas>>)
  BY <1>1, <1>8 DEF RemoveFinalizer, Removal
<1>9. CASE PauseHPA
  <2>1. "begin" \in Points \ {"finalizer"}
    BY DEF Points
  <2> QED
    BY <1>1, <1>2, <1>5, <1>9, <2>1 DEF PauseHPA, At, Goto
<1>10. CASE StartStatus
  <2>1. Other
    BY <1>10 DEF StartStatus, At, Again
  <2>2. SameAgents(ads, ads')
    <3>1. CASE seen.ads[work.agent] = None \/ work.agent \in late.ads
      BY <1>2, <1>10, <3>1 DEF StartStatus
    <3>2. CASE seen.ads[work.agent] # None /\ work.agent \notin late.ads
      <4> DEFINE ad == [seen.ads[work.agent] EXCEPT !.phase = "rollout"]
      <4>1. /\ ad \in ADs /\ ad.spec = seen.ads[work.agent].spec
            /\ ad.deleting = seen.ads[work.agent].deleting
        BY <1>4, <1>10, <3>2 DEF StartStatus, At, Or, ADs
      <4>2. ads' = [ads EXCEPT ![work.agent] = ad]
        BY <1>10, <3>2 DEF StartStatus
      <4> HIDE DEF ad
      <4> QED
        BY <1>6, <1>10, <3>2, <4>1, <4>2 DEF StartStatus, At
    <3> QED
      BY <3>1, <3>2
  <2> QED
    BY <1>1, <2>1, <2>2
<1>11. CASE restoreHPA
  <2>1. "ended" \in Points \ {"finalizer"}
    BY DEF Points
  <2> QED
    BY <1>1, <1>2, <1>5, <1>11, <2>1 DEF restoreHPA, At, CreateOrUpdate, Again, Goto
<1>12. CASE EndStatus
  <2>1. Other
    BY <1>12 DEF EndStatus, At, Again, Done
  <2>2. SameAgents(ads, ads')
    <3>1. CASE seen.ads[work.agent] = None \/ work.agent \in late.ads
      BY <1>2, <1>12, <3>1 DEF EndStatus
    <3>2. CASE seen.ads[work.agent] # None /\ work.agent \notin late.ads
      <4> DEFINE ad == [seen.ads[work.agent] EXCEPT !.phase = "steady"]
      <4>1. /\ ad \in ADs /\ ad.spec = seen.ads[work.agent].spec
            /\ ad.deleting = seen.ads[work.agent].deleting
        BY <1>4, <1>12, <3>2 DEF EndStatus, At, Or, ADs
      <4>2. ads' = [ads EXCEPT ![work.agent] = ad]
        BY <1>12, <3>2 DEF EndStatus
      <4> HIDE DEF ad
      <4> QED
        BY <1>6, <1>12, <3>2, <4>1, <4>2 DEF EndStatus, At
    <3> QED
      BY <3>1, <3>2
  <2> QED
    BY <1>1, <2>1, <2>2
<1>13. CASE GetQuota
  <2>1. work'.agent = work.agent /\ work'.at # "finalizer"
    BY <1>3, <1>13 DEF GetQuota, At, Works
  <2> QED
    BY <1>1, <1>2, <1>13, <2>1 DEF GetQuota, At
<1>14. CASE reconcileHPA
  <2>1. "status" \in Points \ {"finalizer"}
    BY DEF Points
  <2> QED
    BY <1>1, <1>2, <1>5, <1>14, <2>1 DEF reconcileHPA, At, CreateOrUpdate, Again, Goto
<1>15. CASE updateStatus
  <2>1. Other
    BY <1>15 DEF updateStatus, At, Again, Done
  <2>2. SameAgents(ads, ads')
    <3>1. CASE ads' = ads
      BY <1>2, <3>1
    <3>2. CASE ads' # ads
      <4> DEFINE latest == seen.ads[work.agent]
                 new == [latest EXCEPT !.limited = work.limited, !.observed = TRUE,
                                       !.phase = IF @ = "new" THEN "steady" ELSE @]
      <4>1. latest # None /\ work.agent \notin late.ads /\ ads' = [ads EXCEPT ![work.agent] = new]
        BY <1>3, <1>4, <1>15, <3>2 DEF updateStatus, At, ADMap
      <4>2. new \in ADs /\ new.spec = latest.spec /\ new.deleting = latest.deleting
        BY <1>3, <1>4, <1>15, <4>1 DEF updateStatus, At, Or, ADs, Works
      <4> HIDE DEF new
      <4> QED
        BY <1>6, <1>15, <4>1, <4>2 DEF updateStatus, At
    <3> QED
      BY <3>1, <3>2
  <2> QED
    BY <1>1, <2>1, <2>2
<1>16. CASE Reconcile
  BY <1>1, <1>16
<1> QED
  BY <1>7, <1>8, <1>9, <1>10, <1>11, <1>12, <1>13, <1>14, <1>15, <1>16 DEF ADWorker

LEMMA SameAgentsKept ==
  ASSUME SameAgents(ads, ads')
  PROVE  /\ Usage' = Usage /\ SameLoad(ads, ads')
         /\ \A o \in Agents : /\ Leaving(o)' = Leaving(o)
                              /\ (ads'[o] = None) = (ads[o] = None)
<1>1. Usage' = Usage /\ SameLoad(ads, ads')
  BY SameAgentsSums DEF Usage
<1> QED
  BY <1>1 DEF SameAgents, SameAgent, Leaving

\* Wrong counters will still be corrected after a step that the TenantQuota reconciler
\* has no part in: what the step changes is an event for it.
LEMMA CountStays ==
  ASSUME TypeOK, TypeOK', CountInv, Notify, tqQueued' = tqQueued, tqWork' = tqWork
  PROVE  CountInv'
<1>1. CASE ads' = ads /\ tq' = tq
  <2>1. Usage' = Usage /\ (Counted' <=> Counted)
    BY <1>1 DEF Usage, Counted
  <2>2. late.ads \subseteq late'.ads /\ (late.tq => late'.tq)
    BY DEF Notify
  <2> QED
    BY <1>1, <2>1, <2>2 DEF CountInv
<1>2. CASE tq' # tq
  BY <1>2 DEF Notify, CountInv
<1>3. CASE ads' # ads
  <2>1. \E a \in Agents : ads'[a] # ads[a]
    BY <1>3 DEF TypeOK
  <2> QED
    BY <2>1 DEF Notify, CountInv
<1> QED
  BY <1>1, <1>2, <1>3

\* A deleted agent will still be reconciled.
LEMMA LeavingStays ==
  ASSUME LeavingInv, Notify, queue \subseteq queue',
         At("finalizer") => At("finalizer")' /\ work'.agent = work.agent
  PROVE  LeavingInv'
<1> SUFFICES ASSUME NEW o \in Agents, Leaving(o)'
             PROVE  (o \in late.ads \/ o \in queue \/ (At("finalizer") /\ work.agent = o))'
  BY DEF LeavingInv
<1>1. CASE ads'[o] # ads[o]
  BY <1>1 DEF Notify
<1>2. CASE ads'[o] = ads[o]
  <2>1. Leaving(o)
    BY <1>2 DEF Leaving
  <2> QED
    BY <2>1 DEF LeavingInv, Notify
<1> QED
  BY <1>1, <1>2

LEMMA BaseWorker ==
  ASSUME TypeOK, TypeOK', CacheOK, BaseInv, ADWorker
  PROVE  BaseInv'
<1> USE DEF BaseInv
<1>1. Elsewhere
  BY WorkerStep
<1>2. CountInv'
  BY <1>1, CountStays DEF Elsewhere
<1>3. seen' = seen /\ Notify
  BY <1>1 DEF Elsewhere
<1>4. CASE Reconcile
  <2>1. PICK b \in queue :
          /\ queue' = queue \ {b}
          /\ work' = IF seen.ads[b] = None THEN None
                     ELSE [agent |-> b, at |-> Dispatch(seen.ads[b], b \notin late.ads),
                           spec |-> seen.ads[b].spec, headroom |-> 0, limited |-> "none"]
    BY <1>4 DEF Reconcile
  <2>2. work = None /\ ads' = ads /\ hpas' = hpas /\ tq' = tq /\ b \in Agents
    BY <1>1, <1>4 DEF Reconcile, Elsewhere, TypeOK
  <2>3. late' = late
    BY <1>3, <2>2 DEF Notify, TypeOK
  <2>4. GoneInv'
    BY <1>3, <2>2 DEF GoneInv
  <2>5. LeavingInv'
    <3>1. SUFFICES ASSUME NEW o \in Agents, Leaving(o), o \notin late.ads, o \notin queue'
                   PROVE  At("finalizer")' /\ work'.agent = o
      BY <2>2, <2>3 DEF LeavingInv, Leaving
    <3>2. o = b
      BY <2>1, <2>2, <3>1 DEF LeavingInv, At
    <3>3. seen.ads[b] = ads[b] /\ ads[b] # None /\ ads[b].deleting
      BY <3>1, <3>2 DEF CacheOK, Leaving
    <3>4. work' = [agent |-> b, at |-> "finalizer", spec |-> seen.ads[b].spec,
                   headroom |-> 0, limited |-> "none"]
      BY <2>1, <3>1, <3>2, <3>3 DEF Dispatch
    <3>5. work' # None
      <4>1. seen.ads[b].spec \in Specs /\ 0 \in 0..IntMax
        BY <3>3, ScalingAssumption DEF TypeOK, Or, ADs
      <4>2. work' \in Works
        BY <2>2, <3>4, <4>1 DEF Works, Points, Limited
      <4> QED
        BY <4>2, NoneAssumption
    <3> QED
      BY <3>2, <3>4, <3>5 DEF At
  <2>6. FinalInv'
    <3>1. SUFFICES ASSUME At("finalizer")'
                   PROVE  Leaving(work'.agent) /\ work'.agent \notin late.ads
      BY <2>2, <2>3 DEF FinalInv, Leaving
    <3>2. /\ seen.ads[b] # None /\ work'.agent = b
          /\ Dispatch(seen.ads[b], b \notin late.ads) = "finalizer"
      BY <2>1, <3>1 DEF At
    <3>3. seen.ads[b].deleting /\ b \notin late.ads
      BY <3>2 DEF Dispatch
    <3> QED
      BY <2>2, <3>2, <3>3 DEF CacheOK, Leaving
  <2> QED
    BY <1>2, <2>4, <2>5, <2>6
<1>5. CASE Removal
  <2>1. /\ work # None /\ work.agent \in Agents /\ work' = None
        /\ ads' = [ads EXCEPT ![work.agent] = None] /\ queue' = queue
    BY <1>5 DEF Removal, At, Done, TypeOK, Or, Works
  <2>2. seen.ads[work.agent] = ads[work.agent] /\ Leaving(work.agent)
    BY <1>5, <2>1 DEF Removal, FinalInv, CacheOK
  <2>3. GoneInv'
    BY <1>3, <2>1, <2>2 DEF GoneInv, Leaving, TypeOK
  <2>4. LeavingInv'
    BY <1>3, <2>1 DEF LeavingInv, Leaving, Notify, TypeOK
  <2>5. FinalInv'
    BY <2>1 DEF FinalInv, At
  <2> QED
    BY <1>2, <2>3, <2>4, <2>5
<1>6. CASE /\ work # None /\ ~At("finalizer") /\ queue \subseteq queue'
           /\ work' = None \/ (work'.agent = work.agent /\ work'.at # "finalizer")
           /\ SameAgents(ads, ads')
  <2>1. GoneInv'
    BY <1>3, <1>6, SameAgentsKept DEF GoneInv
  <2>2. LeavingInv'
    BY <1>3, <1>6, LeavingStays
  <2>3. FinalInv'
    BY <1>6 DEF FinalInv, At
  <2> QED
    BY <1>2, <2>1, <2>2, <2>3
<1> QED
  BY <1>4, <1>5, <1>6, WorkerStep

\* What a user may do to an agent.
LEMMA EditedAgent ==
  ASSUME TypeOK, NEW b \in Agents, EditAgent(b)
  PROVE  /\ ads[b] # None => ~ads[b].deleting
         /\ \E ad \in ADs :
              /\ ads' = [ads EXCEPT ![b] = ad]
              /\ ad.deleting => ads[b] # None /\ ad.spec = ads[b].spec
<1>1. PICK ad \in IF ads[b] = None THEN {Created(s) : s \in Specs} ELSE Edits(ads[b]) :
        ads' = [ads EXCEPT ![b] = ad]
  BY DEF EditAgent
<1>2. CASE ads[b] = None
  <2>1. PICK s \in Specs : ad = Created(s)
    BY <1>1, <1>2
  <2>2. ad \in ADs /\ ~ad.deleting
    BY <2>1 DEF Created, ADs, Limited
  <2> QED
    BY <1>1, <1>2, <2>2
<1>3. CASE ads[b] # None
  <2>1. ads[b] \in ADs /\ ~ads[b].deleting
    BY <1>1, <1>3 DEF TypeOK, Or, Edits
  <2>2. \/ \E s \in Specs : ad = [ads[b] EXCEPT !.spec = s, !.observed = FALSE]
        \/ ad = [ads[b] EXCEPT !.deleting = TRUE]
        \/ ad = [ads[b] EXCEPT !.phase = "drift"]
    BY <1>1, <1>3 DEF Edits
  <2>3. ad \in ADs /\ (ad.deleting => ad.spec = ads[b].spec)
    BY <2>1, <2>2 DEF ADs
  <2> QED
    BY <1>1, <1>3, <2>1, <2>3
<1> QED
  BY <1>2, <1>3

LEMMA BaseInductive ==
  ASSUME TypeOK, TypeOK', CacheOK, BaseInv, Next
  PROVE  BaseInv'
<1> USE DEF BaseInv
<1>1. CASE ADWorker
  BY <1>1, BaseWorker
<1>2. ASSUME ads' = ads, seen'.ads = seen.ads, work' = work, queue \subseteq queue', late'.ads = late.ads
      PROVE  LeavingInv' /\ FinalInv' /\ GoneInv'
  BY <1>2 DEF LeavingInv, FinalInv, GoneInv, Leaving, At
<1>3. CASE TQReconcile
  <2>1. LeavingInv' /\ FinalInv' /\ GoneInv'
    BY <1>2, <1>3 DEF TQReconcile
  <2>2. CountInv'
    <3>1. SUFFICES ASSUME tq # None, late.ads = {}, ~late.tq
                   PROVE  tqWork' # None /\ tqWork' = Usage
      BY <1>3 DEF TQReconcile, CountInv, Usage
    <3>2. seen.tq = tq /\ seen.ads = ads
      BY <3>1 DEF CacheOK, TypeOK
    <3>3. tqWork' = Usage
      BY <1>3, <3>1, <3>2 DEF TQReconcile, Usage
    <3>4. Usage \in [agents : Nat, replicas : Range32]
      BY UsageType DEF Usage, TypeOK
    <3> QED
      BY <3>3, <3>4, NoneAssumption
  <2> QED
    BY <2>1, <2>2
<1>4. CASE TQUpdate
  <2>1. ads' = ads /\ Notify /\ Usage' = Usage
    BY <1>4 DEF TQUpdate, Usage
  <2>2. late'.ads = late.ads /\ (tq' # tq => late'.tq) /\ (late.tq => late'.tq)
    BY <2>1 DEF Notify, TypeOK
  <2>3. LeavingInv' /\ FinalInv' /\ GoneInv'
    BY <1>2, <1>4, <2>2 DEF TQUpdate
  <2>4. CountInv'
    <3>1. SUFFICES ASSUME tq # None, tq' = tq, ~late.tq, late.ads = {}, ~tqQueued'
                   PROVE  Counted
      BY <2>1, <2>2 DEF CountInv, Counted
    <3>2. seen.tq = tq /\ tq \in TQs /\ ~tqQueued
      BY <1>4, <3>1 DEF CacheOK, TQUpdate, TypeOK, Or
    <3>3. tq.status = NewStatus(tq.quota, tqWork)
      BY <1>4, <3>1, <3>2 DEF TQUpdate, TQs
    <3>4. Counted \/ tqWork = Usage
      BY <3>1, <3>2 DEF CountInv
    <3> QED
      BY <3>3, <3>4 DEF Counted, NewStatus
  <2> QED
    BY <2>3, <2>4
<1>5. CASE SyncTQ
  <2>1. CountInv'
    BY <1>5 DEF SyncTQ, CountInv
  <2>2. late'.ads = late.ads /\ seen'.ads = seen.ads
    BY <1>5 DEF SyncTQ, TypeOK
  <2> QED
    BY <1>2, <1>5, <2>1, <2>2 DEF SyncTQ
<1>6. ASSUME NEW b \in Agents, SyncAD(b)
      PROVE  BaseInv'
  <2>1. /\ ads' = ads /\ work' = work /\ late'.ads = late.ads \ {b} /\ queue' = queue \cup {b}
        /\ seen'.ads = [seen.ads EXCEPT ![b] = ads[b]] /\ tqQueued'
    BY <1>6 DEF SyncAD, TypeOK
  <2>2. LeavingInv' /\ FinalInv'
    BY <2>1 DEF LeavingInv, FinalInv, Leaving, At
  <2>3. GoneInv'
    BY <2>1 DEF GoneInv, TypeOK
  <2> QED
    BY <2>1, <2>2, <2>3 DEF CountInv
<1>7. ASSUME NEW b \in Agents, SyncHPA(b)
      PROVE  BaseInv'
  <2>1. late'.ads = late.ads /\ late'.tq = late.tq /\ seen'.ads = seen.ads
    BY <1>7 DEF SyncHPA, TypeOK
  <2>2. Usage' = Usage /\ (Counted' <=> Counted)
    BY <1>7 DEF SyncHPA, Usage, Counted
  <2>3. CountInv'
    BY <1>7, <2>1, <2>2 DEF SyncHPA, CountInv
  <2> QED
    BY <1>2, <1>7, <2>1, <2>3 DEF SyncHPA
<1>8. ASSUME Notify, seen' = seen, queue' = queue, work' = work, tqQueued' = tqQueued, tqWork' = tqWork,
             \A o \in Agents : ads'[o] = None => ads[o] = None,
             At("finalizer") => ads'[work.agent] = ads[work.agent]
      PROVE  BaseInv'
  <2>1. CountInv' /\ GoneInv'
    BY <1>8, CountStays DEF GoneInv
  <2>2. LeavingInv'
    BY <1>8, LeavingStays DEF At
  <2>3. FinalInv'
    BY <1>8 DEF FinalInv, Leaving, At, Notify
  <2> QED
    BY <2>1, <2>2, <2>3
<1>9. CASE EditQuota
  BY <1>8, <1>9 DEF EditQuota
<1>10. ASSUME NEW b \in Agents, EditAgent(b)
       PROVE  BaseInv'
  <2>1. PICK ad \in ADs : ads' = [ads EXCEPT ![b] = ad]
    BY <1>10, EditedAgent
  <2>2. \A o \in Agents : ads'[o] = None => ads[o] = None
    BY <2>1, NoneAssumption DEF TypeOK
  <2>3. ASSUME At("finalizer")
        PROVE  ads'[work.agent] = ads[work.agent]
    <3>1. ads[work.agent] # None /\ ads[work.agent].deleting /\ work.agent \in Agents
      BY <2>3 DEF FinalInv, Leaving, At, TypeOK, Or, Works
    <3>2. work.agent # b
      BY <1>10, <3>1, EditedAgent
    <3> QED
      BY <2>1, <3>1, <3>2 DEF TypeOK
  <2> QED
    BY <1>8, <1>10, <2>2, <2>3 DEF EditAgent
<1>11. ASSUME NEW b \in Agents, DeleteHPA(b)
       PROVE  BaseInv'
  BY <1>8, <1>11 DEF DeleteHPA
<1>12. CASE ADFault
  <2>1. Usage' = Usage /\ (Counted' <=> Counted)
    BY <1>12 DEF ADFault, Usage, Counted
  <2>2. CountInv' /\ GoneInv'
    BY <1>12, <2>1 DEF ADFault, CountInv, GoneInv
  <2>3. LeavingInv' /\ FinalInv'
    BY <1>12 DEF ADFault, Again, LeavingInv, FinalInv, Leaving, At
  <2> QED
    BY <2>2, <2>3
<1>13. CASE TQFault
  BY <1>2, <1>13 DEF TQFault, CountInv
<1>14. CASE Crash
  <2>1. LeavingInv' /\ FinalInv'
    BY <1>14 DEF Crash, LeavingInv, FinalInv, Leaving, At, Exist
  <2>2. CountInv' /\ GoneInv'
    BY <1>14 DEF Crash, CountInv, GoneInv
  <2> QED
    BY <2>1, <2>2
<1> QED
  BY <1>1, <1>3, <1>4, <1>5, <1>6, <1>7, <1>9, <1>10, <1>11, <1>12, <1>13, <1>14
     DEF Next, Sync, Users, Faults

-----------------------------------------------------------------------------
(* What is still to come when users change an agent only while everything  *)
(* is at rest.                                                             *)

Touched(o) == ~SameAgent(seen.ads, ads, o) \/ Leaving(o)

\* A single change of an agent is being worked off at any time.
OneChange == \A o, p \in Agents : Touched(o) /\ Touched(p) => o = p

\* The removal of an agent that is being deleted will show in the counters: they
\* include it, or have not been computed at all.
LeavingKnown ==
  \A o \in Agents : Leaving(o) =>
    /\ seen.ads[o] # None /\ seen.ads[o].spec.max = ads[o].spec.max
    /\ tq # None => tq.status.agents \in {0, Usage.agents}
    /\ tqWork # None => tqWork.agents = Usage.agents

\* An agent is not created again before the informer has seen that it is gone.
LeftForGood ==
  \A o \in Agents : seen.ads[o] # None /\ seen.ads[o].deleting => ads[o] = None \/ ads[o].deleting

\* The informer's copies give the load of the other agents, or events are to come: the
\* counters cannot become right while the copies are wrong.
LoadInv == tq # None => SameLoad(seen.ads, ads) \/ Due
WorkInv ==
  tqWork # None /\ tqWork = Usage => SameLoad(seen.ads, ads) \/ \E o \in Agents : Leaving(o)

CalmInv == OneChange /\ LeavingKnown /\ LeftForGood /\ LoadInv /\ WorkInv

LEMMA AtRest ==
  ASSUME TypeOK, CacheOK, BaseInv, Quiet
  PROVE  /\ seen.ads = ads /\ work = None /\ tqWork = None
         /\ tq # None => Counted
         /\ \A o \in Agents : ~Leaving(o)
<1>1. seen.ads = ads
  BY DEF TypeOK, CacheOK, Quiet, Nothing
<1>2. tq # None => Counted
  BY DEF BaseInv, CountInv, Quiet, Nothing
<1>3. \A o \in Agents : ~Leaving(o)
  BY DEF BaseInv, LeavingInv, Quiet, Nothing, At
<1> QED
  BY <1>1, <1>2, <1>3 DEF Quiet

LEMMA LoadReflexive ==
  ASSUME NEW x
  PROVE  SameLoad(x, x)
BY DEF SameLoad

\* Agents without changes have the same load.
LEMMA LoadUntouched ==
  ASSUME NEW x, NEW y, \A o \in Agents : SameAgent(x, y, o) \/ (o \notin Live(x) /\ o \notin Live(y))
  PROVE  SameLoad(x, y)
<1>1. Live(x) = Live(y)
  BY DEF Live, Exist, SameAgent
<1>2. \A o \in Live(x) : x[o].spec.max = y[o].spec.max
  BY DEF Live, Exist, SameAgent
<1> QED
  BY <1>1, <1>2 DEF SameLoad

\* What a step keeps that changes no agent and no informer's copy of one.
LEMMA KeptAgents ==
  ASSUME CalmInv, SameAgents(ads, ads'), seen'.ads = seen.ads
  PROVE  /\ OneChange' /\ LeftForGood' /\ Usage' = Usage
         /\ SameLoad(seen.ads, ads) => SameLoad(seen.ads, ads)'
         /\ \A o \in Agents : Leaving(o)' = Leaving(o)
         /\ \A o \in Agents : Leaving(o)' =>
              seen'.ads[o] # None /\ seen'.ads[o].spec.max = ads'[o].spec.max
<1>1. /\ Usage' = Usage /\ SameLoad(ads, ads')
      /\ \A o \in Agents : Leaving(o)' = Leaving(o) /\ (ads'[o] = None) = (ads[o] = None)
  BY SameAgentsKept
<1>2. \A o \in Agents : Touched(o)' => Touched(o)
  BY <1>1 DEF Touched, SameAgents, SameAgent
<1>3. OneChange'
  BY <1>2 DEF OneChange, CalmInv
<1>4. LeftForGood'
  BY DEF LeftForGood, CalmInv, SameAgents, SameAgent
<1>5. SameLoad(seen.ads, ads) => SameLoad(seen.ads, ads)'
  BY <1>1 DEF SameLoad
<1>6. \A o \in Agents : Leaving(o)' =>
        seen'.ads[o] # None /\ seen'.ads[o].spec.max = ads'[o].spec.max
  <2>1. \A o \in Agents : Leaving(o) => ads'[o].spec.max = ads[o].spec.max
    BY DEF Leaving, SameAgents, SameAgent
  <2> QED
    BY <1>1, <2>1 DEF LeavingKnown, CalmInv
<1> QED
  BY <1>1, <1>3, <1>4, <1>5, <1>6

LEMMA CalmKept ==
  ASSUME CalmInv, SameAgents(ads, ads'), seen'.ads = seen.ads, tq' = tq,
         tqWork' = tqWork \/ tqWork' = None
  PROVE  CalmInv'
<1>1. /\ OneChange' /\ LeftForGood' /\ Usage' = Usage
      /\ SameLoad(seen.ads, ads) => SameLoad(seen.ads, ads)'
      /\ \A o \in Agents : Leaving(o)' = Leaving(o)
      /\ \A o \in Agents : Leaving(o)' =>
           seen'.ads[o] # None /\ seen'.ads[o].spec.max = ads'[o].spec.max
  BY KeptAgents
<1>2. LeavingKnown'
  BY <1>1 DEF LeavingKnown, CalmInv
<1>3. LoadInv'
  <2>1. Counted' <=> Counted
    BY <1>1 DEF Counted
  <2>2. Due => Due'
    BY <1>1, <2>1 DEF Due
  <2> QED
    BY <1>1, <2>2 DEF LoadInv, CalmInv
<1>4. WorkInv'
  BY <1>1 DEF WorkInv, CalmInv
<1> QED
  BY <1>1, <1>2, <1>3, <1>4 DEF CalmInv

\* With a single change under way, the copies that give the right counters give the
\* right load, too.
LEMMA RightCounts ==
  ASSUME TypeOK, CalmInv
  PROVE  /\ ComputeUsage(seen.ads) = Usage => SameLoad(seen.ads, ads) \/ \E o \in Agents : Leaving(o)
         /\ (\E o \in Agents : Leaving(o)) => ComputeUsage(seen.ads).agents = Usage.agents
<1> USE DEF CalmInv
<1>1. seen.ads \in ADMap /\ ads \in ADMap
  BY DEF TypeOK, ADMap
<1>2. ASSUME ComputeUsage(seen.ads) = Usage, \A o \in Agents : ~Leaving(o)
      PROVE  SameLoad(seen.ads, ads)
  <2>1. CASE \A o \in Agents : SameAgent(seen.ads, ads, o)
    BY <2>1, LoadUntouched
  <2>2. ASSUME NEW o \in Agents, ~SameAgent(seen.ads, ads, o)
        PROVE  FALSE
    <3>1. \A p \in Agents \ {o} : SameAgent(seen.ads, ads, p)
      BY <2>2 DEF OneChange, Touched
    <3>2. \A p \in Agents \ {o} : (seen.ads[p] = None) = (ads[p] = None)
      BY <3>1 DEF SameAgent
    <3>3. CASE seen.ads[o] = None
      <4>1. ads[o] # None
        BY <2>2, <3>3 DEF SameAgent
      <4>2. ComputeUsage(ads).agents = ComputeUsage(seen.ads).agents + 1 /\ ComputeUsage(seen.ads).agents \in Nat
        BY <3>2, <3>3, <4>1, UsageGrown
      <4> QED
        BY <1>2, <4>2 DEF Usage
    <3>4. CASE seen.ads[o] # None /\ ads[o] = None
      <4>1. ComputeUsage(seen.ads).agents = ComputeUsage(ads).agents + 1 /\ ComputeUsage(ads).agents \in Nat
        BY <3>2, <3>4, UsageGrown
      <4> QED
        BY <1>2, <4>1 DEF Usage
    <3>5. CASE seen.ads[o] # None /\ ads[o] # None
      <4>1. ~ads[o].deleting /\ ~seen.ads[o].deleting
        BY <1>2, <3>5 DEF Leaving, LeftForGood
      <4>2. seen.ads[o] \in ADs /\ ads[o] \in ADs
        BY <1>1, <3>5 DEF ADMap, Or
      <4>3. seen.ads[o].spec.max # ads[o].spec.max
        BY <2>2, <3>5, <4>1, <4>2 DEF SameAgent, ADs
      <4>4. ComputeUsage(seen.ads).replicas # ComputeUsage(ads).replicas
        BY <1>1, <3>1, <3>5, <4>3, UsageResized
      <4> QED
        BY <1>2, <4>4 DEF Usage
    <3> QED
      BY <3>3, <3>4, <3>5
  <2> QED
    BY <2>1, <2>2
<1>3. ASSUME NEW o \in Agents, Leaving(o)
      PROVE  ComputeUsage(seen.ads).agents = Usage.agents
  <2>1. \A p \in Agents \ {o} : SameAgent(seen.ads, ads, p)
    BY <1>3 DEF OneChange, Touched
  <2>2. seen.ads[o] # None /\ ads[o] # None
    BY <1>3 DEF LeavingKnown, Leaving
  <2>3. Exist(seen.ads) = Exist(ads)
    BY <2>1, <2>2 DEF Exist, SameAgent
  <2> QED
    BY <2>3 DEF ComputeUsage, Usage
<1> QED
  BY <1>2, <1>3

\* The TenantQuota reconciler, and users' changes of the quota.
LEMMA CalmQuota ==
  ASSUME TypeOK, TypeOK', CacheOK, BaseInv, CalmInv, TQReconcile \/ TQUpdate \/ EditQuota
  PROVE  CalmInv'
<1> USE DEF CalmInv
<1>1. ads' = ads /\ seen' = seen
  BY DEF TQReconcile, TQUpdate, EditQuota
<1>2. SameAgents(ads, ads')
  BY <1>1 DEF SameAgents, SameAgent
<1>3. /\ OneChange' /\ LeftForGood' /\ Usage' = Usage
      /\ SameLoad(seen.ads, ads) => SameLoad(seen.ads, ads)'
      /\ \A o \in Agents : Leaving(o)' = Leaving(o)
      /\ \A o \in Agents : Leaving(o)' =>
           seen'.ads[o] # None /\ seen'.ads[o].spec.max = ads'[o].spec.max
  BY <1>1, <1>2, KeptAgents
<1>4. CASE TQReconcile
  <2>1. tq' = tq /\ (tqWork' # None => tqWork' = ComputeUsage(seen.ads))
    BY <1>4 DEF TQReconcile
  <2>2. LeavingKnown'
    BY <1>3, <2>1, RightCounts DEF LeavingKnown
  <2>3. LoadInv'
    BY <1>1, <2>1 DEF LoadInv, Due, Leaving, Counted, Usage
  <2>4. WorkInv'
    BY <1>3, <2>1, RightCounts DEF WorkInv
  <2> QED
    BY <1>3, <2>2, <2>3, <2>4
<1>5. CASE TQUpdate /\ tq' = tq
  BY <1>1, <1>2, <1>5, CalmKept DEF TQUpdate
<1>6. CASE TQUpdate /\ tq' # tq
  <2>1. /\ tqWork # None /\ tqWork' = None /\ seen.tq # None
        /\ tq' = [seen.tq EXCEPT !.status = NewStatus(seen.tq.quota, tqWork)]
    BY <1>6 DEF TQUpdate
  <2>2. tq'.status.agents = tqWork.agents /\ tq'.status.replicas = tqWork.replicas
    BY <2>1 DEF TypeOK, Or, TQs, NewStatus
  <2>3. LeavingKnown'
    BY <1>3, <2>1, <2>2 DEF LeavingKnown
  <2>4. WorkInv'
    BY <2>1 DEF WorkInv
  <2>5. LoadInv'
    <3>1. CASE tqWork = Usage
      BY <1>3, <2>1, <3>1 DEF WorkInv, LoadInv, Due
    <3>2. CASE tqWork # Usage
      <4>1. /\ tqWork \in [agents : Nat, replicas : Range32]
            /\ Usage \in [agents : Nat, replicas : Range32]
        BY <2>1, UsageType DEF TypeOK, Or, Usage
      <4>2. ~Counted'
        BY <1>3, <2>2, <3>2, <4>1 DEF Counted
      <4> QED
        BY <4>2 DEF LoadInv, Due
    <3> QED
      BY <3>1, <3>2
  <2> QED
    BY <1>3, <2>3, <2>4, <2>5
<1>7. CASE EditQuota
  <2>1. tqWork' = tqWork
    BY <1>7 DEF EditQuota
  <2>2. WorkInv'
    BY <1>3, <2>1 DEF WorkInv
  <2>3. CASE tq' = None
    BY <1>3, <2>1, <2>2, <2>3 DEF LeavingKnown, LoadInv
  <2>4. CASE tq # None /\ tq' # None
    <3>1. tq'.status = tq.status
      BY <1>7, <2>4 DEF EditQuota, TypeOK, Or, TQs
    <3>2. LeavingKnown'
      BY <1>3, <2>1, <2>4, <3>1 DEF LeavingKnown
    <3>3. LoadInv'
      BY <1>3, <2>4, <3>1 DEF LoadInv, Due, Counted
    <3> QED
      BY <1>3, <2>2, <3>2, <3>3
  <2>5. CASE tq = None /\ tq' # None
    <3>1. tq'.status.agents = 0
      BY <1>7, <2>5 DEF EditQuota, NewTQ
    <3>2. LeavingKnown'
      BY <1>3, <2>1, <3>1 DEF LeavingKnown
    <3>3. LoadInv'
      <4>1. CASE Exist(ads) = {}
        <5>1. \A o \in Agents : o \notin Live(seen.ads) /\ o \notin Live(ads)
          BY <4>1 DEF Live, Exist, BaseInv, GoneInv
        <5>2. SameLoad(seen.ads, ads)
          BY <5>1, LoadUntouched
        <5> QED
          BY <1>3, <5>2 DEF LoadInv
      <4>2. CASE Exist(ads) # {}
        <5>1. IsFiniteSet(Exist(ads))
          BY FS_Subset, ScalingAssumption DEF Exist
        <5>2. Usage.agents # 0
          BY <4>2, <5>1, FS_EmptySet DEF Usage, ComputeUsage
        <5> QED
          BY <1>3, <2>5, <3>1, <5>2 DEF LoadInv, Due, Counted
      <4> QED
        BY <4>1, <4>2
    <3> QED
      BY <1>3, <2>2, <3>2, <3>3
  <2> QED
    BY <2>3, <2>4, <2>5
<1> QED
  BY <1>4, <1>5, <1>6, <1>7

\* The informers catch up, by an event or by starting again.
LEMMA CalmCaughtUp ==
  ASSUME TypeOK, CalmInv, ads' = ads, tq' = tq, tqWork' = tqWork \/ tqWork' = None,
         \A o \in Agents : seen'.ads[o] \in {seen.ads[o], ads[o]}
  PROVE  CalmInv'
<1> USE DEF CalmInv
<1>1. Usage' = Usage /\ \A o \in Agents : Leaving(o)' = Leaving(o)
  BY DEF Usage, Leaving
<1>2. \A o \in Agents : Touched(o)' => Touched(o)
  BY DEF Touched, SameAgent, Leaving
<1>3. OneChange'
  BY <1>2 DEF OneChange
<1>4. LeavingKnown'
  BY <1>1 DEF LeavingKnown, Leaving
<1>5. LeftForGood'
  BY DEF LeftForGood
<1>6. SameLoad(seen.ads, ads) => SameLoad(seen.ads, ads)'
  <2>1. SUFFICES ASSUME SameLoad(seen.ads, ads)
                 PROVE  SameLoad(seen'.ads, ads)
    OBVIOUS
  <2>2. \A o \in Agents : (o \in Live(seen'.ads)) = (o \in Live(ads))
    BY <2>1 DEF SameLoad, Live, Exist
  <2>3. Live(seen'.ads) = Live(ads)
    BY <2>2 DEF Live, Exist
  <2>4. \A o \in Live(ads) : seen'.ads[o].spec.max = ads[o].spec.max
    BY <2>1 DEF SameLoad, Live, Exist
  <2> QED
    BY <2>3, <2>4 DEF SameLoad
<1>7. LoadInv' /\ WorkInv'
  BY <1>1, <1>6 DEF LoadInv, WorkInv, Due, Counted
<1> QED
  BY <1>3, <1>4, <1>5, <1>7

\* A deleted agent goes: the counters are now wrong, and the informer's copies right.
LEMMA CalmRemoval ==
  ASSUME TypeOK, CacheOK, BaseInv, CalmInv, Removal
  PROVE  /\ CalmInv'
         /\ \A a \in Agents : ads'[a] # None => tq' = None \/ Due'
<1> USE DEF CalmInv
<1>0. PICK o \in Agents : o = work.agent
  BY DEF Removal, At, TypeOK, Or, Works
<1>1. /\ ads' = [ads EXCEPT ![o] = None] /\ seen' = seen /\ tq' = tq
      /\ tqWork' = tqWork
  BY <1>0 DEF Removal, Elsewhere
<1>2. Leaving(o) /\ o \notin late.ads
  BY <1>0 DEF Removal, BaseInv, FinalInv
<1>3. seen.ads[o] = ads[o] /\ ads[o] # None /\ ads[o].deleting
  BY <1>1, <1>2 DEF CacheOK, Leaving
<1>4. \A p \in Agents \ {o} : SameAgent(seen.ads, ads, p) /\ ~Leaving(p) /\ ads'[p] = ads[p]
  BY <1>1, <1>2 DEF OneChange, Touched, TypeOK
<1>5. ads'[o] = None
  BY <1>1 DEF TypeOK
<1>6. /\ Usage.agents = Usage'.agents + 1 /\ Usage'.agents \in Nat
  <2>1. \A p \in Agents \ {o} : (ads'[p] = None) = (ads[p] = None)
    BY <1>4
  <2>2. ComputeUsage(ads).agents = ComputeUsage(ads').agents + 1 /\ ComputeUsage(ads').agents \in Nat
    BY <1>3, <1>5, <2>1, UsageGrown
  <2> QED
    BY <2>2 DEF Usage
<1>7. \A p \in Agents : ~Leaving(p)' /\ (p # o => ~Touched(p)')
  BY <1>1, <1>4, <1>5 DEF Leaving, Touched, SameAgent
<1>8. OneChange' /\ LeavingKnown'
  BY <1>7 DEF OneChange, LeavingKnown
<1>9. LeftForGood'
  BY <1>1, <1>4, <1>5 DEF LeftForGood
<1>10. SameLoad(seen.ads, ads)'
  <2>1. ASSUME NEW p \in Agents
        PROVE  SameAgent(seen'.ads, ads', p) \/ (p \notin Live(seen'.ads) /\ p \notin Live(ads'))
    <3>1. CASE p = o
      BY <1>1, <1>3, <1>5, <3>1 DEF Live, Exist
    <3>2. CASE p # o
      BY <1>1, <1>4, <3>2 DEF SameAgent
    <3> QED
      BY <3>1, <3>2
  <2>2. SameLoad(seen'.ads, ads')
    BY <2>1, LoadUntouched
  <2> QED
    BY <2>2
<1>11. LoadInv' /\ WorkInv'
  BY <1>10 DEF LoadInv, WorkInv
<1>12. ASSUME NEW a \in Agents, ads'[a] # None, tq' # None
       PROVE  Due'
  <2>1. tq.status.agents \in {0, Usage.agents}
    BY <1>1, <1>2, <1>12 DEF LeavingKnown
  <2>2. Usage'.agents # 0
    <3>1. IsFiniteSet(Exist(ads')) /\ Exist(ads') # {}
      BY <1>12, FS_Subset, ScalingAssumption DEF Exist
    <3> QED
      BY <3>1, FS_EmptySet DEF Usage, ComputeUsage
  <2>3. ~Counted'
    BY <1>1, <1>6, <2>1, <2>2 DEF Counted
  <2> QED
    BY <1>12, <2>3 DEF Due
<1> QED
  BY <1>8, <1>9, <1>11, <1>12

\* A user changes an agent while everything is at rest.
LEMMA CalmEdit ==
  ASSUME TypeOK, TypeOK', CacheOK, BaseInv, Quiet, NEW b \in Agents, EditAgent(b)
  PROVE  /\ CalmInv'
         /\ tq' = None \/ Due' \/ SameAgents(ads, ads')
<1>1. /\ seen.ads = ads /\ work = None /\ tqWork = None /\ (tq # None => Counted)
      /\ \A o \in Agents : ~Leaving(o)
  BY AtRest
<1>2. PICK ad \in ADs : /\ ads' = [ads EXCEPT ![b] = ad]
                        /\ ad.deleting => ads[b] # None /\ ad.spec = ads[b].spec
  BY EditedAgent
<1>3. tq' = tq /\ seen' = seen /\ tqWork' = tqWork
  BY DEF EditAgent
<1>4. /\ ads'[b] = ad /\ ad # None /\ ads \in ADMap /\ ads' \in ADMap
      /\ \A p \in Agents \ {b} : ads'[p] = ads[p]
  BY <1>2, NoneAssumption DEF TypeOK, ADMap
<1>5. \A p \in Agents \ {b} : SameAgent(ads, ads', p) /\ SameAgent(seen.ads, ads, p)'
                              /\ (ads[p] = None) = (ads'[p] = None)
  BY <1>1, <1>3, <1>4 DEF SameAgent
<1>6. \A p \in Agents \ {b} : ~Leaving(p)' /\ ~Touched(p)'
  BY <1>1, <1>4, <1>5 DEF Leaving, Touched
<1>7. OneChange'
  BY <1>6 DEF OneChange
<1>8. LeftForGood'
  BY <1>1, <1>3 DEF LeftForGood, Leaving
<1>9. WorkInv'
  BY <1>1, <1>3 DEF WorkInv
<1>10. LeavingKnown'
  <2>1. SUFFICES ASSUME Leaving(b)'
                 PROVE  /\ ads[b] # None /\ ads[b].spec.max = ads'[b].spec.max
                        /\ tq # None => tq.status.agents \in {0, Usage'.agents}
    BY <1>1, <1>3, <1>6 DEF LeavingKnown
  <2>2. ads[b] # None /\ ad.spec = ads[b].spec
    BY <1>2, <1>4, <2>1 DEF Leaving
  <2>3. Exist(ads') = Exist(ads)
    BY <1>4, <2>2 DEF Exist
  <2>4. Usage'.agents = Usage.agents
    BY <2>3 DEF Usage, ComputeUsage
  <2> QED
    BY <1>1, <1>4, <2>2, <2>4 DEF Counted
<1>11. tq' = None \/ Due' \/ SameAgents(ads, ads')
  <2>1. SUFFICES ASSUME tq # None, ~Due', ~SameAgent(ads, ads', b)
                 PROVE  FALSE
    BY <1>3, <1>5 DEF SameAgents
  <2>2. ~Leaving(b)' /\ Counted' /\ Counted
    BY <1>1, <1>3, <2>1 DEF Due
  <2>3. Usage'.agents = Usage.agents /\ Usage'.replicas = Usage.replicas
    BY <1>3, <2>2 DEF Counted
  <2>4. CASE ads[b] = None
    <3>1. ComputeUsage(ads').agents = ComputeUsage(ads).agents + 1 /\ ComputeUsage(ads).agents \in Nat
      BY <1>4, <1>5, <2>4, UsageGrown
    <3> QED
      BY <2>3, <3>1 DEF Usage
  <2>5. CASE ads[b] # None
    <3>1. ads[b] \in ADs /\ ~ads[b].deleting /\ ~ad.deleting
      BY <1>1, <1>4, <2>2, <2>5 DEF Leaving, TypeOK, Or
    <3>2. ads[b].spec.max # ads'[b].spec.max
      BY <1>4, <2>1, <2>5, <3>1 DEF SameAgent, ADs
    <3>3. ComputeUsage(ads).replicas # ComputeUsage(ads').replicas
      BY <1>4, <1>5, <2>5, <3>2, UsageResized
    <3> QED
      BY <2>3, <3>3 DEF Usage
  <2> QED
    BY <2>4, <2>5
<1>12. LoadInv'
  <2>1. SameAgents(ads, ads') => SameLoad(seen.ads, ads)'
    BY <1>1, <1>3, SameAgentsSums
  <2> QED
    BY <1>11, <2>1 DEF LoadInv
<1> QED
  BY <1>7, <1>8, <1>9, <1>10, <1>11, <1>12 DEF CalmInv

LEMMA CalmInductive ==
  ASSUME TypeOK, TypeOK', CacheOK, BaseInv, calm => CalmInv, Next, calm'
  PROVE  CalmInv'
<1>1. ASSUME NEW b \in Agents, EditAgent(b)
      PROVE  CalmInv'
  BY <1>1, CalmEdit DEF EditAgent
<1>2. SUFFICES ASSUME \A b \in Agents : ~EditAgent(b)
               PROVE  CalmInv'
  BY <1>1
<1>3. calm
  <2>1. Elsewhere => calm' = calm
    BY DEF Elsewhere
  <2>2. ADWorker => calm' = calm
    BY <2>1, WorkerStep
  <2> QED
    BY <1>2, <2>2 DEF Next, TQReconcile, TQUpdate, Sync, SyncTQ, SyncAD, SyncHPA, Users, EditQuota,
                      DeleteHPA, Faults, ADFault, TQFault, Crash
<1>4. ads' = ads => SameAgents(ads, ads')
  BY DEF SameAgents, SameAgent
<1>5. CASE ADWorker
  <2>1. tq' = tq /\ seen' = seen /\ tqWork' = tqWork
    BY <1>5, WorkerStep DEF Elsewhere
  <2>2. CASE Removal
    BY <1>3, <2>2, CalmRemoval
  <2>3. CASE ~Removal
    <3>1. SameAgents(ads, ads')
      BY <1>4, <1>5, <2>3, WorkerStep DEF Reconcile
    <3> QED
      BY <1>3, <2>1, <3>1, CalmKept
  <2> QED
    BY <2>2, <2>3
<1>6. CASE TQReconcile \/ TQUpdate \/ EditQuota
  BY <1>3, <1>6, CalmQuota
<1>7. CASE SyncTQ
  <2>1. seen'.ads = seen.ads
    BY <1>7 DEF SyncTQ, TypeOK
  <2> QED
    BY <1>3, <1>4, <1>7, <2>1, CalmKept DEF SyncTQ
<1>8. ASSUME NEW b \in Agents, SyncHPA(b)
      PROVE  CalmInv'
  <2>1. seen'.ads = seen.ads
    BY <1>8 DEF SyncHPA, TypeOK
  <2> QED
    BY <1>3, <1>4, <1>8, <2>1, CalmKept DEF SyncHPA
<1>9. ASSUME NEW b \in Agents, SyncAD(b)
      PROVE  CalmInv'
  <2>1. \A o \in Agents : seen'.ads[o] \in {seen.ads[o], ads[o]}
    BY <1>9 DEF SyncAD, TypeOK
  <2> QED
    BY <1>3, <1>9, <2>1, CalmCaughtUp DEF SyncAD
<1>10. CASE Crash
  <2>1. \A o \in Agents : seen'.ads[o] \in {seen.ads[o], ads[o]}
    BY <1>10 DEF Crash
  <2> QED
    BY <1>3, <1>10, <2>1, CalmCaughtUp DEF Crash
<1>11. ASSUME NEW b \in Agents, DeleteHPA(b)
       PROVE  CalmInv'
  BY <1>3, <1>4, <1>11, CalmKept DEF DeleteHPA
<1>12. CASE ADFault
  BY <1>3, <1>4, <1>12, CalmKept DEF ADFault
<1>13. CASE TQFault
  BY <1>3, <1>4, <1>13, CalmKept DEF TQFault
<1> QED
  BY <1>2, <1>5, <1>6, <1>7, <1>8, <1>9, <1>10, <1>11, <1>12, <1>13 DEF Next, Sync, Users, Faults

-----------------------------------------------------------------------------
(* The HPAs.                                                               *)

\* The reconcile has computed the headroom that there is.
RightCourse(a) ==
  /\ OnCourse(a)
  /\ work.at = "write" \/ (work.at = "status" /\ work.limited # "TenantQuotaNotFound") =>
       work.headroom = Headroom(a)

Right(a) == tq # None => Exact(a)

\* An agent's HPA is right or will be looked at again: because of an event of its own,
\* of one of the TenantQuota that is to come, or in the reconcile under way.
ExactInv ==
  \A a \in Agents : ads[a] # None => Pending(a) \/ Due \/ RightCourse(a) \/ Right(a)

\* The headroom is computed from the right load.
LEMMA HeadroomSeen ==
  ASSUME SumsFit, TypeOK, tq # None, seen.tq = tq, SameLoad(seen.ads, ads), NEW a \in Agents
  PROVE  QuotaHeadroom(seen.tq.quota, replicasUsedByOtherAgents(seen.ads, a)) = Headroom(a)
<1>1. seen.ads \in [Agents -> Or(ADs)] /\ tq.quota \in Quotas
  BY DEF TypeOK, Or, TQs
<1>2. /\ Others(seen.ads, a) \in 0..IntMax
      /\ replicasUsedByOtherAgents(seen.ads, a) = Others(seen.ads, a)
  BY <1>1, OthersFit
<1>3. Others(seen.ads, a) = Others(ads, a)
  BY SameLoadOthers
<1> QED
  BY <1>1, <1>2, <1>3, HeadroomExact DEF Headroom

\* The headroom, what is due and what is pending, after a step that changes no agent's load.
LEMMA HeadroomKept ==
  ASSUME SameAgents(ads, ads'), tq' = tq
  PROVE  Due' = Due /\ \A a \in Agents : Headroom(a)' = Headroom(a)
<1>1. /\ Usage' = Usage /\ SameLoad(ads, ads')
      /\ \A o \in Agents : Leaving(o)' = Leaving(o)
  BY SameAgentsKept
<1>2. Due' = Due
  BY <1>1 DEF Due, Counted
<1>3. \A a \in Agents : Others(ads, a) = Others(ads', a)
  BY <1>1, SameLoadOthers
<1> QED
  BY <1>2, <1>3 DEF Headroom

LEMMA RightStays ==
  ASSUME TypeOK, Notify, SameAgents(ads, ads'), queue \subseteq queue', NEW a \in Agents,
         Pending(a) \/ Due \/ Right(a)
  PROVE  Pending(a)' \/ Due' \/ Right(a)'
<1>1. CASE Pending(a)
  BY <1>1 DEF Pending, Notify
<1>2. CASE ads'[a] # ads[a] \/ hpas'[a] # hpas[a] \/ tq' # tq
  BY <1>2 DEF Pending, Notify
<1>3. CASE (Due \/ Right(a)) /\ ads'[a] = ads[a] /\ hpas'[a] = hpas[a] /\ tq' = tq
  <2>1. Due' = Due /\ Headroom(a)' = Headroom(a)
    BY <1>3, HeadroomKept
  <2> QED
    BY <1>3, <2>1 DEF Right, Exact
<1> QED
  BY <1>1, <1>2, <1>3

\* Where the headroom of a reconcile comes from.
LEMMA CourseHeadroom ==
  ASSUME TypeOK, ADWorker, ~Reconcile, work' # None,
         work'.at = "write" \/ (work'.at = "status" /\ work'.limited # "TenantQuotaNotFound")
  PROVE  \/ /\ work.at = "write" /\ work'.headroom = work.headroom
         \/ /\ seen.tq # None
            /\ work'.headroom = QuotaHeadroom(seen.tq.quota, replicasUsedByOtherAgents(seen.ads, work.agent))
<1>1. work # None
  BY DEF ADWorker, RemoveFinalizer, PauseHPA, StartStatus, restoreHPA, EndStatus, GetQuota,
         reconcileHPA, updateStatus, At
<1>2. work \in Works
  BY <1>1 DEF TypeOK, Or
<1>3. ~Again /\ ~Done
  BY DEF Again, Done
<1>4. \A p : Goto(p) => work'.at = p /\ work'.headroom = work.headroom
  BY <1>2 DEF Goto, Works
<1>5. CASE GetQuota
  <2> DEFINE h == QuotaHeadroom(seen.tq.quota, replicasUsedByOtherAgents(seen.ads, work.agent))
  <2>1. work' = IF seen.tq = None
                  THEN [work EXCEPT !.at = "status", !.limited = "TenantQuotaNotFound"]
                  ELSE [work EXCEPT !.at = "write", !.headroom = h, !.limited = Capped(work.spec, h)]
    BY <1>5 DEF GetQuota
  <2> HIDE DEF h
  <2>2. seen.tq # None
    BY <1>2, <2>1 DEF Works
  <2>3. work'.headroom = h
    BY <1>2, <2>1, <2>2 DEF Works
  <2> QED
    BY <2>2, <2>3 DEF h
<1>6. CASE reconcileHPA
  BY <1>3, <1>4, <1>6 DEF reconcileHPA, CreateOrUpdate, At
<1>7. CASE PauseHPA \/ restoreHPA
  BY <1>3, <1>4, <1>7 DEF PauseHPA, restoreHPA, CreateOrUpdate
<1>8. CASE RemoveFinalizer \/ StartStatus \/ EndStatus \/ updateStatus
  BY <1>3, <1>8 DEF RemoveFinalizer, StartStatus, EndStatus, updateStatus
<1> QED
  BY <1>5, <1>6, <1>7, <1>8 DEF ADWorker

LEMMA ExactWorker ==
  ASSUME SumsFit, IInv, BaseInv, CalmInv, ExactInv, ADWorker
  PROVE  ExactInv'
<1> SUFFICES ASSUME NEW a \in Agents, ads'[a] # None
             PROVE  (Pending(a) \/ Due \/ RightCourse(a) \/ Right(a))'
  BY DEF ExactInv
<1> USE DEF IInv
<1>1. Elsewhere /\ Notify /\ tq' = tq
  BY WorkerStep DEF Elsewhere
<1>2. CASE Removal
  BY <1>2, CalmRemoval DEF Right
<1>3. CASE Reconcile
  <2>1. ads' = ads /\ hpas' = hpas /\ work = None
    BY <1>3 DEF Reconcile
  <2>2. SameAgents(ads, ads')
    BY <2>1 DEF SameAgents, SameAgent
  <2>3. Due' = Due /\ Headroom(a)' = Headroom(a)
    BY <1>1, <2>2, HeadroomKept
  <2>4. Right(a) => Right(a)'
    BY <1>1, <2>1, <2>3 DEF Right, Exact
  <2>5. CASE OnCourse(a)' /\ work'.at \notin {"write", "status"}
    BY <2>5 DEF RightCourse
  <2>6. CASE ~Pending(a)
    BY <2>1, <2>3, <2>4, <2>6 DEF ExactInv, RightCourse, OnCourse
  <2> QED
    BY <1>3, <2>5, <2>6, ReconcileCourse
<1>4. CASE /\ ~Removal /\ ~Reconcile
  <2>1. queue \subseteq queue' /\ SameAgents(ads, ads')
    BY <1>4, WorkerStep
  <2>2. ads[a] # None
    BY <2>1, SameAgentsKept
  <2>3. CASE Pending(a) \/ Due \/ Right(a)
    BY <1>1, <2>1, <2>3, RightStays
  <2>4. CASE ~Pending(a) /\ ~Due /\ RightCourse(a)
    <3>1. Due' = Due /\ Headroom(a)' = Headroom(a)
      BY <1>1, <2>1, HeadroomKept
    <3>2. work # None /\ work.agent = a /\ OnCourse(a)
      BY <2>4 DEF RightCourse, OnCourse
    <3>3. CASE OnCourse(a)'
      <4>1. SUFFICES ASSUME work'.at = "write" \/ (work'.at = "status" /\ work'.limited # "TenantQuotaNotFound")
                     PROVE  work'.headroom = Headroom(a)
        BY <3>1, <3>3 DEF RightCourse
      <4>2. work' # None
        BY <3>3 DEF OnCourse
      <4>3. CASE work.at = "write" /\ work'.headroom = work.headroom
        BY <2>4, <4>3 DEF RightCourse
      <4>4. CASE /\ seen.tq # None
                 /\ work'.headroom = QuotaHeadroom(seen.tq.quota, replicasUsedByOtherAgents(seen.ads, a))
        <5>1. seen.tq = tq /\ tq # None
          BY <2>4, <4>4 DEF Pending, CacheOK
        <5>2. SameLoad(seen.ads, ads)
          BY <2>4, <5>1 DEF CalmInv, LoadInv
        <5> QED
          BY <4>4, <5>1, <5>2, HeadroomSeen
      <4> QED
        BY <1>4, <3>2, <4>1, <4>2, <4>3, <4>4, CourseHeadroom
    <3>4. CASE Finishes(a)
      <4>1. /\ work.at = "status" /\ work.limited # "TenantQuotaNotFound"
            /\ ads[a].limited = work.limited /\ ads' = ads /\ hpas' = hpas
        BY <3>4 DEF Finishes, At
      <4>2. /\ work.headroom = Headroom(a) /\ work.spec = ads[a].spec
            /\ work.limited = Capped(work.spec, work.headroom)
            /\ hpas[a] = BuildHPA(work.spec, work.headroom)
        BY <2>4, <3>2, <4>1 DEF RightCourse, OnCourse, Sized
      <4>3. Exact(a)'
        BY <3>1, <4>1, <4>2 DEF Exact
      <4> QED
        BY <4>3 DEF Right
    <3> QED
      BY <1>4, <2>2, <2>4, <3>2, <3>3, <3>4, WorkerCourse
  <2> QED
    BY <2>2, <2>3, <2>4 DEF ExactInv
<1> QED
  BY <1>2, <1>3, <1>4

LEMMA ExactInductive ==
  ASSUME SumsFit, IInv, TypeOK', BaseInv, calm => CalmInv /\ ExactInv, Next, calm'
  PROVE  ExactInv'
<1> USE DEF IInv
<1>1. ads' = ads => SameAgents(ads, ads')
  BY DEF SameAgents, SameAgent
\* A step that leaves the work queue and the reconcile alone, and no agent's load changes.
<1>2. ASSUME calm, Notify, SameAgents(ads, ads'), queue' = queue, work' = work
      PROVE  ExactInv'
  <2> SUFFICES ASSUME NEW a \in Agents, ads'[a] # None
               PROVE  (Pending(a) \/ Due \/ RightCourse(a) \/ Right(a))'
    BY DEF ExactInv
  <2>1. ads[a] # None
    BY <1>2, SameAgentsKept
  <2>2. CASE Pending(a) \/ Due \/ Right(a)
    BY <1>2, <2>2, RightStays
  <2>3. CASE RightCourse(a)
    <3>1. CASE tq' # tq
      BY <1>2, <3>1 DEF Pending, Notify
    <3>2. CASE tq' = tq
      <4>1. Headroom(a)' = Headroom(a)
        BY <1>2, <3>2, HeadroomKept
      <4>2. Pending(a)' \/ OnCourse(a)'
        BY <1>2, <2>3, CourseStays DEF RightCourse
      <4> QED
        BY <1>2, <2>3, <4>1, <4>2 DEF RightCourse
    <3> QED
      BY <3>1, <3>2
  <2> QED
    BY <1>2, <2>1, <2>2, <2>3 DEF ExactInv
\* A step that changes no object, and forgets nothing of what is pending.
<1>3. ASSUME calm, UNCHANGED <<ads, hpas, tq>>,
             \A a \in Agents : ads[a] # None /\ Pending(a) => Pending(a)',
             work' = work \/ \A a \in Agents : work.agent = a => Pending(a)'
      PROVE  ExactInv'
  <2> SUFFICES ASSUME NEW a \in Agents, ads'[a] # None
               PROVE  (Pending(a) \/ Due \/ RightCourse(a) \/ Right(a))'
    BY DEF ExactInv
  <2>1. Due' = Due /\ Headroom(a)' = Headroom(a)
    BY <1>1, <1>3, HeadroomKept
  <2>2. Right(a) => Right(a)'
    BY <1>3, <2>1 DEF Right, Exact
  <2>3. RightCourse(a) => RightCourse(a)' \/ Pending(a)'
    BY <1>3, <2>1 DEF RightCourse, OnCourse, Sized
  <2> QED
    BY <1>3, <2>1, <2>2, <2>3 DEF ExactInv
<1>4. ASSUME NEW b \in Agents, EditAgent(b)
      PROVE  ExactInv'
  <2>1. Quiet /\ calm /\ Notify /\ tq' = tq /\ queue' = queue /\ work' = work
    BY <1>4 DEF EditAgent
  <2>2. tq' = None \/ Due' \/ SameAgents(ads, ads')
    BY <1>4, <2>1, CalmEdit
  <2>3. SameAgents(ads, ads') => ExactInv'
    BY <1>2, <2>1
  <2> QED
    BY <2>2, <2>3 DEF ExactInv, Right
<1>5. SUFFICES ASSUME \A b \in Agents : ~EditAgent(b)
               PROVE  ExactInv'
  BY <1>4
<1>6. calm
  <2>1. Elsewhere => calm' = calm
    BY DEF Elsewhere
  <2>2. ADWorker => calm' = calm
    BY <2>1, WorkerStep
  <2> QED
    BY <1>5, <2>2 DEF Next, TQReconcile, TQUpdate, Sync, SyncTQ, SyncAD, SyncHPA, Users, EditQuota,
                      DeleteHPA, Faults, ADFault, TQFault, Crash
<1>7. CASE ADWorker
  BY <1>6, <1>7, ExactWorker
<1>8. CASE TQReconcile
  BY <1>3, <1>6, <1>8 DEF TQReconcile, Pending
<1>9. CASE TQUpdate
  BY <1>1, <1>2, <1>6, <1>9 DEF TQUpdate
<1>10. CASE SyncTQ
  <2>1. ASSUME NEW a \in Agents, ads[a] # None
        PROVE  Pending(a)'
    <3>1. CASE seen.ads[a] = None
      BY <1>10, <2>1, <3>1 DEF SyncTQ, CacheOK, TypeOK, Pending
    <3>2. CASE seen.ads[a] # None
      BY <1>10, <3>2 DEF SyncTQ, enqueueAgentDeploymentsForTenantQuota, Exist, Pending
    <3> QED
      BY <3>1, <3>2
  <2> QED
    BY <1>10, <2>1 DEF SyncTQ, ExactInv
<1>11. ASSUME NEW b \in Agents, SyncAD(b)
       PROVE  ExactInv'
  <2>1. \A a \in Agents : Pending(a) => Pending(a)'
    BY <1>11 DEF SyncAD, TypeOK, Pending
  <2> QED
    BY <1>3, <1>6, <1>11, <2>1 DEF SyncAD
<1>12. ASSUME NEW b \in Agents, SyncHPA(b)
       PROVE  ExactInv'
  <2>1. \A a \in Agents : Pending(a) => Pending(a)'
    BY <1>12 DEF SyncHPA, TypeOK, Pending
  <2> QED
    BY <1>3, <1>6, <1>12, <2>1 DEF SyncHPA
<1>13. CASE EditQuota
  BY <1>1, <1>2, <1>6, <1>13 DEF EditQuota
<1>14. ASSUME NEW b \in Agents, DeleteHPA(b)
       PROVE  ExactInv'
  BY <1>1, <1>2, <1>6, <1>14 DEF DeleteHPA
<1>15. CASE ADFault
  BY <1>3, <1>6, <1>15 DEF ADFault, Again, Pending
<1>16. CASE TQFault
  BY <1>3, <1>6, <1>16 DEF TQFault, Pending
<1>17. CASE Crash
  BY <1>17 DEF Crash, Exist, Pending, ExactInv
<1> QED
  BY <1>5, <1>7, <1>8, <1>9, <1>10, <1>11, <1>12, <1>13, <1>14, <1>15, <1>16, <1>17
     DEF Next, Sync, Users, Faults

-----------------------------------------------------------------------------

SettlingInv == IInv /\ BaseInv /\ (calm => CalmInv /\ ExactInv)

LEMMA InitSettling ==
  ASSUME SumsFit, Init
  PROVE  SettlingInv
<1>1. IInv /\ TypeOK
  BY InitCeilings DEF IInv
<1>2. PICK S \in SUBSET Agents, f \in [Agents -> Specs], q \in Quotas : SettledAt(S, f, q)
  BY DEF Init
<1> DEFINE all == [a \in Agents |->
                     IF a \in S THEN [Created(f[a]) EXCEPT !.phase = "steady", !.observed = TRUE] ELSE None]
<1> DEFINE room(a) == QuotaHeadroom(q, replicasUsedByOtherAgents(all, a))
<1>3. /\ ads = [a \in Agents |-> IF a \in S THEN [all[a] EXCEPT !.limited = Capped(f[a], room(a))] ELSE None]
      /\ hpas = [a \in Agents |-> IF a \in S THEN BuildHPA(f[a], room(a)) ELSE None]
      /\ tq = [quota |-> q, status |-> NewStatus(q, ComputeUsage(all))]
  BY <1>2 DEF SettledAt
<1>4. all \in [Agents -> Or(ADs)] /\ \A a \in S : all[a] \in ADs /\ all[a].spec = f[a] /\ ~all[a].deleting
  BY DEF Or, ADs, Created, Limited
<1>5. \A a \in Agents \ S : all[a] = None
  OBVIOUS
<1> HIDE DEF all, room
<1>6. \A a \in S : /\ ads[a] = [all[a] EXCEPT !.limited = Capped(f[a], room(a))]
                   /\ ads[a].spec = f[a] /\ ads[a].deleting = all[a].deleting
                   /\ ads[a].limited = Capped(f[a], room(a)) /\ ads[a] # None
                   /\ hpas[a] = BuildHPA(f[a], room(a))
  <2>1. ASSUME NEW a \in S
        PROVE  /\ ads[a] = [all[a] EXCEPT !.limited = Capped(f[a], room(a))]
               /\ hpas[a] = BuildHPA(f[a], room(a))
    BY <1>3
  <2>2. ASSUME NEW a \in S
        PROVE  /\ ads[a] \in ADs /\ ads[a].spec = f[a] /\ ads[a].deleting = all[a].deleting
               /\ ads[a].limited = Capped(f[a], room(a))
    <3>1. all[a] \in ADs /\ all[a].spec = f[a]
      BY <1>4
    <3>2. Capped(f[a], room(a)) \in Limited
      BY DEF Capped, Limited
    <3>3. ads[a] = [all[a] EXCEPT !.limited = Capped(f[a], room(a))]
      BY <2>1
    <3> QED
      BY <3>1, <3>2, <3>3 DEF ADs
  <2> QED
    BY <2>1, <2>2, NoneAssumption
<1>7. \A a \in Agents \ S : ads[a] = None
  BY <1>3
<1>8. SameAgents(all, ads)
  <2>1. \A a \in S : all[a] # None
    BY <1>4, NoneAssumption
  <2> QED
    <3>1. \A a \in S : SameAgent(all, ads, a)
      BY <1>4, <1>6, <2>1 DEF SameAgent
    <3>2. \A a \in Agents \ S : SameAgent(all, ads, a)
      BY <1>5, <1>7 DEF SameAgent
    <3> QED
      BY <3>1, <3>2 DEF SameAgents
<1>9. ComputeUsage(all) = Usage /\ SameLoad(all, ads)
  BY <1>8, SameAgentsSums DEF Usage
<1>10. Counted
  BY <1>3, <1>9 DEF Counted, NewStatus
<1>11. \A o \in Agents : ~Leaving(o)
  BY <1>4, <1>6, <1>7 DEF Leaving
<1>12. BaseInv
  BY <1>10, <1>11 DEF Init, BaseInv, LeavingInv, FinalInv, CountInv, GoneInv, At
<1>13. seen.ads = ads /\ tqWork = None /\ SameLoad(ads, ads)
  BY LoadReflexive DEF Init
<1>14. CalmInv
  BY <1>11, <1>13 DEF CalmInv, OneChange, Touched, SameAgent, LeavingKnown, LeftForGood, LoadInv, WorkInv, Leaving
<1>15. ASSUME NEW a \in Agents, ads[a] # None
       PROVE  Exact(a)
  <2>1. a \in S
    BY <1>7, <1>15
  <2>2. Others(all, a) \in 0..IntMax /\ replicasUsedByOtherAgents(all, a) = Others(all, a)
    BY <1>4, OthersFit
  <2>3. Others(all, a) = Others(ads, a)
    BY <1>9, SameLoadOthers
  <2>4. tq.quota = q
    BY <1>3
  <2>5. room(a) = Headroom(a)
    BY <2>2, <2>3, <2>4, HeadroomExact DEF room, Headroom
  <2> QED
    BY <1>6, <2>1, <2>5 DEF Exact
<1> QED
  BY <1>1, <1>12, <1>14, <1>15 DEF SettlingInv, ExactInv, Right

\* When each change of an agent has found the reconcilers at rest, and whatever users do
\* to the quota and the HPAs, whichever calls fail and whenever the operator restarts: as
\* soon as nothing is left to do, every agent's HPA has exactly the maximum that the
\* other agents leave to it, and its condition tells whether that is a cap.  The agents
\* learn of each other's changes through the counters of the TenantQuota only
\* (enqueueAgentDeploymentsForTenantQuota), and no such wake-up is lost.
THEOREM HPAsSettle ==
  ASSUME SumsFit
  PROVE  Spec => []SettledHPA
<1>1. Init => SettlingInv
  BY InitSettling
<1>2. SettlingInv /\ [Next]_vars => SettlingInv'
  <2>1. ASSUME SettlingInv, UNCHANGED vars
        PROVE  SettlingInv'
    <3> USE <2>1 DEF vars, SettlingInv
    <3>1. IInv'
      <4>1. TypeOK'
        BY DEF IInv, TypeOK
      <4> QED
        BY <4>1, CeilingsUntouched DEF IInv
    <3>2. Usage' = Usage /\ (Counted' <=> Counted) /\ \A o \in Agents : Leaving(o)' = Leaving(o)
      BY DEF Usage, Counted, Leaving
    <3>3. BaseInv'
      BY <3>2 DEF BaseInv, LeavingInv, FinalInv, CountInv, GoneInv, Leaving, At
    <3>4. calm => CalmInv'
      BY <3>2 DEF CalmInv, OneChange, Touched, LeavingKnown, LeftForGood, LoadInv, WorkInv, Due
    <3>5. calm => ExactInv'
      <4>1. Due' = Due /\ \A a \in Agents : Pending(a)' = Pending(a)
        BY <3>2 DEF Due, Pending
      <4>2. \A a \in Agents : Right(a)' = Right(a)
        BY DEF Right, Exact, Headroom
      <4>3. ASSUME NEW a \in Agents, RightCourse(a)
            PROVE  RightCourse(a)'
        BY <4>3 DEF RightCourse, OnCourse, Sized, Headroom
      <4> QED
        BY <4>1, <4>2, <4>3 DEF ExactInv
    <3> QED
      BY <3>1, <3>3, <3>4, <3>5
  <2>2. ASSUME SettlingInv, Next
        PROVE  SettlingInv'
    <3> USE <2>2 DEF SettlingInv, IInv
    <3>1. TypeOK'
      BY TypeInductive
    <3>2. CacheOK' /\ AgentInv'
      BY CeilingsInductive
    <3>3. BaseInv'
      BY <3>1, BaseInductive
    <3>4. calm' => CalmInv'
      BY <3>1, CalmInductive
    <3>5. calm' => ExactInv'
      BY <3>1, ExactInductive
    <3> QED
      BY <3>1, <3>2, <3>3, <3>4, <3>5
  <2> QED
    BY <2>1, <2>2
<1>3. SettlingInv => SettledHPA
  <2>1. SUFFICES ASSUME SettlingInv, Quiet, tq # None, calm, NEW a \in Agents, ads[a] # None
                 PROVE  Exact(a)
    BY DEF SettledHPA, Settled, Exist
  <2>2. work = None /\ Counted /\ \A o \in Agents : ~Leaving(o)
    BY <2>1, AtRest DEF SettlingInv, IInv
  <2>3. ~Due /\ ~Pending(a)
    BY <2>1, <2>2 DEF Due, Pending, Quiet, Nothing
  <2> QED
    BY <2>1, <2>2, <2>3 DEF SettlingInv, ExactInv, RightCourse, OnCourse, Right
<1> QED
  BY <1>1, <1>2, <1>3, PTL DEF Spec

=============================================================================
