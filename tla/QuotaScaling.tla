---------------------------- MODULE QuotaScaling ----------------------------
(***************************************************************************)
(* The HorizontalPodAutoscalers of one tenant's agents, and how they       *)
(* follow the tenant's quota.                                              *)
(*                                                                         *)
(* The AgentDeployment reconciler sizes an agent's HPA by what the quota   *)
(* leaves over, the TenantQuota reconciler keeps the usage counters, and   *)
(* the events of either one wake up the other one.  All reads are of the   *)
(* informers' copies; a write based on an outdated copy is refused.        *)
(*                                                                         *)
(* Admission is QuotaAdmission's matter: users write any specs here.  The  *)
(* steps of a rollout are CanaryRollout's: here it only takes the HPA away *)
(* and brings it back.  Periodic reconciles (of the TenantQuota, and for   *)
(* heartbeats) are left out: what holds here does not need them.           *)
(***************************************************************************)
EXTENDS Integers, FiniteSets, Functions

CONSTANTS
  Agents,      \* names of the AgentDeployments that reference the TenantQuota
  Specs,       \* [min, max]: spec.replicas
  Quotas,      \* [total, perAgent]: maxTotalReplicas and maxReplicasPerAgent
  IntMax,      \* math.MaxInt32
  MaxEvents,   \* bound on users' edits and faults
  None

\* What the CRDs and the webhook admit.
ASSUME ScalingAssumption ==
  /\ IsFiniteSet(Agents) /\ IntMax \in Nat \ {0} /\ MaxEvents \in Nat
  /\ Specs \subseteq {s \in [min : 1..IntMax, max : 1..IntMax] : s.min <= s.max}
  /\ Quotas \subseteq [total : 1..IntMax, perAgent : 1..IntMax]

VARIABLES
  ads,      \* the AgentDeployments
  tq,       \* the TenantQuota
  hpas,     \* the HPAs
  seen,     \* the informers' copies: [ads, tq, hpas]
  late,     \* the objects with watch events that have not arrived: [ads, tq, hpas]
  queue,    \* agents in the work queue of the AgentDeployment controller
  tqQueued, \* is the TenantQuota in the work queue of its controller?
  work,     \* the AgentDeployment reconcile under way
  tqWork,   \* the TenantQuota reconcile under way: the usage it computed
  events,   \* number of events so far
  calm      \* history: has every change of an agent found everything settled?

vars == <<ads, tq, hpas, seen, late, queue, tqQueued, work, tqWork, events, calm>>

Range32 == (-IntMax - 1)..IntMax
Limited == {"none", "HPAMaxReplicasCapped", "TenantQuotaNotFound"}

\* phase: "new" before there is a stable version, "drift" with another image in the
\* spec.  observed: do the conditions carry the object's generation?
ADs == [spec : Specs, deleting : BOOLEAN, phase : {"new", "steady", "drift", "rollout"},
        observed : BOOLEAN, limited : Limited]
\* over: the ceilings the OverQuota condition was computed for.
Usages == [agents : Nat, replicas : Range32, over : {None} \cup Quotas]
TQs == [quota : Quotas, status : Usages]
HPAs == {h \in [min : 1..IntMax, max : 1..IntMax] : h.min <= h.max}

Points == {"finalizer", "outdated", "pause", "begin", "restore", "ended", "quota", "write", "status"}
Works == [agent : Agents, at : Points, spec : Specs, headroom : 0..IntMax, limited : Limited]

ASSUME NoneAssumption ==
  /\ None \notin ADs /\ None \notin TQs /\ None \notin HPAs /\ None \notin Works
  /\ None \notin [agents : Nat, replicas : Range32]

Or(S) == {None} \cup S

Max2(a, b) == IF b > a THEN b ELSE a
Min2(a, b) == IF b < a THEN b ELSE a

\* int32 arithmetic.
Wrap(i) == ((i + IntMax + 1) % (2 * (IntMax + 1))) - (IntMax + 1)

TypeOK ==
  /\ ads \in [Agents -> Or(ADs)] /\ tq \in Or(TQs) /\ hpas \in [Agents -> Or(HPAs)]
  /\ seen \in [ads : [Agents -> Or(ADs)], tq : Or(TQs), hpas : [Agents -> Or(HPAs)]]
  /\ late \in [ads : SUBSET Agents, tq : BOOLEAN, hpas : SUBSET Agents]
  /\ queue \subseteq Agents /\ tqQueued \in BOOLEAN
  /\ work \in Or(Works) /\ tqWork \in Or([agents : Nat, replicas : Range32])
  /\ events \in 0..MaxEvents /\ calm \in BOOLEAN

-----------------------------------------------------------------------------
(* internal/scaling                                                        *)

QuotaHeadroom(quota, usedByOthers) ==
  Min2(quota.perAgent, Max2(0, Wrap(quota.total - usedByOthers)))

\* Mutant: an exhausted quota pulls the maximum below the minimum.
MutNoFloor(spec, headroom) == [min |-> spec.min, max |-> Min2(spec.max, headroom)]

BuildHPA(spec, headroom) ==
  [min |-> spec.min, max |-> Max2(spec.min, Min2(spec.max, headroom))]

IsQuotaCapped(spec, headroom) == headroom < spec.max

\* What becomes of the QuotaLimited condition.
Capped(spec, headroom) == IF IsQuotaCapped(spec, headroom) THEN "HPAMaxReplicasCapped" ELSE "none"

-----------------------------------------------------------------------------
(* The AgentDeployment reconciler.                                         *)

Nothing == [ads |-> {}, tq |-> FALSE, hpas |-> {}]

Exist(objects) == {a \in Agents : objects[a] # None}
Total(objects, S) == SumFunctionOnSet([a \in S |-> objects[a].spec.max], S)

\* The maxima of the agents but a, terminating ones excluded.
Others(objects, a) == Total(objects, {o \in Exist(objects) \ {a} : ~objects[o].deleting})

\* What admission is for: the maxima of the agents next to any agent add up to an int32.
SumsFit ==
  \E cap \in 1..IntMax :
    (\A s \in Specs : s.max <= cap) /\ cap * (Cardinality(Agents) - 1) <= IntMax

replicasUsedByOtherAgents(objects, a) == Wrap(Others(objects, a))

At(point) == work # None /\ work.at = point

\* The reconcile ends; Again: it failed, or asks to be repeated.
Done == work' = None /\ UNCHANGED queue
Again == work' = None /\ queue' = queue \cup {work.agent}
Goto(point) == work' = [work EXCEPT !.at = point] /\ UNCHANGED queue

\* Every change is an event that the informers have yet to see.
Notify ==
  late' = [ads |-> late.ads \cup {a \in Agents : ads'[a] # ads[a]}, tq |-> late.tq \/ tq' # tq,
           hpas |-> late.hpas \cup {a \in Agents : hpas'[a] # hpas[a]}]

Elsewhere == UNCHANGED <<tq, seen, tqQueued, tqWork, events, calm>> /\ Notify

\* Where the reconcile of this copy of the object goes.  A deleted object is updated from
\* this very copy, which stays the current one if it is so now: nobody else writes it.
Dispatch(ad, current) ==
  IF ad.deleting THEN IF current THEN "finalizer" ELSE "outdated"
  ELSE IF ad.phase = "rollout" THEN "restore"
  ELSE IF ad.phase = "drift" THEN "pause"
  ELSE "quota"

Reconcile ==
  /\ work = None
  /\ \E a \in queue :
       /\ queue' = queue \ {a}
       /\ work' = IF seen.ads[a] = None THEN None
                  ELSE [agent |-> a, at |-> Dispatch(seen.ads[a], a \notin late.ads),
                        spec |-> seen.ads[a].spec, headroom |-> 0, limited |-> "none"]
  /\ UNCHANGED <<ads, hpas>> /\ Elsewhere

\* The object goes with its finalizer, and its HPA with the object.
RemoveFinalizer ==
  /\ \/ At("outdated") /\ Again /\ UNCHANGED <<ads, hpas>>
     \/ /\ At("finalizer") /\ Done
        /\ ads' = [ads EXCEPT ![work.agent] = None] /\ hpas' = [hpas EXCEPT ![work.agent] = None]
  /\ Elsewhere

\* startCanary; the reconcile is repeated after 5 seconds, if not for a failure.
PauseHPA ==
  /\ At("pause")
  /\ hpas' = [hpas EXCEPT ![work.agent] = IF seen.hpas[work.agent] = None THEN @ ELSE None]
  /\ Goto("begin")
  /\ UNCHANGED ads /\ Elsewhere

StartStatus ==
  /\ At("begin")
  /\ LET a == work.agent
     IN  ads' = IF seen.ads[a] = None \/ a \in late.ads THEN ads
                ELSE [ads EXCEPT ![a] = [seen.ads[a] EXCEPT !.phase = "rollout"]]
  /\ Again
  /\ UNCHANGED hpas /\ Elsewhere

\* controllerutil.CreateOrUpdate: nothing is written when the informer's copy is as
\* desired already, and a write based on an outdated copy is refused.
CreateOrUpdate(h, point) ==
  LET a == work.agent
  IN  IF seen.hpas[a] = h THEN Goto(point) /\ UNCHANGED hpas
      ELSE IF a \notin late.hpas THEN Goto(point) /\ hpas' = [hpas EXCEPT ![a] = h]
      ELSE Again /\ UNCHANGED hpas

\* The end of a rollout, by promotion or rollback.
restoreHPA ==
  /\ At("restore")
  /\ CreateOrUpdate(BuildHPA(work.spec, 0), "ended")
  /\ UNCHANGED ads /\ Elsewhere

EndStatus ==
  /\ At("ended")
  /\ LET a == work.agent
     IN  IF seen.ads[a] = None \/ a \in late.ads THEN Again /\ UNCHANGED ads
         ELSE ads' = [ads EXCEPT ![a] = [seen.ads[a] EXCEPT !.phase = "steady"]] /\ Done
  /\ UNCHANGED hpas /\ Elsewhere

\* reconcileHPA: read the quota and the other agents, then write the HPA.
GetQuota ==
  /\ At("quota")
  /\ LET headroom == QuotaHeadroom(seen.tq.quota, replicasUsedByOtherAgents(seen.ads, work.agent))
     IN  work' = IF seen.tq = None
                   THEN [work EXCEPT !.at = "status", !.limited = "TenantQuotaNotFound"]
                   ELSE [work EXCEPT !.at = "write", !.headroom = headroom,
                                     !.limited = Capped(work.spec, headroom)]
  /\ UNCHANGED <<ads, hpas, queue>> /\ Elsewhere

\* Mutant: the HPA is deleted and created again.
MutRecreateHPA ==
  /\ At("write")
  /\ hpas' = [hpas EXCEPT ![work.agent] = BuildHPA(work.spec, work.headroom)]
  /\ late' = [late EXCEPT !.hpas = @ \cup {work.agent}]
  /\ Goto("status")
  /\ UNCHANGED <<ads, tq, seen, tqQueued, tqWork, events, calm>>

reconcileHPA ==
  /\ At("write")
  /\ CreateOrUpdate(BuildHPA(work.spec, work.headroom), "status")
  /\ UNCHANGED ads /\ Elsewhere

\* The QuotaLimited condition, on the object as it is by now.  Without a quota the
\* reconcile is repeated.
updateStatus ==
  /\ At("status")
  /\ LET a == work.agent
         latest == seen.ads[a]
         new == IF latest = None THEN None
                ELSE [latest EXCEPT !.limited = work.limited, !.observed = TRUE,
                                    !.phase = IF @ = "new" THEN "steady" ELSE @]
     IN  IF new # latest /\ a \in late.ads THEN Again /\ UNCHANGED ads
         ELSE /\ ads' = [ads EXCEPT ![a] = IF new # latest THEN new ELSE @]
              /\ IF work.limited = "TenantQuotaNotFound" THEN Again ELSE Done
  /\ UNCHANGED hpas /\ Elsewhere

ADWorker ==
  \/ Reconcile \/ RemoveFinalizer \/ PauseHPA \/ StartStatus \/ restoreHPA \/ EndStatus
  \/ GetQuota \/ reconcileHPA \/ updateStatus

-----------------------------------------------------------------------------
(* The TenantQuota reconciler.                                             *)

\* Enforcer.ComputeUsage over all agents of the list, terminating ones included.
ComputeUsage(objects) ==
  [agents |-> Cardinality(Exist(objects)), replicas |-> Wrap(Total(objects, Exist(objects)))]

TQReconcile ==
  /\ tqWork = None /\ tqQueued
  /\ tqQueued' = FALSE
  /\ tqWork' = IF seen.tq = None THEN None ELSE ComputeUsage(seen.ads)
  /\ UNCHANGED <<ads, tq, hpas, seen, late, queue, work, events, calm>>

\* The status that the usage gives the re-fetched object.
NewStatus(quota, usage) ==
  [agents |-> usage.agents, replicas |-> usage.replicas,
   over |-> IF usage.replicas > quota.total THEN quota ELSE None]

TQUpdate ==
  /\ tqWork # None
  /\ tqWork' = None
  /\ IF seen.tq = None \/ seen.tq.status = NewStatus(seen.tq.quota, tqWork)
       THEN UNCHANGED <<tq, tqQueued>>
     ELSE IF ~late.tq
       THEN tq' = [seen.tq EXCEPT !.status = NewStatus(seen.tq.quota, tqWork)] /\ UNCHANGED tqQueued
     ELSE tqQueued' = TRUE /\ UNCHANGED tq
  /\ UNCHANGED <<ads, hpas, seen, queue, work, events, calm>> /\ Notify

-----------------------------------------------------------------------------
(* Watch events: the informer's copy is brought up to date and the event   *)
(* handlers fill the queues.                                               *)

SyncAD(a) ==
  /\ a \in late.ads
  /\ late' = [late EXCEPT !.ads = @ \ {a}]
  /\ seen' = [seen EXCEPT !.ads[a] = ads[a]]
  /\ queue' = queue \cup {a}
  /\ tqQueued' = TRUE
  /\ UNCHANGED <<ads, tq, hpas, work, tqWork, events, calm>>

\* Mutant: the controller does not own (watch) the HPAs.
MutHPANotOwned(a) ==
  /\ a \in late.hpas
  /\ late' = [late EXCEPT !.hpas = @ \ {a}]
  /\ seen' = [seen EXCEPT !.hpas[a] = hpas[a]]
  /\ UNCHANGED <<ads, tq, hpas, queue, tqQueued, work, tqWork, events, calm>>

SyncHPA(a) ==
  /\ a \in late.hpas
  /\ late' = [late EXCEPT !.hpas = @ \ {a}]
  /\ seen' = [seen EXCEPT !.hpas[a] = hpas[a]]
  /\ queue' = queue \cup {a}
  /\ UNCHANGED <<ads, tq, hpas, tqQueued, work, tqWork, events, calm>>

\* Mutant: only a change of the ceilings wakes up the agents.
MutOnlySpec == IF seen.tq # None /\ tq # None /\ seen.tq.quota = tq.quota THEN {} ELSE Exist(seen.ads)

enqueueAgentDeploymentsForTenantQuota == Exist(seen.ads)

SyncTQ ==
  /\ late.tq
  /\ late' = [late EXCEPT !.tq = FALSE]
  /\ seen' = [seen EXCEPT !.tq = tq]
  /\ queue' = queue \cup enqueueAgentDeploymentsForTenantQuota
  /\ tqQueued' = TRUE
  /\ UNCHANGED <<ads, tq, hpas, work, tqWork, events, calm>>

Sync == SyncTQ \/ \E a \in Agents : SyncAD(a) \/ SyncHPA(a)

Quiet ==
  /\ work = None /\ tqWork = None /\ queue = {} /\ ~tqQueued
  /\ late = Nothing

-----------------------------------------------------------------------------
(* Users, and faults.                                                      *)

Event == events < MaxEvents /\ events' = events + 1

Created(spec) ==
  [spec |-> spec, deleting |-> FALSE, phase |-> "new", observed |-> FALSE, limited |-> "none"]

\* A live agent is resized, deleted or given another image.
Edits(ad) ==
  IF ad.deleting THEN {}
  ELSE {[ad EXCEPT !.spec = s, !.observed = FALSE] : s \in Specs \ {ad.spec}}
         \cup {[ad EXCEPT !.deleting = TRUE]}
         \cup IF ad.phase = "steady" THEN {[ad EXCEPT !.phase = "drift"]} ELSE {}

\* An agent is created or edited.
EditAgent(a) ==
  /\ Event
  /\ calm' = (calm /\ Quiet)
  /\ \E ad \in IF ads[a] = None THEN {Created(s) : s \in Specs} ELSE Edits(ads[a]) :
       ads' = [ads EXCEPT ![a] = ad]
  /\ UNCHANGED <<tq, hpas, seen, queue, tqQueued, work, tqWork>> /\ Notify

NewTQ(quota) == [quota |-> quota, status |-> [agents |-> 0, replicas |-> 0, over |-> None]]

\* The quota is created, edited or deleted.
EditQuota ==
  /\ Event
  /\ tq' \in IF tq = None THEN {NewTQ(q) : q \in Quotas}
             ELSE {None} \cup {[tq EXCEPT !.quota = q] : q \in Quotas \ {tq.quota}}
  /\ UNCHANGED <<ads, hpas, seen, queue, tqQueued, work, tqWork, calm>> /\ Notify

\* Somebody deletes an HPA.
DeleteHPA(a) ==
  /\ Event
  /\ hpas[a] # None
  /\ hpas' = [hpas EXCEPT ![a] = None]
  /\ UNCHANGED <<ads, tq, seen, queue, tqQueued, work, tqWork, calm>> /\ Notify

\* A call of a reconcile fails, or the Deployment that updateStatus reads is not in the
\* informer yet.
ADFault ==
  /\ Event
  /\ work # None /\ Again
  /\ UNCHANGED <<ads, tq, hpas, seen, late, tqQueued, tqWork, calm>>

TQFault ==
  /\ Event
  /\ tqWork # None /\ tqWork' = None /\ tqQueued' = TRUE
  /\ UNCHANGED <<ads, tq, hpas, seen, late, queue, work, calm>>

\* The operator restarts, or another replica becomes the leader.
Crash ==
  /\ Event
  /\ work' = None /\ tqWork' = None
  /\ seen' = [ads |-> ads, tq |-> tq, hpas |-> hpas] /\ late' = Nothing
  /\ queue' = Exist(ads) /\ tqQueued' = (tq # None)
  /\ UNCHANGED <<ads, tq, hpas, calm>>

-----------------------------------------------------------------------------

\* Initially some agents exist, and everything is settled.
SettledAt(S, f, q) ==
  LET all == [a \in Agents |->
                IF a \in S THEN [Created(f[a]) EXCEPT !.phase = "steady", !.observed = TRUE] ELSE None]
      room(a) == QuotaHeadroom(q, replicasUsedByOtherAgents(all, a))
  IN  /\ ads = [a \in Agents |->
                  IF a \in S THEN [all[a] EXCEPT !.limited = Capped(f[a], room(a))] ELSE None]
      /\ hpas = [a \in Agents |-> IF a \in S THEN BuildHPA(f[a], room(a)) ELSE None]
      /\ tq = [quota |-> q, status |-> NewStatus(q, ComputeUsage(all))]

Init ==
  /\ \E S \in SUBSET Agents, f \in [Agents -> Specs], q \in Quotas : SettledAt(S, f, q)
  /\ seen = [ads |-> ads, tq |-> tq, hpas |-> hpas] /\ late = Nothing
  /\ queue = {} /\ tqQueued = FALSE /\ work = None /\ tqWork = None
  /\ events = 0 /\ calm = TRUE

Users == EditQuota \/ \E a \in Agents : EditAgent(a) \/ DeleteHPA(a)
Faults == ADFault \/ TQFault \/ Crash

Next == ADWorker \/ TQReconcile \/ TQUpdate \/ Sync \/ Users \/ Faults

Spec == Init /\ [][Next]_vars

\* The workers and the informers never stop, and no agent's events are kept back for good.
FairSpec ==
  /\ Spec
  /\ WF_vars(ADWorker) /\ WF_vars(TQReconcile \/ TQUpdate) /\ WF_vars(SyncTQ)
  /\ \A a \in Agents : WF_vars(SyncAD(a)) /\ WF_vars(SyncHPA(a))

-----------------------------------------------------------------------------
(* Properties.                                                             *)

Settled == Quiet /\ tq # None

\* What the quota leaves to an agent, in integers of any size.
Headroom(a) ==
  Min2(tq.quota.perAgent, Max2(0, tq.quota.total - Others(ads, a)))

Exact(a) ==
  /\ hpas[a] = BuildHPA(ads[a].spec, Headroom(a))
  /\ ads[a].limited = Capped(ads[a].spec, Headroom(a))

\* When nothing is left to do, every agent's HPA has exactly the maximum that the
\* other agents' declared maxima leave to it, and the QuotaLimited condition says
\* whether that is less than it asked for: the wake-up from one agent's change to the
\* others, through the usage counters of the TenantQuota, is not lost.  Agents changed
\* before the last change has settled are excepted: the effects of two changes on the
\* counters may cancel out.
SettledHPA == Settled /\ calm => \A a \in Exist(ads) : Exact(a)

WithinCeilings(a) ==
  /\ hpas[a] # None
  /\ hpas[a].min = ads[a].spec.min
  /\ hpas[a].max <= Max2(ads[a].spec.min, Min2(tq.quota.perAgent, tq.quota.total))
  /\ hpas[a].max < ads[a].spec.max => ads[a].limited = "HPAMaxReplicasCapped"
  /\ ads[a].limited # "TenantQuotaNotFound"

\* When nothing is left to do, however the events were interleaved: no HPA is missing,
\* none goes over the ceilings of the quota further than to its own minimum, the
\* QuotaLimited condition reports every capped one, and it never still says that the
\* quota is missing.
SettledCeilings == Settled => \A a \in Exist(ads) : WithinCeilings(a)

\* The two reconcilers do not keep waking up each other: with no further events they
\* come to rest, unless the quota is missing (that reconcile is repeated for ever).
Settles == <>[](tq = None \/ Quiet)

=============================================================================
