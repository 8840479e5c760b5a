----------------------------- MODULE McpDiscovery -----------------------------
(***************************************************************************)
(* Registration of one agent: the AgentDeployment reconciler of the        *)
(* leading replica, the Registrar it calls, and the registry those calls   *)
(* reach (McpRegistry), next to the sweepers and HTTP handlers of all      *)
(* replicas.                                                               *)
(*                                                                         *)
(* A reconcile runs when something changed or when its requeue is due; it  *)
(* may run at any other time (events of children, resyncs).  Of a rollout  *)
(* only its phase is left; CanaryRollout has the rest.  The phase "Pending"*)
(* stands for every phase of a Deployment that is not available.           *)
(***************************************************************************)
EXTENDS McpRegistry

CONSTANTS
  Configured,    \* AGENTRAX_MCP_HEALTH_INTERVAL, in units of the sweep interval
  Delay,         \* how late a due reconcile may end
  Admin,         \* does anybody use the registry's HTTP API to change entries?
  MaxEvents      \* bound on what users, agents, other entries and faults do

ASSUME TimingAssumption ==
  Configured \in Nat \ {0} /\ Delay \in Nat \ {0}

ASSUME EventsAssumption == Admin \in BOOLEAN /\ MaxEvents \in Nat

VARIABLES
  obj,       \* the AgentDeployment in the API server
  ad,        \* the reconcile's copy, with the status it is about to write
  current,   \* has nobody written the object since a reconcile read it?
  pc,        \* the reconcile's next call
  leader,    \* the replica whose reconcilers run
  failures,  \* Registrar.failures of the leader
  due,       \* units until the requeue; negative: late
  agent,     \* is the agent ready, and does it answer?
  events,    \* how many such events there were
  vouched,   \* history: age of the last successful handshake or POST /agents
  steady     \* history: has every reconcile since such a handshake found the agent
             \* exposed, running and answering, in one process?

reconciler == <<obj, ad, current, pc, leader, failures, due>>
world == <<agent, events>>
history == <<vouched, steady>>
vars == <<store, reconciler, world, history>>

Phases == {"Pending", "Running", "RolloutInProgress", "RolloutFailed"}

Objects == [there : BOOLEAN, fin : BOOLEAN, deleting : BOOLEAN, expose : BOOLEAN,
            drift : BOOLEAN, phase : Phases, registered : BOOLEAN]

New(expose) == [there |-> TRUE, fin |-> FALSE, deleting |-> FALSE, expose |-> expose,
                drift |-> FALSE, phase |-> "Pending", registered |-> FALSE]

Gone == [New(FALSE) EXCEPT !.there = FALSE]

PersistPoints == {"persistCleanup", "persistDeregister", "persistStrike",
                  "persistRegister", "persistPromoted"}
Points == PersistPoints \cup
  {"idle", "addFinalizer", "cleanup", "removeFinalizer", "step", "start", "children",
   "deregister", "heartbeat", "register", "status", "promoted", "promotedStatus"}

Healths == {"healthy", "silent", "unready"}

\* MaxConsecutiveHeartbeatFailures; further failures count no more.
MaxFailures == 3

\* An interval that does not fit into the TTL is replaced by half of it.
HealthInterval == IF Configured >= TTL THEN TTL \div 2 ELSE Configured

\* A late and slow heartbeat still comes before the entry it renews expires.
InTime == HealthInterval + 2 * Delay <= TTL

Never == HealthInterval + 1
Dues == -Delay..Never

-----------------------------------------------------------------------------
(* The reconcile.                                                          *)

Event == events < MaxEvents /\ events' = events + 1

\* The reconcile goes on to a next call.
Goto(next) == pc' = next /\ UNCHANGED <<current, leader, due>>

\* It returns, to be called again after `requeue` or, if the object was written in
\* the meantime, at once.
Return(requeue) ==
  /\ pc' = "idle" /\ ad' = Gone /\ current' = TRUE
  /\ due' = IF current THEN requeue ELSE 0
  /\ UNCHANGED leader

\* A reconcile is due now, if it is not late already.
Now == IF due < 0 THEN due ELSE 0

\* It returns an error, and is repeated.
Retry == pc' = "idle" /\ ad' = Gone /\ current' = TRUE /\ due' = Now /\ UNCHANGED leader

\* Where Reconcile goes with the object it fetched.
Dispatch(a) ==
  IF a.deleting THEN "cleanup"
  ELSE IF ~a.fin THEN "addFinalizer"
  ELSE IF a.phase = "RolloutInProgress" THEN "step"
  ELSE IF a.drift THEN "start"
  ELSE "children"

Reconcile ==
  /\ pc = "idle" /\ obj.there
  /\ ad' = obj /\ due' = Now
  /\ pc' = Dispatch(obj)
  /\ steady' = (steady /\ pc' = "children")
  /\ UNCHANGED <<store, obj, current, leader, failures, world, vouched>>

AddFinalizer ==
  /\ pc = "addFinalizer" /\ current
  /\ obj' = [obj EXCEPT !.fin = TRUE]
  /\ ad' = obj'
  /\ Goto("children")
  /\ UNCHANGED <<store, failures, world, history>>

\* Registrar.Deregister: the counter, then the entry; `absent` if there is none.
Deregister(absent, persist) ==
  /\ failures' = 0
  /\ IF mem[leader] = Nil
       THEN UNCHANGED store /\ Goto(absent)
       ELSE Set(leader, Nil) /\ UNCHANGED <<cm, seen, fresh, loaded, dirty>> /\ Goto(persist)
  /\ steady' = FALSE
  /\ UNCHANGED <<obj, world, vouched>>

\* Mutant: a missing entry is an error.
MutCleanupNeedsEntry ==
  /\ pc = "cleanup" /\ failures' = 0 /\ steady' = FALSE
  /\ IF mem[leader] = Nil
       THEN Retry /\ UNCHANGED store
       ELSE Set(leader, Nil) /\ UNCHANGED <<cm, seen, fresh, loaded, dirty, ad>> /\ Goto("persistCleanup")
  /\ UNCHANGED <<obj, world, vouched>>

runDeletionCleanup ==
  /\ pc = "cleanup"
  /\ Deregister("removeFinalizer", "persistCleanup")
  /\ UNCHANGED ad

RemoveFinalizer ==
  /\ pc = "removeFinalizer" /\ current
  /\ obj' = Gone
  /\ Return(Never)
  /\ UNCHANGED <<store, failures, world, history>>

\* startCanary, whose last write is the status.
startCanary ==
  /\ pc = "start" /\ current
  /\ obj' = [obj EXCEPT !.phase = "RolloutInProgress", !.drift = FALSE]
  /\ Return(0)
  /\ UNCHANGED <<store, failures, world, history>>

\* One pass of the rollout: it goes on, fails, or is promoted.
Step ==
  /\ pc = "step"
  /\ \/ Return(0) /\ UNCHANGED obj
     \/ current /\ obj' = [obj EXCEPT !.phase = "RolloutFailed"] /\ Return(0)
     \/ /\ current /\ obj' = [obj EXCEPT !.phase = "Running"]
        /\ IF obj.expose THEN ad' = obj' /\ Goto("promoted") ELSE Return(0)
  /\ UNCHANGED <<store, failures, world, history>>

-----------------------------------------------------------------------------
(* updateStatus and reconcileMCPRegistration.                              *)

\* The handshake with the agent: does it answer, and without an error?
Initialize == agent = "healthy"

\* The phase derived from the Deployment; a failed rollout may remain one.
DerivedPhases(a) ==
  IF agent = "unready" THEN {"Pending"}
  ELSE IF a.phase = "RolloutFailed" THEN {"Running", "RolloutFailed"}
  ELSE {"Running"}

\* Mutant: registers and heartbeats only once, ever.
MutRegistrationCall(a) ==
  IF ~a.expose THEN IF a.registered THEN "deregister" ELSE "status"
  ELSE IF a.phase # "Running" \/ a.registered THEN "status"
  ELSE "register"

RegistrationCall(a) ==
  IF ~a.expose THEN IF a.registered THEN "deregister" ELSE "status"
  ELSE IF a.phase # "Running" THEN "status"
  ELSE IF a.registered THEN "heartbeat"
  ELSE "register"

\* The object is fetched again before its status is derived.
updateStatus ==
  /\ pc = "children"
  /\ \E phase \in DerivedPhases(obj) : ad' = [obj EXCEPT !.phase = phase]
  /\ current' = TRUE /\ pc' = RegistrationCall(ad')
  /\ steady' = (steady /\ pc' = "heartbeat")
  /\ UNCHANGED <<store, obj, leader, failures, due, world, vouched>>

DeregisterUnexposed ==
  /\ pc = "deregister"
  /\ Deregister("status", "persistDeregister")
  /\ ad' = [ad EXCEPT !.registered = (mem[leader] # Nil)]

\* Mutant: a heartbeat proves the agent alive but does not renew the entry.
MutHeartbeatNoRenewal ==
  /\ pc = "heartbeat" /\ Initialize
  /\ failures' = 0
  /\ IF mem[leader] = Nil
       THEN Goto("register") /\ UNCHANGED <<store, history>>
       ELSE /\ vouched' = 0 /\ steady' = TRUE
            /\ Goto("status")
            /\ UNCHANGED store
  /\ UNCHANGED <<obj, ad, world>>

\* The probe succeeds: renew the entry or, if it is gone, register again.
HeartbeatOK ==
  /\ pc = "heartbeat" /\ Initialize
  /\ failures' = 0
  /\ IF mem[leader] = Nil
       THEN Goto("register") /\ UNCHANGED <<store, history>>
       ELSE /\ Set(leader, 0) /\ UNCHANGED <<cm, seen, fresh, loaded, dirty>>
            /\ vouched' = 0 /\ steady' = TRUE
            /\ Goto("status")
  /\ UNCHANGED <<obj, ad, world>>

\* The probe fails: at the third time in a row the entry is removed.
HeartbeatFails ==
  /\ pc = "heartbeat" /\ ~Initialize
  /\ failures' = IF failures = MaxFailures THEN failures ELSE failures + 1
  /\ IF failures' < MaxFailures
       THEN Goto("status") /\ UNCHANGED <<store, ad>>
     ELSE IF mem[leader] = Nil
       THEN Goto("status") /\ ad' = [ad EXCEPT !.registered = FALSE] /\ UNCHANGED store
     ELSE /\ Set(leader, Nil) /\ UNCHANGED <<cm, seen, fresh, loaded, dirty>>
          /\ Goto("persistStrike") /\ UNCHANGED ad
  /\ steady' = FALSE
  /\ UNCHANGED <<obj, world, vouched>>

\* The handshake of Registrar.Register, and the entry it leads to.
Register ==
  /\ pc \in {"register", "promoted"}
  /\ IF Initialize
       THEN /\ Set(leader, 0) /\ UNCHANGED <<cm, seen, fresh, loaded, dirty>>
            /\ vouched' = 0 /\ steady' = TRUE
            /\ Goto(IF pc = "register" THEN "persistRegister" ELSE "persistPromoted")
            /\ UNCHANGED ad
       ELSE /\ steady' = FALSE
            /\ IF pc = "register" THEN Goto("status") /\ UNCHANGED ad ELSE Return(0)
            /\ UNCHANGED <<store, vouched>>
  /\ UNCHANGED <<obj, failures, world>>

Persisted ==
  /\ pc \in PersistPoints
  /\ persistToConfigMap(leader)
  /\ failures' = IF pc \in {"persistRegister", "persistPromoted"} THEN 0 ELSE failures
  /\ ad' = [ad EXCEPT !.registered = pc \in {"persistRegister", "persistPromoted"}]
  /\ Goto(IF pc = "persistCleanup" THEN "removeFinalizer"
          ELSE IF pc = "persistPromoted" THEN "promotedStatus" ELSE "status")
  /\ UNCHANGED <<mem, seen, loaded, dirty, obj, world, history>>

\* Conflicts outlast the retries, or the API server answers with an error.  What
\* is in memory stays as it is.
PersistFails ==
  /\ pc \in PersistPoints /\ Event
  /\ IF pc \in {"persistCleanup", "persistPromoted"}
       THEN Retry
       ELSE Goto("status") /\ UNCHANGED ad
  /\ UNCHANGED <<store, obj, failures, agent, history>>

\* Mutant: requeues after the interval as configured.
MutRequeueConfigured(a) ==
  IF ~a.expose THEN IF a.registered THEN 0 ELSE Never
  ELSE CASE a.phase = "Running" -> Configured
         [] a.phase = "Pending" -> 0
         [] OTHER -> Never

Requeue(a) ==
  IF ~a.expose THEN IF a.registered THEN 0 ELSE Never
  ELSE CASE a.phase = "Running" -> HealthInterval
         [] a.phase = "Pending" -> 0
         [] OTHER -> Never

\* The last call of updateStatus, and of promote if it registered the agent: a
\* write, unless nothing changed (a changed condition alone is a write, too).
UpdateStatus ==
  /\ pc \in {"status", "promotedStatus"}
  /\ \/ ad.phase = obj.phase /\ ad.registered = obj.registered /\ UNCHANGED obj
     \/ current /\ obj' = ad
  /\ Return(IF pc = "status" THEN Requeue(ad) ELSE 0)
  /\ UNCHANGED <<store, failures, world, history>>

\* An update from an outdated copy is refused, and the reconcile repeated.
Conflict ==
  /\ pc \in {"addFinalizer", "removeFinalizer", "start", "step", "status", "promotedStatus"}
  /\ ~current
  /\ Retry
  /\ UNCHANGED <<store, obj, failures, world, history>>

Worker ==
  \/ Reconcile \/ AddFinalizer \/ runDeletionCleanup \/ RemoveFinalizer \/ startCanary \/ Step
  \/ updateStatus \/ DeregisterUnexposed \/ HeartbeatOK \/ HeartbeatFails \/ Register
  \/ Persisted \/ UpdateStatus \/ Conflict

-----------------------------------------------------------------------------
(* Users, the agent, the other goroutines and replicas, crashes and time.  *)

Edited == current' = (pc = "idle") /\ due' = Now /\ UNCHANGED <<ad, pc, leader, failures>>

\* Creation, a change of spec.mcp.expose, an image that calls for a rollout, deletion.
EditObject ==
  /\ Event
  /\ \/ ~obj.there /\ \E expose \in BOOLEAN : obj' = New(expose)
     \/ /\ obj.there /\ ~obj.deleting
        /\ \/ obj' = [obj EXCEPT !.expose = ~@]
           \/ obj.phase # "RolloutInProgress" /\ obj' = [obj EXCEPT !.drift = TRUE]
           \/ obj' = IF obj.fin THEN [obj EXCEPT !.deleting = TRUE] ELSE Gone
  /\ Edited
  /\ UNCHANGED <<store, agent, history>>

\* A change of readiness is an event of the Deployment; silence goes unnoticed.
ChangeHealth ==
  /\ Event
  /\ agent' \in Healths \ {agent}
  /\ due' = IF "unready" \in {agent, agent'} /\ obj.there THEN Now ELSE due
  /\ UNCHANGED <<store, obj, ad, current, pc, leader, failures, history>>

\* The HTTP API registers without a handshake, "for administrative use".
Request ==
  /\ Admin /\ Event
  /\ \E r \in Replicas :
       \/ handleRegister(r) /\ vouched' = 0 /\ UNCHANGED steady
       \/ handleDeregister(r) /\ steady' = (steady /\ r # leader) /\ UNCHANGED vouched
  /\ UNCHANGED <<reconciler, agent>>

Background ==
  /\ \E r \in Replicas : sweepExpired(r) \/ PersistLater(r)
  /\ UNCHANGED <<reconciler, world, history>>

OtherAgent ==
  /\ Event
  /\ \E r \in Replicas : PersistOther(r)
  /\ UNCHANGED <<reconciler, agent, history>>

Load ==
  /\ \E r \in Replicas : loadFromConfigMap(r) /\ steady' = (steady /\ r # leader)
  /\ UNCHANGED <<reconciler, world, vouched>>

Sync ==
  /\ \E r \in Replicas : SyncConfigMap(r)
  /\ UNCHANGED <<reconciler, world, history>>

\* A failed read or write of the goroutines, or of a call of the reconcile.
Fault ==
  /\ Event
  /\ \/ /\ \E r \in Replicas : PersistLaterFails(r) \/ LoadFails(r)
        /\ UNCHANGED reconciler
     \/ /\ pc \in Points \ (PersistPoints \cup {"idle"})
        /\ Retry
        /\ UNCHANGED <<store, obj, failures>>
  /\ UNCHANGED <<agent, history>>

\* A replica restarts; if it led, it or another one leads now, and reconciles every
\* object as it starts.
Crash ==
  /\ Event
  /\ \E r \in Replicas :
       /\ Restart(r)
       /\ IF r = leader
            THEN /\ leader' \in Replicas /\ pc' = "idle" /\ ad' = Gone /\ failures' = 0
                 /\ current' = TRUE /\ due' = 0 /\ steady' = FALSE
                 /\ UNCHANGED obj
            ELSE UNCHANGED <<reconciler, steady>>
  /\ UNCHANGED <<agent, vouched>>

\* A unit of time passes, unless a reconcile is as late as it may be.
Tick ==
  /\ StoreTick
  /\ obj.there => due > -Delay
  /\ due' = IF due = Never \/ ~obj.there THEN Never ELSE due - 1
  /\ vouched' = Older(vouched)
  /\ UNCHANGED <<obj, ad, current, pc, leader, failures, world, steady>>

Init ==
  /\ StoreInit
  /\ obj \in {New(expose) : expose \in BOOLEAN}
  /\ ad = Gone /\ current = TRUE /\ pc = "idle" /\ due = 0
  /\ leader \in Replicas /\ failures = 0
  /\ agent \in Healths /\ events = 0
  /\ vouched = Old /\ steady = FALSE

Next ==
  \/ Worker \/ PersistFails \/ EditObject \/ ChangeHealth \/ Request \/ Background
  \/ OtherAgent \/ Load \/ Sync \/ Fault \/ Crash \/ Tick

Spec == Init /\ [][Next]_vars

\* The work queue serves the object, goroutines run, informers catch up and time
\* passes.
FairSpec ==
  /\ Spec
  /\ WF_vars(Worker) /\ WF_vars(Sync) /\ WF_vars(Tick) /\ WF_vars(Load)
  /\ \A r \in Replicas : WF_vars(PersistLater(r) /\ UNCHANGED <<reconciler, world, history>>)

-----------------------------------------------------------------------------
(* Correctness.                                                            *)

TypeOK ==
  /\ StoreTypeOK
  /\ obj \in Objects /\ ad \in Objects /\ current \in BOOLEAN /\ pc \in Points
  /\ leader \in Replicas /\ failures \in 0..MaxFailures /\ due \in Dues
  /\ agent \in Healths /\ events \in 0..MaxEvents
  /\ vouched \in 0..Old /\ steady \in BOOLEAN

\* No replica ever lists an agent that nobody vouched for within the TTL: neither a
\* restart that reloads the ConfigMap, nor another replica that overwrites it with
\* an old map, nor an entry whose deregistration was lost brings it back longer
\* (registry.go:250, registry.go:330).
ListedOnlyIfVouched == \A r \in Replicas : Listed(r) => vouched <= TTL

\* An agent that is exposed, running and answers every probe never drops out of the
\* leader's list between two heartbeats, whatever the sweepers, the other replicas
\* and failing writes do meanwhile (agentdeployment_controller.go:683).  Excepted are
\* an admin's DELETE and the load at the leader's start, which may replace a younger
\* entry by the stored one (registry.go:353): they end `steady` till the next probe.
SteadyIsListed == steady => Listed(leader)

Wanted ==
  /\ obj.there /\ ~obj.deleting /\ obj.expose /\ agent = "healthy"
  /\ obj.phase \notin {"RolloutInProgress", "RolloutFailed"}

\* Whatever happened before - rollouts without heartbeats, strikes, restarts, lost
\* writes - an agent that stays exposed, running and healthy is in the end listed
\* for good, and its status says so (mcp_registrar.go:148).
HealthyEndsListed == <>[]Wanted => <>[](Listed(leader) /\ obj.registered)

\* An agent that stays unexposed, deleted or silent is in the end listed nowhere,
\* even if its deregistration failed or its registration was never recorded.
UnwantedEndsUnlisted ==
  <>[](~obj.there \/ ~obj.expose \/ agent # "healthy") => <>[](\A r \in Replicas : ~Listed(r))

\* The finalizer does not block the deletion for ever (agentdeployment_controller.go:187).
DeletionEnds == obj.deleting ~> ~obj.there

-----------------------------------------------------------------------------
(* What the documentation says and the code does not do.                   *)

\* Deletion removes the agent "from memory & ConfigMap" before the finalizer goes;
\* but Deregister returns at once when memory has no entry (registry.go:218), which
\* after a restart it does not until the ConfigMap is loaded.
GoneMeansDeregistered == ~obj.there => mem[leader] = Nil /\ cm = Nil

=============================================================================
