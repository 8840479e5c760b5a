---------------------------- MODULE CanaryRollout ----------------------------
(***************************************************************************)
(* The reconciler of one AgentDeployment and the canary rollout it drives. *)
(*                                                                         *)
(* One worker serves the object, so a reconcile is a sequential program;   *)
(* each action below is one call of it that changes an object of the API   *)
(* server.  Between two calls users edit the spec, objects are deleted out *)
(* of band, the Deployment controller makes progress, time passes and the  *)
(* operator crashes or a call fails (both end the reconcile where it is).  *)
(*                                                                         *)
(* The reconciler reads the AgentDeployment from the informer cache and    *)
(* writes its status with the resourceVersion it read, so a write from an  *)
(* outdated copy is a conflict.  The children are read from informer       *)
(* caches, too.  Without CacheLag those have seen all that was written;    *)
(* with it a copy may be of any age, which the model overestimates by any  *)
(* content: a call takes its work for done, or its write is refused.       *)
(***************************************************************************)
EXTENDS Integers, Sequences

CONSTANTS
  Images,          \* container images
  NoImage,         \* the empty image string; for a Deployment: no such object
  NoAD,            \* the reconciler holds no object (it is not reconciling)
  Rollouts,        \* the [strategy, steps] a user may write in spec.rollout
  FailSafeTimeout, \* Controller.FailSafeTimeout
  MaxWaitCap,      \* the 15 minutes that cap an extended pause
  AgeCap,          \* ages saturate here, above every bound they meet
  CacheLag,        \* may the caches be behind the reconciler's own writes?
  Drift,           \* the children that may be deleted out of band
  MaxEdits,        \* bound on user edits and out-of-band deletions
  MaxFaults        \* bound on failed calls, crashes and outdated copies of children

\* A nil pointer: no weight or pause in a step, no timestamp, no HTTPRoute.
Nil == -1

Strategies == {"Canary", "Recreate"}

Steps == [setWeight : {Nil} \cup 0..100, pause : {Nil} \cup Nat]

ASSUME ImagesAssumption == NoImage \notin Images

ASSUME RolloutsAssumption == Rollouts \subseteq [strategy : Strategies, steps : Seq(Steps)]

ASSUME TimeAssumption ==
  /\ FailSafeTimeout \in Nat \ {0}
  /\ MaxWaitCap \in Nat
  /\ AgeCap \in Nat /\ FailSafeTimeout <= AgeCap /\ MaxWaitCap <= AgeCap
  /\ \A r \in Rollouts : \A i \in DOMAIN r.steps : r.steps[i].pause <= AgeCap

ASSUME BoundsAssumption ==
  /\ CacheLag \in BOOLEAN
  /\ Drift \subseteq {"dep", "cdep", "csvc", "route", "hpa"}
  /\ MaxEdits \in Nat /\ MaxFaults \in Nat

VARIABLES
  obj,      \* the AgentDeployment in the API server: [spec, status]
  cache,    \* the informer's copy of it
  fresh,    \* is the copy's resourceVersion the API server's?
  ad,       \* the object Reconcile fetched when it started
  pc,       \* the call the reconcile makes next
  owned,    \* the objects the AgentDeployment owns
  edits, faults,          \* how often the environment has interfered
  passed, failed \* history, for the properties only

vars == <<obj, cache, fresh, ad, pc, owned, edits, faults, passed, failed>>
history == <<passed, failed>>
env == <<edits, faults>>

Phases == {"", "Pending", "Running", "RolloutInProgress", "RolloutFailed", "Degraded"}

Times == {Nil} \cup 0..AgeCap

ADSpecs == [image : Images, abort : BOOLEAN, rollout : Rollouts]

\* pause and prom are the ages of PauseStartedAt and PromUnreachableSince.
Statuses ==
  [phase : Phases, stable : Images \cup {NoImage}, canary : Images \cup {NoImage},
   idx : Nat, weight : 0..100, pause : Times, prom : Times]

ADs == [spec : ADSpecs, status : Statuses]

ASSUME NoADAssumption == NoAD \notin ADs

\* hpa: "min" is the HPA of restoreHPA, capped at replicas.min; "headroom" the
\* one of reconcileHPA, capped at the quota headroom.  done: the Deployment's
\* latest generation is observed, updated and available.
Owned ==
  [dep : Images \cup {NoImage}, done : BOOLEAN, cdep : Images \cup {NoImage},
   csvc : BOOLEAN, route : {Nil} \cup 0..100, hpa : {"none", "min", "headroom"}]

StartPoints == {"startHPA", "startStatus"}
HealPoints == {"healDep", "healSvc", "healRoute"}
WeightPoints == {"weightDep", "weightSvc", "weightRoute", "weightStatus"}
RollbackPoints == {"rbDep", "rbCanary", "rbSvc", "rbRoute", "rbHPA", "rbStatus"}
PromotePoints == {"prDep", "prCanary", "prSvc", "prRoute", "prHPA", "prStatus"}
ChildPoints == {"dep", "hpa", "status"}
Points == {"idle", "pause"} \cup StartPoints \cup HealPoints \cup WeightPoints
            \cup RollbackPoints \cup PromotePoints \cup ChildPoints

InProgress(a) == a.status.phase = "RolloutInProgress"

-----------------------------------------------------------------------------
(* What the code decides from an AgentDeployment.                          *)

\* The steps a user may give a Canary strategy.
validateCanarySpec(r) ==
  /\ r.steps # <<>>
  /\ \A i \in DOMAIN r.steps : (r.steps[i].setWeight = Nil) # (r.steps[i].pause = Nil)
  /\ \E i \in DOMAIN r.steps : r.steps[i].setWeight = 100

\* The webhook's verdict on an update (its quota check is not of this module).
ValidateUpdate(old, new) ==
  /\ new.image # old.spec.image => ~InProgress(old)
  /\ new.rollout.strategy = "Canary" => validateCanarySpec(new.rollout)

\* Mutant: looks for the abort in the wrong phase.
MutAbortWhenRunning(a) == a.spec.abort /\ a.status.phase = "Running"

isAbortRequested(a) == a.spec.abort /\ InProgress(a)

\* Mutant: the first deployment is a canary, too.
MutTriggeredOnFirstDeploy(a) ==
  /\ a.spec.rollout.strategy = "Canary"
  /\ a.spec.image # a.status.stable
  /\ ~InProgress(a)

isCanaryTriggered(a) ==
  /\ a.spec.rollout.strategy = "Canary"
  /\ a.status.stable # NoImage
  /\ a.spec.image # a.status.stable
  /\ ~InProgress(a)
  /\ ~(a.status.phase = "RolloutFailed" /\ a.spec.image = a.status.canary)

\* The image of the stable Deployment.
desiredImage(a) ==
  IF InProgress(a) /\ a.status.stable # NoImage THEN a.status.stable ELSE a.spec.image

\* Mutant: every step is taken for a setWeight step.
MutStepKindNoNilCheck(a) ==
  IF a.status.idx >= Len(a.spec.rollout.steps) THEN "prDep" ELSE "weightDep"

\* Mutant: promotes before the last step is executed.
MutPromoteEarly(a) ==
  IF a.status.idx + 1 >= Len(a.spec.rollout.steps) THEN "prDep"
  ELSE IF a.spec.rollout.steps[a.status.idx + 1].setWeight # Nil THEN "weightDep" ELSE "pause"

\* Where Step goes once the canary's objects are healed.
StepKind(a) ==
  LET steps == a.spec.rollout.steps
      idx == a.status.idx
  IN  IF idx >= Len(steps)
        THEN IF a.status.canary = NoImage THEN "idle" ELSE "prDep"
      ELSE IF steps[idx + 1].setWeight # Nil THEN "weightDep"
      ELSE IF steps[idx + 1].pause # Nil THEN "pause"
      ELSE "rbDep"

\* Mutants: the HTTPRoute, or the canary's Deployment and Service, are not healed.
MutHealNoRoute(a) == StepKind(a)
MutHealRouteOnly(a) == IF a.status.weight > 0 THEN "healRoute" ELSE StepKind(a)

\* Where Step begins: with the canary's objects that it has to heal.
HealRoute(a) == IF a.status.weight > 0 THEN "healRoute" ELSE StepKind(a)
Heal(a) == IF a.status.canary # NoImage THEN "healDep" ELSE HealRoute(a)

\* Where Reconcile goes after fetching the object.
Dispatch(a) ==
  IF isAbortRequested(a) THEN "rbDep"
  ELSE IF InProgress(a) THEN Heal(a)
  ELSE IF isCanaryTriggered(a) THEN "startHPA"
  ELSE "dep"

\* Mutant: a small sample extends the pause for ever.
MutWaitForever(d) == AgeCap + 1

MaxWait(d) == IF 3 * d > MaxWaitCap THEN MaxWaitCap ELSE 3 * d

\* The three queries of an evaluation; a NaN exceeds no threshold.
Metrics == [sample : {"error", "low", "enough"},
            errorRate : {"error", "over", "within"}, p99 : {"error", "over", "within"}]

Evaluate(m) ==
  CASE m.sample = "error" -> "unreachable"
    [] m.sample = "low" -> "small"
    [] m.sample = "enough" /\ m.errorRate # "within" ->
         IF m.errorRate = "error" THEN "unreachable" ELSE "breach"
    [] OTHER -> CASE m.p99 = "error" -> "unreachable"
                  [] m.p99 = "over" -> "breach"
                  [] OTHER -> "ok"

-----------------------------------------------------------------------------
(* Reads, writes and returns.                                              *)

\* Calls that re-fetch the AgentDeployment and update its status.
StatusPoints == {"startStatus", "weightStatus", "pause", "rbStatus", "prStatus", "status"}

\* Status().Update of a copy of the cached object whose status is now s.  With
\* s unchanged the write still counts when a field not modelled here changed.
UpdateStatus(s) ==
  /\ fresh
  /\ obj' = [obj EXCEPT !.status = s]
  /\ IF CacheLag THEN cache' = cache /\ fresh' \in {FALSE, s = obj.status}
                 ELSE cache' = obj' /\ fresh' = TRUE

NoWrite == UNCHANGED <<obj, cache, fresh>>

Goto(next) ==
  /\ pc' = next
  /\ ad' = IF next = "idle" THEN NoAD ELSE ad

\* The copy of a child is not what the API server has.
OutdatedCopy == CacheLag /\ faults < MaxFaults /\ faults' = faults + 1

\* A call at point `from` that leaves the objects o and goes on to `next`.
Move(from, next, o) ==
  /\ pc = from
  /\ owned' = o
  /\ Goto(next)
  /\ NoWrite
  /\ UNCHANGED <<edits, history>>

\* CreateOrUpdate, or a Get and a write: writes nothing if the cached copy of the
\* object already is what the call would make of it, though the object is not.
Call(from, next, o) ==
  \/ Move(from, next, o) /\ UNCHANGED faults
  \/ Move(from, next, owned) /\ OutdatedCopy

Reconcile ==
  /\ pc = "idle"
  /\ CacheLag \/ fresh
  /\ Dispatch(cache) # "idle"
  /\ ad' = cache
  /\ pc' = Dispatch(cache)
  /\ NoWrite
  /\ UNCHANGED <<owned, env, history>>

-----------------------------------------------------------------------------
(* startCanary: pause the HPA, record the rollout in the status.           *)

PauseHPA == Call("startHPA", "startStatus", [owned EXCEPT !.hpa = "none"])

StartStatus ==
  /\ pc = "startStatus"
  /\ UpdateStatus([cache.status EXCEPT
       !.phase = "RolloutInProgress", !.canary = ad.spec.image, !.idx = 0,
       !.weight = 0, !.pause = Nil, !.prom = Nil])
  /\ passed' = {}
  /\ Goto("idle")
  /\ UNCHANGED <<owned, env, failed>>

(* Step: heal the canary's objects, then run one step of the plan.         *)

EnsureCanaryDeployment ==
  \/ Call("healDep", "healSvc", [owned EXCEPT !.cdep = ad.status.canary])
  \/ Call("weightDep", "weightSvc", [owned EXCEPT !.cdep = ad.status.canary])

EnsureCanaryService ==
  \/ Call("healSvc", HealRoute(ad), [owned EXCEPT !.csvc = TRUE])
  \/ Call("weightSvc", "weightRoute", [owned EXCEPT !.csvc = TRUE])

StepWeight == ad.spec.rollout.steps[ad.status.idx + 1].setWeight

\* Mutant: the weights of the two backends are swapped.
MutSwappedWeights ==
  \/ Call("healRoute", StepKind(ad), [owned EXCEPT !.route = 100 - ad.status.weight])
  \/ /\ pc = "weightRoute"
     /\ Call("weightRoute", "weightStatus", [owned EXCEPT !.route = 100 - StepWeight])

EnsureHTTPRoute ==
  \/ Call("healRoute", StepKind(ad), [owned EXCEPT !.route = ad.status.weight])
  \/ /\ pc = "weightRoute"
     /\ Call("weightRoute", "weightStatus", [owned EXCEPT !.route = StepWeight])

\* Mutant: the step after a setWeight is skipped.
MutSkipStep ==
  /\ pc = "weightStatus"
  /\ UpdateStatus([cache.status EXCEPT
       !.weight = StepWeight, !.idx = ad.status.idx + 2, !.pause = Nil])
  /\ Goto("idle")
  /\ UNCHANGED <<owned, env, history>>

\* Mutant: the next index is computed from the copy just read again.
MutIndexReread ==
  /\ pc = "weightStatus"
  /\ UpdateStatus([cache.status EXCEPT
       !.weight = StepWeight, !.idx = cache.status.idx + 1, !.pause = Nil])
  /\ Goto("idle")
  /\ UNCHANGED <<owned, env, history>>

SetWeightStatus ==
  /\ pc = "weightStatus"
  /\ UpdateStatus([cache.status EXCEPT
       !.weight = StepWeight, !.idx = ad.status.idx + 1, !.pause = Nil])
  /\ Goto("idle")
  /\ UNCHANGED <<owned, env, history>>

-----------------------------------------------------------------------------
(* executePause, on the cached object and the clock of this instant.       *)

PauseDuration == ad.spec.rollout.steps[ad.status.idx + 1].pause

PauseBegin ==
  /\ pc = "pause" /\ cache.status.pause = Nil
  /\ UpdateStatus([cache.status EXCEPT !.pause = 0])
  /\ Goto("idle")
  /\ UNCHANGED <<owned, env, history>>

\* The evaluation failed: start the fail-safe clock, wait, or roll back.
PauseUnreachable ==
  /\ pc = "pause" /\ cache.status.pause # Nil
  /\ \E m \in Metrics : Evaluate(m) = "unreachable"
  /\ \/ /\ cache.status.prom = Nil
        /\ UpdateStatus([cache.status EXCEPT !.prom = 0])
        /\ Goto("idle")
     \/ /\ cache.status.prom \in 0..(FailSafeTimeout - 1)
        /\ NoWrite
        /\ Goto("idle")
     \/ /\ cache.status.prom >= FailSafeTimeout
        /\ NoWrite
        /\ pc' = "rbDep" /\ ad' = cache
  /\ UNCHANGED <<owned, env, history>>

\* Mutant: an answer of Prometheus does not stop the fail-safe clock.
MutStaleClock == cache.status

Reachable == [cache.status EXCEPT !.prom = Nil]
ClearUnreachable == IF cache.status.prom # Nil THEN UpdateStatus(Reachable) ELSE NoWrite

PauseBreach ==
  /\ pc = "pause" /\ cache.status.pause # Nil
  /\ \E m \in Metrics : Evaluate(m) = "breach"
  /\ ClearUnreachable
  /\ pc' = "rbDep" /\ ad' = [cache EXCEPT !.status = Reachable]
  /\ UNCHANGED <<owned, env, history>>

\* The canary is not (yet) judged bad: wait or advance.  A small sample extends
\* the pause; its condition is written either way, so the copy must be current.
PauseWait ==
  /\ pc = "pause" /\ cache.status.pause # Nil
  /\ \E m \in Metrics :
       \/ /\ Evaluate(m) = "small"
          /\ cache.status.pause < MaxWait(PauseDuration) \/ cache.status.pause < PauseDuration
          /\ UpdateStatus(Reachable)
       \/ /\ Evaluate(m) = "ok"
          /\ cache.status.pause < PauseDuration
          /\ ClearUnreachable
  /\ Goto("idle")
  /\ UNCHANGED <<owned, env, history>>

PauseAdvance ==
  /\ pc = "pause" /\ cache.status.pause # Nil
  /\ cache.status.pause >= PauseDuration
  /\ \E m \in Metrics :
       \/ Evaluate(m) = "small" /\ cache.status.pause >= MaxWait(PauseDuration)
       \/ Evaluate(m) = "ok"
  /\ UpdateStatus([Reachable EXCEPT !.idx = ad.status.idx + 1, !.pause = Nil])
  /\ passed' = passed \cup {ad.status.idx}
  /\ Goto("idle")
  /\ UNCHANGED <<owned, env, failed>>

\* PromUnreachableSince was cleared and a later call of the pass failed.
PauseInterrupted ==
  /\ pc = "pause" /\ cache.status.pause # Nil /\ cache.status.prom # Nil
  /\ faults < MaxFaults /\ faults' = faults + 1
  /\ UpdateStatus(Reachable)
  /\ Goto("idle")
  /\ UNCHANGED <<owned, edits, history>>

-----------------------------------------------------------------------------
(* Rollback and promote: six calls each, the status last.                  *)

SetStableImage(image) == [owned EXCEPT !.dep = image, !.done = (owned.done /\ owned.dep = image)]

\* Mutant: rolls back to the image of the spec.
MutRollbackToSpec == Call("rbDep", "rbCanary", SetStableImage(ad.spec.image))

RollbackImage ==
  Call("rbDep", "rbCanary",
       IF ad.status.stable # NoImage /\ owned.dep # NoImage
         THEN SetStableImage(ad.status.stable) ELSE owned)

\* Updates whatever the copy says; without a stable Deployment promotion fails.
PromoteImage ==
  /\ IF owned.dep = NoImage THEN Move("prDep", "idle", owned)
     ELSE Move("prDep", "prCanary", SetStableImage(ad.status.canary))
  /\ UNCHANGED faults

deleteCanaryDeployment ==
  \/ Call("rbCanary", "rbSvc", [owned EXCEPT !.cdep = NoImage])
  \/ Call("prCanary", "prSvc", [owned EXCEPT !.cdep = NoImage])

\* Mutant: a rollback leaves the canary's Service.
MutServiceLeft ==
  \/ Call("rbSvc", "rbRoute", owned)
  \/ Call("prSvc", "prRoute", [owned EXCEPT !.csvc = FALSE])

deleteCanaryService ==
  \/ Call("rbSvc", "rbRoute", [owned EXCEPT !.csvc = FALSE])
  \/ Call("prSvc", "prRoute", [owned EXCEPT !.csvc = FALSE])

deleteHTTPRoute ==
  \/ Call("rbRoute", "rbHPA", [owned EXCEPT !.route = Nil])
  \/ Call("prRoute", "prHPA", [owned EXCEPT !.route = Nil])

restoreHPA ==
  \/ Call("rbHPA", "rbStatus", [owned EXCEPT !.hpa = "min"])
  \/ Call("prHPA", "prStatus", [owned EXCEPT !.hpa = "min"])

\* Mutant: the step index survives the rollout.
MutIndexKept == [cache.status EXCEPT !.weight = 0, !.pause = Nil, !.prom = Nil]

Cleared == [cache.status EXCEPT !.weight = 0, !.idx = 0, !.pause = Nil, !.prom = Nil]

RollbackStatus ==
  LET canary == IF cache.status.canary = NoImage THEN ad.spec.image ELSE cache.status.canary
  IN  /\ pc = "rbStatus"
      /\ UpdateStatus([Cleared EXCEPT !.phase = "RolloutFailed", !.canary = canary])
      /\ failed' = canary
      /\ Goto("idle")
      /\ UNCHANGED <<owned, env, passed>>

PromoteStatus ==
  /\ pc = "prStatus"
  /\ UpdateStatus([Cleared EXCEPT
       !.phase = "Running", !.stable = ad.status.canary, !.canary = NoImage])
  /\ Goto("idle")
  /\ UNCHANGED <<owned, env, history>>

-----------------------------------------------------------------------------
(* Outside a rollout: reconcile the children, then derive the status.  The *)
(* Service and the ServiceMonitor are not state of this module.            *)

reconcileDeployment == Call("dep", "hpa", SetStableImage(desiredImage(ad)))

\* Skipped during a rollout and, for want of a headroom, without a TenantQuota.
reconcileHPA ==
  \E tqFound \in BOOLEAN :
    Call("hpa", "status", IF InProgress(ad) \/ ~tqFound
                            THEN owned ELSE [owned EXCEPT !.hpa = "headroom"])

\* What the cached copy of the stable Deployment may say of it.
Copies == [dep : Images \cup {NoImage}, done : BOOLEAN]
ReadDeployment(d) ==
  \/ d.dep = owned.dep /\ d.done = owned.done /\ UNCHANGED faults
  \/ OutdatedCopy

\* The status derived from the copy d of the Deployment and the pods.
DerivedStatus(a, d, pullFailed) ==
  LET s == a.status
      keep == s.phase = "RolloutFailed" /\ a.spec.image # s.stable
  IN  IF pullFailed THEN [s EXCEPT !.phase = "Degraded"]
      ELSE IF ~d.done THEN [s EXCEPT !.phase = "Pending"]
      ELSE [s EXCEPT !.phase = IF keep THEN @ ELSE "Running",
                     !.canary = IF keep THEN @ ELSE NoImage,
                     !.stable = d.dep]

updateStatus ==
  /\ pc = "status"
  /\ \E d \in Copies, pullFailed \in BOOLEAN :
     /\ ReadDeployment(d)
     /\ \/ /\ d.dep = NoImage \/ DerivedStatus(cache, d, pullFailed) = cache.status
          /\ NoWrite
       \/ /\ d.dep # NoImage
          /\ UpdateStatus(DerivedStatus(cache, d, pullFailed))
  /\ Goto("idle")
  /\ UNCHANGED <<owned, edits, history>>

-----------------------------------------------------------------------------
(* The environment.                                                        *)

\* The informer catches up.
Sync ==
  /\ ~fresh
  /\ cache' = obj /\ fresh' = TRUE
  /\ UNCHANGED <<obj, ad, pc, owned, env, history>>

\* A status update from an outdated copy: the reconcile returns the conflict.
Conflict ==
  /\ pc \in StatusPoints /\ ~fresh
  /\ Goto("idle")
  /\ NoWrite
  /\ UNCHANGED <<owned, env, history>>

\* A call fails (the update of a child from an outdated copy, too), or the operator
\* crashes; what was written stays written.
Fault ==
  /\ pc # "idle" /\ faults < MaxFaults
  /\ faults' = faults + 1
  /\ Goto("idle")
  /\ NoWrite
  /\ UNCHANGED <<owned, edits, history>>

\* A user updates the spec; the webhook reads the phase of the stored object.
EditSpec ==
  \E spec \in ADSpecs :
    /\ edits < MaxEdits /\ edits' = edits + 1
    /\ spec # obj.spec /\ ValidateUpdate(obj, spec)
    /\ obj' = [obj EXCEPT !.spec = spec]
    /\ fresh' = FALSE
    /\ failed' = IF spec.image = obj.spec.image THEN failed ELSE NoImage
    /\ UNCHANGED <<cache, ad, pc, owned, faults, passed>>

Without(k) ==
  CASE k = "dep" -> [owned EXCEPT !.dep = NoImage, !.done = FALSE]
    [] k = "cdep" -> [owned EXCEPT !.cdep = NoImage]
    [] k = "csvc" -> [owned EXCEPT !.csvc = FALSE]
    [] k = "route" -> [owned EXCEPT !.route = Nil]
    [] k = "hpa" -> [owned EXCEPT !.hpa = "none"]

DeleteOutOfBand ==
  \E k \in Drift :
    /\ edits < MaxEdits /\ edits' = edits + 1
    /\ owned' = Without(k) /\ owned' # owned
    /\ NoWrite
    /\ UNCHANGED <<ad, pc, faults, history>>

\* The stable pods become available, or stop being so.
DeploymentProgress ==
  /\ owned.dep # NoImage
  /\ owned' = [owned EXCEPT !.done = ~@]
  /\ NoWrite
  /\ UNCHANGED <<ad, pc, env, history>>

Older(t) == IF t = Nil \/ t >= AgeCap THEN t ELSE t + 1
AgedStatus(s) == [s EXCEPT !.pause = Older(s.pause), !.prom = Older(s.prom)]
Aged(a) == IF a = NoAD THEN a ELSE [a EXCEPT !.status = AgedStatus(a.status)]

Tick ==
  /\ obj' = Aged(obj) /\ cache' = Aged(cache) /\ ad' = Aged(ad)
  /\ UNCHANGED <<fresh, pc, owned, env, history>>

-----------------------------------------------------------------------------
ZeroStatus ==
  [phase |-> "", stable |-> NoImage, canary |-> NoImage,
   idx |-> 0, weight |-> 0, pause |-> Nil, prom |-> Nil]

Init ==
  /\ obj \in [spec : ADSpecs, status : {ZeroStatus}]
  /\ obj.spec.rollout.strategy = "Canary" => validateCanarySpec(obj.spec.rollout)
  /\ cache = obj /\ fresh = TRUE
  /\ ad = NoAD /\ pc = "idle"
  /\ owned = [dep |-> NoImage, done |-> FALSE, cdep |-> NoImage,
              csvc |-> FALSE, route |-> Nil, hpa |-> "none"]
  /\ edits = 0 /\ faults = 0
  /\ passed = {} /\ failed = NoImage

Step ==
  \/ EnsureCanaryDeployment \/ EnsureCanaryService \/ EnsureHTTPRoute \/ SetWeightStatus
  \/ PauseBegin \/ PauseUnreachable \/ PauseBreach \/ PauseWait \/ PauseAdvance

Teardown ==
  \/ RollbackImage \/ PromoteImage \/ deleteCanaryDeployment \/ deleteCanaryService
  \/ deleteHTTPRoute \/ restoreHPA \/ RollbackStatus \/ PromoteStatus

Worker ==
  \/ Reconcile \/ PauseHPA \/ StartStatus \/ Step \/ Teardown
  \/ reconcileDeployment \/ reconcileHPA \/ updateStatus \/ Conflict

Environment ==
  \/ PauseInterrupted \/ Fault \/ EditSpec \/ DeleteOutOfBand \/ DeploymentProgress

Next == Worker \/ Environment \/ Sync \/ Tick

Spec == Init /\ [][Next]_vars

\* The work queue retries, the informer catches up and time passes.
FairSpec == Spec /\ WF_vars(Worker) /\ WF_vars(Sync) /\ WF_vars(Tick)

-----------------------------------------------------------------------------
(* Correctness.                                                            *)

TypeOK ==
  /\ obj \in ADs /\ cache \in ADs /\ fresh \in BOOLEAN
  /\ ad \in ADs \cup {NoAD} /\ pc \in Points
  /\ ad = NoAD <=> pc = "idle"
  /\ owned \in Owned
  /\ edits \in 0..MaxEdits /\ faults \in 0..MaxFaults
  /\ passed \subseteq Nat /\ failed \in Images \cup {NoImage}

\* A rollout in progress always knows both its images: promote's guard against
\* an empty canaryVersion (canary.go:374) never fires, and a rollback always has
\* a stableVersion to restore, whatever was interrupted, edited or read late.
RolloutNamesImages ==
  InProgress(obj) => obj.status.canary # NoImage /\ obj.status.stable # NoImage

\* Rollback and promote delete the canary's objects before the status leaves
\* RolloutInProgress, so no interruption leaves one behind that no later
\* reconcile would delete.
NoOrphans ==
  ~InProgress(obj) => owned.cdep = NoImage /\ ~owned.csvc /\ owned.route = Nil

\* The progress of a rollout ends with it: step index, weight and both clocks
\* are reset by every way out of RolloutInProgress.
ProgressOnlyInRollout ==
  ~InProgress(obj) =>
    /\ obj.status.idx = 0 /\ obj.status.weight = 0
    /\ obj.status.pause = Nil /\ obj.status.prom = Nil

\* The fail-safe clock never outlives the pause that started it: an outage seen
\* in one pause does not count against Prometheus in the next.
FailSafeClockInsidePause ==
  obj.status.prom # Nil => obj.status.pause # Nil

\* promote touches the stable Deployment only after every pause of the plan was
\* left by an evaluation of this rollout that found no breach (or, its extensions
\* used up, still no sample), across restarts, retries and late reads.
EvaluatedPromotion ==
  pc \in PromotePoints =>
    \A i \in DOMAIN ad.spec.rollout.steps :
      ad.spec.rollout.steps[i].pause # Nil => i - 1 \in passed

\* The HTTPRoute gives the canary the weight the status records or, if the
\* status update was lost, that of the one step being executed.
TrafficFollowsPlan ==
  LET steps == obj.spec.rollout.steps
      idx == obj.status.idx
  IN  InProgress(obj) /\ owned.route # Nil =>
        \/ owned.route = obj.status.weight
        \/ idx < Len(steps) /\ owned.route = steps[idx + 1].setWeight

\* During a rollout the stable Deployment keeps its image; it moves only back to
\* stableVersion (rollback) or, past the last step, to the canary (promote).
StableFrozen ==
  [][InProgress(obj) /\ owned'.dep # owned.dep /\ owned'.dep # NoImage =>
       \/ owned'.dep = obj.status.stable
       \/ /\ owned'.dep = obj.status.canary
          /\ obj.status.idx >= Len(ad.spec.rollout.steps)]_vars

\* A rollback or a promotion that read the object late acts on the rollout that is
\* recorded: it restores its stable image, or deploys its canary past its last step,
\* though a start repeated from an outdated copy may have replaced the canary.
TeardownIsCurrent ==
  InProgress(obj) =>
    /\ pc = "rbDep" => ad.status.stable = obj.status.stable
    /\ pc = "prDep" => /\ ad.status.canary = obj.status.canary
                       /\ obj.status.idx >= Len(ad.spec.rollout.steps)

\* Whenever the metrics are evaluated, the canary stands as the status says: a
\* pass that follows an interrupted rollback or step first heals what it undid.
EvaluatedOnHealedCanary ==
  pc = "pause" =>
    /\ owned.cdep = ad.status.canary /\ owned.csvc
    /\ ad.status.weight > 0 => owned.route = ad.status.weight

\* A rollout comes to an end, with Prometheus up, down or flapping, samples large
\* or small, children deleted and the plan replaced under way; only promote can
\* be stuck, for want of a stable Deployment.
RolloutEnds == InProgress(obj) ~> (~InProgress(obj) \/ owned.dep = NoImage)

\* An abort ends the rollout unless it is withdrawn, even when promotion cannot.
AbortEndsRollout ==
  (obj.spec.abort /\ InProgress(obj)) ~> (~InProgress(obj) \/ ~obj.spec.abort)

\* A deleted HTTPRoute is restored while the rollout goes on.
RouteHealed ==
  (InProgress(obj) /\ obj.status.weight > 0) ~> (owned.route # Nil \/ ~InProgress(obj))

\* Seen through its status, its stable Deployment and its HTTPRoute, the operator
\* behaves as RolloutLifecycle promises: it reports a rollout as succeeded or
\* failed only when the image it then names is the one deployed and no traffic
\* goes to a canary, whatever was interrupted, deleted or edited (canary.go:127,
\* canary.go:363, agentdeployment_controller.go:507).
Lifecycle == INSTANCE RolloutLifecycle WITH
  phase <- obj.status.phase, stable <- obj.status.stable, canary <- obj.status.canary,
  step <- obj.status.idx, live <- owned.dep, split <- (owned.route # Nil)

KeepsLifecycle == Lifecycle!Spec

-----------------------------------------------------------------------------
(* What the documentation says and the code does not do.                   *)

\* Rollback restores "the stable image" (canary.go:134), and RolloutFailed is
\* kept "until the user changes spec.image": the failed image is not deployed.
RollbackSticks ==
  obj.status.phase = "RolloutFailed" /\ failed = obj.spec.image => owned.dep # failed

=============================================================================
