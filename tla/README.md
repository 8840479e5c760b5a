# Agentrax in TLA+

Agentrax is a Kubernetes operator for AI agents. Users write `AgentDeployment`
(AD) and `TenantQuota` (TQ) objects; the operator keeps a Deployment, a Service, a
ServiceMonitor and an HPA per AD, rolls new images out as canaries, admits ADs
within the quota of their tenant, and keeps a registry of the agents' MCP tools.
This directory models its state machines, checks them with TLC and proves the
central properties with TLAPS. Paths below are relative to the repository root.

## Inventory

| Part | State | Operations | Interacts with |
|---|---|---|---|
| AD reconciler, `internal/controller/agentdeployment_controller.go` | AD status; Deployment, Service, ServiceMonitor, HPA; finalizer | Reconcile, startCanary, reconcileDeployment/Service/ServiceMonitor/HPA, updateStatus, runDeletionCleanup, reconcileMCPRegistration | canary controller, webhook (its updates pass through it), registrar, scaling |
| Canary controller, `internal/rollout/canary.go` | the rollout fields of the AD status; canary Deployment, Service, HTTPRoute; HPA | Step, executeSetWeight, executePause, Rollback, promote, PauseHPA, restoreHPA | Prometheus through Evaluate, the AD reconciler, registrar |
| Threshold evaluation, `internal/rollout/promql.go` | none | Evaluate | Prometheus client |
| Webhook, `internal/webhook/agentdeployment_webhook.go` | none | Default, ValidateCreate, ValidateUpdate, ValidateDelete | TQs, enforcer |
| Quota enforcer, `internal/quota/enforcer.go` | reservations, in memory | AdmitAndReserve, CanAdmit, Release, sweepExpired, ComputeUsage, IsOverQuota | webhook, TQ reconciler |
| TQ reconciler, `internal/controller/tenantquota_controller.go`, `enqueue_handlers.go` | TQ status | Reconcile, event mapping | enforcer, AD reconciler |
| Scaling, `internal/scaling/autoscaler.go` | none | BuildHPA, IsQuotaCapped, QuotaHeadroom | AD reconciler, canary controller |
| MCP registry and registrar, `internal/registry/` | entries in memory and in a ConfigMap; failure counters | Register, Deregister, Heartbeat, sweepExpired, load and persist; HTTP handlers; handshake | AD reconciler, canary controller |
| Prometheus client, observability, `cmd/main.go`, generated code | none of interest | | |

What is hard here: each controller has one worker, but the controllers, the
webhook's request goroutines, the registry's handlers and the sweepers run
concurrently, the registry on every replica; reconcilers read informer caches that
lag behind their own writes; status writes are checked against a resourceVersion
while writes of children are not ordered with them; any call may fail and the
process may stop between two calls, after which the reconcile starts over from
whatever was written; reservations, failure counters and registry entries are lost
with the process; timers (pause, fail-safe, reservation TTL, registry TTL) race with
late answers. `PROJECT.json` lists these hazards with their lines and the properties
that watch them.

## Modules

| Module | Contents |
|---|---|
| `RolloutLifecycle` | abstract: what the owner of an AD is promised about its image |
| `CanaryRollout` | one AD, its reconcile and rollout, the objects it owns, its environment; implements `RolloutLifecycle` |
| `QuotaAdmission` | admission requests, reservations, the finalizer updates, the TQ reconciler |
| `QuotaScaling` | the HPAs of a tenant's agents, the two reconcilers and their events |
| `McpRegistry` | the registry: memory of every replica, sweeper, HTTP handlers, ConfigMap |
| `McpDiscovery` | registration of one agent: reconciler, registrar and rollout phases, composed with `McpRegistry` |
| `MC*`, `MC*.cfg` | instances for TLC |
| `CanaryRolloutProofs`, `RolloutPlanProofs`, `RolloutLifecycleProofs` | theorems about `CanaryRollout`: types, cleaning up; evaluation, traffic and late reads; that it implements `RolloutLifecycle` |
| `QuotaAdmissionProofs`, `QuotaScalingProofs`, `QuotaSettlingProofs`, `McpDiscoveryProofs` | theorems about those modules; `QuotaSettlingProofs` is the one on exact HPAs |
| `SumTheorems` | remainders, and sums over finite sets, for the quota proofs |

The modules overlap where the components do: the AD reconciler appears in four of
them, each time with the calls that matter there, and with what the other modules
own reduced to its effect (a rollout in `McpDiscovery` is a phase, in `QuotaScaling`
the removal and return of the HPA).

### CanaryRollout

`obj` is the AD in the API server, `cache` the informer's copy and `fresh` says whether
their resourceVersions agree. `pc` is the call the reconcile makes next and `ad` the
object it fetched at its start; `owned` holds the children (an image, a flag or a weight
each). Every action is one API call of the reconcile: `Reconcile` fetches and
dispatches, `StartStatus`, `EnsureHTTPRoute`, `RollbackImage`, ... make the call of that
name. A status update (`UpdateStatus`) needs `fresh`; otherwise it is a `Conflict`. With
`CacheLag` TRUE the caches may be behind the reconciler's own writes, with FALSE they
have always seen them (user edits still come in late). The copies of the children are no
variables: with `CacheLag` a call (`Call`) may find its work done in an outdated copy
and write nothing, and the status may be derived from a Deployment as it never was
(`ReadDeployment`). That allows more than any real copy does; how often it happens is
bounded like faults. `Fault` ends a reconcile anywhere: a failed call and a crash look
the same, as all state is in the API server. Timestamps are kept as ages that `Tick`
increments up to `AgeCap`; `executePause` reads clock, cache and metrics in one action,
with every combination of query outcomes. `PauseInterrupted` is the failure between the
two status updates of one such pass. `passed` and `failed` are history for the
properties.

Left out: finalizer, deletion and MCP registration (in `McpDiscovery`), the size of the
HPA (in `QuotaScaling`), replica counts, conditions, Service and ServiceMonitor (upserts
nothing else depends on). The canary controller is assumed to be enabled and
`FailSafeTimeout` positive; it is 60 seconds in `cmd/main.go`.

### RolloutLifecycle

Six variables: phase, stable and canary version, step index, the image of the stable
Deployment and whether an HTTPRoute splits the traffic. Outside a rollout the
Deployment may take any image and the status follows it; a rollout begins with an
image other than the stable one, and `Succeed` and `Fail` need the traffic whole and
the Deployment on the image that the status then names (or deleted by someone else).
`Lifecycle` in `CanaryRollout` maps it to the status and to the children.

### QuotaAdmission

A request runs in three steps: `Submit` (the webhook reads the TQ, from the API
server, through the manager's API reader), `AdmitAndReserve` (check and reservation
in one critical section), `Persist` or `Discard` (the API server, which refuses an
object that was written meanwhile; `current` stands for the resourceVersion).
Requests come from users and from the AD reconciler, whose finalizer updates are
admitted like any other. The TQ reconciler lists (`ListADs`), releases the
reservations one by one (`Release`) and writes usage and OverQuota (`UpdateStatus`).
Informer copies (`seenADs`, `seenTQs`) catch up at any time, as a whole, and their
events feed the queue. Reservations expire at any time when `MayExpire` holds.
Sums wrap at int32; `IntMax` scales it. In an entry, `tq` and `shrinks` are history.

Left out: validation rules other than tenant and quota (the specs are valid
otherwise), more than one namespace, several operator processes.

### QuotaScaling

`ads`, `tq` and `hpas` are the objects, `seen` the informers' copies and `late` the
objects with events that have not arrived; an event brings the copy up to date and
fills the work queues as the watches of the two controllers do (`SyncAD`, `SyncHPA`,
`SyncTQ`). `work` is the AD reconcile under way, with what it has read so far:
`GetQuota` computes the headroom from the copies, `reconcileHPA` writes the HPA and
`updateStatus` the condition, each with the others' changes in between. The finalizer
of a deleted agent is removed from the copy fetched at the start (`outdated`: that copy
is behind, and the update is refused). A write from
an outdated copy is refused; `CreateOrUpdate` writes nothing if the copy is as
desired. `TQReconcile` and `TQUpdate` are the two halves of the other reconciler. A
rollout deletes the HPA and restores it with headroom 0, as `PauseHPA` and
`restoreHPA` do. Users edit agents and quota and delete HPAs; calls fail; the
operator restarts. Sums wrap.

Left out: admission, adding the finalizer (agents have it), and the periodic
reconciles. What holds without them holds with them, as they are more reconciles.

### McpRegistry and McpDiscovery

`McpRegistry` is the registry seen from one agent: `mem[r]` is its entry in replica
`r`, `cm` in the ConfigMap, `seen[r]` in `r`'s informer cache; an entry is the age of
its HeartbeatAt. An operation ends where it releases the lock; the write of the
ConfigMap that follows is a step of its own and carries the map of that moment.
Operations on other agents' entries write this one as well (`PersistOther`).
`McpDiscovery` adds the reconcile of the leading replica (`pc`, `ad`, `current` for
the resourceVersion), the registrar's counter, the requeue (`due`, at most `Delay`
units late), the agent's health, and the changes of phase by a rollout. Handshakes
are modelled by their outcome (`Initialize`). `vouched` and `steady` are history.

Left out: POSTed entries with a TTL of their own (they live by that TTL), tools and
endpoint of an entry, and the retries of a conflicting write of the ConfigMap
(`PersistFails` is their end).

## Runs

Passing runs (distinct states):

| Run | Checks | Shows |
|---|---|---|
| `base` (54 k) | `TypeOK`, `FailSafeClockInsidePause`, `EvaluatedPromotion`, `TrafficFollowsPlan`, `EvaluatedOnHealedCanary` | with two edits and a fault at any call, evaluation, traffic and promotion follow the plan |
| `lag` (1.9 M) | `RolloutNamesImages`, `EvaluatedPromotion`, `FailSafeClockInsidePause`, `TeardownIsCurrent` | late caches repeat steps and even starts, and leave a child as it was, but lose no image, promote no unevaluated canary, and roll back or promote only the rollout that is recorded |
| `ends` (214 k) | `RolloutNamesImages`, `NoOrphans`, `ProgressOnlyInRollout`, `KeepsLifecycle`, `StableFrozen`, `RolloutEnds`, `AbortEndsRollout`, `RouteHealed` | children deleted, the plan replaced mid-rollout, a fault: the rollout implements `RolloutLifecycle`, ends and is cleaned up; an abort ends it even when promotion cannot |
| `quota` (953 k) | `TypeOK`, `InFlightFits`, `NonIncreasingAdmitted` | two users, finalizers, reconciler, expiry, dry runs, an edited or deleted quota |
| `quota_live` (144 k) | `StatusConverges`, `DeletionCompletes`, `FinalizerAdded` | usage settles at the truth by events alone, across tenant moves, lost requests and restarts; a lowered or deleted quota blocks neither finalizers nor deletion |
| `registry` (724 k) | `TypeOK`, `ListedOnlyIfVouched`, `SteadyIsListed` | two replicas: nobody lists the dead, the leader does not drop the living |
| `registry_live` (127 k) | `HealthyEndsListed`, `UnwantedEndsUnlisted`, `DeletionEnds` | the list converges after rollouts, strikes, lost writes and restarts; deletion ends |
| `scaling` (2.2 M) | `TypeOK`, `SettledCeilings`, `SettledHPA` | once everything is quiet, HPAs and conditions are what the quota says |
| `scaling_live` (343 k) | `Settles` | the two reconcilers do not keep each other busy |

`InFlightFits` is what the mutex gives: among the reservations in force that add to
a dimension, one was made knowing all the others, and fits with them beside the usage
it had read. It does not say that the usage read was current: see `quota_barrier`.

Runs in which a statement of the repository fails (`findings` quotes it):

| Run | Statement | What happens |
|---|---|---|
| `rollback_sticks` | a rollback restores the stable image | the next reconcile deploys `spec.image`, which is the failed image |
| `quota_barrier` | admitted usage never exceeds the quota | the finalizer update replaces the reservation of the create by one of zero |
| `deregistered` | deletion removes the entry from memory and ConfigMap | after a restart the cleanup of a deleted AD may run before the registry is loaded: it finds no entry in memory, the finalizer goes, and the entry stays in the ConfigMap |

The counterexample of `deregistered` has no failed call: the agent is registered and
deleted, the operator restarts, and the reconcile comes before `loadFromConfigMap`. Two
longer behaviours of the model end the same way: `Deregister` deletes the entry
from memory and fails to write the ConfigMap, and its retry finds nothing to delete; or
its write is skipped, because the cached ConfigMap has not yet seen the registration.

### Limits of what holds

* `RolloutEnds` excepts a stable Deployment deleted during a rollout: no reconcile
  recreates it until the rollout ends, and promotion fails without it.
* When the plan is replaced during a rollout `FailSafeClockInsidePause`,
  `EvaluatedPromotion` and `TrafficFollowsPlan` do not hold, as the webhook freezes
  only the image and the step index then points into another plan; so `base` and
  `lag` use one plan.
* `NoOrphans` and `KeepsLifecycle` need caches that have seen the reconciler's own
  writes. With an older one, a reconcile that starts after a rollback heals the
  canary's objects of the rollout that has ended.
* `EvaluatedOnHealedCanary` and `TrafficFollowsPlan` need such caches of the children.
  After an interrupted rollback `CreateOrUpdate` takes an outdated copy of the canary's
  Service for the Service itself and writes nothing; the metrics are then evaluated
  without it, until the copy is updated and a later pass heals it.
* `StableFrozen` needs such caches, too. Let the image of a failed rollout be replaced,
  and edited back while startCanary is under way. The new rollout starts, with an image
  the spec no longer names; a pass on the copy from before the start sees RolloutFailed
  with the failed image, starts no canary and deploys that image. `TeardownIsCurrent` is
  what is left: rollback and promotion, at least, move the stable Deployment as the
  rollout in progress says.
* An image whose rollout failed is rolled out again without an edit when the phase
  passes through Pending or Degraded, because only the phase RolloutFailed holds
  it back.
* A breach is recorded only by the last call of the rollback: if one of the others
  fails, the next pass evaluates anew and may go on.
* `SettledHPA` excepts changes of agents that overlap. If one agent is created while
  another of the same size goes, the counters of the TQ may end as they were; then no
  status is written and no agent woken up, and the HPA of a third one may keep an
  outdated ceiling until its next reconcile. `SettledCeilings`
  holds for all histories.
* `SteadyIsListed` is about the leader, and needs an interval that leaves room for
  the delay (`InTime`). `cmd/main.go` only keeps the interval below the TTL. Followers
  do not see heartbeats at all: their lists run out with the TTL. `steady` ends with an
  admin's DELETE and with the load at the leader's start: that load replaces entries
  which a reconcile has already renewed by older ones from the ConfigMap
  (`internal/registry/registry.go:352`), so an agent may be missing until its next
  heartbeat.
* The registry's liveness is checked with one replica. With two, only
  `ListedOnlyIfVouched` and `SteadyIsListed` watch what a follower's sweeper writes.
* Reservations that expire, shrink or are lost in a restart before the status counts
  their objects let usage exceed the quota, as in `quota_barrier`. `InFlightFits` is
  only about reservations in force, and `StatusConverges` only about the count.

### Bounds

*Canary.* Two images (three, symmetric, in `lag`); a plan of weight 50, a pause and
weight 100, in `ends` also a Recreate with a malformed step, which no rule of the
webhook excludes; two edits or deletions; one fault, which in `lag` may also be an
outdated copy of a child. That is enough for an abort, a retry, an edit
between any two calls and a failure in any rollback or promotion. The pause and the
fail-safe timeout are one tick and the cap on extensions two, so that waiting,
extending and giving up all occur.

*Admission.* Two agents and three clients (two users and the reconciler) make the
smallest quota races; the quota has room for two agents but not for two large ones,
and an edit may lower it below usage or delete it. `quota_live` uses one agent and one
user: the finalizer of an agent does not depend on other agents, and usage is
recomputed from all of them at once. Agents and users are symmetric in `quota`.

*Scaling.* Two agents, symmetric in `scaling`; a small and a large size, a quota for
both and one that a large agent exhausts; `IntMax` 7, so that the usage of two large
agents wraps; two events (edits, deletions, faults) at any moment. Two agents are the
least with a wake-up between them.

*Registry.* Two replicas (symmetric) are the least with a leader and a follower;
`registry_live` has one, which restarts. The TTL is three sweep intervals, the
configured interval does not fit and is halved, a reconcile may be one unit late: the
tightest values with `InTime`. Two events out of edits, health changes, HTTP requests,
faults and crashes; time, sweepers and informers are not bounded. Both runs also pass
with three events, at close to five minutes each.

`CHECK_DEADLOCK FALSE` is set in the runs of `QuotaAdmission` and `QuotaScaling`,
where the system comes to rest once users have used up their requests.

### Fairness

`CanaryRollout`: weak fairness of the worker (a work queue retries failed keys and
honours RequeueAfter), of the informer and of time. Nothing is assumed of Prometheus,
the pods, users or faults; faults are bounded. `QuotaAdmission`: weak fairness of
the webhook and API server, of the finalizer updates (watch events and retries), of the
TQ worker and of the informers, taken together: no client and neither informer is
promised a turn before the other. The periodic requeue is off in `quota_live`, so events
alone must do. `QuotaScaling`: weak fairness of the two workers and of each object's
informer events. `McpDiscovery`: weak fairness of the worker, the informer, the
start-up load, time, and the write that a sweeper or handler owes; not of the sweeper
itself, as expired entries are not listed anyway.

## Proofs

All theorems hold for every value of the constants: any number of images, plans,
agents, replicas, quotas and events. The assumptions are the named ASSUMEs of the
modules, which TLC evaluates in every run, and those stated with a theorem.

### Rollouts

`CanaryRolloutProofs`:

* `TypeCorrect`: `Spec => []TypeOK`.
* `RolloutAlwaysNamed`: `Spec => []RolloutNamesImages`, with any caches. The
  invariant must be carried by the cached copy and by `ad`, and at `startStatus` the
  fetched object has an image and a stable version that no status write erases.
* `CanaryCleanedUp`, `ProgressCleared`, `StableImageFrozen`: `NoOrphans`,
  `ProgressOnlyInRollout` and `StableFrozen`, assuming `~CacheLag`. The inductive
  invariant says that, without lag, the status in the cache and in `ad` are the
  stored one up to the passing of time, so the point in the code determines the
  phase: rollback and promotion points occur only in a rollout, and which of the
  canary's objects are gone follows from the point reached.

`RolloutPlanProofs` first reduces all actions to what they do to the progress of a
rollout (`StatusStep`: keep, start, weigh, wait, advance, end) and to where they take
the reconcile (`PathStep`: stop, read, turn back, go on). Then:

* `CanaryHealedWhenEvaluated`: `[]EvaluatedOnHealedCanary`, assuming `~CacheLag` and
  that nobody deletes the canary's own objects (`Drift`). Deleted between healing and
  evaluation, they would be missed until the next pass. `HealedInv` says what a pass has
  healed at each point, whatever an interrupted rollback or step had undone.
* `PromotionEvaluated`, `FailSafeClockBound`, `TrafficAsPlanned`: `EvaluatedPromotion`,
  `FailSafeClockInsidePause` and `TrafficFollowsPlan`, assuming `~CacheLag` and that
  the plan is not edited while a rollout is starting or in progress (`PlanKept`). The
  webhook does not enforce that; see the limits above. `PlanInv` says that the plan in
  `ad` is the stored one and a valid Canary plan. `Evaluated`: every pause before the
  step index was left by an evaluation. `ClockInv`: the fail-safe clock runs only at a
  pause step. `TrafficInv` says which of the two weights the route has at each point.
* `PromotionEvaluatedLate`, `FailSafeClockBoundLate`, `TeardownAlwaysCurrent`: with any
  caches, if the plan is never edited (`PlanNeverEdited`; a late copy may hold any
  earlier plan). A copy of the AD is at most one update of the status behind, as no update is
  accepted from an outdated copy. `Behind` and `Follows` say what that update can have
  been: an index moved on by one with both clocks stopped, or a rollout started at its
  first step, with the same stable image. Since the index is counted from the copy that
  the pass began with, a late pass repeats a step and skips none; and since promotion is
  past the first step, its canary is the one recorded.

`RolloutLifecycleProofs`: `LifecycleKept`, `Spec => KeepsLifecycle`, assuming
`~CacheLag`. To the invariant above it adds which image the stable Deployment has at
the points after a rollback or promotion moved it (`LiveInv`). Every call of the
reconcile is then shown to be a step of `RolloutLifecycle` or none.

### Quotas

`SumTheorems`: the sums over agents are a recursive function on finite sets
(`SumFunctionOnSet`). That it exists, takes out an element, agrees for equal summands
and is monotone and bounded is proved there, by a least counterexample among the
subsets of a finite set; so are the facts on remainders that int32 wrapping needs.

`QuotaAdmissionProofs`:

* `TypeCorrect`: `Spec => []TypeOK`, whatever overflows.
* `CorrectionsAdmitted`: `Spec => []NonIncreasingAdmitted`, from the same invariant and
  the arithmetic of the quota rules.
* `InFlightRequestsFit`: `Spec => []InFlightFits`, if the charges of all agents add up
  to an int32 (`NoOverflow`). `InFlightFits` is not inductive: when the reservation that
  knew all others expires, another one must take its place. `FitInv` says it of every
  nonempty set of growing reservations, so removing one leaves a statement that was
  there before, and a new one is the witness of all sets it is in.

`QuotaScalingProofs`:

* `TypeCorrect`: `Spec => []TypeOK`, from lemmas on wrapping, headroom and `BuildHPA`.
* `CeilingsReached`: `Spec => []SettledCeilings`, if the maxima of the agents next to
  any agent add up to an int32 (`SumsFit`). Being settled says nothing of the
  states before, so the inductive invariant speaks of all of them: an agent has a
  reconcile or an event to come (`Pending`), or the reconcile under way will leave it
  right (`OnCourse`), or it is right (`Good`), and a copy that is not late is the
  object (`CacheOK`).

`QuotaSettlingProofs`: `HPAsSettle`, `Spec => []SettledHPA`, with `SumsFit`. An HPA is
right when the other agents' maxima are those it was computed from, and an agent learns
of a change of them only when the counters in the TQ's status change. The proof has
three layers:

* `BaseInv`, in all histories: a deleted agent will be reconciled, and wrong counters
  will be corrected.
* `CalmInv`, while every change found everything at rest: one agent only differs from
  what the informer has seen (`OneChange`), and if the others' load is not what the
  copies say, the counters are wrong, so the TQ has another event to come (`LoadInv`,
  `WorkInv`). Counters that differ in one agent's share cannot agree: the share is less
  than 2^32, so even a wrapped sum shows it.
* `ExactInv`: every agent has an event or a reconcile to come, also one caused by the
  TQ's next event (`Due`), or the reconcile under way has the right headroom
  (`RightCourse`), or its HPA is right (`Right`).

### Registry

`McpDiscoveryProofs`:

* `TypeCorrect`: `Spec => []TypeOK`.
* `NeverListsTheDead`: `Spec => []ListedOnlyIfVouched`. No copy of an entry, in any
  memory, cache or in the ConfigMap, is younger than the last handshake (`VouchInv`).
* `NeverDropsTheLiving`: `Spec => []SteadyIsListed`, assuming `InTime`. While the
  agent is steady, the age of the leader's entry and the time to the next requeue add
  up to no more than interval and delay allow (`SteadyInv`), which rests on what a
  reconcile under way carries along (`FlightInv`). What ends `steady` is listed with the
  limits above.

### Only model-checked

Liveness (`RolloutEnds`, `AbortEndsRollout`, `RouteHealed`, `StatusConverges`,
`DeletionCompletes`, `FinalizerAdded`, `HealthyEndsListed`, `UnwantedEndsUnlisted`,
`DeletionEnds`, `Settles`), as fairness is out of the prover's reach. Every safety
property that a passing run checks is proved, under the hypotheses given here.

## Not modelled

* Prometheus client, JSON-RPC and HTTP encoding, CRD detection: stateless; their
  outcomes are inputs of the modules.
* Defaulting and the stateless validation rules (minimum and maximum, unique tool
  names, canary steps beyond what a rollout reads).
* Service, ServiceMonitor, replica counts and the conditions other than QuotaLimited
  and OverQuota: written by upserts that nothing else reads.
* Query texts and number formats: `Evaluate` is modelled by the outcomes of its
  queries. A NaN counts as one of them, within the threshold; an empty result is an
  error (`internal/metrics/prometheus.go:190`).
* Metrics, traces, logs, flag parsing, generated code, charts.
