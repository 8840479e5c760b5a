---------------------------- MODULE QuotaAdmission ----------------------------
(***************************************************************************)
(* Quota admission of AgentDeployments: the validating webhook with the    *)
(* enforcer's in-flight reservations, the finalizer updates of the         *)
(* AgentDeployment reconciler, which pass through the same webhook, and the *)
(* TenantQuota reconciler that turns stored objects into usage counters.   *)
(*                                                                         *)
(* An admission request runs in three steps, interleaved with the others:  *)
(* the webhook reads the TenantQuota; the enforcer checks and reserves     *)
(* under its mutex; the API server stores the object.  A reservation lasts *)
(* until it is released, overwritten, or expires.  The webhook reads the   *)
(* API server; the reconcilers read informer caches.                       *)
(***************************************************************************)
EXTENDS Integers, FiniteSets, Functions

CONSTANTS
  Agents,       \* names of AgentDeployments
  Tenants,      \* names of TenantQuotas, all in one namespace
  None,         \* no object, no entry, no request
  Specs,        \* [tenant, gpus, max]: the specs users write (gpus per replica)
  Quotas,       \* [agents, gpus, replicas, perAgent]: the TenantQuota specs
  Users,        \* clients with one request under way each
  Reconciler,   \* the AgentDeployment reconciler, a client too
  IntMax,       \* math.MaxInt32
  Periodic,     \* is the five-minute requeue taken?
  MayExpire,    \* may a reservation outlive its five seconds?
  MaxRequests,  \* bound on requests of users
  MaxEvents     \* bound on edits of quotas and faults

Dims == {"agents", "gpus", "replicas"}

ASSUME SpecsAssumption ==
  /\ Specs \subseteq [tenant : Tenants, gpus : Nat, max : 1..IntMax]
  /\ Quotas \subseteq [agents : 1..IntMax, gpus : 0..IntMax, replicas : 1..IntMax,
                       perAgent : 1..IntMax]
  /\ Reconciler \notin Users
  /\ IntMax \in Nat \ {0}
  /\ MaxRequests \in Nat /\ MaxEvents \in Nat
  /\ Periodic \in BOOLEAN /\ MayExpire \in BOOLEAN
  /\ IsFiniteSet(Agents)

VARIABLES
  ads,          \* the stored AgentDeployments
  seenADs,      \* the informer's copy of them
  staleADs,     \* the agents whose copy is outdated
  tqs,          \* the stored TenantQuotas: [quota, status]
  seenTQs, staleTQs,
  reservations, \* Enforcer.reservations
  requests,     \* the admission request of each client
  worker,       \* the TenantQuota reconcile under way
  queue,        \* its work queue
  done          \* requests, quota edits and faults so far

vars == <<ads, seenADs, staleADs, tqs, seenTQs, staleTQs, reservations, requests,
          worker, queue, done>>
caches == <<seenADs, staleADs, seenTQs, staleTQs>>

Clients == Users \cup {Reconciler}
Usages == [Dims -> -(IntMax + 1)..IntMax]
ADs == [spec : Specs, finalizer : BOOLEAN, deleting : BOOLEAN]
Statuses == [used : Usages, over : BOOLEAN]
TQs == [quota : Quotas, status : Statuses]

\* tq and shrinks are history: the TenantQuota the admission was based on, and
\* what reservations of shrinking objects then seemed to have freed.
Entries == [delta : Usages, expired : BOOLEAN, tq : TQs, shrinks : Usages]

\* A request to replace old by new.  current: nobody wrote the object since.
Requests ==
  [agent : Agents, old : ADs \cup {None}, new : ADs, tq : TQs \cup {None},
   at : {"check", "admitted"}, dryRun : BOOLEAN, current : BOOLEAN]

NoUsage == [d \in Dims |-> 0]

\* int32 arithmetic.
Int32(n) == ((n + IntMax + 1) % (2 * (IntMax + 1))) - (IntMax + 1)

Column(f, d) == [x \in DOMAIN f |-> f[x][d]]

\* The sum of a function from a finite set to usages.
Total(f) == [d \in Dims |-> Int32(SumFunctionOnSet(Column(f, d), DOMAIN f))]

-----------------------------------------------------------------------------
(* The enforcer's arithmetic.                                              *)

gpusForAD(s) == IF s.gpus * s.max > IntMax THEN IntMax ELSE s.gpus * s.max

Charge(s) == [agents |-> 1, gpus |-> gpusForAD(s), replicas |-> s.max]

ComputeUsage(objs, t) ==
  Total([a \in {x \in Agents : objs[x] # None /\ objs[x].spec.tenant = t} |->
           Charge(objs[a].spec)])

\* Mutant: an update is charged in full, as if the object were new.
MutUpdateIsCreate(new, old) == FALSE

sameTenantUpdate(new, old) == old # None /\ new.spec.tenant = old.spec.tenant

\* An object new to its tenant is charged in full, an update by the difference.
computeDelta(new, old) ==
  IF sameTenantUpdate(new, old)
    THEN [d \in Dims |-> Charge(new.spec)[d] - Charge(old.spec)[d]]
    ELSE Charge(new.spec)

\* Mutant: an update is held to the limits whether or not it adds usage.
MutUpdateBlocked(tq, inFlight, new, old) ==
  /\ computeDelta(new, old)["gpus"] # IntMax
  /\ \A d \in Dims : tq.status.used[d] + inFlight[d] + computeDelta(new, old)[d] <= tq.quota[d]
  /\ new.spec.max <= tq.quota.perAgent

\* An update of the same tenant is refused only in what it increases.
evalQuotaRules(tq, inFlight, new, old) ==
  LET delta == computeDelta(new, old)
      isUpdate == sameTenantUpdate(new, old)
  IN  /\ delta["gpus"] # IntMax
      /\ \A d \in Dims :
           tq.status.used[d] + inFlight[d] + delta[d] > tq.quota[d] =>
             isUpdate /\ delta[d] <= 0
      /\ new.spec.max > tq.quota.perAgent => isUpdate /\ new.spec.max <= old.spec.max

IsOverQuota(quota, used) == \E d \in Dims : used[d] > quota[d]

InFlight == {a \in Agents : reservations[a] # None /\ ~reservations[a].expired}

\* Mutant: every request finds the reservations of the others gone.
MutInflightForgotten(key) == NoUsage

\* The entries of all tenants count, that of the object itself does not.
sumInflight(key) == Total([a \in InFlight \ {key} |-> reservations[a].delta])

-----------------------------------------------------------------------------
(* Admission: read the TenantQuota, check and reserve, store.              *)

\* Mutant: the update that strips the finalizer is checked like any other.
MutAlwaysValidated(new) == TRUE

\* A deleted object is only updated to strip its finalizer: let it pass.
Validated(new) == ~new.deleting

\* Mutant: a TenantQuota that is not found is no error.
MutUnknownTenant(c, a, new, dryRun) ==
  /\ requests[c] = None
  /\ requests' = [requests EXCEPT ![c] =
       [agent |-> a, old |-> ads[a], new |-> new, tq |-> tqs[new.spec.tenant],
        at |-> IF Validated(new) THEN "check" ELSE "admitted",
        dryRun |-> dryRun, current |-> TRUE]]

\* The API server calls the webhook, which refuses an unknown tenant.
Submit(c, a, new, dryRun) ==
  /\ requests[c] = None
  /\ Validated(new) => tqs[new.spec.tenant] # None
  /\ requests' = [requests EXCEPT ![c] =
       [agent |-> a, old |-> ads[a], new |-> new, tq |-> tqs[new.spec.tenant],
        at |-> IF Validated(new) THEN "check" ELSE "admitted",
        dryRun |-> dryRun, current |-> TRUE]]

UserRequest(c) ==
  \E a \in Agents, s \in Specs, dryRun \in BOOLEAN :
    /\ done.requests < MaxRequests /\ done' = [done EXCEPT !.requests = @ + 1]
    /\ ads[a] # None => s # ads[a].spec
    /\ Submit(c, a, IF ads[a] = None
                      THEN [spec |-> s, finalizer |-> FALSE, deleting |-> FALSE]
                      ELSE [ads[a] EXCEPT !.spec = s], dryRun)
    /\ UNCHANGED <<ads, caches, tqs, reservations, worker, queue>>

\* The reconciler updates the copy it read, so an outdated one is a conflict.
AddFinalizer ==
  \E a \in Agents \ staleADs :
    /\ seenADs[a] # None /\ ~seenADs[a].deleting /\ ~seenADs[a].finalizer
    /\ Submit(Reconciler, a, [seenADs[a] EXCEPT !.finalizer = TRUE], FALSE)
    /\ UNCHANGED <<ads, caches, tqs, reservations, worker, queue, done>>

RemoveFinalizer ==
  \E a \in Agents \ staleADs :
    /\ seenADs[a] # None /\ seenADs[a].deleting /\ seenADs[a].finalizer
    /\ Submit(Reconciler, a, [seenADs[a] EXCEPT !.finalizer = FALSE], FALSE)
    /\ UNCHANGED <<ads, caches, tqs, reservations, worker, queue, done>>

\* The part of the in-flight sum that is negative.
Shrinks(key) ==
  Total([a \in InFlight \ {key} |->
           [d \in Dims |-> IF reservations[a].delta[d] < 0 THEN reservations[a].delta[d] ELSE 0]])

\* One critical section.  A dry run is checked (CanAdmit) and reserves nothing.
AdmitAndReserve(c) ==
  LET r == requests[c]
  IN  /\ r # None /\ r.at = "check"
      /\ IF evalQuotaRules(r.tq, sumInflight(r.agent), r.new, r.old) /\ ~r.dryRun
           THEN /\ reservations' = [reservations EXCEPT ![r.agent] =
                     [delta |-> computeDelta(r.new, r.old), expired |-> FALSE,
                      tq |-> r.tq, shrinks |-> Shrinks(r.agent)]]
                /\ requests' = [requests EXCEPT ![c].at = "admitted"]
           ELSE /\ requests' = [requests EXCEPT ![c] = None]
                /\ UNCHANGED reservations
      /\ UNCHANGED <<ads, caches, tqs, worker, queue, done>>

\* Every write of an object outdates the requests that started from it.
Outdated(a) ==
  [c \in Clients |-> IF requests[c] # None /\ requests[c].agent = a
                       THEN [requests[c] EXCEPT !.current = FALSE] ELSE requests[c]]

\* The API server stores the object, or drops it with its last finalizer.
Persist(c) ==
  LET r == requests[c]
  IN  /\ r # None /\ r.at = "admitted" /\ r.current /\ ~r.dryRun
      /\ ads' = [ads EXCEPT ![r.agent] = IF r.new.deleting /\ ~r.new.finalizer THEN None ELSE r.new]
      /\ staleADs' = staleADs \cup {r.agent}
      /\ requests' = [Outdated(r.agent) EXCEPT ![c] = None]
      /\ UNCHANGED <<seenADs, tqs, seenTQs, staleTQs, reservations, worker, queue, done>>

\* The object changed meanwhile, or the request was a dry run.
Discard(c) ==
  LET r == requests[c]
  IN  /\ r # None /\ r.at = "admitted" /\ (~r.current \/ r.dryRun)
      /\ requests' = [requests EXCEPT ![c] = None]
      /\ UNCHANGED <<ads, caches, tqs, reservations, worker, queue, done>>

UserDelete ==
  \E a \in Agents :
    /\ ads[a] # None /\ ~ads[a].deleting
    /\ done.requests < MaxRequests /\ done' = [done EXCEPT !.requests = @ + 1]
    /\ ads' = [ads EXCEPT ![a] = IF @.finalizer THEN [@ EXCEPT !.deleting = TRUE] ELSE None]
    /\ staleADs' = staleADs \cup {a}
    /\ requests' = Outdated(a)
    /\ UNCHANGED <<seenADs, tqs, seenTQs, staleTQs, reservations, worker, queue>>

-----------------------------------------------------------------------------
(* Reservations that nobody releases.                                      *)

Expire ==
  \E a \in InFlight :
    /\ MayExpire
    /\ reservations' = [reservations EXCEPT ![a].expired = TRUE]
    /\ UNCHANGED <<ads, caches, tqs, requests, worker, queue, done>>

sweepExpired ==
  /\ \E a \in Agents : reservations[a] # None /\ reservations[a].expired
  /\ reservations' = [a \in Agents |-> IF a \in InFlight THEN reservations[a] ELSE None]
  /\ UNCHANGED <<ads, caches, tqs, requests, worker, queue, done>>

-----------------------------------------------------------------------------
(* The TenantQuota reconciler: one worker.                                 *)

\* Fetch and list, from the caches.
ListADs ==
  \E t \in queue :
    /\ worker = None
    /\ queue' = queue \ {t}
    /\ worker' = IF seenTQs[t] = None THEN None
                 ELSE [tenant |-> t, used |-> ComputeUsage(seenADs, t),
                       release |-> {a \in Agents : seenADs[a] # None /\ seenADs[a].spec.tenant = t}]
    /\ UNCHANGED <<ads, caches, tqs, reservations, requests, done>>

Release ==
  /\ worker # None
  /\ \E a \in worker.release :
       /\ reservations' = [reservations EXCEPT ![a] = None]
       /\ worker' = [worker EXCEPT !.release = @ \ {a}]
  /\ UNCHANGED <<ads, caches, tqs, requests, queue, done>>

DerivedStatus(latest, used) == [used |-> used, over |-> IsOverQuota(latest.quota, used)]

\* Re-fetch, from the cache, and write the status if it changed.
UpdateStatus ==
  /\ worker # None /\ worker.release = {}
  /\ worker' = None
  /\ LET t == worker.tenant
         latest == seenTQs[t]
         changed == latest # None /\ latest.status # DerivedStatus(latest, worker.used)
     IN  \/ ~changed /\ UNCHANGED <<tqs, staleTQs, queue>>
         \/ /\ changed /\ t \notin staleTQs
            /\ tqs' = [tqs EXCEPT ![t].status = DerivedStatus(latest, worker.used)]
            /\ staleTQs' = staleTQs \cup {t}
            /\ UNCHANGED queue
         \/ /\ changed /\ t \in staleTQs
            /\ queue' = queue \cup {t}
            /\ UNCHANGED <<tqs, staleTQs>>
  /\ UNCHANGED <<ads, seenADs, staleADs, seenTQs, reservations, requests, done>>

Requeue ==
  /\ Periodic
  /\ \E t \in Tenants \ queue : seenTQs[t] # None /\ queue' = queue \cup {t}
  /\ UNCHANGED <<ads, caches, tqs, reservations, requests, worker, done>>

\* Mutant: only the new version of an object is mapped to its tenant.
MutOldTenantMissed(a) == {ads[a].spec.tenant : x \in {ads[a]} \ {None}}

\* The tenants an event of agent a is mapped to: of its old and its new version.
enqueueTenantQuota(a) == {x.spec.tenant : x \in {seenADs[a], ads[a]} \ {None}}

SyncADs ==
  /\ staleADs # {}
  /\ seenADs' = ads /\ staleADs' = {}
  /\ queue' = queue \cup UNION {enqueueTenantQuota(a) : a \in staleADs}
  /\ UNCHANGED <<ads, tqs, seenTQs, staleTQs, reservations, requests, worker, done>>

SyncTQs ==
  /\ staleTQs # {}
  /\ seenTQs' = tqs /\ staleTQs' = {}
  /\ queue' = queue \cup staleTQs
  /\ UNCHANGED <<ads, seenADs, staleADs, tqs, reservations, requests, worker, done>>

-----------------------------------------------------------------------------
(* Users edit quotas; requests and reconciles fail; the operator restarts. *)

EditQuota ==
  \E t \in Tenants, q \in Quotas \cup {None} :
    /\ done.edits + done.faults < MaxEvents /\ done' = [done EXCEPT !.edits = @ + 1]
    /\ tqs' = [tqs EXCEPT ![t] =
         IF q = None THEN None
         ELSE [quota |-> q, status |-> IF @ = None THEN [used |-> NoUsage, over |-> FALSE]
                                                   ELSE @.status]]
    /\ tqs' # tqs
    /\ staleTQs' = staleTQs \cup {t}
    /\ UNCHANGED <<ads, seenADs, staleADs, seenTQs, reservations, requests, worker, queue>>

Failing == done.edits + done.faults < MaxEvents /\ done' = [done EXCEPT !.faults = @ + 1]

RequestLost(c) ==
  /\ requests[c] # None /\ Failing
  /\ requests' = [requests EXCEPT ![c] = None]
  /\ UNCHANGED <<ads, caches, tqs, reservations, worker, queue>>

ReconcileFails ==
  /\ worker # None /\ Failing
  /\ worker' = None /\ queue' = queue \cup {worker.tenant}
  /\ UNCHANGED <<ads, caches, tqs, reservations, requests>>

\* Reservations and unanswered requests die with the process; what it had
\* already admitted may still be stored.
Restart ==
  /\ Failing
  /\ reservations' = [a \in Agents |-> None]
  /\ requests' = [c \in Clients |-> IF requests[c] # None /\ requests[c].at = "check"
                                      THEN None ELSE requests[c]]
  /\ worker' = None /\ queue' = Tenants
  /\ seenADs' = ads /\ staleADs' = {} /\ seenTQs' = tqs /\ staleTQs' = {}
  /\ UNCHANGED <<ads, tqs>>

-----------------------------------------------------------------------------
Init ==
  /\ ads = [a \in Agents |-> None] /\ seenADs = ads /\ staleADs = {}
  /\ \E q \in Quotas : tqs = [t \in Tenants |-> [quota |-> q, status |-> [used |-> NoUsage, over |-> FALSE]]]
  /\ seenTQs = tqs /\ staleTQs = {}
  /\ reservations = [a \in Agents |-> None]
  /\ requests = [c \in Clients |-> None]
  /\ worker = None /\ queue = Tenants
  /\ done = [requests |-> 0, edits |-> 0, faults |-> 0]

Webhook(c) == AdmitAndReserve(c) \/ Persist(c) \/ Discard(c)

Finalizer == AddFinalizer \/ RemoveFinalizer

TQWorker == ListADs \/ Release \/ UpdateStatus

Next ==
  \/ \E c \in Users : UserRequest(c)
  \/ \E c \in Clients : Webhook(c) \/ RequestLost(c)
  \/ Finalizer \/ TQWorker \/ SyncADs \/ SyncTQs
  \/ UserDelete \/ Expire \/ sweepExpired \/ Requeue
  \/ EditQuota \/ ReconcileFails \/ Restart

Spec == Init /\ [][Next]_vars

\* The API server goes on answering, the work queues are served, the informers
\* catch up: no client and neither informer need be served before the other.
FairSpec ==
  /\ Spec
  /\ WF_vars(\E c \in Clients : Webhook(c)) /\ WF_vars(SyncADs \/ SyncTQs)
  /\ WF_vars(Finalizer) /\ WF_vars(TQWorker)

-----------------------------------------------------------------------------
(* Correctness.                                                            *)

TypeOK ==
  /\ ads \in [Agents -> ADs \cup {None}] /\ seenADs \in [Agents -> ADs \cup {None}]
  /\ staleADs \subseteq Agents
  /\ tqs \in [Tenants -> TQs \cup {None}] /\ seenTQs \in [Tenants -> TQs \cup {None}]
  /\ staleTQs \subseteq Tenants
  /\ reservations \in [Agents -> Entries \cup {None}]
  /\ requests \in [Clients -> Requests \cup {None}]
  /\ \A c \in Clients : requests[c] # None /\ requests[c].at = "check" => requests[c].tq # None
  /\ worker \in [tenant : Tenants, used : Usages, release : SUBSET Agents] \cup {None}
  /\ queue \subseteq Tenants
  /\ done \in [requests : 0..MaxRequests, edits : 0..MaxEvents, faults : 0..MaxEvents]

\* No agent is charged more than Cap, and all agents together not more than an int32.
NoOverflow(Cap) ==
  /\ \A s \in Specs : \A d \in Dims : Charge(s)[d] <= Cap
  /\ Cap * Cardinality(Agents) <= IntMax

\* Check and reservation are one critical section (AdmitAndReserve): of all the
\* requests in flight at one time, however they interleave with releases,
\* expiries, dry runs and restarts, one knew of all the others and found room
\* for them beside the usage it had read and what shrinking objects freed.
InFlightFits ==
  \A d \in Dims :
    LET growing == {a \in InFlight : reservations[a].delta[d] > 0}
        sum == SumFunctionOnSet([a \in growing |-> reservations[a].delta[d]], growing)
    IN  growing # {} =>
          \E a \in growing :
            LET e == reservations[a]
            IN  e.tq.status.used[d] + e.shrinks[d] + sum <= e.tq.quota[d]

\* An update that stays with its tenant and raises neither its GPUs nor its
\* replicas passes the quota rules, even when usage or other requests exceed a
\* quota that was lowered ("otherwise finalizer removal and spec corrections are
\* deadlocked", evalQuotaRules).
NonIncreasingAdmitted ==
  \A c \in Clients :
    LET r == requests[c]
    IN  /\ r # None /\ r.at = "check" /\ sameTenantUpdate(r.new, r.old)
        /\ r.new.spec.max <= r.old.spec.max
        /\ gpusForAD(r.new.spec) <= gpusForAD(r.old.spec)
        => evalQuotaRules(r.tq, sumInflight(r.agent), r.new, r.old)

\* No update of the usage counters is lost: once users, faults and restarts
\* cease, usage and OverQuota of every TenantQuota settle at the truth, by watch
\* events alone, also for the tenant an object has left.
StatusConverges ==
  <>[](\A t \in Tenants : tqs[t] # None =>
         tqs[t].status = DerivedStatus(tqs[t], ComputeUsage(ads, t)))

\* Deletion ends whatever the quota says and whether or not it still exists.
DeletionCompletes ==
  \A a \in Agents : (ads[a] # None /\ ads[a].deleting) ~> ads[a] = None

\* Every object gets its finalizer, over quota or not, while its quota exists.
FinalizerAdded ==
  \A a \in Agents :
    (ads[a] # None /\ ~ads[a].finalizer) ~>
      (ads[a] = None \/ ads[a].finalizer \/ tqs[ads[a].spec.tenant] = None)

-----------------------------------------------------------------------------
(* What the documentation says and the code does not do.                   *)

\* "total admitted replicas and GPU allocations never exceed the configured
\* TenantQuota", as long as nobody changes the quota.
QuotaBarrier ==
  done.edits = 0 =>
    \A t \in Tenants : ~IsOverQuota(tqs[t].quota, ComputeUsage(ads, t))

=============================================================================
