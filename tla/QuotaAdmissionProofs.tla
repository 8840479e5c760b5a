------------------------- MODULE QuotaAdmissionProofs -------------------------
(***************************************************************************)
(* What holds of QuotaAdmission for all agents, tenants, specs, quotas and *)
(* bounds: its types, that non-increasing updates always pass, and that    *)
(* the requests in flight fit the quota one of them was checked against.   *)
(***************************************************************************)
EXTENDS QuotaAdmission, SumTheorems

-----------------------------------------------------------------------------
(* The enforcer's arithmetic.                                              *)

\* int32 arithmetic stays in an int32, and is exact where no overflow occurs.
LEMMA Int32Range ==
  ASSUME NEW i \in Int
  PROVE  Int32(i) \in -(IntMax + 1)..IntMax
  <1> DEFINE n == 2 * (IntMax + 1)
  <1>1. n \in Nat \ {0} /\ i + IntMax + 1 \in Int
    BY SpecsAssumption
  <1>2. (i + IntMax + 1) % n \in 0..(n - 1)
    BY <1>1, ModBound
  <1>3. QED
    BY <1>2, SpecsAssumption DEF Int32

LEMMA Int32Exact ==
  ASSUME NEW i \in -(IntMax + 1)..IntMax
  PROVE  Int32(i) = i
  <1> DEFINE n == 2 * (IntMax + 1)
  <1>1. n \in Nat \ {0} /\ i + IntMax + 1 \in 0..(n - 1)
    BY SpecsAssumption
  <1>2. (i + IntMax + 1) % n = i + IntMax + 1
    BY <1>1, ModSmall
  <1>3. QED
    BY <1>2, SpecsAssumption DEF Int32

\* What one column of a total is.
LEMMA TotalColumn ==
  ASSUME NEW S, IsFiniteSet(S), NEW f, DOMAIN f = S, NEW d \in Dims,
         \A x \in S : f[x][d] \in Int
  PROVE  /\ Total(f)[d] = Int32(SumFunctionOnSet(Column(f, d), S))
         /\ \A x \in S : Column(f, d)[x] = f[x][d]
         /\ SumFunctionOnSet(Column(f, d), S) \in Int
  <1>1. \A x \in S : Column(f, d)[x] = f[x][d]
    BY DEF Column
  <1>2. \A x \in S : Column(f, d)[x] \in Int
    BY <1>1
  <1>3. SumFunctionOnSet(Column(f, d), S) \in Int
    BY <1>2, SumInt
  <1>4. Total(f)[d] = Int32(SumFunctionOnSet(Column(f, d), S))
    BY DEF Total
  <1>5. QED
    BY <1>1, <1>3, <1>4

LEMMA TotalType ==
  ASSUME NEW S, IsFiniteSet(S), NEW f, DOMAIN f = S,
         \A x \in S : \A d \in Dims : f[x][d] \in Int
  PROVE  Total(f) \in Usages
  <1>1. ASSUME NEW d \in Dims PROVE Total(f)[d] \in -(IntMax + 1)..IntMax
    BY TotalColumn, Int32Range
  <1>2. Total(f) = [d \in Dims |-> Total(f)[d]]
    BY DEF Total
  <1> HIDE DEF Total
  <1>3. QED
    BY <1>1, <1>2 DEF Usages

\* gpusForAD is a count between zero and math.MaxInt32, whatever the product.
LEMMA GPUsInRange ==
  ASSUME NEW s \in Specs
  PROVE  gpusForAD(s) \in 0..IntMax
  <1>1. s.gpus \in Nat /\ s.max \in Nat /\ IntMax \in Nat
    BY SpecsAssumption
  <1>2. s.gpus * s.max \in Nat
    BY <1>1
  <1>3. QED
    BY <1>1, <1>2 DEF gpusForAD

LEMMA ChargeType ==
  ASSUME NEW s \in Specs
  PROVE  /\ Charge(s)["agents"] = 1 /\ Charge(s)["gpus"] = gpusForAD(s) /\ Charge(s)["replicas"] = s.max
         /\ \A d \in Dims : Charge(s)[d] \in 0..IntMax
         /\ Charge(s) = [d \in Dims |-> Charge(s)[d]]
  <1>1. /\ Charge(s)["agents"] = 1 /\ Charge(s)["gpus"] = gpusForAD(s)
        /\ Charge(s)["replicas"] = s.max
    BY DEF Charge
  <1>2. 1 \in 0..IntMax /\ s.max \in 0..IntMax
    BY SpecsAssumption
  <1>3. \A d \in Dims : Charge(s)[d] \in 0..IntMax
    BY <1>1, <1>2, GPUsInRange DEF Dims
  <1>4. Charge(s) = [d \in Dims |-> Charge(s)[d]]
    BY DEF Charge, Dims
  <1>5. QED
    BY <1>1, <1>3, <1>4

LEMMA DeltaType ==
  ASSUME NEW new \in ADs, NEW old \in ADs \cup {None}
  PROVE  computeDelta(new, old) \in Usages
  <1>1. new.spec \in Specs /\ (old # None => old.spec \in Specs)
    BY DEF ADs
  <1>2. CASE sameTenantUpdate(new, old)
    <2>1. old.spec \in Specs
      BY <1>1, <1>2 DEF sameTenantUpdate
    <2>2. computeDelta(new, old) = [d \in Dims |-> Charge(new.spec)[d] - Charge(old.spec)[d]]
      BY <1>2 DEF computeDelta
    <2>3. \A d \in Dims : Charge(new.spec)[d] \in 0..IntMax /\ Charge(old.spec)[d] \in 0..IntMax
      BY <1>1, <2>1, ChargeType
    <2>4. \A d \in Dims : Charge(new.spec)[d] - Charge(old.spec)[d] \in -(IntMax + 1)..IntMax
      BY <2>3, SpecsAssumption
    <2>5. QED
      BY <2>2, <2>4 DEF Usages
  <1>3. CASE ~sameTenantUpdate(new, old)
    <2>1. computeDelta(new, old) = Charge(new.spec)
      BY <1>3 DEF computeDelta
    <2>2. \A d \in Dims : Charge(new.spec)[d] \in -(IntMax + 1)..IntMax
      BY <1>1, ChargeType, SpecsAssumption
    <2>3. Charge(new.spec) = [d \in Dims |-> Charge(new.spec)[d]]
      BY <1>1, ChargeType
    <2>4. QED
      BY <2>1, <2>2, <2>3 DEF Usages
  <1>4. QED
    BY <1>2, <1>3

\* evalQuotaRules lets pass every update of the same tenant that raises neither
\* GPUs nor replicas, whatever the quota, the usage and the requests in flight.
LEMMA NonIncreasingPasses ==
  ASSUME NEW old \in ADs, NEW new \in ADs, NEW tq, NEW inFlight,
         sameTenantUpdate(new, old),
         new.spec.max <= old.spec.max,
         gpusForAD(new.spec) <= gpusForAD(old.spec)
  PROVE  evalQuotaRules(tq, inFlight, new, old)
  <1> DEFINE delta == computeDelta(new, old)
  <1>1. /\ new.spec.max \in Int /\ old.spec.max \in Int
        /\ gpusForAD(new.spec) \in Int /\ gpusForAD(old.spec) \in Int /\ IntMax \in Int /\ IntMax > 0
    BY GPUsInRange, SpecsAssumption DEF ADs
  <1>2. delta = [d \in Dims |-> Charge(new.spec)[d] - Charge(old.spec)[d]]
    BY DEF computeDelta
  <1>3. /\ delta["agents"] = 1 - 1
        /\ delta["gpus"] = gpusForAD(new.spec) - gpusForAD(old.spec)
        /\ delta["replicas"] = new.spec.max - old.spec.max
    BY <1>2 DEF Charge, Dims
  <1> HIDE DEF delta
  <1>4. delta["agents"] <= 0 /\ delta["gpus"] <= 0 /\ delta["replicas"] <= 0
    BY <1>1, <1>3
  <1>5. \A d \in Dims : delta[d] <= 0
    BY <1>4 DEF Dims
  <1>6. delta["gpus"] # IntMax
    BY <1>1, <1>3
  <1>7. QED
    BY <1>5, <1>6 DEF evalQuotaRules, delta

-----------------------------------------------------------------------------
(* Types.  A status is written to the stored TenantQuota when the copy it  *)
(* was computed from is up to date: so the copies must be right where they *)
(* are not marked stale.                                                   *)

ADMap == [Agents -> ADs \cup {None}]
TQMap == [Tenants -> TQs \cup {None}]
EntryMap == [Agents -> Entries \cup {None}]
Jobs == [tenant : Tenants, used : Usages, release : SUBSET Agents]

RequestsOK(rs) ==
  /\ rs \in [Clients -> Requests \cup {None}]
  /\ \A c \in Clients : rs[c] # None /\ rs[c].at = "check" => rs[c].tq # None

TypeInv == TypeOK /\ \A t \in Tenants \ staleTQs : seenTQs[t] = tqs[t]

LEMMA TypeParts ==
  ASSUME TypeInv
  PROVE  /\ ads \in ADMap /\ seenADs \in ADMap /\ tqs \in TQMap /\ seenTQs \in TQMap
         /\ reservations \in EntryMap /\ RequestsOK(requests) /\ worker \in Jobs \cup {None}
         /\ \A t \in Tenants \ staleTQs : seenTQs[t] = tqs[t]
  BY DEF TypeInv, TypeOK, ADMap, TQMap, EntryMap, RequestsOK, Jobs

LEMMA InFlightFinite ==
  /\ IsFiniteSet(InFlight) /\ InFlight \subseteq Agents
  /\ \A S \in SUBSET InFlight : IsFiniteSet(S) /\ Cardinality(S) <= Cardinality(Agents)
  BY FS_Subset, SpecsAssumption DEF InFlight

LEMMA SomeTQ ==
  ASSUME NEW q \in Quotas
  PROVE  [quota |-> q, status |-> [used |-> NoUsage, over |-> FALSE]] \in TQs
  <1>1. NoUsage \in Usages
    BY SpecsAssumption DEF NoUsage, Usages
  <1>2. QED
    BY <1>1 DEF TQs, Statuses

LEMMA InitType == Init => TypeInv
  <1> SUFFICES ASSUME Init PROVE TypeInv
    OBVIOUS
  <1>1. tqs \in TQMap /\ seenTQs = tqs
    <2>1. PICK q \in Quotas :
            tqs = [t \in Tenants |-> [quota |-> q, status |-> [used |-> NoUsage, over |-> FALSE]]]
      BY DEF Init
    <2>2. QED
      BY <2>1, SomeTQ DEF Init, TQMap
  <1>2. RequestsOK(requests)
    BY DEF Init, RequestsOK
  <1>3. done \in [requests : 0..MaxRequests, edits : 0..MaxEvents, faults : 0..MaxEvents]
    BY SpecsAssumption DEF Init
  <1>4. QED
    BY <1>1, <1>2, <1>3 DEF Init, TypeInv, TypeOK, TQMap, RequestsOK

\* Submit keeps requests well formed.
LEMMA SubmitType ==
  ASSUME TypeInv, NEW c \in Clients, NEW a \in Agents, NEW new \in ADs, NEW dry \in BOOLEAN,
         Submit(c, a, new, dry)
  PROVE  RequestsOK(requests')
  <1> DEFINE at == IF Validated(new) THEN "check" ELSE "admitted"
             r == [agent |-> a, old |-> ads[a], new |-> new, tq |-> tqs[new.spec.tenant],
                   at |-> at, dryRun |-> dry, current |-> TRUE]
  <1>1. requests' = [requests EXCEPT ![c] = r]
    BY DEF Submit
  <1>2. new.spec.tenant \in Tenants
    BY SpecsAssumption DEF ADs
  <1>3. ads[a] \in ADs \cup {None} /\ tqs[new.spec.tenant] \in TQs \cup {None}
    BY <1>2, TypeParts DEF ADMap, TQMap
  <1>4. at \in {"check", "admitted"} /\ (at = "check" => tqs[new.spec.tenant] # None)
    BY DEF Submit
  <1> HIDE DEF at
  <1>5. r \in Requests /\ r.at = at /\ r.tq = tqs[new.spec.tenant]
    BY <1>3, <1>4 DEF Requests
  <1> HIDE DEF r
  <1>6. QED
    BY <1>1, <1>4, <1>5, TypeParts DEF RequestsOK

\* Ending, advancing and outdating requests keeps them well formed.
LEMMA EndType ==
  ASSUME NEW rs, RequestsOK(rs), NEW c
  PROVE  RequestsOK([rs EXCEPT ![c] = None])
  BY DEF RequestsOK

LEMMA OutdatedType ==
  ASSUME TypeInv, NEW a
  PROVE  RequestsOK(Outdated(a))
  <1>1. ASSUME NEW k \in Clients
        PROVE  /\ Outdated(a)[k] \in Requests \cup {None}
               /\ Outdated(a)[k] # None /\ Outdated(a)[k].at = "check" => Outdated(a)[k].tq # None
    <2>1. CASE requests[k] # None /\ requests[k].agent = a
      <3> DEFINE o == [requests[k] EXCEPT !.current = FALSE]
      <3>1. Outdated(a)[k] = o
        BY <2>1 DEF Outdated
      <3>2. requests[k] \in Requests
        BY <2>1, TypeParts DEF RequestsOK
      <3>3. o \in Requests /\ o.at = requests[k].at /\ o.tq = requests[k].tq
        BY <3>2 DEF Requests
      <3> HIDE DEF o
      <3>4. QED
        BY <2>1, <3>1, <3>3, TypeParts DEF RequestsOK
    <2>2. CASE ~(requests[k] # None /\ requests[k].agent = a)
      <3>1. Outdated(a)[k] = requests[k]
        BY <2>2 DEF Outdated
      <3>2. QED
        BY <3>1, TypeParts DEF RequestsOK
    <2>3. QED
      BY <2>1, <2>2
  <1>2. Outdated(a) = [k \in Clients |-> Outdated(a)[k]]
    BY DEF Outdated
  <1> HIDE DEF Outdated
  <1>3. QED
    BY <1>1, <1>2 DEF RequestsOK

\* What the reconciler and the enforcer add up is a usage.
LEMMA UsageType ==
  ASSUME NEW objs \in ADMap, NEW t
  PROVE  ComputeUsage(objs, t) \in Usages
  <1> DEFINE S == {x \in Agents : objs[x] # None /\ objs[x].spec.tenant = t}
             f == [a \in S |-> Charge(objs[a].spec)]
  <1>1. IsFiniteSet(S)
    BY FS_Subset, SpecsAssumption
  <1>2. ASSUME NEW x \in S, NEW d \in Dims PROVE f[x][d] \in Int
    <2>1. objs[x].spec \in Specs
      BY DEF ADMap, ADs
    <2>2. QED
      BY <2>1, ChargeType, SpecsAssumption
  <1>3. DOMAIN f = S /\ ComputeUsage(objs, t) = Total(f)
    BY DEF ComputeUsage
  <1> HIDE DEF f, S
  <1>4. QED
    BY <1>1, <1>2, <1>3, TotalType

LEMMA ShrinksType ==
  ASSUME TypeInv, NEW k
  PROVE  Shrinks(k) \in Usages
  <1> DEFINE S == InFlight \ {k}
             f == [a \in S |->
                     [d \in Dims |-> IF reservations[a].delta[d] < 0 THEN reservations[a].delta[d] ELSE 0]]
  <1>1. IsFiniteSet(S)
    BY InFlightFinite
  <1>2. ASSUME NEW x \in S, NEW d \in Dims PROVE f[x][d] \in Int
    <2>1. reservations[x] \in Entries
      BY TypeParts DEF EntryMap, InFlight
    <2>2. reservations[x].delta[d] \in Int
      BY <2>1, SpecsAssumption DEF Entries, Usages
    <2>3. QED
      BY <2>2
  <1>3. DOMAIN f = S /\ Shrinks(k) = Total(f)
    BY DEF Shrinks
  <1> HIDE DEF f, S
  <1>4. QED
    BY <1>1, <1>2, <1>3, TotalType

\* A reservation carries what AdmitAndReserve was given and found.
LEMMA ReserveType ==
  ASSUME TypeInv, NEW c \in Clients, AdmitAndReserve(c)
  PROVE  RequestsOK(requests') /\ reservations' \in EntryMap
  <1> DEFINE r == requests[c]
  <1>1. r \in Requests /\ r.at = "check" /\ r.tq \in TQs
    <2>1. r \in Requests /\ r.at = "check" /\ r.tq # None
      BY TypeParts DEF AdmitAndReserve, RequestsOK
    <2>2. QED
      BY <2>1 DEF Requests
  <1>2. CASE requests' = [requests EXCEPT ![c] = None] /\ reservations' = reservations
    BY <1>2, EndType, TypeParts
  <1>3. CASE /\ reservations' = [reservations EXCEPT ![r.agent] =
                  [delta |-> computeDelta(r.new, r.old), expired |-> FALSE,
                   tq |-> r.tq, shrinks |-> Shrinks(r.agent)]]
             /\ requests' = [requests EXCEPT ![c].at = "admitted"]
    <2> DEFINE e == [delta |-> computeDelta(r.new, r.old), expired |-> FALSE,
                     tq |-> r.tq, shrinks |-> Shrinks(r.agent)]
               o == [r EXCEPT !.at = "admitted"]
    <2>1. o \in Requests /\ o.at = "admitted" /\ requests' = [requests EXCEPT ![c] = o]
      BY <1>1, <1>3 DEF Requests
    <2>2. computeDelta(r.new, r.old) \in Usages
      BY <1>1, DeltaType DEF Requests
    <2>3. e \in Entries /\ r.agent \in Agents
      BY <1>1, <2>2, ShrinksType DEF Entries, Requests
    <2>4. reservations' = [reservations EXCEPT ![r.agent] = e]
      BY <1>3
    <2> HIDE DEF e, o, r
    <2>5. reservations' \in EntryMap
      BY <2>3, <2>4, TypeParts DEF EntryMap
    <2>6. RequestsOK(requests')
      BY <2>1, TypeParts DEF RequestsOK
    <2>7. QED
      BY <2>5, <2>6
  <1>4. QED
    BY <1>2, <1>3 DEF AdmitAndReserve

\* UpdateStatus writes to an object that still exists.
LEMMA StatusType ==
  ASSUME TypeInv, UpdateStatus
  PROVE  /\ tqs' \in TQMap /\ staleTQs' \subseteq Tenants /\ queue' \subseteq Tenants
         /\ \A t \in Tenants \ staleTQs' : seenTQs[t] = tqs'[t]
  <1> DEFINE t == worker.tenant
             st == DerivedStatus(seenTQs[t], worker.used)
  <1>1. worker \in Jobs /\ t \in Tenants /\ worker.used \in Usages
    BY TypeParts DEF UpdateStatus, Jobs
  <1>2. CASE tqs' = tqs /\ staleTQs' = staleTQs /\ queue' \in {queue, queue \cup {t}}
    BY <1>1, <1>2 DEF TypeInv, TypeOK, TQMap
  <1>3. CASE /\ seenTQs[t] # None /\ t \notin staleTQs
             /\ tqs' = [tqs EXCEPT ![t].status = st]
             /\ staleTQs' = staleTQs \cup {t} /\ queue' = queue
    <2>1. tqs[t] \in TQs
      BY <1>1, <1>3, TypeParts DEF TQMap
    <2>2. st \in Statuses
      BY <1>1 DEF DerivedStatus, Statuses, IsOverQuota
    <2>3. [tqs[t] EXCEPT !.status = st] \in TQs
      BY <2>1, <2>2 DEF TQs
    <2>4. tqs' = [tqs EXCEPT ![t] = [tqs[t] EXCEPT !.status = st]]
      BY <1>3
    <2> HIDE DEF st, t
    <2>5. tqs' \in TQMap
      BY <1>1, <2>3, <2>4, TypeParts DEF TQMap
    <2>6. \A u \in Tenants \ staleTQs' : seenTQs[u] = tqs'[u]
      BY <1>3, <2>4, TypeParts DEF TQMap
    <2>7. staleTQs' \subseteq Tenants /\ queue' \subseteq Tenants
      BY <1>1, <1>3 DEF TypeInv, TypeOK
    <2>8. QED
      BY <2>5, <2>6, <2>7
  <1>4. QED
    BY <1>2, <1>3 DEF UpdateStatus

LEMMA QuotaEditType ==
  ASSUME TypeInv, EditQuota
  PROVE  /\ tqs' \in TQMap /\ staleTQs' \subseteq Tenants
         /\ \A t \in Tenants \ staleTQs' : seenTQs[t] = tqs'[t]
  <1> DEFINE new(t, q) == IF q = None THEN None
                          ELSE [quota |-> q,
                                status |-> IF tqs[t] = None THEN [used |-> NoUsage, over |-> FALSE]
                                           ELSE tqs[t].status]
  <1>1. PICK t \in Tenants, q \in Quotas \cup {None} :
          tqs' = [tqs EXCEPT ![t] = new(t, q)] /\ staleTQs' = staleTQs \cup {t}
    BY DEF EditQuota
  <1>2. new(t, q) \in TQs \cup {None}
    <2>1. [used |-> NoUsage, over |-> FALSE] \in Statuses
      BY SpecsAssumption DEF NoUsage, Usages, Statuses
    <2>2. tqs[t] # None => tqs[t].status \in Statuses
      BY TypeParts DEF TQMap, TQs
    <2>3. QED
      BY <2>1, <2>2 DEF TQs
  <1> HIDE DEF new
  <1>3. tqs' \in TQMap
    BY <1>1, <1>2, TypeParts DEF TQMap
  <1>4. \A u \in Tenants \ staleTQs' : seenTQs[u] = tqs'[u]
    BY <1>1, TypeParts DEF TQMap
  <1>5. QED
    BY <1>1, <1>3, <1>4 DEF TypeInv, TypeOK

DoneType == [requests : 0..MaxRequests, edits : 0..MaxEvents, faults : 0..MaxEvents]

LEMMA CountType ==
  ASSUME TypeInv
  PROVE  /\ done.requests < MaxRequests => [done EXCEPT !.requests = @ + 1] \in DoneType
         /\ done.edits + done.faults < MaxEvents =>
              [done EXCEPT !.edits = @ + 1] \in DoneType /\ [done EXCEPT !.faults = @ + 1] \in DoneType
  <1>1. /\ done \in DoneType /\ MaxRequests \in Nat /\ MaxEvents \in Nat
        /\ done.requests \in Nat /\ done.edits \in Nat /\ done.faults \in Nat
    BY SpecsAssumption DEF TypeInv, TypeOK, DoneType
  <1>2. QED
    BY <1>1 DEF DoneType

LEMMA NextType == TypeInv /\ [Next]_vars => TypeInv'
  <1> SUFFICES ASSUME TypeInv, [Next]_vars PROVE TypeInv'
    OBVIOUS
  <1> USE DEF caches
  <1>a. ASSUME NEW a \in Agents, ads[a] # None PROVE ads[a] \in ADs
    BY <1>a, TypeParts DEF ADMap
  <1>b. ASSUME NEW a \in Agents, seenADs[a] # None PROVE seenADs[a] \in ADs
    BY <1>b, TypeParts DEF ADMap
  <1>1. ASSUME NEW c \in Users, UserRequest(c) PROVE TypeInv'
    <2>1. PICK a \in Agents, s \in Specs, dry \in BOOLEAN :
            Submit(c, a, IF ads[a] = None
                           THEN [spec |-> s, finalizer |-> FALSE, deleting |-> FALSE]
                           ELSE [ads[a] EXCEPT !.spec = s], dry)
      BY <1>1 DEF UserRequest
    <2>2. (IF ads[a] = None THEN [spec |-> s, finalizer |-> FALSE, deleting |-> FALSE]
                            ELSE [ads[a] EXCEPT !.spec = s]) \in ADs
      BY <1>a DEF ADs
    <2>3. RequestsOK(requests')
      BY <2>1, <2>2, SubmitType DEF Clients
    <2>4. done' \in DoneType
      BY <1>1, CountType DEF UserRequest
    <2>5. UNCHANGED <<ads, caches, tqs, reservations, worker, queue>>
      BY <1>1 DEF UserRequest
    <2>6. QED
      BY <2>3, <2>4, <2>5 DEF TypeInv, TypeOK, RequestsOK, DoneType
  <1>2. ASSUME Finalizer PROVE TypeInv'
    <2>1. PICK a \in Agents, b \in BOOLEAN :
            seenADs[a] # None /\ Submit(Reconciler, a, [seenADs[a] EXCEPT !.finalizer = b], FALSE)
      <3>1. CASE AddFinalizer
        BY <3>1 DEF AddFinalizer
      <3>2. CASE RemoveFinalizer
        BY <3>2 DEF RemoveFinalizer
      <3>3. QED
        BY <1>2, <3>1, <3>2 DEF Finalizer
    <2>2. [seenADs[a] EXCEPT !.finalizer = b] \in ADs
      BY <1>b, <2>1 DEF ADs
    <2>3. RequestsOK(requests')
      BY <2>1, <2>2, SubmitType DEF Clients
    <2>4. UNCHANGED <<ads, caches, tqs, reservations, worker, queue, done>>
      BY <1>2 DEF Finalizer, AddFinalizer, RemoveFinalizer
    <2>5. QED
      BY <2>3, <2>4 DEF TypeInv, TypeOK, RequestsOK
  <1>3. ASSUME NEW c \in Clients, AdmitAndReserve(c) PROVE TypeInv'
    <2>1. RequestsOK(requests') /\ reservations' \in EntryMap
      BY <1>3, ReserveType
    <2>2. UNCHANGED <<ads, caches, tqs, worker, queue, done>>
      BY <1>3 DEF AdmitAndReserve
    <2>3. QED
      BY <2>1, <2>2 DEF TypeInv, TypeOK, RequestsOK, EntryMap
  <1>4. ASSUME NEW c \in Clients, Persist(c) PROVE TypeInv'
    <2> DEFINE r == requests[c]
    <2>1. r.agent \in Agents /\ r.new \in ADs
      BY <1>4, TypeParts DEF Persist, RequestsOK, Requests
    <2>2. /\ ads' = [ads EXCEPT ![r.agent] = IF r.new.deleting /\ ~r.new.finalizer THEN None ELSE r.new]
          /\ staleADs' = staleADs \cup {r.agent}
          /\ requests' = [Outdated(r.agent) EXCEPT ![c] = None]
          /\ UNCHANGED <<seenADs, tqs, seenTQs, staleTQs, reservations, worker, queue, done>>
      BY <1>4 DEF Persist
    <2> HIDE DEF r
    <2>3. ads' \in ADMap /\ staleADs' \subseteq Agents
      BY <2>1, <2>2, TypeParts DEF ADMap, TypeInv, TypeOK
    <2>4. RequestsOK(requests')
      BY <2>2, OutdatedType, EndType
    <2>5. QED
      BY <2>2, <2>3, <2>4 DEF TypeInv, TypeOK, RequestsOK, ADMap
  <1>5. ASSUME NEW c \in Clients, Discard(c) \/ RequestLost(c) PROVE TypeInv'
    <2>1. RequestsOK(requests')
      BY <1>5, EndType, TypeParts DEF Discard, RequestLost
    <2>2. UNCHANGED <<ads, caches, tqs, reservations, worker, queue>>
      BY <1>5 DEF Discard, RequestLost
    <2>3. done' \in DoneType
      BY <1>5, CountType DEF Discard, RequestLost, Failing, TypeInv, TypeOK, DoneType
    <2>4. QED
      BY <2>1, <2>2, <2>3 DEF TypeInv, TypeOK, RequestsOK, DoneType
  <1>6. ASSUME UserDelete PROVE TypeInv'
    <2>1. PICK a \in Agents :
            /\ ads[a] # None
            /\ ads' = [ads EXCEPT ![a] = IF @.finalizer THEN [@ EXCEPT !.deleting = TRUE] ELSE None]
            /\ staleADs' = staleADs \cup {a} /\ requests' = Outdated(a)
      BY <1>6 DEF UserDelete
    <2>2. [ads[a] EXCEPT !.deleting = TRUE] \in ADs
      BY <1>a, <2>1 DEF ADs
    <2>3. ads' \in ADMap /\ staleADs' \subseteq Agents
      BY <2>1, <2>2, TypeParts DEF ADMap, TypeInv, TypeOK
    <2>4. RequestsOK(requests')
      BY <2>1, OutdatedType
    <2>5. /\ UNCHANGED <<seenADs, tqs, seenTQs, staleTQs, reservations, worker, queue>>
          /\ done' \in DoneType
      BY <1>6, CountType DEF UserDelete
    <2>6. QED
      BY <2>3, <2>4, <2>5 DEF TypeInv, TypeOK, RequestsOK, ADMap, DoneType
  <1>7. ASSUME Expire \/ sweepExpired PROVE TypeInv'
    <2>1. reservations' \in EntryMap
      <3>1. CASE Expire
        <4>1. PICK a \in InFlight : reservations' = [reservations EXCEPT ![a].expired = TRUE]
          BY <3>1 DEF Expire
        <4>2. a \in Agents /\ reservations[a] \in Entries
          BY TypeParts DEF InFlight, EntryMap
        <4>3. [reservations[a] EXCEPT !.expired = TRUE] \in Entries
          BY <4>2 DEF Entries
        <4>4. QED
          BY <4>1, <4>2, <4>3, TypeParts DEF EntryMap
      <3>2. CASE sweepExpired
        BY <3>2, TypeParts DEF sweepExpired, EntryMap
      <3>3. QED
        BY <1>7, <3>1, <3>2
    <2>2. UNCHANGED <<ads, caches, tqs, requests, worker, queue, done>>
      BY <1>7 DEF Expire, sweepExpired
    <2>3. QED
      BY <2>1, <2>2 DEF TypeInv, TypeOK, EntryMap
  <1>8. ASSUME ListADs PROVE TypeInv'
    <2>1. PICK t \in queue :
            /\ queue' = queue \ {t}
            /\ worker' = IF seenTQs[t] = None THEN None
                         ELSE [tenant |-> t, used |-> ComputeUsage(seenADs, t),
                               release |-> {a \in Agents : seenADs[a] # None /\ seenADs[a].spec.tenant = t}]
      BY <1>8 DEF ListADs
    <2>2. t \in Tenants /\ queue' \subseteq Tenants /\ ComputeUsage(seenADs, t) \in Usages
      BY <2>1, UsageType, TypeParts DEF TypeInv, TypeOK
    <2>3. worker' \in Jobs \cup {None}
      BY <2>1, <2>2 DEF Jobs
    <2>4. UNCHANGED <<ads, caches, tqs, reservations, requests, done>>
      BY <1>8 DEF ListADs
    <2>5. QED
      BY <2>2, <2>3, <2>4 DEF TypeInv, TypeOK, Jobs
  <1>9. ASSUME Release PROVE TypeInv'
    <2>1. PICK a \in worker.release :
            /\ reservations' = [reservations EXCEPT ![a] = None]
            /\ worker' = [worker EXCEPT !.release = @ \ {a}]
      BY <1>9 DEF Release
    <2>2. worker \in Jobs
      BY <1>9, TypeParts DEF Release
    <2>3. worker' \in Jobs /\ reservations' \in EntryMap
      BY <2>1, <2>2, TypeParts DEF Jobs, EntryMap
    <2>4. UNCHANGED <<ads, caches, tqs, requests, queue, done>>
      BY <1>9 DEF Release
    <2>5. QED
      BY <2>3, <2>4 DEF TypeInv, TypeOK, Jobs, EntryMap
  <1>10. ASSUME UpdateStatus PROVE TypeInv'
    <2>1. worker' = None /\ UNCHANGED <<ads, seenADs, staleADs, seenTQs, reservations, requests, done>>
      BY <1>10 DEF UpdateStatus
    <2>2. QED
      BY <1>10, <2>1, StatusType DEF TypeInv, TypeOK, TQMap
  <1>11. ASSUME EditQuota PROVE TypeInv'
    <2>1. /\ UNCHANGED <<ads, seenADs, staleADs, seenTQs, reservations, requests, worker, queue>>
          /\ done' \in DoneType
      BY <1>11, CountType DEF EditQuota
    <2>2. QED
      BY <1>11, <2>1, QuotaEditType DEF TypeInv, TypeOK, TQMap, DoneType
  <1>12. ASSUME SyncADs PROVE TypeInv'
    <2>1. ASSUME NEW a \in staleADs PROVE enqueueTenantQuota(a) \subseteq Tenants
      <3>1. a \in Agents
        BY DEF TypeInv, TypeOK
      <3>2. \A x \in {seenADs[a], ads[a]} \ {None} : x \in ADs /\ x.spec.tenant \in Tenants
        BY <1>a, <1>b, <3>1, SpecsAssumption DEF ADs
      <3>3. QED
        BY <3>2 DEF enqueueTenantQuota
    <2>2. queue' \subseteq Tenants
      <3>1. queue' = queue \cup UNION {enqueueTenantQuota(a) : a \in staleADs} /\ queue \subseteq Tenants
        BY <1>12 DEF SyncADs, TypeInv, TypeOK
      <3>2. QED
        BY <2>1, <3>1, Zenon
    <2>3. /\ seenADs' = ads /\ staleADs' = {}
          /\ UNCHANGED <<ads, tqs, seenTQs, staleTQs, reservations, requests, worker, done>>
      BY <1>12 DEF SyncADs
    <2>4. QED
      BY <2>2, <2>3 DEF TypeInv, TypeOK
  <1>13. ASSUME SyncTQs PROVE TypeInv'
    BY <1>13 DEF SyncTQs, TypeInv, TypeOK
  <1>14. ASSUME Requeue PROVE TypeInv'
    BY <1>14 DEF Requeue, TypeInv, TypeOK
  <1>15. ASSUME ReconcileFails PROVE TypeInv'
    <2>1. worker.tenant \in Tenants
      BY <1>15, TypeParts DEF ReconcileFails, Jobs
    <2>2. done' \in DoneType
      BY <1>15, CountType DEF ReconcileFails, Failing
    <2>3. QED
      BY <1>15, <2>1, <2>2 DEF ReconcileFails, TypeInv, TypeOK, DoneType
  <1>16. ASSUME Restart PROVE TypeInv'
    <2>1. RequestsOK(requests')
      <3>1. requests' = [c \in Clients |-> IF requests[c] # None /\ requests[c].at = "check"
                                             THEN None ELSE requests[c]]
        BY <1>16 DEF Restart
      <3>2. QED
        BY <3>1, TypeParts DEF RequestsOK
    <2>2. done' \in DoneType
      BY <1>16, CountType DEF Restart, Failing
    <2>3. /\ reservations' = [a \in Agents |-> None] /\ worker' = None /\ queue' = Tenants
          /\ seenADs' = ads /\ staleADs' = {} /\ seenTQs' = tqs /\ staleTQs' = {}
          /\ UNCHANGED <<ads, tqs>>
      BY <1>16 DEF Restart
    <2>4. QED
      BY <2>1, <2>2, <2>3 DEF TypeInv, TypeOK, RequestsOK, DoneType
  <1>17. CASE UNCHANGED vars
    BY <1>17 DEF vars, TypeInv, TypeOK
  <1>18. QED
    BY <1>1, <1>2, <1>3, <1>4, <1>5, <1>6, <1>7, <1>8, <1>9, <1>10, <1>11, <1>12, <1>13, <1>14,
       <1>15, <1>16, <1>17 DEF Next, Webhook, TQWorker

\* Every variable keeps its type, the int32 counters included, whatever overflows:
\* an admitted request has read a quota that exists, and a status is written only
\* to a TenantQuota that still does.
THEOREM TypeCorrect == Spec => []TypeOK
  <1>1. TypeInv => TypeOK
    BY DEF TypeInv
  <1>2. QED
    BY <1>1, InitType, NextType, PTL DEF Spec

\* The finalizer updates of the AgentDeployment reconciler and every spec
\* correction pass the quota rules of the webhook, for every number of agents
\* and clients, every quota and every history of edits and failures.
THEOREM CorrectionsAdmitted == Spec => []NonIncreasingAdmitted
  <1>1. TypeInv => NonIncreasingAdmitted
    <2> SUFFICES ASSUME TypeInv, NEW c \in Clients,
                        requests[c] # None, requests[c].at = "check",
                        sameTenantUpdate(requests[c].new, requests[c].old),
                        requests[c].new.spec.max <= requests[c].old.spec.max,
                        gpusForAD(requests[c].new.spec) <= gpusForAD(requests[c].old.spec)
                 PROVE  evalQuotaRules(requests[c].tq, sumInflight(requests[c].agent),
                                       requests[c].new, requests[c].old)
      BY DEF NonIncreasingAdmitted
    <2>1. requests[c].new \in ADs /\ requests[c].old \in ADs
      BY TypeParts DEF RequestsOK, Requests, sameTenantUpdate
    <2>2. QED
      BY <2>1, NonIncreasingPasses
  <1>2. QED
    BY <1>1, InitType, NextType, PTL DEF Spec

-----------------------------------------------------------------------------
(* The requests in flight fit.  Of the growing reservations, each          *)
(* nonempty set T has a member (the one that was reserved last) that was   *)
(* checked with all of T in flight.  Stated for every T, this survives the *)
(* release, the expiry and the overwriting of any of them.                 *)

DeltaOn(d, T) == [a \in T |-> reservations[a].delta[d]]

Growing(d) == {a \in InFlight : reservations[a].delta[d] > 0}

FoundRoom(d, a, sum) ==
  reservations[a].tq.status.used[d] + reservations[a].shrinks[d] + sum
    <= reservations[a].tq.quota[d]

FitInv ==
  \A d \in Dims : \A T \in SUBSET Growing(d) :
    T # {} => \E a \in T : FoundRoom(d, a, SumFunctionOnSet(DeltaOn(d, T), T))

SmallDeltas(Cap) ==
  \A a \in Agents : reservations[a] # None =>
    \A d \in Dims : -Cap <= reservations[a].delta[d] /\ reservations[a].delta[d] <= Cap

LEMMA DeltaSmall ==
  ASSUME NEW Cap \in Nat, NoOverflow(Cap), NEW new \in ADs, NEW old \in ADs \cup {None},
         NEW d \in Dims
  PROVE  -Cap <= computeDelta(new, old)[d] /\ computeDelta(new, old)[d] <= Cap
  <1>1. new.spec \in Specs /\ (old # None => old.spec \in Specs)
    BY DEF ADs
  <1>2. Charge(new.spec)[d] \in 0..IntMax /\ Charge(new.spec)[d] <= Cap
    BY <1>1, ChargeType DEF NoOverflow
  <1>3. CASE sameTenantUpdate(new, old)
    <2>1. Charge(old.spec)[d] \in 0..IntMax /\ Charge(old.spec)[d] <= Cap
      BY <1>1, <1>3, ChargeType DEF NoOverflow, sameTenantUpdate
    <2>2. computeDelta(new, old)[d] = Charge(new.spec)[d] - Charge(old.spec)[d]
      BY <1>3 DEF computeDelta
    <2>3. QED
      BY <1>2, <2>1, <2>2
  <1>4. CASE ~sameTenantUpdate(new, old)
    BY <1>2, <1>4 DEF computeDelta
  <1>5. QED
    BY <1>3, <1>4

LEMMA InFlightEntry ==
  ASSUME TypeInv, NEW a \in InFlight
  PROVE  /\ a \in Agents /\ reservations[a] # None /\ reservations[a] \in Entries
         /\ \A d \in Dims : reservations[a].delta[d] \in Int
  <1>1. a \in Agents /\ reservations[a] # None /\ reservations[a] \in Entries
    BY TypeParts DEF InFlight, EntryMap
  <1>2. \A d \in Dims : reservations[a].delta[d] \in Int
    BY <1>1, SpecsAssumption DEF Entries, Usages
  <1>3. QED
    BY <1>1, <1>2

\* Sums over reservations in flight are exact.
LEMMA ExactSum ==
  ASSUME NEW Cap \in Nat, NoOverflow(Cap), NEW S \in SUBSET InFlight, NEW F,
         \A x \in S : F[x] \in Int /\ -Cap <= F[x] /\ F[x] <= Cap
  PROVE  SumFunctionOnSet(F, S) \in Int /\ Int32(SumFunctionOnSet(F, S)) = SumFunctionOnSet(F, S)
  <1>1. /\ IsFiniteSet(S) /\ Cardinality(S) \in Nat /\ Cardinality(Agents) \in Nat
        /\ Cardinality(S) <= Cardinality(Agents)
    BY InFlightFinite, FS_CardinalityType, SpecsAssumption
  <1>2. SumFunctionOnSet(F, S) \in Int
    BY <1>1, SumInt
  <1>3. /\ -(Cap * Cardinality(S)) <= SumFunctionOnSet(F, S)
        /\ SumFunctionOnSet(F, S) <= Cap * Cardinality(S)
    BY <1>1, SumBound
  <1>4. Cap * Cardinality(S) <= IntMax /\ Cap * Cardinality(S) \in Nat
    <2>1. ASSUME NEW m \in Nat, NEW n \in Nat, m <= n PROVE Cap * m <= Cap * n /\ Cap * m \in Nat /\ Cap * n \in Nat
      BY <2>1
    <2>2. QED
      BY <1>1, <2>1, SpecsAssumption DEF NoOverflow
  <1>5. SumFunctionOnSet(F, S) \in -(IntMax + 1)..IntMax
    BY <1>2, <1>3, <1>4, SpecsAssumption
  <1>6. QED
    BY <1>2, <1>5, Int32Exact

\* What shrinking objects free and any of the growing ones take is at most what
\* sumInflight found.
LEMMA InflightCovers ==
  ASSUME TypeInv, NEW Cap \in Nat, NoOverflow(Cap), SmallDeltas(Cap), NEW k, NEW d \in Dims,
         NEW P \in SUBSET (Growing(d) \ {k})
  PROVE  /\ sumInflight(k)[d] \in Int /\ Shrinks(k)[d] \in Int
         /\ SumFunctionOnSet(DeltaOn(d, P), P) \in Int
         /\ Shrinks(k)[d] + SumFunctionOnSet(DeltaOn(d, P), P) <= sumInflight(k)[d]
  <1> DEFINE S == InFlight \ {k}
             f == [a \in S |-> reservations[a].delta]
             g == [a \in S |-> [e \in Dims |-> IF reservations[a].delta[e] < 0
                                                 THEN reservations[a].delta[e] ELSE 0]]
             F == Column(f, d)
             H == Column(g, d)
  <1>1. IsFiniteSet(S) /\ S \in SUBSET InFlight /\ P \in SUBSET S /\ IsFiniteSet(P)
    <2>1. S \in SUBSET InFlight /\ P \in SUBSET S /\ P \in SUBSET InFlight
      BY DEF Growing
    <2>2. QED
      BY <2>1, InFlightFinite
  <1>2. ASSUME NEW x \in S
        PROVE  /\ reservations[x].delta[d] \in Int
               /\ -Cap <= reservations[x].delta[d] /\ reservations[x].delta[d] <= Cap
    BY <1>1, InFlightEntry DEF SmallDeltas
  <1>3. /\ sumInflight(k)[d] = Int32(SumFunctionOnSet(F, S))
        /\ \A x \in S : F[x] = reservations[x].delta[d]
    <2>1. sumInflight(k) = Total(f) /\ DOMAIN f = S /\ \A x \in S : f[x][d] = reservations[x].delta[d]
      BY DEF sumInflight
    <2> HIDE DEF f, S
    <2>2. QED
      BY <1>1, <1>2, <2>1, TotalColumn
  <1>4. /\ Shrinks(k)[d] = Int32(SumFunctionOnSet(H, S))
        /\ \A x \in S : H[x] = IF reservations[x].delta[d] < 0 THEN reservations[x].delta[d] ELSE 0
    <2>1. /\ Shrinks(k) = Total(g) /\ DOMAIN g = S
          /\ \A x \in S : g[x][d] = IF reservations[x].delta[d] < 0 THEN reservations[x].delta[d] ELSE 0
      BY DEF Shrinks
    <2>2. \A x \in S : g[x][d] \in Int
      BY <1>2, <2>1
    <2> HIDE DEF g, S
    <2>3. QED
      BY <1>1, <2>1, <2>2, TotalColumn
  <1> HIDE DEF F, H, f, g
  <1>5. \A x \in S : /\ F[x] \in Int /\ -Cap <= F[x] /\ F[x] <= Cap
                     /\ H[x] \in Int /\ -Cap <= H[x] /\ H[x] <= Cap
                     /\ H[x] = IF F[x] < 0 THEN F[x] ELSE 0
    BY <1>2, <1>3, <1>4
  <1>6. \A x \in P : F[x] \in Int /\ F[x] >= 0 /\ DeltaOn(d, P)[x] = F[x]
    <2>1. \A x \in P : DeltaOn(d, P)[x] = reservations[x].delta[d]
      BY DEF DeltaOn
    <2>2. \A x \in P : reservations[x].delta[d] > 0
      BY DEF Growing
    <2> HIDE DEF S
    <2>3. \A x \in P : F[x] = reservations[x].delta[d] /\ F[x] \in Int
      BY <1>1, <1>3, <1>5
    <2>4. QED
      BY <2>1, <2>2, <2>3
  <1> HIDE DEF S
  <1>7. SumFunctionOnSet(DeltaOn(d, P), P) = SumFunctionOnSet(F, P) /\ SumFunctionOnSet(F, P) \in Int
    BY <1>1, <1>6, SumSame, SumInt
  <1>8. SumFunctionOnSet(H, S) + SumFunctionOnSet(F, P) <= SumFunctionOnSet(F, S)
    <2>1. S \in SUBSET S /\ \A x \in S \ S : F[x] >= 0
      OBVIOUS
    <2>2. QED
      BY <1>1, <1>5, <1>6, <2>1, SumNegatives
  <1>9. /\ sumInflight(k)[d] = SumFunctionOnSet(F, S) /\ SumFunctionOnSet(F, S) \in Int
        /\ Shrinks(k)[d] = SumFunctionOnSet(H, S) /\ SumFunctionOnSet(H, S) \in Int
    BY <1>1, <1>3, <1>4, <1>5, ExactSum
  <1>10. QED
    BY <1>7, <1>8, <1>9

\* Reservations may go, expire or stay as they are.
FewerInFlight ==
  /\ InFlight' \subseteq InFlight
  /\ \A a \in InFlight' : reservations'[a] = reservations[a]
  /\ \A a \in Agents : reservations'[a] # None =>
       reservations[a] # None /\ reservations'[a].delta = reservations[a].delta

LEMMA FewerFit ==
  ASSUME FitInv, FewerInFlight, NEW Cap, SmallDeltas(Cap)
  PROVE  FitInv' /\ SmallDeltas(Cap)'
  <1>1. ASSUME NEW d \in Dims, NEW T \in SUBSET Growing(d)', T # {}
        PROVE  \E a \in T : FoundRoom(d, a, SumFunctionOnSet(DeltaOn(d, T), T))'
    <2>1. T \in SUBSET Growing(d) /\ \A a \in T : reservations'[a] = reservations[a]
      BY DEF Growing, FewerInFlight
    <2>2. DeltaOn(d, T)' = DeltaOn(d, T)
      BY <2>1 DEF DeltaOn
    <2>3. PICK a \in T : FoundRoom(d, a, SumFunctionOnSet(DeltaOn(d, T), T))
      BY <1>1, <2>1 DEF FitInv
    <2>4. SumFunctionOnSet(DeltaOn(d, T), T)' = SumFunctionOnSet(DeltaOn(d, T), T)
      BY <2>2
    <2>5. FoundRoom(d, a, SumFunctionOnSet(DeltaOn(d, T), T))'
      BY <2>1, <2>3, <2>4 DEF FoundRoom
    <2>6. QED
      BY <2>5
  <1>2. FitInv'
    BY <1>1 DEF FitInv
  <1>3. SmallDeltas(Cap)'
    BY DEF SmallDeltas, FewerInFlight
  <1>4. QED
    BY <1>2, <1>3

\* Every step but a reservation.
LEMMA OtherSteps ==
  ASSUME TypeInv, [Next]_vars, reservations' = reservations \/ ~\E c \in Clients : AdmitAndReserve(c)
  PROVE  FewerInFlight
  <1>1. CASE reservations' = reservations
    BY <1>1 DEF FewerInFlight, InFlight
  <1>2. CASE Expire
    <2>1. PICK a \in InFlight : reservations' = [reservations EXCEPT ![a].expired = TRUE]
      BY <1>2 DEF Expire
    <2> DEFINE e == [reservations[a] EXCEPT !.expired = TRUE]
    <2>2. e.expired = TRUE /\ e.delta = reservations[a].delta /\ reservations[a] # None
      BY InFlightEntry DEF Entries
    <2>3. reservations' = [reservations EXCEPT ![a] = e]
      BY <2>1
    <2> HIDE DEF e
    <2>4. \A b \in Agents : (b = a /\ reservations'[b] = e) \/ reservations'[b] = reservations[b]
      BY <2>3, TypeParts DEF EntryMap
    <2>5. QED
      BY <2>2, <2>4 DEF FewerInFlight, InFlight
  <1>3. CASE sweepExpired
    BY <1>3 DEF sweepExpired, FewerInFlight, InFlight
  <1>4. CASE Release
    <2>1. PICK a : reservations' = [reservations EXCEPT ![a] = None]
      BY <1>4 DEF Release
    <2>2. \A b \in Agents : reservations'[b] = None \/ reservations'[b] = reservations[b]
      BY <2>1, TypeParts DEF EntryMap
    <2>3. QED
      BY <2>2 DEF FewerInFlight, InFlight
  <1>5. CASE Restart
    BY <1>5 DEF Restart, FewerInFlight, InFlight
  <1>6. QED
    <2>1. \/ reservations' = reservations
          \/ Expire \/ sweepExpired \/ Release \/ Restart
      BY DEF Next, vars, Webhook, Finalizer, TQWorker, UserRequest, Persist, Discard, RequestLost,
             AddFinalizer, RemoveFinalizer, ListADs, UpdateStatus, SyncADs, SyncTQs, UserDelete,
             Requeue, EditQuota, ReconcileFails
    <2>2. QED
      BY <1>1, <1>2, <1>3, <1>4, <1>5, <2>1

\* Usage and quota of a TenantQuota are integers in every dimension.
LEMMA QuotaInts ==
  ASSUME NEW q \in TQs, NEW d \in Dims
  PROVE  q.status.used[d] \in Int /\ q.quota[d] \in Int
  <1>1. q.status.used[d] \in Int
    BY SpecsAssumption DEF TQs, Statuses, Usages
  <1>2. q.quota \in Quotas
    BY DEF TQs
  <1>3. q.quota.agents \in Int /\ q.quota.gpus \in Int /\ q.quota.replicas \in Int
    BY <1>2, SpecsAssumption
  <1>4. d = "agents" \/ d = "gpus" \/ d = "replicas"
    BY DEF Dims
  <1>5. QED
    BY <1>1, <1>3, <1>4

\* The new reservation is the witness for the sets it belongs to.
LEMMA ReserveFits ==
  ASSUME TypeInv, NEW Cap \in Nat, NoOverflow(Cap), SmallDeltas(Cap), FitInv,
         NEW c \in Clients, AdmitAndReserve(c), reservations' # reservations
  PROVE  FitInv' /\ SmallDeltas(Cap)'
  <1> DEFINE r == requests[c]
             k == r.agent
             delta == computeDelta(r.new, r.old)
             e == [delta |-> delta, expired |-> FALSE, tq |-> r.tq, shrinks |-> Shrinks(k)]
  <1>1. r \in Requests /\ r.tq \in TQs /\ k \in Agents /\ r.new \in ADs /\ r.old \in ADs \cup {None}
    BY TypeParts DEF AdmitAndReserve, RequestsOK, Requests
  <1>2. /\ reservations' = [reservations EXCEPT ![k] = e]
        /\ evalQuotaRules(r.tq, sumInflight(k), r.new, r.old)
    BY DEF AdmitAndReserve
  <1>3. e.delta = delta /\ e.tq = r.tq /\ e.shrinks = Shrinks(k) /\ e.expired = FALSE
    OBVIOUS
  <1>4. \A d \in Dims : -Cap <= delta[d] /\ delta[d] <= Cap /\ delta[d] \in Int
    <2>1. \A d \in Dims : delta[d] \in Int
      <3>1. delta \in Usages
        BY <1>1, DeltaType
      <3> HIDE DEF delta
      <3>2. QED
        BY <3>1, SpecsAssumption DEF Usages
    <2>2. QED
      BY <1>1, <2>1, DeltaSmall
  <1>5. ASSUME NEW d \in Dims, delta[d] > 0
        PROVE  r.tq.status.used[d] + sumInflight(k)[d] + delta[d] <= r.tq.quota[d]
    <2>1. r.tq.status.used[d] \in Int /\ r.tq.quota[d] \in Int
      BY <1>1, QuotaInts
    <2>2. sumInflight(k)[d] \in Int
      <3>1. {} \in SUBSET (Growing(d) \ {k})
        OBVIOUS
      <3>2. QED
        BY <3>1, InflightCovers
    <2>3. r.tq.status.used[d] + sumInflight(k)[d] + delta[d] > r.tq.quota[d] => delta[d] <= 0
      BY <1>2 DEF evalQuotaRules
    <2>4. delta[d] \in Int /\ delta[d] > 0
      BY <1>4, <1>5
    <2> HIDE DEF r, k, delta
    <2>5. QED
      BY <2>1, <2>2, <2>3, <2>4
  <1> HIDE DEF e, delta, k, r
  <1>6. /\ reservations'[k] = e
        /\ \A a \in Agents \ {k} : reservations'[a] = reservations[a]
    BY <1>1, <1>2, TypeParts DEF EntryMap
  <1>7. SmallDeltas(Cap)'
    BY <1>3, <1>4, <1>6 DEF SmallDeltas
  <1>8. ASSUME NEW d \in Dims, NEW T \in SUBSET Growing(d)', T # {}
        PROVE  \E a \in T : FoundRoom(d, a, SumFunctionOnSet(DeltaOn(d, T), T))'
    <2>1. T \subseteq Agents /\ T \ {k} \in SUBSET (Growing(d) \ {k})
      BY <1>6 DEF Growing, InFlight
    <2>2. CASE k \notin T
      <3>1. T \in SUBSET Growing(d) /\ \A a \in T : reservations'[a] = reservations[a]
        BY <1>6, <2>1, <2>2
      <3>2. DeltaOn(d, T)' = DeltaOn(d, T)
        BY <3>1 DEF DeltaOn
      <3>3. PICK a \in T : FoundRoom(d, a, SumFunctionOnSet(DeltaOn(d, T), T))
        BY <1>8, <3>1 DEF FitInv
      <3>4. SumFunctionOnSet(DeltaOn(d, T), T)' = SumFunctionOnSet(DeltaOn(d, T), T)
        BY <3>2
      <3>5. FoundRoom(d, a, SumFunctionOnSet(DeltaOn(d, T), T))'
        BY <3>1, <3>3, <3>4 DEF FoundRoom
      <3>6. QED
        BY <3>5
    <2>3. CASE k \in T
      <3> DEFINE U == T \ {k}
                 G == [a \in T |-> reservations'[a].delta[d]]
      <3>1. delta[d] > 0
        BY <1>3, <1>6, <2>3 DEF Growing
      <3>2. /\ G[k] = delta[d]
            /\ \A a \in U : G[a] = reservations[a].delta[d] /\ G[a] = DeltaOn(d, U)[a]
        BY <1>3, <1>6, <2>1, <2>3 DEF DeltaOn
      <3>3. IsFiniteSet(T) /\ IsFiniteSet(U) /\ U \in SUBSET InFlight
        BY <2>1, FS_Subset, SpecsAssumption DEF Growing
      <3>4. \A a \in U : DeltaOn(d, U)[a] \in Int
        <4>1. \A a \in U : reservations[a].delta[d] \in Int
          BY <3>3, InFlightEntry
        <4>2. QED
          BY <4>1 DEF DeltaOn
      <3>5. \A a \in T : G[a] \in Int
        <4> HIDE DEF G
        <4>1. QED
          BY <1>4, <3>2, <3>4
      <3>6. DeltaOn(d, T)' = G
        BY DEF DeltaOn
      <3> HIDE DEF G
      <3>7. SumFunctionOnSet(G, T) = delta[d] + SumFunctionOnSet(DeltaOn(d, U), U)
        <4>1. SumFunctionOnSet(G, T) = G[k] + SumFunctionOnSet(G, U)
          BY <2>3, <3>3, <3>5, SumSplit
        <4> HIDE DEF U
        <4>2. SumFunctionOnSet(G, U) = SumFunctionOnSet(DeltaOn(d, U), U)
          BY <3>2, <3>3, <3>4, SumSame
        <4>3. QED
          BY <3>2, <4>1, <4>2
      <3>8. /\ sumInflight(k)[d] \in Int /\ Shrinks(k)[d] \in Int
            /\ SumFunctionOnSet(DeltaOn(d, U), U) \in Int
            /\ Shrinks(k)[d] + SumFunctionOnSet(DeltaOn(d, U), U) <= sumInflight(k)[d]
        BY <2>1, InflightCovers
      <3>9. r.tq.status.used[d] \in Int /\ r.tq.quota[d] \in Int
        BY <1>1, QuotaInts
      <3> HIDE DEF U
      <3>10. r.tq.status.used[d] + Shrinks(k)[d] + SumFunctionOnSet(G, T) <= r.tq.quota[d]
        BY <1>4, <1>5, <3>1, <3>7, <3>8, <3>9
      <3>11. SumFunctionOnSet(DeltaOn(d, T), T)' = SumFunctionOnSet(G, T)
        BY <3>6
      <3>12. PICK a \in T : a = k
        BY <2>3
      <3>13. FoundRoom(d, a, SumFunctionOnSet(DeltaOn(d, T), T))'
        BY <1>3, <1>6, <3>10, <3>11, <3>12 DEF FoundRoom
      <3>14. QED
        BY <3>13
    <2>4. QED
      BY <2>2, <2>3
  <1>9. FitInv'
    BY <1>8 DEF FitInv
  <1>10. QED
    BY <1>7, <1>9

\* Check and reservation are one critical section: whatever requests, releases,
\* expiries, dry runs and restarts are interleaved, of all the growing
\* reservations in flight one was checked with all of them counted, for every
\* number of agents and clients.  The hypothesis is that the agents' charges
\* together stay within an int32, as the sums of the enforcer do not check for
\* overflow.
THEOREM InFlightRequestsFit ==
  ASSUME NEW Cap \in Nat, NoOverflow(Cap)
  PROVE  Spec => []InFlightFits
  <1>1. Init => FitInv /\ SmallDeltas(Cap)
    BY DEF Init, FitInv, SmallDeltas, Growing, InFlight
  <1>2. TypeInv /\ FitInv /\ SmallDeltas(Cap) /\ [Next]_vars => FitInv' /\ SmallDeltas(Cap)'
    <2> SUFFICES ASSUME TypeInv, FitInv, SmallDeltas(Cap), [Next]_vars
                 PROVE  FitInv' /\ SmallDeltas(Cap)'
      OBVIOUS
    <2>1. CASE \E c \in Clients : AdmitAndReserve(c) /\ reservations' # reservations
      BY <2>1, ReserveFits
    <2>2. CASE reservations' = reservations \/ ~\E c \in Clients : AdmitAndReserve(c)
      BY <2>2, OtherSteps, FewerFit
    <2>3. QED
      BY <2>1, <2>2
  <1>3. TypeInv /\ FitInv => InFlightFits
    <2> SUFFICES ASSUME FitInv, NEW d \in Dims, Growing(d) # {}
                 PROVE  \E a \in Growing(d) :
                          FoundRoom(d, a, SumFunctionOnSet(DeltaOn(d, Growing(d)), Growing(d)))
      BY DEF InFlightFits, Growing, FoundRoom, DeltaOn
    <2>1. Growing(d) \in SUBSET Growing(d)
      OBVIOUS
    <2>2. QED
      BY <2>1 DEF FitInv
  <1>4. QED
    BY <1>1, <1>2, <1>3, InitType, NextType, PTL DEF Spec

=============================================================================
