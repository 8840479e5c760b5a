-------------------------- MODULE McpDiscoveryProofs --------------------------
(***************************************************************************)
(* What McpDiscovery promises, for any number of replicas, any TTL and     *)
(* heartbeat interval and any number of events.                            *)
(***************************************************************************)
EXTENDS McpDiscovery, TLAPS

LEMMA Intervals == HealthInterval \in Nat /\ Never \in Nat /\ Never = HealthInterval + 1
  BY TTLAssumption, TimingAssumption DEF HealthInterval, Never

LEMMA Ages == TTL \in Nat /\ Old = TTL + 1 /\ Nil = -1 /\ Nil \notin 0..Old
  BY TTLAssumption DEF Old, Nil

LEMMA OlderEntry ==
  ASSUME NEW e \in Entries
  PROVE  Older(e) \in Entries /\ (e \in 0..Old => Older(e) \in 0..Old)
  BY Ages DEF Older, Entries

-----------------------------------------------------------------------------
(* No copy of an entry is newer than the last time somebody vouched.       *)

NotNewer(e, v) == e = Nil \/ e >= v

VouchInv ==
  /\ \A r \in Replicas : NotNewer(mem[r], vouched) /\ NotNewer(seen[r], vouched)
  /\ NotNewer(cm, vouched)

LEMMA OlderNotNewer ==
  ASSUME NEW e \in Entries, NEW v \in 0..Old, NotNewer(e, v)
  PROVE  NotNewer(Older(e), Older(v))
  BY Ages DEF Older, Entries, NotNewer

StoreInv == StoreTypeOK /\ vouched \in 0..Old /\ VouchInv

LEMMA EntryTypes ==
  ASSUME StoreTypeOK, NEW r \in Replicas
  PROVE  mem[r] \in Entries /\ seen[r] \in Entries /\ cm \in Entries /\ Nil \in Entries /\ 0 \in Entries
  BY Ages DEF StoreTypeOK, Entries

\* An entry that is set to a new age, or to that of another copy.
LEMMA SetKeeps ==
  ASSUME StoreInv, NEW r \in Replicas, NEW e \in Entries, NotNewer(e, vouched'),
         Set(r, e), vouched' \in 0..vouched,
         cm' = cm, seen' = seen, fresh' = fresh, loaded' \in [Replicas -> BOOLEAN],
         dirty' \in [Replicas -> BOOLEAN]
  PROVE  StoreInv'
<1>0. vouched \in 0..Old /\ Old \in Nat
  BY Ages DEF StoreInv
<1>1. StoreTypeOK'
  BY DEF StoreInv, StoreTypeOK, Set
<1>2. vouched' \in 0..Old
  BY <1>0
<1>3. VouchInv'
  <2>1. ASSUME NEW q \in Replicas PROVE NotNewer(mem'[q], vouched') /\ NotNewer(seen'[q], vouched')
    <3>1. NotNewer(mem[q], vouched) /\ NotNewer(seen[q], vouched)
      BY DEF StoreInv, VouchInv
    <3>2. mem[q] \in Entries /\ seen[q] \in Entries
      BY EntryTypes DEF StoreInv
    <3>3. NotNewer(mem[q], vouched') /\ NotNewer(seen[q], vouched')
      BY <3>1, <3>2, <1>0, Ages DEF NotNewer, Entries
    <3>4. mem'[q] = IF q = r THEN e ELSE mem[q]
      BY DEF Set, StoreInv, StoreTypeOK
    <3> QED BY <3>3, <3>4
  <2>2. NotNewer(cm', vouched')
    BY <1>0, Ages DEF NotNewer, Entries, StoreInv, VouchInv, StoreTypeOK
  <2> QED BY <2>1, <2>2 DEF VouchInv
<1> QED BY <1>1, <1>2, <1>3 DEF StoreInv

\* A write of the ConfigMap, or of an informer's copy of it.
LEMMA PersistKeeps ==
  ASSUME StoreInv, NEW r \in Replicas, persistToConfigMap(r), mem' = mem, seen' = seen,
         loaded' = loaded, dirty' \in [Replicas -> BOOLEAN], vouched' = vouched
  PROVE  StoreInv'
<1>1. CASE UNCHANGED <<cm, fresh>>
  BY <1>1 DEF StoreInv, StoreTypeOK, VouchInv, NotNewer
<1>2. CASE cm' = mem[r] /\ fresh' = [q \in Replicas |-> FALSE]
  BY <1>2 DEF StoreInv, StoreTypeOK, VouchInv, NotNewer
<1> QED BY <1>1, <1>2 DEF persistToConfigMap

LEMMA SyncKeeps ==
  ASSUME StoreInv, NEW r \in Replicas, SyncConfigMap(r), vouched' = vouched
  PROVE  StoreInv'
<1>1. StoreTypeOK'
  BY DEF StoreInv, StoreTypeOK, SyncConfigMap
<1>2. \A q \in Replicas : seen'[q] = IF q = r THEN cm ELSE seen[q]
  BY DEF StoreInv, StoreTypeOK, SyncConfigMap
<1>3. VouchInv'
  BY <1>2 DEF StoreInv, VouchInv, NotNewer, SyncConfigMap
<1> QED BY <1>1, <1>3 DEF StoreInv

LEMMA RestartKeeps ==
  ASSUME StoreInv, NEW r \in Replicas, Restart(r), vouched' = vouched
  PROVE  StoreInv'
<1>1. StoreTypeOK'
  BY EntryTypes DEF StoreInv, StoreTypeOK, Restart, Set
<1>2. \A q \in Replicas : /\ seen'[q] = IF q = r THEN cm ELSE seen[q]
                          /\ mem'[q] = IF q = r THEN Nil ELSE mem[q]
  BY DEF StoreInv, StoreTypeOK, Restart, Set
<1>3. VouchInv'
  BY <1>2 DEF StoreInv, VouchInv, NotNewer, Restart
<1> QED BY <1>1, <1>3 DEF StoreInv

LEMMA TickKeeps ==
  ASSUME StoreInv, StoreTick, vouched' = Older(vouched)
  PROVE  StoreInv'
<1>1. vouched \in Entries /\ vouched \in 0..Old
  BY DEF StoreInv, Entries
<1>2. vouched' \in 0..Old
  BY <1>1, OlderEntry
<1>3. ASSUME NEW r \in Replicas
      PROVE  /\ mem'[r] \in Entries /\ NotNewer(mem'[r], vouched')
             /\ seen'[r] \in Entries /\ NotNewer(seen'[r], vouched')
  <2>1. mem[r] \in Entries /\ seen[r] \in Entries
    BY EntryTypes DEF StoreInv
  <2>2. mem'[r] = Older(mem[r]) /\ seen'[r] = Older(seen[r])
    BY DEF StoreTick
  <2> QED BY <1>1, <2>1, <2>2, OlderEntry, OlderNotNewer DEF StoreInv, VouchInv
<1>4. cm' \in Entries /\ NotNewer(cm', vouched')
  BY <1>1, OlderEntry, OlderNotNewer DEF StoreInv, StoreTypeOK, VouchInv, StoreTick
<1>5. StoreTypeOK'
  BY <1>3, <1>4 DEF StoreInv, StoreTypeOK, StoreTick
<1> QED BY <1>2, <1>3, <1>4, <1>5 DEF StoreInv, VouchInv

-----------------------------------------------------------------------------
(* The state of the reconcile.                                             *)

RestTypeOK ==
  /\ obj \in Objects /\ ad \in Objects /\ current \in BOOLEAN /\ pc \in Points
  /\ leader \in Replicas /\ failures \in 0..MaxFailures /\ due \in Dues
  /\ agent \in Healths /\ events \in 0..MaxEvents /\ steady \in BOOLEAN

LEMMA TypeOKParts == TypeOK <=> StoreTypeOK /\ vouched \in 0..Old /\ RestTypeOK
  BY DEF TypeOK, RestTypeOK

LEMMA DueTypes ==
  /\ 0 \in Dues /\ Never \in Dues /\ HealthInterval \in Dues /\ Dues \subseteq Int
  /\ \A d \in Dues : d >= -Delay /\ d <= Never
  BY Intervals, TimingAssumption DEF Dues

LEMMA ObjectTypes ==
  /\ Gone \in Objects /\ \A expose \in BOOLEAN : New(expose) \in Objects
  /\ \A a \in Objects : /\ Requeue(a) \in Dues
                        /\ \A phase \in Phases : [a EXCEPT !.phase = phase] \in Objects
                        /\ \A b \in BOOLEAN : [a EXCEPT !.registered = b] \in Objects
                        /\ Dispatch(a) \in Points /\ RegistrationCall(a) \in Points
<1>1. Gone \in Objects /\ \A expose \in BOOLEAN : New(expose) \in Objects
  BY DEF Gone, New, Objects, Phases
<1>2. ASSUME NEW a \in Objects PROVE Requeue(a) \in Dues
  BY <1>2, DueTypes DEF Requeue
<1>3. ASSUME NEW a \in Objects
      PROVE  /\ \A phase \in Phases : [a EXCEPT !.phase = phase] \in Objects
             /\ \A b \in BOOLEAN : [a EXCEPT !.registered = b] \in Objects
             /\ Dispatch(a) \in Points /\ RegistrationCall(a) \in Points
  BY DEF Objects, Phases, Dispatch, RegistrationCall, Points
<1> QED BY <1>1, <1>2, <1>3

LEMMA ReturnTypes ==
  ASSUME RestTypeOK, NEW d \in Dues, Return(d) \/ Retry
  PROVE  /\ pc' = "idle" /\ ad' = Gone /\ ad' \in Objects /\ current' = TRUE /\ pc' \in Points
         /\ leader' = leader /\ leader' \in Replicas /\ due' \in Dues
  BY DueTypes, ObjectTypes DEF RestTypeOK, Return, Retry, Now, Points

LEMMA NoFailures == 0 \in 0..MaxFailures
  BY DEF MaxFailures

LEMMA WorkerTypes ==
  ASSUME RestTypeOK, Worker
  PROVE  RestTypeOK'
<1> USE DEF Points, PersistPoints
<1>1. CASE Reconcile
  BY <1>1, DueTypes, ObjectTypes DEF RestTypeOK, Reconcile, Now, world
<1>2. CASE AddFinalizer
  BY <1>2 DEF RestTypeOK, AddFinalizer, Goto, Objects, world, history
<1>3. CASE runDeletionCleanup
  <2>1. pc' \in Points /\ UNCHANGED <<obj, ad, current, leader, due, agent, events>>
    BY <1>3 DEF runDeletionCleanup, Deregister, Goto, world
  <2>2. failures' = 0 /\ steady' = FALSE
    BY <1>3 DEF runDeletionCleanup, Deregister
  <2> QED BY <2>1, <2>2, NoFailures DEF RestTypeOK
<1>4. CASE RemoveFinalizer
  BY <1>4, ReturnTypes, DueTypes, ObjectTypes DEF RestTypeOK, RemoveFinalizer, world, history
<1>5. CASE startCanary
  <2>1. obj' \in Objects
    BY <1>5 DEF RestTypeOK, startCanary, Objects, Phases
  <2> QED BY <1>5, <2>1, ReturnTypes, DueTypes DEF RestTypeOK, startCanary, world, history
<1>6. CASE Step
  <2>1. obj' \in Objects
    BY <1>6 DEF RestTypeOK, Step, Objects, Phases
  <2>2. CASE Return(0)
    BY <1>6, <2>1, <2>2, ReturnTypes, DueTypes DEF RestTypeOK, Step, world, history
  <2>3. CASE ad' = obj' /\ Goto("promoted")
    BY <1>6, <2>1, <2>3 DEF RestTypeOK, Step, Goto, world, history
  <2> QED BY <1>6, <2>2, <2>3 DEF Step
<1>7. CASE updateStatus
  <2>1. PICK phase \in DerivedPhases(obj) : ad' = [obj EXCEPT !.phase = phase]
    BY <1>7 DEF updateStatus
  <2>2. phase \in Phases
    BY <2>1 DEF DerivedPhases, Phases
  <2>3. ad' \in Objects /\ pc' \in Points
    BY <1>7, <2>1, <2>2, ObjectTypes DEF RestTypeOK, updateStatus
  <2> QED BY <1>7, <2>3 DEF RestTypeOK, updateStatus, world
<1>8. CASE DeregisterUnexposed
  <2>1. ad' \in Objects
    BY <1>8, ObjectTypes DEF RestTypeOK, DeregisterUnexposed
  <2>2. pc' \in Points /\ UNCHANGED <<obj, current, leader, due, agent, events>>
    BY <1>8 DEF DeregisterUnexposed, Deregister, Goto, world
  <2>3. failures' = 0 /\ steady' = FALSE
    BY <1>8 DEF DeregisterUnexposed, Deregister
  <2> QED BY <2>1, <2>2, <2>3, NoFailures DEF RestTypeOK
<1>9. CASE HeartbeatOK
  <2>1. pc' \in Points /\ UNCHANGED <<obj, ad, current, leader, due, agent, events>>
    BY <1>9 DEF HeartbeatOK, Goto, world
  <2>2. failures' = 0 /\ (steady' = TRUE \/ steady' = steady)
    BY <1>9 DEF HeartbeatOK, history
  <2> QED BY <2>1, <2>2, NoFailures DEF RestTypeOK
<1>10. CASE HeartbeatFails
  <2>1. ad' \in Objects
    BY <1>10, ObjectTypes DEF RestTypeOK, HeartbeatFails
  <2>2. failures' \in 0..MaxFailures
    BY <1>10 DEF RestTypeOK, HeartbeatFails, MaxFailures
  <2> QED BY <1>10, <2>1, <2>2 DEF RestTypeOK, HeartbeatFails, Goto, world
<1>11. CASE Register
  <2>1. CASE Return(0)
    BY <1>11, <2>1, ReturnTypes, DueTypes DEF RestTypeOK, Register, world
  <2>2. CASE ~Return(0)
    BY <1>11, <2>2 DEF RestTypeOK, Register, Goto, world, history
  <2> QED BY <2>1, <2>2
<1>12. CASE Persisted
  <2>1. ad' \in Objects
    <3>1. ad' = [ad EXCEPT !.registered = pc \in {"persistRegister", "persistPromoted"}]
      BY <1>12 DEF Persisted
    <3>2. CASE pc \in {"persistRegister", "persistPromoted"}
      <4>1. ad' = [ad EXCEPT !.registered = TRUE]
        BY <3>1, <3>2, Zenon
      <4> QED BY <4>1, ObjectTypes DEF RestTypeOK
    <3>3. CASE pc \notin {"persistRegister", "persistPromoted"}
      <4>1. (pc \in {"persistRegister", "persistPromoted"}) = FALSE
        BY <3>3
      <4>2. ad' = [ad EXCEPT !.registered = FALSE]
        BY <3>1, <4>1, Zenon
      <4> QED BY <4>2, ObjectTypes DEF RestTypeOK
    <3> QED BY <3>2, <3>3
  <2> QED BY <1>12, <2>1 DEF RestTypeOK, Persisted, Goto, MaxFailures, world, history
<1>13. CASE UpdateStatus
  <2>1. Requeue(ad) \in Dues /\ 0 \in Dues
    BY DueTypes, ObjectTypes DEF RestTypeOK
  <2>2. \E d \in Dues : Return(d)
    BY <1>13, <2>1 DEF UpdateStatus
  <2> QED BY <1>13, <2>2, ReturnTypes DEF RestTypeOK, UpdateStatus, world, history
<1>14. CASE Conflict
  BY <1>14, ReturnTypes, DueTypes DEF RestTypeOK, Conflict, world, history
<1> QED BY <1>1, <1>2, <1>3, <1>4, <1>5, <1>6, <1>7, <1>8, <1>9, <1>10, <1>11, <1>12, <1>13,
           <1>14 DEF Worker

LEMMA NextTypes ==
  ASSUME RestTypeOK, Next
  PROVE  RestTypeOK'
<1> USE DEF Points, PersistPoints
<1>e. events \in Nat /\ MaxEvents \in Nat /\ (Event => events' \in 0..MaxEvents)
  BY EventsAssumption DEF RestTypeOK, Event
<1>1. CASE Worker
  BY <1>1, WorkerTypes
<1>2. CASE PersistFails
  <2>1. CASE Retry
    BY <1>2, <2>1, <1>e, ReturnTypes, DueTypes DEF RestTypeOK, PersistFails, history
  <2>2. CASE Goto("status") /\ UNCHANGED ad
    BY <1>2, <2>2, <1>e DEF RestTypeOK, PersistFails, Goto, history
  <2> QED BY <1>2, <2>1, <2>2 DEF PersistFails
<1>3. CASE EditObject
  <2>1. obj' \in Objects
    <3>1. CASE \E expose \in BOOLEAN : obj' = New(expose)
      BY <3>1, ObjectTypes
    <3>2. CASE obj' = [obj EXCEPT !.expose = ~@]
      BY <3>2 DEF RestTypeOK, Objects
    <3>3. CASE obj' = [obj EXCEPT !.drift = TRUE]
      BY <3>3 DEF RestTypeOK, Objects
    <3>4. CASE obj' = IF obj.fin THEN [obj EXCEPT !.deleting = TRUE] ELSE Gone
      BY <3>4, ObjectTypes DEF RestTypeOK, Objects
    <3> QED BY <1>3, <3>1, <3>2, <3>3, <3>4 DEF EditObject
  <2>2. due' \in Dues
    BY <1>3, DueTypes DEF RestTypeOK, EditObject, Edited, Now
  <2> QED BY <1>3, <2>1, <2>2, <1>e DEF RestTypeOK, EditObject, Edited, history
<1>4. CASE ChangeHealth
  <2>1. due' \in Dues
    BY <1>4, DueTypes DEF RestTypeOK, ChangeHealth, Now
  <2> QED BY <1>4, <2>1, <1>e DEF RestTypeOK, ChangeHealth, history
<1>5. CASE Request
  BY <1>5, <1>e DEF RestTypeOK, Request, reconciler
<1>6. CASE Background
  BY <1>6 DEF RestTypeOK, Background, reconciler, world, history
<1>7. CASE OtherAgent
  BY <1>7, <1>e DEF RestTypeOK, OtherAgent, reconciler, history
<1>8. CASE Load
  BY <1>8 DEF RestTypeOK, Load, reconciler, world
<1>9. CASE Sync
  BY <1>9 DEF RestTypeOK, Sync, reconciler, world, history
<1>10. CASE Fault
  <2>1. CASE UNCHANGED reconciler
    BY <1>10, <2>1, <1>e DEF RestTypeOK, Fault, reconciler, history
  <2>2. CASE Retry /\ UNCHANGED <<store, obj, failures>>
    BY <1>10, <2>2, <1>e, ReturnTypes, DueTypes DEF RestTypeOK, Fault, history
  <2> QED BY <1>10, <2>1, <2>2 DEF Fault
<1>11. CASE Crash
  <2>1. CASE UNCHANGED <<reconciler, steady>>
    BY <1>11, <2>1, <1>e DEF RestTypeOK, Crash, reconciler
  <2>2. CASE ~UNCHANGED <<reconciler, steady>>
    <3>1. /\ leader' \in Replicas /\ pc' = "idle" /\ ad' = Gone /\ failures' = 0
          /\ current' = TRUE /\ due' = 0 /\ steady' = FALSE /\ obj' = obj
      BY <1>11, <2>2 DEF Crash
    <3>2. agent' = agent /\ events' \in 0..MaxEvents
      BY <1>11, <1>e DEF Crash
    <3> QED BY <3>1, <3>2, DueTypes, ObjectTypes, NoFailures DEF RestTypeOK
  <2> QED BY <2>1, <2>2
<1>12. CASE Tick
  <2>1. due' \in Dues
    <3>1. CASE due = Never \/ ~obj.there
      BY <1>12, <3>1, DueTypes DEF Tick
    <3>2. CASE due # Never /\ obj.there
      BY <1>12, <3>2, Intervals, TimingAssumption DEF Tick, Dues, RestTypeOK
    <3> QED BY <3>1, <3>2
  <2> QED BY <1>12, <2>1 DEF RestTypeOK, Tick, world
<1> QED BY <1>1, <1>2, <1>3, <1>4, <1>5, <1>6, <1>7, <1>8, <1>9, <1>10, <1>11, <1>12 DEF Next

-----------------------------------------------------------------------------
(* Every step keeps the store in order.                                    *)

LEMMA StoreUnchanged ==
  ASSUME StoreInv, UNCHANGED <<mem, cm, seen, fresh, loaded, dirty>>, vouched' = vouched
  PROVE  StoreInv'
  BY DEF StoreInv, StoreTypeOK, VouchInv, NotNewer

\* The operations of the goroutines and handlers of one replica.
LEMMA OperationKeeps ==
  ASSUME StoreInv, NEW r \in Replicas, vouched' = vouched,
         \/ sweepExpired(r) \/ handleDeregister(r) \/ PersistLater(r) \/ PersistOther(r)
         \/ PersistLaterFails(r) \/ loadFromConfigMap(r) \/ LoadFails(r)
  PROVE  StoreInv'
<1>0. /\ StoreTypeOK /\ vouched \in 0..vouched /\ NotNewer(Nil, vouched) /\ Nil \in Entries
      /\ fresh \in [Replicas -> BOOLEAN] /\ loaded \in [Replicas -> BOOLEAN]
      /\ dirty \in [Replicas -> BOOLEAN]
  BY Ages DEF StoreInv, StoreTypeOK, NotNewer, Entries
<1>1. CASE sweepExpired(r) \/ handleDeregister(r)
  <2>1. dirty' \in [Replicas -> BOOLEAN]
    BY <1>0, <1>1 DEF sweepExpired, handleDeregister
  <2> QED BY <1>0, <1>1, <2>1, SetKeeps DEF sweepExpired, handleDeregister
<1>2. CASE PersistLater(r) \/ PersistOther(r)
  <2>1. dirty' \in [Replicas -> BOOLEAN]
    BY <1>0, <1>2 DEF PersistLater, PersistOther
  <2> QED BY <1>2, <2>1, PersistKeeps DEF PersistLater, PersistOther
<1>3. CASE PersistLaterFails(r) \/ LoadFails(r)
  <2>1. dirty' \in [Replicas -> BOOLEAN] /\ loaded' \in [Replicas -> BOOLEAN]
    BY <1>0, <1>3 DEF PersistLaterFails, LoadFails
  <2> QED BY <1>3, <2>1 DEF PersistLaterFails, LoadFails, StoreInv, StoreTypeOK, VouchInv, NotNewer
<1>4. CASE loadFromConfigMap(r)
  <2>1. loaded' \in [Replicas -> BOOLEAN]
    BY <1>0, <1>4 DEF loadFromConfigMap
  <2> DEFINE e == IF seen[r] # Nil THEN seen[r] ELSE mem[r]
  <2>2. e \in Entries /\ NotNewer(e, vouched)
    BY EntryTypes DEF StoreInv, VouchInv
  <2>3. Set(r, e) /\ cm' = cm /\ seen' = seen /\ fresh' = fresh /\ dirty' = dirty
    BY <1>4 DEF loadFromConfigMap
  <2> HIDE DEF e
  <2> QED BY <1>0, <2>1, <2>2, <2>3, SetKeeps
<1> QED BY <1>1, <1>2, <1>3, <1>4

\* The reconcile of the leader.
LEMMA WorkerKeeps ==
  ASSUME StoreInv, leader \in Replicas, Worker \/ PersistFails
  PROVE  StoreInv'
<1>0. /\ StoreTypeOK /\ vouched \in 0..vouched /\ NotNewer(Nil, vouched) /\ Nil \in Entries
      /\ 0 \in 0..vouched /\ NotNewer(0, 0) /\ 0 \in Entries
      /\ loaded \in [Replicas -> BOOLEAN] /\ dirty \in [Replicas -> BOOLEAN]
  BY Ages DEF StoreInv, StoreTypeOK, NotNewer, Entries
<1>1. CASE UNCHANGED <<mem, cm, seen, fresh, loaded, dirty>> /\ vouched' = vouched
  BY <1>1, StoreUnchanged
<1>2. CASE Set(leader, Nil) /\ UNCHANGED <<cm, seen, fresh, loaded, dirty>> /\ vouched' = vouched
  BY <1>0, <1>2, SetKeeps
<1>3. CASE Set(leader, 0) /\ UNCHANGED <<cm, seen, fresh, loaded, dirty>> /\ vouched' = 0
  BY <1>0, <1>3, SetKeeps
<1>4. CASE persistToConfigMap(leader) /\ UNCHANGED <<mem, seen, loaded, dirty, vouched>>
  BY <1>0, <1>4, PersistKeeps
<1>5. \/ UNCHANGED <<mem, cm, seen, fresh, loaded, dirty>> /\ vouched' = vouched
      \/ Set(leader, Nil) /\ UNCHANGED <<cm, seen, fresh, loaded, dirty>> /\ vouched' = vouched
      \/ Set(leader, 0) /\ UNCHANGED <<cm, seen, fresh, loaded, dirty>> /\ vouched' = 0
      \/ persistToConfigMap(leader) /\ UNCHANGED <<mem, seen, loaded, dirty, vouched>>
  <2>1. CASE Reconcile \/ AddFinalizer \/ RemoveFinalizer \/ startCanary \/ Step \/ updateStatus
               \/ UpdateStatus \/ Conflict \/ PersistFails
    BY <2>1 DEF Reconcile, AddFinalizer, RemoveFinalizer, startCanary, Step, updateStatus,
                UpdateStatus, Conflict, PersistFails, store, history
  <2>2. CASE runDeletionCleanup \/ DeregisterUnexposed
    BY <2>2 DEF runDeletionCleanup, DeregisterUnexposed, Deregister, store
  <2>3. CASE HeartbeatOK \/ HeartbeatFails
    BY <2>3 DEF HeartbeatOK, HeartbeatFails, store, history
  <2>4. CASE Register \/ Persisted
    BY <2>4 DEF Register, Persisted, store, history
  <2> QED BY <2>1, <2>2, <2>3, <2>4 DEF Worker
<1> QED BY <1>1, <1>2, <1>3, <1>4, <1>5

LEMMA NextStore ==
  ASSUME StoreInv, leader \in Replicas, Next
  PROVE  StoreInv'
<1>1. CASE Worker \/ PersistFails
  BY <1>1, WorkerKeeps
<1>2. CASE EditObject \/ ChangeHealth
  BY <1>2, StoreUnchanged DEF EditObject, ChangeHealth, store, history
<1>3. CASE Request
  <2>1. PICK r \in Replicas : \/ handleRegister(r) /\ vouched' = 0
                              \/ handleDeregister(r) /\ vouched' = vouched
    BY <1>3 DEF Request
  <2>2. CASE handleRegister(r) /\ vouched' = 0
    <3>1. /\ NotNewer(0, 0) /\ 0 \in Entries /\ 0 \in 0..vouched
          /\ loaded' \in [Replicas -> BOOLEAN] /\ dirty' \in [Replicas -> BOOLEAN]
      BY <2>2, Ages DEF handleRegister, StoreInv, StoreTypeOK, NotNewer, Entries
    <3> QED BY <2>2, <3>1, SetKeeps DEF handleRegister
  <2> QED BY <2>1, <2>2, OperationKeeps
<1>4. CASE Background \/ OtherAgent \/ Load
  BY <1>4, OperationKeeps DEF Background, OtherAgent, Load, history
<1>5. CASE Sync
  BY <1>5, SyncKeeps DEF Sync, history
<1>6. CASE Fault
  BY <1>6, OperationKeeps, StoreUnchanged DEF Fault, store, history
<1>7. CASE Crash
  BY <1>7, RestartKeeps DEF Crash
<1>8. CASE Tick
  BY <1>8, TickKeeps DEF Tick
<1> QED BY <1>1, <1>2, <1>3, <1>4, <1>5, <1>6, <1>7, <1>8 DEF Next

-----------------------------------------------------------------------------
(* The first two theorems.                                                 *)

Inv == TypeOK /\ VouchInv

LEMMA InitInv == Init => Inv
<1> SUFFICES ASSUME Init PROVE Inv
  OBVIOUS
<1>1. StoreTypeOK /\ vouched \in 0..Old /\ VouchInv
  BY Ages DEF Init, StoreInit, StoreTypeOK, VouchInv, NotNewer, Entries
<1>2. obj \in Objects /\ ad \in Objects /\ due \in Dues
  BY ObjectTypes, DueTypes DEF Init
<1>3. events \in 0..MaxEvents /\ pc \in Points /\ agent \in Healths
  BY EventsAssumption DEF Init, Points
<1>4. RestTypeOK
  BY <1>2, <1>3, NoFailures DEF Init, RestTypeOK
<1> QED BY <1>1, <1>4, TypeOKParts DEF Inv

LEMMA NextInv == Inv /\ [Next]_vars => Inv'
<1> SUFFICES ASSUME Inv, [Next]_vars PROVE Inv'
  OBVIOUS
<1>1. StoreInv /\ RestTypeOK /\ leader \in Replicas
  BY TypeOKParts DEF Inv, StoreInv, RestTypeOK
<1>2. CASE Next
  <2>1. StoreInv' /\ RestTypeOK'
    BY <1>1, <1>2, NextStore, NextTypes
  <2> QED BY <2>1 DEF Inv, TypeOK, StoreInv, RestTypeOK
<1>3. CASE UNCHANGED vars
  BY <1>3 DEF Inv, TypeOK, StoreTypeOK, VouchInv, NotNewer, vars, store, reconciler, world, history
<1> QED BY <1>2, <1>3

LEMMA SpecInv == Spec => []Inv
  BY InitInv, NextInv, PTL DEF Spec

\* The variables of the registry and the reconcile keep their types; in particular
\* no requeue is longer than the validated heartbeat interval
\* (agentdeployment_controller.go:130, registry.go:77).
THEOREM TypeCorrect == Spec => []TypeOK
<1>1. Inv => TypeOK
  BY DEF Inv
<1> QED BY <1>1, SpecInv, PTL

\* No replica ever lists an agent longer than the TTL after its last handshake or
\* POST /agents, whatever restarts, lost writes and the other replicas do
\* (registry.go:250, registry.go:330).
THEOREM NeverListsTheDead == Spec => []ListedOnlyIfVouched
<1>1. Inv => ListedOnlyIfVouched
  BY Ages DEF Inv, TypeOK, StoreTypeOK, VouchInv, NotNewer, ListedOnlyIfVouched, Listed
<1> QED BY <1>1, SpecInv, PTL

-----------------------------------------------------------------------------
(* While a reconcile is past the finalizer, the object cannot vanish, and  *)
(* the reconcile is due at the latest now.                                 *)

PastFinalizer ==
  Points \ {"idle", "addFinalizer", "cleanup", "persistCleanup", "removeFinalizer"}

Kept(o) == o.there /\ o.fin

FlightInv ==
  /\ pc \in PastFinalizer => Kept(obj) /\ Kept(ad) /\ due <= 0
  /\ pc = "addFinalizer" /\ current => obj.there /\ due <= 0
  /\ pc \in {"heartbeat", "register", "persistRegister"} => ad.expose /\ ad.phase = "Running"

LEMMA KeptFields ==
  ASSUME NEW a \in Objects
  PROVE  /\ \A phase \in Phases : /\ Kept([a EXCEPT !.phase = phase]) <=> Kept(a)
                                  /\ [a EXCEPT !.phase = phase].phase = phase
                                  /\ [a EXCEPT !.phase = phase].expose = a.expose
         /\ \A b : /\ Kept([a EXCEPT !.registered = b]) <=> Kept(a)
                   /\ [a EXCEPT !.registered = b].phase = a.phase
                   /\ [a EXCEPT !.registered = b].expose = a.expose
  BY DEF Objects, Kept

LEMMA NowEarlier == due \in Dues => Now <= due /\ Now <= 0 /\ Now \in Dues
  BY DueTypes DEF Now

LEMMA IdleFlight == pc' = "idle" => FlightInv'
  BY DEF FlightInv, PastFinalizer

LEMMA WorkerFlight ==
  ASSUME RestTypeOK, FlightInv, Worker \/ PersistFails
  PROVE  FlightInv'
<1> USE DEF PastFinalizer, Points, PersistPoints
<1>0. \/ pc' = "idle"
      \/ Reconcile \/ AddFinalizer \/ runDeletionCleanup \/ updateStatus
      \/ DeregisterUnexposed \/ HeartbeatOK \/ HeartbeatFails \/ Persisted
      \/ Step /\ Goto("promoted")
      \/ Register /\ pc' # "idle"
      \/ PersistFails /\ pc' = "status"
  <2>1. CASE RemoveFinalizer \/ startCanary \/ UpdateStatus \/ Conflict
    BY <2>1 DEF RemoveFinalizer, startCanary, UpdateStatus, Conflict, Return, Retry
  <2>2. Step => pc' = "idle" \/ Goto("promoted")
    BY DEF Step, Return
  <2>3. PersistFails => pc' \in {"idle", "status"}
    BY DEF PersistFails, Retry, Goto
  <2> QED BY <2>1, <2>2, <2>3 DEF Worker
<1>1. CASE Reconcile
  <2>1. ad' = obj /\ obj' = obj /\ obj.there /\ due' = Now /\ pc' = Dispatch(obj)
    BY <1>1 DEF Reconcile
  <2>2. due' <= 0
    BY <2>1, NowEarlier DEF RestTypeOK
  <2>3. /\ pc' \in {"cleanup", "addFinalizer", "step", "start", "children"}
        /\ pc' \in {"step", "start", "children"} => obj.fin
    BY <2>1 DEF Dispatch
  <2> QED BY <2>1, <2>2, <2>3 DEF FlightInv, Kept
<1>2. CASE AddFinalizer
  <2>1. obj' = [obj EXCEPT !.fin = TRUE] /\ ad' = obj' /\ pc' = "children" /\ due' = due
    BY <1>2 DEF AddFinalizer, Goto
  <2>2. obj.there /\ due <= 0
    BY <1>2 DEF AddFinalizer, FlightInv
  <2>3. Kept(obj')
    BY <2>1, <2>2 DEF RestTypeOK, Objects, Kept
  <2> QED BY <2>1, <2>2, <2>3 DEF FlightInv
<1>3. CASE runDeletionCleanup
  BY <1>3 DEF runDeletionCleanup, Deregister, Goto, FlightInv
<1>4. CASE Step /\ Goto("promoted")
  <2>1. CASE obj' = [obj EXCEPT !.phase = "Running"] /\ ad' = obj'
    <3>1. Kept(obj) /\ due <= 0
      BY <1>4 DEF Step, FlightInv
    <3>2. Kept(obj')
      BY <2>1, <3>1, KeptFields DEF RestTypeOK, Phases
    <3> QED BY <1>4, <2>1, <3>1, <3>2 DEF Goto, FlightInv
  <2>2. CASE Return(0)
    BY <1>4, <2>2 DEF Return, Goto
  <2> QED BY <1>4, <2>1, <2>2 DEF Step
<1>5. CASE updateStatus
  <2>1. PICK phase \in DerivedPhases(obj) : ad' = [obj EXCEPT !.phase = phase]
    BY <1>5 DEF updateStatus
  <2>2. phase \in Phases
    BY <2>1 DEF DerivedPhases, Phases
  <2>3. Kept(obj) /\ due <= 0 /\ obj' = obj /\ due' = due /\ pc' = RegistrationCall(ad')
    BY <1>5 DEF updateStatus, FlightInv
  <2>4. Kept(ad')
    BY <2>1, <2>2, <2>3, KeptFields DEF RestTypeOK
  <2>5. /\ pc' \in {"deregister", "status", "heartbeat", "register"}
        /\ pc' \in {"heartbeat", "register"} => ad'.expose /\ ad'.phase = "Running"
    BY <2>3 DEF RegistrationCall
  <2> QED BY <2>3, <2>4, <2>5 DEF FlightInv
<1>6. CASE DeregisterUnexposed
  <2>1. Kept(obj) /\ Kept(ad) /\ due <= 0
    BY <1>6 DEF DeregisterUnexposed, FlightInv
  <2>2. obj' = obj /\ due' = due /\ pc' \in {"status", "persistDeregister"}
    BY <1>6 DEF DeregisterUnexposed, Deregister, Goto
  <2>3. Kept(ad')
    BY <1>6, <2>1, KeptFields DEF DeregisterUnexposed, RestTypeOK
  <2> QED BY <2>1, <2>2, <2>3 DEF FlightInv
<1>7. CASE HeartbeatOK
  <2>1. pc = "heartbeat" /\ pc' \in {"register", "status"} /\ UNCHANGED <<obj, ad, due>>
    BY <1>7 DEF HeartbeatOK, Goto
  <2> QED BY <2>1 DEF FlightInv
<1>8. CASE HeartbeatFails
  <2>1. pc = "heartbeat" /\ pc' \in {"status", "persistStrike"} /\ UNCHANGED <<obj, due>>
    BY <1>8 DEF HeartbeatFails, Goto
  <2>2. ad' = ad \/ ad' = [ad EXCEPT !.registered = FALSE]
    BY <1>8 DEF HeartbeatFails
  <2>3. Kept(ad')
    BY <2>1, <2>2, KeptFields DEF FlightInv, RestTypeOK
  <2> QED BY <2>1, <2>3 DEF FlightInv
<1>9. CASE Register /\ pc' # "idle"
  <2>1. /\ pc \in {"register", "promoted"} /\ UNCHANGED <<obj, ad, due>>
        /\ \/ pc' = "status" \/ pc' = "persistPromoted"
           \/ pc = "register" /\ pc' = "persistRegister"
    BY <1>9 DEF Register, Goto, Return
  <2> QED BY <2>1 DEF FlightInv
<1>10. CASE Persisted
  <2>1. /\ pc \in PersistPoints /\ UNCHANGED <<obj, due>>
        /\ pc' = IF pc = "persistCleanup" THEN "removeFinalizer"
                 ELSE IF pc = "persistPromoted" THEN "promotedStatus" ELSE "status"
    BY <1>10 DEF Persisted, Goto
  <2>2. \/ pc = "persistCleanup" /\ pc' = "removeFinalizer"
        \/ pc # "persistCleanup" /\ pc' \in {"promotedStatus", "status"}
    BY <2>1
  <2>3. Kept(ad) => Kept(ad')
    BY <1>10, KeptFields DEF Persisted, RestTypeOK
  <2> QED BY <2>1, <2>2, <2>3 DEF FlightInv
<1>11. CASE PersistFails /\ pc' = "status"
  <2>1. pc \in PersistPoints \ {"persistCleanup"} /\ UNCHANGED <<obj, ad, due>>
    BY <1>11 DEF PersistFails, Goto, Retry
  <2> QED BY <1>11, <2>1 DEF FlightInv
<1> QED BY <1>0, <1>1, <1>2, <1>3, <1>4, <1>5, <1>6, <1>7, <1>8, <1>9, <1>10, <1>11, IdleFlight

LEMMA NextFlight ==
  ASSUME RestTypeOK, FlightInv, Next
  PROVE  FlightInv'
<1>0. due \in Dues /\ due \in Int /\ Now <= due
  BY NowEarlier, DueTypes DEF RestTypeOK
<1>1. CASE Worker \/ PersistFails
  BY <1>1, WorkerFlight
<1>2. CASE EditObject
  <2>1. pc' = pc /\ ad' = ad /\ due' = Now /\ current' = (pc = "idle")
    BY <1>2 DEF EditObject, Edited
  <2>2. Kept(obj) => Kept(obj')
    BY <1>2 DEF EditObject, Kept, RestTypeOK, Objects
  <2>3. due <= 0 => due' <= 0
    BY <1>0, <2>1 DEF Now
  <2>4. pc = "addFinalizer" => ~current'
    BY <2>1
  <2> QED BY <2>1, <2>2, <2>3, <2>4 DEF FlightInv
<1>3. CASE ChangeHealth
  <2>1. due <= 0 => due' <= 0
    BY <1>0, <1>3 DEF ChangeHealth, Now
  <2> QED BY <1>3, <2>1 DEF ChangeHealth, FlightInv, Kept
<1>4. CASE UNCHANGED reconciler
  BY <1>4 DEF reconciler, FlightInv, Kept
<1>5. CASE Fault \/ Crash
  <2>1. pc' = "idle" \/ UNCHANGED reconciler
    BY <1>5 DEF Fault, Crash, Retry
  <2> QED BY <1>4, <2>1, IdleFlight
<1>6. CASE Tick
  <2>1. UNCHANGED <<pc, obj, ad, current>>
    BY <1>6 DEF Tick
  <2>2. obj.there /\ due <= 0 => due' <= 0
    BY <1>0, <1>6, Intervals DEF Tick
  <2> QED BY <2>1, <2>2 DEF FlightInv, Kept
<1> QED BY <1>1, <1>2, <1>3, <1>4, <1>5, <1>6 DEF Next, Request, Background, OtherAgent, Load, Sync

-----------------------------------------------------------------------------
(* While the agent is steady, its entry ages only as the requeue comes     *)
(* closer, and a heartbeat that is under way has set both back.            *)

Renewed == {"persistRegister", "persistPromoted", "status", "promotedStatus"}

SteadyInv ==
  steady =>
    /\ Kept(obj)
    /\ pc \in Renewed \cup {"idle", "children", "heartbeat"}
    /\ mem[leader] >= 0 /\ due <= HealthInterval
    /\ mem[leader] + due <= HealthInterval + Delay
    /\ pc \in Renewed => mem[leader] + due <= 0
    /\ pc \in {"persistRegister", "status"} => ad.expose /\ ad.phase = "Running"

\* The facts of arithmetic the steps below rest on.
LEMMA SteadyTypes ==
  ASSUME Inv
  PROVE  /\ mem[leader] \in Int /\ due \in Int /\ Delay \in Nat /\ HealthInterval \in Nat
         /\ due >= -Delay /\ Now <= due /\ Now <= 0 /\ Now \in Int /\ TTL \in Nat
         /\ leader \in Replicas /\ mem[leader] <= Old /\ RestTypeOK /\ mem \in [Replicas -> Entries]
<1>1. RestTypeOK /\ StoreTypeOK /\ leader \in Replicas /\ mem \in [Replicas -> Entries] /\ due \in Dues
  BY TypeOKParts DEF Inv, RestTypeOK, StoreTypeOK
<1>2. mem[leader] \in Int /\ mem[leader] <= Old
  BY <1>1, EntryTypes, Ages DEF Entries
<1>3. due \in Int /\ due >= -Delay /\ Now <= due /\ Now <= 0 /\ Now \in Int
  BY <1>1, DueTypes, NowEarlier
<1> QED BY <1>1, <1>2, <1>3, Intervals, Ages, TimingAssumption

LEMMA SteadyListed == Inv /\ SteadyInv /\ InTime => SteadyIsListed
<1> SUFFICES ASSUME Inv, SteadyInv, InTime, steady PROVE Listed(leader)
  BY DEF SteadyIsListed
<1>1. mem[leader] >= 0 /\ mem[leader] + due <= HealthInterval + Delay
  BY DEF SteadyInv
<1> QED BY <1>1, SteadyTypes DEF InTime, Listed

\* A step that returns, or is an event, and leaves the entry alone.
LEMMA SteadyEarlier ==
  ASSUME Inv, SteadyInv, steady' => steady, Kept(obj) => Kept(obj'), mem'[leader'] = mem[leader],
         pc' = "idle" \/ (pc' = pc /\ ad' = ad), due' = Now \/ due' = due
  PROVE  SteadyInv'
<1> SUFFICES ASSUME steady' PROVE SteadyInv'
  BY DEF SteadyInv
<1>1. steady /\ Kept(obj')
  BY DEF SteadyInv
<1>2. /\ mem'[leader'] >= 0 /\ due' <= HealthInterval
      /\ mem'[leader'] + due' <= HealthInterval + Delay
  BY <1>1, SteadyTypes DEF SteadyInv
<1>3. pc' \in Renewed => mem'[leader'] + due' <= 0
  BY <1>1, SteadyTypes DEF SteadyInv, Renewed
<1> QED BY <1>1, <1>2, <1>3 DEF SteadyInv, Renewed

\* The reconcile returns after a heartbeat.
LEMMA SteadyReturns ==
  ASSUME Inv, SteadyInv, steady' => steady, Kept(obj'), mem'[leader'] = mem[leader],
         pc \in Renewed, pc' = "idle", due' \in 0..HealthInterval
  PROVE  SteadyInv'
<1> SUFFICES ASSUME steady' PROVE SteadyInv'
  BY DEF SteadyInv
<1>1. /\ mem'[leader'] >= 0 /\ due' <= HealthInterval
      /\ mem'[leader'] + due' <= HealthInterval + Delay
  BY SteadyTypes DEF SteadyInv
<1> QED BY <1>1 DEF SteadyInv, Renewed

\* A heartbeat or handshake renews the entry.
LEMMA SteadyRenews ==
  ASSUME Inv, FlightInv, Set(leader, 0), UNCHANGED <<leader, obj, ad, due>>,
         pc \in {"heartbeat", "register", "promoted"}, pc' \in Renewed,
         pc' \in {"persistRegister", "status"} => pc # "promoted"
  PROVE  SteadyInv'
<1>1. Kept(obj) /\ due <= 0
  BY DEF FlightInv, PastFinalizer, Points
<1>2. pc' \in {"persistRegister", "status"} => ad.expose /\ ad.phase = "Running"
  BY DEF FlightInv
<1>3. mem'[leader'] = 0
  BY SteadyTypes DEF Set
<1> QED BY <1>1, <1>2, <1>3, SteadyTypes DEF SteadyInv, Kept, Renewed

LEMMA WorkerSteady ==
  ASSUME Inv, FlightInv, SteadyInv, Worker \/ PersistFails
  PROVE  SteadyInv'
<1> USE DEF Renewed
<1>0. CASE ~steady'
  BY <1>0 DEF SteadyInv
<1>1. CASE Reconcile /\ steady'
  <2>1. /\ steady /\ pc = "idle" /\ pc' = "children" /\ due' = Now
        /\ UNCHANGED <<mem, leader, obj>>
    BY <1>1 DEF Reconcile, store
  <2> QED BY <2>1, SteadyTypes DEF SteadyInv, Kept
<1>2. CASE updateStatus /\ steady'
  <2>1. steady /\ pc = "children" /\ pc' = "heartbeat" /\ UNCHANGED <<mem, leader, obj, due>>
    BY <1>2 DEF updateStatus, store
  <2> QED BY <2>1 DEF SteadyInv, Kept
<1>3. CASE (AddFinalizer \/ RemoveFinalizer \/ startCanary \/ Step) /\ steady'
  <2>1. steady /\ pc \notin Renewed \cup {"idle", "children", "heartbeat"}
    BY <1>3 DEF AddFinalizer, RemoveFinalizer, startCanary, Step, history
  <2> QED BY <2>1 DEF SteadyInv
<1>4. CASE HeartbeatOK /\ steady'
  <2>1. CASE mem[leader] = Nil
    <3>1. steady
      BY <1>4, <2>1 DEF HeartbeatOK, history
    <3> QED BY <2>1, <3>1, Ages DEF SteadyInv
  <2>2. CASE mem[leader] # Nil
    BY <1>4, <2>2, SteadyRenews DEF HeartbeatOK, Goto
  <2> QED BY <2>1, <2>2
<1>5. CASE Register /\ steady'
  BY <1>5, SteadyRenews DEF Register, Goto
<1>6. CASE Persisted /\ steady'
  <2>1. /\ steady /\ UNCHANGED <<mem, leader, obj, due>> /\ pc \in {"persistRegister", "persistPromoted"}
        /\ pc' = IF pc = "persistPromoted" THEN "promotedStatus" ELSE "status"
    <3>1. steady /\ UNCHANGED <<mem, leader, obj, due>> /\ pc \in PersistPoints
      BY <1>6 DEF Persisted, Goto, history
    <3>2. pc \in {"persistRegister", "persistPromoted"}
      BY <3>1 DEF SteadyInv, PersistPoints
    <3> QED BY <1>6, <3>1, <3>2 DEF Persisted, Goto
  <2>2. ad'.expose = ad.expose /\ ad'.phase = ad.phase
    BY <1>6, SteadyTypes, KeptFields DEF Persisted, RestTypeOK
  <2> QED BY <2>1, <2>2 DEF SteadyInv, Kept
<1>7. CASE PersistFails /\ steady'
  <2>1. steady /\ UNCHANGED <<mem, leader, obj>> /\ pc \in {"persistRegister", "persistPromoted"}
    <3>1. steady /\ UNCHANGED <<mem, leader, obj>> /\ pc \in PersistPoints
      BY <1>7 DEF PersistFails, Goto, Retry, store, history
    <3> QED BY <3>1 DEF SteadyInv, PersistPoints
  <2>2. CASE pc = "persistPromoted"
    BY <1>7, <2>1, <2>2, SteadyEarlier DEF PersistFails, Retry
  <2>3. CASE pc = "persistRegister"
    BY <1>7, <2>1, <2>3 DEF PersistFails, Goto, SteadyInv, Kept
  <2> QED BY <2>1, <2>2, <2>3
<1>8. CASE UpdateStatus /\ steady'
  <2>1. steady /\ UNCHANGED <<mem, leader>> /\ pc \in {"status", "promotedStatus"} /\ pc' = "idle"
    BY <1>8 DEF UpdateStatus, Return, store, history
  <2>2. Kept(obj')
    BY <1>8, <2>1 DEF UpdateStatus, FlightInv, PastFinalizer, Points, Kept
  <2>3. pc = "status" => Requeue(ad) = HealthInterval
    BY <2>1 DEF SteadyInv, Requeue
  <2>4. due' \in 0..HealthInterval
    BY <1>8, <2>3, Intervals DEF UpdateStatus, Return
  <2> QED BY <2>1, <2>2, <2>4, SteadyReturns
<1>9. CASE Conflict /\ steady'
  <2>1. steady /\ UNCHANGED <<mem, leader, obj>> /\ pc' = "idle" /\ due' = Now
    BY <1>9 DEF Conflict, Retry, store, history
  <2> QED BY <2>1, SteadyEarlier
<1>10. (runDeletionCleanup \/ DeregisterUnexposed \/ HeartbeatFails) => ~steady'
  BY DEF runDeletionCleanup, DeregisterUnexposed, Deregister, HeartbeatFails
<1> QED BY <1>0, <1>1, <1>2, <1>3, <1>4, <1>5, <1>6, <1>7, <1>8, <1>9, <1>10 DEF Worker

LEMMA NextSteady ==
  ASSUME Inv, FlightInv, SteadyInv, InTime, Next
  PROVE  SteadyInv'
<1>1. CASE Worker \/ PersistFails
  BY <1>1, WorkerSteady
<1>2. CASE EditObject
  <2>1. Kept(obj) => Kept(obj')
    BY <1>2, SteadyTypes DEF EditObject, Kept, RestTypeOK, Objects
  <2> QED BY <1>2, <2>1, SteadyEarlier DEF EditObject, Edited, store, history
<1>3. CASE ChangeHealth
  BY <1>3, SteadyEarlier DEF ChangeHealth, store, history
<1>4. CASE (Background \/ OtherAgent \/ Sync) /\ steady
  <2>1. UNCHANGED <<reconciler, steady>>
    BY <1>4 DEF Background, OtherAgent, Sync, history
  <2>2. Listed(leader)
    BY <1>4, SteadyListed DEF SteadyIsListed
  <2>3. mem'[leader] = mem[leader]
    BY <1>4, <2>2, SteadyTypes DEF Background, OtherAgent, Sync, sweepExpired, PersistLater,
       PersistOther, SyncConfigMap, Set, Listed
  <2> QED BY <2>1, <2>3, SteadyEarlier DEF reconciler
<1>5. CASE Request /\ steady'
  <2>1. steady /\ UNCHANGED reconciler
    BY <1>5 DEF Request
  <2>2. PICK r \in Replicas : \/ handleRegister(r)
                              \/ handleDeregister(r) /\ r # leader
    <3>1. PICK r \in Replicas : \/ handleRegister(r)
                                \/ handleDeregister(r) /\ (steady' <=> steady /\ r # leader)
      BY <1>5 DEF Request
    <3> QED BY <1>5, <3>1
  <2>3. mem'[leader] \in {0, mem[leader]}
    BY <2>2, SteadyTypes DEF handleRegister, handleDeregister, Set
  <2>4. CASE mem'[leader] = mem[leader]
    BY <2>1, <2>4, SteadyEarlier DEF reconciler
  <2>5. CASE mem'[leader] = 0
    BY <2>1, <2>5, SteadyTypes DEF SteadyInv, reconciler, Kept
  <2> QED BY <2>3, <2>4, <2>5
<1>6. CASE Load /\ steady'
  <2>1. steady /\ UNCHANGED reconciler
    BY <1>6 DEF Load
  <2>2. mem'[leader] = mem[leader]
    BY <1>6, SteadyTypes DEF Load, loadFromConfigMap, Set
  <2> QED BY <2>1, <2>2, SteadyEarlier DEF reconciler
<1>7. CASE Fault
  <2>1. CASE UNCHANGED reconciler
    BY <1>7, <2>1, SteadyEarlier DEF Fault, PersistLaterFails, LoadFails, reconciler, history, store, Retry
  <2>2. CASE Retry /\ UNCHANGED <<store, obj, failures>>
    BY <1>7, <2>2, SteadyEarlier DEF Fault, Retry, store, history
  <2> QED BY <1>7, <2>1, <2>2 DEF Fault
<1>8. CASE Crash /\ steady'
  <2>1. steady /\ UNCHANGED reconciler
    BY <1>8 DEF Crash
  <2>2. mem'[leader] = mem[leader]
    BY <1>8, SteadyTypes DEF Crash, Restart, Set
  <2> QED BY <2>1, <2>2, SteadyEarlier DEF reconciler
<1>9. CASE Tick /\ steady
  <2>1. UNCHANGED <<obj, ad, pc, leader, steady>> /\ due' = due - 1
    BY <1>9, SteadyTypes, Intervals DEF Tick, SteadyInv, Kept
  <2>2. mem[leader] >= 0 /\ mem[leader] <= TTL
    BY <1>9, SteadyListed DEF SteadyIsListed, Listed
  <2>3. mem'[leader] = mem[leader] + 1
    <3>1. mem'[leader] = Older(mem[leader])
      BY <1>9, SteadyTypes DEF Tick, StoreTick
    <3> QED BY <2>2, <3>1, SteadyTypes, Ages DEF Older
  <2> QED BY <2>1, <2>2, <2>3, SteadyTypes DEF SteadyInv, Kept
<1>10. CASE ~steady'
  BY <1>10 DEF SteadyInv
<1>11. (Background \/ OtherAgent \/ Sync \/ Tick) => steady' = steady
  BY DEF Background, OtherAgent, Sync, Tick, history
<1> QED BY <1>1, <1>2, <1>3, <1>4, <1>5, <1>6, <1>7, <1>8, <1>9, <1>10, <1>11 DEF Next

\* If heartbeats come in time, an agent that is exposed, running and answers every
\* probe is never missing from the leader's list, for every TTL and interval and
\* whatever sweepers, other replicas and failing writes do
\* (agentdeployment_controller.go:683, registry.go:159).  The load at the leader's
\* start and an admin's DELETE end `steady`, so nothing is said till the next probe.
THEOREM NeverDropsTheLiving == ASSUME InTime PROVE Spec => []SteadyIsListed
<1>1. Init => FlightInv /\ SteadyInv
  BY DEF Init, FlightInv, PastFinalizer, SteadyInv
<1>2. Inv /\ FlightInv /\ SteadyInv /\ [Next]_vars => FlightInv' /\ SteadyInv'
  <2> SUFFICES ASSUME Inv, FlightInv, SteadyInv, [Next]_vars PROVE FlightInv' /\ SteadyInv'
    OBVIOUS
  <2>1. CASE Next
    BY <2>1, NextFlight, NextSteady, SteadyTypes
  <2>2. CASE UNCHANGED vars
    BY <2>2 DEF FlightInv, SteadyInv, Kept, vars, store, reconciler, world, history
  <2> QED BY <2>1, <2>2
<1>3. Inv /\ SteadyInv => SteadyIsListed
  BY SteadyListed
<1> QED BY <1>1, <1>2, <1>3, SpecInv, PTL DEF Spec

=============================================================================
