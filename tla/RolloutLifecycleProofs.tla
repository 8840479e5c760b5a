----------------------- MODULE RolloutLifecycleProofs -----------------------
(***************************************************************************)
(* CanaryRollout implements RolloutLifecycle, for every set of images,     *)
(* every plan and every bound, when the reconciler reads its own writes.   *)
(***************************************************************************)
EXTENDS CanaryRolloutProofs

\* What the last calls of a rollback or promotion know of the stable Deployment,
\* and what startCanary knows of the image it starts with.
LiveInv ==
  /\ pc \in RollbackPoints \ {"rbDep"} => owned.dep \in {ad.status.stable, NoImage}
  /\ pc \in PromotePoints \ {"prDep"} => owned.dep \in {ad.status.canary, NoImage}
  /\ pc \in StartPoints => ad.spec.image # ad.status.stable

StepInv == Inv /\ NamedInv /\ AgreeInv /\ TeardownInv /\ LiveInv

LEMMA StableImage ==
  ASSUME Inv, NEW im
  PROVE  SetStableImage(im).dep = im /\ SetStableImage(im).route = owned.route
  BY DEF Inv, TypeOK, SetStableImage, Owned

LEMMA DriftImage ==
  ASSUME Inv, DeleteOutOfBand
  PROVE  \/ owned'.dep = NoImage /\ owned'.route = owned.route
         \/ owned'.dep = owned.dep /\ owned'.route \in {owned.route, Nil}
  <1>1. PICK k \in Drift : owned' = Without(k)
    BY DEF DeleteOutOfBand
  <1>2. k \in {"dep", "cdep", "csvc", "route", "hpa"}
    BY BoundsAssumption
  <1>3. owned \in Owned
    BY DEF Inv, TypeOK
  <1>4. QED
    BY <1>1, <1>2, <1>3 DEF Without, Owned

\* The calls that touch neither the stable Deployment's image nor the HTTPRoute.
OtherCalls ==
  \/ PauseHPA \/ EnsureCanaryDeployment \/ EnsureCanaryService \/ deleteCanaryDeployment
  \/ deleteCanaryService \/ restoreHPA \/ reconcileHPA

LEMMA OtherCallsKeep ==
  ASSUME Inv, OtherCalls
  PROVE  owned'.dep = owned.dep /\ owned'.route = owned.route /\ NoWrite
  BY DEF Inv, TypeOK, OtherCalls, PauseHPA, EnsureCanaryDeployment, EnsureCanaryService,
         deleteCanaryDeployment, deleteCanaryService, restoreHPA, reconcileHPA, Call, Move, Owned

\* A call that keeps the image, inside a teardown or outside of any.
LEMMA CallLive ==
  ASSUME ~CacheLag, LiveInv,
         NEW from \in Points \ {"idle"}, NEW next, NEW o, Call(from, next, o),
         next \in RollbackPoints \ {"rbDep"} => o.dep \in {ad.status.stable, NoImage},
         next \in PromotePoints \ {"prDep"} => o.dep \in {ad.status.canary, NoImage},
         next \in StartPoints => from \in StartPoints
  PROVE  LiveInv'
  <1>1. pc = from /\ pc' = next /\ owned' = o /\ (next # "idle" => ad' = ad)
    BY CallMoves DEF Move, Goto
  <1>2. "idle" \notin RollbackPoints \cup PromotePoints \cup StartPoints
    BY DEF RollbackPoints, PromotePoints, StartPoints
  <1>3. QED
    BY <1>1, <1>2 DEF LiveInv

LEMMA CallsLive ==
  ASSUME ~CacheLag, Inv, NamedInv, AgreeInv, LiveInv,
         OtherCalls \/ EnsureHTTPRoute \/ RollbackImage \/ PromoteImage \/ deleteHTTPRoute
           \/ reconcileDeployment
  PROVE  LiveInv'
  <1>a. owned \in Owned /\ (pc # "idle" => ad \in ADs)
    BY DEF Inv, TypeOK
  <1>1. CASE PauseHPA
    BY <1>1, CallLive DEF PauseHPA, Points, StartPoints, RollbackPoints, PromotePoints
  <1>2. CASE EnsureCanaryDeployment \/ EnsureCanaryService \/ EnsureHTTPRoute
    <2>1. PICK from \in HealPoints \cup WeightPoints : \E next, o :
            Call(from, next, o)
              /\ next \in {"healSvc", "weightSvc", "weightRoute", "weightStatus", HealRoute(ad), StepKind(ad)}
      BY <1>2 DEF EnsureCanaryDeployment, EnsureCanaryService, EnsureHTTPRoute, HealPoints, WeightPoints
    <2>2. PICK next, o :
            Call(from, next, o)
              /\ next \in {"healSvc", "weightSvc", "weightRoute", "weightStatus", HealRoute(ad), StepKind(ad)}
      BY <2>1
    <2>3. from \in Points \ {"idle"} /\ pc = from
      BY <2>2 DEF Call, Move, Points, HealPoints, WeightPoints
    <2>4. next \notin (RollbackPoints \ {"rbDep"}) \cup (PromotePoints \ {"prDep"}) \cup StartPoints
      BY <1>a, <2>2, <2>3, StepKindPoint, HealRoutePoint DEF RollbackPoints, PromotePoints, StartPoints
    <2>5. QED
      BY <2>2, <2>3, <2>4, CallLive
  <1>3. CASE RollbackImage
    <2> DEFINE o == IF ad.status.stable # NoImage /\ owned.dep # NoImage
                      THEN SetStableImage(ad.status.stable) ELSE owned
    <2>1. Call("rbDep", "rbCanary", o) /\ pc = "rbDep"
      BY <1>3 DEF RollbackImage, Call, Move
    <2>2. ad.status.stable # NoImage
      BY <2>1 DEF NamedInv, Named, Deployed, AgreeInv, InProgress, RolloutPoints, RollbackPoints
    <2>3. o.dep \in {ad.status.stable, NoImage}
      BY <2>2, StableImage
    <2> HIDE DEF o
    <2>4. QED
      BY <2>1, <2>3, CallLive DEF Points, RollbackPoints, PromotePoints, StartPoints
  <1>4. CASE PromoteImage
    <2>1. CASE owned.dep = NoImage
      BY <1>4, <2>1, MoveIsCall, CallLive DEF PromoteImage, Points, RollbackPoints, PromotePoints, StartPoints
    <2>2. CASE owned.dep # NoImage
      <3> DEFINE o == SetStableImage(ad.status.canary)
      <3>1. Call("prDep", "prCanary", o) /\ o.dep = ad.status.canary
        BY <1>4, <2>2, StableImage, MoveIsCall DEF PromoteImage
      <3> HIDE DEF o
      <3>2. QED
        BY <3>1, CallLive DEF Points, RollbackPoints, PromotePoints, StartPoints
    <2>3. QED
      BY <2>1, <2>2
  <1>5. CASE deleteCanaryDeployment \/ deleteCanaryService \/ deleteHTTPRoute \/ restoreHPA
    <2>1. /\ owned'.dep = owned.dep /\ ad' = ad
          /\ \/ pc \in RollbackPoints \ {"rbDep"} /\ pc' \in RollbackPoints \ {"rbDep"}
             \/ pc \in PromotePoints \ {"prDep"} /\ pc' \in PromotePoints \ {"prDep"}
      BY <1>5, <1>a
         DEF deleteCanaryDeployment, deleteCanaryService, deleteHTTPRoute, restoreHPA, Call, Move, Goto,
             Owned, RollbackPoints, PromotePoints
    <2>2. pc' \notin StartPoints /\ RollbackPoints \cap PromotePoints = {}
      BY <2>1 DEF StartPoints, RollbackPoints, PromotePoints
    <2>3. QED
      BY <2>1, <2>2 DEF LiveInv
  <1>6. CASE reconcileDeployment \/ reconcileHPA
    <2>1. pc' \in {"hpa", "status"}
      BY <1>6 DEF reconcileDeployment, reconcileHPA, Call, Move, Goto
    <2>2. QED
      BY <2>1 DEF LiveInv, StartPoints, RollbackPoints, PromotePoints
  <1>7. QED
    BY <1>1, <1>2, <1>3, <1>4, <1>5, <1>6 DEF OtherCalls

\* The actions that write the status or return, by where they leave the reconcile.
LEMMA NextLive ==
  ASSUME ~CacheLag, Inv, NamedInv, AgreeInv, LiveInv, Next
  PROVE  LiveInv'
  <1>a. cache \in ADs /\ (pc # "idle" => ad \in ADs) /\ owned \in Owned
    BY DEF Inv, TypeOK
  <1>b. ASSUME pc' \in {"idle", "rbDep"} PROVE LiveInv'
    BY <1>b DEF LiveInv, RollbackPoints, PromotePoints, StartPoints
  <1>1. CASE Reconcile
    <2>1. pc' = Dispatch(cache) /\ ad' = cache
      BY <1>1 DEF Reconcile
    <2>2. pc' \in {"rbDep", "healDep", "healRoute", "startHPA", "dep", "idle", "prDep", "weightDep", "pause"}
      BY <1>a, <2>1, DispatchPoint, StepKindPoint
    <2>3. pc' = "startHPA" => isCanaryTriggered(cache)
      BY <1>a, <2>1, StepKindPoint DEF Dispatch, Heal, HealRoute
    <2>4. QED
      BY <2>1, <2>2, <2>3
         DEF LiveInv, isCanaryTriggered, RollbackPoints, PromotePoints, StartPoints
  <1>2. CASE \/ StartStatus \/ SetWeightStatus \/ PauseBegin \/ PauseUnreachable \/ PauseBreach
             \/ PauseWait \/ PauseAdvance \/ PauseInterrupted \/ RollbackStatus \/ PromoteStatus
             \/ updateStatus \/ Conflict \/ Fault
    <2>1. pc' \in {"idle", "rbDep"}
      BY <1>2
         DEF StartStatus, SetWeightStatus, PauseBegin, PauseUnreachable, PauseBreach, PauseWait,
             PauseAdvance, PauseInterrupted, RollbackStatus, PromoteStatus, updateStatus,
             Conflict, Fault, Goto
    <2>2. QED
      BY <2>1, <1>b
  <1>3. CASE EditSpec \/ Sync
    BY <1>3 DEF EditSpec, Sync, LiveInv
  <1>4. CASE DeleteOutOfBand \/ DeploymentProgress
    <2>1. owned'.dep \in {owned.dep, NoImage} /\ pc' = pc /\ ad' = ad
      BY <1>4, <1>a, DriftImage DEF DeploymentProgress, DeleteOutOfBand, Owned
    <2>2. QED
      BY <2>1 DEF LiveInv
  <1>5. CASE Tick
    <2>1. pc' = pc /\ owned' = owned
      BY <1>5 DEF Tick
    <2>2. pc # "idle" => /\ ad'.spec = ad.spec /\ ad'.status.stable = ad.status.stable
                         /\ ad'.status.canary = ad.status.canary
      BY <1>5, <1>a, NoADAssumption DEF Tick, Aged, AgedStatus, ADs, Statuses
    <2>3. pc \in RollbackPoints \cup PromotePoints \cup StartPoints => pc # "idle"
      BY DEF RollbackPoints, PromotePoints, StartPoints
    <2>4. QED
      BY <2>1, <2>2, <2>3 DEF LiveInv
  <1>6. QED
    BY <1>1, <1>2, <1>3, <1>4, <1>5, CallsLive
       DEF Next, Worker, Environment, Step, Teardown, OtherCalls

-----------------------------------------------------------------------------
(* Step simulation: what each action is in the life cycle.                 *)

\* The calls on the stable Deployment and the HTTPRoute.
LEMMA CallsSimulated ==
  ASSUME ~CacheLag, StepInv,
         OtherCalls \/ EnsureHTTPRoute \/ RollbackImage \/ PromoteImage \/ deleteHTTPRoute
           \/ reconcileDeployment \/ DeleteOutOfBand \/ DeploymentProgress
  PROVE  [Lifecycle!Next]_(Lifecycle!vars)
  <1>a. owned \in Owned /\ (pc # "idle" => ad \in ADs)
    BY DEF StepInv, Inv, TypeOK
  <1>b. obj' = obj
    BY DEF OtherCalls, PauseHPA, EnsureCanaryDeployment, EnsureCanaryService, EnsureHTTPRoute,
           RollbackImage, PromoteImage, deleteCanaryDeployment, deleteCanaryService,
           deleteHTTPRoute, restoreHPA, reconcileDeployment, reconcileHPA, DeleteOutOfBand,
           DeploymentProgress, Call, Move, NoWrite
  <1>c. ASSUME owned'.dep = owned.dep, owned'.route = owned.route
        PROVE  UNCHANGED Lifecycle!vars
    BY <1>b, <1>c DEF Lifecycle!vars
  <1>d. ASSUME owned'.dep = owned.dep, owned'.route = Nil
        PROVE  Lifecycle!Next
    BY <1>b, <1>d DEF Lifecycle!Next, Lifecycle!Merge, Lifecycle!status
  <1>e. pc \in RolloutPoints => InProgress(obj)
    BY DEF StepInv, AgreeInv, InProgress, RolloutPoints, HealPoints, WeightPoints,
           RollbackPoints, PromotePoints
  <1>1. CASE OtherCalls \/ DeploymentProgress
    <2>1. owned'.dep = owned.dep /\ owned'.route = owned.route
      BY <1>1, <1>a, OtherCallsKeep DEF StepInv, DeploymentProgress, Owned
    <2>2. QED
      BY <2>1, <1>c
  <1>2. CASE EnsureHTTPRoute
    <2>1. owned'.dep = owned.dep /\ pc \in {"healRoute", "weightRoute"}
      BY <1>2, <1>a DEF EnsureHTTPRoute, Call, Move, Owned
    <2>2. owned'.route # Nil
      <3>1. CASE pc = "healRoute"
        <4>1. owned'.route = ad.status.weight /\ ad \in ADs
          BY <1>2, <1>a, <3>1, CallMoves DEF EnsureHTTPRoute, Move, Owned
        <4>2. QED
          BY <4>1 DEF ADs, Statuses, Nil
      <3>2. CASE pc = "weightRoute"
        <4>1. owned'.route = StepWeight
          BY <1>2, <1>a, <3>2, CallMoves DEF EnsureHTTPRoute, Move, Owned
        <4>2. StepWeight \in 0..100
          BY <3>2, WeightType DEF StepInv, WeightPoints
        <4>3. QED
          BY <4>1, <4>2 DEF Nil
      <3>3. QED
        BY <2>1, <3>1, <3>2
    <2>3. InProgress(obj)
      BY <2>1, <1>e DEF RolloutPoints, HealPoints, WeightPoints
    <2>4. Lifecycle!Split
      BY <2>1, <2>2, <2>3, <1>b DEF Lifecycle!Split, Lifecycle!InRollout, Lifecycle!status, InProgress
    <2>5. QED
      BY <2>4 DEF Lifecycle!Next
  <1>3. CASE deleteHTTPRoute
    <2>1. owned'.dep = owned.dep /\ owned'.route = Nil
      BY <1>3, <1>a, CallMoves DEF deleteHTTPRoute, Move, Owned
    <2>2. QED
      BY <2>1, <1>d
  <1>4. CASE DeleteOutOfBand
    <2>1. \/ owned'.dep = NoImage /\ owned'.route = owned.route
          \/ owned'.dep = owned.dep /\ owned'.route \in {owned.route, Nil}
      BY <1>4, DriftImage DEF StepInv
    <2>2. CASE owned'.dep = NoImage /\ owned'.route = owned.route
      BY <2>2, <1>b DEF Lifecycle!Next, Lifecycle!Lose, Lifecycle!status
    <2>3. QED
      BY <2>1, <2>2, <1>c, <1>d
  <1>5. CASE RollbackImage \/ PromoteImage
    <2>1. pc \in {"rbDep", "prDep"}
      BY <1>5 DEF RollbackImage, PromoteImage, Call, Move
    <2>2. InProgress(obj) /\ ad.status = obj.status
      BY <2>1, <1>e DEF StepInv, AgreeInv, RolloutPoints, RollbackPoints, PromotePoints
    <2>3. \/ owned' = owned
          \/ /\ owned.dep # NoImage
             /\ owned' = SetStableImage(ad.status.stable) \/ owned' = SetStableImage(ad.status.canary)
      BY <1>5 DEF RollbackImage, PromoteImage, Call, Move
    <2>4. CASE owned' = owned
      BY <2>4, <1>c
    <2>5. CASE owned' # owned
      <3>1. owned.dep # NoImage /\ owned'.route = owned.route
            /\ owned'.dep \in {obj.status.stable, obj.status.canary}
        BY <2>2, <2>3, <2>5, StableImage DEF StepInv
      <3>2. Lifecycle!Switch
        BY <2>2, <3>1, <1>b DEF Lifecycle!Switch, Lifecycle!InRollout, Lifecycle!status, InProgress
      <3>3. QED
        BY <3>2 DEF Lifecycle!Next
    <2>6. QED
      BY <2>4, <2>5
  <1>6. CASE reconcileDeployment
    <2>1. pc = "dep" /\ owned' = SetStableImage(desiredImage(ad)) /\ ad \in ADs
      BY <1>6, <1>a, CallMoves DEF reconcileDeployment, Move
    <2>2. ~InProgress(ad) /\ ~InProgress(obj)
      BY <2>1 DEF StepInv, AgreeInv, InProgress, ChildPoints
    <2>3. desiredImage(ad) \in Images
      BY <2>1, <2>2 DEF desiredImage, ADs, ADSpecs
    <2>4. owned'.dep \in Images /\ owned'.route = owned.route
      BY <2>1, <2>3, StableImage DEF StepInv
    <2>5. QED
      BY <2>2, <2>4, <1>b
         DEF Lifecycle!Next, Lifecycle!Deploy, Lifecycle!InRollout, Lifecycle!status, InProgress
  <1>7. QED
    BY <1>1, <1>2, <1>3, <1>4, <1>5, <1>6

\* A status update that keeps what the life cycle sees of the status.
LEMMA KeepSimulated ==
  ASSUME owned' = owned,
         obj'.status.phase = obj.status.phase, obj'.status.stable = obj.status.stable,
         obj'.status.canary = obj.status.canary, obj'.status.idx = obj.status.idx
  PROVE  UNCHANGED Lifecycle!vars
  BY DEF Lifecycle!vars

\* The status updates that begin, advance or end a rollout, or settle the status.
LEMMA WritesSimulated ==
  ASSUME ~CacheLag, StepInv,
         \/ StartStatus \/ SetWeightStatus \/ PauseAdvance \/ RollbackStatus \/ PromoteStatus
         \/ updateStatus
  PROVE  [Lifecycle!Next]_(Lifecycle!vars)
  <1>a. cache \in ADs /\ ad \in ADs /\ pc # "idle" /\ owned' = owned
    BY DEF StepInv, Inv, TypeOK, StartStatus, SetWeightStatus, PauseAdvance, RollbackStatus,
           PromoteStatus, updateStatus
  <1>b. cache.status = obj.status /\ ad.status = obj.status /\ cache.status \in Statuses
    BY <1>a DEF StepInv, AgreeInv, ADs
  <1>c. ASSUME NEW s, UpdateStatus(s) PROVE obj'.status = s
    BY <1>c, UpdateAgree DEF StepInv
  <1>1. CASE StartStatus
    <2>1. pc = "startStatus"
      BY <1>1 DEF StartStatus
    <2>2. /\ obj'.status.phase = "RolloutInProgress" /\ obj'.status.canary = ad.spec.image
          /\ obj'.status.idx = 0 /\ obj'.status.stable = obj.status.stable
      <3>1. obj'.status = [cache.status EXCEPT
              !.phase = "RolloutInProgress", !.canary = ad.spec.image, !.idx = 0,
              !.weight = 0, !.pause = Nil, !.prom = Nil]
        BY <1>1, <1>c DEF StartStatus
      <3>2. QED
        BY <1>b, <3>1 DEF Statuses
    <2>3. ~InProgress(ad) /\ ad.spec.image # ad.status.stable /\ ad.status.stable # NoImage
      BY <2>1 DEF StepInv, AgreeInv, LiveInv, NamedInv, Deployed, StartPoints
    <2>4. ad.spec.image \in Images
      BY <1>a DEF ADs, ADSpecs
    <2>5. Lifecycle!Begin
      BY <1>a, <1>b, <2>2, <2>3, <2>4 DEF Lifecycle!Begin, Lifecycle!InRollout, InProgress
    <2>6. QED
      BY <2>5 DEF Lifecycle!Next
  <1>2. CASE SetWeightStatus \/ PauseAdvance
    <2>1. pc \in {"weightStatus", "pause"}
      BY <1>2 DEF SetWeightStatus, PauseAdvance
    <2>2. InProgress(obj)
      BY <2>1 DEF StepInv, AgreeInv, InProgress, RolloutPoints, WeightPoints
    <2>3. /\ obj'.status.phase = obj.status.phase /\ obj'.status.stable = obj.status.stable
          /\ obj'.status.canary = obj.status.canary /\ obj'.status.idx = obj.status.idx + 1
      <3>1. CASE SetWeightStatus
        <4> DEFINE s == [cache.status EXCEPT
                           !.weight = StepWeight, !.idx = ad.status.idx + 1, !.pause = Nil]
        <4>1. obj'.status = s
          BY <3>1, <1>c DEF SetWeightStatus
        <4>2. QED
          BY <4>1, <1>b DEF Statuses
      <3>2. CASE PauseAdvance
        <4> DEFINE s == [Reachable EXCEPT !.idx = ad.status.idx + 1, !.pause = Nil]
        <4>1. obj'.status = s
          BY <3>2, <1>c DEF PauseAdvance
        <4>2. QED
          BY <4>1, <1>b DEF Reachable, Statuses
      <3>3. QED
        BY <1>2, <3>1, <3>2
    <2>4. Lifecycle!Advance
      BY <1>a, <2>2, <2>3 DEF Lifecycle!Advance, Lifecycle!InRollout, InProgress
    <2>5. QED
      BY <2>4 DEF Lifecycle!Next
  <1>3. CASE RollbackStatus
    <2>1. pc = "rbStatus"
      BY <1>3 DEF RollbackStatus
    <2>2. InProgress(obj) /\ owned.dep \in {obj.status.stable, NoImage} /\ owned.route = Nil
      BY <1>b, <2>1
         DEF StepInv, AgreeInv, LiveInv, TeardownInv, InProgress, RolloutPoints, RollbackPoints,
             NoRoutePoints, NoServicePoints, NoDeploymentPoints
    <2>3. cache.status.canary # NoImage
      BY <1>b, <2>2 DEF StepInv, NamedInv, Named, InProgress
    <2>4. /\ obj'.status.phase = "RolloutFailed" /\ obj'.status.stable = obj.status.stable
          /\ obj'.status.canary = obj.status.canary /\ obj'.status.idx = 0
      <3>1. obj'.status = [Cleared EXCEPT !.phase = "RolloutFailed", !.canary = cache.status.canary]
        BY <1>3, <1>c, <2>3 DEF RollbackStatus
      <3>2. QED
        BY <1>b, <3>1 DEF Cleared, Statuses
    <2>5. Lifecycle!Fail
      BY <1>a, <2>2, <2>4 DEF Lifecycle!Fail, Lifecycle!InRollout, InProgress
    <2>6. QED
      BY <2>5 DEF Lifecycle!Next
  <1>4. CASE PromoteStatus
    <2>1. pc = "prStatus"
      BY <1>4 DEF PromoteStatus
    <2>2. InProgress(obj) /\ owned.dep \in {obj.status.canary, NoImage} /\ owned.route = Nil
      BY <1>b, <2>1
         DEF StepInv, AgreeInv, LiveInv, TeardownInv, InProgress, RolloutPoints, PromotePoints,
             NoRoutePoints, NoServicePoints, NoDeploymentPoints
    <2>3. /\ obj'.status.phase = "Running" /\ obj'.status.stable = obj.status.canary
          /\ obj'.status.canary = NoImage /\ obj'.status.idx = 0
      <3> DEFINE s == [Cleared EXCEPT
                         !.phase = "Running", !.stable = ad.status.canary, !.canary = NoImage]
      <3>1. obj'.status = s
        BY <1>4, <1>c DEF PromoteStatus
      <3>2. QED
        BY <3>1, <1>b DEF Cleared, Statuses
    <2>4. Lifecycle!Succeed
      BY <1>a, <2>2, <2>3 DEF Lifecycle!Succeed, Lifecycle!InRollout, InProgress
    <2>5. QED
      BY <2>4 DEF Lifecycle!Next
  <1>5. CASE updateStatus
    <2>1. PICK d \in Copies, p \in BOOLEAN :
            /\ d.dep = owned.dep
            /\ NoWrite \/ (owned.dep # NoImage /\ UpdateStatus(DerivedStatus(cache, d, p)))
      BY <1>5 DEF updateStatus, ReadDeployment, OutdatedCopy
    <2>2. CASE NoWrite
      BY <1>a, <2>2, KeepSimulated DEF NoWrite
    <2>3. CASE owned.dep # NoImage /\ UpdateStatus(DerivedStatus(cache, d, p))
      <3>1. obj'.status = DerivedStatus(cache, d, p)
        BY <2>3, <1>c
      <3>2. /\ obj'.status.idx = obj.status.idx
            /\ \/ /\ obj'.status.phase \in {"Pending", "Degraded"}
                  /\ obj'.status.stable = obj.status.stable /\ obj'.status.canary = obj.status.canary
               \/ /\ obj'.status.phase = "Running"
                  /\ obj'.status.stable = owned.dep /\ obj'.status.canary = NoImage
               \/ /\ obj.status.phase = "RolloutFailed" /\ obj'.status.phase = obj.status.phase
                  /\ obj'.status.stable = owned.dep /\ obj'.status.canary = obj.status.canary
        BY <2>1, <3>1, <1>b DEF DerivedStatus, Statuses
      <3>3. ~InProgress(obj)
        BY <1>5, <1>b DEF updateStatus, StepInv, AgreeInv, InProgress, ChildPoints
      <3>4. Lifecycle!Settle
        BY <1>a, <2>3, <3>2, <3>3 DEF Lifecycle!Settle, Lifecycle!InRollout, InProgress
      <3>5. QED
        BY <3>4 DEF Lifecycle!Next
    <2>4. QED
      BY <2>1, <2>2, <2>3
  <1>6. QED
    BY <1>1, <1>2, <1>3, <1>4, <1>5

\* Everything else is invisible to the life cycle.
LEMMA OthersSimulated ==
  ASSUME ~CacheLag, StepInv,
         \/ Reconcile \/ PauseBegin \/ PauseUnreachable \/ PauseBreach \/ PauseWait
         \/ PauseInterrupted \/ Conflict \/ Fault \/ EditSpec \/ Sync \/ Tick
  PROVE  UNCHANGED Lifecycle!vars
  <1>a. cache \in ADs /\ obj \in ADs /\ cache.status = obj.status /\ cache.status \in Statuses
    BY DEF StepInv, Inv, TypeOK, AgreeInv, ADs
  <1>b. owned' = owned
    BY DEF Reconcile, PauseBegin, PauseUnreachable, PauseBreach, PauseWait, PauseInterrupted,
           Conflict, Fault, EditSpec, Sync, Tick
  <1>1. CASE Tick
    BY <1>1, <1>a, <1>b, NoADAssumption, KeepSimulated DEF Tick, Aged, AgedStatus, ADs, Statuses
  <1>2. CASE EditSpec
    BY <1>2, <1>a, <1>b, KeepSimulated DEF EditSpec, ADs
  <1>3. CASE NoWrite \/ obj' = obj
    BY <1>3, <1>b, KeepSimulated DEF NoWrite
  <1>4. CASE \/ UpdateStatus(Reachable) \/ UpdateStatus([cache.status EXCEPT !.prom = 0])
             \/ UpdateStatus([cache.status EXCEPT !.pause = 0])
    <2>1. /\ obj'.status.phase = obj.status.phase /\ obj'.status.stable = obj.status.stable
          /\ obj'.status.canary = obj.status.canary /\ obj'.status.idx = obj.status.idx
      BY <1>4, <1>a, UpdateAgree DEF StepInv, Reachable, Statuses
    <2>2. QED
      BY <2>1, <1>b, KeepSimulated
  <1>5. QED
    BY <1>1, <1>2, <1>3, <1>4
       DEF Reconcile, PauseBegin, PauseUnreachable, PauseBreach, PauseWait, PauseInterrupted,
           Conflict, Fault, Sync, ClearUnreachable

\* When the reconciler reads its own writes, the operator implements the life
\* cycle: the status reports success or failure of a rollout only once the image
\* it names is deployed and the traffic whole, through every fault and edit.
THEOREM LifecycleKept ==
  ASSUME ~CacheLag
  PROVE  Spec => KeepsLifecycle
  <1>1. Init => Lifecycle!Init /\ LiveInv
    <2> SUFFICES ASSUME Init PROVE Lifecycle!Init /\ LiveInv
      OBVIOUS
    <2>1. obj.status = ZeroStatus /\ owned.dep = NoImage /\ owned.route = Nil /\ pc = "idle"
      BY DEF Init
    <2>2. Lifecycle!Init
      <3>1. /\ obj.status.phase = "" /\ obj.status.stable = NoImage
            /\ obj.status.canary = NoImage /\ obj.status.idx = 0
        <4>1. /\ ZeroStatus.phase = "" /\ ZeroStatus.stable = NoImage
              /\ ZeroStatus.canary = NoImage /\ ZeroStatus.idx = 0
          BY DEF ZeroStatus
        <4>2. QED
          BY <2>1, <4>1
      <3>2. (owned.route # Nil) = FALSE
        BY <2>1, Zenon
      <3>3. QED
        BY <2>1, <3>1, <3>2, Zenon DEF Lifecycle!Init
    <2>3. LiveInv
      BY <2>1 DEF LiveInv, RollbackPoints, PromotePoints, StartPoints
    <2>4. QED
      BY <2>2, <2>3
  <1>2. Inv /\ NamedInv /\ AgreeInv /\ LiveInv /\ [Next]_vars => LiveInv'
    <2>1. ASSUME LiveInv, UNCHANGED vars PROVE LiveInv'
      BY <2>1 DEF vars, LiveInv
    <2>2. QED
      BY <2>1, NextLive
  <1>3. StepInv /\ [Next]_vars => [Lifecycle!Next]_(Lifecycle!vars)
    <2>1. ASSUME StepInv, Next PROVE [Lifecycle!Next]_(Lifecycle!vars)
      BY <2>1, CallsSimulated, WritesSimulated, OthersSimulated
         DEF Next, Worker, Environment, Step, Teardown, OtherCalls
    <2>2. ASSUME UNCHANGED vars PROVE UNCHANGED Lifecycle!vars
      BY <2>2 DEF vars, Lifecycle!vars
    <2>3. QED
      BY <2>1, <2>2
  <1>4. QED
    BY <1>1, <1>2, <1>3, SpecNamed, SpecTeardown, PTL
       DEF Spec, StepInv, KeepsLifecycle, Lifecycle!Spec

=============================================================================
