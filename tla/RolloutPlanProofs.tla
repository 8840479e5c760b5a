-------------------------- MODULE RolloutPlanProofs --------------------------
(***************************************************************************)
(* Proofs about how a canary rollout executes its plan: what it evaluates, *)
(* what it has evaluated when it promotes, and the traffic it sends where. *)
(***************************************************************************)
EXTENDS CanaryRolloutProofs

(* The canary is healed before it is evaluated.                            *)

\* What EvaluatedOnHealedCanary needs to be inductive: the objects a pass has
\* healed on its way to the pause.
HealedInv ==
  /\ pc = "healSvc" => owned.cdep = ad.status.canary
  /\ pc = "healRoute" => owned.cdep = ad.status.canary /\ owned.csvc
  /\ EvaluatedOnHealedCanary

\* A step after which no pass is between its first healing and its evaluation.
LEMMA ElsewhereHealed ==
  ASSUME pc' \notin {"healSvc", "healRoute", "pause"}
  PROVE  HealedInv'
  BY DEF HealedInv, EvaluatedOnHealedCanary

\* A step that leaves the reconcile, its copy's progress and the canary's objects.
LEMMA SameHealed ==
  ASSUME HealedInv, pc' = pc, pc # "idle" => /\ ad'.status.canary = ad.status.canary
                                             /\ ad'.status.weight = ad.status.weight,
         owned'.cdep = owned.cdep, owned'.csvc = owned.csvc, owned'.route = owned.route
  PROVE  HealedInv'
  BY DEF HealedInv, EvaluatedOnHealedCanary

\* The two last calls of the healing lead to the evaluation of a pause step.
LEMMA HealingHealed ==
  ASSUME ~CacheLag, Inv, HealedInv, EnsureCanaryDeployment \/ EnsureCanaryService \/ EnsureHTTPRoute
  PROVE  HealedInv'
  <1>a. owned \in Owned /\ (pc # "idle" => ad \in ADs)
    BY DEF Inv, TypeOK
  <1>1. CASE EnsureCanaryDeployment
    <2>1. pc' \in {"healSvc", "weightSvc"} /\ owned'.cdep = ad.status.canary /\ ad' = ad
      BY <1>1, <1>a, CallMoves DEF EnsureCanaryDeployment, Move, Goto, Owned
    <2>2. QED
      BY <2>1 DEF HealedInv, EvaluatedOnHealedCanary
  <1>2. CASE Call("healSvc", HealRoute(ad), [owned EXCEPT !.csvc = TRUE])
    <2>1. pc = "healSvc" /\ pc' = HealRoute(ad) /\ (pc' # "idle" => ad' = ad) /\ ad \in ADs
      BY <1>2, <1>a DEF Call, Move, Goto
    <2>2. owned'.csvc /\ owned'.cdep = ad.status.canary
      BY <1>2, <1>a, <2>1, CallMoves DEF Move, Owned, HealedInv
    <2>3. pc' = "healRoute" \/ (pc' = StepKind(ad) /\ ~(ad.status.weight > 0))
      BY <2>1 DEF HealRoute
    <2>4. pc' # "healSvc"
      BY <2>1, <2>3, StepKindPoint
    <2>5. QED
      BY <2>1, <2>2, <2>3, <2>4, StepKindPoint DEF HealedInv, EvaluatedOnHealedCanary
  <1>3. CASE Call("healRoute", StepKind(ad), [owned EXCEPT !.route = ad.status.weight])
    <2>1. pc = "healRoute" /\ pc' = StepKind(ad) /\ (pc' # "idle" => ad' = ad) /\ ad \in ADs
      BY <1>3, <1>a DEF Call, Move, Goto
    <2>2. owned'.csvc /\ owned'.cdep = ad.status.canary /\ owned'.route = ad.status.weight
      BY <1>3, <1>a, <2>1, CallMoves DEF Move, Owned, HealedInv
    <2>3. QED
      BY <2>1, <2>2, StepKindPoint DEF HealedInv, EvaluatedOnHealedCanary
  <1>4. CASE pc' \in {"weightRoute", "weightStatus"}
    BY <1>4, ElsewhereHealed
  <1>5. QED
    BY <1>1, <1>2, <1>3, <1>4 DEF EnsureCanaryService, EnsureHTTPRoute, Call, Move, Goto

LEMMA NextHealed ==
  ASSUME ~CacheLag, Drift \cap {"cdep", "csvc", "route"} = {}, Inv, NamedInv, HealedInv, Next
  PROVE  HealedInv'
  <1>a. /\ owned \in Owned /\ cache \in ADs /\ (pc # "idle" => ad \in ADs)
    BY DEF Inv, TypeOK
  <1>1. CASE Reconcile
    <2>1. pc' = Dispatch(cache)
      BY <1>1 DEF Reconcile
    <2>2. InProgress(cache) => cache.status.canary # NoImage
      BY DEF NamedInv, Named
    <2>3. Dispatch(cache) \in {"rbDep", "healDep", "startHPA", "dep"}
      BY <2>2 DEF Dispatch, Heal
    <2>4. QED
      BY <2>1, <2>3, ElsewhereHealed
  <1>2. CASE \/ StartStatus \/ SetWeightStatus \/ PauseBegin \/ PauseUnreachable \/ PauseBreach
             \/ PauseWait \/ PauseAdvance \/ PauseInterrupted \/ RollbackStatus \/ PromoteStatus
             \/ updateStatus \/ Conflict \/ Fault
    <2>1. pc' \in {"idle", "rbDep"}
      BY <1>2
         DEF StartStatus, SetWeightStatus, PauseBegin, PauseUnreachable, PauseBreach, PauseWait,
             PauseAdvance, PauseInterrupted, RollbackStatus, PromoteStatus, updateStatus,
             Conflict, Fault, Goto
    <2>2. QED
      BY <2>1, ElsewhereHealed
  <1>3. CASE \/ PauseHPA \/ RollbackImage \/ PromoteImage \/ deleteCanaryDeployment
             \/ deleteCanaryService \/ deleteHTTPRoute \/ restoreHPA
             \/ reconcileDeployment \/ reconcileHPA
    <2>1. pc' \in StartPoints \cup RollbackPoints \cup PromotePoints \cup ChildPoints \cup {"idle"}
      BY <1>3
         DEF PauseHPA, RollbackImage, PromoteImage, deleteCanaryDeployment, deleteCanaryService,
             deleteHTTPRoute, restoreHPA, reconcileDeployment, reconcileHPA, Call, Move, Goto,
             StartPoints, RollbackPoints, PromotePoints, ChildPoints
    <2>2. pc' \notin {"healSvc", "healRoute", "pause"}
      BY <2>1 DEF StartPoints, RollbackPoints, PromotePoints, ChildPoints
    <2>3. QED
      BY <2>2, ElsewhereHealed
  <1>4. CASE DeleteOutOfBand
    <2>1. PICK k \in Drift : owned' = Without(k)
      BY <1>4 DEF DeleteOutOfBand
    <2>2. k \in {"dep", "hpa"}
      BY <2>1, BoundsAssumption
    <2>3. owned'.cdep = owned.cdep /\ owned'.csvc = owned.csvc /\ owned'.route = owned.route
      BY <1>a, <2>1, <2>2 DEF Without, Owned
    <2>4. QED
      BY <1>4, <2>3, SameHealed DEF DeleteOutOfBand
  <1>5. CASE DeploymentProgress
    <2>1. owned'.cdep = owned.cdep /\ owned'.csvc = owned.csvc /\ owned'.route = owned.route
      BY <1>5, <1>a DEF DeploymentProgress, Owned
    <2>2. QED
      BY <1>5, <2>1, SameHealed DEF DeploymentProgress
  <1>6. CASE EditSpec \/ Sync
    BY <1>6, SameHealed DEF EditSpec, Sync
  <1>7. CASE Tick
    <2>1. pc # "idle" => ad'.status.canary = ad.status.canary /\ ad'.status.weight = ad.status.weight
      BY <1>7, <1>a, NoADAssumption DEF Tick, Aged, AgedStatus, ADs, Statuses
    <2>2. QED
      BY <1>7, <2>1, SameHealed DEF Tick
  <1>8. QED
    BY <1>1, <1>2, <1>3, <1>4, <1>5, <1>6, <1>7, HealingHealed
       DEF Next, Worker, Environment, Step, Teardown

\* Unless somebody else deletes the canary's Deployment, Service or HTTPRoute, its
\* metrics are only ever evaluated while it stands as the reconciled status says:
\* the calls that heal it come first in every pass (canary.go:95), also when a
\* rollback or a step was interrupted before.  The caches must have seen what the
\* reconciler wrote: on an outdated copy of the canary's Service or Deployment
\* CreateOrUpdate (canary.go:556, canary.go:462) takes it for healed.
THEOREM CanaryHealedWhenEvaluated ==
  ASSUME ~CacheLag, Drift \cap {"cdep", "csvc", "route"} = {}
  PROVE  Spec => []EvaluatedOnHealedCanary
  <1>1. Init => HealedInv
    BY DEF Init, HealedInv, EvaluatedOnHealedCanary
  <1>2. Inv /\ NamedInv /\ HealedInv /\ [Next]_vars => HealedInv'
    <2>1. ASSUME HealedInv, UNCHANGED vars PROVE HealedInv'
      BY <2>1, SameHealed DEF vars
    <2>2. QED
      BY <2>1, NextHealed
  <1>3. HealedInv => EvaluatedOnHealedCanary
    BY DEF HealedInv
  <1>4. QED
    BY <1>1, <1>2, <1>3, SpecNamed, PTL DEF Spec

-----------------------------------------------------------------------------
(* What a step does to the control state and to the recorded progress.     *)

\* Where Step works on the plan.
StepPoints == HealPoints \cup WeightPoints \cup {"pause"} \cup PromotePoints

\* A call on an owned object keeps the reconciler on the path it is on, and
\* leads to an evaluation only at a pause step.
LEMMA CallsFlow ==
  ASSUME Inv,
         \/ PauseHPA \/ EnsureCanaryDeployment \/ EnsureCanaryService \/ EnsureHTTPRoute
         \/ RollbackImage \/ PromoteImage \/ deleteCanaryDeployment \/ deleteCanaryService
         \/ deleteHTTPRoute \/ restoreHPA \/ reconcileDeployment \/ reconcileHPA
  PROVE  /\ obj' = obj /\ cache' = cache /\ fresh' = fresh /\ passed' = passed
         /\ pc # "idle" /\ (pc' # "idle" => ad' = ad)
         /\ pc' \in RolloutPoints => pc \in RolloutPoints
         /\ pc' \in StepPoints => pc \in StepPoints
         /\ pc' \in StartPoints => pc \in StartPoints
         /\ pc' \in ChildPoints => pc \in ChildPoints
         /\ pc' \in PromotePoints => pc \in PromotePoints \/ pc' = StepKind(ad)
         /\ pc' = "pause" => StepKind(ad) = "pause"
  <1>1. PICK from, next, o : Call(from, next, o)
    BY MoveIsCall
       DEF PauseHPA, EnsureCanaryDeployment, EnsureCanaryService, EnsureHTTPRoute, RollbackImage,
           PromoteImage, deleteCanaryDeployment, deleteCanaryService, deleteHTTPRoute, restoreHPA,
           reconcileDeployment, reconcileHPA
  <1>2. /\ obj' = obj /\ cache' = cache /\ fresh' = fresh /\ passed' = passed
        /\ pc' # "idle" => ad' = ad
    BY <1>1 DEF Call, Move, Goto, NoWrite, history
  <1>3. CASE EnsureCanaryService \/ EnsureHTTPRoute
    <2>1. /\ pc \in {"healSvc", "weightSvc", "healRoute", "weightRoute"}
          /\ pc' \in {HealRoute(ad), StepKind(ad), "weightRoute", "weightStatus"}
      BY <1>3 DEF EnsureCanaryService, EnsureHTTPRoute, Call, Move, Goto
    <2>2. ad \in ADs
      BY <2>1 DEF Inv, TypeOK
    <2>3. pc' \in {"healRoute", StepKind(ad), "weightRoute", "weightStatus"}
      BY <2>1, <2>2, HealRoutePoint
    <2>4. pc \in RolloutPoints /\ pc \in StepPoints /\ pc # "idle"
      BY <2>1 DEF RolloutPoints, StepPoints, HealPoints, WeightPoints
    <2>5. pc' \notin StartPoints \cup ChildPoints
      BY <2>2, <2>3, StepKindPoint DEF StartPoints, ChildPoints
    <2>6. pc' \in PromotePoints \cup {"pause"} => pc' = StepKind(ad)
      BY <2>3 DEF PromotePoints
    <2>7. QED
      BY <1>2, <2>4, <2>5, <2>6
  <1>4. CASE PauseHPA \/ EnsureCanaryDeployment \/ RollbackImage \/ reconcileDeployment \/ reconcileHPA
    <2>1. \/ pc = "startHPA" /\ pc' = "startStatus"
          \/ pc \in {"healDep", "weightDep"} /\ pc' \in {"healSvc", "weightSvc"}
          \/ pc = "rbDep" /\ pc' = "rbCanary"
          \/ pc \in {"dep", "hpa"} /\ pc' \in {"hpa", "status"}
      BY <1>4 DEF PauseHPA, EnsureCanaryDeployment, RollbackImage, reconcileDeployment, reconcileHPA,
                  Call, Move, Goto
    <2>2. QED
      BY <1>2, <2>1 DEF StartPoints, ChildPoints, RolloutPoints, StepPoints, HealPoints, WeightPoints,
                        RollbackPoints, PromotePoints
  <1>5. CASE \/ PromoteImage \/ deleteCanaryDeployment \/ deleteCanaryService
             \/ deleteHTTPRoute \/ restoreHPA
    <2>1. \/ pc \in RollbackPoints /\ pc' \in RollbackPoints
          \/ pc \in PromotePoints /\ pc' \in PromotePoints \cup {"idle"}
      BY <1>5 DEF PromoteImage, deleteCanaryDeployment, deleteCanaryService, deleteHTTPRoute,
                  restoreHPA, Call, Move, Goto, RollbackPoints, PromotePoints
    <2>2. QED
      BY <1>2, <2>1 DEF StartPoints, ChildPoints, RolloutPoints, StepPoints, HealPoints, WeightPoints,
                        RollbackPoints, PromotePoints
  <1>6. QED
    BY <1>3, <1>4, <1>5

\* The seven things a step may do to the progress a status records.  All but the
\* first and the last are status updates, made from a current copy.
Written ==
  fresh /\ cache = obj /\ cache' \in {cache, obj'} /\ obj'.spec = obj.spec /\ owned' = owned
Keeps ==
  /\ obj' = obj \/ EditSpec
  /\ obj'.status = obj.status /\ passed' = passed /\ cache' \in {cache, obj'}
SameImages ==
  obj'.status.stable = obj.status.stable /\ obj'.status.canary = obj.status.canary
Starts ==
  /\ Written /\ pc = "startStatus" /\ pc' = "idle" /\ passed' = {}
  /\ InProgress(obj') /\ obj'.status.idx = 0 /\ obj'.status.weight = 0
  /\ obj'.status.pause = Nil /\ obj'.status.prom = Nil /\ obj'.status.stable = obj.status.stable
Weighs ==
  /\ Written /\ pc = "weightStatus" /\ pc' = "idle" /\ passed' = passed /\ SameImages
  /\ obj'.status.phase = obj.status.phase /\ obj'.status.idx = ad.status.idx + 1
  /\ obj'.status.weight = StepWeight
  /\ obj'.status.pause = Nil /\ obj'.status.prom = obj.status.prom
Waits ==
  /\ Written /\ pc = "pause" /\ pc' \in {"idle", "rbDep"} /\ passed' = passed /\ SameImages
  /\ obj'.status.phase = obj.status.phase /\ obj'.status.idx = obj.status.idx
  /\ obj'.status.weight = obj.status.weight /\ obj'.status.pause # Nil
  /\ obj.status.pause = Nil => obj'.status.prom = obj.status.prom
Advances ==
  /\ Written /\ pc = "pause" /\ pc' = "idle" /\ passed' = passed \cup {ad.status.idx}
  /\ obj'.status.phase = obj.status.phase /\ obj'.status.idx = ad.status.idx + 1
  /\ obj'.status.weight = obj.status.weight /\ SameImages
  /\ obj'.status.pause = Nil /\ obj'.status.prom = Nil
Ends ==
  /\ Written /\ pc' = "idle" /\ passed' = passed /\ ~InProgress(obj')
  /\ \/ /\ obj'.status.idx = obj.status.idx /\ obj'.status.pause = obj.status.pause
        /\ obj'.status.prom = obj.status.prom
     \/ obj'.status.idx = 0 /\ obj'.status.pause = Nil /\ obj'.status.prom = Nil

\* Status().Update takes a current copy, and the cache sees it at once or later.
LEMMA UpdateWritten ==
  ASSUME Inv, NamedInv, NEW s, UpdateStatus(s), owned' = owned
  PROVE  Written /\ obj'.status = s
  <1>1. obj' = [obj EXCEPT !.status = s] /\ fresh /\ cache' \in {cache, obj'}
    BY DEF UpdateStatus
  <1>2. obj'.spec = obj.spec /\ obj'.status = s
    BY <1>1 DEF Inv, TypeOK, ADs
  <1>3. QED
    BY <1>1, <1>2 DEF Written, NamedInv

LEMMA StatusStep ==
  ASSUME Inv, NamedInv, Next
  PROVE  Keeps \/ Starts \/ Weighs \/ Waits \/ Advances \/ Ends \/ Tick
  <1>a. /\ cache \in ADs /\ obj \in ADs /\ (pc # "idle" => ad \in ADs) /\ (fresh => cache = obj)
        /\ Nil # 0
    BY DEF Inv, TypeOK, NamedInv, Nil
  <1>s. cache.status \in Statuses
    BY <1>a DEF ADs
  <1>1. CASE StartStatus
    <2> DEFINE s == [cache.status EXCEPT
                       !.phase = "RolloutInProgress", !.canary = ad.spec.image, !.idx = 0,
                       !.weight = 0, !.pause = Nil, !.prom = Nil]
    <2>1. /\ s.phase = "RolloutInProgress" /\ s.idx = 0 /\ s.weight = 0 /\ s.pause = Nil
          /\ s.prom = Nil /\ s.stable = cache.status.stable
      BY <1>s DEF Statuses
    <2>2. Written /\ obj'.status = s
      BY <1>1, UpdateWritten DEF StartStatus
    <2>3. Starts
      BY <1>1, <2>1, <2>2 DEF StartStatus, Starts, Goto, InProgress, Written
    <2>4. QED
      BY <2>3
  <1>2. CASE SetWeightStatus
    <2> DEFINE s == [cache.status EXCEPT
                       !.weight = StepWeight, !.idx = ad.status.idx + 1, !.pause = Nil]
    <2>1. /\ s.phase = cache.status.phase /\ s.idx = ad.status.idx + 1 /\ s.weight = StepWeight
          /\ s.pause = Nil /\ s.prom = cache.status.prom /\ s.stable = cache.status.stable
          /\ s.canary = cache.status.canary
      BY <1>s DEF Statuses
    <2>2. Written /\ obj'.status = s
      BY <1>2, UpdateWritten DEF SetWeightStatus
    <2>3. Weighs
      BY <1>2, <2>1, <2>2 DEF SetWeightStatus, Weighs, Goto, Written, history, SameImages
    <2>4. QED
      BY <2>3
  <1>3. CASE PauseBegin
    <2> DEFINE s == [cache.status EXCEPT !.pause = 0]
    <2>1. /\ s.phase = cache.status.phase /\ s.idx = cache.status.idx /\ s.pause = 0
          /\ s.weight = cache.status.weight /\ s.prom = cache.status.prom
          /\ s.stable = cache.status.stable /\ s.canary = cache.status.canary
      BY <1>s DEF Statuses
    <2>2. Written /\ obj'.status = s
      BY <1>3, UpdateWritten DEF PauseBegin
    <2>3. Waits
      BY <1>3, <1>a, <2>1, <2>2 DEF PauseBegin, Waits, Goto, Written, history, SameImages
    <2>4. QED
      BY <2>3
  <1>4. CASE PauseUnreachable \/ PauseBreach \/ PauseWait \/ PauseInterrupted
    <2>1. /\ pc = "pause" /\ cache.status.pause # Nil /\ passed' = passed /\ owned' = owned
          /\ pc' \in {"idle", "rbDep"}
      BY <1>4 DEF PauseUnreachable, PauseBreach, PauseWait, PauseInterrupted, Goto, history
    <2>2. \/ NoWrite
          \/ UpdateStatus(Reachable)
          \/ UpdateStatus([cache.status EXCEPT !.prom = 0])
      BY <1>4 DEF PauseUnreachable, PauseBreach, PauseWait, PauseInterrupted, ClearUnreachable
    <2>3. CASE NoWrite
      BY <2>1, <2>3 DEF NoWrite, Keeps
    <2>4. ASSUME NEW t, UpdateStatus([cache.status EXCEPT !.prom = t])
          PROVE  Waits
      <3> DEFINE s == [cache.status EXCEPT !.prom = t]
      <3>1. /\ s.phase = cache.status.phase /\ s.idx = cache.status.idx
            /\ s.pause = cache.status.pause /\ s.weight = cache.status.weight
            /\ s.stable = cache.status.stable /\ s.canary = cache.status.canary
        BY <1>s DEF Statuses
      <3>2. Written /\ obj'.status = s
        BY <2>1, <2>4, UpdateWritten
      <3>3. QED
        BY <2>1, <3>1, <3>2 DEF Waits, Written, SameImages
    <2>5. QED
      BY <2>2, <2>3, <2>4 DEF Reachable
  <1>5. CASE PauseAdvance
    <2> DEFINE s == [Reachable EXCEPT !.idx = ad.status.idx + 1, !.pause = Nil]
    <2>1. /\ s.phase = cache.status.phase /\ s.idx = ad.status.idx + 1
          /\ s.weight = cache.status.weight /\ s.pause = Nil /\ s.prom = Nil
          /\ s.stable = cache.status.stable /\ s.canary = cache.status.canary
      BY <1>s DEF Reachable, Statuses
    <2>2. Written /\ obj'.status = s
      BY <1>5, UpdateWritten DEF PauseAdvance
    <2>3. Advances
      BY <1>5, <2>1, <2>2 DEF PauseAdvance, Advances, Goto, Written, SameImages
    <2>4. QED
      BY <2>3
  <1>6. CASE RollbackStatus
    <2> DEFINE canary == IF cache.status.canary = NoImage THEN ad.spec.image ELSE cache.status.canary
               s == [Cleared EXCEPT !.phase = "RolloutFailed", !.canary = canary]
    <2>1. s.phase # "RolloutInProgress" /\ s.idx = 0 /\ s.pause = Nil /\ s.prom = Nil
      BY <1>s DEF Cleared, Statuses
    <2>2. Written /\ obj'.status = s
      BY <1>6, UpdateWritten DEF RollbackStatus
    <2>3. Ends
      BY <1>6, <2>1, <2>2 DEF RollbackStatus, Ends, Goto, InProgress
    <2>4. QED
      BY <2>3
  <1>7. CASE PromoteStatus
    <2> DEFINE s == [Cleared EXCEPT !.phase = "Running", !.stable = ad.status.canary,
                                    !.canary = NoImage]
    <2>1. s.phase # "RolloutInProgress" /\ s.idx = 0 /\ s.pause = Nil /\ s.prom = Nil
      BY <1>s DEF Cleared, Statuses
    <2>2. Written /\ obj'.status = s
      BY <1>7, UpdateWritten DEF PromoteStatus
    <2>3. Ends
      BY <1>7, <2>1, <2>2 DEF PromoteStatus, Ends, Goto, InProgress, history
    <2>4. QED
      BY <2>3
  <1>8. CASE updateStatus
    <2>1. owned' = owned /\ passed' = passed /\ pc' = "idle"
      BY <1>8 DEF updateStatus, Goto, history
    <2>2. NoWrite \/ \E d \in Copies, p \in BOOLEAN : UpdateStatus(DerivedStatus(cache, d, p))
      BY <1>8 DEF updateStatus
    <2>3. CASE NoWrite
      BY <2>1, <2>3 DEF NoWrite, Keeps
    <2>4. ASSUME NEW d \in Copies, NEW p \in BOOLEAN, UpdateStatus(DerivedStatus(cache, d, p))
          PROVE  Ends
      <3>1. /\ DerivedStatus(cache, d, p).idx = cache.status.idx
            /\ DerivedStatus(cache, d, p).pause = cache.status.pause
            /\ DerivedStatus(cache, d, p).prom = cache.status.prom
            /\ DerivedStatus(cache, d, p).phase # "RolloutInProgress"
        BY <1>s DEF DerivedStatus, Statuses
      <3>2. Written /\ obj'.status = DerivedStatus(cache, d, p)
        BY <2>1, <2>4, UpdateWritten
      <3>3. QED
        BY <2>1, <3>1, <3>2 DEF Ends, Written, InProgress
    <2>5. QED
      BY <2>2, <2>3, <2>4
  <1>9. CASE \/ Reconcile \/ Conflict \/ Fault \/ EditSpec \/ DeleteOutOfBand \/ DeploymentProgress
             \/ Sync
    <2>1. /\ obj'.status = obj.status /\ passed' = passed /\ (cache' = cache \/ cache' = obj')
          /\ obj' = obj \/ EditSpec
      BY <1>9, <1>a
         DEF Reconcile, Conflict, Fault, EditSpec, DeleteOutOfBand, DeploymentProgress, Sync,
             NoWrite, history, ADs
    <2>2. QED
      BY <2>1 DEF Keeps
  <1>10. QED
    BY <1>1, <1>2, <1>3, <1>4, <1>5, <1>6, <1>7, <1>8, <1>9, CallsFlow
       DEF Next, Worker, Environment, Step, Teardown, Keeps

\* Where a step takes the reconciler: it stops, reads, turns from an evaluation to
\* a rollback, or stays on its path with the copy it has.
Stops == pc' = "idle"
TurnsBack ==
  /\ pc = "pause" /\ pc' = "rbDep" /\ ad'.spec = cache.spec
  /\ ad'.status.phase = cache.status.phase /\ ad'.status.idx = cache.status.idx
  /\ ad'.status.stable = cache.status.stable /\ ad'.status.canary = cache.status.canary
  /\ obj'.status.phase = obj.status.phase /\ obj'.status.idx = obj.status.idx
GoesOn ==
  /\ pc # "idle" /\ ad' = ad /\ obj'.status = obj.status /\ passed' = passed
  /\ pc' \in RolloutPoints => pc \in RolloutPoints
  /\ pc' \in StepPoints => pc \in StepPoints
  /\ pc' \in StartPoints => pc \in StartPoints
  /\ pc' \in ChildPoints => pc \in ChildPoints
  /\ pc' \in PromotePoints => pc \in PromotePoints \/ pc' = StepKind(ad)
  /\ pc' = "pause" => StepKind(ad) = "pause" \/ pc = "pause"

LEMMA PathStep ==
  ASSUME Inv, NamedInv, Next
  PROVE  Stops \/ Reconcile \/ TurnsBack \/ GoesOn \/ Tick
  <1>a. cache \in ADs /\ obj \in ADs /\ (fresh => cache = obj)
    BY DEF Inv, TypeOK, NamedInv
  <1>1. CASE PauseUnreachable
    <2>1. CASE pc' = "idle"
      BY <2>1 DEF Stops
    <2>2. CASE pc' # "idle"
      BY <1>1, <2>2 DEF PauseUnreachable, Goto, TurnsBack, NoWrite
    <2>3. QED
      BY <2>1, <2>2
  <1>2. CASE PauseBreach
    <2>1. /\ pc = "pause" /\ pc' = "rbDep" /\ ad' = [cache EXCEPT !.status = Reachable]
          /\ owned' = owned /\ (UpdateStatus(Reachable) \/ NoWrite)
      BY <1>2 DEF PauseBreach, ClearUnreachable
    <2>2. ad'.spec = cache.spec /\ ad'.status = Reachable
      BY <1>a, <2>1 DEF ADs
    <2>3. /\ Reachable.phase = cache.status.phase /\ Reachable.idx = cache.status.idx
          /\ Reachable.stable = cache.status.stable /\ Reachable.canary = cache.status.canary
      BY <1>a DEF Reachable, ADs, Statuses
    <2>4. \/ obj'.status = obj.status
          \/ obj'.status = Reachable /\ cache = obj
      BY <2>1, UpdateWritten DEF NoWrite, Written
    <2>5. QED
      BY <2>1, <2>2, <2>3, <2>4 DEF TurnsBack
  <1>3. CASE \/ StartStatus \/ SetWeightStatus \/ PauseBegin \/ PauseWait \/ PauseAdvance
             \/ PauseInterrupted \/ RollbackStatus \/ PromoteStatus \/ updateStatus
             \/ Conflict \/ Fault
    BY <1>3
       DEF StartStatus, SetWeightStatus, PauseBegin, PauseWait, PauseAdvance, PauseInterrupted,
           RollbackStatus, PromoteStatus, updateStatus, Conflict, Fault, Goto, Stops
  <1>4. CASE EditSpec \/ DeleteOutOfBand \/ DeploymentProgress \/ Sync
    BY <1>4, <1>a
       DEF EditSpec, DeleteOutOfBand, DeploymentProgress, Sync, Stops, GoesOn, NoWrite, history, ADs
  <1>5. ASSUME \/ PauseHPA \/ EnsureCanaryDeployment \/ EnsureCanaryService \/ EnsureHTTPRoute
               \/ RollbackImage \/ PromoteImage \/ deleteCanaryDeployment \/ deleteCanaryService
               \/ deleteHTTPRoute \/ restoreHPA \/ reconcileDeployment \/ reconcileHPA
        PROVE  Stops \/ GoesOn
    BY <1>5, CallsFlow DEF Stops, GoesOn
  <1>6. QED
    BY <1>1, <1>2, <1>3, <1>4, <1>5 DEF Next, Worker, Environment, Step, Teardown

\* Time changes neither plan nor progress, and starts or stops no clock.
LEMMA TickProgress ==
  ASSUME NEW a \in ADs
  PROVE  /\ Aged(a).spec = a.spec
         /\ Aged(a).status.phase = a.status.phase /\ Aged(a).status.idx = a.status.idx
         /\ Aged(a).status.weight = a.status.weight /\ Aged(a).status.canary = a.status.canary
         /\ Aged(a).status.stable = a.status.stable
         /\ Aged(a).status.pause = Nil <=> a.status.pause = Nil
         /\ Aged(a).status.prom = Nil <=> a.status.prom = Nil
  <1>1. /\ Aged(a).spec = a.spec
        /\ Aged(a).status.phase = a.status.phase /\ Aged(a).status.idx = a.status.idx
        /\ Aged(a).status.weight = a.status.weight /\ Aged(a).status.canary = a.status.canary
        /\ Aged(a).status.stable = a.status.stable
        /\ Aged(a).status.pause = Older(a.status.pause)
        /\ Aged(a).status.prom = Older(a.status.prom)
    BY NoADAssumption DEF Aged, AgedStatus, ADs, Statuses
  <1>2. \A t \in Times : Older(t) = Nil <=> t = Nil
    BY TimeAssumption DEF Times, Older, Nil
  <1>3. a.status.pause \in Times /\ a.status.prom \in Times
    BY DEF ADs, Statuses
  <1>4. QED
    BY <1>1, <1>2, <1>3

-----------------------------------------------------------------------------
(* Without cache lag, with a plan that is kept while it is executed.       *)

\* The user does not replace the plan of a rollout that is starting or in progress.
KeepsPlan == InProgress(obj) \/ pc \in StartPoints => obj'.spec.rollout = obj.spec.rollout
PlanKept == [][KeepsPlan]_vars

\* The reconciler executes the plan of the stored object, one that passed the
\* webhook's rules for Canary plans, and evaluates only at its pause steps.
PlanInv ==
  /\ pc \in RolloutPoints \cup StartPoints =>
       ad.spec.rollout = obj.spec.rollout /\ cache.spec.rollout = obj.spec.rollout
  /\ obj.spec.rollout.strategy = "Canary" => validateCanarySpec(obj.spec.rollout)
  /\ InProgress(obj) \/ pc \in StartPoints => validateCanarySpec(obj.spec.rollout)
  /\ pc = "pause" => StepKind(ad) = "pause"

LEMMA NextPlan ==
  ASSUME ~CacheLag, Inv, NamedInv, AgreeInv, PlanInv, Next, KeepsPlan
  PROVE  PlanInv'
  <1>a. /\ cache \in ADs /\ obj \in ADs /\ (pc # "idle" => ad \in ADs)
        /\ "idle" \notin RolloutPoints \cup StartPoints /\ "pause" \in RolloutPoints
        /\ "rbDep" \in RolloutPoints /\ "rbDep" \notin StartPoints /\ "startStatus" \in StartPoints
    BY DEF Inv, TypeOK, RolloutPoints, HealPoints, WeightPoints, RollbackPoints, PromotePoints,
           StartPoints
  <1>b. pc \in RolloutPoints => InProgress(obj)
    BY <1>a DEF AgreeInv, InProgress
  <1>1. CASE Tick
    <2>1. /\ obj'.spec = obj.spec /\ obj'.status.phase = obj.status.phase /\ pc' = pc
          /\ cache'.spec = cache.spec
      BY <1>1, <1>a, TickProgress DEF Tick
    <2>2. pc # "idle" => ad'.spec = ad.spec /\ StepKind(ad') = StepKind(ad)
      BY <1>1, <1>a, TickProgress, AgedKind DEF Tick
    <2>3. QED
      BY <1>a, <2>1, <2>2 DEF PlanInv, InProgress
  <1>2. CASE ~Tick
    <2>1. Keeps \/ Starts \/ Weighs \/ Waits \/ Advances \/ Ends
      BY <1>2, StatusStep
    <2>2. obj'.spec = obj.spec \/ EditSpec
      BY <2>1 DEF Keeps, Starts, Weighs, Waits, Advances, Ends, Written
    <2>3. /\ InProgress(obj) \/ pc \in StartPoints => obj'.spec.rollout = obj.spec.rollout
          /\ obj'.spec.rollout.strategy = "Canary" => validateCanarySpec(obj'.spec.rollout)
      <3>1. CASE obj'.spec = obj.spec
        BY <3>1 DEF PlanInv
      <3>2. CASE EditSpec
        BY <3>2, <1>a DEF EditSpec, ValidateUpdate, KeepsPlan, ADs
      <3>3. QED
        BY <2>2, <3>1, <3>2
    <2>4. InProgress(obj') => validateCanarySpec(obj'.spec.rollout)
      <3>1. InProgress(obj') => InProgress(obj) \/ pc \in StartPoints
        BY <2>1, <1>a DEF Keeps, Starts, Weighs, Waits, Advances, Ends, InProgress
      <3>2. QED
        BY <2>3, <3>1 DEF PlanInv
    <2>5. pc \in RolloutPoints \cup StartPoints /\ pc' # "idle" => cache'.spec.rollout = obj'.spec.rollout
      <3> SUFFICES ASSUME pc \in RolloutPoints \cup StartPoints
                   PROVE  cache'.spec.rollout = obj'.spec.rollout
        OBVIOUS
      <3>1. obj'.spec.rollout = obj.spec.rollout /\ cache.spec.rollout = obj.spec.rollout
        BY <1>b, <2>3 DEF PlanInv
      <3>2. cache' = cache \/ cache' = obj'
        BY <2>1 DEF Keeps, Starts, Weighs, Waits, Advances, Ends, Written
      <3>3. QED
        BY <3>1, <3>2
    <2>6. CASE Stops
      BY <1>a, <2>3, <2>4, <2>6 DEF Stops, PlanInv
    <2>7. CASE Reconcile
      <3>1. ad' = cache /\ obj' = obj /\ cache' = cache /\ cache = obj /\ pc' = Dispatch(cache)
        BY <2>7 DEF Reconcile, NoWrite, NamedInv
      <3>2. pc' \in StartPoints => validateCanarySpec(obj'.spec.rollout)
        <4>1. pc' \in StartPoints => isCanaryTriggered(cache)
          BY <1>a, <3>1, StepKindPoint DEF Dispatch, Heal, HealRoute, StartPoints
        <4>2. QED
          BY <2>3, <3>1, <4>1 DEF isCanaryTriggered
      <3>3. pc' = "pause" => StepKind(ad') = "pause"
        BY <1>a, <3>1, DispatchPoint
      <3>4. QED
        BY <2>3, <2>4, <3>1, <3>2, <3>3 DEF PlanInv
    <2>8. CASE TurnsBack
      <3>1. ad'.spec.rollout = cache.spec.rollout /\ pc \in RolloutPoints /\ pc' = "rbDep"
        BY <1>a, <2>8 DEF TurnsBack
      <3>2. cache.spec.rollout = obj'.spec.rollout
        BY <3>1, <1>b, <2>3 DEF PlanInv
      <3>3. QED
        BY <1>a, <2>3, <2>4, <2>5, <3>1, <3>2 DEF PlanInv
    <2>9. CASE GoesOn
      <3>1. pc' \in RolloutPoints \cup StartPoints =>
              /\ ad'.spec.rollout = obj'.spec.rollout
              /\ cache'.spec.rollout = obj'.spec.rollout
        BY <1>a, <1>b, <2>3, <2>5, <2>9 DEF GoesOn, PlanInv
      <3>2. pc' \in StartPoints => validateCanarySpec(obj'.spec.rollout)
        BY <2>3, <2>9 DEF GoesOn, PlanInv
      <3>3. pc' = "pause" => StepKind(ad') = "pause"
        BY <2>9 DEF GoesOn, PlanInv
      <3>4. QED
        BY <2>3, <2>4, <3>1, <3>2, <3>3 DEF PlanInv
    <2>10. QED
      BY <1>2, <2>6, <2>7, <2>8, <2>9, PathStep
  <1>3. QED
    BY <1>1, <1>2


LEMMA SpecPlan ==
  ASSUME ~CacheLag
  PROVE  Spec /\ PlanKept => [](Inv /\ NamedInv /\ AgreeInv /\ TeardownInv /\ PlanInv)
  <1>1. Init => PlanInv
    <2> SUFFICES ASSUME Init PROVE PlanInv
      OBVIOUS
    <2>1. obj.status = ZeroStatus /\ pc = "idle"
      BY DEF Init
    <2>2. ~InProgress(obj)
      <3>1. ZeroStatus.phase = ""
        BY DEF ZeroStatus
      <3>2. QED
        BY <2>1, <3>1 DEF InProgress
    <2>3. pc \notin RolloutPoints \cup StartPoints
      BY <2>1 DEF RolloutPoints, HealPoints, WeightPoints, RollbackPoints, PromotePoints, StartPoints
    <2>4. QED
      BY <2>1, <2>2, <2>3 DEF Init, PlanInv
  <1>2. /\ Inv /\ NamedInv /\ AgreeInv /\ TeardownInv /\ PlanInv
        /\ [Next]_vars /\ [KeepsPlan]_vars
        => PlanInv'
    <2>1. ASSUME PlanInv, UNCHANGED vars PROVE PlanInv'
      <3>1. obj' = obj /\ cache' = cache /\ pc' = pc /\ ad' = ad
        BY <2>1 DEF vars
      <3>2. QED
        BY <2>1, <3>1 DEF PlanInv, InProgress, StepKind
    <2>2. QED
      BY <2>1, NextPlan
  <1>3. QED
    BY <1>1, <1>2, SpecNamed, SpecTeardown, PTL DEF Spec, PlanKept

\* Every pause among the steps before the current one is in `done`.
Evaluated(a, done) ==
  InProgress(a) =>
    \A i \in DOMAIN a.spec.rollout.steps :
      i <= a.status.idx /\ a.spec.rollout.steps[i].pause # Nil => i - 1 \in done

\* A copy with the same plan and step, in progress only if the other is.
LEMMA EvaluatedSame ==
  ASSUME NEW a, NEW b, NEW done, Evaluated(a, done), b.spec.rollout = a.spec.rollout,
         b.status.idx = a.status.idx, InProgress(b) => InProgress(a)
  PROVE  Evaluated(b, done)
  BY DEF Evaluated

\* A copy at the first step.
LEMMA EvaluatedFirst ==
  ASSUME NEW a \in ADs, NEW done, a.status.idx = 0
  PROVE  Evaluated(a, done)
  <1>1. a.spec.rollout.steps \in Seq(Steps)
    BY RolloutsAssumption DEF ADs, ADSpecs
  <1>2. \A i \in DOMAIN a.spec.rollout.steps : ~(i <= 0)
    BY <1>1
  <1>3. QED
    BY <1>2 DEF Evaluated

\* A step that is no pause, or one just evaluated, is left behind.
LEMMA EvaluatedNext ==
  ASSUME NEW a \in ADs, NEW b, NEW done, NEW done2, Evaluated(a, done), InProgress(a),
         b.spec.rollout = a.spec.rollout, b.status.idx = a.status.idx + 1, done \subseteq done2,
         \/ a.spec.rollout.steps[a.status.idx + 1].pause = Nil
         \/ a.status.idx \in done2
  PROVE  Evaluated(b, done2)
  <1>1. a.spec.rollout.steps \in Seq(Steps) /\ a.status.idx \in Nat
    BY RolloutsAssumption DEF ADs, ADSpecs, Statuses
  <1> SUFFICES ASSUME NEW i \in DOMAIN a.spec.rollout.steps, i <= a.status.idx + 1,
                      a.spec.rollout.steps[i].pause # Nil
               PROVE  i - 1 \in done2
    BY DEF Evaluated
  <1>2. i \in Nat
    BY <1>1
  <1>3. CASE i = a.status.idx + 1
    BY <1>1, <1>3
  <1>4. CASE i # a.status.idx + 1
    <2>1. i <= a.status.idx
      BY <1>1, <1>2, <1>4
    <2>2. QED
      BY <2>1 DEF Evaluated
  <1>5. QED
    BY <1>3, <1>4

\* In a plan the webhook accepts, a setWeight step is no pause, and at a pause step
\* there is no weight.
LEMMA StepOfPlan ==
  ASSUME NEW a \in ADs
  PROVE  /\ StepKind(a) \in {"weightDep", "pause"} => a.status.idx < Len(a.spec.rollout.steps)
         /\ StepKind(a) = "weightDep" =>
              a.spec.rollout.steps[a.status.idx + 1].setWeight # Nil
         /\ StepKind(a) = "weightDep" /\ validateCanarySpec(a.spec.rollout) =>
              a.spec.rollout.steps[a.status.idx + 1].pause = Nil
         /\ StepKind(a) = "pause" => a.spec.rollout.steps[a.status.idx + 1].setWeight = Nil
  <1>1. a.spec.rollout.steps \in Seq(Steps) /\ a.status.idx \in Nat
    BY RolloutsAssumption DEF ADs, ADSpecs, Statuses
  <1>a. Len(a.spec.rollout.steps) \in Nat
    BY <1>1
  <1>b. a.status.idx >= Len(a.spec.rollout.steps) => StepKind(a) \notin {"weightDep", "pause"}
    BY DEF StepKind
  <1>2. StepKind(a) \in {"weightDep", "pause"} => a.status.idx < Len(a.spec.rollout.steps)
    BY <1>1, <1>a, <1>b
  <1>3. a.status.idx < Len(a.spec.rollout.steps) => a.status.idx + 1 \in DOMAIN a.spec.rollout.steps
    BY <1>1
  <1>4. QED
    BY <1>2, <1>3 DEF StepKind, validateCanarySpec

LEMMA NextEvaluated ==
  ASSUME ~CacheLag, Inv, NamedInv, AgreeInv, TeardownInv, PlanInv, Next, KeepsPlan,
         Inv', Evaluated(obj, passed)
  PROVE  Evaluated(obj', passed')
  <1>a. obj \in ADs /\ obj' \in ADs /\ (pc # "idle" => ad \in ADs /\ ad.status = obj.status)
    BY DEF Inv, TypeOK, AgreeInv
  <1>1. CASE Keeps
    <2>1. InProgress(obj') => obj'.spec.rollout = obj.spec.rollout /\ InProgress(obj)
      BY <1>1 DEF Keeps, KeepsPlan, InProgress
    <2>2. obj'.status.idx = obj.status.idx /\ passed' = passed
      BY <1>1 DEF Keeps
    <2>3. QED
      BY <2>1, <2>2 DEF Evaluated
  <1>2. CASE Starts
    BY <1>2, <1>a, EvaluatedFirst DEF Starts
  <1>3. CASE Weighs \/ Advances
    <2>1. /\ pc \in {"weightStatus", "pause"} /\ obj'.status.idx = obj.status.idx + 1
          /\ obj'.spec = obj.spec /\ passed \subseteq passed'
          /\ pc = "pause" => obj.status.idx \in passed'
      BY <1>3, <1>a DEF Weighs, Advances, Written
    <2>2. pc \in RolloutPoints /\ ad \in ADs
      BY <1>a, <2>1 DEF RolloutPoints, WeightPoints
    <2>3. InProgress(obj) /\ ad.spec.rollout = obj.spec.rollout
      BY <1>a, <2>1, <2>2 DEF AgreeInv, PlanInv, InProgress
    <2>4. pc = "weightStatus" => obj.spec.rollout.steps[obj.status.idx + 1].pause = Nil
      <3>1. pc = "weightStatus" => StepKind(ad) = "weightDep"
        BY DEF Inv, WeightPoints
      <3>2. validateCanarySpec(ad.spec.rollout)
        BY <2>3 DEF PlanInv
      <3>3. ad.status = obj.status
        BY <1>a, <2>1
      <3>4. QED
        BY <2>2, <2>3, <3>1, <3>2, <3>3, StepOfPlan
    <2>5. QED
      BY <1>a, <2>1, <2>3, <2>4, EvaluatedNext
  <1>4. CASE Waits
    BY <1>4, EvaluatedSame DEF Waits, Written, InProgress
  <1>5. CASE Ends
    BY <1>5 DEF Ends, Evaluated
  <1>6. CASE Tick
    BY <1>6, <1>a, TickProgress, EvaluatedSame DEF Tick, InProgress, history
  <1>7. QED
    BY <1>1, <1>2, <1>3, <1>4, <1>5, <1>6, StatusStep

\* When the reconciler reads its own writes and the plan is kept while it is
\* executed, promote only runs after every pause of the plan was left by an
\* evaluation of this very rollout (canary.go:113, canary.go:261), whatever was
\* interrupted, retried or deleted in between.
THEOREM PromotionEvaluated ==
  ASSUME ~CacheLag
  PROVE  Spec /\ PlanKept => []EvaluatedPromotion
  <1>1. Init => Evaluated(obj, passed)
    <2>1. ASSUME Init PROVE ~InProgress(obj)
      <3>1. obj.status = ZeroStatus /\ ZeroStatus.phase = ""
        BY <2>1 DEF Init, ZeroStatus
      <3>2. QED
        BY <3>1 DEF InProgress
    <2>2. QED
      BY <2>1 DEF Evaluated
  <1>2. /\ Inv /\ NamedInv /\ AgreeInv /\ TeardownInv /\ PlanInv /\ Inv'
        /\ Evaluated(obj, passed) /\ [Next]_vars /\ [KeepsPlan]_vars
        => Evaluated(obj, passed)'
    BY NextEvaluated DEF vars, Evaluated, InProgress
  <1>3. Inv /\ AgreeInv /\ PlanInv /\ Evaluated(obj, passed) => EvaluatedPromotion
    <2> SUFFICES ASSUME Inv, AgreeInv, PlanInv, Evaluated(obj, passed), pc \in PromotePoints,
                        NEW i \in DOMAIN ad.spec.rollout.steps,
                        ad.spec.rollout.steps[i].pause # Nil
                 PROVE  i - 1 \in passed
      BY DEF EvaluatedPromotion
    <2>1. pc # "idle" /\ pc \in RolloutPoints
      BY DEF PromotePoints, RolloutPoints
    <2>2. /\ ad \in ADs /\ ad.status = obj.status /\ ad.spec.rollout = obj.spec.rollout
          /\ InProgress(obj) /\ obj.status.idx >= Len(ad.spec.rollout.steps)
      BY <2>1 DEF Inv, TypeOK, AgreeInv, PlanInv, InProgress
    <2>3. ad.spec.rollout.steps \in Seq(Steps) /\ ad.status.idx \in Nat
      BY <2>2, RolloutsAssumption DEF ADs, ADSpecs, Statuses
    <2>4. i <= obj.status.idx
      <3>1. i \in 1..Len(ad.spec.rollout.steps) /\ Len(ad.spec.rollout.steps) \in Nat
        BY <2>3
      <3>2. obj.status.idx >= Len(ad.spec.rollout.steps) /\ obj.status.idx \in Nat
        BY <2>2, <2>3, Zenon
      <3>3. QED
        BY <3>1, <3>2
    <2>5. QED
      BY <2>2, <2>4 DEF Evaluated
  <1>4. QED
    BY <1>1, <1>2, <1>3, SpecPlan, PTL DEF Spec, PlanKept

\* What FailSafeClockInsidePause needs to be inductive: the clock runs only at a
\* pause step, so no setWeight step meets it.
ClockInv ==
  /\ FailSafeClockInsidePause
  /\ InProgress(obj) /\ obj.status.prom # Nil =>
       obj.spec.rollout.steps[obj.status.idx + 1].setWeight = Nil

LEMMA NextClock ==
  ASSUME ~CacheLag, Inv, NamedInv, AgreeInv, TeardownInv, PlanInv, Next, KeepsPlan,
         TeardownInv', ClockInv
  PROVE  ClockInv'
  <1>a. obj \in ADs /\ (pc # "idle" => ad \in ADs /\ ad.status = obj.status)
    BY DEF Inv, TypeOK, AgreeInv
  <1>b. ~InProgress(obj') => obj'.status.prom = Nil
    BY DEF TeardownInv, ProgressOnlyInRollout
  <1>1. CASE Keeps
    <2>1. /\ InProgress(obj') => obj'.spec.rollout = obj.spec.rollout /\ InProgress(obj)
          /\ obj'.status = obj.status
      BY <1>1 DEF Keeps, KeepsPlan, InProgress
    <2>2. QED
      BY <2>1 DEF ClockInv, FailSafeClockInsidePause
  <1>2. CASE Starts \/ Advances
    BY <1>2 DEF Starts, Advances, ClockInv, FailSafeClockInsidePause
  <1>3. CASE Weighs
    <2>1. /\ pc = "weightStatus" /\ obj'.status.prom = obj.status.prom
          /\ ad \in ADs /\ ad.status = obj.status
      BY <1>3, <1>a DEF Weighs
    <2>2. StepKind(ad) = "weightDep" /\ InProgress(obj) /\ ad.spec.rollout = obj.spec.rollout
      BY <2>1 DEF Inv, AgreeInv, PlanInv, WeightPoints, RolloutPoints, InProgress
    <2>3. obj.spec.rollout.steps[obj.status.idx + 1].setWeight # Nil
      BY <2>1, <2>2, StepOfPlan
    <2>4. obj'.status.prom = Nil
      BY <2>1, <2>2, <2>3 DEF ClockInv
    <2>5. QED
      BY <2>4 DEF ClockInv, FailSafeClockInsidePause
  <1>4. CASE Waits
    <2>1. /\ pc = "pause" /\ ad \in ADs /\ ad.status = obj.status
          /\ obj'.spec = obj.spec /\ obj'.status.idx = obj.status.idx /\ obj'.status.pause # Nil
      BY <1>4, <1>a DEF Waits, Written
    <2>2. StepKind(ad) = "pause" /\ ad.spec.rollout = obj.spec.rollout
      BY <2>1 DEF PlanInv, RolloutPoints
    <2>3. obj'.spec.rollout.steps[obj'.status.idx + 1].setWeight = Nil
      BY <2>1, <2>2, StepOfPlan
    <2>4. QED
      BY <2>1, <2>3 DEF ClockInv, FailSafeClockInsidePause
  <1>5. CASE Ends
    BY <1>5, <1>b DEF Ends, ClockInv, FailSafeClockInsidePause
  <1>6. CASE Tick
    <2>1. /\ obj'.spec = obj.spec /\ obj'.status.idx = obj.status.idx
          /\ obj'.status.phase = obj.status.phase
          /\ obj'.status.pause = Nil <=> obj.status.pause = Nil
          /\ obj'.status.prom = Nil <=> obj.status.prom = Nil
      BY <1>6, <1>a, TickProgress DEF Tick
    <2>2. QED
      BY <2>1 DEF ClockInv, FailSafeClockInsidePause, InProgress
  <1>7. QED
    BY <1>1, <1>2, <1>3, <1>4, <1>5, <1>6, StatusStep

\* Under the same two conditions an outage of Prometheus that began in one pause
\* never counts in a later one: no status holds PromUnreachableSince without the
\* PauseStartedAt of the pause that set it (canary.go:243, canary.go:293).
THEOREM FailSafeClockBound ==
  ASSUME ~CacheLag
  PROVE  Spec /\ PlanKept => []FailSafeClockInsidePause
  <1>1. Init => ClockInv
    <2> SUFFICES ASSUME Init PROVE ClockInv
      OBVIOUS
    <2>1. obj.status = ZeroStatus /\ ZeroStatus.prom = Nil
      BY DEF Init, ZeroStatus
    <2>2. QED
      BY <2>1 DEF ClockInv, FailSafeClockInsidePause
  <1>2. /\ Inv /\ NamedInv /\ AgreeInv /\ TeardownInv /\ PlanInv /\ TeardownInv'
        /\ ClockInv /\ [Next]_vars /\ [KeepsPlan]_vars
        => ClockInv'
    <2>1. ASSUME ClockInv, UNCHANGED vars PROVE ClockInv'
      BY <2>1 DEF vars, ClockInv, FailSafeClockInsidePause, InProgress
    <2>2. QED
      BY <2>1, NextClock
  <1>3. ClockInv => FailSafeClockInsidePause
    BY DEF ClockInv
  <1>4. QED
    BY <1>1, <1>2, <1>3, SpecPlan, PTL DEF Spec, PlanKept

\* What TrafficFollowsPlan needs to be inductive: between the HTTPRoute and the
\* status update of a setWeight step, the route has the weight to be recorded.
TrafficInv ==
  /\ TrafficFollowsPlan
  /\ pc = "weightStatus" => owned.route \in {Nil, StepWeight}

\* Only EnsureHTTPRoute gives the canary a weight.
LEMMA RouteStep ==
  ASSUME Inv, NamedInv, Next, ~EnsureHTTPRoute
  PROVE  /\ owned'.route \in {owned.route, Nil}
         /\ pc' = "weightStatus" => pc = "weightStatus" /\ (ad' = ad \/ Tick)
  <1>a. owned \in Owned /\ (pc # "idle" => ad \in ADs) /\ cache \in ADs
    BY DEF Inv, TypeOK
  <1>1. CASE EnsureCanaryDeployment \/ EnsureCanaryService
    <2>1. /\ pc \in {"healDep", "healSvc", "weightDep", "weightSvc"}
          /\ pc' \in {"healSvc", "weightSvc", "weightRoute", HealRoute(ad)}
          /\ \/ owned' = owned
             \/ owned' = [owned EXCEPT !.cdep = ad.status.canary]
             \/ owned' = [owned EXCEPT !.csvc = TRUE]
      BY <1>1 DEF EnsureCanaryDeployment, EnsureCanaryService, Call, Move, Goto
    <2>2. pc' # "weightStatus"
      BY <1>a, <2>1, HealRoutePoint, StepKindPoint
    <2>3. owned'.route = owned.route
      BY <1>a, <2>1 DEF Owned
    <2>4. QED
      BY <2>2, <2>3
  <1>2. CASE \/ PauseHPA \/ RollbackImage \/ PromoteImage \/ deleteCanaryDeployment
             \/ deleteCanaryService \/ deleteHTTPRoute \/ restoreHPA
             \/ reconcileDeployment \/ reconcileHPA
    <2>1. /\ pc' # "weightStatus"
          /\ \/ owned' = owned
             \/ \E im : owned' = SetStableImage(im)
             \/ owned' = [owned EXCEPT !.cdep = NoImage]
             \/ owned' = [owned EXCEPT !.csvc = FALSE]
             \/ owned' = [owned EXCEPT !.route = Nil]
             \/ \E h : owned' = [owned EXCEPT !.hpa = h]
      BY <1>2, Zenon
         DEF PauseHPA, RollbackImage, PromoteImage, deleteCanaryDeployment, deleteCanaryService,
             deleteHTTPRoute, restoreHPA, reconcileDeployment, reconcileHPA, Call, Move, Goto
    <2>2. owned'.route \in {owned.route, Nil}
      BY <1>a, <2>1 DEF SetStableImage, Owned
    <2>3. QED
      BY <2>1, <2>2
  <1>3. CASE DeleteOutOfBand
    <2>1. PICK k \in Drift : owned' = Without(k) /\ pc' = pc /\ ad' = ad
      BY <1>3 DEF DeleteOutOfBand
    <2>2. k \in {"dep", "cdep", "csvc", "route", "hpa"}
      BY BoundsAssumption
    <2>3. QED
      BY <1>a, <2>1, <2>2 DEF Without, Owned
  <1>4. CASE DeploymentProgress
    BY <1>4, <1>a DEF DeploymentProgress, Owned
  <1>5. CASE EditSpec \/ Sync \/ Tick
    BY <1>5 DEF EditSpec, Sync, Tick
  <1>6. CASE Reconcile
    <2>1. pc' = Dispatch(cache) /\ owned' = owned
      BY <1>6 DEF Reconcile
    <2>2. QED
      BY <1>a, <2>1, DispatchPoint, StepKindPoint
  <1>7. CASE \/ StartStatus \/ SetWeightStatus \/ PauseBegin \/ PauseUnreachable \/ PauseBreach
             \/ PauseWait \/ PauseAdvance \/ PauseInterrupted \/ RollbackStatus \/ PromoteStatus
             \/ updateStatus \/ Conflict \/ Fault
    BY <1>7
       DEF StartStatus, SetWeightStatus, PauseBegin, PauseUnreachable, PauseBreach, PauseWait,
           PauseAdvance, PauseInterrupted, RollbackStatus, PromoteStatus, updateStatus,
           Conflict, Fault, Goto
  <1>8. QED
    BY <1>1, <1>2, <1>3, <1>4, <1>5, <1>6, <1>7 DEF Next, Worker, Environment, Step, Teardown

LEMMA NextTraffic ==
  ASSUME ~CacheLag, Inv, NamedInv, AgreeInv, TeardownInv, PlanInv, Next, KeepsPlan, TrafficInv
  PROVE  TrafficInv'
  <1>c. "idle" \notin RolloutPoints
    BY DEF RolloutPoints, HealPoints, WeightPoints, RollbackPoints, PromotePoints
  <1>a. /\ obj \in ADs /\ (pc # "idle" => ad \in ADs /\ ad.status = obj.status)
        /\ pc \in RolloutPoints => InProgress(obj) /\ ad.spec.rollout = obj.spec.rollout
        /\ owned \in Owned
    BY <1>c DEF Inv, TypeOK, AgreeInv, PlanInv, InProgress
  <1>b. /\ "healRoute" \in RolloutPoints /\ "weightRoute" \in RolloutPoints
        /\ "weightStatus" \in RolloutPoints /\ "pause" \in RolloutPoints
    BY DEF RolloutPoints, HealPoints, WeightPoints
  <1>1. CASE Call("healRoute", StepKind(ad), [owned EXCEPT !.route = ad.status.weight])
    <2>1. /\ pc = "healRoute" /\ pc' = StepKind(ad) /\ obj' = obj
          /\ owned'.route = obj.status.weight /\ ad \in ADs
      BY <1>1, <1>a, CallMoves DEF Move, Goto, NoWrite, Owned
    <2>2. pc' # "weightStatus"
      BY <2>1, StepKindPoint
    <2>3. QED
      BY <2>1, <2>2 DEF TrafficInv, TrafficFollowsPlan
  <1>2. CASE pc = "weightRoute" /\ Call("weightRoute", "weightStatus", [owned EXCEPT !.route = StepWeight])
    <2>1. /\ pc = "weightRoute" /\ obj' = obj /\ owned'.route = StepWeight /\ ad' = ad
          /\ pc' = "weightStatus" /\ ad \in ADs /\ ad.status = obj.status
          /\ ad.spec.rollout = obj.spec.rollout
      BY <1>2, <1>a, <1>b, CallMoves DEF Move, Goto, NoWrite, Owned
    <2>2. obj.status.idx < Len(obj.spec.rollout.steps)
      BY <2>1, StepOfPlan DEF Inv, WeightPoints
    <2>3. QED
      BY <2>1, <2>2 DEF TrafficInv, TrafficFollowsPlan, StepWeight
  <1>3. CASE ~EnsureHTTPRoute
    <2>1. owned'.route \in {owned.route, Nil}
      BY <1>3, RouteStep
    <2>2. pc' = "weightStatus" => owned'.route \in {Nil, StepWeight'}
      <3> SUFFICES ASSUME pc' = "weightStatus" PROVE owned'.route \in {Nil, StepWeight'}
        OBVIOUS
      <3>1. pc = "weightStatus" /\ (ad' = ad \/ Tick)
        BY <1>3, RouteStep
      <3>2. ad'.spec = ad.spec /\ ad'.status.idx = ad.status.idx
        BY <1>a, <3>1, TickProgress DEF Tick
      <3>3. QED
        BY <2>1, <3>1, <3>2 DEF TrafficInv, StepWeight
    <2>3. CASE Keeps
      <3>1. /\ InProgress(obj') => obj'.spec.rollout = obj.spec.rollout /\ InProgress(obj)
            /\ obj'.status = obj.status
        BY <2>3 DEF Keeps, KeepsPlan, InProgress
      <3>2. QED
        BY <2>1, <2>2, <3>1 DEF TrafficInv, TrafficFollowsPlan
    <2>4. CASE Starts
      <3>1. pc = "startStatus" /\ owned' = owned
        BY <2>4 DEF Starts, Written
      <3>2. ~InProgress(obj)
        BY <3>1 DEF AgreeInv, StartPoints, InProgress
      <3>3. owned'.route = Nil
        BY <3>1, <3>2 DEF TeardownInv, NoOrphans
      <3>4. QED
        BY <2>2, <3>3 DEF TrafficInv, TrafficFollowsPlan
    <2>5. CASE Weighs
      <3>1. obj'.status.weight = StepWeight /\ owned'.route \in {Nil, StepWeight}
        BY <2>5 DEF Weighs, Written, TrafficInv
      <3>2. QED
        BY <2>2, <3>1 DEF TrafficInv, TrafficFollowsPlan
    <2>6. CASE Waits
      BY <2>1, <2>2, <2>6 DEF Waits, Written, TrafficInv, TrafficFollowsPlan, InProgress
    <2>7. CASE Advances
      <3>1. /\ pc = "pause" /\ obj'.status.weight = obj.status.weight /\ owned' = owned
            /\ ad \in ADs /\ ad.status = obj.status /\ ad.spec.rollout = obj.spec.rollout
            /\ InProgress(obj)
        BY <1>a, <1>b, <2>7 DEF Advances, Written
      <3>2. obj.spec.rollout.steps[obj.status.idx + 1].setWeight = Nil
        BY <3>1, StepOfPlan DEF PlanInv
      <3>3. QED
        BY <2>2, <3>1, <3>2 DEF TrafficInv, TrafficFollowsPlan
    <2>8. CASE Ends
      BY <2>2, <2>8 DEF Ends, TrafficInv, TrafficFollowsPlan
    <2>9. CASE Tick
      <3>1. /\ obj'.spec = obj.spec /\ obj'.status.idx = obj.status.idx
            /\ obj'.status.weight = obj.status.weight /\ obj'.status.phase = obj.status.phase
        BY <1>a, <2>9, TickProgress DEF Tick
      <3>2. QED
        BY <2>1, <2>2, <3>1 DEF TrafficInv, TrafficFollowsPlan, InProgress
    <2>10. QED
      BY <2>3, <2>4, <2>5, <2>6, <2>7, <2>8, <2>9, StatusStep
  <1>4. QED
    BY <1>1, <1>2, <1>3 DEF EnsureHTTPRoute

\* Under the same two conditions the canary never gets traffic its plan does not
\* foresee: the HTTPRoute has the recorded weight or, when the status update of a
\* setWeight step was lost after the route was shifted (canary.go:215), the weight
\* of exactly that step.
THEOREM TrafficAsPlanned ==
  ASSUME ~CacheLag
  PROVE  Spec /\ PlanKept => []TrafficFollowsPlan
  <1>1. Init => TrafficInv
    BY DEF Init, TrafficInv, TrafficFollowsPlan
  <1>2. /\ Inv /\ NamedInv /\ AgreeInv /\ TeardownInv /\ PlanInv
        /\ TrafficInv /\ [Next]_vars /\ [KeepsPlan]_vars
        => TrafficInv'
    <2>1. ASSUME TrafficInv, UNCHANGED vars PROVE TrafficInv'
      BY <2>1 DEF vars, TrafficInv, TrafficFollowsPlan, StepWeight, InProgress
    <2>2. QED
      BY <2>1, NextTraffic
  <1>3. TrafficInv => TrafficFollowsPlan
    BY DEF TrafficInv
  <1>4. QED
    BY <1>1, <1>2, <1>3, SpecPlan, PTL DEF Spec, PlanKept

-----------------------------------------------------------------------------
(* However late the reads are, with a plan that is never edited.  A copy is *)
(* then at most one status update behind: the next update from it is a      *)
(* conflict until the cache has caught up.                                  *)

KeepsEveryPlan == obj'.spec.rollout = obj.spec.rollout
PlanNeverEdited == [][KeepsEveryPlan]_vars

\* All copies hold the same plan, and it is a Canary plan if it is executed.
LatePlanInv ==
  /\ cache.spec.rollout = obj.spec.rollout
  /\ pc # "idle" => ad.spec.rollout = obj.spec.rollout
  /\ obj.spec.rollout.strategy = "Canary" => validateCanarySpec(obj.spec.rollout)
  /\ InProgress(obj) \/ InProgress(cache) \/ pc \in StartPoints \cup StepPoints =>
       obj.spec.rollout.strategy = "Canary"
  /\ pc \in StepPoints => InProgress(ad)
  /\ pc \in StartPoints => ~InProgress(ad)
  /\ pc \in PromotePoints => ad.status.idx >= Len(ad.spec.rollout.steps)
  /\ pc = "pause" => StepKind(ad) = "pause"

LEMMA NextLatePlan ==
  ASSUME Inv, NamedInv, LatePlanInv, Next, KeepsEveryPlan
  PROVE  LatePlanInv'
  <1>a. /\ cache \in ADs /\ obj \in ADs /\ (pc # "idle" => ad \in ADs)
        /\ "idle" \notin StepPoints \cup StartPoints \cup PromotePoints
        /\ "rbDep" \notin StepPoints \cup StartPoints \cup PromotePoints
        /\ "startStatus" \in StartPoints /\ PromotePoints \subseteq StepPoints
    BY DEF Inv, TypeOK, StepPoints, HealPoints, WeightPoints, PromotePoints, StartPoints
  <1>b. obj'.spec.rollout = obj.spec.rollout
    BY DEF KeepsEveryPlan
  <1>1. CASE Tick
    <2>1. /\ pc' = pc /\ obj'.status.phase = obj.status.phase
          /\ cache'.spec = cache.spec /\ cache'.status.phase = cache.status.phase
      BY <1>1, <1>a, TickProgress DEF Tick
    <2>2. pc # "idle" => /\ ad'.spec = ad.spec /\ StepKind(ad') = StepKind(ad)
                         /\ ad'.status.phase = ad.status.phase /\ ad'.status.idx = ad.status.idx
      BY <1>1, <1>a, TickProgress, AgedKind DEF Tick
    <2>3. QED
      BY <1>a, <1>b, <2>1, <2>2 DEF LatePlanInv, InProgress
  <1>2. CASE ~Tick
    <2>1. Keeps \/ Starts \/ Weighs \/ Waits \/ Advances \/ Ends
      BY <1>2, StatusStep
    <2>2. cache' = cache \/ cache' = obj'
      BY <2>1 DEF Keeps, Starts, Weighs, Waits, Advances, Ends, Written
    <2>3. InProgress(obj') => InProgress(obj) \/ pc \in StartPoints
      BY <2>1, <1>a DEF Keeps, Starts, Weighs, Waits, Advances, Ends, InProgress
    <2>4. /\ cache'.spec.rollout = obj'.spec.rollout
          /\ obj'.spec.rollout.strategy = "Canary" => validateCanarySpec(obj'.spec.rollout)
          /\ InProgress(obj') \/ InProgress(cache') => obj'.spec.rollout.strategy = "Canary"
      BY <1>b, <2>2, <2>3 DEF LatePlanInv, InProgress
    <2>5. CASE Stops
      BY <1>a, <2>4, <2>5 DEF Stops, LatePlanInv
    <2>6. CASE Reconcile
      <3>1. ad' = cache /\ pc' = Dispatch(cache) /\ pc' # "idle"
        BY <2>6 DEF Reconcile
      <3>2. /\ pc' \in StartPoints => isCanaryTriggered(cache)
            /\ pc' \in StepPoints => InProgress(cache)
        BY <1>a, <3>1, StepKindPoint
           DEF Dispatch, Heal, HealRoute, StartPoints, StepPoints, HealPoints, WeightPoints,
               PromotePoints
      <3>3. pc' \in StartPoints => ~InProgress(ad') /\ obj'.spec.rollout.strategy = "Canary"
        BY <1>b, <3>1, <3>2 DEF isCanaryTriggered, LatePlanInv
      <3>4. /\ pc' \in PromotePoints => ad'.status.idx >= Len(ad'.spec.rollout.steps)
            /\ pc' = "pause" => StepKind(ad') = "pause"
        BY <1>a, <3>1, DispatchPoint, StepKindAgree DEF PromotePoints
      <3>5. pc' \in StepPoints => InProgress(ad') /\ obj'.spec.rollout.strategy = "Canary"
        BY <1>b, <3>1, <3>2 DEF LatePlanInv
      <3>6. ad'.spec.rollout = obj'.spec.rollout
        BY <1>b, <3>1 DEF LatePlanInv
      <3>7. QED
        BY <2>4, <3>3, <3>4, <3>5, <3>6 DEF LatePlanInv
    <2>7. CASE TurnsBack
      <3>1. pc' = "rbDep" /\ ad'.spec.rollout = obj'.spec.rollout
        BY <1>b, <2>7 DEF TurnsBack, LatePlanInv
      <3>2. QED
        BY <1>a, <2>4, <3>1 DEF LatePlanInv
    <2>8. CASE GoesOn
      <3>1. ad' = ad /\ pc # "idle" /\ ad'.spec.rollout = obj'.spec.rollout
        BY <1>b, <2>8 DEF GoesOn, LatePlanInv
      <3>2. pc' \in StartPoints \cup StepPoints => obj'.spec.rollout.strategy = "Canary"
        BY <1>b, <2>8 DEF GoesOn, LatePlanInv
      <3>3. /\ pc' \in StepPoints => InProgress(ad')
            /\ pc' \in StartPoints => ~InProgress(ad')
            /\ pc' = "pause" => StepKind(ad') = "pause"
        BY <2>8, <3>1 DEF GoesOn, LatePlanInv
      <3>4. pc' \in PromotePoints => ad'.status.idx >= Len(ad'.spec.rollout.steps)
        BY <1>a, <2>8, <3>1, StepKindAgree DEF GoesOn, LatePlanInv
      <3>5. QED
        BY <2>4, <3>1, <3>2, <3>3, <3>4 DEF LatePlanInv
    <2>9. QED
      BY <1>2, <2>5, <2>6, <2>7, <2>8, PathStep
  <1>3. QED
    BY <1>1, <1>2

\* What a copy may have missed: an update that moved to another step stopped both
\* clocks, and one that began a rollout is at the first step.
Behind(a, b) ==
  /\ a.status.idx # b.status.idx => b.status.pause = Nil /\ b.status.prom = Nil
  /\ ~InProgress(a) /\ InProgress(b) => b.status.idx = 0

\* The fail-safe clock runs only in a pause, at a step that sets no weight.
ClockInPause(a) ==
  a.status.prom # Nil =>
    /\ a.status.pause # Nil
    /\ a.spec.rollout.steps[a.status.idx + 1].setWeight = Nil

LateInv ==
  /\ Behind(cache, obj)
  /\ pc # "idle" => Behind(ad, cache) /\ Behind(ad, obj)
  /\ ClockInPause(obj) /\ ClockInPause(cache)

LEMMA NextLate ==
  ASSUME Inv, NamedInv, LatePlanInv, LateInv, Next, KeepsEveryPlan
  PROVE  LateInv'
  <1>a. /\ cache \in ADs /\ obj \in ADs /\ (pc # "idle" => ad \in ADs)
        /\ obj'.spec.rollout = obj.spec.rollout /\ cache.spec.rollout = obj.spec.rollout
    BY DEF Inv, TypeOK, KeepsEveryPlan, LatePlanInv
  <1>1. CASE Tick
    <2>1. ASSUME NEW a \in ADs, NEW b \in ADs, Behind(a, b) PROVE Behind(Aged(a), Aged(b))
      BY <2>1, TickProgress DEF Behind, InProgress
    <2>2. ASSUME NEW a \in ADs, ClockInPause(a) PROVE ClockInPause(Aged(a))
      BY <2>2, TickProgress DEF ClockInPause
    <2>3. obj' = Aged(obj) /\ cache' = Aged(cache) /\ ad' = Aged(ad) /\ pc' = pc
      BY <1>1 DEF Tick
    <2>4. Behind(cache', obj') /\ (pc' # "idle" => Behind(ad', cache') /\ Behind(ad', obj'))
      BY <1>a, <2>1, <2>3 DEF LateInv
    <2>5. ClockInPause(obj') /\ ClockInPause(cache')
      BY <1>a, <2>2, <2>3 DEF LateInv
    <2>6. QED
      BY <2>4, <2>5 DEF LateInv
  <1>2. CASE ~Tick
    <2>1. Keeps \/ Starts \/ Weighs \/ Waits \/ Advances \/ Ends
      BY <1>2, StatusStep
    <2>2. cache' = cache \/ cache' = obj'
      BY <2>1 DEF Keeps, Starts, Weighs, Waits, Advances, Ends, Written
    <2>3. Weighs => obj.status.prom = Nil
      <3> SUFFICES ASSUME Weighs PROVE obj.status.prom = Nil
        OBVIOUS
      <3>1. pc = "weightStatus" /\ ad \in ADs /\ ad.spec.rollout = obj.spec.rollout /\ Behind(ad, obj)
        BY <1>a DEF Weighs, LatePlanInv, LateInv
      <3>2. StepKind(ad) = "weightDep"
        BY <3>1 DEF Inv, WeightPoints
      <3>3. ad.status.idx = obj.status.idx =>
              obj.spec.rollout.steps[obj.status.idx + 1].setWeight # Nil
        BY <3>1, <3>2, StepOfPlan
      <3>4. QED
        BY <3>1, <3>3 DEF Behind, LateInv, ClockInPause
    <2>4. Waits => ClockInPause(obj')
      <3> SUFFICES ASSUME Waits PROVE ClockInPause(obj')
        OBVIOUS
      <3>1. /\ pc = "pause" /\ ad \in ADs /\ ad.spec.rollout = obj.spec.rollout /\ Behind(ad, obj)
            /\ obj'.status.idx = obj.status.idx /\ obj'.status.pause # Nil
            /\ obj.status.pause = Nil => obj'.status.prom = obj.status.prom
        BY <1>a DEF Waits, LatePlanInv, LateInv
      <3>2. CASE obj.status.pause = Nil
        BY <3>1, <3>2 DEF LateInv, ClockInPause
      <3>3. CASE obj.status.pause # Nil
        <4>1. ad.status.idx = obj.status.idx
          BY <3>1, <3>3 DEF Behind
        <4>2. obj.spec.rollout.steps[obj.status.idx + 1].setWeight = Nil
          BY <3>1, <4>1, StepOfPlan DEF LatePlanInv
        <4>3. QED
          BY <1>a, <3>1, <4>2 DEF ClockInPause
      <3>4. QED
        BY <3>2, <3>3
    <2>5. ClockInPause(obj') /\ ClockInPause(cache')
      <3>1. ClockInPause(obj')
        BY <2>1, <2>3, <2>4, <1>a
           DEF Keeps, Starts, Weighs, Advances, Ends, ClockInPause, LateInv
      <3>2. QED
        BY <2>2, <3>1 DEF LateInv
    <2>6. Behind(cache, obj') /\ Behind(cache', obj')
      <3>1. CASE Keeps
        BY <2>2, <3>1 DEF Keeps, LateInv, Behind, InProgress
      <3>2. CASE Starts \/ Weighs \/ Waits \/ Advances \/ Ends
        <4>1. Behind(cache, obj')
          BY <2>3, <3>2
             DEF Starts, Weighs, Waits, Advances, Ends, Written, Behind, InProgress
        <4>2. QED
          BY <2>2, <4>1 DEF Behind
      <3>3. QED
        BY <2>1, <3>1, <3>2
    <2>7. Behind(cache, cache')
      BY <2>2, <2>6 DEF Behind
    <2>8. pc' # "idle" => Behind(ad', cache') /\ Behind(ad', obj')
      <3>1. CASE Reconcile
        BY <2>6, <2>7, <3>1 DEF Reconcile
      <3>2. CASE TurnsBack
        BY <2>6, <2>7, <3>2 DEF TurnsBack, Behind, InProgress
      <3>3. CASE GoesOn
        <4>1. ad' = ad /\ obj'.status = obj.status /\ Behind(ad, cache) /\ Behind(ad, obj)
          BY <3>3 DEF GoesOn, LateInv
        <4>2. Behind(ad', obj')
          BY <4>1 DEF Behind, InProgress
        <4>3. QED
          BY <2>2, <4>1, <4>2
      <3>4. QED
        BY <1>2, <3>1, <3>2, <3>3, PathStep DEF Stops
    <2>9. QED
      BY <2>5, <2>6, <2>8 DEF LateInv
  <1>3. QED
    BY <1>1, <1>2

\* Every pause a copy has left behind was evaluated in this rollout.
EvaluatedLate ==
  /\ Evaluated(obj, passed) /\ Evaluated(cache, passed)
  /\ pc # "idle" => Evaluated(ad, passed)

LEMMA NextEvaluatedLate ==
  ASSUME Inv, NamedInv, LatePlanInv, LateInv, EvaluatedLate, Next, KeepsEveryPlan, Inv'
  PROVE  EvaluatedLate'
  <1>a. /\ cache \in ADs /\ obj \in ADs /\ (pc # "idle" => ad \in ADs) /\ obj' \in ADs
        /\ obj'.spec.rollout = obj.spec.rollout /\ cache.spec.rollout = obj.spec.rollout
    BY DEF Inv, TypeOK, KeepsEveryPlan, LatePlanInv
  <1>1. CASE Tick
    <2>1. ASSUME NEW a \in ADs, Evaluated(a, passed) PROVE Evaluated(Aged(a), passed)
      BY <2>1, TickProgress, EvaluatedSame DEF InProgress
    <2>2. obj' = Aged(obj) /\ cache' = Aged(cache) /\ ad' = Aged(ad) /\ pc' = pc /\ passed' = passed
      BY <1>1 DEF Tick, history
    <2>3. QED
      BY <1>a, <2>1, <2>2 DEF EvaluatedLate
  <1>2. CASE Keeps
    <2>1. Evaluated(obj', passed')
      BY <1>a, <1>2, EvaluatedSame DEF Keeps, EvaluatedLate, InProgress
    <2>2. Evaluated(cache', passed') /\ Evaluated(cache, passed')
      BY <1>2, <2>1 DEF Keeps, EvaluatedLate
    <2>3. pc' # "idle" => Evaluated(ad', passed') \/ Tick
      <3>1. CASE Reconcile
        BY <2>2, <3>1 DEF Reconcile
      <3>2. CASE TurnsBack
        BY <2>2, <3>2, EvaluatedSame DEF TurnsBack, InProgress
      <3>3. CASE GoesOn
        BY <3>3 DEF GoesOn, EvaluatedLate
      <3>4. QED
        BY <3>1, <3>2, <3>3, PathStep DEF Stops
    <2>4. QED
      BY <1>1, <2>1, <2>2, <2>3 DEF EvaluatedLate
  <1>3. CASE Starts
    <2>1. Evaluated(obj', passed')
      BY <1>a, <1>3, EvaluatedFirst DEF Starts
    <2>2. cache = obj /\ (cache' = cache \/ cache' = obj') /\ pc' = "idle" /\ pc = "startStatus"
      BY <1>3 DEF Starts, Written
    <2>3. ~InProgress(ad) /\ Behind(ad, obj)
      BY <2>2 DEF LatePlanInv, LateInv, StartPoints
    <2>4. Evaluated(obj, passed')
      <3>1. CASE InProgress(obj)
        BY <1>a, <2>3, <3>1, EvaluatedFirst DEF Behind
      <3>2. CASE ~InProgress(obj)
        BY <3>2 DEF Evaluated
      <3>3. QED
        BY <3>1, <3>2
    <2>5. QED
      BY <2>1, <2>2, <2>4 DEF EvaluatedLate
  <1>4. CASE Weighs \/ Advances
    <2>1. /\ pc \in {"weightStatus", "pause"} /\ obj'.status.idx = ad.status.idx + 1
          /\ passed \subseteq passed' /\ (pc = "pause" => ad.status.idx \in passed')
          /\ pc' = "idle" /\ (cache' = cache \/ cache' = obj')
      BY <1>4 DEF Weighs, Advances, Written
    <2>2. /\ ad \in ADs /\ InProgress(ad) /\ Evaluated(ad, passed)
          /\ ad.spec.rollout = obj.spec.rollout /\ validateCanarySpec(ad.spec.rollout)
      BY <1>a, <2>1 DEF LatePlanInv, EvaluatedLate, StepPoints, WeightPoints
    <2>3. pc = "weightStatus" => ad.spec.rollout.steps[ad.status.idx + 1].pause = Nil
      BY <2>2, StepOfPlan DEF Inv, WeightPoints
    <2>4. Evaluated(obj', passed')
      BY <1>a, <2>1, <2>2, <2>3, EvaluatedNext
    <2>5. Evaluated(cache, passed')
      BY <2>1 DEF EvaluatedLate, Evaluated
    <2>6. QED
      BY <2>1, <2>4, <2>5 DEF EvaluatedLate
  <1>5. CASE Waits \/ Ends
    <2>1. /\ cache = obj /\ (cache' = cache \/ cache' = obj') /\ passed' = passed
          /\ pc' = "idle" \/ pc = "pause"
      BY <1>5 DEF Waits, Ends, Written
    <2>2. Evaluated(obj', passed')
      <3>1. CASE Waits
        BY <1>a, <2>1, <3>1, EvaluatedSame DEF Waits, EvaluatedLate, InProgress
      <3>2. CASE Ends
        BY <3>2 DEF Ends, Evaluated
      <3>3. QED
        BY <1>5, <3>1, <3>2
    <2>3. Evaluated(cache', passed') /\ Evaluated(cache, passed')
      BY <2>1, <2>2 DEF EvaluatedLate
    <2>4. pc' # "idle" => Evaluated(ad', passed') \/ Tick
      <3>1. CASE Reconcile
        BY <2>3, <3>1 DEF Reconcile
      <3>2. CASE TurnsBack
        BY <2>3, <3>2, EvaluatedSame DEF TurnsBack, InProgress
      <3>3. CASE GoesOn
        BY <3>3 DEF GoesOn, EvaluatedLate
      <3>4. QED
        BY <3>1, <3>2, <3>3, PathStep DEF Stops
    <2>5. QED
      BY <1>1, <2>2, <2>3, <2>4 DEF EvaluatedLate
  <1>6. QED
    BY <1>1, <1>2, <1>3, <1>4, <1>5, StatusStep

LEMMA SpecLate ==
  Spec /\ PlanNeverEdited => [](Inv /\ NamedInv /\ LatePlanInv /\ LateInv /\ EvaluatedLate)
  <1>1. Init => LatePlanInv /\ LateInv /\ EvaluatedLate
    <2> SUFFICES ASSUME Init PROVE LatePlanInv /\ LateInv /\ EvaluatedLate
      OBVIOUS
    <2>1. obj.status = ZeroStatus /\ pc = "idle" /\ cache = obj
      BY DEF Init
    <2>2. ZeroStatus.phase = "" /\ ZeroStatus.prom = Nil
      BY DEF ZeroStatus
    <2>3. ~InProgress(obj) /\ ~InProgress(cache)
      BY <2>1, <2>2 DEF InProgress
    <2>4. pc \notin StepPoints \cup StartPoints \cup PromotePoints
      BY <2>1 DEF StepPoints, HealPoints, WeightPoints, PromotePoints, StartPoints
    <2>5. QED
      BY <2>1, <2>2, <2>3, <2>4
         DEF Init, LatePlanInv, LateInv, EvaluatedLate, Behind, ClockInPause, Evaluated
  <1>2. /\ Inv /\ NamedInv /\ LatePlanInv /\ LateInv /\ EvaluatedLate /\ Inv'
        /\ [Next]_vars /\ [KeepsEveryPlan]_vars
        => LatePlanInv' /\ LateInv' /\ EvaluatedLate'
    <2>1. ASSUME LatePlanInv, LateInv, EvaluatedLate, UNCHANGED vars
          PROVE  LatePlanInv' /\ LateInv' /\ EvaluatedLate'
      <3>1. obj' = obj /\ cache' = cache /\ pc' = pc /\ ad' = ad /\ passed' = passed
        BY <2>1 DEF vars
      <3>2. LatePlanInv'
        BY <2>1, <3>1 DEF LatePlanInv, InProgress, StepKind
      <3>3. LateInv'
        BY <2>1, <3>1 DEF LateInv, Behind, ClockInPause, InProgress
      <3>4. EvaluatedLate'
        BY <2>1, <3>1 DEF EvaluatedLate, Evaluated, InProgress
      <3>5. QED
        BY <3>2, <3>3, <3>4
    <2>2. QED
      BY <2>1, NextLatePlan, NextLate, NextEvaluatedLate
  <1>3. QED
    BY <1>1, <1>2, SpecNamed, PTL DEF Spec, PlanNeverEdited

\* However far the informer cache is behind the reconciler's own writes, a plan
\* nobody edits is promoted only after each of its pauses was left by an evaluation
\* of this rollout: both updates of the index (canary.go:242, canary.go:355) count
\* from the copy the pass began with, so a repeated pass repeats a step and skips none.
THEOREM PromotionEvaluatedLate ==
  Spec /\ PlanNeverEdited => []EvaluatedPromotion
  <1>1. Inv /\ LatePlanInv /\ EvaluatedLate => EvaluatedPromotion
    <2> SUFFICES ASSUME Inv, LatePlanInv, EvaluatedLate, pc \in PromotePoints,
                        NEW i \in DOMAIN ad.spec.rollout.steps,
                        ad.spec.rollout.steps[i].pause # Nil
                 PROVE  i - 1 \in passed
      BY DEF EvaluatedPromotion
    <2>1. pc # "idle" /\ pc \in StepPoints
      BY DEF PromotePoints, StepPoints
    <2>2. /\ ad \in ADs /\ Evaluated(ad, passed) /\ InProgress(ad)
          /\ ad.status.idx >= Len(ad.spec.rollout.steps)
      BY <2>1 DEF Inv, TypeOK, LatePlanInv, EvaluatedLate
    <2>3. ad.spec.rollout.steps \in Seq(Steps) /\ ad.status.idx \in Nat
      BY <2>2, RolloutsAssumption DEF ADs, ADSpecs, Statuses
    <2>4. i <= ad.status.idx
      BY <2>2, <2>3
    <2>5. QED
      BY <2>2, <2>4 DEF Evaluated
  <1>2. QED
    BY <1>1, SpecLate, PTL

\* Nor does a late read let the fail-safe clock of one pause run on into the next.
THEOREM FailSafeClockBoundLate ==
  Spec /\ PlanNeverEdited => []FailSafeClockInsidePause
  <1>1. LateInv => FailSafeClockInsidePause
    BY DEF LateInv, ClockInPause, FailSafeClockInsidePause
  <1>2. QED
    BY <1>1, SpecLate, PTL

\* A copy of the rollout that obj is in: at most one step behind, with its stable
\* image and, past the first step, with its canary.  (A start from an outdated copy
\* may still replace the canary of a rollout at its first step.)
Follows(a, b) ==
  InProgress(b) =>
    /\ a.status.stable = b.status.stable
    /\ InProgress(a) => /\ a.status.idx <= b.status.idx /\ b.status.idx <= a.status.idx + 1
                        /\ a.status.idx > 0 => a.status.canary = b.status.canary

CurrentInv == Follows(cache, obj) /\ (pc # "idle" => Follows(ad, obj))

LEMMA NextCurrent ==
  ASSUME Inv, NamedInv, LatePlanInv, LateInv, CurrentInv, Next
  PROVE  CurrentInv'
  <1>a. /\ cache \in ADs /\ obj \in ADs /\ (pc # "idle" => ad \in ADs)
        /\ cache.status.idx \in Nat /\ obj.status.idx \in Nat
        /\ pc # "idle" => ad.status.idx \in Nat
    BY DEF Inv, TypeOK, ADs, Statuses
  <1>1. CASE Tick
    <2>1. ASSUME NEW a \in ADs, NEW b \in ADs, Follows(a, b) PROVE Follows(Aged(a), Aged(b))
      BY <2>1, TickProgress DEF Follows, InProgress
    <2>2. QED
      BY <1>1, <1>a, <2>1 DEF Tick, CurrentInv
  <1>2. CASE ~Tick
    <2>1. Follows(cache, obj')
      <3>1. CASE Keeps
        BY <3>1 DEF Keeps, CurrentInv, Follows, InProgress
      <3>2. CASE Starts
        <4>1. cache = obj /\ pc = "startStatus"
          BY <3>2 DEF Starts, Written
        <4>2. ~InProgress(ad) /\ Behind(ad, obj)
          BY <4>1 DEF LatePlanInv, LateInv, StartPoints
        <4>3. InProgress(obj) => obj.status.idx = 0
          BY <4>2 DEF Behind
        <4>4. QED
          BY <3>2, <4>1, <4>3 DEF Starts, Follows
      <3>3. CASE Weighs \/ Advances
        <4>1. /\ cache = obj /\ pc \in {"weightStatus", "pause"} /\ SameImages
              /\ obj'.status.phase = obj.status.phase /\ obj'.status.idx = ad.status.idx + 1
          BY <3>3 DEF Weighs, Advances, Written
        <4>2. InProgress(ad) /\ Follows(ad, obj) /\ ad.status.idx \in Nat
          BY <1>a, <4>1 DEF LatePlanInv, CurrentInv, StepPoints, WeightPoints
        <4>3. QED
          BY <1>a, <4>1, <4>2 DEF Follows, SameImages, InProgress
      <3>4. CASE Waits
        BY <1>a, <3>4 DEF Waits, Written, SameImages, Follows, InProgress
      <3>5. CASE Ends
        BY <3>5 DEF Ends, Follows
      <3>6. QED
        BY <1>2, <3>1, <3>2, <3>3, <3>4, <3>5, StatusStep
    <2>2. Follows(cache', obj')
      <3>1. cache' = cache \/ cache' = obj'
        BY <1>2, StatusStep DEF Keeps, Starts, Weighs, Waits, Advances, Ends, Written
      <3>2. obj'.status.idx \in Nat
        BY NextInv DEF Inv, TypeOK, ADs, Statuses
      <3>3. QED
        BY <2>1, <3>1, <3>2 DEF Follows
    <2>3. pc' # "idle" => Follows(ad', obj')
      <3>1. CASE Reconcile
        BY <2>1, <3>1 DEF Reconcile
      <3>2. CASE TurnsBack
        BY <2>1, <3>2 DEF TurnsBack, Follows, InProgress
      <3>3. CASE GoesOn
        BY <3>3 DEF GoesOn, CurrentInv, Follows, InProgress
      <3>4. QED
        BY <1>2, <3>1, <3>2, <3>3, PathStep DEF Stops
    <2>4. QED
      BY <2>2, <2>3 DEF CurrentInv
  <1>3. QED
    BY <1>1, <1>2

\* A pass that read its object late rolls back and promotes the rollout that is
\* recorded: what it missed is one update, of which the first step may have replaced
\* the canary but never the stable image, and promotion is past that step.
THEOREM TeardownAlwaysCurrent ==
  Spec /\ PlanNeverEdited => []TeardownIsCurrent
  <1>1. Init => CurrentInv
    <2>1. ZeroStatus.phase = ""
      BY DEF ZeroStatus
    <2>2. Init => obj.status = ZeroStatus /\ pc = "idle"
      BY DEF Init
    <2>3. QED
      BY <2>1, <2>2 DEF CurrentInv, Follows, InProgress
  <1>2. Inv /\ NamedInv /\ LatePlanInv /\ LateInv /\ CurrentInv /\ [Next]_vars => CurrentInv'
    <2>1. ASSUME CurrentInv, UNCHANGED vars PROVE CurrentInv'
      BY <2>1 DEF vars, CurrentInv, Follows, InProgress
    <2>2. QED
      BY <2>1, NextCurrent
  <1>3. Inv /\ LatePlanInv /\ CurrentInv => TeardownIsCurrent
    <2> SUFFICES ASSUME Inv, LatePlanInv, CurrentInv, InProgress(obj), pc \in {"rbDep", "prDep"}
                 PROVE  /\ pc = "rbDep" => ad.status.stable = obj.status.stable
                        /\ pc = "prDep" => /\ ad.status.canary = obj.status.canary
                                           /\ obj.status.idx >= Len(ad.spec.rollout.steps)
      BY DEF TeardownIsCurrent
    <2>1. Follows(ad, obj) /\ ad \in ADs /\ obj \in ADs /\ validateCanarySpec(ad.spec.rollout)
      BY DEF Inv, TypeOK, LatePlanInv, CurrentInv
    <2>2. ad.spec.rollout.steps \in Seq(Steps) /\ ad.status.idx \in Nat /\ obj.status.idx \in Nat
      BY <2>1, RolloutsAssumption DEF ADs, ADSpecs, Statuses
    <2>3. Len(ad.spec.rollout.steps) > 0 /\ Len(ad.spec.rollout.steps) \in Nat
      <3>1. ad.spec.rollout.steps # <<>>
        BY <2>1 DEF validateCanarySpec
      <3>2. QED
        BY <2>2, <3>1
    <2>4. pc = "prDep" => InProgress(ad) /\ ad.status.idx >= Len(ad.spec.rollout.steps)
      BY DEF LatePlanInv, StepPoints, PromotePoints
    <2>5. QED
      BY <2>1, <2>2, <2>3, <2>4 DEF Follows
  <1>4. QED
    BY <1>1, <1>2, <1>3, SpecLate, PTL DEF Spec

=============================================================================
