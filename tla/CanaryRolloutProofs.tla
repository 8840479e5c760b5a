------------------------- MODULE CanaryRolloutProofs -------------------------
(***************************************************************************)
(* Proofs about CanaryRollout for every set of images, every plan and      *)
(* every bound.                                                            *)
(***************************************************************************)
EXTENDS CanaryRollout, TLAPS

\* What TypeOK needs to be inductive: at a setWeight step there is a weight.
Inv == TypeOK /\ (pc \in WeightPoints => StepKind(ad) = "weightDep")

LEMMA AgedType == \A a \in ADs : Aged(a) \in ADs
  <1> SUFFICES ASSUME NEW a \in ADs PROVE Aged(a) \in ADs
    OBVIOUS
  <1>1. a # NoAD
    BY NoADAssumption
  <1>2. \A t \in Times : Older(t) \in Times
    BY TimeAssumption DEF Times, Older, Nil
  <1>3. AgedStatus(a.status) \in Statuses
    BY <1>2 DEF AgedStatus, ADs, Statuses
  <1>4. QED
    BY <1>1, <1>3 DEF Aged, ADs

\* Time does not change what a reconcile decides.
LEMMA AgedKind == \A a \in ADs : StepKind(Aged(a)) = StepKind(a)
  <1> SUFFICES ASSUME NEW a \in ADs PROVE StepKind(Aged(a)) = StepKind(a)
    OBVIOUS
  <1>1. /\ Aged(a).spec = a.spec
        /\ Aged(a).status.idx = a.status.idx
        /\ Aged(a).status.canary = a.status.canary
    BY NoADAssumption DEF Aged, AgedStatus, ADs, Statuses
  <1>2. QED
    BY <1>1 DEF StepKind

\* Where Step and Reconcile may go.
LEMMA StepKindPoint == \A a \in ADs : StepKind(a) \in {"idle", "prDep", "weightDep", "pause", "rbDep"}
  BY DEF StepKind

LEMMA HealRoutePoint ==
  \A a \in ADs : HealRoute(a) = "healRoute" \/ HealRoute(a) = StepKind(a)
  BY DEF HealRoute

LEMMA DispatchPoint ==
  \A a \in ADs : Dispatch(a) \in {"rbDep", "healDep", "healRoute", "startHPA", "dep"}
                   \/ Dispatch(a) = StepKind(a)
  BY DEF Dispatch, Heal, HealRoute

\* An outdated copy is one more of the bounded faults.
LEMMA OutdatedFaults ==
  ASSUME Inv, OutdatedCopy
  PROVE  faults' \in 0..MaxFaults
  BY BoundsAssumption DEF Inv, TypeOK, OutdatedCopy

\* promote's update is a call that never finds its work done.
LEMMA MoveIsCall ==
  ASSUME NEW from, NEW next, NEW o, Move(from, next, o), faults' = faults
  PROVE  Call(from, next, o)
  BY DEF Call

\* Without lag every call does its work.
LEMMA CallMoves ==
  ASSUME ~CacheLag, NEW from, NEW next, NEW o, Call(from, next, o)
  PROVE  Move(from, next, o) /\ faults' = faults
  BY DEF Call, OutdatedCopy

\* A call that leaves an owned object well-formed, and goes to a weight point
\* only at a setWeight step, preserves Inv.
LEMMA CallInv ==
  ASSUME Inv, NEW from \in Points \ {"idle"}, NEW next \in Points, NEW o \in Owned,
         Call(from, next, o), next \in WeightPoints => StepKind(ad) = "weightDep"
  PROVE  Inv'
  <1>1. ad' = IF next = "idle" THEN NoAD ELSE ad
    BY DEF Call, Move, Goto
  <1>2. TypeOK'
    <2>1. faults' \in 0..MaxFaults
      BY OutdatedFaults DEF Inv, TypeOK, Call
    <2>2. owned' \in Owned
      BY DEF Inv, TypeOK, Call, Move
    <2>3. QED
      BY <1>1, <2>1, <2>2 DEF Inv, TypeOK, Call, Move, Goto, NoWrite, history
  <1>3. pc' \in WeightPoints => StepKind(ad') = "weightDep"
    BY <1>1 DEF Call, Move, Goto, WeightPoints
  <1>4. QED
    BY <1>2, <1>3 DEF Inv, WeightPoints, StepKind

\* Status().Update of a well-formed status.
LEMMA UpdateType ==
  ASSUME TypeOK, NEW s \in Statuses, UpdateStatus(s)
  PROVE  obj' \in ADs /\ cache' \in ADs /\ fresh' \in BOOLEAN
  BY DEF TypeOK, UpdateStatus, ADs

\* A reconcile that ends preserves Inv if the written object is well-formed.
LEMMA EndInv ==
  ASSUME Inv, Goto("idle"), owned' = owned, edits' = edits, faults' \in 0..MaxFaults,
         obj' \in ADs, cache' \in ADs, fresh' \in BOOLEAN,
         passed' \subseteq Nat, failed' \in Images \cup {NoImage}
  PROVE  Inv'
  BY DEF Inv, TypeOK, Goto, Points, WeightPoints

\* At the point where it is written, the weight of the step is one.
LEMMA WeightType ==
  ASSUME Inv, pc \in WeightPoints
  PROVE  StepWeight \in 0..100
  <1>1. ad \in ADs
    BY DEF Inv, TypeOK, WeightPoints
  <1>2. ad.status.idx < Len(ad.spec.rollout.steps)
        /\ ad.spec.rollout.steps[ad.status.idx + 1].setWeight # Nil
    BY <1>1 DEF Inv, StepKind, ADs, Statuses, ADSpecs
  <1>3. ad.spec.rollout.steps \in Seq(Steps) /\ ad.status.idx \in Nat
    BY <1>1, RolloutsAssumption DEF ADs, ADSpecs, Statuses
  <1>4. ad.spec.rollout.steps[ad.status.idx + 1] \in Steps
    BY <1>2, <1>3
  <1>5. QED
    BY <1>2, <1>4 DEF StepWeight, Steps

-----------------------------------------------------------------------------
(* Type correctness.                                                       *)

LEMMA InitInv == Init => Inv
  <1> SUFFICES ASSUME Init PROVE Inv
    OBVIOUS
  <1>1. ZeroStatus \in Statuses
    BY TimeAssumption DEF ZeroStatus, Statuses, Phases, Times, Nil
  <1>2. obj \in ADs /\ cache \in ADs
    BY <1>1 DEF Init, ADs
  <1>3. owned \in Owned
    BY DEF Init, Owned, Nil
  <1>4. fresh \in BOOLEAN /\ passed \subseteq Nat
    BY DEF Init
  <1>5. /\ ad \in ADs \cup {NoAD} /\ pc \in Points /\ (ad = NoAD <=> pc = "idle")
        /\ failed \in Images \cup {NoImage}
    BY DEF Init, Points
  <1>6. edits \in 0..MaxEdits /\ faults \in 0..MaxFaults
    BY BoundsAssumption DEF Init
  <1>7. pc \notin WeightPoints
    BY DEF Init, WeightPoints
  <1>8. QED
    BY <1>2, <1>3, <1>4, <1>5, <1>6, <1>7 DEF Inv, TypeOK

\* The calls that start, heal, shift, tear down or reconcile owned objects.
LEMMA CallsInv ==
  ASSUME Inv,
         \/ PauseHPA \/ EnsureCanaryDeployment \/ EnsureCanaryService \/ EnsureHTTPRoute
         \/ RollbackImage \/ PromoteImage \/ deleteCanaryDeployment \/ deleteCanaryService
         \/ deleteHTTPRoute \/ restoreHPA \/ reconcileDeployment \/ reconcileHPA
  PROVE  Inv'
  <1>a. pc # "idle" => ad \in ADs
    BY DEF Inv, TypeOK
  <1>b. owned \in Owned
    BY DEF Inv, TypeOK
  <1>c. ASSUME NEW im \in Images \cup {NoImage} PROVE SetStableImage(im) \in Owned
    <2>1. ASSUME NEW b \in BOOLEAN PROVE [owned EXCEPT !.dep = im, !.done = b] \in Owned
      BY <1>b DEF Owned
    <2>2. (owned.done /\ owned.dep = im) \in BOOLEAN
      OBVIOUS
    <2>3. QED
      BY <2>1, <2>2, ZenonT(30) DEF SetStableImage
  <1>1. CASE PauseHPA
    <2>1. [owned EXCEPT !.hpa = "none"] \in Owned
      BY <1>b DEF Owned
    <2>2. QED
      BY <1>1, <2>1, CallInv DEF PauseHPA, Points, StartPoints, WeightPoints
  <1>2. CASE EnsureCanaryDeployment
    <2>1. pc # "idle" => [owned EXCEPT !.cdep = ad.status.canary] \in Owned
      BY <1>a, <1>b DEF Owned, ADs, Statuses
    <2>2. pc \in {"healDep", "weightDep"}
      BY <1>2 DEF EnsureCanaryDeployment, Call, Move
    <2>3. pc = "weightDep" => StepKind(ad) = "weightDep"
      BY DEF Inv, WeightPoints
    <2>4. QED
      BY <1>2, <2>1, <2>2, <2>3, CallInv
         DEF EnsureCanaryDeployment, Call, Move, Points, HealPoints, WeightPoints
  <1>3. CASE EnsureCanaryService
    <2>1. [owned EXCEPT !.csvc = TRUE] \in Owned
      BY <1>b DEF Owned
    <2>2. CASE Call("healSvc", HealRoute(ad), [owned EXCEPT !.csvc = TRUE])
      <3>1. ad \in ADs
        BY <1>a, <2>2 DEF Call, Move
      <3>2. HealRoute(ad) \in Points /\ (HealRoute(ad) \in WeightPoints => StepKind(ad) = "weightDep")
        BY <3>1, HealRoutePoint, StepKindPoint
           DEF Points, HealPoints, WeightPoints, PromotePoints, RollbackPoints
      <3>3. "healSvc" \in Points \ {"idle"}
        BY DEF Points, HealPoints
      <3>4. QED
        BY <2>1, <2>2, <3>2, <3>3, CallInv
    <2>3. CASE Call("weightSvc", "weightRoute", [owned EXCEPT !.csvc = TRUE])
      BY <2>1, <2>3, CallInv DEF Points, WeightPoints, Inv, Call, Move
    <2>4. QED
      BY <1>3, <2>2, <2>3 DEF EnsureCanaryService
  <1>4. CASE EnsureHTTPRoute
    <2>1. CASE Call("healRoute", StepKind(ad), [owned EXCEPT !.route = ad.status.weight])
      <3>1. ad \in ADs
        BY <1>a, <2>1 DEF Call, Move
      <3>2. StepKind(ad) \in Points /\ (StepKind(ad) \in WeightPoints => StepKind(ad) = "weightDep")
        BY <3>1, StepKindPoint DEF Points, WeightPoints, PromotePoints, RollbackPoints
      <3>3. [owned EXCEPT !.route = ad.status.weight] \in Owned
        BY <1>b, <3>1 DEF Owned, ADs, Statuses
      <3>4. "healRoute" \in Points \ {"idle"}
        BY DEF Points, HealPoints
      <3>5. QED
        BY <2>1, <3>2, <3>3, <3>4, CallInv
    <2>2. CASE pc = "weightRoute" /\ Call("weightRoute", "weightStatus", [owned EXCEPT !.route = StepWeight])
      <3>1. [owned EXCEPT !.route = StepWeight] \in Owned
        BY <1>b, <2>2, WeightType DEF Owned, WeightPoints
      <3>2. StepKind(ad) = "weightDep"
        BY <2>2 DEF Inv, WeightPoints
      <3>3. "weightRoute" \in Points \ {"idle"} /\ "weightStatus" \in Points
        BY DEF Points, WeightPoints
      <3>4. QED
        BY <2>2, <3>1, <3>2, <3>3, CallInv
    <2>3. QED
      BY <1>4, <2>1, <2>2 DEF EnsureHTTPRoute
  <1>5. CASE RollbackImage
    <2>1. pc # "idle" /\ (IF ad.status.stable # NoImage /\ owned.dep # NoImage
             THEN SetStableImage(ad.status.stable) ELSE owned) \in Owned
      BY <1>5, <1>a, <1>b, <1>c DEF RollbackImage, Call, Move, ADs, Statuses
    <2>2. QED
      BY <1>5, <2>1, CallInv DEF RollbackImage, Points, RollbackPoints, WeightPoints
  <1>6. CASE PromoteImage
    <2>1. pc = "prDep"
      BY <1>6 DEF PromoteImage, Move
    <2>2. SetStableImage(ad.status.canary) \in Owned
      BY <2>1, <1>a, <1>c DEF ADs, Statuses
    <2>3. QED
      BY <1>6, <1>b, <2>2, MoveIsCall, CallInv DEF PromoteImage, Points, PromotePoints, WeightPoints
  <1>7. CASE deleteCanaryDeployment \/ deleteCanaryService \/ deleteHTTPRoute \/ restoreHPA
    <2>1. /\ [owned EXCEPT !.cdep = NoImage] \in Owned
          /\ [owned EXCEPT !.csvc = FALSE] \in Owned
          /\ [owned EXCEPT !.route = Nil] \in Owned
          /\ [owned EXCEPT !.hpa = "min"] \in Owned
      BY <1>b DEF Owned
    <2>2. QED
      BY <1>7, <2>1, CallInv
         DEF deleteCanaryDeployment, deleteCanaryService, deleteHTTPRoute, restoreHPA,
             Points, RollbackPoints, PromotePoints, WeightPoints
  <1>8. CASE reconcileDeployment
    <2>1. pc # "idle"
      BY <1>8 DEF reconcileDeployment, Call, Move
    <2>2. desiredImage(ad) \in Images \cup {NoImage}
      BY <2>1, <1>a DEF desiredImage, ADs, ADSpecs, Statuses
    <2>3. QED
      BY <1>8, <1>c, <2>2, CallInv DEF reconcileDeployment, Points, ChildPoints, WeightPoints
  <1>9. CASE reconcileHPA
    <2>1. [owned EXCEPT !.hpa = "headroom"] \in Owned
      BY <1>b DEF Owned
    <2>2. PICK o \in Owned : Call("hpa", "status", o)
      BY <1>9, <1>b, <2>1 DEF reconcileHPA
    <2>3. QED
      BY <2>2, CallInv DEF Points, ChildPoints, WeightPoints
  <1>10. QED
    BY <1>1, <1>2, <1>3, <1>4, <1>5, <1>6, <1>7, <1>8, <1>9

\* The status updates that record, advance or end a rollout or a plain reconcile.
LEMMA WritesInv ==
  ASSUME Inv,
         \/ StartStatus \/ SetWeightStatus \/ PauseBegin \/ PauseWait \/ PauseAdvance
         \/ PauseInterrupted \/ RollbackStatus \/ PromoteStatus \/ updateStatus
  PROVE  Inv'
  <1>a. pc # "idle" => ad \in ADs
    BY DEF Inv, TypeOK
  <1>b. cache \in ADs /\ owned \in Owned /\ passed \subseteq Nat
        /\ failed \in Images \cup {NoImage} /\ faults \in 0..MaxFaults /\ MaxFaults \in Nat
    BY BoundsAssumption DEF Inv, TypeOK
  <1>n. 0 \in Nat /\ 0 \in 0..100 /\ Nil \in Times
    BY DEF Times
  <1>s. cache.status \in Statuses
    BY <1>b DEF ADs
  <1>c. Reachable \in Statuses /\ Cleared \in Statuses
    BY <1>n, <1>s, Zenon DEF Reachable, Cleared, Statuses
  <1>d. obj \in ADs /\ fresh \in BOOLEAN /\ TypeOK
    BY DEF Inv, TypeOK
  <1>1. CASE StartStatus
    <2>1. ad.spec.image \in Images \cup {NoImage}
      BY <1>1, <1>a DEF StartStatus, ADs, ADSpecs
    <2>2. [cache.status EXCEPT !.phase = "RolloutInProgress", !.canary = ad.spec.image,
             !.idx = 0, !.weight = 0, !.pause = Nil, !.prom = Nil] \in Statuses
      BY <1>n, <1>s, <2>1, Zenon DEF Statuses, Phases
    <2>3. obj' \in ADs /\ cache' \in ADs /\ fresh' \in BOOLEAN
      BY <1>1, <1>d, <2>2, UpdateType DEF StartStatus
    <2>4. QED
      BY <1>1, <1>b, <2>3, EndInv DEF StartStatus, env
  <1>2. CASE SetWeightStatus
    <2>1. ad.status.idx + 1 \in Nat /\ StepWeight \in 0..100
      BY <1>2, <1>a, WeightType DEF SetWeightStatus, WeightPoints, ADs, Statuses
    <2>2. [cache.status EXCEPT !.weight = StepWeight, !.idx = ad.status.idx + 1, !.pause = Nil]
            \in Statuses
      BY <1>n, <1>s, <2>1, Zenon DEF Statuses
    <2>3. obj' \in ADs /\ cache' \in ADs /\ fresh' \in BOOLEAN
      BY <1>2, <1>d, <2>2, UpdateType DEF SetWeightStatus
    <2>4. QED
      BY <1>2, <1>b, <2>3, EndInv DEF SetWeightStatus, env, history
  <1>3. CASE PauseBegin
    <2>1. [cache.status EXCEPT !.pause = 0] \in Statuses
      BY <1>b, TimeAssumption DEF ADs, Statuses, Times
    <2>2. obj' \in ADs /\ cache' \in ADs /\ fresh' \in BOOLEAN
      BY <1>3, <1>d, <2>1, UpdateType DEF PauseBegin
    <2>3. QED
      BY <1>3, <1>b, <2>2, EndInv DEF PauseBegin, env, history
  <1>4. CASE PauseWait
    <2>1. UpdateStatus(Reachable) \/ NoWrite
      BY <1>4 DEF PauseWait, ClearUnreachable
    <2>2. obj' \in ADs /\ cache' \in ADs /\ fresh' \in BOOLEAN
      BY <1>b, <1>c, <1>d, <2>1, UpdateType DEF NoWrite
    <2>3. QED
      BY <1>4, <1>b, <2>2, EndInv DEF PauseWait, env, history
  <1>5. CASE PauseAdvance
    <2>1. ad.status.idx + 1 \in Nat /\ passed \cup {ad.status.idx} \subseteq Nat
      BY <1>5, <1>a, <1>b DEF PauseAdvance, ADs, Statuses
    <2>2. [Reachable EXCEPT !.idx = ad.status.idx + 1, !.pause = Nil] \in Statuses
      BY <1>n, <1>c, <2>1, Zenon DEF Statuses
    <2>3. obj' \in ADs /\ cache' \in ADs /\ fresh' \in BOOLEAN
      BY <1>5, <1>d, <2>2, UpdateType DEF PauseAdvance
    <2>4. QED
      BY <1>5, <1>b, <2>1, <2>3, EndInv DEF PauseAdvance, env
  <1>6. CASE PauseInterrupted
    <2>1. obj' \in ADs /\ cache' \in ADs /\ fresh' \in BOOLEAN
      BY <1>6, <1>c, <1>d, UpdateType DEF PauseInterrupted
    <2>2. faults' \in 0..MaxFaults
      BY <1>6, <1>b DEF PauseInterrupted
    <2>3. QED
      BY <1>6, <1>b, <2>1, <2>2, EndInv DEF PauseInterrupted, history
  <1>7. CASE RollbackStatus
    <2>1. ad \in ADs
      BY <1>7, <1>a DEF RollbackStatus
    <2> DEFINE canary == IF cache.status.canary = NoImage THEN ad.spec.image ELSE cache.status.canary
    <2>2. canary \in Images \cup {NoImage}
      BY <1>b, <2>1 DEF ADs, ADSpecs, Statuses
    <2>3. [Cleared EXCEPT !.phase = "RolloutFailed", !.canary = canary] \in Statuses
      BY <1>c, <2>2 DEF Statuses, Phases
    <2>4. obj' \in ADs /\ cache' \in ADs /\ fresh' \in BOOLEAN
      BY <1>7, <1>d, <2>3, UpdateType DEF RollbackStatus
    <2>5. QED
      BY <1>7, <1>b, <2>2, <2>4, EndInv DEF RollbackStatus, env
  <1>8. CASE PromoteStatus
    <2>1. ad \in ADs
      BY <1>8, <1>a DEF PromoteStatus
    <2>2. [Cleared EXCEPT !.phase = "Running", !.stable = ad.status.canary, !.canary = NoImage]
            \in Statuses
      BY <1>c, <2>1 DEF ADs, Statuses, Phases
    <2>3. obj' \in ADs /\ cache' \in ADs /\ fresh' \in BOOLEAN
      BY <1>8, <1>d, <2>2, UpdateType DEF PromoteStatus
    <2>4. QED
      BY <1>8, <1>b, <2>3, EndInv DEF PromoteStatus, env, history
  <1>9. CASE updateStatus
    <2>1. ASSUME NEW d \in Copies, NEW p \in BOOLEAN PROVE DerivedStatus(cache, d, p) \in Statuses
      <3>1. d.dep \in Images \cup {NoImage}
        BY DEF Copies
      <3>2. QED
        BY <1>s, <3>1, Zenon DEF DerivedStatus, Statuses, Phases
    <2>2. NoWrite \/ \E d \in Copies, p \in BOOLEAN : UpdateStatus(DerivedStatus(cache, d, p))
      BY <1>9 DEF updateStatus
    <2>3. obj' \in ADs /\ cache' \in ADs /\ fresh' \in BOOLEAN
      BY <1>b, <1>d, <2>1, <2>2, UpdateType DEF NoWrite
    <2>4. faults' \in 0..MaxFaults
      BY <1>9, <1>b, OutdatedFaults DEF updateStatus, ReadDeployment
    <2>5. QED
      BY <1>9, <1>b, <2>3, <2>4, EndInv DEF updateStatus, history
  <1>10. QED
    BY <1>1, <1>2, <1>3, <1>4, <1>5, <1>6, <1>7, <1>8, <1>9

\* Reads, rollbacks begun in a pause, returns, and the environment's steps.
LEMMA OthersInv ==
  ASSUME Inv,
         \/ Reconcile \/ PauseUnreachable \/ PauseBreach \/ Conflict \/ Fault \/ EditSpec
         \/ DeleteOutOfBand \/ DeploymentProgress \/ Sync \/ Tick
  PROVE  Inv'
  <1>a. /\ obj \in ADs /\ cache \in ADs /\ fresh \in BOOLEAN /\ TypeOK
        /\ owned \in Owned /\ passed \subseteq Nat
        /\ failed \in Images \cup {NoImage} /\ edits \in 0..MaxEdits
        /\ faults \in 0..MaxFaults /\ MaxFaults \in Nat /\ MaxEdits \in Nat
    BY BoundsAssumption DEF Inv, TypeOK
  <1>b. Reachable \in Statuses
    BY <1>a DEF Reachable, ADs, Statuses, Times
  <1>1. CASE Reconcile
    <2>1. pc' \in Points \ {"idle"} /\ (pc' \in WeightPoints => pc' = StepKind(cache))
      BY <1>1, <1>a, DispatchPoint, StepKindPoint
         DEF Reconcile, Points, WeightPoints, RollbackPoints, HealPoints, StartPoints,
             ChildPoints, PromotePoints
    <2>2. pc' \in WeightPoints => StepKind(ad') = "weightDep"
      BY <1>1, <1>a, <2>1, StepKindPoint DEF Reconcile, WeightPoints
    <2>3. ad' \in ADs /\ ad' # NoAD
      BY <1>1, <1>a, NoADAssumption DEF Reconcile
    <2>4. TypeOK'
      BY <1>1, <1>a, <2>1, <2>3 DEF Reconcile, NoWrite, TypeOK, env, history
    <2>5. QED
      BY <2>2, <2>4 DEF Inv, WeightPoints, StepKind
  <1>2. CASE PauseUnreachable
    <2>1. [cache.status EXCEPT !.prom = 0] \in Statuses
      BY <1>a, TimeAssumption DEF ADs, Statuses, Times
    <2>2. obj' \in ADs /\ cache' \in ADs /\ fresh' \in BOOLEAN
      BY <1>2, <1>a, <2>1, UpdateType DEF PauseUnreachable, NoWrite
    <2>3. CASE Goto("idle")
      BY <1>2, <1>a, <2>2, <2>3, EndInv DEF PauseUnreachable, env, history
    <2>4. CASE pc' = "rbDep" /\ ad' = cache
      BY <1>2, <1>a, <2>2, <2>4, NoADAssumption
         DEF PauseUnreachable, Inv, TypeOK, env, history, Points, RollbackPoints, WeightPoints
    <2>5. QED
      BY <1>2, <2>3, <2>4 DEF PauseUnreachable
  <1>3. CASE PauseBreach
    <2>1. UpdateStatus(Reachable) \/ NoWrite
      BY <1>3 DEF PauseBreach, ClearUnreachable
    <2>2. obj' \in ADs /\ cache' \in ADs /\ fresh' \in BOOLEAN
      BY <1>a, <1>b, <2>1, UpdateType DEF NoWrite
    <2>3. ad' \in ADs /\ ad' # NoAD
      BY <1>3, <1>a, <1>b, NoADAssumption DEF PauseBreach, ADs
    <2>4. TypeOK'
      BY <1>3, <1>a, <2>2, <2>3
         DEF PauseBreach, TypeOK, env, history, Points, RollbackPoints
    <2>5. QED
      BY <1>3, <2>4 DEF PauseBreach, Inv, WeightPoints
  <1>4. CASE Conflict \/ Fault
    <2>1. faults' \in 0..MaxFaults
      BY <1>4, <1>a DEF Conflict, Fault, env
    <2>2. QED
      BY <1>4, <1>a, <2>1, EndInv DEF Conflict, Fault, NoWrite, env, history
  <1>5. CASE EditSpec
    <2>1. PICK spec \in ADSpecs : obj' = [obj EXCEPT !.spec = spec]
      BY <1>5 DEF EditSpec
    <2>2. obj' \in ADs
      BY <1>a, <2>1 DEF ADs
    <2>3. edits' \in 0..MaxEdits
      BY <1>5, <1>a DEF EditSpec
    <2>4. failed' \in Images \cup {NoImage} /\ fresh' \in BOOLEAN
      BY <1>5, <1>a, Zenon DEF EditSpec
    <2>5. QED
      BY <1>5, <2>2, <2>3, <2>4 DEF EditSpec, Inv, TypeOK, WeightPoints, StepKind
  <1>6. CASE DeleteOutOfBand
    <2>1. PICK k \in Drift : owned' = Without(k) /\ edits < MaxEdits /\ edits' = edits + 1
      BY <1>6 DEF DeleteOutOfBand
    <2>2. owned' \in Owned
      <3>1. k \in {"dep", "cdep", "csvc", "route", "hpa"}
        BY BoundsAssumption
      <3>2. [owned EXCEPT !.dep = NoImage, !.done = FALSE] \in Owned
        BY <1>a, Zenon DEF Owned
      <3>3. /\ [owned EXCEPT !.cdep = NoImage] \in Owned
            /\ [owned EXCEPT !.csvc = FALSE] \in Owned
            /\ [owned EXCEPT !.route = Nil] \in Owned
            /\ [owned EXCEPT !.hpa = "none"] \in Owned
        <4>1. [owned EXCEPT !.cdep = NoImage] \in Owned
          BY <1>a DEF Owned
        <4>2. [owned EXCEPT !.csvc = FALSE] \in Owned
          BY <1>a DEF Owned
        <4>3. [owned EXCEPT !.route = Nil] \in Owned
          BY <1>a DEF Owned
        <4>4. [owned EXCEPT !.hpa = "none"] \in Owned
          BY <1>a DEF Owned
        <4>5. QED
          BY <4>1, <4>2, <4>3, <4>4
      <3>4. QED
        BY <2>1, <3>1, <3>2, <3>3 DEF Without
    <2>3. edits' \in 0..MaxEdits
      BY <1>a, <2>1
    <2>4. QED
      BY <1>6, <2>2, <2>3
         DEF DeleteOutOfBand, NoWrite, history, Inv, TypeOK, WeightPoints, StepKind
  <1>7. CASE DeploymentProgress
    <2>1. owned' \in Owned
      BY <1>7, <1>a DEF DeploymentProgress, Owned
    <2>2. QED
      BY <1>7, <2>1 DEF DeploymentProgress, NoWrite, env, history, Inv, TypeOK, WeightPoints, StepKind
  <1>8. CASE Sync
    BY <1>8, <1>a DEF Sync, env, history, Inv, TypeOK, WeightPoints, StepKind
  <1>9. CASE Tick
    <2>1. obj' \in ADs /\ cache' \in ADs
      BY <1>9, <1>a, AgedType DEF Tick
    <2>2. CASE ad = NoAD
      BY <1>9, <2>1, <2>2 DEF Tick, Aged, env, history, Inv, TypeOK, WeightPoints
    <2>3. CASE ad # NoAD
      <3>1. ad \in ADs
        BY <2>3, <1>a DEF TypeOK
      <3>2. ad' \in ADs /\ ad' # NoAD /\ StepKind(ad') = StepKind(ad)
        BY <1>9, <3>1, AgedType, AgedKind, NoADAssumption DEF Tick
      <3>3. TypeOK'
        BY <1>9, <1>a, <2>1, <2>3, <3>2 DEF Tick, TypeOK, env, history
      <3>4. QED
        BY <1>9, <3>2, <3>3 DEF Tick, Inv, WeightPoints, StepKind
    <2>4. QED
      BY <2>2, <2>3
  <1>10. QED
    BY <1>1, <1>2, <1>3, <1>4, <1>5, <1>6, <1>7, <1>8, <1>9

LEMMA NextInv == Inv /\ [Next]_vars => Inv'
  <1>1. ASSUME Inv, Next PROVE Inv'
    BY <1>1, CallsInv, WritesInv, OthersInv DEF Next, Worker, Environment, Step, Teardown
  <1>2. ASSUME Inv, UNCHANGED vars PROVE Inv'
    BY <1>2 DEF vars, Inv, TypeOK, WeightPoints, StepKind
  <1>3. QED
    BY <1>1, <1>2

\* Every reachable state is well-formed; in particular no setWeight step writes a
\* weight its plan does not hold, and a step index never runs past the plan into one.
THEOREM TypeCorrect == Spec => []TypeOK
  <1>1. Inv => TypeOK
    BY DEF Inv
  <1>2. QED
    BY <1>1, InitInv, NextInv, PTL DEF Spec

-----------------------------------------------------------------------------
(* A rollout in progress names its two images, however late reads are.     *)

\* Was the object ever deployed successfully?  Then so it stays: the copies the
\* reconciler works on may be old, but stableVersion is never taken back.
Deployed(a) == a.status.stable # NoImage

Named(a) == InProgress(a) => a.status.canary # NoImage /\ Deployed(a)

NamedInv ==
  /\ fresh => cache = obj
  /\ Named(obj) /\ Named(cache)
  /\ Deployed(cache) => Deployed(obj)
  /\ pc # "idle" /\ Deployed(ad) => Deployed(cache)
  /\ pc \in StartPoints => Deployed(ad)
  /\ pc \in PromotePoints => ad.status.canary # NoImage

LEMMA CallNamed ==
  ASSUME NamedInv, NEW from \in Points \ {"idle"}, NEW next, NEW o, Call(from, next, o),
         next \in StartPoints => from \in StartPoints,
         next \in PromotePoints => from \in PromotePoints \/ ad.status.canary # NoImage
  PROVE  NamedInv'
  <1>1. /\ pc = from /\ pc' = next /\ obj' = obj /\ cache' = cache /\ fresh' = fresh
        /\ next # "idle" => ad' = ad
    BY DEF Call, Move, Goto, NoWrite
  <1>2. "idle" \notin StartPoints /\ "idle" \notin PromotePoints
    BY DEF StartPoints, PromotePoints
  <1>3. QED
    BY <1>1, <1>2 DEF NamedInv, Named, Deployed, InProgress

\* A written status may start a rollout only with both images, and may not
\* take stableVersion back.
LEMMA UpdateNamed ==
  ASSUME Inv, NamedInv, NEW s, UpdateStatus(s), pc' = "idle",
         s.phase = "RolloutInProgress" => s.canary # NoImage,
         s.phase = "RolloutInProgress" \/ Deployed(cache) => s.stable # NoImage
  PROVE  NamedInv'
  <1>1. cache = obj /\ obj \in ADs
    BY DEF UpdateStatus, NamedInv, Inv, TypeOK
  <1>2. obj'.status = s
    BY <1>1 DEF UpdateStatus, ADs
  <1>3. cache' = cache \/ cache' = obj'
    BY DEF UpdateStatus
  <1>4. fresh' => cache' = obj'
    <2>1. CASE CacheLag /\ fresh'
      <3>1. s = obj.status /\ cache' = cache
        BY <2>1 DEF UpdateStatus
      <3>2. obj' = obj
        BY <3>1, <1>1 DEF UpdateStatus, ADs
      <3>3. QED
        BY <3>1, <3>2, <1>1
    <2>2. QED
      BY <2>1 DEF UpdateStatus
  <1>5. Named(obj') /\ (Deployed(cache) => Deployed(obj'))
    BY <1>2 DEF Named, Deployed, InProgress
  <1>6. QED
    BY <1>1, <1>3, <1>4, <1>5
       DEF NamedInv, Named, Deployed, InProgress, StartPoints, PromotePoints

\* A reconcile that returns without a write.
LEMMA ReturnNamed ==
  ASSUME NamedInv, NoWrite, pc' = "idle"
  PROVE  NamedInv'
  BY DEF NamedInv, NoWrite, Named, Deployed, InProgress, StartPoints, PromotePoints

\* Time changes neither image nor phase.
LEMMA AgedImages ==
  \A a \in ADs : /\ Deployed(Aged(a)) <=> Deployed(a)
                 /\ Named(Aged(a)) <=> Named(a)
                 /\ Aged(a).status.canary = a.status.canary
  BY NoADAssumption DEF Aged, AgedStatus, ADs, Statuses, Deployed, Named, InProgress

LEMMA CallsNamed ==
  ASSUME Inv, NamedInv,
         \/ PauseHPA \/ EnsureCanaryDeployment \/ EnsureCanaryService \/ EnsureHTTPRoute
         \/ RollbackImage \/ PromoteImage \/ deleteCanaryDeployment \/ deleteCanaryService
         \/ deleteHTTPRoute \/ restoreHPA \/ reconcileDeployment \/ reconcileHPA
  PROVE  NamedInv'
  <1>1. ASSUME NEW a \in ADs PROVE StepKind(a) \in PromotePoints => a.status.canary # NoImage
    BY DEF StepKind, PromotePoints
  <1>2. pc # "idle" => ad \in ADs
    BY DEF Inv, TypeOK
  <1>3. PICK from, next, o :
          /\ from \in Points \ {"idle"}
          /\ Call(from, next, o)
          /\ next \in StartPoints => from \in StartPoints
          /\ next \in PromotePoints => from \in PromotePoints \/ next \in {HealRoute(ad), StepKind(ad)}
    <2>1. CASE EnsureCanaryService \/ EnsureHTTPRoute
      <3>1. pc # "idle" => HealRoute(ad) \notin StartPoints /\ StepKind(ad) \notin StartPoints
        BY <1>2, HealRoutePoint, StepKindPoint DEF StartPoints
      <3>2. QED
        BY <2>1, <3>1
           DEF EnsureCanaryService, EnsureHTTPRoute, Call, Move, Points, HealPoints, WeightPoints,
               StartPoints, PromotePoints
    <2>2. CASE PauseHPA \/ EnsureCanaryDeployment \/ RollbackImage
      BY <2>2
         DEF PauseHPA, EnsureCanaryDeployment, RollbackImage, Points, StartPoints, HealPoints,
             WeightPoints, RollbackPoints, PromotePoints
    <2>3. CASE PromoteImage
      BY <2>3, MoveIsCall DEF PromoteImage, Points, StartPoints, PromotePoints
    <2>4. CASE deleteCanaryDeployment \/ deleteCanaryService \/ deleteHTTPRoute \/ restoreHPA
      BY <2>4
         DEF deleteCanaryDeployment, deleteCanaryService, deleteHTTPRoute, restoreHPA,
             Points, StartPoints, RollbackPoints, PromotePoints
    <2>5. CASE reconcileDeployment
      BY <2>5 DEF reconcileDeployment, Points, StartPoints, ChildPoints, PromotePoints
    <2>6. CASE reconcileHPA
      BY <2>6 DEF reconcileHPA, Points, StartPoints, ChildPoints, PromotePoints
    <2>7. QED
      BY <2>1, <2>2, <2>3, <2>4, <2>5, <2>6
  <1>4. pc = from /\ ad \in ADs
    BY <1>2, <1>3 DEF Call, Move
  <1>5. next \in PromotePoints => from \in PromotePoints \/ ad.status.canary # NoImage
    BY <1>1, <1>3, <1>4, HealRoutePoint DEF PromotePoints
  <1>6. QED
    BY <1>3, <1>5, CallNamed

LEMMA WritesNamed ==
  ASSUME Inv, NamedInv,
         \/ StartStatus \/ SetWeightStatus \/ PauseBegin \/ PauseWait \/ PauseAdvance
         \/ PauseInterrupted \/ RollbackStatus \/ PromoteStatus \/ updateStatus
  PROVE  NamedInv'
  <1>a. cache \in ADs /\ (pc # "idle" => ad \in ADs)
    BY DEF Inv, TypeOK
  <1>b. pc' = "idle"
    BY DEF StartStatus, SetWeightStatus, PauseBegin, PauseWait, PauseAdvance,
           PauseInterrupted, RollbackStatus, PromoteStatus, updateStatus, Goto
  <1>c. Named(cache)
    BY DEF NamedInv
  <1>1. CASE StartStatus
    <2>1. ad.spec.image # NoImage /\ cache.status.stable # NoImage
      BY <1>1, <1>a, ImagesAssumption
         DEF StartStatus, NamedInv, Deployed, StartPoints, ADs, ADSpecs
    <2> DEFINE s == [cache.status EXCEPT !.phase = "RolloutInProgress", !.canary = ad.spec.image,
                       !.idx = 0, !.weight = 0, !.pause = Nil, !.prom = Nil]
    <2>2. s.canary # NoImage /\ s.stable # NoImage
      BY <1>a, <2>1 DEF ADs, Statuses
    <2>3. UpdateStatus(s)
      BY <1>1 DEF StartStatus
    <2> HIDE DEF s
    <2>4. QED
      BY <1>b, <2>2, <2>3, UpdateNamed
  <1>2. CASE SetWeightStatus
    <2> DEFINE s == [cache.status EXCEPT !.weight = StepWeight, !.idx = ad.status.idx + 1, !.pause = Nil]
    <2>1. s.phase = cache.status.phase /\ s.canary = cache.status.canary /\ s.stable = cache.status.stable
      BY <1>a DEF ADs, Statuses
    <2>2. UpdateStatus(s)
      BY <1>2 DEF SetWeightStatus
    <2> HIDE DEF s
    <2>3. QED
      BY <1>b, <1>c, <2>1, <2>2, UpdateNamed DEF Named, Deployed, InProgress
  <1>3. CASE PauseBegin
    <2> DEFINE s == [cache.status EXCEPT !.pause = 0]
    <2>1. s.phase = cache.status.phase /\ s.canary = cache.status.canary /\ s.stable = cache.status.stable
      BY <1>a DEF ADs, Statuses
    <2>2. UpdateStatus(s)
      BY <1>3 DEF PauseBegin
    <2> HIDE DEF s
    <2>3. QED
      BY <1>b, <1>c, <2>1, <2>2, UpdateNamed DEF Named, Deployed, InProgress
  <1>4. CASE PauseWait \/ PauseInterrupted
    <2>1. /\ Reachable.phase = cache.status.phase /\ Reachable.canary = cache.status.canary
          /\ Reachable.stable = cache.status.stable
      BY <1>a DEF Reachable, ADs, Statuses
    <2>2. UpdateStatus(Reachable) \/ NoWrite
      BY <1>4 DEF PauseWait, PauseInterrupted, ClearUnreachable
    <2>3. QED
      BY <1>b, <1>c, <2>1, <2>2, UpdateNamed, ReturnNamed DEF Named, Deployed, InProgress
  <1>5. CASE PauseAdvance
    <2> DEFINE s == [Reachable EXCEPT !.idx = ad.status.idx + 1, !.pause = Nil]
    <2>1. s.phase = cache.status.phase /\ s.canary = cache.status.canary /\ s.stable = cache.status.stable
      BY <1>a DEF Reachable, ADs, Statuses
    <2>2. UpdateStatus(s)
      BY <1>5 DEF PauseAdvance
    <2> HIDE DEF s
    <2>3. QED
      BY <1>b, <1>c, <2>1, <2>2, UpdateNamed DEF Named, Deployed, InProgress
  <1>6. CASE RollbackStatus
    <2> DEFINE canary == IF cache.status.canary = NoImage THEN ad.spec.image ELSE cache.status.canary
               s == [Cleared EXCEPT !.phase = "RolloutFailed", !.canary = canary]
    <2>1. s.phase = "RolloutFailed" /\ s.stable = cache.status.stable
      BY <1>a DEF Cleared, ADs, Statuses
    <2>2. UpdateStatus(s)
      BY <1>6 DEF RollbackStatus
    <2> HIDE DEF s
    <2>3. QED
      BY <1>b, <2>1, <2>2, UpdateNamed DEF Deployed
  <1>7. CASE PromoteStatus
    <2> DEFINE s == [Cleared EXCEPT !.phase = "Running", !.stable = ad.status.canary, !.canary = NoImage]
    <2>1. s.phase = "Running" /\ s.stable = ad.status.canary
      BY <1>a DEF Cleared, ADs, Statuses
    <2>2. UpdateStatus(s) /\ ad.status.canary # NoImage
      BY <1>7 DEF PromoteStatus, NamedInv, PromotePoints
    <2> HIDE DEF s
    <2>3. QED
      BY <1>b, <2>1, <2>2, UpdateNamed
  <1>8. CASE updateStatus
    <2>1. PICK d \in Copies, p \in BOOLEAN :
            NoWrite \/ (d.dep # NoImage /\ UpdateStatus(DerivedStatus(cache, d, p)))
      BY <1>8 DEF updateStatus
    <2> DEFINE s == DerivedStatus(cache, d, p)
    <2>2. d.dep # NoImage => s.phase # "RolloutInProgress" /\ (Deployed(cache) => s.stable # NoImage)
      BY <1>a DEF DerivedStatus, Deployed, ADs, Statuses
    <2> HIDE DEF s
    <2>3. CASE NoWrite
      BY <1>b, <2>3, ReturnNamed
    <2>4. CASE d.dep # NoImage /\ UpdateStatus(s)
      BY <1>b, <2>2, <2>4, UpdateNamed
    <2>5. QED
      BY <2>1, <2>3, <2>4 DEF s
  <1>9. QED
    BY <1>1, <1>2, <1>3, <1>4, <1>5, <1>6, <1>7, <1>8

LEMMA OthersNamed ==
  ASSUME Inv, NamedInv,
         \/ Reconcile \/ PauseUnreachable \/ PauseBreach \/ Conflict \/ Fault \/ EditSpec
         \/ DeleteOutOfBand \/ DeploymentProgress \/ Sync \/ Tick
  PROVE  NamedInv'
  <1>a. cache \in ADs /\ obj \in ADs /\ (pc # "idle" => ad \in ADs)
    BY DEF Inv, TypeOK
  <1>b. Named(cache)
    BY DEF NamedInv
  <1>c. /\ Reachable.phase = cache.status.phase /\ Reachable.canary = cache.status.canary
        /\ Reachable.stable = cache.status.stable
    BY <1>a DEF Reachable, ADs, Statuses
  <1>1. CASE Reconcile
    <2>1. pc' \in StartPoints => Deployed(cache)
      BY <1>1, <1>a, StepKindPoint
         DEF Reconcile, Dispatch, Heal, HealRoute, isCanaryTriggered, Deployed, StartPoints
    <2>2. pc' \in PromotePoints => cache.status.canary # NoImage
      BY <1>1, <1>a
         DEF Reconcile, Dispatch, Heal, HealRoute, StepKind, PromotePoints
    <2>3. QED
      BY <1>1, <2>1, <2>2 DEF Reconcile, NoWrite, NamedInv, Named, Deployed, InProgress
  <1>2. CASE PauseUnreachable
    <2> DEFINE s == [cache.status EXCEPT !.prom = 0]
    <2>1. s.phase = cache.status.phase /\ s.canary = cache.status.canary /\ s.stable = cache.status.stable
      BY <1>a DEF ADs, Statuses
    <2>2. \/ UpdateStatus(s) /\ pc' = "idle"
          \/ NoWrite /\ pc' = "idle"
          \/ NoWrite /\ pc' = "rbDep" /\ ad' = cache
      BY <1>2 DEF PauseUnreachable, Goto
    <2> HIDE DEF s
    <2>3. CASE UpdateStatus(s) /\ pc' = "idle"
      BY <1>b, <2>1, <2>3, UpdateNamed DEF Named, Deployed, InProgress
    <2>4. CASE NoWrite /\ pc' = "idle"
      BY <2>4, ReturnNamed
    <2>5. CASE NoWrite /\ pc' = "rbDep" /\ ad' = cache
      BY <2>5 DEF NamedInv, NoWrite, Named, Deployed, InProgress, StartPoints, PromotePoints
    <2>6. QED
      BY <2>2, <2>3, <2>4, <2>5
  <1>3. CASE PauseBreach
    <2>1. UpdateStatus(Reachable) \/ NoWrite
      BY <1>3 DEF PauseBreach, ClearUnreachable
    <2>2. ad'.status = Reachable /\ pc' = "rbDep"
      BY <1>3, <1>a DEF PauseBreach, ADs
    <2>3. CASE NoWrite
      BY <1>c, <2>2, <2>3
         DEF NamedInv, NoWrite, Named, Deployed, InProgress, StartPoints, PromotePoints
    <2>4. CASE UpdateStatus(Reachable)
      <3>1. cache = obj
        BY <2>4 DEF UpdateStatus, NamedInv
      <3>2. obj'.status = Reachable /\ (cache' = cache \/ cache' = obj')
        BY <1>a, <2>4 DEF UpdateStatus, ADs
      <3>3. fresh' => cache' = obj'
        BY <1>a, <2>4, <3>1 DEF UpdateStatus, ADs
      <3>4. QED
        BY <1>b, <1>c, <2>2, <3>1, <3>2, <3>3
           DEF NamedInv, Named, Deployed, InProgress, StartPoints, PromotePoints
    <2>5. QED
      BY <2>1, <2>3, <2>4
  <1>4. CASE Conflict \/ Fault
    BY <1>4, ReturnNamed DEF Conflict, Fault, Goto
  <1>5. CASE EditSpec
    <2>1. obj'.status = obj.status
      BY <1>5, <1>a DEF EditSpec, ADs
    <2>2. QED
      BY <1>5, <2>1 DEF EditSpec, NamedInv, Named, Deployed, InProgress
  <1>6. CASE DeleteOutOfBand \/ DeploymentProgress
    BY <1>6 DEF DeleteOutOfBand, DeploymentProgress, NoWrite, NamedInv, Named, Deployed, InProgress
  <1>7. CASE Sync
    BY <1>7 DEF Sync, NamedInv, Named, Deployed, InProgress
  <1>8. CASE Tick
    <2>1. /\ Deployed(obj') <=> Deployed(obj)
          /\ Named(obj') <=> Named(obj)
          /\ Deployed(cache') <=> Deployed(cache)
          /\ Named(cache') <=> Named(cache)
      BY <1>8, <1>a, AgedImages DEF Tick
    <2>2. pc # "idle" => (Deployed(ad') <=> Deployed(ad)) /\ ad'.status.canary = ad.status.canary
      BY <1>8, <1>a, AgedImages DEF Tick
    <2>3. "idle" \notin StartPoints /\ "idle" \notin PromotePoints
      BY DEF StartPoints, PromotePoints
    <2>4. fresh' = fresh /\ pc' = pc /\ (cache = obj => cache' = obj')
      BY <1>8 DEF Tick
    <2>5. QED
      BY <2>1, <2>2, <2>3, <2>4 DEF NamedInv, Deployed, Named, InProgress
  <1>9. QED
    BY <1>1, <1>2, <1>3, <1>4, <1>5, <1>6, <1>7, <1>8

LEMMA SpecNamed == Spec => [](Inv /\ NamedInv)
  <1>1. Init => NamedInv
    <2> SUFFICES ASSUME Init PROVE NamedInv
      OBVIOUS
    <2>1. obj.status = ZeroStatus /\ cache = obj /\ pc = "idle"
      BY DEF Init
    <2>2. ZeroStatus.phase # "RolloutInProgress" /\ ZeroStatus.stable = NoImage
      BY DEF ZeroStatus
    <2>3. ~InProgress(obj) /\ ~Deployed(cache)
      BY <2>1, <2>2 DEF InProgress, Deployed
    <2>4. QED
      BY <2>1, <2>3 DEF NamedInv, Named, StartPoints, PromotePoints
  <1>2. Inv /\ NamedInv /\ [Next]_vars => NamedInv'
    <2>1. ASSUME Inv, NamedInv, Next PROVE NamedInv'
      BY <2>1, CallsNamed, WritesNamed, OthersNamed DEF Next, Worker, Environment, Step, Teardown
    <2>2. ASSUME NamedInv, UNCHANGED vars PROVE NamedInv'
      BY <2>2 DEF vars, NamedInv, Named, Deployed, InProgress
    <2>3. QED
      BY <2>1, <2>2
  <1>3. QED
    BY <1>1, <1>2, InitInv, NextInv, PTL DEF Spec

\* However late the reconciler's reads, whatever fails or is edited: a rollout in
\* progress names its canary image and has a stable image to go back to.
THEOREM RolloutAlwaysNamed == Spec => []RolloutNamesImages
  <1>1. NamedInv => RolloutNamesImages
    BY DEF NamedInv, Named, Deployed, RolloutNamesImages
  <1>2. QED
    BY <1>1, SpecNamed, PTL

-----------------------------------------------------------------------------
(* Without cache lag: what a rollout leaves behind.  The reconcile, the    *)
(* cache and the API server then agree on the status, and the teardown has *)
(* deleted what the calls before its next one delete.                      *)

RolloutPoints == HealPoints \cup WeightPoints \cup {"pause"} \cup RollbackPoints \cup PromotePoints
NoDeploymentPoints == (RollbackPoints \cup PromotePoints) \ {"rbDep", "rbCanary", "prDep", "prCanary"}
NoServicePoints == NoDeploymentPoints \ {"rbSvc", "prSvc"}
NoRoutePoints == NoServicePoints \ {"rbRoute", "prRoute"}

AgreeInv ==
  /\ cache.status = obj.status
  /\ pc # "idle" => ad.status = obj.status
  /\ pc \in RolloutPoints => InProgress(ad)
  /\ pc \in StartPoints \cup ChildPoints => ~InProgress(ad)
  /\ pc \in PromotePoints => ad.status.idx >= Len(ad.spec.rollout.steps)

TeardownInv ==
  /\ pc \in NoDeploymentPoints => owned.cdep = NoImage
  /\ pc \in NoServicePoints => ~owned.csvc
  /\ pc \in NoRoutePoints => owned.route = Nil
  /\ NoOrphans
  /\ ProgressOnlyInRollout

\* A call goes on to a point of the same kind, or where StepKind sends it.
LEMMA CallAgree ==
  ASSUME Inv, AgreeInv, NEW from \in Points \ {"idle"}, NEW next \in Points, NEW o,
         Call(from, next, o),
         from \in RolloutPoints <=> next \in RolloutPoints \/ next = "idle",
         next \in PromotePoints => ad.status.idx >= Len(ad.spec.rollout.steps)
  PROVE  AgreeInv'
  <1>1. /\ pc = from /\ pc' = next /\ obj' = obj /\ cache' = cache
        /\ next # "idle" => ad' = ad
    BY DEF Call, Move, Goto, NoWrite
  <1>2. from \in RolloutPoints \/ from \in StartPoints \cup ChildPoints
    BY DEF Points, RolloutPoints
  <1>3. next \in StartPoints \cup ChildPoints => next \notin RolloutPoints /\ next # "idle"
    BY DEF StartPoints, ChildPoints, RolloutPoints, HealPoints, WeightPoints, RollbackPoints, PromotePoints
  <1>4. "idle" \notin RolloutPoints /\ "idle" \notin PromotePoints
    BY DEF RolloutPoints, HealPoints, WeightPoints, RollbackPoints, PromotePoints
  <1>5. next \in RolloutPoints => InProgress(ad)
    BY <1>1, <1>4 DEF AgreeInv
  <1>6. next \in StartPoints \cup ChildPoints => ~InProgress(ad)
    BY <1>1, <1>2, <1>3 DEF AgreeInv
  <1>7. QED
    BY <1>1, <1>3, <1>4, <1>5, <1>6 DEF AgreeInv, InProgress

LEMMA StepKindAgree ==
  \A a \in ADs : /\ StepKind(a) \in RolloutPoints \/ StepKind(a) = "idle"
                 /\ StepKind(a) \in PromotePoints => a.status.idx >= Len(a.spec.rollout.steps)
  BY DEF StepKind, RolloutPoints, HealPoints, WeightPoints, RollbackPoints, PromotePoints

LEMMA CallsAgree ==
  ASSUME Inv, AgreeInv,
         \/ PauseHPA \/ EnsureCanaryDeployment \/ EnsureCanaryService \/ EnsureHTTPRoute
         \/ RollbackImage \/ PromoteImage \/ deleteCanaryDeployment \/ deleteCanaryService
         \/ deleteHTTPRoute \/ restoreHPA \/ reconcileDeployment \/ reconcileHPA
  PROVE  AgreeInv'
  <1>1. pc # "idle" => ad \in ADs
    BY DEF Inv, TypeOK
  <1>2. PICK from, next, o :
          /\ from \in Points \ {"idle"} /\ next \in Points
          /\ Call(from, next, o)
          /\ from \in RolloutPoints <=> next \in RolloutPoints \/ next = "idle"
          /\ next \in PromotePoints => from \in PromotePoints \/ next = StepKind(ad)
    <2>a. "idle" \in Points
      BY DEF Points
    <2>1. CASE EnsureCanaryService \/ EnsureHTTPRoute
      <3>1. PICK from, next, o :
              /\ from \in {"healSvc", "weightSvc", "healRoute", "weightRoute"}
              /\ next \in {HealRoute(ad), StepKind(ad), "weightRoute", "weightStatus"}
              /\ Call(from, next, o)
        BY <2>1 DEF EnsureCanaryService, EnsureHTTPRoute
      <3>2. ad \in ADs
        BY <1>1, <3>1 DEF Call, Move
      <3>3. next \in {"healRoute", StepKind(ad), "weightRoute", "weightStatus"}
        BY <3>1, <3>2, HealRoutePoint
      <3>4. next \in RolloutPoints \/ next = "idle"
        BY <3>2, <3>3, StepKindAgree DEF RolloutPoints, HealPoints, WeightPoints
      <3>5. from \in RolloutPoints /\ from \in Points \ {"idle"}
        BY <3>1 DEF RolloutPoints, Points, HealPoints, WeightPoints
      <3>6. next \in Points
        BY <3>4, <2>a DEF RolloutPoints, Points
      <3>7. next \in PromotePoints => next = StepKind(ad)
        BY <3>3 DEF PromotePoints
      <3>8. QED
        BY <3>1, <3>4, <3>5, <3>6, <3>7
    <2>2. CASE PauseHPA \/ EnsureCanaryDeployment \/ RollbackImage
      BY <2>2
         DEF PauseHPA, EnsureCanaryDeployment, RollbackImage, Points, StartPoints, HealPoints,
             WeightPoints, RollbackPoints, PromotePoints, RolloutPoints
    <2>3. CASE PromoteImage
      BY <2>3, MoveIsCall DEF PromoteImage, Points, PromotePoints, RolloutPoints
    <2>4. CASE deleteCanaryDeployment \/ deleteCanaryService \/ deleteHTTPRoute \/ restoreHPA
      <3>1. PICK from, next, o :
              /\ from \in RollbackPoints \cup PromotePoints
              /\ next \in RollbackPoints \cup PromotePoints
              /\ Call(from, next, o) /\ (next \in PromotePoints => from \in PromotePoints)
        BY <2>4
           DEF deleteCanaryDeployment, deleteCanaryService, deleteHTTPRoute, restoreHPA,
               RollbackPoints, PromotePoints
      <3>2. from # "idle"
        BY <3>1 DEF RollbackPoints, PromotePoints
      <3>3. QED
        BY <3>1, <3>2 DEF Points, RolloutPoints
    <2>5. CASE reconcileDeployment
      BY <2>5 DEF reconcileDeployment, Points, HealPoints, WeightPoints, RollbackPoints,
                  ChildPoints, PromotePoints, RolloutPoints
    <2>6. CASE reconcileHPA
      BY <2>6 DEF reconcileHPA, Points, HealPoints, WeightPoints, RollbackPoints,
                  ChildPoints, PromotePoints, RolloutPoints
    <2>7. QED
      BY <2>1, <2>2, <2>3, <2>4, <2>5, <2>6
  <1>3. pc = from /\ ad \in ADs
    BY <1>1, <1>2 DEF Call, Move
  <1>4. next \in PromotePoints => ad.status.idx >= Len(ad.spec.rollout.steps)
    BY <1>2, <1>3, StepKindAgree DEF AgreeInv
  <1>5. QED
    BY <1>2, <1>4, CallAgree

\* Without lag a status update is in the cache at once.
LEMMA UpdateAgree ==
  ASSUME ~CacheLag, Inv, NEW s, UpdateStatus(s)
  PROVE  obj'.status = s /\ cache'.status = s
  BY DEF UpdateStatus, Inv, TypeOK, ADs

\* A reconcile that returns, with or without a write.
LEMMA EndAgree ==
  ASSUME ~CacheLag, Inv, AgreeInv, pc' = "idle", NoWrite \/ \E s : UpdateStatus(s)
  PROVE  AgreeInv'
  <1>1. cache'.status = obj'.status
    BY UpdateAgree DEF NoWrite, AgreeInv
  <1>2. QED
    BY <1>1 DEF AgreeInv, RolloutPoints, HealPoints, WeightPoints, RollbackPoints,
                PromotePoints, StartPoints, ChildPoints

LEMMA AgedSpec ==
  \A a \in ADs : Aged(a).spec = a.spec /\ Aged(a).status = AgedStatus(a.status)
                   /\ Aged(a).status.phase = a.status.phase /\ Aged(a).status.idx = a.status.idx
  BY NoADAssumption DEF Aged, AgedStatus, ADs, Statuses

LEMMA NextAgree ==
  ASSUME ~CacheLag, Inv, AgreeInv, Next
  PROVE  AgreeInv'
  <1>a. cache \in ADs /\ obj \in ADs /\ (pc # "idle" => ad \in ADs)
    BY DEF Inv, TypeOK
  <1>1. CASE Reconcile
    <2>1. pc' = Dispatch(cache) /\ ad' = cache /\ pc' # "idle" /\ obj' = obj /\ cache' = cache
      BY <1>1 DEF Reconcile, NoWrite
    <2>2. Dispatch(cache) \in RolloutPoints \/ Dispatch(cache) \in {"startHPA", "dep"}
      BY <1>a, <2>1, StepKindAgree
         DEF Dispatch, Heal, HealRoute, RolloutPoints, HealPoints, RollbackPoints
    <2>3. Dispatch(cache) \notin {"startHPA", "dep"} => InProgress(cache)
      BY DEF Dispatch, isAbortRequested
    <2>4. Dispatch(cache) \in StartPoints \cup ChildPoints => ~InProgress(cache)
      BY <1>a, StepKindPoint
         DEF Dispatch, Heal, HealRoute, isAbortRequested, StartPoints, ChildPoints
    <2>5. Dispatch(cache) \in PromotePoints => cache.status.idx >= Len(cache.spec.rollout.steps)
      BY <1>a, StepKindAgree DEF Dispatch, Heal, HealRoute, PromotePoints
    <2>6. "startHPA" \notin RolloutPoints /\ "dep" \notin RolloutPoints
      BY DEF RolloutPoints, HealPoints, WeightPoints, RollbackPoints, PromotePoints
    <2>7. QED
      BY <2>1, <2>2, <2>3, <2>4, <2>5, <2>6 DEF AgreeInv, InProgress
  <1>2. CASE PauseUnreachable
    <2>1. CASE pc' = "idle"
      BY <1>2, <2>1, EndAgree DEF PauseUnreachable
    <2>2. CASE pc' # "idle"
      <3>1. NoWrite /\ pc' = "rbDep" /\ ad' = cache /\ pc = "pause"
        BY <1>2, <2>2 DEF PauseUnreachable, Goto
      <3>2. InProgress(ad) /\ ad.status = obj.status
        BY <3>1 DEF AgreeInv, RolloutPoints
      <3>3. QED
        BY <3>1, <3>2 DEF AgreeInv, NoWrite, InProgress, RolloutPoints, StartPoints, ChildPoints,
                          PromotePoints, RollbackPoints
    <2>3. QED
      BY <2>1, <2>2
  <1>3. CASE PauseBreach
    <2>1. ad'.status = Reachable /\ pc' = "rbDep" /\ pc = "pause"
      BY <1>3, <1>a DEF PauseBreach, ADs
    <2>2. InProgress(ad) /\ ad.status = obj.status /\ cache.status = obj.status
      BY <2>1 DEF AgreeInv, RolloutPoints
    <2>3. Reachable.phase = cache.status.phase /\ (cache.status.prom = Nil => Reachable = cache.status)
      BY <1>a DEF Reachable, ADs, Statuses
    <2>4. cache'.status = Reachable /\ obj'.status = Reachable
      BY <1>3, <2>2, <2>3, UpdateAgree DEF PauseBreach, ClearUnreachable, NoWrite
    <2>5. QED
      BY <2>1, <2>2, <2>3, <2>4 DEF AgreeInv, InProgress, RolloutPoints, StartPoints, ChildPoints,
                        PromotePoints, RollbackPoints
  <1>4. CASE \/ StartStatus \/ SetWeightStatus \/ PauseBegin \/ PauseWait \/ PauseAdvance
             \/ PauseInterrupted \/ RollbackStatus \/ PromoteStatus \/ updateStatus
             \/ Conflict \/ Fault
    <2>1. pc' = "idle"
      BY <1>4
         DEF StartStatus, SetWeightStatus, PauseBegin, PauseWait, PauseAdvance, PauseInterrupted,
             RollbackStatus, PromoteStatus, updateStatus, Conflict, Fault, Goto
    <2>2. NoWrite \/ \E s : UpdateStatus(s)
      BY <1>4
         DEF StartStatus, SetWeightStatus, PauseBegin, PauseWait, PauseAdvance, PauseInterrupted,
             RollbackStatus, PromoteStatus, updateStatus, Conflict, Fault, ClearUnreachable
    <2>3. QED
      BY <2>1, <2>2, EndAgree
  <1>5. CASE EditSpec
    <2>1. obj'.status = obj.status
      BY <1>5, <1>a DEF EditSpec, ADs
    <2>2. QED
      BY <1>5, <2>1 DEF EditSpec, AgreeInv, InProgress
  <1>6. CASE DeleteOutOfBand \/ DeploymentProgress
    BY <1>6 DEF DeleteOutOfBand, DeploymentProgress, NoWrite, AgreeInv, InProgress
  <1>7. CASE Sync
    BY <1>7 DEF Sync, AgreeInv, InProgress
  <1>8. CASE Tick
    <2>1. cache'.status = obj'.status /\ pc' = pc
      BY <1>8, <1>a, AgedSpec DEF Tick, AgreeInv
    <2>2. CASE pc = "idle"
      BY <2>1, <2>2 DEF AgreeInv, RolloutPoints, HealPoints, WeightPoints, RollbackPoints,
                        PromotePoints, StartPoints, ChildPoints
    <2>3. CASE pc # "idle"
      <3>1. /\ ad'.status = obj'.status /\ ad'.spec = ad.spec
            /\ ad'.status.phase = ad.status.phase /\ ad'.status.idx = ad.status.idx
        BY <1>8, <1>a, <2>3, AgedSpec DEF Tick, AgreeInv
      <3>2. QED
        BY <2>1, <3>1 DEF AgreeInv, InProgress
    <2>4. QED
      BY <2>2, <2>3
  <1>9. QED
    BY <1>1, <1>2, <1>3, <1>4, <1>5, <1>6, <1>7, <1>8, CallsAgree
       DEF Next, Worker, Environment, Step, Teardown

\* A call made during a rollout owes NoOrphans nothing yet, only the teardown.
LEMMA CallTeardown ==
  ASSUME ~CacheLag, Inv, AgreeInv, TeardownInv,
         NEW from \in RolloutPoints, NEW next, NEW o, Call(from, next, o),
         next \in NoDeploymentPoints => o.cdep = NoImage,
         next \in NoServicePoints => ~o.csvc,
         next \in NoRoutePoints => o.route = Nil
  PROVE  TeardownInv'
  <1>1. pc = from /\ pc' = next /\ owned' = o /\ obj' = obj
    BY CallMoves DEF Move, Goto, NoWrite
  <1>2. InProgress(obj) /\ from # "idle"
    BY <1>1 DEF AgreeInv, InProgress, RolloutPoints, HealPoints, WeightPoints, RollbackPoints, PromotePoints
  <1>3. QED
    BY <1>1, <1>2 DEF TeardownInv, NoOrphans, ProgressOnlyInRollout, InProgress

LEMMA CallsTeardown ==
  ASSUME ~CacheLag, Inv, AgreeInv, TeardownInv,
         \/ PauseHPA \/ EnsureCanaryDeployment \/ EnsureCanaryService \/ EnsureHTTPRoute
         \/ RollbackImage \/ PromoteImage \/ deleteCanaryDeployment \/ deleteCanaryService
         \/ deleteHTTPRoute \/ restoreHPA \/ reconcileDeployment \/ reconcileHPA
  PROVE  TeardownInv'
  <1>a. pc # "idle" => ad \in ADs
    BY DEF Inv, TypeOK
  <1>b. owned \in Owned
    BY DEF Inv, TypeOK
  <1>c. NoRoutePoints \subseteq NoServicePoints /\ NoServicePoints \subseteq NoDeploymentPoints
    BY DEF NoRoutePoints, NoServicePoints
  <1>d. NoDeploymentPoints \subseteq RollbackPoints \cup PromotePoints
        /\ RollbackPoints \cup PromotePoints \subseteq RolloutPoints
    BY DEF NoDeploymentPoints, RolloutPoints
  <1>1. CASE PauseHPA \/ reconcileDeployment \/ reconcileHPA
    <2>1. /\ pc' \in {"startStatus", "hpa", "status"} /\ obj' = obj
          /\ \/ owned' = owned
             \/ owned' = [owned EXCEPT !.hpa = "none"]
             \/ owned' = [owned EXCEPT !.hpa = "headroom"]
             \/ owned' = SetStableImage(desiredImage(ad))
      BY <1>1 DEF PauseHPA, reconcileDeployment, reconcileHPA, Call, Move, Goto, NoWrite
    <2>2. owned'.cdep = owned.cdep /\ owned'.csvc = owned.csvc /\ owned'.route = owned.route
      BY <2>1, <1>b DEF SetStableImage, Owned
    <2>3. pc' \notin NoDeploymentPoints
      BY <2>1, <1>d DEF RollbackPoints, PromotePoints
    <2>4. QED
      BY <2>1, <2>2, <2>3, <1>c DEF TeardownInv, NoOrphans, ProgressOnlyInRollout, InProgress
  <1>2. CASE \/ EnsureCanaryDeployment \/ EnsureCanaryService \/ EnsureHTTPRoute
             \/ RollbackImage \/ PromoteImage
    <2>0. PICK from \in {"healDep", "healSvc", "healRoute", "weightDep", "weightSvc", "weightRoute",
                         "rbDep", "prDep"},
               next \in {"healSvc", "weightSvc", "weightRoute", "weightStatus", "rbCanary", "prCanary",
                         "idle", HealRoute(ad), StepKind(ad)} :
            \E o : Call(from, next, o)
      <3>1. CASE PromoteImage
        BY <3>1, MoveIsCall DEF PromoteImage
      <3>2. CASE EnsureCanaryDeployment \/ EnsureCanaryService \/ EnsureHTTPRoute \/ RollbackImage
        BY <3>2, Zenon
           DEF EnsureCanaryDeployment, EnsureCanaryService, EnsureHTTPRoute, RollbackImage
      <3>3. QED
        BY <1>2, <3>1, <3>2
    <2>1. PICK o : Call(from, next, o)
      BY <2>0
    <2>2. from \in RolloutPoints /\ ad \in ADs
      BY <1>a, <2>1 DEF Call, Move, RolloutPoints, HealPoints, WeightPoints, RollbackPoints, PromotePoints
    <2>3. next \in {"healSvc", "weightSvc", "weightRoute", "weightStatus", "rbCanary", "prCanary",
                    "idle", "healRoute", "prDep", "weightDep", "pause", "rbDep"}
      BY <2>1, <2>2, HealRoutePoint, StepKindPoint
    <2>4. next \notin NoDeploymentPoints
      BY <2>3 DEF NoDeploymentPoints, RollbackPoints, PromotePoints
    <2>5. QED
      BY <2>1, <2>2, <2>4, <1>c, CallTeardown
  <1>3. CASE deleteCanaryDeployment
    <2>1. PICK from \in {"rbCanary", "prCanary"}, next \in {"rbSvc", "prSvc"} :
            Call(from, next, [owned EXCEPT !.cdep = NoImage])
      BY <1>3 DEF deleteCanaryDeployment
    <2>2. [owned EXCEPT !.cdep = NoImage].cdep = NoImage /\ next \notin NoServicePoints
      BY <1>b, <2>1 DEF Owned, NoServicePoints
    <2>3. from \in RolloutPoints
      BY <1>d, <2>1 DEF RollbackPoints, PromotePoints
    <2>4. QED
      BY <2>1, <2>2, <2>3, <1>c, CallTeardown
  <1>4. CASE deleteCanaryService
    <2>1. PICK from \in {"rbSvc", "prSvc"}, next \in {"rbRoute", "prRoute"} :
            Call(from, next, [owned EXCEPT !.csvc = FALSE])
      BY <1>4 DEF deleteCanaryService
    <2>2. pc = from /\ from \in NoDeploymentPoints
      BY <2>1 DEF Call, Move, NoDeploymentPoints, RollbackPoints, PromotePoints
    <2>3. /\ [owned EXCEPT !.csvc = FALSE].cdep = NoImage /\ ~[owned EXCEPT !.csvc = FALSE].csvc
          /\ next \notin NoRoutePoints
      BY <1>b, <2>1, <2>2 DEF Owned, NoRoutePoints, TeardownInv
    <2>4. QED
      BY <2>1, <2>2, <2>3, <1>d, CallTeardown
  <1>5. CASE deleteHTTPRoute
    <2>1. PICK from \in {"rbRoute", "prRoute"}, next \in {"rbHPA", "prHPA"} :
            Call(from, next, [owned EXCEPT !.route = Nil])
      BY <1>5 DEF deleteHTTPRoute
    <2>2. pc = from /\ from \in NoServicePoints
      BY <2>1 DEF Call, Move, NoServicePoints, NoDeploymentPoints, RollbackPoints, PromotePoints
    <2>3. /\ [owned EXCEPT !.route = Nil].cdep = NoImage /\ ~[owned EXCEPT !.route = Nil].csvc
          /\ [owned EXCEPT !.route = Nil].route = Nil
      BY <1>b, <1>c, <2>2 DEF Owned, TeardownInv
    <2>4. QED
      BY <2>1, <2>2, <2>3, <1>c, <1>d, CallTeardown
  <1>6. CASE restoreHPA
    <2>1. PICK from \in {"rbHPA", "prHPA"}, next \in {"rbStatus", "prStatus"} :
            Call(from, next, [owned EXCEPT !.hpa = "min"])
      BY <1>6 DEF restoreHPA
    <2>2. pc = from /\ from \in NoRoutePoints
      BY <2>1 DEF Call, Move, NoRoutePoints, NoServicePoints, NoDeploymentPoints, RollbackPoints, PromotePoints
    <2>3. /\ [owned EXCEPT !.hpa = "min"].cdep = NoImage /\ ~[owned EXCEPT !.hpa = "min"].csvc
          /\ [owned EXCEPT !.hpa = "min"].route = Nil
      BY <1>b, <1>c, <2>2 DEF Owned, TeardownInv
    <2>4. QED
      BY <2>1, <2>2, <2>3, <1>c, <1>d, CallTeardown
  <1>7. QED
    BY <1>1, <1>2, <1>3, <1>4, <1>5, <1>6

\* A step that touches no owned object and no status.
LEMMA KeepTeardown ==
  ASSUME TeardownInv, obj'.status = obj.status, owned' = owned,
         pc' \notin NoDeploymentPoints \/ pc' = pc
  PROVE  TeardownInv'
  BY DEF TeardownInv, NoOrphans, ProgressOnlyInRollout, InProgress,
         NoRoutePoints, NoServicePoints

\* A step after which the rollout goes on and no teardown is under way.
LEMMA GoOnTeardown ==
  ASSUME InProgress(obj'), pc' \notin NoDeploymentPoints
  PROVE  TeardownInv'
  BY DEF TeardownInv, NoOrphans, ProgressOnlyInRollout, InProgress,
         NoRoutePoints, NoServicePoints

LEMMA WritesTeardown ==
  ASSUME ~CacheLag, Inv, AgreeInv, TeardownInv,
         \/ StartStatus \/ SetWeightStatus \/ PauseBegin \/ PauseWait \/ PauseAdvance
         \/ PauseInterrupted \/ RollbackStatus \/ PromoteStatus \/ updateStatus
  PROVE  TeardownInv'
  <1>a. cache \in ADs /\ (pc # "idle" => ad \in ADs)
    BY DEF Inv, TypeOK
  <1>b. pc' = "idle" /\ owned' = owned /\ pc' \notin NoDeploymentPoints
    BY DEF StartStatus, SetWeightStatus, PauseBegin, PauseWait, PauseAdvance, PauseInterrupted,
           RollbackStatus, PromoteStatus, updateStatus, Goto, NoDeploymentPoints, RollbackPoints,
           PromotePoints
  <1>c. pc \in WeightPoints \cup {"pause"} => cache.status.phase = "RolloutInProgress"
    BY DEF AgreeInv, InProgress, RolloutPoints, WeightPoints
  <1>d. cache.status = obj.status
    BY DEF AgreeInv
  <1>1. CASE StartStatus
    <2>1. obj'.status.phase = "RolloutInProgress"
      BY <1>1, <1>a, UpdateAgree DEF StartStatus, ADs, Statuses
    <2>2. QED
      BY <1>b, <2>1, GoOnTeardown DEF InProgress
  <1>2. CASE SetWeightStatus
    <2>1. obj'.status.phase = "RolloutInProgress"
      BY <1>2, <1>a, <1>c, UpdateAgree DEF SetWeightStatus, WeightPoints, ADs, Statuses
    <2>2. QED
      BY <1>b, <2>1, GoOnTeardown DEF InProgress
  <1>3. CASE PauseBegin
    <2>1. obj'.status.phase = "RolloutInProgress"
      BY <1>3, <1>a, <1>c, UpdateAgree DEF PauseBegin, ADs, Statuses
    <2>2. QED
      BY <1>b, <2>1, GoOnTeardown DEF InProgress
  <1>4. CASE PauseWait \/ PauseInterrupted
    <2>1. pc = "pause" /\ (NoWrite \/ UpdateStatus(Reachable))
      BY <1>4 DEF PauseWait, PauseInterrupted, ClearUnreachable
    <2>2. Reachable.phase = "RolloutInProgress"
      BY <1>a, <1>c, <2>1 DEF Reachable, ADs, Statuses
    <2>3. obj'.status.phase = "RolloutInProgress"
      BY <1>c, <1>d, <2>1, <2>2, UpdateAgree DEF NoWrite
    <2>4. QED
      BY <1>b, <2>3, GoOnTeardown DEF InProgress
  <1>5. CASE PauseAdvance
    <2>1. [Reachable EXCEPT !.idx = ad.status.idx + 1, !.pause = Nil].phase = "RolloutInProgress"
      BY <1>5, <1>a, <1>c DEF PauseAdvance, Reachable, ADs, Statuses
    <2>2. obj'.status.phase = "RolloutInProgress"
      BY <1>5, <2>1, UpdateAgree DEF PauseAdvance
    <2>3. QED
      BY <1>b, <2>2, GoOnTeardown DEF InProgress
  <1>6. CASE RollbackStatus \/ PromoteStatus
    <2>1. pc \in NoRoutePoints /\ pc \in NoServicePoints /\ pc \in NoDeploymentPoints
      BY <1>6 DEF RollbackStatus, PromoteStatus, NoRoutePoints, NoServicePoints, NoDeploymentPoints,
                  RollbackPoints, PromotePoints
    <2>2. owned'.cdep = NoImage /\ ~owned'.csvc /\ owned'.route = Nil
      BY <1>b, <2>1 DEF TeardownInv
    <2>3. PICK s : UpdateStatus(s) /\ s.idx = 0 /\ s.weight = 0 /\ s.pause = Nil /\ s.prom = Nil
      <3>1. CASE RollbackStatus
        <4> DEFINE canary == IF cache.status.canary = NoImage THEN ad.spec.image ELSE cache.status.canary
                   s == [Cleared EXCEPT !.phase = "RolloutFailed", !.canary = canary]
        <4>1. UpdateStatus(s)
          BY <3>1 DEF RollbackStatus
        <4>2. s.idx = 0 /\ s.weight = 0 /\ s.pause = Nil /\ s.prom = Nil
          BY <1>a DEF Cleared, ADs, Statuses
        <4> HIDE DEF s
        <4>3. QED
          BY <4>1, <4>2
      <3>2. CASE PromoteStatus
        <4> DEFINE s == [Cleared EXCEPT !.phase = "Running", !.stable = ad.status.canary,
                                        !.canary = NoImage]
        <4>1. UpdateStatus(s)
          BY <3>2 DEF PromoteStatus
        <4>2. s.idx = 0 /\ s.weight = 0 /\ s.pause = Nil /\ s.prom = Nil
          BY <1>a DEF Cleared, ADs, Statuses
        <4> HIDE DEF s
        <4>3. QED
          BY <4>1, <4>2
      <3>3. QED
        BY <1>6, <3>1, <3>2
    <2>4. obj'.status = s
      BY <2>3, UpdateAgree
    <2>5. QED
      BY <1>b, <2>2, <2>3, <2>4
         DEF TeardownInv, NoOrphans, ProgressOnlyInRollout, NoRoutePoints, NoServicePoints
  <1>7. CASE updateStatus
    <2>1. ~InProgress(obj)
      BY <1>7 DEF updateStatus, AgreeInv, ChildPoints, InProgress
    <2>2. obj'.status = obj.status \/ \E d \in Copies, p \in BOOLEAN : obj'.status = DerivedStatus(cache, d, p)
      BY <1>7, UpdateAgree DEF updateStatus, NoWrite
    <2>3. ASSUME NEW d \in Copies, NEW p \in BOOLEAN
          PROVE  /\ DerivedStatus(cache, d, p).idx = cache.status.idx
                 /\ DerivedStatus(cache, d, p).weight = cache.status.weight
                 /\ DerivedStatus(cache, d, p).pause = cache.status.pause
                 /\ DerivedStatus(cache, d, p).prom = cache.status.prom
      BY <1>a DEF DerivedStatus, ADs, Statuses
    <2>4. /\ obj'.status.idx = obj.status.idx /\ obj'.status.weight = obj.status.weight
          /\ obj'.status.pause = obj.status.pause /\ obj'.status.prom = obj.status.prom
      BY <1>d, <2>2, <2>3
    <2>5. QED
      BY <1>b, <2>1, <2>4
         DEF TeardownInv, NoOrphans, ProgressOnlyInRollout, NoRoutePoints, NoServicePoints
  <1>8. QED
    BY <1>1, <1>2, <1>3, <1>4, <1>5, <1>6, <1>7

LEMMA NextTeardown ==
  ASSUME ~CacheLag, Inv, AgreeInv, TeardownInv, Next
  PROVE  TeardownInv'
  <1>a. /\ cache \in ADs /\ obj \in ADs /\ owned \in Owned
        /\ "rbDep" \notin NoDeploymentPoints /\ "idle" \notin NoDeploymentPoints
    BY DEF Inv, TypeOK, NoDeploymentPoints, RollbackPoints, PromotePoints
  <1>1. CASE Reconcile
    <2>1. pc' = Dispatch(cache) /\ owned' = owned /\ obj' = obj
      BY <1>1 DEF Reconcile, NoWrite
    <2>2. pc' \notin NoDeploymentPoints
      BY <1>a, <2>1, DispatchPoint, StepKindPoint
         DEF NoDeploymentPoints, RollbackPoints, PromotePoints
    <2>3. QED
      BY <2>1, <2>2, KeepTeardown
  <1>2. CASE PauseUnreachable \/ PauseBreach
    <2>1. /\ pc = "pause" /\ pc' \notin NoDeploymentPoints
          /\ \/ NoWrite
             \/ UpdateStatus(Reachable) \/ UpdateStatus([cache.status EXCEPT !.prom = 0])
      BY <1>2, <1>a DEF PauseUnreachable, PauseBreach, ClearUnreachable, Goto
    <2>2. cache.status.phase = "RolloutInProgress" /\ cache.status = obj.status
      BY <2>1 DEF AgreeInv, InProgress, RolloutPoints
    <2>3. Reachable.phase = cache.status.phase /\ [cache.status EXCEPT !.prom = 0].phase = cache.status.phase
      BY <1>a DEF Reachable, ADs, Statuses
    <2>4. obj'.status.phase = "RolloutInProgress"
      BY <2>1, <2>2, <2>3, UpdateAgree DEF NoWrite
    <2>5. QED
      BY <2>1, <2>4, GoOnTeardown DEF InProgress
  <1>3. CASE Conflict \/ Fault
    BY <1>3, <1>a, KeepTeardown DEF Conflict, Fault, Goto, NoWrite
  <1>4. CASE EditSpec \/ Sync
    <2>1. obj'.status = obj.status /\ owned' = owned /\ pc' = pc
      BY <1>4, <1>a DEF EditSpec, Sync, ADs
    <2>2. QED
      BY <2>1, KeepTeardown
  <1>5. CASE DeleteOutOfBand \/ DeploymentProgress
    <2>1. obj' = obj /\ pc' = pc
      BY <1>5 DEF DeleteOutOfBand, DeploymentProgress, NoWrite
    <2>2. /\ owned'.cdep \in {owned.cdep, NoImage} /\ (owned'.csvc => owned.csvc)
          /\ owned'.route \in {owned.route, Nil}
      <3>1. CASE DeploymentProgress
        BY <3>1, <1>a DEF DeploymentProgress, Owned
      <3>2. CASE DeleteOutOfBand
        <4>1. PICK k \in Drift : owned' = Without(k)
          BY <3>2 DEF DeleteOutOfBand
        <4>2. k \in {"dep", "cdep", "csvc", "route", "hpa"}
          BY BoundsAssumption
        <4>3. QED
          BY <1>a, <4>1, <4>2 DEF Without, Owned
      <3>3. QED
        BY <1>5, <3>1, <3>2
    <2>3. QED
      BY <2>1, <2>2 DEF TeardownInv, NoOrphans, ProgressOnlyInRollout, InProgress
  <1>6. CASE Tick
    <2>1. /\ obj'.status.phase = obj.status.phase /\ obj'.status.idx = obj.status.idx
          /\ obj'.status.weight = obj.status.weight
          /\ obj'.status.pause = Older(obj.status.pause) /\ obj'.status.prom = Older(obj.status.prom)
      BY <1>6, <1>a, NoADAssumption DEF Tick, Aged, AgedStatus, ADs, Statuses
    <2>2. Older(Nil) = Nil /\ owned' = owned /\ pc' = pc
      BY <1>6 DEF Tick, Older
    <2>3. QED
      BY <2>1, <2>2 DEF TeardownInv, NoOrphans, ProgressOnlyInRollout, InProgress
  <1>7. QED
    BY <1>1, <1>2, <1>3, <1>4, <1>5, <1>6, CallsTeardown, WritesTeardown
       DEF Next, Worker, Environment, Step, Teardown

LEMMA InitTeardown == Init => AgreeInv /\ TeardownInv
  <1> SUFFICES ASSUME Init PROVE AgreeInv /\ TeardownInv
    OBVIOUS
  <1>1. /\ pc = "idle" /\ cache.status = obj.status /\ obj.status = ZeroStatus
        /\ owned.cdep = NoImage /\ ~owned.csvc /\ owned.route = Nil
    BY DEF Init
  <1>2. ZeroStatus.idx = 0 /\ ZeroStatus.weight = 0 /\ ZeroStatus.pause = Nil /\ ZeroStatus.prom = Nil
    BY DEF ZeroStatus
  <1>3. AgreeInv
    BY <1>1 DEF AgreeInv, RolloutPoints, HealPoints, WeightPoints, RollbackPoints, PromotePoints,
                StartPoints, ChildPoints
  <1>4. TeardownInv
    BY <1>1, <1>2 DEF TeardownInv, NoOrphans, ProgressOnlyInRollout, NoRoutePoints, NoServicePoints,
                NoDeploymentPoints, RollbackPoints, PromotePoints
  <1>5. QED
    BY <1>3, <1>4

LEMMA SpecTeardown ==
  ASSUME ~CacheLag
  PROVE  Spec => [](Inv /\ AgreeInv /\ TeardownInv)
  <1>1. Inv /\ AgreeInv /\ TeardownInv /\ [Next]_vars => AgreeInv' /\ TeardownInv'
    <2>1. ASSUME AgreeInv, TeardownInv, UNCHANGED vars PROVE AgreeInv' /\ TeardownInv'
      <3>1. /\ obj' = obj /\ cache' = cache /\ pc' = pc /\ ad' = ad /\ owned' = owned
        BY <2>1 DEF vars
      <3>2. QED
        BY <2>1, <3>1, KeepTeardown DEF AgreeInv, InProgress
    <2>2. QED
      BY <2>1, NextAgree, NextTeardown
  <1>2. QED
    BY <1>1, InitInv, NextInv, InitTeardown, PTL DEF Spec

\* When the reconciler reads its own writes, no failed call, crash, edit or retry
\* leaves an object of the canary behind once the rollout is over.
THEOREM CanaryCleanedUp ==
  ASSUME ~CacheLag
  PROVE  Spec => []NoOrphans
  <1>1. TeardownInv => NoOrphans
    BY DEF TeardownInv
  <1>2. QED
    BY <1>1, SpecTeardown, PTL

\* Under the same condition every rollout starts from a clean slate: step index,
\* weight and both clocks are zero whenever no rollout is in progress.
THEOREM ProgressCleared ==
  ASSUME ~CacheLag
  PROVE  Spec => []ProgressOnlyInRollout
  <1>1. TeardownInv => ProgressOnlyInRollout
    BY DEF TeardownInv
  <1>2. QED
    BY <1>1, SpecTeardown, PTL

\* Under the same condition the stable Deployment's image moves, during a rollout,
\* only back to the stable image or, past the last step, to the canary's.
THEOREM StableImageFrozen ==
  ASSUME ~CacheLag
  PROVE  Spec => StableFrozen
  <1> DEFINE Frozen ==
        InProgress(obj) /\ owned'.dep # owned.dep /\ owned'.dep # NoImage =>
          \/ owned'.dep = obj.status.stable
          \/ /\ owned'.dep = obj.status.canary
             /\ obj.status.idx >= Len(ad.spec.rollout.steps)
  <1>1. Inv /\ AgreeInv /\ [Next]_vars => [Frozen]_vars
    <2> SUFFICES ASSUME Inv, AgreeInv, Next, InProgress(obj),
                        owned'.dep # owned.dep, owned'.dep # NoImage
                 PROVE  Frozen
      OBVIOUS
    <2>a. owned \in Owned
      BY DEF Inv, TypeOK
    <2>b. ASSUME NEW im PROVE SetStableImage(im).dep = im
      BY <2>a DEF SetStableImage, Owned
    <2>1. CASE RollbackImage
      <3>1. pc = "rbDep" /\ owned'.dep = ad.status.stable
        BY <2>1, <2>b DEF RollbackImage, Call, Move
      <3>2. ad.status = obj.status
        BY <3>1 DEF AgreeInv
      <3>3. QED
        BY <3>1, <3>2
    <2>2. CASE PromoteImage
      <3>1. pc = "prDep" /\ owned'.dep = ad.status.canary
        BY <2>2, <2>b DEF PromoteImage, Call, Move
      <3>2. ad.status = obj.status /\ ad.status.idx >= Len(ad.spec.rollout.steps)
        BY <3>1 DEF AgreeInv, PromotePoints
      <3>3. QED
        BY <3>1, <3>2
    <2>3. CASE reconcileDeployment
      <3>1. pc = "dep"
        BY <2>3 DEF reconcileDeployment, Call, Move
      <3>2. ~InProgress(obj)
        BY <3>1 DEF AgreeInv, ChildPoints, InProgress
      <3>3. QED
        BY <3>2
    <2>4. CASE DeleteOutOfBand
      <3>1. PICK k \in Drift : owned' = Without(k)
        BY <2>4 DEF DeleteOutOfBand
      <3>2. k \in {"dep", "cdep", "csvc", "route", "hpa"}
        BY BoundsAssumption
      <3>3. owned'.dep \in {owned.dep, NoImage}
        BY <2>a, <3>1, <3>2 DEF Without, Owned
      <3>4. QED
        BY <3>3
    <2>5. CASE \/ PauseHPA \/ EnsureCanaryDeployment \/ EnsureCanaryService \/ EnsureHTTPRoute
               \/ deleteCanaryDeployment \/ deleteCanaryService \/ deleteHTTPRoute \/ restoreHPA
               \/ reconcileHPA \/ DeploymentProgress
      <3>1. owned'.dep = owned.dep
        BY <2>5, <2>a
           DEF PauseHPA, EnsureCanaryDeployment, EnsureCanaryService, EnsureHTTPRoute,
               deleteCanaryDeployment, deleteCanaryService, deleteHTTPRoute, restoreHPA,
               reconcileHPA, DeploymentProgress, Call, Move, Owned
      <3>2. QED
        BY <3>1
    <2>6. CASE owned' = owned
      BY <2>6
    <2>7. QED
      BY <2>1, <2>2, <2>3, <2>4, <2>5, <2>6
         DEF Next, Worker, Environment, Step, Teardown, Reconcile, StartStatus, SetWeightStatus,
             PauseBegin, PauseUnreachable, PauseBreach, PauseWait, PauseAdvance, RollbackStatus,
             PromoteStatus, updateStatus, Conflict, PauseInterrupted, Fault, EditSpec, Sync, Tick
  <1>2. QED
    BY <1>1, SpecTeardown, PTL DEF Spec, StableFrozen

=============================================================================
