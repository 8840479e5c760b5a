--------------------------- MODULE RolloutLifecycle ---------------------------
(***************************************************************************)
(* What the operator promises the owner of an AgentDeployment about its    *)
(* image, without caches, calls, retries or metrics: which image the       *)
(* stable Deployment runs, whether a canary takes traffic, and what the    *)
(* status says of both.  A rollout ends only once the traffic is whole and *)
(* the stable Deployment runs (or, deleted by someone else, will be        *)
(* recreated with) the image the status then names.                        *)
(***************************************************************************)
EXTENDS Naturals

CONSTANTS Images, NoImage

VARIABLES
  phase,   \* status.phase
  stable,  \* status.stableVersion
  canary,  \* status.canaryVersion
  step,    \* status.currentStepIndex
  live,    \* the image of the stable Deployment, NoImage if there is none
  split    \* is there an HTTPRoute that splits the traffic?

vars == <<phase, stable, canary, step, live, split>>
status == <<phase, stable, canary, step>>

InRollout == phase = "RolloutInProgress"

Init ==
  /\ phase = "" /\ stable = NoImage /\ canary = NoImage /\ step = 0
  /\ live = NoImage /\ split = FALSE

-----------------------------------------------------------------------------
(* Outside a rollout the Deployment follows the spec, the status follows   *)
(* the Deployment.                                                         *)

Deploy ==
  /\ ~InRollout
  /\ live' \in Images
  /\ UNCHANGED <<status, split>>

\* A failed rollout may stay RolloutFailed, and keep naming its canary.
Settle ==
  /\ ~InRollout /\ live # NoImage
  /\ \/ /\ phase' \in {"Pending", "Degraded"}
        /\ UNCHANGED <<stable, canary>>
     \/ /\ phase' = "Running"
        /\ stable' = live /\ canary' = NoImage
     \/ /\ phase = "RolloutFailed"
        /\ stable' = live
        /\ UNCHANGED <<phase, canary>>
  /\ UNCHANGED <<step, live, split>>

-----------------------------------------------------------------------------
(* A rollout.                                                              *)

Begin ==
  /\ ~InRollout /\ stable # NoImage
  /\ phase' = "RolloutInProgress"
  /\ canary' \in Images \ {stable}
  /\ step' = 0
  /\ UNCHANGED <<stable, live, split>>

Advance ==
  /\ InRollout
  /\ step' = step + 1
  /\ UNCHANGED <<phase, stable, canary, live, split>>

Split ==
  /\ InRollout
  /\ split' = TRUE
  /\ UNCHANGED <<status, live>>

\* The stable Deployment goes back to the stable image or on to the canary's.
Switch ==
  /\ InRollout /\ live # NoImage
  /\ live' \in {stable, canary}
  /\ UNCHANGED <<status, split>>

Succeed ==
  /\ InRollout /\ ~split /\ live \in {canary, NoImage}
  /\ phase' = "Running"
  /\ stable' = canary /\ canary' = NoImage /\ step' = 0
  /\ UNCHANGED <<live, split>>

Fail ==
  /\ InRollout /\ ~split /\ live \in {stable, NoImage}
  /\ phase' = "RolloutFailed" /\ step' = 0
  /\ UNCHANGED <<stable, canary, live, split>>

-----------------------------------------------------------------------------
\* The traffic is made whole again; or an object is deleted by someone else.
Merge ==
  /\ split' = FALSE
  /\ UNCHANGED <<status, live>>

Lose ==
  /\ live' = NoImage
  /\ UNCHANGED <<status, split>>

Next ==
  \/ Deploy \/ Settle \/ Begin \/ Advance \/ Split \/ Switch
  \/ Succeed \/ Fail \/ Merge \/ Lose

Spec == Init /\ [][Next]_vars

=============================================================================
