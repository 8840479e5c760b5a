------------------------------ MODULE MCCanary ------------------------------
(* Instances of CanaryRollout for TLC.                                     *)
EXTENDS CanaryRollout, TLC

SetWeight(w) == [setWeight |-> w, pause |-> Nil]
Pause(d) == [setWeight |-> Nil, pause |-> d]

\* The shape of the README's example: some traffic, a pause, all traffic.
OnePlan == {[strategy |-> "Canary", steps |-> <<SetWeight(50), Pause(1), SetWeight(100)>>]}

\* A user may switch, also during a rollout, to a Recreate whose steps no rule
\* constrains.
TwoPlans == OnePlan \cup
  {[strategy |-> "Recreate", steps |-> <<[setWeight |-> Nil, pause |-> Nil]>>]}

\* No action tells one image from another.
ImageSymmetry == Permutations(Images)

=============================================================================
