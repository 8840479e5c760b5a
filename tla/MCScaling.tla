------------------------------ MODULE MCScaling ------------------------------
(***************************************************************************)
(* Instances of QuotaScaling for TLC.                                      *)
(***************************************************************************)
EXTENDS QuotaScaling, TLC

\* A small and a large agent.
TwoSpecs == {[min |-> 1, max |-> 2], [min |-> 2, max |-> 4]}

\* A quota for both, and one that is exhausted by a large agent.
TwoQuotas == {[total |-> 7, perAgent |-> 3], [total |-> 3, perAgent |-> 6]}

\* A large agent only.
OneSpec == {[min |-> 2, max |-> 4]}

ASSUME SumsFit

Symmetry == Permutations(Agents)

=============================================================================
