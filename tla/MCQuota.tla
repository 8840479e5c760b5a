------------------------------- MODULE MCQuota -------------------------------
(* Small instances of QuotaAdmission.                                       *)
EXTENDS QuotaAdmission, TLC

CONSTANTS a1, a2, t1, t2, u1, u2

Symmetry == Permutations(Agents) \cup Permutations(Users)

Spec1(t, g, m) == [tenant |-> t, gpus |-> g, max |-> m]

\* One tenant: a small object, and a larger one with GPUs.
OneTenant == {Spec1(t1, 0, 1), Spec1(t1, 1, 2)}

\* Two tenants, to move between.
TwoTenants == {Spec1(t1, 0, 1), Spec1(t2, 0, 2)}

Quota(a, g, r, p) == [agents |-> a, gpus |-> g, replicas |-> r, perAgent |-> p]

\* Room for two agents but not for two large ones; and the same lowered by an edit.
Loose == {Quota(2, 2, 3, 2)}
Lowered == {Quota(2, 2, 3, 2), Quota(1, 0, 1, 1)}

\* The sums of the enforcer are exact here.
ASSUME ExactSums == \E Cap \in 0..IntMax : NoOverflow(Cap)

==============================================================================
