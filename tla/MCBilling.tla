------------------------------ MODULE MCBilling ------------------------------
(* Instances of Billing for TLC: t2 signed up through t1's link. *)
EXTENDS Billing, TLC

CONSTANTS t1, t2

MCReferrer == (t1 :> NoTenant) @@ (t2 :> t1)
MCAlone == t1 :> NoTenant
MCTrialEndsAt == [t \in Tenants |-> IF t = t1 THEN 1 ELSE 0]
MCNoTrial == [t \in Tenants |-> 0]
MCTargetLimit == [p \in PlanNames |-> IF p = "free" THEN 0 ELSE 1]
MCNoTargets == [p \in PlanNames |-> 0]

\* Requests are interchangeable.
MCSymmetry == Permutations(Handlers)
=============================================================================
