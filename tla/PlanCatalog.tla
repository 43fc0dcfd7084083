----------------------------- MODULE PlanCatalog -----------------------------
(***************************************************************************)
(* The local plan table against the one at the platform                     *)
(* (packages/billing plan-catalog.ts).  A listing is a plan as the platform *)
(* has it configured: its id there, the code the adapter maps it to, or     *)
(* Null, its price and its interval.                                        *)
(***************************************************************************)
EXTENDS Plans, FiniteSets

PURCHASABLE_PLAN_CODES == {code \in PlanCodes : PLANS[code].purchasable}

\* Faulty variant: the table is compared listing by listing only.
comparePlanCatalogListed(remote) ==
    {<<"price_differs", l.planCode>> :
         l \in {x \in remote : isPlanCode(x.planCode) /\ x.priceMinor # PLANS[x.planCode].priceMinor}}

\* Every way in which the two disagree; none is the verdict "ok".
comparePlanCatalog(remote) ==
    LET mapped == {l \in remote : isPlanCode(l.planCode)}
        Plan(l) == PLANS[l.planCode]
    IN  {<<"unmapped_remote_plan", l.platformPlanId>> : l \in {x \in remote : x.planCode = Null}}
        \union {<<"unknown_plan_code", l.platformPlanId>> : l \in {x \in remote \ mapped : x.planCode # Null}}
        \union {<<"duplicate_mapping", l.planCode>> :
                    l \in {x \in mapped : \E y \in mapped \ {x} : y.planCode = x.planCode}}
        \union {<<"unpurchasable_plan_listed", l.planCode>> : l \in {x \in mapped : ~Plan(x).purchasable}}
        \union {<<"price_differs", l.planCode>> : l \in {x \in mapped : x.priceMinor # Plan(x).priceMinor}}
        \union {<<"interval_differs", l.planCode>> : l \in {x \in mapped : x.interval # Plan(x).interval}}
        \union {<<"missing_remotely", code>> : code \in PURCHASABLE_PLAN_CODES \ {l.planCode : l \in mapped}}

\* What the comparison is for: each plan is sold once, as what it grants, and nothing else is sold.
SoldAsGranted(remote) ==
    /\ \A code \in PURCHASABLE_PLAN_CODES : Cardinality({l \in remote : l.planCode = code}) = 1
    /\ \A l \in remote : /\ l.planCode \in PURCHASABLE_PLAN_CODES
                         /\ l.priceMinor = PLANS[l.planCode].priceMinor
                         /\ l.interval = PLANS[l.planCode].interval
=============================================================================
