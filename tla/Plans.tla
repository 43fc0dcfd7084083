-------------------------------- MODULE Plans --------------------------------
(***************************************************************************)
(* The plan table of @ghalla/billing and the questions asked of it.  Plans  *)
(* are code, so the table is written out here as it is there.               *)
(***************************************************************************)
EXTENDS Integers

CONSTANTS Null,     \* null; also "unlimited" as an order cap
          CapUnit   \* the smallest cap, 300 orders a month; the others are multiples of it

ASSUME CapUnitAssumption == CapUnit \in Nat \ {0}

FEATURES == {"core", "attribution", "ltv", "reports"}

PLANS ==
    LET Plan(interval, cap, features, price, annual, purchasable) ==
            [interval |-> interval, orderCap |-> cap, features |-> features,
             priceMinor |-> price, annualPriceMinor |-> annual,
             purchasable |-> purchasable]
    IN  [starter        |-> Plan("month", CapUnit,      {"core"}, 12900,  129000, TRUE),
         growth         |-> Plan("month", 5 * CapUnit,  {"core"}, 24900,  249000, TRUE),
         scale          |-> Plan("month", Null,         {"core"}, 44900,  449000, TRUE),
         ads            |-> Plan("month", Null,         FEATURES, 64900,  649000, FALSE),
         starter_annual |-> Plan("year",  12 * CapUnit, {"core"}, 129000, 129000, TRUE),
         growth_annual  |-> Plan("year",  60 * CapUnit, {"core"}, 249000, 249000, TRUE),
         scale_annual   |-> Plan("year",  Null,         {"core"}, 449000, 449000, TRUE),
         ads_annual     |-> Plan("year",  Null,         FEATURES, 649000, 649000, FALSE)]

PlanCodes == DOMAIN PLANS
isPlanCode(code) == code \in PlanCodes

TRIAL_PLAN == "growth"

monthlyCapOf(plan) ==
    IF plan.orderCap = Null \/ plan.interval = "month"
    THEN plan.orderCap ELSE plan.orderCap \div 12

\* Moving from one plan to the other takes something away.
isDowngrade(from, to) ==
    \/ \E feature \in from.features : feature \notin to.features
    \/ /\ monthlyCapOf(to) # Null
       /\ monthlyCapOf(from) # Null => monthlyCapOf(to) < monthlyCapOf(from)

=============================================================================
