-------------------------------- MODULE Access --------------------------------
(***************************************************************************)
(* What a subscription row buys at an instant: the access decision, the     *)
(* entitlements and the metering window of @ghalla/billing, the list prices *)
(* the operator's revenue figures are made of, and the guard's answer.      *)
(***************************************************************************)
EXTENDS Subscription, FiniteSets

CONSTANT TrialLength   \* the provisional trial, 14 days

isTrialExpired(subscription, now) ==
    /\ subscription.status = "trialing"
    /\ subscription.trialEndsAt # Null /\ now > subscription.trialEndsAt

isPaying(status) == status \in {"active", "past_due", "trialing"}

isBilled(status) == status \in {"active", "past_due"}

decideAccess(subscription, now, overOrderCap) ==
    LET Decision(dashboard, pipeline, notice) ==
            [dashboard |-> dashboard, ingestion |-> pipeline,
             profitComputation |-> pipeline, export |-> "available", notice |-> notice]
    IN  IF subscription.status = "canceled"
        THEN Decision("locked", "stopped", "subscription_canceled")
        ELSE IF subscription.status = "expired" \/ isTrialExpired(subscription, now)
        THEN Decision("read_only", "running", "trial_expired")
        ELSE Decision("full", "running",
                      IF overOrderCap THEN "over_order_cap"
                      ELSE IF subscription.status = "past_due" THEN "payment_past_due"
                      ELSE "none")

FALLBACK_PLAN == PLANS.starter

resolveEntitlements(subscription, now, overOrderCap) ==
    LET code == effectivePlanCode(subscription, now)
        effective == IF isPlanCode(code) THEN PLANS[code] ELSE FALLBACK_PLAN
    IN  [planCode |-> code, features |-> effective.features,
         orderCap |-> effective.orderCap,
         access |-> decideAccess(subscription, now, overOrderCap),
         planUnknown |-> ~isPlanCode(code)]

hasFeature(entitlements, feature) == feature \in entitlements.features

\* The plans on sale by the month, cheapest first as the table lists them.
cheapestPlanWith(feature) ==
    LET OnSale == {c \in PlanCodes : /\ PLANS[c].purchasable /\ PLANS[c].interval = "month"
                                     /\ feature \in PLANS[c].features}
    IN  IF OnSale = {} THEN Null
        ELSE CHOOSE c \in OnSale : \A d \in OnSale : PLANS[c].priceMinor <= PLANS[d].priceMinor

\* The answer to a request; Null asks for no feature.  A route that is no
\* store's (entitlements Null) has nothing to entitle.
canActivate(entitlements, required) ==
    IF entitlements = Null
    THEN [allowed |-> TRUE, because |-> Null, upgradeTo |-> Null]
    ELSE IF entitlements.access.dashboard = "locked"
    THEN [allowed |-> FALSE, because |-> entitlements.access.notice, upgradeTo |-> Null]
    ELSE IF required # Null /\ ~hasFeature(entitlements, required)
    THEN [allowed |-> FALSE, because |-> required, upgradeTo |-> cheapestPlanWith(required)]
    ELSE [allowed |-> TRUE, because |-> Null, upgradeTo |-> Null]

\* A store whose first billing webhook has not arrived is on trial from now.
provisionalTrial(now) ==
    [planCode |-> TRIAL_PLAN, platformPlanId |-> Null, status |-> "trialing",
     trialEndsAt |-> now + TrialLength, currentPeriodStart |-> now,
     currentPeriodEnd |-> now + TrialLength, lastEventAt |-> Null,
     lastReconciledAt |-> Null, pendingPlanCode |-> Null,
     pendingPlanEffectiveAt |-> Null]

-----------------------------------------------------------------------------
(* Metering: half-open, over the subscription's own period.                  *)

usageWindow(period) == [from |-> period.currentPeriodStart, to |-> period.currentPeriodEnd]

Within(instant, window) == window.from <= instant /\ instant < window.to

usageStatus(count, cap) ==
    IF cap = Null
    THEN [count |-> count, cap |-> Null, overCap |-> FALSE, remaining |-> Null,
          percentUsed |-> Null]
    ELSE [count |-> count, cap |-> cap, overCap |-> count > cap,
          remaining |-> IF cap > count THEN cap - count ELSE 0,
          percentUsed |-> IF cap = 0 THEN Null ELSE (count * 100) \div cap]

\* Faulty variant: one entry per store, whatever the period.
usageCacheKeyOfStore(store, window) == <<store, 0>>

usageCacheKey(store, window) == <<store, window.from>>

-----------------------------------------------------------------------------
(* List prices, in halalas.                                                  *)

annualisedPrice(code) ==
    IF PLANS[code].interval = "year" THEN PLANS[code].priceMinor
    ELSE PLANS[code].priceMinor * 12

\* Math.round of a non-negative quotient.
Rounded(numerator, denominator) ==
    (2 * numerator + denominator) \div (2 * denominator)

toMonthlyRate(annualised) == Rounded(annualised, 12)

=============================================================================
