----------------------------- MODULE Subscription -----------------------------
(***************************************************************************)
(* The subscription row as a value: what a billing event, the platform's    *)
(* current answer and the passage of time make of it.  Everything here is   *)
(* pure in the code too (@ghalla/billing takes the clock as an argument).   *)
(* Instants are natural numbers.                                            *)
(***************************************************************************)
EXTENDS Plans

CONSTANT FallbackPeriod   \* the placeholder month, 30 days

SUBSCRIPTION_STATUSES == {"trialing", "active", "past_due", "canceled", "expired"}

\* a ?? b
Said(a, b) == IF a # Null THEN a ELSE b

\* Faulty variant: no placeholder month.
seedSubscriptionEmpty(change) ==
    LET start == Said(change.currentPeriodStart, change.occurredAt)
    IN  [planCode |-> Said(change.planCode, TRIAL_PLAN),
         platformPlanId |-> change.platformPlanId,
         status |-> change.status,
         trialEndsAt |-> change.trialEndsAt,
         currentPeriodStart |-> start,
         currentPeriodEnd |-> Said(change.currentPeriodEnd, start),
         lastEventAt |-> change.occurredAt,
         lastReconciledAt |-> Null,
         pendingPlanCode |-> Null,
         pendingPlanEffectiveAt |-> Null]

\* The row of a store that has none yet.
seedSubscription(change) ==
    LET start == Said(change.currentPeriodStart, change.occurredAt)
    IN  [planCode |-> Said(change.planCode, TRIAL_PLAN),
         platformPlanId |-> change.platformPlanId,
         status |-> change.status,
         trialEndsAt |-> change.trialEndsAt,
         currentPeriodStart |-> start,
         currentPeriodEnd |-> Said(change.currentPeriodEnd, start + FallbackPeriod),
         lastEventAt |-> change.occurredAt,
         lastReconciledAt |-> Null,
         pendingPlanCode |-> Null,
         pendingPlanEffectiveAt |-> Null]

\* Faulty variant: measured against the last check, not the last event.
isStaleSinceCheck(current, occurredAt) ==
    current.lastReconciledAt # Null /\ occurredAt <= current.lastReconciledAt

isStale(current, occurredAt) ==
    current.lastEventAt # Null /\ occurredAt <= current.lastEventAt

\* Faulty variant: measured against the window the event proposes.
deferUntilPeriodEndProposed(current, change) ==
    /\ change.planCode # Null /\ change.planCode # current.planCode
    /\ isPlanCode(current.planCode)
    /\ isDowngrade(PLANS[current.planCode], PLANS[change.planCode])
    /\ change.occurredAt < Said(change.currentPeriodStart, current.currentPeriodStart)

\* A downgrade inside the paid period waits for that period's end.
deferUntilPeriodEnd(current, change) ==
    /\ change.planCode # Null /\ change.planCode # current.planCode
    /\ isPlanCode(current.planCode)
    /\ isDowngrade(PLANS[current.planCode], PLANS[change.planCode])
    /\ change.occurredAt < current.currentPeriodEnd

\* The facts both applyChange and reconcile copy: silence keeps what is there.
Told(current, change) ==
    [current EXCEPT
       !.status = change.status,
       !.platformPlanId = Said(change.platformPlanId, @),
       !.trialEndsAt = Said(change.trialEndsAt, @),
       !.currentPeriodStart = Said(change.currentPeriodStart, @),
       !.currentPeriodEnd = Said(change.currentPeriodEnd, @)]

\* The row a change that is not stale leaves.
applyChange(current, change) ==
    LET defer == deferUntilPeriodEnd(current, change)
    IN  [Told(current, change) EXCEPT
           !.planCode = IF defer THEN @ ELSE Said(change.planCode, @),
           !.pendingPlanCode = IF defer THEN change.planCode ELSE Null,
           !.pendingPlanEffectiveAt = IF defer THEN current.currentPeriodEnd ELSE Null,
           !.lastEventAt = change.occurredAt]

\* The plan in force at an instant.
effectivePlanCode(subscription, now) ==
    IF /\ subscription.pendingPlanCode # Null
       /\ subscription.pendingPlanEffectiveAt # Null
       /\ now >= subscription.pendingPlanEffectiveAt
    THEN subscription.pendingPlanCode ELSE subscription.planCode

\* The platform's view differs in something it did say.
differsFrom(current, truth) ==
    \/ current.status # truth.status
    \/ \E f \in {"planCode", "platformPlanId", "currentPeriodStart",
                 "currentPeriodEnd", "trialEndsAt"} :
          truth[f] # Null /\ current[f] # truth[f]

\* Faulty variant: the ordering guard of the webhooks applied here too.
reconcileGuarded(current, truth, at) ==
    IF isStale(current, truth.occurredAt) THEN [current EXCEPT !.lastReconciledAt = at]
    ELSE [Told(current, truth) EXCEPT !.planCode = Said(truth.planCode, @),
                                      !.lastReconciledAt = at]

\* The row the platform's answer leaves when it differs: the platform wins,
\* lastEventAt is not advanced and a pending change is kept.
reconcile(current, truth, at) ==
    [Told(current, truth) EXCEPT !.planCode = Said(truth.planCode, @),
                                 !.lastReconciledAt = at]

=============================================================================
