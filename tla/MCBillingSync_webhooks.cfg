SPECIFICATION Spec
CONSTANTS
    Null = Null
    CapUnit = 300
    h1 = h1
    p1 = p1
    Handlers = {h1}
    Processes = {}
    Codes = {"starter", "growth"}
    Statuses = {"past_due", "canceled"}
    FallbackPeriod = 2
    PeriodLength = 2
    Silences = {{}, {"currentPeriodStart"}, {"currentPeriodEnd"}, {"planCode", "platformPlanId", "trialEndsAt", "currentPeriodStart", "currentPeriodEnd"}}
    Unpolled = {}
    Throttle = 1
    MaxTime = 3
    MaxEvents = 3
    MaxDeliveries = 4
INVARIANTS WritesPassChecks NewestEventRules
PROPERTIES PaidTierKept
CHECK_DEADLOCK FALSE
