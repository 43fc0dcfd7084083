SPECIFICATION Spec
CONSTANTS
    Null = Null
    CapUnit = 300
    h1 = h1
    p1 = p1
    Handlers = {}
    Processes = {p1}
    Codes = {"starter", "growth"}
    Statuses = {"canceled"}
    FallbackPeriod = 2
    PeriodLength = 2
    Silences = {{}}
    Unpolled = {"currentPeriodStart"}
    Throttle = 1
    MaxTime = 3
    MaxEvents = 3
    MaxDeliveries = 0
INVARIANTS CheckedRowAgrees
