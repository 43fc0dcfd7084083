SPECIFICATION LiveSpec
CONSTANTS
    Null = Null
    CapUnit = 300
    h1 = h1
    p1 = p1
    Handlers = {h1}
    Processes = {p1}
    Codes = {"starter", "growth"}
    Statuses = {}
    FallbackPeriod = 2
    PeriodLength = 1
    Silences = {{}, {"currentPeriodEnd"}}
    Unpolled = {}
    Throttle = 1
    MaxTime = 1
    MaxEvents = 3
    MaxDeliveries = 2
PROPERTIES DriftIsRepaired
