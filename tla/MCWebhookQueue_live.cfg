SPECIFICATION LiveSpec
CONSTANTS
    e1 = e1
    e2 = e2
    w1 = w1
    w2 = w2
    r1 = r1
    Null = Null
    Events = {e1}
    Workers = {w1, w2}
    Reapers = {r1}
    BaseDelay = 1
    MaxDelay = 2
    MaxAttempts = 2
    StaleAfter = 1
    Limit = 1
    JobTime = 99
    BatchTime = 99
    MaxTime = 20
PROPERTY EveryEventSettles
