SPECIFICATION Spec
CONSTANTS
    e1 = e1
    e2 = e2
    w1 = w1
    w2 = w2
    r1 = r1
    Null = Null
    Events = {e1, e2}
    Workers = {w1, w2}
    Reapers = {r1}
    BaseDelay = 1
    MaxDelay = 2
    MaxAttempts = 2
    StaleAfter = 1
    Limit = 2
    JobTime = 1
    BatchTime = 1
    MaxTime = 5
SYMMETRY Interchangeable
INVARIANTS TypeOK LockIffProcessing QueueInv
PROPERTIES TerminalStays LeaseSpec
