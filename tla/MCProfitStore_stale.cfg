SPECIFICATION Spec
CONSTANTS
    Null = Null
    Writers = {c1}
    Entries <- MCEntries
    FirstCost <- MCFirstCost
    Workers = {w1}
    Orders = {1}
    placedAt <- MCPlacedAt
    Dates = {1, 2}
    Lines <- MCLines
    Price = 10
    Limit = 1
    MaxVersion = 2
    MaxChanges = 2
INVARIANT
    CleanMeansCurrent
CHECK_DEADLOCK FALSE
