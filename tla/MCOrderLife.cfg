SPECIFICATION Spec
CONSTANTS
    Null = Null
    MaxMinor = 100000
    Currencies = {"SAR", "USD"}
    ZoneOffset <- MCZoneOffset
    Payments <- MCPayments
    Parcels <- MCParcels
    Refunds <- MCRefunds
    Worlds <- MCWorlds
    Faults <- MCFaults
    MaxEach = 2
    MaxEvents = 4
INVARIANTS EveryHalalaIsBooked StockBackIsRight GradesAreEarned RuleOrderIsIrrelevant ValidationsAgree
PROPERTIES RefundsNeverFlatter
CHECK_DEADLOCK FALSE
