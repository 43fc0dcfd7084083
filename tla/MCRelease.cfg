SPECIFICATION Spec
CONSTANTS
    Null = Null
    CapUnit = 300
    None = None
    MaxMinor = 100000
    Currencies = {"SAR"}
    ZoneOffset <- MCZoneOffset
    Stores = {1, 2, 3}
    Revoked = {1}
    Limit = 2
    Builds = {1, 2}
    Wired = {1}
    Catalogues <- MCCatalogues
    ServiceRows <- MCServiceRows
    ShellNames <- MCShellNames
    ErasedTables = {"stores", "orders"}
    MaxIncidents = 2
INVARIANTS VerdictsAreExact
PROPERTIES GateHolds VerdictsMoveForward SeedServes DeletionIsExact VerdictsKeepUp EveryStoreChecked
