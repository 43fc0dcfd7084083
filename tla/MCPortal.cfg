SPECIFICATION Spec
CONSTANTS
  NoOne = NoOne
  ACK_TTL = 5
  CACHE_TTL = 2
  MaxFlight = 1
  ProbeRow <- MCProbeRow
  Store = s
  Readers = {r1, r2}
  Unsteady = {"p"}
  Troubled = {"p"}
  Acked <- MCAcked
INVARIANTS GapsAreShown PagesAreFresh AcksLastTheirDay
PROPERTIES OutageIsForgotten
