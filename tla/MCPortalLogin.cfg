SPECIFICATION Spec
CONSTANTS
  NoOne = NoOne
  Sources = {a, b}
  Browser = a
  Logins = {l1, l2}
  PER_SOURCE_MAX = 2
  GLOBAL_MAX = 3
  WINDOW = 3
  BLOCK = 2
  SESSION_TTL = 1
  MaxFlight = 1
INVARIANTS GlobalLimitHolds SessionsAreEarned
PROPERTIES BlocksAreFair BlocksLift
