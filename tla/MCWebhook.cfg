SPECIFICATION SmallSpec
CONSTANTS
  r1 = r1
  r2 = r2
  u1 = u1
  u2 = u2
  p1 = p1
  p2 = p2
  Delivery = {d1, d2}
  Request <- Requests
  User <- Users
  Phone <- Phones
  None = None
  BellConfigured = TRUE
  MaxFaults = 2
INVARIANTS
  OwnerHears
  BellOnce
  OutOrNoted
PROPERTIES
  BellRings
CHECK_DEADLOCK FALSE
