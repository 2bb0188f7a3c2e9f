SPECIFICATION Spec
CONSTANTS
  None = None
  p1 = p1
  u1 = u1
  u2 = u2
  film = film
  sequel = sequel
  series = series
  hd = hd
  uhd = uhd
  title = title
  blank = blank
  literal = literal
  Person = {p1}
  User = {u1, u2}
  KindOf <- MCKindOf
  SeasonCount <- MCSeasonCount
  Pages <- MCPages
  Blank = blank
  Literal = literal
  PAGE = 1
  Configured <- MCConfigured
  Available <- MCAvailable
  Text <- MCText
  Stored <- MCStored
  Members <- MCOne
  Burst = 3
  Cost = 1
  RESULTS_LIVE = 0
  STRANGER_QUIET = 1
  MaxTime = 1
  MaxFaults = 1
  MaxChanges = 1
CHECK_DEADLOCK FALSE
INVARIANTS
  MoreShowsTheNext
