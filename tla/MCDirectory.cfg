SPECIFICATION Spec
CONSTANTS
  None = None
  Roster <- MCRoster
  Name = {n1, n2}
  Aci = {a1, a2}
  Profile = {p1, p2}
  max_removed_per_pass = 1
  MaxEdits = 2
  MaxFaults = 2
CHECK_DEADLOCK FALSE
SYMMETRY MCSymmetry
INVARIANTS
  TypeOK
  GreetedIsTrue
  WarnedOnce
  PhonePinned
  FewLeaveAtOnce
  RightsFollow
  GreetedIsServed
