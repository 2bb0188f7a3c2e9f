SPECIFICATION Spec
CONSTANTS
  None = None
  Roster <- MCRoster
  Name = {n1, n2}
  Aci = {a1, a2}
  Profile = {p1, p2}
  max_removed_per_pass = 1
  MaxEdits = 2
  MaxFaults = 1
CHECK_DEADLOCK FALSE
INVARIANTS
  NameHeldOnce
