SPECIFICATION LiveSpec
CONSTANTS
  None = None
  Roster <- MCRoster
  Name = {n1, n2}
  Aci = {a1}
  Profile = {p1}
  max_removed_per_pass = 1
  MaxEdits = 2
  MaxFaults = 1
CHECK_DEADLOCK FALSE
PROPERTIES
  WelcomeReaches
  HolderIsTold
