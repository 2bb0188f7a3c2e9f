SPECIFICATION Spec
CONSTANTS
  Take = 3
  Limit = 2
  Readable <- TheReadable
  MaxRequest = 5
  MaxFaults = 1
INVARIANTS
  TwiceOnlyIfAdded
PROPERTIES
  ListKept
