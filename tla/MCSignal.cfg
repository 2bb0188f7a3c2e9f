SPECIFICATION LiveSpec
CONSTANTS
  dialog = dialog
  delivery = delivery
  Task <- TheTasks
  Hook <- TheHooks
  Dialog = dialog
  None = None
  INCOMING_QUEUE = 1
  PipeSize = 2
  MaxCalls = 2
  MaxSaid = 3
  MaxStarts = 1
  MaxFaults = 2
INVARIANTS
  TypeOK
  OwnAnswer
  EntriesAreCalls
  KeptOrCounted
PROPERTIES
  TimeoutMeansNoAnswer
  CallsEnd
  ClosedEndsProcess
  HalfEndsWithTheNextCall
CHECK_DEADLOCK FALSE
