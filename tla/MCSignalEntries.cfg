SPECIFICATION Spec
CONSTANTS
  dialog = dialog
  delivery = delivery
  Task <- TheTasks
  Hook <- TheHooks
  Dialog = dialog
  None = None
  INCOMING_QUEUE = 1
  PipeSize = 1
  MaxCalls = 2
  MaxSaid = 1
  MaxStarts = 0
  MaxFaults = 1
INVARIANT EveryPathTakesItBack
CHECK_DEADLOCK FALSE
