SPECIFICATION Spec
CONSTANTS
  Visibilities = {"observable"}
  CodeStates = {"STARTING", "EXECUTING", "PAUSED", "HELD", "ABORTED"}
  Commands = {"PAUSE", "RESUME", "HOLD", "UNHOLD", "ABORT", "STOP", "CLEAR"}
  Requests = {"HOLD", "PAUSE"}
  RunSlots = {1, 2, 3}
  MaxCommands = 3
  MaxNesting = 1
  MaxFaults = 0
  ClientsWait = FALSE
  RowDeletion = FALSE
INVARIANTS
  TypeOK
  NoOrphanCommand
  DeferredStaysValid
CHECK_DEADLOCK FALSE
