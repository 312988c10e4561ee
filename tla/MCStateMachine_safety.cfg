SPECIFICATION Spec
CONSTANTS
  Visibilities = {"observable", "opaque"}
  CodeStates = {"EXECUTING", "HELD", "ABORTING", "ABORTED", "CLEARING", "IN_PROGRESS", "COMPLETED"}
  Commands = {"PAUSE", "RESUME", "HOLD", "UNHOLD", "ABORT", "STOP", "CLEAR"}
  Requests = {"HOLD", "UNHOLD", "PAUSE", "STOP", "ABORT"}
  RunSlots = {1, 2}
  MaxCommands = 3
  MaxNesting = 2
  MaxFaults = 1
  ClientsWait = TRUE
  RowDeletion = TRUE
INVARIANTS
  SingleRun
  RunInItsState
  SettledIsRecorded
PROPERTIES
  TerminalStays
  ImplementsLifecycle
CHECK_DEADLOCK FALSE
