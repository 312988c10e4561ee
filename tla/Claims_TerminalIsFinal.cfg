SPECIFICATION Spec
CONSTANTS
  Visibilities = {"observable"}
  CodeStates = {"EXECUTING", "PAUSING", "PAUSED", "ABORTING"}
  Commands = {"PAUSE", "HOLD", "ABORT", "STOP", "CLEAR"}
  Requests = {}
  RunSlots = {1, 2, 3}
  MaxCommands = 3
  MaxNesting = 1
  MaxFaults = 0
  ClientsWait = FALSE
  RowDeletion = FALSE
PROPERTY
  TerminalIsFinal
CHECK_DEADLOCK FALSE
