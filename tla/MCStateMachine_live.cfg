SPECIFICATION FairSpec
CONSTANTS
  Visibilities = {"observable", "opaque"}
  CodeStates = {"EXECUTING", "PAUSING", "ABORTING", "ABORTED", "STOPPING"}
  Commands = {"PAUSE", "RESUME", "HOLD", "UNHOLD", "ABORT", "STOP", "CLEAR"}
  Requests = {}
  RunSlots = {1, 2, 3}
  MaxCommands = 3
  MaxNesting = 0
  MaxFaults = 0
  ClientsWait = FALSE
  RowDeletion = FALSE
PROPERTIES
  EventuallyRests
CHECK_DEADLOCK FALSE
