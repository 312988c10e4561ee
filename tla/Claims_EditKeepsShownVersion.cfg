SPECIFICATION EditorSpec
CONSTANTS
  Slot = {"s1"}
  Source = {"p", "q"}
  Template = Template
  Empty = Empty
  None = None
  MaxVersions = 2
  MaxPending = 1
PROPERTIES
  EditKeepsShownVersion
CHECK_DEADLOCK FALSE
