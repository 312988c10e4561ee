SPECIFICATION Spec
CONSTANTS
  s1 = s1
  s2 = s2
  text1 = text1
  text2 = text2
  secret = secret
  Slot = {s1, s2}
  Source = {text1, text2}
  Template = Template
  Empty = Empty
  None = None
  MaxVersions = 2
  MaxPending = 2
  Key <- MCKey
  Blank = Blank
  ApiKey = {secret}
  Default <- MCDefault
  Typed <- MCTyped
  Sent <- MCSent
  Imported <- MCImported
  NoData = NoData
  Status = {"COMPLETED", "ABORTED"}
  PageSize = 2
  MaxId = 6
  LogSizes = {3, 5}
  NoPage = NoPage
  NoWalk = NoWalk
SYMMETRY Symmetry
INVARIANTS
  ViewedIsStored
  PagingMissesNothing
PROPERTIES
  SavesOnlyTyped
CHECK_DEADLOCK FALSE
