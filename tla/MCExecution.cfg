SPECIFICATION Spec
CONSTANTS
  i1 = i1
  i2 = i2
  c1 = c1
  Instance = {i1, i2}
  Client = {c1}
  Overriding = {i1}
  Entry = {x, y}
  Value = {1}
  Unset = Unset
  Gone = Gone
  NoSpec = NoSpec
  NoRun = NoRun
  NoBus = NoBus
  x = x
  y = y
  BufferSize = 1
  MaxEvents = 3
INVARIANTS
  TypeOK
  SeesWhatIsStored
  OverridesFollowInstance
SYMMETRY Symmetry
CHECK_DEADLOCK FALSE
