SPECIFICATION Spec
CONSTANTS
  e1 = e1
  e2 = e2
  a1 = a1
  a2 = a2
  s1 = s1
  p = p
  q = q
  i1 = i1
  NoRow = NoRow
  Failed = Failed
  NoTimeout = NoTimeout
  Env = {e1, e2}
  Action = {a1, a2}
  State = {s1}
  Instance = {i1}
  Source = {p, q}
  Life <- Lives
  Draft = "Draft"
  Timeout = {5}
  CodeStates <- MCCodeStates
  Files <- MCFiles
  Pairs <- MCPairs
  CodeImports <- MCCodeImports
  Snapshots <- MCSnapshots
  MaxNumber = 2
  Uuid = {1, 2, 3}
SYMMETRY Symmetry
INVARIANTS
  TypeOK
  OneInForce
  RunningCodeIsKept
  NothingDangles
  EnvirXIsNeutral
  CodeComesBack
  SnapshotRestores
PROPERTIES
  DeleteSparesItsOwn
  ImplementsHistory
CHECK_DEADLOCK FALSE
