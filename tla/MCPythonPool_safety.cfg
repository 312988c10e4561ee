SPECIFICATION Spec
CONSTANTS
  w1 = w1
  w2 = w2
  w3 = w3
  w4 = w4
  c1 = c1
  c2 = c2
  c3 = c3
  None = None
  Worker = {w1, w2, w3, w4}
  Call = {c1, c2, c3}
  first = first
  second = second
  Instance = {first, second}
  OfSecond = {c3}
  InstanceOf <- TwoInstances
  Targets = {1, 2}
  MaxExecutions = 2
  MaxDying = 1
  Kills = TRUE
  ShutsDown = TRUE
SYMMETRY Symmetry
INVARIANTS
  TypeOK
  WorkerHeldByOneCall
  NoIdleWhileWaiting
  CapacityKept
  RunningIsKillable
  EntryIsOfItsInstance
  NoStrayProcess
PROPERTIES
  GrowthOnlyToTarget
  ServesInOrder
CHECK_DEADLOCK FALSE
