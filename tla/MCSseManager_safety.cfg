SPECIFICATION Spec
CONSTANTS
  b1 = b1
  b2 = b2
  b3 = b3
  b4 = b4
  k1 = k1
  k2 = k2
  None = None
  Bus = {b1, b2, b3, b4}
  Client = {k1, k2}
  BufferSize = 2
  MaxEvents = 4
  MaxClears = 1
SYMMETRY Symmetry
INVARIANTS
  TypeOK
  BufferHoldsTheLast
  StreamIsComplete
  ConnectedIsHeard
  LingerKeepsBus
  HeartbeatHasBus
CHECK_DEADLOCK FALSE
