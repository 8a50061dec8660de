SPECIFICATION Spec
CONSTANTS
  Calls = {c1, c2, c3}
  Drivers = {d1, d2}
  NoDriver = NoDriver
  DriverKind = "pg"
  InitMaxConnections = 1
  InitMaxIdleConnections = 1
  MaxConnectionsValues = {0}
  MaxIdleValues = {0}
  MaxRemovals = 1
  OpenMayFail = TRUE
  MayDrop = TRUE
  HooksHold = TRUE
  ReceiverChoices = {"alive"}
  YieldGuards = TRUE
SYMMETRY Symmetry
INVARIANTS
  TypeOK
  Exclusive
  NoDeletedInUse
  CountExact
  QueuedOnlyIfNoneIdle
  SetupBeforeUse
PROPERTIES
  LimitRespected
  FifoService
