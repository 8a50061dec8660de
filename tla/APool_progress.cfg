SPECIFICATION ExecSpec
CONSTANTS
  Calls = {c1, c2}
  Drivers = {d1, d2}
  NoDriver = NoDriver
  DriverKind = "threaded"
  InitMaxConnections = 1
  InitMaxIdleConnections = 1
  MaxConnectionsValues = {}
  MaxIdleValues = {}
  MaxRemovals = 0
  OpenMayFail = FALSE
  MayDrop = FALSE
  HooksHold = TRUE
  ReceiverChoices = {"null"}
  YieldGuards = FALSE
  ExecReceivers = {"null", "alive"}
  MaxResults = 2
  EarlyGuards = FALSE
  OpenOutlived = FALSE
INVARIANTS
  TextAlive
PROPERTIES
  QueuedServed
  ExecAnswered
  KeepsContract
