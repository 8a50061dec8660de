SPECIFICATION WorkerFairSpec
CONSTANTS
  Drivers = {"sqlite", "mysql", "odbc"}
  Jobs = {j1, j2}
  Ids = {i1, i2}
  Handles = {1, 2, 3}
  None = none
  MaxCommands = 2
  OmitParameters = FALSE
  UnpreparedSqlite = FALSE
  UnopenedMysql = FALSE
INVARIANTS
  StatementsSound
  OneLastResult
PROPERTIES
  JobAnswered
