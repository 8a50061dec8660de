SPECIFICATION FairSpec
CONSTANTS
  Drivers = {"pg", "threaded"}
  Coroutines = {h1, h2, h3}
  MaxQueue = 3
  DropInBegin = FALSE
  DropWhileBusy = FALSE
  KeepAfterCommit = FALSE
  OutliveConnection = FALSE
  CommitStalls = FALSE
INVARIANTS
  ReturnedClean
  EndsAsAsked
PROPERTIES
  LeaseEnds
