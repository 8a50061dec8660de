SPECIFICATION FairSpec
CONSTANTS
  Queries = {q1, q2}
  Opens = {o1, o2}
  OpenJob = OpenJob
  NoQuery = NoQuery
  MaxResults = 2
  MaxPosted = 2
INVARIANTS
  HeldExactly
  OpenedOnce
PROPERTIES
  KeepsContract
  DriverFreed
