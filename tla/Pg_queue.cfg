SPECIFICATION FairSpec
CONSTANTS
  Queries = {q1, q2}
  NoQuery = NoQuery
  Opens = {o1, o2}
  Kinds = {"single", "multi", "prepared", "refused"}
  MaxResults = 2
  ReopenMidQuery = FALSE
  RetryAtOnce = FALSE
  ReleaseInOpen = FALSE
CHECK_DEADLOCK FALSE
INVARIANTS
  QueueSound
  HeldWhileNeeded
PROPERTIES
  ToldInOrder
  AllAnswered
