SPECIFICATION FairSpec
CONSTANTS
  Callers = {c1, c2, c3}
  Keys = {k1}
  MaxVersion = 2
  Failures = TRUE
  OverlapAtPool = FALSE
  ClearInFlight = FALSE
CHECK_DEADLOCK FALSE
INVARIANTS
  EntriesSound
  AnsweredOnce
  ReadsInOrder
PROPERTIES
  CallAnswered
