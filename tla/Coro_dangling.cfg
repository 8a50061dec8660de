SPECIFICATION Spec
CONSTANTS
  Coroutines = {c1, c2}
  Objects = {o1}
  Awaitables = {w1, w2}
  MaxResults = 1
  DestroyPutOff = TRUE
  DestroyShared = FALSE
  ReceiverGoneFirst = FALSE
INVARIANTS
  ResumesLive
