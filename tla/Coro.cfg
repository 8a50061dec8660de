SPECIFICATION Spec
CONSTANTS
  Coroutines = {c1, c2, c3}
  Objects = {o1}
  Awaitables = {w1, w2}
  MaxResults = 2
  DestroyPutOff = FALSE
  DestroyShared = FALSE
  ReceiverGoneFirst = FALSE
SYMMETRY Symmetry
INVARIANTS
  ResumedOnce
  ResultsInOrder
