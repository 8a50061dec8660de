SPECIFICATION FairSpec
CONSTANTS
  q1 = q1
  q2 = q2
  Queries = {q1, q2}
  NoResult = NoResult
  MaxSyncs = 2
  ExecWhileAborted = FALSE
  PrepareAtRisk = FALSE
INVARIANTS
  PipelineSound
PROPERTIES
  QueryAnswered
