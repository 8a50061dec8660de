SPECIFICATION Spec
CONSTANTS
  Migrators = {m1, m2}
  Nobody = nobody
  Files <- MCFiles
  Drivers = {"postgres", "sqlite"}
  FirstVersions <- MCFirstVersions
  Targets <- MCTargets
  FirstTogether = FALSE
  CommitStalls = FALSE
SYMMETRY Symmetry
INVARIANTS
  SchemaSound
  ShownIsRun
PROPERTIES
  StepFromCurrent
  SuccessReached
