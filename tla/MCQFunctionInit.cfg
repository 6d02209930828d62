CONSTANTS
  Requests = {"Poisson3DBuild", "Vector3Poisson1DApply", "Poisson3DApply"}
  NumCreations = 2
SPECIFICATION Spec
INVARIANTS TypeOK InitOutcome
CHECK_DEADLOCK FALSE
