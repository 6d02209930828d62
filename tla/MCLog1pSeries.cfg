CONSTANT Inputs <- MCInputs
INIT Init
NEXT Next
INVARIANTS TypeOK ReductionInAccurateRange LogIsOdd
CHECK_DEADLOCK FALSE
