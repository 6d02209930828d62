CONSTANTS
  UgInputs <- MCUg
  DeltaInputs <- MCDelta
  DXdxInputs <- MCDXdx
  WdetJ <- MCWdetJ
  E <- MCE
  Nu <- MCNu
  LogJ <- MCLogJ
SPECIFICATION Spec
INVARIANTS DegenerateJacobianReported
CHECK_DEADLOCK FALSE
