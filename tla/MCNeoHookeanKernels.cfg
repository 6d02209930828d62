CONSTANTS
  UgInputs <- MCUg
  DeltaInputs <- MCDelta
  DXdxInputs <- MCDXdx
  WdetJ <- MCWdetJ
  E <- MCE
  Nu <- MCNu
  LogJ <- MCLogJ
SPECIFICATION Spec
INVARIANTS InverseIsExact StressIsNeoHookean ResidualIsWeakForm TangentIsDerivative LameIsClosedForm EnergyIsPotential DiagnosticMatchesEnergy
CHECK_DEADLOCK FALSE
