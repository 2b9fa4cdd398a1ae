SPECIFICATION Spec
CONSTANTS
  P = 19
  Leaves <- MCLeaves
  Threshold = 3
  ResetVoltage = 1
  Tau = 4
  MembraneDecay = 7
  Alpha = 5
  Pi = 6
  Steps = 3
  Inputs <- MCInputs
  Voltages <- MCVoltages
  Parameters <- MCParameters
INVARIANTS ForwardIsEager GradientIsAutograd
