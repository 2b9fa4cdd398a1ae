SPECIFICATION Spec
CONSTANTS
  StepCells <- MCStepCells
  SequenceCells <- MCSequenceCells
  s1 = s1
  s2 = s2
  Shapes <- MCShapes
  Lengths <- MCLengths
  Kinds <- MCKinds
  MaxFed = 3
  NoShape = NoShape
  NoTensor = NoTensor
SYMMETRY ShapeSymmetry
CHECK_DEADLOCK FALSE
INVARIANTS
  InputsFedOnce
  FailedCallKeepsState
  NoEagerAfterLaunch
  RouteNamesWhatRan
  ReadVoltagesKept
