SPECIFICATION Spec
CONSTANTS
  TileLength = 4
  Alignment = 2
  MaxCores = 3
  Word = 24
  MaxSteps = 2
  MaxNeurons = 20
CHECK_DEADLOCK FALSE
INVARIANTS
  RowsAreTheirNeurons
  TransfersDisjoint
  TransfersAligned
PROPERTY CallEnds
