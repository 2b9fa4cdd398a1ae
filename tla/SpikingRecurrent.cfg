SPECIFICATION Spec
CONSTANTS
  Contexts <- MCContexts
  Layers <- MCLayers
  Devices <- MCDevices
  Host = cpu
  cpu = cpu
  npu = npu
  None = None
  Zero = Zero
  MaxSteps = 3
  MaxDepth = 2
INVARIANTS
  TypeOK
  CarriedIsUnbroken
  OutputsAreUnbroken
  RecurrenceIsFP32
  RefusedForAChange
  VisibleIsInForce
  NothingLeftBehind
