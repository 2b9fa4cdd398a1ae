SPECIFICATION Spec
CONSTANTS
  leaf = leaf
  w = w
  r = r
  w1 = w1
  w2 = w2
  r1 = r1
  host = host
  npu1 = npu1
  i1 = i1
  i2 = i2
  Modules <- MCModules
  Leaf = leaf
  RngModules = {}
  Params <- MCParams
  Buffers <- MCBuffers
  Lead = w
  InputsOnNpu = TRUE
  ParamObjs <- MCParamObjs
  BufferObjs <- MCBufferObjs
  Storages <- MCStorages
  HostStorages <- MCHostStorages
  LeafIds <- OneId
  MaxWrites = 1
  MaxVersion = 2
  MaxDisturbed = 1
  GraphSafe = TRUE
  AllowTraining = TRUE
  RequireDeterministic = TRUE
  AllowUnsafeRng = FALSE
  Strict = FALSE
  Inputs <- MCInputs
  Interrupts = TRUE
INVARIANTS ReplayFresh
PROPERTIES CaptureKept ImplementsRouting
