SPECIFICATION Spec
CONSTANTS
  leaf = leaf
  drop = drop
  w = w
  r = r
  w1 = w1
  r1 = r1
  r2 = r2
  host = host
  npu1 = npu1
  b1 = b1
  b2 = b2
  Modules <- TwoModules
  Leaf = leaf
  RngModules <- MCRngModules
  Params <- MCParams
  Buffers <- MCBuffers
  Lead = w
  InputsOnNpu = TRUE
  ParamObjs <- OneObj
  BufferObjs <- MCBufferObjs
  Storages <- MCStorages
  HostStorages <- MCHostStorages
  LeafIds <- DistinctIds
  MaxWrites = 1
  MaxVersion = 2
  MaxDisturbed = 1
  GraphSafe = TRUE
  AllowTraining = TRUE
  RequireDeterministic = TRUE
  AllowUnsafeRng = FALSE
  Strict = TRUE
  Buckets <- OneBucket
  Interrupts = TRUE
INVARIANTS ReplayOnSameModule AdmissibleCaptures
