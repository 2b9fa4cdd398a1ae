SPECIFICATION Spec
CONSTANTS
  leaf = leaf
  drop = drop
  w = w
  r = r
  w1 = w1
  r1 = r1
  r2 = r2
  host = host
  npu1 = npu1
  b1 = b1
  b2 = b2
  Modules <- OneModule
  Leaf = leaf
  RngModules <- None
  Params <- None
  Buffers <- MCBuffers
  Lead = r
  InputsOnNpu = TRUE
  ParamObjs <- None
  BufferObjs <- TwoBuffers
  Storages <- MCStorages
  HostStorages <- MCHostStorages
  LeafIds <- OneId
  MaxWrites = 1
  MaxVersion = 3
  MaxDisturbed = 2
  GraphSafe = TRUE
  AllowTraining = TRUE
  RequireDeterministic = TRUE
  AllowUnsafeRng = FALSE
  Strict = FALSE
  Buckets <- MCBuckets
  Interrupts = TRUE
SYMMETRY BucketSymmetry
INVARIANTS TypeOK ReplayFresh
PROPERTIES ImplementsRouting CapturesKept NothingRunsOncePoisoned
