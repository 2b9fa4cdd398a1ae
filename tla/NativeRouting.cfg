SPECIFICATION Spec
CONSTANTS
  Installations <- MCInstallations
  Requests <- MCRequests
  Steps = 2
  Neurons = 3
  None = None
  NoAdapter = NoAdapter
  NoGraph = NoGraph
  NoRequest = NoRequest
INVARIANTS
  TypeOK
  RegionIsKernel
  ConversionReported
  OnlyPromisedKernels
  KernelGetsItsArguments
  ProbesAgree
  RefusedForTheBundle
