SPECIFICATION Spec
CONSTANTS
  Installations <- MCUnloadable
  Requests <- MCFewRequests
  Steps = 2
  Neurons = 3
  None = None
  NoAdapter = NoAdapter
  NoGraph = NoGraph
  NoRequest = NoRequest
INVARIANT UnloadableIsNotAbsent
