SPECIFICATION CaptureSpec
CONSTANTS
  Parameters <- MCParameters
  BufferSeq <- MCBufferSeq
  MemorySeq <- MCMemorySeq
  TensorOf <- MCTensorOf
  Devices <- MCDevices
  MaxTouches = 2
  MaxFaults = 1
INVARIANTS BackOrReported GraphedIsClean
CHECK_DEADLOCK FALSE
