SPECIFICATION FairSpec
CONSTANTS
  Names = {vllm, mounted}
  Layers = {l1}
  Inputs <- MCInputs
  StockNative = StockNative
  StockCuda = StockCuda
  ForwardHip = ForwardHip
  Kernel = Kernel
  None = None
INVARIANTS FallbackIsCallable RightEnd NoCircle
PROPERTIES CallsEnd StaysActive
