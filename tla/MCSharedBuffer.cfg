SPECIFICATION MCSpec
CONSTANTS
  Readings <- MCReadings
  Halves = {"zero", "normal", "infinite"}
  Rows = 2
  Blocks = 2
  DOut = 2
  DIn = 5
  WeightRows <- MCWeightRows
  Batches <- MCBatches
  MaxBatches = 2
  Configs <- MCConfigs
  ClipSteps = 2
  Kernels = {"attn", "norm"}
  Dim = 8
  Warp = 4
  Heads = 2
  Group = 2
  InDim = 12
  OutDim = 4
  Shapes <- MHAShapes
  Turns = 2
  ModelShapes <- MCModelShapes
  CacheUsers <- MCUsers
  ModelBase = 1000000
  MaxRows = 4
  MaxScore = 2
  AttnWindow = 2
  AttnSinks = 1
  Experts = 4
  Used = 2
  MaxLogit = 2
  OutDims = {1, 5, 7, 8}
  ShardCounts = {2, 3, 4}
  Totals = {0, 1, 2, 5, 8, 9}
  Contexts = {1, 2, 3, 4, 6}
  Strides <- MCStrides
INVARIANT KernelSeesQKV
CHECK_DEADLOCK FALSE
