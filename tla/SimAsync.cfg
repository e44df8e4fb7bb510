SPECIFICATION AsyncSpec
CONSTANTS
  NumRequests = 3
  TokensPerRequest = 2
  MaxActive = 2
  NumGpus = 2
  NumLayers = 2
  ExpertsPerGpu = 2
  TopK = 2
  MaxBatch = 2
  GpusPerHost = 1
  AsyncConfigs <- MCAsyncConfigs
  Routes <- MCRoutes
INVARIANTS
  TokenInOnePlace
  NoLostWakeup
  EndsAsTold
PROPERTIES
  AsyncImplementsAutoregressive
CHECK_DEADLOCK FALSE
