SPECIFICATION FairSpec
CONSTANTS
  NumRequests = 3
  TokensPerRequest = 2
  MaxActive = 2
  NumGpus = 2
  NumLayers = 2
  ExpertsPerGpu = 2
  MaxBatch = 2
  GpusPerHost = 1
  Routes <- MCRoutes
  Configs <- MCConfigs
  AttnTime = 2
  IntraDelay = 1
  InterDelay = 3
  BatchCost <- MCBatchCost
INVARIANTS
  TimesAreSound
PROPERTIES
  ImplementsAutoregressive
  RunEnds
CHECK_DEADLOCK FALSE
