\* Every question of the sets in MCAlgorithms. A window of four with samples
\* every second; distances from 1 to 7 about thresholds 2, 4 and 6.
CONSTANTS
  Window = 4
  Interval = 1
  KTrack = 3
  Failed = Failed
  Critical = 2
  Warn = 4
  Screening = 6
  KPredictive = 2
  Target = 4
  Improvement = 2
  MinLead = 2
  Horizon = 4
  Parts = 2
  Scales <- MCScales
  TriggerLimit = 2
  DefaultDepth = 2
  DefaultStep = 4
  StepLimit = 8
  StepLengths = {1, 2, 5}
  MaxSteps = 3
  PairLists <- MCPairLists
  Warnings <- MCWarnings
  Impulses <- MCImpulses
  Contacts <- MCContacts
  Envs <- MCEnvs
  Origins <- MCOrigins
  Bodies <- MCBodies
SPECIFICATION Spec
INVARIANTS
  TrajectoriesAreFaithful
  CdmScanIsSound
  ColaPlanIsBest
  RequestsAreAnswered
\* A behaviour ends with its answer.
CHECK_DEADLOCK FALSE
