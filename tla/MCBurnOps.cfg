\* One satellite: a long blackout, two operator burns and every planner.
CONSTANTS
  NumSats = 1
  Contact <- ContactLong
  Latency = 1
  Cooldown = 3
  ScanStep = 3
  Horizon = 2
  FullTank = 5
  Eol = 1
  GraveyardCost = 1
  Costs = {1, 3}
  StepSizes = {1, 2, 5}
  MaxEpoch = 13
SPECIFICATION Spec
INVARIANTS
  TypeOK
  QueueKeepsCooldown
  UploadsAreAhead
  DueBurnsAreUploaded
  GraveyardIsAlone
  OfflineIsFinal
  EolIsReserved
  EvasionsAreOwed
\* No step ends after MaxEpoch.
CHECK_DEADLOCK FALSE
