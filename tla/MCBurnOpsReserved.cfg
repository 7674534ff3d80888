\* Is a satellite reserved for the graveyard at the end of its fuel?
CONSTANTS
  NumSats = 1
  Contact <- ContactOne
  Latency = 1
  Cooldown = 3
  ScanStep = 2
  Horizon = 2
  FullTank = 5
  Eol = 1
  GraveyardCost = 1
  Costs = {1, 3}
  StepSizes = {1, 2, 5}
  MaxEpoch = 11
SPECIFICATION Spec
INVARIANT ReservedMeansEol
CHECK_DEADLOCK FALSE
