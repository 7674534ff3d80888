\* Two satellites, three steps, three burns; a later burn displaces a record and
\* a later evasion also its snapshot.
CONSTANTS
  Sats = {a, b}
  OrderIds <- MCOrderIds
  FullTank = 4
  Eol = 1
  Cost <- MCCost
  KExecuted = 1
  KDropped = 1
  KSnapshots = 1
  KEvents = 2
  MaxTicks = 3
  MaxBurns = 3
SYMMETRY SatSymmetry
SPECIFICATION Spec
INVARIANTS
  TypeOK
  FiringsAreBooked
  FuelIsAccounted
  CounterfactualIsFaithful
  EndpointsAgree
\* No step begins after MaxTicks.
CHECK_DEADLOCK FALSE
