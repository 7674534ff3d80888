\* Four objects on nine orbits; the index spans one bin of width 4 each way, so
\* that orbits wider than 2 fail open. The function returns at the end.
CONSTANTS
  NumObjects = 4
  Stores <- MCStores
  MaxRadius = 20
  MaxIBin = 2
  ShellMargin = 1
  InvalidPad = 2
  BinWidth = 4
  Neighbors = 1
  HighE = 20
CHECK_DEADLOCK FALSE
SPECIFICATION Spec
INVARIANTS
  TypeOK
  CandidatesAreExact
