\* Two threads race over at most three pairs for a budget of one or two.
CONSTANTS
  NumThreads = 2
  Chunk = 1
  NumSats = 3
  NumDebris = 1
  Screening = 1
  RefineBand = 2
  FullBand = 3
  FastBand = 4
  PlaneFilter = FALSE
  MoidFilter = TRUE
  BudgetMin = 1
  BudgetMax = 2
SPECIFICATION FairSpec
INVARIANTS
  TypeOK
  BudgetIsConserved
  ClearedOnEvidence
  ReportIsWhole
PROPERTIES
  SweepEnds
