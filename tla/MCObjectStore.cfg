\* Two objects and two sources; the conflict ring wraps, and telemetry
\* may lie ahead of the clock.
CONSTANTS
  Objects = {o1, o2}
  Sources = {s1, s2}
  RingCap = 2
  StepSizes = {1}
  MaxBatch = 2
  MaxConflicts = 3
  MaxOrbits = 3
  MaxEpoch = 3
SYMMETRY Symmetry
SPECIFICATION Spec
INVARIANTS
  TypeOK
  ConflictsAreShown
  EpochsKeepUp
  StateIsNewest
