\* Scripts stop when they have run MaxRuns times.
SPECIFICATION InstallSpec
CONSTANTS
  Layouts <- MCLayouts
  MaxOdd = 2
  MaxRuns = 3
INVARIANTS
  TypeOK
  DoneMeansPatched
  WholePatches
  FailsForCause
  OriginalIsKept
PROPERTY RerunIsNoOp
CHECK_DEADLOCK FALSE
