SPECIFICATION MCSpec
CONSTANTS
  Counts <- MCCounts
  Rows <- MCRows
  Entries <- MCEntries
  Workspaces <- MCWorkspaces
  Budgets <- MCBudgets
INVARIANTS
  TypeOK
  RowsTiled
  WithinLimits
  GatherPrecedesReuse
  ComputesPlan
PROPERTIES
  Terminates
  HandsOutRows
