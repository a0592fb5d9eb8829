\* Scripts stop when they have run MaxRuns times.
SPECIFICATION InstallSpec
CONSTANTS
  Layouts <- MCRepository
  MaxOdd = 0
  MaxRuns = 1
INVARIANT RecipeBuilds
CHECK_DEADLOCK FALSE
