SPECIFICATION Spec
CONSTANTS
  MaxTokens = 2
  TopKs = {1, 2}
  NumExperts = 3
  Widths <- MCWidths
  Callers = {"method", "experts", "batched"}
INVARIANTS
  TypeOK
  OutputExact
  ScratchSuffices
\* The call returns.
CHECK_DEADLOCK FALSE
