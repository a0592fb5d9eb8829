SPECIFICATION MCSpec
CONSTANTS
  RowCounts = {1, 2}
  KeyCounts = {0, 4}
  HeadCounts = {1, 2}
  TopKs = {1, 2}
  Bytes = {8, 32}
  PageChunks <- MCPageChunks
  Scores <- MCScores
  NegInf <- MCNegInf
INVARIANTS
  TypeOK
  ExactTopK
  ScoresBounded
PROPERTIES
  Terminates
