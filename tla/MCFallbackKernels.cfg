SPECIFICATION Spec
CONSTANTS
  Shapes <- MCShapes
  BlockSize = 2
  MaxModelLen = 4
  QueryCounts = {1, 3}
  KeyCounts = {0, 4}
  HeadCounts = {1, 6}
  HeadDims = {2, 3}
  Bytes = {24, 72}
  GemmSizes <- MCGemmSizes
  RowTiles = {1, 2}
  DenseRowTile = 2
  ColTile = 3
  WideColTile = 2
  HeadTile = 4
  AlignHeads = 2
  AlignDim = 2
  GemmRowTile = 2
  GemmColTile = 2
  GemmKTile = 2
INVARIANTS
  TypeOK
  ResultExact
  TableReadsInside
  NoRaces
\* The call returns or raises.
CHECK_DEADLOCK FALSE
