SPECIFICATION Spec
CONSTANTS
  NopeDim = 4
  RopeDim = 1
  Blk = 2
  QuantTile = 4
  NumSlots = 2
  MaxTokens = 3
  BatchSizes = {1, 2}
  TopK = 3
  BlockN = 2
  MaxScore = 2
INVARIANTS
  TypeOK
  SoftmaxOfPrefix
PROPERTIES
  StoresRecords
