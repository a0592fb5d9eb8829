SPECIFICATION WeightsSpec
CONSTANT Layers <- AllLayers
INVARIANTS GroupsMatch ColumnsMatch CodesMatch
CHECK_DEADLOCK FALSE
