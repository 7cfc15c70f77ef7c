SPECIFICATION KindSpec
CONSTANTS
  Unwritten = Unwritten
  Undefined = Undefined
  MaxPrograms = 4
  MaxTrips = 3
  SupportedGroups = {2, 4}
  Launches <- SmallLaunches
  Matrices <- SmallTiles
  Nibbles <- SmallNibbles
  FusedLaunches <- SmallFused
  Weights <- SmallWeights
  Scales <- SmallScales
  Significand = 8
  Units = {1, 2, 4, 8, 16, 32}
CHECK_DEADLOCK FALSE
INVARIANTS Exact LoadsInside DequantizeExact FusedExact FusedNear
PROPERTIES StoredOnce
