SPECIFICATION LinearSpec
CONSTANTS
  SupportedGroups = {32, 64, 128}
  RowCounts <- AllRowCounts
  Shapes <- AllShapes
  Groups = {0, 16, 32, 64, 80, 128, 256}
  Unknown = Unknown
  Machines <- MCMachines
  Products <- MCProducts
CHECK_DEADLOCK FALSE
INVARIANTS RefusedOnlyTooDeep LaunchExact OneTileOfRows TunedWasSwept DecodeIsSkinny GemvWhole
