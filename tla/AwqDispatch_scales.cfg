SPECIFICATION Spec
CONSTANTS
  SupportedGroups = {32, 64, 128}
  RowCounts <- AllRowCounts
  Shapes <- AllShapes
  Groups = {32, 64, 128}
CHECK_DEADLOCK FALSE
INVARIANTS SupportedIsExact
