SPECIFICATION Spec
CONSTANTS
  MaxTile = 2
  OddTile = 2
  Partition = 4
  Masked <- FarBelow
  NegInf <- LowerThanAll
  Underflow <- NoWeight
  PowersOfTwo = {1, 2, 4, 8}
  NoSink = NoSink
  Garbage = Garbage
  Unwritten = Unwritten
  Batches <- AllBatches
CHECK_DEADLOCK FALSE
INVARIANTS Answered NoPoison
PROPERTIES WrittenOnce
