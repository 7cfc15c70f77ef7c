SPECIFICATION MCSpec
CONSTANTS
  dev0 = dev0  dev1 = dev1  a1 = a1  a2 = a2  a3 = a3
  NoBlock = NoBlock
  Widths = {1, 2}
  MaxSplit = 2
  Keys <- MCKeys
  Devices = {dev0, dev1}
  Addresses = {a1, a2, a3}
  MaxCalls = 3
  MaxGraphs = 1
  MaxUses = 1
CHECK_DEADLOCK FALSE
INVARIANTS OwnSum HeldIntact PartialsFit GraphMemoryReserved
PROPERTIES CallsFinish RefinesGemv
