SPECIFICATION Spec
CONSTANTS
  NumLayers = 2
  Channels = {1, 2}
  Gains = {0, 1, 3}
  Scales = {1, 2, 3}
  One <- MCOne
  NaN = NaN
INVARIANTS FoldedAlike SavedIsFaithful
