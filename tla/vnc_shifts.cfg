SPECIFICATION VncSpec
CONSTANTS
  Infos <- BgrInfos
  ColourMaps <- MCColourMaps
  Width = 4
  Height = 2
  Updates <- MCUpdates
  MaxUpdates = 1
  TileSize = 3
  RunMax = 2
  BlockSize = 3
CHECK_DEADLOCK FALSE
INVARIANT ShownAsAsked
