SPECIFICATION PicturesSpec
CONSTANTS
  Infos <- MCInfos
  ColourMaps <- MCColourMaps
  Width = 4
  Height = 2
  Updates <- MCUpdates
  MaxUpdates = 2
  TileSize = 3
  RunMax = 2
  BlockSize = 3
  McuSize = 5
  DECBITS = 4
  ScreenWidth = 7
  ScreenHeight = 6
  MaxMessages = 2
  Messages <- MCMessages
  Tables <- MCTables
CHECK_DEADLOCK FALSE
INVARIANTS ShowsScreen AllDataRead PictureIsScreen
