SPECIFICATION ViewSpec
CONSTANTS
  Tile = 17
  Picture <- MCPicture
  Format <- MCFormat
  Frame <- MCFrame
  RectList <- MCRectList
  ViewFormat <- MCFormatMaps
  TileSide = 2
  MinRows = 2
  MinVotes = 2
  Hash <- MCHash
  Geometry <- MCGeometry
  MaxOutputs = 3
  Output = {o1, o2}
  ScreenGeometry <- MCScreenGeometry
  BufferSize <- MCBufferSize
  ShmFormats <- MCShmFormats
  FirstOuts <- MCFirstOuts
  FirstOffer <- MCFirstOffer
  Named = FALSE
  MaxEvents = 2
  MaxChanges = 2
INVARIANTS
  ViewTypeOK
  TilesHold
  ViewerCurrent
  CanvasHolds
  DamageIsEnough
PROPERTIES
  NothingTwice
  FreedIsSilent
  CatchesUp
CHECK_DEADLOCK FALSE
