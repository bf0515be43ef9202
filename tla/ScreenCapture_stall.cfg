SPECIFICATION ScreenSpec
CONSTANTS
  Output = {o1}
  ScreenGeometry <- MCScreenGeometry
  BufferSize <- MCBufferSize
  ShmFormats <- MCBothFormats
  FirstOuts <- MCFirstOuts
  FirstOffer <- MCFirstARGB
  Named = FALSE
  MaxEvents = 2
  MaxChanges = 2
PROPERTY
  RefusedIsRetried
CHECK_DEADLOCK FALSE
