CONSTANTS
  Heights <- MCHeights
  Pictures <- MCPictures
  MaxFrames = 3
  MaxStart = 4
  Stale = Stale

SPECIFICATION PersistentSpec

INVARIANTS
  FramesAccounted
  EndIsEarned
  FailedCallKeepsPosition
  PictureIsWhole

PROPERTIES
  SinkProtocol
  DrainTerminates
