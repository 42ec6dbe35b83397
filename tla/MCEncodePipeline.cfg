CONSTANTS
  Widths = {1, 2}
  BytesPerPixel <- MCBytesPerPixel
  Srgba8 <- MCSrgba8
  Durations = {0, 1}
  StripHeight = 2
  PullWidth = 2
  PullDesc = "rgb"
  MaxPadding = 1
  MaxRows = 3
  MaxFrames = 3
  Settings <- MCSettings
  Supported <- MCSettings
  Arguments <- MCArguments
  Unset = Unset
  NoJob = NoJob
  None = None

SPECIFICATION FairSpec

INVARIANTS
  RoundTrip
  EncoderIsAsAsked

PROPERTIES
  PullEnds

\* An encoder that was consumed is the end of its life.
CHECK_DEADLOCK FALSE
