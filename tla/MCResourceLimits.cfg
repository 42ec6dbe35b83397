CONSTANTS
  U32Size = 4
  Maxima <- MCMaxima
  Dimensions <- MCDimensions
  BytesPerPixel <- MCBytesPerPixel
  Counts <- MCCounts
  Measures <- MCMeasures
  Amounts <- MCAmounts
  None = None

SPECIFICATION LimitsSpec

INVARIANTS
  AcceptedIsWithinIfPixelsCapped
  RejectionIsRight
