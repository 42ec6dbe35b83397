CONSTANTS
  U32Max = 1023
  I32Max = 511
  F32Bits = 3
  F64Bits = 10
  MAX_ITER = 39
  Originals <- MCOriginals
  Foreign <- MCForeign
  MinMax <- MCFloats
  Odd <- MCOdd
  Formats = {"JpegApp2", "AvifTmap", "JxlJhgm", "JpegApp2BodyWithUrn"}
  Chunks = {1, 400}
  MaxHops = 3
  None = None

SPECIFICATION GainMapSpec

INVARIANTS
  ArrivalIsAnswered
  CompactMeansFull
  ValuesSurvive
  StaysValid
  LossHappensOnce

\* After the last hop the file stays where it is.
CHECK_DEADLOCK FALSE
