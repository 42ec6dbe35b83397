SPECIFICATION MetadataSpec
CONSTANTS
  MAX_IFD_ENTRIES = 2
  None = None
  Reported <- MCReported
  Blobs <- MCBlobs
  Orientations = {1, 3}
  MaxCalls = 4
CONSTRAINT FewBlobs
INVARIANTS
  TwoAnswersAgree
  WellFormedIsRead
  OrientationIsExplained
CHECK_DEADLOCK FALSE
