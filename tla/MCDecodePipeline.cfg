CONSTANTS
  Settings <- MCSettings
  Supported <- MCSupported
  Arguments <- MCArguments
  Heights <- MCHeights
  Pictures <- MCPictures
  Unset = Unset
  NoJob = NoJob
  Stale = Stale

SPECIFICATION FairSpec

INVARIANTS
  LimitsHold
  CancelledBeforehand
  RowsInOrder
  PushAnswersTruly
  ExecutorGetsRequested

PROPERTIES
  CallsReturn

\* A job that has run is the end of its life.
CHECK_DEADLOCK FALSE
