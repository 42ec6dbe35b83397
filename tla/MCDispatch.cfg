CONSTANTS
  Decoders <- MCDecoders
  Encoders <- MCEncoders
  Plans <- MCPlans
  Heights = {1, 2}
  None = None

SPECIFICATION Spec

INVARIANTS
  ErrorTellsCause
  OutputIsWhole

PROPERTIES
  CallerIsServed

\* With its file or its error the caller is done.
CHECK_DEADLOCK FALSE
