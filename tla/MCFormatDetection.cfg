CONSTANTS
  Registries <- MCRegistries
  Files <- MCFiles
  Cuts <- MCCuts
  Overrides <- MCOverrides
  MimeOverrides <- MCMimeOverrides
  None = None

SPECIFICATION DetectionSpec

INVARIANTS
  
  
  NamesLeadBack
PROPERTY
  VerdictsMoveUp
