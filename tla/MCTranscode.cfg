CONSTANTS
  Cicps <- MCCicps
  Profiles <- MCProfiles
  Natives <- MCNatives
  Lists <- MCLists
  Corrections <- MCCorrections
  Extras = {"exif", "mastering_display"}
  DecodePolicies <- MCDecodePolicies
  EncodePolicies <- MCEncodePolicies
  Decoders <- MCDecoders
  Encoders <- MCEncoders
  MaxHops = 2
  None = None

SPECIFICATION Spec

INVARIANTS
  OutputIsLabelledTruly
  FileTellsTruth
  HdrIsNoticed
  CommonFormatIsFound

\* After the last hop the image stays where it is.
CHECK_DEADLOCK FALSE
