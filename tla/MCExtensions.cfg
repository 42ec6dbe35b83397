CONSTANTS
  Owners = {o1, o2, o3}
  Types = {t1, t2}
  MaxValues = 3
  Absent = Absent

SPECIFICATION ExtensionsFairSpec

INVARIANTS
  OneFate

PROPERTIES
  NoneMeansShared
  NothingLeaks
  IsTypedMap

\* Every map may have been dropped.
CHECK_DEADLOCK FALSE
