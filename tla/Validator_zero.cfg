CONSTANTS
  Objects <- MCObjects
  Roots <- ZeroRoots
  PrivateKeys <- MCPrivateKeys
  Absent = Absent
SPECIFICATION Spec
INVARIANT ReportsEveryViolation
CHECK_DEADLOCK FALSE
