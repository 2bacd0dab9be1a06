CONSTANTS
  Objects <- MCObjects
  Roots <- CheckedRoots
  PrivateKeys <- MCPrivateKeys
  Absent = Absent
SPECIFICATION Spec
INVARIANTS TypeOK ReportsEveryViolation DumpExactlyForOwnViolations
\* The walk ends once the root object returns: the last state has no successor.
CHECK_DEADLOCK FALSE
