\* Documents on which the generated request follows the spec.
CONSTANTS
  Documents <- AgreeingDocs
  Absent = Absent
SPECIFICATION Spec
INVARIANT TypeOK
PROPERTY ImplementsEncodePolicy
\* A request object is sent once; nothing follows.
CHECK_DEADLOCK FALSE
