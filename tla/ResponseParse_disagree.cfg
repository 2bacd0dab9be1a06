\* An optional struct whose object lacks a required member; a required
\* struct array that is empty or holds an empty object; an optional struct
\* array with a failing element before a good one; a
\* required enum whose member's alias is a later member's value.
CONSTANTS
  EnumNames <- MCEnumNames
  StructNames <- MCStructNames
  EnumMembers <- ShadowMembers
  Documents <- DisagreementDocuments
  Wires <- DisagreementWires
  Absent = Absent
  NoResult = NoResult
SPECIFICATION Spec
PROPERTY ImplementsDecodePolicy
\* The parsing function returns once every fragment has run.
CHECK_DEADLOCK FALSE
