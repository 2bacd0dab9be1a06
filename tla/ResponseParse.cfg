\* Every generable descriptor against every content on which the parser follows the policy.
CONSTANTS
  EnumNames <- MCEnumNames
  StructNames <- MCStructNames
  EnumMembers <- MCEnumMembers
  Documents <- PassDocuments
  Wires <- PassWires
  Absent = Absent
  NoResult = NoResult
SPECIFICATION Spec
INVARIANT TypeOK
PROPERTY ImplementsDecodePolicy
\* The parsing function returns once every fragment has run.
CHECK_DEADLOCK FALSE
