CONSTANTS
  Keys <- MCKeys
  Placeholders <- MCPlaceholders
  Templates <- MCTemplates
  Values <- MCValues
  Digits <- MCDigits
  Absent = Absent
  Raised = Raised
SPECIFICATION Spec
INVARIANT RendersExactTokens
