CONSTANTS
  Docs <- MalformedDocs
  Api <- MCApi
  Version <- MCVersion
  IsDefault <- MCIsDefault
  Valid <- MCValid
  Unsupported <- MCUnsupported
  StrLess <- MCStrLess
  NumericSegments <- MCNumericSegments
  MaxRuns = 2
INIT Init
NEXT Next
\* The generator is a batch program: it stops after its last run.
CHECK_DEADLOCK FALSE
INVARIANTS
  RunFailsOnlyOnDomainConflict
