SPECIFICATION Spec
CONSTANTS
  Verify = {"v1", "v2"}
  Texts = {"denied"}
  Proposed = {0, 2}
  MaxSent = 3
CHECK_DEADLOCK FALSE
INVARIANTS
  TypeOK
  SuccessBacked
  VerdictObserved
PROPERTIES
  Ends
