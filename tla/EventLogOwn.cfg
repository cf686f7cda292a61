SPECIFICATION Spec
CONSTANTS
  Activities = {"a1"}
  Calls = {}
  MaxEmits = 3
  MaxClock = 2
  MaxRows = 5
CHECK_DEADLOCK FALSE
INVARIANTS
  OwnEventLogged
