SPECIFICATION FairSpec
CONSTANTS
  Activities = {"a1", "a2"}
  Calls = {"c1"}
  MaxEmits = 1
  MaxClock = 2
  MaxRows = 3
CHECK_DEADLOCK FALSE
INVARIANTS
  TypeOK
  GapFree
  TimesFollowSequence
  PendingFits
PROPERTIES
  IsAppendLog
  ActivitiesAnswered
