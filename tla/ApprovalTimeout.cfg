SPECIFICATION FairSpec
CONSTANTS
  t1 = t1
  t2 = t2
  Task = {t1, t2}
  NoTask = NoTask
  NoAttempt = NoAttempt
  NoResolution = NoResolution
  MaxAttempts = 2
  MaxSignals = 1
  Faults = {}
  Requests <- GatedOnly
CHECK_DEADLOCK FALSE
PROPERTIES
  ApprovalTimeoutFailsRun
