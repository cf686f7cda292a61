SPECIFICATION Spec
CONSTANTS
  t1 = t1
  t2 = t2
  Task = {t1, t2}
  NoTask = NoTask
  NoAttempt = NoAttempt
  NoResolution = NoResolution
  MaxAttempts = 2
  MaxSignals = 2
  Faults = {"lost_ack", "lapse", "recovery", "dispatch_error", "run_timeout"}
  Requests <- AllRequests
CHECK_DEADLOCK FALSE
INVARIANTS
  TypeOK
  NoOrphanClaim
  HeartbeatsStop
  TerminalClean
  OneLiveAttempt
  DependenciesRespected
  CompletedMeansDone
PROPERTIES
  RunFollowsTable
  ClaimsAreLeases
