SPECIFICATION ReadSpec
CONSTANTS
  t1 = t1
  t2 = t2
  Task = {t1, t2}
  NoTask = NoTask
  NoAttempt = NoAttempt
  NoResolution = NoResolution
  MaxAttempts = 3
  MaxSignals = 2
  Faults = {"lapse", "dispatch_error", "run_timeout"}
  Requests <- AllRequests
  Interrupting = {t2}
  Durable = FALSE
  MaxRepeats = 1
  Adapters <- TwoAdapters
  MaxSends = 2
  MaxCuts = 1
  MaxUpdated = 1
CHECK_DEADLOCK FALSE
INVARIANTS
  WorkingHoldsLease
  GraphFollowsRows
  RecoveryFromLastFailure
  GraphRunsOnce
  AnnouncedTruthfully
PROPERTIES
  AttemptFollowsTable
  CompletedStaysShown
