SPECIFICATION Spec
CONSTANTS
  fact = fact
  lesson = lesson
  u = u
  v = v
  Key = {fact, lesson}
  NamespaceOf <- Kinds
  Providers = {"mem0", "openviking"}
  Outcomes = {"id", "no id", "lost", "refused"}
  Candidates <- OneCandidate
  TTL <- Weeks
  PurgeAge = 0
  Batch = 3
  Limit = 1
  Writer = {u}
  MaxWrites = 2
  MaxNow = 0
  MaxPasses = 1
CHECK_DEADLOCK FALSE
PROPERTY CleanupSparesCurrent
