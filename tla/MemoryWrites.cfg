SPECIFICATION Spec
CONSTANTS
  fact = fact
  lesson = lesson
  u = u
  v = v
  Key = {fact, lesson}
  NamespaceOf <- Kinds
  Providers = {"mem0", "openviking"}
  Outcomes = {"id", "no id", "lost"}
  Candidates <- AllCandidates
  TTL <- Weeks
  PurgeAge = 0
  Batch = 3
  Limit = 1
  Writer = {u, v}
  MaxWrites = 3
  MaxNow = 1
  MaxPasses = 1
SYMMETRY Writers
CHECK_DEADLOCK FALSE
INVARIANTS
  TypeOK
  OneCountedRecord
  OwnMemory
  RecallSkipsSuperseded
