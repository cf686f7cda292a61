SPECIFICATION Spec
CONSTANTS
  root = root
  inside = inside
  beside = beside
  climbing = climbing
  run = run
  drop = drop
  None = None
  Path = {root, inside, beside, climbing}
  Command = {run, drop}
  Beneath <- WithSlash
  Prefixed <- Prefixes
  Hooks <- TwoHooks
  OpaEnabled = FALSE
  Policies <- BreakGlassOnly
  ApiBundles <- DirectBundles
  Scopes <- TwoScopes
  Reviewer = {ann}
  Faults = {}
  MaxAttempts = 2
  MaxApi = 1
  MaxSignals = 2
  MaxDeliveries = 2
  Known <- Projects
  Requests <- Limits
CHECK_DEADLOCK FALSE
INVARIANT
  BreakGlassExecutes
