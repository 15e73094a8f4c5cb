CONSTANTS
  Sessions = {s1}
  Watchers = {w1, w2}
  TTL = 2
  Abort = 2
  HookLimit = 1
  MaxClock = 4
  MaxCompactions = 2
  MaxJobs = 3
SPECIFICATION Spec
SYMMETRY Interchangeable
INVARIANTS TypeOK TwiceOnlyAfterExpiry SkippedForAReason
CHECK_DEADLOCK FALSE
