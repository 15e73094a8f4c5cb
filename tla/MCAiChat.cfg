SPECIFICATION Spec
CONSTANTS
  t1 = t1  t2 = t2
  None = None
  Threads = {t1}
  Statements <- MCStatements
  PermissionSets <- MCPermissionSets
  MaxQueries = 2
  MaxWriteRows = 2
  MaxMessages = 3
  MaxStops = 2
INVARIANTS TypeOK RunOnceUnlessStopped CommittedIsListed
