CONSTANTS
  Requests = {r1, r2}
  a1 = a1
  Agents = {a1, a2}
  Devices = {d1}
  Keys = {k1}
  Categories = {c1}
  User = user
  MaxItems = 2
  MaxForms = 1
  Nobody = nobody
SPECIFICATION mcSpec
INVARIANTS TypeOK AgentUnlessUndone
PROPERTY OnlyWhileOn EveryoneAnswered
