SPECIFICATION Spec
CONSTANTS
  q1 = q1  q2 = q2  q3 = q3  k1 = k1  k2 = k2  i1 = i1  i2 = i2
  None = None
  Requests = {q1, q2, q3}
  Keys = {k1, k2}
  Items = {i1}
  TTL = 2
  MaxClock = 3
  MaxRestarts = 1
SYMMETRY MCSymmetry
INVARIANTS TypeOK OnceWhenAlone RefusedForAnother
