SPECIFICATION Spec
CONSTANTS
  q1 = q1  q2 = q2  q3 = q3  q4 = q4   a = a  b = b  m1 = m1  m2 = m2
  na = na  nb = nb  new = new  long = long
  None = None
  Requests = {q1, q2, q3}
  CatRows = {q1, q2, q3, a, b}
  MemRows = {q1, q2, q3, m1, m2}
  Names = {na, nb, new, long}
  Cut <- mcCut
  Calls <- mcWaitCalls
  StoredCats <- mcStoredCats
  StoredMems <- mcStoredMems
  MaxActive = 3
PROPERTIES Answered
