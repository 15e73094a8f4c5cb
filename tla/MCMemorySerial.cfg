SPECIFICATION Spec
CONSTANTS
  q1 = q1  q2 = q2  q3 = q3  q4 = q4  s1 = s1  s2 = s2
  e1 = e1  e2 = e2  t1 = t1  t2 = t2  c1 = c1  c2 = c2
  None = None
  Requests = {q1, q2, q3}
  Rows = {q1, q2, q3, s1, s2}
  ExtIds = {e1, e2}
  Titles = {t1, t2}
  Contents = {c1, c2}
  Calls <- mcCalls
  SimilarTexts <- mcSimilar
  Stored <- mcStored
  MaxActive = 1
  MaxUnlucky = 0
PROPERTIES ImplementsContract
