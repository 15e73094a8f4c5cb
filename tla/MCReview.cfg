SPECIFICATION Spec
CONSTANTS
  m1 = m1  m2 = m2  m3 = m3  s1 = s1  s2 = s2  t1 = t1  t2 = t2
  None = None  NaN = NaN
  Memories = {m1, m2, m3}
  Suggestions = {s1, s2}
  Texts = {t1, t2}
  Answers <- mcAnswers
  Tables <- mcTables
  MaxOutside = 1
SYMMETRY SuggestionSymmetry
INVARIANTS TypeOK WithinItsMandate MergedSourcesGone HalfAppliedOnlyIfFailed
PROPERTY NothingComesBack
