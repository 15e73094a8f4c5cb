SPECIFICATION Spec
CONSTANTS
  m1 = m1  m2 = m2  m3 = m3  a = a  b = b
  t1 = t1  t2 = t2  t3 = t3  t4 = t4  t5 = t5
  None = None
  Memories = {m1, m2, m3}
  Categories = {a, b}
  Uncategorized = b
  Texts <- MCTexts
  Questions <- MCQuestions
  TopK = 1
  CandidateLimit = 2
  FrequentAlways = 3
  FrequentMin = 2
  FrequentPercent = 70
  MaxChanges = 2
  Header = 3
  MinCut = 2
  MaxPhraseWords = 3
  MaxTokens = 4
  MaxEntries = 4
  MaxEntry = 5
  MaxChars = 14
SYMMETRY MCSymmetry
CHECK_DEADLOCK FALSE
INVARIANTS TypeOK EmptyIsJustified EarlierStagesFirst TermsAgree ContextFits
