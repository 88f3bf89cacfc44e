SPECIFICATION FairSpec
CONSTANTS
  w1 = w1
  w2 = w2
  i1 = i1
  Callers = {w1, w2}
  IMEIs = {i1}
  PositiveTTL = 2
  NegativeTTL = 1
  Deadline = 2
  MaxTime = 5
INVARIANTS TypeOK AnswersRecent
PROPERTY CallReturns
