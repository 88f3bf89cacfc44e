SPECIFICATION FairSpec
CONSTANTS
  c1 = c1
  c2 = c2
  i1 = i1
  t1 = t1
  t2 = t2
  None = None
  Conns = {c1, c2}
  IMEIs = {i1}
  Threads = {t1, t2}
  Requests <- Calls
  Reports <- SameTracker
INVARIANTS TypeOK WritesUndisturbed AnswerTellsWhatWasSent
PROPERTIES ImplementsDirectory LoginCompletes RequestAnswered
\* Every connection may have been used and every request answered.
CHECK_DEADLOCK FALSE
