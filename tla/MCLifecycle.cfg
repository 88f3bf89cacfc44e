SPECIFICATION FairSpec
CONSTANTS
  c1 = c1
  c2 = c2
  c3 = c3
  None = None
  Conns = {c1, c2, c3}
INVARIANTS TypeOK HandlersCounted AtMostOneLate
PROPERTIES ClosedNotRetried AcceptLoopEnds ShutdownEnds
\* The process ends.
CHECK_DEADLOCK FALSE
