SPECIFICATION FairSpec
CONSTANTS
  c1 = c1
  c2 = c2
  i1 = i1
  i2 = i2
  l1 = l1
  None = None
  Conns = {c1, c2}
  IMEIs = {i1}
  Lookups = {}
  Kinds = {"report"}
  MaxLogins = 1
  Reports <- AnyIMEI
PROPERTIES ClosedHandlerEnds ReportAnswered
CHECK_DEADLOCK FALSE
