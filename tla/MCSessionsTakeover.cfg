SPECIFICATION Spec
CONSTANTS
  c1 = c1
  c2 = c2
  i1 = i1
  i2 = i2
  l1 = l1
  None = None
  Conns = {c1, c2}
  IMEIs = {i1}
  Lookups = {}
  Kinds = {}
  MaxLogins = 1
  Reports <- AnyIMEI
PROPERTY DisconnectMeansOffline
CHECK_DEADLOCK FALSE
