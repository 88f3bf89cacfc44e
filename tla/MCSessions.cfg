SPECIFICATION Spec
CONSTANTS
  c1 = c1
  c2 = c2
  i1 = i1
  i2 = i2
  l1 = l1
  None = None
  Conns = {c1, c2}
  IMEIs = {i1}
  Lookups = {l1}
  Kinds = {"answer", "report", "iccid", "wifi"}
  MaxLogins = 1
  Reports <- AnyIMEI
INVARIANTS TypeOK LiveConnReachable SessionIsLive OnlyClaimedAnnounced FlagMeansAnnounced TelemetryAfterConnect
PROPERTIES NeverDownBeforeUp ImplementsDirectory
SYMMETRY Symmetric
\* Every connection may have been used and every goroutine may have ended.
CHECK_DEADLOCK FALSE
