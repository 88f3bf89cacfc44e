SPECIFICATION Spec
CONSTANTS
  Streams <- WifiThenLBS
  ReadSize = 4096
INVARIANT InOrder
\* The stream ends.
CHECK_DEADLOCK FALSE
