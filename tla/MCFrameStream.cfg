SPECIFICATION Spec
CONSTANTS
  Streams <- CleanOrNoisy
  ReadSize = 4096
INVARIANTS InOrder AllDelivered NothingInvented Slices
PROPERTY DrainProgress
\* The stream ends.
CHECK_DEADLOCK FALSE
