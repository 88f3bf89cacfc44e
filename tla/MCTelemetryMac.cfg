SPECIFICATION Spec
CONSTANTS
  Measured <- CountInAddress
  Commands <- Asked
  Clock <- Noon
  MaxLookups = 1
INVARIANT UplinkTrue
