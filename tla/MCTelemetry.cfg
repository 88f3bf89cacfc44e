SPECIFICATION Spec
CONSTANTS
  Measured <- Measurements
  Commands <- Asked
  Clock <- Noon
  MaxLookups = 1
INVARIANTS UplinkTrue AnswersMatch CommandsExact
PROPERTY TimesOrdered
