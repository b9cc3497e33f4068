SPECIFICATION Spec
CONSTANTS
  Second = 2
  DurationMax = 15
  SecondsMax = 31
  EpochOffset = 4
  Instants = {12, 13}
  Tolerances <- Window
  Texts <- EveryText
  Payloads <- SevenBodies
  Headers <- EveryHeader
INVARIANTS
  MalformedIffNotInGrammar
  AcceptedIsAuthentic
  AcceptedIsFresh
  GenuineIsAccepted
\* One verification ends after its only step.
CHECK_DEADLOCK FALSE
