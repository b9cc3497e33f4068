SPECIFICATION Spec
CONSTANTS
  Second = 2
  DurationMax = 15
  SecondsMax = 31
  EpochOffset = 4
  Instants = {12}
  Tolerances <- Window
  Texts <- EveryText
  Payloads <- TwoBodies
  Headers <- EveryHeader
INVARIANTS
  TooFarIsRejected
\* One verification ends after its only step.
CHECK_DEADLOCK FALSE
