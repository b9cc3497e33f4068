SPECIFICATION Spec
CONSTANTS
  b1 = b1  b2 = b2  own = own  Nil = Nil
  Builder = {b1, b2}
  Own = {own}
  Timeouts <- TwoTimeouts
  OwnTimeouts = {0, 20}
  DefaultTimeout = 45
  Budgets <- TwoBudgets
  DefaultRetries = 3
  MaxOptions = 3
  Lists <- OneList
SYMMETRY Symmetry
CHECK_DEADLOCK FALSE
INVARIANTS
  TypeOK
  NeverFollowsRedirects
  RefusesExactly
  BuiltAsConfigured
PROPERTIES
  CallersClientUntouched
  BuiltIsFixed
