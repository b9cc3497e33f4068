SPECIFICATION Spec
CONSTANTS
  c1 = c1  c2 = c2  t1 = t1  t2 = t2  k1 = k1  k2 = k2
  Call = {c1, c2}
  Task = {t1, t2}
  Key = {k1, k2}
  TaskOf <- OwnTask
  OpOf <- ChargeAndRefund
  KeyOf <- OneKey
  MaxRetries = 1
  Attempts <- ClientPolicy
  HasTimeout <- Bounded
  MaxReplays = 0
PROPERTIES
  KeepsPromise
\* The system stops once every call has returned and the wire is empty.
CHECK_DEADLOCK FALSE
