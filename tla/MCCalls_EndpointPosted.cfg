SPECIFICATION Spec
CONSTANTS
  c1 = c1  c2 = c2  t1 = t1  t2 = t2  k1 = k1  k2 = k2
  Call = {c1}
  Task = {t1}
  Key = {k1, k2}
  TaskOf <- SameTask
  OpOf <- Endpoint
  KeyOf <- OneKey
  MaxRetries = 1
  Attempts <- ClientPolicy
  HasTimeout <- Bounded
  MaxReplays = 1
INVARIANTS
  EndpointPostedOnce
\* The system stops once every call has returned and the wire is empty.
CHECK_DEADLOCK FALSE
