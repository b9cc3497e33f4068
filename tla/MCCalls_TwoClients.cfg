SPECIFICATION FairSpec
CONSTANTS
  c1 = c1  c2 = c2  t1 = t1  t2 = t2  k1 = k1  k2 = k2
  Call = {c1, c2}
  Task = {t1, t2}
  Key = {k1, k2}
  TaskOf <- OwnTask
  OpOf <- RevokeAndSession
  KeyOf <- OneKey
  MaxRetries = 2
  Attempts <- SecondHasTwo
  HasTimeout <- SecondBounded
  MaxReplays = 1
INVARIANTS
  SendsWithinBudget
  UnkeyedWriteSentOnce
PROPERTIES
  CallReturns
  CancelReturns
\* The system stops once every call has returned and the wire is empty.
CHECK_DEADLOCK FALSE
