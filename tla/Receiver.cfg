SPECIFICATION FairSpec
CONSTANTS
  NoOne = NoOne
  Event = {e1, e2}
  Attempts = 2
  MaxRestarts = 1
INVARIANTS
  TypeOK
PROPERTIES
  KeepsInbox
  HandlerAnswers
  DeliveredIsWorked
\* The system stops once the attempts are used up.
CHECK_DEADLOCK FALSE
