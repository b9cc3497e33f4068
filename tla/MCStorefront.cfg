SPECIFICATION Spec
CONSTANTS
  v1 = v1  v2 = v2
  Visit = {v1, v2}
  Code <- Codes
  Exponent <- Exponents
  Unsupported = {"ISK"}
  IntMax = 9999
  Name <- Names
  Length <- Lengths
  Visible <- VisibleNames
  BlankName = "blank"
  MaxKey = 100
  Fold <- FoldName
  Payment <- Payments
  Cart <- Carts
SYMMETRY Visitors
CHECK_DEADLOCK FALSE
INVARIANTS
  TypeOK
  SentAmountIsExact
  OneSessionPerPayment
  SessionIsTheVisitors
  ReusedOnlyOnCollision
  KindsNeverShareAKey
  AmountRuleFollowsBody
