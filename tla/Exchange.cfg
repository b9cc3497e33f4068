SPECIFICATION Spec
CONSTANTS
  WireStatuses = {200, 201, 204, 302, 400, 401, 402, 404, 409, 429, 500, 502, 503}
  WireCodes = {"none", "PAYMENT_PROCESSING_UNAVAILABLE", "CHARGE_OUTCOME_UNKNOWN", "CHARGE_FAILED", "MERCHANT_API_UNAVAILABLE", "OTHER"}
INVARIANTS
  RetriesWhatIsDocumented
  ChargeRowNeverLost
\* One exchange ends after its only step.
CHECK_DEADLOCK FALSE
