SPECIFICATION Spec
CONSTANTS
  Orders = {o1, o2}
  NoOrder = NoOrder
  Workers = {w1, w2}
  Qty <- OneEach
  Capacity = 1
  MaxPayments = 0
  MaxAttempts = 0
  MaxCrashes = 0
  MaxAge = 0
  Declines = {"FAILED"}
  ConfirmCallbacks = TRUE
  QueryAfter = 0
  NoIdLimit = 0
  Validity = 0
  Deadline = 0
  HardExpiry = 1
CHECK_DEADLOCK FALSE
INVARIANT
  NoOversell
