SPECIFICATION SettlesSpec
CONSTANTS
  Orders = {o1}
  NoOrder = NoOrder
  Workers = {w1, w2}
  Qty <- OneEach
  Capacity = 1
  MaxPayments = 2
  MaxAttempts = 2
  MaxCrashes = 1
  MaxAge = 1
  Declines = {}
  ConfirmCallbacks = FALSE
  QueryAfter = 0
  NoIdLimit = 0
  Validity = 0
  Deadline = 0
  HardExpiry = 0
CHECK_DEADLOCK FALSE
PROPERTIES
  EveryPaymentSettles
  SuccessGetsTickets
