SPECIFICATION Spec
CONSTANTS
  Orders = {o1}
  NoOrder = NoOrder
  Workers = {w1, w2}
  Qty <- OneEach
  Capacity = 1
  MaxPayments = 2
  MaxAttempts = 2
  MaxCrashes = 1
  MaxAge = 2
  Declines = {"FAILED"}
  ConfirmCallbacks = TRUE
  QueryAfter = 0
  NoIdLimit = 0
  Validity = 1
  Deadline = 1
  HardExpiry = 1
CHECK_DEADLOCK FALSE
SYMMETRY AnyWorker
INVARIANTS
  OnePaymentInFlight
  DoubleChargeAlerted
PROPERTIES
  ImplementsTicketSale
  NeverWrittenOffEarly
