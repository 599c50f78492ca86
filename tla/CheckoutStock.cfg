\* Two orders for the last ticket and two workers; one tab of one buyer,
\* two sales with a tier each, of two tickets and one; one window on an order,
\* two payments of it.
SPECIFICATION StockSpec
CONSTANTS
  Orders = {o1, o2}
  NoOrder = NoOrder
  Workers = {w1, w2}
  Qty <- OneEach
  Capacity = 1
  MaxPayments = 2
  MaxAttempts = 2
  MaxCrashes = 0
  MaxAge = 1
  Declines = {"FAILED"}
  ConfirmCallbacks = FALSE
  QueryAfter = 1
  NoIdLimit = 0
  Validity = 0
  Deadline = 0
  HardExpiry = 0
  e1 = e1
  e2 = e2
  q1 = q1
  q2 = q2
  Tabs = {b1}
  Sales = {e1, e2}
  NoEvent = NoEvent
  Tiers = {q1, q2}
  TierEvent <- MCTierEvent
  Users = {u1}
  NoUser = NoUser
  Customers = {u1}
  Room <- MCRoom
  MaxQty <- MCRoom
  MaxOrders = 2
  Windows = {b1}
  MaxPay = 2
  Declined = {"FAILED"}
CHECK_DEADLOCK FALSE
INVARIANTS
  StockAccounted
  OrdersComplete
  OneOrderPerVisit
  NoFalseSuccess
PROPERTIES
  ScreenEnds
