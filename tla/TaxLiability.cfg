SPECIFICATION FinanceSpec
CONSTANTS
  Handlers = {h1, h2}
  Users = {ann, ben}
  Prns = {p1}
  LowValue = FALSE
  MakerChecker = TRUE
  Nobody = nobody
  MonthSales = {s1}
  Adjustments = {a1}
  Desk = {r1, r2}
  v1 = v1
  n1 = n1
  Invoices = {v1}
  CreditNotes = {n1}
  InvoiceOf <- MCInvoiceOf
  Clerks = {c1, c2}
  Outbox = job
  MaxTries = 2
  MaxAsked = 2
  MaxSwitches = 1
  MaxFaults = 1
SYMMETRY AnyRoles
CHECK_DEADLOCK FALSE
INVARIANTS
  RemitOnce
  TwoPersonPayment
  StageEarned
  ConfirmedSettles
  ReconciledAsChecked
  OutboxDelivers
