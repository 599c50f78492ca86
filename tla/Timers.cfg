\* Two workers and two jobs, one of a type nobody handles; two tickets of an
\* order, mailed with one restart; one tab, an account that two reset codes
\* are issued for, one call of the tab under way at a time.
SPECIFICATION TimersSpec
CONSTANTS
  Jobs = {j1, j2}
  Handled = {j1}
  Instances = {i1, i2}
  NoJob = NoJob
  MaxAttempts = 2
  BatchSize = 2
  SlowHandlers = FALSE
  MaxInterruptions = 2
  MaxRetries = 1
  Sold = {t1, t2}
  Configured = TRUE
  MailTries = 2
  MailStops = 1
  b1 = b1
  Browsers = {b1}
  Resend = 2
  Handoff = 2
  MaxUnder = 1
CHECK_DEADLOCK FALSE
INVARIANTS
  OneRunner
PROPERTIES
  ImplementsJobPromise
  EveryJobEnds
  TicketMailed
  HandsOver
