\* Two requests of one account's reset; two gates, tickets and events; one kind
\* of alert, two monitors and two admins; two people and one conversation at
\* support; two callers of the AI gateway; two drafts, events and periods; one
\* representative.
SPECIFICATION DesksSpec
CONSTANTS
  h1 = h1
  h2 = h2
  t1 = t1
  t2 = t2
  e1 = e1
  e2 = e2
  g1 = g1
  g2 = g2
  k1 = k1
  k2 = k2
  u1 = u1
  u2 = u2
  Handlers = {h1, h2}
  MaxCodeAttempts = 2
  MaxCodesPerHour = 2
  Cooldown = 1
  CodeTtl = 2
  TokenTtl = 1
  Hour = 2
  Retention = 2
  MaxRequests = 3
  MaxTime = 3
  Tickets = {t1, t2}
  Events = {e1, e2}
  EventOf <- MCEventOf
  Gates = {g1, g2}
  Nobody = Nobody
  MaxAsked = 1
  Keys = {"TICKETS_MISSING"}
  Runs = {r1, r2}
  Admins = {a1, a2}
  MaxSeen = 2
  Readers = {u1, u2}
  Anon = Anon
  Convs = {c1}
  NoConv = NoConv
  Listed = {}
  Drafts = {e2}
  MaxDesk = 1
  MaxCalls = 1
  Callers = {k1, k2}
  Askers = {u1}
  Visitor = Visitor
  DailyLimits = {1, 2}
  UserLimits = {1}
  Budgets = {1}
  MaxLost = 1
  AiDrafts = {d1, d2}
  Shows = {s1, s2}
  Periods = {"daily", "weekly"}
CHECK_DEADLOCK FALSE
SYMMETRY Interchangeable
INVARIANTS
  DesksTypeOK
  AttemptsCapped
  CodesPerHour
  AdmittedOnce
  ToldTheTruth
  LimitsHold
  AdviceInPlace
  ReportsTrue
PROPERTIES
  ImplementsResetPromise
  DecisionsStand
