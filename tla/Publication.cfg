SPECIFICATION Spec
CONSTANTS
  Handlers = {h1, h2}
  PersonaConfigured = TRUE
  AlreadyFilled = {"details"}
  MaxEdits = 2
  MaxInquiries = 1
  MaxDecisions = 2
  MaxVersions = 2
CHECK_DEADLOCK FALSE
CONSTRAINT Narrow
SYMMETRY AnyHandler
INVARIANTS
  SoldNeedsIdentity
  VerifiedAsReviewed
  PublishedAsReviewed
  IdentitySettles
