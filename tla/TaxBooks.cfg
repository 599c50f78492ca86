SPECIFICATION Spec
CHECK_DEADLOCK FALSE
CONSTANTS
  Orders = {o1, o2}
  Refunds = {r1, r2}
  Handlers = {h1, h2}
  SaleInputs <- MCSaleInputs
  RuleVersions <- MCRuleVersions
  RefundTerms <- MCRefundTerms
  MaxQuantity = 3
  Nothing = Nothing
SYMMETRY Symmetric
INVARIANTS
  BooksAgree
  FullRefundExact
  WholeRefundPosts
  ProratedAddsUp
