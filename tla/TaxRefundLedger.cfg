SPECIFICATION Spec
CONSTANTS
  Orders = {o1}
  Refunds = {r1, r2}
  Handlers = {h1, h2}
  SaleInputs <- MCSaleInputs
  RuleVersions <- MCRuleVersions
  RefundTerms <- MCRefundTerms
  MaxQuantity = 3
  Nothing = Nothing
INVARIANT RefundReversesBooks
