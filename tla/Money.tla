-------------------------------- MODULE Money --------------------------------
(***************************************************************************)
(* Exact money arithmetic: money.ts.  Amounts are integers in cents, rates *)
(* are basis points.  BigInt does not overflow, so amounts are unbounded.  *)
(***************************************************************************)
EXTENDS Integers

BPS == 10000
RoundingModes == {"HALF_UP", "DOWN"}
PricingModes == {"VAT_INCLUSIVE", "VAT_EXCLUSIVE"}
\* A VAT rule: its rate in basis points and its rounding.
Rules == [bps : Nat, rounding : RoundingModes]
Magnitude(n) == IF n < 0 THEN -n ELSE n

\* n / d, its magnitude rounded.  The code throws for d = 0.
DivideRounded(n, d, mode) ==
  LET quotient == Magnitude(n) \div Magnitude(d)
      remainder == Magnitude(n) % Magnitude(d)
      rounded == IF mode = "HALF_UP" /\ 2 * remainder >= Magnitude(d)
                 THEN quotient + 1 ELSE quotient
  IN IF (n < 0) # (d < 0) THEN -rounded ELSE rounded

Percentage(amount, bps, mode) == DivideRounded(amount * bps, BPS, mode)

\* Mutant: the VAT of an inclusive amount as if the amount were net.
ExtractVatOfGross(gross, rule) ==
  [gross |-> gross, net |-> DivideRounded(gross * BPS, BPS + rule.bps, rule.rounding),
   vat |-> Percentage(gross, rule.bps, rule.rounding)]
ExtractVat(gross, rule) ==
  LET net == DivideRounded(gross * BPS, BPS + rule.bps, rule.rounding)
  IN [gross |-> gross, net |-> net, vat |-> gross - net]

AddVat(net, rule) ==
  LET vat == Percentage(net, rule.bps, rule.rounding)
  IN [gross |-> net + vat, net |-> net, vat |-> vat]

\* applyFeeVat, and the split of a ticket line: nobody charges VAT who is not
\* registered, nor on a supply that is not standard rated.
Split(amount, pricing, chargesVat, rule) ==
  IF ~chargesVat THEN [gross |-> amount, net |-> amount, vat |-> 0]
  ELSE IF pricing = "VAT_INCLUSIVE" THEN ExtractVat(amount, rule)
  ELSE AddVat(amount, rule)
==============================================================================
