----------------------------- MODULE Commission -----------------------------
(***************************************************************************)
(* The buyer's premium: CommissionService of euro-platform-api and its     *)
(* copy in euro-platform-front.  Five per cent are a twentieth: a premium  *)
(* is counted in twentieths of the unit of a price, so that it is a whole  *)
(* number; the rounding of the code's floating point is left out.          *)
(***************************************************************************)
EXTENDS AuctionRules

Twentieths == 20
MaxCommission == 7500

AtLeast(x, bound) == IF x < bound THEN bound ELSE x
AtMost(x, bound) == IF x > bound THEN bound ELSE x

\* calculate(amount), calculateCommission(price): amount * 0.05, in twentieths.
Calculate(amount) ==
  AtMost(AtLeast(amount, MinCommission * Twentieths), MaxCommission * Twentieths)

\* What the buyer pays, as the pages of the front preview it.
TotalForBuyer(price) == price * Twentieths + Calculate(price)
=============================================================================
