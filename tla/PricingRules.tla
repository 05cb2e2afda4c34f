---------------------------- MODULE PricingRules ----------------------------
(***************************************************************************)
(* The arithmetic of Component 3: when the detector reports an item, and    *)
(* which price the rules of reasoning.py then propose.                     *)
(*                                                                         *)
(* Money is in cents (menu_items.current_price is Numeric(10, 2)); the      *)
(* decimals of the code are compared by cross multiplication and rounded    *)
(* as quantize(Decimal("1"), ROUND_HALF_UP) does, in steps of 25 cents.     *)
(***************************************************************************)
EXTENDS Integers

PRICE_STEP == 25
TARGET_MARGIN == 35            \* TARGET_CONTRIBUTION_MARGIN, in percent
MIN_MARGIN_SHORTFALL == 5
DEMAND_RECOVERY_DISCOUNT == 5
DEMAND_DECLINE_THRESHOLD == 20

\* _margin_opportunities: the margin is at least 5 points below its target.
Shortfall(price, cost) ==
    /\ price > 0
    /\ TARGET_MARGIN * price - 100 * (price - cost) >= MIN_MARGIN_SHORTFALL * price

\* What the shortfall loses on one unit, in hundredths of a cent.
LossPerUnit(price, cost) == TARGET_MARGIN * price - 100 * (price - cost)

\* _demand_opportunities.
Declined(recent, baseline) ==
    /\ baseline > 0
    /\ 100 * (baseline - recent) >= DEMAND_DECLINE_THRESHOLD * baseline

\* _price_to_step of the fraction num / den.
PriceToStep(num, den) == PRICE_STEP * ((2 * num + PRICE_STEP * den) \div (2 * PRICE_STEP * den))

\* Mutant: the target is taken for a markup on the cost.
MarginPriceByMarkup(price, cost) ==
    IF (100 + TARGET_MARGIN) * cost <= 100 * price
    THEN PriceToStep(price + PRICE_STEP, 1)
    ELSE PriceToStep((100 + TARGET_MARGIN) * cost, 100)

\* _margin_candidate: the price at which the margin is on target, or the next
\* step when the item is already there.
MarginPrice(price, cost) ==
    IF 100 * cost <= (100 - TARGET_MARGIN) * price
    THEN PriceToStep(price + PRICE_STEP, 1)
    ELSE PriceToStep(100 * cost, 100 - TARGET_MARGIN)

\* Mutant: the discount comes on top of the price.
DemandPriceRaised(price) == PriceToStep((100 + DEMAND_RECOVERY_DISCOUNT) * price, 100)

\* _demand_candidate.
DemandPrice(price) == PriceToStep((100 - DEMAND_RECOVERY_DISCOUNT) * price, 100)
=============================================================================
