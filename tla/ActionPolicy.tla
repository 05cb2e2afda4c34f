---------------------------- MODULE ActionPolicy ----------------------------
(***************************************************************************)
(* The pure gates an action passes before it may change restaurant state:  *)
(* the confidence the simulator reports (Component_2/simulator.py), the     *)
(* confidence threshold (Component_2/decision_engine.py), the critic        *)
(* (Component_4/critic.py) and the risk classifier                          *)
(* (Component_6/risk_classifier.py).                                        *)
(*                                                                         *)
(* Numbers: prices are integers in one currency unit, confidence is in      *)
(* thousandths, percentages are compared by cross multiplication, so no     *)
(* rounding is introduced.  MENU_SWAP is split by its payload's "action".   *)
(*   ok   the payload's number is a finite int, float or Decimal (the       *)
(*        simulator also parses a numeric string, the later gates do not)    *)
(*   new  that number: the new price, new supplier price or headcount delta *)
(*   cur  the current price or cost; 0 stands for None, zero and negative,  *)
(*        which every rule below treats alike                               *)
(***************************************************************************)
EXTENDS Integers

ActionTypes == {"price_change", "supplier_switch", "menu_remove",
                "menu_add", "staffing_change"}

CONFIDENCE_THRESHOLD == 500
MIN_CONFIDENCE_FOR_AUTONOMOUS_ACTION == 800
MAX_PRICE_CHANGE_PCT == 30
SMALL_PRICE_CHANGE_PCT == 10
MAX_SUPPLIER_PRICE_INCREASE_PCT == 50
MAX_HEADCOUNT_DELTA == 5

Abs(x) == IF x < 0 THEN -x ELSE x
AtLeast(x, low) == IF x < low THEN low ELSE x
AtMost(x, high) == IF x > high THEN high ELSE x

\* round(float(x / y), 3) in thousandths, for x already scaled by 1000.
RoundedRatio(x, y) == (2 * x + y) \div (2 * y)

(***************************************************************************)
(* Simulator confidence.                                                   *)
(***************************************************************************)

\* simulate_price_change before its caps: 1.0 - 1.5 * |change|, at least 0.30.
PriceConfidence(new, cur) ==
    AtLeast(RoundedRatio(1000 * cur - 1500 * Abs(new - cur), cur), 300)

\* With a profitable recipe, a recipe sold below its food cost (cap 0.45) or no
\* recipe at all (cap 0.55).
PriceConfidences(new, cur) ==
    LET full == PriceConfidence(new, cur)
    IN  {full, AtMost(full, 450), AtMost(full, 550)}

SupplierConfidences == {500, 400}    \* stock on hand, or depleted

MenuConfidences(type) == IF type = "menu_add" THEN {250} ELSE {400}

StaffingConfidences == {450}

\* The confidences simulate() can report for one proposal; the choice is the
\* data the simulator looks up.
Confidences(type, new, cur) ==
    CASE type = "price_change"    -> PriceConfidences(new, cur)
      [] type = "supplier_switch" -> SupplierConfidences
      [] type = "staffing_change" -> StaffingConfidences
      [] OTHER                    -> MenuConfidences(type)

Cleared(confidence) == confidence >= CONFIDENCE_THRESHOLD

(***************************************************************************)
(* Critic.  The result is the set of verdicts: the critic divides binary    *)
(* floats, so at exactly the limit either verdict is possible, depending    *)
(* on how the two prices are represented.                                   *)
(***************************************************************************)
VerdictsAtLimit(excess) ==
    IF excess > 0 THEN {FALSE} ELSE IF excess = 0 THEN BOOLEAN ELSE {TRUE}

CriticVerdicts(type, ok, new, cur) ==
    CASE type = "price_change" ->
            IF cur <= 0 \/ ~ok THEN {FALSE}
            ELSE VerdictsAtLimit(100 * Abs(new - cur) - MAX_PRICE_CHANGE_PCT * cur)
      [] type = "supplier_switch" ->
            IF cur <= 0 \/ ~ok THEN {FALSE}
            ELSE VerdictsAtLimit(100 * (new - cur) - MAX_SUPPLIER_PRICE_INCREASE_PCT * cur)
      [] type = "staffing_change" -> {ok /\ Abs(new) <= MAX_HEADCOUNT_DELTA}
      [] OTHER -> {TRUE}

(***************************************************************************)
(* Risk classification.                                                    *)
(***************************************************************************)
RiskLevels == {"LOW", "MEDIUM", "HIGH"}

ClassifyPriceChange(ok, new, cur) ==
    IF cur <= 0 \/ ~ok \/ new < 0 THEN "HIGH"
    ELSE CASE 100 * Abs(new - cur) > MAX_PRICE_CHANGE_PCT * cur    -> "HIGH"
           [] 100 * Abs(new - cur) <= SMALL_PRICE_CHANGE_PCT * cur -> "LOW"
           [] OTHER -> "MEDIUM"

ClassifySupplierSwitch(ok, new, cur) ==
    IF cur <= 0 \/ ~ok \/ new < 0 THEN "HIGH" ELSE "MEDIUM"

ClassifyStaffingChange(ok) == IF ok THEN "MEDIUM" ELSE "HIGH"

ClassifyRisk(type, ok, new, cur, confidence) ==
    IF confidence < MIN_CONFIDENCE_FOR_AUTONOMOUS_ACTION THEN "HIGH"
    ELSE CASE type = "price_change"    -> ClassifyPriceChange(ok, new, cur)
           [] type = "supplier_switch" -> ClassifySupplierSwitch(ok, new, cur)
           [] type = "staffing_change" -> ClassifyStaffingChange(ok)
           [] OTHER                    -> "HIGH"

RequiresApproval(level) == level # "LOW"

(***************************************************************************)
(* Effect.  The current-state projection that _apply_state_change's event   *)
(* leaves behind; 0 is the price of an item taken off the menu.             *)
(***************************************************************************)
NewValue(r, cur) ==
    CASE r.type \in {"price_change", "supplier_switch"} -> r.new
      [] r.type = "staffing_change" -> cur + r.new
      [] OTHER -> 0
=============================================================================
