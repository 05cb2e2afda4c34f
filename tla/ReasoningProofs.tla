--------------------------- MODULE ReasoningProofs ---------------------------
(***************************************************************************)
(* What the rules of Component 3 do to prices, what is left of their        *)
(* candidates and what is reported as falling demand, for all prices,       *)
(* costs, orders, answers of the model and moves of the restaurant          *)
(* meanwhile.                                                              *)
(***************************************************************************)
EXTENDS Reasoning, FiniteSetTheorems, WellFoundedInduction, TLAPS

(***************************************************************************)
(* Arithmetic: rounding to steps of 25 cents moves a price by half a step   *)
(* at most.                                                                *)
(***************************************************************************)

\* _price_to_step rounds the fraction n / d to a step no further than half a step
\* away.
LEMMA RoundsHalfUp ==
    ASSUME NEW n \in Nat, NEW d \in Nat, d \in {1, 65, 100}
    PROVE  /\ PriceToStep(n, d) \in Nat
           /\ 2 * d * PriceToStep(n, d) <= 2 * n + 25 * d
           /\ 2 * n < 2 * d * PriceToStep(n, d) + 25 * d
<1>1. CASE d = 1
  BY <1>1 DEF PriceToStep, PRICE_STEP
<1>2. CASE d = 65
  BY <1>2 DEF PriceToStep, PRICE_STEP
<1>3. CASE d = 100
  BY <1>3 DEF PriceToStep, PRICE_STEP
<1> QED BY <1>1, <1>2, <1>3

\* _margin_candidate: for an item the detector reports above $1.50, the proposed
\* price is higher and leaves no shortfall to report.
LEMMA RaiseEndsShortfall ==
    ASSUME NEW p \in Nat, NEW c \in Nat, Shortfall(p, c), p > 150
    PROVE  /\ MarginPrice(p, c) > p
           /\ ~Shortfall(MarginPrice(p, c), c)
<1> DEFINE q == PriceToStep(100 * c, 65)
<1>1. 10 * c >= 7 * p
  BY DEF Shortfall, TARGET_MARGIN, MIN_MARGIN_SHORTFALL
<1>2. MarginPrice(p, c) = q
  <2>1. ~(100 * c <= 65 * p)
    BY <1>1
  <2> QED BY <2>1 DEF MarginPrice, TARGET_MARGIN
<1>3. /\ q \in Nat
      /\ 130 * q <= 200 * c + 1625
      /\ 200 * c < 130 * q + 1625
  BY RoundsHalfUp, 100 * c \in Nat
<1>4. \E k \in Nat : q = 25 * k
  <2> DEFINE k == (2 * (100 * c) + 25 * 65) \div (2 * 25 * 65)
  <2>1. k \in Nat /\ q = 25 * k
    BY DEF PriceToStep, PRICE_STEP
  <2> QED BY <2>1
<1>5. q > p /\ 10 * c < 7 * q
  BY <1>1, <1>3, <1>4
<1>6. ~Shortfall(q, c)
  BY <1>3, <1>5 DEF Shortfall, TARGET_MARGIN, MIN_MARGIN_SHORTFALL
<1> QED BY <1>2, <1>5, <1>6

\* _demand_candidate: above $2.50 the discounted price is lower, by a tenth at most.
LEMMA DiscountIsSmall ==
    ASSUME NEW p \in Nat, p > 250
    PROVE  /\ DemandPrice(p) < p
           /\ 100 * (p - DemandPrice(p)) <= 10 * p
<1> DEFINE q == PriceToStep(95 * p, 100)
<1>1. DemandPrice(p) = q
  BY DEF DemandPrice, DEMAND_RECOVERY_DISCOUNT
<1>2. /\ q \in Nat
      /\ 200 * q <= 190 * p + 2500
      /\ 190 * p < 200 * q + 2500
  BY RoundsHalfUp, 95 * p \in Nat
<1> QED BY <1>1, <1>2

(***************************************************************************)
(* The inductive invariant.                                                *)
(***************************************************************************)

\* Every margin opportunity of a batch was short of margin at the price and cost
\* it carries.
ShortfallsSeen ==
    \A o \in batch : o.type = "margin_deterioration" => Shortfall(o.seen, o.cost)

ReasoningInv == TypeOK /\ MovesFollowRules /\ ShortfallsSeen

\* An opportunity as the detector makes it.
WellTyped(o) ==
    /\ o.type \in OpportunityTypes
    /\ o.about \subseteq Items \cup Ingredients
    /\ o.type # "stockout_exposure" => o.entity \in Items
    /\ o.seen \in Nat /\ o.cost \in Nat

\* A rule's candidate is an unflagged, positive price of the item that the
\* opportunity is about.
LEMMA RuleCandidateFacts ==
    ASSUME NEW o, WellTyped(o), NEW c \in RuleCandidates(o)
    PROVE  /\ c.item = o.entity /\ c.item \in Items
           /\ c.price \in RulePrices(o)
           /\ c.price \in Nat \ {0}
           /\ c.review = FALSE
<1>1. PICK p \in RulePrices(o) :
         /\ p > 0
         /\ c = [item |-> o.entity, price |-> p, review |-> FALSE, source |-> "deterministic"]
  BY DEF RuleCandidates
<1>2. o.type # "stockout_exposure"
  BY <1>1 DEF WellTyped, RulePrices
<1>3. p \in Nat
  <2>1. CASE o.type = "margin_deterioration"
    <3>1. p = MarginPrice(o.seen, o.cost)
      BY <1>1, <2>1 DEF RulePrices
    <3>2. /\ PriceToStep(o.seen + 25, 1) \in Nat
          /\ PriceToStep(100 * o.cost, 65) \in Nat
      <4>1. o.seen + 25 \in Nat /\ 100 * o.cost \in Nat
        BY DEF WellTyped
      <4> QED BY <4>1, RoundsHalfUp
    <3> QED BY <3>1, <3>2 DEF MarginPrice, TARGET_MARGIN, PRICE_STEP
  <2>2. CASE o.type = "demand_decline"
    <3>1. p = DemandPrice(o.seen)
      BY <1>1, <2>2 DEF RulePrices
    <3>2. 95 * o.seen \in Nat
      BY DEF WellTyped
    <3> QED BY <3>1, <3>2, RoundsHalfUp DEF DemandPrice, DEMAND_RECOVERY_DISCOUNT
  <2> QED BY <1>2, <2>1, <2>2 DEF WellTyped, OpportunityTypes
<1> QED BY <1>1, <1>2, <1>3 DEF WellTyped

\* detect_opportunities returns well-typed opportunities, and reports a margin only
\* when it is short.
LEMMA DetectedFacts ==
    ASSUME TypeOK, NEW o \in Detected
    PROVE  /\ WellTyped(o)
           /\ o.type = "margin_deterioration" => Shortfall(o.seen, o.cost)
<1> USE ReasoningAssumption DEF ReasoningAssumption
<1>1. CASE o \in MarginOpportunities
  <2>1. PICK i \in Items :
          /\ Shortfall(price[i], cost[i])
          /\ o = [type |-> "margin_deterioration", entity |-> i, about |-> {i},
                  seen |-> price[i], cost |-> cost[i],
                  impact |-> LossPerUnit(price[i], cost[i]) * AtLeast(Recent(i), 1),
                  confidence |-> IF Recent(i) > 0 THEN 85 ELSE 65]
    BY <1>1 DEF MarginOpportunities
  <2>2. price[i] \in Nat /\ cost[i] \in Nat
    BY DEF TypeOK
  <2> QED BY <2>1, <2>2 DEF WellTyped, OpportunityTypes
<1>2. CASE o \in StockoutOpportunities
  <2>1. PICK g \in low :
          o = [type |-> "stockout_exposure", entity |-> g,
               about |-> {i \in Items : <<i, g>> \in Uses} \cup {g},
               seen |-> 0, cost |-> 0, impact |-> 0, confidence |-> 90]
    BY <1>2 DEF StockoutOpportunities
  <2>2. g \in Ingredients
    BY DEF TypeOK
  <2> QED BY <2>1, <2>2 DEF WellTyped, OpportunityTypes
<1>3. CASE o \in DemandOpportunities
  <2>1. PICK i \in Items :
          o = [type |-> "demand_decline", entity |-> i, about |-> {i},
               seen |-> price[i], cost |-> 0,
               impact |-> 100 * price[i] * (Baseline(i) - Recent(i)), confidence |-> 75]
    BY <1>3 DEF DemandOpportunities
  <2>2. price[i] \in Nat
    BY DEF TypeOK
  <2> QED BY <2>1, <2>2 DEF WellTyped, OpportunityTypes
<1> QED BY <1>1, <1>2, <1>3 DEF Detected

\* What the validator lets through is flagged for review and has a positive price.
LEMMA AcceptedFacts ==
    ASSUME NEW o, NEW answer \in Answers, NEW c \in Accepted(o, answer)
    PROVE  c.review = TRUE /\ c.price \in Nat \ {0}
<1>1. PICK n \in DOMAIN answer : Valid(o, answer[n]) /\ c = Candidate(answer[n])
  BY DEF Accepted
<1>2. answer[n].price \in Int /\ answer[n].price > 0
  BY <1>1, ReasoningAssumption DEF ReasoningAssumption, Valid, MatchesEvidence
<1> QED BY <1>1, <1>2 DEF Candidate

\* Nothing is proposed when the system starts.
LEMMA InitInv == Init => ReasoningInv
<1> SUFFICES ASSUME Init PROVE ReasoningInv
  OBVIOUS
<1> USE ReasoningAssumption DEF ReasoningAssumption
<1>1. price \in [Items -> Nat] /\ cost \in [Items -> Costs]
  BY DEF Init
<1>2. TypeOK
  BY <1>1 DEF Init, TypeOK, Days
<1> QED BY <1>2 DEF Init, ReasoningInv, MovesFollowRules, ShortfallsSeen

\* Whatever the model answers, an opportunity that is reasoned about gets rule
\* candidates and flagged ones.
LEMMA ReasonedInv ==
    ASSUME ReasoningInv, NEW o \in todo, NEW C, Reasoned(o, C),
           \A c \in C : /\ c.price \in Nat \ {0}
                        /\ ~c.review => c \in RuleCandidates(o)
    PROVE  ReasoningInv'
<1>1. /\ proposals' = [proposals EXCEPT ![o] = C]
      /\ todo' = todo \ {o}
      /\ UNCHANGED <<today, sold, price, cost, low, stage, batch, held>>
  BY DEF Reasoned, state
<1>2. DOMAIN proposals' = batch
  BY <1>1 DEF ReasoningInv, TypeOK
<1>3. \A p \in batch : proposals'[p] = IF p = o THEN C ELSE proposals[p]
  BY <1>1 DEF ReasoningInv, TypeOK
<1>4. TypeOK'
  BY <1>1, <1>2, <1>3 DEF ReasoningInv, TypeOK
<1>5. MovesFollowRules'
  <2>1. \A p \in batch : \A c \in proposals'[p] : ~c.review => c \in RuleCandidates(p)
    BY <1>3 DEF ReasoningInv, MovesFollowRules, Actionable
  <2> QED BY <1>1, <2>1 DEF ReasoningInv, MovesFollowRules, Actionable
<1> QED BY <1>1, <1>4, <1>5 DEF ReasoningInv, ShortfallsSeen

\* A batch starts with what was detected and no candidates.
LEMMA DetectInv == ReasoningInv /\ Detect => ReasoningInv'
<1> SUFFICES ASSUME ReasoningInv, Detect PROVE ReasoningInv'
  OBVIOUS
<1>1. batch' \subseteq Detected
  BY DEF Detect, Truncations
<1>2. \A o \in batch' : /\ WellTyped(o)
                        /\ o.type = "margin_deterioration" => Shortfall(o.seen, o.cost)
  BY <1>1, DetectedFacts DEF ReasoningInv
<1>3. /\ UNCHANGED <<today, sold, price, cost, low, held>>
      /\ todo' = batch' /\ stage' = "reason"
      /\ proposals' = [o \in batch' |-> {}]
  BY DEF Detect, state
<1>4. TypeOK'
  BY <1>2, <1>3 DEF ReasoningInv, TypeOK, WellTyped
<1>5. MovesFollowRules'
  BY <1>3 DEF ReasoningInv, MovesFollowRules, Actionable
<1>6. ShortfallsSeen'
  BY <1>2 DEF ShortfallsSeen
<1> QED BY <1>4, <1>5, <1>6 DEF ReasoningInv

\* Reasoning about one opportunity: by rules, with the model, or giving up.
LEMMA ReasonInv == ASSUME ReasoningInv, NEW o \in todo, Reason(o) PROVE ReasoningInv'
<1>1. o \in batch /\ WellTyped(o)
  BY DEF ReasoningInv, TypeOK, WellTyped
<1>2. \A c \in RuleCandidates(o) : c.price \in Nat \ {0}
  BY <1>1, RuleCandidateFacts
<1>3. CASE RulesOnly(o)
  <2>1. Reasoned(o, RuleCandidates(o))
    BY <1>3 DEF RulesOnly
  <2> QED BY <1>2, <2>1, ReasonedInv
<1>4. ASSUME NEW answer \in Answers, ModelAnswers(o, answer) PROVE ReasoningInv'
  <2> DEFINE C == Merge(RuleCandidates(o), Accepted(o, answer))
  <2>1. Reasoned(o, C)
    BY <1>4 DEF ModelAnswers
  <2>2. \A c \in C : c \in RuleCandidates(o) \/ c \in Accepted(o, answer)
    BY DEF Merge
  <2>3. \A c \in C : /\ c.price \in Nat \ {0}
                     /\ ~c.review => c \in RuleCandidates(o)
    BY <1>2, <2>2, AcceptedFacts
  <2> HIDE DEF C
  <2> QED BY <2>1, <2>3, ReasonedInv
<1>5. CASE AnswerUnreadable(o)
  <2>1. /\ UNCHANGED <<today, sold, price, cost, low, held>>
        /\ stage' = "idle" /\ batch' = {} /\ todo' = {} /\ proposals' = [p \in {} |-> {}]
    BY <1>5 DEF AnswerUnreadable, state
  <2> QED BY <2>1 DEF ReasoningInv, TypeOK, MovesFollowRules, Actionable, ShortfallsSeen
<1> QED BY <1>3, <1>4, <1>5 DEF Reason

\* Acting on one opportunity: what is executed or held is a rule's candidate.
LEMMA ActInv == ASSUME ReasoningInv, NEW o \in todo, Act(o) PROVE ReasoningInv'
<1>1. o \in batch /\ WellTyped(o)
  BY DEF ReasoningInv, TypeOK, WellTyped
<1>2. ASSUME NEW c \in Actionable(o)
      PROVE  c \in RuleCandidates(o) /\ c.item \in Items /\ c.price \in Nat \ {0}
  BY <1>1, <1>2, RuleCandidateFacts DEF ReasoningInv, MovesFollowRules
<1>3. ASSUME NEW c \in Actionable(o), Execute(o, c) PROVE ReasoningInv'
  <2>1. /\ UNCHANGED <<today, sold, cost, low, stage, batch, proposals, held>>
        /\ todo' = todo \ {o}
        /\ price' = [price EXCEPT ![c.item] = c.price]
    BY <1>3 DEF Execute, Handled
  <2>2. price' \in [Items -> Nat]
    BY <1>2, <2>1 DEF ReasoningInv, TypeOK
  <2>3. TypeOK'
    BY <2>1, <2>2 DEF ReasoningInv, TypeOK
  <2> QED BY <2>1, <2>3 DEF ReasoningInv, MovesFollowRules, Actionable, ShortfallsSeen
<1>4. ASSUME NEW c \in Actionable(o), HoldForReview(o, c) PROVE ReasoningInv'
  <2>1. /\ UNCHANGED <<today, sold, price, cost, low, stage, batch, proposals>>
        /\ todo' = todo \ {o}
        /\ held' = held \cup {<<o, c>>}
    BY <1>4 DEF HoldForReview, Handled
  <2>2. TypeOK'
    BY <1>2, <2>1 DEF ReasoningInv, TypeOK
  <2> QED BY <1>2, <2>1, <2>2 DEF ReasoningInv, MovesFollowRules, Actionable, ShortfallsSeen
<1>5. CASE PassOver(o)
  <2>1. /\ UNCHANGED <<today, sold, price, cost, low, stage, batch, proposals, held>>
        /\ todo' = todo \ {o}
    BY <1>5 DEF PassOver, Handled
  <2> QED BY <2>1 DEF ReasoningInv, TypeOK, MovesFollowRules, Actionable, ShortfallsSeen
<1> QED BY <1>3, <1>4, <1>5 DEF Act

\* A reviewer's answer, given at any time.
LEMMA ReviewInv ==
    ASSUME ReasoningInv, NEW h \in held, Approve(h) \/ Reject(h)
    PROVE  ReasoningInv'
<1>1. /\ UNCHANGED <<today, sold, cost, low, stage, batch, todo, proposals>>
      /\ held' = held \ {h}
      /\ price' = price \/ price' = [price EXCEPT ![h[2].item] = h[2].price]
  BY DEF Approve, Reject, state
<1>2. price' \in [Items -> Nat]
  BY <1>1 DEF ReasoningInv, TypeOK
<1>3. TypeOK'
  BY <1>1, <1>2 DEF ReasoningInv, TypeOK
<1> QED BY <1>1, <1>3 DEF ReasoningInv, MovesFollowRules, Actionable, ShortfallsSeen

\* The two steps between the stages of a batch.
LEMMA StageInv == ReasoningInv /\ (ReasoningDone \/ Finish) => ReasoningInv'
<1> SUFFICES ASSUME ReasoningInv, ReasoningDone \/ Finish PROVE ReasoningInv'
  OBVIOUS
<1>1. CASE ReasoningDone
  <2>1. /\ UNCHANGED <<today, sold, price, cost, low, batch, proposals, held>>
        /\ stage' = "act" /\ todo' = batch
    BY <1>1 DEF ReasoningDone, state
  <2> QED BY <2>1 DEF ReasoningInv, TypeOK, MovesFollowRules, Actionable, ShortfallsSeen
<1>2. CASE Finish
  <2>1. /\ UNCHANGED <<today, sold, price, cost, low, todo, held>>
        /\ todo = {} /\ stage' = "idle" /\ batch' = {} /\ proposals' = [p \in {} |-> {}]
    BY <1>2 DEF Finish, state
  <2> QED BY <2>1 DEF ReasoningInv, TypeOK, MovesFollowRules, Actionable, ShortfallsSeen
<1> QED BY <1>1, <1>2

\* The restaurant does not touch what was detected and proposed.
LEMMA OperateInv == ReasoningInv /\ Operate => ReasoningInv'
<1> SUFFICES ASSUME ReasoningInv, Operate PROVE ReasoningInv'
  OBVIOUS
<1> USE ReasoningAssumption DEF ReasoningAssumption
<1>1. UNCHANGED <<stage, batch, todo, proposals, held>>
  BY DEF Operate, Sell, NextDay, OthersReprice, CostMoves, StockMoves, Restaurant
<1>2. /\ today' \in Days
      /\ price' \in [Items -> Nat]
      /\ cost' \in [Items -> Costs]
      /\ low' \subseteq Ingredients
  <2>1. /\ today \in Days /\ low \subseteq Ingredients
        /\ price \in [Items -> Nat] /\ cost \in [Items -> Costs]
    BY DEF ReasoningInv, TypeOK
  <2>2. today' \in Days
    BY <2>1 DEF Operate, Sell, NextDay, OthersReprice, CostMoves, StockMoves, Days
  <2>3. price' \in [Items -> Nat]
    BY <2>1 DEF Operate, Sell, NextDay, OthersReprice, CostMoves, StockMoves
  <2>4. cost' \in [Items -> Costs]
    BY <2>1 DEF Operate, Sell, NextDay, OthersReprice, CostMoves, StockMoves
  <2>5. low' \subseteq Ingredients
    BY <2>1 DEF Operate, Sell, NextDay, OthersReprice, CostMoves, StockMoves
  <2> QED BY <2>2, <2>3, <2>4, <2>5
<1>3. sold' \in [Items -> [Days -> 0..MaxUnits]]
  <2>1. ASSUME NEW i \in Items, Sell(i) PROVE sold' \in [Items -> [Days -> 0..MaxUnits]]
    <3>1. /\ sold \in [Items -> [Days -> 0..MaxUnits]]
          /\ today \in Days
      BY DEF ReasoningInv, TypeOK
    <3>2. /\ sold[i][today] \in 0..MaxUnits /\ sold[i][today] < MaxUnits
          /\ sold' = [sold EXCEPT ![i] = [sold[i] EXCEPT ![today] = sold[i][today] + 1]]
      BY <2>1, <3>1 DEF Sell
    <3>3. sold[i][today] + 1 \in 0..MaxUnits
      BY <3>2
    <3>4. [sold[i] EXCEPT ![today] = sold[i][today] + 1] \in [Days -> 0..MaxUnits]
      BY <3>1, <3>3
    <3> QED BY <3>1, <3>2, <3>4
  <2>2. (\E i \in Items : Sell(i)) \/ UNCHANGED sold
    BY DEF Operate, NextDay, OthersReprice, CostMoves, StockMoves
  <2> QED BY <2>1, <2>2 DEF ReasoningInv, TypeOK
<1>4. TypeOK'
  BY <1>1, <1>2, <1>3 DEF ReasoningInv, TypeOK
<1> QED BY <1>1, <1>4 DEF ReasoningInv, MovesFollowRules, Actionable, ShortfallsSeen

\* One case for each part of Next.
LEMMA NextInv == ReasoningInv /\ [Next]_vars => ReasoningInv'
<1> SUFFICES ASSUME ReasoningInv, [Next]_vars PROVE ReasoningInv'
  OBVIOUS
<1>1. CASE UNCHANGED vars
  BY <1>1 DEF vars, state, ReasoningInv, TypeOK, MovesFollowRules, Actionable, ShortfallsSeen
<1>2. CASE Next
  BY <1>2, DetectInv, ReasonInv, ActInv, ReviewInv, StageInv, OperateInv DEF Next
<1> QED BY <1>1, <1>2

\* The inductive invariant holds always.
THEOREM ReasoningInvariance == Spec => []ReasoningInv
<1> QED BY InitInv, NextInv, PTL DEF Spec

\* No price that the loop changes or asks a reviewer about comes from the model
\* (the hard flag of validate_llm_candidate and the merge that keeps the rules').
THEOREM MovesAreRules == Spec => []MovesFollowRules
<1>1. ReasoningInv => MovesFollowRules
  BY DEF ReasoningInv
<1> QED BY <1>1, ReasoningInvariance, PTL

(***************************************************************************)
(* The moves of the loop.                                                  *)
(***************************************************************************)

\* A step that acts on an opportunity sets the price of its rule.
LEMMA MoveIsRulePrice ==
    ASSUME ReasoningInv, [Next]_vars, NEW o \in batch, ActedOn(o)
    PROVE  WellTyped(o) /\ price'[o.entity] \in RulePrices(o)
<1>1. WellTyped(o)
  BY DEF ReasoningInv, TypeOK, WellTyped
<1>2. PICK c \in Actionable(o) : Execute(o, c)
  <2>1. stage = "act" /\ o \in todo /\ o \notin todo' /\ price' # price
    BY DEF ActedOn
  <2>2. Next
    BY <2>1 DEF vars, state
  <2>3. PICK p \in todo : Act(p)
    BY <2>1, <2>2 DEF Next, Detect, Reason, RulesOnly, ModelAnswers, AnswerUnreadable,
          ReasoningDone, Finish, Approve, Reject, Operate, Sell, NextDay, OthersReprice,
          CostMoves, StockMoves, Restaurant
  <2>4. PICK c \in Actionable(p) : Execute(p, c)
    BY <2>1, <2>3 DEF Act, HoldForReview, PassOver
  <2>5. p = o
    BY <2>1, <2>4 DEF Execute, Handled
  <2> QED BY <2>4, <2>5
<1>3. /\ c.item = o.entity /\ c.item \in Items
      /\ c.price \in RulePrices(o)
  BY <1>1, RuleCandidateFacts DEF ReasoningInv, MovesFollowRules
<1>4. price'[o.entity] = c.price
  BY <1>2, <1>3 DEF Execute, ReasoningInv, TypeOK
<1> QED BY <1>1, <1>3, <1>4

\* For every price above $1.50 and every cost: a raise that meets the state it was
\* made for ends the shortfall.
THEOREM RaisesSuffice == Spec => RaisesEndShortfalls
<1>1. ASSUME ReasoningInv, [Next]_vars, NEW o \in batch,
             o.type = "margin_deterioration", o.seen > 150, ActedOn(o),
             cost[o.entity] = o.cost
      PROVE  /\ price'[o.entity] > o.seen
             /\ ~Shortfall(price'[o.entity], cost[o.entity])
  <2>1. price'[o.entity] = MarginPrice(o.seen, o.cost)
    BY <1>1, MoveIsRulePrice DEF RulePrices
  <2>2. o.seen \in Nat /\ o.cost \in Nat /\ Shortfall(o.seen, o.cost)
    BY <1>1 DEF ReasoningInv, TypeOK, ShortfallsSeen
  <2> QED BY <1>1, <2>1, <2>2, RaiseEndsShortfall
<1>2. ReasoningInv /\ [Next]_vars => [RaiseEndsItsShortfall]_vars
  BY <1>1 DEF RaiseEndsItsShortfall
<1> QED BY <1>2, ReasoningInvariance, PTL DEF Spec, RaisesEndShortfalls

\* For every price above $2.50: the answer to falling demand is a small decrease.
THEOREM DiscountsStaySmall == Spec => DiscountsAreSmall
<1>1. ASSUME ReasoningInv, [Next]_vars, NEW o \in batch,
             o.type = "demand_decline", o.seen > 250, ActedOn(o)
      PROVE  /\ price'[o.entity] < o.seen
             /\ 100 * (o.seen - price'[o.entity]) <= SMALL_PRICE_CHANGE_PCT * o.seen
  <2>1. price'[o.entity] = DemandPrice(o.seen)
    BY <1>1, MoveIsRulePrice DEF RulePrices
  <2>2. o.seen \in Nat
    BY <1>1 DEF ReasoningInv, TypeOK
  <2> QED BY <1>1, <2>1, <2>2, DiscountIsSmall DEF SMALL_PRICE_CHANGE_PCT
<1>2. ReasoningInv /\ [Next]_vars => [DiscountIsASmallDecrease]_vars
  BY <1>1 DEF DiscountIsASmallDecrease
<1> QED BY <1>2, ReasoningInvariance, PTL DEF Spec, DiscountsAreSmall

(***************************************************************************)
(* What reasoning leaves of an opportunity.                                *)
(***************************************************************************)

\* The candidates C of the opportunity o, as its handling finds them.
Survived(o, C) ==
    LET model == C \ RuleCandidates(o)
    IN  /\ RuleCandidates(o) \subseteq C
        /\ Cardinality(model) <= MAX_LLM_CANDIDATES
        /\ \A c \in model : c.review /\ c.item \in o.about
        /\ \A c, d \in C : Signature(c) = Signature(d) => c = d

\* An opportunity leaves "todo" only with its candidates.
ReasonedSurvive ==
    /\ stage = "idle" => batch = {}
    /\ \A o \in batch : stage = "act" \/ o \notin todo => Survived(o, proposals[o])

\* A rule has one answer at most.
LEMMA OneRuleCandidate ==
    ASSUME NEW o, NEW c \in RuleCandidates(o), NEW d \in RuleCandidates(o)
    PROVE  c = d
<1>1. ASSUME NEW p \in RulePrices(o), NEW q \in RulePrices(o) PROVE p = q
  <2>1. \/ RulePrices(o) = {MarginPrice(o.seen, o.cost)}
        \/ RulePrices(o) = {DemandPrice(o.seen)}
        \/ RulePrices(o) = {}
    BY DEF RulePrices
  <2> QED BY <2>1
<1> QED BY <1>1 DEF RuleCandidates

\* The model's list counts up to its ceiling, however long it is: the ordinal among
\* the valid ones tells the accepted candidates apart.
LEMMA AcceptedAreFew ==
    ASSUME NEW o, NEW answer \in Answers
    PROVE  /\ IsFiniteSet(Accepted(o, answer))
           /\ Cardinality(Accepted(o, answer)) <= MAX_LLM_CANDIDATES
<1> DEFINE valid == {n \in DOMAIN answer : Valid(o, answer[n])}
           below(m) == {k \in valid : k < m}
           taken == {m \in valid : Cardinality(below(m)) < MAX_LLM_CANDIDATES}
           place(c) == CHOOSE m \in taken : c = Candidate(answer[m])
           A == Accepted(o, answer)
           f == [c \in A |-> Cardinality(below(place(c)))]
           T == 0..(MAX_LLM_CANDIDATES - 1)
<1>1. IsFiniteSet(valid) /\ valid \subseteq Nat
  <2>1. IsFiniteSet(DOMAIN answer) /\ DOMAIN answer \subseteq Nat
    BY ReasoningAssumption DEF ReasoningAssumption
  <2>2. valid \in SUBSET DOMAIN answer
    OBVIOUS
  <2> QED BY <2>1, <2>2, FS_Subset
<1>2. A = {Candidate(answer[m]) : m \in taken}
  BY DEF Accepted
<1>3. ASSUME NEW c \in A PROVE place(c) \in taken /\ c = Candidate(answer[place(c)])
  <2>1. \E m \in taken : c = Candidate(answer[m])
    BY <1>2
  <2> QED BY <2>1
<1>4. ASSUME NEW m \in valid PROVE IsFiniteSet(below(m)) /\ Cardinality(below(m)) \in Nat
  <2>1. below(m) \in SUBSET valid
    OBVIOUS
  <2> QED BY <1>1, <2>1, FS_Subset, FS_CardinalityType
<1>5. ASSUME NEW m \in valid, NEW n \in valid, m < n
      PROVE  Cardinality(below(m)) < Cardinality(below(n))
  <2>1. below(m) \in SUBSET below(n) /\ m \in below(n) /\ m \notin below(m)
    BY <1>1, <1>5
  <2>2. IsFiniteSet(below(n))
    BY <1>4
  <2> HIDE DEF below
  <2>3. /\ Cardinality(below(m)) <= Cardinality(below(n))
        /\ Cardinality(below(n)) = Cardinality(below(m)) => below(n) = below(m)
    BY <2>1, <2>2, FS_Subset
  <2> QED BY <1>4, <2>1, <2>3
<1>6. MAX_LLM_CANDIDATES \in Nat
  BY ReasoningAssumption DEF ReasoningAssumption
<1>7. ASSUME NEW c \in A PROVE f[c] \in T
  <2>1. place(c) \in valid /\ Cardinality(below(place(c))) < MAX_LLM_CANDIDATES
    BY <1>3
  <2>2. Cardinality(below(place(c))) \in Nat
    BY <1>4, <2>1
  <2> HIDE DEF below, place, A
  <2> QED BY <1>6, <2>1, <2>2
<1>8. ASSUME NEW c \in A, NEW d \in A, f[c] = f[d] PROVE c = d
  <2>1. place(c) \in valid /\ place(d) \in valid /\ place(c) \in Nat /\ place(d) \in Nat
    BY <1>1, <1>3
  <2>2. Cardinality(below(place(c))) = Cardinality(below(place(d)))
    BY <1>8
  <2> HIDE DEF below, place, A, valid
  <2>3. ~(place(c) < place(d)) /\ ~(place(d) < place(c))
    BY <1>4, <1>5, <2>1, <2>2
  <2>4. place(c) = place(d)
    BY <2>1, <2>3
  <2> QED BY <1>3, <2>4
<1> HIDE DEF f, A, T
<1>9. f \in Injection(A, T)
  <2>1. f \in [A -> T]
    BY <1>7 DEF f
  <2> QED BY <1>8, <2>1 DEF Injection, IsInjective
<1>10. IsFiniteSet(T) /\ Cardinality(T) = MAX_LLM_CANDIDATES
  <2>1. /\ IsFiniteSet(0..(MAX_LLM_CANDIDATES - 1))
        /\ Cardinality(0..(MAX_LLM_CANDIDATES - 1)) =
             IF 0 > MAX_LLM_CANDIDATES - 1 THEN 0 ELSE (MAX_LLM_CANDIDATES - 1) - 0 + 1
    BY <1>6, FS_Interval, MAX_LLM_CANDIDATES - 1 \in Int
  <2> QED BY <1>6, <2>1 DEF T
<1>11. IsFiniteSet(A) /\ Cardinality(A) <= Cardinality(T)
  BY <1>9, <1>10, FS_Injection
<1> QED BY <1>10, <1>11 DEF A

\* Merging keeps the rules' candidates and drops what repeats one of them.
LEMMA MergedSurvive ==
    ASSUME NEW o, NEW answer \in Answers
    PROVE  Survived(o, Merge(RuleCandidates(o), Accepted(o, answer)))
<1> DEFINE R == RuleCandidates(o)
           A == Accepted(o, answer)
           C == Merge(R, A)
<1>1. C = R \cup {c \in A : \A d \in R : Signature(d) # Signature(c)}
  BY DEF Merge
<1>2. ASSUME NEW c \in A
      PROVE  \E n \in DOMAIN answer : Valid(o, answer[n]) /\ c = Candidate(answer[n])
  BY DEF Accepted
<1>3. ASSUME NEW c \in A PROVE c.review /\ c.item \in o.about
  BY <1>2 DEF Candidate, Valid, MatchesEvidence
<1>4. ASSUME NEW c \in A, NEW d \in A, Signature(c) = Signature(d) PROVE c = d
  <2>1. c.item = d.item /\ c.price = d.price
    BY <1>4 DEF Signature
  <2>2. PICK n \in DOMAIN answer : c = Candidate(answer[n])
    BY <1>2
  <2>3. PICK m \in DOMAIN answer : d = Candidate(answer[m])
    BY <1>2
  <2>4. /\ c.item = answer[n].item /\ c.price = answer[n].price
        /\ d.item = answer[m].item /\ d.price = answer[m].price
    BY <2>2, <2>3 DEF Candidate
  <2> QED BY <2>1, <2>2, <2>3, <2>4 DEF Candidate
<1>5. Cardinality(C \ R) <= MAX_LLM_CANDIDATES
  <2>1. C \ R \in SUBSET A
    BY <1>1
  <2>2. /\ Cardinality(C \ R) <= Cardinality(A) /\ IsFiniteSet(C \ R)
        /\ Cardinality(A) <= MAX_LLM_CANDIDATES /\ IsFiniteSet(A)
    BY <2>1, AcceptedAreFew, FS_Subset
  <2>3. Cardinality(C \ R) \in Nat /\ Cardinality(A) \in Nat /\ MAX_LLM_CANDIDATES \in Nat
    BY <2>2, FS_CardinalityType, ReasoningAssumption DEF ReasoningAssumption
  <2> QED BY <2>2, <2>3
<1>6. ASSUME NEW c \in C, NEW d \in C, Signature(c) = Signature(d) PROVE c = d
  <2>1. CASE c \in R /\ d \in R
    BY <2>1, OneRuleCandidate
  <2>2. CASE c \notin R /\ d \notin R
    BY <1>1, <1>4, <1>6, <2>2
  <2>3. CASE c \in R /\ d \notin R
    BY <1>1, <1>6, <2>3
  <2>4. CASE c \notin R /\ d \in R
    BY <1>1, <1>6, <2>4
  <2> QED BY <2>1, <2>2, <2>3, <2>4
<1>7. R \subseteq C /\ \A c \in C \ R : c \in A
  BY <1>1
<1> QED BY <1>3, <1>5, <1>6, <1>7 DEF Survived

LEMMA RulesSurvive ==
    ASSUME NEW o
    PROVE  Survived(o, RuleCandidates(o))
<1>1. RuleCandidates(o) \ RuleCandidates(o) = {}
  OBVIOUS
<1>2. Cardinality(RuleCandidates(o) \ RuleCandidates(o)) <= MAX_LLM_CANDIDATES
  <2>1. Cardinality({}) = 0
    BY FS_EmptySet
  <2>2. 0 <= MAX_LLM_CANDIDATES
    BY ReasoningAssumption DEF ReasoningAssumption
  <2> QED BY <1>1, <2>1, <2>2
<1> QED BY <1>1, <1>2, OneRuleCandidate DEF Survived

\* Reasoning about one opportunity leaves the others' candidates alone.
LEMMA ReasonSurvives ==
    ASSUME TypeOK, ReasonedSurvive, NEW o \in todo, Reason(o)
    PROVE  ReasonedSurvive'
<1>1. ASSUME NEW C, Reasoned(o, C), Survived(o, C), stage = "reason" PROVE ReasonedSurvive'
  <2>1. /\ DOMAIN proposals = batch /\ o \in batch
        /\ proposals' = [proposals EXCEPT ![o] = C] /\ todo' = todo \ {o}
        /\ UNCHANGED <<stage, batch>>
    BY <1>1 DEF Reasoned, TypeOK
  <2>2. ASSUME NEW p \in batch, p \notin todo' PROVE Survived(p, proposals'[p])
    <3>1. CASE p = o
      BY <1>1, <2>1, <3>1
    <3>2. CASE p # o
      BY <2>1, <2>2, <3>2 DEF ReasonedSurvive
    <3> QED BY <3>1, <3>2
  <2> QED BY <1>1, <2>1, <2>2 DEF ReasonedSurvive, Survived
<1>2. CASE RulesOnly(o)
  BY <1>1, <1>2, RulesSurvive DEF RulesOnly
<1>3. ASSUME NEW answer \in Answers, ModelAnswers(o, answer) PROVE ReasonedSurvive'
  BY <1>1, <1>3, MergedSurvive DEF ModelAnswers
<1>4. CASE AnswerUnreadable(o)
  BY <1>4 DEF AnswerUnreadable, ReasonedSurvive
<1> QED BY <1>2, <1>3, <1>4 DEF Reason

LEMMA NextSurvives ==
    ASSUME TypeOK, ReasonedSurvive, [Next]_vars
    PROVE  ReasonedSurvive'
<1>1. CASE Detect
  BY <1>1 DEF Detect, ReasonedSurvive
<1>2. ASSUME NEW o \in todo, Act(o) PROVE ReasonedSurvive'
  <2>1. stage = "act" /\ UNCHANGED <<stage, batch, proposals>>
    BY <1>2 DEF Act, Execute, HoldForReview, PassOver, Handled
  <2> QED BY <2>1 DEF ReasonedSurvive, Survived
<1>3. CASE ReasoningDone
  BY <1>3 DEF ReasoningDone, ReasonedSurvive, Survived
<1>4. CASE Finish
  BY <1>4 DEF Finish, ReasonedSurvive
<1>5. CASE UNCHANGED <<stage, batch, todo, proposals>>
  BY <1>5 DEF ReasonedSurvive, Survived
<1>6. CASE Operate \/ UNCHANGED vars \/ (\E h \in held : Approve(h) \/ Reject(h))
  BY <1>5, <1>6 DEF Operate, Sell, NextDay, OthersReprice, CostMoves, StockMoves, Restaurant,
                    Approve, Reject, vars
<1> QED BY <1>1, <1>2, <1>3, <1>4, <1>6, ReasonSurvives DEF Next

\* Every variable keeps its type, for all menus, recipes, calendars and answers.
THEOREM TypeCorrect == Spec => []TypeOK
<1>1. ReasoningInv => TypeOK
  BY DEF ReasoningInv
<1> QED BY <1>1, ReasoningInvariance, PTL

\* Whatever the model answers about one opportunity or another, each is handled
\* with the candidates its rule made and at most the ceiling of others.
THEOREM RulesAreKept == Spec => []RulesSurviveTheModel
<1>1. Init => ReasonedSurvive
  BY DEF Init, ReasonedSurvive
<1>2. ReasoningInv /\ ReasonedSurvive /\ [Next]_vars => ReasonedSurvive'
  BY NextSurvives DEF ReasoningInv
<1>3. ReasonedSurvive => RulesSurviveTheModel
  BY DEF ReasonedSurvive, Survived, RulesSurviveTheModel
<1> QED BY <1>1, <1>2, <1>3, ReasoningInvariance, PTL DEF Spec

(***************************************************************************)
(* Sums over finite sets: MapThenSumSet adds the terms one by one, picking   *)
(* each by CHOOSE.  The function it chooses is fixed by its equation, and    *)
(* what is shown of it is shown of a least set that would contradict it.     *)
(***************************************************************************)

\* The element that is added next.
Some(s) == CHOOSE x \in s : TRUE

\* g gives the sum of f over every subset of S.
Sums(g, f, S) ==
    g = [s \in SUBSET S |-> IF s = {} THEN 0 ELSE f[Some(s)] + g[s \ {Some(s)}]]

\* The equation is the one that MapThenSumSet chooses a function for.
LEMMA SumIsFold ==
    ASSUME NEW S, NEW f
    PROVE  MapThenSumSet(LAMBDA d : f[d], S) = (CHOOSE g : Sums(g, f, S))[S]
BY DEF MapThenSumSet, MapThenFoldSet, Sums, Some

\* The element that is picked is one of the set.
LEMMA SomeIsIn ==
    ASSUME NEW s, s # {}
    PROVE  Some(s) \in s
BY DEF Some

\* Among sets of elements of a finite set there is a least one.
LEMMA LeastSubset ==
    ASSUME NEW S, IsFiniteSet(S), NEW B, B \subseteq SUBSET S, B # {}
    PROVE  \E s \in B : \A u \in B : u \subseteq s => u = s
<1>1. FiniteSubsetsOf(S) = SUBSET S
  BY FS_FiniteSubsetsOfFinite
<1>2. IsWellFoundedOn(StrictSubsetOrdering(S), SUBSET S)
  BY <1>1, FS_StrictSubsetOrderingWellFounded
<1>3. PICK s \in B : \A u \in B : ~(<<u, s>> \in StrictSubsetOrdering(S))
  BY <1>2, WFMin
<1>4. \A u \in B : u \subseteq s => u = s
  BY <1>3 DEF StrictSubsetOrdering
<1> QED BY <1>3, <1>4

\* The equation has one solution at most.
LEMMA SumsAgree ==
    ASSUME NEW S, IsFiniteSet(S), NEW f, NEW g, NEW h, Sums(g, f, S), Sums(h, f, S), NEW t \in SUBSET S
    PROVE  g[t] = h[t]
<1> DEFINE B == {s \in SUBSET S : g[s] # h[s]}
<1> SUFFICES ASSUME B # {} PROVE FALSE
  OBVIOUS
<1>1. PICK s \in B : \A u \in B : u \subseteq s => u = s
  <2>1. B \subseteq SUBSET S
    OBVIOUS
  <2> HIDE DEF B
  <2> QED BY <2>1, LeastSubset
<1>2. /\ g[s] = IF s = {} THEN 0 ELSE f[Some(s)] + g[s \ {Some(s)}]
      /\ h[s] = IF s = {} THEN 0 ELSE f[Some(s)] + h[s \ {Some(s)}]
  BY DEF Sums
<1>3. s # {}
  BY <1>2
<1>4. Some(s) \in s
  BY <1>3, SomeIsIn
<1>5. s \ {Some(s)} \in SUBSET S /\ s \ {Some(s)} \notin B
  BY <1>1, <1>4
<1> QED BY <1>2, <1>3, <1>5

\* A solution for a set is one for its subsets.
LEMMA SumsRestrict ==
    ASSUME NEW S, NEW f, NEW g, Sums(g, f, S), NEW T \in SUBSET S
    PROVE  Sums([s \in SUBSET T |-> g[s]], f, T)
<1> DEFINE h == [s \in SUBSET T |-> g[s]]
<1>1. \A s \in SUBSET T : h[s] = IF s = {} THEN 0 ELSE f[Some(s)] + h[s \ {Some(s)}]
  <2> SUFFICES ASSUME NEW s \in SUBSET T
               PROVE  h[s] = IF s = {} THEN 0 ELSE f[Some(s)] + h[s \ {Some(s)}]
    OBVIOUS
  <2>1. g[s] = IF s = {} THEN 0 ELSE f[Some(s)] + g[s \ {Some(s)}]
    BY DEF Sums
  <2>2. s \ {Some(s)} \in SUBSET T
    OBVIOUS
  <2> QED BY <2>1, <2>2
<1>2. h = [s \in SUBSET T |-> h[s]]
  OBVIOUS
<1> QED BY <1>1, <1>2 DEF Sums

\* The equation has a solution.
LEMMA SumsExist ==
    ASSUME NEW S, IsFiniteSet(S), NEW f
    PROVE  \E g : Sums(g, f, S)
<1> DEFINE B == {s \in SUBSET S : ~\E g : Sums(g, f, s)}
<1> SUFFICES ASSUME B # {} PROVE FALSE
  OBVIOUS
<1>1. PICK t \in B : \A u \in B : u \subseteq t => u = t
  <2>1. B \subseteq SUBSET S
    OBVIOUS
  <2> HIDE DEF B
  <2> QED BY <2>1, LeastSubset
<1> DEFINE G(s) == CHOOSE g : Sums(g, f, s)
           h == [s \in SUBSET t |-> IF s = {} THEN 0 ELSE f[Some(s)] + G(s \ {Some(s)})[s \ {Some(s)}]]
<1>2. \A u \in SUBSET t : u # t => Sums(G(u), f, u)
  BY <1>1
<1> HIDE DEF G
<1>3. ASSUME NEW u \in SUBSET t, u # t PROVE h[u] = G(u)[u]
  <2>1. Sums(G(u), f, u)
    BY <1>2, <1>3
  <2>2. G(u)[u] = IF u = {} THEN 0 ELSE f[Some(u)] + G(u)[u \ {Some(u)}]
    BY <2>1 DEF Sums
  <2>3. h[u] = IF u = {} THEN 0 ELSE f[Some(u)] + G(u \ {Some(u)})[u \ {Some(u)}]
    OBVIOUS
  <2>4. CASE u = {}
    BY <2>2, <2>3, <2>4
  <2>5. CASE u # {}
    <3> DEFINE v == u \ {Some(u)}
    <3>1. v \in SUBSET u /\ v \in SUBSET t /\ v # t
      BY <1>3
    <3>2. Sums(G(v), f, v)
      BY <1>2, <3>1
    <3>3. Sums([s \in SUBSET v |-> G(u)[s]], f, v)
      <4> HIDE DEF v
      <4> QED BY <2>1, <3>1, SumsRestrict
    <3>4. IsFiniteSet(v)
      BY <3>1, FS_Subset
    <3>5. G(v)[v] = [s \in SUBSET v |-> G(u)[s]][v]
      BY <3>2, <3>3, <3>4, SumsAgree
    <3>6. G(v)[v] = G(u)[v]
      BY <3>5
    <3> QED BY <2>2, <2>3, <2>5, <3>6
  <2> QED BY <2>4, <2>5
<1>4. ASSUME NEW s \in SUBSET t
      PROVE  h[s] = IF s = {} THEN 0 ELSE f[Some(s)] + h[s \ {Some(s)}]
  <2>1. CASE s = {}
    BY <2>1
  <2>2. CASE s # {}
    <3>1. s \ {Some(s)} \in SUBSET t /\ s \ {Some(s)} # t
      BY <2>2, SomeIsIn
    <3>2. h[s \ {Some(s)}] = G(s \ {Some(s)})[s \ {Some(s)}]
      BY <1>3, <3>1
    <3>3. h[s] = f[Some(s)] + G(s \ {Some(s)})[s \ {Some(s)}]
      BY <2>2
    <3> QED BY <2>2, <3>2, <3>3
  <2> QED BY <2>1, <2>2
<1>5. h = [s \in SUBSET t |-> h[s]]
  OBVIOUS
<1> HIDE DEF h
<1>6. h = [s \in SUBSET t |-> IF s = {} THEN 0 ELSE f[Some(s)] + h[s \ {Some(s)}]]
  BY <1>4, <1>5
<1>7. Sums(h, f, t)
  BY <1>6 DEF Sums
<1> QED BY <1>1, <1>7

\* A sum, as Units takes it.
Total(f, S) == MapThenSumSet(LAMBDA d : f[d], S)

\* A sum whose terms are at least m on the set A, or at most m everywhere.
LEMMA SumBounds ==
    ASSUME NEW S, IsFiniteSet(S), NEW f, \A d \in S : f[d] \in Nat, NEW m \in Nat,
           NEW A \in SUBSET S
    PROVE  /\ Total(f, S) \in Nat
           /\ (\A d \in A : f[d] >= m) => Total(f, S) >= m * Cardinality(A)
           /\ (\A d \in S : f[d] <= m) => Total(f, S) <= m * Cardinality(S)
<1> DEFINE g == CHOOSE g : Sums(g, f, S)
           Fine(s) == /\ g[s] \in Nat
                      /\ (\A d \in A : f[d] >= m) => g[s] >= m * Cardinality(s \cap A)
                      /\ (\A d \in S : f[d] <= m) => g[s] <= m * Cardinality(s)
           B == {s \in SUBSET S : ~Fine(s)}
<1>1. Total(f, S) = g[S]
  BY SumIsFold DEF Total
<1>2. Sums(g, f, S)
  BY SumsExist
<1> HIDE DEF g
<1>3. ASSUME B # {} PROVE FALSE
  <2>1. PICK s \in B : \A u \in B : u \subseteq s => u = s
    <3>1. B \subseteq SUBSET S
      OBVIOUS
    <3> HIDE DEF B
    <3> QED BY <1>3, <3>1, LeastSubset
  <2>2. g[s] = IF s = {} THEN 0 ELSE f[Some(s)] + g[s \ {Some(s)}]
    BY <1>2 DEF Sums
  <2>3. s # {}
    <3>1. SUFFICES ASSUME s = {} PROVE FALSE
      OBVIOUS
    <3>2. s \cap A = {} /\ g[s] = 0
      BY <2>2, <3>1
    <3>3. Cardinality(s) = 0 /\ Cardinality(s \cap A) = 0
      BY <3>1, <3>2, FS_EmptySet
    <3>4. m * 0 = 0
      OBVIOUS
    <3>5. g[s] >= m * Cardinality(s \cap A) /\ g[s] <= m * Cardinality(s)
      BY <3>2, <3>3, <3>4
    <3>6. Fine(s)
      BY <3>2, <3>5
    <3> QED BY <3>6
  <2> DEFINE x == Some(s)
             u == s \ {x}
  <2>4. x \in s /\ x \in S
    BY <2>3, SomeIsIn
  <2>5. u \in SUBSET S /\ u \notin B
    BY <2>1, <2>4
  <2>6. /\ Cardinality(u) \in Nat /\ Cardinality(s) = Cardinality(u) + 1
        /\ Cardinality(u \cap A) \in Nat
        /\ Cardinality(s \cap A) = IF x \in A THEN Cardinality(u \cap A) + 1
                                              ELSE Cardinality(u \cap A)
    <3>1. IsFiniteSet(u) /\ IsFiniteSet(u \cap A)
      <4>1. u \cap A \in SUBSET S
        BY <2>5
      <4> QED BY <2>5, <4>1, FS_Subset
    <3>2. s = u \cup {x} /\ x \notin u
      BY <2>4
    <3>3. s \cap A = IF x \in A THEN (u \cap A) \cup {x} ELSE u \cap A
      BY <2>4
    <3>4. Cardinality(u) \in Nat /\ Cardinality(u \cap A) \in Nat
      BY <3>1, FS_CardinalityType
    <3>5. Cardinality(s) = Cardinality(u) + 1
      BY <3>1, <3>2, FS_AddElement
    <3>6. x \notin u \cap A
      BY <3>2
    <3>7. Cardinality((u \cap A) \cup {x}) = Cardinality(u \cap A) + 1
      BY <3>1, <3>6, FS_AddElement
    <3> QED BY <3>3, <3>4, <3>5, <3>7
  <2>7. Fine(u)
    BY <2>5
  <2>8. f[x] \in Nat /\ g[s] = f[x] + g[u] /\ (x \in A => x \in S)
    BY <2>2, <2>3, <2>4
  <2>9. \A k \in Nat : m * (k + 1) = m * k + m /\ m * k \in Nat
    OBVIOUS
  <2> HIDE DEF x, u
  <2>10. g[s] \in Nat
    BY <2>7, <2>8
  <2>11. ASSUME \A d \in A : f[d] >= m PROVE g[s] >= m * Cardinality(s \cap A)
    <3>1. g[u] >= m * Cardinality(u \cap A) /\ g[u] \in Nat
      BY <2>7, <2>11
    <3>2. CASE x \in A
      <4>1. f[x] >= m /\ Cardinality(s \cap A) = Cardinality(u \cap A) + 1
        BY <2>6, <2>11, <3>2
      <4> QED BY <2>6, <2>8, <2>9, <3>1, <4>1
    <3>3. CASE x \notin A
      BY <2>6, <2>8, <2>9, <3>1, <3>3
    <3> QED BY <3>2, <3>3
  <2>12. ASSUME \A d \in S : f[d] <= m PROVE g[s] <= m * Cardinality(s)
    <3>1. g[u] <= m * Cardinality(u) /\ g[u] \in Nat /\ f[x] <= m
      BY <2>4, <2>7, <2>12
    <3> QED BY <2>6, <2>8, <2>9, <3>1
  <2> QED BY <2>10, <2>11, <2>12
<1>4. Fine(S)
  BY <1>3
<1>5. S \cap A = A
  OBVIOUS
<1> QED BY <1>1, <1>4, <1>5

(***************************************************************************)
(* The two windows of _demand_opportunities.                               *)
(***************************************************************************)

\* One of finitely many days is the worst.
LEMMA WorstDay ==
    ASSUME NEW D \in SUBSET Days, D # {}, NEW f \in [Days -> 0..MaxUnits]
    PROVE  \E r \in D : \A d \in D : f[r] <= f[d]
<1> DEFINE B == {0..f[d] : d \in D}
<1>1. MaxUnits \in Nat /\ IsFiniteSet(0..MaxUnits)
  BY FS_Interval, ReasoningAssumption DEF ReasoningAssumption
<1>2. B \subseteq SUBSET (0..MaxUnits) /\ B # {}
  <2>1. \A d \in D : f[d] \in 0..MaxUnits
    OBVIOUS
  <2> QED BY <1>1, <2>1
<1> HIDE DEF B
<1>3. PICK s \in B : \A u \in B : u \subseteq s => u = s
  <2> DEFINE T == 0..MaxUnits
  <2> HIDE DEF T
  <2>1. IsFiniteSet(T) /\ B \subseteq SUBSET T
    BY <1>1, <1>2 DEF T
  <2>2. B # {}
    BY <1>2
  <2> QED BY <2>1, <2>2, LeastSubset
<1>4. PICK r \in D : s = 0..f[r]
  BY <1>3 DEF B
<1>5. ASSUME NEW d \in D, ~(f[r] <= f[d]) PROVE FALSE
  <2>1. f[r] \in Nat /\ f[d] \in Nat /\ f[d] < f[r]
    BY <1>1, <1>5
  <2>2. 0..f[d] \in B /\ 0..f[d] \subseteq s /\ f[r] \in s /\ f[r] \notin 0..f[d]
    BY <1>4, <2>1 DEF B
  <2> QED BY <1>3, <2>2
<1> QED BY <1>5

\* An item is reported as declining only when it sold less on some day of the recent
\* window than on some day of the one before: the recent window is longer by today.
LEMMA DeclineHasAWorseDay ==
    ASSUME TypeOK, NEW i \in Items, Declined(Recent(i), Baseline(i))
    PROVE  \E r \in (today - LookbackDays)..today,
              b \in (today - 2 * LookbackDays)..(today - LookbackDays - 1) :
              {r, b} \subseteq Days /\ sold[i][r] < sold[i][b]
<1> DEFINE f == sold[i]
           L == LookbackDays
           recent == ((today - L)..MaxDay) \cap Days
           base == ((today - 2 * L)..(today - L - 1)) \cap Days
           past == (today - L)..today
<1>1. /\ today \in Nat /\ today <= MaxDay /\ MaxDay \in Nat
      /\ L \in Nat /\ L > 0 /\ MaxUnits \in Nat
      /\ f \in [Days -> 0..MaxUnits]
  BY ReasoningAssumption DEF ReasoningAssumption, TypeOK, Days
<1>2. Recent(i) = Total(f, recent) /\ Baseline(i) = Total(f, base)
  BY DEF Recent, Baseline, Units, Total
<1>3. /\ IsFiniteSet(recent) /\ IsFiniteSet(base)
      /\ Cardinality(base) \in Nat /\ Cardinality(base) <= L
  <2>1. IsFiniteSet(Days)
    BY <1>1, FS_Interval, 0 \in Int, MaxDay \in Int DEF Days
  <2>2. recent \in SUBSET Days /\ base \in SUBSET Days
    OBVIOUS
  <2>3. /\ IsFiniteSet((today - 2 * L)..(today - L - 1))
        /\ Cardinality((today - 2 * L)..(today - L - 1)) = L
    <3>1. today - 2 * L \in Int /\ today - L - 1 \in Int
      BY <1>1
    <3>2. /\ ~(today - 2 * L > today - L - 1)
          /\ (today - L - 1) - (today - 2 * L) + 1 = L
      BY <1>1
    <3> HIDE DEF L
    <3> QED BY <3>1, <3>2, FS_Interval
  <2>4. base \in SUBSET ((today - 2 * L)..(today - L - 1))
    OBVIOUS
  <2> HIDE DEF recent, base, L
  <2> QED BY <2>1, <2>2, <2>3, <2>4, FS_Subset, FS_CardinalityType
<1>4. \A d \in Days : f[d] \in Nat
  BY <1>1
<1>5. base \subseteq Days /\ recent \subseteq Days
  OBVIOUS
<1>6. Baseline(i) \in Nat /\ Recent(i) \in Nat
  <2> HIDE DEF base, recent, f
  <2> QED BY <1>2, <1>3, <1>4, <1>5, SumBounds, 0 \in Nat
<1>7. base # {}
  <2>1. SUFFICES ASSUME base = {} PROVE FALSE
    OBVIOUS
  <2> HIDE DEF base, recent, f
  <2>2. Cardinality(base) = 0
    BY <2>1, FS_EmptySet
  <2>3. Total(f, base) <= 0 * Cardinality(base)
    BY <1>3, <1>4, <1>5, <2>1, SumBounds, 0 \in Nat
  <2> QED BY <1>2, <1>6, <2>2, <2>3 DEF Declined
<1>8. today - L - 1 >= 0 /\ past \subseteq recent /\ past # {} /\ past \subseteq Days
  <2>1. PICK b \in base : TRUE
    BY <1>7
  <2>2. b \in Nat /\ b <= today - L - 1
    BY <1>1, <2>1 DEF Days
  <2>3. today - L - 1 >= 0
    BY <1>1, <2>2
  <2>4. today \in past
    BY <1>1
  <2>5. past \subseteq Days
    <3> SUFFICES ASSUME NEW d \in past PROVE d \in Days
      OBVIOUS
    <3>1. d \in Int /\ today - L <= d /\ d <= today
      BY <1>1
    <3> QED BY <1>1, <2>3, <3>1 DEF Days
  <2>6. past \subseteq recent
    <3> SUFFICES ASSUME NEW d \in past PROVE d \in recent
      OBVIOUS
    <3>1. d \in Int /\ today - L <= d /\ d <= today
      BY <1>1
    <3> QED BY <1>1, <2>5, <3>1
  <2> QED BY <2>3, <2>4, <2>5, <2>6
<1>9. Cardinality(past) = L + 1
  <2>1. today - L \in Int /\ today \in Int /\ ~(today - L > today) /\ today - (today - L) + 1 = L + 1
    BY <1>1
  <2> HIDE DEF L
  <2> QED BY <2>1, FS_Interval
<1>10. PICK r \in past : \A d \in past : f[r] <= f[d]
  <2> HIDE DEF past, f
  <2> QED BY <1>1, <1>8, WorstDay
<1>11. f[r] \in Nat /\ r \in Days
  BY <1>4, <1>8
<1>12. SUFFICES ASSUME \A b \in base : ~(f[r] < f[b]) PROVE FALSE
  <2>1. ASSUME NEW b \in base, f[r] < f[b]
        PROVE  /\ r \in (today - LookbackDays)..today
               /\ b \in (today - 2 * LookbackDays)..(today - LookbackDays - 1)
               /\ {r, b} \subseteq Days /\ sold[i][r] < sold[i][b]
    BY <1>11, <2>1
  <2> QED BY <2>1
<1>13. \A b \in base : f[b] <= f[r]
  BY <1>4, <1>5, <1>11, <1>12
<1> DEFINE m == f[r]
<1>14. Baseline(i) <= m * Cardinality(base)
  <2> HIDE DEF base, recent, past, f
  <2>1. \A d \in base : f[d] \in Nat
    BY <1>4, <1>5
  <2> HIDE DEF m
  <2>2. base \in SUBSET base
    OBVIOUS
  <2>3. m \in Nat /\ \A d \in base : f[d] <= m
    BY <1>11, <1>13 DEF m
  <2> QED BY <1>2, <1>3, <2>1, <2>2, <2>3, SumBounds
<1>15. Recent(i) >= m * Cardinality(past)
  <2> HIDE DEF base, recent, past, f
  <2>1. \A d \in recent : f[d] \in Nat
    BY <1>4, <1>5
  <2>2. m \in Nat /\ \A d \in past : f[d] >= m
    <3>1. \A d \in past : f[d] \in Nat
      BY <1>4, <1>8
    <3> QED BY <1>10, <1>11, <3>1
  <2> HIDE DEF m
  <2> QED BY <1>2, <1>3, <1>8, <2>1, <2>2, SumBounds
<1>16. m \in Nat
  BY <1>11
<1> HIDE DEF m, f, L, past, base, recent
<1>17. m * Cardinality(base) <= m * L /\ m * (L + 1) = m * L + m /\ m * L \in Nat
  <2>1. \A j, k, n \in Nat : j <= k => n * j <= n * k /\ n * (k + 1) = n * k + n /\ n * k \in Nat
    <3> SUFFICES ASSUME NEW j \in Nat, NEW k \in Nat, NEW n \in Nat, j <= k
                 PROVE  n * j <= n * k
      OBVIOUS
    <3>1. k - j \in Nat /\ n * (k - j) \in Nat
      OBVIOUS
    <3>2. n * k = n * j + n * (k - j)
      OBVIOUS
    <3> QED BY <3>1, <3>2
  <2> QED BY <1>1, <1>3, <1>16, <2>1
<1>18. Baseline(i) <= Recent(i)
  <2>1. m * Cardinality(base) \in Int
    BY <1>3, <1>16
  <2> QED BY <1>6, <1>9, <1>14, <1>15, <1>16, <1>17, <2>1
<1> QED BY <1>6, <1>18 DEF Declined, DEMAND_DECLINE_THRESHOLD

\* For every calendar, lookback and volume of orders: what the detector reports as
\* falling demand sold less on some recent day than on some day before.
THEOREM DeclinesAreReal == Spec => SteadySalesAreNoDecline
<1>1. Init => ReasonedSurvive
  BY DEF Init, ReasonedSurvive
<1>2. ReasoningInv /\ ReasonedSurvive /\ [Next]_vars => ReasonedSurvive'
  BY NextSurvives DEF ReasoningInv
<1>3. ASSUME ReasoningInv, ReasonedSurvive, [Next]_vars, stage = "idle",
             NEW o \in batch', o.type = "demand_decline"
      PROVE  \E r \in (today - LookbackDays)..today,
                b \in (today - 2 * LookbackDays)..(today - LookbackDays - 1) :
                {r, b} \subseteq Days /\ sold[o.entity][r] < sold[o.entity][b]
  <2>1. batch = {} /\ todo = {}
    BY <1>3 DEF ReasonedSurvive, ReasoningInv, TypeOK
  <2>2. Detect
    BY <1>3, <2>1 DEF Next, ReasoningDone, Finish, Approve, Reject, Operate, Sell, NextDay,
          OthersReprice, CostMoves, StockMoves, Restaurant, vars
  <2>3. o \in DemandOpportunities
    BY <1>3, <2>2 DEF Detect, Truncations, Detected, MarginOpportunities, StockoutOpportunities
  <2>4. PICK i \in Items : o.entity = i /\ Declined(Recent(i), Baseline(i))
    BY <2>3 DEF DemandOpportunities
  <2>5. TypeOK
    BY <1>3 DEF ReasoningInv
  <2> QED BY <2>4, <2>5, DeclineHasAWorseDay
<1>4. ReasoningInv /\ ReasonedSurvive /\ [Next]_vars =>
        [stage = "idle" =>
            \A o \in batch' :
                o.type = "demand_decline" =>
                    \E r \in (today - LookbackDays)..today,
                       b \in (today - 2 * LookbackDays)..(today - LookbackDays - 1) :
                        /\ {r, b} \subseteq Days
                        /\ sold[o.entity][r] < sold[o.entity][b]]_vars
  BY <1>3
<1> QED BY <1>1, <1>2, <1>4, ReasoningInvariance, PTL DEF Spec, SteadySalesAreNoDecline

=============================================================================
