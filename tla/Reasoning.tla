------------------------------ MODULE Reasoning ------------------------------
(***************************************************************************)
(* Component 3 in the loop that uses it: detect_opportunities over a state  *)
(* that goes on changing, reasoning about each opportunity by rules and by  *)
(* a language model that may fail or answer anything, validation, merge,    *)
(* and the price changes that come of the candidates, at once or after a    *)
(* reviewer agreed to them at some later time.                             *)
(*                                                                         *)
(* A batch is one run of the cycle in execute mode.  The candidates of an   *)
(* opportunity are a set: _handle sorts them by score, source and payload,  *)
(* so the order in which they arrive has no effect.  Item names, titles and *)
(* rationales are left out, and with them the prompt; the model is external *)
(* and its answers are chosen from a constant.                             *)
(*                                                                         *)
(* Cycle has the lock, cooldown, caps and keys of the loop, ToolFramework   *)
(* the execution; here both appear as the choice between acting and not.    *)
(***************************************************************************)
EXTENDS PricingRules, ActionPolicy, FiniteSets, FiniteSetsExt

CONSTANTS
    Items,             \* active menu items
    Ingredients,
    Uses,              \* <<item, ingredient>>: active recipes
    Prices, Costs,     \* what other callers and suppliers may set, in cents
    Answers,           \* sequences of raw candidates the model may return
    MaxOpportunities,  \* argument of run_cycle
    MAX_LLM_CANDIDATES,
    LookbackDays,      \* LOOKBACK_DAYS
    MaxDay,            \* bound: the calendar ends here
    MaxUnits,          \* bound on the orders of one item on one day
    MaxHeld            \* bound on approvals waiting for a reviewer

OpportunityTypes == {"margin_deterioration", "stockout_exposure", "demand_decline"}

ASSUME ReasoningAssumption ==
    /\ Uses \subseteq Items \X Ingredients
    /\ Items \cap Ingredients = {}
    /\ Prices \subseteq Nat
    /\ Costs \subseteq Nat
    /\ \A answer \in Answers :
          /\ IsFiniteSet(DOMAIN answer) /\ DOMAIN answer \subseteq Nat
          /\ \A n \in DOMAIN answer : answer[n].price \in Int
    /\ MaxOpportunities \in Nat
    /\ MAX_LLM_CANDIDATES \in Nat
    /\ LookbackDays \in Nat \ {0}
    /\ MaxDay \in Nat
    /\ MaxUnits \in Nat
    /\ MaxHeld \in Nat

VARIABLES
    today,
    sold,       \* order_volume: units of each item on each day
    price, cost,
    low,        \* ingredients at or below the stockout threshold
    stage,
    batch,      \* opportunities detected and kept
    todo,       \* those not yet reasoned about, or not yet handled
    proposals,  \* candidates of each opportunity of the batch
    held        \* <<opportunity, candidate>> waiting for a reviewer

state == <<today, sold, price, cost, low>>
vars == <<state, stage, batch, todo, proposals, held>>

Days == 0..MaxDay

Init ==
    /\ today = 0
    /\ sold = [i \in Items |-> [d \in Days |-> 0]]
    /\ price \in [Items -> Prices]
    /\ cost \in [Items -> Costs]
    /\ low = {}
    /\ stage = "idle"
    /\ batch = {}
    /\ todo = {}
    /\ proposals = [o \in {} |-> {}]
    /\ held = {}

(***************************************************************************)
(* opportunity_detector.py                                                 *)
(***************************************************************************)
Units(i, window) == MapThenSumSet(LAMBDA d : sold[i][d], window \cap Days)

\* Mutant: the baseline has no upper end.
BaselineOpenEnded(i) == Units(i, (today - 2 * LookbackDays)..today)

\* Both windows are half-open towards the past; nothing bounds the recent one.
Recent(i) == Units(i, (today - LookbackDays)..MaxDay)
Baseline(i) == Units(i, (today - 2 * LookbackDays)..(today - LookbackDays - 1))

\* Impacts are in hundredths of a cent per window; the code scales all of them by
\* the same 30/14 and rounds.
MarginOpportunities ==
    {[type |-> "margin_deterioration", entity |-> i, about |-> {i},
      seen |-> price[i], cost |-> cost[i],
      impact |-> LossPerUnit(price[i], cost[i]) * AtLeast(Recent(i), 1),
      confidence |-> IF Recent(i) > 0 THEN 85 ELSE 65] :
        i \in {j \in Items : /\ \E g \in Ingredients : <<j, g>> \in Uses
                             /\ Shortfall(price[j], cost[j])}}

StockoutOpportunities ==
    LET users(g) == {i \in Items : <<i, g>> \in Uses}
    IN  {[type |-> "stockout_exposure", entity |-> g, about |-> users(g) \cup {g},
          seen |-> 0, cost |-> 0, impact |-> 0, confidence |-> 90] :
            g \in {h \in low : users(h) # {}}}

DemandOpportunities ==
    {[type |-> "demand_decline", entity |-> i, about |-> {i},
      seen |-> price[i], cost |-> 0,
      impact |-> 100 * price[i] * (Baseline(i) - Recent(i)), confidence |-> 75] :
        i \in {j \in Items : Declined(Recent(j), Baseline(j))}}

Detected == MarginOpportunities \cup StockoutOpportunities \cup DemandOpportunities

\* The order of detect_opportunities; what is equal here is ordered by id, which
\* is left as a choice.
Before(o, p) ==
    \/ o.impact > p.impact
    \/ o.impact = p.impact /\ o.confidence > p.confidence

Leading(S) == {o \in S : \A p \in S : ~Before(p, o)}

\* [:max_opportunities]
Truncations(S) ==
    {T \in SUBSET S :
        /\ Cardinality(T) = AtMost(Cardinality(S), MaxOpportunities)
        /\ \A o \in T, p \in S \ T : ~Before(p, o)}

Detect ==
    /\ stage = "idle"
    /\ batch' \in Truncations(Detected)
    /\ todo' = batch'
    /\ proposals' = [o \in batch' |-> {}]
    /\ stage' = "reason"
    /\ UNCHANGED <<state, held>>

(***************************************************************************)
(* reasoning.py: the rules.                                                *)
(***************************************************************************)
RulePrices(o) ==
    CASE o.type = "margin_deterioration" -> {MarginPrice(o.seen, o.cost)}
      [] o.type = "demand_decline"       -> {DemandPrice(o.seen)}
      [] OTHER                           -> {}

\* Mutant: a price that rounds to zero is proposed.
RuleCandidatesUnchecked(o) ==
    {[item |-> o.entity, price |-> p, review |-> FALSE, source |-> "deterministic"] :
        p \in {q \in RulePrices(o) : o.seen > 0}}

\* A stockout gets none: no verified supplier price exists.
RuleCandidates(o) ==
    {[item |-> o.entity, price |-> p, review |-> FALSE, source |-> "deterministic"] :
        p \in {q \in RulePrices(o) : o.seen > 0 /\ q > 0}}

(***************************************************************************)
(* llm_reasoner.py, candidate_validator.py, candidate_merger.py.           *)
(***************************************************************************)
AllowedLLMActions(type) ==
    IF type \in {"margin_deterioration", "demand_decline"} THEN {"price_change"} ELSE {}

\* validate_candidate_against_opportunity; only price changes have a check.
MatchesEvidence(o, raw) ==
    /\ raw.type = "price_change"
    /\ raw.item \in o.about
    /\ raw.price > 0 /\ o.seen > 0
    /\ 100 * Abs(raw.price - o.seen) <= MAX_PRICE_CHANGE_PCT * o.seen

\* wellFormed: the types, keys and texts that validate_llm_candidate asks for.
Valid(o, raw) ==
    /\ raw.wellFormed
    /\ raw.type \in AllowedLLMActions(o.type)
    /\ MatchesEvidence(o, raw)

\* Mutant: the model's own flag is believed.
CandidateAsFlagged(raw) ==
    [item |-> raw.item, price |-> raw.price, review |-> raw.review, source |-> "llm"]

\* The flag the model set is discarded: it can never authorise itself.
Candidate(raw) ==
    [item |-> raw.item, price |-> raw.price, review |-> TRUE, source |-> "llm"]

\* LLMReasoner.reason: the first valid candidates, up to the ceiling.
Accepted(o, answer) ==
    LET valid == {n \in DOMAIN answer : Valid(o, answer[n])}
    IN  {Candidate(answer[n]) :
            n \in {m \in valid : Cardinality({k \in valid : k < m}) < MAX_LLM_CANDIDATES}}

Signature(c) == <<c.item, c.price>>

\* Mutant: later candidates replace earlier ones with the same signature.
MergeLatest(rules, model) ==
    model \cup {c \in rules : \A d \in model : Signature(d) # Signature(c)}

\* merge_candidates, within one opportunity.
Merge(rules, model) ==
    rules \cup {c \in model : \A d \in rules : Signature(d) # Signature(c)}

(***************************************************************************)
(* orchestrator.py of Component 3.                                         *)
(***************************************************************************)
Reasoned(o, candidates) ==
    /\ proposals' = [proposals EXCEPT ![o] = candidates]
    /\ todo' = todo \ {o}
    /\ UNCHANGED <<state, stage, batch, held>>

\* No model is configured, none is allowed for this type, or it failed: a client
\* error, an empty text, invalid JSON or another shape.
RulesOnly(o) ==
    /\ stage = "reason"
    /\ o \in Leading(todo)
    /\ Reasoned(o, RuleCandidates(o))

ModelAnswers(o, answer) ==
    /\ stage = "reason"
    /\ o \in Leading(todo)
    /\ AllowedLLMActions(o.type) # {}
    /\ Reasoned(o, Merge(RuleCandidates(o), Accepted(o, answer)))

\* json.loads raises something other than JSONDecodeError (an integer beyond the
\* interpreter's digit limit, nesting beyond the recursion limit): nothing
\* catches it before run_cycle, which gives up the whole batch.
AnswerUnreadable(o) ==
    /\ stage = "reason"
    /\ o \in Leading(todo)
    /\ AllowedLLMActions(o.type) # {}
    /\ stage' = "idle"
    /\ batch' = {}
    /\ todo' = {}
    /\ proposals' = [p \in {} |-> {}]
    /\ UNCHANGED <<state, held>>

ReasoningDone ==
    /\ stage = "reason"
    /\ todo = {}
    /\ stage' = "act"
    /\ todo' = batch
    /\ UNCHANGED <<state, batch, proposals, held>>

(***************************************************************************)
(* What becomes of the candidates.                                         *)
(***************************************************************************)

\* _handle takes the best candidate that is not flagged for review.
Actionable(o) == {c \in proposals[o] : ~c.review}

Handled(o) ==
    /\ todo' = todo \ {o}
    /\ UNCHANGED <<today, sold, cost, low, stage, batch, proposals>>

CriticApproves(c) == TRUE \in CriticVerdicts("price_change", TRUE, c.price, price[c.item])

\* The critic and the risk classifier read the price of this moment.
Execute(o, c) ==
    /\ stage = "act"
    /\ o \in Leading(todo)
    /\ c \in Actionable(o)
    /\ CriticApproves(c)
    /\ ~RequiresApproval(ClassifyPriceChange(TRUE, c.price, price[c.item]))
    /\ price' = [price EXCEPT ![c.item] = c.price]
    /\ UNCHANGED held
    /\ Handled(o)

\* A change too large, or predicted with too little confidence.
HoldForReview(o, c) ==
    /\ stage = "act"
    /\ o \in Leading(todo)
    /\ c \in Actionable(o)
    /\ CriticApproves(c)
    /\ Cardinality(held) < MaxHeld
    /\ held' = held \cup {<<o, c>>}
    /\ UNCHANGED price
    /\ Handled(o)

\* No candidates, no benefit, cooldown, cap, refused, or an error.
PassOver(o) ==
    /\ stage = "act"
    /\ o \in Leading(todo)
    /\ UNCHANGED <<price, held>>
    /\ Handled(o)

Finish ==
    /\ stage = "act"
    /\ todo = {}
    /\ stage' = "idle"
    /\ batch' = {}
    /\ proposals' = [p \in {} |-> {}]
    /\ UNCHANGED <<state, todo, held>>

\* resolve_approval: the critic is asked again about the price of this moment.
Approve(h) ==
    /\ h \in held
    /\ CriticApproves(h[2])
    /\ price' = [price EXCEPT ![h[2].item] = h[2].price]
    /\ held' = held \ {h}
    /\ UNCHANGED <<today, sold, cost, low, stage, batch, todo, proposals>>

Reject(h) ==
    /\ h \in held
    /\ held' = held \ {h}
    /\ UNCHANGED <<state, stage, batch, todo, proposals>>

(***************************************************************************)
(* The restaurant goes on meanwhile.                                       *)
(***************************************************************************)
Restaurant == <<stage, batch, todo, proposals, held>>

Sell(i) ==
    /\ sold[i][today] < MaxUnits
    /\ sold' = [sold EXCEPT ![i][today] = @ + 1]
    /\ UNCHANGED <<today, price, cost, low, Restaurant>>

NextDay ==
    /\ today < MaxDay
    /\ today' = today + 1
    /\ UNCHANGED <<sold, price, cost, low, Restaurant>>

OthersReprice(i, p) ==
    /\ price' = [price EXCEPT ![i] = p]
    /\ UNCHANGED <<today, sold, cost, low, Restaurant>>

CostMoves(i, c) ==
    /\ cost' = [cost EXCEPT ![i] = c]
    /\ UNCHANGED <<today, sold, price, low, Restaurant>>

StockMoves(g) ==
    /\ low' = IF g \in low THEN low \ {g} ELSE low \cup {g}
    /\ UNCHANGED <<today, sold, price, cost, Restaurant>>

(***************************************************************************)
(* Specification.                                                          *)
(***************************************************************************)
Reason(o) ==
    \/ RulesOnly(o)
    \/ \E answer \in Answers : ModelAnswers(o, answer)
    \/ AnswerUnreadable(o)

Act(o) ==
    \/ \E c \in Actionable(o) : Execute(o, c) \/ HoldForReview(o, c)
    \/ PassOver(o)

Operate ==
    \/ \E i \in Items : Sell(i)
    \/ NextDay
    \/ \E i \in Items, p \in Prices : OthersReprice(i, p)
    \/ \E i \in Items, c \in Costs : CostMoves(i, c)
    \/ \E g \in Ingredients : StockMoves(g)

Next ==
    \/ Detect
    \/ \E o \in todo : Reason(o) \/ Act(o)
    \/ ReasoningDone
    \/ Finish
    \/ \E h \in held : Approve(h) \/ Reject(h)
    \/ Operate

Spec == Init /\ [][Next]_vars

(***************************************************************************)
(* Properties.                                                             *)
(***************************************************************************)

\* Every variable keeps its type; an opportunity is about items and ingredients
\* that exist, and nobody proposes to give an item away.
TypeOK ==
    /\ today \in Days
    /\ sold \in [Items -> [Days -> 0..MaxUnits]]
    /\ price \in [Items -> Nat]
    /\ cost \in [Items -> Costs]
    /\ low \subseteq Ingredients
    /\ stage \in {"idle", "reason", "act"}
    /\ \A o \in batch :
          /\ o.type \in OpportunityTypes
          /\ o.about \subseteq Items \cup Ingredients
          /\ o.type # "stockout_exposure" => o.entity \in Items
          /\ o.seen \in Nat /\ o.cost \in Nat
    /\ todo \subseteq batch
    /\ DOMAIN proposals = batch
    /\ \A o \in batch : \A c \in proposals[o] : c.price \in Nat \ {0}
    /\ \A h \in held : h[2].item \in Items /\ h[2].price \in Nat \ {0}

\* "The LLM should never be a single point of failure": when the batch is handled,
\* every opportunity has its rule candidates as the rules gave them, whatever the
\* model answered about it or about others, and beside them at most the ceiling
\* of distinct, flagged proposals near the price the detector saw.
RulesSurviveTheModel ==
    stage = "act" =>
        \A o \in batch :
            LET model == proposals[o] \ RuleCandidates(o)
            IN  /\ RuleCandidates(o) \subseteq proposals[o]
                /\ Cardinality(model) <= MAX_LLM_CANDIDATES
                /\ \A c \in model : c.review /\ c.item \in o.about
                /\ \A c, d \in proposals[o] : Signature(c) = Signature(d) => c = d

\* "LLM candidates can never self-authorize": a price that the loop changes,
\* at once or through a reviewer, goes to what a rule made of the facts that
\* were detected, and only for the item they were about.
MovesFollowRules ==
    /\ \A h \in held : h[2] \in RuleCandidates(h[1])
    /\ \A o \in batch : Actionable(o) \subseteq RuleCandidates(o)

\* A loop step that changed the price of the item that o is about, while price and
\* cost were still those that the detector read.
ActedOn(o) ==
    /\ stage = "act" /\ o \in todo /\ o \notin todo'
    /\ price'[o.entity] # price[o.entity]
    /\ price[o.entity] = o.seen

RaiseEndsItsShortfall ==
    \A o \in batch :
        (/\ o.type = "margin_deterioration"
         /\ o.seen > 150
         /\ ActedOn(o)
         /\ cost[o.entity] = o.cost) =>
            /\ price'[o.entity] > o.seen
            /\ ~Shortfall(price'[o.entity], cost[o.entity])

DiscountIsASmallDecrease ==
    \A o \in batch :
        o.type = "demand_decline" /\ o.seen > 250 /\ ActedOn(o) =>
            /\ price'[o.entity] < o.seen
            /\ 100 * (o.seen - price'[o.entity]) <= SMALL_PRICE_CHANGE_PCT * o.seen

\* "Raise price only enough to restore the margin target": one raise moves the
\* price up and ends the shortfall that the detector reports, so that the loop
\* does not raise again and again.  Step, target and tolerance of two modules have
\* to fit each other; they do above $1.50.
RaisesEndShortfalls == [][RaiseEndsItsShortfall]_vars

\* "Test a small, reversible price decrease": above $2.50 the answer to falling
\* demand is a decrease, by no more than the classifier calls small.
DiscountsAreSmall == [][DiscountIsASmallDecrease]_vars

\* "Recent order volume is materially below the preceding equal-length baseline":
\* an item that sold on every recent day at least what it sold on any day before
\* is never reported as declining, in whatever order days pass and orders arrive.
SteadySalesAreNoDecline ==
    [][stage = "idle" =>
          \A o \in batch' :
              o.type = "demand_decline" =>
                  \E r \in (today - LookbackDays)..today,
                     b \in (today - 2 * LookbackDays)..(today - LookbackDays - 1) :
                      /\ {r, b} \subseteq Days
                      /\ sold[o.entity][r] < sold[o.entity][b]]_vars
=============================================================================
