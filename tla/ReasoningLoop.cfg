\* Two ordinary prices and one of ten cents, two days of look-back on either side, a model that answers
\* anything: the loop of detection, reasoning and price changes.
CONSTANTS
    Items <- MCItems
    Ingredients <- MCIngredients
    Uses <- MCUses
    Answers <- MCAnswers
    Prices = {10, 260, 300}
    Costs = {120, 195, 230}
    MaxOpportunities = 2
    MAX_LLM_CANDIDATES = 2
    LookbackDays = 1
    MaxDay = 2
    MaxUnits = 1
    MaxHeld = 1
SPECIFICATION Spec
CHECK_DEADLOCK FALSE
INVARIANTS TypeOK RulesSurviveTheModel MovesFollowRules
PROPERTIES RaisesEndShortfalls DiscountsAreSmall SteadySalesAreNoDecline
