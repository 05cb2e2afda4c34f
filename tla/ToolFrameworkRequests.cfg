SPECIFICATION FairSpec
CONSTANTS
    None = None
    c1 = c1  c2 = c2  k1 = k1  k2 = k2  d1 = d1  d2 = d2
    burger = burger  beef = beef  lunch = lunch
    Callers = {c1, c2}
    Keys = {k1}
    Decisions = {d1, d2}
    MenuItems = {burger}
    Ingredients = {beef}
    Shifts = {lunch}
    Requests <- AllRequests
    InitValue <- InitialValue
    MayFail = TRUE
CHECK_DEADLOCK FALSE
INVARIANTS IndInv ExecutedWithAuthority AnswersAreTruthful AnsweredCallsAreLogged
PROPERTY CallsReturn
