SPECIFICATION Spec
CONSTANTS
    None = None
    r1 = r1  r2 = r2  c1 = c1  o1 = o1  o2 = o2  burger = burger  beef = beef
    Runners = {r1, r2}
    CycleIds = {c1}
    Opportunities = {o1, o2}
    Detections <- TwoOpportunities
    Rankings <- CompetingRankings
    Targets = {burger}
    Modes = {"simulate", "execute"}
    MaxOpportunities = 2
    MaxActions = 1
    MaxErrors = 2
    Cooldown = 1
    MaxTime = 2
    MaxOthers = 1
    MayFail = TRUE
CHECK_DEADLOCK FALSE
SYMMETRY Symmetry
INVARIANTS TypeOK BlastRadiusIsBounded LockFollowsTheCycle
PROPERTIES RetriesRepeatNothingLogged CooldownSeparatesCycles
