\* Every small rule set, one shift, every moment up to the horizon.
SPECIFICATION Spec
CONSTANTS
    Rules <- SmallRules
    Limits <- SmallLimits
    Horizon = 7
INVARIANTS
    LimitIsTheFirstMoment
    RoundingMakesNoOvertime
    AlertVerdictIsTrue
CHECK_DEADLOCK FALSE
