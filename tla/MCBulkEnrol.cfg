\* A roster of two, whose runner dies twice, goes wrong, and whose accounts are deleted under it.
SPECIFICATION FairSpec
CONSTANTS
    p1 = p1
    p2 = p2
    j1 = j1
    People = {p1, p2}
    Nobody = Nobody
    NoLink = NoLink
    Ceiling = 2
    Cap = 0
    Links = {}
    MaxUses = 1
    Slots = {}
    Runners = {j1}
    Items <- TwoItems
    MaxCrashes = 2
INVARIANTS
    CountsLagTheOutcomes
PROPERTIES
    JobEnds
CHECK_DEADLOCK FALSE
