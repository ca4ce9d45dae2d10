\* Progress of one worker's long shift, at the gates and on the road, under fair scheduling.
SPECIFICATION FairSpec
CONSTANTS
    w1 = w1
    r1 = r1
    s1 = s1
    Workers = {w1}
    Requests = {r1}
    Sites = {s1}
    NoSite = NoSite
    InTransit = InTransit
    Linked = {}
    LinkUses = 0
    LinksToRevoke = {}
    TransitEnabled = {w1}
    Taps = {"Clock In", "Clock Out"}
    Bands = {"approved"}
    Removable = {}
    RuleChoices <- OneLineAtDay
    Figures = {}
    Ceilings = {}
    MaxAuthorised = 2
    MaxAnswers = 1
    MaxRows = 1
    MaxNow = 4
PROPERTIES
    ApprovedShiftEnds
    CrossingIsTold
    ImplementsLifecycle
