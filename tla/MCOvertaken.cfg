\* A clock-out that commits between the reading and the writing of the automatic close.
SPECIFICATION OvertakenSpec
CONSTANTS
    w1 = w1
    r1 = r1
    s1 = s1
    Workers = {w1}
    Requests = {r1}
    Sites = {s1}
    NoSite = NoSite
    InTransit = InTransit
    Linked = {}
    LinkUses = 0
    LinksToRevoke = {}
    TransitEnabled = {}
    Taps = {"Clock In", "Clock Out"}
    Bands = {"approved"}
    Removable = {}
    RuleChoices <- OneClose
    Figures = {}
    Ceilings = {}
    MaxAuthorised = 2
    MaxAnswers = 2
    MaxRows = 4
    MaxNow = 1
INVARIANTS
    ClosedOnce
