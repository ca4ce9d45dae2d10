\* One worker with a link of one use and a journey, two requests in flight, a site and the watcher.
SPECIFICATION Spec
CONSTANTS
    w1 = w1
    r1 = r1
    r2 = r2
    s1 = s1
    Workers = {w1}
    Requests = {r1, r2}
    Sites = {s1}
    NoSite = NoSite
    InTransit = InTransit
    Linked = {w1}
    LinkUses = 1
    LinksToRevoke = {w1}
    TransitEnabled = {w1}
    Taps = {"Clock In", "Clock Out"}
    Bands = {"approved"}
    Removable = {}
    RuleChoices <- OneClose
    Figures = {}
    Ceilings = {}
    MaxAuthorised = 2
    MaxAnswers = 0
    MaxRows = 1
    MaxNow = 1
SYMMETRY Symmetry
INVARIANTS
    NothingAfterTheClose
    TripConfirmedOnce
PROPERTIES
    SpentLinkFilesNothing
