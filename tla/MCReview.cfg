\* One worker, a site that is deleted, punches held by the face check or past the line, answers that are outgrown, and the desk.
SPECIFICATION Spec
CONSTANTS
    w1 = w1
    r1 = r1
    s1 = s1
    Workers = {w1}
    Requests = {r1}
    Sites = {s1}
    NoSite = NoSite
    InTransit = InTransit
    Linked = {}
    LinkUses = 0
    LinksToRevoke = {}
    TransitEnabled = {}
    Taps = {"Clock In", "Clock Out"}
    Bands = {"approved", "pending_review"}
    Removable = {s1}
    RuleChoices <- NoCloseOrDefer
    Figures = {1}
    Ceilings = {0}
    MaxAuthorised = 2
    MaxAnswers = 2
    MaxRows = 1
    MaxNow = 2
INVARIANTS
    TypeOK
    HeldHoursWereAnnounced
    CreditAndAwaitingAddUp
    OrdinaryShiftEndsAtAPlace
    OneStandingAnswer
    AnswerFollowsItsShift
PROPERTIES
    StandardDayIsEarned
    AutoCloseFilesTheLimit
