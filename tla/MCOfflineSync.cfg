\* One worker with one phone, a desk and a network that loses what it is given.
SPECIFICATION FairSpec
CONSTANTS
    w1 = w1
    r1 = r1
    s1 = s1
    p1 = p1
    Workers = {w1}
    Requests = {r1}
    Sites = {s1}
    NoSite = NoSite
    InTransit = InTransit
    Unassigned = Unassigned
    Phones = {p1}
    Owner <- OneOwner
    MaxAge = 0
    Window = 0
    Batch = 2
    Wavering = {FALSE}
    MaxPunches = 2
    MaxFlight = 1
    TransitEnabled = {}
    Taps = {"Clock In"}
    Bands = {"approved"}
    Removable = {}
    RuleChoices <- NoClose
    Spots = {NoSite}
    Revocable = {p1}
    DeskRows = {1}
    MaxRows = 1
    MaxNow = 1
INVARIANTS
    EveryPunchOnce
    SettledIsOnRecord
    NothingWaitsAtTheServer
PROPERTIES
    QueueDrains
CHECK_DEADLOCK FALSE
