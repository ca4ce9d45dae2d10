\* Two people, two numbers and a queue of one, with an enrolment and a link in flight.
SPECIFICATION FairSpec
CONSTANTS
    p1 = p1
    p2 = p2
    e1 = e1
    l1 = l1
    People = {p1, p2}
    Nobody = Nobody
    NoLink = NoLink
    Ceiling = 2
    Cap = 1
    Links = {l1}
    MaxUses = 1
    Slots = {e1}
    Runners = {}
    Items = {}
    MaxCrashes = 0
INVARIANTS
    LinkFollowsItsPerson
    ApplicantIsAnnounced
PROPERTIES
    WorkingFaceIsKept
    LeftoverFaceGoes
CHECK_DEADLOCK FALSE
