\* Two threads, a child that dies or is stopped, and its successor.
SPECIFICATION FairSpec
CONSTANTS
    c1 = c1
    c2 = c2
    Calls = {c1, c2}
    Stopper = Stopper
    Nobody = Nobody
    PipeHolds = 0
    MaxChildren = 2
    MaxAsks = 2
INVARIANTS
    OwnReply
    ListedWhileUnanswered
    NoStrayChild
PROPERTIES
    EveryCallEnds
CHECK_DEADLOCK FALSE
