\* One worker's two notices and two browsers, one of which another worker may take over; one dispatch dies.
SPECIFICATION FairSpec
CONSTANTS
    w1 = w1
    w2 = w2
    b1 = b1
    b2 = b2
    n1 = n1
    n2 = n2
    p1 = p1
    Nobody = Nobody
    Workers = {w1, w2}
    Browsers = {b1, b2}
    Notices = {n1, n2}
    Addressee <- AllToOne
    Processes = {p1}
    AttemptLimit = 2
    MaxAge = 0
    Hour = 2
    Readable = {n1}
    MaxDeaths = 1
    MaxChanges = 2
    MaxNow = 3
INVARIANTS
    DeliveredHasRung
    RingsOnce
PROPERTIES
    NothingIsLostInSilence
