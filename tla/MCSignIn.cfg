\* A head administrator, the developer and a free number; two requests between guard and handler.
SPECIFICATION Spec
CONSTANTS
    p1 = p1
    p2 = p2
    p3 = p3
    r1 = r1
    r2 = r2
    Ids = {1, 2, 3}
    People = {p1, p2, p3}
    Nobody = Nobody
    Passwords = {"first", "second"}
    Veterans = {1}
    FirstUsers <- First
    Requests = {r1, r2}
    MaxVersion = 1
    MaxSessions = 2
SYMMETRY Symmetry
INVARIANTS
    SessionsAreCurrent
    AssignmentResolves
PROPERTIES
    LastHeadIsHardToLose
CHECK_DEADLOCK FALSE
