\* Two requests, two trust snapshots.
CONSTANTS
    Requests = {r1, r2}
    Profiles = {p1, p2}
    None = None
SPECIFICATION Spec
INVARIANTS
    AbortStops
    CancelReaches
    SentAsConfirmed
    NothingStaged
PROPERTIES
    RequestsEnd
CHECK_DEADLOCK FALSE
