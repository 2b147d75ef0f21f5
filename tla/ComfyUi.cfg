\* Two calls, one of which runs the adapter, two children, one change by the user.
CONSTANTS
    Calls = {c1, c2}
    RunCalls = {c1}
    None = None
    User = User
    MaxStarts = 2
    MaxPolls = 1
SPECIFICATION Spec
INVARIANTS
    EndObserved
    NoStray
PROPERTIES
    CallsEnd
CHECK_DEADLOCK FALSE
