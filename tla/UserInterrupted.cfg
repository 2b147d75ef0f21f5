\* One session's run, one child: the server of the user is interrupted.
CONSTANTS
    Calls = {c1}
    RunCalls = {c1}
    None = None
    User = User
    MaxStarts = 1
    MaxPolls = 1
SPECIFICATION Spec
INVARIANTS
    OnlyOwnInterrupted
CHECK_DEADLOCK FALSE
