\* Two workspaces, two sessions, two operations at a time, three openings.
CONSTANTS
    Workspaces = {w1, w2}
    Sessions = {s1, s2}
    None = None
    Picked = Picked
    Slots = {o1, o2}
    MaxEnters = 3
    MaxClicks = 3
SPECIFICATION Spec
SYMMETRY Symmetry
INVARIANTS
    LastEnterWins
    
    ScopedView
CHECK_DEADLOCK FALSE
