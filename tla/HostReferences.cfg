\* Every operation, with references from every place the page has them from.
SPECIFICATION Spec
CONSTANTS
    q1 = q1
    q2 = q2
    x1 = x1
    main = main
    other = other
    Requests = {q1, q2, x1}
    Renderers = {main, other}
    Owner = main
    Sender <- MCSender
    MaxChanges = 2
INVARIANTS
    SpentOnce
    SpentForWork
    LateDoesNoWork
    GrantsSuffice
CHECK_DEADLOCK FALSE
