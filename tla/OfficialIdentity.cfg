\* Four instants, up to two snapshots of each kind, a freshness of one instant.
CONSTANTS
    MaxTime = 3
    MaxSnapshots = 2
    Issued = 1
    Expires = 4
    KeyUntil = 3
    MaxAge = 1
    Skew = 1
SPECIFICATION IdentitySpec
INVARIANTS
    RevocationBounded
    NeverTrustedAgain
CHECK_DEADLOCK FALSE
