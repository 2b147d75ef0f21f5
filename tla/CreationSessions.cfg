\* A session with its prompts in memory only, and one with them stored; two
\* requests to run, one to complete; one restart or change of
\* the workspace.
CONSTANTS
    Sessions = {s1, s2}
    DigestOnly = {s1}
    Runs = {r1, r2}
    Seals = {c1}
    EvidenceCount = 2
    MaxFaults = 1
    None = None
SPECIFICATION FairSpec
INVARIANTS
    EvidenceBehindProof
    NoOrphan
    AbortedAddsNothing
PROPERTY SessionsSettle
CHECK_DEADLOCK FALSE
