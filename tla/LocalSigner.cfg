\* Four uses of the local signer.
CONSTANTS
    Calls = {c1, c2, c3, c4}
    FirstKey = k0
    None = None
SPECIFICATION SignerSpec
SYMMETRY Symmetric
INVARIANTS
    RetiredStaysRetired
    RetiredNotUsed
CHECK_DEADLOCK FALSE
