\* Any five of eight operations in any order and overlap, and one fault.
SPECIFICATION Spec
CONSTANTS
    a1 = a1
    a2 = a2
    a3 = a3
    e1 = e1
    e2 = e2
    e3 = e3
    s1 = s1
    s2 = s2
    p1 = p1
    None = None
    Adds <- MCAdds
    Records <- MCRecords
    About <- MCAbout
    Seals <- MCSeals
    Signed <- MCSigned
    Outputs <- MCOutputs
    Target <- MCTarget
    MaxFaults = 1
SYMMETRY MCSymmetry
CONSTRAINT FewBegin
INVARIANTS
    ChainStaysValid
    RecordedHasFile
    AnswersKept
PROPERTIES
    ImplementsArchive
CHECK_DEADLOCK FALSE
