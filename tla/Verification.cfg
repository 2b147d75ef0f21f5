\* Packages of every version with up to two parts that differ from a good one.
CONSTANTS
    Packages <- MCPackages
    MaxFaults = 2
SPECIFICATION Spec
INVARIANTS
    MeetsSchema
    LayersIndependent
CHECK_DEADLOCK FALSE
