SPECIFICATION Spec
CONSTANTS
    i1 = i1
    i2 = i2
    i3 = i3
    Scripts <- MCScripts
    Devices = 2
    MaxRuns = 2
    None = None
INVARIANTS
    PayloadIntoOwnImage
SYMMETRY Symmetry
CHECK_DEADLOCK FALSE
