SPECIFICATION Spec
CONSTANTS
    A = A  B = B  x = x  y = y
    NULL = NULL
    Pkgs = {A, B}
    Chans = {x, y}
    Inputs <- MCInputs
    Refused = {2, 3}
CHECK_DEADLOCK FALSE
INVARIANT
    HeadsAreHighest
    ManifestIsComplete
    DistinctVersionsAccepted
