SPECIFICATION IndexerSpec
CONSTANTS
    a1 = a1  a2 = a2  a3 = a3  b1 = b1  A = A  B = B
    NULL = NULL
    Bundles = {a1, a2, a3, b1}
    Pkgs = {A, B}
    PkgOf <- MCPkgOf
    VersionOf <- MCVersionOf
    Imageless = {a3}
    RandomDirs = {10, 11}
    Limit = 2
    Requests <- MCRequests
    MaxCommands = 2
    Contents <- MCContents
INVARIANTS
    SuccessMeansApplied
    CleanExit
    OverwritesWholePackages
    ExportIsComplete
PROPERTY
    CommandEnds
CHECK_DEADLOCK FALSE
