SPECIFICATION Spec
CONSTANTS
    a = a  b = b  A = A  B = B  f = f  g = g
    NULL = NULL
    Items = {a, b, A, B}
    Kinds = {"file", "manifests", "configs", "configmap"}
    Indexes <- MCIndexes
    Directories <- MCDirectories
    ConfigMaps <- MCConfigMaps
    Manifests <- MCManifests
    Clients = {"c1", "c2"}
    MaxRuns = 2
INVARIANTS
    AnswersAreWhole
    StopsGracefully
    CopiesRemoved
PROPERTY
    SignalEnds
CHECK_DEADLOCK FALSE
