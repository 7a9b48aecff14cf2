SPECIFICATION Spec
CONSTANTS
    a1 = a1  a2 = a2  a3 = a3  b1 = b1  A = A  B = B  x = x  y = y
    NULL = NULL
    Names = {a1, a2, a3, b1}
    Pkgs = {A, B}
    Chans = {x, y}
    Paths = {"i1", "i2", "i3", "i4"}
    BundleImages <- MCBundleImages
    Manifests <- MCManifests
    PkgOf <- MCPkgOf
    MaxEntryID = 9
INVARIANTS
    CatalogNavigable
    DeprecatedTruncates
    DeprecatedMarked
    EdgesDeclared
    EdgesDescend
    WalkBounded
    RegenerableUntilDeprecated
    EdgesListed
    ModelHeadsAgree
    RenderKeepsChannels
    QueriersAgree
PROPERTIES
    PackagesAreKept
