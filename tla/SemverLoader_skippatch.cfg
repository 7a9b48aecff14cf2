SPECIFICATION SemverSpec
CONSTANTS
    v100 = v100  v101 = v101  w101 = w101  v102 = v102  v110 = v110
    A = A  x = x  y = y
    NULL = NULL
    Names = {v100, v101, w101, v102, v110}
    Pkgs = {A}
    Chans = {x, y}
    Paths = {"i1", "i2", "i3", "i4", "i5"}
    BundleImages = {}
    Manifests = {}
    PkgOf <- MCPkgOf
    MaxEntryID = 1
    SemverImages <- GoodImages
    Modes = {"semver", "skippatch"}
    VersionOf <- MCVersionOf
    ChanRank <- MCChanRank
INVARIANTS
    HeadIsHighest
    UpgradesLeadToHead
    GraphWalkBounded
PROPERTIES
    SuccessPublishes
