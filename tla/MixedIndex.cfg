SPECIFICATION MixedSpec
CONSTANTS
    v100 = v100  v101 = v101  b1 = b1  A = A  B = B  x = x
    NULL = NULL
    Names = {v100, v101, b1}
    Pkgs = {A, B}
    Chans = {x}
    Paths = {"i1", "i2", "i3"}
    BundleImages <- MCBundleImages
    Manifests <- MCManifests
    PkgOf <- MCPkgOf
    MaxEntryID = 4
    SemverImages <- MCSemverImages
    Modes = {"semver"}
    VersionOf <- MCVersionOf
    ChanRank <- MCChanRank
INVARIANT
    HeadsListReplaces
