SPECIFICATION Spec
CONSTANTS
    b1 = b1  b2 = b2  b3 = b3
    etcd = etcd  vault = vault
    Names = {b1, b2, b3}
    Apis = {etcd, vault}
    Provided <- MCProvided
    Required <- MCRequired
    Keyed = {b1, b2}
INVARIANTS
    UsedApisAreKept
