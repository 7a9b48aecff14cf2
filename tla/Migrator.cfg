SPECIFICATION Spec
CONSTANTS
    new1 = new1  new2 = new2  old = old
    None = None
    Procs = {new1, new2, old}
    Latest <- MCLatest
INVARIANTS
    SchemaMatchesVersion
PROPERTIES
    SuccessMeansMigrated
    MigrationsAreKept
