\* Two threads and three layers; every failure, and a change of the resolver.
SPECIFICATION Spec
CONSTANTS
    i1 = i1  i2 = i2  p1 = p1  p2 = p2
    NoLayer = NoLayer  NoPath = NoPath  NoIdentifier = NoIdentifier  NoThread = NoThread
    Thread = {t1, t2}
    Layer = {l1, l2, l3}
    Identifier = {i1, i2}
    Path = {p1, p2}
    ContextDependent = {}
    RepoPath <- MCRepoPath
    Calls = {"FindOrOpen", "CreateNew", "SetIdentifier", "UpdateAssetInfo"}
    Failures = {"read", "throw", "save"}
    MaxResolverChanges = 1
    InitialLocation <- MCLocation
    InitialAssets <- MCAssets
SYMMETRY MCSymmetry
CHECK_DEADLOCK FALSE
INVARIANTS TypeOK ReferencesKeepAlive RegistryMatchesAssetInfo NoSelfDeadlock
PROPERTIES ReturnsInitialized
