\* Two threads and three layers; one asset, with a context dependent identifier.
SPECIFICATION FairSpec
CONSTANTS
    i1 = i1  i2 = i2  p1 = p1  p2 = p2
    NoLayer = NoLayer  NoPath = NoPath  NoIdentifier = NoIdentifier  NoThread = NoThread
    Thread = {t1, t2}
    Layer = {l1, l2, l3}
    Identifier = {i1}
    Path = {p1, p2}
    ContextDependent = {i1}
    RepoPath <- NoRepoPath
    Calls = {"FindOrOpen", "Find", "CreateNew", "New", "CreateAnonymous", "OpenAsAnonymous"}
    Failures = {"read"}
    MaxResolverChanges = 0
    InitialLocation <- MCOneLocation
    InitialAssets <- MCAssets
INVARIANTS OneLayerPerPath
PROPERTIES CallsReturn
