\* A reader that throws.
SPECIFICATION FairSpec
CONSTANTS
    i1 = i1  i2 = i2  p1 = p1  p2 = p2
    NoLayer = NoLayer  NoPath = NoPath  NoIdentifier = NoIdentifier  NoThread = NoThread
    Thread = {t1, t2}
    Layer = {l1, l2, l3}
    Identifier = {i1, i2}
    Path = {p1, p2}
    ContextDependent = {}
    RepoPath <- MCRepoPath
    Calls = {"FindOrOpen"}
    Failures = {"throw"}
    MaxResolverChanges = 0
    InitialLocation <- MCLocation
    InitialAssets <- MCAssets
CHECK_DEADLOCK FALSE
PROPERTIES CallsReturn
