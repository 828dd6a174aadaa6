\* Each component on its small instance (MCMachines).
SPECIFICATION Spec
CONSTANTS
    None = None
    t1 = t1
    t2 = t2
    p1 = p1
    p2 = p2
    p3 = p3
    i1 = i1
    i2 = i2
    i3 = i3
    s1 = s1
    s2 = s2
    s3 = s3
    v = v
    Identifier = {p1, p2}
    Content = {s1, v}
    Empty = v
    Asker = {t1, t2}
    MaxTime = 3
    MaxRevision = 3
    PrimName = {1, 2}
    MaxDepth = 3
    MaxEdits = 3
    EditIndex <- FirstOrSame
    FirstChildren <- ThreeBelowTwo
    FirstProperties <- OneProperty
    Editors = {1}
    Items = {1, 2}
    Vectors <- VectorsOfTwo
    MaxItems = 3
    Assets = {1, 2}
    Prims = {1}
    Offsets = {0, 5}
    PathLists <- ListsOfTwo
    MaxSubLayers = 3
SYMMETRY Symmetry
CONSTRAINT OneAsksAtLast
INVARIANTS EntriesTold HandlesSound ContentShown CleanMeansSaved MutedAnswers
    NamespaceAgrees TargetsFollow TableConsistent
PROPERTY OffsetsFollow
CHECK_DEADLOCK FALSE
