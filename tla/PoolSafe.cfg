\* Two threads, regions of two spans.
SPECIFICATION Spec
CONSTANTS
    Thread = {t1, t2}
    RegionBits = 2
    IndexBits = 3
    ElemsPerSpan = 4
    MaxInUse = 4
SYMMETRY ThreadSymmetry
INVARIANTS ElementsSound
PROPERTIES ImplementsAllocator
