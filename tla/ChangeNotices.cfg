\* One thread, two layers; rounds up to three deep.
SPECIFICATION FairSpec
CONSTANTS
    Thread = {t1}
    Layer = {l1, l2}
    MaxChanges = 3
    MaxBlocks = 2
    MaxRounds = 3
    DiffsInBlocks = FALSE
INVARIANTS RoundsInOrder DirtinessKnown
PROPERTIES HeardInTheEnd ImplementsNotification
CHECK_DEADLOCK FALSE
