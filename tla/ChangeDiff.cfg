\* CreateDiff inside a change block.
SPECIFICATION FairSpec
CONSTANTS
    Thread = {t1}
    Layer = {l1}
    MaxChanges = 2
    MaxBlocks = 1
    MaxRounds = 2
    DiffsInBlocks = TRUE
PROPERTIES HeardInTheEnd
CHECK_DEADLOCK FALSE
