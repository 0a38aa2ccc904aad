CONSTANTS
    MaxPosts = 3
SPECIFICATION FairSpec
INVARIANTS
    TypeOK
    InOrder
    FlushDrains
PROPERTY
    FlushReturns
\* Posts are bounded and the server task may end: the pipeline can stop.
CHECK_DEADLOCK FALSE
