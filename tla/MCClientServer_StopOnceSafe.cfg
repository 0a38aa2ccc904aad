CONSTANTS
    MaxPosts = 1
SPECIFICATION Spec
INVARIANT
    StopOnceSafe
\* Posts are bounded and the server task may end: the pipeline can stop.
CHECK_DEADLOCK FALSE
