CONSTANTS
    a0 = a0
    a1 = a1
    garbage = garbage
    Self = a0
    Actors <- MCActors
    Values <- MCValues
    Garbage = garbage
    USER_PORT_OFFSET = 1024
    MaxPorts = 2
    MaxSends = 4

SPECIFICATION Spec

INVARIANT TypeOK
INVARIANT FifoPerPort
INVARIANT AccumLatestWins
INVARIANT OnceAtMostOnce

\* The mailbox is passive: once its callers stop, nothing is enabled.
CHECK_DEADLOCK FALSE
