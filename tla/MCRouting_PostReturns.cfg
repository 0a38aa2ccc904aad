\* The fabric of test_dial_mailbox_router_default: the DialMailboxRouter's
\* default sender is the root MailboxRouter, which routes a world prefix
\* back to the DialMailboxRouter.
CONSTANTS
    x1 = x1
    x2 = x2
    p1 = p1
    p2 = p2
    Keys <- MCKeys
    Actors <- MCActors
    Addrs = {x1, x2}
    Dialable = {x1}
    Posters = {p1}
    DialDefault <- MCRoot
    Forwarder <- MCPanicking
    MaxPosts = 1
    MaxOps = 2

SPECIFICATION FairSpec

PROPERTY PostReturns

CHECK_DEADLOCK FALSE
