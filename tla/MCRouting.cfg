\* The fabric of DialMailboxRouter::new() (default: Unroutable) with
\* detached mailboxes (forwarder: PanickingMailboxSender).
CONSTANTS
    x1 = x1
    x2 = x2
    p1 = p1
    p2 = p2
    Keys <- MCKeys
    Actors <- MCActors
    Addrs = {x1, x2}
    Dialable = {x1}
    Posters = {p1, p2}
    DialDefault <- MCUnroutable
    Forwarder <- MCPanicking
    MaxPosts = 2
    MaxOps = 3

SPECIFICATION Spec

INVARIANT TypeOK
INVARIANT LookupSound
INVARIANT UnbindClears
INVARIANT OneDialPerAddr

\* Every post returns and posts start only while the bound lasts; when it
\* is spent the fabric has nothing more to do.
CHECK_DEADLOCK FALSE
