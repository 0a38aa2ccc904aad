----------------------------- MODULE MCRouting -----------------------------
(* Routing for TLC: the tables of test_mailbox_router cut down to one     *)
(* world with two procs; two addresses, one of which cannot be dialed.    *)
EXTENDS Routing

CONSTANTS x1, x2, p1, p2

\* Actors world[1].a and world[2].a, as (world, rank, name).
MCActors == {<<1, 1, 1>>, <<1, 2, 1>>}

\* The world prefix and both proc prefixes.
MCKeys == {<<1>>, <<1, 1>>, <<1, 2>>}

MCUnroutable == Unroutable
MCRoot == Root
MCPanicking == Panicking
MCWeak == Weak
=============================================================================
