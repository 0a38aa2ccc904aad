------------------------------ MODULE Routing ------------------------------
(***************************************************************************)
(* The routing fabric of hyperactor/src/mailbox.rs: MailboxRouter (prefix  *)
(* table), WeakMailboxRouter, DialMailboxRouter (address book, connection  *)
(* cache, default sender), MailboxMuxer, UnroutableMailboxSender, and the  *)
(* forward hop of Mailbox::post.                                           *)
(*                                                                         *)
(* Every post is a chain of synchronous MailboxSender::post calls.  Each   *)
(* call is one step of its poster, so binds, unbinds and other posts       *)
(* interleave between hops, as they do between the router's lock release   *)
(* and the child's post.  A Reference is a sequence of naturals            *)
(* (world, rank, name) ordered lexicographically with a prefix before its  *)
(* extensions, the order of Reference.  Delivery to a mailbox's own ports  *)
(* is Mailbox.tla; a MailboxClient's buffer is the terminal "sent".        *)
(***************************************************************************)
EXTENDS Integers, Sequences, FiniteSets

CONSTANTS
    Keys,        \* References that may be bound in a table
    Actors,      \* destination ActorIds (full-length References)
    Addrs,       \* ChannelAddrs
    Dialable,    \* the addresses channel::dial succeeds on
    Posters,     \* threads posting envelopes concurrently
    DialDefault, \* the DialMailboxRouter's default sender
    Forwarder,   \* the forwarder of every mailbox in the fabric
    MaxPosts,    \* bound: posts started
    MaxOps       \* bound: bind / unbind / drop operations

\* Senders.  Tuples throughout, so that any two can be compared.
Root == <<"root">>
Weak == <<"weak">>
Dial == <<"dial">>
Mux == <<"mux">>
Unroutable == <<"unroutable">>
Panicking == <<"panicking">>
MB(a) == <<"mailbox", a>>
NoSender == <<"none">>
Idle == <<"idle">>
NoAddr == "none"

Mailboxes == {MB(a) : a \in Actors}
RouterTargets == {Dial, Mux} \cup Mailboxes
Nodes == {Root, Weak, Dial, Mux, Unroutable, Panicking} \cup Mailboxes
Outcomes == {"none", "delivered", "sent", "Unroutable", "BrokenLink", "panic"}

ASSUME RoutingAssumption ==
    /\ Actors \subseteq Seq(Nat) /\ Keys \subseteq Seq(Nat)
    /\ Dialable \subseteq Addrs /\ NoAddr \notin Addrs
    /\ DialDefault \in {Unroutable, Root}
    /\ Forwarder \in {Panicking, Weak}
    /\ MaxPosts \in Nat /\ MaxOps \in Nat

VARIABLES
    rtable,    \* MailboxRouter.entries: Reference -> sender
    book,      \* DialMailboxRouter.address_book: Reference -> ChannelAddr
    cache,     \* DialMailboxRouter.sender_cache: the dialed addresses
    muxed,     \* MailboxMuxer.mailboxes: the actors bound to their mailbox
    alive,     \* some strong MailboxRouter handle to the table exists
    at,        \* the sender each poster is inside, or Idle
    dest,      \* the destination actor of each poster's envelope
    looked,    \* the address lookup_addr returned, until dial uses it
    held,      \* the muxer entry whose read guard the poster holds
    outcome,   \* how each poster's last post ended
    dials,     \* ghost: MailboxClients created per address
    evicts,    \* ghost: cache evictions per address
    cleared,   \* ghost: prefixes unbound and not bound again since
    nposts, nops

vars == <<rtable, book, cache, muxed, alive, at, dest, looked, held, outcome,
          dials, evicts, cleared, nposts, nops>>

-----------------------------------------------------------------------------
(* Reference order and prefix relation (Reference::is_prefix_of and Ord). *)

IsPrefix(k, d) == Len(k) <= Len(d) /\ SubSeq(d, 1, Len(k)) = k

RefLeq(a, b) ==
    \/ IsPrefix(a, b)
    \/ \E i \in 1 .. Len(a) :
         /\ i <= Len(b)
         /\ SubSeq(a, 1, i - 1) = SubSeq(b, 1, i - 1)
         /\ a[i] < b[i]

\* lower_bound(Excluded(d)).prev(): the greatest key <= d of a map whose
\* bound keys are S.
GreatestLeq(S, d) ==
    CHOOSE k \in {j \in S : RefLeq(j, d)} :
        \A j \in {j2 \in S : RefLeq(j2, d)} : RefLeq(j, k)

\* Mutant of Lookup: the is_prefix_of test on the key found is dropped.
Lookup_NoPrefixCheck(t, none, d) ==
    LET S == {k \in Keys : t[k] # none}
    IN  IF \E k \in S : RefLeq(k, d) THEN t[GreatestLeq(S, d)] ELSE none

\* The lookup of MailboxRouter::post and DialMailboxRouter::lookup_addr:
\* the greatest bound key <= d, accepted only if it is a prefix of d.
Lookup(t, none, d) ==
    LET S == {k \in Keys : t[k] # none}
    IN  IF \E k \in S : RefLeq(k, d)
          THEN LET g == GreatestLeq(S, d) IN IF IsPrefix(g, d) THEN t[g] ELSE none
          ELSE none

\* Reference definition (spec 7): the entry at d's longest bound prefix.
LongestPrefix(t, none, d) ==
    LET P == {k \in Keys : t[k] # none /\ IsPrefix(k, d)}
    IN  IF P = {} THEN none
        ELSE t[CHOOSE k \in P : \A j \in P : Len(j) <= Len(k)]

-----------------------------------------------------------------------------
TypeOK ==
    /\ rtable \in [Keys -> RouterTargets \cup {NoSender}]
    /\ book \in [Keys -> Addrs \cup {NoAddr}]
    /\ cache \subseteq Addrs
    /\ muxed \subseteq Actors
    /\ alive \in BOOLEAN
    /\ at \in [Posters -> Nodes \cup {Idle}]
    /\ dest \in [Posters -> Actors]
    /\ looked \in [Posters -> Addrs \cup {NoAddr}]
    /\ held \in [Posters -> Actors \cup {NoSender}]
    /\ outcome \in [Posters -> Outcomes]
    /\ dials \in [Addrs -> Nat] /\ evicts \in [Addrs -> Nat]
    /\ cleared \subseteq Keys
    /\ nposts \in 0 .. MaxPosts /\ nops \in 0 .. MaxOps

\* MailboxRouter::new, DialMailboxRouter::new_with_default, MailboxMuxer::new.
Init ==
    /\ rtable = [k \in Keys |-> NoSender]
    /\ book = [k \in Keys |-> NoAddr]
    /\ cache = {}
    /\ muxed = {}
    /\ alive = TRUE
    /\ at = [p \in Posters |-> Idle]
    /\ dest \in [Posters -> Actors]
    /\ looked = [p \in Posters |-> NoAddr]
    /\ held = [p \in Posters |-> NoSender]
    /\ outcome = [p \in Posters |-> "none"]
    /\ dials = [x \in Addrs |-> 0] /\ evicts = [x \in Addrs |-> 0]
    /\ cleared = {}
    /\ nposts = 0 /\ nops = 0

-----------------------------------------------------------------------------
(* Control operations.                                                    *)

PostVars == <<at, dest, looked, held, outcome, nposts>>

Op == nops < MaxOps /\ nops' = nops + 1

\* MailboxRouter::bind inserts or replaces under the write lock.
RouterBind(k, n) ==
    /\ Op /\ alive
    /\ rtable' = [rtable EXCEPT ![k] = n]
    /\ UNCHANGED <<book, cache, muxed, alive, dials, evicts, cleared>>
    /\ UNCHANGED PostVars

\* The last strong MailboxRouter is dropped; a WeakMailboxRouter no longer
\* upgrades.  A DialMailboxRouter whose default is the root holds a strong
\* handle, so then the table stays alive.
DropRoot ==
    /\ Op /\ alive /\ DialDefault # Root
    /\ alive' = FALSE
    /\ UNCHANGED <<rtable, book, cache, muxed, dials, evicts, cleared>>
    /\ UNCHANGED PostVars

\* DialMailboxRouter::bind replaces the binding and evicts the old
\* address's client if the address changed.
DialBind(k, x) ==
    /\ Op
    /\ book' = [book EXCEPT ![k] = x]
    /\ IF book[k] # NoAddr /\ book[k] # x /\ book[k] \in cache
         THEN /\ cache' = cache \ {book[k]}
              /\ evicts' = [evicts EXCEPT ![book[k]] = @ + 1]
         ELSE UNCHANGED <<cache, evicts>>
    /\ cleared' = {u \in cleared : ~IsPrefix(u, k)}
    /\ UNCHANGED <<rtable, muxed, alive, dials>>
    /\ UNCHANGED PostVars

\* The keys w.range(dest..).take_while(|k| dest.is_prefix_of(k)) visits.
UnbindSet(b, u) ==
    {k \in Keys : /\ b[k] # NoAddr
                  /\ RefLeq(u, k)
                  /\ \A j \in Keys : b[j] # NoAddr /\ RefLeq(u, j) /\ RefLeq(j, k)
                                       => IsPrefix(u, j)}

\* Mutant of DialUnbind: the range starts after dest, so an entry bound at
\* dest itself stays.
DialUnbind_Exclusive(u) ==
    LET R == {k \in UnbindSet(book, u) : k # u}
        X == {book[k] : k \in R}
    IN  /\ Op
        /\ book' = [k \in Keys |-> IF k \in R THEN NoAddr ELSE book[k]]
        /\ cache' = cache \ X
        /\ evicts' = [x \in Addrs |-> IF x \in X \cap cache THEN evicts[x] + 1 ELSE evicts[x]]
        /\ cleared' = cleared \cup {u}
        /\ UNCHANGED <<rtable, muxed, alive, dials>>
        /\ UNCHANGED PostVars

\* DialMailboxRouter::unbind removes every entry under the prefix and
\* evicts their addresses' clients.
DialUnbind(u) ==
    LET R == UnbindSet(book, u)
        X == {book[k] : k \in R}
    IN  /\ Op
        /\ book' = [k \in Keys |-> IF k \in R THEN NoAddr ELSE book[k]]
        /\ cache' = cache \ X
        /\ evicts' = [x \in Addrs |-> IF x \in X \cap cache THEN evicts[x] + 1 ELSE evicts[x]]
        /\ cleared' = cleared \cup {u}
        /\ UNCHANGED <<rtable, muxed, alive, dials>>
        /\ UNCHANGED PostVars

\* MailboxMuxer::bind_mailbox: only into a vacant entry.
MuxBind(a) ==
    /\ Op /\ a \notin muxed
    /\ muxed' = muxed \cup {a}
    /\ UNCHANGED <<rtable, book, cache, alive, dials, evicts, cleared>>
    /\ UNCHANGED PostVars

\* MailboxMuxer::unbind: DashMap::remove waits for the read guards on the
\* entry that posts in progress hold.
MuxUnbind(a) ==
    /\ Op /\ a \in muxed
    /\ \A p \in Posters : held[p] # a
    /\ muxed' = muxed \ {a}
    /\ UNCHANGED <<rtable, book, cache, alive, dials, evicts, cleared>>
    /\ UNCHANGED PostVars

-----------------------------------------------------------------------------
(* Posting.  Each action is one MailboxSender::post call of poster p.     *)

TableVars == <<rtable, book, cache, muxed, alive, dials, evicts, cleared, nops>>

\* The post returns: the envelope was delivered, enqueued or returned with
\* an error, and the muxer read guard, if any, is released.
Finish(p, o) ==
    /\ at' = [at EXCEPT ![p] = Idle]
    /\ outcome' = [outcome EXCEPT ![p] = o]
    /\ held' = [held EXCEPT ![p] = NoSender]
    /\ looked' = [looked EXCEPT ![p] = NoAddr]

\* The post calls the next sender's post.
Hop(p, n) ==
    /\ at' = [at EXCEPT ![p] = n]
    /\ UNCHANGED <<outcome, held, looked>>

\* A caller posts an envelope for actor d on one of the fabric's senders.
StartPost(p, d, n) ==
    /\ at[p] = Idle /\ nposts < MaxPosts
    /\ nposts' = nposts + 1
    /\ at' = [at EXCEPT ![p] = n]
    /\ dest' = [dest EXCEPT ![p] = d]
    /\ outcome' = [outcome EXCEPT ![p] = "none"]
    /\ UNCHANGED <<looked, held>>
    /\ UNCHANGED TableVars

\* Mailbox::post: an envelope for another actor goes to the forwarder;
\* its own envelopes are dispatched to its ports (Mailbox.tla).
MailboxPost(p) ==
    /\ at[p] \in Mailboxes
    /\ IF at[p] = MB(dest[p]) THEN Finish(p, "delivered") ELSE Hop(p, Forwarder)
    /\ UNCHANGED <<dest, nposts>> /\ UNCHANGED TableVars

\* PanickingMailboxSender::post panics: the post never returns normally.
PanickingPost(p) ==
    /\ at[p] = Panicking
    /\ Finish(p, "panic")
    /\ UNCHANGED <<dest, nposts>> /\ UNCHANGED TableVars

\* UnroutableMailboxSender::post returns the envelope as Unroutable.
UnroutablePost(p) ==
    /\ at[p] = Unroutable
    /\ Finish(p, "Unroutable")
    /\ UNCHANGED <<dest, nposts>> /\ UNCHANGED TableVars

\* Mutant of RouterPost: the None arm is lost and the lookup's result is
\* posted to whatever it is.
RouterPost_NoUnroutable(p) ==
    /\ at[p] = Root
    /\ Hop(p, Lookup(rtable, NoSender, dest[p]))
    /\ UNCHANGED <<dest, nposts>> /\ UNCHANGED TableVars

\* MailboxRouter::post: look up under the read lock, release it, then post
\* to the sender found or return the envelope Unroutable.
RouterPost(p) ==
    /\ at[p] = Root
    /\ LET n == Lookup(rtable, NoSender, dest[p])
       IN  IF n = NoSender THEN Finish(p, "Unroutable") ELSE Hop(p, n)
    /\ UNCHANGED <<dest, nposts>> /\ UNCHANGED TableVars

\* WeakMailboxRouter::post: upgrade, or return the envelope BrokenLink.
WeakPost(p) ==
    /\ at[p] = Weak
    /\ IF alive THEN Hop(p, Root) ELSE Finish(p, "BrokenLink")
    /\ UNCHANGED <<dest, nposts>> /\ UNCHANGED TableVars

\* MailboxMuxer::post: the entry's read guard is held across the child's
\* post; an actor with no entry is Unroutable.
MuxPost(p) ==
    /\ at[p] = Mux
    /\ IF dest[p] \in muxed
         THEN /\ at' = [at EXCEPT ![p] = MB(dest[p])]
              /\ held' = [held EXCEPT ![p] = dest[p]]
              /\ UNCHANGED <<outcome, looked>>
         ELSE Finish(p, "Unroutable")
    /\ UNCHANGED <<dest, nposts>> /\ UNCHANGED TableVars

\* DialMailboxRouter::post, first part: lookup_addr under the read lock;
\* an unknown destination goes to the default sender.
DialLookup(p) ==
    /\ at[p] = Dial /\ looked[p] = NoAddr
    /\ LET x == Lookup(book, NoAddr, dest[p])
       IN  IF x = NoAddr
             THEN Hop(p, DialDefault)
             ELSE /\ looked' = [looked EXCEPT ![p] = x]
                  /\ UNCHANGED <<at, outcome, held>>
    /\ UNCHANGED <<dest, nposts>> /\ UNCHANGED TableVars

\* Mutant of DialConnect: the cache is bypassed and every post dials.
DialConnect_AlwaysDial(p) ==
    LET x == looked[p] IN
    /\ at[p] = Dial /\ x # NoAddr
    /\ IF x \in Dialable
         THEN /\ cache' = cache \cup {x}
              /\ dials' = [dials EXCEPT ![x] = @ + 1]
              /\ Finish(p, "sent")
         ELSE /\ Finish(p, "Unroutable")
              /\ UNCHANGED <<cache, dials>>
    /\ UNCHANGED <<rtable, book, muxed, alive, evicts, cleared, nops>>
    /\ UNCHANGED <<dest, nposts>>

\* DialMailboxRouter::dial and the client's post: the cache entry is
\* taken under the DashMap entry lock; a vacant one is dialed and filled,
\* a dial error returns the envelope Unroutable; then MailboxClient::post
\* enqueues the envelope in the client's buffer.
DialConnect(p) ==
    LET x == looked[p] IN
    /\ at[p] = Dial /\ x # NoAddr
    /\ \/ /\ x \in cache
          /\ Finish(p, "sent")
          /\ UNCHANGED <<cache, dials>>
       \/ /\ x \notin cache /\ x \in Dialable
          /\ cache' = cache \cup {x}
          /\ dials' = [dials EXCEPT ![x] = @ + 1]
          /\ Finish(p, "sent")
       \/ /\ x \notin cache /\ x \notin Dialable
          /\ Finish(p, "Unroutable")
          /\ UNCHANGED <<cache, dials>>
    /\ UNCHANGED <<rtable, book, muxed, alive, evicts, cleared, nops>>
    /\ UNCHANGED <<dest, nposts>>

Step(p) ==
    \/ MailboxPost(p) \/ PanickingPost(p) \/ UnroutablePost(p)
    \/ RouterPost(p) \/ WeakPost(p) \/ MuxPost(p)
    \/ DialLookup(p) \/ DialConnect(p)

Next ==
    \/ \E p \in Posters, d \in Actors, n \in {Root, Weak, Dial, Mux} : StartPost(p, d, n)
    \/ \E p \in Posters : Step(p)
    \/ \E k \in Keys, n \in RouterTargets : RouterBind(k, n)
    \/ \E k \in Keys, x \in Addrs : DialBind(k, x)
    \/ \E k \in Keys : DialUnbind(k)
    \/ \E a \in Actors : MuxBind(a) \/ MuxUnbind(a)
    \/ DropRoot

Spec == Init /\ [][Next]_vars

\* Every post call runs when it can: the caller's thread is not starved.
FairSpec == Spec /\ \A p \in Posters : WF_vars(Step(p))

-----------------------------------------------------------------------------
(* Properties.                                                            *)

\* Sound prefix lookup: whenever the router's table or the dial router's
\* address book resolves an actor (MailboxRouter::post, lookup_addr), the
\* entry chosen is the one at the actor's longest bound prefix; a lookup
\* never hands an envelope to a sibling's sender.
LookupSound ==
    \A d \in Actors :
        /\ Lookup(rtable, NoSender, d) # NoSender =>
              Lookup(rtable, NoSender, d) = LongestPrefix(rtable, NoSender, d)
        /\ Lookup(book, NoAddr, d) # NoAddr =>
              Lookup(book, NoAddr, d) = LongestPrefix(book, NoAddr, d)

\* Complete prefix lookup (spec 8.7, E4): an actor with a bound prefix in
\* the router's table is routed, not returned Unroutable.
LookupComplete ==
    \A d \in Actors :
        LongestPrefix(rtable, NoSender, d) # NoSender => Lookup(rtable, NoSender, d) # NoSender

\* Unbind clears the subtree (spec 4.9, E5): after DialMailboxRouter::
\* unbind(u), and until something under u is bound again, no address-book
\* entry under u remains, whatever else was bound around it.
UnbindClears ==
    \A u \in cleared, k \in Keys : IsPrefix(u, k) => book[k] = NoAddr

\* At most one dial per address (spec 5): however posts interleave, an
\* address gets a new MailboxClient only after its cached one was evicted.
OneDialPerAddr ==
    \A x \in Addrs : dials[x] <= evicts[x] + 1

\* Eviction (the doc comments of bind and unbind): the cache holds a client
\* only for an address the book still binds, or that a post in progress
\* has looked up.
CacheOnlyBound ==
    \A x \in cache :
        (\E k \in Keys : book[k] = x) \/ (\E p \in Posters : looked[p] = x)

\* Every post returns (spec 4.5: post has no result, only the return path).
PostReturns ==
    \A p \in Posters : at[p] # Idle ~> at[p] = Idle

=============================================================================
