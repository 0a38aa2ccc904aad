# Formal models of the hyperactor mailbox

TLA+ models of the message-delivery core of `src/hyperactor/src/mailbox.rs`,
with TLC runs on small instances and TLAPS proofs of the mailbox's type
correctness and per-port FIFO order. `PROJECT.json` lists every component,
run, mutant, source mapping, finding, hazard and theorem. This file explains
them.

## 1. The system

`mailbox.rs` delivers messages between actors. Its parts, and how they interact:

| Part | Code | State | Operations |
|---|---|---|---|
| Mailbox | `Mailbox`, `State` (lines 985-1300, 1985-2010) | `next_port` (atomic counter from 1024), `ports` (DashMap index → type-erased sender), `forwarder` | `open_port`, `open_accum_port`, `open_enqueue_port`, `open_once_port`, `bind`, `bind_once`, `post` |
| Ports | `PortHandle`, `OncePortHandle`, `PortReceiver`, `OncePortReceiver`, `UnboundedSender`, `OnceSender` (1440-1960) | mpsc queue or oneshot per port; `Mutex<Option<oneshot>>` for once ports; accumulator state under a mutex | `send`, `send_serialized`, `try_recv`/`recv` (coalescing for accumulators), `drain`, `Drop` (removes the entry) |
| Envelope | `MessageEnvelope` (190-330) | error slot, first write wins | `try_set_error`, `undeliverable` (return to the sender's return handle) |
| Routers | `MailboxRouter`, `WeakMailboxRouter`, `DialMailboxRouter`, `MailboxMuxer`, `UnroutableMailboxSender`, `PanickingMailboxSender`, `BoxedMailboxSender` (640-790, 2020-2345) | prefix table under an `RwLock`; the dial router's address book (`RwLock<BTreeMap>`) and sender cache (DashMap); the muxer's DashMap | `bind`, `unbind`, `lookup_addr`, `dial`, `post` |
| Client and server | `Buffer`, `MailboxClient`, `MailboxServer`, `MailboxServerHandle` (674-721, 786-976) | buffer `seq`, mpsc queue, `processed` watch; stop watch | `post`, buffer task, return watcher, `flush`, `serve`, `stop` |
| Split ports | `CanSplitPort`, `SplitPortBuffer` (1346-1440) | reducer buffer under a mutex | `split` and its sink |

A post travels a chain of `MailboxSender::post` calls. An actor's mailbox
delivers to its own ports and forwards everything else to its forwarder,
usually a router. A router picks a child by the destination's prefix. The
dial router dials a `MailboxClient` for a remote address. The client's
buffer task hands the envelope to the channel transport. At the far end a
`MailboxServer` posts it into the destination's mailbox. Every failure
returns the envelope to the return handle as `Undeliverable`.

Each post runs synchronously on its caller's thread. Many callers post at
once. The buffer task, the return watchers and the server loop are tokio
tasks. The interleavings that matter are therefore:

- posts against `bind`, `unbind` and `Drop`, and against each other;
- posts against the dial router's cache;
- the client's tasks against a failing link;
- the server loop against `stop`.

## 2. Modules

| Module | Models | Checked by |
|---|---|---|
| `Mailbox.tla` | One mailbox: port table, allocation, the four port kinds, bind, local send, `Mailbox::post`, receive, drain, drop. | `MCMailbox.tla` with `MCMailbox*.cfg` |
| `MailboxProofs.tla` | TLAPS proofs about `Mailbox`. | `tlapm` |
| `Routing.tla` | The router fabric: strong and weak prefix router, dial router with address book, cache and default, muxer, unroutable and panicking senders, and the forward hop of `Mailbox::post`. | `MCRouting.tla` with `MCRouting*.cfg` |
| `ClientServer.tla` | One `MailboxClient` and the `MailboxServer` at the other end of its channel. | `MCClientServer*.cfg` (constants only, no MC module needed) |

How the state and actions correspond to the code:

- **Mailbox.**
  - Variables:
    - `next_port`, `ports` and `kind` are the allocator, the table and which `open_*` made each index.
    - `rx` and `handle` are the lifetimes of the receiver and the handle.
    - `queue` is the mpsc or oneshot buffer. `acc` is the accumulator behind its mutex.
    - `returned` and `forwarded` are the return handle and the forwarder.
  - Actions:
    - `Open(k)` is the `open_*` family.
    - `Bind` and `BindOnce` are the vacant/occupied `entry` logic.
    - `Send` and `SendOnce` are local sends. `Deliver` is the enqueue closure, including the accumulator's fold and its ignored send result.
    - `Post` is `Mailbox::post` with its branches: forwarder, vacant entry (`Unroutable`), then `send_serialized` (deserialize failure returns `Mailbox`). `PostUnbounded` and `PostOnce` are the two `send_serialized` bodies. The whole post is one step because the DashMap entry lock is held across it.
    - `Recv` is `try_recv`/`recv` with coalescing. `Drain`, `DropReceiver` and `RecvOnce` complete the receiver side.
  - Payloads are abstracted: a member of `Values` deserializes and `Garbage` does not. The accumulator is `accum::max`, as in the tests.
- **Routing.**
  - A post is a sequence of steps of one poster. Each step is one `post` of one sender (`at[p]` is the sender the poster is in). Binds, unbinds, other posts and dropping the strong router interleave between hops, exactly where the code releases its locks.
  - The dial router's `post` is two steps:
    - `DialLookup` takes the address book's read lock, so the lookup reads a snapshot.
    - `DialConnect` runs `dial` with the cache's `entry` API, then the client's post.
  - `MuxPost` keeps `held` for the duration of the read guard.
  - References are tuples of naturals with the `Reference` order. That order and `is_prefix_of` live in `reference.rs`, outside `src/`, and are taken from the spec. They are marked `spec_modelled`.
- **ClientServer.**
  - `Buffer::send` is two steps, `SendBegin` (the `seq.fetch_add`) and `SendEnd` (the `queue.send`), because flush can run between them.
  - `Process` is one iteration of the buffer task. It arms the return watcher, calls `try_post`, returns `BrokenLink` on refusal, then bumps the count and publishes it on the `processed` watch.
  - `Watch(e)` is a return-watcher task.
  - `FlushBegin` and `FlushEnd` are `flush`.
  - `ServerTop`, `ServerRecv` and `ServerStopChanged` are the serve loop's check and its two `select!` arms. `Stop` is `MailboxServerHandle::stop`.
  - The transport is outside the repository. It is modelled from its interface in spec §6: ordered while up; when it fails (`LinkFails`), envelopes in flight come back on their oneshots and the receiver then reports `Closed`.

## 3. Runs

| Run | Config | Result | What it shows |
|---|---|---|---|
| `mailbox_core` | `MCMailbox.cfg` | pass, 857,290 states | `FifoPerPort`, `AccumLatestWins` and `OnceAtMostOnce` hold under all interleavings of opens, binds, sends, posts, receives, drains and drops. |
| `mailbox_drop_closes_port` | `MCMailbox_DropClosesPort.cfg` | violation (action property) | Finding 1 below. |
| `mailbox_no_silent_loss` | `MCMailbox_NoSilentLoss.cfg` | violation | Finding 2 below. |
| `routing_core` | `MCRouting.cfg` | pass, 903,288 states | Lookups are sound (`LookupSound`), unbind clears its subtree (`UnbindClears`), and an address is dialled once per eviction (`OneDialPerAddr`), with two concurrent posters. |
| `routing_lookup_complete` | `MCRouting_LookupComplete.cfg` | violation | Finding 3 below. |
| `routing_cache_only_bound` | `MCRouting_CacheOnlyBound.cfg` | violation | Finding 4 below. |
| `routing_post_returns` | `MCRouting_PostReturns.cfg` | violation (liveness) | Finding 5 below. |
| `client_server` | `MCClientServer.cfg` | pass, 13,301 states | Server delivery is in post order (`InOrder`). Flush waits for every earlier post (`FlushDrains`). Every flush returns, with the link up or failed (`FlushReturns`, under `ClientServer!FairSpec`). |
| `client_server_stop_once` | `MCClientServer_StopOnceSafe.cfg` | violation | Finding 6 below. |
| `client_server_returned_error` | `MCClientServer_ReturnedHasError.cfg` | violation | Finding 7 below. |

Every property of a passing run has a mutant in `PROJECT.json`: a plausible
bug in the mapped code that TLC catches. Examples:

- Drain that coalesces every port kind breaks FIFO.
- A once port that does not take its sender breaks at-most-once.
- A lookup without the prefix check breaks `LookupSound`.
- An unbind with an exclusive range bound breaks `UnbindClears`.
- A dial that ignores the cache breaks `OneDialPerAddr`.
- A buffer drained out of order breaks `InOrder`.
- A buffer task that bumps its count only for envelopes `try_post` accepted breaks `FlushReturns`: after a link failure, a flush waits forever.
- A flush without its wait loop breaks `FlushDrains`.

### Bounds

Every bound is a named constant.

- **Mailbox.**
  - Two port indices, enough for two ports of different kinds or two of the same kind.
  - Four sends or posts, enough for two values on one port plus a drain or a post from a second sender.
  - Two payload values, so that order and `max` are observable, plus one undeserializable payload.
  - One peer actor for the forward path.
- **Routing.**
  - One world with two procs, and keys for the world and both procs, so that a prefix has two extensions and a sibling key sorts between a prefix and a destination.
  - Two addresses, one of which cannot be dialled.
  - Two concurrent posters and three table operations, so that a rebind or unbind lands between a lookup and a dial.
- **ClientServer.**
  - Three posts: enough for an envelope in each of the buffer, the wire and the server's mailbox while the link fails.

### Fairness

`Routing!FairSpec` assumes weak fairness of each poster's `Step`. A post
runs synchronously on the caller's thread and no step of it waits on
another actor, so a post that can continue does continue. The liveness run
uses this fairness and still finds a post that never returns, because the
route is cyclic.

`ClientServer!FairSpec` assumes weak fairness of three steps:

- `SendEnd`: `Buffer::send` runs on from `fetch_add` to `queue.send` on the poster's thread, with no await in between.
- `Process`: the Buffer task is spawned on the runtime and loops while its queue holds envelopes. Both arms of the processing closure end without waiting on the transport (`try_post` does not block).
- `FlushEnd`: a flush awaits `processed.changed()`, and every publish wakes it. Once `processed >= seq` holds, it stays true, because the count only grows.

Nothing is assumed of the transport, the server task, the return watchers, or callers that post, flush or stop. `FlushReturns` therefore holds whether or not the link ever fails.

## 4. Findings

1. **A dropped port can be re-bound** (`mailbox.rs:1168`).
   - `Drop for PortReceiver` removes the entry, but the handle lives on.
   - If the handle was never bound, `bind` then finds the entry vacant and inserts a sender again. The code's own comment at the removal asks whether the entry should be tombstoned.
   - A later post to the port is not returned `Unroutable`. For an ordinary port the send fails and the post comes back with a `Mailbox` error (`mailbox.rs:1293`). For an accumulator port the post is accepted and the update lost (finding 2).
   - This contradicts spec §8.10: "subsequent `post` to that port is `Unroutable`".
   - `DropClosesPort` is an action property: a post to a port whose receiver was dropped appends an `Unroutable` return. TLC's shortest counterexample is: open an ordinary port, drop its receiver, bind its handle, post.
2. **The accumulator loses updates silently** (`mailbox.rs:1078`).
   - The enqueue closure ignores the result of `sender.send(state)` and returns `Ok`.
   - After the receiver is dropped, sends and posts to an accumulator port succeed and the update is lost.
   - This contradicts spec §7, which forbids logs-only and silent paths.
3. **The prefix lookup is not longest-prefix** (`mailbox.rs:2132`, `2272`).
   - The code takes the greatest key not above the destination and gives up unless that key is a prefix.
   - With `world1[1]` and `world1[1].actor1` bound, `world1[1].actor2` finds `world1[1].actor1` and is returned `Unroutable`.
   - Spec §8.7 routes it to `world1[1]`. Scenario E4 happens to pass because `actor0` sorts before `actor1`.
4. **The dial cache can hold an evicted address** (`mailbox.rs:2291`).
   - `lookup_addr` releases the address-book lock before `dial`.
   - A concurrent `bind` to a new address, or an `unbind`, evicts the old client. The late dial then caches the old address again.
5. **A cyclic route never returns** (`mailbox.rs:2315`).
   - Take the dial router's default to be a router that routes the world back to the dial router. This is the set-up of the ignored test `test_dial_mailbox_router_default`.
   - A post to an unbound actor then cycles forever. Envelopes have no TTL (the TODO at line 199).
6. **A single stop can panic** (`mailbox.rs:814`).
   - `stop` calls `stopped_tx.send(true).expect("stop called twice")`.
   - The send fails as soon as the server task has ended on `Closed` or an error and dropped `stopped_rx`. So one stop after the channel closed panics.
   - Spec §4.6 and the doc comment make only a second call illegal.
7. **Bounced envelopes come back without an error** (`mailbox.rs:906`).
   - The return watcher forwards the transport's returned envelope with no `try_set_error`.
   - Spec §8.6 requires a non-empty error. The `try_post`-refusal path does stamp `BrokenLink`.
   - The finding holds if the transport does not stamp an error itself; the transport is outside `src/`.

## 5. Proofs

`MailboxProofs.tla` is checked by `tlapm` with no unproved step. It assumes only
`ConstAssumption`:

- `Self \in Actors`;
- `Values` are non-zero naturals;
- `Garbage \notin Values`;
- the bounds are naturals.

- `TypeCorrect: Spec => []TypeOK`.
  - `TypeOK` is inductive. Lemma `TypeStep` has one step per action, and under the larger actions one step per variable.
  - Helper lemmas give the types of `Deliver`, of the return path and of `Append`/`EXCEPT` on a sequence-valued function.
- `FifoCorrect: Spec => []FifoPerPort`.
  - `FifoPerPort` alone is not inductive. `Open` may hand out an index whose `queue`, `sent` or `received` are non-empty in an unreachable state.
  - The inductive invariant is `FifoInv == TypeOK /\ FreshPorts /\ FifoPerPort`. `FreshPorts` says every index at or above `next_port` is free with empty queue and history.
  - `FifoStep` proves that `FifoInv` is preserved, one step per action. Its main arguments:
    - an action touching index `i` leaves every other port's frame unchanged (`FifoLocal`, `FifoUnchanged`);
    - delivery appends to `queue` and `sent` together (`DeliverFifo`, `ConcatAppend`);
    - a receive moves the head of `queue` to the end of `received` (`ConcatHeadTail`);
    - drain moves the whole queue.

Not proved, and only model-checked:

- Liveness (`PostReturns`) and anything involving `ENABLED` are beyond TLAPS.
- `AccumLatestWins`, `OnceAtMostOnce`, all Routing properties and all ClientServer properties are checked by TLC on the bounds above. They are candidates for the next proofs.
- TLAPS cannot prove anything about RECURSIVE operators or induction over data, so operators that need them stay in TLC-only modules.

## 6. Not modelled

- **Split ports and the reducer buffer.** Their unflushed tail is a hazard, and spec §9 documents it.
- **Untyped ports, `PortSink`, serialization and headers.** These are data transformations; values are abstracted.
- **The monitored global return handle and `monitor_tx_health`.** They only log.
- **The lock-level behaviour of DashMap shards.** Posts through the muxer are atomic in the model, so a re-entrant deadlock while holding the read guard (`mailbox.rs:2081`) is listed as a hazard, not checked.
- **Envelopes left unread in a stopped server's channel.** Their fate is decided by channel code outside `src/`.
- **`hyperactor_mesh/src/comm/multicast.rs`.** Envelope data types and header helpers with no state transitions.
- **`monarch_hyperactor/src/code_sync.rs`.** Module declarations only.
- **`torch-sys-cuda/build.rs`.** A build script.
