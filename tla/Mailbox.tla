------------------------------ MODULE Mailbox ------------------------------
(***************************************************************************)
(* One actor's mailbox (hyperactor/src/mailbox.rs): the port table         *)
(* State.ports, the allocator State.next_port, the ports opened on it with *)
(* their handles and receivers, and Mailbox::post, the local dispatch path *)
(* that delivers serialized envelopes or returns them to the sender.       *)
(*                                                                         *)
(* Data is abstracted: a payload is a member of Values (it deserializes)   *)
(* or Garbage (it does not); the accumulator is accum::max, the one the    *)
(* tests use.  Ghost variables sent, received and sent_at_close record     *)
(* what the sinks accepted and what the receivers returned.                *)
(***************************************************************************)
EXTENDS Integers, Sequences

CONSTANTS
    Self,             \* the ActorId that owns this mailbox
    Actors,           \* actor ids an envelope may be addressed to
    Values,           \* payloads that deserialize into the port's type
    Garbage,          \* a payload that fails to deserialize
    USER_PORT_OFFSET, \* first ephemeral port index (1024 in the code)
    MaxPorts,         \* bound: number of ports allocated
    MaxSends          \* bound: number of sends and posts

ASSUME ConstAssumption ==
    /\ Self \in Actors
    /\ Values \subseteq Nat \ {0}
    /\ Garbage \notin Values
    /\ USER_PORT_OFFSET \in Nat
    /\ MaxPorts \in Nat
    /\ MaxSends \in Nat

\* The ephemeral port indices the bounded model can allocate.
Idx == USER_PORT_OFFSET .. USER_PORT_OFFSET + MaxPorts - 1

\* open_port (mpsc queue), open_accum_port, open_enqueue_port, open_once_port.
Kinds == {"port", "accum", "enqueue", "once"}

\* A port table entry: absent, a live sender, or a OnceSender whose
\* oneshot has been taken (Mutex<Option<..>> holding None).
Entries == {"none", "live", "spent"}

Errors == {"Unroutable", "Mailbox"}

VARIABLES
    next_port,     \* State.next_port
    kind,          \* which open_* call allocated each index ("free": none)
    ports,         \* State.ports: index -> entry
    rx,            \* the port's receiver: "none", "open" or "dropped"
    handle,        \* the port's handle: "none", "held", "bound" or "spent"
    queue,         \* the mpsc / oneshot buffer between sink and receiver
    acc,           \* the accumulator state behind open_accum_port's mutex
    returned,      \* envelopes posted to the undeliverable return handle
    forwarded,     \* envelopes handed to the forwarder
    nsends,        \* sends and posts made so far (bounded by MaxSends)
    sent,          \* ghost: payloads each port's sink accepted
    received,      \* ghost: values each receiver returned
    sent_at_close  \* ghost: Len(sent[i]) when i's receiver was dropped

vars == <<next_port, kind, ports, rx, handle, queue, acc, returned,
          forwarded, nsends, sent, received, sent_at_close>>

Max2(a, b) == IF a >= b THEN a ELSE b

LastOf(s) == s[Len(s)]

TypeOK ==
    /\ next_port \in USER_PORT_OFFSET .. USER_PORT_OFFSET + MaxPorts
    /\ kind \in [Idx -> Kinds \cup {"free"}]
    /\ ports \in [Idx -> Entries]
    /\ rx \in [Idx -> {"none", "open", "dropped"}]
    /\ handle \in [Idx -> {"none", "held", "bound", "spent"}]
    /\ queue \in [Idx -> Seq(Values)]
    /\ acc \in [Idx -> Values \cup {0}]
    /\ returned \in Seq([port : Idx, error : Errors])
    /\ forwarded \in Seq(Actors)
    /\ nsends \in 0 .. MaxSends
    /\ sent \in [Idx -> Seq(Values)]
    /\ received \in [Idx -> Seq(Values)]
    /\ sent_at_close \in [Idx -> Nat]

\* State::new: no ports, next_port starts at USER_PORT_OFFSET.
Init ==
    /\ next_port = USER_PORT_OFFSET
    /\ kind = [i \in Idx |-> "free"]
    /\ ports = [i \in Idx |-> "none"]
    /\ rx = [i \in Idx |-> "none"]
    /\ handle = [i \in Idx |-> "none"]
    /\ queue = [i \in Idx |-> <<>>]
    /\ acc = [i \in Idx |-> 0]
    /\ returned = <<>>
    /\ forwarded = <<>>
    /\ nsends = 0
    /\ sent = [i \in Idx |-> <<>>]
    /\ received = [i \in Idx |-> <<>>]
    /\ sent_at_close = [i \in Idx |-> 0]

-----------------------------------------------------------------------------
(* Opening ports: allocate_port is a fetch_add on next_port; the handle   *)
(* and (except for enqueue ports) the receiver are created with it.  No   *)
(* entry is put in the port table until the handle is bound.              *)

Open(k) ==
    /\ next_port < USER_PORT_OFFSET + MaxPorts
    /\ next_port' = next_port + 1
    /\ kind' = [kind EXCEPT ![next_port] = k]
    /\ rx' = [rx EXCEPT ![next_port] = IF k = "enqueue" THEN "none" ELSE "open"]
    /\ handle' = [handle EXCEPT ![next_port] = "held"]
    /\ UNCHANGED <<ports, queue, acc, returned, forwarded, nsends, sent,
                   received, sent_at_close>>

OpenPort == Open("port")
OpenAccumPort == Open("accum")
OpenEnqueuePort == Open("enqueue")
OpenOncePort == Open("once")

\* PortHandle::bind / Mailbox::bind: the first bind inserts an
\* UnboundedSender if the slot is vacant (an occupied slot is left alone);
\* later binds return the PortId cached in the handle's OnceLock.
Bind(i) ==
    /\ kind[i] \in {"port", "accum", "enqueue"}
    /\ handle[i] = "held"
    /\ handle' = [handle EXCEPT ![i] = "bound"]
    /\ ports' = IF ports[i] = "none" THEN [ports EXCEPT ![i] = "live"] ELSE ports
    /\ UNCHANGED <<next_port, kind, rx, queue, acc, returned, forwarded,
                   nsends, sent, received, sent_at_close>>

\* OncePortHandle::bind / Mailbox::bind_once consumes the handle and
\* inserts a OnceSender holding the oneshot if the slot is vacant.
BindOnce(i) ==
    /\ kind[i] = "once"
    /\ handle[i] = "held"
    /\ handle' = [handle EXCEPT ![i] = "bound"]
    /\ ports' = IF ports[i] = "none" THEN [ports EXCEPT ![i] = "live"] ELSE ports
    /\ UNCHANGED <<next_port, kind, rx, queue, acc, returned, forwarded,
                   nsends, sent, received, sent_at_close>>

-----------------------------------------------------------------------------
(* UnboundedPortSender::send: Mpsc fails once the receiver is gone; the   *)
(* accumulator's enqueue folds the update under its mutex, sends the new  *)
(* state and ignores that send's result; an enqueue function may fail.    *)

SendSucceeds(i, fails) ==
    CASE kind[i] = "port"    -> rx[i] = "open"
      [] kind[i] = "accum"   -> TRUE
      [] kind[i] = "enqueue" -> ~fails

\* Mutant of Deliver: the accumulator's enqueue sends the state before it
\* folds the update in (the two statements of the closure swapped).
Deliver_SendBeforeFold(i, v) ==
    /\ sent' = [sent EXCEPT ![i] = Append(@, v)]
    /\ CASE kind[i] = "port" ->
              /\ queue' = [queue EXCEPT ![i] = Append(@, v)]
              /\ UNCHANGED acc
         [] kind[i] = "accum" ->
              /\ acc' = [acc EXCEPT ![i] = Max2(@, v)]
              /\ queue' = IF rx[i] = "open"
                            THEN [queue EXCEPT ![i] = Append(@, acc[i])]
                            ELSE queue
         [] kind[i] = "enqueue" -> UNCHANGED <<queue, acc>>

\* Mutant of Deliver: the accumulator's enqueue sends the update it was
\* given instead of the folded state.
Deliver_SendsUpdate(i, v) ==
    /\ sent' = [sent EXCEPT ![i] = Append(@, v)]
    /\ CASE kind[i] = "port" ->
              /\ queue' = [queue EXCEPT ![i] = Append(@, v)]
              /\ UNCHANGED acc
         [] kind[i] = "accum" ->
              /\ acc' = [acc EXCEPT ![i] = Max2(@, v)]
              /\ queue' = IF rx[i] = "open"
                            THEN [queue EXCEPT ![i] = Append(@, v)]
                            ELSE queue
         [] kind[i] = "enqueue" -> UNCHANGED <<queue, acc>>

\* The sink's effect on queue, acc and the ghost sent when it succeeds.
Deliver(i, v) ==
    /\ sent' = [sent EXCEPT ![i] = Append(@, v)]
    /\ CASE kind[i] = "port" ->
              /\ queue' = [queue EXCEPT ![i] = Append(@, v)]
              /\ UNCHANGED acc
         [] kind[i] = "accum" ->
              LET s == Max2(acc[i], v) IN
              /\ acc' = [acc EXCEPT ![i] = s]
              /\ queue' = IF rx[i] = "open"
                            THEN [queue EXCEPT ![i] = Append(@, s)]
                            ELSE queue
         [] kind[i] = "enqueue" -> UNCHANGED <<queue, acc>>

\* Mark the envelope with the error and post it to the return handle
\* (MessageEnvelope::undeliverable; the envelope has no error yet).
Return(i, e) ==
    returned' = Append(returned, [port |-> i, error |-> e])

\* PortHandle::send: a typed local send, errors go back to the caller.
Send(i, v) ==
    /\ kind[i] \in {"port", "accum", "enqueue"}
    /\ handle[i] \in {"held", "bound"}
    /\ nsends < MaxSends
    /\ nsends' = nsends + 1
    /\ \E fails \in BOOLEAN :
         \/ /\ SendSucceeds(i, fails)
            /\ Deliver(i, v)
         \/ /\ ~SendSucceeds(i, fails)
            /\ UNCHANGED <<queue, acc, sent>>
    /\ UNCHANGED <<next_port, kind, ports, rx, handle, returned, forwarded,
                   received, sent_at_close>>

\* OncePortHandle::send consumes the handle; the oneshot send fails if
\* the receiver is gone.
SendOnce(i, v) ==
    /\ kind[i] = "once"
    /\ handle[i] = "held"
    /\ nsends < MaxSends
    /\ nsends' = nsends + 1
    /\ handle' = [handle EXCEPT ![i] = "spent"]
    /\ IF rx[i] = "open"
         THEN /\ queue' = [queue EXCEPT ![i] = Append(@, v)]
              /\ sent' = [sent EXCEPT ![i] = Append(@, v)]
         ELSE UNCHANGED <<queue, sent>>
    /\ UNCHANGED <<next_port, kind, ports, rx, acc, returned, forwarded,
                   received, sent_at_close>>

-----------------------------------------------------------------------------
(* Mailbox::post.  The DashMap entry lock is held across send_serialized, *)
(* so one post is one step with respect to other posts and receiver drops *)
(* on the same index.                                                     *)

\* UnboundedSender::send_serialized: deserialize, then send; an error of
\* either kind returns the resealed envelope with a Mailbox error.
PostUnbounded(i, p) ==
    /\ kind[i] \in {"port", "accum", "enqueue"}
    /\ UNCHANGED ports
    /\ \/ /\ p = Garbage
          /\ Return(i, "Mailbox")
          /\ UNCHANGED <<queue, acc, sent>>
       \/ /\ p \in Values
          /\ \E fails \in BOOLEAN :
               \/ /\ SendSucceeds(i, fails)
                  /\ Deliver(i, p)
                  /\ UNCHANGED returned
               \/ /\ ~SendSucceeds(i, fails)
                  /\ Return(i, "Mailbox")
                  /\ UNCHANGED <<queue, acc, sent>>

\* Mutant of PostOnce: send_once sends without taking the oneshot out of
\* its Option and reports the port still valid, so the entry stays live.
PostOnce_NoTake(i, p) ==
    /\ kind[i] = "once"
    /\ UNCHANGED acc
    /\ \/ /\ p = Garbage
          /\ Return(i, "Mailbox")
          /\ UNCHANGED <<ports, queue, sent>>
       \/ /\ p \in Values
          /\ ports[i] = "spent"
          /\ Return(i, "Mailbox")
          /\ UNCHANGED <<ports, queue, sent>>
       \/ /\ p \in Values
          /\ ports[i] = "live"
          /\ rx[i] = "open"
          /\ queue' = [queue EXCEPT ![i] = Append(@, p)]
          /\ sent' = [sent EXCEPT ![i] = Append(@, p)]
          /\ UNCHANGED <<ports, returned>>
       \/ /\ p \in Values
          /\ ports[i] = "live"
          /\ rx[i] # "open"
          /\ Return(i, "Mailbox")
          /\ UNCHANGED <<ports, queue, sent>>

\* OnceSender::send_serialized / send_once: deserialize, take the oneshot,
\* send.  Ok(false) removes the entry; a taken or closed oneshot is an
\* error, and the entry then stays with None in it.
PostOnce(i, p) ==
    /\ kind[i] = "once"
    /\ UNCHANGED acc
    /\ \/ /\ p = Garbage
          /\ Return(i, "Mailbox")
          /\ UNCHANGED <<ports, queue, sent>>
       \/ /\ p \in Values
          /\ ports[i] = "spent"
          /\ Return(i, "Mailbox")
          /\ UNCHANGED <<ports, queue, sent>>
       \/ /\ p \in Values
          /\ ports[i] = "live"
          /\ rx[i] = "open"
          /\ queue' = [queue EXCEPT ![i] = Append(@, p)]
          /\ sent' = [sent EXCEPT ![i] = Append(@, p)]
          /\ ports' = [ports EXCEPT ![i] = "none"]
          /\ UNCHANGED returned
       \/ /\ p \in Values
          /\ ports[i] = "live"
          /\ rx[i] # "open"
          /\ ports' = [ports EXCEPT ![i] = "spent"]
          /\ Return(i, "Mailbox")
          /\ UNCHANGED <<queue, sent>>

Post(a, i, p) ==
    /\ nsends < MaxSends
    /\ nsends' = nsends + 1
    /\ \/ /\ a # Self
          /\ forwarded' = Append(forwarded, a)
          /\ UNCHANGED <<ports, queue, acc, returned, sent>>
       \/ /\ a = Self
          /\ ports[i] = "none"
          /\ Return(i, "Unroutable")
          /\ UNCHANGED <<ports, queue, acc, forwarded, sent>>
       \/ /\ a = Self
          /\ ports[i] # "none"
          /\ UNCHANGED forwarded
          /\ (PostUnbounded(i, p) \/ PostOnce(i, p))
    /\ UNCHANGED <<next_port, kind, rx, handle, received, sent_at_close>>

-----------------------------------------------------------------------------
(* Receivers.                                                             *)

\* PortReceiver::recv / try_recv with a message available.  An
\* accumulator receiver coalesces: it drains the queue and keeps the last.
Recv(i) ==
    /\ kind[i] \in {"port", "accum"}
    /\ rx[i] = "open"
    /\ queue[i] # <<>>
    /\ IF kind[i] = "accum"
         THEN /\ received' = [received EXCEPT ![i] = Append(@, LastOf(queue[i]))]
              /\ queue' = [queue EXCEPT ![i] = <<>>]
         ELSE /\ received' = [received EXCEPT ![i] = Append(@, Head(queue[i]))]
              /\ queue' = [queue EXCEPT ![i] = Tail(@)]
    /\ UNCHANGED <<next_port, kind, ports, rx, handle, acc, returned,
                   forwarded, nsends, sent, sent_at_close>>

\* Mutant of Drain: the coalesce test is lost and every drain keeps only
\* the last message.
Drain_AlwaysCoalesce(i) ==
    /\ kind[i] \in {"port", "accum"}
    /\ rx[i] = "open"
    /\ queue[i] # <<>>
    /\ received' = [received EXCEPT ![i] = Append(@, LastOf(queue[i]))]
    /\ queue' = [queue EXCEPT ![i] = <<>>]
    /\ UNCHANGED <<next_port, kind, ports, rx, handle, acc, returned,
                   forwarded, nsends, sent, sent_at_close>>

\* PortReceiver::drain: everything queued, or only the last if coalescing.
Drain(i) ==
    /\ kind[i] \in {"port", "accum"}
    /\ rx[i] = "open"
    /\ queue[i] # <<>>
    /\ received' = [received EXCEPT ![i] =
                      IF kind[i] = "accum" THEN Append(@, LastOf(queue[i]))
                                           ELSE @ \o queue[i]]
    /\ queue' = [queue EXCEPT ![i] = <<>>]
    /\ UNCHANGED <<next_port, kind, ports, rx, handle, acc, returned,
                   forwarded, nsends, sent, sent_at_close>>

\* Drop for PortReceiver / OncePortReceiver: remove the index from the port
\* table; the buffered messages go with the channel.
DropReceiver(i) ==
    /\ kind[i] \in {"port", "accum", "once"}
    /\ rx[i] = "open"
    /\ rx' = [rx EXCEPT ![i] = "dropped"]
    /\ ports' = [ports EXCEPT ![i] = "none"]
    /\ queue' = [queue EXCEPT ![i] = <<>>]
    /\ sent_at_close' = [sent_at_close EXCEPT ![i] = Len(sent[i])]
    /\ UNCHANGED <<next_port, kind, handle, acc, returned, forwarded, nsends,
                   sent, received>>

\* OncePortReceiver::recv consumes the receiver: it takes the value and
\* is then dropped, removing the index from the port table.
RecvOnce(i) ==
    /\ kind[i] = "once"
    /\ rx[i] = "open"
    /\ queue[i] # <<>>
    /\ received' = [received EXCEPT ![i] = Append(@, Head(queue[i]))]
    /\ rx' = [rx EXCEPT ![i] = "dropped"]
    /\ ports' = [ports EXCEPT ![i] = "none"]
    /\ queue' = [queue EXCEPT ![i] = <<>>]
    /\ sent_at_close' = [sent_at_close EXCEPT ![i] = Len(sent[i])]
    /\ UNCHANGED <<next_port, kind, handle, acc, returned, forwarded, nsends,
                   sent>>

-----------------------------------------------------------------------------
Next ==
    \/ OpenPort \/ OpenAccumPort \/ OpenEnqueuePort \/ OpenOncePort
    \/ \E i \in Idx :
         \/ Bind(i) \/ BindOnce(i)
         \/ Recv(i) \/ Drain(i) \/ DropReceiver(i) \/ RecvOnce(i)
         \/ \E v \in Values : Send(i, v) \/ SendOnce(i, v)
         \/ \E a \in Actors, p \in Values \cup {Garbage} : Post(a, i, p)

Spec == Init /\ [][Next]_vars

-----------------------------------------------------------------------------
(* Properties.                                                            *)

\* FIFO per port (spec 8.4): while the receiver of an ordinary port is
\* open, what it has received followed by what is queued is exactly what
\* the port's sink accepted, in order, across local sends, posts and drains.
FifoPerPort ==
    \A i \in Idx :
        kind[i] = "port" /\ rx[i] = "open" => received[i] \o queue[i] = sent[i]

\* Latest wins (spec 9, coalescing): an open accumulator receiver's next
\* receive yields the accumulator's current state: the last state queued,
\* or, with nothing queued, the last state it received.  This depends on
\* open_accum_port sending the state after folding the update, and on the
\* coalescing receive keeping the last queued state.
AccumLatestWins ==
    \A i \in Idx :
        kind[i] = "accum" /\ rx[i] = "open" =>
            acc[i] = IF queue[i] # <<>> THEN LastOf(queue[i])
                     ELSE IF received[i] # <<>> THEN LastOf(received[i]) ELSE 0

\* One-shot at most once (spec 8.5): a once port accepts at most one
\* message over all local sends and posts, whatever their interleaving.
OnceAtMostOnce ==
    \A i \in Idx : kind[i] = "once" => Len(sent[i]) <= 1

\* Drop closes (spec 8.10: "subsequent post to that port is Unroutable"):
\* a post to this mailbox for a port whose receiver has been dropped is
\* returned Unroutable, neither accepted nor failed in the port's sender.
DropClosesPort ==
    [][\A i \in Idx, p \in Values \cup {Garbage} :
         Post(Self, i, p) /\ rx[i] = "dropped" =>
             returned' = Append(returned, [port |-> i, error |-> "Unroutable"])]_vars

\* No silent loss (spec 7): after a receiver is gone no send or post to
\* its port is reported as accepted; each one fails or is returned.
NoSilentLoss ==
    \A i \in Idx : rx[i] = "dropped" => Len(sent[i]) = sent_at_close[i]

=============================================================================
