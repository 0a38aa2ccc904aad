---------------------------- MODULE ClientServer ----------------------------
(***************************************************************************)
(* A MailboxClient and the MailboxServer at the other end of its channel   *)
(* (hyperactor/src/mailbox.rs): the client's Buffer (seq counter, mpsc     *)
(* queue, processing task, processed watch, flush), the per-envelope       *)
(* return watcher, the server task's loop, and MailboxServerHandle::stop.  *)
(*                                                                         *)
(* The channel transport is outside the repository and modelled from its   *)
(* interface (spec 1): try_post accepts while the link is up and keeps     *)
(* order; when the link fails, the envelopes in flight come back on their  *)
(* return oneshots, and the receiving end then reports Closed.  Envelopes  *)
(* are numbered in the order they are posted.                              *)
(***************************************************************************)
EXTENDS Integers, Sequences

CONSTANTS
    MaxPosts    \* bound: envelopes posted to the client

ASSUME ClientServerAssumption == MaxPosts \in Nat

Envs == 1 .. MaxPosts

VARIABLES
    nposts,     \* envelopes posted so far; the next one is nposts + 1
    sending,    \* Buffer::send between seq.fetch_add and queue.send
    seq,        \* Buffer.seq
    bufq,       \* the Buffer's mpsc queue
    processed,  \* the last value sent on the processed watch
    linkUp,     \* the transport accepts try_post
    wire,       \* envelopes try_post accepted, in order, not yet received
    bounced,    \* envelopes the transport sent back on their oneshot
    returned,   \* Undeliverable envelopes posted to the return handle
    delivered,  \* envelopes the server task posted to its mailbox
    srv,        \* the server task: "top", "select" or "exited"
    stopped,    \* the value of the stop watch channel
    stops,      \* MailboxServerHandle::stop calls made
    panicked,   \* stop's expect failed
    flush,      \* a flush in progress: the seq it waits for, or -1
    flushed     \* ghost: envelopes fully sent before that flush began

vars == <<nposts, sending, seq, bufq, processed, linkUp, wire, bounced,
          returned, delivered, srv, stopped, stops, panicked, flush, flushed>>

Errors == {"BrokenLink", "none"}

TypeOK ==
    /\ nposts \in 0 .. MaxPosts
    /\ sending \in BOOLEAN
    /\ seq \in 0 .. MaxPosts /\ processed \in 0 .. MaxPosts
    /\ bufq \in Seq(Envs) /\ wire \in Seq(Envs)
    /\ linkUp \in BOOLEAN
    /\ bounced \subseteq Envs
    /\ returned \in Seq([env : Envs, error : Errors])
    /\ delivered \in Seq(Envs)
    /\ srv \in {"top", "select", "exited"}
    /\ stopped \in BOOLEAN
    /\ stops \in Nat /\ panicked \in BOOLEAN
    /\ flush \in -1 .. MaxPosts
    /\ flushed \subseteq Envs

\* MailboxClient::new with a fresh Buffer, and MailboxServer::serve.
Init ==
    /\ nposts = 0 /\ sending = FALSE
    /\ seq = 0 /\ bufq = <<>> /\ processed = 0
    /\ linkUp = TRUE /\ wire = <<>> /\ bounced = {}
    /\ returned = <<>> /\ delivered = <<>>
    /\ srv = "top" /\ stopped = FALSE /\ stops = 0 /\ panicked = FALSE
    /\ flush = -1 /\ flushed = {}

-----------------------------------------------------------------------------
(* Client side.                                                           *)

\* MailboxClient::post -> Buffer::send, first statement: seq.fetch_add.
SendBegin ==
    /\ ~sending /\ nposts < MaxPosts
    /\ sending' = TRUE
    /\ nposts' = nposts + 1
    /\ seq' = seq + 1
    /\ UNCHANGED <<bufq, processed, linkUp, wire, bounced, returned, delivered,
                   srv, stopped, stops, panicked, flush, flushed>>

\* Mutant of SendEnd: the count is taken again on enqueue.
SendEnd_CountsAgain ==
    /\ sending
    /\ sending' = FALSE
    /\ bufq' = Append(bufq, nposts)
    /\ seq' = seq + 1
    /\ UNCHANGED <<nposts, processed, linkUp, wire, bounced, returned,
                   delivered, srv, stopped, stops, panicked, flush, flushed>>

\* Buffer::send, second statement: queue.send.  The processing task owns
\* the receiving end and lives as long as the runtime, so it succeeds.
SendEnd ==
    /\ sending
    /\ sending' = FALSE
    /\ bufq' = Append(bufq, nposts)
    /\ UNCHANGED <<nposts, seq, processed, linkUp, wire, bounced, returned,
                   delivered, srv, stopped, stops, panicked, flush, flushed>>

\* Mutant of Process: two envelopes are taken in either order, as with
\* more than one task draining the queue.
Process_AnyOrder ==
    /\ bufq # <<>>
    /\ \E k \in 1 .. Len(bufq) :
         LET e == bufq[k] IN
         /\ bufq' = [j \in 1 .. Len(bufq) - 1 |-> IF j < k THEN bufq[j] ELSE bufq[j + 1]]
         /\ IF linkUp
              THEN /\ wire' = Append(wire, e) /\ UNCHANGED returned
              ELSE /\ returned' = Append(returned, [env |-> e, error |-> "BrokenLink"])
                   /\ UNCHANGED wire
    /\ processed' = processed + 1
    /\ UNCHANGED <<nposts, sending, seq, linkUp, bounced, delivered, srv,
                   stopped, stops, panicked, flush, flushed>>

\* Mutant of Process: the count is bumped only for an envelope try_post
\* accepted, as if the task went back to recv on the error path.
Process_NoCountOnReturn ==
    /\ bufq # <<>>
    /\ LET e == Head(bufq) IN
       /\ bufq' = Tail(bufq)
       /\ IF linkUp
            THEN /\ wire' = Append(wire, e) /\ UNCHANGED returned
                 /\ processed' = processed + 1
            ELSE /\ returned' = Append(returned, [env |-> e, error |-> "BrokenLink"])
                 /\ UNCHANGED <<wire, processed>>
    /\ UNCHANGED <<nposts, sending, seq, linkUp, bounced, delivered, srv,
                   stopped, stops, panicked, flush, flushed>>

\* The Buffer task: take the next envelope, arm its return watcher, and
\* try_post it with the watcher's oneshot; a refused envelope is returned
\* BrokenLink (its oneshot is dropped, so its watcher ends).  Then the
\* task bumps its count and publishes it on the processed watch.
Process ==
    /\ bufq # <<>>
    /\ LET e == Head(bufq) IN
       /\ bufq' = Tail(bufq)
       /\ IF linkUp
            THEN /\ wire' = Append(wire, e) /\ UNCHANGED returned
            ELSE /\ returned' = Append(returned, [env |-> e, error |-> "BrokenLink"])
                 /\ UNCHANGED wire
    /\ processed' = processed + 1
    /\ UNCHANGED <<nposts, sending, seq, linkUp, bounced, delivered, srv,
                   stopped, stops, panicked, flush, flushed>>

\* The transport's link fails: try_post refuses from now on and every
\* envelope in flight is sent back on its oneshot.
LinkFails ==
    /\ linkUp
    /\ linkUp' = FALSE
    /\ bounced' = bounced \cup {wire[j] : j \in 1 .. Len(wire)}
    /\ wire' = <<>>
    /\ UNCHANGED <<nposts, sending, seq, bufq, processed, returned, delivered,
                   srv, stopped, stops, panicked, flush, flushed>>

\* The return watcher of envelope e receives it from its oneshot and sends
\* Undeliverable(message) to the return handle, without stamping an error.
Watch(e) ==
    /\ e \in bounced
    /\ bounced' = bounced \ {e}
    /\ returned' = Append(returned, [env |-> e, error |-> "none"])
    /\ UNCHANGED <<nposts, sending, seq, bufq, processed, linkUp, wire,
                   delivered, srv, stopped, stops, panicked, flush, flushed>>

\* Buffer::flush, first statement: read seq.
FlushBegin ==
    /\ flush = -1
    /\ flush' = seq
    /\ flushed' = 1 .. (IF sending THEN nposts - 1 ELSE nposts)
    /\ UNCHANGED <<nposts, sending, seq, bufq, processed, linkUp, wire, bounced,
                   returned, delivered, srv, stopped, stops, panicked>>

\* Mutant of FlushEnd: the wait loop is lost and flush returns at once.
FlushEnd_NoWait ==
    /\ flush # -1
    /\ flush' = -1
    /\ UNCHANGED <<nposts, sending, seq, bufq, processed, linkUp, wire, bounced,
                   returned, delivered, srv, stopped, stops, panicked, flushed>>

\* Buffer::flush returns once the processed watch has caught up.
FlushEnd ==
    /\ flush # -1
    /\ processed >= flush
    /\ flush' = -1
    /\ UNCHANGED <<nposts, sending, seq, bufq, processed, linkUp, wire, bounced,
                   returned, delivered, srv, stopped, stops, panicked, flushed>>

-----------------------------------------------------------------------------
(* Server side.                                                           *)

\* The top of the serve loop: a set stop flag ends the task.
ServerTop ==
    /\ srv = "top"
    /\ srv' = IF stopped THEN "exited" ELSE "select"
    /\ UNCHANGED <<nposts, sending, seq, bufq, processed, linkUp, wire, bounced,
                   returned, delivered, stopped, stops, panicked, flush, flushed>>

\* select!, the rx.recv() arm: an envelope is posted to the mailbox; Closed
\* (the link is gone and nothing is left) ends the task.
ServerRecv ==
    /\ srv = "select"
    /\ \/ /\ wire # <<>>
          /\ delivered' = Append(delivered, Head(wire))
          /\ wire' = Tail(wire)
          /\ srv' = "top"
       \/ /\ wire = <<>> /\ ~linkUp
          /\ srv' = "exited"
          /\ UNCHANGED <<delivered, wire>>
    /\ UNCHANGED <<nposts, sending, seq, bufq, processed, linkUp, bounced,
                   returned, stopped, stops, panicked, flush, flushed>>

\* select!, the stopped_rx.changed() arm: back to the top of the loop.
ServerStopChanged ==
    /\ srv = "select" /\ stopped
    /\ srv' = "top"
    /\ UNCHANGED <<nposts, sending, seq, bufq, processed, linkUp, wire, bounced,
                   returned, delivered, stopped, stops, panicked, flush, flushed>>

\* MailboxServerHandle::stop: stopped_tx.send(true).expect(..).  The send
\* fails once the task has ended and dropped stopped_rx.
Stop ==
    /\ stops < 2 /\ ~panicked
    /\ stops' = stops + 1
    /\ IF srv = "exited"
         THEN /\ panicked' = TRUE /\ UNCHANGED stopped
         ELSE /\ stopped' = TRUE /\ UNCHANGED panicked
    /\ UNCHANGED <<nposts, sending, seq, bufq, processed, linkUp, wire, bounced,
                   returned, delivered, srv, flush, flushed>>

-----------------------------------------------------------------------------
Next ==
    \/ SendBegin \/ SendEnd \/ Process \/ LinkFails
    \/ \E e \in Envs : Watch(e)
    \/ FlushBegin \/ FlushEnd
    \/ ServerTop \/ ServerRecv \/ ServerStopChanged \/ Stop

Spec == Init /\ [][Next]_vars

\* The poster's Buffer::send runs on to its queue.send, the Buffer task is
\* spawned on the runtime and loops while its queue has envelopes, and a
\* flush awaiting the processed watch is woken by every publish: none of
\* them stops for good while it can run.  Nothing is assumed of the
\* transport, the server task or of callers that post, flush or stop.
FairSpec ==
    /\ Spec
    /\ WF_vars(SendEnd) /\ WF_vars(Process) /\ WF_vars(FlushEnd)

-----------------------------------------------------------------------------
(* Properties.                                                            *)

\* FIFO through a single channel transport (spec 5): the server posts envelopes to its mailbox in
\* the order they were posted to the client, through the buffer task, the
\* link and the server loop, whichever of them runs when.
InOrder ==
    \A i, j \in 1 .. Len(delivered) : i < j => delivered[i] < delivered[j]

\* Flush (spec 4.6): when flush returns, every envelope whose
\* MailboxClient::post had returned before flush began has left the buffer.
FlushDrains ==
    flush = -1 => \A j \in 1 .. Len(bufq) : bufq[j] \notin flushed

\* Flush returns (spec 4.6: flush "waits until the processed sequence
\* number catches up to the enqueued sequence number"): a Buffer::flush
\* that has read seq
\* eventually returns, whether the link stays up or fails and the buffer
\* task hands envelopes back BrokenLink instead of posting them, and
\* although seq may count a post still between fetch_add and queue.send.
FlushReturns ==
    flush # -1 ~> flush = -1

\* At-most-once stop (spec 4.6, the doc comment of stop and its expect
\* message "stop called twice"): a handle on which stop is called once
\* never panics.
StopOnceSafe ==
    stops <= 1 => ~panicked

\* Closed loop, non-empty error (spec 8.6): every envelope the client
\* hands back to the return handle carries a delivery error, whether
\* try_post refused it or the link bounced it through the return watcher.
ReturnedHasError ==
    \A j \in 1 .. Len(returned) : returned[j].error # "none"

=============================================================================
