--------------------------- MODULE MailboxProofs ---------------------------
(***************************************************************************)
(* Proofs about the mailbox model of Mailbox.tla, for every value of the   *)
(* constants that satisfies ConstAssumption.                               *)
(***************************************************************************)
EXTENDS Mailbox, SequenceTheorems, TLAPS

USE ConstAssumption DEF Kinds, Entries, Errors

(***************************************************************************)
(* Lemmas about the operators the model is built from.                     *)
(***************************************************************************)

\* The accumulator's max of a state and an update is an update value.
LEMMA Max2InValues ==
    ASSUME NEW a \in Values \cup {0}, NEW v \in Values
    PROVE  Max2(a, v) \in Values
BY DEF Max2

\* The last element of a non-empty sequence is one of its elements.
LEMMA LastOfType ==
    ASSUME NEW S, NEW s \in Seq(S), s # <<>>
    PROVE  LastOf(s) \in S
BY DEF LastOf

\* Appending to one sequence of a function to sequences keeps its type.
LEMMA AppendAt ==
    ASSUME NEW S, NEW D, NEW f \in [D -> Seq(S)], NEW i \in D, NEW v \in S
    PROVE  [f EXCEPT ![i] = Append(@, v)] \in [D -> Seq(S)]
BY AppendProperties

\* Setting one value of a function keeps its type.
LEMMA SetAt ==
    ASSUME NEW S, NEW D, NEW f \in [D -> S], NEW i \in D, NEW v \in S
    PROVE  [f EXCEPT ![i] = v] \in [D -> S]
OBVIOUS

(***************************************************************************)
(* Type correctness.                                                       *)
(***************************************************************************)

\* The sinks' effect keeps queue, acc and sent in their types.
LEMMA DeliverType ==
    ASSUME TypeOK, NEW i \in Idx, NEW v \in Values,
           kind[i] \in {"port", "accum", "enqueue"}, Deliver(i, v)
    PROVE  /\ queue' \in [Idx -> Seq(Values)]
           /\ acc' \in [Idx -> Values \cup {0}]
           /\ sent' \in [Idx -> Seq(Values)]
<1>1. sent' \in [Idx -> Seq(Values)]
  <2>1. sent' = [sent EXCEPT ![i] = Append(@, v)]
    BY DEF Deliver
  <2>. QED
    BY <2>1, AppendAt DEF TypeOK
<1>2. CASE kind[i] = "port"
  <2>1. queue' = [queue EXCEPT ![i] = Append(@, v)] /\ acc' = acc
    BY <1>2 DEF Deliver
  <2>2. queue' \in [Idx -> Seq(Values)]
    BY <2>1, AppendAt DEF TypeOK
  <2>. QED
    BY <1>1, <2>1, <2>2 DEF TypeOK
<1>3. CASE kind[i] = "accum"
  <2>1. Max2(acc[i], v) \in Values
    BY Max2InValues DEF TypeOK
  <2>2. acc' = [acc EXCEPT ![i] = Max2(acc[i], v)]
    BY <1>3 DEF Deliver
  <2>3. queue' = queue \/ queue' = [queue EXCEPT ![i] = Append(@, Max2(acc[i], v))]
    BY <1>3 DEF Deliver
  <2>4. acc' \in [Idx -> Values \cup {0}]
    BY <2>1, <2>2 DEF TypeOK
  <2>5. [queue EXCEPT ![i] = Append(@, Max2(acc[i], v))] \in [Idx -> Seq(Values)]
    BY <2>1, AppendAt DEF TypeOK
  <2>6. queue' \in [Idx -> Seq(Values)]
    BY <2>3, <2>5 DEF TypeOK
  <2>. QED
    BY <1>1, <2>4, <2>6
<1>4. CASE kind[i] = "enqueue"
  BY <1>1, <1>4 DEF Deliver, TypeOK
<1>. QED
  BY <1>2, <1>3, <1>4

\* A failed or no-op sink leaves queue, acc and sent in their types.
LEMMA SinkType ==
    ASSUME TypeOK, NEW i \in Idx, NEW v \in Values,
           kind[i] \in {"port", "accum", "enqueue"},
           Deliver(i, v) \/ UNCHANGED <<queue, acc, sent>>
    PROVE  /\ queue' \in [Idx -> Seq(Values)]
           /\ acc' \in [Idx -> Values \cup {0}]
           /\ sent' \in [Idx -> Seq(Values)]
BY DeliverType DEF TypeOK

\* Appending an error record keeps the return queue in its type.
LEMMA ReturnType ==
    ASSUME TypeOK, NEW i \in Idx, NEW e \in Errors, Return(i, e)
    PROVE  returned' \in Seq([port : Idx, error : Errors])
<1>1. [port |-> i, error |-> e] \in [port : Idx, error : Errors]
  OBVIOUS
<1>. QED
  BY <1>1, AppendProperties DEF Return, TypeOK

\* Every step of every actor of the mailbox keeps each variable in its type.
LEMMA TypeStep == TypeOK /\ [Next]_vars => TypeOK'
<1> SUFFICES ASSUME TypeOK, [Next]_vars PROVE TypeOK'
  OBVIOUS
<1>1. ASSUME NEW k \in Kinds, Open(k) PROVE TypeOK'
  <2>1. next_port \in Idx
    BY <1>1 DEF Open, TypeOK, Idx
  <2>2. next_port' \in USER_PORT_OFFSET .. USER_PORT_OFFSET + MaxPorts
    BY <1>1 DEF Open, TypeOK
  <2>3. /\ kind' \in [Idx -> Kinds \cup {"free"}]
        /\ rx' \in [Idx -> {"none", "open", "dropped"}]
        /\ handle' \in [Idx -> {"none", "held", "bound", "spent"}]
    BY <1>1, <2>1 DEF Open, TypeOK
  <2>4. UNCHANGED <<ports, queue, acc, returned, forwarded, nsends, sent,
                    received, sent_at_close>>
    BY <1>1 DEF Open
  <2>. QED
    BY <2>2, <2>3, <2>4 DEF TypeOK
<1>2. ASSUME NEW i \in Idx, Bind(i) \/ BindOnce(i) PROVE TypeOK'
  <2>1. /\ handle' = [handle EXCEPT ![i] = "bound"]
        /\ ports' = ports \/ ports' = [ports EXCEPT ![i] = "live"]
        /\ UNCHANGED <<next_port, kind, rx, queue, acc, returned, forwarded,
                       nsends, sent, received, sent_at_close>>
    BY <1>2 DEF Bind, BindOnce
  <2>. QED
    BY <2>1 DEF TypeOK
<1>3. ASSUME NEW i \in Idx, NEW v \in Values, Send(i, v) PROVE TypeOK'
  <2>1. /\ queue' \in [Idx -> Seq(Values)]
        /\ acc' \in [Idx -> Values \cup {0}]
        /\ sent' \in [Idx -> Seq(Values)]
    BY <1>3, SinkType DEF Send
  <2>2. /\ nsends' \in 0 .. MaxSends
        /\ UNCHANGED <<next_port, kind, ports, rx, handle, returned,
                       forwarded, received, sent_at_close>>
    BY <1>3 DEF Send, TypeOK
  <2>. QED
    BY <2>1, <2>2 DEF TypeOK
<1>4. ASSUME NEW i \in Idx, NEW v \in Values, SendOnce(i, v) PROVE TypeOK'
  <2>1. /\ queue' = queue \/ queue' = [queue EXCEPT ![i] = Append(@, v)]
        /\ sent' = sent \/ sent' = [sent EXCEPT ![i] = Append(@, v)]
    BY <1>4 DEF SendOnce
  <2>2. /\ queue' \in [Idx -> Seq(Values)]
        /\ sent' \in [Idx -> Seq(Values)]
    <3>1. /\ [queue EXCEPT ![i] = Append(@, v)] \in [Idx -> Seq(Values)]
          /\ [sent EXCEPT ![i] = Append(@, v)] \in [Idx -> Seq(Values)]
      BY AppendAt DEF TypeOK
    <3>. QED
      BY <2>1, <3>1 DEF TypeOK
  <2>3. /\ nsends' \in 0 .. MaxSends
        /\ handle' \in [Idx -> {"none", "held", "bound", "spent"}]
        /\ UNCHANGED <<next_port, kind, ports, rx, acc, returned, forwarded,
                       received, sent_at_close>>
    BY <1>4 DEF SendOnce, TypeOK
  <2>. QED
    BY <2>2, <2>3 DEF TypeOK
<1>5. ASSUME NEW a \in Actors, NEW i \in Idx, NEW p \in Values \cup {Garbage},
             Post(a, i, p)
      PROVE  TypeOK'
  <2>1. /\ nsends' \in 0 .. MaxSends
        /\ UNCHANGED <<next_port, kind, rx, handle, received, sent_at_close>>
    BY <1>5 DEF Post, TypeOK
  <2>2. CASE a # Self
    <3>1. /\ forwarded' = Append(forwarded, a)
          /\ UNCHANGED <<ports, queue, acc, returned, sent>>
      BY <1>5, <2>2 DEF Post
    <3>2. forwarded' \in Seq(Actors)
      BY <3>1, AppendProperties DEF TypeOK
    <3>. QED
      BY <2>1, <3>1, <3>2 DEF TypeOK
  <2>3. CASE a = Self /\ ports[i] = "none"
    <3>1. /\ Return(i, "Unroutable")
          /\ UNCHANGED <<ports, queue, acc, forwarded, sent>>
      BY <1>5, <2>3 DEF Post
    <3>2. returned' \in Seq([port : Idx, error : Errors])
      BY <3>1, ReturnType
    <3>. QED
      BY <2>1, <3>1, <3>2 DEF TypeOK
  <2>4. CASE a = Self /\ ports[i] # "none" /\ PostUnbounded(i, p)
    <3>1. /\ kind[i] \in {"port", "accum", "enqueue"}
          /\ UNCHANGED <<ports, forwarded>>
      BY <1>5, <2>4 DEF Post, PostUnbounded
    <3>2. CASE p = Garbage
      <4>1. /\ Return(i, "Mailbox") /\ UNCHANGED <<queue, acc, sent>>
        BY <2>4, <3>2, ConstAssumption DEF PostUnbounded
      <4>2. returned' \in Seq([port : Idx, error : Errors])
        BY <4>1, ReturnType
      <4>. QED
        BY <2>1, <3>1, <4>1, <4>2 DEF TypeOK
    <3>3. CASE p \in Values
      <4>1. PICK fails \in BOOLEAN :
               \/ Deliver(i, p) /\ UNCHANGED returned
               \/ Return(i, "Mailbox") /\ UNCHANGED <<queue, acc, sent>>
        BY <2>4, <3>3, ConstAssumption DEF PostUnbounded
      <4>2. /\ queue' \in [Idx -> Seq(Values)]
            /\ acc' \in [Idx -> Values \cup {0}]
            /\ sent' \in [Idx -> Seq(Values)]
        BY <3>1, <3>3, <4>1, SinkType
      <4>3. returned' \in Seq([port : Idx, error : Errors])
        BY <4>1, ReturnType DEF TypeOK
      <4>. QED
        BY <2>1, <3>1, <4>2, <4>3 DEF TypeOK
    <3>. QED
      BY <3>2, <3>3
  <2>5. CASE a = Self /\ ports[i] # "none" /\ PostOnce(i, p)
    <3>1. /\ UNCHANGED <<acc, forwarded>>
          /\ \/ Return(i, "Mailbox") /\ UNCHANGED returned
             \/ Return(i, "Mailbox")
             \/ UNCHANGED returned
          /\ ports' \in [Idx -> Entries]
          /\ queue' = queue \/ queue' = [queue EXCEPT ![i] = Append(@, p)]
          /\ sent' = sent \/ sent' = [sent EXCEPT ![i] = Append(@, p)]
      BY <1>5, <2>5 DEF Post, PostOnce, TypeOK
    <3>2. CASE p \in Values
      <4>1. /\ queue' \in [Idx -> Seq(Values)]
            /\ sent' \in [Idx -> Seq(Values)]
        <5>1. /\ [queue EXCEPT ![i] = Append(@, p)] \in [Idx -> Seq(Values)]
              /\ [sent EXCEPT ![i] = Append(@, p)] \in [Idx -> Seq(Values)]
          BY <3>2, AppendAt DEF TypeOK
        <5>. QED
          BY <3>1, <5>1 DEF TypeOK
      <4>2. returned' \in Seq([port : Idx, error : Errors])
        BY <3>1, ReturnType DEF TypeOK
      <4>. QED
        BY <2>1, <3>1, <4>1, <4>2 DEF TypeOK
    <3>3. CASE p = Garbage
      <4>1. /\ Return(i, "Mailbox") /\ UNCHANGED <<ports, queue, sent>>
        BY <2>5, <3>3, ConstAssumption DEF PostOnce
      <4>2. returned' \in Seq([port : Idx, error : Errors])
        BY <4>1, ReturnType
      <4>. QED
        BY <2>1, <3>1, <4>1, <4>2 DEF TypeOK
    <3>. QED
      BY <3>2, <3>3
  <2>. QED
    BY <1>5, <2>2, <2>3, <2>4, <2>5 DEF Post
<1>6. ASSUME NEW i \in Idx, Recv(i) PROVE TypeOK'
  <2>1. queue[i] \in Seq(Values) /\ queue[i] # <<>>
    BY <1>6 DEF Recv, TypeOK
  <2>2. /\ LastOf(queue[i]) \in Values
        /\ Head(queue[i]) \in Values
        /\ Tail(queue[i]) \in Seq(Values)
    BY <2>1, LastOfType, HeadTailProperties
  <2>3. UNCHANGED <<next_port, kind, ports, rx, handle, acc, returned,
                    forwarded, nsends, sent, sent_at_close>>
    BY <1>6 DEF Recv
  <2>4. CASE kind[i] = "accum"
    <3>1. /\ received' = [received EXCEPT ![i] = Append(@, LastOf(queue[i]))]
          /\ queue' = [queue EXCEPT ![i] = <<>>]
      BY <1>6, <2>4 DEF Recv
    <3>2. received' \in [Idx -> Seq(Values)]
      BY <3>1, <2>2, AppendAt DEF TypeOK
    <3>3. queue' \in [Idx -> Seq(Values)]
      BY <3>1 DEF TypeOK
    <3>. QED
      BY <2>3, <3>2, <3>3 DEF TypeOK
  <2>5. CASE kind[i] # "accum"
    <3>1. /\ received' = [received EXCEPT ![i] = Append(@, Head(queue[i]))]
          /\ queue' = [queue EXCEPT ![i] = Tail(@)]
      BY <1>6, <2>5 DEF Recv
    <3>2. received' \in [Idx -> Seq(Values)]
      BY <3>1, <2>2, AppendAt DEF TypeOK
    <3>3. queue' \in [Idx -> Seq(Values)]
      BY <3>1, <2>2 DEF TypeOK
    <3>. QED
      BY <2>3, <3>2, <3>3 DEF TypeOK
  <2>. QED
    BY <2>4, <2>5
<1>7. ASSUME NEW i \in Idx, Drain(i) PROVE TypeOK'
  <2>1. queue[i] \in Seq(Values) /\ queue[i] # <<>>
    BY <1>7 DEF Drain, TypeOK
  <2>2. /\ LastOf(queue[i]) \in Values
        /\ received[i] \o queue[i] \in Seq(Values)
    BY <2>1, LastOfType, ConcatProperties DEF TypeOK
  <2>3. Append(received[i], LastOf(queue[i])) \in Seq(Values)
    BY <2>2, AppendProperties DEF TypeOK
  <2>4. received' \in [Idx -> Seq(Values)]
    BY <1>7, <2>2, <2>3 DEF Drain, TypeOK
  <2>5. UNCHANGED <<next_port, kind, ports, rx, handle, acc, returned,
                    forwarded, nsends, sent, sent_at_close>>
    BY <1>7 DEF Drain
  <2>. QED
    BY <1>7, <2>4, <2>5 DEF Drain, TypeOK
<1>8. ASSUME NEW i \in Idx, DropReceiver(i) \/ RecvOnce(i) PROVE TypeOK'
  <2>1. Len(sent[i]) \in Nat
    BY DEF TypeOK
  <2>2. received' \in [Idx -> Seq(Values)]
    <3>1. CASE RecvOnce(i)
      <4>1. Head(queue[i]) \in Values
        BY <3>1, HeadTailProperties DEF RecvOnce, TypeOK
      <4>. QED
        BY <3>1, <4>1, AppendAt DEF RecvOnce, TypeOK
    <3>. QED
      BY <1>8, <3>1 DEF DropReceiver, TypeOK
  <2>3. /\ rx' = [rx EXCEPT ![i] = "dropped"]
        /\ ports' = [ports EXCEPT ![i] = "none"]
        /\ queue' = [queue EXCEPT ![i] = <<>>]
        /\ sent_at_close' = [sent_at_close EXCEPT ![i] = Len(sent[i])]
        /\ UNCHANGED <<next_port, kind, handle, acc, returned, forwarded,
                       nsends, sent>>
    BY <1>8 DEF DropReceiver, RecvOnce
  <2>. QED
    BY <2>1, <2>2, <2>3 DEF TypeOK
<1>9. CASE UNCHANGED vars
  BY <1>9 DEF vars, TypeOK
<1>. QED
  BY <1>1, <1>2, <1>3, <1>4, <1>5, <1>6, <1>7, <1>8, <1>9
     DEF Next, OpenPort, OpenAccumPort, OpenEnqueuePort, OpenOncePort

\* The type invariant holds in every reachable state of the mailbox.
THEOREM TypeCorrect == Spec => []TypeOK
<1>1. Init => TypeOK
  BY DEF Init, TypeOK, Idx
<1>2. TypeOK /\ [Next]_vars => TypeOK'
  BY TypeStep
<1>. QED
  BY <1>1, <1>2, PTL DEF Spec

-----------------------------------------------------------------------------
(***************************************************************************)
(* FIFO per port.                                                          *)
(***************************************************************************)

\* Indices at or above next_port have not been handed out by allocate_port:
\* no open_* call has claimed them and no message has touched them.
FreshPorts ==
    \A j \in Idx : j >= next_port =>
        /\ kind[j] = "free"
        /\ queue[j] = <<>>
        /\ sent[j] = <<>>
        /\ received[j] = <<>>

\* The inductive strengthening of FifoPerPort.
FifoInv == TypeOK /\ FreshPorts /\ FifoPerPort

\* Appending to the queued part appends to the whole history.
LEMMA ConcatAppend ==
    ASSUME NEW S, NEW r \in Seq(S), NEW q \in Seq(S), NEW v \in S
    PROVE  r \o Append(q, v) = Append(r \o q, v)
<1>1. Append(q, v) = q \o <<v>>
  BY AppendIsConcat
<1>2. Append(r \o q, v) = (r \o q) \o <<v>>
  BY AppendIsConcat, ConcatProperties
<1>3. <<v>> \in Seq(S)
  OBVIOUS
<1>. QED
  BY <1>1, <1>2, <1>3, ConcatAssociative

\* Moving the head of the queue to the end of what was received keeps
\* their concatenation.
LEMMA ConcatHeadTail ==
    ASSUME NEW S, NEW r \in Seq(S), NEW q \in Seq(S), q # <<>>
    PROVE  Append(r, Head(q)) \o Tail(q) = r \o q
<1>1. Head(q) \in S /\ Tail(q) \in Seq(S) /\ <<Head(q)>> \in Seq(S)
  BY HeadTailProperties
<1>2. q = <<Head(q)>> \o Tail(q)
  BY <1>1, HeadTailProperties, ConcatProperties, SeqEqual
<1>3. Append(r, Head(q)) = r \o <<Head(q)>>
  BY <1>1, AppendIsConcat
<1>. QED
  BY <1>1, <1>2, <1>3, ConcatAssociative

\* Index j of the port state is left as it was by a step.
Frame(j) ==
    /\ kind'[j] = kind[j]
    /\ rx'[j] = rx[j]
    /\ queue'[j] = queue[j]
    /\ sent'[j] = sent[j]
    /\ received'[j] = received[j]

\* A step that changes nothing the FIFO invariant reads keeps it.
LEMMA FifoUnchanged ==
    ASSUME FifoInv, UNCHANGED <<next_port, kind, rx, queue, sent, received>>
    PROVE  FreshPorts' /\ FifoPerPort'
BY DEF FifoInv, FreshPorts, FifoPerPort

\* A step on an allocated index i that keeps the FIFO relation at i and
\* leaves every other index alone keeps the FIFO invariant.
LEMMA FifoLocal ==
    ASSUME FifoInv, NEW i \in Idx, kind[i] # "free",
           next_port' = next_port, kind' = kind,
           \A j \in Idx \ {i} : Frame(j),
           kind[i] = "port" /\ rx'[i] = "open" => received'[i] \o queue'[i] = sent'[i]
    PROVE  FreshPorts' /\ FifoPerPort'
<1>1. FreshPorts'
  BY DEF FifoInv, FreshPorts, Frame
<1>2. FifoPerPort'
  BY DEF FifoInv, FifoPerPort, Frame
<1>. QED
  BY <1>1, <1>2

\* The sink of an allocated index i changes only index i.
LEMMA DeliverFrame ==
    ASSUME TypeOK, NEW i \in Idx, NEW v \in Values,
           kind[i] \in {"port", "accum", "enqueue"}, Deliver(i, v)
    PROVE  \A j \in Idx \ {i} : queue'[j] = queue[j] /\ sent'[j] = sent[j]
BY DEF Deliver, TypeOK

\* The sink of an ordinary port appends the value to its queue and history.
LEMMA DeliverPort ==
    ASSUME TypeOK, NEW i \in Idx, NEW v \in Values,
           kind[i] = "port", Deliver(i, v)
    PROVE  /\ queue'[i] = Append(queue[i], v)
           /\ sent'[i] = Append(sent[i], v)
BY DEF Deliver, TypeOK

\* A successful delivery to an open ordinary port keeps its FIFO relation.
LEMMA DeliverFifo ==
    ASSUME FifoInv, NEW i \in Idx, NEW v \in Values,
           kind[i] = "port", rx[i] = "open", Deliver(i, v), received'[i] = received[i]
    PROVE  received'[i] \o queue'[i] = sent'[i]
<1>1. received[i] \o queue[i] = sent[i]
  BY DEF FifoInv, FifoPerPort
<1>2. received[i] \in Seq(Values) /\ queue[i] \in Seq(Values)
  BY DEF FifoInv, TypeOK
<1>3. /\ queue'[i] = Append(queue[i], v)
      /\ sent'[i] = Append(sent[i], v)
  BY DeliverPort DEF FifoInv
<1>4. received[i] \o Append(queue[i], v) = Append(received[i] \o queue[i], v)
  <2>1. \A r, q \in Seq(Values), w \in Values : r \o Append(q, w) = Append(r \o q, w)
    BY ConcatAppend
  <2>. QED
    BY <1>2, <2>1
<1>. QED
  BY <1>1, <1>3, <1>4

\* Every step of the mailbox keeps the FIFO invariant.
LEMMA FifoStep == FifoInv /\ [Next]_vars => FifoInv'
<1> SUFFICES ASSUME FifoInv, [Next]_vars PROVE FifoInv'
  OBVIOUS
<1>0. TypeOK /\ TypeOK'
  BY TypeStep DEF FifoInv
<1> SUFFICES FreshPorts' /\ FifoPerPort'
  BY <1>0 DEF FifoInv
<1>1. ASSUME NEW k \in Kinds, Open(k) PROVE FreshPorts' /\ FifoPerPort'
  <2>1. /\ next_port \in Idx
        /\ next_port' = next_port + 1
        /\ kind' = [kind EXCEPT ![next_port] = k]
        /\ rx' \in [Idx -> {"none", "open", "dropped"}]
        /\ \A j \in Idx \ {next_port} : rx'[j] = rx[j]
        /\ UNCHANGED <<queue, sent, received>>
    BY <1>0, <1>1 DEF Open, TypeOK, Idx
  <2>2. /\ queue[next_port] = <<>>
        /\ sent[next_port] = <<>>
        /\ received[next_port] = <<>>
    BY <2>1 DEF FifoInv, FreshPorts, Idx
  <2>3. FreshPorts'
    BY <1>0, <2>1 DEF FifoInv, FreshPorts, TypeOK
  <2>4. FifoPerPort'
    BY <1>0, <2>1, <2>2 DEF FifoInv, FifoPerPort, TypeOK
  <2>. QED
    BY <2>3, <2>4
<1>2. ASSUME NEW i \in Idx, Bind(i) \/ BindOnce(i) PROVE FreshPorts' /\ FifoPerPort'
  BY <1>2, FifoUnchanged DEF Bind, BindOnce
<1>3. ASSUME NEW i \in Idx, NEW v \in Values, Send(i, v)
      PROVE  FreshPorts' /\ FifoPerPort'
  <2>1. PICK fails \in BOOLEAN :
            \/ SendSucceeds(i, fails) /\ Deliver(i, v)
            \/ ~SendSucceeds(i, fails) /\ UNCHANGED <<queue, acc, sent>>
    BY <1>3 DEF Send
  <2>2. /\ kind[i] \in {"port", "accum", "enqueue"}
        /\ UNCHANGED <<next_port, kind, rx, received>>
    BY <1>3 DEF Send
  <2>3. \A j \in Idx \ {i} : Frame(j)
    BY <1>0, <2>1, <2>2, DeliverFrame DEF Frame
  <2>4. ASSUME kind[i] = "port", rx'[i] = "open"
        PROVE  received'[i] \o queue'[i] = sent'[i]
    <3>1. rx[i] = "open"
      BY <2>2, <2>4
    <3>2. CASE SendSucceeds(i, fails) /\ Deliver(i, v)
      BY <2>2, <2>4, <3>1, <3>2, DeliverFifo
    <3>3. CASE ~SendSucceeds(i, fails) /\ UNCHANGED <<queue, acc, sent>>
      BY <2>2, <2>4, <3>1, <3>3 DEF SendSucceeds
    <3>. QED
      BY <2>1, <3>2, <3>3
  <2>. QED
    BY <2>2, <2>3, <2>4, FifoLocal
<1>4. ASSUME NEW i \in Idx, NEW v \in Values, SendOnce(i, v)
      PROVE  FreshPorts' /\ FifoPerPort'
  <2>1. /\ kind[i] = "once"
        /\ UNCHANGED <<next_port, kind, rx, received>>
        /\ \A j \in Idx \ {i} : queue'[j] = queue[j] /\ sent'[j] = sent[j]
    BY <1>0, <1>4 DEF SendOnce, TypeOK
  <2>. QED
    BY <2>1, FifoLocal DEF Frame
<1>5. ASSUME NEW a \in Actors, NEW i \in Idx, NEW p \in Values \cup {Garbage},
             Post(a, i, p)
      PROVE  FreshPorts' /\ FifoPerPort'
  <2>1. UNCHANGED <<next_port, kind, rx, received>>
    BY <1>5 DEF Post
  <2>2. CASE a # Self \/ ports[i] = "none"
    BY <1>5, <2>1, <2>2, FifoUnchanged DEF Post
  <2>3. CASE a = Self /\ ports[i] # "none" /\ PostUnbounded(i, p)
    <3>1. kind[i] \in {"port", "accum", "enqueue"}
      BY <2>3 DEF PostUnbounded
    <3>2. CASE p = Garbage
      BY <2>1, <2>3, <3>2, FifoUnchanged, ConstAssumption DEF PostUnbounded
    <3>3. CASE p \in Values
      <4>1. PICK fails \in BOOLEAN :
              \/ SendSucceeds(i, fails) /\ Deliver(i, p)
              \/ ~SendSucceeds(i, fails) /\ UNCHANGED <<queue, acc, sent>>
        BY <2>3, <3>3, ConstAssumption DEF PostUnbounded
      <4>2. \A j \in Idx \ {i} : Frame(j)
        BY <1>0, <2>1, <3>1, <3>3, <4>1, DeliverFrame DEF Frame
      <4>3. ASSUME kind[i] = "port", rx'[i] = "open"
            PROVE  received'[i] \o queue'[i] = sent'[i]
        <5>1. rx[i] = "open"
          BY <2>1, <4>3
        <5>2. CASE SendSucceeds(i, fails) /\ Deliver(i, p)
          BY <2>1, <3>3, <4>3, <5>1, <5>2, DeliverFifo
        <5>3. CASE ~SendSucceeds(i, fails) /\ UNCHANGED <<queue, acc, sent>>
          BY <2>1, <4>3, <5>1, <5>3 DEF SendSucceeds
        <5>. QED
          BY <4>1, <5>2, <5>3
      <4>. QED
        BY <2>1, <3>1, <4>2, <4>3, FifoLocal
    <3>. QED
      BY <3>2, <3>3
  <2>4. CASE a = Self /\ ports[i] # "none" /\ PostOnce(i, p)
    <3>1. /\ kind[i] = "once"
          /\ \A j \in Idx \ {i} : queue'[j] = queue[j] /\ sent'[j] = sent[j]
      BY <1>0, <2>4 DEF PostOnce, TypeOK
    <3>. QED
      BY <2>1, <3>1, FifoLocal DEF Frame
  <2>. QED
    BY <1>5, <2>2, <2>3, <2>4 DEF Post
<1>6. ASSUME NEW i \in Idx, Recv(i) PROVE FreshPorts' /\ FifoPerPort'
  <2>1. /\ kind[i] \in {"port", "accum"}
        /\ UNCHANGED <<next_port, kind, rx, sent>>
        /\ \A j \in Idx \ {i} : queue'[j] = queue[j] /\ received'[j] = received[j]
    BY <1>0, <1>6 DEF Recv, TypeOK
  <2>2. ASSUME kind[i] = "port", rx'[i] = "open"
        PROVE  received'[i] \o queue'[i] = sent'[i]
    <3>1. /\ received'[i] = Append(received[i], Head(queue[i]))
          /\ queue'[i] = Tail(queue[i])
          /\ received[i] \o queue[i] = sent[i]
          /\ queue[i] # <<>>
          /\ queue[i] \in Seq(Values) /\ received[i] \in Seq(Values)
          /\ sent'[i] = sent[i]
      BY <1>0, <1>6, <2>2 DEF Recv, TypeOK, FifoInv, FifoPerPort
    <3>2. \A r, q \in Seq(Values) : q # <<>> => Append(r, Head(q)) \o Tail(q) = r \o q
      BY ConcatHeadTail
    <3>3. Append(received[i], Head(queue[i])) \o Tail(queue[i]) = received[i] \o queue[i]
      BY <3>1, <3>2
    <3>. QED
      BY <3>1, <3>3
  <2>. QED
    BY <2>1, <2>2, FifoLocal DEF Frame
<1>7. ASSUME NEW i \in Idx, Drain(i) PROVE FreshPorts' /\ FifoPerPort'
  <2>1. /\ kind[i] \in {"port", "accum"}
        /\ UNCHANGED <<next_port, kind, rx, sent>>
        /\ \A j \in Idx \ {i} : queue'[j] = queue[j] /\ received'[j] = received[j]
    BY <1>0, <1>7 DEF Drain, TypeOK
  <2>2. ASSUME kind[i] = "port", rx'[i] = "open"
        PROVE  received'[i] \o queue'[i] = sent'[i]
    <3>1. /\ received'[i] = received[i] \o queue[i]
          /\ queue'[i] = <<>>
          /\ received[i] \o queue[i] = sent[i]
          /\ sent'[i] = sent[i]
      BY <1>0, <1>7, <2>2 DEF Drain, TypeOK, FifoInv, FifoPerPort
    <3>2. received[i] \o queue[i] \in Seq(Values)
      BY <1>0, ConcatProperties DEF TypeOK
    <3>3. \A s \in Seq(Values) : s \o <<>> = s
      BY ConcatEmptySeq
    <3>4. (received[i] \o queue[i]) \o <<>> = received[i] \o queue[i]
      BY <3>2, <3>3
    <3>. QED
      BY <3>1, <3>4
  <2>. QED
    BY <2>1, <2>2, FifoLocal DEF Frame
<1>8. ASSUME NEW i \in Idx, DropReceiver(i) \/ RecvOnce(i)
      PROVE  FreshPorts' /\ FifoPerPort'
  <2>1. /\ kind[i] \in {"port", "accum", "once"}
        /\ rx'[i] = "dropped"
        /\ UNCHANGED <<next_port, kind, sent>>
        /\ \A j \in Idx \ {i} : /\ queue'[j] = queue[j]
                               /\ received'[j] = received[j]
                               /\ rx'[j] = rx[j]
    BY <1>0, <1>8 DEF DropReceiver, RecvOnce, TypeOK
  <2>. QED
    BY <2>1, FifoLocal DEF Frame
<1>9. CASE UNCHANGED vars
  BY <1>9, FifoUnchanged DEF vars
<1>. QED
  BY <1>1, <1>2, <1>3, <1>4, <1>5, <1>6, <1>7, <1>8, <1>9
     DEF Next, OpenPort, OpenAccumPort, OpenEnqueuePort, OpenOncePort

\* FIFO per port holds in every reachable state: across any interleaving of
\* local sends, posts, receives, drains and receiver drops, an open ordinary
\* port's receiver sees exactly what its sink accepted, in order.
THEOREM FifoCorrect == Spec => []FifoPerPort
<1>1. Init => FifoInv
  <2>1. Init => TypeOK
    BY DEF Init, TypeOK, Idx
  <2>. QED
    BY <2>1 DEF Init, FifoInv, FreshPorts, FifoPerPort
<1>2. FifoInv /\ [Next]_vars => FifoInv'
  BY FifoStep
<1>3. FifoInv => FifoPerPort
  BY DEF FifoInv
<1>. QED
  BY <1>1, <1>2, <1>3, PTL DEF Spec

=============================================================================
