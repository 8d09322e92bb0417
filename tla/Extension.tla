------------------------------- MODULE Extension -------------------------------
(***************************************************************************)
(* The two ends of an extension (RdExtBase) and their wires (ExtWire).     *)
(* An end sends nothing of its members before it knows that its            *)
(* counterpart is bound: until then ExtWire queues.  Each end tells the    *)
(* other that it is Ready when it is bound, answers Ready by               *)
(* ReceivedCounterpart, and says Disconnected when it is unbound.          *)
(*                                                                         *)
(* At each end there are three threads: the wire's receiver, the default   *)
(* scheduler's, which binds and unbinds, and one that sends.  The parent   *)
(* wire delivers in order and once.  Messages for the extension itself are *)
(* handled by the receiver thread, at once, or, if they came too early,    *)
(* parked for the default scheduler, as MessageBroker does it; messages    *)
(* for the members always go through the default scheduler.  An end is     *)
(* bound once and unbound at most once.                                    *)
(***************************************************************************)
EXTENDS Integers, Sequences

CONSTANT MaxSent  \* bound of the model: messages the members of each end send

ASSUME SentAssumption == MaxSent \in Nat

Ends == {1, 2}
Other(e) == 3 - e

VARIABLES
  phase,      \* how far init, or the termination of its lifetime, has come
  connected,  \* extWire->connected
  sendQ,      \* extWire->sendQ
  sent,       \* messages the members of each end have sent
  sending,    \* the one send passes to the real wire after releasing `lock', or 0
  draining,   \* threads between the change of `connected' and the end of its handler
  net,        \* messages of the parent wire on their way to each end
  queue,      \* messages queued on the default scheduler of each end
  kept,       \* the broker's custom_scheduler_messages for the extension
  got, lost,  \* history: messages of the counterpart that its members got, or did not
  late,       \* history: ends whose last word to the other is not Disconnected
  crashed     \* the broker has used a null subscription (see MessageBroker)

wire == <<connected, sendQ, draining>>
sender == <<sent, sending>>
inbox == <<net, queue, kept>>
vars == <<phase, wire, sender, inbox, got, lost, late, crashed>>

State(s) == [state |-> s, n |-> 0]
Message(n) == [state |-> "Message", n |-> n]
IsState(m) == m.state # "Message"

Subscribed(e) == phase[e] \in {"advised", "ready", "bound", "closing"}
MembersBound(e) == phase[e] = "bound"

Parked(e) == \E i \in 1..Len(queue[e]) : IsState(queue[e][i])
Flushing(e) == kept[e] # <<>> /\ ~Parked(e)
DefaultIdle(e) ==
  phase[e] \in {"new", "bound", "closed"} /\ "default" \notin draining[e] /\ ~Flushing(e)

Init ==
  /\ phase = [e \in Ends |-> "new"]
  /\ connected = [e \in Ends |-> FALSE]
  /\ sendQ = [e \in Ends |-> <<>>]
  /\ sent = [e \in Ends |-> 0] /\ sending = [e \in Ends |-> 0]
  /\ draining = [e \in Ends |-> {}]
  /\ net = [e \in Ends |-> <<>>]
  /\ queue = [e \in Ends |-> <<>>] /\ kept = [e \in Ends |-> <<>>]
  /\ got = [e \in Ends |-> <<>>] /\ lost = [e \in Ends |-> <<>>]
  /\ late = {} /\ crashed = FALSE

-----------------------------------------------------------------------------
(* init and the termination of the lifetime, on the default scheduler.     *)

\* "it's critical to advise before 'Ready' is sent" ...
Advise(e) ==
  /\ phase[e] = "new" /\ DefaultIdle(e)
  /\ phase' = [phase EXCEPT ![e] = "advised"]
  /\ UNCHANGED <<wire, sender, inbox, got, lost, late, crashed>>

SendReady(e) ==
  /\ phase[e] = "advised"
  /\ phase' = [phase EXCEPT ![e] = "ready"]
  /\ net' = [net EXCEPT ![Other(e)] = Append(@, State("Ready"))]
  /\ UNCHANGED <<wire, sender, queue, kept, got, lost, late, crashed>>

\* ... and the members are bound after it.
BindMembers(e) ==
  /\ phase[e] = "ready"
  /\ phase' = [phase EXCEPT ![e] = "bound"]
  /\ UNCHANGED <<wire, sender, inbox, got, lost, late, crashed>>

\* The lifetime ends in the opposite order: members, Disconnected, subscription.
Disconnect(e) ==
  /\ phase[e] = "bound" /\ DefaultIdle(e)
  /\ phase' = [phase EXCEPT ![e] = "closing"]
  /\ net' = [net EXCEPT ![Other(e)] = Append(@, State("Disconnected"))]
  /\ UNCHANGED <<wire, sender, queue, kept, got, lost, late, crashed>>

Unsubscribe(e) ==
  /\ phase[e] = "closing"
  /\ phase' = [phase EXCEPT ![e] = "closed"]
  /\ UNCHANGED <<wire, sender, inbox, got, lost, late, crashed>>

-----------------------------------------------------------------------------
(* ExtWire::send, by the sending thread.                                   *)

QueuesUnlessConnected(e) == ~connected[e]  \* mutation: overtakes the queue
NeverQueues(e) == FALSE  \* mutation: does not wait for the counterpart
MustQueue(e) == sendQ[e] # <<>> \/ ~connected[e]

SendBegin(e) ==
  /\ MembersBound(e) /\ sending[e] = 0 /\ sent[e] < MaxSent
  /\ sent' = [sent EXCEPT ![e] = @ + 1]
  /\ IF MustQueue(e)
     THEN sendQ' = [sendQ EXCEPT ![e] = Append(@, Message(sent[e] + 1))] /\ UNCHANGED sending
     ELSE sending' = [sending EXCEPT ![e] = sent[e] + 1] /\ UNCHANGED sendQ
  /\ UNCHANGED <<phase, connected, draining, inbox, got, lost, late, crashed>>

SendDirect(e) ==
  /\ sending[e] # 0
  /\ net' = [net EXCEPT ![Other(e)] = Append(@, Message(sending[e]))]
  /\ sending' = [sending EXCEPT ![e] = 0]
  /\ UNCHANGED <<phase, wire, sent, queue, kept, got, lost, late, crashed>>

-----------------------------------------------------------------------------
(* on_wire_received of the extension, called by thread t.  `connected'     *)
(* changes without `lock'; its handler then empties sendQ under `lock'.    *)

SetConnected(e, t) ==
  /\ connected' = [connected EXCEPT ![e] = TRUE]
  /\ draining' = IF connected[e] THEN draining ELSE [draining EXCEPT ![e] = @ \cup {t}]

IgnoresDisconnected(e, t, s, incoming) ==  \* mutation
  \/ /\ s = "Ready"
     /\ SetConnected(e, t)
     /\ net' = [incoming EXCEPT ![Other(e)] = Append(@, State("ReceivedCounterpart"))]
     /\ late' = IF phase[e] = "closing" THEN late \cup {e} ELSE late
  \/ /\ s = "ReceivedCounterpart"
     /\ SetConnected(e, t)
     /\ net' = incoming
     /\ UNCHANGED late
  \/ /\ s = "Disconnected"
     /\ net' = incoming
     /\ UNCHANGED <<connected, late, draining>>

OnWireReceived(e, t, s, incoming) ==
  \/ /\ s = "Ready"
     /\ SetConnected(e, t)
     /\ net' = [incoming EXCEPT ![Other(e)] = Append(@, State("ReceivedCounterpart"))]
     /\ late' = IF phase[e] = "closing" THEN late \cup {e} ELSE late
  \/ /\ s = "ReceivedCounterpart"
     /\ SetConnected(e, t)
     /\ net' = incoming
     /\ UNCHANGED late
  \/ /\ s = "Disconnected"
     /\ connected' = [connected EXCEPT ![e] = FALSE]
     /\ net' = incoming
     /\ late' = IF t = "wire" /\ Flushing(e) THEN late \cup {Other(e)} ELSE late
     /\ UNCHANGED draining

DrainOne(e, t) ==  \* mutation: sends the first queued message only
  /\ t \in draining[e]
  /\ IF sendQ[e] = <<>> THEN UNCHANGED <<net, sendQ>>
     ELSE /\ net' = [net EXCEPT ![Other(e)] = Append(@, Head(sendQ[e]))]
          /\ sendQ' = [sendQ EXCEPT ![e] = Tail(@)]
  /\ draining' = [draining EXCEPT ![e] = @ \ {t}]
  /\ UNCHANGED <<phase, connected, sender, queue, kept, got, lost, late, crashed>>

Drain(e, t) ==
  /\ t \in draining[e]
  /\ net' = [net EXCEPT ![Other(e)] = @ \o sendQ[e]]
  /\ sendQ' = [sendQ EXCEPT ![e] = <<>>]
  /\ draining' = [draining EXCEPT ![e] = @ \ {t}]
  /\ UNCHANGED <<phase, connected, sender, queue, kept, got, lost, late, crashed>>

\* The receiver thread: the broker's dispatch of the next message.
Receive(e) ==
  /\ net[e] # <<>> /\ "wire" \notin draining[e]
  /\ LET m == Head(net[e])
         rest == [net EXCEPT ![e] = Tail(@)] IN
       \/ /\ ~IsState(m) \/ ~Subscribed(e)
          /\ queue' = [queue EXCEPT ![e] = Append(@, m)]
          /\ net' = rest
          /\ UNCHANGED <<connected, draining, kept, late>>
       \/ /\ IsState(m) /\ Subscribed(e) /\ Parked(e)
          /\ kept' = [kept EXCEPT ![e] = Append(@, m)]
          /\ net' = rest
          /\ UNCHANGED <<connected, draining, queue, late>>
       \/ /\ IsState(m) /\ Subscribed(e) /\ ~Parked(e)
          /\ OnWireReceived(e, "wire", m.state, rest)
          /\ UNCHANGED <<queue, kept>>
  /\ UNCHANGED <<phase, sendQ, sender, got, lost, crashed>>

\* The default scheduler: the next message, for those who are bound by now ...
RunQueued(e) ==
  /\ DefaultIdle(e) /\ queue[e] # <<>>
  /\ LET m == Head(queue[e]) IN
       \/ /\ IsState(m) /\ Subscribed(e)
          /\ OnWireReceived(e, "default", m.state, net)
          /\ UNCHANGED <<got, lost>>
       \/ /\ IsState(m) /\ ~Subscribed(e)
          /\ UNCHANGED <<net, connected, draining, got, lost, late>>
       \/ /\ ~IsState(m)
          /\ IF MembersBound(e)
             THEN got' = [got EXCEPT ![e] = Append(@, m.n)] /\ UNCHANGED lost
             ELSE lost' = [lost EXCEPT ![e] = Append(@, m.n)] /\ UNCHANGED got
          /\ UNCHANGED <<net, connected, draining, late>>
  /\ queue' = [queue EXCEPT ![e] = Tail(@)]
  /\ UNCHANGED <<phase, sendQ, sender, kept, crashed>>

\* ... and after the last parked one those that were kept behind it.
FlushKept(e) ==
  /\ Flushing(e) /\ "default" \notin draining[e]
  /\ kept' = [kept EXCEPT ![e] = Tail(@)]
  /\ IF Subscribed(e)
     THEN /\ OnWireReceived(e, "default", Head(kept[e]).state, net)
          /\ UNCHANGED crashed
     ELSE crashed' = TRUE /\ UNCHANGED <<connected, draining, net, late>>
  /\ UNCHANGED <<phase, sendQ, sender, queue, got, lost>>

-----------------------------------------------------------------------------
Threads(e) ==
  \/ SendReady(e) \/ BindMembers(e) \/ Unsubscribe(e) \/ SendDirect(e)
  \/ Drain(e, "wire") \/ Drain(e, "default")
  \/ Receive(e) \/ RunQueued(e) \/ FlushKept(e)

Quiet ==
  /\ \A e \in Ends : /\ net[e] = <<>> /\ queue[e] = <<>> /\ kept[e] = <<>>
                     /\ draining[e] = {} /\ sending[e] = 0
                     /\ phase[e] \in {"new", "bound", "closed"}

Rest ==
  /\ crashed \/ (Quiet /\ \A e \in Ends : phase[e] = "closed" \/ sent[e] = MaxSent)
  /\ UNCHANGED vars

Next ==
  \/ /\ ~crashed
     /\ \E e \in Ends : Advise(e) \/ Disconnect(e) \/ SendBegin(e) \/ Threads(e)
  \/ Rest

Spec == Init /\ [][Next]_vars

\* Each thread goes on with what it has begun, and with what is received or
\* queued for it; nobody has to bind, send or unbind.
Fairness ==
  \A e \in Ends :
    /\ WF_vars(~crashed /\ (SendReady(e) \/ BindMembers(e) \/ Unsubscribe(e)))
    /\ WF_vars(~crashed /\ SendDirect(e))
    /\ WF_vars(~crashed /\ (Receive(e) \/ Drain(e, "wire")))
    /\ WF_vars(~crashed /\ (RunQueued(e) \/ FlushKept(e) \/ Drain(e, "default")))

LiveSpec == Spec /\ Fairness

-----------------------------------------------------------------------------
States == {State(s) : s \in {"Ready", "ReceivedCounterpart", "Disconnected"}}
Messages == {Message(n) : n \in 1..MaxSent}
TypeOK ==
  /\ phase \in [Ends -> {"new", "advised", "ready", "bound", "closing", "closed"}]
  /\ connected \in [Ends -> BOOLEAN]
  /\ sendQ \in [Ends -> Seq(Messages)]
  /\ sent \in [Ends -> 0..MaxSent] /\ sending \in [Ends -> 0..MaxSent]
  /\ draining \in [Ends -> SUBSET {"wire", "default"}]
  /\ net \in [Ends -> Seq(States \cup Messages)]
  /\ queue \in [Ends -> Seq(States \cup Messages)]
  /\ kept \in [Ends -> Seq(States)]

\* What ExtWire is for: nothing a member sends reaches an end that is not bound
\* yet, or whose members, bound after Ready was sent, are not: only an end that
\* has been unbound loses messages (ExtWire::send, RdExtBase::init).
NeverTooEarly == \A e \in Ends : lost[e] # <<>> => phase[e] \in {"closing", "closed"}

\* Queued, drained by one thread or another, or sent directly, the messages of an
\* end arrive in the order they were sent in, none missing and none twice
\* (ExtWire l.13-25 and l.38-48).
InOrder == \A e \in Ends : got[e] = [i \in 1..Len(got[e]) |-> i]

\* When everything has arrived, an end that is bound and whose counterpart has
\* been unbound knows it (on_wire_received l.66-70).  Exceptions, in `late': the receiver thread
\* answers a Ready after Disconnected was sent and before the subscription ends,
\* or it handles Disconnected while the broker still flushes an older message.
DisconnectedIsKnown ==
  Quiet /\ ~crashed =>
    \A e \in Ends \ late :
      phase[e] = "closed" /\ phase[Other(e)] = "bound" => ~connected[Other(e)]

BothBound == \A e \in Ends : phase[e] = "bound"

\* Whichever end is bound first, and whatever is parked or dropped because it
\* came before, two ends that stay bound find each other and get what the
\* other one's members send.
AllArrive ==
  \A n \in 1..MaxSent, e \in Ends :
    (BothBound /\ sent[e] >= n) ~> (Len(got[Other(e)]) >= n \/ ~BothBound \/ crashed)
=============================================================================
