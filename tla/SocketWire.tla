----------------------------- MODULE SocketWire -----------------------------
(***************************************************************************)
(* One direction of a socket wire: the sending end (send0, the socket      *)
(* thread's life in Client / Server and set_socket_provider, the ACK part  *)
(* of read_header, termination) with its outbox, AsyncProcessor; the       *)
(* connections between the two ends; and the receiving end (read_package,  *)
(* read_and_dispatch_message).  Both ends of both directions run the same  *)
(* code, and the directions share nothing but the connection.              *)
(*                                                                         *)
(* A connection that breaks loses a suffix of what is in flight either     *)
(* way.  The receiving end goes on reading what is left of it, its         *)
(* acknowledgements then go nowhere, and it reads the next connection only *)
(* after that: its thread accepts one connection at a time.  Until a       *)
(* sender notices, what it writes to a broken connection may be taken by   *)
(* the operating system, and lost, or refused.                             *)
(*                                                                         *)
(* One message is one package here: SocketWire::Base::send puts each       *)
(* message into the outbox whole.  Pings are the subject of Heartbeat.     *)
(***************************************************************************)
EXTENDS AsyncProcessor

CONSTANT MaxConn  \* bound of the model: how many connections are opened

ASSUME MaxConnAssumption == MaxConn \in Nat

VARIABLES
  conn,        \* number of the connection socket_provider belongs to, 0 = none
  up,          \* that connection works
  sockPC,      \* control of the socket thread, outside of the outbox
  terminated,  \* the lifetime of the sending wire (that of Client or Server)
               \* is terminated
  toPeer,      \* packages on their way, with the connection they travel on
  toMe,        \* acknowledgements on their way on the current connection
  maxReceived, \* max_received_seqn of the receiving end
  misframed,   \* the receiving end has lost the boundaries between messages
  delivered,   \* history: the messages it has dispatched
  overtook     \* history: a package was sent on a connection before the
               \* unacknowledged ones were sent again on it

netVars  == <<toPeer, toMe>>
peerVars == <<maxReceived, misframed, delivered>>
sockVars == <<conn, up, sockPC, terminated>>
wireVars == <<netVars, peerVars, sockVars, overtook>>
allVars  == <<vars, wireVars>>

-----------------------------------------------------------------------------
\* Base::Base has paused the outbox ("initial") and started it.
WireInit ==
  /\ state = AsyncProcessing
  /\ data = <<>> /\ queue = <<>> /\ pending = <<>>
  /\ maxSent = 0 /\ current = 1 /\ acked = 0 /\ balance = 1
  /\ tpc = "top" /\ opc = "paused" /\ resent = 0
  /\ cpc = [c \in Closers |-> "idle"]
  /\ accepted = 0 /\ handed = 0 /\ lastCall = NoCall
  /\ conn = 0 /\ up = FALSE /\ sockPC = "connecting" /\ terminated = FALSE
  /\ toPeer = <<>> /\ toMe = <<>>
  /\ maxReceived = 0 /\ misframed = FALSE /\ delivered = <<>>
  /\ overtook = FALSE

-----------------------------------------------------------------------------
\* The sending end.

\* SocketWire::Base::send, after it has serialised the message.
Send == Put /\ UNCHANGED wireVars

\* The action of the wire's lifetime has closed the socket.
Closed == \E c \in Closers : cpc[c] = "closed"

\* send0 writes the package to socket_provider.
Transmit(item, seqn, ok) ==
  /\ up => ok
  /\ Closed => ~ok
  /\ toPeer' = IF up THEN Append(toPeer, [item |-> item, seqn |-> seqn, conn |-> conn])
                     ELSE toPeer
  /\ UNCHANGED <<toMe, peerVars, sockVars>>

\* Unacknowledged packages have yet to be sent again on this connection.
NotResentYet == opc \in {"paused", "resuming"}

SendNew(ok) ==
  /\ ProcessCall(ok)
  /\ Transmit(Head(queue), maxSent + 1, ok)
  /\ overtook' = (overtook \/ (up /\ NotResentYet))

SendAgain(ok) ==
  /\ ResendCall(ok)
  /\ Transmit(pending[resent + 1], current + resent, ok)
  /\ UNCHANGED overtook

\* The socket thread opens or accepts a connection and makes it the
\* socket_provider; the outbox is not resumed yet.
Connect ==
  /\ sockPC = "connecting"
  /\ ~terminated
  /\ conn < MaxConn
  /\ conn' = conn + 1
  /\ up' = TRUE
  /\ toMe' = <<>>
  /\ sockPC' = "set"
  /\ UNCHANGED <<vars, terminated, toPeer, peerVars, overtook>>

\* A server that was accepting when it was terminated closes what it accepts,
\* and serves it all the same.
AcceptClosed ==
  /\ sockPC = "connecting"
  /\ terminated
  /\ sockPC' = "set"
  /\ UNCHANGED <<vars, netVars, peerVars, conn, up, terminated, overtook>>

\* set_socket_provider resumes.  The lifetime it looks at before, that of
\* Base, is the sibling of the one whose termination stops the wire, and is
\* terminated after it, when this thread has been joined.
Resume ==
  /\ sockPC = "set"
  /\ ResumeBegin
  /\ sockPC' = "serving"
  /\ UNCHANGED <<netVars, peerVars, conn, up, terminated, overtook>>

\* The socket thread finds its lifetime terminated before, or instead of,
\* having a connection.
LeaveThread ==
  /\ sockPC = "connecting"
  /\ terminated
  /\ sockPC' = "gone"
  /\ UNCHANGED <<vars, netVars, peerVars, conn, up, terminated, overtook>>

\* read_header on an ACK.
ReadAck ==
  /\ sockPC = "serving"
  /\ toMe # <<>>
  /\ Acknowledge(Head(toMe))
  /\ toMe' = Tail(toMe)
  /\ UNCHANGED <<toPeer, peerVars, sockVars, overtook>>

\* receiverProc comes to the end of the stream, or to a closed socket.
Disconnected ==
  /\ sockPC = "serving"
  /\ ~up /\ toMe = <<>>
  /\ PauseBegin
  /\ UNCHANGED wireVars

\* pause returns; set_socket_provider shuts the connection down and returns to
\* the thread's loop.
Paused ==
  /\ PauseEnd
  /\ sockPC' = IF terminated THEN "gone" ELSE "connecting"
  /\ up' = FALSE
  /\ UNCHANGED <<netVars, peerVars, conn, terminated, overtook>>

\* The rest of what happens inside the outbox.
Outbox ==
  /\ \/ SpuriousWakeup \/ ThreadStep
     \/ ReprocessBegin \/ TrimAcknowledged \/ TrimEnd \/ ResendEnd \/ ResumeEnd
  /\ UNCHANGED wireVars

\* The action of the wire's lifetime: stop the outbox, ...
Terminate(c) ==
  /\ ~terminated
  /\ CloseBegin(c, Stopping)
  /\ terminated' = TRUE
  /\ UNCHANGED <<netVars, peerVars, conn, up, sockPC, overtook>>

\* ... then close the socket, with what it has not read (and wait for the
\* socket thread to end).
CloseSocket(c) ==
  /\ CloseEnd(c)
  /\ up' = FALSE
  /\ toMe' = <<>>
  /\ UNCHANGED <<toPeer, peerVars, conn, sockPC, terminated, overtook>>

-----------------------------------------------------------------------------
\* The connection breaks.
Break ==
  /\ up
  /\ up' = FALSE
  /\ \E k \in 0..Len(toPeer) : toPeer' = SubSeq(toPeer, 1, k)
  /\ \E k \in 0..Len(toMe) : toMe' = SubSeq(toMe, 1, k)
  /\ UNCHANGED <<vars, peerVars, conn, sockPC, terminated, overtook>>

-----------------------------------------------------------------------------
\* The receiving end.

AlsoTheNext(seqn) == seqn <= maxReceived + 1 /\ seqn # 1  \* mutation: off by one
NoDuplicates(seqn) == FALSE                              \* mutation: no check

\* What read_package recognises as something it has had before.  Number 1 is
\* taken for the first package of a new counterpart.
Duplicate(seqn) == seqn <= maxReceived /\ seqn # 1

ReceiveAcksTheNext ==  \* mutation: acknowledges the number it expects next
  /\ toPeer # <<>>
  /\ LET p == Head(toPeer) IN
       /\ toPeer' = Tail(toPeer)
       /\ toMe' = IF up /\ p.conn = conn THEN Append(toMe, p.seqn + 1) ELSE toMe
       /\ maxReceived' = p.seqn
       /\ delivered' = Append(delivered, p.item)
  /\ UNCHANGED <<vars, sockVars, overtook, misframed>>

\* read_package acknowledges whatever it has read.  Of a duplicate it then
\* returns 1 instead of a length: PkgInputStream::try_read serves one byte of
\* it as the beginning of the next message, whose length field is then made
\* of bytes of two packages, and the boundaries are gone for good.
Receive ==
  /\ toPeer # <<>>
  /\ LET p == Head(toPeer) IN
       /\ toPeer' = Tail(toPeer)
       /\ toMe' = IF up /\ p.conn = conn THEN Append(toMe, p.seqn) ELSE toMe
       /\ IF Duplicate(p.seqn)
            THEN /\ misframed' = TRUE
                 /\ UNCHANGED <<maxReceived, delivered>>
            ELSE /\ maxReceived' = p.seqn
                 /\ delivered' = IF misframed THEN delivered ELSE Append(delivered, p.item)
                 /\ UNCHANGED misframed
  /\ UNCHANGED <<vars, sockVars, overtook>>

-----------------------------------------------------------------------------
\* Nothing to do until somebody sends, a connection breaks, or one is made.
WireIdle == Idle /\ sockPC \in {"connecting", "serving", "gone"} /\ UNCHANGED wireVars

WireNext ==
  \/ Send
  \/ \E ok \in BOOLEAN : SendNew(ok) \/ SendAgain(ok)
  \/ Connect \/ AcceptClosed \/ Resume \/ LeaveThread
  \/ ReadAck \/ Disconnected \/ Paused
  \/ Outbox
  \/ \E c \in Closers : Terminate(c) \/ CloseSocket(c)
  \/ Break
  \/ Receive
  \/ WireIdle

WireSpec == WireInit /\ [][WireNext]_allVars

(***************************************************************************)
(* Fairness: the threads run.  The outbox has the fairness it has alone;   *)
(* the socket thread and the terminating thread go on when they can.       *)
(* Nobody has to send, terminate or break anything.                        *)
(***************************************************************************)
WireFairness ==
  /\ SF_allVars((ThreadStep /\ UNCHANGED wireVars) \/ \E ok \in BOOLEAN : SendNew(ok))
  /\ WF_allVars(Outbox \/ Paused \/ \E ok \in BOOLEAN : SendAgain(ok))
  /\ WF_allVars(Connect \/ AcceptClosed \/ Resume \/ LeaveThread
                \/ ReadAck \/ Disconnected)
  /\ \A c \in Closers : SF_allVars(CloseSocket(c))

FairWireSpec == WireSpec /\ WireFairness

-----------------------------------------------------------------------------
\* Types of the wire's own variables; the outbox keeps its own.
WireTypeOK ==
  /\ TypeOK
  /\ conn \in 0..MaxConn /\ up \in BOOLEAN /\ terminated \in BOOLEAN
  /\ sockPC \in {"connecting", "set", "serving", "gone"}
  /\ toPeer \in Seq([item : Nat, seqn : Nat, conn : 1..MaxConn])
  /\ toMe \in Seq(Nat)
  /\ maxReceived \in Nat /\ misframed \in BOOLEAN /\ delivered \in Seq(Nat)
  /\ overtook \in BOOLEAN

\* The wire uses its outbox within the contract it is checked and proved
\* under: pause and resume alternate, and only a number that has been handed
\* over is acknowledged (read_package l.324, read_header l.294-297).
UsesOutboxCorrectly == [][Next]_vars

\* Before the first reconnection every message arrives once and in order: the
\* initial pause, taken before the asynchronous thread exists, is airtight.
FirstConnectionExact ==
  conn <= 1 => /\ ~misframed
               /\ delivered = [i \in 1..maxReceived |-> i]

\* Across reconnections, messages are dispatched in runs 1, 2, 3, ...: none is
\* skipped, and none repeated unless number 1 comes again and restarts the
\* run - provided that no package overtook the ones being resent.
DispatchedInRuns ==
  ~overtook => \A i \in 1..Len(delivered) :
                 delivered[i] = 1 \/ (i > 1 /\ delivered[i] = delivered[i - 1] + 1)

\* What the sender may throw away has been dispatched by the other end, unless
\* a package overtook the ones being resent or a duplicate cost the receiving
\* end its framing (send_ack before the duplicate check, l.324-328).
AcknowledgedIsDispatched ==
  ~overtook /\ ~misframed =>
    \A n \in 1..acked : \E i \in 1..Len(delivered) : delivered[i] = n

-----------------------------------------------------------------------------
\* Termination completes: once the wire's lifetime is terminated its socket
\* thread ends, so that the join at the end of the termination returns
\* (Client l.515-541, Server l.613-643).
TerminationCompletes == terminated ~> sockPC = "gone"
=============================================================================
