--------------------------- MODULE AsyncProcessor ---------------------------
(***************************************************************************)
(* ByteBufferAsyncProcessor: the outbox of a socket wire.  Any thread puts *)
(* packages into it; one asynchronous thread numbers them and hands them   *)
(* to a callback, `processor` (SocketWire::Base::send0), keeping each one  *)
(* until the counterpart has acknowledged its number; and the thread that  *)
(* owns the connection (the "owner": SocketWire's socket thread) pauses it *)
(* when the connection is lost, resumes it, resending what is not          *)
(* acknowledged, when there is a new one, and forwards acknowledgements.   *)
(*                                                                         *)
(* A package is the natural number that says how many packages had been    *)
(* accepted up to and including it: the code never looks inside a package, *)
(* so its place in the order of acceptance is all that tells two apart.    *)
(*                                                                         *)
(* Granularity.  `lock` is held over several steps by pause and resume     *)
(* only; every other critical section under it is one action, guarded by   *)
(* LockFree.  queue_lock and processing_lock are always taken together, by *)
(* process for its whole loop and by reprocess for its whole loop, and     *)
(* in_processing is true only inside the former, so waiting for any of the *)
(* three is waiting until the other thread is out of its loop.  In-between *)
(* states of the loops are visible, because each iteration calls out.      *)
(***************************************************************************)
EXTENDS Naturals, Sequences

CONSTANTS MaxPut,   \* bound of the model: how many packages are accepted
          Closers   \* the threads that may call stop() or terminate()

ASSUME MaxPutAssumption == MaxPut \in Nat

VARIABLES
  state,      \* StateKind
  data,       \* accepted packages the asynchronous thread has not taken yet
  queue,      \* packages it took and has not handed over yet
  pending,    \* packages handed over and not known to be acknowledged
  maxSent,    \* max_sent_seqn: number of the last package moved to pending
  current,    \* current_seqn: number of the first package of pending
  acked,      \* acknowledged_seqn: highest number acknowledged
  balance,    \* interrupt_balance: pauses minus resumes
  tpc,        \* control of the asynchronous thread, in ThreadProc and process
  opc,        \* control of the owner, in pause, resume and reprocess
  resent,     \* the loop variable i of reprocess
  cpc,        \* control of the closers, in terminate0
  accepted,   \* history: number of packages put has accepted
  handed,     \* history: highest number processor has returned true for
  lastCall    \* history: the arguments processor was last called with

ownerVars   == <<opc, resent>>
sendVars    == <<queue, maxSent>>
vars == <<state, data, queue, pending, maxSent, current, acked, balance, tpc,
          opc, resent, cpc, accepted, handed, lastCall>>

-----------------------------------------------------------------------------
\* enum class StateKind: the code compares its members by their order.
Initialized     == 0
AsyncProcessing == 1
Stopping        == 2
Terminating     == 3
Terminated      == 4

NoCall == [item |-> 0, seqn |-> 0]

\* pause and resume hold `lock` from their first step to their last.
LockFree == opc \in {"running", "paused"}

\* The asynchronous thread is inside process(): in_processing is set, and it
\* holds queue_lock and processing_lock.
InProcess == tpc \in {"loop", "sent"}

\* The owner is inside reprocess(), holding queue_lock and processing_lock.
InReprocess == opc \in {"trim", "resend"}

\* mutation: nobody notifies cv.
NotifiesNobody == tpc' = tpc

\* cv.notify_all(): the asynchronous thread is the only one that waits on cv.
Notify == tpc' = IF tpc = "waiting" THEN "woken" ELSE tpc

Init ==
  /\ state = Initialized
  /\ data = <<>> /\ queue = <<>> /\ pending = <<>>
  /\ maxSent = 0 /\ current = 1 /\ acked = 0 /\ balance = 0
  /\ tpc = "unborn" /\ opc = "running" /\ resent = 0
  /\ cpc = [c \in Closers |-> "idle"]
  /\ accepted = 0 /\ handed = 0 /\ lastCall = NoCall

-----------------------------------------------------------------------------
\* Callers on any thread.

\* put: a processor that is stopping drops the package (early return: no
\* change), any other accepts it and wakes the asynchronous thread.
Put ==
  /\ LockFree
  /\ state < Stopping
  /\ accepted < MaxPut
  /\ data' = Append(data, accepted + 1)
  /\ accepted' = accepted + 1
  /\ Notify
  /\ UNCHANGED <<state, sendVars, pending, current, acked, balance, ownerVars,
                 cpc, handed, lastCall>>

\* start: a second call, or one after a stop, returns early.
Start ==
  /\ LockFree
  /\ state = Initialized
  /\ state' = AsyncProcessing
  /\ tpc' = "top"
  /\ UNCHANGED <<data, sendVars, pending, current, acked, balance, ownerVars,
                 cpc, accepted, handed, lastCall>>

\* terminate0 up to its wait, called by stop (kind = Stopping) or terminate
\* (kind = Terminating).
CloseBegin(c, kind) ==
  /\ LockFree
  /\ cpc[c] = "idle"
  /\ \/ /\ state = Initialized          \* cleanup0 at once
        /\ state' = Terminated
        /\ cpc' = [cpc EXCEPT ![c] = "closed"]
        /\ Notify
     \/ /\ state >= kind                \* somebody was here before
        /\ cpc' = [cpc EXCEPT ![c] = "closed"]
        /\ UNCHANGED <<state, tpc>>
     \/ /\ state # Initialized
        /\ state < kind
        /\ state' = kind
        /\ cpc' = [cpc EXCEPT ![c] = "waiting"]
        /\ Notify
  /\ UNCHANGED <<data, sendVars, pending, current, acked, balance, ownerVars,
                 accepted, handed, lastCall>>

\* async_future.wait_for(timeout) has returned, because the thread has ended
\* or because the time is over, and cleanup0 runs.
CloseEnd(c) ==
  /\ LockFree
  /\ cpc[c] = "waiting"
  /\ state' = Terminated
  /\ cpc' = [cpc EXCEPT ![c] = "closed"]
  /\ Notify
  /\ UNCHANGED <<data, sendVars, pending, current, acked, balance, ownerVars,
                 accepted, handed, lastCall>>

-----------------------------------------------------------------------------
\* The asynchronous thread: ThreadProc.

\* The checks that end the thread: at the top of the outer loop, and after a
\* wait in the inner one.
MustReturn ==
  \/ tpc = "top"   /\ state >= Terminated
  \/ tpc = "woken" /\ state >= Terminating

NothingToDo == data = <<>> \/ balance # 0

ThreadReturn ==
  /\ LockFree
  /\ tpc \in {"top", "woken"}
  /\ MustReturn \/ (NothingToDo /\ state >= Stopping)
  /\ tpc' = "done"
  /\ UNCHANGED <<state, data, sendVars, pending, current, acked, balance,
                 ownerVars, cpc, accepted, handed, lastCall>>

WaitsWhenStopped ==  \* mutation: waits without a look at the state
  /\ LockFree
  /\ tpc \in {"top", "woken"}
  /\ ~MustReturn
  /\ NothingToDo
  /\ tpc' = "waiting"
  /\ UNCHANGED <<state, data, sendVars, pending, current, acked, balance,
                 ownerVars, cpc, accepted, handed, lastCall>>

ThreadWait ==
  /\ LockFree
  /\ tpc \in {"top", "woken"}
  /\ ~MustReturn
  /\ NothingToDo
  /\ state < Stopping
  /\ tpc' = "waiting"
  /\ UNCHANGED <<state, data, sendVars, pending, current, acked, balance,
                 ownerVars, cpc, accepted, handed, lastCall>>

\* A condition variable may wake its waiter without a notification.
SpuriousWakeup ==
  /\ tpc = "waiting"
  /\ tpc' = "woken"
  /\ UNCHANGED <<state, data, sendVars, pending, current, acked, balance,
                 ownerVars, cpc, accepted, handed, lastCall>>

TakesAndKeeps ==  \* mutation: no data.clear()
  /\ LockFree /\ tpc \in {"top", "woken"} /\ ~MustReturn /\ ~NothingToDo
  /\ queue' = queue \o data
  /\ data' = data
  /\ tpc' = "between"
  /\ UNCHANGED <<state, maxSent, pending, current, acked, balance, ownerVars,
                 cpc, accepted, handed, lastCall>>

\* add_data and data.clear() under `lock`; process() is called only after
\* `lock` is released, so the thread is then "between" its critical sections.
ThreadTake ==
  /\ LockFree
  /\ tpc \in {"top", "woken"}
  /\ ~MustReturn
  /\ ~NothingToDo
  /\ queue' = queue \o data
  /\ data' = <<>>
  /\ tpc' = "between"
  /\ UNCHANGED <<state, maxSent, pending, current, acked, balance, ownerVars,
                 cpc, accepted, handed, lastCall>>

ProcessBegin ==
  /\ tpc = "between"
  /\ ~InReprocess
  /\ tpc' = "loop"
  /\ UNCHANGED <<state, data, sendVars, pending, current, acked, balance,
                 ownerVars, cpc, accepted, handed, lastCall>>

\* processor(queue.front(), max_sent_seqn + 1): ok is what it returns.  A
\* refusal ends the loop, and with it process().
ProcessCall(ok) ==
  /\ tpc = "loop"
  /\ queue # <<>>
  /\ lastCall' = [item |-> Head(queue), seqn |-> maxSent + 1]
  /\ handed' = IF ok THEN maxSent + 1 ELSE handed
  /\ tpc' = IF ok THEN "sent" ELSE "top"
  /\ UNCHANGED <<state, data, sendVars, pending, current, acked, balance,
                 ownerVars, cpc, accepted>>

RecordsWithoutPop ==  \* mutation: no queue.pop_front()
  /\ tpc = "sent"
  /\ maxSent' = maxSent + 1
  /\ pending' = Append(pending, Head(queue))
  /\ queue' = queue
  /\ tpc' = "loop"
  /\ UNCHANGED <<state, data, current, acked, balance, ownerVars, cpc,
                 accepted, handed, lastCall>>

\* The body of the loop, after processor has returned true.
ProcessRecord ==
  /\ tpc = "sent"
  /\ maxSent' = maxSent + 1
  /\ pending' = Append(pending, Head(queue))
  /\ queue' = Tail(queue)
  /\ tpc' = "loop"
  /\ UNCHANGED <<state, data, current, acked, balance, ownerVars, cpc,
                 accepted, handed, lastCall>>

ProcessEnd ==
  /\ tpc = "loop"
  /\ queue = <<>>
  /\ tpc' = "top"
  /\ UNCHANGED <<state, data, sendVars, pending, current, acked, balance,
                 ownerVars, cpc, accepted, handed, lastCall>>

ThreadStep ==
  \/ ThreadReturn \/ ThreadWait \/ ThreadTake
  \/ ProcessBegin \/ ProcessRecord \/ ProcessEnd

-----------------------------------------------------------------------------
\* The owner of the connection: pause, resume (with reprocess), acknowledge.

PauseBegin ==
  /\ opc = "running"
  /\ balance' = balance + 1
  /\ opc' = "pausing"
  /\ UNCHANGED <<state, data, sendVars, pending, current, acked, tpc, resent,
                 cpc, accepted, handed, lastCall>>

PauseFlushes ==  \* mutation: pause waits until everything is handed over
  /\ opc = "pausing" /\ ~InProcess
  /\ queue = <<>>
  /\ opc' = "paused"
  /\ UNCHANGED <<state, data, sendVars, pending, current, acked, balance, tpc,
                 resent, cpc, accepted, handed, lastCall>>

PauseEnd ==
  /\ opc = "pausing"
  /\ ~InProcess
  /\ opc' = "paused"
  /\ UNCHANGED <<state, data, sendVars, pending, current, acked, balance, tpc,
                 resent, cpc, accepted, handed, lastCall>>

ResumeBegin ==
  /\ opc = "paused"
  /\ opc' = "resuming"
  /\ UNCHANGED <<state, data, sendVars, pending, current, acked, balance, tpc,
                 resent, cpc, accepted, handed, lastCall>>

ResumesWithoutResending ==  \* mutation: resume does not call reprocess
  /\ opc = "resuming"
  /\ opc' = "resent"
  /\ UNCHANGED <<state, data, sendVars, pending, current, acked, balance, tpc,
                 resent, cpc, accepted, handed, lastCall>>

ReprocessBegin ==
  /\ opc = "resuming"
  /\ ~InProcess
  /\ opc' = "trim"
  /\ UNCHANGED <<state, data, sendVars, pending, current, acked, balance, tpc,
                 resent, cpc, accepted, handed, lastCall>>

\* One pending_queue.pop_front() of reprocess.
TrimAcknowledged ==
  /\ opc = "trim"
  /\ current <= acked
  /\ pending' = Tail(pending)
  /\ current' = current + 1
  /\ UNCHANGED <<state, data, sendVars, acked, balance, tpc, ownerVars, cpc,
                 accepted, handed, lastCall>>

TrimEnd ==
  /\ opc = "trim"
  /\ current > acked
  /\ opc' = "resend"
  /\ resent' = 0
  /\ UNCHANGED <<state, data, sendVars, pending, current, acked, balance, tpc,
                 cpc, accepted, handed, lastCall>>

\* processor(pending_queue[i], current_seqn + i); a refusal ends reprocess.
ResendCall(ok) ==
  /\ opc = "resend"
  /\ resent < Len(pending)
  /\ lastCall' = [item |-> pending[resent + 1], seqn |-> current + resent]
  /\ IF ok THEN resent' = resent + 1 /\ opc' = opc
           ELSE resent' = resent /\ opc' = "resent"
  /\ UNCHANGED <<state, data, sendVars, pending, current, acked, balance, tpc,
                 cpc, accepted, handed>>

ResendEnd ==
  /\ opc = "resend"
  /\ resent = Len(pending)
  /\ opc' = "resent"
  /\ UNCHANGED <<state, data, sendVars, pending, current, acked, balance, tpc,
                 resent, cpc, accepted, handed, lastCall>>

\* resume ignores what reprocess returned.
ResumeEnd ==
  /\ opc = "resent"
  /\ balance' = balance - 1
  /\ opc' = "running"
  /\ Notify
  /\ UNCHANGED <<state, data, sendVars, pending, current, acked, resent, cpc,
                 accepted, handed, lastCall>>

BelievesEveryAck(seqn) ==  \* mutation: an old acknowledgement is taken, too
  /\ opc = "running"
  /\ acked' = seqn
  /\ UNCHANGED <<state, data, sendVars, pending, current, balance, tpc,
                 ownerVars, cpc, accepted, handed, lastCall>>

\* acknowledge(seqn): what is not news is only logged.
Acknowledge(seqn) ==
  /\ opc = "running"
  /\ acked' = IF seqn > acked THEN seqn ELSE acked
  /\ UNCHANGED <<state, data, sendVars, pending, current, balance, tpc,
                 ownerVars, cpc, accepted, handed, lastCall>>

OwnerStep ==
  \/ PauseEnd \/ ReprocessBegin \/ TrimAcknowledged \/ TrimEnd
  \/ ResendEnd \/ ResumeEnd

-----------------------------------------------------------------------------
\* Nobody calls, and the asynchronous thread has nothing to do: the processor
\* rests here for as long as it is left alone.
Idle ==
  /\ LockFree
  /\ tpc \in {"unborn", "waiting", "done"}
  /\ UNCHANGED vars

Next ==
  \/ Put \/ Start
  \/ \E c \in Closers : \/ \E kind \in {Stopping, Terminating} : CloseBegin(c, kind)
                        \/ CloseEnd(c)
  \/ SpuriousWakeup
  \/ ThreadStep
  \/ \E ok \in BOOLEAN : ProcessCall(ok) \/ ResendCall(ok)
  \/ PauseBegin \/ ResumeBegin
  \/ OwnerStep
  \/ \E seqn \in 1..handed : Acknowledge(seqn)
  \/ Idle

Spec == Init /\ [][Next]_vars

(***************************************************************************)
(* Fairness.  The two threads keep running: the asynchronous thread, and   *)
(* the owner once it is inside pause or resume; processor returns (what is *)
(* free).  It is strong for the asynchronous thread, which contends with   *)
(* the owner for `lock`: the owner holds it for moments, and goes through  *)
(* the life of a connection, or a reconnection delay of half a second,     *)
(* before it takes it again.  Nobody has to call put, start, stop, pause   *)
(* or resume, nobody has to acknowledge, and a condition variable need not *)
(* wake up without a notification.                                         *)
(***************************************************************************)
Fairness ==
  /\ SF_vars(ThreadStep \/ \E ok \in BOOLEAN : ProcessCall(ok))
  /\ WF_vars(OwnerStep \/ \E ok \in BOOLEAN : ResendCall(ok))

FairSpec == Spec /\ Fairness

-----------------------------------------------------------------------------
Threads   == {"unborn", "top", "woken", "waiting", "between", "loop", "sent", "done"}
OwnerPCs  == {"running", "pausing", "paused", "resuming", "trim", "resend", "resent"}
CloserPCs == {"idle", "waiting", "closed"}

\* Every variable has its type; interrupt_balance is 0 or 1 when one thread
\* pauses and resumes in turn.
TypeOK ==
  /\ state \in Initialized..Terminated
  /\ data \in Seq(Nat) /\ queue \in Seq(Nat) /\ pending \in Seq(Nat)
  /\ maxSent \in Nat /\ current \in Nat /\ acked \in Nat /\ balance \in {0, 1}
  /\ tpc \in Threads /\ opc \in OwnerPCs /\ resent \in Nat
  /\ cpc \in [Closers -> CloserPCs]
  /\ accepted \in 0..MaxPut /\ handed \in Nat
  /\ lastCall \in [item : Nat, seqn : Nat]

(***************************************************************************)
(* The inductive invariant: where each package is (Placement), and what    *)
(* each control point knows (Control).                                     *)
(***************************************************************************)
Placement ==
  /\ current + Len(pending) = maxSent + 1
  /\ accepted = maxSent + Len(queue) + Len(data)
  /\ \A i \in 1..Len(pending) : pending[i] = current + i - 1
  /\ \A i \in 1..Len(queue) : queue[i] = maxSent + i
  /\ \A i \in 1..Len(data) : data[i] = maxSent + Len(queue) + i

Control ==
  /\ ~(InProcess /\ InReprocess)
  /\ handed = IF tpc = "sent" THEN maxSent + 1 ELSE maxSent
  /\ state = Initialized => tpc = "unborn"
  /\ tpc = "sent" => queue # <<>>
  /\ current <= acked + 1
  /\ acked <= handed
  /\ opc = "resend" => current = acked + 1 /\ resent <= Len(pending)
  /\ balance = IF opc = "running" THEN 0 ELSE 1
  /\ lastCall.item = lastCall.seqn

\* Every accepted package sits in exactly the container its number says, and
\* each control point of the three loops knows what the next step relies on.
IInv == TypeOK /\ Placement /\ Control

\* The n-th package accepted is the one processor is called with under number
\* n, however often it was refused, paused and resent in between: numbering
\* is by order of acceptance (process l.117-122, reprocess l.96-99).
NumberedByAcceptance == lastCall.item = lastCall.seqn

\* What has been accepted and not been acknowledged is still held, each
\* package exactly once and in order, by pending, queue or data: nothing is
\* lost or doubled between the three containers, whatever the three threads
\* do (add_data l.70-77, process l.117-122, reprocess l.91-95).
Held == pending \o queue \o data

HeldInOrder ==
  /\ current + Len(Held) = accepted + 1
  /\ \A i \in 1..Len(Held) : Held[i] = current + i - 1
  /\ current <= acked + 1

\* reprocess never pops an empty pending_queue (undefined behaviour), although
\* an acknowledgement may overtake the ++max_sent_seqn and the push_back of
\* the package it acknowledges (l.117-120 against l.91-94).
PopsOnlyPending == opc = "trim" /\ current <= acked => pending # <<>>

\* The processor is a sliding window: numbers are tried in order, again only
\* while unacknowledged, and only acknowledged packages are thrown away.
Window == INSTANCE SendWindow WITH
            base <- current, sent <- handed, tried <- lastCall.seqn

ImplementsWindow == Window!WindowSpec

-----------------------------------------------------------------------------
\* No wake-up is lost: accepted packages are taken by the asynchronous thread
\* unless the processor is paused or closed meanwhile (cv.wait l.150 against
\* the notifications of put, resume and terminate0).
AcceptedIsTaken ==
  (data # <<>> /\ balance = 0 /\ state = AsyncProcessing)
    ~> (data = <<>> \/ balance # 0 \/ state # AsyncProcessing)

\* Once stop or terminate has been called, the thread ends, paused or not
\* (l.139-157).
ClosedThreadEnds == state >= Stopping ~> tpc \in {"unborn", "done"}

=============================================================================
