------------------------------- MODULE Calls -------------------------------
(***************************************************************************)
(* RdCall, RdEndpoint, WiredRdTaskImpl: two ends that call each other.     *)
(* Requests are handled by the default scheduler's thread of the           *)
(* counterpart.  A synchronous call blocks that thread of its own end and  *)
(* takes its answer on the socket thread; one that is started gets it      *)
(* from its scheduler.  The end of the bind lifetime cancels the tasks, on *)
(* whatever thread ends it.                                                *)
(***************************************************************************)
EXTENDS Naturals, Sequences, FiniteSetsExt

CONSTANTS
  Ends,      \* the two ends of the protocol
  MaxCalls,  \* bound: calls made by the two ends together
  MaxAgain   \* bound: answers given again by the two ends together

ASSUME CallsAssumption ==
  IsFiniteSet(Ends) /\ Cardinality(Ends) = 2 /\ MaxCalls \in Nat /\ MaxAgain \in Nat

Tasks == 1 .. MaxCalls
Answers == {"success", "fault"}
Results == Answers \union {"empty", "cancelled"}
Idle == [at |-> "idle"]
Broken == [at |-> "broken"]

VARIABLES
  made,          \* made[e]: calls of e so far; they are numbered
  task,          \* task[e][i]: the result of a call and who holds it
  sync_task_id,  \* sync_task_id[e], 0 for nullopt
  thread,        \* thread[e]: what the default scheduler's thread is doing
  socket,        \* socket[e]: what the socket thread is doing
  queue,         \* queue[e]: actions of the default scheduler
  wire,          \* wire[e]: messages on their way to e
  handler,       \* handler[e]: whether its endpoint has a handler
  handled,       \* handled[e][i]: what e has done about request i
  lifetime,      \* lifetime[e]: the bind lifetime
  todo,          \* todo[e]: the task the end of the lifetime comes to next
  sawEmpty       \* sawEmpty[e]: it has found that task without a result

endpoint == <<handler, handled>>
vars == <<made, task, sync_task_id, thread, socket, queue, wire, endpoint, lifetime, todo, sawEmpty>>

Other(e) == CHOOSE f \in Ends : f # e

Init ==
  /\ made = [e \in Ends |-> 0]
  /\ task = [e \in Ends |-> [i \in Tasks |-> [held |-> FALSE, sync |-> FALSE, result |-> "empty"]]]
  /\ sync_task_id = [e \in Ends |-> 0]
  /\ thread = [e \in Ends |-> Idle]
  /\ socket = [e \in Ends |-> Idle]
  /\ queue = [e \in Ends |-> <<>>]
  /\ wire = [e \in Ends |-> <<>>]
  /\ handler = [e \in Ends |-> FALSE]
  /\ handled = [e \in Ends |-> [i \in Tasks |-> "no"]]
  /\ lifetime = [e \in Ends |-> "alive"]
  /\ todo = [e \in Ends |-> 0]
  /\ sawEmpty = [e \in Ends |-> FALSE]

Request(i) == [kind |-> "request", task |-> i, result |-> "empty"]
Answer(i, r) == [kind |-> "answer", task |-> i, result |-> r]
Setting(m) == [at |-> "setting", task |-> m.task, result |-> m.result]
Waiting(i) == [at |-> "waiting", task |-> i]

Send(e, m) == wire' = [wire EXCEPT ![Other(e)] = Append(@, m)]
SetResult(e, i, r) == task' = [task EXCEPT ![e][i].result = r]
Empty(e, i) == task[e][i].result = "empty"

(* A task is subscribed to its id until the end of the lifetime comes to it,
   even if nobody holds it any more: its destructor removes the action that
   cancels it and not the subscription. *)
Subscribed(e, i) ==
  \/ lifetime[e] = "alive"
  \/ lifetime[e] = "terminated" /\ i <= todo[e]

-----------------------------------------------------------------------------
(* The caller, on the thread of the default scheduler (assert_threading). *)

MayCall == \A e, f \in Ends : e # f => made[e] + made[f] < MaxCalls

Make(e, sync) ==
  LET i == made[e] + 1
  IN  /\ thread[e] = Idle
      /\ lifetime[e] = "alive"
      /\ MayCall
      /\ made' = [made EXCEPT ![e] = i]
      /\ task' = [task EXCEPT ![e][i].held = TRUE, ![e][i].sync = sync]
      /\ Send(e, Request(i))
      /\ UNCHANGED <<socket, queue, endpoint, lifetime, todo, sawEmpty>>

StartCall(e) == Make(e, FALSE) /\ UNCHANGED <<sync_task_id, thread>>

SyncCall(e) ==
  /\ sync_task_id[e] = 0
  /\ Make(e, TRUE)
  /\ sync_task_id' = [sync_task_id EXCEPT ![e] = made'[e]]
  /\ thread' = [thread EXCEPT ![e] = Waiting(made'[e])]

(* "Already exists sync task": the call has made its task by then. *)
SyncRefused(e) ==
  /\ thread[e] = Idle
  /\ lifetime[e] = "alive"
  /\ sync_task_id[e] # 0
  /\ MayCall
  /\ made' = [made EXCEPT ![e] = @ + 1]
  /\ UNCHANGED <<task, sync_task_id, thread, socket, queue, wire, endpoint, lifetime, todo, sawEmpty>>

(* unwrap or value_or_throw throws unless the call has succeeded.  The caller
   has no use for the task then, and takes its value before. *)
EndSync(e, i) ==
  /\ thread' = [thread EXCEPT ![e] = Idle]
  /\ task' = [task EXCEPT ![e][i].held = FALSE]
  /\ sync_task_id' = IF task[e][i].result = "success"
                     THEN [sync_task_id EXCEPT ![e] = 0] ELSE sync_task_id
  /\ UNCHANGED <<made, socket, queue, wire, endpoint, lifetime, todo, sawEmpty>>

SyncReturn(e) ==
  /\ thread[e].at = "waiting"
  /\ ~Empty(e, thread[e].task) \/ lifetime[e] # "alive"
  /\ EndSync(e, thread[e].task)

(* mutation: there is no timeout *)
WaitsForEver(e) == FALSE /\ UNCHANGED vars

(* The time is not modelled: the timeout may come at any moment. *)
SyncTimeout(e) ==
  /\ thread[e].at = "waiting"
  /\ EndSync(e, thread[e].task)

(* The caller lets go of a task it has started: the last copy is destroyed. *)
Release(e, i) ==
  /\ task[e][i].held /\ ~task[e][i].sync
  /\ task' = [task EXCEPT ![e][i].held = FALSE]
  /\ UNCHANGED <<made, sync_task_id, thread, socket, queue, wire, endpoint, lifetime, todo, sawEmpty>>

-----------------------------------------------------------------------------
(* The endpoint: its handler is set and runs on the default scheduler. *)

SetHandler(e) ==
  /\ thread[e] = Idle
  /\ ~handler[e]
  /\ handler' = [handler EXCEPT ![e] = TRUE]
  /\ UNCHANGED <<made, task, sync_task_id, thread, socket, queue, wire, handled, lifetime, todo, sawEmpty>>

(* task.advise: an answer is sent as long as the endpoint is bound. *)
SendAnswer(e, i, r) ==
  IF lifetime[e] = "alive" THEN Send(e, Answer(i, r)) ELSE UNCHANGED wire

HandledBecomes(e, i, h) == handled' = [handled EXCEPT ![e][i] = h]

(* The handler returns a task that has its result already. *)
HandlerReturns(e, i) == HandledBecomes(e, i, "answered") /\ SendAnswer(e, i, "success")

(* The handler returns a task it will set later. *)
HandlerDefers(e, i) == HandledBecomes(e, i, "awaiting") /\ UNCHANGED wire

(* mutation: the exception of a handler is not passed on *)
HandlerThrowsAway(e, i) == HandledBecomes(e, i, "answered") /\ UNCHANGED wire

HandlerThrows(e, i) == HandledBecomes(e, i, "answered") /\ SendAnswer(e, i, "fault")

(* "handler is empty for RdEndPoint" is thrown and ends in the log of the
   scheduler: the request is gone, and its caller hears nothing. *)
Refuse(e, i) == HandledBecomes(e, i, "refused") /\ UNCHANGED wire

Handle(e, i) ==
  \/ ~handler[e] /\ Refuse(e, i)
  \/ handler[e] /\ (HandlerReturns(e, i) \/ HandlerDefers(e, i) \/ HandlerThrows(e, i))

NextAction(e) == Head(queue[e])
Dequeue(e, kind) ==
  /\ thread[e] = Idle
  /\ queue[e] # <<>>
  /\ NextAction(e).kind = kind
  /\ queue' = [queue EXCEPT ![e] = Tail(@)]

RunRequest(e) ==
  LET i == NextAction(e).task
  IN  /\ Dequeue(e, "request")
      /\ IF lifetime[e] = "ended"
         THEN UNCHANGED <<wire, handled>>
         ELSE Handle(e, i)
      /\ UNCHANGED <<made, task, sync_task_id, thread, socket, handler, lifetime, todo, sawEmpty>>

FinishHandling(e, i) ==
  /\ handled[e][i] = "awaiting"
  /\ HandledBecomes(e, i, "answered")
  /\ SendAnswer(e, i, "success")
  /\ UNCHANGED <<made, task, sync_task_id, thread, socket, queue, handler, lifetime, todo, sawEmpty>>

(* RdTask::set, cancel and fault overwrite: another value is another answer. *)
AnswerAgain(e, i) ==
  /\ handled[e][i] = "answered"
  /\ Cardinality({p \in Ends \X Tasks : handled[p[1]][p[2]] = "twice"}) < MaxAgain
  /\ SendAnswer(e, i, "fault")
  /\ HandledBecomes(e, i, "twice")
  /\ UNCHANGED <<made, task, sync_task_id, thread, socket, queue, handler, lifetime, todo, sawEmpty>>

-----------------------------------------------------------------------------
(* The answer.  What it does to a task nobody holds any more, which is still
   subscribed, is undefined and left out: it changes nothing here. *)

(* mutation: a result that is there already does not matter *)
OpenAnyway(e, i) == task[e][i].held

(* Whether an answer is going to be the result: set_if_empty looks first, and
   sets what it has seen empty. *)
Open(e, i) == task[e][i].held /\ Empty(e, i)

(* An answer that comes too late is unwrapped for the log, which throws unless
   it is a success. *)
Throws(e, m) == task[e][m.task].held /\ ~Empty(e, m.task) /\ m.result # "success"

(* What is left of the socket thread after the answer of a synchronous task:
   an exception ends receiverProc, and with it the connection. *)
AtOnce(e, m) ==
  IF ~Subscribed(e, m.task) THEN Idle
  ELSE IF Open(e, m.task) THEN Setting(m)
  ELSE IF Throws(e, m) THEN Broken
  ELSE Idle

(* The socket thread: the broker queues requests, and calls the task an
   answer is for, which queues it to its scheduler unless it is synchronous. *)
Receive(e) ==
  LET m == Head(wire[e])
  IN  /\ socket[e] = Idle
      /\ wire[e] # <<>>
      /\ wire' = [wire EXCEPT ![e] = Tail(@)]
      /\ IF m.kind = "request" \/ (Subscribed(e, m.task) /\ ~task[e][m.task].sync)
         THEN queue' = [queue EXCEPT ![e] = Append(@, m)] /\ UNCHANGED socket
         ELSE socket' = [socket EXCEPT ![e] = AtOnce(e, m)] /\ UNCHANGED queue
      /\ UNCHANGED <<made, task, sync_task_id, thread, endpoint, lifetime, todo, sawEmpty>>

SocketSets(e) ==
  /\ socket[e].at = "setting"
  /\ SetResult(e, socket[e].task, socket[e].result)
  /\ socket' = [socket EXCEPT ![e] = Idle]
  /\ UNCHANGED <<made, sync_task_id, thread, queue, wire, endpoint, lifetime, todo, sawEmpty>>

(* The scheduler catches what an answer that comes too late throws here. *)
RunAnswer(e) ==
  LET m == NextAction(e)
  IN  /\ Dequeue(e, "answer")
      /\ thread' = IF Open(e, m.task) THEN [thread EXCEPT ![e] = Setting(m)] ELSE thread
      /\ UNCHANGED <<made, task, sync_task_id, socket, wire, endpoint, lifetime, todo, sawEmpty>>

ThreadSets(e) ==
  /\ thread[e].at = "setting"
  /\ SetResult(e, thread[e].task, thread[e].result)
  /\ thread' = [thread EXCEPT ![e] = Idle]
  /\ UNCHANGED <<made, sync_task_id, socket, queue, wire, endpoint, lifetime, todo, sawEmpty>>

-----------------------------------------------------------------------------
(* The end of the bind lifetime, on a thread of its own: its actions run in
   reverse order, the youngest task is cancelled first. *)

(* mutation: the tasks have not registered an action *)
TerminateOnly(e) ==
  /\ lifetime[e] = "alive"
  /\ lifetime' = [lifetime EXCEPT ![e] = "terminated"]
  /\ UNCHANGED <<made, task, sync_task_id, thread, socket, queue, wire, endpoint, todo, sawEmpty>>

Terminate(e) ==
  /\ lifetime[e] = "alive"
  /\ lifetime' = [lifetime EXCEPT ![e] = "terminated"]
  /\ todo' = [todo EXCEPT ![e] = made[e]]
  /\ UNCHANGED <<made, task, sync_task_id, thread, socket, queue, wire, endpoint, sawEmpty>>

(* The tasks that are not waiting for a result any more are passed over. *)
CancelLooks(e) ==
  LET open == {i \in 1 .. todo[e] : Open(e, i)}
  IN  /\ lifetime[e] = "terminated"
      /\ ~sawEmpty[e]
      /\ IF open = {}
         THEN /\ lifetime' = [lifetime EXCEPT ![e] = "ended"]
              /\ todo' = [todo EXCEPT ![e] = 0]
              /\ UNCHANGED sawEmpty
         ELSE /\ todo' = [todo EXCEPT ![e] = Max(open)]
              /\ sawEmpty' = [sawEmpty EXCEPT ![e] = TRUE]
              /\ UNCHANGED lifetime
      /\ UNCHANGED <<made, task, sync_task_id, thread, socket, queue, wire, endpoint>>

CancelSets(e) ==
  /\ sawEmpty[e]
  /\ SetResult(e, todo[e], "cancelled")
  /\ todo' = [todo EXCEPT ![e] = @ - 1]
  /\ sawEmpty' = [sawEmpty EXCEPT ![e] = FALSE]
  /\ UNCHANGED <<made, sync_task_id, thread, socket, queue, wire, endpoint, lifetime>>

-----------------------------------------------------------------------------

(* The threads of e. *)
SchedulerRuns(e) ==
  SyncReturn(e) \/ SyncTimeout(e) \/ RunRequest(e) \/ RunAnswer(e) \/ ThreadSets(e)
SocketRuns(e) == Receive(e) \/ SocketSets(e)
EnderRuns(e) == CancelLooks(e) \/ CancelSets(e)
HandlersRun(e) == \E i \in Tasks : FinishHandling(e, i)

Next ==
  \E e \in Ends :
    \/ StartCall(e) \/ SyncCall(e) \/ SyncRefused(e) \/ SetHandler(e)
    \/ \E i \in Tasks : Release(e, i) \/ AnswerAgain(e, i)
    \/ Terminate(e)
    \/ SchedulerRuns(e) \/ SocketRuns(e) \/ EnderRuns(e) \/ HandlersRun(e)

Spec == Init /\ [][Next]_vars

(* The thread of the default scheduler goes on: it runs what is queued, and
   comes out of the loop of a synchronous call when the time is up. *)
Fairness == \A e \in Ends : WF_vars(SchedulerRuns(e))

LiveSpec == Spec /\ Fairness

-----------------------------------------------------------------------------

(* An answer is never replaced by another one, however often the endpoint's
   task is set; only the end of the lifetime, which may have seen the task
   empty just before, still overwrites it. *)
FirstAnswerStays ==
  [][\A e \in Ends, i \in Tasks :
       task[e][i].result \in Answers =>
         task'[e][i].result \in {task[e][i].result, "cancelled"}]_vars

(* When the end of a lifetime is over, no task made under it that is still
   held waits for a result, whatever was arriving at the time. *)
EndedIsAnswered ==
  \A e \in Ends : lifetime[e] = "ended" =>
    \A i \in 1 .. made[e] : task[e][i].held => ~Empty(e, i)

(* A synchronous call always ends, also when both ends are in one and neither
   can handle the other's request. *)
SyncCallEnds ==
  \A e \in Ends : thread[e].at = "waiting" ~> thread[e] = Idle

(* Nothing is on its way or under way any more, or the connection is over: the
   bind lifetimes of the two ends are those of one connection. *)
Settled ==
  /\ \A e \in Ends :
       /\ thread[e] = Idle /\ queue[e] = <<>>
       /\ \A i \in Tasks : handled[e][i] # "awaiting"
  /\ \/ \A e \in Ends : lifetime[e] = "alive" /\ socket[e] = Idle /\ wire[e] = <<>>
     \/ \A e \in Ends : lifetime[e] = "ended"

(* Whoever has held on to the task of a call has seen a result by the time
   all has settled: no request, answer or exception of a handler is lost on
   the way, to whatever end.  What the endpoint gets before it has a handler
   is the one thing that is lost without an answer. *)
HeldIsAnswered ==
  Settled => \A e \in Ends : \A i \in 1 .. made[e] :
               task[e][i].held => ~Empty(e, i) \/ handled[Other(e)][i] = "refused"

(* "Already exists sync task for call" is said while there is one, and not of
   one that has failed (RdCall.h:124-128). *)
SyncTaskExists ==
  \A e \in Ends : sync_task_id[e] # 0 => thread[e] = Waiting(sync_task_id[e])

=============================================================================
