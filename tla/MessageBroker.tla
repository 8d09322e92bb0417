----------------------------- MODULE MessageBroker -----------------------------
(***************************************************************************)
(* MessageBroker: what becomes of the messages a wire receives.  The       *)
(* wire's receiver thread dispatches each message to the entity with its   *)
(* id.  Entities subscribe on the default scheduler's thread, and          *)
(* unsubscribe by the end of a lifetime, without `lock', on whatever       *)
(* thread ends it.  A message for an id without a subscription is parked   *)
(* in the broker and looked at again by an action queued on the default    *)
(* scheduler; meanwhile messages for an entity with a scheduler of its own *)
(* are kept behind the parked ones.                                        *)
(*                                                                         *)
(* An entity is of one of the kinds the framework has: a "plain" one       *)
(* (property, map, list, set, endpoint) is called on the default           *)
(* scheduler, a "signal" too until advise_on gives it a scheduler of its   *)
(* own, an "ext" on SynchronousScheduler, whose queue runs the action at   *)
(* once, an "intern" root on InternScheduler, which does the same and is   *)
(* marked out_of_order_execution.                                          *)
(*                                                                         *)
(* A step is what a thread does between two moments at which the others    *)
(* can see a difference; an action stays at the head of its queue, and a   *)
(* message in its place, until the last step of what is done with it.  A   *)
(* single operation of the hash maps, which no lock protects from          *)
(* unsubscribing, is one step.  A use of freed or null memory ends the     *)
(* behaviour: nothing is said of what the program does from there (fault). *)
(***************************************************************************)
EXTENDS Integers, Sequences

CONSTANTS
  Entities,     \* ids that messages are sent to
  Kinds,        \* the kinds of entities looked at
  MaxMessages,  \* bound of the model: messages received
  MaxBinds      \* bound of the model: subscriptions made

ASSUME KindsAssumption == Kinds \subseteq {"plain", "signal", "ext", "intern"}
ASSUME BoundAssumption == MaxMessages \in Nat /\ MaxBinds \in Nat

VARIABLES
  kind,           \* the kind of the entity with each id
  ownScheduler,   \* signals that advise_on has given a scheduler
  bound,          \* ids whose entity has them, and a parent
  subscribed,     \* ids with an entity in subscriptions ...
  nulls,          \* ... and ids with a null entry there, made by operator[]
  receiver, hand, \* the receiver's thread, inside dispatch for an id
  broker,         \* per id its Mq, or NoMq
  queue,          \* actions queued on the default scheduler
  ownQueue,       \* per signal, messages on the way to its own scheduler ...
  ownChecked,     \* ... and whether the action for the first has passed its check
  pc, current,    \* the default scheduler's thread, inside the action of dispatch
  fault,          \* the undefined behaviour the program has run into, if any
  binds,          \* how many subscriptions have been made
  dest,           \* history: the ids of the messages dispatched
  handled,        \* history: messages on_wire_received has taken
  unbound,        \* history: messages it was called with on an entity not bound
  caught,         \* history: messages it was about to be called with on an entity
                  \* that was unbound that very moment
  dropped,        \* history: messages traced as without a handler, or lost to the
                  \* exception "Not bound"
  raced,          \* history: ids parked at between the last two steps of an action
  overtaken       \* history: ids whose messages may have overtaken each other

life == <<kind, ownScheduler, binds>>
thread == <<pc, current>>
entries == <<bound, subscribed, nulls, caught>>
receiving == <<receiver, hand>>
history == <<handled, unbound, dropped>>
vars == <<life, entries, receiving, broker, queue, ownQueue, ownChecked, thread,
          fault, dest, history, raced, overtaken>>

NoMq == [serial |-> 0, default |-> <<>>, custom |-> <<>>]
Nobody == 0
Nothing == [to |-> Nobody, bound |-> FALSE, rest |-> <<>>]
Present(e) == broker[e] # NoMq

Scheduler(e) ==
  CASE kind[e] = "ext" -> "synchronous"
    [] kind[e] = "intern" -> "outOfOrder"
    [] e \in ownScheduler -> "own"
    [] OTHER -> "default"

AtOnce(e) == Scheduler(e) \in {"synchronous", "outOfOrder"}

Init ==
  /\ kind \in [Entities -> Kinds]
  /\ ownScheduler = {}
  /\ bound = {} /\ subscribed = {} /\ nulls = {}
  /\ receiver = "reading" /\ hand = Nobody
  /\ broker = [e \in Entities |-> NoMq]
  /\ queue = <<>>
  /\ ownQueue = [e \in Entities |-> <<>>]
  /\ ownChecked = [e \in Entities |-> FALSE]
  /\ pc = "idle" /\ current = Nothing
  /\ fault = "none"
  /\ binds = 0
  /\ dest = <<>>
  /\ handled = [e \in Entities |-> <<>>]
  /\ unbound = {} /\ caught = {}
  /\ dropped = [e \in Entities |-> <<>>]
  /\ raced = {} /\ overtaken = {}

-----------------------------------------------------------------------------
\* `lock' is held by the receiver's thread all through dispatch.
LockFree == receiver \in {"reading", "broken"}

Drop(e, m) ==
  /\ dropped' = [dropped EXCEPT ![e] = Append(@, m)]
  /\ UNCHANGED <<handled, unbound>>

\* Without its parent an entity finds no protocol: get_wire_scheduler throws, but
\* for the kinds that have a scheduler of their own, and so does on_wire_received,
\* which reads the message in the serialization context, but for an ext's.
HasNoScheduler(e) == e \notin bound /\ kind[e] = "plain"
Refuses(e) == e \notin bound /\ kind[e] # "ext"

\* execute: the entity, which may have lost its subscription, gets the message.
Execute(e, m) ==
  /\ unbound' = IF e \in bound THEN unbound ELSE unbound \cup {m}
  /\ IF Refuses(e) THEN /\ dropped' = [dropped EXCEPT ![e] = Append(@, m)]
                        /\ UNCHANGED handled
                   ELSE /\ handled' = [handled EXCEPT ![e] = Append(@, m)]
                        /\ UNCHANGED dropped

\* The queued action of invoke looks, under `lock', for the id the entity has
\* now; it executes the message without `lock', a step of its own.  A null entry
\* is as good as an entity, but an entity loses its id when it is unbound.
KeepsId(e) == e \in subscribed \cup nulls  \* mutation: unbinding leaves the id
ExistsId(e) == e \in subscribed \/ e \in nulls \cap bound

\* invoke with sync = FALSE: the message goes to the entity's scheduler ...
Invoke(e, m) ==
  \/ /\ Scheduler(e) = "default"
     /\ queue' = Append(queue, [op |-> "deliver", to |-> e, arg |-> m])
     /\ UNCHANGED ownQueue
  \/ /\ Scheduler(e) = "own"
     /\ ownQueue' = [ownQueue EXCEPT ![e] = Append(@, m)]
     /\ UNCHANGED queue

\* ... or is checked for at once, and is not called.
Disappeared(e, m) ==
  /\ AtOnce(e) /\ ~ExistsId(e)
  /\ Drop(e, m)

-----------------------------------------------------------------------------
(* dispatch, on the wire's receiver thread, with `lock' all along.         *)

\* The subscription is null, and has an entry from now on.  The action that is
\* queued keeps an iterator to the Mq, identified here by its first message.
Park(e, m) ==
  /\ e \notin subscribed
  /\ nulls' = nulls \cup {e}
  /\ LET mq == IF Present(e) THEN broker[e] ELSE [NoMq EXCEPT !.serial = m] IN
       /\ broker' = [broker EXCEPT ![e] = [mq EXCEPT !.default = Append(@, m)]]
       /\ queue' = Append(queue, [op |-> "parked", to |-> e, arg |-> mq.serial])
  /\ raced' = IF pc = "erase" /\ current.to = e THEN raced \cup {e} ELSE raced
  /\ dest' = Append(dest, e)
  /\ UNCHANGED receiving

\* It is not: the entity is asked for its scheduler in the next step.
Find(e) ==
  /\ e \in subscribed
  /\ receiver' = "found" /\ hand' = e
  /\ UNCHANGED <<nulls, broker, queue, raced, dest>>

Dispatch(e) ==
  /\ receiver = "reading" /\ Len(dest) < MaxMessages
  /\ Park(e, Len(dest) + 1) \/ Find(e)
  /\ UNCHANGED <<life, bound, subscribed, caught, ownQueue, ownChecked, thread, fault,
                 history, overtaken>>

\* The exception leaves dispatch and receiverProc ends.
Break(e, m) ==
  /\ HasNoScheduler(e)
  /\ Drop(e, m)
  /\ receiver' = "broken"
  /\ UNCHANGED <<broker, queue, ownQueue, overtaken>>

WaitBehindParked(e, m) ==
  /\ ~HasNoScheduler(e)
  /\ Scheduler(e) \in {"own", "synchronous"} /\ Present(e)
  /\ broker' = [broker EXCEPT ![e].custom = Append(@, m)]
  /\ receiver' = "reading"
  /\ UNCHANGED <<queue, ownQueue, history, overtaken>>

\* Messages that the default scheduler's thread passes on, not all of them yet.
Passing(e) == current.to = e /\ (current.rest # <<>> \/ pc = "flushCall")

PassesBy(e, m) ==
  /\ \/ Invoke(e, m) /\ receiver' = "reading" /\ UNCHANGED history
     \/ Disappeared(e, m) /\ receiver' = "reading" /\ UNCHANGED <<queue, ownQueue>>
     \/ /\ AtOnce(e) /\ ExistsId(e)
        /\ receiver' = "call"
        /\ UNCHANGED <<queue, ownQueue, history>>
  /\ overtaken' = IF Passing(e) THEN overtaken \cup {e} ELSE overtaken
  /\ UNCHANGED broker

PassAlways(e, m) ==  \* mutation: forgets that messages may be parked
  /\ ~HasNoScheduler(e)
  /\ PassesBy(e, m)

Pass(e, m) ==
  /\ ~HasNoScheduler(e)
  /\ Scheduler(e) \in {"default", "outOfOrder"} \/ ~Present(e)
  /\ PassesBy(e, m)

Route ==
  /\ receiver = "found"
  /\ LET m == Len(dest) + 1 IN Break(hand, m) \/ WaitBehindParked(hand, m) \/ Pass(hand, m)
  /\ dest' = IF receiver' = "call" THEN dest ELSE Append(dest, hand)
  /\ hand' = IF receiver' = "call" THEN hand ELSE Nobody
  /\ UNCHANGED <<life, entries, ownChecked, thread, fault, raced>>

\* The call that has passed its check; an exception ends receiverProc.
Call ==
  /\ receiver = "call"
  /\ Execute(hand, Len(dest) + 1)
  /\ receiver' = IF Refuses(hand) THEN "broken" ELSE "reading"
  /\ dest' = Append(dest, hand)
  /\ hand' = Nobody
  /\ UNCHANGED <<life, entries, broker, queue, ownQueue, ownChecked, thread, fault, raced,
                 overtaken>>

-----------------------------------------------------------------------------
(* Subscriptions.  They are made on the default scheduler's thread,        *)
(* between the actions queued on it and in handlers it calls, and end on   *)
(* any thread.                                                             *)

MayBind == pc \in {"idle", "handler"}
OnTheWay(e) == {i \in 1..Len(queue) : queue[i].op = "deliver" /\ queue[i].to = e}

\* The entity is about to be called with m: every check is passed, or there is none
\* (the parked message of an entity of the default scheduler).
Decided(e, m) ==
  \/ receiver = "call" /\ hand = e /\ m = Len(dest) + 1
  \/ ownChecked[e] /\ m = Head(ownQueue[e])
  \/ /\ current.to = e
     /\ \/ pc = "deliver" /\ m = Head(queue).arg
        \/ pc = "parkedCall" /\ m = Head(broker[e].default)
        \/ /\ pc = "look" /\ current.bound /\ Scheduler(e) = "default"
           /\ m = Head(broker[e].default)
        \/ pc = "flushCall" /\ m = Head(current.rest)

\* bind, and advise_on of the broker, for a lifetime that is not terminated; the
\* init of a signal has set its scheduler to the default one.
Bind(e) ==
  /\ MayBind /\ LockFree
  /\ e \notin bound
  /\ binds < MaxBinds
  /\ bound' = bound \cup {e}
  /\ subscribed' = subscribed \cup {e}
  /\ nulls' = nulls \ {e}
  /\ binds' = binds + 1
  /\ ownScheduler' = ownScheduler \ {e}
  /\ overtaken' = IF ownQueue[e] # <<>> \/ broker[e].custom # <<>>
                  THEN overtaken \cup {e} ELSE overtaken
  /\ UNCHANGED <<kind, caught, receiving, broker, queue, ownQueue, ownChecked, thread,
                 fault, dest, history, raced>>

\* The action advise_on has added to the lifetime, the first to run ...
Unbind(e) ==
  /\ e \in subscribed
  /\ subscribed' = subscribed \ {e}
  /\ UNCHANGED <<life, bound, nulls, caught, receiving, broker, queue, ownQueue, ownChecked,
                 thread, fault, dest, history, raced, overtaken>>

\* ... and the one bind has added: the entity loses its parent and its id.
LoseId(e) ==
  /\ e \in bound \ subscribed
  /\ bound' = bound \ {e}
  /\ caught' = caught \cup {m \in 1..Len(dest) + 1 : Decided(e, m)}
  /\ UNCHANGED <<life, subscribed, nulls, receiving, broker, queue, ownQueue, ownChecked,
                 thread, fault, dest, history, raced, overtaken>>

\* RdSignal::advise_on: the scheduler is changed under messages on their way.
AdviseOn(e) ==
  /\ MayBind
  /\ kind[e] = "signal" /\ e \in subscribed
  /\ e \notin ownScheduler
  /\ ownScheduler' = ownScheduler \cup {e}
  /\ overtaken' = IF OnTheWay(e) # {} THEN overtaken \cup {e} ELSE overtaken
  /\ UNCHANGED <<kind, binds, entries, receiving, broker, queue, ownQueue, ownChecked,
                 thread, fault, dest, history, raced>>

-----------------------------------------------------------------------------
(* The default scheduler's thread.  It catches what an action throws.      *)

Done == pc' = "idle" /\ current' = Nothing

\* An action of invoke checks ...
RunDeliver ==
  /\ pc = "idle" /\ queue # <<>> /\ Head(queue).op = "deliver" /\ LockFree
  /\ LET e == Head(queue).to IN
       \/ /\ ExistsId(e)
          /\ pc' = "deliver"
          /\ current' = [to |-> e, bound |-> TRUE, rest |-> <<>>]
          /\ UNCHANGED <<queue, history>>
       \/ /\ ~ExistsId(e)
          /\ Drop(e, Head(queue).arg)
          /\ queue' = Tail(queue)
          /\ UNCHANGED thread
  /\ UNCHANGED <<life, entries, receiving, broker, ownQueue, ownChecked, fault, dest, raced,
                 overtaken>>

\* ... and calls.
Deliver ==
  /\ pc = "deliver"
  /\ Execute(current.to, Head(queue).arg)
  /\ queue' = Tail(queue)
  /\ Done
  /\ UNCHANGED <<life, entries, receiving, broker, ownQueue, ownChecked, fault, dest, raced,
                 overtaken>>

\* The action of dispatch looks at the subscription.  If its iterator is no longer
\* valid, anything may happen.
RunParked ==
  /\ pc = "idle" /\ queue # <<>> /\ Head(queue).op = "parked"
  /\ LET e == Head(queue).to IN
       /\ nulls' = IF e \in subscribed THEN nulls ELSE nulls \cup {e}
       /\ IF broker[e].serial # Head(queue).arg \/ broker[e].default = <<>>
          THEN /\ fault' = "danglingIterator"
               /\ UNCHANGED thread
          ELSE /\ pc' = "look"
               /\ current' = [to |-> e, bound |-> e \in subscribed, rest |-> <<>>]
               /\ UNCHANGED fault
  /\ UNCHANGED <<life, bound, subscribed, caught, receiving, broker, queue, ownQueue,
                 ownChecked, dest, history, raced, overtaken>>

\* A parked message and its action are done with.
TakeParked ==
  /\ broker' = [broker EXCEPT ![current.to].default = Tail(@)]
  /\ queue' = Tail(queue)

\* It takes a parked message and has it handled: on this thread with no further
\* check.  An exception leaves the Mq behind.
HandleParked ==
  /\ pc = "look" /\ LockFree
  /\ LET e == current.to
         m == Head(broker[e].default) IN
       \/ /\ ~current.bound \/ HasNoScheduler(e)
          /\ Drop(e, m)
          /\ IF current.bound THEN Done ELSE pc' = "test" /\ UNCHANGED current
          /\ TakeParked
          /\ UNCHANGED ownQueue
       \/ /\ current.bound /\ ~HasNoScheduler(e) /\ Scheduler(e) = "default"
          /\ Execute(e, m)
          /\ IF Refuses(e) THEN Done ELSE pc' = "handler" /\ UNCHANGED current
          /\ TakeParked
          /\ UNCHANGED ownQueue
       \/ /\ current.bound /\ Scheduler(e) = "own"
          /\ ownQueue' = [ownQueue EXCEPT ![e] = Append(@, m)]
          /\ pc' = "test"
          /\ TakeParked
          /\ UNCHANGED <<current, history>>
       \/ /\ current.bound /\ Disappeared(e, m)
          /\ pc' = "test"
          /\ TakeParked
          /\ UNCHANGED <<current, ownQueue>>
       \/ /\ current.bound /\ AtOnce(e) /\ ExistsId(e)
          /\ pc' = "parkedCall"
          /\ UNCHANGED <<current, broker, queue, ownQueue, history>>
  /\ UNCHANGED <<life, entries, receiving, ownChecked, fault, dest, raced, overtaken>>

CallParked ==
  /\ pc = "parkedCall"
  /\ Execute(current.to, Head(broker[current.to].default))
  /\ IF Refuses(current.to) THEN Done ELSE pc' = "handler" /\ UNCHANGED current
  /\ TakeParked
  /\ UNCHANGED <<life, entries, receiving, ownQueue, ownChecked, fault, dest, raced, overtaken>>

\* `current.default_scheduler_messages.empty()', read without the lock ...
NothingParked(e) == broker[e].default = <<>>
TestEmpty ==
  /\ pc \in {"handler", "test"}
  /\ IF NothingParked(current.to)
     THEN pc' = "erase" /\ UNCHANGED current
     ELSE Done
  /\ UNCHANGED <<life, entries, receiving, broker, queue, ownQueue, ownChecked, fault,
                 dest, history, raced, overtaken>>

\* ... and the Mq is moved out and erased.
EraseAndForget ==  \* mutation: the messages kept behind the parked ones go, too
  /\ pc = "erase"
  /\ broker' = [broker EXCEPT ![current.to] = NoMq]
  /\ pc' = "flush"
  /\ UNCHANGED <<life, entries, receiving, queue, ownQueue, ownChecked, current, fault,
                 dest, history, raced, overtaken>>

Erase ==
  /\ pc = "erase"
  /\ broker' = [broker EXCEPT ![current.to] = NoMq]
  /\ current' = [current EXCEPT !.rest = broker[current.to].custom]
  /\ pc' = "flush"
  /\ UNCHANGED <<life, entries, receiving, queue, ownQueue, ownChecked, fault, dest,
                 history, raced, overtaken>>

\* The messages kept behind the parked ones follow, one by one: queued, or checked
\* for and called in two steps (they are never an intern root's, so that none is
\* refused here).
Flush ==
  /\ pc = "flush" /\ current.rest # <<>> /\ current.bound
  /\ LET e == current.to
         m == Head(current.rest)
         passed == current' = [current EXCEPT !.rest = Tail(@)] IN
       \/ /\ Invoke(e, m)
          /\ passed
          /\ UNCHANGED <<pc, history>>
       \/ /\ LockFree
          /\ Disappeared(e, m)
          /\ passed
          /\ UNCHANGED <<pc, queue, ownQueue>>
       \/ /\ LockFree
          /\ AtOnce(e) /\ ExistsId(e)
          /\ pc' = "flushCall"
          /\ UNCHANGED <<current, queue, ownQueue, history>>
  /\ UNCHANGED <<life, entries, receiving, broker, ownChecked, fault, dest, raced, overtaken>>

FlushCall ==
  /\ pc = "flushCall"
  /\ Execute(current.to, Head(current.rest))
  /\ current' = [current EXCEPT !.rest = Tail(@)]
  /\ pc' = "flush"
  /\ UNCHANGED <<life, entries, receiving, broker, queue, ownQueue, ownChecked, fault, dest,
                 raced, overtaken>>

\* The subscription was null when the action looked at it.
FlushToNull ==
  /\ pc = "flush" /\ current.rest # <<>> /\ ~current.bound
  /\ fault' = "nullSubscription"
  /\ UNCHANGED <<life, entries, receiving, broker, queue, ownQueue, ownChecked, thread, dest,
                 history, raced, overtaken>>

FlushEnd ==
  /\ pc = "flush" /\ current.rest = <<>>
  /\ Done
  /\ UNCHANGED <<life, entries, receiving, broker, queue, ownQueue, ownChecked, fault,
                 dest, history, raced, overtaken>>

-----------------------------------------------------------------------------
(* The thread of a signal's own scheduler.                                 *)

OwnCheck(e) ==
  /\ ownQueue[e] # <<>> /\ ~ownChecked[e] /\ LockFree
  /\ IF ExistsId(e)
     THEN /\ ownChecked' = [ownChecked EXCEPT ![e] = TRUE]
          /\ UNCHANGED <<ownQueue, history>>
     ELSE /\ ownQueue' = [ownQueue EXCEPT ![e] = Tail(@)]
          /\ Drop(e, Head(ownQueue[e]))
          /\ UNCHANGED ownChecked
  /\ UNCHANGED <<life, entries, receiving, broker, queue, thread, fault, dest, raced, overtaken>>

OwnExecute(e) ==
  /\ ownChecked[e]
  /\ Execute(e, Head(ownQueue[e]))
  /\ ownQueue' = [ownQueue EXCEPT ![e] = Tail(@)]
  /\ ownChecked' = [ownChecked EXCEPT ![e] = FALSE]
  /\ UNCHANGED <<life, entries, receiving, broker, queue, thread, fault, dest, raced, overtaken>>

ReceiverThread == Route \/ Call
DefaultThread ==
  \/ RunDeliver \/ Deliver
  \/ RunParked \/ HandleParked \/ CallParked
  \/ TestEmpty \/ Erase \/ Flush \/ FlushCall \/ FlushToNull \/ FlushEnd
OwnThread(e) == OwnCheck(e) \/ OwnExecute(e)

\* Everything received has been dealt with, or the program is undefined.
Rest ==
  /\ \/ fault # "none"
     \/ /\ Len(dest) = MaxMessages \/ receiver = "broken"
        /\ pc = "idle" /\ queue = <<>>
        /\ \A e \in Entities : ownQueue[e] = <<>>
  /\ UNCHANGED vars

Next ==
  \/ /\ fault = "none"
     /\ \/ \E e \in Entities : \/ Dispatch(e) \/ Bind(e) \/ Unbind(e) \/ LoseId(e)
                               \/ AdviseOn(e) \/ OwnThread(e)
        \/ ReceiverThread
        \/ DefaultThread
  \/ Rest

Spec == Init /\ [][Next]_vars

\* Schedulers run what is queued on them, and dispatch comes to its end.
Fairness ==
  /\ WF_vars(fault = "none" /\ ReceiverThread)
  /\ WF_vars(fault = "none" /\ DefaultThread)
  /\ \A e \in Entities : WF_vars(fault = "none" /\ OwnThread(e))

LiveSpec == Spec /\ Fairness

-----------------------------------------------------------------------------
Messages == 1..MaxMessages
Entry == [op : {"parked", "deliver"}, to : Entities, arg : Nat]
Mq == [serial : Nat, default : Seq(Nat), custom : Seq(Nat)]

\* What the broker, the schedulers and their threads hold.
TypeOK ==
  /\ kind \in [Entities -> Kinds]
  /\ ownScheduler \subseteq {e \in Entities : kind[e] = "signal"}
  /\ subscribed \subseteq bound /\ bound \subseteq Entities
  /\ nulls \subseteq Entities
  /\ receiver \in {"reading", "found", "call", "broken"}
  /\ hand \in Entities \cup {Nobody} /\ (~LockFree => hand \in Entities)
  /\ broker \in [Entities -> Mq]
  /\ queue \in Seq(Entry)
  /\ ownQueue \in [Entities -> Seq(Nat)]
  /\ ownChecked \in [Entities -> BOOLEAN]
  /\ \A e \in Entities : ownChecked[e] => ownQueue[e] # <<>>
  /\ pc \in {"idle", "deliver", "look", "parkedCall", "handler", "test", "erase", "flush",
            "flushCall"}
  /\ current \in [to : Entities \cup {Nobody}, bound : BOOLEAN, rest : Seq(Nat)]
  /\ pc # "idle" => current.to \in Entities
  /\ fault \in {"none", "danglingIterator", "nullSubscription"}
  /\ binds \in 0..MaxBinds
  /\ dest \in Seq(Entities)
  /\ handled \in [Entities -> Seq(Nat)] /\ dropped \in [Entities -> Seq(Nat)]
  /\ raced \subseteq Entities /\ overtaken \subseteq Entities

MessagesOf(e) == {m \in 1..Len(dest) : dest[m] = e}
Elements(f) == {f[i] : i \in DOMAIN f}

Places == {"parked", "kept", "flushed", "onTheWay", "own", "handled", "dropped"}
In(e, place) ==
  CASE place = "parked" -> broker[e].default
    [] place = "kept" -> broker[e].custom
    [] place = "flushed" -> IF current.to = e THEN current.rest ELSE <<>>
    [] place = "onTheWay" -> [i \in OnTheWay(e) |-> queue[i].arg]
    [] place = "own" -> ownQueue[e]
    [] place = "handled" -> handled[e]
    [] place = "dropped" -> dropped[e]

\* Between the receipt of a message and its handler there are five queues of
\* three threads: every message is in one of them, once, or was handled, or was
\* dropped, once, whichever thread unsubscribes its entity in between (dispatch,
\* invoke l.16-128).  The ids that raced are those where dispatch parked a message
\* after the queued action had seen none.
EachHeldOnce ==
  fault = "none" =>
    \A e \in Entities \ raced :
      /\ UNION {Elements(In(e, p)) : p \in Places} = MessagesOf(e)
      /\ \A p, q \in Places : \A i \in DOMAIN In(e, p), j \in DOMAIN In(e, q) :
           In(e, p)[i] = In(e, q)[j] => p = q /\ i = j

\* Whatever is parked, kept back and passed on, an entity that is not marked
\* out_of_order_execution gets its messages in the order they were received in
\* (dispatch l.107-123), except where the code cannot have it: a message
\* received while the last action flushes (l.93-98) goes directly to the
\* entity's scheduler, and a signal's scheduler is changed under way.
InOrder ==
  \A e \in Entities \ (raced \cup overtaken) :
    kind[e] # "intern" =>
      \A i, j \in 1..Len(handled[e]) : i < j => handled[e][i] < handled[e][j]

\* An exception has left an Mq behind that no action will erase.
LeftBehind(e) ==
  /\ Present(e) /\ broker[e].default = <<>>
  /\ ~(pc # "idle" /\ current.to = e)

Waits(m) ==
  /\ m <= Len(dest)
  /\ dest[m] \in subscribed
  /\ m \notin Elements(dropped[dest[m]])
Served(m) ==
  m <= Len(dest) => \/ m \in Elements(handled[dest[m]])
                    \/ dest[m] \notin subscribed
                    \/ dest[m] \in raced
                    \/ LeftBehind(dest[m])
                    \/ fault # "none"
\* A message received for an entity that is, and stays, subscribed is handled
\* some time, also if it was parked before (dispatch, with fair schedulers);
\* unless the entity's Mq was left behind by the exception of an earlier end.
BoundIsServed == \A m \in Messages : Waits(m) ~> Served(m)

\* "The handler is removed when the given [lifetime] is terminated" (IWire.h
\* l.43), whatever is queued, parked or kept back for an entity when it is unbound,
\* and whichever thread does it: on_wire_received is called for an entity no
\* longer bound only with a message whose call was decided before, when invoke
\* had found its id (l.28, under the lock that l.143 does not take) or the action
\* of dispatch its subscription (l.67).
RemovedIsNotCalled == unbound \subseteq caught

=============================================================================
