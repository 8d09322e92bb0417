# Verification of LVRC-Unreal

Formal models of the LVRC-Unreal repository: an Unreal Engine project whose own
product is the LVRC plugin (locomotion of a VR character), with the source of the
RiderLink plugin and its RD protocol framework checked in, which connects the
editor to an IDE. Line numbers below are those of the files under `src/`;
`FW` stands for
`src/LVRC_Project/Plugins/Developer/RiderLink/Source/RD/src/rd_framework_cpp/src/main`,
`RL` for `src/LVRC_Project/Plugins/Developer/RiderLink/Source`, and `LV` for
`src/LVRC_Project/Plugins/LVRC/Source/LVRC`.

## 1. The system

### Parts, state, operations

| Part | State it keeps | Operations | What is hard about it | What makes it correct |
|---|---|---|---|---|
| `FW/wire/ByteBufferAsyncProcessor` (the outbox) | `state`, `data`, `queue`, `pending_queue`, three sequence numbers, `interrupt_balance`, `in_processing` | put, start, stop, terminate, pause, resume, acknowledge; its own thread | three locks, three kinds of threads, two condition variables, callbacks under locks, resending | every accepted package is sent under its own number, in order, and kept until acknowledged |
| `FW/wire/SocketWire` (Base, Client, Server) | socket, `max_received_seqn`, partial message, lifetimes | send, send0, connect or accept, set_socket_provider, receiverProc, read_package, terminate | connections that break, duplicates, lost acknowledgements, termination | messages are dispatched once and in order; what is thrown away has arrived; termination ends |
| the heartbeat of SocketWire | three timestamps, `heartbeatAlive` | ping, the PING part of read_header | two threads without a lock, reconnections | alive means heard recently, reckoned from the comparison that said so |
| `FW/wire/PkgInputStream` | position, length of the current package | try_read, read | a length that is no length | message boundaries survive |
| `FW/protocol/MessageBroker` | subscriptions, queues of messages of entities not bound yet | dispatch, advise_on | callbacks on schedulers against binding | per entity, messages in order and none lost once it is bound |
| `FW/ext/ExtWire`, `RdExtBase` | `sendQ`, `connected`, state of the handshake | send, handshake messages | sending against draining | nothing overtakes the queue; both sides get connected |
| `FW/base/RdPropertyBase`, `FW/impl/Rd*` | values, versions, unacknowledged changes | local and remote changes | crossing changes | master and slave converge |
| `FW/task/*` | open calls, results | start, sync, cancel, result | timeouts, cancellation and late answers; both ends blocked in a call | who holds a task gets a result, and only one; a synchronous call ends |
| `rd_core_cpp` lifetimes, signals, properties, collections | actions, listeners, values | terminate, attach, advise, fire, set | re-entrance, termination while firing | an accepted action runs once, in reverse order; nested lifetimes end with their parent |
| `FW/scheduler`, `PumpScheduler` | queues, active thread | queue, flush | re-entrance | order per scheduler |
| `FW/intern`, `Identities` | index tables, counters | intern, next | two sides giving out indices | no collision |
| `FW/serialization`, `Buffer` | bytes | read, write | none (sequential) | round trip |
| `RL/RiderLink` | `EditorModel`, `RdIsModelAlive`, `ModelLock` | a connection begins and ends, ViewModel, QueueAction, FireAsyncAction | tasks queued for a connection that has ended since | the model is alive when connected, and outlives its users |
| `RL/RiderGameControlExtension` | the control, its delegates, `playMode` | editor events, requests and settings of Rider | game thread against scheduler's thread; a queued `this` | Rider knows the editor's mode and state; one reply per request |
| `RL/Rider*Extension`, the others | hardly any | forwarding of events | | not modelled |
| `LV` movement component and character | capsule, VR origin, height, previous input | tick, begin of locomotion, teleportation | the player moves between ticks | the capsule is under the view and where it fits |
| generated model, third-party code, assets | | | | not modelled |

How they interact: an editor extension changes a reactive entity; the entity
serialises the change and calls `send` of its (extension) wire; `SocketWire::send`
puts the message into the outbox; the outbox's thread calls `send0`, which writes
to the socket. The counterpart's socket thread reads packages, acknowledges them,
cuts them into messages and dispatches these by the message broker to the
entity's `on_wire_received` on its scheduler. Lifetimes tie all of it together.

### Modules

| Module | Models | Composes |
|---|---|---|
| `AsyncProcessor` | the outbox: every operation, its thread, the thread that owns the connection, threads that stop it | refines `SendWindow` |
| `SendWindow` | what an outbox with acknowledgements promises (abstract) | |
| `SocketWire` | one direction of a wire: socket thread, connections, receiving end, termination | extends `AsyncProcessor` |
| `Heartbeat` | `ping` and the PING part of `read_header` at both ends | |
| `SocketWire_proofs` | theorems about `AsyncProcessor`, `SocketWire` and `Heartbeat` | extends the three |
| `MessageBroker`, `MessageBroker_proofs` | dispatch of received messages to entities, on their schedulers, against binding and unbinding; theorems about it | |
| `Extension`, `Extension_proofs` | both ends of an extension: the handshake, the send queue, binding; theorems about them | abstracts `MessageBroker` and the wire below it |
| `TwoEnds` | two replicas, the messages between them, binding | abstracts the wire and the broker |
| `RdProperty`, `RdMap`, `RdList`, `RdSet` | one kind of reactive entity each, at both ends | extend `TwoEnds` |
| `Interning` | `InternRoot` at both ends, with several sending threads | extends `TwoEnds` |
| `Entities` | an entity of any of these kinds over one wire | composes the five |
| `Entities_proofs` | theorems about each kind of entity | extends it |
| `Calls`, `Calls_proofs` | `RdCall`, `RdEndpoint` and tasks at both ends, three threads each; theorems about them | abstracts wire, broker and lifetimes |
| `Lifetimes`, `Lifetimes_proofs` | `LifetimeImpl`, nested definitions, `SequentialLifetimes`, several threads; theorems about them | |
| `RiderLink` | the life of the editor's model from connection to connection | |
| `GameControl` | `FRiderGameControl` with its threads; `MCGameControl` holds the settings TLC uses | extends `RiderLink` |
| `GameControl_proofs` | theorems about `RiderLink` and `GameControl` together | extends `GameControl` |
| `Locomotion`, `Locomotion_proofs` | `TickComponent` and `BeginContinuousLocomotion` of the LVRC movement component; theorems about them | |

## 2. The modules and the code

### AsyncProcessor

Variables are the members of `ByteBufferAsyncProcessor.h` l.42-67, with the
control of the threads and three history variables (`accepted`, `handed`,
`lastCall`). A package is its place in the order of acceptance.

* `Put`, `Start`, `CloseBegin`/`CloseEnd` (= `terminate0`, with the wait for the
  thread between the two), `Acknowledge` are one critical section under `lock`
  each. The wait in `terminate0` has a time limit, so `CloseEnd` does not wait for
  the thread.
* `ThreadProc` is `ThreadReturn`, `ThreadWait`, `SpuriousWakeup`, `ThreadTake`;
  `process` is `ProcessBegin`, then `ProcessCall` (the callback, which may refuse)
  and `ProcessRecord` for each package, then `ProcessEnd`. Callback and bookkeeping
  are separate steps, because an acknowledgement can come in between.
* `pause` is `PauseBegin`, `PauseEnd`; `resume` is `ResumeBegin`, `reprocess`
  step by step, `ResumeEnd`. They hold `lock` all the time (`LockFree`).
* `queue_lock` and `processing_lock` are taken together, for the whole loop, by
  process and reprocess, and `in_processing` is true only inside process. So
  `~InProcess` and `~InReprocess` stand for all three waits. `add_data` takes
  `queue_lock` while `lock` is held; nobody else can hold it then, since reprocess
  runs under `lock` as well and process is the same thread.
* The owner calls pause and resume in turn, pause first or second
  (`interrupt_balance` starts at 0; the wire pauses first). That the wire does so
  is checked (`UsesOutboxCorrectly`).

`Idle` is a step that changes nothing, taken where the processor rests, so that
TLC's deadlock check finds every other state in which nothing can happen.

### SocketWire

`SocketWire` EXTENDS `AsyncProcessor` and conjoins each of its actions with what
happens to the wire: `SendNew`/`SendAgain` are `ProcessCall`/`ResendCall` with
`send0`, `ReadAck` is `Acknowledge` with what `read_header` read, `Resume`,
`Disconnected`, `Paused` are the outbox's part in `set_socket_provider`
(l.126-169), `Terminate`/`CloseSocket` are the action of the Client's or Server's
lifetime (l.517-541, l.615-643).

* A connection that breaks keeps a prefix of what is under way in each direction;
  the receiving end reads that prefix before it reads the next connection, and its
  acknowledgements go nowhere. A sender that has not noticed may have its data
  taken (and lost) or refused. Connections have numbers so that an acknowledgement
  is not put on another connection than the one the package came on.
* `Receive` is `read_package` and `read_and_dispatch_message`: acknowledge, then
  the duplicate check. For a duplicate, `read_package` returns `true`, that is 1,
  where a length is expected: `PkgInputStream::try_read` takes it for a package of
  one byte, and every later message is cut at the wrong place (`misframed`).
* The lifetime that `set_socket_provider` and `receiverProc` look at is that of
  `Base`. The lifetime whose termination stops the outbox, closes the socket and
  joins the thread is that of `Client` or `Server`: a later child of the same
  parent, so it is terminated *first* (`LifetimeImpl::terminate` runs its actions
  backwards). The checks of l.44 and l.135 are therefore never true while the
  thread runs, and the model has no guard for them: a connection may be served
  after the termination has begun, until the socket is closed.
* `overtook` records that a new package was written to a connection before the
  unacknowledged ones were, which the first item of "Noticed on the way" makes
  possible: the properties that depend on the order of resending are stated for
  runs in which it has not happened.

### Heartbeat

Both ends. No lock covers the counters and `heartbeatAlive`, so each access of either
thread is a step where the other can come in between. `ping` is the comparison (`PingBegin`),
`heartbeatAlive.set(false)` (`PingLower`), the packing of the echo (`PingPack`), the write
(`PingSent`) and `++current_timestamp` (`PingCount`), or the failure (`PingFailed`). The
PING part of `read_header` is `ReadPing` (l.255-268), `ReadEcho` (l.269), the comparison
(`Compare`, l.271) and `heartbeatAlive.set(true)` (`SetAlive`, l.285). `lag` is a history
variable: how many own pings were counted between the comparison and the set, so how old
the belief was when it was made. The counters belong to the wire and survive
`LoseConnection` and `Reconnect`. The time between two pings is arbitrary, so nothing
depends on the two ends' clocks having the same rate.

### MessageBroker

The receiver thread dispatches, with `lock` from the first step for a message to the
last: `Dispatch` is `Park` (no subscription, l.55-104) or `Find`; of what it has found it
asks the scheduler in the next step, `Route`, which is `Break` (the question throws),
`WaitBehindParked` (l.113-122) or `Pass` (l.105-117); `Call` is the call of an entity whose
scheduler runs at once. The default scheduler's thread runs what is queued on it, and
binds, between two actions or in a handler one of them calls (`pc = "handler"`). The
action that `dispatch` queues is `RunParked` (l.65-67, the subscription it has seen),
`HandleParked` (l.69-88) with `CallParked` for a call at once, `TestEmpty` (l.90, without the
lock), `Erase` (l.92-93), `Flush` for each message kept back with `FlushCall`, `FlushToNull`
or `FlushEnd`. The action that `invoke` queues is a check under `lock` and a call
without it, two steps wherever it runs: `RunDeliver`, `Deliver` on the default scheduler,
`OwnCheck`, `OwnExecute` on a signal's own, and the pairs above on the two schedulers
that run at once.

* The end of a subscription, `Unbind` (the `erase` of l.143), and of the binding,
  `LoseId`, take no lock and run on whatever thread ends the lifetime: for the editor's
  model the socket thread (RiderLink.cpp l.51-59). They may come between any two
  steps of the other threads.
* Entities are of four kinds, by what `get_wire_scheduler` returns: the default
  scheduler; for signals the one given to `advise_on`; `SynchronousScheduler` for
  extensions (calls and tasks have it, too); `InternScheduler`.
* `subscriptions[id]` inserts null entries (`nulls`), which the check of `invoke`, a
  `count`, finds as well; an entity that has lost its id (`RdBindableBase::bind` l.26-31)
  asks for the null id and is not found.
* Without a parent a plain entity finds no scheduler, and all but an extension no
  serialization context: both throw (`HasNoScheduler`, `Refuses`). On a scheduler the
  exception ends the action, on the receiver's thread it ends `receiverProc`.
* `unbound` and `caught` are history variables: the messages an entity was called with
  when it was not bound, and those it was just about to be called with (`Decided`)
  when it was unbound.
* An iterator is valid as long as the Mq it was taken from exists; Mqs are told
  apart by the message they were made for. Using an invalid iterator or a null
  subscription ends the behaviour (`fault`).
* `raced` and `overtaken` are history variables that name the ids for which the
  known races have happened ("Noticed on the way", items 2 and 3); the properties
  are about the others.
* `Places` are all the places a message for an entity can be in, from the broker's two
  queues to the history of what was handled or dropped; `In(e, place)` is what is there.

### Extension

`Advise`, `SendReady`, `BindMembers` are `RdExtBase::init` and the generated `init`
that calls it first and binds the members after it, in one task of the default
scheduler; `Disconnect` and `Unsubscribe` are the same lifetime's end, which runs
backwards. `SendBegin`/`SendDirect` are `ExtWire::send`, whose call of the real wire
is outside of the lock; `OnWireReceived` is the handler of the three states, on the
receiver thread or, for what came too early, on the default scheduler; the change
of `connected` and its handler `Drain` are two steps, since `connected` is not
guarded by the lock. The parent wire is a FIFO in each direction (what `SocketWire`
delivers on a connection). The broker is reduced to what an extension sees of it:
parked messages, messages kept behind them, and the flush, which a message
received meanwhile overtakes.

### TwoEnds, RdProperty, RdMap, RdList, RdSet, Interning, Entities

`TwoEnds` is what these entities have in common: whether an end's replica is bound
(`init` has been called), the messages on their way, in order, and which end is the
master. `Change` is `local_change`, `Bind` is `init`, whose `advise` replays what the
replica holds inside of `local_change`, so that it is sent; `Receive` is
`on_wire_received` on the default scheduler. Messages for a replica that is not bound
yet wait, as the broker has them do.

* `PropertySet` counts `master_version` up at the master and sends it;
  `PropertyReceive` refuses what is older than the master's.
* `RdMap`: `EmplacePending` is `pendingForAck.emplace`, which leaves an entry it
  finds as it is. The keys are pointers; a removal passes a pointer to its
  argument, and an entry that leaves the map takes its key along, so whether
  `pendingForAck` finds such a key is left open (`dangling`, `Found`). `lost` is a
  history variable: the keys whose pending change the master has lost track of.
* `RdList`: both ends count with `next_version`; a message with another number than
  the expected one reports a conflict (`RD_ASSERT_MSG`), and what happens after it
  is left out. `crossed` records that an end made a change while a message was on its
  way to it.
* `RdSet`: no numbers. `tangled` records the elements whose addition and removal
  have crossed.
* `Interning`: `InternValue` is one step because `intern_value` holds `lock`; the
  message that uses the index is sent later (`SendUse`), other threads come in
  between. `InsertBegin`/`InsertEnd` are the socket thread's insertion, `QueueUse` the
  dispatch of a message that contains an index, `ReadUse` its being read on the
  default scheduler.
* `Entities` picks one kind in its initial state; the state of the others rests.

### Calls

Each end has the default scheduler's thread (`thread`), the socket thread
(`socket`) and one that may end the bind lifetime (`todo`, `sawEmpty`). `Make` is
`start_internal`, whose `Send` comes after the task has subscribed (`Subscribed`) and
registered its cancellation. `SyncCall` blocks the scheduler's thread
(`Waiting`) and gets its answer from the socket thread, because
`SynchronousScheduler` runs what is queued at once. `set_if_empty` is two steps, `Receive` or
`RunAnswer` or `CancelLooks` (has it a value?) and `SocketSets`, `ThreadSets`,
`CancelSets`. An answer that comes too late is unwrapped for the log (WiredRdTaskImpl.h l.52-53), which
throws for a fault or a cancellation: the scheduler catches it, on the socket thread it ends
`receiverProc` (`Broken`), and nothing arrives any more. `EndSync` has the exception of `value_or_throw().unwrap()`: only success
resets `sync_task_id`. The endpoint's handler returns a finished task, returns one
that is set later, or throws; an endpoint is bound without one (`SetHandler` gives it one), and
until then `Refuse` is the exception of RdEndpoint.h l.102-105: the request is gone and never
answered.

### Lifetimes

A thread is a stack of what it is in the middle of, because an action may be the
termination of another lifetime; the innermost one is last. `Terminate` sets the flag, `TakeActions` empties the
map under the lock, `RunAction` runs one action outside of it. `Attach` and
`AttachEnd` are the two `add_action` of `attach_nested`; `Bracket` and `BracketEnd` those of
`bracket`; `Erase` removes what `attach_nested` has added under an id, once, if it is still
there; `ReadPrevious` and `ReplacePrevious` those of `set_current_lifetime`, whose
termination follows. `add_action` on a terminated lifetime throws, which ends what the
thread was doing.

### RiderLink and GameControl

`Connects` and `Disconnects` are the socket thread changing `connected`: `view` gives
each connection a lifetime and queues a task per change. That task is
`IgnoreDisconnected`, or `CreateModel`, `Register` and `BecomeAlive` under `ModelLock`, each
of which fails when the connection has ended meanwhile; the exception ends the task.
`Drop` is the task queued by the lifetime's action. `FireAsyncAction` is the
logging thread, under the same lock.

`GameControl` extends it: `BecomeAlive` calls the viewers if it is a change, which is
the constructor of `FRiderGameControl` (`Subscribe`, `ReadSettings`,
`TellInitialMode`), still on the scheduler's thread; `Reset` is `Drop` with the end of the
viewer's lifetime. `ScheduleModelAction` is `invoke_or_queue`: an action of the game
thread is appended to `queue` with `this`, one of the scheduler's own thread runs at
once (`UpdateSettings`, replies to unregistered commands). `RunAction` on a control
that has been reset may do anything a freed object does: fire on the model it
was made for or on the present one; `dangling` records it. `crossed` records
that the two threads have handled settings at the same time. `PackToMode`
and `UnpackFromMode` are the arithmetic of the code, including the overflow of the
two bits for the number of clients and the number two modes share (`AsTold`, l.73-75).

### Locomotion

The world is reduced to a row of cells of the capsule's width with a free height
each (`LocomotionBlockingObjectTypes`) and a set of cells with something
impassible (`ImpassibleObjectTypes`; both lists are editable, so the two are
independent). `Tick(stick)` is the whole of `TickComponent` (l.30-55): height,
`BeginContinuousLocomotion` if this is the first tick with input,
`UpdateCapsulePositionToHMD`, `PreviousTickInputVector`, then the engine's movement.
The engine's sweeps (`HitLocation`) and its movement (`EngineMoves`) are external:
a sweep reports the last free place before the first obstacle or the start when
it starts in one; the movement advances at most one cell into a free cell, and may
push a stuck capsule out. `MoveHead` is tracking: the HMD is anywhere in the room
at the next tick.

## 3. What the runs check

| Run | Bounds | Shows |
|---|---|---|
| `async_processor` | 3 packages, 2 closing threads | `IInv` (see 5), `HeldInOrder`: pending, queue and data together are exactly the unacknowledged packages, once and in order; `ImplementsWindow`: the outbox refines `SendWindow`; no lost wake-up, the thread ends after a stop |
| `socket_wire` | 2 packages, 3 connections, 1 terminating thread | the wire uses the outbox as its contract says; the first connection is exact; messages are dispatched in runs 1, 2, 3, ... without a gap; what is acknowledged was dispatched; a termination completes |
| `heartbeat` | delay 1 (the code has 3), 4 pings of each end, 1 lost connection | alive means that one of the last 2 pings (the delay and one more) was heard, or one of as many more as were counted between the comparison and the set |
| `message_broker` | 1 entity of any kind, 4 messages, 2 subscriptions | every message is in one of the queues, once, or was handled or dropped; order; an entity that is gone is called only with what was decided before it went; a message for an entity that stays subscribed is handled |
| `extension` | 2 messages of each end | no member's message comes before the members are bound; order; an unbound counterpart is known; when two ends stay bound, everything arrives |
| `entities` | 4 changes of both ends together, 2 values, 2 keys, lists of 3, 2 threads that intern | replicas of a property, a map (but for keys whose pending change was lost) and a set (but for tangled elements) agree when all has arrived; a list reports a conflict if and only if changes crossed; every index that has arrived stands for its value |
| `calls` | 2 calls and 1 repeated answer of both ends together | who holds a task gets a result, also when the lifetime ends or the handler throws, unless the endpoint had no handler when the request came; an answer is never replaced by another; a synchronous call ends, also when both ends are in one |
| `lifetimes` | 2 threads, 3 lifetimes, 2 actions of users | accepted actions run once and in reverse order; nested lifetimes end with their parent even if it is terminated while they are attached; sequential ones one at a time |
| `game_control` | 2 connections, 1 request, 3 changes of state or settings | alive follows the connection; model and control outlive their users; a request has one reply; Rider ends up with the editor's play state and mode; up to four clients it reads the editor's settings from that mode, but for a targeted mobile preview, which it takes for a mobile preview |
| `locomotion` | all worlds of 4 cells and heights 0..2, a room of 5 cells | the view never jumps; locomotion begins on the near side of what is impassible and where the capsule fits |
| `never_through` | as `locomotion` | violation: see findings |
| `sync_task` | as `calls` | violation: see findings |

Why the bounds are enough to be interesting. With three packages one can be
acknowledged, one pending and one in queue or data at the same time, and a
refused package can have one before and one after it; with three connections an
acknowledgement can be lost twice and number 1 come again after a duplicate
(`SocketWire` was also checked with three packages on three connections, for
longer than a run of this project may take, with the same result). With
four pings the maximum delay of one is reached, exceeded and recovered from on both ends,
and several pings fall between a comparison and its set; the code's delay of three and
more pings are covered by the proof, which is for all of them. With four messages and two subscriptions of an id one can be parked,
another kept behind it, the third received while the flush is under way and the fourth after it, or
one be in each of two threads' hands when the entity goes; a second id would share only the default
scheduler's queue and thread (the invariants were also checked with two ids and three messages,
1.9 million states, with the same result, and are proved for any number of ids). With two
messages of each end one can be queued or drained and the other sent directly. With four
changes each end can make two that cross two of the other, or change, remove and add a
key again before an acknowledgement. With two calls each end can make one, synchronously
or not, or one end a second one after a failed first. With three lifetimes there are a
parent, a nested one and one nested in that, or a parent with two sequential ones. With
two connections the tasks of the first can be run during the second, and with three
changes the user's and Rider's can cross after an event of the play state. With four cells
there is a near side, an obstacle, a far side and room to jump over the obstacle in one
tick.

Deadlock is not checked in `entities`, `calls`, `lifetimes` and `game_control`, whose
systems do stop: when the bounded number of changes is used up, nothing is left to do.
Type correctness is no property of a run of its own: it is part of the inductive
invariants of section 5 and proved with them.

Every property has at least one *mutation* of the model, an operator marked
`mutation:` next to the definition it would replace, under which TLC finds the
property violated.

### Findings

* `never_through`: "objects that you should never be allowed to move through"
  (LVRCMovementComponent.h l.156) are respected when locomotion begins, not while
  the stick is held.
* `sync_task`: "Already exists sync task for call" (RdCall.h l.127) is thrown although
  there is none: `sync` resets `sync_task_id` (l.84) after
  `value_or_throw().unwrap()` (l.83), which throws when the call timed out, failed or
  was cancelled. From then on every synchronous call of this `RdCall` is
  refused, for instance `get_allowSetForegroundWindow().sync` of the blueprint extension
  (RiderBlueprintExtension.cpp l.24) after one call that took longer than 200 ms.

### Noticed on the way

Seen while modelling, and excluded from the properties by a history variable, or left
out as undefined behaviour; the properties are about what remains.

1. pause says "pausing waited for main processing" (ByteBufferAsyncProcessor.cpp
   l.229), but the asynchronous thread sets `in_processing` only in `process`
   (l.113), after it has taken `data` and released `lock` (l.159-161). pause can
   return in between, and the thread then sends while the owner replaces the
   connection (`overtook`).
2. The assertion of MessageBroker.cpp l.96-97 dereferences a null subscription when
   the entity has been unbound after messages were kept back for it.
3. "synchronized recursively" (MessageBroker.cpp l.52) does not hold of the queued
   action, which tests and erases the Mq (l.90-93) without the lock. A message parked
   in between is lost, and its action uses an erased element (`raced`).
4. After an impassible hit the capsule is put at the hit location without the check
   for "objects that you aren't allowed to overlap with" (LVRCMovementComponent.cpp
   l.441-442, LVRCMovementComponent.h l.150). The ground trace of l.363 writes another
   variable than the one tested next.
5. `pendingForAck.emplace` keeps the version of the older pending change (RdMap.h
   l.116): the acknowledgement of the older one erases the entry, the newer change is
   not tracked any more, and the slave's crossing change is accepted, after which the
   replicas differ (`lost`). Its keys are pointers that dangle after a removal.
6. "don't need lock because value's already exists and never removes" (InternRoot.h l.98):
   the socket thread inserts into the same containers meanwhile.
7. The destructor of `WiredRdTaskImpl` removes the cancellation and leaves the
   subscription, whose handler refers to the task (WiredRdTaskImpl.h l.34, l.41, l.49):
   a late answer is given to a destroyed object. The handler `RdEndpoint` advises
   refers to its local variable `task` (l.116); `awaiting_tasks` is never emptied (l.118).
   An endpoint without a handler throws (RdEndpoint.h l.102-105) and never answers, so the
   caller waits for the end of its lifetime. A fault or cancellation that comes too late
   throws in the argument of the log that should say it was dropped (WiredRdTaskImpl.h
   l.52-53); for a synchronous call that ends the connection.
8. `bracket` looks at the flag before the opening (LifetimeImpl.h l.90): a lifetime
   that is terminated meanwhile leaves it open. The erase of `attach_nested`
   (LifetimeImpl.cpp l.56) takes no lock.
9. The game control is used after it has been reset (RiderGameControlExtension.cpp
   l.310, `dangling`), and by delegates it has not removed when firing on an
   unbound model throws out of its constructor. `playMode` is used by two threads
   without a lock and uninitialised until l.446; a notification that runs at once overtakes
   one that is queued (`crossed`). The play state is not told to Rider when a connection
   begins. More than four clients overflow into other bits (l.107), and
   two play modes share number 1 (l.73-75).
   `UpdatePlayWorldCommandsCache` tests the first element in a loop over all (l.225).
10. A resent package makes the counterpart acknowledge again what it had, which
    `acknowledge` logs as an error ("MUST BE greater", ByteBufferAsyncProcessor.cpp
    l.259) although it is normal; the heartbeat's timestamp, which "increases at
    intervals" (SocketWire.h l.65), stands still while pings fail; `pending_queue` is
    trimmed in reprocess only (l.120) and grows on a connection that never breaks; a
    listener of `connected` that throws leaves `set_socket_provider` between resume and
    pause (SocketWire.cpp l.146); `heartbeatAlive` may be set on a comparison that is
    several pings old (SocketWire.cpp l.271, l.285), and stay so until the next ping
    lowers it; an entity of any kind may be called after the lifetime of its
    subscription, because the `erase` (MessageBroker.cpp l.143) takes no lock and the call
    (l.32) comes after the check (l.28); changing a signal's
    scheduler while messages are on their way reorders them (RdSignal.h l.130).

## 4. Fairness

`AsyncProcessor`: strong fairness of the asynchronous thread, which contends for
`lock` with the owner and the callers; weak fairness of the owner once it is inside
pause or resume. The callback is assumed to return. A mutex gives no such guarantee
by itself, but the owner releases `lock` for the life of a connection, or for the
half second between two attempts to connect, before it takes it again. Nothing
makes anybody put, acknowledge, stop, pause or resume, and nothing makes a
condition variable wake up spuriously. `SocketWire` adds, for
`TerminationCompletes`, weak fairness of
the socket thread and strong fairness of the terminating thread, which needs
`lock` as well. `MessageBroker`: weak fairness of the default scheduler's thread and
of each signal's own one, which take what is queued in order and do not stop, and of the
receiver's thread inside `dispatch`, which comes to its end; nothing makes a message
arrive, or an entity be bound or unbound.
`Extension`: weak fairness of each thread of each end; nothing makes an end bind,
unbind or send. `Calls`: weak fairness of the default scheduler's thread of each end,
which runs what is queued and leaves the loop of a synchronous call when its time is up;
an answer need never come. `Entities`, `Lifetimes` and `GameControl` check safety only;
what they say of the end result is said of the states in which nothing is under way.
Whether `Send` blocks for ever because the counterpart does not
read is outside of the model (see hazards in PROJECT.json).

## 5. Proofs

The first part of `SocketWire_proofs` is about the outbox, for any number of packages and any
set of closing threads (the only assumption is `MaxPut \in Nat`):

* `Invariance`: `Spec => []IInv`. `IInv` is `TypeOK`, `Placement` (which numbers
  each container holds: `pending` has `current..maxSent`, `queue` follows, `data`
  follows that) and `Control` (what each control point knows). `HeldInOrder` alone
  is not inductive: that the resend loop stays inside `pending`, and that an
  acknowledgement may be one ahead of `maxSent` exactly while the thread is between
  callback and bookkeeping, is what `Control` adds.
* `TypeCorrect`, `NumberingCorrect`, `PopSafe`, `NothingLost`: `TypeOK`,
  `NumberedByAcceptance`, `PopsOnlyPending`, `HeldInOrder` follow from `IInv`.
  `PopSafe` is the argument why the race between an acknowledgement and the
  bookkeeping of the package it acknowledges is harmless: reprocess waits until
  process is out of its loop.
* `WindowImplemented`: `Spec => ImplementsWindow`, step by step: `ThrowAway` is the
  trimming loop, `Try` both callbacks, everything else stutters.

The lemmas are about sequences (what `Tail`, `Append` and `\o` do to elements) and,
one per conjunct of `IInv`, about steps. `NumberedByAcceptance` and `PopsOnlyPending` are
checked by the proof alone.

The second part of `SocketWire_proofs` is about the wire (assumes `MaxPut, MaxConn \in Nat`; any number of packages,
connections and terminating threads):

* `WireInvariance`: `WireSpec => []WireInv`. `WireInv` contains `IInv`, whose
  preservation by the wire's steps is taken from the outbox's lemmas: every action of the wire
  implies one of the outbox. `OutboxContract` and `OutboxKeepsAll` carry the outbox's
  theorems over to the wire.
* `FirstConnectionIsExact` needs `NextInLine` (the packages under way continue
  `maxReceived` without a gap) and that nothing is handed over before the first resume.
* `RunsAreDispatched` and `ThrownAwayIsDispatched` need `Flow`: each package under way follows the
  one before it or repeats an older one, numbers rise on each connection, acknowledgements are
  behind the receiving end and ahead of nothing, and what the outbox will try next
  continues what is under way. That holds until a package overtakes those being resent
  (`overtook`, see 3), as the properties say.

The last part of `SocketWire_proofs` is about the heartbeat (assumes `MaximumHeartbeatDelay \in Nat`): `BeatInvariance` and
`AliveIsHeard`. `AliveMeansHeard` by itself is not inductive: `InChannel` says that the pings
under way are in order, none older than what has been heard and none with an echo its sender has
not heard; `Knows` says the same of what an end has read, holds or has packed; `Compared` that a
comparison the socket thread is about to act on was true of the timestamp it was made with (`taken`),
from which `lag` is counted; `Fresh` gives a belief one beat less to live between the comparison and
the ping.

`Calls_proofs` (assumes two ends, `MaxCalls, MaxAgain \in Nat`):

* `CallsInvariance` with `CallsTypeCorrect`. `EndsFromTheTop`: the end of the bind lifetime
  leaves no waiting task above `todo`, which gives `EndAnswersAll`. `Underway`:
  as long as both lifetimes are alive, a call without a result has a request under way,
  an endpoint that works on it or has refused it, or an answer under way, which gives
  `NoCallIsLost`; also when an exception has ended the socket thread, which then leaves on the wire
  what it has not read until the lifetime ends.
* `AnswersStay`, an action property: `OneSetter` says that the scheduler only ever sets
  asynchronous and the socket thread synchronous calls, and that what one of them is about to set
  is no answer yet, so the two steps of `set_if_empty` cannot interleave with themselves.

`GameControl_proofs` (assumes that settings are of the fields of `FPlaySettings`, with at least one
client, and that Rider's modes are natural numbers): `GameControlInvariance` is the conjunction of
`LinkInv` (model, connection and the tasks that create and drop it), `ControlInv` (requests and
play states) and `ModeInv` (settings and modes). From it:
`ModelFollowsConnection` (a model that is alive, or about to be, has a drop in the queue before
the next connection's task, and none after the task of a connection that lasts),
`ModelIsThere`, `RequestsAnsweredOnce` (a request is in one place, and of the connection
that lasts it is somewhere until answered), `PlayStateFollows` (the last queued state is the
editor's, or nothing is queued and Rider was told it), `ModeFollowsSettings`. For the last,
`ModeFollows` says of the control of the connection that lasts, once its constructor has
returned, that the last mode queued, or else the one Rider was told, is `playMode`, and that
`playMode` is what the settings pack into unless the game thread is still comparing the two
(`GameFollows`, `QueueFollows`); `NotAtOnce` is why the scheduler's thread finds nothing of the
user's underway when it handles settings. `PackingIsExact` is about the bits: settings of up to four
clients are what their mode unpacks into, but for the mode that shares its number (`AsTold`), and no settings pack into a negative number.

`Locomotion_proofs` (worlds of any length, rooms of any size, players of any height):
`LocomotionTypeCorrect`, the action property `ViewIsSteady`, and of the first tick of a
locomotion `StopsAtImpassible` and `FindsRoom`, from lemmas about where sweeps stop
(`SweepStops`) and the last free cell of a path (by the least element of a set of distances).

`Entities_proofs` (assumes two ends; any sets of values, keys and writers, finite or not): one
inductive invariant per kind, which the steps of the other kinds leave alone.

* `PropertyAgrees` from `Agreeing`: what is on its way to the slave has rising versions, between
  the slave's and the master's, and ends in what the master has; if nothing is, the
  last of the slave's messages in time decides.
* `InternedResolve` from `InternInvariance`: what an end knows of an index is true, or about to
  arrive before the message that uses it, also with several writers at once.
* `SetAgrees` from `SetInvariance`: of an element that is not tangled, what is on its way says what
  its sender has, or nothing is and the ends agree.
* `MapAgrees` from `MapInvariance`: of a key that `pendingForAck` has not lost, no change of the
  master is pending and what the slave sends will be accepted (`Settled`), or the change is on its
  way (`Offered`), or its acknowledgement is, and what the slave sent after it will be accepted
  (`Acked`, `WillAgree`).
* `ListReports` from `ListInvariance`: as long as no changes crossed, the messages under way are
  numbered as expected and applying them leads from the receiver's list to the
  sender's (`Path`); once some crossed, each end has reported a conflict or is `Late`: its next
  message has a number it does not expect.

`Extension_proofs` (assumes `MaxSent \in Nat`; any number of messages): `ExtensionInvariance`, one
conjunct for each property.

* `NothingTooEarly`: `NeverTooEarly` says what an end has lost; `Unheard` says why. Before an end is
  bound nothing of it is on its way and its counterpart is neither connected nor about to send.
* `MembersInOrder` from `Ordered`: the numbers up to `b` are in the queue of the scheduler, those up to
  `c` on the wire, and the rest with the sender: in `sendQ`, or one with the thread that sends directly,
  and then `sendQ` is empty.
* `EndIsKnown` from `Told`: of what an end that has been unbound has said to the extension,
  Disconnected is the last that is on the wire, kept by the broker or queued, in this order, or
  nothing is and its counterpart knows.

`MessageBroker_proofs` (assumes that entities are of the four kinds; any entities, any number of
messages and subscriptions): `BrokerInvariance` with `BrokerTypeCorrect`.

* `EachHeldOnceHolds` from `Once` and `Complete`: the messages of an entity are in `Places`, no
  two of them share one, none is in a place twice, and none is missing unless the id raced. By
  itself that is not inductive: `Erase` loses what is parked, so `Phases` says that between the
  test and the erasure nothing is, and that the action keeps back nothing until it has erased the
  Mq. `Signals` is about the own schedulers. A step is a message that one place gains (`Grown`)
  and another loses (`Shrunk`), all others being `Alike`, so that a lemma each for `Append` and
  `Tail`, of a place and of the queue several entities share, does for all of them.
* `InOrderHolds` from `OrderInv`, about the entities for which no race has happened and whose
  scheduler keeps an order. `Ordered`: each place is in the order of reception, and everything in a
  place is older than everything in those behind it (`Precedes`). `Sorted`: only the places its
  scheduler uses hold anything. What is parked and what is on its way to the default scheduler
  are in no such order, since they share its queue; `InLine` (with `Aligned`) pairs each parked
  message with the queued action that will take it, and compares the positions of those.
  `HeadIsOldest` says that the message the action has decided for is older than all that is
  kept, and `CallIsAlone` that when the receiver's thread is about to call, nothing of the
  entity is parked, kept or being passed on.
* `RemovedIsNotCalledHolds` from `Caught`: a message whose call is decided belongs to an entity
  that is bound, or was caught when the entity lost its id. Every check, under the lock or
  not, is followed by the call on the same thread, and `LoseId` looks at all threads at once.

`Lifetimes_proofs` (assumes that the viewer's thread is a thread, `MaxLifetimes > 0`,
`MaxActions \in Nat`; any number of threads, lifetimes and actions, stacks of any
height): `LifetimesInvariance` with `LifetimesTypeCorrect`. A step exchanges the topmost frames of
one stack for others and leaves the rest where they are (`Moved`, `Stacks`), so `StepShapes` first
says of each action which frames it takes off and puts on, and the rest of the proof never
looks at a sequence operator of a stack again. `LifetimesInv` is:

* `Stored` and `Framed`: what a lifetime holds, or a thread has taken from it, was added to it
  (`Of`); what is taken, run or recorded belongs to a terminated lifetime.
* `Emptied`: what is terminated has no actions, or some thread is about to take them. This is
  what the flag being set before the actions are taken, and `add_action` looking at it under the
  same lock, amount to.
* `Complete`: an accepted action is with its lifetime, in what a thread runs, or has been run.
  `Together`: of one lifetime the actions are at the same one of these places, but for
  those one thread is running, and those it has yet to run are older than those it has run. With
  `Sorted` (stored in rising order, run in falling order) this makes `RunsInReverse` inductive,
  and `RunsInReverse` is also why nothing is run twice.
* `Nested`: what is attached is terminated, or its termination is stored with its parent or in
  what a thread runs. That the child erases this action (`RunAction`, "erase") is harmless because
  it only does so when it has been terminated itself.
* `Attaching` and `Succession`: while the parent lives, only the viewer's thread changes
  `current_def`, one change at a time, what it has read as previous is what it replaces, and every
  sequential lifetime is terminated, current or about to become current.

`ExactlyOnceHolds`, `NestedEndHolds` and `OneAtATimeHolds` then say what is left when all
stacks are empty (`NothingLeft`); once the parent is terminated, two threads may change
`current_def` at the same time and `Succession` says nothing, but then `Nested` gives `OneAtATime`.

Only model-checked is the liveness (`AcceptedIsTaken`, `ClosedThreadEnds`,
`TerminationCompletes`, `BoundIsServed`, `AllArrive`, `SyncCallEnds`): tlapm proves neither
fairness nor ENABLED. Every safety property of the passing runs is stated by a theorem.

## 6. Plan

1. (done) `AsyncProcessor`, `SendWindow`, proofs; `SocketWire`; `Heartbeat`;
   `MessageBroker`; `Extension`; `Locomotion`.
2. (done) `Entities` with the four kinds of entities and interning; `Calls`;
   `Lifetimes`; `RiderLink` and `GameControl`.
3. (done) Proofs of every safety property: `SocketWire` with the outbox and the heartbeat,
   `MessageBroker`, `Extension`, `Entities`, `Calls`, `Lifetimes`, `GameControl` with
   `RiderLink`, `Locomotion`.
4. Signals and viewable collections: changes made by a listener while an event is being
   fired, listeners that throw.
5. Teleportation validation of LVRC.
6. A wire with bounded socket buffers in both directions (mutual blocking during
   resume) and messages of several packages.

## 7. Not modelled

Three quarters of the implementation lines of the repository are third-party code (spdlog
with fmt, clsocket, ordered-map, optional, variant, CTPL, string-view-lite, ...) and
generated model classes, and much of the rest is serialization: no control state of
the program's own, and nothing a model would add to. What is modelled is the program's
own concurrent core. The engine: external, modelled as far as the code in `src/` uses
it. Logging, timing and message contents are abstracted everywhere.

In the modelled parts: exceptions thrown by user listeners of `connected`, a `Send` that
blocks for ever, `ByteBufferAsyncProcessor` called from its own thread, an extension that
is bound a second time, torn reads of the broker's, the intern root's and the lifetimes' maps (an operation of one of
them is one step), the moment in `bind` when an entity has its id and no subscription yet,
what follows on a connection whose `receiverProc` an exception has ended,
messages split over several packages, vertical geometry of the locomotion sweeps,
entities nested in the values of others, a listener of a map that changes the key it is
told of, the end of a binding of an entity, what a list does after it has reported a
conflict, start and shutdown of the RiderLink module, the cache of editor commands,
`isGameControlModuleInitialized`, and what objects do that are used after they are
gone. Of the components listed in PROJECT.json, serialization, the
remaining extensions (forwarding of logs, blueprint events and shader files), the LVRC
helpers, signals and viewable collections have no module.
