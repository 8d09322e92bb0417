----------------------------- MODULE RiderLink -----------------------------
(***************************************************************************)
(* RiderLink.cpp: a model of the editor for every connection of the wire.  *)
(* The socket thread changes `connected'; the tasks it queues create the   *)
(* model, set RdIsModelAlive and reset it, on the thread of the module's   *)
(* scheduler; the logging thread reads both under ModelLock.               *)
(***************************************************************************)
EXTENDS Naturals, Sequences

CONSTANT MaxConnections   \* bound

ASSUME LinkAssumption == MaxConnections \in Nat

VARIABLES
  connection,  \* connections so far, and the lifetime of the last one
  connected,   \* the wire's property
  watched,     \* connections whose lifetime has the action that queues set(false)
  queue,       \* tasks of the scheduler
  running,     \* what its thread is doing
  EditorModel, \* the connection the model was made for, 0 for none
  alive,       \* RdIsModelAlive: "unset", "yes" or "no"
  logger       \* the model the logging thread fires on under ModelLock, 0 for none

linkVars == <<connection, connected, watched, queue, running, EditorModel, alive, logger>>

Idle == [step |-> "none"]
At(s, c) == [step |-> s, of |-> c]
ConnectedTask(c) == [kind |-> "connected", of |-> c]
DroppedTask == [kind |-> "dropped"]

LinkInit ==
  /\ connection = 0
  /\ connected = FALSE
  /\ watched = {}
  /\ queue = <<ConnectedTask(0)>>
  /\ running = Idle
  /\ EditorModel = 0
  /\ alive = "unset"
  /\ logger = 0

Live(c) == connected /\ c = connection

(* The scheduler's thread begins with the first task, if it is of this kind. *)
Takes(kind) ==
  /\ running = Idle
  /\ queue # <<>>
  /\ Head(queue).kind = kind
  /\ queue' = Tail(queue)

(***************************************************************************)
(* The socket thread: view calls its lambda with a new lifetime at every   *)
(* change of `connected'; the previous lifetime has ended by then.         *)
(***************************************************************************)

Connects ==
  /\ ~connected
  /\ connection < MaxConnections
  /\ connected' = TRUE
  /\ connection' = connection + 1
  /\ queue' = Append(queue, ConnectedTask(connection + 1))
  /\ UNCHANGED <<watched, running, EditorModel, alive, logger>>

Disconnects ==
  /\ connected
  /\ connected' = FALSE
  /\ queue' = queue \o (IF connection \in watched THEN <<DroppedTask>> ELSE <<>>)
                    \o <<ConnectedTask(0)>>
  /\ UNCHANGED <<connection, watched, running, EditorModel, alive, logger>>

(***************************************************************************)
(* The scheduler's thread.                                                 *)
(***************************************************************************)

IgnoreDisconnected ==
  /\ Takes("connected")
  /\ Head(queue).of = 0
  /\ UNCHANGED <<connection, connected, watched, running, EditorModel, alive, logger>>

(* The new model replaces the old one before connect, which throws if the
   connection has ended: the task is over, its lock released. *)
CreateModel ==
  /\ Takes("connected")
  /\ Head(queue).of # 0
  /\ logger = 0
  /\ LET c == Head(queue).of
     IN  /\ EditorModel' = c
         /\ running' = IF Live(c) THEN At("register", c) ELSE Idle
  /\ UNCHANGED <<connection, connected, watched, alive, logger>>

(* mutation: a lifetime that has ended ignores the action *)
RegisterQuietly ==
  LET c == running.of
  IN  /\ running.step = "register"
      /\ watched' = IF Live(c) THEN watched \union {c} ELSE watched
      /\ running' = At("alive", c)
      /\ UNCHANGED <<connection, connected, queue, EditorModel, alive, logger>>

(* add_action, which throws if the lifetime has ended. *)
Register ==
  LET c == running.of
  IN  /\ running.step = "register"
      /\ watched' = IF Live(c) THEN watched \union {c} ELSE watched
      /\ running' = IF Live(c) THEN At("alive", c) ELSE Idle
      /\ UNCHANGED <<connection, connected, queue, EditorModel, alive, logger>>

(* set(true); the viewers are called only if it is a change. *)
BecomeAlive ==
  /\ running.step = "alive"
  /\ alive' = "yes"
  /\ running' = IF alive = "yes" THEN Idle ELSE At("view", running.of)
  /\ UNCHANGED <<connection, connected, watched, queue, EditorModel, logger>>

(* mutation: the task does not take ModelLock *)
DropUnlocked ==
  /\ Takes("dropped")
  /\ alive' = "no"
  /\ UNCHANGED <<connection, connected, watched, running, EditorModel, logger>>

(* set(false) *)
Drop ==
  /\ Takes("dropped")
  /\ logger = 0
  /\ alive' = "no"
  /\ UNCHANGED <<connection, connected, watched, running, EditorModel, logger>>

(***************************************************************************)
(* FireAsyncAction on the logging thread.  The task above holds ModelLock  *)
(* until the viewers have returned.                                        *)
(***************************************************************************)

ModelSteps == {"register", "alive", "view", "sync", "tell"}

FireAsyncAction ==
  /\ logger = 0
  /\ running.step \notin ModelSteps
  /\ alive = "yes"
  /\ logger' = EditorModel
  /\ UNCHANGED <<connection, connected, watched, queue, running, EditorModel, alive>>

FireAsyncReturns ==
  /\ logger # 0
  /\ logger' = 0
  /\ UNCHANGED <<connection, connected, watched, queue, running, EditorModel, alive>>

LinkStep ==
  \/ Disconnects
  \/ IgnoreDisconnected \/ CreateModel \/ Register \/ BecomeAlive
  \/ FireAsyncAction \/ FireAsyncReturns

-----------------------------------------------------------------------------

(* When the scheduler has run everything it was given, the model is alive
   exactly if the wire is connected, however connections followed on one
   another while the tasks were queued. *)
AliveFollowsConnection ==
  queue = <<>> /\ running = Idle => (alive = "yes" <=> connected)

=============================================================================
