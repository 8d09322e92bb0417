-------------------------- MODULE GameControl_proofs --------------------------
(***************************************************************************)
(* Proofs about the model of the editor and its game control, for any      *)
(* number of connections, requests and changes: the model follows the      *)
(* connection, it outlives who uses it, a request is answered once, the    *)
(* play state is told, and so is the mode that stands for the settings.    *)
(***************************************************************************)
EXTENDS GameControl, SequenceTheorems, TLAPS

-----------------------------------------------------------------------------
(* Types.                                                                  *)

PossibleSettings == Settings \union {UnpackFromMode(m) : m \in RiderModes}
Modes == {PackToMode(s) : s \in PossibleSettings}

Actions ==
  [about : {"mode"}, value : Modes] \union [about : {"states"}, value : {Fired(e) : e \in Events}]
    \union [about : {"reply"}, value : Nat]

ActionTasks == [kind : {"action"}, of : Nat, action : Actions]
RequestTasks == [kind : {"request"}, of : Nat, request : Nat]
ModeTasks == [kind : {"mode"}, of : Nat, mode : RiderModes]
OtherTasks == ActionTasks \union RequestTasks \union ModeTasks
ConnectedTasks == [kind : {"connected"}, of : Nat]
DroppedTasks == [kind : {"dropped"}]
Tasks == ConnectedTasks \union DroppedTasks \union OtherTasks

RunningStates ==
  {Idle} \union [step : ModelSteps, of : Nat]
    \union [step : {"update"}, of : Nat, mode : RiderModes]

LinkTypeOK ==
  /\ connection \in Nat
  /\ connected \in BOOLEAN
  /\ watched \in SUBSET Nat
  /\ queue \in Seq(Tasks)
  /\ running \in RunningStates
  /\ EditorModel \in Nat
  /\ alive \in {"unset", "yes", "no"}
  /\ logger \in Nat

GameStates ==
  {Idle} \union [step : {"changed"}] \union [step : {"compare", "schedule"}, of : Nat, mode : Modes]

ControlTypeOK ==
  /\ control \in Nat
  /\ subscribed \in Nat
  /\ settings \in PossibleSettings
  /\ state \in {"Idle", "Play", "Pause"}
  /\ game \in GameStates
  /\ tasks \in Seq([of : Nat, request : Nat])
  /\ requests \in Seq([of : Nat, replies : Nat])

TypeOK == LinkTypeOK /\ ControlTypeOK

-----------------------------------------------------------------------------
(* The link: what is queued, and what the scheduler's thread has done.     *)

Positions == 1 .. Len(queue)
IsDrop(t) == t.kind = "dropped"
IsConnection(t) == t.kind = "connected" /\ t.of # 0
Begun == connected /\ EditorModel = connection

\* Connections are numbered as they come, and their tasks wait in that order.
Numbered ==
  /\ connected => connection # 0
  /\ EditorModel <= connection
  /\ \A c \in watched : c # 0 /\ c <= EditorModel
  /\ running.step \in ModelSteps => running.of = EditorModel /\ EditorModel # 0
InOrder ==
  /\ \A i \in Positions : IsConnection(queue[i]) =>
       EditorModel < queue[i].of /\ queue[i].of <= connection
  /\ \A i, j \in Positions : i < j /\ IsConnection(queue[i]) /\ IsConnection(queue[j]) =>
       queue[i].of < queue[j].of

\* The connection that lasts is about to be handled, or has been.
Arrives ==
  connected => \/ EditorModel = connection
               \/ \E i \in Positions : IsConnection(queue[i]) /\ queue[i].of = connection

\* Nothing resets the model of a connection that lasts.
NoDropBehind ==
  /\ Begun => \A i \in Positions : ~IsDrop(queue[i])
  /\ connected => \A i, j \in Positions :
       i < j /\ IsConnection(queue[i]) /\ queue[i].of = connection => ~IsDrop(queue[j])

\* A model that is alive, or about to be, is reset before the next one is made.
Yes == alive = "yes" \/ running.step = "alive"
DropToCome ==
  Yes => \/ \E i \in Positions : IsDrop(queue[i])
         \/ connected /\ connection \in watched
DropBefore ==
  Yes => \A i \in Positions : IsConnection(queue[i]) =>
           \E j \in Positions : j < i /\ IsDrop(queue[j])

Handled ==
  /\ Begun => running.step \in {"register", "alive"} \/ alive = "yes"
  /\ running.step \in {"register", "alive"} => alive # "yes"
  /\ running.step \in {"view", "sync", "tell"} => alive = "yes"
LoggerHolds ==
  logger # 0 => EditorModel = logger /\ alive = "yes" /\ running.step \notin ModelSteps

LinkInv ==
  /\ LinkTypeOK
  /\ Numbered /\ InOrder /\ Arrives
  /\ NoDropBehind /\ DropToCome /\ DropBefore
  /\ Handled /\ LoggerHolds

-----------------------------------------------------------------------------
(* The game control: requests and play states on their way.                *)

ControlIsAlive == control # 0 => EditorModel = control /\ alive = "yes"
HasControl ==
  Begun /\ running.step \notin {"register", "alive", "view"} => control = connection

\* What is queued is of a connection there has been.
SubscribersKnown ==
  /\ subscribed <= EditorModel
  /\ game.step \in {"compare", "schedule"} => game.of <= connection
TasksKnown ==
  /\ \A i \in Positions : queue[i].kind \in {"action", "request", "mode"} =>
       queue[i].of <= connection
  /\ \A i \in 1 .. Len(tasks) : tasks[i].of <= connection
  /\ \A i \in 1 .. Len(requests) : requests[i].of # 0 /\ requests[i].of <= connection

\* Requests of the connection that lasts wait behind its own task.
Behind ==
  connected => \A i \in Positions :
    queue[i].kind = "request" /\ queue[i].of = connection =>
      \/ EditorModel = connection
      \/ \E j \in Positions : j < i /\ IsConnection(queue[j]) /\ queue[j].of = connection

\* A request is in one place until it is answered.
RepliesTo(t, r) == t.kind = "action" /\ t.action = Reply(r)
Concerns(t, r) == (t.kind = "request" /\ t.request = r) \/ RepliesTo(t, r)
Made == 1 .. Len(requests)
Once(r) ==
  /\ \A i, j \in Positions : Concerns(queue[i], r) /\ Concerns(queue[j], r) => i = j
  /\ \A i, j \in 1 .. Len(tasks) : tasks[i].request = r /\ tasks[j].request = r => i = j
  /\ \A i \in Positions, j \in 1 .. Len(tasks) : ~(Concerns(queue[i], r) /\ tasks[j].request = r)
AnsweredLast(r) ==
  \/ requests[r].replies = 0
  \/ /\ requests[r].replies = 1
     /\ \A i \in Positions : ~Concerns(queue[i], r)
     /\ \A i \in 1 .. Len(tasks) : tasks[i].request # r
InOnePlace ==
  /\ \A i \in Positions, r \in Nat : Concerns(queue[i], r) => r \in Made
  /\ \A i \in 1 .. Len(tasks) : tasks[i].request \in Made
  /\ \A r \in Made : Once(r) /\ AnsweredLast(r)

\* A request of the connection that lasts is answered, or is there.
OnWay(r) ==
  \/ requests[r].replies = 1
  \/ \E i \in Positions : Concerns(queue[i], r) /\ queue[i].of = connection
  \/ \E i \in 1 .. Len(tasks) : tasks[i] = [of |-> connection, request |-> r]
OnItsWay == \A r \in Made : Live(requests[r].of) /\ ~dangling => OnWay(r)

\* The play states of the connection that lasts end in the editor's.
Tells(t) == t.kind = "action" /\ t.action.about = "states" /\ t.of = connection
LastState(t) == t.action.value[Len(t.action.value)]
Telling ==
  connected /\ ~dangling =>
    /\ \A i \in Positions : Tells(queue[i]) =>
         /\ subscribed = connection
         /\ (\A j \in Positions : i < j => ~Tells(queue[j])) => LastState(queue[i]) = state
    /\ toldState # "none" =>
         /\ subscribed = connection
         /\ (\A j \in Positions : ~Tells(queue[j])) => toldState = state

ControlInv ==
  /\ ControlTypeOK
  /\ ControlIsAlive /\ HasControl
  /\ SubscribersKnown /\ TasksKnown /\ Behind
  /\ InOnePlace /\ OnItsWay
  /\ Telling

-----------------------------------------------------------------------------
(* The mode of play: what Rider was told, what it will be told, and what   *)
(* the settings are.                                                       *)

Current == PackToMode(settings)
TellsMode(t) == t.kind = "action" /\ t.action.about = "mode"

\* The two threads have not handled settings at the same time.
NotAtOnce == Crossing => crossed

\* The delegates hold the control there is, and so does an update of Rider's.
HeldByDelegates ==
  /\ control # 0 => subscribed = control
  /\ running.step = "update" => control # 0 /\ running.of = control

\* What the game thread knows of the settings.
GameFollows ==
  /\ playMode \in Modes
  /\ game.step = "none" => playMode = Current
  /\ game.step = "compare" => game.of = connection /\ game.mode = Current
  /\ game.step = "schedule" => game.of = connection /\ game.mode = Current /\ playMode = Current

\* The modes on their way end in the one that is kept.
QueueFollows ==
  /\ \A i \in Positions : TellsMode(queue[i]) => queue[i].of = connection
  /\ game.step # "schedule" =>
       /\ \A i \in Positions :
            TellsMode(queue[i]) /\ (\A j \in Positions : i < j => ~TellsMode(queue[j])) =>
              queue[i].action.value = playMode
       /\ (\A j \in Positions : ~TellsMode(queue[j])) => toldMode = playMode

\* The constructor of the control of the connection that lasts has returned.
InUse == running.step \notin ModelSteps

ModeFollows ==
  Begun /\ ~crossed /\ ~dangling =>
    /\ running.step = "tell" => playMode = Current
    /\ InUse => GameFollows /\ QueueFollows

ModeInv == NotAtOnce /\ HeldByDelegates /\ ModeFollows

Inv == LinkInv /\ ControlInv /\ ModeInv

-----------------------------------------------------------------------------
(* Queues.                                                                 *)

\* What Append and Tail do to every position of a queue.
LEMMA AppendAt ==
  ASSUME NEW S, NEW s \in Seq(S), NEW t \in S
  PROVE  /\ Append(s, t) \in Seq(S)
         /\ Len(s) \in Nat
         /\ Len(Append(s, t)) = Len(s) + 1
         /\ \A i \in 1 .. Len(s) : Append(s, t)[i] = s[i]
         /\ Append(s, t)[Len(s) + 1] = t
BY AppendProperties, LenProperties

\* What is taken first is the first, and everything else is one place further.
LEMMA TailAt ==
  ASSUME NEW S, NEW s \in Seq(S), s # <<>>
  PROVE  /\ Head(s) \in S /\ Head(s) = s[1]
         /\ Tail(s) \in Seq(S)
         /\ Len(s) \in Nat \ {0} /\ Len(Tail(s)) = Len(s) - 1
         /\ \A i \in 1 .. Len(Tail(s)) : i + 1 \in 1 .. Len(s) /\ Tail(s)[i] = s[i + 1]
         /\ \A j \in 1 .. Len(s) : j # 1 => j - 1 \in 1 .. Len(Tail(s)) /\ Tail(s)[j - 1] = s[j]
<1>1. /\ Head(s) \in S /\ Tail(s) \in Seq(S) /\ Len(Tail(s)) = Len(s) - 1
      /\ \A i \in 1 .. Len(Tail(s)) : Tail(s)[i] = s[i + 1]
  BY HeadTailProperties
<1>2. Len(s) \in Nat \ {0}
  BY EmptySeq
<1>3. Head(s) = s[1]
  BY <1>2
<1> QED
  BY <1>1, <1>2, <1>3

\* Tasks of the scheduler are tasks.
LEMMA TasksAreTasks ==
  /\ \A c \in Nat : ConnectedTask(c) \in Tasks
  /\ DroppedTask \in Tasks
  /\ OtherTasks \subseteq Tasks
BY DEF ConnectedTask, DroppedTask, Tasks, ConnectedTasks, DroppedTasks

\* The kind of a task says which it is.
LEMMA TaskKinds ==
  /\ \A t \in OtherTasks : t.kind \in {"action", "request", "mode"} /\ t.of \in Nat
                           /\ ~IsDrop(t) /\ ~IsConnection(t)
  /\ \A t \in Tasks : /\ t.kind \in {"connected", "dropped", "action", "request", "mode"}
                      /\ t.kind # "dropped" => t.of \in Nat
                      /\ t.kind \in {"action", "request", "mode"} => t \in OtherTasks
                      /\ t.kind = "connected" => t = ConnectedTask(t.of)
<1>1. \A t \in ActionTasks : t.kind = "action" /\ t.of \in Nat
  BY DEF ActionTasks
<1>2. \A t \in RequestTasks : t.kind = "request" /\ t.of \in Nat
  BY DEF RequestTasks
<1>3. \A t \in ModeTasks : t.kind = "mode" /\ t.of \in Nat
  BY DEF ModeTasks
<1>4. \A t \in ConnectedTasks : t.kind = "connected" /\ t.of \in Nat /\ t = ConnectedTask(t.of)
  BY DEF ConnectedTasks, ConnectedTask
<1>5. \A t \in DroppedTasks : t.kind = "dropped"
  BY DEF DroppedTasks
<1> QED
  BY <1>1, <1>2, <1>3, <1>4, <1>5 DEF Tasks, OtherTasks, IsDrop, IsConnection

\* What the steps of the scheduler's thread are.
LEMMA RunningKinds ==
  /\ Idle \in RunningStates /\ Idle.step = "none"
  /\ \A s \in ModelSteps, c \in Nat : At(s, c) \in RunningStates /\ At(s, c).step = s /\ At(s, c).of = c
  /\ \A r \in RunningStates :
       /\ r.step \in ModelSteps \union {"none", "update"}
       /\ r.step \in ModelSteps => r.of \in Nat
       /\ r.step = "update" => r.of \in Nat /\ r.mode \in RiderModes
       /\ r.step = "none" => r = Idle
<1> USE DEF ModelSteps
<1>1. \A r \in [step : ModelSteps, of : Nat] : r.step \in ModelSteps /\ r.of \in Nat
  OBVIOUS
<1>2. \A r \in [step : {"update"}, of : Nat, mode : RiderModes] :
        r.step = "update" /\ r.of \in Nat /\ r.mode \in RiderModes
  OBVIOUS
<1> QED
  BY <1>1, <1>2 DEF RunningStates, Idle, At

-----------------------------------------------------------------------------
(* The steps of the link: everything else in the project that touches the  *)
(* scheduler queues or takes other tasks, or goes on with the viewer.      *)

Rest == <<connection, connected, watched, EditorModel, alive, logger>>

Enqueues ==
  /\ \E t \in OtherTasks : queue' = Append(queue, t)
  /\ UNCHANGED <<Rest, running>>

Dequeues ==
  /\ queue # <<>> /\ running = Idle
  /\ ~IsDrop(Head(queue)) /\ ~IsConnection(Head(queue))
  /\ queue' = Tail(queue)
  /\ running' \in RunningStates /\ running'.step \notin ModelSteps
  /\ UNCHANGED Rest

GoesOn ==
  /\ running.step \in {"view", "sync", "tell", "update"}
  /\ running' \in RunningStates
  /\ running'.step \in ModelSteps =>
       /\ running.step \in {"view", "sync", "tell"}
       /\ running'.step \in {"sync", "tell"} /\ running'.of = running.of
  /\ UNCHANGED <<Rest, queue>>

LinkMoves ==
  \/ Connects \/ Disconnects \/ CreateModel \/ Register \/ BecomeAlive \/ Drop
  \/ FireAsyncAction \/ FireAsyncReturns
  \/ Enqueues \/ Dequeues \/ GoesOn
  \/ UNCHANGED linkVars

-----------------------------------------------------------------------------
(* The link keeps its invariant: steps that leave the queue.               *)

\* FireAsyncAction and its return.
LEMMA LoggerKeepsLink ==
  ASSUME LinkInv, FireAsyncAction \/ FireAsyncReturns
  PROVE  LinkInv'
<1> DEFINE s == running.step
<1>1. UNCHANGED <<connection, connected, watched, queue, running, EditorModel, alive>>
  BY DEF FireAsyncAction, FireAsyncReturns
<1>2. logger' # 0 => logger' = EditorModel /\ alive = "yes" /\ running.step \notin ModelSteps
  BY DEF FireAsyncAction, FireAsyncReturns
<1>3. logger' \in Nat
  BY DEF FireAsyncAction, FireAsyncReturns, LinkInv, LinkTypeOK
<1>4. LinkTypeOK'
  BY <1>1, <1>3 DEF LinkInv, LinkTypeOK
<1>5. (Numbered /\ InOrder /\ Arrives)'
  BY <1>1 DEF LinkInv, Numbered, InOrder, Arrives, Positions
<1>6. (NoDropBehind /\ DropToCome /\ DropBefore)'
  BY <1>1 DEF LinkInv, NoDropBehind, DropToCome, DropBefore, Positions, Begun, Yes
<1>7. (Handled /\ LoggerHolds)'
  BY <1>1, <1>2 DEF LinkInv, Handled, LoggerHolds, Begun
<1> QED
  BY <1>4, <1>5, <1>6, <1>7 DEF LinkInv

\* The viewer and what follows it, up to the end of the task.
LEMMA ViewerKeepsLink ==
  ASSUME LinkInv, GoesOn
  PROVE  LinkInv'
<1>1. UNCHANGED <<connection, connected, watched, queue, EditorModel, alive, logger>>
  BY DEF GoesOn, Rest
<1>2. /\ running.step \in {"view", "sync", "tell", "update"}
      /\ running' \in RunningStates
      /\ running'.step \in ModelSteps =>
           /\ running.step \in {"view", "sync", "tell"}
           /\ running'.step \in {"sync", "tell"} /\ running'.of = running.of
  BY DEF GoesOn
<1>3. /\ running.step \in ModelSteps \/ running.step = "update"
      /\ running.step \notin {"register", "alive"}
      /\ running'.step \notin {"register", "alive"}
      /\ running.step \in {"view", "sync", "tell"} => running.step \in ModelSteps
      /\ running'.step \in {"view", "sync", "tell"} => running'.step \in ModelSteps
  BY <1>2 DEF ModelSteps
<1>4. LinkTypeOK'
  BY <1>1, <1>2 DEF LinkInv, LinkTypeOK
<1>5. (Numbered /\ InOrder /\ Arrives)'
  BY <1>1, <1>2, <1>3 DEF LinkInv, Numbered, InOrder, Arrives, Positions
<1>6. Yes' <=> Yes
  BY <1>1, <1>3 DEF Yes
<1>7. (NoDropBehind /\ DropToCome /\ DropBefore)'
  BY <1>1, <1>6 DEF LinkInv, NoDropBehind, DropToCome, DropBefore, Positions, Begun
<1>8. Handled'
  BY <1>1, <1>2, <1>3 DEF LinkInv, Handled, Begun
<1>9. LoggerHolds'
  BY <1>1, <1>2, <1>3 DEF LinkInv, LoggerHolds
<1> QED
  BY <1>4, <1>5, <1>7, <1>8, <1>9 DEF LinkInv

\* add_action: the model is about to be alive only if the connection lasts.
LEMMA RegisterKeepsLink ==
  ASSUME LinkInv, Register
  PROVE  LinkInv'
<1>1. UNCHANGED <<connection, connected, queue, EditorModel, alive, logger>>
  BY DEF Register
<1>2. running.step = "register" /\ running.step \in ModelSteps
  BY DEF Register, ModelSteps
<1>3. running.of = EditorModel /\ EditorModel # 0 /\ EditorModel \in Nat /\ connection \in Nat
  BY <1>2 DEF LinkInv, Numbered, LinkTypeOK
<1>4. CASE Live(running.of)
  <2>1. connected /\ EditorModel = connection /\ Begun
    BY <1>3, <1>4 DEF Live, Begun
  <2>2. watched' = watched \union {connection} /\ running' = At("alive", connection)
    BY <1>3, <1>4, <2>1 DEF Register
  <2>3. running' \in RunningStates /\ running'.step = "alive" /\ running'.of = EditorModel
    BY <2>1, <2>2, <1>3, RunningKinds DEF ModelSteps
  <2>4. LinkTypeOK'
    BY <1>1, <1>3, <2>2, <2>3 DEF LinkInv, LinkTypeOK
  <2>5. Numbered'
    BY <1>1, <1>3, <2>1, <2>2, <2>3 DEF LinkInv, Numbered
  <2>6. (InOrder /\ Arrives)'
    BY <1>1 DEF LinkInv, InOrder, Arrives, Positions
  <2>7. NoDropBehind'
    BY <1>1 DEF LinkInv, NoDropBehind, Positions, Begun
  <2>8. DropToCome'
    BY <1>1, <2>1, <2>2 DEF DropToCome
  <2>9. \A i \in Positions : ~IsConnection(queue[i])
    <3>1. ASSUME NEW i \in Positions, IsConnection(queue[i])
          PROVE  FALSE
      <4>1. queue[i].of \in Nat
        BY <3>1, TaskKinds, ElementOfSeq DEF Positions, LinkInv, LinkTypeOK, IsConnection
      <4>2. EditorModel < queue[i].of /\ queue[i].of <= connection
        BY <3>1 DEF LinkInv, InOrder
      <4> QED
        BY <4>1, <4>2, <2>1, <1>3
    <3> QED
      BY <3>1
  <2>10. DropBefore'
    BY <1>1, <2>9 DEF DropBefore, Positions
  <2>11. Handled'
    BY <1>1, <1>2, <2>3 DEF LinkInv, Handled, Begun
  <2>12. LoggerHolds'
    BY <1>1, <1>2 DEF LinkInv, LoggerHolds
  <2> QED
    BY <2>4, <2>5, <2>6, <2>7, <2>8, <2>10, <2>11, <2>12 DEF LinkInv
<1>5. CASE ~Live(running.of)
  <2>1. watched' = watched /\ running' = Idle
    BY <1>5 DEF Register
  <2>2. ~Begun
    BY <1>3, <1>5 DEF Live, Begun
  <2>3. running' \in RunningStates /\ running'.step = "none" /\ running'.step \notin ModelSteps
    BY <2>1, RunningKinds DEF ModelSteps
  <2>4. LinkTypeOK'
    BY <1>1, <2>1, <2>3 DEF LinkInv, LinkTypeOK
  <2>5. Numbered'
    BY <1>1, <2>1, <2>3 DEF LinkInv, Numbered
  <2>6. (InOrder /\ Arrives)'
    BY <1>1 DEF LinkInv, InOrder, Arrives, Positions
  <2>7. NoDropBehind'
    BY <1>1 DEF LinkInv, NoDropBehind, Positions, Begun
  <2>8. Yes' => Yes
    BY <1>1, <2>3 DEF Yes
  <2>9. (DropToCome /\ DropBefore)'
    BY <1>1, <2>1, <2>8 DEF LinkInv, DropToCome, DropBefore, Positions
  <2>10. (Handled /\ LoggerHolds)'
    BY <1>1, <1>2, <2>2, <2>3 DEF LinkInv, Handled, LoggerHolds, Begun
  <2> QED
    BY <2>4, <2>5, <2>6, <2>7, <2>9, <2>10 DEF LinkInv
<1> QED
  BY <1>4, <1>5

\* set(true)
LEMMA BecomeAliveKeepsLink ==
  ASSUME LinkInv, BecomeAlive
  PROVE  LinkInv'
<1>1. UNCHANGED <<connection, connected, watched, queue, EditorModel, logger>> /\ alive' = "yes"
  BY DEF BecomeAlive
<1>2. running.step = "alive" /\ running.step \in ModelSteps /\ Yes
  BY DEF BecomeAlive, ModelSteps, Yes
<1>3. running.of = EditorModel /\ EditorModel # 0 /\ EditorModel \in Nat /\ alive # "yes"
  BY <1>2 DEF LinkInv, Numbered, LinkTypeOK, Handled
<1>4. running' = At("view", EditorModel)
  BY <1>3 DEF BecomeAlive
<1>5. running' \in RunningStates /\ running'.step = "view" /\ running'.of = EditorModel
  BY <1>3, <1>4, RunningKinds DEF ModelSteps
<1>6. LinkTypeOK'
  BY <1>1, <1>5 DEF LinkInv, LinkTypeOK
<1>7. Numbered'
  BY <1>1, <1>3, <1>5 DEF LinkInv, Numbered
<1>8. (InOrder /\ Arrives)'
  BY <1>1 DEF LinkInv, InOrder, Arrives, Positions
<1>9. (NoDropBehind /\ DropToCome /\ DropBefore)'
  BY <1>1, <1>2 DEF LinkInv, NoDropBehind, DropToCome, DropBefore, Positions, Begun
<1>10. (Handled /\ LoggerHolds)'
  BY <1>1, <1>2, <1>5 DEF LinkInv, Handled, LoggerHolds, Begun
<1> QED
  BY <1>6, <1>7, <1>8, <1>9, <1>10 DEF LinkInv

-----------------------------------------------------------------------------
(* The link keeps its invariant: steps that queue a task.                  *)

\* Anything but the tasks of the link itself.
LEMMA EnqueueKeepsLink ==
  ASSUME LinkInv, Enqueues
  PROVE  LinkInv'
<1>1. PICK t \in OtherTasks : queue' = Append(queue, t)
  BY DEF Enqueues
<1>2. UNCHANGED <<connection, connected, watched, running, EditorModel, alive, logger>>
  BY DEF Enqueues, Rest
<1>3. queue \in Seq(Tasks) /\ t \in Tasks /\ ~IsDrop(t) /\ ~IsConnection(t)
  BY <1>1, TasksAreTasks, TaskKinds DEF LinkInv, LinkTypeOK
<1>4. PICK L \in Nat : L = Len(queue)
  BY <1>3, AppendAt
<1>5. /\ queue' \in Seq(Tasks) /\ Positions = 1 .. L /\ Positions' = 1 .. L + 1
      /\ \A i \in 1 .. L : queue'[i] = queue[i]
      /\ queue'[L + 1] = t
  BY <1>1, <1>3, <1>4, AppendAt DEF Positions
<1>6. \A i \in Positions' :
        \/ i \in Positions /\ queue'[i] = queue[i]
        \/ i = L + 1 /\ ~IsDrop(queue'[i]) /\ ~IsConnection(queue'[i])
  BY <1>3, <1>5
<1>7. \A i \in Positions : i \in Positions' /\ queue'[i] = queue[i] /\ i < L + 1
  BY <1>5
<1>8. LinkTypeOK'
  BY <1>2, <1>5 DEF LinkInv, LinkTypeOK
<1>9. Numbered'
  BY <1>2 DEF LinkInv, Numbered
<1>10. InOrder'
  BY <1>2, <1>6 DEF LinkInv, InOrder
<1>11. Arrives'
  BY <1>2, <1>7 DEF LinkInv, Arrives
<1>12. NoDropBehind'
  <2>1. \A i, j \in Positions' : IsConnection(queue'[i]) => i \in Positions /\ queue'[i] = queue[i]
    BY <1>6
  <2> QED
    BY <1>2, <1>6, <2>1 DEF LinkInv, NoDropBehind, Begun
<1>13. (DropToCome /\ DropBefore)'
  BY <1>2, <1>6, <1>7 DEF LinkInv, DropToCome, DropBefore, Yes
<1>14. (Handled /\ LoggerHolds)'
  BY <1>2 DEF LinkInv, Handled, LoggerHolds, Begun
<1> QED
  BY <1>8, <1>9, <1>10, <1>11, <1>12, <1>13, <1>14 DEF LinkInv

\* A new connection.
LEMMA ConnectsKeepsLink ==
  ASSUME LinkInv, Connects
  PROVE  LinkInv'
<1> DEFINE t == ConnectedTask(connection + 1)
<1>1. /\ ~connected /\ connected' = TRUE /\ connection' = connection + 1
      /\ queue' = Append(queue, t)
      /\ UNCHANGED <<watched, running, EditorModel, alive, logger>>
  BY DEF Connects
<1>2. connection \in Nat /\ EditorModel \in Nat /\ EditorModel <= connection
      /\ queue \in Seq(Tasks)
  BY DEF LinkInv, LinkTypeOK, Numbered
<1>3. t \in Tasks /\ ~IsDrop(t) /\ IsConnection(t) /\ t.of = connection + 1
  BY <1>2, TasksAreTasks DEF ConnectedTask, IsDrop, IsConnection
<1> HIDE DEF t
<1>4. PICK L \in Nat : L = Len(queue)
  BY <1>2, AppendAt
<1>5. /\ queue' \in Seq(Tasks) /\ Positions = 1 .. L /\ Positions' = 1 .. L + 1
      /\ \A i \in 1 .. L : queue'[i] = queue[i]
      /\ queue'[L + 1] = t
  BY <1>1, <1>2, <1>3, <1>4, AppendAt DEF Positions
<1>6. \A i \in Positions' : \/ i \in Positions /\ queue'[i] = queue[i] /\ i < L + 1
                            \/ i = L + 1 /\ queue'[i] = t
  BY <1>5
<1>7. \A i \in Positions : i \in Positions' /\ queue'[i] = queue[i] /\ i < L + 1
  BY <1>5
<1>8. \A i \in Positions : IsConnection(queue[i]) =>
        queue[i].of \in Nat /\ EditorModel < queue[i].of /\ queue[i].of <= connection
  BY <1>2, TaskKinds, ElementOfSeq DEF LinkInv, InOrder, IsConnection, Positions
<1>9. L + 1 \in Positions'
  BY <1>5
<1>10. LinkTypeOK'
  BY <1>1, <1>2, <1>5 DEF LinkInv, LinkTypeOK
<1>11. Numbered'
  <2>1. \A c \in watched : c # 0 /\ c <= EditorModel
    BY DEF LinkInv, Numbered
  <2> QED
    BY <1>1, <1>2, <2>1 DEF LinkInv, Numbered
<1>12. InOrder'
  <2>1. ASSUME NEW i \in Positions', IsConnection(queue'[i])
        PROVE  EditorModel' < queue'[i].of /\ queue'[i].of <= connection'
    <3>1. CASE i \in Positions /\ queue'[i] = queue[i]
      <4>1. queue[i].of \in Nat /\ EditorModel < queue[i].of /\ queue[i].of <= connection
        BY <1>8, <2>1, <3>1
      <4> QED
        BY <1>1, <1>2, <3>1, <4>1
    <3>2. CASE queue'[i] = t
      BY <1>1, <1>2, <1>3, <3>2
    <3> QED
      BY <1>6, <3>1, <3>2
  <2>2. ASSUME NEW i \in Positions', NEW j \in Positions', i < j,
               IsConnection(queue'[i]), IsConnection(queue'[j])
        PROVE  queue'[i].of < queue'[j].of
    <3>1. i \in Positions /\ queue'[i] = queue[i]
      BY <1>5, <2>2
    <3>2. CASE j = L + 1
      <4>1. queue'[j] = t /\ t.of = connection + 1
        BY <1>3, <1>5, <3>2
      <4>2. queue'[i].of \in Nat /\ queue'[i].of <= connection
        BY <1>8, <2>2, <3>1
      <4> QED
        BY <1>2, <4>1, <4>2
    <3>3. CASE j \in Positions
      BY <1>7, <2>2, <3>1, <3>3 DEF LinkInv, InOrder
    <3> QED
      BY <1>6, <3>2, <3>3
  <2> QED
    BY <2>1, <2>2 DEF InOrder
<1>13. Arrives'
  BY <1>1, <1>3, <1>5, <1>9 DEF Arrives
<1>14. NoDropBehind'
  <2>1. ~Begun'
    BY <1>1, <1>2 DEF Begun
  <2>2. ASSUME NEW i \in Positions', NEW j \in Positions', i < j,
               IsConnection(queue'[i]), queue'[i].of = connection'
        PROVE  FALSE
    <3>1. i \in Positions /\ queue'[i] = queue[i]
      BY <1>5, <2>2
    <3> QED
      BY <1>1, <1>2, <1>8, <2>2, <3>1
  <2> QED
    BY <2>1, <2>2 DEF NoDropBehind
<1>15. Yes' <=> Yes
  BY <1>1 DEF Yes
<1>16. (DropToCome /\ DropBefore)'
  <2>1. CASE Yes
    <3>1. PICK d \in Positions : IsDrop(queue[d])
      BY <1>1, <2>1 DEF LinkInv, DropToCome
    <3>2. d \in Positions' /\ IsDrop(queue'[d]) /\ d < L + 1
      BY <1>7, <3>1
    <3>3. \A i \in Positions : IsConnection(queue[i]) => \E j \in Positions : j < i /\ IsDrop(queue[j])
      BY <2>1 DEF LinkInv, DropBefore
    <3> QED
      BY <1>6, <1>7, <3>2, <3>3 DEF DropToCome, DropBefore
  <2> QED
    BY <1>15, <2>1 DEF DropToCome, DropBefore
<1>17. (Handled /\ LoggerHolds)'
  <2>1. ~Begun'
    BY <1>1, <1>2 DEF Begun
  <2> QED
    BY <1>1, <2>1 DEF LinkInv, Handled, LoggerHolds
<1> QED
  BY <1>10, <1>11, <1>12, <1>13, <1>14, <1>16, <1>17 DEF LinkInv

\* The connection has ended: what queues set(false), if it is registered.
LEMMA DisconnectsKeepsLink ==
  ASSUME LinkInv, Disconnects
  PROVE  LinkInv'
<1> DEFINE d == IF connection \in watched THEN <<DroppedTask>> ELSE <<>>
           t == ConnectedTask(0)
<1>1. /\ connected /\ connected' = FALSE
      /\ queue' = queue \o d \o <<t>>
      /\ UNCHANGED <<connection, watched, running, EditorModel, alive, logger>>
  BY DEF Disconnects
<1>2. queue \in Seq(Tasks) /\ d \in Seq(Tasks) /\ t \in Tasks
  BY TasksAreTasks DEF LinkInv, LinkTypeOK
<1>3. \A i \in 1 .. Len(d) : IsDrop(d[i])
  BY DEF IsDrop, DroppedTask
<1>4. ~IsConnection(t)
  BY DEF ConnectedTask, IsConnection
<1>5. connection \in watched => Len(d) = 1 /\ IsDrop(d[1])
  BY DEF IsDrop, DroppedTask
<1> HIDE DEF d, t
<1>6. PICK L \in Nat, M \in Nat : L = Len(queue) /\ M = Len(d)
  BY <1>2, LenProperties
<1>7. /\ queue \o d \in Seq(Tasks) /\ Len(queue \o d) = L + M
      /\ \A i \in 1 .. L : (queue \o d)[i] = queue[i]
      /\ \A i \in L + 1 .. L + M : (queue \o d)[i] = d[i - L] /\ i - L \in 1 .. M
  BY <1>2, <1>6, ConcatProperties
<1>20. PICK q \in Seq(Tasks) : q = queue \o d
  BY <1>7
<1>21. queue' = Append(q, t)
  BY <1>1, <1>2, <1>20, AppendIsConcat
<1>8. /\ queue' \in Seq(Tasks) /\ Len(queue') = L + M + 1
      /\ \A i \in 1 .. L + M : queue'[i] = q[i]
      /\ queue'[L + M + 1] = t
  BY <1>2, <1>7, <1>20, <1>21, AppendAt
<1>22. \A i \in 1 .. L : queue'[i] = queue[i]
  <2>1. \A i \in 1 .. L : i \in 1 .. L + M
    OBVIOUS
  <2> QED
    BY <1>7, <1>8, <1>20, <2>1
<1>9. Positions = 1 .. L /\ Positions' = 1 .. L + M + 1
  BY <1>6, <1>8 DEF Positions
<1>10. \A i \in Positions' : \/ i \in Positions /\ queue'[i] = queue[i]
                             \/ i \notin Positions /\ ~IsConnection(queue'[i])
  <2>1. ASSUME NEW i \in Positions', i \notin Positions PROVE ~IsConnection(queue'[i])
    <3>1. CASE i = L + M + 1
      BY <1>4, <1>8, <3>1
    <3>2. CASE i \in L + 1 .. L + M
      <4>1. i - L \in 1 .. Len(d) /\ queue'[i] = d[i - L]
        BY <1>6, <1>7, <1>8, <1>20, <3>2
      <4> QED
        BY <1>3, <4>1 DEF IsDrop, IsConnection
    <3> QED
      BY <1>9, <2>1, <3>1, <3>2
  <2>2. \A i \in Positions : queue'[i] = queue[i]
    BY <1>22, <1>9
  <2> QED
    BY <2>1, <2>2
<1>11. \A i \in Positions : i \in Positions' /\ queue'[i] = queue[i] /\ i < L + 1
  BY <1>22, <1>9
<1>12. LinkTypeOK'
  BY <1>1, <1>8 DEF LinkInv, LinkTypeOK
<1>13. Numbered'
  BY <1>1 DEF LinkInv, Numbered
<1>14. InOrder'
  BY <1>1, <1>10 DEF LinkInv, InOrder
<1>15. (Arrives /\ NoDropBehind)'
  BY <1>1 DEF Arrives, NoDropBehind, Begun
<1>16. Yes' <=> Yes
  BY <1>1 DEF Yes
<1>17. DropToCome'
  <2>1. CASE connection \in watched
    <3>1. M = 1 /\ L + 1 \in Positions' /\ queue'[L + 1] = d[1]
      <4>1. M = 1
        BY <1>5, <1>6, <2>1
      <4>2. L + 1 \in L + 1 .. L + M /\ L + 1 \in 1 .. L + M /\ (L + 1) - L = 1
        BY <4>1
      <4>3. q[L + 1] = d[1]
        BY <1>7, <1>20, <4>2
      <4>4. queue'[L + 1] = q[L + 1]
        BY <1>8, <4>2
      <4>5. L + 1 \in Positions'
        BY <1>9, <4>1
      <4> QED
        BY <4>1, <4>3, <4>4, <4>5
    <3> QED
      BY <1>5, <2>1, <3>1 DEF DropToCome
  <2>2. CASE connection \notin watched
    <3>1. Yes => \E i \in Positions : IsDrop(queue[i])
      BY <2>2 DEF LinkInv, DropToCome
    <3> QED
      BY <1>11, <1>16, <3>1 DEF DropToCome
  <2> QED
    BY <2>1, <2>2
<1>18. DropBefore'
  BY <1>10, <1>11, <1>16 DEF LinkInv, DropBefore
<1>19. (Handled /\ LoggerHolds)'
  BY <1>1 DEF LinkInv, Handled, LoggerHolds, Begun
<1> QED
  BY <1>12, <1>13, <1>14, <1>15, <1>17, <1>18, <1>19 DEF LinkInv

-----------------------------------------------------------------------------
(* The link keeps its invariant: steps that take a task.                   *)

\* Where the tasks that stay have been.
LEMMA TakenFromHead ==
  ASSUME LinkTypeOK, queue # <<>>, queue' = Tail(queue)
  PROVE  /\ queue' \in Seq(Tasks) /\ Head(queue) = queue[1] /\ Head(queue) \in Tasks
         /\ 1 \in Positions
         /\ \A i \in Positions' : i \in Nat \ {0} /\ i + 1 \in Positions /\ queue'[i] = queue[i + 1]
         /\ \A i \in Positions : i # 1 => i - 1 \in Positions' /\ queue'[i - 1] = queue[i]
         /\ \A i \in Positions : i \in Nat /\ 1 <= i
<1>1. queue \in Seq(Tasks)
  BY DEF LinkTypeOK
<1> QED
  BY <1>1, TailAt DEF Positions

\* The order of the tasks that stay.
LEMMA TailKeepsOrder ==
  ASSUME LinkInv, queue # <<>>, queue' = Tail(queue), connection' = connection
  PROVE  /\ \A i, j \in Positions' : i < j /\ IsConnection(queue'[i]) /\ IsConnection(queue'[j]) =>
              queue'[i].of < queue'[j].of
         /\ \A i \in Positions' : IsConnection(queue'[i]) =>
              EditorModel < queue'[i].of /\ queue'[i].of <= connection
         /\ connected => \A i, j \in Positions' :
              i < j /\ IsConnection(queue'[i]) /\ queue'[i].of = connection => ~IsDrop(queue'[j])
<1>1. \A i \in Positions' : i \in Nat \ {0} /\ i + 1 \in Positions /\ queue'[i] = queue[i + 1]
  BY TakenFromHead DEF LinkInv
<1>2. \A i, j \in Positions' : i < j => i + 1 < j + 1
  BY <1>1
<1>3. \A i, j \in Positions' : i < j /\ IsConnection(queue'[i]) /\ IsConnection(queue'[j]) =>
        queue'[i].of < queue'[j].of
  BY <1>1, <1>2 DEF LinkInv, InOrder
<1>4. \A i \in Positions' : IsConnection(queue'[i]) =>
        EditorModel < queue'[i].of /\ queue'[i].of <= connection
  BY <1>1 DEF LinkInv, InOrder
<1>5. connected => \A i, j \in Positions' :
        i < j /\ IsConnection(queue'[i]) /\ queue'[i].of = connection => ~IsDrop(queue'[j])
  BY <1>1, <1>2 DEF LinkInv, NoDropBehind
<1> QED
  BY <1>3, <1>4, <1>5

\* A task that is neither a connection's nor set(false).
LEMMA DequeueKeepsLink ==
  ASSUME LinkInv, Dequeues
  PROVE  LinkInv'
<1>1. UNCHANGED <<connection, connected, watched, EditorModel, alive, logger>>
  BY DEF Dequeues, Rest
<1>2. /\ queue # <<>> /\ queue' = Tail(queue) /\ running = Idle
      /\ running' \in RunningStates /\ running'.step \notin ModelSteps
      /\ ~IsDrop(Head(queue)) /\ ~IsConnection(Head(queue))
  BY DEF Dequeues
<1>3. LinkTypeOK
  BY DEF LinkInv
<1>4. /\ queue' \in Seq(Tasks)
      /\ \A i \in Positions' : i \in Nat \ {0} /\ i + 1 \in Positions /\ queue'[i] = queue[i + 1]
      /\ \A i \in Positions : IsDrop(queue[i]) \/ IsConnection(queue[i]) =>
           i - 1 \in Positions' /\ queue'[i - 1] = queue[i]
      /\ \A i \in Positions : i \in Nat /\ 1 <= i
  BY <1>2, <1>3, TakenFromHead
<1>5. running.step = "none" /\ running.step \notin ModelSteps
      /\ running'.step \notin {"register", "alive", "view", "sync", "tell"}
      /\ running.step \notin {"register", "alive"}
  BY <1>2, RunningKinds DEF ModelSteps
<1>6. LinkTypeOK'
  BY <1>1, <1>2, <1>4 DEF LinkInv, LinkTypeOK
<1>7. Numbered'
  BY <1>1, <1>2 DEF LinkInv, Numbered
<1>8. InOrder'
  BY <1>1, <1>2, TailKeepsOrder DEF InOrder
<1>9. Arrives'
  BY <1>1, <1>4 DEF LinkInv, Arrives
<1>10. NoDropBehind'
  BY <1>1, <1>2, <1>4, TailKeepsOrder DEF LinkInv, NoDropBehind, Begun
<1>11. Yes' <=> Yes
  BY <1>1, <1>5 DEF Yes
<1>12. DropToCome'
  BY <1>1, <1>4, <1>11 DEF LinkInv, DropToCome
<1>13. DropBefore'
  <2>1. ASSUME Yes, NEW i \in Positions', IsConnection(queue'[i])
        PROVE  \E j \in Positions' : j < i /\ IsDrop(queue'[j])
    <3>1. i \in Nat /\ i + 1 \in Positions /\ IsConnection(queue[i + 1])
      BY <1>4, <2>1
    <3>2. PICK k \in Positions : k < i + 1 /\ IsDrop(queue[k])
      BY <2>1, <3>1 DEF LinkInv, DropBefore
    <3>3. k \in Nat /\ k - 1 \in Positions' /\ queue'[k - 1] = queue[k]
      BY <1>4, <3>2
    <3>4. k - 1 < i
      BY <3>1, <3>2, <3>3
    <3> QED
      BY <3>2, <3>3, <3>4
  <2> QED
    BY <1>11, <2>1 DEF DropBefore
<1>14. (Handled /\ LoggerHolds)'
  BY <1>1, <1>5 DEF LinkInv, Handled, LoggerHolds, Begun, ModelSteps
<1> QED
  BY <1>6, <1>7, <1>8, <1>9, <1>10, <1>12, <1>13, <1>14 DEF LinkInv

\* A new model: the one before it is alive no more.
LEMMA CreatedOnlyAfterReset ==
  ASSUME LinkInv, CreateModel
  PROVE  /\ alive # "yes" /\ running = Idle /\ logger = 0
         /\ Head(queue).of \in Nat \ {0} /\ IsConnection(Head(queue))
         /\ EditorModel < Head(queue).of /\ Head(queue).of <= connection
         /\ \A i \in Positions' : IsConnection(queue'[i]) => Head(queue).of < queue'[i].of
         /\ queue # <<>> /\ queue' = Tail(queue) /\ Head(queue) = queue[1] /\ 1 \in Positions
<1>1. /\ queue # <<>> /\ queue' = Tail(queue) /\ running = Idle /\ logger = 0
      /\ Head(queue).kind = "connected" /\ Head(queue).of # 0
  BY DEF CreateModel, Takes
<1>2. LinkTypeOK
  BY DEF LinkInv
<1>3. /\ Head(queue) = queue[1] /\ Head(queue) \in Tasks /\ 1 \in Positions
      /\ \A i \in Positions' : i \in Nat \ {0} /\ i + 1 \in Positions /\ queue'[i] = queue[i + 1]
      /\ \A i \in Positions : i \in Nat /\ 1 <= i
  BY <1>1, <1>2, TakenFromHead
<1>4. IsConnection(Head(queue)) /\ Head(queue).of \in Nat \ {0}
  BY <1>1, <1>3, TaskKinds DEF IsConnection
<1>5. EditorModel < Head(queue).of /\ Head(queue).of <= connection
  BY <1>3, <1>4 DEF LinkInv, InOrder
<1>6. \A i \in Positions' : 1 < i + 1
  BY <1>3
<1>7. \A i \in Positions' : IsConnection(queue'[i]) => Head(queue).of < queue'[i].of
  <2>1. 1 \in Positions /\ IsConnection(queue[1])
    BY <1>3, <1>4
  <2>2. \A j \in Positions : 1 < j /\ IsConnection(queue[j]) => queue[1].of < queue[j].of
    BY <2>1 DEF LinkInv, InOrder
  <2> QED
    BY <1>3, <1>6, <2>2
<1>8. \A i \in Positions : ~(i < 1)
  BY <1>3
<1>9. ~Yes
  BY <1>3, <1>4, <1>8 DEF LinkInv, DropBefore
<1> QED
  BY <1>1, <1>3, <1>4, <1>5, <1>7, <1>9 DEF Yes

\* A new model: the one before it has been reset, and no older one follows.
LEMMA CreateModelKeepsLink ==
  ASSUME LinkInv, CreateModel
  PROVE  LinkInv'
<1>1. PICK c \in Nat \ {0} : c = Head(queue).of
  BY CreatedOnlyAfterReset
<1>2. /\ EditorModel' = c /\ running' = IF Live(c) THEN At("register", c) ELSE Idle
      /\ UNCHANGED <<connection, connected, watched, alive, logger>>
  BY <1>1 DEF CreateModel
<1>3. /\ alive # "yes" /\ running = Idle /\ logger = 0
      /\ EditorModel < c /\ c <= connection
      /\ \A i \in Positions' : IsConnection(queue'[i]) => c < queue'[i].of
      /\ queue # <<>> /\ queue' = Tail(queue)
      /\ queue[1].of = c /\ IsConnection(queue[1]) /\ 1 \in Positions
  BY <1>1, CreatedOnlyAfterReset
<1>4. LinkTypeOK /\ EditorModel \in Nat /\ connection \in Nat
  BY DEF LinkInv, LinkTypeOK
<1>5. /\ queue' \in Seq(Tasks)
      /\ \A i \in Positions' : i \in Nat \ {0} /\ i + 1 \in Positions /\ queue'[i] = queue[i + 1]
      /\ \A i \in Positions : i # 1 => i - 1 \in Positions' /\ queue'[i - 1] = queue[i]
  BY <1>3, <1>4, TakenFromHead
<1>6. /\ running' \in RunningStates
      /\ running'.step = IF Live(c) THEN "register" ELSE "none"
      /\ running'.step \in ModelSteps => running'.of = c
  BY <1>2, RunningKinds DEF ModelSteps
<1>7. LinkTypeOK'
  BY <1>2, <1>4, <1>5, <1>6 DEF LinkTypeOK
<1>8. Numbered'
  <2>1. \A x \in watched : x \in Nat /\ x # 0 /\ x <= EditorModel
    BY <1>4 DEF LinkInv, Numbered, LinkTypeOK
  <2>2. \A x \in watched : x # 0 /\ x <= c
    BY <1>3, <1>4, <2>1
  <2> QED
    BY <1>2, <1>3, <1>6, <2>2 DEF LinkInv, Numbered
<1>9. InOrder'
  BY <1>2, <1>3, TailKeepsOrder DEF InOrder
<1>10. Arrives'
  <2>1. connected /\ c # connection => \E i \in Positions : i # 1 /\ IsConnection(queue[i])
                                                            /\ queue[i].of = connection
    BY <1>3, <1>4 DEF LinkInv, Arrives
  <2>2. connected /\ c # connection => \E i \in Positions' : IsConnection(queue'[i])
                                                            /\ queue'[i].of = connection
    BY <1>5, <2>1
  <2> QED
    BY <1>2, <2>2 DEF Arrives
<1>11. NoDropBehind'
  <2>1. ASSUME connected, c = connection, NEW i \in Positions'
        PROVE  ~IsDrop(queue'[i])
    <3>1. i + 1 \in Positions /\ 1 < i + 1 /\ queue'[i] = queue[i + 1]
      BY <1>5
    <3>2. \A j \in Positions : 1 < j => ~IsDrop(queue[j])
      BY <1>3, <2>1 DEF LinkInv, NoDropBehind
    <3> QED
      BY <3>1, <3>2
  <2> QED
    BY <1>2, <1>3, <2>1, TailKeepsOrder DEF NoDropBehind, Begun
<1>12. ~Yes'
  BY <1>2, <1>3, <1>6 DEF Yes
<1>13. (DropToCome /\ DropBefore)'
  BY <1>12 DEF DropToCome, DropBefore
<1>14. Handled'
  BY <1>2, <1>3, <1>6 DEF Handled, Begun, Live
<1>15. LoggerHolds'
  BY <1>2, <1>3 DEF LoggerHolds
<1> QED
  BY <1>7, <1>8, <1>9, <1>10, <1>11, <1>13, <1>14, <1>15 DEF LinkInv

\* set(false): what comes first never belongs to the connection that lasts.
LEMMA DropIsNotOfTheLast ==
  ASSUME LinkInv, Drop
  PROVE  /\ queue # <<>> /\ queue' = Tail(queue) /\ running = Idle /\ logger = 0
         /\ IsDrop(queue[1]) /\ 1 \in Positions
         /\ ~Begun
<1>1. queue # <<>> /\ queue' = Tail(queue) /\ running = Idle /\ logger = 0
      /\ Head(queue).kind = "dropped"
  BY DEF Drop, Takes
<1>2. LinkTypeOK
  BY DEF LinkInv
<1>3. Head(queue) = queue[1] /\ 1 \in Positions
  BY <1>1, <1>2, TakenFromHead
<1>4. IsDrop(queue[1])
  BY <1>1, <1>3 DEF IsDrop
<1> QED
  BY <1>1, <1>3, <1>4 DEF LinkInv, NoDropBehind

\* set(false): the model that is reset is not the one of the connection that lasts.
LEMMA DropKeepsLink ==
  ASSUME LinkInv, Drop
  PROVE  LinkInv'
<1>1. alive' = "no" /\ UNCHANGED <<connection, connected, watched, running, EditorModel, logger>>
  BY DEF Drop
<1>2. /\ queue # <<>> /\ queue' = Tail(queue) /\ running = Idle /\ logger = 0
      /\ IsDrop(queue[1]) /\ 1 \in Positions /\ ~Begun
  BY DropIsNotOfTheLast
<1>3. LinkTypeOK
  BY DEF LinkInv
<1>4. /\ queue' \in Seq(Tasks)
      /\ \A i \in Positions : i # 1 => i - 1 \in Positions' /\ queue'[i - 1] = queue[i]
  BY <1>2, <1>3, TakenFromHead
<1>5. running.step = "none" /\ ~IsConnection(queue[1])
  BY <1>2, RunningKinds DEF IsDrop, IsConnection
<1>6. LinkTypeOK'
  BY <1>1, <1>3, <1>4 DEF LinkTypeOK
<1>7. Numbered'
  BY <1>1 DEF LinkInv, Numbered
<1>8. InOrder'
  BY <1>1, <1>2, TailKeepsOrder DEF InOrder
<1>9. Arrives'
  <2>1. connected /\ EditorModel # connection =>
          \E i \in Positions : i # 1 /\ IsConnection(queue[i]) /\ queue[i].of = connection
    BY <1>5 DEF LinkInv, Arrives
  <2> QED
    BY <1>1, <1>4, <2>1 DEF Arrives
<1>10. NoDropBehind'
  BY <1>1, <1>2, TailKeepsOrder DEF NoDropBehind, Begun
<1>11. (DropToCome /\ DropBefore)'
  BY <1>1, <1>5 DEF DropToCome, DropBefore, Yes
<1>12. (Handled /\ LoggerHolds)'
  BY <1>1, <1>2, <1>5 DEF Handled, LoggerHolds, Begun
<1> QED
  BY <1>6, <1>7, <1>8, <1>9, <1>10, <1>11, <1>12 DEF LinkInv

\* Every step of the link.
LEMMA LinkKept ==
  ASSUME LinkInv, LinkMoves
  PROVE  LinkInv'
<1>1. CASE UNCHANGED linkVars
  BY <1>1 DEF linkVars, LinkInv, LinkTypeOK, Numbered, InOrder, Arrives, NoDropBehind,
       DropToCome, DropBefore, Handled, LoggerHolds, Positions, Begun, Yes
<1> QED
  BY <1>1, LoggerKeepsLink, ViewerKeepsLink, RegisterKeepsLink, BecomeAliveKeepsLink,
     EnqueueKeepsLink, ConnectsKeepsLink, DisconnectsKeepsLink, DequeueKeepsLink,
     CreateModelKeepsLink, DropKeepsLink DEF LinkMoves

-----------------------------------------------------------------------------
(* The game control: types, and what its steps mean for the link.          *)

\* What the game thread is doing, and what it queues.
LEMMA GameKinds ==
  /\ Idle \in GameStates
  /\ \A g \in GameStates :
       /\ g.step \in {"none", "changed", "compare", "schedule"}
       /\ g.step \in {"compare", "schedule"} =>
            /\ g.of \in Nat /\ g.mode \in Modes
            /\ [g EXCEPT !.step = "schedule"] \in GameStates
            /\ [g EXCEPT !.step = "schedule"].step = "schedule"
            /\ [g EXCEPT !.step = "schedule"].of = g.of
  /\ \A c \in Nat, m \in Modes : [step |-> "compare", of |-> c, mode |-> m] \in GameStates
  /\ [step |-> "changed"] \in GameStates
<1>1. \A g \in [step : {"compare", "schedule"}, of : Nat, mode : Modes] :
        /\ g.step \in {"compare", "schedule"} /\ g.of \in Nat /\ g.mode \in Modes
        /\ [g EXCEPT !.step = "schedule"] \in [step : {"compare", "schedule"}, of : Nat, mode : Modes]
        /\ [g EXCEPT !.step = "schedule"].step = "schedule"
        /\ [g EXCEPT !.step = "schedule"].of = g.of
  OBVIOUS
<1>2. \A g \in [step : {"changed"}] : g.step = "changed"
  OBVIOUS
<1> QED
  BY <1>1, <1>2 DEF GameStates, Idle

\* The signals the game control fires.
LEMMA ActionKinds ==
  /\ \A m \in Modes : Mode(m) \in Actions
  /\ \A e \in Events : States(Fired(e)) \in Actions
  /\ \A r \in Nat : Reply(r) \in Actions
  /\ \A a \in Actions : /\ a.about = "reply" => a.value \in Nat /\ a = Reply(a.value)
                        /\ a.about \in {"mode", "states", "reply"}
<1>1. \A a \in [about : {"mode"}, value : Modes] : a.about = "mode"
  OBVIOUS
<1>2. \A a \in [about : {"states"}, value : {Fired(e) : e \in Events}] : a.about = "states"
  OBVIOUS
<1>3. \A a \in [about : {"reply"}, value : Nat] :
        a.about = "reply" /\ a.value \in Nat /\ a = Reply(a.value)
  BY DEF Reply
<1> QED
  BY <1>1, <1>2, <1>3 DEF Actions, Mode, States, Reply

\* The tasks that are queued, and what they carry.
LEMMA NewTasks ==
  /\ \A c \in Nat, a \in Actions : /\ ActionTask(c, a) \in OtherTasks
                                   /\ ActionTask(c, a).kind = "action"
                                   /\ ActionTask(c, a).of = c
                                   /\ ActionTask(c, a).action = a
  /\ \A c \in Nat, r \in Nat : [kind |-> "request", of |-> c, request |-> r] \in OtherTasks
  /\ \A c \in Nat, m \in RiderModes : [kind |-> "mode", of |-> c, mode |-> m] \in OtherTasks
  /\ \A t \in Tasks : /\ t.kind = "action" => t.action \in Actions
                      /\ t.kind = "request" => t.request \in Nat
                      /\ t.kind = "mode" => t.mode \in RiderModes
<1>1. \A t \in ActionTasks : t.kind = "action" /\ t.action \in Actions
  BY DEF ActionTasks
<1>2. \A t \in RequestTasks : t.kind = "request" /\ t.request \in Nat
  BY DEF RequestTasks
<1>3. \A t \in ModeTasks : t.kind = "mode" /\ t.mode \in RiderModes
  BY DEF ModeTasks
<1>4. \A t \in ConnectedTasks \union DroppedTasks : t.kind \in {"connected", "dropped"}
  BY DEF ConnectedTasks, DroppedTasks
<1>5. \A t \in Tasks : /\ t.kind = "action" => t.action \in Actions
                       /\ t.kind = "request" => t.request \in Nat
                       /\ t.kind = "mode" => t.mode \in RiderModes
  BY <1>1, <1>2, <1>3, <1>4 DEF Tasks, OtherTasks
<1>6. \A c \in Nat, a \in Actions : /\ ActionTask(c, a) \in OtherTasks
                                    /\ ActionTask(c, a).kind = "action"
                                    /\ ActionTask(c, a).of = c
                                    /\ ActionTask(c, a).action = a
  BY DEF ActionTask, OtherTasks, ActionTasks
<1>7. /\ \A c \in Nat, r \in Nat : [kind |-> "request", of |-> c, request |-> r] \in RequestTasks
      /\ \A c \in Nat, m \in RiderModes : [kind |-> "mode", of |-> c, mode |-> m] \in ModeTasks
  BY DEF RequestTasks, ModeTasks
<1> QED
  BY <1>5, <1>6, <1>7 DEF OtherTasks

\* The tasks of the game thread.
GameTasks == [of : Nat, request : Nat]

\* What the game thread takes is a request of some connection.
LEMMA GameTasksAt ==
  ASSUME ControlTypeOK
  PROVE  /\ tasks \in Seq(GameTasks)
         /\ tasks # <<>> => Head(tasks) \in GameTasks /\ Head(tasks).of \in Nat
                            /\ Head(tasks).request \in Nat
         /\ Len(requests) \in Nat
<1>1. tasks \in Seq(GameTasks) /\ requests \in Seq([of : Nat, replies : Nat])
  BY DEF ControlTypeOK, GameTasks
<1>2. Len(requests) \in Nat
  BY <1>1, LenProperties
<1>3. tasks # <<>> => Head(tasks) \in GameTasks
  BY <1>1, HeadTailProperties
<1> QED
  BY <1>1, <1>2, <1>3 DEF GameTasks

\* The scheduler's thread takes one of the other tasks, or a connection that has ended.
LEMMA TakesOthers ==
  ASSUME LinkTypeOK, NEW k \in {"action", "request", "mode"}, Takes(k)
  PROVE  /\ queue # <<>> /\ running = Idle /\ queue' = Tail(queue)
         /\ Head(queue) \in Tasks /\ Head(queue) = queue[1] /\ Head(queue).kind = k
         /\ ~IsDrop(Head(queue)) /\ ~IsConnection(Head(queue))
         /\ running.step \notin ModelSteps
<1>1. queue # <<>> /\ running = Idle /\ queue' = Tail(queue) /\ Head(queue).kind = k
  BY DEF Takes
<1>2. Head(queue) \in Tasks /\ Head(queue) = queue[1]
  BY <1>1, TakenFromHead
<1> QED
  BY <1>1, <1>2, RunningKinds DEF IsDrop, IsConnection, ModelSteps

\* To the link a step of the game control is one of those above.
LEMMA ControlMovesLink ==
  ASSUME TypeOK, ControlStep
  PROVE  LinkMoves
<1>0. LinkTypeOK /\ ControlTypeOK
  BY DEF TypeOK
<1>1. CASE LinkStep /\ UNCHANGED controlVars
  <2>1. CASE IgnoreDisconnected
    <3>1. /\ queue # <<>> /\ running = Idle /\ queue' = Tail(queue) /\ UNCHANGED Rest
          /\ UNCHANGED running
          /\ ~IsDrop(Head(queue)) /\ ~IsConnection(Head(queue))
      BY <2>1 DEF IgnoreDisconnected, Takes, IsDrop, IsConnection, Rest
    <3>2. running' \in RunningStates /\ running'.step \notin ModelSteps
      BY <3>1, RunningKinds DEF ModelSteps
    <3> QED
      BY <3>1, <3>2 DEF Dequeues, LinkMoves
  <2> QED
    BY <1>1, <2>1 DEF LinkStep, LinkMoves
<1>2. CASE NewConnection
  BY <1>2 DEF NewConnection, LinkMoves
<1>3. CASE RunAction
  <2>1. Takes("action") /\ UNCHANGED Rest /\ UNCHANGED running
    BY <1>3 DEF RunAction, Rest
  <2>2. running' \in RunningStates /\ running'.step \notin ModelSteps
    BY <1>0, <2>1, TakesOthers DEF LinkTypeOK
  <2> QED
    BY <1>0, <2>1, <2>2, TakesOthers DEF Dequeues, LinkMoves
<1>4. CASE RunRequest
  <2>1. Takes("request") /\ UNCHANGED Rest /\ UNCHANGED running
    BY <1>4 DEF RunRequest, Rest
  <2>2. running' \in RunningStates /\ running'.step \notin ModelSteps
    BY <1>0, <2>1, TakesOthers DEF LinkTypeOK
  <2> QED
    BY <1>0, <2>1, <2>2, TakesOthers DEF Dequeues, LinkMoves
<1>5. CASE GetMode
  <2> DEFINE t == Head(queue)
  <2>1. /\ Takes("mode") /\ UNCHANGED Rest
        /\ running' = IF Listens(t) THEN [step |-> "update", of |-> t.of, mode |-> t.mode] ELSE Idle
    BY <1>5 DEF GetMode, Rest
  <2>2. t \in Tasks /\ t.kind = "mode"
    BY <1>0, <2>1, TakesOthers
  <2>3. t.of \in Nat /\ t.mode \in RiderModes
    BY <2>2, TaskKinds, NewTasks
  <2>4. running' \in RunningStates /\ running'.step \in {"none", "update"}
    BY <2>1, <2>3, RunningKinds DEF RunningStates
  <2> QED
    BY <1>0, <2>1, <2>4, TakesOthers DEF Dequeues, LinkMoves, ModelSteps
<1>6. CASE Subscribe \/ ReadSettings
  <2>1. /\ running.step \in {"view", "sync"} /\ UNCHANGED <<Rest, queue>>
        /\ running' = At("sync", running.of) \/ running' = At("tell", running.of)
    BY <1>6 DEF Subscribe, ReadSettings, Goes, Rest
  <2>2. running.of \in Nat
    BY <1>0, <2>1, RunningKinds DEF LinkTypeOK, ModelSteps
  <2>3. running' \in RunningStates /\ running'.step \in {"sync", "tell"} /\ running'.of = running.of
    BY <2>1, <2>2, RunningKinds DEF ModelSteps
  <2> QED
    BY <2>1, <2>3 DEF GoesOn, LinkMoves
<1>7. CASE TellInitialMode \/ UpdateSettings
  <2>1. /\ running.step \in {"tell", "update"} /\ UNCHANGED <<Rest, queue>> /\ running' = Idle
    BY <1>7 DEF TellInitialMode, UpdateSettings, Goes, Rest
  <2>2. running' \in RunningStates /\ running'.step \notin ModelSteps
    BY <2>1, RunningKinds DEF ModelSteps
  <2> QED
    BY <2>1, <2>2 DEF GoesOn, LinkMoves
<1>8. CASE Reset
  BY <1>8 DEF Reset, LinkMoves
<1>9. CASE RiderRequests
  <2> DEFINE t == [kind |-> "request", of |-> connection, request |-> Len(requests) + 1]
  <2>1. t \in OtherTasks
    BY <1>0, GameTasksAt, NewTasks DEF LinkTypeOK
  <2>2. queue' = Append(queue, t) /\ UNCHANGED <<Rest, running>>
    BY <1>9 DEF RiderRequests, Rest
  <2> QED
    BY <2>1, <2>2 DEF Enqueues, LinkMoves
<1>10. CASE ExecuteCommand
  <2> DEFINE t == ActionTask(Head(tasks).of, Reply(Head(tasks).request))
  <2>1. queue' = Append(queue, t) /\ UNCHANGED <<Rest, running>> /\ tasks # <<>>
    BY <1>10 DEF ExecuteCommand, Rest
  <2>2. t \in OtherTasks
    BY <1>0, <2>1, GameTasksAt, NewTasks, ActionKinds
  <2> QED
    BY <2>1, <2>2 DEF Enqueues, LinkMoves
<1>11. CASE \E e \in Events : PlayEvent(e)
  <2>1. PICK e \in Events : PlayEvent(e)
    BY <1>11
  <2>2. ActionTask(subscribed, States(Fired(e))) \in OtherTasks
    BY <1>0, NewTasks, ActionKinds DEF ControlTypeOK
  <2>3. /\ queue' = queue \/ queue' = Append(queue, ActionTask(subscribed, States(Fired(e))))
        /\ UNCHANGED <<Rest, running>>
    BY <2>1 DEF PlayEvent, Rest
  <2> QED
    BY <2>2, <2>3 DEF Enqueues, LinkMoves, linkVars, Rest
<1>12. CASE (\E s \in Settings : UserChanges(s)) \/ RetrieveSettings \/ KeepMode
  BY <1>12 DEF UserChanges, RetrieveSettings, KeepMode, LinkMoves
<1>13. CASE ScheduleMode
  <2>1. ActionTask(game.of, Mode(game.mode)) \in OtherTasks
    BY <1>0, <1>13, GameKinds, NewTasks, ActionKinds DEF ControlTypeOK, ScheduleMode
  <2>2. queue' = Append(queue, ActionTask(game.of, Mode(game.mode))) /\ UNCHANGED <<Rest, running>>
    BY <1>13 DEF ScheduleMode, Rest
  <2> QED
    BY <2>1, <2>2 DEF Enqueues, LinkMoves
<1>14. CASE \E m \in RiderModes : RiderSetsMode(m)
  <2>1. PICK m \in RiderModes : RiderSetsMode(m)
    BY <1>14
  <2>2. [kind |-> "mode", of |-> connection, mode |-> m] \in OtherTasks
    BY <1>0, NewTasks DEF LinkTypeOK
  <2>3. queue' = Append(queue, [kind |-> "mode", of |-> connection, mode |-> m])
        /\ UNCHANGED <<Rest, running>>
    BY <2>1 DEF RiderSetsMode, Rest
  <2> QED
    BY <2>2, <2>3 DEF Enqueues, LinkMoves
<1> QED
  BY <1>1, <1>2, <1>3, <1>4, <1>5, <1>6, <1>7, <1>8, <1>9, <1>10, <1>11, <1>12, <1>13, <1>14
     DEF ControlStep

-----------------------------------------------------------------------------
(* The game control keeps its types.                                       *)

RequestRecords == [of : Nat, replies : Nat]

\* A reply is counted.
LEMMA ReplyCounts ==
  ASSUME NEW q \in Seq(RequestRecords), NEW r
  PROVE  LET p == [q EXCEPT ![r].replies = @ + 1]
         IN  /\ p \in Seq(RequestRecords) /\ Len(p) = Len(q)
             /\ \A i \in 1 .. Len(q) : /\ p[i].of = q[i].of
                                       /\ i # r => p[i] = q[i]
                                       /\ i = r => p[i].replies = q[i].replies + 1
<1>1. PICK n \in Nat : n = Len(q)
  BY LenProperties
<1>2. q \in [1 .. n -> RequestRecords]
  BY <1>1, LenProperties
<1> DEFINE p == [q EXCEPT ![r].replies = @ + 1]
<1>3. \A i \in 1 .. n : q[i] \in RequestRecords /\ q[i].of \in Nat /\ q[i].replies \in Nat
                        /\ [q[i] EXCEPT !.replies = @ + 1] \in RequestRecords
  BY <1>2 DEF RequestRecords
<1>4. \A i \in 1 .. n : p[i] = IF i = r THEN [q[i] EXCEPT !.replies = @ + 1] ELSE q[i]
  BY <1>2
<1>5. p \in [1 .. n -> RequestRecords]
  BY <1>2, <1>3, <1>4
<1>6. p \in Seq(RequestRecords) /\ Len(p) = n
  BY <1>5
<1>7. \A i \in 1 .. n : [q[i] EXCEPT !.replies = @ + 1].of = q[i].of
                        /\ [q[i] EXCEPT !.replies = @ + 1].replies = q[i].replies + 1
  BY <1>3 DEF RequestRecords
<1> QED
  BY <1>1, <1>4, <1>6, <1>7

\* Records of requests by their numbers.
LEMMA RecordsAt ==
  ASSUME ControlTypeOK
  PROVE  /\ \A i \in 1 .. Len(tasks) : tasks[i] \in GameTasks /\ tasks[i].of \in Nat
                                      /\ tasks[i].request \in Nat
         /\ \A r \in Made : r \in Nat /\ requests[r] \in RequestRecords
                           /\ requests[r].of \in Nat /\ requests[r].replies \in Nat
<1>1. tasks \in Seq(GameTasks) /\ requests \in Seq(RequestRecords)
  BY DEF ControlTypeOK, RequestRecords, GameTasks
<1>2. \A i \in 1 .. Len(tasks) : tasks[i] \in GameTasks
  BY <1>1, ElementOfSeq
<1>3. \A r \in Made : requests[r] \in RequestRecords
  BY <1>1, ElementOfSeq DEF Made
<1>4. \A r \in Made : r \in Nat
  BY <1>1, LenProperties DEF Made
<1> QED
  BY <1>2, <1>3, <1>4 DEF GameTasks, RequestRecords

\* What a signal does to the requests.
LEMMA FireKeepsRequests ==
  ASSUME ControlTypeOK, NEW c, NEW a, Fire(c, a)
  PROVE  requests' \in Seq(RequestRecords)
<1>1. requests \in Seq(RequestRecords)
  BY DEF ControlTypeOK, RequestRecords
<1>2. requests' = requests \/ requests' = [requests EXCEPT ![a.value].replies = @ + 1]
  BY DEF Fire, Told
<1> QED
  BY <1>1, <1>2, ReplyCounts

\* The tasks of the game thread stay tasks.
LEMMA GameTasksKept ==
  ASSUME ControlTypeOK, LinkTypeOK, RunRequest \/ ExecuteCommand
  PROVE  tasks' \in Seq(GameTasks)
<1>1. tasks \in Seq(GameTasks)
  BY GameTasksAt
<1>2. CASE RunRequest
  <2>1. Takes("request") /\ (tasks' = tasks \/ AsyncTask(Head(queue)))
    BY <1>2 DEF RunRequest, RequestPlayWorldCommand
  <2>2. PICK t \in Tasks : t = Head(queue) /\ t.kind = "request"
    BY <2>1, TakesOthers
  <2>3. [of |-> t.of, request |-> t.request] \in GameTasks
    BY <2>2, TaskKinds, NewTasks DEF GameTasks
  <2> QED
    BY <1>1, <2>1, <2>2, <2>3, AppendAt DEF AsyncTask
<1>3. CASE ExecuteCommand
  BY <1>1, <1>3, TailAt DEF ExecuteCommand
<1> QED
  BY <1>2, <1>3

\* The play states and the settings the editor may have.
LEMMA ControlTypesKept ==
  ASSUME TypeOK, ControlStep
  PROVE  ControlTypeOK'
<1>0. LinkTypeOK /\ ControlTypeOK
  BY DEF TypeOK
<1>1. /\ control \in Nat /\ subscribed \in Nat /\ settings \in PossibleSettings
      /\ state \in {"Idle", "Play", "Pause"} /\ game \in GameStates
      /\ tasks \in Seq(GameTasks) /\ requests \in Seq(RequestRecords)
  BY <1>0 DEF ControlTypeOK, GameTasks, RequestRecords
<1>2. control' \in Nat /\ subscribed' \in Nat
  <2>1. CASE Subscribe
    <3>1. running.of \in Nat
      BY <1>0, <2>1, RunningKinds DEF LinkTypeOK, ModelSteps, Subscribe
    <3> QED
      BY <2>1, <3>1 DEF Subscribe
  <2>2. CASE TellInitialMode
    BY <1>1, <2>2 DEF TellInitialMode
  <2>3. CASE Reset
    BY <1>1, <2>3 DEF Reset
  <2>4. UNCHANGED <<control, subscribed>> \/ Subscribe \/ TellInitialMode \/ Reset
    BY DEF ControlStep, controlVars, NewConnection, RunAction, ReadSettings,
         RiderRequests, RunRequest, ExecuteCommand, PlayEvent, UserChanges,
         RetrieveSettings, KeepMode, ScheduleMode, RiderSetsMode, GetMode, UpdateSettings
  <2> QED
    BY <1>1, <2>1, <2>2, <2>3, <2>4
<1>4. settings' \in PossibleSettings
  <2>1. Settings \subseteq PossibleSettings
        /\ \A m \in RiderModes : UnpackFromMode(m) \in PossibleSettings
    BY DEF PossibleSettings
  <2>2. running.step = "update" => running.mode \in RiderModes
    BY <1>0, RunningKinds DEF LinkTypeOK
  <2> QED
    BY <1>1, <2>1, <2>2 DEF ControlStep, controlVars, NewConnection, RunAction, Subscribe,
         ReadSettings, TellInitialMode, Reset, RiderRequests, RunRequest, ExecuteCommand, PlayEvent,
         UserChanges, RetrieveSettings, KeepMode, ScheduleMode, RiderSetsMode, GetMode, UpdateSettings
<1>5. state' \in {"Idle", "Play", "Pause"}
  <2>1. \A e \in Events : Becomes(e) \in {"Idle", "Play", "Pause"}
    BY DEF Becomes, Events
  <2> QED
    BY <1>1, <2>1 DEF ControlStep, controlVars, NewConnection, RunAction, Subscribe, ReadSettings,
         TellInitialMode, Reset, RiderRequests, RunRequest, ExecuteCommand, PlayEvent, UserChanges,
         RetrieveSettings, KeepMode, ScheduleMode, RiderSetsMode, GetMode, UpdateSettings
<1>6. game' \in GameStates
  <2>1. PackToMode(settings) \in Modes
    BY <1>1 DEF Modes
  <2>2. CASE \E s \in Settings : UserChanges(s)
    BY <2>2, GameKinds DEF UserChanges
  <2>3. CASE RetrieveSettings
    BY <1>1, <2>1, <2>3, GameKinds DEF RetrieveSettings
  <2>4. CASE KeepMode
    BY <1>1, <2>4, GameKinds DEF KeepMode
  <2>5. CASE ScheduleMode
    BY <2>5, GameKinds DEF ScheduleMode
  <2>6. \/ UNCHANGED game \/ \E s \in Settings : UserChanges(s)
        \/ RetrieveSettings \/ KeepMode \/ ScheduleMode
    BY DEF ControlStep, controlVars, NewConnection, RunAction, Subscribe, ReadSettings,
         TellInitialMode, Reset, RiderRequests, RunRequest, ExecuteCommand, PlayEvent,
         RiderSetsMode, GetMode, UpdateSettings
  <2> QED
    BY <1>1, <2>2, <2>3, <2>4, <2>5, <2>6
<1>7. tasks' \in Seq(GameTasks)
  <2>1. UNCHANGED tasks \/ RunRequest \/ ExecuteCommand
    BY DEF ControlStep, controlVars, NewConnection, RunAction, Subscribe, ReadSettings,
         TellInitialMode, Reset, RiderRequests, PlayEvent, UserChanges,
         RetrieveSettings, KeepMode, ScheduleMode, RiderSetsMode, GetMode, UpdateSettings
  <2> QED
    BY <1>0, <1>1, <2>1, GameTasksKept
<1>8. requests' \in Seq(RequestRecords)
  <2>1. CASE RunAction \/ TellInitialMode \/ RunRequest \/ UpdateSettings
    <3>1. UNCHANGED requests \/ \E c, a : Fire(c, a)
      BY <2>1 DEF RunAction, TellInitialMode, RunRequest, RequestPlayWorldCommand, UpdateSettings
    <3> QED
      BY <1>0, <1>1, <3>1, FireKeepsRequests
  <2>2. CASE RiderRequests
    <3>1. [of |-> connection, replies |-> 0] \in RequestRecords
      BY <1>0 DEF LinkTypeOK, RequestRecords
    <3> QED
      BY <1>1, <2>2, <3>1, AppendAt DEF RiderRequests
  <2>3. \/ UNCHANGED requests \/ RunAction \/ TellInitialMode \/ RunRequest \/ UpdateSettings
        \/ RiderRequests
    BY DEF ControlStep, controlVars, NewConnection, Subscribe, ReadSettings,
         Reset, ExecuteCommand, PlayEvent, UserChanges,
         RetrieveSettings, KeepMode, ScheduleMode, RiderSetsMode, GetMode
  <2> QED
    BY <1>1, <2>1, <2>2, <2>3
<1> QED
  BY <1>2, <1>4, <1>5, <1>6, <1>7, <1>8 DEF ControlTypeOK, GameTasks, RequestRecords

-----------------------------------------------------------------------------
(* The game control and the model.                                         *)

\* Which steps change what the game control is about.
LEMMA ControlChanges ==
  ASSUME ControlStep
  PROVE  /\ UNCHANGED <<control, subscribed>> \/ Subscribe \/ TellInitialMode \/ Reset
         /\ UNCHANGED EditorModel \/ CreateModel
         /\ UNCHANGED alive \/ BecomeAlive \/ Reset
         /\ UNCHANGED <<connected, connection>> \/ NewConnection \/ Disconnects
         /\ UNCHANGED dangling \/ dangling' = TRUE \/ dangling' = (dangling \/ game.of # control)
            \/ dangling' = (dangling \/ control # subscribed)
         /\ UNCHANGED running \/ running.step # "view" \/ Subscribe
<1>1. UNCHANGED <<control, subscribed>> \/ Subscribe \/ TellInitialMode \/ Reset
  BY DEF ControlStep, controlVars, NewConnection, RunAction, ReadSettings,
     RiderRequests, RunRequest, ExecuteCommand, PlayEvent, UserChanges,
     RetrieveSettings, KeepMode, ScheduleMode, RiderSetsMode, GetMode, UpdateSettings
<1>2. UNCHANGED EditorModel \/ CreateModel
  BY DEF ControlStep, NewConnection, RunAction, Subscribe, ReadSettings, TellInitialMode, Reset,
     RiderRequests, RunRequest, ExecuteCommand, PlayEvent, UserChanges, Goes, linkVars, LinkStep,
     RetrieveSettings, KeepMode, ScheduleMode, RiderSetsMode, GetMode, UpdateSettings,
     Connects, Disconnects, IgnoreDisconnected, Register, BecomeAlive, Drop,
     FireAsyncAction, FireAsyncReturns
<1>3. UNCHANGED alive \/ BecomeAlive \/ Reset
  BY DEF ControlStep, NewConnection, RunAction, Subscribe, ReadSettings, TellInitialMode,
     RiderRequests, RunRequest, ExecuteCommand, PlayEvent, UserChanges, Goes, linkVars, LinkStep,
     RetrieveSettings, KeepMode, ScheduleMode, RiderSetsMode, GetMode, UpdateSettings,
     Connects, Disconnects, IgnoreDisconnected, CreateModel, Register,
     FireAsyncAction, FireAsyncReturns
<1>4. UNCHANGED <<connected, connection>> \/ NewConnection \/ Disconnects
  BY DEF ControlStep, RunAction, Subscribe, ReadSettings, TellInitialMode, Reset, Drop,
     RiderRequests, RunRequest, ExecuteCommand, PlayEvent, UserChanges, Goes, linkVars, LinkStep,
     RetrieveSettings, KeepMode, ScheduleMode, RiderSetsMode, GetMode, UpdateSettings,
     IgnoreDisconnected, CreateModel, Register, BecomeAlive,
     FireAsyncAction, FireAsyncReturns
<1>5. UNCHANGED dangling \/ dangling' = TRUE \/ dangling' = (dangling \/ game.of # control)
      \/ dangling' = (dangling \/ control # subscribed)
  BY DEF ControlStep, controlVars, NewConnection, RunAction, Subscribe, ReadSettings,
     TellInitialMode, Reset, RiderRequests, RunRequest, ExecuteCommand, PlayEvent, UserChanges,
     RetrieveSettings, KeepMode, ScheduleMode, RiderSetsMode, GetMode, UpdateSettings
<1>6. UNCHANGED running \/ running.step # "view" \/ Subscribe
  <2>1. UNCHANGED running \/ running = Idle \/ running.step \in {"register", "alive", "sync", "tell", "update"}
        \/ Subscribe
    <3>1. CASE LinkStep
      BY <3>1 DEF LinkStep, Disconnects, IgnoreDisconnected, CreateModel, Register, BecomeAlive,
           FireAsyncAction, FireAsyncReturns, Takes
    <3>2. CASE NewConnection \/ RunAction \/ Reset \/ RiderRequests \/ RunRequest \/ ExecuteCommand
               \/ (\E e \in Events : PlayEvent(e)) \/ (\E s \in Settings : UserChanges(s))
               \/ RetrieveSettings \/ KeepMode \/ ScheduleMode \/ (\E m \in RiderModes : RiderSetsMode(m))
      BY <3>2 DEF NewConnection, Connects, RunAction, Reset, Drop, RiderRequests, RunRequest,
           ExecuteCommand, PlayEvent, UserChanges, RetrieveSettings, KeepMode, ScheduleMode,
           RiderSetsMode, linkVars
    <3>3. CASE ReadSettings \/ TellInitialMode \/ GetMode \/ UpdateSettings
      BY <3>3 DEF ReadSettings, TellInitialMode, GetMode, UpdateSettings, Takes
    <3> QED
      BY <3>1, <3>2, <3>3 DEF ControlStep
  <2> QED
    BY <2>1 DEF Idle
<1> QED
  BY <1>1, <1>2, <1>3, <1>4, <1>5, <1>6

\* The steps of the viewer find the model they were called for.
LEMMA ViewerFindsModel ==
  ASSUME LinkInv, running.step \in {"view", "sync", "tell"}
  PROVE  running.of = EditorModel /\ EditorModel # 0 /\ alive = "yes"
BY DEF LinkInv, Numbered, Handled, ModelSteps

\* A game control only exists for the model that is alive.
LEMMA ControlStaysAlive ==
  ASSUME LinkInv, ControlIsAlive, ControlStep
  PROVE  ControlIsAlive'
<1>1. CASE Subscribe
  BY <1>1, ViewerFindsModel DEF Subscribe, Goes, ControlIsAlive
<1>2. CASE TellInitialMode
  BY <1>2 DEF TellInitialMode, Goes, ControlIsAlive
<1>3. CASE Reset
  BY <1>3 DEF Reset, ControlIsAlive
<1>4. CASE UNCHANGED control /\ ~Reset
  <2>1. CASE CreateModel
    BY <1>4, <2>1, CreatedOnlyAfterReset DEF ControlIsAlive
  <2>2. CASE UNCHANGED EditorModel
    <3>1. UNCHANGED alive \/ alive' = "yes"
      BY <1>4, ControlChanges DEF BecomeAlive
    <3> QED
      BY <1>4, <2>2, <3>1 DEF ControlIsAlive
  <2> QED
    BY <2>1, <2>2, ControlChanges
<1> QED
  BY <1>1, <1>2, <1>3, <1>4, ControlChanges

\* The connection that lasts has its game control once the viewer has begun.
LEMMA ControlStaysThere ==
  ASSUME LinkInv, ControlTypeOK, HasControl, ControlStep
  PROVE  HasControl'
<1>0. connection \in Nat /\ EditorModel \in Nat /\ EditorModel <= connection
  BY DEF LinkInv, LinkTypeOK, Numbered
<1>1. CASE Subscribe
  BY <1>1, ViewerFindsModel DEF Subscribe, Goes, HasControl, Begun
<1>2. CASE TellInitialMode
  <2>1. running.of = EditorModel /\ running.step = "tell"
    BY <1>2, ViewerFindsModel DEF TellInitialMode
  <2>2. Begun => control = connection
    BY <2>1 DEF HasControl
  <2> QED
    BY <1>2, <2>1, <2>2 DEF TellInitialMode, Goes, HasControl, Begun, Live
<1>3. CASE Reset
  <2>1. UNCHANGED <<connected, connection, EditorModel>> /\ ~Begun
    BY <1>3, DropIsNotOfTheLast DEF Reset, Drop
  <2> QED
    BY <2>1 DEF HasControl, Begun
<1>4. CASE UNCHANGED control /\ ~Subscribe
  <2>0. LinkMoves
    BY ControlMovesLink DEF LinkInv, TypeOK
  <2>1. CASE Connects
    BY <1>0, <2>1 DEF Connects, HasControl, Begun
  <2>2. CASE Disconnects
    BY <2>2 DEF Disconnects, HasControl, Begun
  <2>3. CASE CreateModel
    BY <2>3 DEF CreateModel, HasControl, Begun, Live, At
  <2>4. CASE Register
    <3>1. running.of = EditorModel
      BY <2>4 DEF Register, LinkInv, Numbered, ModelSteps
    <3> QED
      BY <2>4, <3>1 DEF Register, HasControl, Begun, Live, At
  <2>5. CASE BecomeAlive
    <3>1. alive # "yes"
      BY <2>5 DEF BecomeAlive, LinkInv, Handled
    <3> QED
      BY <2>5, <3>1 DEF BecomeAlive, HasControl, Begun, At
  <2>6. CASE Drop
    <3>1. UNCHANGED <<connected, connection, EditorModel>> /\ ~Begun
      BY <2>6, DropIsNotOfTheLast DEF Drop
    <3> QED
      BY <3>1 DEF HasControl, Begun
  <2>7. CASE Dequeues
    <3>1. running.step = "none"
      BY <2>7, RunningKinds DEF Dequeues
    <3> QED
      BY <1>4, <2>7, <3>1 DEF Dequeues, Rest, HasControl, Begun
  <2>8. CASE GoesOn
    <3>1. running.step # "view" \/ UNCHANGED running
      BY <1>4, ControlChanges
    <3> QED
      BY <1>4, <2>8, <3>1 DEF GoesOn, Rest, HasControl, Begun
  <2>9. CASE FireAsyncAction \/ FireAsyncReturns \/ Enqueues \/ UNCHANGED linkVars
    <3>1. UNCHANGED <<connected, connection, EditorModel, running>>
      BY <2>9 DEF FireAsyncAction, FireAsyncReturns, Enqueues, Rest, linkVars
    <3> QED
      BY <1>4, <3>1 DEF HasControl, Begun
  <2> QED
    BY <2>0, <2>1, <2>2, <2>3, <2>4, <2>5, <2>6, <2>7, <2>8, <2>9 DEF LinkMoves
<1> QED
  BY <1>1, <1>2, <1>3, <1>4, ControlChanges

\* Who is subscribed, and what the game thread does about it, is of the past.
LEMMA SubscribersStayKnown ==
  ASSUME LinkInv, ControlTypeOK, SubscribersKnown, ControlStep
  PROVE  SubscribersKnown' /\ EditorModel' \in Nat /\ EditorModel <= EditorModel'
         /\ connection <= connection' /\ connection' \in Nat
<1>0. /\ connection \in Nat /\ EditorModel \in Nat /\ EditorModel <= connection
      /\ subscribed \in Nat /\ game \in GameStates
  BY DEF LinkInv, LinkTypeOK, Numbered, ControlTypeOK
<1>1. connection <= connection' /\ connection' \in Nat
  <2>1. UNCHANGED connection \/ connection' = connection + 1
    BY ControlChanges DEF NewConnection, Connects, Disconnects
  <2> QED
    BY <1>0, <2>1
<1>2. EditorModel' \in Nat /\ EditorModel <= EditorModel'
  <2>1. CASE CreateModel
    <3>1. PICK c \in Nat \ {0} : c = Head(queue).of
      BY <2>1, CreatedOnlyAfterReset
    <3>2. EditorModel < c /\ EditorModel' = c
      BY <2>1, <3>1, CreatedOnlyAfterReset DEF CreateModel
    <3> QED
      BY <1>0, <3>1, <3>2
  <2> QED
    BY <1>0, <2>1, ControlChanges
<1>3. subscribed' \in Nat /\ subscribed' <= EditorModel'
  <2>1. subscribed' \in {0, subscribed, EditorModel}
    <3>1. CASE Subscribe
      BY <3>1, ViewerFindsModel DEF Subscribe
    <3>2. CASE TellInitialMode
      BY <3>2 DEF TellInitialMode
    <3>3. CASE Reset
      BY <3>3 DEF Reset
    <3> QED
      BY <3>1, <3>2, <3>3, ControlChanges
  <2> QED
    BY <1>0, <1>2, <2>1 DEF SubscribersKnown
<1>4. game'.step \in {"compare", "schedule"} => game'.of <= connection'
  <2>1. CASE UNCHANGED game
    <3>1. game.step \in {"compare", "schedule"} => game.of \in Nat /\ game.of <= connection
      BY <1>0, GameKinds DEF SubscribersKnown
    <3> QED
      BY <1>0, <1>1, <2>1, <3>1
  <2>2. CASE RetrieveSettings
    <3>1. game' = Idle \/ game'.of = subscribed
      BY <2>2 DEF RetrieveSettings
    <3>2. subscribed <= connection'
      BY <1>0, <1>1 DEF SubscribersKnown
    <3> QED
      BY <3>1, <3>2 DEF Idle
  <2>3. CASE KeepMode
    <3>1. game.of \in Nat /\ game.of <= connection /\ [game EXCEPT !.step = "schedule"].of = game.of
      BY <1>0, <2>3, GameKinds DEF SubscribersKnown, KeepMode
    <3>2. game' = Idle \/ game'.of = game.of
      BY <2>3, <3>1 DEF KeepMode
    <3> QED
      BY <1>0, <1>1, <3>1, <3>2 DEF Idle
  <2>4. CASE ScheduleMode \/ \E s \in Settings : UserChanges(s)
    BY <2>4 DEF ScheduleMode, UserChanges, Idle
  <2>5. \/ UNCHANGED game \/ \E s \in Settings : UserChanges(s)
        \/ RetrieveSettings \/ KeepMode \/ ScheduleMode
    BY DEF ControlStep, controlVars, NewConnection, RunAction, Subscribe, ReadSettings,
         TellInitialMode, Reset, RiderRequests, RunRequest, ExecuteCommand, PlayEvent,
         RiderSetsMode, GetMode, UpdateSettings
  <2> QED
    BY <2>1, <2>2, <2>3, <2>4, <2>5
<1> QED
  BY <1>1, <1>2, <1>3, <1>4 DEF SubscribersKnown

-----------------------------------------------------------------------------
(* What a step queues.                                                     *)

\* Only tasks of the link are added, if any.
LinkTasksAdded ==
  /\ \A i \in Positions : i \in Positions' /\ queue'[i] = queue[i]
  /\ \A i \in Positions' : i \in Positions \/ queue'[i].kind \in {"connected", "dropped"}

\* One task is added behind the others.
TaskAdded(t) ==
  \E l \in Nat :
    /\ \A i \in Positions : i \in Positions' /\ queue'[i] = queue[i] /\ i < l
    /\ l \in Positions' /\ l \notin Positions /\ queue'[l] = t
    /\ \A i \in Positions' : i \in Positions \/ i = l

\* What is queued is behind everything.
LEMMA AddedBehind ==
  ASSUME queue \in Seq(Tasks), NEW t \in Tasks, queue' = Append(queue, t)
  PROVE  TaskAdded(t)
<1>1. PICK l \in Nat : l = Len(queue)
  BY AppendAt
<1>2. /\ Positions = 1 .. l /\ Positions' = 1 .. l + 1 /\ queue'[l + 1] = t
      /\ \A i \in Positions : queue'[i] = queue[i]
  BY <1>1, AppendAt DEF Positions
<1>3. \A i \in Positions : i \in Positions' /\ i < l + 1
  BY <1>2
<1>4. l + 1 \in Nat /\ l + 1 \in Positions' /\ l + 1 \notin Positions
      /\ \A i \in Positions' : i \in Positions \/ i = l + 1
  BY <1>2
<1> QED
  BY <1>2, <1>3, <1>4 DEF TaskAdded

\* The end of a connection queues tasks of the link only.
LEMMA DisconnectsAdds ==
  ASSUME LinkTypeOK, Disconnects
  PROVE  LinkTasksAdded
<1> DEFINE d == IF connection \in watched THEN <<DroppedTask>> ELSE <<>>
           t == ConnectedTask(0)
<1>1. queue' = queue \o d \o <<t>>
  BY DEF Disconnects
<1>2. queue \in Seq(Tasks) /\ d \in Seq(Tasks) /\ t \in Tasks
  BY TasksAreTasks DEF LinkTypeOK
<1>3. \A i \in 1 .. Len(d) : d[i].kind = "dropped"
  BY DEF DroppedTask
<1>4. t.kind = "connected"
  BY DEF ConnectedTask
<1> HIDE DEF d, t
<1>5. PICK L \in Nat, M \in Nat : L = Len(queue) /\ M = Len(d)
  BY <1>2, LenProperties
<1>6. /\ queue \o d \in Seq(Tasks) /\ Len(queue \o d) = L + M
      /\ \A i \in 1 .. L : (queue \o d)[i] = queue[i]
      /\ \A i \in L + 1 .. L + M : (queue \o d)[i] = d[i - L] /\ i - L \in 1 .. M
  BY <1>2, <1>5, ConcatProperties
<1>7. PICK q \in Seq(Tasks) : q = queue \o d
  BY <1>6
<1>8. queue' = Append(q, t)
  BY <1>1, <1>2, <1>7, AppendIsConcat
<1>9. /\ Len(queue') = L + M + 1
      /\ \A i \in 1 .. L + M : queue'[i] = q[i]
      /\ queue'[L + M + 1] = t
  BY <1>2, <1>6, <1>7, <1>8, AppendAt
<1>10. Positions = 1 .. L /\ Positions' = 1 .. L + M + 1
  BY <1>5, <1>9 DEF Positions
<1>11. \A i \in 1 .. L : i \in 1 .. L + M /\ i \in 1 .. L + M + 1
  OBVIOUS
<1>12. \A i \in Positions : i \in Positions' /\ queue'[i] = queue[i]
  BY <1>6, <1>7, <1>9, <1>10, <1>11
<1>13. \A i \in L + 1 .. L + M : queue'[i] = d[i - L] /\ i - L \in 1 .. Len(d)
  <2>1. \A i \in L + 1 .. L + M : i \in 1 .. L + M
    OBVIOUS
  <2> QED
    BY <1>5, <1>6, <1>7, <1>9, <2>1
<1>14. \A i \in Positions' : i \in Positions \/ i \in L + 1 .. L + M \/ i = L + M + 1
  BY <1>10
<1>15. \A i \in L + 1 .. L + M : queue'[i].kind = "dropped"
  BY <1>3, <1>13
<1>16. \A i \in Positions' : i \in Positions \/ queue'[i].kind \in {"connected", "dropped"}
  BY <1>4, <1>9, <1>14, <1>15
<1> QED
  BY <1>12, <1>16 DEF LinkTasksAdded

\* So does a new connection.
LEMMA ConnectsAdds ==
  ASSUME LinkTypeOK, Connects
  PROVE  LinkTasksAdded
<1>1. PICK t \in Tasks : queue' = Append(queue, t) /\ t.kind = "connected"
  <2>1. ConnectedTask(connection + 1) \in Tasks /\ ConnectedTask(connection + 1).kind = "connected"
    BY TasksAreTasks DEF LinkTypeOK, ConnectedTask
  <2> QED
    BY <2>1 DEF Connects
<1>2. TaskAdded(t)
  BY <1>1, AddedBehind DEF LinkTypeOK
<1> QED
  BY <1>1, <1>2 DEF TaskAdded, LinkTasksAdded

\* What the other steps queue or take.
RequestTask == [kind |-> "request", of |-> connection, request |-> Len(requests) + 1]
ReplyTask == ActionTask(Head(tasks).of, Reply(Head(tasks).request))
StateTask(e) == ActionTask(subscribed, States(Fired(e)))
ModeTask(m) == [kind |-> "mode", of |-> connection, mode |-> m]

\* What Rider asks for is a task.
LEMMA RequestIsTask ==
  ASSUME TypeOK
  PROVE  RequestTask \in Tasks
<1>1. connection \in Nat
  BY DEF TypeOK, LinkTypeOK
<1>2. Len(requests) + 1 \in Nat
  <2>1. Len(requests) \in Nat
    BY GameTasksAt DEF TypeOK
  <2> QED
    BY <2>1
<1>3. RequestTask \in OtherTasks
  BY <1>1, <1>2, NewTasks DEF RequestTask
<1> QED
  BY <1>3, TasksAreTasks

\* What a step adds to the queue, or takes from it.
LEMMA QueueMoves ==
  ASSUME TypeOK, ControlStep
  PROVE  \/ LinkTasksAdded
         \/ RiderRequests /\ TaskAdded(RequestTask)
         \/ ExecuteCommand /\ TaskAdded(ReplyTask)
         \/ \E e \in Events : PlayEvent(e) /\ subscribed # 0 /\ TaskAdded(StateTask(e))
         \/ ScheduleMode /\ game.mode \in Modes /\ TaskAdded(ActionTask(game.of, Mode(game.mode)))
         \/ \E m \in RiderModes : RiderSetsMode(m) /\ TaskAdded(ModeTask(m))
         \/ IgnoreDisconnected \/ CreateModel \/ Reset \/ GetMode \/ RunAction \/ RunRequest
<1>0. LinkTypeOK /\ ControlTypeOK /\ queue \in Seq(Tasks)
  BY DEF TypeOK, LinkTypeOK
<1>1. CASE UNCHANGED queue
  BY <1>1 DEF LinkTasksAdded, Positions
<1>2. CASE Disconnects \/ NewConnection
  BY <1>0, <1>2, DisconnectsAdds, ConnectsAdds DEF NewConnection
<1>3. CASE RiderRequests
  <2>1. RequestTask \in Tasks
    BY <1>0, RequestIsTask
  <2>2. queue' = Append(queue, RequestTask)
    BY <1>3 DEF RiderRequests, RequestTask
  <2> QED
    BY <1>0, <1>3, <2>1, <2>2, AddedBehind
<1>4. CASE ExecuteCommand
  <2>1. ReplyTask \in Tasks
    BY <1>0, <1>4, GameTasksAt, NewTasks, ActionKinds, TasksAreTasks DEF ExecuteCommand, ReplyTask
  <2>2. queue' = Append(queue, ReplyTask)
    BY <1>4 DEF ExecuteCommand, ReplyTask
  <2> QED
    BY <1>0, <1>4, <2>1, <2>2, AddedBehind
<1>5. ASSUME NEW e \in Events, PlayEvent(e), subscribed # 0
      PROVE  TaskAdded(StateTask(e))
  <2>1. StateTask(e) \in Tasks
    BY <1>0, NewTasks, ActionKinds, TasksAreTasks DEF ControlTypeOK, StateTask
  <2>2. queue' = Append(queue, StateTask(e))
    BY <1>5 DEF PlayEvent, StateTask
  <2> QED
    BY <1>0, <2>1, <2>2, AddedBehind
<1>6. CASE ScheduleMode
  <2>1. game.of \in Nat /\ game.mode \in Modes
    BY <1>0, <1>6, GameKinds DEF ControlTypeOK, ScheduleMode
  <2>2. ActionTask(game.of, Mode(game.mode)) \in Tasks
    BY <2>1, NewTasks, ActionKinds, TasksAreTasks
  <2>3. queue' = Append(queue, ActionTask(game.of, Mode(game.mode)))
    BY <1>6 DEF ScheduleMode
  <2> QED
    BY <1>0, <1>6, <2>1, <2>2, <2>3, AddedBehind
<1>7. ASSUME NEW m \in RiderModes, RiderSetsMode(m)
      PROVE  TaskAdded(ModeTask(m))
  <2>1. ModeTask(m) \in Tasks
    BY <1>0, NewTasks, TasksAreTasks DEF LinkTypeOK, ModeTask
  <2>2. queue' = Append(queue, ModeTask(m))
    BY <1>7 DEF RiderSetsMode, ModeTask
  <2> QED
    BY <1>0, <2>1, <2>2, AddedBehind
<1>8. \/ UNCHANGED queue \/ Disconnects \/ NewConnection \/ RiderRequests \/ ExecuteCommand
      \/ \E e \in Events : PlayEvent(e) /\ subscribed # 0
      \/ ScheduleMode \/ \E m \in RiderModes : RiderSetsMode(m)
      \/ IgnoreDisconnected \/ CreateModel \/ Reset \/ GetMode \/ RunAction \/ RunRequest
  BY DEF ControlStep, LinkStep, Register, BecomeAlive, FireAsyncAction, FireAsyncReturns,
       Subscribe, ReadSettings, TellInitialMode, Goes, PlayEvent, UserChanges,
       RetrieveSettings, KeepMode, UpdateSettings, linkVars
<1> QED
  BY <1>1, <1>2, <1>3, <1>4, <1>5, <1>6, <1>7, <1>8

\* The steps that take a task.
LEMMA TaskTaken ==
  ASSUME LinkTypeOK,
         IgnoreDisconnected \/ CreateModel \/ Reset \/ GetMode \/ RunAction \/ RunRequest
  PROVE  /\ queue # <<>> /\ queue' = Tail(queue) /\ running.step = "none"
         /\ queue[1] = Head(queue) /\ queue[1] \in Tasks /\ 1 \in Positions
         /\ \A i \in Positions' : i \in Nat \ {0} /\ i + 1 \in Positions /\ queue'[i] = queue[i + 1]
         /\ \A i \in Positions : i \in Nat /\ 1 <= i
         /\ \A i \in Positions : i # 1 => i - 1 \in Positions' /\ queue'[i - 1] = queue[i]
<1>1. queue # <<>> /\ queue' = Tail(queue) /\ running = Idle
  BY DEF IgnoreDisconnected, CreateModel, Reset, Drop, GetMode, RunAction, RunRequest, Takes
<1> QED
  BY <1>1, RunningKinds, TakenFromHead

-----------------------------------------------------------------------------
(* Tasks and requests are of connections there have been.                  *)

\* Which steps change the requests and the tasks of the game thread.
LEMMA RequestChanges ==
  ASSUME TypeOK, ControlStep
  PROVE  UNCHANGED <<tasks, requests>> \/ RunAction \/ RunRequest \/ RiderRequests \/ ExecuteCommand
<1>1. CASE TellInitialMode
  BY <1>1 DEF TellInitialMode, Fire, Told, Mode
<1>2. CASE UpdateSettings
  <2>1. \A m : Fire(running.of, Mode(m)) => UNCHANGED requests
    BY DEF Fire, Told, Mode
  <2> QED
    BY <1>2, <2>1 DEF UpdateSettings
<1> QED
  BY <1>1, <1>2 DEF ControlStep, controlVars, NewConnection, Subscribe, ReadSettings,
     Reset, PlayEvent, UserChanges, RetrieveSettings, KeepMode, ScheduleMode, RiderSetsMode, GetMode

\* The records of the requests that were made stay of the same connections.
LEMMA RequestsStay ==
  ASSUME TypeOK, ControlStep
  PROVE  /\ Made \subseteq Made'
         /\ \A r \in Made : requests'[r].of = requests[r].of
         /\ \A r \in Made' : r \in Made \/ (RiderRequests /\ r = Len(requests) + 1
                                            /\ requests'[r] = [of |-> connection, replies |-> 0])
<1>1. requests \in Seq(RequestRecords)
  BY DEF TypeOK, ControlTypeOK, RequestRecords
<1>2. CASE UNCHANGED requests
  BY <1>2 DEF Made
<1>3. ASSUME NEW a, requests' = [requests EXCEPT ![a].replies = @ + 1]
      PROVE  Made' = Made /\ \A r \in Made : requests'[r].of = requests[r].of
  BY <1>1, <1>3, ReplyCounts DEF Made
<1>4. CASE RunAction \/ RunRequest
  <2>1. UNCHANGED requests \/ \E c, a : Fire(c, a)
    BY <1>4 DEF RunAction, RunRequest, RequestPlayWorldCommand
  <2>2. \A c, a : Fire(c, a) => \/ UNCHANGED requests
                                \/ requests' = [requests EXCEPT ![a.value].replies = @ + 1]
    BY DEF Fire, Told
  <2> QED
    BY <1>2, <1>3, <2>1, <2>2
<1>5. CASE RiderRequests
  <2> DEFINE x == [of |-> connection, replies |-> 0]
  <2>1. requests' = Append(requests, x) /\ x \in RequestRecords
    BY <1>5 DEF RiderRequests, TypeOK, LinkTypeOK, RequestRecords
  <2>2. PICK n \in Nat : n = Len(requests)
    BY <1>1, AppendAt, <2>1
  <2>3. /\ Made = 1 .. n /\ Made' = 1 .. n + 1 /\ requests'[n + 1] = x
        /\ \A r \in 1 .. n : requests'[r] = requests[r]
    BY <1>1, <2>1, <2>2, AppendAt DEF Made
  <2>4. \A r \in Made' : r \in Made \/ r = n + 1
    BY <2>3
  <2>5. Made \subseteq Made'
    BY <2>3
  <2> QED
    BY <1>5, <2>2, <2>3, <2>4, <2>5
<1>6. UNCHANGED requests \/ RunAction \/ RunRequest \/ RiderRequests
  BY RequestChanges DEF ExecuteCommand
<1> QED
  BY <1>2, <1>4, <1>5, <1>6

\* The tasks of the game thread: one is added, or the first is taken.
LEMMA GameTasksMove ==
  ASSUME TypeOK, ControlStep
  PROVE  \/ UNCHANGED tasks
         \/ /\ RunRequest /\ queue[1] \in Tasks /\ queue[1].kind = "request"
            /\ queue[1].request \in Nat /\ queue[1].of \in Nat
            /\ UNCHANGED requests
            /\ Len(tasks) \in Nat /\ Len(tasks') = Len(tasks) + 1
            /\ \A i \in 1 .. Len(tasks) : tasks'[i] = tasks[i]
            /\ tasks'[Len(tasks) + 1] = [of |-> queue[1].of, request |-> queue[1].request]
         \/ /\ ExecuteCommand
            /\ UNCHANGED requests
            /\ Head(tasks) = tasks[1] /\ 1 \in 1 .. Len(tasks)
            /\ \A i \in 1 .. Len(tasks') : /\ i \in Nat \ {0}
                                           /\ i + 1 \in 1 .. Len(tasks) /\ tasks'[i] = tasks[i + 1]
            /\ \A i \in 1 .. Len(tasks) : i # 1 => i - 1 \in 1 .. Len(tasks') /\ tasks'[i - 1] = tasks[i]
<1>0. LinkTypeOK /\ ControlTypeOK /\ tasks \in Seq(GameTasks)
  BY GameTasksAt DEF TypeOK
<1>1. CASE RunRequest /\ tasks' # tasks
  <2>1. queue[1] = Head(queue) /\ queue[1] \in Tasks /\ queue[1].kind = "request"
    BY <1>0, <1>1, TakesOthers DEF RunRequest
  <2>2. queue[1].request \in Nat /\ queue[1].of \in Nat
    BY <2>1, TaskKinds, NewTasks
  <2> DEFINE t == [of |-> queue[1].of, request |-> queue[1].request]
  <2>3. tasks' = Append(tasks, t) /\ UNCHANGED requests
    BY <1>1, <2>1 DEF RunRequest, RequestPlayWorldCommand, AsyncTask
  <2>4. t \in GameTasks
    BY <2>2 DEF GameTasks
  <2> HIDE DEF t
  <2>5. /\ Len(tasks) \in Nat /\ Len(tasks') = Len(tasks) + 1
        /\ \A i \in 1 .. Len(tasks) : tasks'[i] = tasks[i]
        /\ tasks'[Len(tasks) + 1] = t
    BY <1>0, <2>3, <2>4, AppendAt
  <2> QED
    BY <1>1, <2>1, <2>2, <2>3, <2>5 DEF t
<1>2. CASE ExecuteCommand
  <2>1. tasks # <<>> /\ tasks' = Tail(tasks) /\ UNCHANGED requests
    BY <1>2 DEF ExecuteCommand
  <2>2. /\ Head(tasks) = tasks[1] /\ Len(tasks) \in Nat \ {0}
        /\ \A i \in 1 .. Len(tasks') : i + 1 \in 1 .. Len(tasks) /\ tasks'[i] = tasks[i + 1]
        /\ \A i \in 1 .. Len(tasks) : i # 1 => i - 1 \in 1 .. Len(tasks') /\ tasks'[i - 1] = tasks[i]
    BY <1>0, <2>1, TailAt
  <2>3. Len(tasks') \in Nat
    BY <1>0, <2>1, TailAt, LenProperties
  <2>4. \A i \in 1 .. Len(tasks') : i \in Nat \ {0}
    BY <2>3
  <2>5. 1 \in 1 .. Len(tasks)
    BY <2>2
  <2> QED
    BY <1>2, <2>1, <2>2, <2>4, <2>5
<1>3. UNCHANGED tasks \/ RunRequest \/ ExecuteCommand
  BY RequestChanges DEF RunAction, RiderRequests
<1> QED
  BY <1>1, <1>2, <1>3

\* Nothing is queued for a connection that has not been.
LEMMA TasksStayKnown ==
  ASSUME LinkInv, ControlTypeOK, SubscribersKnown, TasksKnown, ControlStep
  PROVE  TasksKnown'
<1>0. /\ TypeOK /\ LinkTypeOK /\ connection \in Nat /\ EditorModel \in Nat
      /\ EditorModel <= connection /\ subscribed \in Nat
      /\ connection' \in Nat /\ connection <= connection'
  BY SubscribersStayKnown DEF LinkInv, TypeOK, LinkTypeOK, Numbered, ControlTypeOK
<1> DEFINE Other(t) == t.kind \in {"action", "request", "mode"}
<1>1. \A i \in Positions : Other(queue[i]) => queue[i].of \in Nat /\ queue[i].of <= connection
  <2>1. \A i \in Positions : queue[i] \in Tasks
    BY <1>0, ElementOfSeq DEF LinkTypeOK, Positions
  <2> QED
    BY <2>1, TaskKinds DEF TasksKnown
<1>2. \A i \in Positions : Other(queue[i]) => queue[i].of <= connection'
  BY <1>0, <1>1
<1>3. \A i \in 1 .. Len(tasks) : tasks[i].of \in Nat /\ tasks[i].of <= connection
  BY RecordsAt DEF TasksKnown
<1>4. \A i \in 1 .. Len(tasks) : tasks[i].of <= connection'
  BY <1>0, <1>3
<1>5. \A i \in Positions' : Other(queue'[i]) => queue'[i].of <= connection'
  <2>1. CASE LinkTasksAdded
    BY <1>2, <2>1 DEF LinkTasksAdded
  <2>2. ASSUME NEW t, TaskAdded(t), t.of \in Nat, t.of <= connection
        PROVE  \A i \in Positions' : Other(queue'[i]) => queue'[i].of <= connection'
    <3>1. t.of <= connection'
      BY <1>0, <2>2
    <3> QED
      BY <1>2, <2>2, <3>1 DEF TaskAdded
  <2>3. CASE RiderRequests /\ TaskAdded(RequestTask)
    BY <1>0, <2>2, <2>3 DEF RequestTask
  <2>4. CASE ExecuteCommand /\ TaskAdded(ReplyTask)
    <3>1. tasks[1] = Head(tasks) /\ 1 \in 1 .. Len(tasks)
      BY <2>4, GameTasksAt, TailAt DEF ExecuteCommand
    <3>2. ReplyTask.of = tasks[1].of
      BY <3>1 DEF ReplyTask, ActionTask
    <3> QED
      BY <1>3, <2>2, <2>4, <3>1, <3>2
  <2>5. CASE \E e \in Events : PlayEvent(e) /\ subscribed # 0 /\ TaskAdded(StateTask(e))
    <3>1. PICK e \in Events : TaskAdded(StateTask(e))
      BY <2>5
    <3>2. StateTask(e).of = subscribed /\ subscribed <= connection
      BY <1>0 DEF StateTask, ActionTask, SubscribersKnown
    <3> QED
      BY <1>0, <2>2, <3>1, <3>2
  <2>6. CASE ScheduleMode /\ TaskAdded(ActionTask(game.of, Mode(game.mode)))
    <3>1. game.of \in Nat /\ game.of <= connection
      BY <2>6, GameKinds DEF ControlTypeOK, SubscribersKnown, ScheduleMode
    <3>2. ActionTask(game.of, Mode(game.mode)).of = game.of
      BY DEF ActionTask
    <3> QED
      BY <2>2, <2>6, <3>1, <3>2
  <2>7. CASE \E m \in RiderModes : RiderSetsMode(m) /\ TaskAdded(ModeTask(m))
    <3>1. PICK m \in RiderModes : TaskAdded(ModeTask(m))
      BY <2>7
    <3>2. ModeTask(m).of = connection
      BY DEF ModeTask
    <3> QED
      BY <1>0, <2>2, <3>1, <3>2
  <2>8. CASE IgnoreDisconnected \/ CreateModel \/ Reset \/ GetMode \/ RunAction \/ RunRequest
    BY <1>0, <1>2, <2>8, TaskTaken
  <2> QED
    BY <1>0, <2>1, <2>3, <2>4, <2>5, <2>6, <2>7, <2>8, QueueMoves
<1>6. \A i \in 1 .. Len(tasks') : tasks'[i].of <= connection'
  <2>1. CASE UNCHANGED tasks
    BY <1>4, <2>1
  <2>2. CASE ExecuteCommand /\ \A i \in 1 .. Len(tasks') : i + 1 \in 1 .. Len(tasks)
                                                           /\ tasks'[i] = tasks[i + 1]
    BY <1>4, <2>2
  <2>3. CASE /\ RunRequest /\ queue[1].kind = "request"
             /\ Len(tasks) \in Nat /\ Len(tasks') = Len(tasks) + 1
             /\ \A i \in 1 .. Len(tasks) : tasks'[i] = tasks[i]
             /\ tasks'[Len(tasks) + 1] = [of |-> queue[1].of, request |-> queue[1].request]
    <3>1. 1 \in Positions
      BY <1>0, <2>3, TaskTaken
    <3>2. queue[1].of <= connection'
      BY <1>2, <2>3, <3>1
    <3>3. \A i \in 1 .. Len(tasks') : i \in 1 .. Len(tasks) \/ i = Len(tasks) + 1
      BY <2>3
    <3> QED
      BY <1>4, <2>3, <3>2, <3>3
  <2> QED
    BY <1>0, <2>1, <2>2, <2>3, GameTasksMove
<1>7. \A i \in Made' : requests'[i].of # 0 /\ requests'[i].of <= connection'
  <2>1. \A i \in Made : requests[i].of \in Nat
    BY RecordsAt
  <2>2. \A i \in Made : requests[i].of # 0 /\ requests[i].of <= connection'
    BY <1>0, <2>1 DEF TasksKnown, Made
  <2>3. CASE RiderRequests
    <3>1. connection # 0
      BY <2>3 DEF RiderRequests, LinkInv, Numbered
    <3> QED
      BY <1>0, <2>2, <3>1, RequestsStay
  <2>4. CASE ~RiderRequests
    BY <1>0, <2>2, <2>4, RequestsStay
  <2> QED
    BY <2>3, <2>4
<1> QED
  BY <1>5, <1>6, <1>7 DEF TasksKnown, Made

\* A request of the connection that lasts stays behind the task of the connection.
LEMMA StaysBehind ==
  ASSUME LinkInv, ControlTypeOK, SubscribersKnown, TasksKnown, Behind, ControlStep
  PROVE  Behind'
<1>0. TypeOK /\ LinkTypeOK /\ connection \in Nat
  BY DEF LinkInv, TypeOK, LinkTypeOK
<1>1. CASE Disconnects
  BY <1>1 DEF Disconnects, Behind
<1>2. CASE NewConnection
  <2>1. connection' = connection + 1 /\ LinkTasksAdded
    BY <1>0, <1>2, ConnectsAdds DEF NewConnection, Connects
  <2>2. \A i \in Positions' : queue'[i].kind = "request" =>
          queue'[i].of \in Nat /\ queue'[i].of <= connection
    <3>1. \A i \in Positions : queue[i] \in Tasks
      BY <1>0, ElementOfSeq DEF LinkTypeOK, Positions
    <3> QED
      BY <2>1, <3>1, TaskKinds DEF TasksKnown, LinkTasksAdded
  <2>3. \A i \in Positions' : queue'[i].kind = "request" => queue'[i].of # connection'
    BY <1>0, <2>1, <2>2
  <2> QED
    BY <2>3 DEF Behind
<1>3. CASE UNCHANGED <<connected, connection>> /\ connected
  <2>0. \A i \in Positions : queue[i].kind = "request" /\ queue[i].of = connection =>
          \/ EditorModel = connection
          \/ \E j \in Positions : j < i /\ IsConnection(queue[j]) /\ queue[j].of = connection
    BY <1>3 DEF Behind
  <2>1. CASE UNCHANGED EditorModel /\ LinkTasksAdded
    BY <1>3, <2>0, <2>1 DEF Behind, LinkTasksAdded
  <2>2. ASSUME UNCHANGED EditorModel, NEW t, TaskAdded(t), t.kind # "request" \/ t = RequestTask
        PROVE  Behind'
    <3>1. PICK l \in Nat :
            /\ \A i \in Positions : i \in Positions' /\ queue'[i] = queue[i] /\ i < l
            /\ queue'[l] = t
            /\ \A i \in Positions' : i \in Positions \/ i = l
      BY <2>2 DEF TaskAdded
    <3>2. \/ EditorModel = connection
          \/ \E j \in Positions' : j < l /\ IsConnection(queue'[j]) /\ queue'[j].of = connection
      BY <1>3, <3>1 DEF LinkInv, Arrives
    <3> QED
      BY <1>3, <2>0, <2>2, <3>1, <3>2 DEF Behind
  <2>3. CASE /\ UNCHANGED EditorModel
             /\ IgnoreDisconnected \/ Reset \/ GetMode \/ RunAction \/ RunRequest
    <3>1. ~IsConnection(queue[1])
      <4>1. Head(queue).kind # "connected" \/ Head(queue).of = 0
        BY <2>3 DEF IgnoreDisconnected, Reset, Drop, GetMode, RunAction, RunRequest, Takes
      <4> QED
        BY <1>0, <2>3, <4>1, TaskTaken DEF IsConnection
    <3>2. ASSUME NEW i \in Positions', queue'[i].kind = "request", queue'[i].of = connection,
                 EditorModel # connection
          PROVE  \E j \in Positions' : j < i /\ IsConnection(queue'[j]) /\ queue'[j].of = connection
      <4>1. i \in Nat \ {0} /\ i + 1 \in Positions /\ queue'[i] = queue[i + 1]
        BY <1>0, <2>3, TaskTaken
      <4>2. PICK j \in Positions : j < i + 1 /\ IsConnection(queue[j]) /\ queue[j].of = connection
        BY <2>0, <3>2, <4>1
      <4>3. j \in Nat /\ j - 1 \in Positions' /\ queue'[j - 1] = queue[j]
        BY <1>0, <2>3, <3>1, <4>2, TaskTaken
      <4>4. j - 1 < i
        BY <4>1, <4>2, <4>3
      <4> QED
        BY <4>2, <4>3, <4>4
    <3> QED
      BY <1>3, <2>3, <3>2 DEF Behind
  <2>4. CASE CreateModel
    <3>1. PICK c \in Nat \ {0} : c = Head(queue).of
      BY <2>4, CreatedOnlyAfterReset
    <3>2. EditorModel' = c /\ EditorModel < c /\ c <= connection /\ EditorModel \in Nat
          /\ queue[1].of = c
      BY <2>4, <3>1, CreatedOnlyAfterReset DEF CreateModel, LinkInv, LinkTypeOK
    <3>3. ASSUME NEW i \in Positions', queue'[i].kind = "request", queue'[i].of = connection,
                 c # connection
          PROVE  \E j \in Positions' : j < i /\ IsConnection(queue'[j]) /\ queue'[j].of = connection
      <4>1. i \in Nat \ {0} /\ i + 1 \in Positions /\ queue'[i] = queue[i + 1]
        BY <1>0, <2>4, TaskTaken
      <4>2. EditorModel # connection
        BY <1>0, <3>2
      <4>3. PICK j \in Positions : j < i + 1 /\ IsConnection(queue[j]) /\ queue[j].of = connection
        BY <2>0, <3>3, <4>1, <4>2
      <4>4. j # 1
        BY <3>2, <3>3, <4>3
      <4>5. j \in Nat /\ j - 1 \in Positions' /\ queue'[j - 1] = queue[j]
        BY <1>0, <2>4, <4>4, TaskTaken
      <4>6. j - 1 < i
        BY <4>1, <4>3, <4>5
      <4> QED
        BY <4>3, <4>5, <4>6
    <3> QED
      BY <1>3, <3>2, <3>3 DEF Behind
  <2>5. CASE UNCHANGED EditorModel /\ ~CreateModel
    <3>1. \/ LinkTasksAdded
          \/ \E t : TaskAdded(t) /\ (t.kind # "request" \/ t = RequestTask)
          \/ IgnoreDisconnected \/ Reset \/ GetMode \/ RunAction \/ RunRequest
      <4>1. ReplyTask.kind = "action" /\ ActionTask(game.of, Mode(game.mode)).kind = "action"
            /\ (\A e \in Events : StateTask(e).kind = "action")
            /\ (\A m \in RiderModes : ModeTask(m).kind = "mode")
        BY DEF ReplyTask, StateTask, ModeTask, ActionTask
      <4> QED
        BY <1>0, <2>5, <4>1, QueueMoves
    <3> QED
      BY <2>1, <2>2, <2>3, <2>5, <3>1
  <2> QED
    BY <2>4, <2>5, ControlChanges
<1>4. CASE UNCHANGED <<connected, connection>> /\ ~connected
  BY <1>4 DEF Behind
<1> QED
  BY <1>1, <1>2, <1>3, <1>4, ControlChanges

-----------------------------------------------------------------------------
(* Where a request is.                                                     *)

\* The ways a step moves requests.
NoneMoves ==
  /\ UNCHANGED <<tasks, requests>>
  /\ \A i \in Positions : i \in Positions' /\ queue'[i] = queue[i]
  /\ \A i \in Positions' : i \in Positions \/ \A r \in Nat : ~Concerns(queue'[i], r)
HeadTaken ==
  /\ 1 \in Positions
  /\ \A i \in Positions' : i \in Nat \ {0} /\ i + 1 \in Positions /\ queue'[i] = queue[i + 1]
  /\ \A i \in Positions : i \in Nat /\ 1 <= i
  /\ \A i \in Positions : i # 1 => i - 1 \in Positions' /\ queue'[i - 1] = queue[i]
HeadGone == HeadTaken /\ UNCHANGED <<tasks, requests>>
HeadAnswers(r) ==
  /\ HeadTaken /\ UNCHANGED tasks
  /\ Concerns(queue[1], r)
  /\ requests' = [requests EXCEPT ![r].replies = @ + 1]
HeadToGame ==
  /\ HeadTaken /\ UNCHANGED requests
  /\ queue[1] \in Tasks /\ queue[1].kind = "request" /\ queue[1].request \in Nat
  /\ Len(tasks) \in Nat /\ Len(tasks') = Len(tasks) + 1
  /\ \A i \in 1 .. Len(tasks) : tasks'[i] = tasks[i]
  /\ tasks'[Len(tasks) + 1] = [of |-> queue[1].of, request |-> queue[1].request]
GameToQueue ==
  /\ UNCHANGED requests
  /\ 1 \in 1 .. Len(tasks)
  /\ TaskAdded(ActionTask(tasks[1].of, Reply(tasks[1].request)))
  /\ \A i \in 1 .. Len(tasks') : /\ i \in Nat \ {0}
                                 /\ i + 1 \in 1 .. Len(tasks) /\ tasks'[i] = tasks[i + 1]
  /\ \A i \in 1 .. Len(tasks) : i # 1 => i - 1 \in 1 .. Len(tasks') /\ tasks'[i - 1] = tasks[i]
OneAsked == RiderRequests /\ UNCHANGED tasks /\ TaskAdded(RequestTask)

\* What the tasks concern.
LEMMA WhatConcerns ==
  /\ \A t, r : t.kind \in {"connected", "dropped", "mode"} => ~Concerns(t, r)
  /\ \A c, m, r : ~Concerns(ActionTask(c, Mode(m)), r)
  /\ \A e, r : ~Concerns(StateTask(e), r)
  /\ \A m, r : ~Concerns(ModeTask(m), r)
  /\ \A r : Concerns(RequestTask, r) <=> r = Len(requests) + 1
  /\ \A c, q, r : Concerns(ActionTask(c, Reply(q)), r) <=> r = q
BY DEF Concerns, RepliesTo, ActionTask, Mode, StateTask, States, ModeTask, RequestTask, Reply

\* The ways in which a step moves requests.
LEMMA RequestMoves ==
  ASSUME TypeOK, ControlStep
  PROVE  \/ NoneMoves \/ HeadGone \/ (\E r \in Nat : HeadAnswers(r))
         \/ HeadToGame \/ GameToQueue \/ OneAsked
<1>0. LinkTypeOK /\ ControlTypeOK
  BY DEF TypeOK
<1>1. CASE LinkTasksAdded /\ UNCHANGED <<tasks, requests>>
  BY <1>1, WhatConcerns DEF LinkTasksAdded, NoneMoves
<1>2. ASSUME NEW t, TaskAdded(t), \A r \in Nat : ~Concerns(t, r), UNCHANGED <<tasks, requests>>
      PROVE  NoneMoves
  BY <1>2 DEF TaskAdded, NoneMoves
<1>3. CASE RiderRequests
  <2>1. RequestTask \in Tasks
    BY <1>0, RequestIsTask
  <2>2. queue' = Append(queue, RequestTask)
    BY <1>3 DEF RiderRequests, RequestTask
  <2>3. TaskAdded(RequestTask)
    BY <1>0, <2>1, <2>2, AddedBehind DEF LinkTypeOK
  <2> QED
    BY <1>3, <2>3 DEF OneAsked, RiderRequests
<1>4. CASE ExecuteCommand
  <2>1. TaskAdded(ReplyTask)
    <3>1. ReplyTask \in Tasks
      BY <1>0, <1>4, GameTasksAt, NewTasks, ActionKinds, TasksAreTasks DEF ExecuteCommand, ReplyTask
    <3>2. queue' = Append(queue, ReplyTask)
      BY <1>4 DEF ExecuteCommand, ReplyTask
    <3> QED
      BY <1>0, <3>1, <3>2, AddedBehind DEF LinkTypeOK
  <2>2. /\ tasks # <<>> /\ tasks' = Tail(tasks) /\ UNCHANGED requests /\ tasks \in Seq(GameTasks)
    BY <1>0, <1>4, GameTasksAt DEF ExecuteCommand
  <2>3. /\ Head(tasks) = tasks[1] /\ Len(tasks) \in Nat \ {0} /\ tasks' \in Seq(GameTasks)
        /\ \A i \in 1 .. Len(tasks') : i + 1 \in 1 .. Len(tasks) /\ tasks'[i] = tasks[i + 1]
        /\ \A i \in 1 .. Len(tasks) : i # 1 => i - 1 \in 1 .. Len(tasks') /\ tasks'[i - 1] = tasks[i]
    BY <2>2, TailAt
  <2>4. Len(tasks') \in Nat
    BY <2>3, LenProperties
  <2>5. (\A i \in 1 .. Len(tasks') : i \in Nat \ {0}) /\ 1 \in 1 .. Len(tasks)
    BY <2>3, <2>4
  <2> QED
    BY <2>1, <2>2, <2>3, <2>5 DEF GameToQueue, ReplyTask
<1>5. CASE IgnoreDisconnected \/ CreateModel \/ Reset \/ GetMode \/ RunAction \/ RunRequest
  <2>1. HeadTaken
    BY <1>0, <1>5, TaskTaken DEF HeadTaken
  <2>2. queue[1] = Head(queue) /\ queue[1] \in Tasks
    BY <1>0, <1>5, TaskTaken
  <2>3. CASE UNCHANGED <<tasks, requests>>
    BY <2>1, <2>3 DEF HeadGone
  <2>4. CASE RunAction
    <3>1. UNCHANGED tasks /\ queue[1].kind = "action"
      BY <2>2, <2>4 DEF RunAction, Takes
    <3>2. queue[1].action \in Actions
      BY <2>2, <3>1, NewTasks
    <3>3. UNCHANGED requests \/ (queue[1].action.about = "reply" /\
                                 requests' = [requests EXCEPT ![queue[1].action.value].replies = @ + 1])
      <4>1. \E c : Fire(c, queue[1].action)
        BY <2>2, <2>4 DEF RunAction
      <4>2. \A c : Fire(c, queue[1].action) =>
              \/ UNCHANGED requests
              \/ /\ queue[1].action.about = "reply"
                 /\ requests' = [requests EXCEPT ![queue[1].action.value].replies = @ + 1]
        BY DEF Fire, Told
      <4> QED
        BY <4>1, <4>2
    <3>4. CASE queue[1].action.about = "reply"
      <4>1. PICK r \in Nat : r = queue[1].action.value /\ queue[1].action = Reply(r)
        BY <3>2, <3>4, ActionKinds
      <4>2. Concerns(queue[1], r)
        BY <3>1, <4>1 DEF Concerns, RepliesTo
      <4>3. CASE requests' = [requests EXCEPT ![queue[1].action.value].replies = @ + 1]
        <5>1. requests' = [requests EXCEPT ![r].replies = @ + 1]
          BY <4>1, <4>3
        <5>2. HeadAnswers(r)
          BY <2>1, <3>1, <4>2, <5>1 DEF HeadAnswers
        <5> QED
          BY <5>2
      <4> QED
        BY <2>3, <3>1, <3>3, <4>3
    <3> QED
      BY <2>3, <3>1, <3>3, <3>4
  <2>5. CASE RunRequest
    <3>1. queue[1].kind = "request"
      BY <2>2, <2>5 DEF RunRequest, Takes
    <3>2. PICK r \in Nat : r = queue[1].request
      BY <2>2, <3>1, NewTasks
    <3>3. Concerns(queue[1], r)
      BY <3>1, <3>2 DEF Concerns
    <3>4. \/ UNCHANGED <<tasks, requests>>
          \/ UNCHANGED tasks /\ requests' = [requests EXCEPT ![r].replies = @ + 1]
          \/ tasks' # tasks
      BY <2>2, <2>5, <3>2 DEF RunRequest, RequestPlayWorldCommand, Fire, Told, Reply
    <3>5. CASE tasks' # tasks
      <4>1. ~ExecuteCommand
        BY <1>0, <2>5, TakesOthers, AppendAt DEF RunRequest, ExecuteCommand, Takes
      <4> QED
        BY <2>1, <3>2, <3>5, <4>1, GameTasksMove DEF HeadToGame
    <3> QED
      BY <2>1, <2>3, <3>3, <3>4, <3>5 DEF HeadAnswers
  <2>6. UNCHANGED <<tasks, requests>> \/ RunAction \/ RunRequest
    <3>1. CASE IgnoreDisconnected \/ CreateModel
      BY <3>1, RequestChanges, TaskTaken, <1>0 DEF IgnoreDisconnected, CreateModel, Takes, RiderRequests, ExecuteCommand
    <3>2. CASE Reset \/ GetMode
      BY <3>2 DEF Reset, GetMode, controlVars
    <3> QED
      BY <1>5, <3>1, <3>2
  <2> QED
    BY <2>3, <2>4, <2>5, <2>6
<1>6. UNCHANGED <<tasks, requests>> \/ RunAction \/ RunRequest \/ RiderRequests \/ ExecuteCommand
  BY RequestChanges
<1>7. CASE UNCHANGED <<tasks, requests>>
  BY <1>1, <1>2, <1>3, <1>4, <1>5, <1>7, WhatConcerns, QueueMoves
<1> QED
  BY <1>3, <1>4, <1>5, <1>6, <1>7

\* A request stays in one place, and is answered from there once.
LEMMA NoneMovesOnce ==
  ASSUME ControlTypeOK, InOnePlace, NoneMoves
  PROVE  InOnePlace'
<1>1. Made' = Made /\ \A r \in Made : r \in Nat
  BY RecordsAt DEF NoneMoves, Made
<1>2. \A i \in Positions', r \in Nat : Concerns(queue'[i], r) => i \in Positions /\ Concerns(queue[i], r)
  BY DEF NoneMoves
<1>3. UNCHANGED <<tasks, requests>>
  BY DEF NoneMoves
<1>4. \A r \in Made : Once(r)'
  BY <1>1, <1>2, <1>3 DEF InOnePlace, Once
<1>5. \A r \in Made : AnsweredLast(r)'
  BY <1>1, <1>2, <1>3 DEF InOnePlace, AnsweredLast
<1> QED
  BY <1>1, <1>2, <1>3, <1>4, <1>5 DEF InOnePlace

\* What the first task leaves behind.
LEMMA HeadTakenOnce ==
  ASSUME ControlTypeOK, InOnePlace, HeadTaken
  PROVE  /\ \A i \in Positions', r \in Nat : Concerns(queue'[i], r) =>
              i + 1 \in Positions /\ i + 1 # 1 /\ Concerns(queue[i + 1], r) /\ r \in Made
         /\ \A r \in Made : \A i, j \in Positions' :
              Concerns(queue'[i], r) /\ Concerns(queue'[j], r) => i = j
         /\ \A r \in Made : Concerns(queue[1], r) => \A i \in Positions' : ~Concerns(queue'[i], r)
<1>1. \A i \in Positions' : i \in Nat \ {0} /\ i + 1 \in Positions /\ i + 1 # 1 /\ queue'[i] = queue[i + 1]
  BY DEF HeadTaken
<1>2. \A i \in Positions', r \in Nat : Concerns(queue'[i], r) =>
        i + 1 \in Positions /\ i + 1 # 1 /\ Concerns(queue[i + 1], r) /\ r \in Made
  BY <1>1 DEF InOnePlace
<1>3. \A r \in Made : r \in Nat
  BY RecordsAt
<1>4. \A r \in Made : \A i, j \in Positions' : Concerns(queue'[i], r) /\ Concerns(queue'[j], r) => i = j
  <2>1. ASSUME NEW r \in Made, NEW i \in Positions', NEW j \in Positions',
               Concerns(queue'[i], r), Concerns(queue'[j], r)
        PROVE  i = j
    <3>1. i + 1 = j + 1
      BY <1>2, <1>3, <2>1 DEF InOnePlace, Once
    <3> QED
      BY <1>1, <3>1
  <2> QED
    BY <2>1
<1>5. \A r \in Made : Concerns(queue[1], r) => \A i \in Positions' : ~Concerns(queue'[i], r)
  BY <1>2, <1>3 DEF InOnePlace, Once, HeadTaken
<1> QED
  BY <1>2, <1>4, <1>5

\* The head is gone, and its request with it.
LEMMA HeadGoneOnce ==
  ASSUME ControlTypeOK, InOnePlace, HeadGone
  PROVE  InOnePlace'
<1>1. HeadTaken /\ UNCHANGED <<tasks, requests>> /\ Made' = Made /\ \A r \in Made : r \in Nat
  BY RecordsAt DEF HeadGone, Made
<1>2. \A i \in Positions', r \in Nat : Concerns(queue'[i], r) =>
        i + 1 \in Positions /\ Concerns(queue[i + 1], r) /\ r \in Made
  BY <1>1, HeadTakenOnce
<1>3. \A r \in Made : \A i, j \in Positions' : Concerns(queue'[i], r) /\ Concerns(queue'[j], r) => i = j
  BY <1>1, HeadTakenOnce
<1>4. \A r \in Made : Once(r)'
  BY <1>1, <1>2, <1>3 DEF InOnePlace, Once
<1>5. \A r \in Made : AnsweredLast(r)'
  BY <1>1, <1>2 DEF InOnePlace, AnsweredLast
<1> QED
  BY <1>1, <1>2, <1>4, <1>5 DEF InOnePlace

\* The head is the answer: it is the first, and nothing else is about the request.
LEMMA HeadAnswersOnce ==
  ASSUME ControlTypeOK, InOnePlace, NEW r \in Nat, HeadAnswers(r)
  PROVE  /\ InOnePlace' /\ r \in Made /\ requests[r].replies = 0 /\ requests'[r].replies = 1
         /\ \A q \in Made : q # r => requests'[q] = requests[q]
<1>1. HeadTaken /\ UNCHANGED tasks /\ Concerns(queue[1], r)
      /\ requests' = [requests EXCEPT ![r].replies = @ + 1]
  BY DEF HeadAnswers
<1>2. requests \in Seq(RequestRecords)
  BY DEF ControlTypeOK, RequestRecords
<1>3. /\ Made' = Made /\ \A q \in Made : q \in Nat
      /\ \A q \in Made : /\ q # r => requests'[q] = requests[q]
                         /\ q = r => requests'[q].replies = requests[q].replies + 1
  BY <1>1, <1>2, ReplyCounts, RecordsAt DEF Made
<1>4. 1 \in Positions /\ r \in Made
  BY <1>1 DEF InOnePlace, HeadTaken
<1>5. requests[r].replies = 0 /\ Once(r)
  BY <1>1, <1>4 DEF InOnePlace, AnsweredLast
<1>6. requests'[r].replies = 1
  BY <1>3, <1>4, <1>5
<1>7. \A i \in Positions', q \in Nat : Concerns(queue'[i], q) =>
        i + 1 \in Positions /\ Concerns(queue[i + 1], q) /\ q \in Made
  BY <1>1, HeadTakenOnce
<1>8. \A q \in Made : \A i, j \in Positions' : Concerns(queue'[i], q) /\ Concerns(queue'[j], q) => i = j
  BY <1>1, HeadTakenOnce
<1>9. \A i \in Positions' : ~Concerns(queue'[i], r)
  BY <1>1, <1>4, HeadTakenOnce
<1>10. \A i \in 1 .. Len(tasks) : tasks[i].request # r
  BY <1>1, <1>4, <1>5 DEF Once
<1>11. \A q \in Made : Once(q)'
  BY <1>1, <1>3, <1>7, <1>8 DEF InOnePlace, Once
<1>12. \A q \in Made : AnsweredLast(q)'
  <2>1. AnsweredLast(r)'
    BY <1>1, <1>6, <1>9, <1>10 DEF AnsweredLast
  <2>2. ASSUME NEW q \in Made, q # r PROVE AnsweredLast(q)'
    BY <1>1, <1>3, <1>7, <2>2 DEF InOnePlace, AnsweredLast
  <2> QED
    BY <2>1, <2>2
<1> QED
  BY <1>1, <1>3, <1>4, <1>5, <1>6, <1>7, <1>11, <1>12 DEF InOnePlace

\* The request goes from the queue to the game thread.
LEMMA HeadToGameOnce ==
  ASSUME ControlTypeOK, InOnePlace, HeadToGame
  PROVE  InOnePlace'
<1>1. HeadTaken /\ UNCHANGED requests /\ Made' = Made /\ \A q \in Made : q \in Nat
  BY RecordsAt DEF HeadToGame, Made
<1>2. PICK r \in Nat : r = queue[1].request /\ Concerns(queue[1], r)
  BY DEF HeadToGame, Concerns
<1>3. PICK l \in Nat : l = Len(tasks) + 1
  BY DEF HeadToGame
<1>4. /\ \A i \in 1 .. Len(tasks) : i \in 1 .. Len(tasks') /\ tasks'[i] = tasks[i] /\ i # l
      /\ tasks'[l].request = r
      /\ \A i \in 1 .. Len(tasks') : i \in 1 .. Len(tasks) \/ i = l
  BY <1>2, <1>3 DEF HeadToGame
<1>5. 1 \in Positions /\ r \in Made
  BY <1>1, <1>2 DEF InOnePlace, HeadTaken
<1>6. Once(r) /\ requests[r].replies = 0
  BY <1>2, <1>5 DEF InOnePlace, AnsweredLast
<1>7. \A i \in Positions', q \in Nat : Concerns(queue'[i], q) =>
        i + 1 \in Positions /\ Concerns(queue[i + 1], q) /\ q \in Made
  BY <1>1, HeadTakenOnce
<1>8. \A q \in Made : \A i, j \in Positions' : Concerns(queue'[i], q) /\ Concerns(queue'[j], q) => i = j
  BY <1>1, HeadTakenOnce
<1>9. \A i \in Positions' : ~Concerns(queue'[i], r)
  BY <1>1, <1>2, <1>5, HeadTakenOnce
<1>10. \A i \in 1 .. Len(tasks) : tasks[i].request # r
  BY <1>2, <1>5, <1>6 DEF Once
<1>11. Once(r)'
  BY <1>1, <1>4, <1>9, <1>10 DEF Once
<1>12. ASSUME NEW q \in Made, q # r PROVE Once(q)' /\ AnsweredLast(q)'
  <2>1. Once(q) /\ AnsweredLast(q)
    BY DEF InOnePlace
  <2>2. \A i \in 1 .. Len(tasks') : tasks'[i].request = q => i \in 1 .. Len(tasks) /\ tasks[i].request = q
    BY <1>4, <1>12
  <2>3. Once(q)'
    BY <1>1, <1>7, <1>8, <2>1, <2>2 DEF Once
  <2>4. AnsweredLast(q)'
    BY <1>1, <1>7, <2>1, <2>2 DEF AnsweredLast
  <2> QED
    BY <2>3, <2>4
<1>13. AnsweredLast(r)'
  BY <1>1, <1>6 DEF AnsweredLast
<1>14. \A i \in 1 .. Len(tasks') : tasks'[i].request \in Made
  BY <1>4, <1>5 DEF InOnePlace
<1> QED
  BY <1>1, <1>7, <1>11, <1>12, <1>13, <1>14 DEF InOnePlace

\* The game thread queues the answer.
LEMMA GameToQueueOnce ==
  ASSUME ControlTypeOK, InOnePlace, GameToQueue
  PROVE  InOnePlace'
<1>1. UNCHANGED requests /\ Made' = Made /\ \A q \in Made : q \in Nat
  BY RecordsAt DEF GameToQueue, Made
<1>2. PICK r \in Made : r = tasks[1].request
  BY DEF GameToQueue, InOnePlace
<1>3. Once(r) /\ 1 \in 1 .. Len(tasks)
  BY DEF GameToQueue, InOnePlace
<1>4. PICK l \in Nat :
        /\ \A i \in Positions : i \in Positions' /\ queue'[i] = queue[i] /\ i < l
        /\ l \in Positions' /\ l \notin Positions
        /\ queue'[l] = ActionTask(tasks[1].of, Reply(r))
        /\ \A i \in Positions' : i \in Positions \/ i = l
  BY <1>2 DEF GameToQueue, TaskAdded
<1>5. \A q : Concerns(queue'[l], q) <=> q = r
  BY <1>4, WhatConcerns
<1>6. \A i \in 1 .. Len(tasks') : /\ i \in Nat \ {0} /\ i + 1 # 1
                                  /\ i + 1 \in 1 .. Len(tasks) /\ tasks'[i] = tasks[i + 1]
  BY DEF GameToQueue
<1>7. \A i \in 1 .. Len(tasks') : tasks'[i].request # r
  BY <1>2, <1>3, <1>6 DEF Once
<1>8. \A i \in Positions : ~Concerns(queue[i], r)
  BY <1>2, <1>3 DEF Once
<1>9. requests[r].replies = 0
  BY <1>2, <1>3 DEF InOnePlace, AnsweredLast
<1>10. \A i \in Positions' : Concerns(queue'[i], r) => i = l
  BY <1>4, <1>8
<1>11. Once(r)'
  BY <1>7, <1>10 DEF Once
<1>12. AnsweredLast(r)'
  BY <1>1, <1>9 DEF AnsweredLast
<1>13. ASSUME NEW q \in Made, q # r PROVE Once(q)' /\ AnsweredLast(q)'
  <2>1. Once(q) /\ AnsweredLast(q)
    BY DEF InOnePlace
  <2>2. \A i \in Positions' : Concerns(queue'[i], q) => i \in Positions /\ Concerns(queue[i], q)
    BY <1>4, <1>5, <1>13
  <2>3. ASSUME NEW i \in 1 .. Len(tasks'), NEW j \in 1 .. Len(tasks'),
               tasks'[i].request = q, tasks'[j].request = q
        PROVE  i = j
    <3>1. i + 1 = j + 1
      BY <1>6, <2>1, <2>3 DEF Once
    <3> QED
      BY <1>6, <3>1
  <2>4. Once(q)'
    BY <1>6, <2>1, <2>2, <2>3 DEF Once
  <2>5. AnsweredLast(q)'
    BY <1>1, <1>6, <2>1, <2>2 DEF AnsweredLast
  <2> QED
    BY <2>4, <2>5
<1>14. \A i \in Positions', q \in Nat : Concerns(queue'[i], q) => q \in Made
  BY <1>4, <1>5 DEF InOnePlace
<1>15. \A i \in 1 .. Len(tasks') : tasks'[i].request \in Made
  BY <1>6 DEF InOnePlace
<1> QED
  BY <1>1, <1>11, <1>12, <1>13, <1>14, <1>15 DEF InOnePlace

\* A request nothing is about yet.
LEMMA OneAskedOnce ==
  ASSUME TypeOK, InOnePlace, ControlStep, OneAsked
  PROVE  /\ InOnePlace' /\ Len(requests) + 1 \in Made'
         /\ \A q \in Made : requests'[q] = requests[q]
<1>1. PICK r \in Nat : r = Len(requests) + 1
  BY GameTasksAt DEF TypeOK
<1>2. ControlTypeOK /\ requests \in Seq(RequestRecords)
  BY DEF TypeOK, ControlTypeOK, RequestRecords
<1>3. requests' = Append(requests, [of |-> connection, replies |-> 0]) /\ UNCHANGED tasks
  BY DEF OneAsked, RiderRequests
<1>4. [of |-> connection, replies |-> 0] \in RequestRecords
  BY DEF TypeOK, LinkTypeOK, RequestRecords
<1>5. /\ \A q \in Made : requests'[q] = requests[q] /\ q \in Made' /\ q \in Nat /\ q # r
      /\ requests'[r].replies = 0 /\ r \in Made'
      /\ \A q \in Made' : q \in Made \/ q = r
  BY <1>1, <1>2, <1>3, <1>4, AppendAt DEF Made
<1>6. PICK l \in Nat :
        /\ \A i \in Positions : i \in Positions' /\ queue'[i] = queue[i] /\ i < l
        /\ l \in Positions' /\ l \notin Positions /\ queue'[l] = RequestTask
        /\ \A i \in Positions' : i \in Positions \/ i = l
  BY DEF OneAsked, TaskAdded
<1>7. \A q : Concerns(queue'[l], q) <=> q = r
  BY <1>1, <1>6, WhatConcerns
<1>8. \A i \in Positions : ~Concerns(queue[i], r)
  BY <1>5 DEF InOnePlace
<1>9. \A i \in 1 .. Len(tasks) : tasks[i].request # r
  BY <1>5 DEF InOnePlace
<1>10. Once(r)' /\ AnsweredLast(r)'
  BY <1>3, <1>5, <1>6, <1>8, <1>9 DEF Once, AnsweredLast
<1>11. ASSUME NEW q \in Made PROVE Once(q)' /\ AnsweredLast(q)'
  <2>1. Once(q) /\ AnsweredLast(q) /\ q # r
    BY <1>5 DEF InOnePlace
  <2>2. \A i \in Positions' : Concerns(queue'[i], q) => i \in Positions /\ Concerns(queue[i], q)
    BY <1>6, <1>7, <2>1
  <2> QED
    BY <1>3, <1>5, <2>1, <2>2 DEF Once, AnsweredLast
<1>12. \A i \in Positions', q \in Nat : Concerns(queue'[i], q) => q \in Made'
  BY <1>5, <1>6, <1>7 DEF InOnePlace
<1>13. \A i \in 1 .. Len(tasks') : tasks'[i].request \in Made'
  BY <1>3, <1>5 DEF InOnePlace
<1> QED
  BY <1>1, <1>5, <1>10, <1>11, <1>12, <1>13 DEF InOnePlace

\* A request stays in one place until its answer.
LEMMA StaysInOnePlace ==
  ASSUME TypeOK, InOnePlace, ControlStep
  PROVE  InOnePlace'
BY RequestMoves, NoneMovesOnce, HeadGoneOnce, HeadAnswersOnce, HeadToGameOnce, GameToQueueOnce,
   OneAskedOnce DEF TypeOK

-----------------------------------------------------------------------------
(* A request of the connection that lasts is not lost.                     *)

\* A use of a control that is gone is never forgotten.
LEMMA DanglingStays ==
  ASSUME ControlStep, ~dangling'
  PROVE  dangling => FALSE
BY ControlChanges

\* The scheduler's thread never throws away what such a request is about.
LEMMA NothingLost ==
  ASSUME LinkInv, ControlTypeOK, HasControl, Behind, InOnePlace, ControlStep, HeadGone,
         connected, ~dangling', NEW r \in Nat, Concerns(queue[1], r), queue[1].of = connection
  PROVE  FALSE
<1>0. LinkTypeOK /\ TypeOK
  BY DEF LinkInv, TypeOK
<1>1. HeadTaken /\ UNCHANGED <<tasks, requests>>
  BY DEF HeadGone
<1>2. IgnoreDisconnected \/ CreateModel \/ Reset \/ GetMode \/ RunAction \/ RunRequest
  <2>1. ~LinkTasksAdded /\ \A t : ~TaskAdded(t)
    <3>1. \E i \in Positions : i \notin Positions'
      <4>1. PICK L \in Nat : L = Len(queue)
        BY <1>0, LenProperties DEF LinkTypeOK
      <4>2. L \in Positions /\ L # 0
        BY <1>1, <4>1 DEF HeadTaken, Positions
      <4>3. L \notin Positions'
        <5>1. ASSUME L \in Positions' PROVE FALSE
          <6>1. L + 1 \in 1 .. L
            BY <1>1, <4>1, <5>1 DEF HeadTaken, Positions
          <6> QED
            BY <6>1
        <5> QED
          BY <5>1
      <4> QED
        BY <4>2, <4>3
    <3> QED
      BY <3>1 DEF LinkTasksAdded, TaskAdded
  <2> QED
    BY <1>0, <2>1, QueueMoves
<1>3. queue[1] = Head(queue) /\ queue[1] \in Tasks /\ running.step = "none" /\ 1 \in Positions
      /\ \A i \in Positions : i \in Nat /\ 1 <= i
  BY <1>0, <1>2, TaskTaken
<1>4. queue[1].kind \in {"action", "request"}
  BY DEF Concerns, RepliesTo
<1>5. RunAction \/ RunRequest
  BY <1>2, <1>3, <1>4 DEF IgnoreDisconnected, CreateModel, Reset, Drop, GetMode, Takes
<1>8. requests # [requests EXCEPT ![r].replies = @ + 1]
  <2>1. r \in Made /\ requests \in Seq(RequestRecords) /\ requests[r].replies \in Nat
    BY <1>3, RecordsAt DEF InOnePlace, ControlTypeOK, RequestRecords
  <2>2. [requests EXCEPT ![r].replies = @ + 1][r].replies = requests[r].replies + 1
    BY <2>1, ReplyCounts DEF Made
  <2>3. requests[r].replies + 1 # requests[r].replies
    BY <2>1
  <2> QED
    BY <2>2, <2>3
<1>6. CASE RunRequest
  <2>1. queue[1].kind = "request"
    BY <1>3, <1>6 DEF RunRequest, Takes
  <2>2. EditorModel = connection
    <3>1. \A j \in Positions : ~(j < 1)
      BY <1>3
    <3> QED
      BY <1>3, <2>1, <3>1 DEF Behind
  <2>3. control = connection
    BY <1>3, <2>2 DEF HasControl, Begun
  <2>4. Listens(queue[1]) /\ Live(queue[1].of)
    BY <2>3 DEF Listens, Live
  <2>5. AsyncTask(queue[1]) \/ requests' = [requests EXCEPT ![queue[1].request].replies = @ + 1]
    BY <1>3, <1>6, <2>4 DEF RunRequest, RequestPlayWorldCommand, Fire, Told, Reply
  <2>6. queue[1].request \in Nat
    BY <1>3, <2>1, NewTasks
  <2>7. CASE AsyncTask(queue[1])
    <3>1. [of |-> queue[1].of, request |-> queue[1].request] \in GameTasks
      BY <1>0, <2>6 DEF GameTasks, LinkTypeOK
    <3>2. tasks \in Seq(GameTasks)
      BY GameTasksAt
    <3>3. Len(tasks') = Len(tasks) + 1 /\ Len(tasks) \in Nat
      BY <2>7, <3>1, <3>2, AppendAt DEF AsyncTask
    <3> QED
      BY <1>1, <3>3
  <2>8. CASE requests' = [requests EXCEPT ![queue[1].request].replies = @ + 1]
    <3>1. queue[1].request = r
      BY <2>1 DEF Concerns, RepliesTo
    <3> QED
      BY <1>1, <1>8, <2>8, <3>1
  <2> QED
    BY <2>5, <2>7, <2>8
<1>7. CASE RunAction
  <2>1. queue[1].kind = "action"
    BY <1>3, <1>7 DEF RunAction, Takes
  <2>2. queue[1].action = Reply(r)
    BY <2>1 DEF Concerns, RepliesTo
  <2>3. queue[1].of = control /\ Fire(control, queue[1].action)
    BY <1>3, <1>7 DEF RunAction
  <2>4. Live(control)
    BY <2>3 DEF Live
  <2>5. requests' = [requests EXCEPT ![r].replies = @ + 1]
    BY <2>2, <2>3, <2>4 DEF Fire, Told, Reply
  <2> QED
    BY <1>1, <1>8, <2>5
<1> QED
  BY <1>5, <1>6, <1>7

\* However a step moves it, it stays.
LEMMA StaysOnWay ==
  ASSUME LinkInv, ControlTypeOK, HasControl, Behind, InOnePlace, ControlStep,
         UNCHANGED connection, connected, ~dangling', NEW r \in Made, OnWay(r)
  PROVE  OnWay(r)'
<1>0. TypeOK /\ r \in Nat
  BY RecordsAt DEF LinkInv, TypeOK
<1>1. CASE NoneMoves
  BY <1>1 DEF NoneMoves, OnWay
<1>2. CASE HeadGone
  <2>1. HeadTaken /\ UNCHANGED <<tasks, requests>>
    BY <1>2 DEF HeadGone
  <2>2. ~(Concerns(queue[1], r) /\ queue[1].of = connection)
    BY <1>0, <1>2, NothingLost
  <2>3. \A i \in Positions : Concerns(queue[i], r) /\ queue[i].of = connection =>
          i - 1 \in Positions' /\ Concerns(queue'[i - 1], r) /\ queue'[i - 1].of = connection
    BY <2>1, <2>2 DEF HeadTaken
  <2> QED
    BY <2>1, <2>3 DEF OnWay
<1>3. ASSUME NEW q \in Nat, HeadAnswers(q) PROVE OnWay(r)'
  <2>1. HeadTaken /\ UNCHANGED tasks
    BY <1>3 DEF HeadAnswers
  <2>2. q \in Made /\ requests'[q].replies = 1 /\ \A p \in Made : p # q => requests'[p] = requests[p]
    BY <1>3, HeadAnswersOnce
  <2>3. CASE r = q
    BY <2>2, <2>3 DEF OnWay
  <2>4. CASE r # q
    <3>1. Concerns(queue[1], q) /\ 1 \in Positions
      BY <1>3, <2>1 DEF HeadAnswers, HeadTaken
    <3>2. ~Concerns(queue[1], r)
      BY <2>4, <3>1 DEF Concerns, RepliesTo, Reply
    <3>3. \A i \in Positions : Concerns(queue[i], r) /\ queue[i].of = connection =>
            i - 1 \in Positions' /\ Concerns(queue'[i - 1], r) /\ queue'[i - 1].of = connection
      BY <2>1, <3>2 DEF HeadTaken
    <3> QED
      BY <2>1, <2>2, <2>4, <3>3 DEF OnWay
  <2> QED
    BY <2>3, <2>4
<1>4. CASE HeadToGame
  <2>1. HeadTaken /\ UNCHANGED requests
    BY <1>4 DEF HeadToGame
  <2>2. PICK l \in Nat : l = Len(tasks) + 1
    BY <1>4 DEF HeadToGame
  <2>3. /\ \A i \in 1 .. Len(tasks) : i \in 1 .. Len(tasks') /\ tasks'[i] = tasks[i]
        /\ l \in 1 .. Len(tasks') /\ tasks'[l] = [of |-> queue[1].of, request |-> queue[1].request]
    BY <1>4, <2>2 DEF HeadToGame
  <2>4. Concerns(queue[1], r) => queue[1].request = r
    BY <1>4 DEF HeadToGame, Concerns, RepliesTo
  <2>5. \A i \in Positions : Concerns(queue[i], r) /\ queue[i].of = connection =>
          \/ i - 1 \in Positions' /\ Concerns(queue'[i - 1], r) /\ queue'[i - 1].of = connection
          \/ tasks'[l] = [of |-> connection, request |-> r]
    BY <2>1, <2>3, <2>4 DEF HeadTaken
  <2> QED
    BY <2>1, <2>3, <2>5 DEF OnWay
<1>5. CASE GameToQueue
  <2>1. PICK l \in Nat :
          /\ \A i \in Positions : i \in Positions' /\ queue'[i] = queue[i]
          /\ l \in Positions' /\ queue'[l] = ActionTask(tasks[1].of, Reply(tasks[1].request))
    BY <1>5 DEF GameToQueue, TaskAdded
  <2>2. queue'[l].of = tasks[1].of /\ Concerns(queue'[l], tasks[1].request)
    BY <2>1, WhatConcerns DEF ActionTask
  <2>3. /\ UNCHANGED requests
        /\ \A i \in 1 .. Len(tasks) : i # 1 => i - 1 \in 1 .. Len(tasks') /\ tasks'[i - 1] = tasks[i]
    BY <1>5 DEF GameToQueue
  <2>4. CASE tasks[1] = [of |-> connection, request |-> r]
    BY <2>1, <2>2, <2>4 DEF OnWay
  <2>5. CASE tasks[1] # [of |-> connection, request |-> r]
    BY <2>1, <2>3, <2>5 DEF OnWay
  <2> QED
    BY <2>4, <2>5
<1>6. CASE OneAsked
  <2>1. requests'[r] = requests[r] /\ UNCHANGED tasks
    BY <1>0, <1>6, OneAskedOnce DEF OneAsked
  <2>2. \A i \in Positions : i \in Positions' /\ queue'[i] = queue[i]
    BY <1>6 DEF OneAsked, TaskAdded
  <2> QED
    BY <2>1, <2>2 DEF OnWay
<1> QED
  BY <1>0, <1>1, <1>2, <1>3, <1>4, <1>5, <1>6, RequestMoves

\* Requests of the connection that lasts stay on their way.
LEMMA StaysOnItsWay ==
  ASSUME LinkInv, ControlTypeOK, HasControl, TasksKnown, Behind, InOnePlace, OnItsWay, ControlStep
  PROVE  OnItsWay'
<1>0. TypeOK
  BY DEF LinkInv, TypeOK
<1> SUFFICES ASSUME NEW r \in Made', connected', requests'[r].of = connection', ~dangling'
             PROVE  OnWay(r)'
  BY DEF OnItsWay, Live
<1>1. ~dangling
  BY DanglingStays
<1>2. CASE r \in Made
  <2>1. requests[r].of = connection' /\ requests[r].of \in Nat /\ requests[r].of <= connection
    BY <1>0, <1>2, RequestsStay, RecordsAt DEF TasksKnown, Made
  <2>2. connected /\ connection' = connection
    <3>1. ~Disconnects
      BY DEF Disconnects
    <3>2. ~NewConnection
      <4>1. ASSUME NewConnection PROVE FALSE
        <5>1. connection' = connection + 1 /\ connection \in Nat
          BY <4>1 DEF NewConnection, Connects, LinkInv, LinkTypeOK
        <5> QED
          BY <2>1, <5>1
      <4> QED
        BY <4>1
    <3> QED
      BY <3>1, <3>2, ControlChanges
  <2>3. OnWay(r)
    BY <1>1, <1>2, <2>1, <2>2 DEF OnItsWay, Live
  <2> QED
    BY <1>2, <2>2, <2>3, StaysOnWay
<1>3. CASE r \notin Made
  <2>1. RiderRequests /\ r = Len(requests) + 1
    BY <1>0, <1>3, RequestsStay
  <2>2. RequestTask \in Tasks
    BY <1>0, RequestIsTask
  <2>3. queue' = Append(queue, RequestTask) /\ connection' = connection
    BY <2>1 DEF RiderRequests, RequestTask
  <2>4. TaskAdded(RequestTask)
    BY <1>0, <2>2, <2>3, AddedBehind DEF TypeOK, LinkTypeOK
  <2>5. PICK l \in Nat : l \in Positions' /\ queue'[l] = RequestTask
    BY <2>4 DEF TaskAdded
  <2>6. Concerns(queue'[l], r) /\ queue'[l].of = connection'
    <3>1. Concerns(RequestTask, r)
      BY <2>1, WhatConcerns
    <3>2. RequestTask.of = connection
      BY DEF RequestTask
    <3> QED
      BY <2>3, <2>5, <3>1, <3>2
  <2>7. \E i \in Positions' : Concerns(queue'[i], r) /\ queue'[i].of = connection'
    BY <2>5, <2>6
  <2> QED
    BY <2>7 DEF OnWay
<1> QED
  BY <1>2, <1>3

-----------------------------------------------------------------------------
(* The play states of the connection that lasts.                           *)

\* Which steps change the play state and what Rider knows of it.
LEMMA StateChanges ==
  ASSUME ControlStep
  PROVE  \/ NewConnection \/ Subscribe \/ Reset \/ RunAction \/ \E e \in Events : PlayEvent(e)
         \/ UNCHANGED <<subscribed, state, toldState>>
<1>1. \A c, m : Fire(c, Mode(m)) => UNCHANGED toldState
  BY DEF Fire, Told, Mode
<1>2. \A c, r : Fire(c, Reply(r)) => UNCHANGED toldState
  BY DEF Fire, Told, Reply
<1>3. CASE RunRequest
  BY <1>2, <1>3 DEF RunRequest, RequestPlayWorldCommand
<1>4. CASE TellInitialMode \/ UpdateSettings
  BY <1>1, <1>4 DEF TellInitialMode, UpdateSettings
<1> QED
  BY <1>3, <1>4 DEF ControlStep, controlVars, ReadSettings, RiderRequests, ExecuteCommand,
     UserChanges, RetrieveSettings, KeepMode, ScheduleMode, RiderSetsMode, GetMode

\* The states of a delegate end in the state it stands for.
LEMMA FiredEndsIn ==
  ASSUME NEW e \in Events
  PROVE  Fired(e)[Len(Fired(e))] = Becomes(e)
BY DEF Fired, Becomes, Events

\* Nothing that tells of states is added or taken.
LEMMA TellingStays ==
  ASSUME Telling, UNCHANGED <<connection, subscribed, state, toldState>>, connected, ~dangling,
         \/ /\ \A i \in Positions : i \in Positions' /\ queue'[i] = queue[i]
            /\ \A i \in Positions' : i \in Positions \/ ~Tells(queue'[i])
         \/ HeadTaken /\ ~Tells(queue[1])
  PROVE  Telling'
<1>1. /\ \A i \in Positions : Tells(queue[i]) =>
           /\ subscribed = connection
           /\ (\A j \in Positions : i < j => ~Tells(queue[j])) => LastState(queue[i]) = state
      /\ toldState # "none" =>
           /\ subscribed = connection
           /\ (\A j \in Positions : ~Tells(queue[j])) => toldState = state
  BY DEF Telling
<1>2. \A t : Tells(t)' <=> Tells(t)
  BY DEF Tells
<1>3. CASE /\ \A i \in Positions : i \in Positions' /\ queue'[i] = queue[i]
           /\ \A i \in Positions' : i \in Positions \/ ~Tells(queue'[i])
  <2>1. ASSUME NEW i \in Positions', Tells(queue'[i])
        PROVE  /\ subscribed = connection
               /\ (\A j \in Positions' : i < j => ~Tells(queue'[j])) => LastState(queue'[i]) = state
    BY <1>1, <1>3, <2>1
  <2>2. toldState # "none" => ((\A j \in Positions' : ~Tells(queue'[j])) => toldState = state)
    BY <1>1, <1>3
  <2> QED
    BY <1>1, <1>2, <2>1, <2>2 DEF Telling, Tells, LastState
<1>4. CASE HeadTaken /\ ~Tells(queue[1])
  <2>1. \A i \in Positions' : i \in Nat \ {0} /\ i + 1 \in Positions /\ queue'[i] = queue[i + 1]
    BY <1>4 DEF HeadTaken
  <2>2. \A j \in Positions : j \in Nat /\ 1 <= j /\ (Tells(queue[j]) =>
          j - 1 \in Positions' /\ queue'[j - 1] = queue[j])
    BY <1>4 DEF HeadTaken
  <2>3. ASSUME NEW i \in Positions', Tells(queue'[i])
        PROVE  /\ subscribed = connection
               /\ (\A j \in Positions' : i < j => ~Tells(queue'[j])) => LastState(queue'[i]) = state
    <3>1. i \in Nat /\ i + 1 \in Positions /\ Tells(queue[i + 1]) /\ queue'[i] = queue[i + 1]
      BY <2>1, <2>3
    <3>2. ASSUME \A j \in Positions' : i < j => ~Tells(queue'[j]), NEW j \in Positions, i + 1 < j
          PROVE  ~Tells(queue[j])
      <4>1. i < j - 1 /\ j \in Nat
        BY <2>2, <3>1, <3>2
      <4> QED
        BY <2>2, <3>2, <4>1
    <3> QED
      BY <1>1, <3>1, <3>2
  <2>4. toldState # "none" => ((\A j \in Positions' : ~Tells(queue'[j])) => toldState = state)
    BY <1>1, <2>2
  <2> QED
    BY <1>1, <1>2, <2>3, <2>4 DEF Telling, Tells, LastState
<1> QED
  BY <1>3, <1>4

\* What is told is the first of what was to be told.
LEMMA TellingMoves ==
  ASSUME Telling, UNCHANGED <<connection, subscribed, state>>, connected, ~dangling,
         HeadTaken, Tells(queue[1]), toldState' = LastState(queue[1])
  PROVE  Telling'
<1>1. /\ \A i \in Positions : Tells(queue[i]) =>
           /\ subscribed = connection
           /\ (\A j \in Positions : i < j => ~Tells(queue[j])) => LastState(queue[i]) = state
  BY DEF Telling
<1>2. \A i \in Positions' : i \in Nat \ {0} /\ i + 1 \in Positions /\ queue'[i] = queue[i + 1]
  BY DEF HeadTaken
<1>3. \A j \in Positions : j \in Nat /\ 1 <= j /\ (j # 1 =>
        j - 1 \in Positions' /\ queue'[j - 1] = queue[j])
  BY DEF HeadTaken
<1>4. 1 \in Positions /\ subscribed = connection
  BY <1>1 DEF HeadTaken
<1>5. ASSUME NEW i \in Positions', Tells(queue'[i]), \A j \in Positions' : i < j => ~Tells(queue'[j])
      PROVE  LastState(queue'[i]) = state
  <2>1. i \in Nat /\ i + 1 \in Positions /\ Tells(queue[i + 1]) /\ queue'[i] = queue[i + 1]
    BY <1>2, <1>5
  <2>2. ASSUME NEW j \in Positions, i + 1 < j PROVE ~Tells(queue[j])
    <3>1. i < j - 1 /\ j # 1
      BY <1>3, <2>1, <2>2
    <3> QED
      BY <1>3, <1>5, <3>1
  <2> QED
    BY <1>1, <2>1, <2>2
<1>6. ASSUME \A j \in Positions' : ~Tells(queue'[j]) PROVE toldState' = state
  <2>1. \A j \in Positions : 1 < j => ~Tells(queue[j])
    BY <1>3, <1>6
  <2> QED
    BY <1>1, <1>4, <2>1
<1>7. \A t : Tells(t)' <=> Tells(t)
  BY DEF Tells
<1> QED
  BY <1>4, <1>5, <1>6, <1>7 DEF Telling, Tells, LastState

\* Whoever is not subscribed for the connection that lasts has told nothing.
LEMMA NothingToldYet ==
  ASSUME Telling, connected, ~dangling, subscribed # connection
  PROVE  toldState = "none" /\ \A i \in Positions : ~Tells(queue[i])
BY DEF Telling

\* The play states of the connection that lasts go on to end in the editor's.
LEMMA StaysTelling ==
  ASSUME LinkInv, ControlTypeOK, SubscribersKnown, TasksKnown, Telling, ControlStep
  PROVE  Telling'
<1>0. /\ TypeOK /\ LinkTypeOK /\ connection \in Nat /\ EditorModel \in Nat /\ subscribed \in Nat
      /\ EditorModel <= connection /\ subscribed <= EditorModel
      /\ connected => connection # 0
  BY DEF LinkInv, TypeOK, LinkTypeOK, Numbered, ControlTypeOK, SubscribersKnown
<1> SUFFICES ASSUME connected', ~dangling' PROVE Telling'
  BY DEF Telling
<1>1. ~dangling
  BY DanglingStays
<1>2. CASE NewConnection
  <2>1. connection' = connection + 1 /\ LinkTasksAdded /\ toldState' = "none"
    BY <1>0, <1>2, ConnectsAdds DEF NewConnection, Connects
  <2>2. ASSUME NEW i \in Positions' PROVE ~(queue'[i].kind = "action" /\ queue'[i].of = connection')
    <3>1. queue'[i].kind = "action" => queue'[i] \in Tasks /\ queue'[i].of <= connection
      <4>1. \A j \in Positions : queue[j] \in Tasks
        BY <1>0, ElementOfSeq DEF LinkTypeOK, Positions
      <4> QED
        BY <2>1, <4>1 DEF LinkTasksAdded, TasksKnown
    <3>2. queue'[i].kind = "action" => queue'[i].of \in Nat
      BY <3>1, TaskKinds
    <3> QED
      BY <1>0, <2>1, <3>1, <3>2
  <2> QED
    BY <2>1, <2>2 DEF Telling, Tells
<1>3. CASE ~NewConnection
  <2>0. connected /\ connection' = connection /\ connection # 0
    BY <1>0, <1>3, ControlChanges DEF Disconnects
  <2>1. CASE Subscribe
    <3>1. UNCHANGED <<queue, state, toldState>> /\ subscribed' = EditorModel
      BY <2>1, ViewerFindsModel DEF Subscribe, Goes
    <3>2. subscribed = connection => subscribed' = connection
      BY <1>0, <3>1
    <3> QED
      BY <1>1, <2>0, <3>1, <3>2 DEF Telling, Tells, LastState, Positions
  <2>2. CASE Reset
    <3>1. ~Begun /\ UNCHANGED toldState
      BY <2>2, DropIsNotOfTheLast DEF Reset
    <3>2. subscribed # connection
      BY <1>0, <2>0, <3>1 DEF Begun
    <3>3. toldState = "none" /\ \A i \in Positions : ~Tells(queue[i])
      BY <1>1, <2>0, <3>2, NothingToldYet
    <3>4. \A i \in Positions' : ~Tells(queue'[i])
      BY <1>0, <2>2, <3>3, TaskTaken
    <3> QED
      BY <2>0, <3>1, <3>3, <3>4 DEF Telling, Tells
  <2>3. CASE RunAction
    <3>1. HeadTaken /\ queue[1] = Head(queue)
      BY <1>0, <2>3, TaskTaken DEF HeadTaken
    <3>2. queue[1].kind = "action" /\ UNCHANGED <<subscribed, state>>
      BY <2>3, <3>1 DEF RunAction, Takes
    <3>3. queue[1].of = control /\ Fire(control, queue[1].action)
      BY <2>3, <3>1 DEF RunAction
    <3>4. CASE Tells(queue[1])
      <4>1. toldState' = LastState(queue[1])
        BY <2>0, <3>3, <3>4 DEF Tells, Fire, Told, Live, LastState
      <4> QED
        BY <1>1, <2>0, <3>1, <3>2, <3>4, <4>1, TellingMoves
    <3>5. CASE ~Tells(queue[1])
      <4>1. UNCHANGED toldState
        BY <3>2, <3>3, <3>5 DEF Tells, Fire, Told, Live
      <4> QED
        BY <1>1, <2>0, <3>1, <3>2, <3>5, <4>1, TellingStays
    <3> QED
      BY <3>4, <3>5
  <2>4. ASSUME NEW e \in Events, PlayEvent(e) PROVE Telling'
    <3>1. UNCHANGED <<subscribed, toldState>> /\ state' = Becomes(e)
      BY <2>4 DEF PlayEvent
    <3>2. CASE subscribed = 0
      <4>1. UNCHANGED queue /\ subscribed # connection
        BY <2>0, <2>4, <3>2 DEF PlayEvent
      <4>2. toldState = "none" /\ \A i \in Positions : ~Tells(queue[i])
        BY <1>1, <2>0, <4>1, NothingToldYet
      <4> QED
        BY <2>0, <3>1, <4>1, <4>2 DEF Telling, Tells, Positions
    <3>3. CASE subscribed # 0
      <4>1. StateTask(e) \in Tasks
        BY <1>0, NewTasks, ActionKinds, TasksAreTasks DEF StateTask
      <4>2. queue' = Append(queue, StateTask(e))
        BY <2>4, <3>3 DEF PlayEvent, StateTask
      <4>3. TaskAdded(StateTask(e))
        BY <1>0, <4>1, <4>2, AddedBehind DEF LinkTypeOK
      <4>4. PICK l \in Nat :
              /\ \A i \in Positions : i \in Positions' /\ queue'[i] = queue[i] /\ i < l
              /\ l \in Positions' /\ queue'[l] = StateTask(e)
              /\ \A i \in Positions' : i \in Positions \/ i = l
        BY <4>3 DEF TaskAdded
      <4>5. CASE subscribed = connection
        <5>1. Tells(queue'[l]) /\ LastState(queue'[l]) = state'
          BY <2>0, <3>1, <4>4, <4>5, FiredEndsIn DEF Tells, LastState, StateTask, ActionTask, States
        <5>2. \A i \in Positions' : i = l \/ i < l
          BY <4>4
        <5>3. /\ \A i \in Positions' :
                   (\A j \in Positions' : i < j => ~Tells(queue'[j])) => LastState(queue'[i]) = state'
              /\ ~(\A j \in Positions' : ~Tells(queue'[j]))
          BY <4>4, <5>1, <5>2
        <5>4. \A t : Tells(t)' <=> Tells(t)
          BY <2>0 DEF Tells
        <5> QED
          BY <2>0, <3>1, <4>5, <5>3, <5>4 DEF Telling, Tells, LastState
      <4>6. CASE subscribed # connection
        <5>1. toldState = "none" /\ \A i \in Positions : ~Tells(queue[i])
          BY <1>1, <2>0, <4>6, NothingToldYet
        <5>2. ~Tells(queue'[l])
          BY <4>4, <4>6 DEF Tells, StateTask, ActionTask
        <5>3. \A i \in Positions' : ~Tells(queue'[i])
          BY <4>4, <5>1, <5>2
        <5> QED
          BY <2>0, <3>1, <5>1, <5>3 DEF Telling, Tells
      <4> QED
        BY <4>5, <4>6
    <3> QED
      BY <3>2, <3>3
  <2>5. CASE /\ UNCHANGED <<subscribed, state, toldState>>
             /\ ~RunAction /\ ~Reset /\ ~\E e \in Events : PlayEvent(e)
    <3>1. CASE LinkTasksAdded
      <4>1. \A i \in Positions' : i \in Positions \/ ~Tells(queue'[i])
        BY <3>1 DEF LinkTasksAdded, Tells
      <4> QED
        BY <1>1, <2>0, <2>5, <3>1, <4>1, TellingStays DEF LinkTasksAdded
    <3>2. ASSUME NEW t, TaskAdded(t), t.kind # "action" \/ t.action.about # "states"
          PROVE  Telling'
      <4>1. /\ \A i \in Positions : i \in Positions' /\ queue'[i] = queue[i]
            /\ \A i \in Positions' : i \in Positions \/ ~Tells(queue'[i])
        BY <3>2 DEF TaskAdded, Tells
      <4> QED
        BY <1>1, <2>0, <2>5, <4>1, TellingStays
    <3>3. CASE IgnoreDisconnected \/ CreateModel \/ GetMode \/ RunRequest
      <4>1. HeadTaken /\ queue[1] = Head(queue)
        BY <1>0, <3>3, TaskTaken DEF HeadTaken
      <4>2. queue[1].kind # "action"
        BY <3>3, <4>1 DEF IgnoreDisconnected, CreateModel, GetMode, RunRequest, Takes
      <4> QED
        BY <1>1, <2>0, <2>5, <4>1, <4>2, TellingStays DEF Tells
    <3>4. \/ LinkTasksAdded
          \/ \E t : TaskAdded(t) /\ (t.kind # "action" \/ t.action.about # "states")
          \/ IgnoreDisconnected \/ CreateModel \/ GetMode \/ RunRequest
      <4>1. RequestTask.kind = "request" /\ ReplyTask.action.about = "reply"
            /\ ActionTask(game.of, Mode(game.mode)).action.about = "mode"
            /\ \A m \in RiderModes : ModeTask(m).kind = "mode"
        BY DEF RequestTask, ReplyTask, ModeTask, ActionTask, Mode, Reply
      <4> QED
        BY <1>0, <2>5, <4>1, QueueMoves
    <3> QED
      BY <3>1, <3>2, <3>3, <3>4
  <2> QED
    BY <1>3, <2>1, <2>2, <2>3, <2>4, <2>5, StateChanges
<1> QED
  BY <1>2, <1>3

-----------------------------------------------------------------------------
(* The mode of play.                                                       *)

\* The integers that stand for the play modes, and what they stand for.
LEMMA PlayModeNumbers ==
  ASSUME NEW m \in EPlayModeType
  PROVE  /\ PlayModeToInt(m) \in 0 .. 6
         /\ PlayModeFromInt(PlayModeToInt(m)) = AsTold(m)
<1>1. /\ DOMAIN PlayModes = 1 .. 6
      /\ PlayModes[1] = "MobilePreview" /\ PlayModes[2] = "EditorFloating" /\ PlayModes[3] = "VR"
      /\ PlayModes[4] = "NewProcess" /\ PlayModes[5] = "Simulate" /\ PlayModes[6] = "VulkanPreview"
  BY DEF PlayModes
<1>2. CASE m = "ViewPort"
  BY <1>1, <1>2 DEF PlayModeToInt, PlayModeFromInt, AsTold
<1>3. CASE m = "TargetedMobilePreview"
  BY <1>1, <1>3 DEF PlayModeToInt, PlayModeFromInt, AsTold
<1>4. CASE m \notin {"ViewPort", "TargetedMobilePreview"}
  <2>1. \E n \in DOMAIN PlayModes : PlayModes[n] = m
    BY <1>1, <1>4 DEF EPlayModeType
  <2>2. PlayModeToInt(m) = CHOOSE n \in DOMAIN PlayModes : PlayModes[n] = m
    BY <1>4 DEF PlayModeToInt
  <2>3. PlayModeToInt(m) \in DOMAIN PlayModes /\ PlayModes[PlayModeToInt(m)] = m
    BY <2>1, <2>2, Zenon
  <2> QED
    BY <1>1, <1>4, <2>3 DEF PlayModeFromInt, AsTold
<1> QED
  BY <1>2, <1>3, <1>4

\* Every integer stands for a play mode, the ones out of range for the view port.
LEMMA IntsArePlayModes ==
  ASSUME NEW k \in Nat
  PROVE  PlayModeFromInt(k) \in EPlayModeType
<1>1. /\ DOMAIN PlayModes = 1 .. 6
      /\ \A n \in 1 .. 6 : PlayModes[n] \in EPlayModeType
  BY DEF PlayModes, EPlayModeType
<1> QED
  BY <1>1 DEF PlayModeFromInt, EPlayModeType

\* The fields of a packed mode do not overlap, up to four clients.
LEMMA FieldsOfMode ==
  ASSUME NEW n \in 0 .. 3, NEW a \in {0, 4}, NEW b \in {0, 8}, NEW k \in 0 .. 6,
         NEW p \in Nat, p = n + a + b + k * 16
  PROVE  /\ (p \div 16) % 8 = k
         /\ p % 4 = n
         /\ (p \div 8) % 2 = 1 <=> b = 8
         /\ (p \div 4) % 2 = 1 <=> a = 4
<1>1. p \div 16 = k
  OBVIOUS
<1>2. p % 4 = n
  OBVIOUS
<1>3. (p \div 8) % 2 = 1 <=> b = 8
  OBVIOUS
<1>4. (p \div 4) % 2 = 1 <=> a = 4
  OBVIOUS
<1> QED
  BY <1>1, <1>2, <1>3, <1>4

\* Settings pack into a natural number, so never into what stands for no mode,
\* and up to four clients they are what the number unpacks into, but for the play
\* mode that shares its number with another one.
LEMMA PackingIsExact ==
  ASSUME NEW s \in FPlaySettings
  PROVE  /\ PackToMode(s) \in Nat
         /\ s.NumberOfClients <= 4 =>
              UnpackFromMode(PackToMode(s)) = [s EXCEPT !.PlayMode = AsTold(@)]
<1>1. /\ s.NumberOfClients \in Nat \ {0} /\ s.PlayMode \in EPlayModeType
      /\ s.bNetDedicated \in BOOLEAN /\ s.bSpawnAtPlayerStart \in BOOLEAN
      /\ s = [PlayMode |-> s.PlayMode, NumberOfClients |-> s.NumberOfClients,
              bNetDedicated |-> s.bNetDedicated, bSpawnAtPlayerStart |-> s.bSpawnAtPlayerStart]
  BY DEF FPlaySettings
<1>2. PICK n \in Nat : s.NumberOfClients = n + 1
  <2>1. s.NumberOfClients - 1 \in Nat /\ s.NumberOfClients = (s.NumberOfClients - 1) + 1
    BY <1>1
  <2> QED
    BY <2>1
<1>3. PICK k \in 0 .. 6 : k = PlayModeToInt(s.PlayMode)
  BY <1>1, PlayModeNumbers
<1>4. PICK a \in {0, 4} : a = IF s.bSpawnAtPlayerStart THEN 4 ELSE 0
  OBVIOUS
<1>5. PICK b \in {0, 8} : b = IF s.bNetDedicated THEN 8 ELSE 0
  OBVIOUS
<1>6. PackToMode(s) = n + a + b + k * 16
  <2>1. s.NumberOfClients - 1 = n
    BY <1>2
  <2> QED
    BY <1>3, <1>4, <1>5, <2>1 DEF PackToMode
<1>7. PackToMode(s) \in Nat
  <2>1. n + a + b + k * 16 \in Nat
    OBVIOUS
  <2> QED
    BY <1>6, <2>1
<1>8. ASSUME s.NumberOfClients <= 4
      PROVE  UnpackFromMode(PackToMode(s)) = [s EXCEPT !.PlayMode = AsTold(s.PlayMode)]
  <2>1. n \in 0 .. 3
    BY <1>2, <1>8
  <2>2. PICK p \in Nat : p = PackToMode(s)
    BY <1>7
  <2>3. /\ (p \div 16) % 8 = k
        /\ p % 4 = n
        /\ (p \div 8) % 2 = 1 <=> b = 8
        /\ (p \div 4) % 2 = 1 <=> a = 4
    BY <1>6, <2>1, <2>2, FieldsOfMode
  <2>4. PlayModeFromInt((p \div 16) % 8) = AsTold(s.PlayMode)
    BY <1>1, <1>3, <2>3, PlayModeNumbers
  <2>5. (p % 4) + 1 = s.NumberOfClients
    BY <1>2, <2>3
  <2>6. Bit(p, 8) = s.bNetDedicated /\ Bit(p, 4) = s.bSpawnAtPlayerStart
    BY <1>1, <1>4, <1>5, <2>3 DEF Bit
  <2> QED
    BY <1>1, <2>2, <2>4, <2>5, <2>6 DEF UnpackFromMode, FPlaySettings
<1> QED
  BY <1>7, <1>8

\* The settings there can be are settings: the user's, and what Rider's modes unpack into.
LEMMA PossibleAreSettings ==
  PossibleSettings \subseteq FPlaySettings /\ Modes \subseteq Nat
<1>1. ASSUME NEW m \in RiderModes PROVE UnpackFromMode(m) \in FPlaySettings
  <2>1. m \in Nat
    BY ControlAssumption
  <2>2. (m \div 16) % 8 \in Nat /\ (m % 4) + 1 \in Nat \ {0}
    BY <2>1
  <2>3. Bit(m, 8) \in BOOLEAN /\ Bit(m, 4) \in BOOLEAN
    BY DEF Bit
  <2> QED
    BY <2>2, <2>3, IntsArePlayModes DEF UnpackFromMode, FPlaySettings
<1>2. PossibleSettings \subseteq FPlaySettings
  BY <1>1, ControlAssumption DEF PossibleSettings
<1> QED
  BY <1>2, PackingIsExact DEF Modes

\* While the scheduler's thread handles settings, nothing of the user's is underway.
LEMMA NothingUnderway ==
  ASSUME LinkTypeOK, NotAtOnce, ~crossed, running.step \in {"view", "sync", "tell", "update"}
  PROVE  game = Idle /\ \A i \in Positions : ~TellsMode(queue[i])
<1>1. DOMAIN queue = Positions
  BY DEF LinkTypeOK, Positions
<1> QED
  BY <1>1 DEF NotAtOnce, Crossing, UserUnderway, TellsMode

\* Which steps change what the mode is about, and what the scheduler's thread does.
LEMMA ModeChanges ==
  ASSUME ControlStep
  PROVE  /\ \/ UNCHANGED <<settings, playMode, game, toldMode>>
            \/ NewConnection \/ RunAction \/ Subscribe \/ ReadSettings \/ TellInitialMode
            \/ (\E s \in Settings : UserChanges(s)) \/ RetrieveSettings \/ KeepMode
            \/ ScheduleMode \/ UpdateSettings
         /\ \/ UNCHANGED running
            \/ CreateModel \/ Register \/ BecomeAlive \/ Subscribe \/ ReadSettings
            \/ TellInitialMode \/ GetMode \/ UpdateSettings
<1>1. \A c, r : Fire(c, Reply(r)) => UNCHANGED toldMode
  BY DEF Fire, Told, Reply
<1>2. RunRequest => UNCHANGED <<settings, playMode, game, toldMode, running>>
  BY <1>1 DEF RunRequest, RequestPlayWorldCommand
<1>3. \/ UNCHANGED <<settings, playMode, game, toldMode>>
      \/ NewConnection \/ RunAction \/ Subscribe \/ ReadSettings \/ TellInitialMode
      \/ (\E s \in Settings : UserChanges(s)) \/ RetrieveSettings \/ KeepMode
      \/ ScheduleMode \/ UpdateSettings
  BY <1>2 DEF ControlStep, controlVars, Reset, RiderRequests, ExecuteCommand, PlayEvent,
     RiderSetsMode, GetMode
<1>4. \/ UNCHANGED running
      \/ CreateModel \/ Register \/ BecomeAlive \/ Subscribe \/ ReadSettings
      \/ TellInitialMode \/ GetMode \/ UpdateSettings
  BY <1>2 DEF ControlStep, linkVars, LinkStep, Disconnects, IgnoreDisconnected, FireAsyncAction,
     FireAsyncReturns, NewConnection, Connects, RunAction, Reset, Drop, RiderRequests,
     ExecuteCommand, PlayEvent, UserChanges, RetrieveSettings, KeepMode, ScheduleMode, RiderSetsMode
<1> QED
  BY <1>3, <1>4

\* The delegates and an update go on with the control there is.
LEMMA StaysHeld ==
  ASSUME LinkInv, ControlTypeOK, HeldByDelegates, ControlStep
  PROVE  HeldByDelegates'
<1>1. control' # 0 => subscribed' = control'
  <2>1. CASE Subscribe
    BY <2>1 DEF Subscribe
  <2>2. CASE TellInitialMode
    BY <2>2 DEF TellInitialMode, HeldByDelegates
  <2>3. CASE Reset
    BY <2>3 DEF Reset
  <2> QED
    BY <2>1, <2>2, <2>3, ControlChanges DEF HeldByDelegates
<1>2. ASSUME running'.step = "update" PROVE control' # 0 /\ running'.of = control'
  <2>1. CASE GetMode
    <3>1. running' # Idle
      BY <1>2, RunningKinds
    <3>2. Listens(Head(queue)) /\ running'.of = Head(queue).of
      BY <2>1, <3>1 DEF GetMode
    <3>3. running'.of = control /\ control # 0
      BY <3>2 DEF Listens, Live, LinkInv, Numbered
    <3> QED
      BY <2>1, <3>3 DEF GetMode, controlVars
  <2>2. CASE UNCHANGED running
    <3>1. running.step = "update" /\ running # Idle
      BY <1>2, <2>2, RunningKinds
    <3>2. UNCHANGED control
      BY <3>1, ControlChanges DEF Subscribe, TellInitialMode, Reset, Drop, Takes
    <3> QED
      BY <2>2, <3>1, <3>2 DEF HeldByDelegates
  <2>3. CASE CreateModel \/ Register \/ BecomeAlive \/ Subscribe \/ ReadSettings
             \/ TellInitialMode \/ UpdateSettings
    <3>1. \E c : running' \in {Idle} \union {At(s, c) : s \in ModelSteps}
      BY <2>3 DEF CreateModel, Register, BecomeAlive, Subscribe, ReadSettings, TellInitialMode,
           UpdateSettings, Goes, ModelSteps
    <3> QED
      BY <1>2, <3>1 DEF Idle, At, ModelSteps
  <2> QED
    BY <2>1, <2>2, <2>3, ModeChanges
<1> QED
  BY <1>1, <1>2 DEF HeldByDelegates

\* Nothing that tells of a mode is added or taken.
LEMMA QueueStaysFollowing ==
  ASSUME QueueFollows, UNCHANGED <<connection, playMode, toldMode>>,
         game'.step # "schedule" => game.step # "schedule",
         \/ /\ \A i \in Positions : i \in Positions' /\ queue'[i] = queue[i]
            /\ \A i \in Positions' : i \in Positions \/ ~TellsMode(queue'[i])
         \/ HeadTaken /\ ~TellsMode(queue[1])
  PROVE  QueueFollows'
<1>1. CASE /\ \A i \in Positions : i \in Positions' /\ queue'[i] = queue[i]
           /\ \A i \in Positions' : i \in Positions \/ ~TellsMode(queue'[i])
  <2>1. \A i \in Positions' : TellsMode(queue'[i]) => queue'[i].of = connection
    BY <1>1 DEF QueueFollows
  <2>2. ASSUME game'.step # "schedule"
        PROVE  /\ \A i \in Positions' :
                    TellsMode(queue'[i]) /\ (\A j \in Positions' : i < j => ~TellsMode(queue'[j])) =>
                      queue'[i].action.value = playMode
               /\ (\A j \in Positions' : ~TellsMode(queue'[j])) => toldMode = playMode
    BY <1>1, <2>2 DEF QueueFollows
  <2> QED
    BY <2>1, <2>2 DEF QueueFollows
<1>2. CASE HeadTaken /\ ~TellsMode(queue[1])
  <2>1. \A i \in Positions' : i \in Nat \ {0} /\ i + 1 \in Positions /\ queue'[i] = queue[i + 1]
    BY <1>2 DEF HeadTaken
  <2>2. \A j \in Positions : j \in Nat /\ 1 <= j /\ (TellsMode(queue[j]) =>
          j - 1 \in Positions' /\ queue'[j - 1] = queue[j])
    BY <1>2 DEF HeadTaken
  <2>3. \A i \in Positions' : TellsMode(queue'[i]) => queue'[i].of = connection
    BY <2>1 DEF QueueFollows
  <2>4. ASSUME game'.step # "schedule", NEW i \in Positions', TellsMode(queue'[i]),
               \A j \in Positions' : i < j => ~TellsMode(queue'[j])
        PROVE  queue'[i].action.value = playMode
    <3>1. i \in Nat /\ i + 1 \in Positions /\ TellsMode(queue[i + 1]) /\ queue'[i] = queue[i + 1]
      BY <2>1, <2>4
    <3>2. ASSUME NEW j \in Positions, i + 1 < j PROVE ~TellsMode(queue[j])
      <4>1. i < j - 1 /\ j \in Nat
        BY <2>2, <3>1, <3>2
      <4> QED
        BY <2>2, <2>4, <4>1
    <3> QED
      BY <2>4, <3>1, <3>2 DEF QueueFollows
  <2>5. ASSUME game'.step # "schedule", \A j \in Positions' : ~TellsMode(queue'[j])
        PROVE  toldMode = playMode
    BY <2>2, <2>5 DEF QueueFollows
  <2> QED
    BY <2>3, <2>4, <2>5 DEF QueueFollows
<1> QED
  BY <1>1, <1>2

\* Rider is told the first of the modes on their way.
LEMMA QueueMovesFollowing ==
  ASSUME QueueFollows, UNCHANGED <<connection, playMode, game>>,
         HeadTaken, TellsMode(queue[1]), toldMode' = queue[1].action.value
  PROVE  QueueFollows'
<1>1. \A i \in Positions' : i \in Nat \ {0} /\ i + 1 \in Positions /\ queue'[i] = queue[i + 1]
  BY DEF HeadTaken
<1>2. \A j \in Positions : j \in Nat /\ 1 <= j /\ (j # 1 =>
        j - 1 \in Positions' /\ queue'[j - 1] = queue[j])
  BY DEF HeadTaken
<1>3. \A i \in Positions' : TellsMode(queue'[i]) => queue'[i].of = connection
  BY <1>1 DEF QueueFollows
<1>4. ASSUME game.step # "schedule", NEW i \in Positions', TellsMode(queue'[i]),
             \A j \in Positions' : i < j => ~TellsMode(queue'[j])
      PROVE  queue'[i].action.value = playMode
  <2>1. i \in Nat /\ i + 1 \in Positions /\ TellsMode(queue[i + 1]) /\ queue'[i] = queue[i + 1]
    BY <1>1, <1>4
  <2>2. ASSUME NEW j \in Positions, i + 1 < j PROVE ~TellsMode(queue[j])
    <3>1. i < j - 1 /\ j # 1
      BY <1>2, <2>1, <2>2
    <3> QED
      BY <1>2, <1>4, <3>1
  <2> QED
    BY <1>4, <2>1, <2>2 DEF QueueFollows
<1>5. ASSUME game.step # "schedule", \A j \in Positions' : ~TellsMode(queue'[j])
      PROVE  toldMode' = playMode
  <2>1. \A j \in Positions : 1 < j => ~TellsMode(queue[j])
    BY <1>2, <1>5
  <2>2. 1 \in Positions
    BY DEF HeadTaken
  <2> QED
    BY <1>5, <2>1, <2>2 DEF QueueFollows
<1> QED
  BY <1>3, <1>4, <1>5 DEF QueueFollows

\* What is kept is the last of the modes on their way.
LEMMA QueueGoesOnFollowing ==
  ASSUME QueueFollows, UNCHANGED <<connection, playMode>>,
         NEW m, m = playMode, TaskAdded(ActionTask(connection, Mode(m)))
  PROVE  QueueFollows'
<1> DEFINE t == ActionTask(connection, Mode(m))
<1>1. TellsMode(t) /\ t.of = connection /\ t.action.value = playMode
  BY DEF TellsMode, ActionTask, Mode
<1> HIDE DEF t
<1>2. PICK l \in Nat :
        /\ \A i \in Positions : i \in Positions' /\ queue'[i] = queue[i] /\ i < l
        /\ l \in Positions' /\ queue'[l] = t
        /\ \A i \in Positions' : i \in Positions \/ i = l
  BY DEF TaskAdded, t
<1>3. \A i \in Positions' : TellsMode(queue'[i]) => queue'[i].of = connection
  BY <1>1, <1>2 DEF QueueFollows
<1>4. \A i \in Positions' : i = l \/ i < l
  BY <1>2
<1>5. /\ \A i \in Positions' :
           (\A j \in Positions' : i < j => ~TellsMode(queue'[j])) => queue'[i].action.value = playMode
      /\ ~(\A j \in Positions' : ~TellsMode(queue'[j]))
  BY <1>1, <1>2, <1>4
<1> QED
  BY <1>3, <1>5 DEF QueueFollows

\* The tasks that do not tell of a mode.
LEMMA OthersTellNoMode ==
  /\ \A t : t.kind # "action" => ~TellsMode(t)
  /\ \A c, r : ~TellsMode(ActionTask(c, Reply(r)))
  /\ \A e : ~TellsMode(StateTask(e))
  /\ ~TellsMode(RequestTask) /\ \A m : ~TellsMode(ModeTask(m))
BY DEF TellsMode, ActionTask, Reply, StateTask, States, RequestTask, ModeTask

\* A step that is not about modes leaves those that are on their way.
LEMMA QueueKeepsFollowing ==
  ASSUME TypeOK, ControlStep, ~ScheduleMode, ~RunAction, QueueFollows,
         UNCHANGED <<connection, playMode, toldMode>>,
         game'.step # "schedule" => game.step # "schedule"
  PROVE  QueueFollows'
<1>0. LinkTypeOK
  BY DEF TypeOK
<1>1. CASE LinkTasksAdded
  <2>1. \A i \in Positions' : i \in Positions \/ ~TellsMode(queue'[i])
    BY <1>1 DEF LinkTasksAdded, TellsMode
  <2> QED
    BY <1>1, <2>1, QueueStaysFollowing DEF LinkTasksAdded
<1>2. ASSUME NEW t, TaskAdded(t), ~TellsMode(t) PROVE QueueFollows'
  <2>1. /\ \A i \in Positions : i \in Positions' /\ queue'[i] = queue[i]
        /\ \A i \in Positions' : i \in Positions \/ ~TellsMode(queue'[i])
    BY <1>2 DEF TaskAdded
  <2> QED
    BY <2>1, QueueStaysFollowing
<1>3. CASE IgnoreDisconnected \/ CreateModel \/ Reset \/ GetMode \/ RunRequest
  <2>1. HeadTaken /\ queue[1] = Head(queue)
    BY <1>0, <1>3, TaskTaken DEF HeadTaken
  <2>2. queue[1].kind # "action"
    BY <1>3, <2>1 DEF IgnoreDisconnected, CreateModel, Reset, Drop, GetMode, RunRequest, Takes
  <2> QED
    BY <2>1, <2>2, QueueStaysFollowing DEF TellsMode
<1>4. \/ LinkTasksAdded
      \/ \E t : TaskAdded(t) /\ ~TellsMode(t)
      \/ IgnoreDisconnected \/ CreateModel \/ Reset \/ GetMode \/ RunRequest
  <2>1. ~TellsMode(ReplyTask)
    BY OthersTellNoMode DEF ReplyTask
  <2> QED
    BY <2>1, OthersTellNoMode, QueueMoves
<1> QED
  BY <1>1, <1>2, <1>3, <1>4

\* The control of the connection that lasts is made once the settings have been read.
LEMMA ConstructorFollows ==
  ASSUME TypeOK, LinkInv, ModeInv, ControlStep, Begun, ~crossed, ~dangling,
         UNCHANGED <<connected, connection, EditorModel>>,
         crossed' = (crossed \/ Crossing'), ~crossed', ~dangling',
         running.step \in ModelSteps
  PROVE  ModeFollows'
<1>0. LinkTypeOK /\ ControlTypeOK /\ NotAtOnce
  BY DEF TypeOK, ModeInv
<1>1. running # Idle /\ running.of = EditorModel
  BY RunningKinds DEF ModelSteps, LinkInv, Numbered
<1>2. CASE running.step \in {"register", "alive", "view"}
  <2>1. \/ UNCHANGED running
        \/ running'.step \in {"alive", "view", "sync"}
    <3>1. CASE Register
      BY <1>1, <3>1 DEF Register, Begun, Live, At
    <3>2. CASE BecomeAlive
      BY <3>2 DEF BecomeAlive, LinkInv, Handled, At
    <3>3. CASE Subscribe
      BY <3>3 DEF Subscribe, Goes, At
    <3> QED
      BY <1>1, <1>2, <3>1, <3>2, <3>3, ModeChanges
         DEF CreateModel, ReadSettings, TellInitialMode, GetMode, UpdateSettings, Takes
  <2>2. running'.step \in {"register", "alive", "view", "sync"}
    BY <1>2, <2>1
  <2> QED
    BY <2>2 DEF ModeFollows, InUse, ModelSteps
<1>3. CASE running.step = "sync"
  <2>1. CASE ReadSettings
    <3>1. running'.step = "tell" /\ playMode' = Current'
      BY <2>1 DEF ReadSettings, Goes, At, Current
    <3> QED
      BY <3>1 DEF ModeFollows, InUse, ModelSteps
  <2>2. CASE UNCHANGED running
    BY <1>3, <2>2 DEF ModeFollows, InUse, ModelSteps
  <2> QED
    BY <1>1, <1>3, <2>1, <2>2, ModeChanges
       DEF CreateModel, Register, BecomeAlive, Subscribe, TellInitialMode, GetMode, UpdateSettings, Takes
<1>4. CASE running.step = "tell"
  <2>0. game = Idle /\ (\A i \in Positions : ~TellsMode(queue[i])) /\ playMode = Current
    BY <1>0, <1>4, NothingUnderway DEF ModeInv, ModeFollows
  <2>1. CASE TellInitialMode
    <3>1. Live(running.of)
      BY <1>1 DEF Begun, Live
    <3>2. toldMode' = playMode
      BY <2>1, <3>1 DEF TellInitialMode, Fire, Told, Mode
    <3>3. UNCHANGED <<settings, playMode, game, queue>> /\ running' = Idle
      BY <2>1 DEF TellInitialMode, Goes
    <3>4. playMode \in Modes
      BY <1>0, <2>0 DEF Current, Modes, ControlTypeOK
    <3>5. GameFollows'
      BY <2>0, <3>3, <3>4 DEF GameFollows, Current, Idle
    <3>6. QueueFollows'
      BY <2>0, <3>2, <3>3 DEF QueueFollows, Positions
    <3> QED
      BY <3>3, <3>5, <3>6 DEF ModeFollows, Idle
  <2>2. CASE UNCHANGED running
    <3>1. CASE \E s \in Settings : UserChanges(s)
      <4>1. game' # Idle
        BY <3>1 DEF UserChanges, Idle
      <4> QED
        BY <1>4, <2>2, <4>1 DEF Crossing, UserUnderway
    <3>2. UNCHANGED <<settings, playMode>> \/ \E s \in Settings : UserChanges(s)
      BY <1>1, <1>4, <2>0, ModeChanges DEF NewConnection, RunAction, Subscribe, ReadSettings,
         TellInitialMode, RetrieveSettings, KeepMode, ScheduleMode, UpdateSettings, Idle
    <3>3. CASE UNCHANGED <<settings, playMode>>
      BY <1>4, <2>0, <2>2, <3>3 DEF ModeFollows, Current, InUse, ModelSteps
    <3> QED
      BY <3>1, <3>2, <3>3
  <2> QED
    BY <1>1, <1>4, <2>1, <2>2, ModeChanges
       DEF CreateModel, Register, BecomeAlive, Subscribe, ReadSettings, GetMode, UpdateSettings, Takes
<1> QED
  BY <1>2, <1>3, <1>4 DEF ModelSteps

\* The control in use follows the changes of the user and of Rider.
LEMMA ControlFollows ==
  ASSUME TypeOK, LinkInv, HasControl, ModeInv, ControlStep, Begun, ~crossed, ~dangling, ~dangling',
         UNCHANGED <<connected, connection, EditorModel>>, ~CreateModel,
         running.step \notin ModelSteps
  PROVE  ModeFollows'
<1>0. LinkTypeOK /\ ControlTypeOK /\ NotAtOnce /\ game \in GameStates
  BY DEF TypeOK, ModeInv, ControlTypeOK
<1>1. /\ GameFollows /\ QueueFollows /\ playMode \in Modes
      /\ connection # 0 /\ control = connection /\ subscribed = connection
  <2>1. connection # 0 /\ control = connection
    BY DEF HasControl, LinkInv, Numbered, ModelSteps, Begun
  <2> QED
    BY <2>1 DEF ModeInv, ModeFollows, InUse, HeldByDelegates, GameFollows
<1>2. running'.step \notin ModelSteps
  <2>1. CASE GetMode
    BY <2>1 DEF GetMode, Idle, ModelSteps
  <2>2. CASE UpdateSettings
    BY <2>2 DEF UpdateSettings, Goes, Idle, ModelSteps
  <2> QED
    BY <2>1, <2>2, ModeChanges DEF Register, BecomeAlive, Subscribe, ReadSettings,
       TellInitialMode, ModelSteps
<1> SUFFICES GameFollows' /\ QueueFollows'
  BY <1>2 DEF ModeFollows, ModelSteps
<1>3. CASE UNCHANGED <<settings, playMode, game, toldMode>> /\ ~RunAction /\ ~ScheduleMode
  <2>1. GameFollows'
    BY <1>1, <1>3 DEF GameFollows, Current
  <2> QED
    BY <1>1, <1>3, <2>1, QueueKeepsFollowing
<1>4. CASE RunAction
  <2>1. HeadTaken /\ queue[1] = Head(queue)
    BY <1>0, <1>4, TaskTaken DEF HeadTaken
  <2>2. queue[1].kind = "action" /\ UNCHANGED <<settings, playMode, game>>
    BY <1>4, <2>1 DEF RunAction, Takes
  <2>3. Fire(control, queue[1].action)
    BY <1>4, <2>1 DEF RunAction
  <2>4. Told(queue[1].action)
    BY <1>1, <2>3 DEF Fire, Live, Begun
  <2>5. GameFollows'
    BY <1>1, <2>2 DEF GameFollows, Current
  <2>6. CASE TellsMode(queue[1])
    <3>1. toldMode' = queue[1].action.value
      BY <2>4, <2>6 DEF TellsMode, Told
    <3> QED
      BY <1>1, <2>1, <2>2, <2>5, <2>6, <3>1, QueueMovesFollowing
  <2>7. CASE ~TellsMode(queue[1])
    <3>1. UNCHANGED toldMode
      BY <2>2, <2>4, <2>7 DEF TellsMode, Told
    <3> QED
      BY <1>1, <2>1, <2>2, <2>5, <2>7, <3>1, QueueStaysFollowing
  <2> QED
    BY <2>6, <2>7
<1>5. ASSUME NEW s \in Settings, UserChanges(s) PROVE GameFollows' /\ QueueFollows'
  <2>1. game.step = "none" /\ game'.step = "changed" /\ UNCHANGED <<playMode, toldMode>>
    BY <1>5 DEF UserChanges, Idle
  <2>2. GameFollows'
    BY <1>1, <2>1 DEF GameFollows
  <2>3. ~RunAction /\ ~ScheduleMode
    BY <2>1 DEF RunAction, ScheduleMode
  <2> QED
    BY <1>1, <2>1, <2>2, <2>3, QueueKeepsFollowing
<1>6. CASE RetrieveSettings
  <2>1. /\ game.step = "changed" /\ UNCHANGED <<settings, playMode, toldMode>>
        /\ game' = [step |-> "compare", of |-> connection, mode |-> Current]
    BY <1>1, <1>6 DEF RetrieveSettings, Current
  <2>2. GameFollows'
    BY <1>1, <2>1 DEF GameFollows, Current
  <2>3. ~RunAction /\ ~ScheduleMode
    BY <2>1 DEF RunAction, ScheduleMode
  <2> QED
    BY <1>1, <2>1, <2>2, <2>3, QueueKeepsFollowing
<1>7. CASE KeepMode
  <2>1. game.step = "compare" /\ UNCHANGED <<settings, toldMode, queue>>
    BY <1>7 DEF KeepMode, linkVars
  <2>2. game.of = connection /\ game.mode = Current
    BY <1>1, <2>1 DEF GameFollows
  <2>3. playMode # None
    BY <1>1, PossibleAreSettings DEF None
  <2>4. CASE game' = Idle /\ UNCHANGED playMode /\ SameMode
    <3>1. playMode = Current /\ game'.step = "none"
      BY <2>2, <2>3, <2>4 DEF SameMode, Idle
    <3>2. GameFollows'
      BY <1>1, <2>1, <2>4, <3>1 DEF GameFollows, Current
    <3>3. QueueFollows'
      BY <1>1, <2>1, <2>4, QueueStaysFollowing DEF Positions
    <3> QED
      BY <3>2, <3>3
  <2>5. CASE game' = [game EXCEPT !.step = "schedule"] /\ playMode' = game.mode
    <3>1. /\ game'.step = "schedule" /\ game'.of = game.of /\ game'.mode = game.mode
          /\ game.mode \in Modes
      <4>1. game \in [step : {"compare", "schedule"}, of : Nat, mode : Modes]
        BY <1>0, <2>1 DEF GameStates, Idle
      <4> QED
        BY <2>5, <4>1
    <3>2. GameFollows'
      BY <2>1, <2>2, <2>5, <3>1 DEF GameFollows, Current
    <3>3. QueueFollows'
      BY <1>1, <2>1, <3>1 DEF QueueFollows, Positions
    <3> QED
      BY <3>2, <3>3
  <2> QED
    BY <1>7, <2>4, <2>5 DEF KeepMode
<1>8. CASE ScheduleMode
  <2>1. /\ game.step = "schedule" /\ game' = Idle /\ UNCHANGED <<settings, playMode>>
        /\ queue' = Append(queue, ActionTask(game.of, Mode(game.mode)))
    BY <1>8 DEF ScheduleMode
  <2>2. game.of = connection /\ game.mode = playMode /\ playMode = Current
    BY <1>1, <2>1 DEF GameFollows
  <2>3. ActionTask(connection, Mode(playMode)) \in Tasks
    BY <1>0, <1>1, NewTasks, ActionKinds, TasksAreTasks DEF LinkTypeOK
  <2>4. TaskAdded(ActionTask(connection, Mode(playMode)))
    BY <1>0, <2>1, <2>2, <2>3, AddedBehind DEF LinkTypeOK
  <2>5. QueueFollows'
    BY <1>1, <2>1, <2>4, QueueGoesOnFollowing
  <2>6. GameFollows'
    BY <1>1, <2>1, <2>2 DEF GameFollows, Current, Idle
  <2> QED
    BY <2>5, <2>6
<1>9. CASE UpdateSettings
  <2>1. running.step = "update" /\ running.of = connection
    BY <1>1, <1>9 DEF UpdateSettings, ModeInv, HeldByDelegates
  <2>2. game = Idle /\ \A i \in Positions : ~TellsMode(queue[i])
    BY <1>0, <2>1, NothingUnderway
  <2>3. PICK m : m = PackToMode(UnpackFromMode(running.mode))
    OBVIOUS
  <2>4. /\ playMode' = m /\ Current' = m /\ UNCHANGED <<game, queue>>
        /\ m = playMode => UNCHANGED toldMode
        /\ m # playMode => Fire(running.of, Mode(m))
    BY <1>9, <2>3 DEF UpdateSettings, Goes, Current
  <2>5. toldMode' = playMode'
    <3>1. CASE m = playMode
      BY <1>1, <2>2, <2>4, <3>1 DEF QueueFollows, Idle
    <3>2. CASE m # playMode
      BY <2>1, <2>4, <3>2 DEF Fire, Live, Begun, Told, Mode
    <3> QED
      BY <3>1, <3>2
  <2>6. m \in Modes
    <3>1. running.mode \in RiderModes
      BY <1>0, <2>1, RunningKinds DEF LinkTypeOK
    <3> QED
      BY <2>3, <3>1 DEF Modes, PossibleSettings
  <2>7. GameFollows'
    BY <2>2, <2>4, <2>6 DEF GameFollows, Idle
  <2>8. QueueFollows'
    BY <2>2, <2>4, <2>5 DEF QueueFollows, Positions
  <2> QED
    BY <2>7, <2>8
<1>10. ~NewConnection /\ ~Subscribe /\ ~ReadSettings /\ ~TellInitialMode
  BY DEF NewConnection, Connects, Subscribe, ReadSettings, TellInitialMode, ModelSteps, Begun
<1> QED
  BY <1>3, <1>4, <1>5, <1>6, <1>7, <1>8, <1>9, <1>10, ModeChanges

\* The mode that is told, or is on its way, goes on to be the one of the settings.
LEMMA ModeStays ==
  ASSUME LinkInv, ControlTypeOK, HasControl, ModeInv, ControlStep,
         crossed' = (crossed \/ Crossing')
  PROVE  ModeInv'
<1>0. /\ TypeOK /\ connection \in Nat /\ EditorModel \in Nat /\ EditorModel <= connection
      /\ HeldByDelegates
  BY DEF TypeOK, LinkInv, LinkTypeOK, Numbered, ModeInv
<1>1. NotAtOnce'
  BY Zenon DEF NotAtOnce
<1>2. HeldByDelegates'
  BY <1>0, StaysHeld
<1>3. ModeFollows'
  <2> SUFFICES ASSUME Begun', ~crossed', ~dangling' PROVE ModeFollows'
    BY DEF ModeFollows
  <2>1. ~crossed /\ ~dangling
    <3>1. ~crossed
      BY Zenon
    <3>2. ~dangling
      BY DanglingStays
    <3> QED
      BY <3>1, <3>2
  <2>2. ~NewConnection /\ ~Disconnects
    BY <1>0 DEF NewConnection, Connects, Disconnects, Begun
  <2>3. UNCHANGED <<connected, connection>>
    BY <2>2, ControlChanges
  <2>4. CASE CreateModel
    <3>1. Live(EditorModel') /\ running' = At("register", EditorModel')
      BY <2>3, <2>4 DEF CreateModel, Live, Begun
    <3> QED
      BY <3>1 DEF ModeFollows, InUse, At, ModelSteps
  <2>5. CASE ~CreateModel
    <3>1. UNCHANGED EditorModel /\ Begun
      BY <2>3, <2>5, ControlChanges DEF Begun
    <3> QED
      BY <1>0, <2>1, <2>3, <2>5, <3>1, ConstructorFollows, ControlFollows
  <2> QED
    BY <2>4, <2>5
<1> QED
  BY <1>1, <1>2, <1>3 DEF ModeInv

-----------------------------------------------------------------------------
(* The invariant.                                                          *)

\* No task is queued but the one of `connected' before its first change.
LEMMA InitGood ==
  ASSUME Init
  PROVE  Inv
<1>1. /\ connection = 0 /\ connected = FALSE /\ watched = {} /\ queue = <<ConnectedTask(0)>>
      /\ running = Idle /\ EditorModel = 0 /\ alive = "unset" /\ logger = 0
  BY DEF Init, LinkInit
<1>2. /\ control = 0 /\ subscribed = 0 /\ settings \in Settings /\ state = "Idle" /\ game = Idle
      /\ tasks = <<>> /\ requests = <<>> /\ toldState = "none"
  BY DEF Init
<1>3. /\ Len(queue) = 1 /\ Positions = {1} /\ queue[1] = ConnectedTask(0)
      /\ queue[1].kind = "connected" /\ queue[1].of = 0
  BY <1>1 DEF Positions, ConnectedTask
<1>4. running.step \notin ModelSteps /\ running.step = "none"
  BY <1>1, RunningKinds DEF ModelSteps
<1>5. LinkTypeOK
  <2>1. queue \in Seq(Tasks)
    BY <1>1, TasksAreTasks
  <2> QED
    BY <1>1, <2>1, RunningKinds DEF LinkTypeOK
<1>6. Numbered /\ InOrder /\ Arrives /\ NoDropBehind
  BY <1>1, <1>3, <1>4 DEF Numbered, InOrder, Arrives, NoDropBehind, Begun, IsConnection, IsDrop
<1>7. DropToCome /\ DropBefore /\ Handled /\ LoggerHolds
  BY <1>1, <1>4 DEF DropToCome, DropBefore, Handled, LoggerHolds, Yes, Begun
<1>8. ControlTypeOK
  <2>1. settings \in PossibleSettings
    BY <1>2 DEF PossibleSettings
  <2>2. game \in GameStates
    BY <1>2 DEF GameStates
  <2> QED
    BY <1>2, <2>1, <2>2 DEF ControlTypeOK
<1>9. ControlIsAlive /\ HasControl /\ SubscribersKnown /\ Behind /\ Telling
  <2>1. game.step \notin {"compare", "schedule"}
    BY <1>2 DEF Idle
  <2> QED
    BY <1>1, <1>2, <2>1 DEF ControlIsAlive, HasControl, SubscribersKnown, Behind, Telling, Begun
<1>10. Len(tasks) = 0 /\ Len(requests) = 0
  BY <1>2
<1>11. TasksKnown
  BY <1>3, <1>10 DEF TasksKnown
<1>12. InOnePlace
  BY <1>3, <1>10 DEF InOnePlace, Made, Concerns, RepliesTo
<1>13. OnItsWay
  BY <1>10 DEF OnItsWay, Made
<1>14. ModeInv
  <2>1. ~Crossing
    BY <1>4 DEF Crossing, ModelSteps
  <2> QED
    BY <1>1, <1>2, <1>4, <2>1 DEF ModeInv, NotAtOnce, HeldByDelegates, ModeFollows, Begun
<1> QED
  BY <1>5, <1>6, <1>7, <1>8, <1>9, <1>11, <1>12, <1>13, <1>14 DEF Inv, LinkInv, ControlInv

\* Nothing of it is about what stays the same.
LEMMA StutterGood ==
  ASSUME Inv, UNCHANGED vars
  PROVE  Inv'
<1>1. UNCHANGED <<linkVars, controlVars>>
  BY DEF vars
<1>2. LinkInv'
  BY <1>1, LinkKept DEF Inv, LinkMoves
<1>3. UNCHANGED <<connection, connected, queue, running, EditorModel, alive>>
  BY <1>1 DEF linkVars
<1>4. UNCHANGED <<control, subscribed, settings, state, game, tasks, requests, toldState, dangling>>
  BY <1>1 DEF controlVars
<1>5. (ControlTypeOK /\ ControlIsAlive /\ HasControl /\ SubscribersKnown)'
  BY <1>3, <1>4 DEF Inv, ControlInv, ControlTypeOK, ControlIsAlive, HasControl, SubscribersKnown,
     Begun
<1>6. (TasksKnown /\ Behind)'
  BY <1>3, <1>4 DEF Inv, ControlInv, TasksKnown, Behind, Positions
<1>7. InOnePlace'
  BY <1>3, <1>4 DEF Inv, ControlInv, InOnePlace, Made, Once, AnsweredLast, Positions
<1>8. OnItsWay'
  BY <1>3, <1>4 DEF Inv, ControlInv, OnItsWay, OnWay, Made, Positions, Live
<1>9. Telling'
  BY <1>3, <1>4 DEF Inv, ControlInv, Telling, Tells, Positions
<1>10. ModeInv'
  <2>1. UNCHANGED <<playMode, toldMode, crossed>>
    BY <1>1 DEF controlVars, vars
  <2>2. (Crossing <=> Crossing')
    BY <1>3, <1>4 DEF Crossing, UserUnderway
  <2>3. (NotAtOnce /\ HeldByDelegates)'
    BY <1>3, <1>4, <2>1, <2>2 DEF Inv, ModeInv, NotAtOnce, HeldByDelegates
  <2>4. (GameFollows <=> GameFollows') /\ (QueueFollows <=> QueueFollows')
    BY <1>3, <1>4, <2>1 DEF GameFollows, QueueFollows, Current, Positions
  <2>5. ModeFollows'
    BY <1>3, <1>4, <2>1, <2>4 DEF Inv, ModeInv, ModeFollows, Begun, Current, InUse
  <2> QED
    BY <2>3, <2>5 DEF ModeInv
<1> QED
  BY <1>2, <1>5, <1>6, <1>7, <1>8, <1>9, <1>10 DEF Inv, ControlInv

\* The invariant is inductive.
LEMMA StepGood ==
  ASSUME Inv, [Next]_vars
  PROVE  Inv'
<1>1. CASE UNCHANGED vars
  BY <1>1, StutterGood
<1>2. CASE ControlStep /\ crossed' = (crossed \/ Crossing')
  <2>1. /\ LinkInv /\ ControlTypeOK /\ ControlIsAlive /\ HasControl
        /\ SubscribersKnown /\ TasksKnown /\ Behind /\ InOnePlace /\ OnItsWay /\ Telling
        /\ ModeInv
    BY DEF Inv, ControlInv
  <2>2. TypeOK
    BY <2>1 DEF LinkInv, TypeOK
  <2>3. LinkInv'
    BY <1>2, <2>1, <2>2, ControlMovesLink, LinkKept
  <2>4. ControlTypeOK' /\ ControlIsAlive' /\ HasControl'
    BY <1>2, <2>1, <2>2, ControlTypesKept, ControlStaysAlive, ControlStaysThere
  <2>5. SubscribersKnown' /\ TasksKnown' /\ Behind'
    BY <1>2, <2>1, SubscribersStayKnown, TasksStayKnown, StaysBehind
  <2>6. InOnePlace' /\ OnItsWay'
    BY <1>2, <2>1, <2>2, StaysInOnePlace, StaysOnItsWay
  <2>7. Telling'
    BY <1>2, <2>1, StaysTelling
  <2>8. ModeInv'
    BY <1>2, <2>1, ModeStays
  <2> QED
    BY <2>3, <2>4, <2>5, <2>6, <2>7, <2>8 DEF Inv, ControlInv
<1> QED
  BY <1>1, <1>2 DEF Next

-----------------------------------------------------------------------------
(* The theorems.                                                           *)

\* In every reachable state of the module and the game control, for any number
\* of connections, requests and changes, their invariant holds.
THEOREM GameControlInvariance == Spec => []Inv
<1>1. Init => Inv
  BY InitGood
<1>2. Inv /\ [Next]_vars => Inv'
  BY StepGood
<1> QED
  BY <1>1, <1>2, PTL DEF Spec

\* Tasks, models, requests and what the threads are doing are of their types:
\* a task of the game control always names a connection and something it can fire.
THEOREM GameControlTypeCorrect == Spec => []TypeOK
<1>1. Inv => TypeOK
  BY DEF Inv, LinkInv, ControlInv, TypeOK
<1> QED
  BY <1>1, GameControlInvariance, PTL

\* When the scheduler of RiderLink.cpp has run all it was given, RdIsModelAlive is
\* true exactly if the wire is connected, after any number of changes of
\* `connected' that followed on one another while the tasks were queued.
THEOREM ModelFollowsConnection == Spec => []AliveFollowsConnection
<1>1. Inv => AliveFollowsConnection
  <2> SUFFICES ASSUME Inv, queue = <<>>, running = Idle
               PROVE  alive = "yes" <=> connected
    BY DEF AliveFollowsConnection
  <2>1. Positions = {}
    BY DEF Positions
  <2>2. running.step = "none"
    BY RunningKinds
  <2>3. ASSUME alive = "yes" PROVE connected
    BY <2>1, <2>3 DEF Inv, LinkInv, DropToCome, Yes
  <2>4. ASSUME connected PROVE alive = "yes"
    <3>1. Begun
      BY <2>1, <2>4 DEF Inv, LinkInv, Arrives, Begun
    <3> QED
      BY <2>2, <3>1 DEF Inv, LinkInv, Handled
  <2> QED
    BY <2>3, <2>4, Zenon DEF Inv
<1> QED
  BY <1>1, GameControlInvariance, PTL

\* The model a FRiderGameControl refers to is there as long as the control is, and
\* the one FireAsyncAction has found alive is there while its handler runs.
THEOREM ModelIsThere == Spec => []ModelOutlivesUsers
<1>1. Inv => ModelOutlivesUsers
  BY DEF Inv, LinkInv, ControlInv, ControlIsAlive, LoggerHolds, ModelOutlivesUsers
<1> QED
  BY <1>1, GameControlInvariance, PTL

\* A request of Rider is answered at most once, and exactly once if its connection
\* lasts and everything has been handled, on whichever thread the answer was found.
THEOREM RequestsAnsweredOnce == Spec => []AnsweredOnce
<1>1. Inv => AnsweredOnce
  <2> SUFFICES ASSUME Inv, NEW r \in DOMAIN requests
               PROVE  /\ requests[r].replies <= 1
                      /\ Settled /\ Live(requests[r].of) /\ ~dangling => requests[r].replies = 1
    BY DEF AnsweredOnce
  <2>1. r \in Made
    BY DEF Inv, ControlInv, ControlTypeOK, Made
  <2>2. requests[r].replies = 0 \/ requests[r].replies = 1
    BY <2>1 DEF Inv, ControlInv, InOnePlace, AnsweredLast
  <2>3. ASSUME Settled, Live(requests[r].of), ~dangling
        PROVE  requests[r].replies = 1
    <3>1. Positions = {} /\ Len(tasks) = 0
      BY <2>3 DEF Settled, Positions
    <3>2. OnWay(r)
      BY <2>1, <2>3 DEF Inv, ControlInv, OnItsWay
    <3> QED
      BY <3>1, <3>2 DEF OnWay
  <2> QED
    BY <2>2, <2>3
<1> QED
  BY <1>1, GameControlInvariance, PTL

\* When everything has been handled, the last play state Rider was told of in a
\* connection is the editor's, through single steps and new connections.
THEOREM PlayStateFollows == Spec => []PlayStateIsTold
<1>1. Inv => PlayStateIsTold
  <2> SUFFICES ASSUME Inv, Settled, connected, toldState # "none", ~dangling
               PROVE  toldState = state
    BY DEF PlayStateIsTold
  <2>1. Positions = {}
    BY DEF Settled, Positions
  <2> QED
    BY <2>1 DEF Inv, ControlInv, Telling
<1> QED
  BY <1>1, GameControlInvariance, PTL
\* When everything has been handled and the changes of the user and of Rider have not
\* crossed and no control was used after its end, the mode Rider was told last is the one
\* the settings pack into, and up to four clients it unpacks into the settings, with the
\* preview on a targeted mobile device as one on a mobile device.
THEOREM ModeFollowsSettings == Spec => []ModeIsTold
<1>1. Inv => ModeIsTold
  <2> SUFFICES ASSUME Inv, Settled, connected, ~crossed, ~dangling
               PROVE  /\ toldMode = PackToMode(settings)
                      /\ settings.NumberOfClients <= 4 =>
                           UnpackFromMode(toldMode) = [settings EXCEPT !.PlayMode = AsTold(@)]
    BY DEF ModeIsTold
  <2>1. Positions = {} /\ running = Idle /\ game = Idle
    BY DEF Settled, Positions
  <2>2. Begun
    BY <2>1 DEF Inv, LinkInv, Arrives, Begun
  <2>3. GameFollows /\ QueueFollows
    BY <2>1, <2>2, RunningKinds DEF Inv, ModeInv, ModeFollows, InUse, ModelSteps
  <2>4. toldMode = PackToMode(settings)
    BY <2>1, <2>3 DEF GameFollows, QueueFollows, Current, Idle
  <2>5. settings \in FPlaySettings
    BY PossibleAreSettings DEF Inv, ControlInv, ControlTypeOK
  <2> QED
    BY <2>4, <2>5, PackingIsExact
<1> QED
  BY <1>1, GameControlInvariance, PTL
===============================================================================
