---------------------------- MODULE GameControl ----------------------------
(***************************************************************************)
(* RiderGameControlExtension.cpp on RiderLink.cpp: one FRiderGameControl   *)
(* for every model that is alive.  The scheduler's thread creates and      *)
(* resets it and gets what Rider sends; the game thread runs the commands  *)
(* and the delegates of the editor.  An action of the game thread is       *)
(* queued with `this'; one of the scheduler's own thread runs at once.     *)
(***************************************************************************)
EXTENDS RiderLink, Integers

CONSTANTS
  Settings,     \* the play settings the user chooses between
  RiderModes,   \* the modes Rider sends
  MaxRequests,  \* bound: requests of Rider
  MaxChanges    \* bound: changes of the settings and of the play state

EPlayModeType == {"ViewPort", "MobilePreview", "TargetedMobilePreview", "VulkanPreview",
                  "EditorFloating", "NewProcess", "VR", "Simulate"}
FPlaySettings == [PlayMode : EPlayModeType, NumberOfClients : Nat \ {0},
                  bNetDedicated : BOOLEAN, bSpawnAtPlayerStart : BOOLEAN]

ASSUME ControlAssumption ==
  /\ Settings \subseteq FPlaySettings
  /\ RiderModes \subseteq Nat
  /\ MaxRequests \in Nat /\ MaxChanges \in Nat

VARIABLES
  control,     \* the connection whose FRiderGameControl exists, 0 for none
  subscribed,  \* the one whose lambdas the delegates hold
  settings,    \* ULevelEditorPlaySettings
  playMode,    \* the member of that name, None before it is assigned
  state,       \* the play state of the editor
  game,        \* what the game thread is doing about a change of the settings
  tasks,       \* AsyncTasks for the game thread
  requests,    \* requests of Rider: the connection and the number of replies
  changes,     \* changes so far
  toldMode,    \* the last play mode Rider got in this connection
  toldState,   \* the last play state
  crossed,     \* the two threads have handled settings at the same time
  dangling     \* a FRiderGameControl that no longer exists was used

controlVars == <<control, subscribed, settings, playMode, state, game, tasks, requests,
                 changes, toldMode, toldState, dangling>>
vars == <<linkVars, controlVars, crossed>>

None == -1

(***************************************************************************)
(* FPlaySettings                                                           *)
(***************************************************************************)

PlayModes == <<"MobilePreview", "EditorFloating", "VR", "NewProcess", "Simulate", "VulkanPreview">>

PlayModeFromInt(n) == IF n \in DOMAIN PlayModes THEN PlayModes[n] ELSE "ViewPort"

PlayModeToInt(m) ==
  CASE m = "ViewPort" -> 0
    [] m = "TargetedMobilePreview" -> 1
    [] OTHER -> CHOOSE n \in DOMAIN PlayModes : PlayModes[n] = m

Bit(mode, b) == (mode \div b) % 2 = 1

UnpackFromMode(mode) ==
  [PlayMode |-> PlayModeFromInt((mode \div 16) % 8),
   NumberOfClients |-> (mode % 4) + 1,
   bNetDedicated |-> Bit(mode, 8),
   bSpawnAtPlayerStart |-> Bit(mode, 4)]

PackToMode(s) ==
  (s.NumberOfClients - 1) + (IF s.bSpawnAtPlayerStart THEN 4 ELSE 0)
    + (IF s.bNetDedicated THEN 8 ELSE 0) + PlayModeToInt(s.PlayMode) * 16

(***************************************************************************)
(* Signals of the model                                                    *)
(***************************************************************************)

Mode(m) == [about |-> "mode", value |-> m]
States(s) == [about |-> "states", value |-> s]
Reply(r) == [about |-> "reply", value |-> r]
ActionTask(c, a) == [kind |-> "action", of |-> c, action |-> a]

Told(a) ==
  /\ toldMode' = IF a.about = "mode" THEN a.value ELSE toldMode
  /\ toldState' = IF a.about = "states" THEN a.value[Len(a.value)] ELSE toldState
  /\ requests' = IF a.about = "reply" THEN [requests EXCEPT ![a.value].replies = @ + 1]
                                      ELSE requests

(* fire on the model of connection c; it throws once the model is unbound. *)
Fire(c, a) == IF Live(c) THEN Told(a) ELSE UNCHANGED <<toldMode, toldState, requests>>

(* What the task does with a control that was reset in the meantime: the
   memory may still hold the old model's address, or a new control. *)
RunAction ==
  LET t == Head(queue)
  IN  /\ Takes("action")
      /\ \/ t.of = control /\ Fire(control, t.action) /\ UNCHANGED dangling
         \/ t.of # control /\ Fire(t.of, t.action) /\ dangling' = TRUE
         \/ t.of # control /\ Fire(EditorModel, t.action) /\ dangling' = TRUE
      /\ UNCHANGED <<connection, connected, watched, running, EditorModel, alive, logger,
                     control, subscribed, settings, playMode, state, game, tasks, changes>>

(***************************************************************************)
(* The constructor, on the scheduler's thread, under ModelLock             *)
(***************************************************************************)

Goes(s) == /\ running' = s
           /\ UNCHANGED <<connection, connected, watched, queue, EditorModel, alive, logger>>

Subscribe ==
  /\ running.step = "view"
  /\ control' = running.of
  /\ subscribed' = running.of
  /\ playMode' = None
  /\ Goes(At("sync", running.of))
  /\ UNCHANGED <<settings, state, game, tasks, requests, changes, toldMode, toldState, dangling>>

ReadSettings ==
  /\ running.step = "sync"
  /\ playMode' = PackToMode(settings)
  /\ Goes(At("tell", running.of))
  /\ UNCHANGED <<control, subscribed, settings, state, game, tasks, requests, changes,
                 toldMode, toldState, dangling>>

(* Firing on an unbound model throws out of the constructor: the object is
   gone, its lambdas are not. *)
TellInitialMode ==
  /\ running.step = "tell"
  /\ Fire(running.of, Mode(playMode))
  /\ control' = IF Live(running.of) THEN control ELSE 0
  /\ Goes(Idle)
  /\ UNCHANGED <<subscribed, settings, playMode, state, game, tasks, changes, dangling>>

(* The end of the viewer's lifetime: unsubscribed through `this', then reset. *)
Reset ==
  /\ Drop
  /\ control' = 0
  /\ subscribed' \in IF control = subscribed THEN {0} ELSE {0, subscribed}
  /\ dangling' = (dangling \/ control # subscribed)
  /\ UNCHANGED <<settings, playMode, state, game, tasks, requests, changes, toldMode, toldState>>

(***************************************************************************)
(* Requests of Rider                                                       *)
(***************************************************************************)

RiderRequests ==
  /\ connected
  /\ Len(requests) < MaxRequests
  /\ requests' = Append(requests, [of |-> connection, replies |-> 0])
  /\ queue' = Append(queue, [kind |-> "request", of |-> connection, request |-> Len(requests) + 1])
  /\ UNCHANGED <<connection, connected, watched, running, EditorModel, alive, logger, control,
                 subscribed, settings, playMode, state, game, tasks, changes,
                 toldMode, toldState, dangling>>

Listens(t) == control = t.of /\ Live(t.of)
AsyncTask(t) == tasks' = Append(tasks, [of |-> t.of, request |-> t.request])

(* mutation: the return after a command that was not registered is missing *)
RequestAndGoOn(t) ==
  \/ AsyncTask(t) /\ UNCHANGED <<toldMode, toldState, requests>>
  \/ AsyncTask(t) /\ Fire(t.of, Reply(t.request))

(* The command is not registered, or is given to the game thread. *)
RequestPlayWorldCommand(t) ==
  \/ AsyncTask(t) /\ UNCHANGED <<toldMode, toldState, requests>>
  \/ Fire(t.of, Reply(t.request)) /\ UNCHANGED tasks

RunRequest ==
  /\ Takes("request")
  /\ IF Listens(Head(queue)) THEN RequestPlayWorldCommand(Head(queue))
     ELSE UNCHANGED <<tasks, toldMode, toldState, requests>>
  /\ UNCHANGED <<connection, connected, watched, running, EditorModel, alive, logger, control,
                 subscribed, settings, playMode, state, game, changes, dangling>>

(* The game thread: whether the editor executes the command or rejects it,
   the reply is queued. *)
ExecuteCommand ==
  LET t == Head(tasks)
  IN  /\ game = Idle
      /\ tasks # <<>>
      /\ tasks' = Tail(tasks)
      /\ queue' = Append(queue, ActionTask(t.of, Reply(t.request)))
      /\ UNCHANGED <<connection, connected, watched, running, EditorModel, alive, logger, control,
                     subscribed, settings, playMode, state, game, requests, changes,
                     toldMode, toldState, dangling>>

(***************************************************************************)
(* The play state: the delegates of the editor, on the game thread         *)
(***************************************************************************)

Events == {"BeginPIE", "EndPIE", "PausePIE", "ResumePIE", "SingleStepPIE"}
Happens(e) ==
  CASE e = "BeginPIE" -> state = "Idle"
    [] e = "EndPIE" -> state # "Idle"
    [] e = "PausePIE" -> state = "Play"
    [] OTHER -> state = "Pause"

(* mutation: the states of a single step are fired in the other order *)
FiredBackwards(e) ==
  CASE e \in {"BeginPIE", "ResumePIE"} -> <<"Play">>
    [] e = "EndPIE" -> <<"Idle">>
    [] e = "PausePIE" -> <<"Pause">>
    [] OTHER -> <<"Pause", "Play">>

Fired(e) ==
  CASE e \in {"BeginPIE", "ResumePIE"} -> <<"Play">>
    [] e = "EndPIE" -> <<"Idle">>
    [] e = "PausePIE" -> <<"Pause">>
    [] OTHER -> <<"Play", "Pause">>

Becomes(e) ==
  CASE e \in {"BeginPIE", "ResumePIE"} -> "Play"
    [] e = "EndPIE" -> "Idle"
    [] OTHER -> "Pause"

PlayEvent(e) ==
  /\ game = Idle
  /\ Happens(e)
  /\ changes < MaxChanges
  /\ changes' = changes + 1
  /\ state' = Becomes(e)
  /\ queue' = IF subscribed = 0 THEN queue
              ELSE Append(queue, ActionTask(subscribed, States(Fired(e))))
  /\ UNCHANGED <<connection, connected, watched, running, EditorModel, alive, logger, control,
                 subscribed, settings, playMode, game, tasks, requests, toldMode, toldState, dangling>>

(***************************************************************************)
(* The play mode                                                           *)
(***************************************************************************)

(* The user changes the settings; OnObjectPropertyChanged follows. *)
UserChanges(s) ==
  /\ game = Idle
  /\ s # settings
  /\ changes < MaxChanges
  /\ changes' = changes + 1
  /\ settings' = s
  /\ game' = [step |-> "changed"]
  /\ UNCHANGED <<linkVars, control, subscribed, playMode, state, tasks, requests,
                 toldMode, toldState, dangling>>

RetrieveSettings ==
  /\ game.step = "changed"
  /\ game' = IF subscribed = 0 THEN Idle
             ELSE [step |-> "compare", of |-> subscribed, mode |-> PackToMode(settings)]
  /\ UNCHANGED <<linkVars, control, subscribed, settings, playMode, state, tasks, requests,
                 changes, toldMode, toldState, dangling>>

(* Before the constructor has assigned playMode it may have any value. *)
SameMode == game.mode = playMode \/ playMode = None
OtherMode == game.mode # playMode

(* mutation: the new mode is not kept *)
ForgetMode ==
  /\ game.step = "compare"
  /\ \/ SameMode /\ game' = Idle
     \/ OtherMode /\ game' = [game EXCEPT !.step = "schedule"]
  /\ dangling' = (dangling \/ game.of # control)
  /\ UNCHANGED <<linkVars, control, subscribed, settings, playMode, state, tasks, requests,
                 changes, toldMode, toldState>>

KeepMode ==
  /\ game.step = "compare"
  /\ \/ SameMode /\ game' = Idle /\ UNCHANGED playMode
     \/ OtherMode /\ game' = [game EXCEPT !.step = "schedule"] /\ playMode' = game.mode
  /\ dangling' = (dangling \/ game.of # control)
  /\ UNCHANGED <<linkVars, control, subscribed, settings, state, tasks, requests,
                 changes, toldMode, toldState>>

ScheduleMode ==
  /\ game.step = "schedule"
  /\ game' = Idle
  /\ queue' = Append(queue, ActionTask(game.of, Mode(game.mode)))
  /\ UNCHANGED <<connection, connected, watched, running, EditorModel, alive, logger, control,
                 subscribed, settings, playMode, state, tasks, requests, changes,
                 toldMode, toldState, dangling>>

RiderSetsMode(m) ==
  /\ connected
  /\ changes < MaxChanges
  /\ changes' = changes + 1
  /\ queue' = Append(queue, [kind |-> "mode", of |-> connection, mode |-> m])
  /\ UNCHANGED <<connection, connected, watched, running, EditorModel, alive, logger, control,
                 subscribed, settings, playMode, state, game, tasks, requests,
                 toldMode, toldState, dangling>>

GetMode ==
  LET t == Head(queue)
  IN  /\ Takes("mode")
      /\ running' = IF Listens(t) THEN [step |-> "update", of |-> t.of, mode |-> t.mode] ELSE Idle
      /\ UNCHANGED <<connection, connected, watched, EditorModel, alive, logger>>
      /\ UNCHANGED controlVars

(* The same lambda is called back on the scheduler's thread, and fires at once. *)
UpdateSettings ==
  LET s == UnpackFromMode(running.mode)
  IN  /\ running.step = "update"
      /\ settings' = s
      /\ playMode' = PackToMode(s)
      /\ IF PackToMode(s) = playMode THEN UNCHANGED <<toldMode, toldState, requests>>
         ELSE Fire(running.of, Mode(PackToMode(s)))
      /\ Goes(Idle)
      /\ UNCHANGED <<control, subscribed, state, game, tasks, changes, dangling>>

(***************************************************************************)
(* The specification                                                       *)
(***************************************************************************)

NewConnection ==
  /\ Connects
  /\ toldMode' = None
  /\ toldState' = "none"
  /\ UNCHANGED <<control, subscribed, settings, playMode, state, game, tasks, requests,
                 changes, dangling>>

UserUnderway ==
  \/ game # Idle
  \/ \E i \in DOMAIN queue : queue[i].kind = "action" /\ queue[i].action.about = "mode"
Crossing == UserUnderway /\ running.step \in {"view", "sync", "tell", "update"}

Init ==
  /\ LinkInit
  /\ control = 0 /\ subscribed = 0
  /\ settings \in Settings
  /\ playMode = None
  /\ state = "Idle"
  /\ game = Idle
  /\ tasks = <<>> /\ requests = <<>>
  /\ changes = 0
  /\ toldMode = None /\ toldState = "none"
  /\ crossed = FALSE /\ dangling = FALSE

ControlStep ==
  \/ LinkStep /\ UNCHANGED controlVars
  \/ NewConnection
  \/ RunAction
  \/ Subscribe \/ ReadSettings \/ TellInitialMode \/ Reset
  \/ RiderRequests \/ RunRequest \/ ExecuteCommand
  \/ \E e \in Events : PlayEvent(e)
  \/ \E s \in Settings : UserChanges(s)
  \/ RetrieveSettings \/ KeepMode \/ ScheduleMode
  \/ \E m \in RiderModes : RiderSetsMode(m)
  \/ GetMode \/ UpdateSettings

Next == ControlStep /\ crossed' = (crossed \/ Crossing')

Spec == Init /\ [][Next]_vars

-----------------------------------------------------------------------------

Settled == queue = <<>> /\ running = Idle /\ game = Idle /\ tasks = <<>>

(* RdIsModelAlive changes before a new model is created (RiderLink.cpp:79):
   the model a game control refers to is there as long as the control is, and
   one that FireAsyncAction has found alive as long as its handler runs. *)
ModelOutlivesUsers ==
  /\ control # 0 => EditorModel = control
  /\ logger # 0 => EditorModel = logger /\ alive = "yes"

(* A request is answered at most once, and exactly once if its connection
   lasts, whether the command is not registered, executed or rejected. *)
AnsweredOnce ==
  \A i \in DOMAIN requests :
    /\ requests[i].replies <= 1
    /\ Settled /\ Live(requests[i].of) /\ ~dangling => requests[i].replies = 1

(* The last play state Rider was told of is the editor's, across the two
   threads, single steps and new connections. *)
PlayStateIsTold ==
  Settled /\ connected /\ toldState # "none" /\ ~dangling => toldState = state

(* The two previews on a mobile device have one number (l.73-75). *)
AsTold(m) == IF m = "TargetedMobilePreview" THEN "MobilePreview" ELSE m

(* When everything has been handled, Rider knows the mode the editor has, if
   the changes of the user and of Rider did not cross and no control was used
   after its end.  Up to four clients it reads the settings from that mode,
   but for a preview on a targeted mobile device, which it takes for one on a
   mobile device; the number of more than four clients does not fit (l.107). *)
ModeIsTold ==
  Settled /\ connected /\ ~crossed /\ ~dangling =>
    /\ toldMode = PackToMode(settings)
    /\ settings.NumberOfClients <= 4 =>
         UnpackFromMode(toldMode) = [settings EXCEPT !.PlayMode = AsTold(@)]

=============================================================================
