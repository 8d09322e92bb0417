----------------------------- MODULE Locomotion -----------------------------
(***************************************************************************)
(* Continuous locomotion of the LVRC character: the tick of                *)
(* ULVRCMovementComponent.  The world is a row of cells as wide as the     *)
(* capsule, each with the height that fits under its ceiling; some hold an *)
(* object of ImpassibleObjectTypes.  The player walks about a real room of *)
(* 2 * Room + 1 cells, which the stick moves through the world:            *)
(*                                                                         *)
(*     camera = capsule + VR origin (relative to it) + HMD (in the room)   *)
(*                                                                         *)
(* Between two ticks the HMD is wherever tracking says.  The z axis is     *)
(* reduced to heights; the world is any world, chosen at the start.        *)
(***************************************************************************)
EXTENDS Integers, FiniteSets

CONSTANTS
  LastCell,    \* bound of the model: cells are 0..LastCell
  Room,        \* bound of the model: how far the player walks from the middle
  MaxHeight    \* bound of the model: heights are 1..MaxHeight

ASSUME WorldAssumption ==
  /\ LastCell \in Nat /\ Room \in Nat /\ MaxHeight \in Nat \ {0}

Cells   == 0..LastCell
Heights == 1..MaxHeight
Sticks  == {-1, 0, 1}

VARIABLES
  clearance,   \* the world: free height of each cell
  impassible,  \* the world: cells that hold an object of ImpassibleObjectTypes
  capsule,     \* cell of the capsule (UpdatedComponent)
  origin,      \* VROrigin, relative to the capsule
  hmd,         \* where the HMD is in the room
  headHeight,  \* GetPlayerTopOfHeadHeight
  height,      \* height of the capsule
  previous     \* PreviousTickInputVector

world == <<clearance, impassible>>
vars  == <<world, capsule, origin, hmd, headHeight, height, previous>>

Camera == capsule + origin + hmd

\* The capsule, as high as h, overlaps no object of LocomotionBlockingObjectTypes.
Fits(cell, h) == h <= clearance[cell]

-----------------------------------------------------------------------------
\* CapsuleTraceSingleForObjects: what a sweep from one cell to another meets.

Path(from, to) == IF from <= to THEN from..to ELSE to..from

Distance(a, b) == IF a <= b THEN b - a ELSE a - b

Blocked(from, to, obstacles) == Path(from, to) \cap obstacles # {}

\* FHitResult::Location: the last cell before the first obstacle, or the start
\* when the sweep starts in one.
HitLocation(from, to, obstacles) ==
  CHOOSE cell \in Path(from, to) :
    /\ cell = from \/ Path(from, cell) \cap obstacles = {}
    /\ \/ cell = from /\ from \in obstacles
       \/ /\ from \notin obstacles
          /\ \E next \in Path(cell, to) \cap obstacles : Distance(cell, next) = 1

Blocking(h) == {cell \in Cells : ~Fits(cell, h)}

-----------------------------------------------------------------------------
\* The parts of the tick, on the pose [capsule, origin] of the actor.

\* UpdateCapsuleHeightToHMD: as high as the top of the player's head.
UpdateCapsuleHeightToHMD == headHeight

\* UpdateCapsulePositionToHMD: the actor moves under the HMD, without a sweep;
\* the origin, which is attached to it, moves back.
LeavesOriginBehind(pose) ==   \* mutation: forgets to move the origin back
  [pose EXCEPT !.capsule = pose.capsule + pose.origin + hmd]

UpdateCapsulePositionToHMD(pose) ==
  LET CapsuleToHMD == (pose.capsule + pose.origin + hmd) - pose.capsule
  IN  [capsule |-> pose.capsule + CapsuleToHMD, origin |-> pose.origin - CapsuleToHMD]

\* SetWorldLocation: what is attached to the capsule goes with it.
SetWorldLocation(pose, cell) == [pose EXCEPT !.capsule = cell]

\* The camera when locomotion begins, or where the sweep from where the capsule
\* was left is stopped: by something impassible on the way or, if the capsule
\* would not fit at the end, by the first thing on the way it does not fit in.
NoImpassibleSweep(pose) ==    \* mutation: only the destination is checked
  LET desired == pose.capsule + pose.origin + hmd
      aligned == UpdateCapsulePositionToHMD(pose)
  IN  IF Fits(desired, headHeight) THEN aligned
      ELSE SetWorldLocation(aligned, HitLocation(pose.capsule, desired, Blocking(headHeight)))

NoDestinationCheck(pose) ==   \* mutation: only the way is checked, for impassible objects
  LET desired == pose.capsule + pose.origin + hmd
      aligned == UpdateCapsulePositionToHMD(pose)
  IN  IF Blocked(pose.capsule, desired, impassible)
        THEN SetWorldLocation(aligned, HitLocation(pose.capsule, desired, impassible))
        ELSE aligned

BeginContinuousLocomotion(pose) ==
  LET from    == pose.capsule
      desired == pose.capsule + pose.origin + hmd
      aligned == UpdateCapsulePositionToHMD(pose)
  IN  IF Blocked(from, desired, impassible)
        THEN SetWorldLocation(aligned, HitLocation(from, desired, impassible))
      ELSE IF Fits(desired, headHeight)
        THEN aligned
      ELSE SetWorldLocation(aligned, HitLocation(from, desired, Blocking(headHeight)))

\* Where UCharacterMovementComponent::TickComponent may leave the capsule: one
\* cell on if that is free; a capsule that is stuck in something may stay or be
\* pushed out of it.
EngineMoves(cell, stick, h) ==
  LET free == {c \in Cells : Fits(c, h) /\ c \notin impassible}
  IN  IF cell \in free
        THEN {IF cell + stick \in free THEN cell + stick ELSE cell}
        ELSE {cell} \cup {c \in free : Distance(c, cell) = 1}

\* TickComponent with the given pending input.
Tick(stick) ==
  LET performing == stick # 0
      begins     == performing /\ previous = 0
      pose       == [capsule |-> capsule, origin |-> origin]
      begun      == IF begins THEN BeginContinuousLocomotion(pose) ELSE pose
      ready      == IF performing THEN UpdateCapsulePositionToHMD(begun) ELSE pose
  IN  /\ height' = IF performing THEN UpdateCapsuleHeightToHMD ELSE height
      /\ origin' = ready.origin
      /\ capsule' \in EngineMoves(ready.capsule, stick, height')
      /\ previous' = stick
      /\ capsule' + origin' + hmd \in Cells
      /\ UNCHANGED <<world, hmd, headHeight>>

\* The player moves, crouches or stands up; or tracking finds the HMD elsewhere.
MoveHead ==
  /\ hmd' \in -Room..Room
  /\ headHeight' \in Heights
  /\ capsule + origin + hmd' \in Cells
  /\ UNCHANGED <<world, capsule, origin, height, previous>>

Init ==
  /\ clearance \in [Cells -> 0..MaxHeight]
  /\ impassible \in SUBSET Cells
  /\ headHeight = MaxHeight /\ height = headHeight
  /\ capsule \in {c \in Cells : Fits(c, height) /\ c \notin impassible}
  /\ origin = 0 /\ hmd = 0 /\ previous = 0

Next == MoveHead \/ \E stick \in Sticks : Tick(stick)

Spec == Init /\ [][Next]_vars

-----------------------------------------------------------------------------
TypeOK ==
  /\ clearance \in [Cells -> 0..MaxHeight] /\ impassible \subseteq Cells
  /\ capsule \in Cells /\ Camera \in Cells /\ hmd \in -Room..Room
  /\ origin \in Int
  /\ headHeight \in Heights /\ height \in Heights /\ previous \in Sticks

\* A step in which the head stays where it is is a tick: the ticks with input,
\* and those that begin locomotion and those that continue it.
InputTick == UNCHANGED <<hmd, headHeight>> /\ previous' # 0
Begins    == InputTick /\ previous = 0
Held      == InputTick /\ previous # 0

\* While the stick is held the player's view moves as the engine moves the
\* character and not otherwise: putting the capsule under the HMD every tick is
\* invisible (UpdateCapsulePositionToHMD l.57-65).
ViewNeverJumps == [][Held => Distance(Camera, Camera') <= 1]_vars

\* Beginning to move never takes the capsule through something impassible from
\* where it was left (l.430-443) ...
BeginStopsAtImpassible ==
  [][Begins /\ capsule \notin impassible => ~Blocked(capsule, capsule', impassible)]_vars

\* ... and, with nothing impassible on the way, never puts it where it does not
\* fit, whatever it passed through, unless it was stuck already when it got its
\* new height (l.446-469).
BeginFindsRoom ==
  [][/\ Begins
     /\ Fits(capsule, headHeight)
     /\ ~Blocked(capsule, Camera, impassible)
     => Fits(capsule', height')]_vars

\* The comment on ImpassibleObjectTypes: "Objects that you should never be
\* allowed to move through, like level bounds and gameplay barriers."
NeverThroughImpassible ==
  [][capsule \notin impassible /\ capsule' \notin impassible =>
       Path(capsule, capsule') \cap impassible = {}]_vars
=============================================================================
