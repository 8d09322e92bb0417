--------------------------- MODULE Locomotion_proofs ---------------------------
(***************************************************************************)
(* Proofs about the tick of the LVRC character, for worlds of any length,  *)
(* rooms of any size and players of any height: where a sweep stops, and   *)
(* what beginning and continuing to move do to the capsule and the view.   *)
(***************************************************************************)
EXTENDS Locomotion, WellFoundedInduction, TLAPS

-----------------------------------------------------------------------------
(* Sweeps.                                                                 *)

\* A set of distances has a least one.
LEMMA LeastDistance ==
  ASSUME NEW S \in SUBSET Nat, S # {}
  PROVE  \E m \in S : \A k \in S : m <= k
<1> DEFINE R == {ss \in Nat \X Nat : ss[1] < ss[2]}
<1>1. IsWellFoundedOn(R, Nat)
  BY NatLessThanWellFounded DEF OpToRel
<1>2. \A x, y \in Nat : <<y, x>> \notin R => x <= y
  OBVIOUS
<1> HIDE DEF R
<1>3. \E x \in S : \A y \in S : <<y, x>> \notin R
  BY <1>1, WFMin
<1> QED
  BY <1>2, <1>3

\* The cells of a path lie between its ends.
LEMMA PathCells ==
  ASSUME NEW from \in Int, NEW to \in Int
  PROVE  /\ from \in Path(from, to) /\ to \in Path(from, to)
         /\ Path(from, to) \subseteq Int
         /\ \A c \in Path(from, to) : Path(from, c) \subseteq Path(from, to)
         /\ from \in Cells /\ to \in Cells => Path(from, to) \subseteq Cells
BY WorldAssumption DEF Path, Cells

\* One cell further, a path meets at most that cell.
LEMMA PathOneOn ==
  ASSUME NEW from \in Int, NEW to \in Int, NEW c \in Int, Distance(to, c) <= 1
  PROVE  Path(from, c) \subseteq Path(from, to) \union {c}
BY DEF Path, Distance

\* A sweep that starts in the clear and meets something is stopped by a first
\* obstacle, with a last cell before it.
LEMMA LastClearCell ==
  ASSUME NEW from \in Int, NEW to \in Int, NEW obstacles,
         from \notin obstacles, Blocked(from, to, obstacles)
  PROVE  \E cell \in Path(from, to) :
           /\ Path(from, cell) \cap obstacles = {}
           /\ \E next \in Path(cell, to) \cap obstacles : Distance(cell, next) = 1
<1> DEFINE D == {d \in Nat : \E c \in Path(from, to) \cap obstacles : Distance(from, c) = d}
<1>1. \A c \in Path(from, to) : c \in Int /\ Distance(from, c) \in Nat
  BY DEF Path, Distance
<1>2. D \in SUBSET Nat /\ D # {}
  BY <1>1 DEF Blocked
<1>3. PICK m \in D : \A k \in D : m <= k
  BY <1>2, LeastDistance
<1>4. PICK c \in Path(from, to) \cap obstacles : Distance(from, c) = m
  BY <1>3
<1>5. \A b \in Path(from, to) \cap obstacles : m <= Distance(from, b)
  BY <1>1, <1>3
<1>6. m \in Nat \ {0} /\ c \in Int
  <2>1. c # from /\ c \in Int /\ m \in Nat
    BY <1>1, <1>3, <1>4
  <2> QED
    BY <1>4, <2>1 DEF Distance
<1> HIDE DEF D
<1>7. CASE from <= to
  <2>1. from <= c /\ c <= to /\ c = from + m
    BY <1>4, <1>6, <1>7 DEF Path, Distance
  <2>2. c - 1 \in Path(from, to) /\ c \in Path(c - 1, to) /\ Distance(c - 1, c) = 1
    BY <1>6, <1>7, <2>1 DEF Path, Distance
  <2>3. ASSUME NEW b \in Path(from, c - 1), b \in obstacles PROVE FALSE
    <3>1. b \in Int /\ from <= b /\ b <= c - 1
      BY <1>6, <2>1, <2>3 DEF Path
    <3>2. b \in Path(from, to) /\ Distance(from, b) = b - from
      BY <1>6, <1>7, <2>1, <3>1 DEF Path, Distance
    <3> QED
      BY <1>5, <1>6, <2>1, <2>3, <3>1, <3>2
  <2> QED
    BY <1>4, <2>2, <2>3
<1>8. CASE to < from
  <2>1. to <= c /\ c <= from /\ c = from - m
    BY <1>4, <1>6, <1>8 DEF Path, Distance
  <2>2. c + 1 \in Path(from, to) /\ c \in Path(c + 1, to) /\ Distance(c + 1, c) = 1
    BY <1>6, <1>8, <2>1 DEF Path, Distance
  <2>3. ASSUME NEW b \in Path(from, c + 1), b \in obstacles PROVE FALSE
    <3>1. b \in Int /\ b <= from /\ c + 1 <= b
      BY <1>6, <2>1, <2>3 DEF Path
    <3>2. b \in Path(from, to) /\ Distance(from, b) = from - b
      BY <1>6, <1>8, <2>1, <3>1 DEF Path, Distance
    <3> QED
      BY <1>5, <1>6, <2>1, <2>3, <3>1, <3>2
  <2> QED
    BY <1>4, <2>2, <2>3
<1> QED
  BY <1>7, <1>8

\* Where a sweep that meets something stops.
LEMMA SweepStops ==
  ASSUME NEW from \in Int, NEW to \in Int, NEW obstacles, Blocked(from, to, obstacles)
  PROVE  /\ HitLocation(from, to, obstacles) \in Path(from, to)
         /\ from \notin obstacles =>
              Path(from, HitLocation(from, to, obstacles)) \cap obstacles = {}
<1> DEFINE Stops(cell) ==
      /\ cell = from \/ Path(from, cell) \cap obstacles = {}
      /\ \/ cell = from /\ from \in obstacles
         \/ /\ from \notin obstacles
            /\ \E next \in Path(cell, to) \cap obstacles : Distance(cell, next) = 1
<1>1. \E cell \in Path(from, to) : Stops(cell)
  <2>1. CASE from \in obstacles
    BY <2>1, PathCells
  <2>2. CASE from \notin obstacles
    BY <2>2, LastClearCell
  <2> QED
    BY <2>1, <2>2
<1>2. HitLocation(from, to, obstacles) = CHOOSE cell \in Path(from, to) : Stops(cell)
  BY DEF HitLocation
<1> HIDE DEF Stops
<1>3. /\ HitLocation(from, to, obstacles) \in Path(from, to)
      /\ Stops(HitLocation(from, to, obstacles))
  BY <1>1, <1>2
<1>4. from \notin obstacles => Path(from, from) \cap obstacles = {}
  BY DEF Path
<1> QED
  BY <1>3, <1>4 DEF Stops

-----------------------------------------------------------------------------
(* The parts of the tick.                                                  *)

Clear(cell, h) == Fits(cell, h) /\ cell \notin impassible

\* The engine moves the capsule by one cell at most, and into nothing.
LEMMA EngineStep ==
  ASSUME NEW cell \in Cells, NEW stick \in Sticks, NEW h, NEW c \in EngineMoves(cell, stick, h)
  PROVE  /\ c \in Cells /\ Distance(cell, c) <= 1
         /\ c = cell \/ Clear(c, h)
         /\ Clear(cell, h) => Clear(c, h)
<1> DEFINE free == {b \in Cells : Fits(b, h) /\ b \notin impassible}
<1>1. cell \in Int /\ Distance(cell, cell) = 0 /\ Distance(cell, cell + stick) <= 1
  BY WorldAssumption DEF Cells, Sticks, Distance
<1>2. \A b \in Cells : Distance(b, cell) = 1 => Distance(cell, b) = 1
  BY WorldAssumption DEF Cells, Distance
<1>3. CASE cell \in free
  <2>1. c = IF cell + stick \in free THEN cell + stick ELSE cell
    BY <1>3 DEF EngineMoves
  <2> QED
    BY <1>1, <1>3, <2>1 DEF Clear
<1>4. CASE cell \notin free
  <2>1. c = cell \/ (c \in free /\ Distance(c, cell) = 1)
    BY <1>4 DEF EngineMoves
  <2>2. ~Clear(cell, h)
    BY <1>4 DEF Clear
  <2>3. ASSUME c # cell PROVE c \in Cells /\ Distance(cell, c) <= 1 /\ Clear(c, h)
    <3>1. c \in Cells /\ Clear(c, h) /\ Distance(c, cell) = 1
      BY <2>1, <2>3 DEF Clear
    <3> QED
      BY <1>2, <3>1
  <2>4. Distance(cell, cell) <= 1
    BY <1>1
  <2> QED
    BY <2>2, <2>3, <2>4
<1> QED
  BY <1>3, <1>4

\* Putting the capsule under the HMD leaves the camera where it is.
LEMMA UnderHMD ==
  ASSUME NEW c \in Int, NEW o \in Int, hmd \in Int
  PROVE  UpdateCapsulePositionToHMD([capsule |-> c, origin |-> o]) =
           [capsule |-> c + o + hmd, origin |-> -hmd]
BY DEF UpdateCapsulePositionToHMD

\* Where locomotion begins, from the capsule and the camera.
LEMMA BeginsUnderHMD ==
  ASSUME TypeOK
  PROVE  \E cell \in Path(capsule, Camera) :
           /\ BeginContinuousLocomotion([capsule |-> capsule, origin |-> origin]) =
                [capsule |-> cell, origin |-> -hmd]
           /\ capsule \notin impassible => Path(capsule, cell) \cap impassible = {}
           /\ Fits(capsule, headHeight) /\ ~Blocked(capsule, Camera, impassible) =>
                Fits(cell, headHeight) /\ cell \notin impassible
<1> DEFINE pose == [capsule |-> capsule, origin |-> origin]
           aligned == UpdateCapsulePositionToHMD(pose)
           begun == BeginContinuousLocomotion(pose)
           stop(obstacles) == HitLocation(capsule, Camera, obstacles)
<1>1. capsule \in Int /\ origin \in Int /\ hmd \in Int /\ Camera \in Int
      /\ capsule \in Cells /\ Camera \in Cells
  BY WorldAssumption DEF TypeOK, Cells
<1>2. aligned = [capsule |-> Camera, origin |-> -hmd]
  BY <1>1, UnderHMD DEF Camera
<1>3. \A c : SetWorldLocation(aligned, c) = [capsule |-> c, origin |-> -hmd]
  BY <1>2 DEF SetWorldLocation
<1>4. begun = IF Blocked(capsule, Camera, impassible)
                THEN SetWorldLocation(aligned, stop(impassible))
              ELSE IF Fits(Camera, headHeight) THEN aligned
              ELSE SetWorldLocation(aligned, stop(Blocking(headHeight)))
  BY DEF BeginContinuousLocomotion, Camera
<1> HIDE DEF pose, aligned, begun
<1>5. CASE Blocked(capsule, Camera, impassible)
  <2>1. begun = [capsule |-> stop(impassible), origin |-> -hmd]
    BY <1>3, <1>4, <1>5
  <2>2. /\ stop(impassible) \in Path(capsule, Camera)
        /\ capsule \notin impassible => Path(capsule, stop(impassible)) \cap impassible = {}
    BY <1>1, <1>5, SweepStops
  <2> QED
    BY <1>5, <2>1, <2>2 DEF begun, pose
<1>6. CASE ~Blocked(capsule, Camera, impassible) /\ Fits(Camera, headHeight)
  <2>1. begun = [capsule |-> Camera, origin |-> -hmd]
    BY <1>2, <1>4, <1>6
  <2>2. Camera \in Path(capsule, Camera) /\ Path(capsule, Camera) \cap impassible = {}
    BY <1>1, <1>6, PathCells DEF Blocked
  <2> QED
    BY <1>6, <2>1, <2>2 DEF begun, pose
<1>7. CASE ~Blocked(capsule, Camera, impassible) /\ ~Fits(Camera, headHeight)
  <2> DEFINE cell == stop(Blocking(headHeight))
  <2>1. begun = [capsule |-> cell, origin |-> -hmd]
    BY <1>3, <1>4, <1>7
  <2>2. Blocked(capsule, Camera, Blocking(headHeight))
    BY <1>1, <1>7, PathCells DEF Blocked, Blocking
  <2>3. /\ cell \in Path(capsule, Camera)
        /\ capsule \notin Blocking(headHeight) => Path(capsule, cell) \cap Blocking(headHeight) = {}
    BY <1>1, <2>2, SweepStops
  <2> HIDE DEF cell
  <2>4. cell \in Cells /\ Path(capsule, cell) \subseteq Path(capsule, Camera)
        /\ cell \in Path(capsule, cell)
    BY <1>1, <2>3, PathCells
  <2>5. Path(capsule, cell) \cap impassible = {}
    BY <1>7, <2>4 DEF Blocked
  <2>6. Fits(capsule, headHeight) => Fits(cell, headHeight)
    BY <2>3, <2>4 DEF Blocking
  <2> QED
    BY <2>1, <2>3, <2>4, <2>5, <2>6 DEF begun, pose
<1> QED
  BY <1>5, <1>6, <1>7

\* What a tick does to the pose.
LEMMA TickMoves ==
  ASSUME TypeOK, NEW stick \in Sticks, Tick(stick)
  PROVE  \E cell \in Cells :
           /\ capsule' \in EngineMoves(cell, stick, height')
           /\ stick = 0 => cell = capsule /\ origin' = origin /\ height' = height
           /\ stick # 0 => origin' = -hmd /\ height' = headHeight
           /\ stick # 0 /\ previous # 0 => cell = Camera
           /\ stick # 0 /\ previous = 0 =>
                /\ cell \in Path(capsule, Camera)
                /\ capsule \notin impassible => Path(capsule, cell) \cap impassible = {}
                /\ Fits(capsule, headHeight) /\ ~Blocked(capsule, Camera, impassible) =>
                     Clear(cell, headHeight)
<1> DEFINE pose == [capsule |-> capsule, origin |-> origin]
<1>1. capsule \in Int /\ origin \in Int /\ hmd \in Int /\ Camera \in Int
      /\ capsule \in Cells /\ Camera \in Cells
  BY WorldAssumption DEF TypeOK, Cells
<1>2. CASE stick = 0
  <2>1. height' = height /\ origin' = origin /\ capsule' \in EngineMoves(capsule, stick, height')
    BY <1>2 DEF Tick
  <2> QED
    BY <1>1, <1>2, <2>1
<1>3. CASE stick # 0 /\ previous # 0
  <2>1. UpdateCapsulePositionToHMD(pose) = [capsule |-> Camera, origin |-> -hmd]
    BY <1>1, UnderHMD DEF Camera
  <2>2. /\ height' = headHeight
        /\ origin' = UpdateCapsulePositionToHMD(pose).origin
        /\ capsule' \in EngineMoves(UpdateCapsulePositionToHMD(pose).capsule, stick, height')
    BY <1>3 DEF Tick, UpdateCapsuleHeightToHMD
  <2>3. origin' = -hmd /\ capsule' \in EngineMoves(Camera, stick, height')
    BY <2>1, <2>2
  <2> QED
    BY <1>1, <1>3, <2>2, <2>3
<1>4. CASE stick # 0 /\ previous = 0
  <2> DEFINE begun == BeginContinuousLocomotion(pose)
  <2>1. PICK cell \in Path(capsule, Camera) :
           /\ begun = [capsule |-> cell, origin |-> -hmd]
           /\ capsule \notin impassible => Path(capsule, cell) \cap impassible = {}
           /\ Fits(capsule, headHeight) /\ ~Blocked(capsule, Camera, impassible) =>
                Fits(cell, headHeight) /\ cell \notin impassible
    BY BeginsUnderHMD
  <2>2. cell \in Cells /\ cell \in Int /\ -hmd \in Int
    BY <1>1, PathCells
  <2>3. UpdateCapsulePositionToHMD([capsule |-> cell, origin |-> -hmd]) =
          [capsule |-> cell, origin |-> -hmd]
    BY <1>1, <2>2, UnderHMD
  <2>4. /\ height' = headHeight
        /\ origin' = UpdateCapsulePositionToHMD(begun).origin
        /\ capsule' \in EngineMoves(UpdateCapsulePositionToHMD(begun).capsule, stick, height')
    BY <1>4 DEF Tick, UpdateCapsuleHeightToHMD
  <2> HIDE DEF begun
  <2>5. origin' = -hmd /\ capsule' \in EngineMoves(cell, stick, height')
    BY <2>1, <2>3, <2>4
  <2> QED
    BY <1>4, <2>1, <2>2, <2>4, <2>5 DEF Clear
<1> QED
  BY <1>2, <1>3, <1>4

-----------------------------------------------------------------------------
(* The theorems.                                                           *)

\* The capsule and the camera stay in the world, whatever the player does.
THEOREM LocomotionTypeCorrect == Spec => []TypeOK
<1>1. Init => TypeOK
  <2> SUFFICES ASSUME Init PROVE TypeOK
    OBVIOUS
  <2>1. capsule \in Cells /\ capsule \in Int /\ origin = 0 /\ hmd = 0
    BY DEF Init, Cells
  <2>2. Camera = capsule
    BY <2>1 DEF Camera
  <2>3. MaxHeight \in Heights /\ hmd \in -Room..Room /\ 0 \in Sticks
    BY <2>1, WorldAssumption DEF Heights, Sticks
  <2> QED
    BY <2>1, <2>2, <2>3 DEF Init, TypeOK
<1>2. TypeOK /\ [Next]_vars => TypeOK'
  <2> SUFFICES ASSUME TypeOK, [Next]_vars PROVE TypeOK'
    OBVIOUS
  <2>1. CASE UNCHANGED vars
    BY <2>1 DEF vars, world, TypeOK, Camera
  <2>2. CASE MoveHead
    BY <2>2 DEF MoveHead, world, TypeOK, Camera
  <2>3. ASSUME NEW stick \in Sticks, Tick(stick) PROVE TypeOK'
    <3>1. PICK cell \in Cells :
            /\ capsule' \in EngineMoves(cell, stick, height')
            /\ stick = 0 => origin' = origin /\ height' = height
            /\ stick # 0 => origin' = -hmd /\ height' = headHeight
      BY <2>3, TickMoves
    <3>2. capsule' \in Cells
      BY <3>1, EngineStep
    <3>3. /\ UNCHANGED <<clearance, impassible, hmd, headHeight>> /\ previous' = stick
          /\ capsule' + origin' + hmd \in Cells
      BY <2>3 DEF Tick, world
    <3>4. origin' \in Int /\ height' \in Heights
      BY <3>1 DEF TypeOK
    <3> QED
      BY <3>2, <3>3, <3>4 DEF TypeOK, Camera
  <2> QED
    BY <2>1, <2>2, <2>3 DEF Next
<1> QED
  BY <1>1, <1>2, PTL DEF Spec

\* While the stick is held a tick moves the view by what the engine moves the
\* character, and the moves under the HMD cancel out.
THEOREM ViewIsSteady == Spec => ViewNeverJumps
<1>1. TypeOK /\ [Next]_vars => [Held => Distance(Camera, Camera') <= 1]_vars
  <2> SUFFICES ASSUME TypeOK, Next, Held
               PROVE  Distance(Camera, Camera') <= 1
    OBVIOUS
  <2>1. Camera \in Int /\ Camera \in Cells /\ capsule \in Int /\ origin \in Int /\ hmd \in Int
    BY WorldAssumption DEF TypeOK, Cells
  <2>2. CASE MoveHead
    <3>1. Camera' = Camera
      BY <2>2 DEF MoveHead, Held, InputTick, Camera
    <3> QED
      BY <2>1, <3>1 DEF Distance
  <2>3. ASSUME NEW stick \in Sticks, Tick(stick)
        PROVE  Distance(Camera, Camera') <= 1
    <3>1. stick # 0 /\ previous # 0 /\ hmd' = hmd
      BY <2>3 DEF Held, InputTick, Tick
    <3>2. capsule' \in EngineMoves(Camera, stick, height') /\ origin' = -hmd
      BY <2>3, <3>1, TickMoves
    <3>3. capsule' \in Cells /\ Distance(Camera, capsule') <= 1
      BY <2>1, <3>2, EngineStep
    <3>4. Camera' = capsule'
      <4>1. \A c \in Int, h \in Int : c + -h + h = c
        OBVIOUS
      <4>2. capsule' \in Int
        BY <3>3, WorldAssumption DEF Cells
      <4>3. Camera' = capsule' + -hmd + hmd
        BY <3>1, <3>2 DEF Camera
      <4> QED
        BY <2>1, <4>1, <4>2, <4>3
    <3> QED
      BY <3>3, <3>4
  <2> QED
    BY <2>2, <2>3 DEF Next
<1> QED
  BY <1>1, LocomotionTypeCorrect, PTL DEF Spec, ViewNeverJumps

\* A tick that begins locomotion, from where the capsule was left.
LEMMA BeginningTick ==
  ASSUME TypeOK, Next, Begins
  PROVE  \E stick \in Sticks, cell \in Cells :
           /\ capsule' \in EngineMoves(cell, stick, height') /\ height' = headHeight
           /\ cell \in Path(capsule, Camera)
           /\ capsule \notin impassible => Path(capsule, cell) \cap impassible = {}
           /\ Fits(capsule, headHeight) /\ ~Blocked(capsule, Camera, impassible) =>
                Clear(cell, headHeight)
           /\ UNCHANGED <<clearance, impassible>>
<1>1. ~MoveHead
  BY DEF MoveHead, Begins, InputTick
<1>2. PICK stick \in Sticks : Tick(stick)
  BY <1>1 DEF Next
<1>3. stick # 0 /\ previous = 0 /\ UNCHANGED <<clearance, impassible>>
  BY <1>2 DEF Begins, InputTick, Tick, world
<1> QED
  BY <1>2, <1>3, TickMoves

\* Beginning to move never takes the capsule through something impassible, in
\* worlds where impassible objects and low ceilings lie in any order on the way.
THEOREM StopsAtImpassible == Spec => BeginStopsAtImpassible
<1>1. TypeOK /\ [Next]_vars =>
        [Begins /\ capsule \notin impassible => ~Blocked(capsule, capsule', impassible)]_vars
  <2> SUFFICES ASSUME TypeOK, Next, Begins, capsule \notin impassible
               PROVE  ~Blocked(capsule, capsule', impassible)
    OBVIOUS
  <2>1. PICK stick \in Sticks, cell \in Cells :
           /\ capsule' \in EngineMoves(cell, stick, height')
           /\ Path(capsule, cell) \cap impassible = {}
    BY BeginningTick
  <2>2. /\ capsule' \in Cells /\ Distance(cell, capsule') <= 1
        /\ capsule' = cell \/ Clear(capsule', height')
    BY <2>1, EngineStep
  <2>3. capsule \in Int /\ cell \in Int /\ capsule' \in Int /\ capsule' = cell => cell \in Path(capsule, cell)
    BY <2>2, PathCells DEF TypeOK, Cells
  <2>4. Path(capsule, capsule') \subseteq Path(capsule, cell) \union {capsule'}
    BY <2>2, <2>3, PathOneOn DEF TypeOK, Cells
  <2> QED
    BY <2>1, <2>2, <2>3, <2>4 DEF Blocked, Clear
<1> QED
  BY <1>1, LocomotionTypeCorrect, PTL DEF Spec, BeginStopsAtImpassible

\* With nothing impassible on the way, the capsule is put where it fits, whatever
\* else it passed through.
THEOREM FindsRoom == Spec => BeginFindsRoom
<1>1. TypeOK /\ [Next]_vars =>
        [/\ Begins
         /\ Fits(capsule, headHeight)
         /\ ~Blocked(capsule, Camera, impassible)
         => Fits(capsule', height')]_vars
  <2> SUFFICES ASSUME TypeOK, Next, Begins, Fits(capsule, headHeight),
                      ~Blocked(capsule, Camera, impassible)
               PROVE  Fits(capsule', height')
    OBVIOUS
  <2>1. PICK stick \in Sticks, cell \in Cells :
           /\ capsule' \in EngineMoves(cell, stick, height') /\ height' = headHeight
           /\ Clear(cell, headHeight)
    BY BeginningTick
  <2> QED
    BY <2>1, EngineStep DEF Clear
<1> QED
  BY <1>1, LocomotionTypeCorrect, PTL DEF Spec, BeginFindsRoom
===============================================================================
