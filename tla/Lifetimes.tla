----------------------------- MODULE Lifetimes -----------------------------
(***************************************************************************)
(* LifetimeImpl, LifetimeDefinition and SequentialLifetimes: a tree of     *)
(* lifetimes, each with the actions to run when it is terminated, used     *)
(* from several threads.  A thread is a stack of what it is in the middle  *)
(* of: a lifetime's termination runs its actions outside of the lock, and  *)
(* an action may be the termination of another lifetime.                   *)
(***************************************************************************)
EXTENDS Naturals, Sequences, SequencesExt

CONSTANTS
  Threads,
  Viewer,        \* the thread that uses the SequentialLifetimes
  MaxLifetimes,  \* bound: lifetimes ever made
  MaxActions     \* bound: actions ever added by users of a lifetime

ASSUME LifetimesAssumption ==
  Viewer \in Threads /\ MaxLifetimes \in Nat \ {0} /\ MaxActions \in Nat

Eternal == 0
Root == 1
Lifetimes == 1 .. MaxLifetimes

VARIABLES
  lifetimes,   \* how many lifetimes have been made; they are numbered
  terminated,  \* terminated[l]
  actions,     \* actions[l], oldest first
  current,     \* current_def of a SequentialLifetimes under Root
  stack,       \* stack[t]: what thread t is in the middle of, innermost last
  parent,      \* history: parent[l], 0 until l is attached
  sequential,  \* history: the lifetimes made by next
  owner,       \* history: owner[a], the lifetime that accepted action a
  ran          \* history: the users' actions that were run, in order

vars == <<lifetimes, terminated, actions, current, stack, parent, sequential, owner, ran>>

UserAction(a) == [does |-> "user", which |-> a]
TerminatesNested(l) == [does |-> "terminate", which |-> l]
ErasesFromParent(l) == [does |-> "erase", which |-> l]
SetsCurrent(l) == [op |-> "current", lifetime |-> l]
SetsEternal == [does |-> "eternal", which |-> 0]

Init ==
  /\ lifetimes = 1
  /\ terminated = [l \in Lifetimes |-> FALSE]
  /\ actions = [l \in Lifetimes |-> IF l = Root THEN <<SetsEternal>> ELSE <<>>]
  /\ current = Eternal
  /\ stack = [t \in Threads |-> <<>>]
  /\ parent = [l \in Lifetimes |-> 0]
  /\ sequential = {}
  /\ owner = <<>>
  /\ ran = <<>>

Free(t) == stack[t] = <<>>
Top(t) == Last(stack[t])
Doing(t, op) == ~Free(t) /\ Top(t).op = op
Becomes(t, frames) == stack' = [stack EXCEPT ![t] = Front(@) \o frames]

AddAction(l, action) == actions' = [actions EXCEPT ![l] = Append(@, action)]
(* Under its id an action is there once; it is gone if they have been taken. *)
Erase(l, action) ==
  IF Contains(actions[l], action)
  THEN \E i \in DOMAIN actions[l] :
         /\ actions[l][i] = action
         /\ actions' = [actions EXCEPT ![l] = RemoveAt(@, i)]
  ELSE UNCHANGED actions
(* The users' actions are numbered as they are accepted. *)
AcceptAction(l) ==
  /\ AddAction(l, UserAction(Len(owner) + 1))
  /\ owner' = Append(owner, l)

-----------------------------------------------------------------------------
(* terminate: the flag is set first, the actions are taken under the lock. *)

TerminateFrame(l) == IF l = Eternal THEN <<>> ELSE <<[op |-> "take", lifetime |-> l]>>
Flag(l) ==
  terminated' = IF l = Eternal THEN terminated ELSE [terminated EXCEPT ![l] = TRUE]

Terminate(t, l) ==
  /\ Free(t)
  /\ Flag(l)
  /\ stack' = [stack EXCEPT ![t] = TerminateFrame(l)]
  /\ UNCHANGED <<lifetimes, actions, current, parent, sequential, owner, ran>>

(* mutation: the actions are run in the order they were added in *)
InOrderOfAdding(s) == s

RunOrder(s) == Reverse(s)

Run(rest) == IF rest = <<>> THEN <<>> ELSE <<[op |-> "run", rest |-> rest]>>

(* mutation: the actions are copied and stay where they are *)
CopyActions(t) ==
  /\ Doing(t, "take")
  /\ Becomes(t, Run(RunOrder(actions[Top(t).lifetime])))
  /\ UNCHANGED <<lifetimes, terminated, actions, current, parent, sequential, owner, ran>>

TakeActions(t) ==
  /\ Doing(t, "take")
  /\ Becomes(t, Run(RunOrder(actions[Top(t).lifetime])))
  /\ actions' = [actions EXCEPT ![Top(t).lifetime] = <<>>]
  /\ UNCHANGED <<lifetimes, terminated, current, parent, sequential, owner, ran>>

RunAction(t) ==
  /\ Doing(t, "run")
  /\ LET action == Head(Top(t).rest)
         rest   == Run(Tail(Top(t).rest))
     IN  \/ /\ action.does = "user"
            /\ ran' = Append(ran, action.which)
            /\ Becomes(t, rest)
            /\ UNCHANGED <<terminated, actions, current>>
         \/ /\ action.does = "terminate"
            /\ Flag(action.which)
            /\ Becomes(t, rest \o TerminateFrame(action.which))
            /\ UNCHANGED <<actions, current, ran>>
         \/ /\ action.does = "erase"
            /\ Erase(parent[action.which], TerminatesNested(action.which))
            /\ Becomes(t, rest)
            /\ UNCHANGED <<terminated, current, ran>>
         \/ /\ action.does = "eternal"
            /\ Becomes(t, rest \o <<SetsCurrent(Eternal)>>)
            /\ UNCHANGED <<terminated, actions, current, ran>>
  /\ UNCHANGED <<lifetimes, parent, sequential, owner>>

-----------------------------------------------------------------------------
(* add_action, and bracket, which looks at the flag before and not after the
   opening: when add_action throws, what was opened is not going to be
   closed. *)

(* mutation: an action is accepted by what has been terminated *)
AcceptsAlways(l) == l <= lifetimes

Accepts(l) == l <= lifetimes /\ ~terminated[l]

Add(t, l) ==
  /\ Free(t)
  /\ Len(owner) < MaxActions
  /\ Accepts(l)
  /\ AcceptAction(l)
  /\ UNCHANGED <<lifetimes, terminated, current, stack, parent, sequential, ran>>

Bracket(t, l) ==
  /\ Free(t)
  /\ Len(owner) < MaxActions
  /\ ~terminated[l]
  /\ stack' = [stack EXCEPT ![t] = <<[op |-> "close", lifetime |-> l]>>]
  /\ UNCHANGED <<lifetimes, terminated, actions, current, parent, sequential, owner, ran>>

BracketEnd(t) ==
  /\ Doing(t, "close")
  /\ IF Accepts(Top(t).lifetime) THEN AcceptAction(Top(t).lifetime)
                                 ELSE UNCHANGED <<actions, owner>>
  /\ Becomes(t, <<>>)
  /\ UNCHANGED <<lifetimes, terminated, current, parent, sequential, ran>>

-----------------------------------------------------------------------------
(* attach_nested: the parent gets the action that terminates the new
   lifetime, which then gets the one that erases that action, unless it has
   been terminated by it meanwhile and add_action throws. *)

Attach(t, p, frames) ==
  LET l == lifetimes + 1
  IN  /\ Free(t)
      /\ Accepts(p)
      /\ l \in Lifetimes
      /\ lifetimes' = l
      /\ parent' = [parent EXCEPT ![l] = p]
      /\ AddAction(p, TerminatesNested(l))
      /\ stack' = [stack EXCEPT ![t] = Append(frames, [op |-> "attach", lifetime |-> l])]
      /\ UNCHANGED <<terminated, current, owner, ran>>

CreateNested(t, p) == Attach(t, p, <<>>) /\ UNCHANGED sequential

AttachEnd(t) ==
  /\ Doing(t, "attach")
  /\ LET l == Top(t).lifetime
     IN  IF Accepts(l)
         THEN AddAction(l, ErasesFromParent(l)) /\ Becomes(t, <<>>)
         ELSE stack' = [stack EXCEPT ![t] = <<>>] /\ UNCHANGED actions
  /\ UNCHANGED <<lifetimes, terminated, current, parent, sequential, owner, ran>>

(* SequentialLifetimes: next, terminate_current and the action its parent
   runs lead to set_current_lifetime, which reads the previous lifetime,
   replaces it and terminates it. *)
NextLifetime ==
  /\ Attach(Viewer, Root, <<SetsCurrent(lifetimes + 1)>>)
  /\ sequential' = sequential \union {lifetimes + 1}

TerminateCurrent ==
  /\ Free(Viewer)
  /\ stack' = [stack EXCEPT ![Viewer] = <<SetsCurrent(Eternal)>>]
  /\ UNCHANGED <<lifetimes, terminated, actions, current, parent, sequential, owner, ran>>

ReadPrevious(t) ==
  /\ Doing(t, "current")
  /\ Becomes(t, <<[op |-> "replace", lifetime |-> Top(t).lifetime, previous |-> current]>>)
  /\ UNCHANGED <<lifetimes, terminated, actions, current, parent, sequential, owner, ran>>

(* mutation: the previous lifetime is left to its parent *)
KeepsPrevious(t) ==
  /\ Doing(t, "replace")
  /\ current' = Top(t).lifetime
  /\ Becomes(t, <<>>)
  /\ UNCHANGED <<lifetimes, terminated, actions, parent, sequential, owner, ran>>

ReplacePrevious(t) ==
  /\ Doing(t, "replace")
  /\ current' = Top(t).lifetime
  /\ Flag(Top(t).previous)
  /\ Becomes(t, TerminateFrame(Top(t).previous))
  /\ UNCHANGED <<lifetimes, actions, parent, sequential, owner, ran>>

-----------------------------------------------------------------------------

ThreadStep ==
  \E t \in Threads :
    \/ \E l \in 1 .. lifetimes :
         \/ Terminate(t, l) \/ CreateNested(t, l)
         \/ Add(t, l) \/ Bracket(t, l)
    \/ TakeActions(t) \/ RunAction(t)
    \/ BracketEnd(t) \/ AttachEnd(t)
    \/ ReadPrevious(t) \/ ReplacePrevious(t)

Next == ThreadStep \/ NextLifetime \/ TerminateCurrent

Spec == Init /\ [][Next]_vars

-----------------------------------------------------------------------------

\* What the threads are in the middle of, and what has been added.
Action == [does : {"user", "terminate", "erase", "eternal"}, which : Nat]
LifetimeFrame ==
  [op : {"take", "close", "attach", "current"}, lifetime : 0 .. MaxLifetimes]
RunFrame == [op : {"run"}, rest : Seq(Action)]
ReplaceFrame ==
  [op : {"replace"}, lifetime : 0 .. MaxLifetimes, previous : 0 .. MaxLifetimes]
Frame == LifetimeFrame \union RunFrame \union ReplaceFrame

TypeOK ==
  /\ lifetimes \in Lifetimes
  /\ terminated \in [Lifetimes -> BOOLEAN]
  /\ actions \in [Lifetimes -> Seq(Action)]
  /\ current \in 0 .. MaxLifetimes
  /\ stack \in [Threads -> Seq(Frame)]
  /\ parent \in [Lifetimes -> 0 .. MaxLifetimes]
  /\ sequential \subseteq 2 .. lifetimes
  /\ owner \in Seq(Lifetimes)
  /\ ran \in Seq(Nat)

AllFree == \A t \in Threads : Free(t)
Runs(a) == {i \in DOMAIN ran : ran[i] = a}

(* However many threads add actions to a lifetime and terminate it, its
   parent or both, an action that was accepted is run exactly once by the
   time all of them have returned, if its lifetime was terminated, and an
   action is never run twice or without a termination. *)
RunsExactlyOnce ==
  \A a \in 1 .. Len(owner) :
    IF terminated[owner[a]] THEN /\ \A i, j \in Runs(a) : i = j
                                 /\ AllFree => Runs(a) # {}
                            ELSE Runs(a) = {}

(* The actions of a lifetime are run in the reverse order they were accepted
   in, whichever thread has taken them. *)
RunsInReverse ==
  \A i, j \in 1 .. Len(ran) :
    i < j /\ owner[ran[i]] = owner[ran[j]] => ran[i] > ran[j]

(* No lifetime outlives the one it is nested in: when all terminations have
   returned, those nested in a terminated one are terminated too, even if
   they were being created meanwhile. *)
NestedEndsWithParent ==
  AllFree => \A l \in 2 .. lifetimes : terminated[parent[l]] => terminated[l]

(* A SequentialLifetimes has one lifetime alive at a time, even if its parent
   is terminated while it goes on to the next. *)
OneAtATime ==
  AllFree => \A l \in sequential : terminated[l] \/ l = current

=============================================================================
