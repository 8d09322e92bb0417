---------------------------- MODULE Calls_proofs ----------------------------
(***************************************************************************)
(* Proofs about calls, endpoints and their tasks, for any number of calls: *)
(* who may still write the result of a task, what the end of the bind      *)
(* lifetime leaves behind, and where a call that has no result yet is.     *)
(***************************************************************************)
EXTENDS Calls, SequenceTheorems, FiniteSetTheorems, WellFoundedInduction, TLAPS

USE DEF endpoint

-----------------------------------------------------------------------------
(* The inductive invariant.                                                *)

Requests == [kind : {"request"}, task : Tasks, result : {"empty"}]
AnswerMessages == [kind : {"answer"}, task : Tasks, result : Answers]
Messages == Requests \union AnswerMessages

SettingStates == [at : {"setting"}, task : Tasks, result : Answers]
SocketStates == {Idle, Broken} \union SettingStates
ThreadStates == SocketStates \union [at : {"waiting"}, task : Tasks]
Marks == {"no", "awaiting", "refused", "answered", "twice"}

TaskStates == [held : BOOLEAN, sync : BOOLEAN, result : Results]

TypeOK ==
  /\ made \in [Ends -> 0 .. MaxCalls]
  /\ task \in [Ends -> [Tasks -> TaskStates]]
  /\ sync_task_id \in [Ends -> 0 .. MaxCalls]
  /\ thread \in [Ends -> ThreadStates]
  /\ socket \in [Ends -> SocketStates]
  /\ queue \in [Ends -> Seq(Messages)]
  /\ wire \in [Ends -> Seq(Messages)]
  /\ handler \in [Ends -> BOOLEAN]
  /\ handled \in [Ends -> [Tasks -> Marks]]
  /\ lifetime \in [Ends -> {"alive", "terminated", "ended"}]
  /\ todo \in [Ends -> 0 .. MaxCalls]
  /\ sawEmpty \in [Ends -> BOOLEAN]

\* Whose call a message that e gets is about.
Caller(e, m) == IF m.kind = "request" THEN Other(e) ELSE e

\* Messages, and what the endpoint has handled, are about calls that were made.
AboutCalls(e) ==
  /\ \A m \in Range(wire[e]) \union Range(queue[e]) : m.task <= made[Caller(e, m)]
  /\ \A i \in Tasks : handled[e][i] # "no" => i <= made[Other(e)]

\* A task that was not made is held by nobody.
OnlyMadeHeld(e) == \A i \in Tasks : task[e][i].held => i <= made[e]

\* The scheduler only gets answers for calls that were started, the socket
\* thread only sets results of synchronous ones: a result that one of them is
\* about to set after it has seen the task empty is not an answer yet.
OneSetter(e) ==
  /\ \A m \in Range(queue[e]) : m.kind = "answer" => ~task[e][m.task].sync
  /\ socket[e].at = "setting" =>
       /\ socket[e].task <= made[e]
       /\ task[e][socket[e].task].sync
       /\ task[e][socket[e].task].result \notin Answers
  /\ thread[e].at = "setting" =>
       /\ thread[e].task <= made[e]
       /\ ~task[e][thread[e].task].sync
       /\ task[e][thread[e].task].result \notin Answers

\* The end of the lifetime leaves no task above `todo' that waits.
Answered(e, i) == task[e][i].held => ~Empty(e, i)
EndsFromTheTop(e) ==
  /\ sawEmpty[e] => lifetime[e] = "terminated" /\ todo[e] # 0
  /\ lifetime[e] = "terminated" => \A i \in 1 .. made[e] : i > todo[e] => Answered(e, i)
  /\ lifetime[e] = "ended" => \A i \in 1 .. made[e] : Answered(e, i)

\* Where a call of e is that nobody has answered; the endpoint may have refused it.
About(kind, i, s) == \E m \in Range(s) : m.kind = kind /\ m.task = i
Asked(e, i) ==
  \/ About("request", i, wire[Other(e)])
  \/ About("request", i, queue[Other(e)])
  \/ handled[Other(e)][i] \in {"awaiting", "refused"}
Answering(e, i) ==
  \/ About("answer", i, wire[e])
  \/ About("answer", i, queue[e])
  \/ socket[e].at = "setting" /\ socket[e].task = i
  \/ thread[e].at = "setting" /\ thread[e].task = i
AllAlive == \A e \in Ends : lifetime[e] = "alive"
Accounted(e, i) == Answered(e, i) \/ Asked(e, i) \/ Answering(e, i)
Underway(e) == AllAlive => \A i \in 1 .. made[e] : Accounted(e, i)

CallsInv ==
  /\ TypeOK
  /\ \A e \in Ends : AboutCalls(e) /\ OnlyMadeHeld(e) /\ OneSetter(e) /\ EndsFromTheTop(e)
  /\ \A e \in Ends : Underway(e)

-----------------------------------------------------------------------------
(* The two ends, sequences as sets, and the largest of some numbers.       *)

\* `Other' is the other one of two ends.
LEMMA OtherEnd ==
  /\ \A e \in Ends : Other(e) \in Ends /\ Other(e) # e /\ Other(Other(e)) = e
  /\ \A e, f \in Ends : f = e \/ f = Other(e)
  <1>1. ASSUME NEW e \in Ends
        PROVE  \E f \in Ends : f # e /\ \A g \in Ends : g = e \/ g = f
    <2>1. IsFiniteSet(Ends \ {e}) /\ Cardinality(Ends \ {e}) = 1
      BY FS_RemoveElement, CallsAssumption
    <2>2. \E f : Ends \ {e} = {f}
      BY <2>1, FS_Singleton
    <2>3. QED
      BY <2>2
  <1>2. QED
    BY <1>1 DEF Other

\* Adding a message.
LEMMA RangeAppend ==
  ASSUME NEW s \in Seq(Messages), NEW m \in Messages
  PROVE  /\ Append(s, m) \in Seq(Messages)
         /\ Range(Append(s, m)) = Range(s) \union {m}
  <1>1. /\ Append(s, m) \in Seq(Messages)
        /\ Len(Append(s, m)) = Len(s) + 1
        /\ \A i \in 1 .. Len(s) : Append(s, m)[i] = s[i]
        /\ Append(s, m)[Len(s) + 1] = m
    BY AppendProperties
  <1>2. DOMAIN s = 1 .. Len(s) /\ DOMAIN Append(s, m) = 1 .. (Len(s) + 1) /\ Len(s) \in Nat
    BY <1>1, LenProperties
  <1>3. 1 .. (Len(s) + 1) = (1 .. Len(s)) \union {Len(s) + 1}
    BY <1>2
  <1>4. QED
    BY <1>1, <1>2, <1>3 DEF Range

\* Taking the first message.
LEMMA RangeTail ==
  ASSUME NEW s \in Seq(Messages), s # <<>>
  PROVE  /\ Head(s) \in Messages
         /\ Tail(s) \in Seq(Messages)
         /\ Range(s) = {Head(s)} \union Range(Tail(s))
  <1>1. /\ Head(s) \in Messages
        /\ Tail(s) \in Seq(Messages)
        /\ Head(s) = s[1]
        /\ Len(Tail(s)) = Len(s) - 1
        /\ \A i \in 1 .. Len(Tail(s)) : Tail(s)[i] = s[i + 1]
    BY HeadTailProperties
  <1>2. /\ DOMAIN s = 1 .. Len(s)
        /\ DOMAIN Tail(s) = 1 .. (Len(s) - 1)
        /\ Len(s) \in Nat /\ Len(s) # 0
    BY <1>1, LenProperties, EmptySeq
  <1>3. ASSUME NEW m \in Range(s)
        PROVE  m = Head(s) \/ m \in Range(Tail(s))
    <2>1. PICK i \in 1 .. Len(s) : m = s[i]
      BY <1>2 DEF Range
    <2>2. CASE i = 1
      BY <2>1, <2>2, <1>1
    <2>3. CASE i # 1
      <3>1. i - 1 \in 1 .. Len(Tail(s)) /\ (i - 1) + 1 = i
        BY <1>1, <1>2, <2>3
      <3>2. Tail(s)[i - 1] = m
        BY <3>1, <2>1, <1>1
      <3>3. QED
        BY <3>1, <3>2, <1>1, <1>2 DEF Range
    <2>4. QED
      BY <2>2, <2>3
  <1>4. ASSUME NEW m \in Range(Tail(s))
        PROVE  m \in Range(s)
    <2>1. PICK i \in 1 .. Len(Tail(s)) : m = Tail(s)[i]
      BY <1>1, <1>2 DEF Range
    <2>2. i + 1 \in 1 .. Len(s) /\ s[i + 1] = m
      BY <1>1, <1>2, <2>1
    <2>3. QED
      BY <2>2, <1>2 DEF Range
  <1>5. Head(s) \in Range(s)
    BY <1>1, <1>2 DEF Range
  <1>6. QED
    BY <1>1, <1>3, <1>4, <1>5

\* A message under way is one, and none is in an empty sequence.
LEMMA RangeMessages ==
  /\ \A s \in Seq(Messages) : Range(s) \subseteq Messages
  /\ Range(<<>>) = {}
  BY LenProperties DEF Range

\* The tasks that wait below a bound have a last one.
LEMMA LastOne ==
  ASSUME NEW n \in Nat, NEW S \in SUBSET (1 .. n), S # {}
  PROVE  Max(S) \in S /\ \A i \in S : i <= Max(S)
  <1> DEFINE Above(i) == {j \in S : j > i}
             T == {Above(i) : i \in S}
  <1>1. T \subseteq SUBSET S /\ T # {}
    OBVIOUS
  <1>n. \A i \in S : i \in Nat
    OBVIOUS
  <1>2. IsFiniteSet(1 .. n)
    BY FS_Interval
  <1>3. IsFiniteSet(S)
    BY <1>2, FS_Subset
  <1>4. IsWellFoundedOn(StrictSubsetOrdering(S), SUBSET S)
    BY <1>3, FS_FiniteSubsetsOfFinite, FS_StrictSubsetOrderingWellFounded
  <1>5. \E x \in T : \A y \in T : <<y, x>> \notin StrictSubsetOrdering(S)
    <2> HIDE DEF T
    <2>1. QED
      BY <1>1, <1>4, WFMin
  <1>6. PICK m \in S : \A j \in S : <<Above(j), Above(m)>> \notin StrictSubsetOrdering(S)
    BY <1>5
  <1>7. ASSUME NEW j \in S, j > m
        PROVE  FALSE
    <2>1. Above(j) \subseteq Above(m) /\ j \in Above(m) /\ j \notin Above(j)
      <3>1. j \in Nat /\ m \in Nat
        BY <1>n
      <3>2. ASSUME NEW k \in Above(j)
            PROVE  k \in Above(m)
        <4>1. k \in S /\ k \in Nat /\ k > j
          BY <1>n
        <4>2. k > m
          BY <4>1, <3>1, <1>7
        <4>3. QED
          BY <4>1, <4>2
      <3>3. j \in Above(m) /\ j \notin Above(j)
        BY <3>1, <1>7
      <3>4. QED
        BY <3>2, <3>3
    <2>2. Above(j) \in SUBSET S /\ Above(m) \in SUBSET S
      OBVIOUS
    <2>3. <<Above(j), Above(m)>> \in StrictSubsetOrdering(S)
      <3> HIDE DEF Above
      <3>1. QED
        BY <2>1, <2>2 DEF StrictSubsetOrdering
    <2>4. QED
      BY <2>3, <1>6
  <1>8. \A j \in S : m >= j
    BY <1>7, <1>n
  <1>9. QED
    BY <1>8, <1>n DEF Max

-----------------------------------------------------------------------------
(* Types.                                                                  *)

\* Before any call there is none to answer.
LEMMA CallsInit == Init => CallsInv
  <1> SUFFICES ASSUME Init PROVE CallsInv
    OBVIOUS
  <1> USE CallsAssumption
  <1>1. TypeOK
    BY EmptySeq DEF Init, TypeOK, TaskStates, ThreadStates, SocketStates, Results, Marks
  <1>2. \A e \in Ends : AboutCalls(e) /\ OnlyMadeHeld(e) /\ OneSetter(e) /\ EndsFromTheTop(e)
    BY OtherEnd, RangeMessages
    DEF Init, AboutCalls, OnlyMadeHeld, OneSetter, EndsFromTheTop, Idle, Answered, Empty
  <1>3. \A e \in Ends : Underway(e)
    BY DEF Init, Underway
  <1>4. QED
    BY <1>1, <1>2, <1>3 DEF CallsInv

\* What a step does to messages: adding and taking keeps them messages.
LEMMA SendType ==
  ASSUME TypeOK, NEW e \in Ends, NEW m \in Messages, Send(e, m)
  PROVE  /\ wire' \in [Ends -> Seq(Messages)]
         /\ Range(wire'[Other(e)]) = Range(wire[Other(e)]) \union {m}
         /\ \A f \in Ends : f # Other(e) => wire'[f] = wire[f]
  BY OtherEnd, RangeAppend DEF TypeOK, Send

\* Calls are counted up.
LEMMA MoreCalls ==
  ASSUME TypeOK, NEW e \in Ends, made' = [made EXCEPT ![e] = made[e] + 1]
  PROVE  \A f \in Ends : made[f] <= made'[f]
  <1>1. \A f \in Ends : made[f] \in Nat
    BY DEF TypeOK
  <1>2. \A f \in Ends : made'[f] = IF f = e THEN made[e] + 1 ELSE made[f]
    BY DEF TypeOK
  <1>3. QED
    BY <1>1, <1>2

\* Making a call.
LEMMA MakeEffect ==
  ASSUME TypeOK, NEW e \in Ends, NEW sync \in BOOLEAN, Make(e, sync)
  PROVE  /\ made[e] + 1 \in Tasks
         /\ made' \in [Ends -> 0 .. MaxCalls]
         /\ \A f \in Ends : made'[f] = IF f = e THEN made[e] + 1 ELSE made[f]
         /\ task' \in [Ends -> [Tasks -> TaskStates]]
         /\ \A f \in Ends, j \in Tasks :
              /\ task'[f][j].result = task[f][j].result
              /\ f # e \/ j # made[e] + 1 => task'[f][j] = task[f][j]
         /\ task'[e][made[e] + 1].held
         /\ task'[e][made[e] + 1].sync = sync
         /\ wire' \in [Ends -> Seq(Messages)]
         /\ Range(wire'[Other(e)]) = Range(wire[Other(e)]) \union {Request(made[e] + 1)}
         /\ \A f \in Ends : f # Other(e) => wire'[f] = wire[f]
  <1> USE CallsAssumption
  <1>1. made[e] + 1 \in Tasks
    <2>1. made[e] + made[Other(e)] < MaxCalls
      BY OtherEnd DEF Make, MayCall
    <2>2. QED
      BY <2>1, OtherEnd DEF TypeOK, Tasks
  <1>2. Request(made[e] + 1) \in Messages
    BY <1>1 DEF Request, Messages, Requests
  <1>3. Send(e, Request(made[e] + 1))
    BY DEF Make
  <1>4. made' = [made EXCEPT ![e] = made[e] + 1]
    BY DEF Make
  <1>5. task' = [task EXCEPT ![e][made[e] + 1].held = TRUE, ![e][made[e] + 1].sync = sync]
    BY DEF Make
  <1>6. /\ made' \in [Ends -> 0 .. MaxCalls]
        /\ \A f \in Ends : made'[f] = IF f = e THEN made[e] + 1 ELSE made[f]
    BY <1>1, <1>4 DEF TypeOK, Tasks
  <1>7. /\ task' \in [Ends -> [Tasks -> TaskStates]]
        /\ \A f \in Ends, j \in Tasks :
             /\ task'[f][j].result = task[f][j].result
             /\ f # e \/ j # made[e] + 1 => task'[f][j] = task[f][j]
        /\ task'[e][made[e] + 1].held
        /\ task'[e][made[e] + 1].sync = sync
    <2> DEFINE i == made[e] + 1
               t == [task[e][i] EXCEPT !.held = TRUE, !.sync = sync]
    <2>1. task \in [Ends -> [Tasks -> TaskStates]]
      BY DEF TypeOK
    <2>2. task[e][i] \in TaskStates /\ i \in Tasks
      BY <1>1, <2>1
    <2>3. t \in TaskStates /\ t.held /\ t.sync = sync /\ t.result = task[e][i].result
      BY <2>2 DEF TaskStates
    <2>4. task' = [task EXCEPT ![e] = [task[e] EXCEPT ![i] = t]]
      BY <1>5, <2>1, <2>2 DEF TaskStates
    <2> HIDE DEF i, t
    <2>5. /\ task' \in [Ends -> [Tasks -> TaskStates]]
          /\ \A f \in Ends, j \in Tasks :
               task'[f][j] = IF f = e /\ j = i THEN t ELSE task[f][j]
      BY <2>1, <2>2, <2>3, <2>4
    <2>6. QED
      BY <2>2, <2>3, <2>5 DEF i
  <1>8. QED
    BY <1>1, <1>2, <1>3, <1>6, <1>7, SendType

\* A call is made and its request is on the way to the other end.
LEMMA MakeSends ==
  ASSUME TypeOK, NEW e \in Ends, NEW sync \in BOOLEAN, Make(e, sync)
  PROVE  /\ \A f \in Ends : made'[f] = IF f = e THEN made[e] + 1 ELSE made[f]
         /\ Range(wire'[Other(e)]) = Range(wire[Other(e)]) \union {Request(made[e] + 1)}
         /\ \A f \in Ends : f # Other(e) => wire'[f] = wire[f]
  BY MakeEffect

\* Setting the result of a task.
LEMMA SetEffect ==
  ASSUME TypeOK, NEW e \in Ends, NEW i \in Tasks, NEW r \in Results, SetResult(e, i, r)
  PROVE  /\ task' \in [Ends -> [Tasks -> TaskStates]]
         /\ \A f \in Ends, j \in Tasks :
              /\ task'[f][j].held = task[f][j].held
              /\ task'[f][j].sync = task[f][j].sync
              /\ f # e \/ j # i => task'[f][j] = task[f][j]
         /\ task'[e][i].result = r
  <1>1. task \in [Ends -> [Tasks -> TaskStates]]
    BY DEF TypeOK
  <1>2. [task[e][i] EXCEPT !.result = r] \in TaskStates
    BY <1>1 DEF TaskStates
  <1>3. task' = [task EXCEPT ![e] = [task[e] EXCEPT ![i] = [task[e][i] EXCEPT !.result = r]]]
    BY DEF SetResult
  <1>4. /\ task' \in [Ends -> [Tasks -> TaskStates]]
        /\ \A f \in Ends, j \in Tasks :
             task'[f][j] = IF f = e /\ j = i THEN [task[e][i] EXCEPT !.result = r]
                                            ELSE task[f][j]
    BY <1>1, <1>2, <1>3
  <1>5. task[e][i] \in TaskStates
    BY <1>1
  <1>6. QED
    BY <1>4, <1>5 DEF TaskStates

\* Letting go of a task.
LEMMA ReleaseEffect ==
  ASSUME TypeOK, NEW e \in Ends, NEW i \in Tasks,
         task' = [task EXCEPT ![e][i].held = FALSE]
  PROVE  /\ task' \in [Ends -> [Tasks -> TaskStates]]
         /\ \A f \in Ends, j \in Tasks :
              /\ task'[f][j].held => task[f][j].held
              /\ task'[f][j].sync = task[f][j].sync
              /\ task'[f][j].result = task[f][j].result
  <1>1. task \in [Ends -> [Tasks -> TaskStates]]
    BY DEF TypeOK
  <1>2. [task[e][i] EXCEPT !.held = FALSE] \in TaskStates
    <2>1. \A t \in TaskStates : [t EXCEPT !.held = FALSE] \in TaskStates
      BY DEF TaskStates
    <2>2. QED
      BY <1>1, <2>1
  <1>3. task' = [task EXCEPT ![e] = [task[e] EXCEPT ![i] = [task[e][i] EXCEPT !.held = FALSE]]]
    OBVIOUS
  <1>4. /\ task' \in [Ends -> [Tasks -> TaskStates]]
        /\ \A f \in Ends, j \in Tasks :
             task'[f][j] = IF f = e /\ j = i THEN [task[e][i] EXCEPT !.held = FALSE]
                                            ELSE task[f][j]
    BY <1>1, <1>2, <1>3
  <1>5. task[e][i] \in TaskStates
    BY <1>1
  <1>6. QED
    BY <1>4, <1>5 DEF TaskStates

\* What the control points of the threads hold.
LEMMA SettingType ==
  ASSUME TypeOK, NEW e \in Ends
  PROVE  /\ socket[e].at = "setting" => socket[e] \in SettingStates
         /\ thread[e].at = "setting" => thread[e] \in SettingStates
         /\ thread[e].at = "waiting" => thread[e].task \in Tasks
  BY DEF TypeOK, SocketStates, ThreadStates, SettingStates, Idle, Broken

\* Taking a message.
LEMMA ReceiveEffect ==
  ASSUME TypeOK, NEW e \in Ends, Receive(e)
  PROVE  LET m == Head(wire[e])
         IN  /\ m \in Messages
             /\ wire' \in [Ends -> Seq(Messages)]
             /\ Range(wire[e]) = {m} \union Range(wire'[e])
             /\ \A f \in Ends : f # e => wire'[f] = wire[f]
             /\ queue' \in [Ends -> Seq(Messages)]
             /\ \A f \in Ends : f # e => queue'[f] = queue[f] /\ socket'[f] = socket[f]
             /\ \/ /\ m.kind = "request" \/ (Subscribed(e, m.task) /\ ~task[e][m.task].sync)
                   /\ Range(queue'[e]) = Range(queue[e]) \union {m}
                   /\ socket' = socket
                \/ /\ m.kind = "answer"
                   /\ queue' = queue
                   /\ ~Subscribed(e, m.task) \/ ~Open(e, m.task)
                   /\ socket'[e] \in {Idle, Broken}
                \/ /\ m.kind = "answer"
                   /\ queue' = queue
                   /\ task[e][m.task].sync
                   /\ Open(e, m.task)
                   /\ socket'[e] = Setting(m)
             /\ socket' \in [Ends -> SocketStates]
  <1> DEFINE m == Head(wire[e])
  <1>1. wire[e] \in Seq(Messages) /\ wire[e] # <<>> /\ queue[e] \in Seq(Messages)
    BY DEF Receive, TypeOK
  <1>2. /\ m \in Messages
        /\ Tail(wire[e]) \in Seq(Messages)
        /\ Range(wire[e]) = {m} \union Range(Tail(wire[e]))
    BY <1>1, RangeTail
  <1>3. wire' = [wire EXCEPT ![e] = Tail(wire[e])]
    BY DEF Receive
  <1>4. /\ Append(queue[e], m) \in Seq(Messages)
        /\ Range(Append(queue[e], m)) = Range(queue[e]) \union {m}
    BY <1>1, <1>2, RangeAppend
  <1>5. m.kind = "answer" => Setting(m) \in SettingStates
    BY <1>2 DEF Messages, Requests, AnswerMessages, Setting, SettingStates
  <1>6. m.kind \in {"request", "answer"}
    BY <1>2 DEF Messages, Requests, AnswerMessages
  <1>7. \/ /\ m.kind = "request" \/ (Subscribed(e, m.task) /\ ~task[e][m.task].sync)
           /\ queue' = [queue EXCEPT ![e] = Append(queue[e], m)]
           /\ socket' = socket
        \/ /\ m.kind = "answer"
           /\ ~Subscribed(e, m.task) \/ task[e][m.task].sync
           /\ queue' = queue
           /\ ~Subscribed(e, m.task) \/ ~Open(e, m.task)
           /\ \E now \in {Idle, Broken} : socket' = [socket EXCEPT ![e] = now]
        \/ /\ m.kind = "answer"
           /\ ~Subscribed(e, m.task) \/ task[e][m.task].sync
           /\ queue' = queue
           /\ Subscribed(e, m.task) /\ Open(e, m.task)
           /\ socket' = [socket EXCEPT ![e] = Setting(m)]
    BY <1>6 DEF Receive, AtOnce
  <1>8. queue' \in [Ends -> Seq(Messages)] /\ wire' \in [Ends -> Seq(Messages)]
    <2> HIDE DEF m
    <2>1. QED
      BY <1>2, <1>3, <1>4, <1>7 DEF TypeOK
  <1>9. socket' \in [Ends -> SocketStates]
    <2> HIDE DEF m
    <2>1. QED
      BY <1>5, <1>7 DEF TypeOK, SocketStates
  <1> HIDE DEF m
  <1>10. QED
    <2>1. \A f \in Ends : f # e => queue'[f] = queue[f] /\ socket'[f] = socket[f] /\ wire'[f] = wire[f]
      BY <1>3, <1>7 DEF TypeOK
    <2>2. wire'[e] = Tail(wire[e])
      BY <1>3 DEF TypeOK
    <2>3. \/ /\ m.kind = "request" \/ (Subscribed(e, m.task) /\ ~task[e][m.task].sync)
             /\ Range(queue'[e]) = Range(queue[e]) \union {m}
             /\ socket' = socket
          \/ /\ m.kind = "answer"
             /\ queue' = queue
             /\ ~Subscribed(e, m.task) \/ ~Open(e, m.task)
             /\ socket'[e] \in {Idle, Broken}
          \/ /\ m.kind = "answer"
             /\ queue' = queue
             /\ task[e][m.task].sync
             /\ Open(e, m.task)
             /\ socket'[e] = Setting(m)
      BY <1>4, <1>7 DEF TypeOK
    <2>4. QED
      BY <1>2, <1>8, <1>9, <2>1, <2>2, <2>3 DEF m

\* Taking what is queued.
LEMMA DequeueEffect ==
  ASSUME TypeOK, NEW e \in Ends, NEW kind, Dequeue(e, kind)
  PROVE  /\ NextAction(e) \in Messages
         /\ NextAction(e).kind = kind
         /\ queue' \in [Ends -> Seq(Messages)]
         /\ Range(queue[e]) = {NextAction(e)} \union Range(queue'[e])
         /\ \A f \in Ends : f # e => queue'[f] = queue[f]
         /\ thread[e] = Idle
  <1>1. queue[e] \in Seq(Messages) /\ queue[e] # <<>>
    BY DEF Dequeue, TypeOK
  <1>2. /\ Head(queue[e]) \in Messages
        /\ Tail(queue[e]) \in Seq(Messages)
        /\ Range(queue[e]) = {Head(queue[e])} \union Range(Tail(queue[e]))
    BY <1>1, RangeTail
  <1>3. queue' = [queue EXCEPT ![e] = Tail(queue[e])] /\ thread[e] = Idle /\ Head(queue[e]).kind = kind
    BY DEF Dequeue, NextAction
  <1>4. QED
    BY <1>2, <1>3 DEF TypeOK, NextAction

\* Sending an answer.
LEMMA AnswerEffect ==
  ASSUME TypeOK, NEW e \in Ends, NEW i \in Tasks, NEW r \in Answers, SendAnswer(e, i, r)
  PROVE  /\ wire' \in [Ends -> Seq(Messages)]
         /\ Range(wire'[Other(e)]) \in
              {Range(wire[Other(e)]), Range(wire[Other(e)]) \union {Answer(i, r)}}
         /\ lifetime[e] = "alive" => Answer(i, r) \in Range(wire'[Other(e)])
         /\ \A f \in Ends : f # Other(e) => wire'[f] = wire[f]
  <1>1. Answer(i, r) \in Messages
    BY DEF Answer, Messages, AnswerMessages
  <1>2. CASE lifetime[e] = "alive"
    <2>1. Send(e, Answer(i, r))
      BY <1>2 DEF SendAnswer
    <2>2. /\ wire' \in [Ends -> Seq(Messages)]
          /\ Range(wire'[Other(e)]) = Range(wire[Other(e)]) \union {Answer(i, r)}
          /\ \A f \in Ends : f # Other(e) => wire'[f] = wire[f]
      BY <1>1, <2>1, SendType
    <2>3. QED
      BY <2>2
  <1>3. CASE lifetime[e] # "alive"
    BY <1>3 DEF SendAnswer, TypeOK
  <1>4. QED
    BY <1>2, <1>3

\* What a handler's answer and the mark in `handled' do together.
LEMMA HandledEffect ==
  ASSUME TypeOK, NEW e \in Ends, NEW i \in Tasks,
         NEW h \in Marks \ {"no"}, HandledBecomes(e, i, h)
  PROVE  /\ handled' \in [Ends -> [Tasks -> Marks]]
         /\ \A f \in Ends, j \in Tasks :
              handled'[f][j] = IF f = e /\ j = i THEN h ELSE handled[f][j]
  BY DEF TypeOK, HandledBecomes, Marks

\* The end of a synchronous call.
LEMMA EndSyncEffect ==
  ASSUME TypeOK, NEW e \in Ends, thread[e].at = "waiting", EndSync(e, thread[e].task)
  PROVE  /\ thread[e].task \in Tasks
         /\ task' = [task EXCEPT ![e][thread[e].task].held = FALSE]
         /\ thread' = [thread EXCEPT ![e] = Idle]
         /\ sync_task_id' \in [Ends -> 0 .. MaxCalls]
         /\ UNCHANGED <<made, socket, queue, wire, endpoint, lifetime, todo, sawEmpty>>
  BY SettingType, CallsAssumption DEF EndSync, TypeOK

\* A task the end of the lifetime has stopped at.
LEMMA TodoType ==
  ASSUME TypeOK, NEW e \in Ends, todo[e] # 0
  PROVE  todo[e] \in Tasks
  BY CallsAssumption DEF TypeOK, Tasks

\* Every step of either end keeps the types.
LEMMA TypeStep ==
  ASSUME TypeOK, \A f \in Ends : EndsFromTheTop(f), Next
  PROVE  TypeOK'
  <1> USE CallsAssumption
  <1>0. PICK e \in Ends :
          \/ StartCall(e) \/ SyncCall(e) \/ SyncRefused(e) \/ SetHandler(e)
          \/ \E i \in Tasks : Release(e, i) \/ AnswerAgain(e, i)
          \/ Terminate(e)
          \/ SchedulerRuns(e) \/ SocketRuns(e) \/ EnderRuns(e) \/ HandlersRun(e)
    BY DEF Next
  <1>1. CASE StartCall(e)
    <2>1. Make(e, FALSE) /\ UNCHANGED <<sync_task_id, thread>>
      BY <1>1 DEF StartCall
    <2>2. UNCHANGED <<socket, queue, handler, handled, lifetime, todo, sawEmpty>>
      BY <2>1 DEF Make
    <2>3. QED
      BY <2>1, <2>2, MakeEffect DEF TypeOK
  <1>2. CASE SyncCall(e)
    <2>1. /\ Make(e, TRUE)
          /\ sync_task_id' = [sync_task_id EXCEPT ![e] = made'[e]]
          /\ thread' = [thread EXCEPT ![e] = Waiting(made'[e])]
      BY <1>2 DEF SyncCall
    <2>2. UNCHANGED <<socket, queue, handler, handled, lifetime, todo, sawEmpty>>
      BY <2>1 DEF Make
    <2>3. /\ made'[e] \in Tasks
          /\ made' \in [Ends -> 0 .. MaxCalls]
          /\ task' \in [Ends -> [Tasks -> TaskStates]]
          /\ wire' \in [Ends -> Seq(Messages)]
      BY <2>1, MakeEffect
    <2>4. Waiting(made'[e]) \in ThreadStates /\ made'[e] \in 0 .. MaxCalls
      BY <2>3 DEF Waiting, ThreadStates, Tasks
    <2>5. QED
      BY <2>1, <2>2, <2>3, <2>4 DEF TypeOK
  <1>3. CASE SyncRefused(e)
    <2>1. made[e] + made[Other(e)] < MaxCalls
      BY <1>3, OtherEnd DEF SyncRefused, MayCall
    <2>2. made[e] + 1 \in 0 .. MaxCalls
      BY <2>1, OtherEnd DEF TypeOK
    <2>3. QED
      BY <1>3, <2>2 DEF SyncRefused, TypeOK
  <1>4. ASSUME NEW i \in Tasks, Release(e, i)
        PROVE  TypeOK'
    <2>1. /\ task' = [task EXCEPT ![e][i].held = FALSE]
          /\ UNCHANGED <<made, sync_task_id, thread, socket, queue, wire, endpoint, lifetime,
                         todo, sawEmpty>>
      BY <1>4 DEF Release
    <2>2. QED
      BY <2>1, ReleaseEffect DEF TypeOK
  <1>5. ASSUME NEW i \in Tasks, AnswerAgain(e, i) \/ FinishHandling(e, i)
        PROVE  TypeOK'
    <2>1. /\ \E r \in Answers : SendAnswer(e, i, r)
          /\ \E h \in Marks \ {"no"} : HandledBecomes(e, i, h)
          /\ UNCHANGED <<made, task, sync_task_id, thread, socket, queue, handler, lifetime, todo, sawEmpty>>
      BY <1>5 DEF AnswerAgain, FinishHandling, Answers, Marks
    <2>2. wire' \in [Ends -> Seq(Messages)]
      BY <2>1, AnswerEffect
    <2>3. handled' \in [Ends -> [Tasks -> Marks]]
      BY <2>1, HandledEffect
    <2>4. QED
      BY <2>1, <2>2, <2>3 DEF TypeOK
  <1>6. CASE Terminate(e)
    <2>1. /\ lifetime' = [lifetime EXCEPT ![e] = "terminated"]
          /\ todo' = [todo EXCEPT ![e] = made[e]]
          /\ UNCHANGED <<made, task, sync_task_id, thread, socket, queue, wire, endpoint, sawEmpty>>
      BY <1>6 DEF Terminate
    <2>2. made[e] \in 0 .. MaxCalls
      BY DEF TypeOK
    <2>3. todo' \in [Ends -> 0 .. MaxCalls]
      BY <2>1, <2>2 DEF TypeOK
    <2>4. lifetime' \in [Ends -> {"alive", "terminated", "ended"}]
      BY <2>1 DEF TypeOK
    <2>5. QED
      BY <2>1, <2>3, <2>4 DEF TypeOK
  <1>h. CASE SetHandler(e)
    <2>1. /\ handler' = [handler EXCEPT ![e] = TRUE]
          /\ UNCHANGED <<made, task, sync_task_id, thread, socket, queue, wire, handled, lifetime,
                         todo, sawEmpty>>
      BY <1>h DEF SetHandler
    <2>2. handler' \in [Ends -> BOOLEAN]
      BY <2>1 DEF TypeOK
    <2>3. QED
      BY <2>1, <2>2 DEF TypeOK
  <1>7. CASE SyncReturn(e) \/ SyncTimeout(e)
    <2>1. thread[e].at = "waiting" /\ EndSync(e, thread[e].task)
      BY <1>7 DEF SyncReturn, SyncTimeout
    <2>2. task' \in [Ends -> [Tasks -> TaskStates]]
      BY <2>1, EndSyncEffect, ReleaseEffect
    <2>3. QED
      BY <2>1, <2>2, EndSyncEffect DEF TypeOK, ThreadStates, SocketStates
  <1>8. CASE RunRequest(e)
    <2>1. /\ Dequeue(e, "request")
          /\ UNCHANGED <<made, task, sync_task_id, thread, socket, handler, lifetime, todo, sawEmpty>>
          /\ \/ UNCHANGED <<wire, handled>>
             \/ Refuse(e, NextAction(e).task)
             \/ HandlerReturns(e, NextAction(e).task)
             \/ HandlerDefers(e, NextAction(e).task)
             \/ HandlerThrows(e, NextAction(e).task)
      BY <1>8 DEF RunRequest, Handle
    <2>2. queue' \in [Ends -> Seq(Messages)] /\ NextAction(e).task \in Tasks
      BY <2>1, DequeueEffect DEF Messages, Requests, AnswerMessages
    <2>3. CASE UNCHANGED <<wire, handled>>
      BY <2>1, <2>2, <2>3 DEF TypeOK
    <2>4. CASE HandlerDefers(e, NextAction(e).task) \/ Refuse(e, NextAction(e).task)
      <3>1. wire' = wire /\ \E h \in Marks \ {"no"} : HandledBecomes(e, NextAction(e).task, h)
        BY <2>4 DEF HandlerDefers, Refuse, Marks
      <3>2. QED
        BY <2>1, <2>2, <3>1, HandledEffect DEF TypeOK
    <2>5. CASE HandlerReturns(e, NextAction(e).task) \/ HandlerThrows(e, NextAction(e).task)
      <3>1. /\ \E r \in Answers : SendAnswer(e, NextAction(e).task, r)
            /\ HandledBecomes(e, NextAction(e).task, "answered")
        BY <2>5 DEF HandlerReturns, HandlerThrows, Answers
      <3>2. QED
        BY <2>1, <2>2, <3>1, AnswerEffect, HandledEffect DEF TypeOK, Marks
    <2>6. QED
      BY <2>1, <2>3, <2>4, <2>5
  <1>9. CASE RunAnswer(e)
    <2>1. /\ Dequeue(e, "answer")
          /\ thread' \in {thread, [thread EXCEPT ![e] = Setting(NextAction(e))]}
          /\ UNCHANGED <<made, task, sync_task_id, socket, wire, endpoint, lifetime, todo, sawEmpty>>
      BY <1>9 DEF RunAnswer
    <2>2. queue' \in [Ends -> Seq(Messages)]
      BY <2>1, DequeueEffect
    <2>3. Setting(NextAction(e)) \in ThreadStates
      BY <2>1, DequeueEffect
      DEF Messages, Requests, AnswerMessages, Setting, ThreadStates, SocketStates, SettingStates
    <2>4. thread' \in [Ends -> ThreadStates]
      BY <2>1, <2>3 DEF TypeOK
    <2>5. QED
      BY <2>1, <2>2, <2>4 DEF TypeOK
  <1>10. CASE ThreadSets(e)
    <2>1. /\ thread[e].at = "setting"
          /\ SetResult(e, thread[e].task, thread[e].result)
          /\ thread' = [thread EXCEPT ![e] = Idle]
          /\ UNCHANGED <<made, sync_task_id, socket, queue, wire, endpoint, lifetime, todo, sawEmpty>>
      BY <1>10 DEF ThreadSets
    <2>2. thread[e].task \in Tasks /\ thread[e].result \in Results
      BY <2>1, SettingType DEF SettingStates, Results
    <2>3. task' \in [Ends -> [Tasks -> TaskStates]]
      BY <2>1, <2>2, SetEffect
    <2>4. QED
      BY <2>1, <2>3 DEF TypeOK, ThreadStates, SocketStates
  <1>11. CASE Receive(e)
    <2>1. UNCHANGED <<made, task, sync_task_id, thread, endpoint, lifetime, todo, sawEmpty>>
      BY <1>11 DEF Receive
    <2>2. QED
      BY <1>11, <2>1, ReceiveEffect DEF TypeOK
  <1>12. CASE SocketSets(e)
    <2>1. /\ socket[e].at = "setting"
          /\ SetResult(e, socket[e].task, socket[e].result)
          /\ socket' = [socket EXCEPT ![e] = Idle]
          /\ UNCHANGED <<made, sync_task_id, thread, queue, wire, endpoint, lifetime, todo, sawEmpty>>
      BY <1>12 DEF SocketSets
    <2>2. socket[e].task \in Tasks /\ socket[e].result \in Results
      BY <2>1, SettingType DEF SettingStates, Results
    <2>3. task' \in [Ends -> [Tasks -> TaskStates]]
      BY <2>1, <2>2, SetEffect
    <2>4. QED
      BY <2>1, <2>3 DEF TypeOK, SocketStates
  <1>13. CASE CancelLooks(e)
    <2>1. todo[e] \in Nat /\ todo[e] <= MaxCalls
      BY DEF TypeOK
    <2>2. todo' = [todo EXCEPT ![e] = 0] \/ \E n \in 1 .. todo[e] : todo' = [todo EXCEPT ![e] = n]
      <3> DEFINE open == {i \in 1 .. todo[e] : Open(e, i)}
      <3>1. CASE open = {}
        BY <1>13, <3>1 DEF CancelLooks
      <3>2. CASE open # {}
        <4>1. Max(open) \in 1 .. todo[e]
          BY <2>1, <3>2, LastOne
        <4>2. todo' = [todo EXCEPT ![e] = Max(open)]
          BY <1>13, <3>2 DEF CancelLooks
        <4>3. QED
          BY <4>1, <4>2
      <3>3. QED
        BY <3>1, <3>2
    <2>3. todo' \in [Ends -> 0 .. MaxCalls]
      <3>1. \A n \in 0 .. todo[e] : n \in 0 .. MaxCalls
        BY <2>1
      <3>2. \E n \in 0 .. MaxCalls : todo' = [todo EXCEPT ![e] = n]
        BY <2>1, <2>2, <3>1
      <3>3. QED
        BY <3>2 DEF TypeOK
    <2>4. /\ lifetime' \in [Ends -> {"alive", "terminated", "ended"}]
          /\ sawEmpty' \in [Ends -> BOOLEAN]
          /\ UNCHANGED <<made, task, sync_task_id, thread, socket, queue, wire, endpoint>>
      BY <1>13 DEF CancelLooks, TypeOK
    <2>5. QED
      BY <2>3, <2>4 DEF TypeOK
  <1>14. CASE CancelSets(e)
    <2>1. /\ sawEmpty[e]
          /\ SetResult(e, todo[e], "cancelled")
          /\ todo' = [todo EXCEPT ![e] = todo[e] - 1]
          /\ sawEmpty' = [sawEmpty EXCEPT ![e] = FALSE]
          /\ UNCHANGED <<made, sync_task_id, thread, socket, queue, wire, endpoint, lifetime>>
      BY <1>14 DEF CancelSets
    <2>2. todo[e] \in Tasks
      BY <2>1, TodoType DEF EndsFromTheTop
    <2>3. task' \in [Ends -> [Tasks -> TaskStates]]
      BY <2>1, <2>2, SetEffect DEF Results
    <2>4. todo' \in [Ends -> 0 .. MaxCalls] /\ sawEmpty' \in [Ends -> BOOLEAN]
      BY <2>1, <2>2 DEF TypeOK, Tasks
    <2>5. QED
      BY <2>1, <2>3, <2>4 DEF TypeOK
  <1>15. QED
    BY <1>0, <1>1, <1>2, <1>3, <1>4, <1>5, <1>6, <1>h, <1>7, <1>8, <1>9, <1>10, <1>11, <1>12,
       <1>13, <1>14
    DEF SchedulerRuns, SocketRuns, EnderRuns, HandlersRun

-----------------------------------------------------------------------------
(* Messages and marks are about calls that were made.                      *)

\* Numbers of calls only grow, so it is enough to look at what is new.
LEMMA AboutFrame ==
  ASSUME TypeOK, TypeOK', \A f \in Ends : AboutCalls(f),
         \A f \in Ends : made[f] <= made'[f],
         \A f \in Ends : \A m \in Range(wire'[f]) \union Range(queue'[f]) :
           \/ m \in Range(wire[f]) \union Range(queue[f])
           \/ m.task <= made'[Caller(f, m)],
         \A f \in Ends, i \in Tasks :
           handled'[f][i] # "no" => handled[f][i] # "no" \/ i <= made'[Other(f)]
  PROVE  \A f \in Ends : AboutCalls(f)'
  <1> TAKE f \in Ends
  <1> USE CallsAssumption
  <1>1. /\ made \in [Ends -> 0 .. MaxCalls] /\ made' \in [Ends -> 0 .. MaxCalls]
        /\ Range(wire[f]) \subseteq Messages /\ Range(queue[f]) \subseteq Messages
    BY RangeMessages DEF TypeOK
  <1>2. \A m \in Messages : m.task \in Tasks /\ Caller(f, m) \in Ends
    BY OtherEnd DEF Messages, Requests, AnswerMessages, Caller
  <1>3. ASSUME NEW m \in Range(wire'[f]) \union Range(queue'[f])
        PROVE  m.task <= made'[Caller(f, m)]
    <2>1. CASE m \in Range(wire[f]) \union Range(queue[f])
      <3>1. m \in Messages /\ m.task <= made[Caller(f, m)]
        BY <1>1, <2>1 DEF AboutCalls
      <3>2. made[Caller(f, m)] <= made'[Caller(f, m)] /\ m.task \in Tasks /\ Caller(f, m) \in Ends
        BY <1>2, <3>1
      <3>3. QED
        BY <1>1, <3>1, <3>2 DEF Tasks
    <2>2. QED
      BY <2>1
  <1>4. ASSUME NEW i \in Tasks, handled'[f][i] # "no"
        PROVE  i <= made'[Other(f)]
    <2>1. CASE handled[f][i] # "no"
      <3>1. i <= made[Other(f)] /\ Other(f) \in Ends
        BY <2>1, OtherEnd DEF AboutCalls
      <3>2. QED
        BY <1>1, <3>1 DEF Tasks
    <2>2. QED
      BY <1>4, <2>1
  <1>5. QED
    BY <1>3, <1>4 DEF AboutCalls, Caller

\* A step that sends nothing new and handles nothing new.
LEMMA AboutQuiet ==
  ASSUME TypeOK, TypeOK', \A f \in Ends : AboutCalls(f),
         UNCHANGED <<made, wire, queue, handled>>
  PROVE  \A f \in Ends : AboutCalls(f)'
  <1>1. \A f \in Ends : made[f] <= made'[f]
    <2>1. \A f \in Ends : made[f] \in 0 .. MaxCalls
      BY DEF TypeOK
    <2>2. QED
      BY <2>1, CallsAssumption
  <1>2. QED
    BY <1>1, AboutFrame

\* Every step keeps the messages about calls that were made.
LEMMA AboutStep ==
  ASSUME TypeOK, TypeOK', \A f \in Ends : AboutCalls(f), Next
  PROVE  \A f \in Ends : AboutCalls(f)'
  <1> USE CallsAssumption
  <1>0. PICK e \in Ends :
          \/ StartCall(e) \/ SyncCall(e) \/ SyncRefused(e) \/ SetHandler(e)
          \/ \E i \in Tasks : Release(e, i) \/ AnswerAgain(e, i)
          \/ Terminate(e)
          \/ SchedulerRuns(e) \/ SocketRuns(e) \/ EnderRuns(e) \/ HandlersRun(e)
    BY DEF Next
  <1>1. ASSUME NEW sync \in BOOLEAN, Make(e, sync)
        PROVE  \A f \in Ends : AboutCalls(f)'
    <2>1. UNCHANGED <<queue, handled>>
      BY <1>1 DEF Make
    <2>a. made[e] + 1 \in Tasks
      BY <1>1, MakeEffect
    <2>b. /\ \A f \in Ends : made'[f] = IF f = e THEN made[e] + 1 ELSE made[f]
          /\ Range(wire'[Other(e)]) = Range(wire[Other(e)]) \union {Request(made[e] + 1)}
          /\ \A f \in Ends : f # Other(e) => wire'[f] = wire[f]
      BY <1>1, MakeSends
    <2>5. /\ made[e] + 1 \in Tasks
          /\ \A f \in Ends : made'[f] = IF f = e THEN made[e] + 1 ELSE made[f]
          /\ Range(wire'[Other(e)]) = Range(wire[Other(e)]) \union {Request(made[e] + 1)}
          /\ \A f \in Ends : f # Other(e) => wire'[f] = wire[f]
      BY <2>a, <2>b
    <2>2. ASSUME NEW f \in Ends
          PROVE  made[f] <= made'[f]
      <3>1. made[f] \in Nat
        BY DEF TypeOK
      <3>2. CASE f = e
        BY <2>5, <3>1, <3>2
      <3>3. CASE f # e
        BY <2>5, <3>1, <3>3
      <3>4. QED
        BY <3>2, <3>3
    <2>3. ASSUME NEW f \in Ends, NEW m \in Range(wire'[f]), m \notin Range(wire[f])
          PROVE  m.task <= made'[Caller(f, m)]
      <3>1. f = Other(e) /\ m = Request(made[e] + 1)
        BY <2>3, <2>5
      <3>2. m.task = made[e] + 1 /\ Caller(f, m) = e
        BY <3>1, OtherEnd DEF Request, Caller
      <3>3. made'[e] = made[e] + 1 /\ made[e] + 1 \in Nat
        BY <2>5 DEF Tasks
      <3>4. QED
        BY <3>2, <3>3
    <2>4. QED
      BY <2>1, <2>2, <2>3, AboutFrame
  <1>2. CASE SyncRefused(e)
    <2>1. UNCHANGED <<queue, wire, handled>> /\ made' = [made EXCEPT ![e] = made[e] + 1]
      BY <1>2 DEF SyncRefused
    <2>2. ASSUME NEW f \in Ends
          PROVE  made[f] <= made'[f]
      <3>1. made[f] \in Nat /\ made \in [Ends -> 0..MaxCalls]
        BY CallsAssumption DEF TypeOK
      <3>2. made'[f] = made[f] \/ made'[f] = made[f] + 1
        BY <2>1, <3>1
      <3>3. QED
        BY <3>1, <3>2
    <2>3. QED
      BY <2>1, <2>2, AboutFrame
  <1>3. ASSUME NEW i \in Tasks, Release(e, i)
        PROVE  \A f \in Ends : AboutCalls(f)'
    BY <1>3, AboutQuiet DEF Release
  <1>4. ASSUME NEW i \in Tasks, NEW r \in Answers, SendAnswer(e, i, r),
               i <= made[Other(e)],
               NEW h \in Marks \ {"no"}, HandledBecomes(e, i, h),
               made' = made, \A f \in Ends : Range(queue'[f]) \subseteq Range(queue[f])
        PROVE  \A f \in Ends : AboutCalls(f)'
    <2>1. \A f \in Ends, j \in Tasks :
            handled'[f][j] # "no" => handled[f][j] # "no" \/ j <= made'[Other(f)]
      BY <1>4, HandledEffect
    <2>2. ASSUME NEW f \in Ends, NEW m \in Range(wire'[f]), m \notin Range(wire[f])
          PROVE  m.task <= made'[Caller(f, m)]
      <3>1. f = Other(e) /\ m = Answer(i, r)
        BY <1>4, <2>2, AnswerEffect
      <3>2. m.task = i /\ Caller(f, m) = f
        BY <3>1 DEF Answer, Caller
      <3>3. QED
        BY <1>4, <3>1, <3>2
    <2>3. \A f \in Ends : made[f] <= made'[f]
      BY <1>4 DEF TypeOK
    <2>4. QED
      BY <1>4, <2>1, <2>2, <2>3, AboutFrame
  <1>5. ASSUME NEW i \in Tasks, AnswerAgain(e, i) \/ FinishHandling(e, i)
        PROVE  \A f \in Ends : AboutCalls(f)'
    <2>1. /\ \E r \in Answers : SendAnswer(e, i, r)
          /\ \E h \in Marks \ {"no"} : HandledBecomes(e, i, h)
          /\ UNCHANGED <<made, queue>>
          /\ handled[e][i] # "no"
      BY <1>5 DEF AnswerAgain, FinishHandling, Answers, Marks
    <2>2. QED
      BY <2>1, <1>4 DEF AboutCalls
  <1>6. CASE Terminate(e) \/ SetHandler(e)
    BY <1>6, AboutQuiet DEF Terminate, SetHandler
  <1>7. CASE SyncReturn(e) \/ SyncTimeout(e)
    BY <1>7, AboutQuiet DEF SyncReturn, SyncTimeout, EndSync
  <1>8. CASE RunRequest(e)
    <2> DEFINE i == NextAction(e).task
    <2>1. /\ Dequeue(e, "request")
          /\ made' = made
          /\ \/ UNCHANGED <<wire, handled>>
             \/ Refuse(e, i)
             \/ HandlerReturns(e, i)
             \/ HandlerDefers(e, i)
             \/ HandlerThrows(e, i)
      BY <1>8 DEF RunRequest, Handle
    <2>2. i \in Tasks /\ \A f \in Ends : Range(queue'[f]) \subseteq Range(queue[f])
      BY <2>1, DequeueEffect DEF Messages, Requests, AnswerMessages
    <2>3. i <= made[Other(e)]
      BY <2>1, DequeueEffect DEF AboutCalls, Caller
    <2> HIDE DEF i
    <2>8. \A f \in Ends : made[f] <= made'[f]
      BY <2>1 DEF TypeOK
    <2>4. CASE UNCHANGED <<wire, handled>>
      BY <2>2, <2>4, <2>8, AboutFrame
    <2>5. CASE HandlerDefers(e, i) \/ Refuse(e, i)
      <3>1. wire' = wire /\ \E h \in Marks \ {"no"} : HandledBecomes(e, i, h)
        BY <2>5 DEF HandlerDefers, Refuse, Marks
      <3>2. \A f \in Ends, j \in Tasks :
              handled'[f][j] # "no" => handled[f][j] # "no" \/ j <= made'[Other(f)]
        BY <2>1, <2>2, <2>3, <3>1, HandledEffect
      <3>3. QED
        BY <2>2, <2>8, <3>1, <3>2, AboutFrame
    <2>6. CASE HandlerReturns(e, i) \/ HandlerThrows(e, i)
      <3>1. /\ \E r \in Answers : SendAnswer(e, i, r)
            /\ HandledBecomes(e, i, "answered")
        BY <2>6 DEF HandlerReturns, HandlerThrows, Answers
      <3>2. "answered" \in Marks \ {"no"}
        BY DEF Marks
      <3>3. QED
        BY <2>1, <2>2, <2>3, <3>1, <3>2, <1>4
    <2>7. QED
      BY <2>1, <2>4, <2>5, <2>6
  <1>9. CASE RunAnswer(e)
    <2>1. Dequeue(e, "answer") /\ UNCHANGED <<made, wire, handled>>
      BY <1>9 DEF RunAnswer
    <2>2. \A f \in Ends : Range(queue'[f]) \subseteq Range(queue[f])
      BY <2>1, DequeueEffect
    <2>3. \A f \in Ends : made[f] <= made'[f]
      BY <2>1 DEF TypeOK
    <2>4. QED
      BY <2>1, <2>2, <2>3, AboutFrame
  <1>10. CASE ThreadSets(e) \/ SocketSets(e) \/ CancelLooks(e) \/ CancelSets(e)
    BY <1>10, AboutQuiet DEF ThreadSets, SocketSets, CancelLooks, CancelSets
  <1>11. CASE Receive(e)
    <2>1. UNCHANGED <<made, handled>>
      BY <1>11 DEF Receive
    <2>2. \A f \in Ends : Range(wire'[f]) \union Range(queue'[f])
                            \subseteq Range(wire[f]) \union Range(queue[f])
      BY <1>11, ReceiveEffect
    <2>3. \A f \in Ends : made[f] <= made'[f]
      BY <2>1 DEF TypeOK
    <2>4. QED
      BY <2>1, <2>2, <2>3, AboutFrame
  <1>12. QED
    BY <1>0, <1>1, <1>2, <1>3, <1>5, <1>6, <1>7, <1>8, <1>9, <1>10, <1>11
    DEF StartCall, SyncCall, SchedulerRuns, SocketRuns, EnderRuns, HandlersRun

-----------------------------------------------------------------------------
(* Only tasks that were made are held.                                     *)

\* A step that holds no task that was not made keeps the claim.
LEMMA HeldFrame ==
  ASSUME TypeOK, TypeOK', \A f \in Ends : OnlyMadeHeld(f),
         \A f \in Ends : made[f] <= made'[f],
         \A f \in Ends, i \in Tasks :
           task'[f][i].held => task[f][i].held \/ i <= made'[f]
  PROVE  \A f \in Ends : OnlyMadeHeld(f)'
  <1> SUFFICES ASSUME NEW f \in Ends, NEW i \in Tasks, task'[f][i].held
               PROVE  i <= made'[f]
    BY DEF OnlyMadeHeld
  <1>1. made[f] \in Nat /\ made'[f] \in Nat /\ i \in Nat /\ made[f] <= made'[f]
    BY DEF TypeOK, Tasks
  <1>2. task[f][i].held => i <= made[f]
    BY DEF OnlyMadeHeld
  <1>3. QED
    BY <1>1, <1>2

\* Every step keeps it.
LEMMA HeldStep ==
  ASSUME TypeOK, TypeOK', \A f \in Ends : EndsFromTheTop(f) /\ OnlyMadeHeld(f), Next
  PROVE  \A f \in Ends : OnlyMadeHeld(f)'
  <1> USE CallsAssumption
  <1>0. PICK e \in Ends :
          \/ StartCall(e) \/ SyncCall(e) \/ SyncRefused(e) \/ SetHandler(e)
          \/ \E i \in Tasks : Release(e, i) \/ AnswerAgain(e, i)
          \/ Terminate(e)
          \/ SchedulerRuns(e) \/ SocketRuns(e) \/ EnderRuns(e) \/ HandlersRun(e)
    BY DEF Next
  <1>q. made' = made => \A f \in Ends : made[f] <= made'[f]
    BY DEF TypeOK
  <1>1. ASSUME NEW sync \in BOOLEAN, Make(e, sync)
        PROVE  \A f \in Ends : OnlyMadeHeld(f)'
    <2>1. /\ made[e] + 1 \in Tasks
          /\ \A f \in Ends : made'[f] = IF f = e THEN made[e] + 1 ELSE made[f]
          /\ \A f \in Ends, j \in Tasks : f # e \/ j # made[e] + 1 => task'[f][j] = task[f][j]
      BY <1>1, MakeEffect
    <2>2. \A f \in Ends : made[f] \in Nat
      BY DEF TypeOK
    <2>3. \A f \in Ends : made[f] <= made'[f]
      BY <2>1, <2>2
    <2>4. ASSUME NEW f \in Ends, NEW i \in Tasks, ~task[f][i].held, task'[f][i].held
          PROVE  i <= made'[f]
      <3>1. f = e /\ i = made[e] + 1
        BY <2>1, <2>4
      <3>2. QED
        BY <2>1, <2>2, <3>1
    <2>5. QED
      BY <2>3, <2>4, HeldFrame
  <1>2. CASE SyncRefused(e)
    <2>1. task' = task /\ made' = [made EXCEPT ![e] = made[e] + 1]
      BY <1>2 DEF SyncRefused
    <2>2. \A f \in Ends : made[f] <= made'[f]
      BY <2>1, MoreCalls
    <2>3. QED
      BY <2>1, <2>2, HeldFrame
  <1>3. ASSUME NEW i \in Tasks, Release(e, i)
        PROVE  \A f \in Ends : OnlyMadeHeld(f)'
    <2>1. task' = [task EXCEPT ![e][i].held = FALSE] /\ made' = made
      BY <1>3 DEF Release
    <2>2. QED
      BY <1>q, <2>1, ReleaseEffect, HeldFrame
  <1>4. CASE SyncReturn(e) \/ SyncTimeout(e)
    <2>1. thread[e].at = "waiting" /\ EndSync(e, thread[e].task)
      BY <1>4 DEF SyncReturn, SyncTimeout
    <2>2. /\ thread[e].task \in Tasks
          /\ task' = [task EXCEPT ![e][thread[e].task].held = FALSE]
          /\ made' = made
      BY <2>1, EndSyncEffect
    <2>3. QED
      BY <1>q, <2>2, ReleaseEffect, HeldFrame
  <1>5. ASSUME NEW i \in Tasks, NEW r \in Results, SetResult(e, i, r), made' = made
        PROVE  \A f \in Ends : OnlyMadeHeld(f)'
    BY <1>q, <1>5, SetEffect, HeldFrame
  <1>6. CASE ThreadSets(e)
    BY <1>5, <1>6, SettingType DEF ThreadSets, SettingStates, Results
  <1>7. CASE SocketSets(e)
    BY <1>5, <1>7, SettingType DEF SocketSets, SettingStates, Results
  <1>8. CASE CancelSets(e)
    BY <1>5, <1>8, TodoType DEF CancelSets, EndsFromTheTop, Results
  <1>9. CASE UNCHANGED <<made, task>>
    BY <1>q, <1>9, HeldFrame
  <1>10. QED
    BY <1>0, <1>1, <1>2, <1>3, <1>4, <1>6, <1>7, <1>8, <1>9
    DEF StartCall, SyncCall, SchedulerRuns, SocketRuns, EnderRuns, HandlersRun,
        SetHandler, AnswerAgain, FinishHandling, Terminate, RunRequest, RunAnswer, Receive, CancelLooks

-----------------------------------------------------------------------------
(* One thread sets the answer of a task, and after it has seen it empty.   *)

\* A step that makes no answer of a task somebody else is about to set.
LEMMA SetterFrame ==
  ASSUME TypeOK, TypeOK', NEW f \in Ends, OneSetter(f), AboutCalls(f),
         made[f] <= made'[f],
         \A i \in Tasks : i <= made[f] => task'[f][i].sync = task[f][i].sync,
         \A m \in Range(queue'[f]) :
           m.kind = "answer" => m \in Range(queue[f]) \/ ~task'[f][m.task].sync,
         \/ socket'[f].at # "setting"
         \/ /\ socket'[f] = socket[f]
            /\ task'[f][socket[f].task].result \in Answers =>
                 task[f][socket[f].task].result \in Answers
         \/ /\ socket'[f].task <= made'[f]
            /\ task'[f][socket'[f].task].sync
            /\ task'[f][socket'[f].task].result \notin Answers,
         \/ thread'[f].at # "setting"
         \/ /\ thread'[f] = thread[f]
            /\ task'[f][thread[f].task].result \in Answers =>
                 task[f][thread[f].task].result \in Answers
         \/ /\ thread'[f].task <= made'[f]
            /\ ~task'[f][thread'[f].task].sync
            /\ task'[f][thread'[f].task].result \notin Answers
  PROVE  OneSetter(f)'
  <1>1. made[f] \in Nat /\ made'[f] \in Nat
    BY DEF TypeOK
  <1>2. ASSUME NEW m \in Range(queue'[f]), m.kind = "answer"
        PROVE  ~task'[f][m.task].sync
    <2>1. CASE m \in Range(queue[f])
      <3>1. m \in Messages
        BY <2>1, RangeMessages DEF TypeOK
      <3>2. m.task \in Tasks
        BY <3>1 DEF Messages, Requests, AnswerMessages
      <3>3. m.task <= made[f] /\ ~task[f][m.task].sync
        BY <1>2, <2>1 DEF AboutCalls, Caller, OneSetter
      <3>4. QED
        BY <3>2, <3>3
    <2>2. QED
      BY <1>2, <2>1
  <1>3. ASSUME socket'[f].at = "setting"
        PROVE  /\ socket'[f].task <= made'[f]
               /\ task'[f][socket'[f].task].sync
               /\ task'[f][socket'[f].task].result \notin Answers
    <2>1. CASE socket'[f] = socket[f] /\ (task'[f][socket[f].task].result \in Answers =>
                                           task[f][socket[f].task].result \in Answers)
      <3>1. socket[f].task \in Tasks
        BY <1>3, <2>1, SettingType DEF SettingStates
      <3>2. /\ socket[f].task <= made[f]
            /\ task[f][socket[f].task].sync
            /\ task[f][socket[f].task].result \notin Answers
        BY <1>3, <2>1 DEF OneSetter
      <3>3. socket[f].task \in Nat
        BY <3>1 DEF Tasks
      <3>4. socket[f].task <= made'[f]
        BY <1>1, <3>2, <3>3
      <3>5. QED
        BY <2>1, <3>1, <3>2, <3>4
    <2>2. QED
      BY <1>3, <2>1
  <1>4. ASSUME thread'[f].at = "setting"
        PROVE  /\ thread'[f].task <= made'[f]
               /\ ~task'[f][thread'[f].task].sync
               /\ task'[f][thread'[f].task].result \notin Answers
    <2>1. CASE thread'[f] = thread[f] /\ (task'[f][thread[f].task].result \in Answers =>
                                           task[f][thread[f].task].result \in Answers)
      <3>1. thread[f].task \in Tasks
        BY <1>4, <2>1, SettingType DEF SettingStates
      <3>2. /\ thread[f].task <= made[f]
            /\ ~task[f][thread[f].task].sync
            /\ task[f][thread[f].task].result \notin Answers
        BY <1>4, <2>1 DEF OneSetter
      <3>3. thread[f].task \in Nat
        BY <3>1 DEF Tasks
      <3>4. thread[f].task <= made'[f]
        BY <1>1, <3>2, <3>3
      <3>5. QED
        BY <2>1, <3>1, <3>2, <3>4
    <2>2. QED
      BY <1>4, <2>1
  <1>5. QED
    BY <1>2, <1>3, <1>4 DEF OneSetter

\* Every step keeps one thread at most between set_if_empty's test and its set.
LEMMA SetterStep ==
  ASSUME TypeOK, TypeOK', Next,
         \A f \in Ends : AboutCalls(f) /\ OneSetter(f) /\ EndsFromTheTop(f)
  PROVE  \A f \in Ends : OneSetter(f)'
  <1> USE CallsAssumption
  <1>0. PICK e \in Ends :
          \/ StartCall(e) \/ SyncCall(e) \/ SyncRefused(e) \/ SetHandler(e)
          \/ \E i \in Tasks : Release(e, i) \/ AnswerAgain(e, i)
          \/ Terminate(e)
          \/ SchedulerRuns(e) \/ SocketRuns(e) \/ EnderRuns(e) \/ HandlersRun(e)
    BY DEF Next
  <1> SUFFICES ASSUME NEW f \in Ends
               PROVE  OneSetter(f)'
    OBVIOUS
  <1>n. made[f] \in Nat
    BY DEF TypeOK
  <1>t. /\ socket[f].at = "setting" => socket[f].task \in Tasks
        /\ thread[f].at = "setting" => thread[f].task \in Tasks
    BY SettingType DEF SettingStates
  <1>1. ASSUME NEW sync \in BOOLEAN, Make(e, sync),
               \/ thread' = thread
               \/ /\ thread'[e].at # "setting"
                  /\ \A g \in Ends : g # e => thread'[g] = thread[g]
        PROVE  OneSetter(f)'
    <2>1. /\ made'[f] = IF f = e THEN made[e] + 1 ELSE made[f]
          /\ \A j \in Tasks : /\ task'[f][j].result = task[f][j].result
                              /\ f # e \/ j # made[e] + 1 => task'[f][j] = task[f][j]
      BY <1>1, MakeEffect
    <2>2. UNCHANGED <<socket, queue>>
      BY <1>1 DEF Make
    <2>3. made[f] <= made'[f]
      BY <2>1, <1>n
    <2>4. \A i \in Tasks : i <= made[f] => task'[f][i].sync = task[f][i].sync
      <3> SUFFICES ASSUME NEW i \in Tasks, i <= made[f] PROVE task'[f][i] = task[f][i]
        OBVIOUS
      <3>1. i # made[f] + 1
        BY <1>n DEF Tasks
      <3>2. QED
        BY <2>1, <3>1
    <2>5. QED
      BY <1>1, <1>t, <2>1, <2>2, <2>3, <2>4, SetterFrame
  <1>2. ASSUME made[f] <= made'[f], UNCHANGED <<socket, queue>>,
               \A j \in Tasks : /\ task'[f][j].result = task[f][j].result
                                /\ task'[f][j].sync = task[f][j].sync,
               thread'[f] = thread[f] \/ thread'[f].at # "setting"
        PROVE  OneSetter(f)'
    BY <1>2, <1>t, SetterFrame
  <1>3. CASE SyncRefused(e)
    <2>1. made' = [made EXCEPT ![e] = made[e] + 1] /\ UNCHANGED <<task, socket, queue, thread>>
      BY <1>3 DEF SyncRefused
    <2>2. made[f] <= made'[f]
      BY <2>1, MoreCalls
    <2>3. QED
      BY <1>2, <2>1, <2>2
  <1>4. ASSUME NEW i \in Tasks, Release(e, i)
        PROVE  OneSetter(f)'
    <2>1. task' = [task EXCEPT ![e][i].held = FALSE] /\ UNCHANGED <<made, socket, queue, thread>>
      BY <1>4 DEF Release
    <2>2. QED
      BY <1>2, <1>n, <2>1, ReleaseEffect
  <1>5. CASE SyncReturn(e) \/ SyncTimeout(e)
    <2>1. thread[e].at = "waiting" /\ EndSync(e, thread[e].task)
      BY <1>5 DEF SyncReturn, SyncTimeout
    <2>2. /\ thread[e].task \in Tasks
          /\ task' = [task EXCEPT ![e][thread[e].task].held = FALSE]
          /\ thread' = [thread EXCEPT ![e] = Idle]
          /\ UNCHANGED <<made, socket, queue>>
      BY <2>1, EndSyncEffect
    <2>3. thread'[f] = thread[f] \/ thread'[f].at # "setting"
      BY <2>2 DEF TypeOK, Idle
    <2>4. QED
      BY <1>2, <1>n, <2>2, <2>3, ReleaseEffect
  <1>6. ASSUME UNCHANGED <<made, task, thread, socket>>,
               Range(queue'[f]) \subseteq Range(queue[f])
        PROVE  OneSetter(f)'
    BY <1>6, <1>n, <1>t, SetterFrame
  <1>7. CASE RunRequest(e)
    <2>1. Dequeue(e, "request") /\ UNCHANGED <<made, task, thread, socket>>
      BY <1>7 DEF RunRequest
    <2>2. QED
      BY <1>6, <2>1, DequeueEffect
  <1>8. CASE RunAnswer(e)
    <2> DEFINE m == NextAction(e)
    <2>1. /\ Dequeue(e, "answer")
          /\ thread' = IF Open(e, m.task) THEN [thread EXCEPT ![e] = Setting(m)] ELSE thread
          /\ UNCHANGED <<made, task, socket>>
      BY <1>8 DEF RunAnswer
    <2>2. Range(queue'[f]) \subseteq Range(queue[f])
      BY <2>1, DequeueEffect
    <2>3. m \in Messages /\ m \in Range(queue[e]) /\ m.kind = "answer"
      BY <2>1, DequeueEffect
    <2>4. m.task <= made[e] /\ ~task[e][m.task].sync
      BY <2>3 DEF AboutCalls, Caller, OneSetter
    <2> HIDE DEF m
    <2>5. CASE thread' = thread
      BY <1>6, <2>1, <2>2, <2>5
    <2>6. CASE thread' = [thread EXCEPT ![e] = Setting(m)] /\ Open(e, m.task)
      <3>1. \/ thread'[f] = thread[f]
            \/ f = e /\ thread'[f] = Setting(m)
        BY <2>6 DEF TypeOK
      <3>2. Setting(m).task = m.task /\ task[e][m.task].result \notin Answers
        BY <2>6 DEF Setting, Open, Empty, Answers
      <3>3. QED
        BY <2>1, <2>2, <2>4, <3>1, <3>2, <1>n, <1>t, SetterFrame
    <2>7. QED
      BY <2>1, <2>5, <2>6
  <1>9. CASE ThreadSets(e)
    <2>1. /\ thread[e].at = "setting"
          /\ SetResult(e, thread[e].task, thread[e].result)
          /\ thread' = [thread EXCEPT ![e] = Idle]
          /\ UNCHANGED <<made, socket, queue>>
      BY <1>9 DEF ThreadSets
    <2>2. thread[e].task \in Tasks /\ thread[e].result \in Results
      BY <2>1, SettingType DEF SettingStates, Results
    <2>3. \A g \in Ends, j \in Tasks :
            /\ task'[g][j].sync = task[g][j].sync
            /\ g # e \/ j # thread[e].task => task'[g][j] = task[g][j]
      BY <2>1, <2>2, SetEffect
    <2>4. socket[f].at = "setting" => f # e \/ socket[f].task # thread[e].task
      BY <2>1 DEF OneSetter
    <2>5. \/ thread'[f].at # "setting"
          \/ f # e /\ thread'[f] = thread[f]
      BY <2>1 DEF TypeOK, Idle
    <2>6. QED
      BY <1>n, <1>t, <2>1, <2>3, <2>4, <2>5, SetterFrame
  <1>10. CASE Receive(e)
    <2> DEFINE m == Head(wire[e])
    <2>1. UNCHANGED <<made, task, thread>>
      BY <1>10 DEF Receive
    <2>2. /\ m \in Messages /\ m \in Range(wire[e])
          /\ \A g \in Ends : g # e => queue'[g] = queue[g] /\ socket'[g] = socket[g]
          /\ \/ /\ m.kind = "request" \/ ~task[e][m.task].sync
                /\ Range(queue'[e]) = Range(queue[e]) \union {m}
                /\ socket' = socket
             \/ /\ queue' = queue
                /\ socket'[e] \in {Idle, Broken}
             \/ /\ m.kind = "answer"
                /\ queue' = queue
                /\ task[e][m.task].sync
                /\ Open(e, m.task)
                /\ socket'[e] = Setting(m)
      BY <1>10, ReceiveEffect
    <2> HIDE DEF m
    <2>3. \A k \in Range(queue'[f]) :
            k.kind = "answer" => k \in Range(queue[f]) \/ ~task'[f][k.task].sync
      BY <2>1, <2>2
    <2>4. CASE socket'[f] = socket[f] \/ socket'[f] \in {Idle, Broken}
      <3>1. socket'[f] = socket[f] \/ socket'[f].at # "setting"
        BY <2>4 DEF Idle, Broken
      <3>2. QED
        BY <1>n, <1>t, <2>1, <2>3, <3>1, SetterFrame
    <2>5. CASE ~(socket'[f] = socket[f] \/ socket'[f] \in {Idle, Broken})
      <3>1. /\ f = e /\ m.kind = "answer" /\ task[e][m.task].sync /\ Open(e, m.task)
            /\ socket'[e] = Setting(m)
        BY <2>2, <2>5
      <3>2. m.task <= made[e]
        BY <2>2, <3>1 DEF AboutCalls, Caller
      <3>3. Setting(m).task = m.task /\ task[e][m.task].result \notin Answers
        BY <3>1 DEF Setting, Open, Empty, Answers
      <3>4. QED
        BY <1>n, <1>t, <2>1, <2>3, <3>1, <3>2, <3>3, SetterFrame
    <2>6. QED
      BY <2>4, <2>5
  <1>11. CASE SocketSets(e)
    <2>1. /\ socket[e].at = "setting"
          /\ SetResult(e, socket[e].task, socket[e].result)
          /\ socket' = [socket EXCEPT ![e] = Idle]
          /\ UNCHANGED <<made, thread, queue>>
      BY <1>11 DEF SocketSets
    <2>2. socket[e].task \in Tasks /\ socket[e].result \in Results
      BY <2>1, SettingType DEF SettingStates, Results
    <2>3. \A g \in Ends, j \in Tasks :
            /\ task'[g][j].sync = task[g][j].sync
            /\ g # e \/ j # socket[e].task => task'[g][j] = task[g][j]
      BY <2>1, <2>2, SetEffect
    <2>4. thread[f].at = "setting" => f # e \/ thread[f].task # socket[e].task
      BY <2>1 DEF OneSetter
    <2>5. \/ socket'[f].at # "setting"
          \/ f # e /\ socket'[f] = socket[f]
      BY <2>1 DEF TypeOK, Idle
    <2>6. QED
      BY <1>n, <1>t, <2>1, <2>3, <2>4, <2>5, SetterFrame
  <1>12. CASE CancelSets(e)
    <2>1. /\ sawEmpty[e]
          /\ SetResult(e, todo[e], "cancelled")
          /\ UNCHANGED <<made, thread, socket, queue>>
      BY <1>12 DEF CancelSets
    <2>2. todo[e] \in Tasks
      BY <2>1, TodoType DEF EndsFromTheTop
    <2>3. \A g \in Ends, j \in Tasks :
            /\ task'[g][j].sync = task[g][j].sync
            /\ task'[g][j].result \in Answers => task[g][j].result \in Answers
      BY <2>1, <2>2, SetEffect DEF Results, Answers
    <2>4. QED
      BY <1>n, <1>t, <2>1, <2>3, SetterFrame
  <1>13. CASE UNCHANGED <<made, task, thread, socket, queue>>
    BY <1>6, <1>13
  <1>14. CASE StartCall(e)
    BY <1>1, <1>14 DEF StartCall
  <1>15. CASE SyncCall(e)
    <2>1. Make(e, TRUE) /\ thread' = [thread EXCEPT ![e] = Waiting(made'[e])]
      BY <1>15 DEF SyncCall
    <2>2. thread'[e].at # "setting" /\ \A g \in Ends : g # e => thread'[g] = thread[g]
      BY <2>1 DEF TypeOK, Waiting
    <2>3. QED
      BY <1>1, <2>1, <2>2
  <1>16. QED
    BY <1>0, <1>3, <1>4, <1>5, <1>7, <1>8, <1>9, <1>10, <1>11, <1>12, <1>13, <1>14, <1>15
    DEF SchedulerRuns, SocketRuns, EnderRuns, HandlersRun,
        SetHandler, AnswerAgain, FinishHandling, Terminate, CancelLooks

-----------------------------------------------------------------------------
(* The end of the lifetime.                                                *)

\* A step that neither ends a lifetime nor takes an answer back keeps the claim.
LEMMA EndsFrame ==
  ASSUME TypeOK, NEW f \in Ends, EndsFromTheTop(f),
         lifetime'[f] = lifetime[f], todo'[f] = todo[f], sawEmpty'[f] = sawEmpty[f],
         \/ lifetime[f] = "alive"
         \/ /\ made'[f] = made[f]
            /\ \A i \in Tasks : Answered(f, i) => Answered(f, i)'
  PROVE  EndsFromTheTop(f)'
  <1>1. \A i \in 1 .. made[f] : i \in Tasks
    BY CallsAssumption DEF TypeOK, Tasks
  <1>2. CASE lifetime[f] = "alive"
    BY <1>2 DEF EndsFromTheTop
  <1>3. CASE made'[f] = made[f] /\ \A i \in Tasks : Answered(f, i) => Answered(f, i)'
    <2>1. lifetime[f] = "terminated" =>
            \A i \in 1 .. made'[f] : i > todo'[f] => Answered(f, i)'
      BY <1>1, <1>3 DEF EndsFromTheTop
    <2>2. lifetime[f] = "ended" => \A i \in 1 .. made'[f] : Answered(f, i)'
      BY <1>1, <1>3 DEF EndsFromTheTop
    <2>3. sawEmpty[f] => lifetime[f] = "terminated" /\ todo[f] # 0
      BY DEF EndsFromTheTop
    <2>4. QED
      BY <2>1, <2>2, <2>3 DEF EndsFromTheTop
  <1>4. QED
    BY <1>2, <1>3

\* Writing a result answers a task and leaves the others answered.
LEMMA SetAnswers ==
  ASSUME TypeOK, NEW e \in Ends, NEW i \in Tasks, NEW r \in Results \ {"empty"},
         SetResult(e, i, r)
  PROVE  /\ \A f \in Ends, j \in Tasks : Answered(f, j) => Answered(f, j)'
         /\ Answered(e, i)'
  <1>1. /\ \A f \in Ends, j \in Tasks :
             /\ task'[f][j].held = task[f][j].held
             /\ f # e \/ j # i => task'[f][j] = task[f][j]
        /\ task'[e][i].result = r
    BY SetEffect
  <1>2. QED
    BY <1>1 DEF Answered, Empty

\* Letting go answers nobody and leaves who is answered so.
LEMMA ReleaseAnswers ==
  ASSUME TypeOK, NEW e \in Ends, NEW i \in Tasks,
         task' = [task EXCEPT ![e][i].held = FALSE]
  PROVE  \A f \in Ends, j \in Tasks : Answered(f, j) => Answered(f, j)'
  <1>1. \A f \in Ends, j \in Tasks :
          /\ task'[f][j].held => task[f][j].held
          /\ task'[f][j].result = task[f][j].result
    BY ReleaseEffect
  <1>2. QED
    BY <1>1 DEF Answered, Empty

\* Every step keeps what the end of a lifetime has answered so far.
LEMMA EndsStep ==
  ASSUME TypeOK, TypeOK', \A f \in Ends : EndsFromTheTop(f), Next
  PROVE  \A f \in Ends : EndsFromTheTop(f)'
  <1> USE CallsAssumption
  <1>0. PICK e \in Ends :
          \/ StartCall(e) \/ SyncCall(e) \/ SyncRefused(e) \/ SetHandler(e)
          \/ \E i \in Tasks : Release(e, i) \/ AnswerAgain(e, i)
          \/ Terminate(e)
          \/ SchedulerRuns(e) \/ SocketRuns(e) \/ EnderRuns(e) \/ HandlersRun(e)
    BY DEF Next
  <1> SUFFICES ASSUME NEW f \in Ends
               PROVE  EndsFromTheTop(f)'
    OBVIOUS
  <1>1. ASSUME NEW sync \in BOOLEAN, Make(e, sync)
        PROVE  EndsFromTheTop(f)'
    <2>1. lifetime[e] = "alive" /\ UNCHANGED <<lifetime, todo, sawEmpty>>
      BY <1>1 DEF Make
    <2>2. f # e => made'[f] = made[f] /\ \A i \in Tasks : task'[f][i] = task[f][i]
      BY <1>1, MakeEffect
    <2>3. f # e => \A i \in Tasks : Answered(f, i) => Answered(f, i)'
      BY <2>2 DEF Answered, Empty
    <2>4. QED
      BY <2>1, <2>2, <2>3, EndsFrame
  <1>2. CASE SyncRefused(e)
    <2>1. /\ lifetime[e] = "alive"
          /\ made' = [made EXCEPT ![e] = made[e] + 1]
          /\ UNCHANGED <<task, lifetime, todo, sawEmpty>>
      BY <1>2 DEF SyncRefused
    <2>2. f # e => made'[f] = made[f]
      BY <2>1 DEF TypeOK
    <2>3. \A i \in Tasks : Answered(f, i) => Answered(f, i)'
      BY <2>1 DEF Answered, Empty
    <2>4. QED
      BY <2>1, <2>2, <2>3, EndsFrame
  <1>3. ASSUME UNCHANGED <<made, lifetime, todo, sawEmpty>>,
               \A i \in Tasks : Answered(f, i) => Answered(f, i)'
        PROVE  EndsFromTheTop(f)'
    BY <1>3, EndsFrame
  <1>4. ASSUME NEW i \in Tasks, Release(e, i)
        PROVE  EndsFromTheTop(f)'
    BY <1>3, <1>4, ReleaseAnswers DEF Release
  <1>5. CASE SyncReturn(e) \/ SyncTimeout(e)
    <2>1. thread[e].at = "waiting" /\ EndSync(e, thread[e].task)
      BY <1>5 DEF SyncReturn, SyncTimeout
    <2>2. /\ thread[e].task \in Tasks
          /\ task' = [task EXCEPT ![e][thread[e].task].held = FALSE]
          /\ UNCHANGED <<made, lifetime, todo, sawEmpty>>
      BY <2>1, EndSyncEffect
    <2>3. QED
      BY <1>3, <2>2, ReleaseAnswers
  <1>6. CASE ThreadSets(e)
    <2>1. /\ thread[e].at = "setting"
          /\ SetResult(e, thread[e].task, thread[e].result)
          /\ UNCHANGED <<made, lifetime, todo, sawEmpty>>
      BY <1>6 DEF ThreadSets
    <2>2. thread[e].task \in Tasks /\ thread[e].result \in Results \ {"empty"}
      BY <2>1, SettingType DEF SettingStates, Results, Answers
    <2>3. QED
      BY <1>3, <2>1, <2>2, SetAnswers
  <1>7. CASE SocketSets(e)
    <2>1. /\ socket[e].at = "setting"
          /\ SetResult(e, socket[e].task, socket[e].result)
          /\ UNCHANGED <<made, lifetime, todo, sawEmpty>>
      BY <1>7 DEF SocketSets
    <2>2. socket[e].task \in Tasks /\ socket[e].result \in Results \ {"empty"}
      BY <2>1, SettingType DEF SettingStates, Results, Answers
    <2>3. QED
      BY <1>3, <2>1, <2>2, SetAnswers
  <1>8. CASE UNCHANGED <<made, task, lifetime, todo, sawEmpty>>
    <2>1. \A i \in Tasks : Answered(f, i) => Answered(f, i)'
      BY <1>8 DEF Answered, Empty
    <2>2. QED
      BY <1>3, <1>8, <2>1
  <1>9. CASE Terminate(e)
    <2>1. /\ lifetime[e] = "alive"
          /\ lifetime' = [lifetime EXCEPT ![e] = "terminated"]
          /\ todo' = [todo EXCEPT ![e] = made[e]]
          /\ UNCHANGED <<made, task, sawEmpty>>
      BY <1>9 DEF Terminate
    <2>2. CASE f = e
      <3>1. lifetime'[e] = "terminated" /\ todo'[e] = made[e] /\ made'[e] = made[e]
        BY <2>1 DEF TypeOK
      <3>2. ~sawEmpty'[e]
        BY <2>1 DEF EndsFromTheTop
      <3>3. made[e] \in Nat
        BY DEF TypeOK
      <3>4. QED
        BY <2>2, <3>1, <3>2, <3>3 DEF EndsFromTheTop
    <2>3. CASE f # e
      <3>1. lifetime'[f] = lifetime[f] /\ todo'[f] = todo[f]
        BY <2>1, <2>3 DEF TypeOK
      <3>2. \A i \in Tasks : Answered(f, i) => Answered(f, i)'
        BY <2>1 DEF Answered, Empty
      <3>3. QED
        BY <2>1, <3>1, <3>2, EndsFrame
    <2>4. QED
      BY <2>2, <2>3
  <1>10. CASE CancelLooks(e)
    <2> DEFINE open == {i \in 1 .. todo[e] : Open(e, i)}
    <2>1. /\ lifetime[e] = "terminated" /\ ~sawEmpty[e]
          /\ UNCHANGED <<made, task>>
          /\ \/ /\ open = {}
                /\ lifetime' = [lifetime EXCEPT ![e] = "ended"]
                /\ todo' = [todo EXCEPT ![e] = 0]
                /\ sawEmpty' = sawEmpty
             \/ /\ open # {}
                /\ todo' = [todo EXCEPT ![e] = Max(open)]
                /\ sawEmpty' = [sawEmpty EXCEPT ![e] = TRUE]
                /\ lifetime' = lifetime
      BY <1>10 DEF CancelLooks
    <2>2. \A i \in Tasks : Answered(f, i) => Answered(f, i)'
      BY <2>1 DEF Answered, Empty
    <2>3. CASE f # e
      <3>1. lifetime'[f] = lifetime[f] /\ todo'[f] = todo[f] /\ sawEmpty'[f] = sawEmpty[f]
        BY <2>1, <2>3 DEF TypeOK
      <3>2. QED
        BY <2>1, <2>2, <3>1, EndsFrame
    <2>4. CASE f = e
      <3>1. \A i \in 1 .. made[e] : i > todo[e] => Answered(e, i)
        BY <2>1 DEF EndsFromTheTop
      <3>2. made[e] \in Nat /\ todo[e] \in Nat
        BY DEF TypeOK
      <3>3. \A i : i \notin open /\ i \in 1 .. todo[e] => Answered(e, i)
        BY DEF Open, Answered
      <3>4. \A i : Answered(e, i) <=> Answered(e, i)'
        BY <2>1 DEF Answered, Empty
      <3>5. CASE open = {}
        <4>1. lifetime'[e] = "ended" /\ sawEmpty'[e] = FALSE
          BY <2>1, <3>5 DEF TypeOK
        <4>2. ASSUME NEW i \in 1 .. made[e]
              PROVE  Answered(e, i)'
          <5>1. i > todo[e] \/ i \in 1 .. todo[e]
            BY <3>2
          <5>2. QED
            BY <3>1, <3>3, <3>4, <3>5, <5>1
        <4>3. QED
          BY <2>1, <2>4, <4>1, <4>2 DEF EndsFromTheTop
      <3>6. CASE open # {}
        <4>1. Max(open) \in open /\ \A i \in open : i <= Max(open)
          BY <3>2, <3>6, LastOne
        <4>2. lifetime'[e] = "terminated" /\ todo'[e] = Max(open)
          BY <2>1, <3>6 DEF TypeOK
        <4>3. Max(open) \in 1 .. todo[e]
          BY <4>1
        <4>4. ASSUME NEW i \in 1 .. made[e], i > Max(open)
              PROVE  Answered(e, i)'
          <5>1. i > todo[e] \/ i \in 1 .. todo[e]
            BY <3>2
          <5>2. i \notin open
            BY <4>1, <4>3, <4>4, <3>2
          <5>3. QED
            BY <3>1, <3>3, <3>4, <5>1, <5>2
        <4>5. Max(open) # 0
          BY <4>3
        <4>6. QED
          BY <2>1, <2>4, <4>2, <4>4, <4>5 DEF EndsFromTheTop
      <3>7. QED
        BY <3>5, <3>6
    <2>5. QED
      BY <2>3, <2>4
  <1>11. CASE CancelSets(e)
    <2>1. /\ sawEmpty[e]
          /\ SetResult(e, todo[e], "cancelled")
          /\ todo' = [todo EXCEPT ![e] = todo[e] - 1]
          /\ sawEmpty' = [sawEmpty EXCEPT ![e] = FALSE]
          /\ UNCHANGED <<made, lifetime>>
      BY <1>11 DEF CancelSets
    <2>2. PICK t \in Tasks : t = todo[e]
      BY <2>1, TodoType DEF EndsFromTheTop
    <2>3. /\ \A g \in Ends, j \in Tasks : Answered(g, j) => Answered(g, j)'
          /\ Answered(e, t)'
      <3>1. SetResult(e, t, "cancelled") /\ "cancelled" \in Results \ {"empty"}
        BY <2>1, <2>2 DEF Results, Answers
      <3>2. QED
        BY <3>1, SetAnswers
    <2>4. CASE f # e
      <3>1. todo'[f] = todo[f] /\ sawEmpty'[f] = sawEmpty[f]
        BY <2>1, <2>4 DEF TypeOK
      <3>2. QED
        BY <2>1, <2>3, <3>1, EndsFrame
    <2>5. CASE f = e
      <3>1. lifetime'[e] = "terminated" /\ made'[e] = made[e]
        BY <2>1 DEF EndsFromTheTop
      <3>2. todo'[e] = todo[e] - 1 /\ ~sawEmpty'[e]
        BY <2>1 DEF TypeOK
      <3>3. \A i \in 1 .. made[e] : i > todo[e] => Answered(e, i)
        BY <2>1 DEF EndsFromTheTop
      <3>4. \A i \in 1 .. made[e] : i \in Tasks
        <4>1. made[e] \in 0 .. MaxCalls
          BY DEF TypeOK
        <4>2. QED
          BY <4>1 DEF Tasks
      <3>5. ASSUME NEW i \in 1 .. made[e], i > todo[e] - 1
            PROVE  Answered(e, i)'
        <4>1. i = t \/ i > todo[e]
          BY <2>2, <3>5 DEF Tasks
        <4>2. QED
          BY <2>3, <3>3, <3>4, <4>1
      <3>6. QED
        BY <2>5, <3>1, <3>2, <3>5 DEF EndsFromTheTop
    <2>6. QED
      BY <2>4, <2>5
  <1>12. QED
    BY <1>0, <1>1, <1>2, <1>4, <1>5, <1>6, <1>7, <1>8, <1>9, <1>10, <1>11
    DEF StartCall, SyncCall, SchedulerRuns, SocketRuns, EnderRuns, HandlersRun,
        SetHandler, AnswerAgain, FinishHandling, RunRequest, RunAnswer, Receive

-----------------------------------------------------------------------------
(* Every call is accounted for as long as both ends are bound.             *)

\* Messages are added, and nobody who is about to do something is stopped.
LEMMA KeptByGrowth ==
  ASSUME NEW f \in Ends, NEW i,
         Answered(f, i) => Answered(f, i)',
         \A g \in Ends : Range(wire[g]) \subseteq Range(wire'[g])
                         /\ Range(queue[g]) \subseteq Range(queue'[g]),
         handled[Other(f)][i] \in {"awaiting", "refused"} => handled'[Other(f)][i] = handled[Other(f)][i],
         socket[f].at = "setting" => socket'[f] = socket[f],
         thread[f].at = "setting" => thread'[f] = thread[f],
         Accounted(f, i)
  PROVE  Accounted(f, i)'
  <1>1. \A kind : \A g \in Ends :
          /\ About(kind, i, wire[g]) => About(kind, i, wire'[g])
          /\ About(kind, i, queue[g]) => About(kind, i, queue'[g])
    BY DEF About
  <1>2. Other(f) \in Ends
    BY OtherEnd
  <1>3. Asked(f, i) => Asked(f, i)'
    BY <1>1, <1>2 DEF Asked
  <1>4. Answering(f, i) => Answering(f, i)'
    BY <1>1 DEF Answering
  <1>5. QED
    BY <1>3, <1>4 DEF Accounted

\* A step that leaves what is accounted for, and accounts for what it makes.
LEMMA UnderwayFrame ==
  ASSUME TypeOK, TypeOK', NEW f \in Ends, Underway(f),
         AllAlive' => AllAlive,
         \A i \in Tasks : i <= made'[f] /\ i > made[f] => Accounted(f, i)',
         AllAlive => \A i \in Tasks : Accounted(f, i) => Accounted(f, i)'
  PROVE  Underway(f)'
  <1> SUFFICES ASSUME AllAlive, NEW i \in 1 .. made'[f]
               PROVE  Accounted(f, i)'
    BY DEF Underway
  <1>1. made[f] \in 0 .. MaxCalls /\ made'[f] \in 0 .. MaxCalls
    BY DEF TypeOK
  <1>2. i \in Tasks /\ (i \in 1 .. made[f] \/ i > made[f])
    BY <1>1, CallsAssumption DEF Tasks
  <1>3. QED
    BY <1>2 DEF Underway

\* An answer that is on its way to the scheduler's thread or the socket's.
LEMMA AnswerAccounts ==
  ASSUME NEW e \in Ends, NEW i, NEW r
  PROVE  /\ Answer(i, r) \in Range(wire[e]) => Accounted(e, i)
         /\ Answer(i, r) \in Range(queue[e]) => Accounted(e, i)
  BY DEF Answer, About, Answering, Accounted

\* Every step keeps every call that is held accounted for.
LEMMA UnderwayStep ==
  ASSUME TypeOK, TypeOK', Next,
         \A f \in Ends : OnlyMadeHeld(f) /\ OneSetter(f) /\ EndsFromTheTop(f) /\ Underway(f)
  PROVE  \A f \in Ends : Underway(f)'
  <1> USE CallsAssumption
  <1>0. PICK e \in Ends :
          \/ StartCall(e) \/ SyncCall(e) \/ SyncRefused(e) \/ SetHandler(e)
          \/ \E i \in Tasks : Release(e, i) \/ AnswerAgain(e, i)
          \/ Terminate(e)
          \/ SchedulerRuns(e) \/ SocketRuns(e) \/ EnderRuns(e) \/ HandlersRun(e)
    BY DEF Next
  <1> SUFFICES ASSUME NEW f \in Ends
               PROVE  Underway(f)'
    OBVIOUS
  <1>o. Other(f) \in Ends /\ Other(f) # f /\ Other(Other(f)) = f
    BY OtherEnd
  <1>n. made[f] \in Nat
    BY DEF TypeOK
  <1>1. ASSUME NEW sync \in BOOLEAN, Make(e, sync),
               thread[e] = Idle, \A g \in Ends : g # e => thread'[g] = thread[g]
        PROVE  Underway(f)'
    <2>0. PICK new \in Tasks : new = made[e] + 1
      BY <1>1, MakeEffect
    <2>8. /\ \A g \in Ends : made'[g] = IF g = e THEN made[e] + 1 ELSE made[g]
          /\ Range(wire'[Other(e)]) = Range(wire[Other(e)]) \union {Request(made[e] + 1)}
          /\ \A g \in Ends : g # Other(e) => wire'[g] = wire[g]
      BY <1>1, MakeSends
    <2>9. \A g \in Ends, j \in Tasks : g # e \/ j # made[e] + 1 => task'[g][j] = task[g][j]
      BY <1>1, MakeEffect
    <2>1. /\ \A g \in Ends : made'[g] = IF g = e THEN made[e] + 1 ELSE made[g]
          /\ \A g \in Ends, j \in Tasks : g # e \/ j # new => task'[g][j] = task[g][j]
          /\ Range(wire'[Other(e)]) = Range(wire[Other(e)]) \union {Request(new)}
          /\ \A g \in Ends : g # Other(e) => wire'[g] = wire[g]
      BY <2>0, <2>8, <2>9
    <2>2. UNCHANGED <<socket, queue, handled, lifetime>>
      BY <1>1 DEF Make
    <2>3. f = e => Accounted(f, new)'
      <3>1. Request(new) \in Range(wire'[Other(e)])
        BY <2>0, <2>1
      <3>2. About("request", new, wire'[Other(e)])
        BY <3>1 DEF About, Request
      <3>3. QED
        BY <3>2 DEF Asked, Accounted
    <2>4. \A i \in Tasks : i <= made'[f] /\ i > made[f] => Accounted(f, i)'
      <3> SUFFICES ASSUME NEW i \in Tasks, i <= made'[f], i > made[f]
                   PROVE  Accounted(f, i)'
        OBVIOUS
      <3>1. f = e /\ i = new
        BY <2>0, <2>1, <1>n DEF Tasks
      <3>2. QED
        BY <2>3, <3>1
    <2>5. AllAlive => \A i \in Tasks : Accounted(f, i) => Accounted(f, i)'
      <3> SUFFICES ASSUME NEW i \in Tasks, Accounted(f, i)
                   PROVE  Accounted(f, i)'
        OBVIOUS
      <3>1. CASE f = e /\ i = new
        BY <2>3, <3>1
      <3>2. CASE f # e \/ i # new
        <4>1. task'[f][i] = task[f][i]
          BY <2>0, <2>1, <3>2
        <4>2. Answered(f, i) => Answered(f, i)'
          BY <4>1 DEF Answered, Empty
        <4>3. \A g \in Ends : Range(wire[g]) \subseteq Range(wire'[g])
          BY <2>1
        <4>4. thread[f].at = "setting" => thread'[f] = thread[f]
          BY <1>1 DEF Idle
        <4>5. QED
          BY <2>2, <4>2, <4>3, <4>4, KeptByGrowth
      <3>3. QED
        BY <3>1, <3>2
    <2>6. AllAlive' => AllAlive
      BY <2>2 DEF AllAlive
    <2>7. QED
      BY <2>4, <2>5, <2>6, UnderwayFrame
  <1>2. CASE StartCall(e)
    BY <1>1, <1>2 DEF StartCall, Make
  <1>3. CASE SyncCall(e)
    <2>1. /\ Make(e, TRUE)
          /\ thread[e] = Idle
          /\ thread' = [thread EXCEPT ![e] = Waiting(made'[e])]
      BY <1>3 DEF SyncCall, Make
    <2>2. \A g \in Ends : g # e => thread'[g] = thread[g]
      BY <2>1 DEF TypeOK
    <2>3. QED
      BY <1>1, <2>1, <2>2
  <1>4. CASE SyncRefused(e)
    <2>1. made' = [made EXCEPT ![e] = made[e] + 1]
          /\ UNCHANGED <<task, thread, socket, queue, wire, handled, lifetime>>
      BY <1>4 DEF SyncRefused
    <2>2. ASSUME NEW i \in Tasks, i > made[f]
          PROVE  Accounted(f, i)'
      <3>1. ~task[f][i].held
        BY <1>n, <2>2 DEF OnlyMadeHeld, Tasks
      <3>2. QED
        BY <2>1, <3>1 DEF Accounted, Answered
    <2>3. ASSUME NEW i \in Tasks, Accounted(f, i)
          PROVE  Accounted(f, i)'
      BY <2>1, <2>3 DEF Accounted, Answered, Empty, Asked, Answering
    <2>4. AllAlive' => AllAlive
      BY <2>1 DEF AllAlive
    <2>5. QED
      BY <2>2, <2>3, <2>4, UnderwayFrame
  <1>5. ASSUME made' = made, AllAlive' => AllAlive,
               AllAlive => \A i \in Tasks : Accounted(f, i) => Accounted(f, i)'
        PROVE  Underway(f)'
    <2>1. \A i \in Tasks : ~(i <= made'[f] /\ i > made[f])
      BY <1>5, <1>n DEF Tasks
    <2>2. QED
      BY <1>5, <2>1, UnderwayFrame
  <1>6. ASSUME UNCHANGED <<made, lifetime, socket, queue, wire, handled>>,
               thread[f].at = "setting" => thread'[f] = thread[f],
               \A i \in Tasks : Answered(f, i) => Answered(f, i)'
        PROVE  Underway(f)'
    <2>1. ASSUME NEW i \in Tasks, Accounted(f, i)
          PROVE  Accounted(f, i)'
      BY <1>6, <2>1, KeptByGrowth
    <2>2. QED
      BY <1>5, <1>6, <2>1 DEF AllAlive
  <1>h. CASE SetHandler(e)
    <2>1. UNCHANGED <<made, task, thread, socket, queue, wire, handled, lifetime>>
      BY <1>h DEF SetHandler
    <2>2. \A i \in Tasks : Answered(f, i) => Answered(f, i)'
      BY <2>1 DEF Answered, Empty
    <2>3. QED
      BY <1>6, <2>1, <2>2
  <1>7. ASSUME NEW i \in Tasks, Release(e, i)
        PROVE  Underway(f)'
    BY <1>6, <1>7, ReleaseAnswers DEF Release
  <1>8. CASE SyncReturn(e) \/ SyncTimeout(e)
    <2>1. thread[e].at = "waiting" /\ EndSync(e, thread[e].task)
      BY <1>8 DEF SyncReturn, SyncTimeout
    <2>2. /\ thread[e].task \in Tasks
          /\ task' = [task EXCEPT ![e][thread[e].task].held = FALSE]
          /\ thread' = [thread EXCEPT ![e] = Idle]
          /\ UNCHANGED <<made, lifetime, socket, queue, wire, handled>>
      BY <2>1, EndSyncEffect
    <2>3. thread[f].at = "setting" => thread'[f] = thread[f]
      BY <2>1, <2>2 DEF TypeOK
    <2>4. QED
      BY <1>6, <2>2, <2>3, ReleaseAnswers
  <1>9. CASE lifetime[e] # "alive" /\ lifetime'[e] # "alive" /\ made' = made
    BY <1>5, <1>9 DEF AllAlive
  <1>10. CASE Terminate(e)
    <2>0. lifetime' = [lifetime EXCEPT ![e] = "terminated"] /\ made' = made
      BY <1>10 DEF Terminate
    <2>1. lifetime'[e] # "alive" /\ made' = made
      BY <2>0 DEF TypeOK
    <2>2. QED
      <3>1. ~AllAlive'
        BY <2>1 DEF AllAlive
      <3>2. QED
        BY <3>1 DEF Underway
  <1>11. CASE CancelLooks(e)
    <2>0. /\ lifetime[e] = "terminated"
          /\ lifetime' = [lifetime EXCEPT ![e] = "ended"] \/ lifetime' = lifetime
          /\ made' = made
      BY <1>11 DEF CancelLooks
    <2>1. lifetime[e] = "terminated" /\ lifetime'[e] # "alive" /\ made' = made
      BY <2>0 DEF TypeOK
    <2>2. QED
      BY <1>9, <2>1
  <1>12. CASE CancelSets(e)
    <2>1. lifetime[e] = "terminated" /\ lifetime' = lifetime /\ made' = made
      BY <1>12 DEF CancelSets, EndsFromTheTop
    <2>2. QED
      BY <1>9, <2>1
  <1>13. CASE \E i \in Tasks : AnswerAgain(e, i)
    <2>1. PICK j \in Tasks : AnswerAgain(e, j)
      BY <1>13
    <2>2. /\ SendAnswer(e, j, "fault") /\ "fault" \in Answers
          /\ HandledBecomes(e, j, "twice")
          /\ handled[e][j] = "answered"
          /\ UNCHANGED <<made, task, thread, socket, queue, lifetime>>
      BY <2>1 DEF AnswerAgain, Answers
    <2>3. \A g \in Ends : Range(wire[g]) \subseteq Range(wire'[g])
      BY <2>2, AnswerEffect
    <2>4. \A g \in Ends, i \in Tasks :
            handled[g][i] \in {"awaiting", "refused"} => handled'[g][i] = handled[g][i]
      <3>1. "twice" \in Marks \ {"no"}
        BY DEF Marks
      <3>2. QED
        BY <2>2, <3>1, HandledEffect
    <2>5. ASSUME NEW i \in Tasks, Accounted(f, i)
          PROVE  Accounted(f, i)'
      <3>1. Answered(f, i) => Answered(f, i)'
        BY <2>2 DEF Answered, Empty
      <3>2. QED
        BY <1>o, <2>2, <2>3, <2>4, <2>5, <3>1, KeptByGrowth
    <2>6. QED
      BY <1>5, <2>2, <2>5 DEF AllAlive
  <1>14. ASSUME NEW j \in Tasks, NEW r \in Answers, SendAnswer(e, j, r),
                HandledBecomes(e, j, "answered"),
                UNCHANGED <<made, task, thread, socket, lifetime>>,
                \A g \in Ends : \A m \in Range(queue[g]) :
                  \/ m \in Range(queue'[g])
                  \/ g = e /\ m.kind = "request" /\ m.task = j
         PROVE  Underway(f)'
    <2>1. /\ \A g \in Ends : Range(wire[g]) \subseteq Range(wire'[g])
          /\ lifetime[e] = "alive" => Answer(j, r) \in Range(wire'[Other(e)])
      BY <1>14, AnswerEffect
    <2>2. \A g \in Ends, i \in Tasks :
            handled'[g][i] = IF g = e /\ i = j THEN "answered" ELSE handled[g][i]
      <3>1. "answered" \in Marks \ {"no"}
        BY DEF Marks
      <3>2. QED
        BY <1>14, <3>1, HandledEffect
    <2>3. ASSUME NEW i \in Tasks, AllAlive, Accounted(f, i)
          PROVE  Accounted(f, i)'
      <3>1. Answered(f, i) => Answered(f, i)'
        BY <1>14 DEF Answered, Empty
      <3>2. CASE f = Other(e) /\ i = j
        <4>1. Answer(i, r) \in Range(wire'[f])
          BY <2>1, <2>3, <3>2 DEF AllAlive
        <4>2. About("answer", i, wire'[f])
          BY <4>1 DEF About, Answer
        <4>3. QED
          BY <4>2 DEF Answering, Accounted
      <3>3. CASE f # Other(e) \/ i # j
        <4>1. Other(f) = e => i # j
          BY <1>o, <3>3
        <4>2. Asked(f, i) => Asked(f, i)'
          <5>1. About("request", i, wire[Other(f)]) => About("request", i, wire'[Other(f)])
            BY <1>o, <2>1 DEF About
          <5>2. About("request", i, queue[Other(f)]) => About("request", i, queue'[Other(f)])
            BY <1>o, <1>14, <4>1 DEF About
          <5>3. handled'[Other(f)][i] = handled[Other(f)][i]
            BY <1>o, <2>2, <4>1
          <5>4. QED
            BY <5>1, <5>2, <5>3 DEF Asked
        <4>3. Answering(f, i) => Answering(f, i)'
          <5>1. About("answer", i, wire[f]) => About("answer", i, wire'[f])
            BY <2>1 DEF About
          <5>2. About("answer", i, queue[f]) => About("answer", i, queue'[f])
            BY <1>14 DEF About
          <5>3. QED
            BY <1>14, <5>1, <5>2 DEF Answering
        <4>4. QED
          BY <2>3, <3>1, <4>2, <4>3 DEF Accounted
      <3>4. QED
        BY <3>2, <3>3
    <2>4. QED
      BY <1>5, <1>14, <2>3 DEF AllAlive
  <1>15. ASSUME NEW j \in Tasks, FinishHandling(e, j)
         PROVE  Underway(f)'
    BY <1>14, <1>15 DEF FinishHandling, Answers
  <1>16. CASE RunRequest(e)
    <2>1. /\ Dequeue(e, "request")
          /\ UNCHANGED <<made, task, thread, socket, lifetime>>
          /\ \/ lifetime[e] = "ended"
             \/ Refuse(e, NextAction(e).task)
             \/ HandlerReturns(e, NextAction(e).task)
             \/ HandlerDefers(e, NextAction(e).task)
             \/ HandlerThrows(e, NextAction(e).task)
      BY <1>16 DEF RunRequest, Handle
    <2>2. PICK j \in Tasks : j = NextAction(e).task
      BY <2>1, DequeueEffect DEF Messages, Requests, AnswerMessages
    <2>3. /\ NextAction(e).kind = "request"
          /\ \A g \in Ends : \A m \in Range(queue[g]) :
                  \/ m \in Range(queue'[g])
                  \/ g = e /\ m.kind = "request" /\ m.task = j
      BY <2>1, <2>2, DequeueEffect
    <2>4. CASE lifetime[e] = "ended"
      BY <1>9, <2>1, <2>4
    <2>5. CASE HandlerReturns(e, j) \/ HandlerThrows(e, j)
      <3>1. (\E r \in Answers : SendAnswer(e, j, r)) /\ HandledBecomes(e, j, "answered")
        BY <2>5 DEF HandlerReturns, HandlerThrows, Answers
      <3>2. QED
        BY <1>14, <2>1, <2>3, <3>1
    <2>6. CASE HandlerDefers(e, j) \/ Refuse(e, j)
      <3>1. PICK h \in {"awaiting", "refused"} : wire' = wire /\ HandledBecomes(e, j, h)
        BY <2>6 DEF HandlerDefers, Refuse
      <3>2. \A g \in Ends, i \in Tasks :
              handled'[g][i] = IF g = e /\ i = j THEN h ELSE handled[g][i]
        <4>1. h \in Marks \ {"no"}
          BY DEF Marks
        <4>2. QED
          BY <3>1, <4>1, HandledEffect
      <3>3. ASSUME NEW i \in Tasks, Accounted(f, i)
            PROVE  Accounted(f, i)'
        <4>1. Answered(f, i) => Answered(f, i)'
          BY <2>1 DEF Answered, Empty
        <4>2. Asked(f, i) => Asked(f, i)'
          <5>1. CASE Other(f) = e /\ i = j
            BY <1>o, <3>2, <5>1 DEF Asked
          <5>2. CASE Other(f) # e \/ i # j
            <6>1. About("request", i, queue[Other(f)]) => About("request", i, queue'[Other(f)])
              BY <1>o, <2>3, <5>2 DEF About
            <6>2. handled[Other(f)][i] = handled'[Other(f)][i]
              BY <1>o, <3>2, <5>2
            <6>3. QED
              BY <3>1, <6>1, <6>2 DEF Asked
          <5>3. QED
            BY <5>1, <5>2
        <4>3. Answering(f, i) => Answering(f, i)'
          <5>1. About("answer", i, queue[f]) => About("answer", i, queue'[f])
            BY <2>3 DEF About
          <5>2. QED
            BY <2>1, <3>1, <5>1 DEF Answering
        <4>4. QED
          BY <3>3, <4>1, <4>2, <4>3 DEF Accounted
      <3>4. QED
        BY <1>5, <2>1, <3>3 DEF AllAlive
    <2>7. QED
      BY <2>1, <2>2, <2>4, <2>5, <2>6
  <1>17. CASE RunAnswer(e)
    <2>1. /\ Dequeue(e, "answer")
          /\ thread' = IF Open(e, NextAction(e).task)
                       THEN [thread EXCEPT ![e] = Setting(NextAction(e))] ELSE thread
          /\ UNCHANGED <<made, task, socket, wire, handled, lifetime>>
      BY <1>17 DEF RunAnswer
    <2>2. PICK m \in Messages : m = NextAction(e)
      BY <2>1, DequeueEffect
    <2>3. /\ m.kind = "answer"
          /\ thread[e] = Idle
          /\ \A g \in Ends : \A k \in Range(queue[g]) : k \in Range(queue'[g]) \/ (g = e /\ k = m)
      BY <2>1, <2>2, DequeueEffect
    <2>4. /\ Open(e, m.task) => thread'[e] = Setting(m)
          /\ \A g \in Ends : thread[g].at = "setting" => thread'[g] = thread[g]
      <3>1. thread \in [Ends -> ThreadStates]
        BY DEF TypeOK
      <3>2. \/ thread' = [thread EXCEPT ![e] = Setting(m)]
            \/ ~Open(e, m.task) /\ thread' = thread
        BY <2>1, <2>2
      <3>3. thread[e].at # "setting"
        BY <2>3 DEF Idle
      <3>4. QED
        BY <3>1, <3>2, <3>3
    <2>5. ASSUME NEW i \in Tasks, Accounted(f, i)
          PROVE  Accounted(f, i)'
      <3>1. Answered(f, i) => Answered(f, i)'
        BY <2>1 DEF Answered, Empty
      <3>2. Asked(f, i) => Asked(f, i)'
        <4>1. About("request", i, queue[Other(f)]) => About("request", i, queue'[Other(f)])
          BY <1>o, <2>3 DEF About
        <4>2. QED
          BY <2>1, <4>1 DEF Asked
      <3>3. Answering(f, i) => Answering(f, i)' \/ Answered(f, i)'
        <4>1. CASE f = e /\ i = m.task /\ Open(e, i)
          BY <2>4, <4>1 DEF Setting, Answering
        <4>2. CASE f = e /\ i = m.task /\ ~Open(e, i)
          BY <3>1, <4>2 DEF Open, Answered
        <4>3. CASE f # e \/ i # m.task
          <5>1. About("answer", i, queue[f]) => About("answer", i, queue'[f])
            BY <2>3, <4>3 DEF About
          <5>2. QED
            BY <2>1, <2>4, <5>1 DEF Answering
        <4>4. QED
          BY <4>1, <4>2, <4>3
      <3>4. QED
        BY <2>5, <3>1, <3>2, <3>3 DEF Accounted
    <2>6. QED
      BY <1>5, <2>1, <2>5 DEF AllAlive
  <1>18. ASSUME NEW j \in Tasks, NEW r \in Results \ {"empty"}, SetResult(e, j, r),
                UNCHANGED <<made, queue, wire, handled, lifetime>>,
                \A g \in Ends :
                  /\ socket[g].at = "setting" =>
                       socket'[g] = socket[g] \/ (g = e /\ socket[g].task = j)
                  /\ thread[g].at = "setting" =>
                       thread'[g] = thread[g] \/ (g = e /\ thread[g].task = j)
         PROVE  Underway(f)'
    <2>1. /\ \A i \in Tasks : Answered(f, i) => Answered(f, i)'
          /\ Answered(e, j)'
      BY <1>18, SetAnswers
    <2>2. ASSUME NEW i \in Tasks, Accounted(f, i)
          PROVE  Accounted(f, i)'
      <3>1. CASE f = e /\ i = j
        BY <2>1, <3>1 DEF Accounted
      <3>2. CASE f # e \/ i # j
        <4>1. Answering(f, i) => Answering(f, i)'
          BY <1>18, <3>2 DEF Answering
        <4>2. Asked(f, i) => Asked(f, i)'
          BY <1>18 DEF Asked
        <4>3. QED
          BY <2>1, <2>2, <4>1, <4>2 DEF Accounted
      <3>3. QED
        BY <3>1, <3>2
    <2>3. QED
      BY <1>5, <1>18, <2>2 DEF AllAlive
  <1>19. CASE ThreadSets(e)
    <2>1. /\ thread[e].at = "setting"
          /\ SetResult(e, thread[e].task, thread[e].result)
          /\ thread' = [thread EXCEPT ![e] = Idle]
          /\ UNCHANGED <<made, socket, queue, wire, handled, lifetime>>
      BY <1>19 DEF ThreadSets
    <2>2. thread[e].task \in Tasks /\ thread[e].result \in Results \ {"empty"}
      BY <2>1, SettingType DEF SettingStates, Results, Answers
    <2>3. \A g \in Ends : g # e => thread'[g] = thread[g]
      BY <2>1 DEF TypeOK
    <2>4. PICK j \in Tasks : j = thread[e].task
      BY <2>2
    <2>5. QED
      BY <1>18, <2>1, <2>2, <2>3, <2>4
  <1>20. CASE SocketSets(e)
    <2>1. /\ socket[e].at = "setting"
          /\ SetResult(e, socket[e].task, socket[e].result)
          /\ socket' = [socket EXCEPT ![e] = Idle]
          /\ UNCHANGED <<made, thread, queue, wire, handled, lifetime>>
      BY <1>20 DEF SocketSets
    <2>2. socket[e].task \in Tasks /\ socket[e].result \in Results \ {"empty"}
      BY <2>1, SettingType DEF SettingStates, Results, Answers
    <2>3. \A g \in Ends : g # e => socket'[g] = socket[g]
      BY <2>1 DEF TypeOK
    <2>4. PICK j \in Tasks : j = socket[e].task
      BY <2>2
    <2>5. QED
      BY <1>18, <2>1, <2>2, <2>3, <2>4
  <1>21. CASE Receive(e)
    <2>1. UNCHANGED <<made, task, thread, handled, lifetime>> /\ socket[e] = Idle
      BY <1>21 DEF Receive
    <2>2. PICK m \in Messages : m = Head(wire[e])
      BY <1>21, ReceiveEffect
    <2>3. /\ Range(wire[e]) = {m} \union Range(wire'[e])
          /\ \A g \in Ends : g # e => wire'[g] = wire[g]
          /\ \A g \in Ends : g # e => queue'[g] = queue[g] /\ socket'[g] = socket[g]
          /\ \/ /\ Range(queue'[e]) = Range(queue[e]) \union {m}
                /\ socket' = socket
             \/ /\ m.kind = "answer"
                /\ queue' = queue
                /\ ~Subscribed(e, m.task) \/ ~Open(e, m.task)
                /\ socket'[e] \in {Idle, Broken}
             \/ /\ m.kind = "answer"
                /\ queue' = queue
                /\ Open(e, m.task)
                /\ socket'[e] = Setting(m)
      BY <1>21, <2>2, ReceiveEffect
    <2>4. \A g \in Ends : Range(queue[g]) \subseteq Range(queue'[g])
      BY <2>3
    <2>5. \A g \in Ends : socket[g].at = "setting" => socket'[g] = socket[g]
      BY <2>1, <2>3 DEF Idle
    <2>6. ASSUME NEW i \in Tasks, AllAlive, Accounted(f, i)
          PROVE  Accounted(f, i)'
      <3>1. Answered(f, i) => Answered(f, i)'
        BY <2>1 DEF Answered, Empty
      <3>2. Asked(f, i) => Asked(f, i)'
        <4>1. About("request", i, wire[Other(f)]) =>
                About("request", i, wire'[Other(f)]) \/ About("request", i, queue'[Other(f)])
          BY <1>o, <2>3 DEF About
        <4>2. About("request", i, queue[Other(f)]) => About("request", i, queue'[Other(f)])
          BY <1>o, <2>4 DEF About
        <4>3. QED
          BY <2>1, <4>1, <4>2 DEF Asked
      <3>3. About("answer", i, wire[f]) => Answering(f, i)' \/ Answered(f, i)'
        <4>1. CASE f = e /\ i = m.task /\ m.kind = "answer"
          <5>1. Subscribed(e, m.task)
            BY <2>6 DEF Subscribed, AllAlive
          <5>2. CASE Range(queue'[e]) = Range(queue[e]) \union {m}
            BY <4>1, <5>2 DEF Answering, About
          <5>3. CASE ~Open(e, m.task)
            BY <3>1, <4>1, <5>3 DEF Open, Answered
          <5>4. CASE socket'[e] = Setting(m)
            BY <4>1, <5>4 DEF Answering, Setting
          <5>5. QED
            BY <2>3, <5>1, <5>2, <5>3, <5>4
        <4>2. CASE ~(f = e /\ i = m.task /\ m.kind = "answer")
          <5>1. About("answer", i, wire[f]) => About("answer", i, wire'[f])
            BY <2>3, <4>2 DEF About
          <5>2. QED
            BY <5>1 DEF Answering
        <4>3. QED
          BY <4>1, <4>2
      <3>4. About("answer", i, queue[f]) => About("answer", i, queue'[f])
        BY <2>4 DEF About
      <3>5. Answering(f, i) => Answering(f, i)' \/ Answered(f, i)'
        BY <2>1, <2>5, <3>3, <3>4 DEF Answering
      <3>6. QED
        BY <2>6, <3>1, <3>2, <3>5 DEF Accounted
    <2>7. QED
      BY <1>5, <2>1, <2>6 DEF AllAlive
  <1>22. QED
    BY <1>0, <1>2, <1>3, <1>4, <1>h, <1>7, <1>8, <1>10, <1>11, <1>12, <1>13, <1>15, <1>16, <1>17,
       <1>19, <1>20, <1>21
    DEF SchedulerRuns, SocketRuns, EnderRuns, HandlersRun

-----------------------------------------------------------------------------
(* The theorems.                                                           *)

\* The invariant is inductive.
LEMMA CallsStep == CallsInv /\ [Next]_vars => CallsInv'
  <1> SUFFICES ASSUME CallsInv, [Next]_vars
               PROVE  CallsInv'
    OBVIOUS
  <1>1. CASE Next
    <2>1. TypeOK'
      BY <1>1, TypeStep DEF CallsInv
    <2>2. QED
      BY <1>1, <2>1, AboutStep, HeldStep, SetterStep, EndsStep, UnderwayStep DEF CallsInv
  <1>2. CASE UNCHANGED vars
    BY <1>2
    DEF vars, CallsInv, TypeOK, AboutCalls, OnlyMadeHeld, OneSetter, EndsFromTheTop, Underway,
        AllAlive, Accounted, Asked, Answering, Answered, Empty
  <1>3. QED
    BY <1>1, <1>2

\* Where calls, their messages and their results are, in every behaviour of two
\* ends (RdCall.h, RdEndpoint.h, WiredRdTaskImpl.h).
THEOREM CallsInvariance == Spec => []CallsInv
  BY CallsInit, CallsStep, PTL DEF Spec

\* The types of calls and tasks, whose results stay within what RdTaskResult has.
THEOREM CallsTypeCorrect == Spec => []TypeOK
  <1>1. CallsInv => TypeOK
    BY DEF CallsInv
  <1>2. QED
    BY <1>1, CallsInvariance, PTL

\* An answer is not replaced by another answer: of set_if_empty's two steps
\* (IProperty.h l.86-92) no two threads that may set an answer are between them
\* for the same task, whatever they have read before (WiredRdTaskImpl.h l.50-57).
THEOREM AnswersStay == Spec => FirstAnswerStays
  <1>1. CallsInv /\ [Next]_vars =>
          [\A e \in Ends, i \in Tasks :
             task[e][i].result \in Answers =>
               task'[e][i].result \in {task[e][i].result, "cancelled"}]_vars
    <2> SUFFICES ASSUME CallsInv, Next,
                        NEW f \in Ends, NEW i \in Tasks, task[f][i].result \in Answers
                 PROVE  task'[f][i].result \in {task[f][i].result, "cancelled"}
      OBVIOUS
    <2>t. TypeOK
      BY DEF CallsInv
    <2>0. PICK e \in Ends :
            \/ StartCall(e) \/ SyncCall(e) \/ SyncRefused(e) \/ SetHandler(e)
            \/ \E j \in Tasks : Release(e, j) \/ AnswerAgain(e, j)
            \/ Terminate(e)
            \/ SchedulerRuns(e) \/ SocketRuns(e) \/ EnderRuns(e) \/ HandlersRun(e)
      BY DEF Next
    <2>1. ASSUME NEW sync \in BOOLEAN, Make(e, sync)
          PROVE  task'[f][i].result = task[f][i].result
      BY <2>t, <2>1, MakeEffect
    <2>2. ASSUME NEW j \in Tasks, Release(e, j)
          PROVE  task'[f][i].result = task[f][i].result
      BY <2>t, <2>2, ReleaseEffect DEF Release
    <2>3. CASE SyncReturn(e) \/ SyncTimeout(e)
      <3>1. thread[e].at = "waiting" /\ EndSync(e, thread[e].task)
        BY <2>3 DEF SyncReturn, SyncTimeout
      <3>2. QED
        BY <2>t, <3>1, EndSyncEffect, ReleaseEffect
    <2>4. CASE ThreadSets(e)
      <3>1. /\ thread[e].at = "setting"
            /\ SetResult(e, thread[e].task, thread[e].result)
        BY <2>4 DEF ThreadSets
      <3>2. /\ thread[e].task \in Tasks /\ thread[e].result \in Results
            /\ task[e][thread[e].task].result \notin Answers
        BY <2>t, <3>1, SettingType DEF SettingStates, Results, CallsInv, OneSetter
      <3>3. f # e \/ i # thread[e].task
        BY <3>2
      <3>4. QED
        BY <2>t, <3>1, <3>2, <3>3, SetEffect
    <2>5. CASE SocketSets(e)
      <3>1. /\ socket[e].at = "setting"
            /\ SetResult(e, socket[e].task, socket[e].result)
        BY <2>5 DEF SocketSets
      <3>2. /\ socket[e].task \in Tasks /\ socket[e].result \in Results
            /\ task[e][socket[e].task].result \notin Answers
        BY <2>t, <3>1, SettingType DEF SettingStates, Results, CallsInv, OneSetter
      <3>3. f # e \/ i # socket[e].task
        BY <3>2
      <3>4. QED
        BY <2>t, <3>1, <3>2, <3>3, SetEffect
    <2>6. CASE CancelSets(e)
      <3>1. sawEmpty[e] /\ SetResult(e, todo[e], "cancelled") /\ "cancelled" \in Results
        BY <2>6 DEF CancelSets, Results
      <3>2. todo[e] \in Tasks
        BY <2>t, <3>1, TodoType DEF CallsInv, EndsFromTheTop
      <3>3. QED
        BY <2>t, <3>1, <3>2, SetEffect
    <2>7. CASE task' = task
      BY <2>7
    <2>8. QED
      BY <2>0, <2>1, <2>2, <2>3, <2>4, <2>5, <2>6, <2>7
      DEF StartCall, SyncCall, SyncRefused, SchedulerRuns, SocketRuns, EnderRuns, HandlersRun,
          SetHandler, AnswerAgain, FinishHandling, Terminate, RunRequest, RunAnswer, Receive,
          CancelLooks
  <1>2. QED
    BY <1>1, CallsInvariance, PTL DEF Spec, FirstAnswerStays

\* Whoever still holds a task when the end of the bind lifetime is over has a
\* result: the cancellation that start_internal registers misses nobody.
THEOREM EndAnswersAll == Spec => []EndedIsAnswered
  <1>1. CallsInv => EndedIsAnswered
    BY DEF CallsInv, EndsFromTheTop, Answered, EndedIsAnswered
  <1>2. QED
    BY <1>1, CallsInvariance, PTL

\* No request, answer or exception of a handler is lost on the way: when nothing
\* is under way any more, every call that is waited for has a result, or was
\* refused by an endpoint that had no handler (RdEndpoint.h l.102-105).
THEOREM NoCallIsLost == Spec => []HeldIsAnswered
  <1>1. CallsInv => HeldIsAnswered
    <2> SUFFICES ASSUME CallsInv, Settled, NEW e \in Ends, NEW i \in 1 .. made[e]
                 PROVE  Answered(e, i) \/ handled[Other(e)][i] = "refused"
      BY DEF HeldIsAnswered, Answered
    <2>2. CASE \A f \in Ends : lifetime[f] = "ended"
      BY <2>2 DEF CallsInv, EndsFromTheTop
    <2>3. CASE \A f \in Ends : lifetime[f] = "alive" /\ socket[f] = Idle /\ wire[f] = <<>>
      <3>1. Accounted(e, i)
        BY <2>3 DEF CallsInv, Underway, AllAlive
      <3>2. i \in Tasks /\ Other(e) \in Ends
        BY OtherEnd, CallsAssumption DEF CallsInv, TypeOK, Tasks
      <3>3. \A kind : \A f \in Ends : ~About(kind, i, wire[f]) /\ ~About(kind, i, queue[f])
        BY <2>3, RangeMessages DEF Settled, About
      <3>4. Asked(e, i) => handled[Other(e)][i] = "refused"
        BY <3>2, <3>3 DEF Asked, Settled
      <3>5. ~Answering(e, i)
        BY <2>3, <3>3 DEF Answering, Settled, Idle
      <3>6. QED
        BY <3>1, <3>4, <3>5 DEF Accounted
    <2>4. QED
      BY <2>2, <2>3 DEF Settled
  <1>2. QED
    BY <1>1, CallsInvariance, PTL

=============================================================================
