--------------------------- MODULE Lifetimes_proofs ---------------------------
(***************************************************************************)
(* Proofs about lifetimes, for every number of threads, of lifetimes and   *)
(* of actions: the inductive invariant and the four properties.            *)
(***************************************************************************)
EXTENDS Lifetimes, SequenceTheorems, TLAPS

\* The actions a lifetime has, or has had.
Of(l, x) ==
  \/ x.does = "user" /\ x.which \in 1 .. Len(owner) /\ owner[x.which] = l
  \/ x.does = "terminate" /\ x.which \in 2 .. lifetimes /\ parent[x.which] = l
  \/ x.does = "erase" /\ x.which = l /\ l \in 2 .. lifetimes
  \/ x.does = "eternal" /\ l = Root

\* What a thread that is in the middle of something may rely on.
SoundRun(rest) ==
  /\ rest # <<>>
  /\ \E l \in 1 .. lifetimes :
       terminated[l] /\ \A x \in Action : Contains(rest, x) => Of(l, x)
Sound(f) ==
  /\ f.op = "take" => f.lifetime \in 1 .. lifetimes /\ terminated[f.lifetime]
  /\ f.op = "close" => f.lifetime \in 1 .. lifetimes
  /\ f.op = "attach" => f.lifetime \in 2 .. lifetimes
  /\ f.op = "current" => f.lifetime \in {Eternal} \union sequential
  /\ f.op = "replace" => /\ f.lifetime \in {Eternal} \union sequential
                         /\ f.previous \in {Eternal} \union sequential
  /\ f.op = "run" => SoundRun(f.rest)

\* Whose the actions are that have been accepted and taken and run.
Stored ==
  /\ \A l \in Lifetimes : \A x \in Action : Contains(actions[l], x) => Of(l, x)
  /\ \A l \in Lifetimes : l > lifetimes => ~terminated[l]
  /\ \A l \in 2 .. lifetimes : parent[l] \in 1 .. lifetimes
  /\ \A l \in sequential : parent[l] = Root
  /\ current \in {Eternal} \union sequential
  /\ \A a \in 1 .. Len(owner) : owner[a] \in 1 .. lifetimes
  /\ \A i \in 1 .. Len(ran) : ran[i] \in 1 .. Len(owner) /\ terminated[owner[ran[i]]]
Framed == \A t \in Threads : \A k \in 1 .. Len(stack[t]) : Sound(stack[t][k])

\* What has been terminated has no actions, or a thread is about to take them.
Takes(l) ==
  \E t \in Threads : \E k \in 1 .. Len(stack[t]) :
    stack[t][k] = [op |-> "take", lifetime |-> l]
Emptied == \A l \in Lifetimes : terminated[l] /\ actions[l] # <<>> => Takes(l)

\* The actions a thread has taken and not run yet.
Running(t) == {k \in 1 .. Len(stack[t]) : stack[t][k].op = "run"}
Rest(t, k, x) == k \in Running(t) /\ Contains(stack[t][k].rest, x)
InRest(x) == \E t \in Threads : \E k \in Nat : Rest(t, k, x)

\* Actions are added in the order of their numbers and run in the reverse one.
Rising(s) ==
  \A i, j \in 1 .. Len(s) :
    s[i].does = "user" /\ s[j].does = "user" /\ i < j => s[i].which < s[j].which
Falling(s) ==
  \A i, j \in 1 .. Len(s) :
    s[i].does = "user" /\ s[j].does = "user" /\ i < j => s[i].which > s[j].which
Sorted ==
  /\ \A l \in Lifetimes : Rising(actions[l])
  /\ \A t \in Threads : \A k \in Running(t) : Falling(stack[t][k].rest)

\* Where a user's action is: with its lifetime, taken by a thread, or run.
Accepted == 1 .. Len(owner)
Stays(a) == Contains(actions[owner[a]], UserAction(a))
Holds(t, k, a) == Rest(t, k, UserAction(a))
HasRun(a) == \E i \in 1 .. Len(ran) : ran[i] = a

\* The actions of a lifetime are taken together, by one thread, and those it has
\* not run yet are older than those it has.
Together ==
  \A a, b \in Accepted : owner[a] = owner[b] =>
    /\ Stays(a) => ~HasRun(b) /\ \A t \in Threads : \A k \in Nat : ~Holds(t, k, b)
    /\ \A t, u \in Threads : \A k, m \in Nat :
         Holds(t, k, a) /\ Holds(u, m, b) => t = u /\ k = m
    /\ \A t \in Threads : \A k \in Nat : Holds(t, k, a) /\ HasRun(b) => a < b
Complete == \A a \in Accepted : Stays(a) \/ InRest(UserAction(a)) \/ HasRun(a)

\* What is nested will be terminated with its parent.
Nested ==
  \A l \in 2 .. lifetimes :
    \/ terminated[l]
    \/ Contains(actions[parent[l]], TerminatesNested(l))
    \/ InRest(TerminatesNested(l))

\* A thread that attaches a lifetime does nothing else but make it current.
Attaching ==
  \A t \in Threads : \A k \in 1 .. Len(stack[t]) :
    stack[t][k].op = "attach" =>
      /\ k = Len(stack[t])
      /\ \A m \in 1 .. k - 1 : stack[t][m] = SetsCurrent(stack[t][k].lifetime)

\* As long as the parent is not terminated, one thread replaces the current
\* lifetime, and each one made is current, terminated or about to be current.
Changes(f) == f.op \in {"current", "replace"}
OneChanges ==
  \A t \in Threads : \A k \in 1 .. Len(stack[t]) :
    Changes(stack[t][k]) =>
      /\ t = Viewer
      /\ \A m \in 1 .. Len(stack[t]) : Changes(stack[t][m]) => m = k
      /\ stack[t][k].op = "replace" => stack[t][k].previous = current
Upcoming(l) ==
  \E k \in 1 .. Len(stack[Viewer]) :
    Changes(stack[Viewer][k]) /\ stack[Viewer][k].lifetime = l
Succession ==
  ~terminated[Root] =>
    OneChanges /\ \A l \in sequential : terminated[l] \/ l = current \/ Upcoming(l)

LifetimesInv ==
  /\ TypeOK /\ Stored /\ Framed /\ Emptied /\ Sorted /\ Together /\ Complete
  /\ RunsInReverse /\ Nested /\ Attaching /\ Succession

-----------------------------------------------------------------------------
(* Sequences of actions.                                                   *)

\* The elements of a sequence.
LEMMA Elements ==
  ASSUME NEW S, NEW s \in Seq(S)
  PROVE  /\ Len(s) \in Nat /\ DOMAIN s = 1 .. Len(s)
         /\ \A i \in 1 .. Len(s) : s[i] \in S
         /\ (s = <<>>) <=> (Len(s) = 0)
  BY LenProperties, ElementOfSeq, EmptySeq

LEMMA NotEmpty ==
  ASSUME NEW s \in Seq(Action), NEW x, Contains(s, x)
  PROVE  s # <<>>
  <1>1. (s = <<>>) <=> (Len(s) = 0)
    BY Elements
  <1> QED BY <1>1 DEF Contains

\* What Append does.
LEMMA Appends ==
  ASSUME NEW s \in Seq(Action), NEW x \in Action
  PROVE  /\ Append(s, x) \in Seq(Action)
         /\ Append(s, x) # <<>>
         /\ \A y : Contains(Append(s, x), y) <=> Contains(s, y) \/ y = x
         /\ Rising(s) /\ x.does # "user" => Rising(Append(s, x))
         /\ Rising(s) /\ (\A i \in 1 .. Len(s) : s[i].does = "user" => s[i].which < x.which)
              => Rising(Append(s, x))
  <1> DEFINE r == Append(s, x)
  <1>1. /\ r \in Seq(Action) /\ Len(r) = Len(s) + 1 /\ Len(s) \in Nat
        /\ \A i \in 1 .. Len(s) : r[i] = s[i]
        /\ r[Len(s) + 1] = x
    BY AppendProperties, LenProperties
  <1> HIDE DEF r
  <1>2. r # <<>>
    BY <1>1, EmptySeq
  <1>3. ASSUME NEW y
        PROVE  Contains(r, y) <=> Contains(s, y) \/ y = x
    <2>1. ASSUME Contains(r, y), y # x PROVE Contains(s, y)
      BY <1>1, <2>1 DEF Contains
    <2>2. ASSUME Contains(s, y) \/ y = x PROVE Contains(r, y)
      BY <1>1, <2>2 DEF Contains
    <2> QED BY <2>1, <2>2
  <1>4. ASSUME Rising(s), x.does # "user"
        PROVE  Rising(r)
    BY <1>1, <1>4 DEF Rising
  <1>5. ASSUME Rising(s), \A i \in 1 .. Len(s) : s[i].does = "user" => s[i].which < x.which
        PROVE  Rising(r)
    <2> SUFFICES ASSUME NEW i \in 1 .. Len(s) + 1, NEW j \in 1 .. Len(s) + 1,
                        r[i].does = "user", r[j].does = "user", i < j
                 PROVE  r[i].which < r[j].which
      BY <1>1 DEF Rising
    <2>1. i \in 1 .. Len(s) /\ r[i] = s[i]
      BY <1>1
    <2>2. CASE j \in 1 .. Len(s)
      BY <1>1, <1>5, <2>1, <2>2 DEF Rising
    <2>3. CASE j = Len(s) + 1
      BY <1>1, <1>5, <2>1, <2>3
    <2> QED BY <1>1, <2>2, <2>3
  <1> QED BY <1>1, <1>2, <1>3, <1>4, <1>5 DEF r

\* What RemoveAt does.
LEMMA Removes ==
  ASSUME NEW s \in Seq(Action), NEW n \in 1 .. Len(s)
  PROVE  /\ RemoveAt(s, n) \in Seq(Action)
         /\ \A y : Contains(RemoveAt(s, n), y) => Contains(s, y)
         /\ \A y : Contains(s, y) /\ y # s[n] => Contains(RemoveAt(s, n), y)
         /\ Rising(s) => Rising(RemoveAt(s, n))
  <1>0. Len(s) \in Nat
    BY LenProperties
  <1>1. /\ SubSeq(s, 1, n - 1) \in Seq(Action) /\ Len(SubSeq(s, 1, n - 1)) = n - 1
        /\ \A i \in 1 .. n - 1 : SubSeq(s, 1, n - 1)[i] = s[i]
    BY <1>0, SubSeqProperties
  <1>2. /\ SubSeq(s, n + 1, Len(s)) \in Seq(Action)
        /\ Len(SubSeq(s, n + 1, Len(s))) = Len(s) - n
        /\ \A i \in 1 .. Len(s) - n : SubSeq(s, n + 1, Len(s))[i] = s[n + i]
    BY <1>0, SubSeqProperties
  <1> DEFINE r == RemoveAt(s, n)
  <1>3. /\ r \in Seq(Action) /\ Len(r) = Len(s) - 1
        /\ \A i \in 1 .. n - 1 : r[i] = s[i]
        /\ \A i \in n .. Len(s) - 1 : r[i] = s[i + 1]
    <2> DEFINE u == SubSeq(s, 1, n - 1)
               v == SubSeq(s, n + 1, Len(s))
    <2>1. r = u \o v
      BY DEF RemoveAt
    <2> HIDE DEF u, v, r
    <2>2. /\ u \in Seq(Action) /\ Len(u) = n - 1 /\ \A i \in 1 .. n - 1 : u[i] = s[i]
          /\ v \in Seq(Action) /\ Len(v) = Len(s) - n
          /\ \A i \in 1 .. Len(s) - n : v[i] = s[n + i]
      BY <1>1, <1>2 DEF u, v
    <2>3. /\ r \in Seq(Action) /\ Len(r) = Len(u) + Len(v)
          /\ \A i \in 1 .. Len(u) + Len(v) :
               r[i] = IF i <= Len(u) THEN u[i] ELSE v[i - Len(u)]
      BY <2>1, <2>2, ConcatProperties
    <2>4. ASSUME NEW i \in n .. Len(s) - 1 PROVE r[i] = s[i + 1]
      <3>1. i \in 1 .. Len(u) + Len(v) /\ ~(i <= Len(u)) /\ i - Len(u) \in 1 .. Len(s) - n
        BY <1>0, <2>2
      <3>2. r[i] = v[i - Len(u)] /\ v[i - Len(u)] = s[n + (i - Len(u))]
        BY <2>2, <2>3, <3>1
      <3>3. n + (i - Len(u)) = i + 1
        BY <1>0, <2>2
      <3> QED BY <3>2, <3>3
    <2>5. ASSUME NEW i \in 1 .. n - 1 PROVE r[i] = s[i]
      <3>1. i \in 1 .. Len(u) + Len(v) /\ i <= Len(u)
        BY <1>0, <2>2
      <3> QED BY <2>2, <2>3, <3>1
    <2> QED BY <1>0, <2>2, <2>3, <2>4, <2>5
  <1> HIDE DEF r
  <1>4. ASSUME NEW y, Contains(r, y) PROVE Contains(s, y)
    BY <1>0, <1>3, <1>4 DEF Contains
  <1>5. ASSUME NEW y, Contains(s, y), y # s[n] PROVE Contains(r, y)
    <2>1. PICK i \in 1 .. Len(s) : s[i] = y /\ i # n
      BY <1>5 DEF Contains
    <2>2. CASE i < n
      <3>1. i \in 1 .. Len(s) - 1 /\ r[i] = s[i]
        BY <1>0, <1>3, <2>2
      <3> QED BY <1>3, <2>1, <3>1 DEF Contains
    <2>3. CASE i > n
      <3>1. i - 1 \in n .. Len(s) - 1 /\ i - 1 \in 1 .. Len(s) - 1 /\ (i - 1) + 1 = i
        BY <1>0, <2>3
      <3>2. r[i - 1] = s[i]
        BY <1>3, <3>1
      <3> QED BY <1>3, <2>1, <3>1, <3>2 DEF Contains
    <2> QED BY <1>0, <2>1, <2>2, <2>3
  <1>6. ASSUME Rising(s) PROVE Rising(r)
    <2> SUFFICES ASSUME NEW i \in 1 .. Len(s) - 1, NEW j \in 1 .. Len(s) - 1,
                        r[i].does = "user", r[j].does = "user", i < j
                 PROVE  r[i].which < r[j].which
      BY <1>3 DEF Rising
    <2>1. PICK p \in 1 .. Len(s), q \in 1 .. Len(s) : r[i] = s[p] /\ r[j] = s[q] /\ p < q
      <3>1. CASE j < n
        BY <1>0, <1>3, <3>1
      <3>2. CASE i < n /\ ~(j < n)
        <4>1. i \in 1 .. n - 1 /\ i \in 1 .. Len(s) /\ j \in n .. Len(s) - 1
          BY <1>0, <3>2
        <4>2. j + 1 \in 1 .. Len(s) /\ i < j + 1
          BY <1>0, <3>2
        <4>3. r[i] = s[i] /\ r[j] = s[j + 1]
          BY <1>3, <4>1
        <4> QED BY <4>1, <4>2, <4>3
      <3>3. CASE ~(i < n)
        BY <1>0, <1>3, <3>3
      <3> QED BY <1>0, <3>1, <3>2, <3>3
    <2> QED BY <1>6, <2>1 DEF Rising
  <1> QED BY <1>3, <1>4, <1>5, <1>6 DEF r

\* What Tail and Reverse do.
LEMMA Tails ==
  ASSUME NEW s \in Seq(Action), s # <<>>
  PROVE  /\ Tail(s) \in Seq(Action) /\ Head(s) \in Action /\ Contains(s, Head(s))
         /\ \A y : Contains(Tail(s), y) => Contains(s, y)
         /\ \A y : Contains(s, y) => y = Head(s) \/ Contains(Tail(s), y)
         /\ Falling(s) => Falling(Tail(s))
         /\ Falling(s) => \A y : Contains(Tail(s), y) /\ y.does = "user" /\ Head(s).does = "user"
                                   => Head(s).which > y.which
  <1> DEFINE r == Tail(s)
  <1>1. /\ Len(s) \in Nat /\ Len(s) # 0 /\ Head(s) = s[1] /\ Head(s) \in Action
        /\ r \in Seq(Action) /\ Len(r) = Len(s) - 1
        /\ \A i \in 1 .. Len(s) - 1 : r[i] = s[i + 1]
    BY HeadTailProperties, LenProperties, EmptySeq
  <1> HIDE DEF r
  <1>2. Contains(s, Head(s))
    BY <1>1 DEF Contains
  <1>3. ASSUME NEW y, Contains(r, y) PROVE \E j \in 2 .. Len(s) : s[j] = y
    <2>1. PICK i \in 1 .. Len(s) - 1 : s[i + 1] = y
      BY <1>1, <1>3 DEF Contains
    <2>2. i + 1 \in 2 .. Len(s)
      BY <1>1
    <2> QED BY <2>1, <2>2
  <1>4. ASSUME NEW y, Contains(r, y) PROVE Contains(s, y)
    BY <1>1, <1>3, <1>4 DEF Contains
  <1>5. ASSUME NEW y, Contains(s, y), y # Head(s) PROVE Contains(r, y)
    <2>1. PICK i \in 1 .. Len(s) : s[i] = y
      BY <1>5 DEF Contains
    <2>2. i - 1 \in 1 .. Len(s) - 1 /\ r[i - 1] = s[i]
      BY <1>1, <1>5, <2>1
    <2> QED BY <1>1, <2>1, <2>2 DEF Contains
  <1>6. ASSUME Falling(s) PROVE Falling(r)
    <2> SUFFICES ASSUME NEW i \in 1 .. Len(s) - 1, NEW j \in 1 .. Len(s) - 1,
                        r[i].does = "user", r[j].does = "user", i < j
                 PROVE  r[i].which > r[j].which
      BY <1>1 DEF Falling
    <2>1. i + 1 \in 1 .. Len(s) /\ j + 1 \in 1 .. Len(s) /\ i + 1 < j + 1
      BY <1>1
    <2>2. r[i] = s[i + 1] /\ r[j] = s[j + 1]
      BY <1>1
    <2> QED BY <1>6, <2>1, <2>2 DEF Falling
  <1>7. ASSUME Falling(s), NEW y, Contains(r, y), y.does = "user", Head(s).does = "user"
        PROVE  Head(s).which > y.which
    <2>1. PICK j \in 2 .. Len(s) : s[j] = y
      BY <1>3, <1>7
    <2>2. 1 \in 1 .. Len(s) /\ j \in 1 .. Len(s) /\ 1 < j
      BY <1>1
    <2> QED BY <1>1, <1>7, <2>1, <2>2 DEF Falling
  <1> QED BY <1>1, <1>2, <1>4, <1>5, <1>6, <1>7 DEF r

LEMMA Reversed ==
  ASSUME NEW s \in Seq(Action)
  PROVE  /\ RunOrder(s) \in Seq(Action)
         /\ (RunOrder(s) = <<>>) <=> (s = <<>>)
         /\ \A y : Contains(RunOrder(s), y) <=> Contains(s, y)
         /\ Rising(s) => Falling(RunOrder(s))
  <1> DEFINE r == RunOrder(s)
             n == Len(s)
  <1>1. /\ n \in Nat /\ r = [i \in 1 .. n |-> s[(n - i) + 1]]
        /\ \A i \in 1 .. n : s[i] \in Action
    BY Elements DEF RunOrder, Reverse
  <1>2. \A i \in 1 .. n : (n - i) + 1 \in 1 .. n
    BY <1>1
  <1> HIDE DEF n, r
  <1>3. r \in Seq(Action)
    <2>1. r \in [1 .. n -> Action]
      BY <1>1, <1>2
    <2> QED BY <1>1, <2>1, SeqDef
  <1>4. Len(r) = n /\ \A i \in 1 .. n : r[i] = s[(n - i) + 1]
    BY <1>1, <1>3, LenProperties
  <1>5. (r = <<>>) <=> (s = <<>>)
    BY <1>1, <1>3, <1>4, Elements DEF n
  <1>6. ASSUME NEW y, Contains(r, y) PROVE Contains(s, y)
    BY <1>2, <1>4, <1>6 DEF Contains, n
  <1>7. ASSUME NEW y, Contains(s, y) PROVE Contains(r, y)
    <2>1. PICK i \in 1 .. n : s[i] = y
      BY <1>7 DEF Contains, n
    <2>2. (n - i) + 1 \in 1 .. n /\ (n - ((n - i) + 1)) + 1 = i
      BY <1>1
    <2>3. r[(n - i) + 1] = s[i]
      BY <1>4, <2>2
    <2> QED BY <1>4, <2>1, <2>2, <2>3 DEF Contains
  <1>8. ASSUME Rising(s) PROVE Falling(r)
    <2> SUFFICES ASSUME NEW i \in 1 .. n, NEW j \in 1 .. n,
                        r[i].does = "user", r[j].does = "user", i < j
                 PROVE  r[i].which > r[j].which
      BY <1>4 DEF Falling
    <2> DEFINE p == (n - j) + 1
               q == (n - i) + 1
    <2>1. p \in 1 .. n /\ q \in 1 .. n /\ p < q /\ r[i] = s[q] /\ r[j] = s[p]
      BY <1>1, <1>4
    <2> HIDE DEF p, q
    <2>2. s[p] \in Action /\ s[q] \in Action
      BY <1>1, <2>1
    <2>3. s[p].which < s[q].which
      BY <1>8, <2>1 DEF Rising, n
    <2> QED BY <2>1, <2>2, <2>3 DEF Action
  <1> QED BY <1>3, <1>5, <1>6, <1>7, <1>8 DEF r
-----------------------------------------------------------------------------
(* What a step does to a stack: the frames above place m of thread t are    *)
(* exchanged for those in S, all other frames remain where they are.       *)

Place(t, k) == t \in Threads /\ k \in 1 .. Len(stack[t])
Moved(t, m, S) ==
  /\ t \in Threads /\ m \in Nat
  /\ stack' \in [Threads -> Seq(Frame)]
  /\ \A u \in Threads, k \in Nat :
       Place(u, k) /\ (u # t \/ k <= m) => Place(u, k)' /\ stack'[u][k] = stack[u][k]
  /\ \A u \in Threads, k \in Nat :
       Place(u, k)' => \/ Place(u, k) /\ (u # t \/ k <= m)
                       \/ u = t /\ k > m /\ stack'[u][k] \in S
  /\ \A f \in S : \E k \in Nat : Place(t, k)' /\ k > m /\ stack'[t][k] = f
  /\ \A k \in Nat : Place(t, k)' /\ k > m /\ stack'[t][k].op = "run" => k = m + 1
  /\ \A j, k \in Nat : Place(t, j)' /\ Place(t, k)' /\ j > m /\ k > m
                         /\ stack'[t][j] = stack'[t][k] => j = k

\* The frames of each thread, which are records of a few kinds.
LEMMA Places ==
  ASSUME TypeOK, NEW t \in Threads
  PROVE  /\ stack[t] \in Seq(Frame) /\ Len(stack[t]) \in Nat
         /\ (stack[t] = <<>>) <=> (Len(stack[t]) = 0)
         /\ \A k \in 1 .. Len(stack[t]) : stack[t][k] \in Frame
  BY Elements DEF TypeOK

LEMMA Frames ==
  /\ \A f \in Frame : f.op = "run" => f.rest \in Seq(Action)
  /\ \A l \in 0 .. MaxLifetimes : \A o \in {"take", "close", "attach", "current"} :
       [op |-> o, lifetime |-> l] \in Frame
  /\ \A s \in Seq(Action) : [op |-> "run", rest |-> s] \in Frame
  /\ \A l, p \in 0 .. MaxLifetimes :
       [op |-> "replace", lifetime |-> l, previous |-> p] \in Frame
  /\ \A f \in Frame : f.op = "take" => f = [op |-> "take", lifetime |-> f.lifetime]
  <1>1. ASSUME NEW f \in Frame, f.op = "run" PROVE f.rest \in Seq(Action)
    BY <1>1 DEF Frame, LifetimeFrame, RunFrame, ReplaceFrame
  <1>5. ASSUME NEW f \in Frame, f.op = "take"
        PROVE  f = [op |-> "take", lifetime |-> f.lifetime]
    BY <1>5 DEF Frame, LifetimeFrame, RunFrame, ReplaceFrame
  <1>2. \A l \in 0 .. MaxLifetimes : \A o \in {"take", "close", "attach", "current"} :
          [op |-> o, lifetime |-> l] \in Frame
    BY DEF Frame, LifetimeFrame
  <1>3. \A s \in Seq(Action) : [op |-> "run", rest |-> s] \in Frame
    BY DEF Frame, RunFrame
  <1>4. \A l, p \in 0 .. MaxLifetimes :
          [op |-> "replace", lifetime |-> l, previous |-> p] \in Frame
    BY DEF Frame, ReplaceFrame
  <1> QED BY <1>1, <1>2, <1>3, <1>4, <1>5

\* What is put on a stack: at most one run, below the others, no frame twice.
Fresh(fs) ==
  /\ \A j \in 1 .. Len(fs) : fs[j].op = "run" => j = 1
  /\ \A i, j \in 1 .. Len(fs) : fs[i] = fs[j] => i = j
FramesOf(fs) == {fs[j] : j \in 1 .. Len(fs)}
UpTo(base, s, m) == Len(base) = m /\ \A k \in 1 .. m : base[k] = s[k]

LEMMA Joined ==
  ASSUME NEW base \in Seq(Frame), NEW fs \in Seq(Frame), NEW m \in Nat, Len(base) = m
  PROVE  /\ base \o fs \in Seq(Frame) /\ Len(base \o fs) = m + Len(fs)
         /\ \A i \in 1 .. m + Len(fs) :
              (base \o fs)[i] = IF i <= m THEN base[i] ELSE fs[i - m]
  <1>1. /\ base \o fs \in Seq(Frame) /\ Len(base \o fs) = Len(base) + Len(fs)
        /\ \A i \in 1 .. Len(base) + Len(fs) :
             (base \o fs)[i] = IF i <= Len(base) THEN base[i] ELSE fs[i - Len(base)]
    BY ConcatProperties
  <1> QED BY <1>1, Zenon

\* New frames on top of those up to place m.
LEMMA Exchange ==
  ASSUME TypeOK, NEW t \in Threads, NEW m \in 0 .. Len(stack[t]),
         NEW base \in Seq(Frame), UpTo(base, stack[t], m),
         NEW fs \in Seq(Frame), Fresh(fs),
         stack' = [stack EXCEPT ![t] = base \o fs]
  PROVE  /\ Moved(t, m, FramesOf(fs))
         /\ stack'[t] = base \o fs /\ Len(stack'[t]) = m + Len(fs)
  <1> DEFINE r == base \o fs
  <1>0. /\ Len(base) = m /\ \A k \in 1 .. m : base[k] = stack[t][k]
        /\ \A j \in 1 .. Len(fs) : fs[j].op = "run" => j = 1
        /\ \A i, j \in 1 .. Len(fs) : fs[i] = fs[j] => i = j
    BY DEF UpTo, Fresh
  <1>1. Len(stack[t]) \in Nat /\ Len(fs) \in Nat /\ m \in Nat
    BY Places, Elements
  <1>2. /\ r \in Seq(Frame) /\ Len(r) = m + Len(fs)
        /\ \A i \in 1 .. m + Len(fs) : r[i] = IF i <= m THEN base[i] ELSE fs[i - m]
    BY <1>0, <1>1, Joined
  <1> HIDE DEF r
  <1>3. stack' = [stack EXCEPT ![t] = r]
    BY DEF r
  <1>4. stack'[t] = r /\ \A u \in Threads \ {t} : stack'[u] = stack[u]
    BY <1>3 DEF TypeOK
  <1>5. stack' \in [Threads -> Seq(Frame)]
    BY <1>2, <1>3 DEF TypeOK
  <1>6. \A i \in 1 .. m : r[i] = stack[t][i]
    BY <1>0, <1>1, <1>2
  <1>7. \A j \in 1 .. Len(fs) : j + m \in 1 .. Len(r) /\ r[j + m] = fs[j]
    <2> TAKE j \in 1 .. Len(fs)
    <2>1. j + m \in 1 .. m + Len(fs) /\ ~(j + m <= m) /\ (j + m) - m = j
      BY <1>1
    <2> QED BY <1>2, <2>1
  <1>8. \A k \in 1 .. Len(r) : k > m => k - m \in 1 .. Len(fs) /\ r[k] = fs[k - m]
    BY <1>1, <1>2
  <1>a. \A u \in Threads, k \in Nat :
          Place(u, k) /\ (u # t \/ k <= m) => Place(u, k)' /\ stack'[u][k] = stack[u][k]
    BY <1>1, <1>2, <1>4, <1>6 DEF Place
  <1>b. ASSUME NEW u \in Threads, NEW k \in Nat, Place(u, k)'
        PROVE  \/ Place(u, k) /\ (u # t \/ k <= m)
               \/ u = t /\ k > m /\ stack'[u][k] \in FramesOf(fs)
    <2>1. CASE u # t
      BY <1>4, <1>b, <2>1 DEF Place
    <2>2. CASE u = t /\ k <= m
      BY <1>1, <1>2, <1>4, <1>b, <2>2 DEF Place
    <2>3. CASE u = t /\ k > m
      <3>1. k \in 1 .. Len(r)
        BY <1>4, <1>b, <2>3 DEF Place
      <3> QED BY <1>4, <1>8, <2>3, <3>1 DEF FramesOf
    <2>4. k <= m \/ k > m
      BY <1>1
    <2> QED BY <2>1, <2>2, <2>3, <2>4, Zenon
  <1>c. ASSUME NEW f \in FramesOf(fs)
        PROVE  \E k \in Nat : Place(t, k)' /\ k > m /\ stack'[t][k] = f
    <2>1. PICK j \in 1 .. Len(fs) : f = fs[j]
      BY <1>c DEF FramesOf
    <2>2. j + m \in 1 .. Len(r) /\ r[j + m] = f /\ j + m > m /\ j + m \in Nat
      BY <1>1, <1>7, <2>1
    <2> QED BY <1>4, <2>2 DEF Place
  <1>d. ASSUME NEW k \in Nat, Place(t, k)', k > m, stack'[t][k].op = "run"
        PROVE  k = m + 1
    <2>1. k - m \in 1 .. Len(fs) /\ stack'[t][k] = fs[k - m]
      BY <1>4, <1>8, <1>d DEF Place
    <2>2. k - m = 1
      BY <1>0, <1>d, <2>1
    <2> QED BY <1>1, <2>2
  <1>e. ASSUME NEW j \in Nat, NEW k \in Nat, Place(t, j)', Place(t, k)', j > m, k > m,
               stack'[t][j] = stack'[t][k]
        PROVE  j = k
    <2>1. /\ j - m \in 1 .. Len(fs) /\ stack'[t][j] = fs[j - m]
          /\ k - m \in 1 .. Len(fs) /\ stack'[t][k] = fs[k - m]
      BY <1>4, <1>8, <1>e DEF Place
    <2>2. j - m = k - m
      BY <1>0, <1>e, <2>1
    <2> QED BY <1>1, <2>2
  <1>f. Moved(t, m, FramesOf(fs))
    BY <1>1, <1>5, <1>a, <1>b, <1>c, <1>d, <1>e DEF Moved
  <1> QED BY <1>2, <1>4, <1>f DEF r

LEMMA TwoFrames ==
  ASSUME NEW f \in Frame, NEW g \in Frame
  PROVE  <<f>> \o <<g>> = <<f, g>> /\ Append(<<f>>, g) = <<f, g>> /\ Append(<<>>, f) = <<f>>
  <1> DEFINE s == <<f>>
             t == <<g>>
             u == <<f, g>>
             v == <<f>> \o <<g>>
  <1>1. /\ s \in Seq(Frame) /\ Len(s) = 1 /\ s[1] = f
        /\ t \in Seq(Frame) /\ Len(t) = 1 /\ t[1] = g
        /\ u \in Seq(Frame) /\ Len(u) = 2 /\ u[1] = f /\ u[2] = g
    OBVIOUS
  <1>2. v = s \o t
    OBVIOUS
  <1>a. Append(s, g) = s \o <<g>>
    BY <1>1, AppendIsConcat
  <1>b. Append(<<>>, f) = <<f>>
    OBVIOUS
  <1> HIDE DEF s, t, u, v
  <1>3. /\ v \in Seq(Frame) /\ Len(v) = 2
        /\ \A i \in 1 .. 2 : v[i] = IF i <= 1 THEN s[i] ELSE t[i - 1]
    <2>0. PICK m \in Nat : m = 1 /\ Len(s) = m
      BY <1>1
    <2>1. /\ s \o t \in Seq(Frame) /\ Len(s \o t) = m + Len(t)
          /\ \A i \in 1 .. m + Len(t) : (s \o t)[i] = IF i <= m THEN s[i] ELSE t[i - m]
      BY <1>1, <2>0, Joined
    <2>2. m + Len(t) = 2
      BY <1>1, <2>0
    <2>3. /\ v \in Seq(Frame) /\ Len(v) = 2
          /\ \A i \in 1 .. 2 : v[i] = IF i <= m THEN s[i] ELSE t[i - m]
      BY <1>2, <2>1, <2>2, Zenon
    <2> QED BY <2>0, <2>3
  <1>4. v[1] = u[1] /\ v[2] = u[2]
    BY <1>1, <1>3
  <1>5. \A i \in 1 .. 2 : v[i] = u[i]
    BY <1>4
  <1>6. v = u
    BY <1>1, <1>3, <1>5, SeqEqual
  <1> QED BY <1>6, <1>a, <1>b DEF u, v, s

\* The sequences of at most two frames that the actions put there.
LEMMA FewFrames ==
  ASSUME NEW f \in Frame, NEW g \in Frame
  PROVE  /\ <<>> \in Seq(Frame) /\ Fresh(<<>>) /\ FramesOf(<<>>) = {} /\ Len(<<>>) = 0
         /\ <<f>> \in Seq(Frame) /\ Fresh(<<f>>) /\ FramesOf(<<f>>) = {f} /\ Len(<<f>>) = 1
         /\ <<f, g>> \in Seq(Frame) /\ Len(<<f, g>>) = 2
         /\ g.op # "run" /\ f # g => Fresh(<<f, g>>) /\ FramesOf(<<f, g>>) = {f, g}
  <1>1. <<>> \in Seq(Frame) /\ Fresh(<<>>) /\ FramesOf(<<>>) = {} /\ Len(<<>>) = 0
    BY DEF Fresh, FramesOf
  <1>2. <<f>> \in Seq(Frame) /\ Fresh(<<f>>) /\ FramesOf(<<f>>) = {f} /\ Len(<<f>>) = 1
    BY DEF Fresh, FramesOf
  <1>3. <<f, g>> \in Seq(Frame) /\ Len(<<f, g>>) = 2 /\ <<f, g>>[1] = f /\ <<f, g>>[2] = g
    OBVIOUS
  <1>4. ASSUME g.op # "run", f # g PROVE Fresh(<<f, g>>) /\ FramesOf(<<f, g>>) = {f, g}
    <2>1. 1 .. 2 = {1, 2}
      OBVIOUS
    <2> QED BY <1>3, <1>4, <2>1 DEF Fresh, FramesOf
  <1> QED BY <1>1, <1>2, <1>3, <1>4

\* Becomes exchanges the frame a thread is in, the others write a stack that
\* was empty.
LEMMA BecomesExchanges ==
  ASSUME TypeOK, NEW t \in Threads, ~Free(t), NEW fs \in Seq(Frame), Becomes(t, fs), Fresh(fs)
  PROVE  /\ Len(stack[t]) - 1 \in Nat
         /\ Moved(t, Len(stack[t]) - 1, FramesOf(fs))
         /\ Len(stack'[t]) = Len(stack[t]) - 1 + Len(fs)
         /\ Top(t) = stack[t][Len(stack[t])] /\ Top(t) \in Frame
  <1> DEFINE m == Len(stack[t]) - 1
             base == Front(stack[t])
  <1>1. /\ stack[t] \in Seq(Frame) /\ Len(stack[t]) \in Nat /\ Len(stack[t]) # 0
        /\ \A k \in 1 .. Len(stack[t]) : stack[t][k] \in Frame
    BY Places DEF Free
  <1>2. base \in Seq(Frame) /\ UpTo(base, stack[t], m)
    BY <1>1, SubSeqProperties DEF Front, UpTo
  <1>3. m \in 0 .. Len(stack[t]) /\ m \in Nat
    BY <1>1
  <1>4. stack' = [stack EXCEPT ![t] = base \o fs]
    BY DEF Becomes
  <1>5. Top(t) = stack[t][Len(stack[t])] /\ Top(t) \in Frame
    BY <1>1 DEF Top, Last
  <1> HIDE DEF m, base
  <1>6. Moved(t, m, FramesOf(fs)) /\ Len(stack'[t]) = m + Len(fs)
    BY <1>2, <1>3, <1>4, Exchange
  <1> QED BY <1>3, <1>5, <1>6 DEF m

LEMMA WritesExchanges ==
  ASSUME TypeOK, NEW t \in Threads, NEW fs \in Seq(Frame), stack' = [stack EXCEPT ![t] = fs],
         Fresh(fs)
  PROVE  Moved(t, 0, FramesOf(fs)) /\ stack'[t] = fs
  <1>1. PICK base \in Seq(Frame) : Len(base) = 0 /\ base \o fs = fs
    <2>1. <<>> \in Seq(Frame) /\ Len(<<>>) = 0 /\ <<>> \o fs = fs
      OBVIOUS
    <2> QED BY <2>1, Zenon
  <1>2. 0 \in 0 .. Len(stack[t])
    BY Places
  <1>3. UpTo(base, stack[t], 0)
    BY <1>1 DEF UpTo
  <1>4. stack' = [stack EXCEPT ![t] = base \o fs]
    BY <1>1
  <1>5. Moved(t, 0, FramesOf(fs)) /\ stack'[t] = base \o fs
    BY <1>2, <1>3, <1>4, Exchange
  <1> QED BY <1>1, <1>5

\* The frames of thread t above place m were of the kinds in O.
Leaves(t, m, O) == \A k \in Nat : Place(t, k) /\ k > m => stack[t][k].op \in O
Stacks(t, m, S, O) == Moved(t, m, S) /\ Leaves(t, m, O)

LEMMA FreeStacks ==
  ASSUME TypeOK, NEW t \in Threads, Free(t), NEW fs \in Seq(Frame),
         stack' = [stack EXCEPT ![t] = fs], Fresh(fs)
  PROVE  Stacks(t, 0, FramesOf(fs), {}) /\ stack'[t] = fs
  <1>1. Leaves(t, 0, {})
    BY Places DEF Leaves, Place, Free
  <1> QED BY <1>1, WritesExchanges DEF Stacks

LEMMA BecomesStacks ==
  ASSUME TypeOK, NEW t \in Threads, NEW o, Doing(t, o),
         NEW fs \in Seq(Frame), Becomes(t, fs), Fresh(fs)
  PROVE  LET n == Len(stack[t])
         IN  /\ n - 1 \in Nat /\ Place(t, n)
             /\ stack[t][n] = Top(t) /\ stack[t][n].op = o /\ Top(t) \in Frame
             /\ Stacks(t, n - 1, FramesOf(fs), {o})
             /\ Len(stack'[t]) = n - 1 + Len(fs)
  <1> DEFINE n == Len(stack[t])
  <1>1. ~Free(t) /\ Top(t).op = o
    BY DEF Doing
  <1>2. /\ n - 1 \in Nat /\ Moved(t, n - 1, FramesOf(fs)) /\ Len(stack'[t]) = n - 1 + Len(fs)
        /\ Top(t) = stack[t][n] /\ Top(t) \in Frame
    BY <1>1, BecomesExchanges
  <1>3. n \in Nat
    BY Places
  <1>4. Place(t, n)
    BY <1>2, <1>3 DEF Place
  <1> HIDE DEF n
  <1>5. \A k \in Nat : Place(t, k) /\ k > n - 1 => k = n
    BY <1>2, <1>3 DEF Place, n
  <1>6. Leaves(t, n - 1, {o})
    BY <1>1, <1>2, <1>5 DEF Leaves
  <1> QED BY <1>1, <1>2, <1>4, <1>6 DEF Stacks, n

LEMMA StillStacks ==
  ASSUME TypeOK, NEW t \in Threads, UNCHANGED stack
  PROVE  Stacks(t, Len(stack[t]), {}, {})
  <1>1. Len(stack[t]) \in Nat
    BY Places
  <1>2. \A u \in Threads, k \in Nat : Place(u, k)' <=> Place(u, k)
    BY DEF Place
  <1>3. \A k \in Nat : Place(t, k) => ~(k > Len(stack[t]))
    BY <1>1 DEF Place
  <1>4. stack' \in [Threads -> Seq(Frame)]
    BY DEF TypeOK
  <1>5. Moved(t, Len(stack[t]), {})
    BY <1>1, <1>2, <1>3, <1>4 DEF Moved
  <1>6. Leaves(t, Len(stack[t]), {})
    BY <1>3 DEF Leaves
  <1> QED BY <1>5, <1>6 DEF Stacks

\* The frame of what is still to be run.
RunSet(rest) == IF rest = <<>> THEN {} ELSE {[op |-> "run", rest |-> rest]}

LEMMA RunFrames ==
  ASSUME NEW r \in Seq(Action)
  PROVE  /\ Run(r) \in Seq(Frame) /\ Fresh(Run(r)) /\ FramesOf(Run(r)) = RunSet(r)
         /\ \A g \in Frame : g.op # "run" =>
              /\ Run(r) \o <<g>> \in Seq(Frame) /\ Fresh(Run(r) \o <<g>>)
              /\ FramesOf(Run(r) \o <<g>>) = RunSet(r) \union {g}
  <1> DEFINE f == [op |-> "run", rest |-> r]
  <1>1. f \in Frame /\ f.op = "run"
    BY Frames
  <1>2. CASE r = <<>>
    <2>1. Run(r) = <<>> /\ RunSet(r) = {}
      BY <1>2 DEF Run, RunSet
    <2>2. ASSUME NEW g \in Frame, g.op # "run"
          PROVE  /\ Run(r) \o <<g>> \in Seq(Frame) /\ Fresh(Run(r) \o <<g>>)
                 /\ FramesOf(Run(r) \o <<g>>) = RunSet(r) \union {g}
      <3>1. Run(r) \o <<g>> = <<g>>
        BY <2>1
      <3>2. <<g>> \in Seq(Frame) /\ Fresh(<<g>>) /\ FramesOf(<<g>>) = {g}
        BY FewFrames
      <3>3. RunSet(r) \union {g} = {g}
        BY <2>1
      <3> QED BY <3>1, <3>2, <3>3, Zenon
    <2>3. <<>> \in Seq(Frame) /\ Fresh(<<>>) /\ FramesOf(<<>>) = {}
      BY <1>1, FewFrames
    <2> QED BY <2>1, <2>2, <2>3, Zenon
  <1>3. CASE r # <<>>
    <2>1. Run(r) = <<f>> /\ RunSet(r) = {f}
      BY <1>3 DEF Run, RunSet
    <2> HIDE DEF f
    <2>2. ASSUME NEW g \in Frame, g.op # "run"
          PROVE  /\ Run(r) \o <<g>> \in Seq(Frame) /\ Fresh(Run(r) \o <<g>>)
                 /\ FramesOf(Run(r) \o <<g>>) = RunSet(r) \union {g}
      <3>1. Run(r) \o <<g>> = <<f, g>>
        BY <1>1, <2>1, TwoFrames
      <3>0. f # g
        BY <1>1, <2>2
      <3>2. <<f, g>> \in Seq(Frame) /\ Fresh(<<f, g>>) /\ FramesOf(<<f, g>>) = {f, g}
        BY <1>1, <2>2, <3>0, FewFrames
      <3>3. RunSet(r) \union {g} = {f, g}
        BY <2>1
      <3> QED BY <3>1, <3>2, <3>3, Zenon
    <2>3. <<f>> \in Seq(Frame) /\ Fresh(<<f>>) /\ FramesOf(<<f>>) = {f}
      BY <1>1, FewFrames
    <2> QED BY <2>1, <2>2, <2>3, Zenon
  <1> QED BY <1>2, <1>3
-----------------------------------------------------------------------------
(* What each action does, in terms of the frames it exchanges.             *)

Rec(o, l) == [op |-> o, lifetime |-> l]
Pops(t, n, o, S) ==
  /\ n \in Nat /\ n - 1 \in Nat /\ n = Len(stack[t]) /\ Place(t, n) /\ stack[t][n].op = o
  /\ Stacks(t, n - 1, S, {o})

Terminates(t, l) ==
  /\ l \in 1 .. lifetimes /\ Stacks(t, 0, {Rec("take", l)}, {})
  /\ terminated' = [terminated EXCEPT ![l] = TRUE]
  /\ UNCHANGED <<lifetimes, actions, current, parent, sequential, owner, ran>>

Takeover(t, n, l) ==
  /\ l \in 1 .. lifetimes /\ stack[t][n] = Rec("take", l)
  /\ Pops(t, n, "take", RunSet(RunOrder(actions[l])))
  /\ actions' = [actions EXCEPT ![l] = <<>>]
  /\ UNCHANGED <<lifetimes, terminated, current, parent, sequential, owner, ran>>

RunsOne(t, n, s, kind, S) ==
  /\ s \in Seq(Action) /\ s # <<>> /\ stack[t][n].rest = s /\ Head(s).does = kind
  /\ Pops(t, n, "run", RunSet(Tail(s)) \union S)
  /\ UNCHANGED <<lifetimes, parent, sequential, owner>>
RunsUser(t, n, s) ==
  /\ RunsOne(t, n, s, "user", {})
  /\ ran' = Append(ran, Head(s).which)
  /\ UNCHANGED <<terminated, actions, current>>
RunsTerminate(t, n, s, l) ==
  /\ l \in 1 .. lifetimes /\ Head(s).which = l
  /\ RunsOne(t, n, s, "terminate", {Rec("take", l)})
  /\ terminated' = [terminated EXCEPT ![l] = TRUE]
  /\ UNCHANGED <<actions, current, ran>>
RunsErase(t, n, s, l) ==
  /\ l \in 2 .. lifetimes /\ Head(s).which = l /\ terminated[l]
  /\ RunsOne(t, n, s, "erase", {})
  /\ Erase(parent[l], TerminatesNested(l))
  /\ UNCHANGED <<terminated, current, ran>>
RunsEternal(t, n, s) ==
  /\ terminated[Root]
  /\ RunsOne(t, n, s, "eternal", {Rec("current", Eternal)})
  /\ UNCHANGED <<terminated, actions, current, ran>>

Accepting(t, m, l, O) ==
  /\ O \subseteq {"close"} /\ Stacks(t, m, {}, O)
  /\ l \in 1 .. lifetimes /\ ~terminated[l]
  /\ AcceptAction(l)
  /\ UNCHANGED <<lifetimes, terminated, current, parent, sequential, ran>>

Attaches(t, p, l, S) ==
  /\ p \in 1 .. lifetimes /\ ~terminated[p] /\ l = lifetimes + 1 /\ l \in Lifetimes
  /\ Free(t) /\ Stacks(t, 0, S \union {Rec("attach", l)}, {})
  /\ lifetimes' = l
  /\ parent' = [parent EXCEPT ![l] = p]
  /\ AddAction(p, TerminatesNested(l))
  /\ UNCHANGED <<terminated, current, owner, ran>>
AttachesNested(t, p, l) ==
  Attaches(t, p, l, {}) /\ stack'[t] = <<Rec("attach", l)>> /\ UNCHANGED sequential
AttachesNext(l) ==
  /\ Attaches(Viewer, Root, l, {Rec("current", l)})
  /\ stack'[Viewer] = <<Rec("current", l), Rec("attach", l)>>
  /\ sequential' = sequential \union {l}
Attached(t, n, l) ==
  /\ l \in 2 .. lifetimes /\ ~terminated[l]
  /\ Pops(t, n, "attach", {})
  /\ AddAction(l, ErasesFromParent(l))
  /\ UNCHANGED <<lifetimes, terminated, current, parent, sequential, owner, ran>>

Quiet(t, m, S, O) ==
  /\ Stacks(t, m, S, O)
  /\ UNCHANGED <<lifetimes, terminated, actions, current, parent, sequential, owner, ran>>
Opens(t, l) == l \in 1 .. lifetimes /\ Quiet(t, 0, {Rec("close", l)}, {})
Refuses(t, n) == Pops(t, n, "close", {}) /\ Quiet(t, n - 1, {}, {"close"})
NotAttached(t, n, l) ==
  /\ Place(t, n) /\ stack[t][n].op = "attach" /\ stack[t][n].lifetime = l /\ terminated[l]
  /\ stack'[t] = <<>>
  /\ Quiet(t, 0, {}, {"attach", "current"})
Empties == Free(Viewer) /\ Quiet(Viewer, 0, {Rec("current", Eternal)}, {})
Reads(t, n, l) ==
  /\ l \in {Eternal} \union sequential /\ stack[t][n].lifetime = l
  /\ Pops(t, n, "current", {[op |-> "replace", lifetime |-> l, previous |-> current]})
  /\ Quiet(t, n - 1, {[op |-> "replace", lifetime |-> l, previous |-> current]}, {"current"})
Replaces(t, n, l, p) ==
  /\ l \in {Eternal} \union sequential /\ p \in {Eternal} \union sequential
  /\ stack[t][n].lifetime = l /\ stack[t][n].previous = p
  /\ Pops(t, n, "replace", IF p = Eternal THEN {} ELSE {Rec("take", p)})
  /\ current' = l
  /\ terminated' = IF p = Eternal THEN terminated ELSE [terminated EXCEPT ![p] = TRUE]
  /\ UNCHANGED <<lifetimes, actions, parent, sequential, owner, ran>>

\* The lifetimes there are can be terminated and are not the eternal one.
LEMMA Numbers ==
  ASSUME TypeOK
  PROVE  /\ lifetimes \in Nat /\ 1 .. lifetimes \subseteq Lifetimes
         /\ 1 .. lifetimes \subseteq 0 .. MaxLifetimes
         /\ Root \in 1 .. lifetimes /\ Eternal \notin 1 .. lifetimes
         /\ {Eternal} \union sequential \subseteq 0 .. MaxLifetimes
         /\ sequential \subseteq 2 .. lifetimes /\ sequential \subseteq 1 .. lifetimes
  BY LifetimesAssumption DEF TypeOK, Lifetimes, Root, Eternal

LEMMA Recs ==
  \A l \in 0 .. MaxLifetimes : \A o \in {"take", "close", "attach", "current"} :
    Rec(o, l) \in Frame /\ Rec(o, l).op = o /\ Rec(o, l).lifetime = l /\ o # "run"
  BY Frames DEF Rec

LEMMA TerminateDoes ==
  ASSUME TypeOK, NEW t \in Threads, NEW l \in 1 .. lifetimes, Terminate(t, l)
  PROVE  Terminates(t, l)
  <1>1. l # Eternal /\ l \in 0 .. MaxLifetimes
    BY Numbers
  <1>2. PICK f \in Frame : f = Rec("take", l)
    BY <1>1, Frames DEF Rec
  <1>3. Free(t) /\ stack' = [stack EXCEPT ![t] = <<f>>]
    BY <1>1, <1>2 DEF Terminate, TerminateFrame, Rec
  <1>4. <<f>> \in Seq(Frame) /\ Fresh(<<f>>) /\ FramesOf(<<f>>) = {f}
    BY FewFrames
  <1>5. Stacks(t, 0, {f}, {})
    BY <1>3, <1>4, FreeStacks
  <1> QED BY <1>1, <1>2, <1>5 DEF Terminate, Terminates, Flag

\* A frame on the top is in its place, and what is known of it holds.
LEMMA TopSound ==
  ASSUME TypeOK, Framed, NEW t \in Threads, NEW n \in Nat, Place(t, n)
  PROVE  Sound(stack[t][n])
  BY DEF Framed, Place

LEMMA TakeDoes ==
  ASSUME TypeOK, Framed, NEW t \in Threads, TakeActions(t)
  PROVE  \E n \in Nat, l \in 1 .. lifetimes : Takeover(t, n, l)
  <1> DEFINE n == Len(stack[t])
             r == RunOrder(actions[Top(t).lifetime])
  <1>0. Doing(t, "take") /\ Becomes(t, Run(r))
    BY DEF TakeActions
  <1>1. n \in Nat /\ ~Free(t) /\ Top(t).op = "take"
    BY <1>0, Places DEF Doing
  <1>2. n # 0 /\ Top(t) = stack[t][n] /\ Place(t, n)
    BY <1>1, Places DEF Top, Last, Free, Place
  <1>3. Top(t).lifetime \in 1 .. lifetimes
    BY <1>1, <1>2, TopSound DEF Sound
  <1>4. r \in Seq(Action)
    BY <1>3, Numbers, Reversed DEF TypeOK
  <1>5. Run(r) \in Seq(Frame) /\ Fresh(Run(r)) /\ FramesOf(Run(r)) = RunSet(r)
    BY <1>4, RunFrames
  <1>6. n - 1 \in Nat /\ Stacks(t, n - 1, RunSet(r), {"take"})
    BY <1>0, <1>5, BecomesStacks
  <1>7. Top(t) = Rec("take", Top(t).lifetime)
    BY <1>1, <1>2, Places, Frames DEF Rec, Place
  <1>8. Takeover(t, n, Top(t).lifetime)
    BY <1>1, <1>2, <1>3, <1>6, <1>7 DEF Takeover, Pops, TakeActions
  <1> QED BY <1>1, <1>3, <1>8
LEMMA RunTop ==
  ASSUME TypeOK, Framed, NEW t \in Threads, Doing(t, "run")
  PROVE  LET n == Len(stack[t])
             s == Top(t).rest
         IN  /\ n \in Nat /\ n - 1 \in Nat /\ Place(t, n) /\ stack[t][n].op = "run"
             /\ stack[t][n] = Top(t) /\ s \in Seq(Action) /\ s # <<>>
             /\ Head(s) \in Action /\ Tail(s) \in Seq(Action)
             /\ \E l \in 1 .. lifetimes : terminated[l] /\ Of(l, Head(s))
  <1> DEFINE n == Len(stack[t])
             s == Top(t).rest
  <1>1. n \in Nat /\ ~Free(t) /\ Top(t).op = "run"
    BY Places DEF Doing
  <1>2. n # 0 /\ Top(t) = stack[t][n] /\ Place(t, n) /\ Top(t) \in Frame
    BY <1>1, Places DEF Top, Last, Free, Place
  <1>3. SoundRun(s)
    BY <1>1, <1>2, TopSound DEF Sound
  <1>4. s \in Seq(Action) /\ s # <<>>
    BY <1>1, <1>2, <1>3, Frames DEF SoundRun
  <1>5. Head(s) \in Action /\ Tail(s) \in Seq(Action) /\ Contains(s, Head(s))
    BY <1>4, Tails
  <1>6. \E l \in 1 .. lifetimes : terminated[l] /\ Of(l, Head(s))
    BY <1>3, <1>5 DEF SoundRun
  <1> QED BY <1>1, <1>2, <1>4, <1>5, <1>6

LEMMA RunDoes ==
  ASSUME TypeOK, Framed, NEW t \in Threads, RunAction(t)
  PROVE  \E n \in Nat, s \in Seq(Action) :
           \/ RunsUser(t, n, s)
           \/ \E l \in 1 .. lifetimes : RunsTerminate(t, n, s, l) \/ RunsErase(t, n, s, l)
           \/ RunsEternal(t, n, s)
  <1> DEFINE n == Len(stack[t])
             s == Top(t).rest
             x == Head(s)
             r == Run(Tail(s))
  <1>1. Doing(t, "run") /\ UNCHANGED <<lifetimes, parent, sequential, owner>>
    BY DEF RunAction
  <1>2. /\ n \in Nat /\ n - 1 \in Nat /\ n = Len(stack[t]) /\ Place(t, n)
        /\ stack[t][n].op = "run" /\ stack[t][n].rest = s /\ s \in Seq(Action) /\ s # <<>>
        /\ x \in Action /\ Tail(s) \in Seq(Action)
        /\ \E l \in 1 .. lifetimes : terminated[l] /\ Of(l, x)
    BY <1>1, RunTop
  <1>3. \/ x.does = "user" /\ ran' = Append(ran, x.which) /\ Becomes(t, r)
             /\ UNCHANGED <<terminated, actions, current>>
        \/ x.does = "terminate" /\ Flag(x.which)
             /\ Becomes(t, r \o TerminateFrame(x.which)) /\ UNCHANGED <<actions, current, ran>>
        \/ x.does = "erase" /\ Erase(parent[x.which], TerminatesNested(x.which))
             /\ Becomes(t, r) /\ UNCHANGED <<terminated, current, ran>>
        \/ x.does = "eternal" /\ Becomes(t, r \o <<SetsCurrent(Eternal)>>)
             /\ UNCHANGED <<terminated, actions, current, ran>>
    BY DEF RunAction
  <1> HIDE DEF n, s, x, r
  <1>4. r \in Seq(Frame) /\ Fresh(r) /\ FramesOf(r) = RunSet(Tail(s))
    BY <1>2, RunFrames DEF r
  <1>5. ASSUME NEW g \in Frame, g.op # "run"
        PROVE  /\ r \o <<g>> \in Seq(Frame) /\ Fresh(r \o <<g>>)
               /\ FramesOf(r \o <<g>>) = RunSet(Tail(s)) \union {g}
    BY <1>2, <1>5, RunFrames DEF r
  <1>6. CASE x.does = "user"
    <2>1. Becomes(t, r) /\ ran' = Append(ran, x.which) /\ UNCHANGED <<terminated, actions, current>>
      BY <1>3, <1>6
    <2>2. Stacks(t, n - 1, RunSet(Tail(s)) \union {}, {"run"})
      BY <1>1, <1>4, <2>1, BecomesStacks DEF n
    <2>3. RunsUser(t, n, s)
      BY <1>1, <1>2, <1>6, <2>1, <2>2 DEF RunsUser, RunsOne, Pops, x
    <2> QED BY <1>2, <2>3
  <1>7. CASE x.does = "terminate"
    <2>1. /\ Flag(x.which) /\ Becomes(t, r \o TerminateFrame(x.which))
          /\ UNCHANGED <<actions, current, ran>>
      BY <1>3, <1>7
    <2>2. x.which \in 1 .. lifetimes /\ x.which # Eternal /\ x.which \in 0 .. MaxLifetimes
      BY <1>2, <1>7, Numbers DEF Of
    <2>3. PICK g \in Frame : g = Rec("take", x.which) /\ g.op # "run"
      BY <2>2, Recs
    <2>4. Becomes(t, r \o <<g>>)
      BY <2>1, <2>2, <2>3 DEF TerminateFrame, Rec
    <2>5. Stacks(t, n - 1, RunSet(Tail(s)) \union {g}, {"run"})
      <3>1. PICK fs \in Seq(Frame) : fs = r \o <<g>> /\ Fresh(fs)
                                     /\ FramesOf(fs) = RunSet(Tail(s)) \union {g}
        BY <1>5, <2>3
      <3>2. Becomes(t, fs)
        BY <2>4, <3>1
      <3> QED BY <1>1, <3>1, <3>2, BecomesStacks DEF n
    <2>6. RunsOne(t, n, s, "terminate", {Rec("take", x.which)})
      BY <1>1, <1>2, <1>7, <2>3, <2>5 DEF RunsOne, Pops, x
    <2>7. RunsTerminate(t, n, s, x.which)
      BY <2>1, <2>2, <2>6 DEF RunsTerminate, x, Flag
    <2> QED BY <1>2, <2>2, <2>7
  <1>8. CASE x.does = "erase"
    <2>1. /\ Erase(parent[x.which], TerminatesNested(x.which)) /\ Becomes(t, r)
          /\ UNCHANGED <<terminated, current, ran>>
      BY <1>3, <1>8
    <2>2. x.which \in 2 .. lifetimes /\ terminated[x.which]
      BY <1>2, <1>8 DEF Of
    <2>3. Stacks(t, n - 1, RunSet(Tail(s)) \union {}, {"run"})
      BY <1>1, <1>4, <2>1, BecomesStacks DEF n
    <2>4. RunsErase(t, n, s, x.which)
      BY <1>1, <1>2, <1>8, <2>1, <2>2, <2>3 DEF RunsErase, RunsOne, Pops, x
    <2>5. x.which \in 1 .. lifetimes
      BY <2>2
    <2> QED BY <1>2, <2>4, <2>5
  <1>9. CASE x.does = "eternal"
    <2>1. Becomes(t, r \o <<SetsCurrent(Eternal)>>) /\ UNCHANGED <<terminated, actions, current, ran>>
      BY <1>3, <1>9
    <2>2. terminated[Root]
      BY <1>2, <1>9 DEF Of
    <2>3. PICK g \in Frame : g = Rec("current", Eternal) /\ g.op # "run"
      BY Numbers, Frames DEF Rec
    <2>4. Becomes(t, r \o <<g>>)
      BY <2>1, <2>3 DEF SetsCurrent, Rec
    <2>5. Stacks(t, n - 1, RunSet(Tail(s)) \union {g}, {"run"})
      <3>1. PICK fs \in Seq(Frame) : fs = r \o <<g>> /\ Fresh(fs)
                                     /\ FramesOf(fs) = RunSet(Tail(s)) \union {g}
        BY <1>5, <2>3
      <3>2. Becomes(t, fs)
        BY <2>4, <3>1
      <3> QED BY <1>1, <3>1, <3>2, BecomesStacks DEF n
    <2>6. RunsOne(t, n, s, "eternal", {Rec("current", Eternal)})
      BY <1>1, <1>2, <1>9, <2>3, <2>5 DEF RunsOne, Pops, x
    <2>7. RunsEternal(t, n, s)
      BY <2>1, <2>2, <2>6 DEF RunsEternal
    <2> QED BY <1>2, <2>7
  <1> QED BY <1>3, <1>6, <1>7, <1>8, <1>9

LEMMA AddDoes ==
  ASSUME TypeOK, NEW t \in Threads, NEW l \in 1 .. lifetimes, Add(t, l)
  PROVE  Accepting(t, Len(stack[t]), l, {})
  <1>1. Stacks(t, Len(stack[t]), {}, {})
    BY StillStacks DEF Add
  <1> QED BY <1>1 DEF Add, Accepting, Accepts

LEMMA BracketDoes ==
  ASSUME TypeOK, NEW t \in Threads, NEW l \in 1 .. lifetimes, Bracket(t, l)
  PROVE  Opens(t, l)
  <1>1. PICK f \in Frame : f = Rec("close", l)
    BY Numbers, Frames DEF Rec
  <1>2. Free(t) /\ stack' = [stack EXCEPT ![t] = <<f>>]
    BY <1>1 DEF Bracket, Rec
  <1>4. PICK fs \in Seq(Frame) : fs = <<f>> /\ Fresh(fs) /\ FramesOf(fs) = {f}
    BY FewFrames
  <1>5. stack' = [stack EXCEPT ![t] = fs]
    BY <1>2, <1>4
  <1>3. Stacks(t, 0, {f}, {})
    BY <1>2, <1>4, <1>5, FreeStacks
  <1> QED BY <1>1, <1>3 DEF Bracket, Opens, Quiet

\* A step that only takes the top away.
LEMMA PopDoes ==
  ASSUME TypeOK, Framed, NEW t \in Threads, NEW o, Doing(t, o), Becomes(t, <<>>)
  PROVE  LET n == Len(stack[t])
         IN  Pops(t, n, o, {}) /\ stack[t][n] = Top(t) /\ Sound(Top(t)) /\ Top(t).op = o
  <1> DEFINE n == Len(stack[t])
  <1>1. PICK fs \in Seq(Frame) : Fresh(fs) /\ FramesOf(fs) = {} /\ fs = <<>>
    <2>1. <<>> \in Seq(Frame) /\ Fresh(<<>>) /\ FramesOf(<<>>) = {}
      BY DEF Fresh, FramesOf
    <2> QED BY <2>1
  <1>2. Becomes(t, fs)
    BY <1>1
  <1>3. /\ n - 1 \in Nat /\ Place(t, n) /\ stack[t][n] = Top(t) /\ stack[t][n].op = o
        /\ Stacks(t, n - 1, {}, {o})
    BY <1>1, <1>2, BecomesStacks
  <1>4. n \in Nat
    BY Places
  <1> QED BY <1>3, <1>4, TopSound DEF Pops

LEMMA BracketEndDoes ==
  ASSUME TypeOK, Framed, NEW t \in Threads, BracketEnd(t)
  PROVE  \E n \in Nat : \/ \E l \in 1 .. lifetimes : Accepting(t, n, l, {"close"})
                        \/ Refuses(t, n)
  <1> DEFINE n == Len(stack[t])
             l == Top(t).lifetime
  <1>1. Pops(t, n, "close", {}) /\ Sound(Top(t)) /\ Top(t).op = "close"
    BY PopDoes DEF BracketEnd
  <1>2. l \in 1 .. lifetimes
    BY <1>1 DEF Sound
  <1>3. CASE Accepts(l)
    <2>1. AcceptAction(l) /\ UNCHANGED <<lifetimes, terminated, current, parent, sequential, ran>>
      BY <1>3 DEF BracketEnd
    <2>2. Accepting(t, n - 1, l, {"close"})
      BY <1>1, <1>2, <1>3, <2>1 DEF Accepting, Accepts, Pops
    <2> QED BY <1>1, <1>2, <2>2 DEF Pops
  <1>4. CASE ~Accepts(l)
    <2>1. UNCHANGED <<lifetimes, terminated, actions, current, parent, sequential, owner, ran>>
      BY <1>4 DEF BracketEnd
    <2>2. Refuses(t, n)
      BY <1>1, <2>1 DEF Refuses, Quiet, Pops
    <2> QED BY <1>1, <2>2 DEF Pops
  <1> QED BY <1>3, <1>4
LEMMA NestedDoes ==
  ASSUME TypeOK, NEW t \in Threads, NEW p \in 1 .. lifetimes, CreateNested(t, p)
  PROVE  AttachesNested(t, p, lifetimes + 1)
  <1> DEFINE l == lifetimes + 1
  <1>1. /\ Free(t) /\ ~terminated[p] /\ l \in Lifetimes /\ lifetimes' = l
        /\ parent' = [parent EXCEPT ![l] = p] /\ AddAction(p, TerminatesNested(l))
        /\ stack' = [stack EXCEPT ![t] = Append(<<>>, Rec("attach", l))]
        /\ UNCHANGED <<terminated, current, owner, ran, sequential>>
    BY DEF CreateNested, Attach, Accepts, Rec
  <1>2. l \in 0 .. MaxLifetimes
    BY <1>1, LifetimesAssumption DEF Lifetimes
  <1>3. PICK f \in Frame : f = Rec("attach", l)
    BY <1>2, Recs
  <1>4. PICK fs \in Seq(Frame) : fs = <<f>> /\ Fresh(fs) /\ FramesOf(fs) = {f}
    BY FewFrames
  <1>5. stack' = [stack EXCEPT ![t] = fs]
    BY <1>1, <1>3, <1>4, TwoFrames
  <1>f. Free(t)
    BY <1>1
  <1>g. Fresh(fs)
    BY <1>4
  <1>s. Stacks(t, 0, FramesOf(fs), {}) /\ stack'[t] = fs
    BY <1>f, <1>g, <1>5, FreeStacks
  <1>6. Stacks(t, 0, {f}, {}) /\ stack'[t] = fs
    BY <1>4, <1>s, Zenon
  <1>7. {} \union {f} = {f}
    OBVIOUS
  <1> HIDE DEF l
  <1>8. Attaches(t, p, l, {})
    BY <1>1, <1>3, <1>6, <1>7 DEF Attaches, l
  <1> QED BY <1>1, <1>3, <1>4, <1>6, <1>8 DEF AttachesNested, l

LEMMA NextDoes ==
  ASSUME TypeOK, NextLifetime
  PROVE  AttachesNext(lifetimes + 1)
  <1> DEFINE l == lifetimes + 1
  <1>1. /\ Free(Viewer) /\ ~terminated[Root] /\ l \in Lifetimes /\ lifetimes' = l
        /\ parent' = [parent EXCEPT ![l] = Root] /\ AddAction(Root, TerminatesNested(l))
        /\ stack' = [stack EXCEPT ![Viewer] = Append(<<Rec("current", l)>>, Rec("attach", l))]
        /\ UNCHANGED <<terminated, current, owner, ran>>
        /\ sequential' = sequential \union {l}
    BY DEF NextLifetime, Attach, Accepts, Rec, SetsCurrent
  <1>2. l \in 0 .. MaxLifetimes /\ Viewer \in Threads
    BY <1>1, LifetimesAssumption DEF Lifetimes
  <1>3. PICK f \in Frame, g \in Frame : f = Rec("current", l) /\ g = Rec("attach", l)
                                        /\ f # g /\ g.op # "run"
    <2>1. Rec("current", l) # Rec("attach", l)
      <3>1. Rec("current", l).op = "current" /\ Rec("attach", l).op = "attach"
        BY <1>2, Recs
      <3> QED BY <3>1
    <2> QED BY <1>2, <2>1, Recs
  <1>4. PICK fs \in Seq(Frame) : fs = <<f, g>> /\ Fresh(fs) /\ FramesOf(fs) = {f, g}
    BY <1>3, FewFrames
  <1>5. stack' = [stack EXCEPT ![Viewer] = fs]
    BY <1>1, <1>3, <1>4, TwoFrames
  <1>a. Free(Viewer) /\ Viewer \in Threads
    BY <1>1, <1>2
  <1>b. Fresh(fs)
    BY <1>4
  <1>c. Stacks(Viewer, 0, FramesOf(fs), {}) /\ stack'[Viewer] = fs
    BY <1>a, <1>b, <1>5, FreeStacks
  <1>6. Stacks(Viewer, 0, {f, g}, {}) /\ stack'[Viewer] = fs
    BY <1>4, <1>c, Zenon
  <1>7. {f} \union {g} = {f, g}
    OBVIOUS
  <1>8. Root \in 1 .. lifetimes
    BY Numbers
  <1> HIDE DEF l
  <1>9. Attaches(Viewer, Root, l, {Rec("current", l)})
    BY <1>1, <1>3, <1>6, <1>7, <1>8 DEF Attaches, l
  <1> QED BY <1>1, <1>3, <1>4, <1>6, <1>9 DEF AttachesNext, l

LEMMA AttachEndDoes ==
  ASSUME TypeOK, Framed, Attaching, NEW t \in Threads, AttachEnd(t)
  PROVE  \E n \in Nat, l \in 2 .. lifetimes : Attached(t, n, l) \/ NotAttached(t, n, l)
  <1> DEFINE n == Len(stack[t])
             l == Top(t).lifetime
  <1>1. /\ Doing(t, "attach")
        /\ UNCHANGED <<lifetimes, terminated, current, parent, sequential, owner, ran>>
    BY DEF AttachEnd
  <1>2. n \in Nat /\ ~Free(t) /\ Top(t).op = "attach"
    BY <1>1, Places DEF Doing
  <1>3. n # 0 /\ Top(t) = stack[t][n] /\ Place(t, n)
    BY <1>2, Places DEF Top, Last, Free, Place
  <1>4. l \in 2 .. lifetimes
    BY <1>2, <1>3, TopSound DEF Sound
  <1>5. CASE Accepts(l)
    <2>1. AddAction(l, ErasesFromParent(l)) /\ Becomes(t, <<>>)
      BY <1>5 DEF AttachEnd
    <2>2. Pops(t, n, "attach", {})
      BY <1>1, <2>1, PopDoes
    <2>3. ~terminated[l]
      BY <1>5 DEF Accepts
    <2>4. Attached(t, n, l)
      BY <1>1, <1>4, <2>1, <2>2, <2>3 DEF Attached
    <2> QED BY <1>2, <1>4, <2>4
  <1>6. CASE ~Accepts(l)
    <2>1. stack' = [stack EXCEPT ![t] = <<>>] /\ UNCHANGED actions
      BY <1>6 DEF AttachEnd
    <2>2. terminated[l]
      <3>1. l <= lifetimes
        BY <1>4, Numbers
      <3> QED BY <1>6, <3>1 DEF Accepts
    <2>3. PICK fs \in Seq(Frame) : Fresh(fs) /\ FramesOf(fs) = {} /\ fs = <<>>
      <3>1. <<>> \in Seq(Frame) /\ Fresh(<<>>) /\ FramesOf(<<>>) = {}
        BY DEF Fresh, FramesOf
      <3> QED BY <3>1
    <2>4. stack' = [stack EXCEPT ![t] = fs]
      BY <2>1, <2>3
    <2>5. Moved(t, 0, {}) /\ stack'[t] = <<>>
      BY <2>3, <2>4, WritesExchanges
    <2>6. \A k \in 1 .. n : stack[t][k].op \in {"attach", "current"}
      <3>1. \A k \in 1 .. n - 1 : stack[t][k] = SetsCurrent(l)
        BY <1>2, <1>3 DEF Attaching, Place
      <3>2. \A k \in 1 .. n - 1 : stack[t][k].op = "current"
        BY <3>1 DEF SetsCurrent
      <3> QED BY <1>2, <1>3, <3>2
    <2>7. Leaves(t, 0, {"attach", "current"})
      BY <2>6 DEF Leaves, Place
    <2>8. NotAttached(t, n, l)
      BY <1>1, <1>2, <1>3, <2>1, <2>2, <2>5, <2>7 DEF NotAttached, Quiet, Stacks
    <2> QED BY <1>2, <1>4, <2>8
  <1> QED BY <1>5, <1>6

LEMMA TerminateCurrentDoes ==
  ASSUME TypeOK, TerminateCurrent
  PROVE  Empties
  <1>1. PICK f \in Frame : f = Rec("current", Eternal)
    BY Numbers, Recs
  <1>2. Viewer \in Threads /\ Free(Viewer)
    BY LifetimesAssumption DEF TerminateCurrent
  <1>3. PICK fs \in Seq(Frame) : fs = <<f>> /\ Fresh(fs) /\ FramesOf(fs) = {f}
    BY FewFrames
  <1>4. stack' = [stack EXCEPT ![Viewer] = fs]
    BY <1>1, <1>3 DEF TerminateCurrent, SetsCurrent, Rec
  <1>5. Stacks(Viewer, 0, {f}, {})
    BY <1>2, <1>3, <1>4, FreeStacks
  <1> QED BY <1>1, <1>2, <1>5 DEF TerminateCurrent, Empties, Quiet

LEMMA ReadDoes ==
  ASSUME TypeOK, Framed, Stored, NEW t \in Threads, ReadPrevious(t)
  PROVE  \E n \in Nat, l \in {Eternal} \union sequential : Reads(t, n, l)
  <1> DEFINE n == Len(stack[t])
             l == Top(t).lifetime
  <1>1. /\ Doing(t, "current")
        /\ UNCHANGED <<lifetimes, terminated, actions, current, parent, sequential, owner, ran>>
    BY DEF ReadPrevious
  <1>2. n \in Nat /\ n = Len(stack[t]) /\ ~Free(t) /\ Top(t).op = "current"
    BY <1>1, Places DEF Doing
  <1>3. n # 0 /\ Top(t) = stack[t][n] /\ Place(t, n)
    BY <1>2, Places DEF Top, Last, Free, Place
  <1>4. l \in {Eternal} \union sequential
    BY <1>2, <1>3, TopSound DEF Sound
  <1>5. l \in 0 .. MaxLifetimes /\ current \in 0 .. MaxLifetimes
    BY <1>4, Numbers DEF TypeOK
  <1>6. PICK f \in Frame : f = [op |-> "replace", lifetime |-> l, previous |-> current]
    BY <1>5, Frames
  <1>7. PICK fs \in Seq(Frame) : fs = <<f>> /\ Fresh(fs) /\ FramesOf(fs) = {f}
    BY FewFrames
  <1>8. Becomes(t, fs)
    BY <1>6, <1>7 DEF ReadPrevious
  <1>a. Doing(t, "current")
    BY <1>1
  <1>b. Fresh(fs)
    BY <1>7
  <1>c. n - 1 \in Nat /\ Stacks(t, n - 1, FramesOf(fs), {"current"})
    BY <1>a, <1>b, <1>8, BecomesStacks
  <1>9. n - 1 \in Nat /\ Stacks(t, n - 1, {f}, {"current"})
    BY <1>7, <1>c, Zenon
  <1> HIDE DEF n, l
  <1>10. Pops(t, n, "current", {f}) /\ Quiet(t, n - 1, {f}, {"current"})
    BY <1>1, <1>2, <1>3, <1>9 DEF Pops, Quiet
  <1>11. stack[t][n].lifetime = l
    BY <1>3 DEF l
  <1>12. Reads(t, n, l)
    BY <1>4, <1>6, <1>10, <1>11 DEF Reads
  <1> QED BY <1>2, <1>4, <1>12

LEMMA ReplaceDoes ==
  ASSUME TypeOK, Framed, NEW t \in Threads, ReplacePrevious(t)
  PROVE  \E n \in Nat, l, p \in {Eternal} \union sequential : Replaces(t, n, l, p)
  <1> DEFINE n == Len(stack[t])
             l == Top(t).lifetime
             p == Top(t).previous
  <1>1. /\ Doing(t, "replace") /\ current' = l /\ Flag(p) /\ Becomes(t, TerminateFrame(p))
        /\ UNCHANGED <<lifetimes, actions, parent, sequential, owner, ran>>
    BY DEF ReplacePrevious
  <1>2. n \in Nat /\ n = Len(stack[t]) /\ ~Free(t) /\ Top(t).op = "replace"
    BY <1>1, Places DEF Doing
  <1>3. n # 0 /\ Top(t) = stack[t][n] /\ Place(t, n)
    BY <1>2, Places DEF Top, Last, Free, Place
  <1>4. l \in {Eternal} \union sequential /\ p \in {Eternal} \union sequential
    BY <1>2, <1>3, TopSound DEF Sound
  <1>5. PICK fs \in Seq(Frame) : /\ fs = TerminateFrame(p) /\ Fresh(fs)
                                 /\ FramesOf(fs) = IF p = Eternal THEN {} ELSE {Rec("take", p)}
    <2>1. p \in 0 .. MaxLifetimes
      BY <1>4, Numbers
    <2>2. PICK f \in Frame : f = Rec("take", p)
      BY <2>1, Recs
    <2>3. CASE p = Eternal
      <3>1. TerminateFrame(p) = <<>>
        BY <2>3 DEF TerminateFrame
      <3>2. <<>> \in Seq(Frame) /\ Fresh(<<>>) /\ FramesOf(<<>>) = {}
        BY DEF Fresh, FramesOf
      <3> QED BY <2>3, <3>1, <3>2
    <2>4. CASE p # Eternal
      <3>1. TerminateFrame(p) = <<f>>
        BY <2>2, <2>4 DEF TerminateFrame, Rec
      <3>2. <<f>> \in Seq(Frame) /\ Fresh(<<f>>) /\ FramesOf(<<f>>) = {f}
        BY FewFrames
      <3> QED BY <2>2, <2>4, <3>1, <3>2
    <2> QED BY <2>3, <2>4
  <1>6. n - 1 \in Nat /\ Stacks(t, n - 1, FramesOf(fs), {"replace"})
    BY <1>1, <1>5, BecomesStacks
  <1> HIDE DEF n, l, p
  <1>7. Pops(t, n, "replace", FramesOf(fs))
    BY <1>2, <1>3, <1>6 DEF Pops
  <1>8. stack[t][n].lifetime = l /\ stack[t][n].previous = p
    BY <1>3 DEF l, p
  <1>9. Replaces(t, n, l, p)
    BY <1>1, <1>4, <1>5, <1>7, <1>8 DEF Replaces, Flag
  <1> QED BY <1>2, <1>4, <1>9

\* A step of the system is one of these, or changes nothing.
Step ==
  \/ \E t \in Threads :
       \/ \E l \in 1 .. lifetimes : Terminates(t, l) \/ Opens(t, l)
       \/ \E n \in Nat, l \in 1 .. lifetimes : Takeover(t, n, l)
       \/ \E n \in Nat, s \in Seq(Action) :
            \/ RunsUser(t, n, s)
            \/ \E l \in 1 .. lifetimes : RunsTerminate(t, n, s, l) \/ RunsErase(t, n, s, l)
            \/ RunsEternal(t, n, s)
       \/ \E m \in Nat, l \in 1 .. lifetimes : \E O \in SUBSET {"close"} : Accepting(t, m, l, O)
       \/ \E n \in Nat : Refuses(t, n)
       \/ \E p \in 1 .. lifetimes : AttachesNested(t, p, lifetimes + 1)
       \/ \E n \in Nat, l \in 2 .. lifetimes : Attached(t, n, l) \/ NotAttached(t, n, l)
       \/ \E n \in Nat, l \in {Eternal} \union sequential : Reads(t, n, l)
       \/ \E n \in Nat, l, p \in {Eternal} \union sequential : Replaces(t, n, l, p)
  \/ AttachesNext(lifetimes + 1)
  \/ Empties

LEMMA NextSteps == TypeOK /\ Stored /\ Framed /\ Attaching /\ Next => Step
  <1> SUFFICES ASSUME TypeOK, Stored, Framed, Attaching, Next PROVE Step
    OBVIOUS
  <1>1. CASE NextLifetime
    BY <1>1, NextDoes DEF Step
  <1>2. CASE TerminateCurrent
    BY <1>2, TerminateCurrentDoes DEF Step
  <1>3. ASSUME NEW t \in Threads, NEW l \in 1 .. lifetimes, Terminate(t, l) PROVE Step
    BY <1>3, TerminateDoes DEF Step
  <1>4. ASSUME NEW t \in Threads, NEW l \in 1 .. lifetimes, CreateNested(t, l) PROVE Step
    BY <1>4, NestedDoes DEF Step
  <1>5. ASSUME NEW t \in Threads, NEW l \in 1 .. lifetimes, Add(t, l) PROVE Step
    <2>1. Accepting(t, Len(stack[t]), l, {}) /\ Len(stack[t]) \in Nat
      BY <1>5, AddDoes, Places
    <2> QED BY <2>1 DEF Step
  <1>6. ASSUME NEW t \in Threads, NEW l \in 1 .. lifetimes, Bracket(t, l) PROVE Step
    BY <1>6, BracketDoes DEF Step
  <1>7. ASSUME NEW t \in Threads, TakeActions(t) PROVE Step
    BY <1>7, TakeDoes DEF Step
  <1>8. ASSUME NEW t \in Threads, RunAction(t) PROVE Step
    BY <1>8, RunDoes DEF Step
  <1>9. ASSUME NEW t \in Threads, BracketEnd(t) PROVE Step
    <2>1. PICK n \in Nat : \/ \E l \in 1 .. lifetimes : Accepting(t, n, l, {"close"})
                           \/ Refuses(t, n)
      BY <1>9, BracketEndDoes
    <2> QED BY <2>1 DEF Step
  <1>10. ASSUME NEW t \in Threads, AttachEnd(t) PROVE Step
    BY <1>10, AttachEndDoes DEF Step
  <1>11. ASSUME NEW t \in Threads, ReadPrevious(t) PROVE Step
    BY <1>11, ReadDoes DEF Step
  <1>12. ASSUME NEW t \in Threads, ReplacePrevious(t) PROVE Step
    BY <1>12, ReplaceDoes DEF Step
  <1> QED
    BY <1>1, <1>2, <1>3, <1>4, <1>5, <1>6, <1>7, <1>8, <1>9, <1>10, <1>11, <1>12
       DEF Next, ThreadStep
-----------------------------------------------------------------------------
(* What every step does to the variables but the stack.                    *)

Adds(l, x) ==
  /\ AddAction(l, x) /\ ~terminated[l]
  /\ x.does = "user" => x.which = Len(owner) + 1
TerminatedShape ==
  \/ UNCHANGED terminated
  \/ \E l \in 1 .. lifetimes : terminated' = [terminated EXCEPT ![l] = TRUE]
OwnerShape ==
  \/ UNCHANGED owner
  \/ \E l \in 1 .. lifetimes : owner' = Append(owner, l)
RanShape ==
  \/ UNCHANGED ran
  \/ \E a \in 1 .. Len(owner) : ran' = Append(ran, a) /\ terminated[owner[a]]
TreeShape ==
  \/ UNCHANGED <<lifetimes, parent, sequential>>
  \/ \E p \in 1 .. lifetimes :
       /\ lifetimes' = lifetimes + 1 /\ lifetimes + 1 \in Lifetimes
       /\ parent' = [parent EXCEPT ![lifetimes + 1] = p]
       /\ \/ sequential' = sequential
          \/ p = Root /\ sequential' = sequential \union {lifetimes + 1}
ActionsShape ==
  \/ UNCHANGED actions
  \/ \E l \in 1 .. lifetimes : actions' = [actions EXCEPT ![l] = <<>>]
  \/ \E l \in 1 .. lifetimes, x \in Action : Adds(l, x) /\ Of(l, x)'
  \/ \E l \in 1 .. lifetimes : \E n \in 1 .. Len(actions[l]) :
       actions' = [actions EXCEPT ![l] = RemoveAt(@, n)]
Shapes == TerminatedShape /\ OwnerShape /\ RanShape /\ TreeShape /\ ActionsShape
            /\ current' \in {Eternal} \union sequential

\* The actions the program adds.
LEMMA SomeActions ==
  \A n \in Nat : /\ UserAction(n) \in Action /\ UserAction(n).does = "user"
                 /\ UserAction(n).which = n
                 /\ TerminatesNested(n) \in Action /\ TerminatesNested(n).does = "terminate"
                 /\ TerminatesNested(n).which = n
                 /\ ErasesFromParent(n) \in Action /\ ErasesFromParent(n).does = "erase"
                 /\ ErasesFromParent(n).which = n
  BY DEF Action, UserAction, TerminatesNested, ErasesFromParent

\* Erasing removes one occurrence or nothing.
LEMMA Erases ==
  ASSUME TypeOK, NEW l \in 1 .. lifetimes, NEW x, Erase(l, x)
  PROVE  \/ UNCHANGED actions
         \/ \E n \in 1 .. Len(actions[l]) :
              actions[l][n] = x /\ actions' = [actions EXCEPT ![l] = RemoveAt(@, n)]
  <1>1. DOMAIN actions[l] = 1 .. Len(actions[l])
    BY Numbers, Elements DEF TypeOK
  <1> QED BY <1>1 DEF Erase

\* What is run has been taken from a terminated lifetime.
LEMMA HeadOf ==
  ASSUME TypeOK, Framed, NEW t \in Threads, NEW n \in Nat, Place(t, n),
         stack[t][n].op = "run", NEW s \in Seq(Action), stack[t][n].rest = s, s # <<>>
  PROVE  \E l \in 1 .. lifetimes :
           terminated[l] /\ \A x \in Action : Contains(s, x) => Of(l, x)
  BY TopSound DEF Sound, SoundRun

LEMMA AcceptsShape ==
  ASSUME TypeOK, NEW l \in 1 .. lifetimes, ~terminated[l], AcceptAction(l), UNCHANGED lifetimes
  PROVE  ActionsShape /\ OwnerShape
  <1>1. Len(owner) \in Nat
    BY Elements DEF TypeOK
  <1>2. l \in Lifetimes
    BY Numbers
  <1>3. PICK x \in Action : /\ x = UserAction(Len(owner) + 1)
                            /\ x.does = "user" /\ x.which = Len(owner) + 1
    BY <1>1, SomeActions
  <1>4. AddAction(l, x) /\ owner' = Append(owner, l)
    BY <1>3 DEF AcceptAction
  <1>5. Len(owner') = Len(owner) + 1 /\ owner'[Len(owner) + 1] = l
    BY <1>2, <1>4, AppendProperties DEF TypeOK
  <1>6. Of(l, x)'
    BY <1>1, <1>3, <1>5 DEF Of
  <1>7. Adds(l, x)
    BY <1>3, <1>4 DEF Adds
  <1> QED BY <1>3, <1>4, <1>6, <1>7 DEF ActionsShape, OwnerShape

LEMMA AttachesShape ==
  ASSUME TypeOK, NEW t, NEW p, NEW l, NEW S, Attaches(t, p, l, S)
  PROVE  ActionsShape /\ p \in 1 .. lifetimes /\ l = lifetimes + 1 /\ l \in Lifetimes /\ lifetimes \in Nat
  <1>1. /\ p \in 1 .. lifetimes /\ l = lifetimes + 1 /\ l \in Lifetimes /\ ~terminated[p]
        /\ lifetimes' = l /\ parent' = [parent EXCEPT ![l] = p]
        /\ AddAction(p, TerminatesNested(l))
    BY DEF Attaches
  <1>2. lifetimes \in Nat /\ l \in Nat
    BY <1>1, Numbers
  <1> DEFINE x == TerminatesNested(l)
  <1>3. x \in Action /\ x.does = "terminate" /\ x.which = l
    BY <1>2, SomeActions
  <1> HIDE DEF x
  <1>4. parent'[l] = p
    BY <1>1 DEF TypeOK
  <1>5. Of(p, x)'
    BY <1>1, <1>2, <1>3, <1>4 DEF Of
  <1>6. Adds(p, x)
    BY <1>1, <1>3 DEF Adds, x
  <1> QED BY <1>1, <1>2, <1>3, <1>5, <1>6 DEF ActionsShape

LEMMA StepShapes ==
  ASSUME TypeOK, Stored, Framed, Step
  PROVE  Shapes
  <1>0. current \in {Eternal} \union sequential
    BY DEF Stored
  <1>1. ASSUME NEW t \in Threads, NEW l \in 1 .. lifetimes, Terminates(t, l) PROVE Shapes
    BY <1>0, <1>1 DEF Terminates, Shapes, TerminatedShape, OwnerShape, RanShape, TreeShape, ActionsShape
  <1>2. ASSUME NEW t \in Threads, NEW m, NEW S, NEW O, Quiet(t, m, S, O) PROVE Shapes
    BY <1>0, <1>2 DEF Quiet, Shapes, TerminatedShape, OwnerShape, RanShape, TreeShape, ActionsShape
  <1>3. ASSUME NEW t \in Threads, NEW n \in Nat, NEW l \in 1 .. lifetimes, Takeover(t, n, l)
        PROVE  Shapes
    BY <1>0, <1>3 DEF Takeover, Shapes, TerminatedShape, OwnerShape, RanShape, TreeShape, ActionsShape
  <1>4. ASSUME NEW t \in Threads, NEW n \in Nat, NEW s \in Seq(Action), RunsUser(t, n, s)
        PROVE  Shapes
    <2>1. RunsOne(t, n, s, "user", {}) /\ ran' = Append(ran, Head(s).which)
          /\ UNCHANGED <<terminated, actions, current>>
      BY <1>4 DEF RunsUser
    <2>2. /\ s # <<>> /\ stack[t][n].rest = s /\ Head(s).does = "user" /\ Place(t, n)
          /\ stack[t][n].op = "run" /\ UNCHANGED <<lifetimes, parent, sequential, owner>>
      BY <2>1 DEF RunsOne, Pops
    <2>3. Head(s) \in Action /\ Contains(s, Head(s))
      BY <2>2, Tails
    <2>4. PICK l \in 1 .. lifetimes : terminated[l] /\ Of(l, Head(s))
      BY <2>2, <2>3, HeadOf
    <2>5. Head(s).which \in 1 .. Len(owner) /\ terminated[owner[Head(s).which]]
      BY <2>2, <2>4 DEF Of
    <2> QED BY <1>0, <2>1, <2>2, <2>5
            DEF Shapes, TerminatedShape, OwnerShape, RanShape, TreeShape, ActionsShape
  <1>5. ASSUME NEW t \in Threads, NEW n \in Nat, NEW s \in Seq(Action), NEW l \in 1 .. lifetimes,
               RunsTerminate(t, n, s, l)
        PROVE  Shapes
    BY <1>0, <1>5 DEF RunsTerminate, RunsOne,
         Shapes, TerminatedShape, OwnerShape, RanShape, TreeShape, ActionsShape
  <1>6. ASSUME NEW t \in Threads, NEW n \in Nat, NEW s \in Seq(Action), NEW l \in 1 .. lifetimes,
               RunsErase(t, n, s, l)
        PROVE  Shapes
    <2>1. /\ l \in 2 .. lifetimes /\ Erase(parent[l], TerminatesNested(l))
          /\ UNCHANGED <<terminated, current, ran, lifetimes, parent, sequential, owner>>
      BY <1>6 DEF RunsErase, RunsOne
    <2>2. parent[l] \in 1 .. lifetimes
      BY <2>1 DEF Stored
    <2>3. ActionsShape
      BY <2>1, <2>2, Erases DEF ActionsShape
    <2> QED BY <1>0, <2>1, <2>3
            DEF Shapes, TerminatedShape, OwnerShape, RanShape, TreeShape
  <1>7. ASSUME NEW t \in Threads, NEW n \in Nat, NEW s \in Seq(Action), RunsEternal(t, n, s)
        PROVE  Shapes
    BY <1>0, <1>7 DEF RunsEternal, RunsOne,
         Shapes, TerminatedShape, OwnerShape, RanShape, TreeShape, ActionsShape
  <1>8. ASSUME NEW t \in Threads, NEW m \in Nat, NEW l \in 1 .. lifetimes, NEW O,
               Accepting(t, m, l, O)
        PROVE  Shapes
    <2>1. /\ ~terminated[l] /\ AcceptAction(l)
          /\ UNCHANGED <<lifetimes, terminated, current, parent, sequential, ran>>
      BY <1>8 DEF Accepting
    <2>2. ActionsShape /\ OwnerShape
      BY <2>1, AcceptsShape
    <2> QED BY <1>0, <2>1, <2>2 DEF Shapes, TerminatedShape, RanShape, TreeShape
  <1>9. ASSUME NEW t, NEW p, NEW l, NEW S, Attaches(t, p, l, S),
               \/ UNCHANGED sequential
               \/ p = Root /\ sequential' = sequential \union {l}
        PROVE  Shapes
    <2>1. ActionsShape /\ p \in 1 .. lifetimes /\ l = lifetimes + 1 /\ l \in Lifetimes
      BY <1>9, AttachesShape
    <2>2. /\ lifetimes' = l /\ parent' = [parent EXCEPT ![l] = p]
          /\ UNCHANGED <<terminated, current, owner, ran>>
      BY <1>9 DEF Attaches
    <2>3. TreeShape
      BY <1>9, <2>1, <2>2 DEF TreeShape
    <2> QED BY <1>0, <2>1, <2>2, <2>3 DEF Shapes, TerminatedShape, RanShape, OwnerShape
  <1>10. ASSUME NEW t \in Threads, NEW n \in Nat, NEW l \in 2 .. lifetimes, Attached(t, n, l)
         PROVE  Shapes
    <2>1. /\ ~terminated[l] /\ AddAction(l, ErasesFromParent(l))
          /\ UNCHANGED <<lifetimes, terminated, current, parent, sequential, owner, ran>>
      BY <1>10 DEF Attached
    <2>2. l \in 1 .. lifetimes /\ l \in Nat
      BY Numbers
    <2>3. ErasesFromParent(l) \in Action /\ ErasesFromParent(l).does = "erase"
          /\ ErasesFromParent(l).which = l
      BY <2>2, SomeActions
    <2> DEFINE x == ErasesFromParent(l)
    <2> HIDE DEF x
    <2>4. Of(l, x)' /\ Adds(l, x) /\ x \in Action
      BY <2>1, <2>3 DEF Of, Adds, x
    <2>5. ActionsShape
      BY <2>2, <2>4 DEF ActionsShape
    <2> QED BY <1>0, <2>1, <2>5 DEF Shapes, TerminatedShape, RanShape, OwnerShape, TreeShape
  <1>11. ASSUME NEW t \in Threads, NEW n \in Nat, NEW l \in {Eternal} \union sequential,
                NEW p \in {Eternal} \union sequential, Replaces(t, n, l, p)
         PROVE  Shapes
    <2>1. p = Eternal \/ p \in 1 .. lifetimes
      BY Numbers
    <2> QED BY <1>11, <2>1 DEF Replaces,
         Shapes, TerminatedShape, OwnerShape, RanShape, TreeShape, ActionsShape
  <1>12. ASSUME AttachesNext(lifetimes + 1) PROVE Shapes
    BY <1>9, <1>12 DEF AttachesNext
  <1>13. ASSUME NEW t, NEW p, AttachesNested(t, p, lifetimes + 1) PROVE Shapes
    BY <1>9, <1>13 DEF AttachesNested
  <1>14. ASSUME Empties PROVE Shapes
    BY <1>2, <1>14, LifetimesAssumption DEF Empties
  <1>15. ASSUME NEW t \in Threads, NEW n \in Nat, NEW l, Refuses(t, n) \/ Opens(t, l)
                  \/ NotAttached(t, n, l) \/ Reads(t, n, l)
         PROVE  Shapes
    <2>1. \E m, S, O : Quiet(t, m, S, O)
      BY <1>15 DEF Refuses, Opens, NotAttached, Reads
    <2> QED BY <1>2, <2>1
  <1> QED
    BY <1>1, <1>3, <1>4, <1>5, <1>6, <1>7, <1>8, <1>10, <1>11, <1>12, <1>13, <1>14, <1>15
       DEF Step

\* What does not change any more.
Grows ==
  /\ lifetimes' \in Nat /\ lifetimes <= lifetimes'
  /\ \A l \in Lifetimes : terminated[l] => terminated'[l]
  /\ sequential \subseteq sequential'
  /\ \A l \in 2 .. lifetimes : parent'[l] = parent[l]
  /\ Len(owner') \in Nat /\ Len(owner) <= Len(owner')
  /\ \A a \in 1 .. Len(owner) : owner'[a] = owner[a]

LEMMA StepStacks ==
  ASSUME Step
  PROVE  \E t, m, S, O : Stacks(t, m, S, O)
  <1>1. ASSUME NEW t, NEW n, NEW o, NEW S, Pops(t, n, o, S)
        PROVE  \E u, m, R, O : Stacks(u, m, R, O)
    BY <1>1 DEF Pops
  <1>2. ASSUME NEW t, NEW m, NEW S, NEW Q, Quiet(t, m, S, Q)
        PROVE  \E u, n, R, O : Stacks(u, n, R, O)
    BY <1>2 DEF Quiet
  <1>3. ASSUME NEW t, NEW n, NEW s, NEW o, NEW S, RunsOne(t, n, s, o, S)
        PROVE  \E u, m, R, O : Stacks(u, m, R, O)
    BY <1>1, <1>3 DEF RunsOne
  <1>4. ASSUME NEW t, NEW p, NEW l, NEW S, Attaches(t, p, l, S)
        PROVE  \E u, m, R, O : Stacks(u, m, R, O)
    BY <1>4 DEF Attaches
  <1>5. CASE Empties \/ AttachesNext(lifetimes + 1)
    BY <1>2, <1>4, <1>5 DEF Empties, AttachesNext
  <1>6. ASSUME NEW t, NEW n, NEW l, NEW p,
               Terminates(t, l) \/ Opens(t, l) \/ Takeover(t, n, l) \/ Refuses(t, n)
                 \/ AttachesNested(t, p, lifetimes + 1) \/ Attached(t, n, l)
                 \/ NotAttached(t, n, l) \/ Reads(t, n, l) \/ Replaces(t, n, l, p)
        PROVE  \E u, m, R, O : Stacks(u, m, R, O)
    BY <1>1, <1>2, <1>4, <1>6 DEF Terminates, Opens, Takeover, Refuses, AttachesNested, Attached,
       NotAttached, Reads, Replaces
  <1>7. ASSUME NEW t, NEW n, NEW l, NEW s, NEW Q,
               RunsUser(t, n, s) \/ RunsTerminate(t, n, s, l) \/ RunsErase(t, n, s, l)
                 \/ RunsEternal(t, n, s) \/ Accepting(t, n, l, Q)
        PROVE  \E u, m, R, O : Stacks(u, m, R, O)
    BY <1>3, <1>7 DEF RunsUser, RunsTerminate, RunsErase, RunsEternal, Accepting
  <1> QED BY <1>5, <1>6, <1>7 DEF Step

\* What the actions of a lifetime can become.
LEMMA ActionsStep ==
  ASSUME TypeOK, ActionsShape
  PROVE  /\ actions' \in [Lifetimes -> Seq(Action)]
         /\ \A k \in Lifetimes : \A y :
              Contains(actions'[k], y) =>
                Contains(actions[k], y) \/ (y \in Action /\ Adds(k, y) /\ Of(k, y)')
         /\ \A k \in Lifetimes :
              actions'[k] # <<>> =>
                \/ actions[k] # <<>>
                \/ ~terminated[k]
         /\ Stored /\ (\A k \in Lifetimes : Rising(actions[k])) =>
              \A k \in Lifetimes : Rising(actions'[k])
  <1> DEFINE Same(k) == actions'[k] = actions[k]
             Good(k) ==
               /\ \A y : Contains(actions'[k], y) =>
                    Contains(actions[k], y) \/ (y \in Action /\ Adds(k, y) /\ Of(k, y)')
               /\ actions'[k] # <<>> => actions[k] # <<>> \/ ~terminated[k]
               /\ Stored /\ Rising(actions[k]) => Rising(actions'[k])
  <1>1. ASSUME NEW k \in Lifetimes, Same(k) PROVE Good(k)
    BY <1>1
  <1>2. ASSUME NEW l \in 1 .. lifetimes, NEW s \in Seq(Action), Good(l),
               actions' = [actions EXCEPT ![l] = s]
        PROVE  actions' \in [Lifetimes -> Seq(Action)] /\ \A k \in Lifetimes : Good(k)
    <2>1. l \in Lifetimes
      BY Numbers
    <2>2. actions' \in [Lifetimes -> Seq(Action)] /\ \A k \in Lifetimes \ {l} : Same(k)
      BY <1>2, <2>1 DEF TypeOK
    <2> HIDE DEF Good, Same
    <2> QED BY <1>1, <1>2, <2>2
  <1>3. ASSUME UNCHANGED actions
        PROVE  actions' \in [Lifetimes -> Seq(Action)] /\ \A k \in Lifetimes : Good(k)
    <2>1. actions' \in [Lifetimes -> Seq(Action)] /\ \A k \in Lifetimes : Same(k)
      BY <1>3 DEF TypeOK
    <2> QED BY <1>1, <2>1
  <1>4. ASSUME NEW l \in 1 .. lifetimes, actions' = [actions EXCEPT ![l] = <<>>]
        PROVE  actions' \in [Lifetimes -> Seq(Action)] /\ \A k \in Lifetimes : Good(k)
    <2>1. PICK s \in Seq(Action) : s = <<>>
      <3>1. <<>> \in Seq(Action)
        OBVIOUS
      <3> QED BY <3>1
    <2>2. l \in Lifetimes /\ actions' = [actions EXCEPT ![l] = s]
      BY <1>4, <2>1, Numbers
    <2>3. actions'[l] = <<>>
      BY <2>1, <2>2 DEF TypeOK
    <2>4. Rising(<<>>) /\ \A y : ~Contains(<<>>, y)
      BY DEF Rising, Contains
    <2>5. Good(l)
      BY <2>3, <2>4
    <2> HIDE DEF Good
    <2> QED BY <1>2, <2>2, <2>5
  <1>5. ASSUME NEW l \in 1 .. lifetimes, NEW x \in Action, Adds(l, x), Of(l, x)'
        PROVE  actions' \in [Lifetimes -> Seq(Action)] /\ \A k \in Lifetimes : Good(k)
    <2>1. PICK s \in Seq(Action) : s = actions[l]
      BY Numbers DEF TypeOK
    <2>2. PICK r \in Seq(Action) : r = Append(s, x)
      BY <2>1, Appends
    <2>3. /\ r # <<>> /\ \A y : Contains(r, y) <=> Contains(s, y) \/ y = x
          /\ Rising(s) /\ x.does # "user" => Rising(r)
          /\ Rising(s) /\ (\A i \in 1 .. Len(s) : s[i].does = "user" => s[i].which < x.which)
               => Rising(r)
      BY <2>1, <2>2, Appends
    <2>4. l \in Lifetimes /\ actions' = [actions EXCEPT ![l] = r]
      BY <1>5, <2>1, <2>2, Numbers DEF Adds, AddAction
    <2>5. actions'[l] = r
      BY <2>4 DEF TypeOK
    <2>6. ASSUME Stored, Rising(s) PROVE Rising(r)
      <3>1. CASE x.does = "user"
        <4>1. x.which = Len(owner) + 1 /\ Len(owner) \in Nat
          BY <1>5, <3>1, Elements DEF Adds, TypeOK
        <4>2. ASSUME NEW i \in 1 .. Len(s), s[i].does = "user" PROVE s[i].which < x.which
          <5>1. s[i] \in Action /\ Contains(actions[l], s[i])
            BY <2>1, Elements DEF Contains
          <5>2. Of(l, s[i])
            BY <2>4, <2>6, <5>1 DEF Stored
          <5>3. s[i].which \in 1 .. Len(owner)
            BY <4>2, <5>2 DEF Of
          <5> QED BY <4>1, <5>3
        <4> QED BY <2>3, <2>6, <4>2
      <3> QED BY <2>3, <2>6, <3>1
    <2>7. ~terminated[l]
      BY <1>5 DEF Adds
    <2>8. Good(l)
      <3>1. ASSUME NEW y, Contains(actions'[l], y)
            PROVE  Contains(actions[l], y) \/ (y \in Action /\ Adds(l, y) /\ Of(l, y)')
        <4>1. Contains(s, y) \/ y = x
          BY <2>3, <2>5, <3>1
        <4> QED BY <1>5, <2>1, <4>1
      <3>2. Stored /\ Rising(actions[l]) => Rising(actions'[l])
        BY <2>1, <2>5, <2>6
      <3> QED BY <2>7, <3>1, <3>2
    <2> HIDE DEF Good
    <2> QED BY <1>2, <2>4, <2>8
  <1>6. ASSUME NEW l \in 1 .. lifetimes, NEW n \in 1 .. Len(actions[l]),
               actions' = [actions EXCEPT ![l] = RemoveAt(@, n)]
        PROVE  actions' \in [Lifetimes -> Seq(Action)] /\ \A k \in Lifetimes : Good(k)
    <2>1. PICK s \in Seq(Action) : s = actions[l]
      BY Numbers DEF TypeOK
    <2>2. n \in 1 .. Len(s)
      BY <2>1
    <2>3. PICK r \in Seq(Action) : r = RemoveAt(s, n)
      BY <2>1, <2>2, Removes
    <2>4. (\A y : Contains(r, y) => Contains(s, y)) /\ (Rising(s) => Rising(r)) /\ s # <<>>
      BY <2>1, <2>2, <2>3, Removes, Elements
    <2>5. l \in Lifetimes /\ actions' = [actions EXCEPT ![l] = r]
      BY <1>6, <2>1, <2>3, Numbers
    <2>6. actions'[l] = r
      BY <2>5 DEF TypeOK
    <2>7. Good(l)
      BY <2>1, <2>4, <2>6
    <2> HIDE DEF Good
    <2> QED BY <1>2, <2>5, <2>7
  <1>7. actions' \in [Lifetimes -> Seq(Action)] /\ \A k \in Lifetimes : Good(k)
    <2> HIDE DEF Good
    <2> QED BY <1>3, <1>4, <1>5, <1>6 DEF ActionsShape
  <1> QED BY <1>7

LEMMA StepTypes ==
  ASSUME TypeOK, Stored, Framed, Step
  PROVE  TypeOK' /\ Grows
  <1>1. Shapes
    BY StepShapes
  <1>2. stack' \in [Threads -> Seq(Frame)]
    BY StepStacks DEF Stacks, Moved
  <1>3. actions' \in [Lifetimes -> Seq(Action)]
    BY <1>1, ActionsStep DEF Shapes
  <1>4. terminated' \in [Lifetimes -> BOOLEAN] /\ \A l \in Lifetimes : terminated[l] => terminated'[l]
    <2>1. terminated \in [Lifetimes -> BOOLEAN]
      BY DEF TypeOK
    <2> QED BY <1>1, <2>1, Numbers DEF Shapes, TerminatedShape
  <1>5. /\ owner' \in Seq(Lifetimes) /\ Len(owner') \in Nat /\ Len(owner) <= Len(owner')
        /\ \A a \in 1 .. Len(owner) : owner'[a] = owner[a]
    <2>1. owner \in Seq(Lifetimes) /\ Len(owner) \in Nat
      BY Elements DEF TypeOK
    <2>2. CASE UNCHANGED owner
      BY <2>1, <2>2
    <2>3. ASSUME NEW l \in 1 .. lifetimes, owner' = Append(owner, l)
          PROVE  /\ owner' \in Seq(Lifetimes) /\ Len(owner') = Len(owner) + 1
                 /\ \A a \in 1 .. Len(owner) : owner'[a] = owner[a]
      <3>1. l \in Lifetimes
        BY Numbers
      <3> QED BY <2>1, <2>3, <3>1, AppendProperties
    <2> QED BY <1>1, <2>1, <2>2, <2>3 DEF Shapes, OwnerShape
  <1>6. ran' \in Seq(Nat)
    <2>1. ran \in Seq(Nat)
      BY DEF TypeOK
    <2>2. ASSUME NEW a \in 1 .. Len(owner), ran' = Append(ran, a) PROVE ran' \in Seq(Nat)
      <3>1. a \in Nat
        BY Elements DEF TypeOK
      <3> QED BY <2>1, <2>2, <3>1, AppendProperties
    <2> QED BY <1>1, <2>1, <2>2 DEF Shapes, RanShape
  <1>7. current' \in 0 .. MaxLifetimes
    BY <1>1, Numbers DEF Shapes
  <1>8. /\ lifetimes' \in Lifetimes /\ lifetimes' \in Nat /\ lifetimes <= lifetimes'
        /\ parent' \in [Lifetimes -> 0 .. MaxLifetimes] /\ sequential' \subseteq 2 .. lifetimes'
        /\ sequential \subseteq sequential' /\ \A l \in 2 .. lifetimes : parent'[l] = parent[l]
    <2>1. /\ lifetimes \in Lifetimes /\ parent \in [Lifetimes -> 0 .. MaxLifetimes]
          /\ sequential \subseteq 2 .. lifetimes /\ lifetimes \in Nat /\ lifetimes >= 1
          /\ 1 .. lifetimes \subseteq Lifetimes /\ 1 .. lifetimes \subseteq 0 .. MaxLifetimes
      BY Numbers DEF TypeOK, Lifetimes, Root
    <2>2. CASE UNCHANGED <<lifetimes, parent, sequential>>
      BY <2>1, <2>2
    <2>3. ASSUME NEW p \in 1 .. lifetimes,
                 lifetimes' = lifetimes + 1 /\ lifetimes + 1 \in Lifetimes,
                 parent' = [parent EXCEPT ![lifetimes + 1] = p],
                 \/ sequential' = sequential
                 \/ sequential' = sequential \union {lifetimes + 1}
          PROVE  /\ lifetimes' \in Lifetimes /\ lifetimes' \in Nat /\ lifetimes <= lifetimes'
                 /\ parent' \in [Lifetimes -> 0 .. MaxLifetimes]
                 /\ sequential' \subseteq 2 .. lifetimes' /\ sequential \subseteq sequential'
                 /\ \A l \in 2 .. lifetimes : parent'[l] = parent[l]
      <3>1. /\ lifetimes' \in Lifetimes /\ lifetimes' \in Nat /\ lifetimes <= lifetimes'
            /\ lifetimes + 1 \in 2 .. lifetimes' /\ 2 .. lifetimes \subseteq 2 .. lifetimes'
        BY <2>1, <2>3
      <3>2. parent' \in [Lifetimes -> 0 .. MaxLifetimes]
        BY <2>1, <2>3
      <3>3. sequential' \subseteq 2 .. lifetimes' /\ sequential \subseteq sequential'
        BY <2>1, <2>3, <3>1
      <3>4. \A l \in 2 .. lifetimes : l \in Lifetimes /\ l # lifetimes + 1
        BY <2>1
      <3>5. \A l \in 2 .. lifetimes : parent'[l] = parent[l]
        BY <2>1, <2>3, <3>4
      <3> QED BY <3>1, <3>2, <3>3, <3>5
    <2> QED BY <1>1, <2>2, <2>3 DEF Shapes, TreeShape
  <1> QED BY <1>2, <1>3, <1>4, <1>5, <1>6, <1>7, <1>8 DEF TypeOK, Grows

LEMMA OfGrows ==
  ASSUME TypeOK, Grows, NEW l, NEW x, Of(l, x)
  PROVE  Of(l, x)'
  <1>1. lifetimes \in Nat /\ Len(owner) \in Nat
    BY Numbers, Elements DEF TypeOK
  <1>2. 2 .. lifetimes \subseteq 2 .. lifetimes' /\ 1 .. Len(owner) \subseteq 1 .. Len(owner')
    BY <1>1 DEF Grows
  <1> QED BY <1>2 DEF Of, Grows

LEMMA SoundGrows ==
  ASSUME TypeOK, Grows, NEW f, Sound(f)
  PROVE  Sound(f)'
  <1>1. lifetimes \in Nat /\ 1 .. lifetimes \subseteq Lifetimes
    BY Numbers
  <1>2. 1 .. lifetimes \subseteq 1 .. lifetimes' /\ 2 .. lifetimes \subseteq 2 .. lifetimes'
    BY <1>1 DEF Grows
  <1>3. sequential \subseteq sequential' /\ \A l \in 1 .. lifetimes : terminated[l] => terminated'[l]
    BY <1>1 DEF Grows
  <1>4. ASSUME NEW r, SoundRun(r) PROVE SoundRun(r)'
    <2>1. PICK l \in 1 .. lifetimes :
            terminated[l] /\ \A x \in Action : Contains(r, x) => Of(l, x)
      BY <1>4 DEF SoundRun
    <2>2. \A x \in Action : Contains(r, x) => Of(l, x)'
      BY <2>1, OfGrows
    <2> QED BY <1>2, <1>3, <1>4, <2>1, <2>2 DEF SoundRun
  <1> QED BY <1>2, <1>3, <1>4 DEF Sound

LEMMA StepStored ==
  ASSUME TypeOK, TypeOK', Stored, Shapes, Grows
  PROVE  Stored'
  <1>0. /\ lifetimes \in Nat /\ lifetimes >= 1 /\ 1 .. lifetimes \subseteq Lifetimes
        /\ lifetimes' \in Nat /\ lifetimes <= lifetimes'
        /\ 1 .. lifetimes \subseteq 1 .. lifetimes' /\ sequential \subseteq 2 .. lifetimes
    BY Numbers DEF Grows, Root
  <1>1. \A l \in Lifetimes : \A x \in Action : Contains(actions'[l], x) => Of(l, x)'
    <2>1. \A l \in Lifetimes : \A x : Contains(actions'[l], x) =>
            Contains(actions[l], x) \/ Of(l, x)'
      BY ActionsStep DEF Shapes
    <2>2. \A l \in Lifetimes : \A x \in Action : Contains(actions[l], x) => Of(l, x)
      BY DEF Stored
    <2>3. \A l, x : Of(l, x) => Of(l, x)'
      BY OfGrows
    <2> QED BY <2>1, <2>2, <2>3
  <1>2. \A l \in Lifetimes : l > lifetimes' => ~terminated'[l]
    <2>1. SUFFICES ASSUME NEW l \in Lifetimes, l > lifetimes' PROVE ~terminated'[l]
      OBVIOUS
    <2>2. l > lifetimes /\ l \notin 1 .. lifetimes
      BY <1>0, <2>1 DEF Lifetimes
    <2>3. ~terminated[l]
      BY <2>2 DEF Stored
    <2>4. terminated'[l] = terminated[l]
      BY <2>2 DEF Shapes, TerminatedShape, TypeOK
    <2> QED BY <2>3, <2>4
  <1>3. /\ \A l \in 2 .. lifetimes' : parent'[l] \in 1 .. lifetimes'
        /\ \A l \in sequential' : parent'[l] = Root
    <2>1. CASE UNCHANGED <<lifetimes, parent, sequential>>
      BY <2>1 DEF Stored
    <2>2. ASSUME NEW p \in 1 .. lifetimes, lifetimes' = lifetimes + 1,
                 lifetimes + 1 \in Lifetimes,
                 parent' = [parent EXCEPT ![lifetimes + 1] = p],
                 \/ sequential' = sequential
                 \/ p = Root /\ sequential' = sequential \union {lifetimes + 1}
          PROVE  /\ \A l \in 2 .. lifetimes' : parent'[l] \in 1 .. lifetimes'
                 /\ \A l \in sequential' : parent'[l] = Root
      <3>1. /\ parent'[lifetimes + 1] = p
            /\ \A l \in 2 .. lifetimes : parent'[l] = parent[l]
        BY <2>2 DEF Grows, TypeOK
      <3>2. p \in 1 .. lifetimes'
        BY <1>0
      <3>3. \A l \in 2 .. lifetimes : parent[l] \in 1 .. lifetimes'
        BY <1>0 DEF Stored
      <3>4. \A l \in 2 .. lifetimes' : l \in 2 .. lifetimes \/ l = lifetimes + 1
        BY <1>0, <2>2
      <3>5. \A l \in sequential : parent'[l] = Root
        BY <1>0, <3>1 DEF Stored
      <3> QED BY <2>2, <3>1, <3>2, <3>3, <3>4, <3>5
    <2> QED BY <2>1, <2>2 DEF Shapes, TreeShape
  <1>4. current' \in {Eternal} \union sequential'
    BY DEF Shapes, Grows
  <1>5. \A a \in 1 .. Len(owner') : owner'[a] \in 1 .. lifetimes'
    <2>1. owner \in Seq(Lifetimes) /\ Len(owner) \in Nat
      BY Elements DEF TypeOK
    <2>2. \A a \in 1 .. Len(owner) : owner[a] \in 1 .. lifetimes'
      BY <1>0 DEF Stored
    <2>3. CASE UNCHANGED owner
      BY <2>2, <2>3
    <2>4. ASSUME NEW l \in 1 .. lifetimes, owner' = Append(owner, l)
          PROVE  \A a \in 1 .. Len(owner') : owner'[a] \in 1 .. lifetimes'
      <3>1. /\ Len(owner') = Len(owner) + 1 /\ owner'[Len(owner) + 1] = l
            /\ \A a \in 1 .. Len(owner) : owner'[a] = owner[a]
        BY <1>0, <2>1, <2>4, AppendProperties
      <3>2. \A a \in 1 .. Len(owner) + 1 : a \in 1 .. Len(owner) \/ a = Len(owner) + 1
        BY <2>1
      <3> QED BY <1>0, <2>2, <3>1, <3>2
    <2> QED BY <2>3, <2>4 DEF Shapes, OwnerShape
  <1>6. \A i \in 1 .. Len(ran') : ran'[i] \in 1 .. Len(owner') /\ terminated'[owner'[ran'[i]]]
    <2>1. ran \in Seq(Nat) /\ Len(ran) \in Nat /\ Len(owner) \in Nat
      BY Elements DEF TypeOK
    <2>2. ASSUME NEW a \in 1 .. Len(owner), terminated[owner[a]]
          PROVE  a \in 1 .. Len(owner') /\ terminated'[owner'[a]]
      <3>1. owner'[a] = owner[a] /\ owner[a] \in Lifetimes /\ a \in 1 .. Len(owner')
        BY <1>0, <2>1 DEF Grows, Stored
      <3> QED BY <2>2, <3>1 DEF Grows
    <2>3. \A i \in 1 .. Len(ran) : ran[i] \in 1 .. Len(owner') /\ terminated'[owner'[ran[i]]]
      BY <2>2 DEF Stored
    <2>4. CASE UNCHANGED ran
      BY <2>3, <2>4
    <2>5. ASSUME NEW a \in 1 .. Len(owner), ran' = Append(ran, a), terminated[owner[a]]
          PROVE  \A i \in 1 .. Len(ran') : ran'[i] \in 1 .. Len(owner') /\ terminated'[owner'[ran'[i]]]
      <3>1. a \in Nat
        BY <2>1
      <3>2. /\ Len(ran') = Len(ran) + 1 /\ ran'[Len(ran) + 1] = a
            /\ \A i \in 1 .. Len(ran) : ran'[i] = ran[i]
        BY <2>1, <2>5, <3>1, AppendProperties
      <3>3. \A i \in 1 .. Len(ran) + 1 : i \in 1 .. Len(ran) \/ i = Len(ran) + 1
        BY <2>1
      <3>4. a \in 1 .. Len(owner') /\ terminated'[owner'[a]]
        BY <2>2, <2>5
      <3> QED BY <2>3, <3>2, <3>3, <3>4
    <2> QED BY <2>4, <2>5 DEF Shapes, RanShape
  <1> QED BY <1>1, <1>2, <1>3, <1>4, <1>5, <1>6 DEF Stored

-----------------------------------------------------------------------------
(* What every step does to the frames.                                     *)

Puts(S) == \A f \in S : Sound(f)' /\ (f.op = "run" => Falling(f.rest))
Begins(S) == \A l \in Lifetimes : terminated'[l] => terminated[l] \/ Rec("take", l) \in S

\* The frames of a lifetime.
LEMMA PutsRec ==
  ASSUME NEW l, NEW o \in {"take", "close", "attach", "current"},
         o \in {"take", "close"} => l \in 1 .. lifetimes',
         o = "take" => terminated'[l],
         o = "attach" => l \in 2 .. lifetimes',
         o = "current" => l \in {Eternal} \union sequential'
  PROVE  Puts({Rec(o, l)})
  <1>1. Rec(o, l).op = o /\ Rec(o, l).lifetime = l
    BY DEF Rec
  <1>2. Sound(Rec(o, l))'
    BY <1>1 DEF Sound, Rec
  <1> QED BY <1>1, <1>2 DEF Puts

\* The frame of what is left to run.
LEMMA PutsRun ==
  ASSUME NEW s \in Seq(Action), Falling(s),
         s # <<>> => \E l \in 1 .. lifetimes' :
                       terminated'[l] /\ \A x \in Action : Contains(s, x) => Of(l, x)'
  PROVE  Puts(RunSet(s))
  <1>1. CASE s = <<>>
    BY <1>1 DEF Puts, RunSet
  <1>2. CASE s # <<>>
    <2> DEFINE f == [op |-> "run", rest |-> s]
    <2>1. f.op = "run" /\ f.rest = s /\ RunSet(s) = {f}
      BY <1>2 DEF RunSet
    <2> HIDE DEF f
    <2>2. SoundRun(s)'
      BY <1>2 DEF SoundRun
    <2>3. Sound(f)'
      BY <2>1, <2>2 DEF Sound, f
    <2> QED BY <2>1, <2>3 DEF Puts
  <1> QED BY <1>1, <1>2

LEMMA PutsBoth ==
  ASSUME NEW S, NEW T, Puts(S), Puts(T)
  PROVE  Puts(S \union T) /\ Puts({})
  BY DEF Puts

\* What runs actions leaves those it has not run.
LEMMA PutsRest ==
  ASSUME TypeOK, Framed, Sorted, Grows, NEW t \in Threads, NEW n \in Nat,
         NEW s \in Seq(Action), NEW o, NEW S, RunsOne(t, n, s, o, S)
  PROVE  Puts(RunSet(Tail(s)))
  <1>1. /\ s # <<>> /\ stack[t][n].rest = s /\ Place(t, n) /\ stack[t][n].op = "run"
    BY DEF RunsOne, Pops
  <1>2. PICK l \in 1 .. lifetimes :
          terminated[l] /\ \A x \in Action : Contains(s, x) => Of(l, x)
    BY <1>1, HeadOf
  <1>3. /\ Tail(s) \in Seq(Action) /\ (Falling(s) => Falling(Tail(s)))
        /\ \A y : Contains(Tail(s), y) => Contains(s, y)
    BY <1>1, Tails
  <1>4. Falling(s)
    <2>1. n \in Running(t)
      BY <1>1 DEF Running, Place
    <2> QED BY <1>1, <2>1 DEF Sorted
  <1>5. l \in 1 .. lifetimes' /\ terminated'[l]
    BY <1>2, Numbers DEF Grows
  <1>6. \A x \in Action : Contains(Tail(s), x) => Of(l, x)'
    BY <1>2, <1>3, OfGrows
  <1> QED BY <1>3, <1>4, <1>5, <1>6, PutsRun

LEMMA FramedStep ==
  ASSUME TypeOK, Framed, Grows, NEW t, NEW m, NEW S, Moved(t, m, S), Puts(S)
  PROVE  Framed'
  <1>1. SUFFICES ASSUME NEW u \in Threads, NEW k \in 1 .. Len(stack'[u])
                 PROVE  \E f : f = stack'[u][k] /\ Sound(f)'
    BY DEF Framed
  <1>2. k \in Nat /\ Place(u, k)'
    BY DEF Place
  <1>3. CASE Place(u, k) /\ (u # t \/ k <= m)
    <2>1. stack'[u][k] = stack[u][k]
      BY <1>2, <1>3 DEF Moved
    <2>2. PICK f : f = stack[u][k]
      OBVIOUS
    <2>3. Sound(f)
      BY <1>2, <1>3, <2>2, TopSound
    <2>4. Sound(f)'
      BY <2>3, SoundGrows
    <2> QED BY <2>1, <2>2, <2>4
  <1>4. CASE stack'[u][k] \in S
    <2>1. PICK f : f = stack'[u][k]
      OBVIOUS
    <2>2. Sound(f)'
      BY <1>4, <2>1 DEF Puts
    <2> QED BY <2>1, <2>2
  <1> QED BY <1>2, <1>3, <1>4 DEF Moved

LEMMA SortedStep ==
  ASSUME TypeOK, Stored, Sorted, Shapes, NEW t, NEW m, NEW S, Moved(t, m, S), Puts(S)
  PROVE  Sorted'
  <1>1. \A l \in Lifetimes : Rising(actions'[l])
    BY ActionsStep DEF Sorted, Shapes
  <1>2. ASSUME NEW u \in Threads, NEW k \in Running(u)'
        PROVE  Falling(stack'[u][k].rest)
    <2>1. k \in Nat /\ Place(u, k)' /\ stack'[u][k].op = "run"
      BY DEF Place, Running
    <2>2. CASE Place(u, k) /\ (u # t \/ k <= m)
      <3>1. stack'[u][k] = stack[u][k]
        BY <2>1, <2>2 DEF Moved
      <3>2. k \in Running(u)
        BY <2>1, <2>2, <3>1 DEF Running, Place
      <3> QED BY <3>1, <3>2 DEF Sorted
    <2>3. CASE stack'[u][k] \in S
      BY <2>1, <2>3 DEF Puts
    <2> QED BY <2>1, <2>2, <2>3 DEF Moved
  <1> QED BY <1>1, <1>2 DEF Sorted

Exchanges(t, m, S, O) == t \in Threads /\ Stacks(t, m, S, O) /\ Puts(S)
Quiets == \E t, m, S, O : Exchanges(t, m, S, O) /\ "take" \notin O /\ Begins(S)

LEMMA BeginsNone == UNCHANGED terminated => \A S : Begins(S)
  BY DEF Begins

LEMMA QuietsBy ==
  ASSUME NEW t \in Threads, NEW m, NEW S, NEW O, Stacks(t, m, S, O), Puts(S),
         "take" \notin O, UNCHANGED terminated
  PROVE  Quiets
  BY BeginsNone DEF Quiets, Exchanges

\* A termination begins with the flag and the frame that takes the actions.
LEMMA BeginsOne ==
  ASSUME TypeOK, NEW l \in 1 .. lifetimes, terminated' = [terminated EXCEPT ![l] = TRUE],
         NEW S, Rec("take", l) \in S
  PROVE  Begins(S) /\ terminated'[l]
  <1>1. l \in Lifetimes
    BY Numbers
  <1>2. terminated'[l] /\ \A k \in Lifetimes \ {l} : terminated'[k] = terminated[k]
    BY <1>1 DEF TypeOK
  <1> QED BY <1>2 DEF Begins

LEMMA RunsQuiet ==
  ASSUME TypeOK, Framed, Sorted, Grows, NEW t \in Threads, NEW n \in Nat,
         NEW s \in Seq(Action), NEW o, NEW S, RunsOne(t, n, s, o, S), Puts(S),
         Begins(RunSet(Tail(s)) \union S)
  PROVE  Quiets
  <1>1. Stacks(t, n - 1, RunSet(Tail(s)) \union S, {"run"})
    BY DEF RunsOne, Pops
  <1>2. Puts(RunSet(Tail(s)) \union S)
    BY PutsRest, PutsBoth
  <1>3. "take" \notin {"run"}
    OBVIOUS
  <1> QED BY <1>1, <1>2, <1>3 DEF Quiets, Exchanges

LEMMA TakeoverPuts ==
  ASSUME TypeOK, Stored, Framed, Sorted, Grows, NEW t \in Threads, NEW n \in Nat,
         NEW l \in 1 .. lifetimes, Takeover(t, n, l)
  PROVE  Exchanges(t, n - 1, RunSet(RunOrder(actions[l])), {"take"}) /\ terminated[l]
  <1>1. /\ stack[t][n] = Rec("take", l) /\ Place(t, n)
        /\ Stacks(t, n - 1, RunSet(RunOrder(actions[l])), {"take"})
    BY DEF Takeover, Pops
  <1>2. l \in Lifetimes /\ actions[l] \in Seq(Action) /\ l \in 1 .. lifetimes'
    <2>1. l \in Lifetimes /\ l \in 1 .. lifetimes'
      BY Numbers DEF Grows
    <2> QED BY <2>1 DEF TypeOK
  <1>3. terminated[l]
    BY <1>1, TopSound DEF Sound, Rec
  <1>4. PICK s \in Seq(Action) : s = actions[l]
    BY <1>2
  <1>5. PICK r \in Seq(Action) : r = RunOrder(s)
    BY Reversed
  <1>6. (\A y : Contains(r, y) <=> Contains(s, y)) /\ Falling(r)
    BY <1>2, <1>4, <1>5, Reversed DEF Sorted
  <1>7. \A x \in Action : Contains(r, x) => Of(l, x)'
    BY <1>2, <1>4, <1>6, OfGrows DEF Stored
  <1>8. terminated'[l]
    BY <1>2, <1>3 DEF Grows
  <1>9. Puts(RunSet(r))
    BY <1>2, <1>6, <1>7, <1>8, PutsRun
  <1>10. RunSet(r) = RunSet(RunOrder(actions[l]))
    BY <1>4, <1>5
  <1>11. PICK S : S = RunSet(RunOrder(actions[l])) /\ Puts(S)
    <2>1. PICK S : S = RunSet(r) /\ Puts(S)
      BY <1>9
    <2> QED BY <1>10, <2>1, Zenon
  <1>12. Stacks(t, n - 1, S, {"take"})
    BY <1>1, <1>11
  <1>13. Exchanges(t, n - 1, S, {"take"})
    BY <1>11, <1>12 DEF Exchanges
  <1> QED BY <1>3, <1>11, <1>13

LEMMA StepMoves ==
  ASSUME TypeOK, Stored, Framed, Sorted, Grows, Step
  PROVE  \/ Quiets
         \/ \E t \in Threads, n \in Nat, l \in 1 .. lifetimes : Takeover(t, n, l)
  <1>0. 1 .. lifetimes \subseteq 1 .. lifetimes' /\ 2 .. lifetimes \subseteq 2 .. lifetimes'
    BY Numbers DEF Grows
  <1>e. Puts({}) /\ "take" \notin {} /\ "take" \notin {"attach"} /\ "take" \notin {"close"}
        /\ "take" \notin {"current"} /\ "take" \notin {"replace"}
        /\ "take" \notin {"attach", "current"}
    BY DEF Puts
  <1>1. ASSUME NEW t \in Threads, NEW l \in 1 .. lifetimes, Terminates(t, l) PROVE Quiets
    <2>1. Stacks(t, 0, {Rec("take", l)}, {}) /\ terminated' = [terminated EXCEPT ![l] = TRUE]
      BY <1>1 DEF Terminates
    <2>2. Begins({Rec("take", l)}) /\ terminated'[l]
      BY <2>1, BeginsOne
    <2>3. Puts({Rec("take", l)})
      BY <1>0, <2>2, PutsRec
    <2> QED BY <1>e, <2>1, <2>2, <2>3 DEF Quiets, Exchanges
  <1>2. ASSUME NEW t \in Threads, NEW l \in 1 .. lifetimes, Opens(t, l) PROVE Quiets
    <2>1. Stacks(t, 0, {Rec("close", l)}, {}) /\ UNCHANGED terminated
      BY <1>2 DEF Opens, Quiet
    <2>2. Puts({Rec("close", l)})
      BY <1>0, PutsRec
    <2> QED BY <1>e, <2>1, <2>2, QuietsBy
  <1>4. ASSUME NEW t \in Threads, NEW n \in Nat, NEW s \in Seq(Action), RunsUser(t, n, s)
        PROVE  Quiets
    <2>1. RunsOne(t, n, s, "user", {}) /\ UNCHANGED terminated
      BY <1>4 DEF RunsUser
    <2>2. Begins(RunSet(Tail(s)) \union {})
      BY <2>1, BeginsNone
    <2> QED BY <1>e, <2>1, <2>2, RunsQuiet
  <1>5. ASSUME NEW t \in Threads, NEW n \in Nat, NEW s \in Seq(Action), NEW l \in 1 .. lifetimes,
               RunsTerminate(t, n, s, l)
        PROVE  Quiets
    <2>1. /\ RunsOne(t, n, s, "terminate", {Rec("take", l)})
          /\ terminated' = [terminated EXCEPT ![l] = TRUE]
      BY <1>5 DEF RunsTerminate
    <2>2. Begins(RunSet(Tail(s)) \union {Rec("take", l)}) /\ terminated'[l]
      BY <2>1, BeginsOne
    <2>3. Puts({Rec("take", l)})
      BY <1>0, <2>2, PutsRec
    <2> QED BY <2>1, <2>2, <2>3, RunsQuiet
  <1>6. ASSUME NEW t \in Threads, NEW n \in Nat, NEW s \in Seq(Action), NEW l \in 1 .. lifetimes,
               RunsErase(t, n, s, l)
        PROVE  Quiets
    <2>1. RunsOne(t, n, s, "erase", {}) /\ UNCHANGED terminated
      BY <1>6 DEF RunsErase
    <2>2. Begins(RunSet(Tail(s)) \union {})
      BY <2>1, BeginsNone
    <2> QED BY <1>e, <2>1, <2>2, RunsQuiet
  <1>7. ASSUME NEW t \in Threads, NEW n \in Nat, NEW s \in Seq(Action), RunsEternal(t, n, s)
        PROVE  Quiets
    <2>1. RunsOne(t, n, s, "eternal", {Rec("current", Eternal)}) /\ UNCHANGED terminated
      BY <1>7 DEF RunsEternal
    <2>2. Begins(RunSet(Tail(s)) \union {Rec("current", Eternal)})
      BY <2>1, BeginsNone
    <2>3. Puts({Rec("current", Eternal)})
      BY PutsRec
    <2> QED BY <2>1, <2>2, <2>3, RunsQuiet
  <1>8. ASSUME NEW t \in Threads, NEW m \in Nat, NEW l \in 1 .. lifetimes,
               NEW O \in SUBSET {"close"}, Accepting(t, m, l, O)
        PROVE  Quiets
    <2>1. Stacks(t, m, {}, O) /\ UNCHANGED terminated /\ "take" \notin O
      BY <1>8 DEF Accepting
    <2> QED BY <1>e, <2>1, QuietsBy
  <1>9. ASSUME NEW t \in Threads, NEW n \in Nat, Refuses(t, n) PROVE Quiets
    <2>1. Stacks(t, n - 1, {}, {"close"}) /\ UNCHANGED terminated
      BY <1>9 DEF Refuses, Quiet
    <2> QED BY <1>e, <2>1, QuietsBy
  <1>10. ASSUME NEW t \in Threads, NEW p \in 1 .. lifetimes, NEW l, Attaches(t, p, l, {})
         PROVE  Quiets
    <2>1. Stacks(t, 0, {Rec("attach", l)}, {}) /\ UNCHANGED terminated
      BY <1>10 DEF Attaches
    <2>2. l \in 2 .. lifetimes'
      BY <1>10, Numbers DEF Attaches
    <2>3. Puts({Rec("attach", l)})
      BY <2>2, PutsRec
    <2> QED BY <1>e, <2>1, <2>3, QuietsBy
  <1>11. ASSUME NEW l, AttachesNext(l) PROVE Quiets
    <2>1. /\ Stacks(Viewer, 0, {Rec("current", l)} \union {Rec("attach", l)}, {})
          /\ UNCHANGED terminated /\ Viewer \in Threads /\ l \in sequential'
      BY <1>11, LifetimesAssumption DEF AttachesNext, Attaches
    <2>2. l \in 2 .. lifetimes'
      BY <1>11, Numbers DEF AttachesNext, Attaches
    <2>3. Puts({Rec("attach", l)}) /\ Puts({Rec("current", l)})
      BY <2>1, <2>2, PutsRec
    <2>4. Puts({Rec("current", l)} \union {Rec("attach", l)})
      BY <2>3, PutsBoth
    <2> QED BY <1>e, <2>1, <2>4, QuietsBy
  <1>12. ASSUME NEW t \in Threads, NEW n \in Nat, NEW l \in 2 .. lifetimes, Attached(t, n, l)
         PROVE  Quiets
    <2>1. Stacks(t, n - 1, {}, {"attach"}) /\ UNCHANGED terminated
      BY <1>12 DEF Attached, Pops
    <2> QED BY <1>e, <2>1, QuietsBy
  <1>13. ASSUME NEW t \in Threads, NEW n, NEW l, NotAttached(t, n, l) PROVE Quiets
    <2>1. Stacks(t, 0, {}, {"attach", "current"}) /\ UNCHANGED terminated
      BY <1>13 DEF NotAttached, Quiet
    <2> QED BY <1>e, <2>1, QuietsBy
  <1>14. ASSUME NEW t \in Threads, NEW n \in Nat, NEW l \in {Eternal} \union sequential,
                Reads(t, n, l)
         PROVE  Quiets
    <2>1. PICK f : f = [op |-> "replace", lifetime |-> l, previous |-> current]
      OBVIOUS
    <2>2. f.op = "replace" /\ f.lifetime = l /\ f.previous = current
      BY <2>1
    <2>3. Stacks(t, n - 1, {f}, {"current"}) /\ UNCHANGED <<terminated, sequential, current>>
      BY <1>14, <2>1 DEF Reads, Quiet
    <2>4. Puts({f})
      <3>1. l \in {Eternal} \union sequential' /\ current \in {Eternal} \union sequential'
        BY <2>3 DEF Stored
      <3> QED BY <2>2, <3>1 DEF Puts, Sound
    <2> QED BY <1>e, <2>3, <2>4, QuietsBy
  <1>15. ASSUME NEW t \in Threads, NEW n \in Nat, NEW l \in {Eternal} \union sequential,
                NEW p \in {Eternal} \union sequential, Replaces(t, n, l, p)
         PROVE  Quiets
    <2>1. CASE p = Eternal
      <3>1. Stacks(t, n - 1, {}, {"replace"}) /\ UNCHANGED terminated
        BY <1>15, <2>1 DEF Replaces, Pops
      <3> QED BY <1>e, <3>1, QuietsBy
    <2>2. CASE p # Eternal
      <3>1. Stacks(t, n - 1, {Rec("take", p)}, {"replace"})
            /\ terminated' = [terminated EXCEPT ![p] = TRUE]
        BY <1>15, <2>2 DEF Replaces, Pops
      <3>2. p \in 1 .. lifetimes
        BY <2>2, Numbers
      <3>3. Begins({Rec("take", p)}) /\ terminated'[p]
        BY <3>1, <3>2, BeginsOne
      <3>4. Puts({Rec("take", p)})
        BY <1>0, <3>2, <3>3, PutsRec
      <3> QED BY <1>e, <3>1, <3>3, <3>4 DEF Quiets, Exchanges
    <2> QED BY <2>1, <2>2
  <1>16. CASE Empties
    <2>1. Stacks(Viewer, 0, {Rec("current", Eternal)}, {}) /\ UNCHANGED terminated
          /\ Viewer \in Threads
      BY <1>16, LifetimesAssumption DEF Empties, Quiet
    <2>2. Puts({Rec("current", Eternal)})
      BY PutsRec
    <2> QED BY <1>e, <2>1, <2>2, QuietsBy
  <1>17. ASSUME NEW t \in Threads, NEW p \in 1 .. lifetimes, AttachesNested(t, p, lifetimes + 1)
         PROVE  Quiets
    BY <1>10, <1>17 DEF AttachesNested
  <1> QED
    BY <1>1, <1>2, <1>4, <1>5, <1>6, <1>7, <1>8, <1>9, <1>11, <1>12, <1>13, <1>14, <1>15,
       <1>16, <1>17 DEF Step

\* What the lifetimes that have been terminated have.
LEMMA TakesKept ==
  ASSUME NEW t, NEW m, NEW S, NEW O, Stacks(t, m, S, O), "take" \notin O,
         NEW l, Takes(l)
  PROVE  Takes(l)'
  <1>1. PICK u \in Threads, k \in Nat : Place(u, k) /\ stack[u][k] = [op |-> "take", lifetime |-> l]
    BY DEF Takes, Place
  <1>2. stack[u][k].op = "take"
    BY <1>1
  <1>3. u # t \/ k <= m
    <2>1. CASE u = t /\ k > m
      BY <1>1, <1>2, <2>1 DEF Stacks, Leaves
    <2>2. m \in Nat
      BY DEF Stacks, Moved
    <2> QED BY <1>2, <2>1, <2>2
  <1>4. Place(u, k)' /\ stack'[u][k] = stack[u][k]
    BY <1>1, <1>3 DEF Stacks, Moved
  <1> QED BY <1>1, <1>4 DEF Takes, Place

LEMMA TakesNew ==
  ASSUME NEW t, NEW m, NEW S, Moved(t, m, S), NEW l, Rec("take", l) \in S
  PROVE  Takes(l)'
  <1>1. PICK k \in Nat : Place(t, k)' /\ stack'[t][k] = Rec("take", l)
    BY DEF Moved
  <1> QED BY <1>1 DEF Takes, Place, Rec

LEMMA StepEmptied ==
  ASSUME TypeOK, Stored, Framed, Sorted, Emptied, Grows, Shapes, Step
  PROVE  Emptied'
  <1>1. SUFFICES ASSUME NEW l \in Lifetimes, terminated'[l], actions'[l] # <<>>
                 PROVE  Takes(l)'
    BY DEF Emptied
  <1>2. actions[l] # <<>> \/ ~terminated[l]
    BY <1>1, ActionsStep DEF Shapes
  <1>3. CASE Quiets
    <2>1. PICK t, m, S, O : Exchanges(t, m, S, O) /\ "take" \notin O /\ Begins(S)
      BY <1>3 DEF Quiets
    <2>2. CASE terminated[l]
      BY <1>2, <2>1, <2>2, TakesKept DEF Emptied, Exchanges
    <2>3. CASE Rec("take", l) \in S
      BY <2>1, <2>3, TakesNew DEF Exchanges, Stacks
    <2> QED BY <1>1, <2>1, <2>2, <2>3 DEF Begins
  <1>4. ASSUME NEW t \in Threads, NEW n \in Nat, NEW k \in 1 .. lifetimes, Takeover(t, n, k)
        PROVE  Takes(l)'
    <2>1. /\ stack[t][n] = Rec("take", k) /\ actions' = [actions EXCEPT ![k] = <<>>]
          /\ Stacks(t, n - 1, RunSet(RunOrder(actions[k])), {"take"}) /\ UNCHANGED terminated
      BY <1>4 DEF Takeover, Pops
    <2>2. l # k
      BY <1>1, <2>1 DEF TypeOK
    <2>3. PICK u \in Threads, j \in Nat : Place(u, j) /\ stack[u][j] = Rec("take", l)
      BY <1>1, <1>2, <2>1 DEF Emptied, Takes, Rec, Place
    <2>4. j \in Nat /\ j <= Len(stack[u])
      BY <2>3 DEF Place
    <2>5. u # t \/ j <= n - 1
      <3>1. Rec("take", l) # Rec("take", k)
        BY <2>2 DEF Rec
      <3>2. Len(stack[t]) \in Nat
        BY Places
      <3>3. stack[t][n] # Rec("take", l)
        BY <2>1, <3>1
      <3>4. CASE u = t /\ j > n - 1
        <4>1. n = Len(stack[t])
          BY <1>4 DEF Takeover, Pops
        <4> QED BY <2>3, <2>4, <3>2, <3>3, <3>4, <4>1
      <3> QED BY <2>4, <3>4
    <2>6. Place(u, j)' /\ stack'[u][j] = stack[u][j]
      BY <2>1, <2>3, <2>5 DEF Stacks, Moved
    <2> QED BY <2>3, <2>6 DEF Takes, Place, Rec
  <1> QED BY <1>3, <1>4, StepMoves

-----------------------------------------------------------------------------
(* What every step does to the actions that have been taken.               *)

\* A step that leaves the runs where they are.
Restful == \E t, m, S, O : Stacks(t, m, S, O) /\ "run" \notin O /\ \A f \in S : f.op # "run"
Alike(u, k, x) == Rest(u, k, x)' <=> Rest(u, k, x)

LEMMA RestPlace ==
  ASSUME NEW u \in Threads, NEW k \in Nat, NEW x
  PROVE  /\ Rest(u, k, x) <=> Place(u, k) /\ stack[u][k].op = "run" /\ Contains(stack[u][k].rest, x)
         /\ Rest(u, k, x)' <=> Place(u, k)' /\ stack'[u][k].op = "run" /\ Contains(stack'[u][k].rest, x)
  BY DEF Rest, Running, Place

LEMMA RestKept ==
  ASSUME Restful, NEW u \in Threads, NEW k \in Nat, NEW x
  PROVE  Alike(u, k, x)
  <1>1. PICK t, m, S, O : Stacks(t, m, S, O) /\ "run" \notin O /\ \A f \in S : f.op # "run"
    BY DEF Restful
  <1>2. /\ m \in Nat /\ t \in Threads
        /\ Place(u, k) /\ (u # t \/ k <= m) => Place(u, k)' /\ stack'[u][k] = stack[u][k]
        /\ Place(u, k)' => \/ Place(u, k) /\ (u # t \/ k <= m)
                           \/ u = t /\ k > m /\ stack'[u][k] \in S
        /\ u = t /\ k > m /\ Place(u, k) => stack[u][k].op \in O
    BY <1>1 DEF Stacks, Moved, Leaves
  <1>3. ASSUME Rest(u, k, x) PROVE Rest(u, k, x)'
    BY <1>1, <1>2, <1>3, RestPlace
  <1>4. ASSUME Rest(u, k, x)' PROVE Rest(u, k, x)
    <2>1. /\ Place(u, k)' /\ stack'[u][k].op = "run" /\ Contains(stack'[u][k].rest, x)
      BY <1>4, RestPlace
    <2>2. stack'[u][k] \notin S
      BY <1>1, <2>1
    <2>3. stack'[u][k] = stack[u][k] /\ Place(u, k)
      BY <1>2, <2>1, <2>2
    <2> QED BY <2>1, <2>3, RestPlace
  <1> QED BY <1>3, <1>4 DEF Alike

\* The run at the head of the stack loses its first action.
LEMMA RestRuns ==
  ASSUME TypeOK, NEW t \in Threads, NEW n \in Nat, NEW s \in Seq(Action), NEW o, NEW S,
         RunsOne(t, n, s, o, S), \A f \in S : f.op # "run",
         NEW u \in Threads, NEW k \in Nat, NEW x
  PROVE  /\ u = t /\ k = n => (Rest(u, k, x) <=> Contains(s, x))
         /\ Rest(u, k, x)' => Rest(u, k, x) /\ (u = t /\ k = n => Contains(Tail(s), x))
         /\ Rest(u, k, x) => Rest(u, k, x)' \/ (u = t /\ k = n /\ x = Head(s))
  <1>1. /\ s # <<>> /\ stack[t][n].rest = s /\ Place(t, n) /\ stack[t][n].op = "run"
        /\ n = Len(stack[t]) /\ n - 1 \in Nat
        /\ Stacks(t, n - 1, RunSet(Tail(s)) \union S, {"run"})
    BY DEF RunsOne, Pops
  <1> DEFINE R == RunSet(Tail(s)) \union S
  <1>2. \A f \in R : f.op = "run" => /\ Tail(s) # <<>>
                                     /\ f = [op |-> "run", rest |-> Tail(s)] /\ f.rest = Tail(s)
    <2>1. \A f \in RunSet(Tail(s)) : Tail(s) # <<>> /\ f = [op |-> "run", rest |-> Tail(s)]
      BY DEF RunSet
    <2> QED BY <2>1
  <1>3. Tail(s) # <<>> => [op |-> "run", rest |-> Tail(s)] \in R
    BY DEF RunSet
  <1> HIDE DEF R
  <1>4. /\ Place(u, k) /\ (u # t \/ k <= n - 1) => Place(u, k)' /\ stack'[u][k] = stack[u][k]
        /\ Place(u, k)' => \/ Place(u, k) /\ (u # t \/ k <= n - 1)
                           \/ u = t /\ k > n - 1 /\ stack'[u][k] \in R
        /\ \A j \in Nat : Place(t, j)' /\ j > n - 1 /\ stack'[t][j].op = "run" => j = (n - 1) + 1
        /\ \A f \in R : \E j \in Nat : Place(t, j)' /\ j > n - 1 /\ stack'[t][j] = f
    BY <1>1 DEF Stacks, Moved, R
  <1>5. u = t /\ k = n => (Rest(u, k, x) <=> Contains(s, x))
    BY <1>1, RestPlace
  <1>6. (n - 1) + 1 = n
    OBVIOUS
  <1>7. /\ \A y : Contains(Tail(s), y) => Contains(s, y)
        /\ \A y : Contains(s, y) => y = Head(s) \/ Contains(Tail(s), y)
    BY <1>1, Tails
  <1>8. ASSUME Rest(u, k, x)'
        PROVE  Rest(u, k, x) /\ (u = t /\ k = n => Contains(Tail(s), x))
    <2>1. /\ Place(u, k)' /\ stack'[u][k].op = "run" /\ Contains(stack'[u][k].rest, x)
      BY <1>8, RestPlace
    <2>2. CASE Place(u, k) /\ (u # t \/ k <= n - 1)
      <3>1. stack'[u][k] = stack[u][k]
        BY <1>4, <2>2
      <3>2. ~(u = t /\ k = n)
        BY <2>2
      <3> QED BY <2>1, <2>2, <3>1, <3>2, RestPlace
    <2>3. CASE u = t /\ k > n - 1 /\ stack'[u][k] \in R
      <3>1. k = n
        BY <1>4, <1>6, <2>1, <2>3
      <3>2. Contains(Tail(s), x)
        BY <1>2, <2>1, <2>3
      <3> QED BY <1>5, <1>7, <2>3, <3>1, <3>2
    <2> QED BY <1>4, <2>1, <2>2, <2>3
  <1>9. ASSUME Rest(u, k, x), ~(u = t /\ k = n /\ x = Head(s))
        PROVE  Rest(u, k, x)'
    <2>1. /\ Place(u, k) /\ stack[u][k].op = "run" /\ Contains(stack[u][k].rest, x)
      BY <1>9, RestPlace
    <2>2. CASE u # t \/ k <= n - 1
      <3>1. stack'[u][k] = stack[u][k] /\ Place(u, k)'
        BY <1>4, <2>1, <2>2
      <3> QED BY <2>1, <3>1, RestPlace
    <2>3. CASE u = t /\ ~(k <= n - 1)
      <3>1. k = n
        BY <1>1, <2>1, <2>3 DEF Place
      <3>2. Contains(Tail(s), x)
        BY <1>5, <1>7, <1>9, <2>3, <3>1
      <3>3. Tail(s) # <<>>
        BY <1>1, <3>2, Tails, NotEmpty
      <3>4. PICK f : f = [op |-> "run", rest |-> Tail(s)]
        OBVIOUS
      <3>5. f.op = "run" /\ f.rest = Tail(s) /\ f \in R
        BY <1>3, <3>3, <3>4
      <3>6. PICK j \in Nat : Place(t, j)' /\ j > n - 1 /\ stack'[t][j] = f
        BY <1>4, <3>5
      <3>7. j = n
        BY <1>4, <1>6, <3>5, <3>6
      <3>8. Place(u, k)' /\ stack'[u][k] = f
        BY <2>3, <3>1, <3>6, <3>7
      <3> QED BY <3>2, <3>5, <3>8, RestPlace
    <2> QED BY <2>2, <2>3
  <1> QED BY <1>5, <1>8, <1>9

\* The actions that were with a lifetime are those of a run.
LEMMA RestTakes ==
  ASSUME TypeOK, NEW t \in Threads, NEW n \in Nat, NEW l \in 1 .. lifetimes, Takeover(t, n, l),
         NEW u \in Threads, NEW k \in Nat, NEW x
  PROVE  Rest(u, k, x)' <=> Rest(u, k, x) \/ (u = t /\ k = n /\ Contains(actions[l], x))
  <1>1. /\ Place(t, n) /\ stack[t][n].op = "take" /\ n = Len(stack[t]) /\ n - 1 \in Nat
        /\ Stacks(t, n - 1, RunSet(RunOrder(actions[l])), {"take"})
    BY DEF Takeover, Pops
  <1>2. PICK s \in Seq(Action) : s = actions[l]
    BY Numbers DEF TypeOK
  <1>3. PICK r \in Seq(Action) : r = RunOrder(s)
    BY Reversed
  <1>4. \A y : Contains(r, y) <=> Contains(s, y)
    BY <1>3, Reversed
  <1> DEFINE R == RunSet(r)
  <1>5. \A f \in R : r # <<>> /\ f = [op |-> "run", rest |-> r] /\ f.rest = r
    BY DEF RunSet
  <1>6. r # <<>> => [op |-> "run", rest |-> r] \in R
    BY DEF RunSet
  <1>7. R = RunSet(RunOrder(actions[l]))
    BY <1>2, <1>3
  <1> HIDE DEF R
  <1>8. Stacks(t, n - 1, R, {"take"})
    BY <1>1, <1>7
  <1>9. /\ Place(u, k) /\ (u # t \/ k <= n - 1) => Place(u, k)' /\ stack'[u][k] = stack[u][k]
        /\ Place(u, k)' => \/ Place(u, k) /\ (u # t \/ k <= n - 1)
                           \/ u = t /\ k > n - 1 /\ stack'[u][k] \in R
        /\ \A j \in Nat : Place(t, j)' /\ j > n - 1 /\ stack'[t][j].op = "run" => j = (n - 1) + 1
        /\ \A f \in R : \E j \in Nat : Place(t, j)' /\ j > n - 1 /\ stack'[t][j] = f
    BY <1>8 DEF Stacks, Moved
  <1>a. (n - 1) + 1 = n
    OBVIOUS
  <1>b. ASSUME Rest(u, k, x)' PROVE Rest(u, k, x) \/ (u = t /\ k = n /\ Contains(s, x))
    <2>1. /\ Place(u, k)' /\ stack'[u][k].op = "run" /\ Contains(stack'[u][k].rest, x)
      BY <1>b, RestPlace
    <2>2. CASE Place(u, k) /\ (u # t \/ k <= n - 1)
      <3>1. stack'[u][k] = stack[u][k]
        BY <1>9, <2>2
      <3> QED BY <2>1, <2>2, <3>1, RestPlace
    <2>3. CASE u = t /\ k > n - 1 /\ stack'[u][k] \in R
      <3>1. k = n
        BY <1>9, <1>a, <2>1, <2>3
      <3>2. Contains(r, x)
        BY <1>5, <2>1, <2>3
      <3> QED BY <1>4, <2>3, <3>1, <3>2
    <2> QED BY <1>9, <2>1, <2>2, <2>3
  <1>c. ASSUME Rest(u, k, x) PROVE Rest(u, k, x)'
    <2>1. /\ Place(u, k) /\ stack[u][k].op = "run" /\ Contains(stack[u][k].rest, x)
      BY <1>c, RestPlace
    <2>2. u # t \/ k <= n - 1
      <3>1. CASE u = t /\ ~(k <= n - 1)
        <4>1. k = n
          BY <1>1, <2>1, <3>1 DEF Place
        <4> QED BY <1>1, <2>1, <3>1, <4>1
      <3> QED BY <3>1
    <2>3. stack'[u][k] = stack[u][k] /\ Place(u, k)'
      BY <1>9, <2>1, <2>2
    <2> QED BY <2>1, <2>3, RestPlace
  <1>d. ASSUME u = t, k = n, Contains(s, x) PROVE Rest(u, k, x)'
    <2>1. Contains(r, x) /\ r # <<>>
      BY <1>4, <1>d, NotEmpty
    <2>2. PICK f : f = [op |-> "run", rest |-> r]
      OBVIOUS
    <2>3. f.op = "run" /\ f.rest = r /\ f \in R
      BY <1>6, <2>1, <2>2
    <2>4. PICK j \in Nat : Place(t, j)' /\ j > n - 1 /\ stack'[t][j] = f
      BY <1>9, <2>3
    <2>5. j = n
      BY <1>9, <1>a, <2>3, <2>4
    <2>6. Place(u, k)' /\ stack'[u][k] = f
      BY <1>d, <2>4, <2>5
    <2> QED BY <2>1, <2>3, <2>6, RestPlace
  <1> QED BY <1>2, <1>b, <1>c, <1>d

\* A step that does not touch the users' actions.
Calm ==
  /\ UNCHANGED <<owner, ran>>
  /\ \A l \in Lifetimes : \A a \in Nat :
       Contains(actions'[l], UserAction(a)) <=> Contains(actions[l], UserAction(a))
  /\ \A u \in Threads, k \in Nat, a \in Nat : Holds(u, k, a)' <=> Holds(u, k, a)

LEMMA RestfulBy ==
  ASSUME NEW t, NEW m, NEW S, NEW O, Stacks(t, m, S, O), "run" \notin O, \A f \in S : f.op # "run"
  PROVE  Restful
  BY DEF Restful

\* What is added or removed is no user's action.
LEMMA OtherActions ==
  ASSUME TypeOK,
         \/ UNCHANGED actions
         \/ \E l \in 1 .. lifetimes, x \in Action : Adds(l, x) /\ x.does # "user"
         \/ \E l \in 1 .. lifetimes : \E n \in 1 .. Len(actions[l]) :
              /\ actions[l][n].does # "user"
              /\ actions' = [actions EXCEPT ![l] = RemoveAt(@, n)],
         NEW k \in Lifetimes, NEW a \in Nat
  PROVE  Contains(actions'[k], UserAction(a)) <=> Contains(actions[k], UserAction(a))
  <1>0. UserAction(a).does = "user"
    BY SomeActions
  <1>1. ASSUME NEW l \in 1 .. lifetimes, NEW x \in Action, Adds(l, x), x.does # "user"
        PROVE  Contains(actions'[k], UserAction(a)) <=> Contains(actions[k], UserAction(a))
    <2>1. l \in Lifetimes
      BY Numbers
    <2>2. actions' = [actions EXCEPT ![l] = Append(@, x)]
      BY <1>1 DEF Adds, AddAction
    <2>3. CASE k = l
      <3>1. PICK s \in Seq(Action) : s = actions[l]
        BY <2>1 DEF TypeOK
      <3>2. actions'[k] = Append(s, x)
        BY <2>1, <2>2, <2>3, <3>1 DEF TypeOK
      <3>3. Contains(Append(s, x), UserAction(a)) <=> Contains(s, UserAction(a))
        BY <1>0, <1>1, Appends
      <3> QED BY <2>3, <3>1, <3>2, <3>3
    <2>4. CASE k # l
      BY <2>1, <2>2, <2>4 DEF TypeOK
    <2> QED BY <2>3, <2>4
  <1>2. ASSUME NEW l \in 1 .. lifetimes, NEW n \in 1 .. Len(actions[l]),
               actions[l][n].does # "user",
               actions' = [actions EXCEPT ![l] = RemoveAt(@, n)]
        PROVE  Contains(actions'[k], UserAction(a)) <=> Contains(actions[k], UserAction(a))
    <2>1. l \in Lifetimes
      BY Numbers
    <2>3. CASE k = l
      <3>1. PICK s \in Seq(Action) : s = actions[l]
        BY <2>1 DEF TypeOK
      <3>2. actions'[k] = RemoveAt(s, n)
        BY <1>2, <2>1, <2>3, <3>1 DEF TypeOK
      <3>3. n \in 1 .. Len(s) /\ s[n] # UserAction(a)
        BY <1>0, <1>2, <3>1
      <3>4. Contains(RemoveAt(s, n), UserAction(a)) <=> Contains(s, UserAction(a))
        BY <3>3, Removes
      <3> QED BY <2>3, <3>1, <3>2, <3>4
    <2>4. CASE k # l
      BY <1>2, <2>1, <2>4 DEF TypeOK
    <2> QED BY <2>3, <2>4
  <1> QED BY <1>1, <1>2

OtherShape ==
  \/ UNCHANGED actions
  \/ \E l \in 1 .. lifetimes, x \in Action : Adds(l, x) /\ x.does # "user"
  \/ \E l \in 1 .. lifetimes : \E n \in 1 .. Len(actions[l]) :
       /\ actions[l][n].does # "user"
       /\ actions' = [actions EXCEPT ![l] = RemoveAt(@, n)]

LEMMA CalmBy ==
  ASSUME TypeOK, UNCHANGED <<owner, ran>>, OtherShape,
         \/ Restful
         \/ \E t \in Threads, n \in Nat, s \in Seq(Action) : \E o, S :
              RunsOne(t, n, s, o, S) /\ o # "user" /\ \A f \in S : f.op # "run"
  PROVE  Calm
  <1>1. \A l \in Lifetimes : \A a \in Nat :
          Contains(actions'[l], UserAction(a)) <=> Contains(actions[l], UserAction(a))
    BY OtherActions DEF OtherShape
  <1>2. ASSUME NEW u \in Threads, NEW k \in Nat, NEW a \in Nat
        PROVE  Rest(u, k, UserAction(a))' <=> Rest(u, k, UserAction(a))
    <2>0. PICK x : x = UserAction(a)
      OBVIOUS
    <2>1. CASE Restful
      <3>1. Rest(u, k, x)' <=> Rest(u, k, x)
        BY <2>1, RestKept DEF Alike
      <3> QED BY <2>0, <3>1 DEF Rest
    <2>2. ASSUME NEW t \in Threads, NEW n \in Nat, NEW s \in Seq(Action), NEW o, NEW S,
                 RunsOne(t, n, s, o, S), o # "user", \A f \in S : f.op # "run"
          PROVE  Rest(u, k, UserAction(a))' <=> Rest(u, k, UserAction(a))
      <3>1. Head(s).does # "user"
        BY <2>2 DEF RunsOne
      <3>2. x # Head(s)
        BY <2>0, <3>1, SomeActions
      <3>3. Rest(u, k, x)' <=> Rest(u, k, x)
        BY <2>2, <3>2, RestRuns
      <3> QED BY <2>0, <3>3 DEF Rest
    <2> QED BY <2>1, <2>2
  <1>3. \A u \in Threads, k \in Nat, a \in Nat : Holds(u, k, a)' <=> Holds(u, k, a)
    BY <1>2 DEF Holds
  <1> QED BY <1>1, <1>3 DEF Calm

LEMMA CalmSteps ==
  ASSUME TypeOK, Stored, Framed, Step
  PROVE  \/ Calm
         \/ \E t \in Threads, m \in Nat, l \in 1 .. lifetimes : \E O \in SUBSET {"close"} :
              Accepting(t, m, l, O)
         \/ \E t \in Threads, n \in Nat, l \in 1 .. lifetimes : Takeover(t, n, l)
         \/ \E t \in Threads, n \in Nat, s \in Seq(Action) : RunsUser(t, n, s)
  <1>0. \A l, o : Rec(o, l).op = o
    BY DEF Rec
  <1>1. ASSUME NEW t \in Threads, NEW l \in 1 .. lifetimes, Terminates(t, l) PROVE Calm
    <2>1. Stacks(t, 0, {Rec("take", l)}, {}) /\ UNCHANGED <<actions, owner, ran>>
      BY <1>1 DEF Terminates
    <2>2. Restful
      BY <1>0, <2>1, RestfulBy
    <2> QED BY <2>1, <2>2, CalmBy DEF OtherShape
  <1>2. ASSUME NEW t \in Threads, NEW m, NEW S, NEW O, Quiet(t, m, S, O), "run" \notin O,
               \A f \in S : f.op # "run"
        PROVE  Calm
    <2>1. Stacks(t, m, S, O) /\ UNCHANGED <<actions, owner, ran>>
      BY <1>2 DEF Quiet
    <2>2. Restful
      BY <1>2, <2>1, RestfulBy
    <2> QED BY <2>1, <2>2, CalmBy DEF OtherShape
  <1>3. ASSUME NEW t \in Threads, NEW n \in Nat, NEW s \in Seq(Action), NEW l \in 1 .. lifetimes,
               RunsTerminate(t, n, s, l)
        PROVE  Calm
    <2>1. /\ RunsOne(t, n, s, "terminate", {Rec("take", l)}) /\ UNCHANGED <<actions, owner, ran>>
      BY <1>3 DEF RunsTerminate, RunsOne
    <2>2. \A f \in {Rec("take", l)} : f.op # "run"
      BY <1>0
    <2> QED BY <2>1, <2>2, CalmBy DEF OtherShape
  <1>4. ASSUME NEW t \in Threads, NEW n \in Nat, NEW s \in Seq(Action), NEW l \in 1 .. lifetimes,
               RunsErase(t, n, s, l)
        PROVE  Calm
    <2>1. /\ l \in 2 .. lifetimes /\ Erase(parent[l], TerminatesNested(l))
          /\ RunsOne(t, n, s, "erase", {}) /\ UNCHANGED <<owner, ran>>
      BY <1>4 DEF RunsErase, RunsOne
    <2>2. parent[l] \in 1 .. lifetimes
      BY <2>1 DEF Stored
    <2>3. TerminatesNested(l).does # "user"
      BY Numbers, SomeActions
    <2>4. OtherShape
      BY <2>1, <2>2, <2>3, Erases DEF OtherShape
    <2> QED BY <2>1, <2>4, CalmBy
  <1>5. ASSUME NEW t \in Threads, NEW n \in Nat, NEW s \in Seq(Action), RunsEternal(t, n, s)
        PROVE  Calm
    <2>1. /\ RunsOne(t, n, s, "eternal", {Rec("current", Eternal)})
          /\ UNCHANGED <<actions, owner, ran>>
      BY <1>5 DEF RunsEternal, RunsOne
    <2>2. \A f \in {Rec("current", Eternal)} : f.op # "run"
      BY <1>0
    <2>3. OtherShape
      BY <2>1 DEF OtherShape
    <2>4. UNCHANGED <<owner, ran>> /\ "eternal" # "user"
      BY <2>1
    <2> QED BY <2>1, <2>2, <2>3, <2>4, CalmBy
  <1>6. ASSUME NEW t, NEW p, NEW l, NEW S, Attaches(t, p, l, S), \A f \in S : f.op # "run"
        PROVE  Calm
    <2>1. /\ Stacks(t, 0, S \union {Rec("attach", l)}, {}) /\ p \in 1 .. lifetimes
          /\ AddAction(p, TerminatesNested(l)) /\ ~terminated[p] /\ UNCHANGED <<owner, ran>>
      BY <1>6 DEF Attaches
    <2>2. Restful
      BY <1>0, <1>6, <2>1, RestfulBy
    <2>3. TerminatesNested(l) \in Action /\ TerminatesNested(l).does # "user"
      BY <1>6, AttachesShape, SomeActions
    <2>4. Adds(p, TerminatesNested(l))
      BY <2>1, <2>3 DEF Adds
    <2>5. OtherShape
      BY <2>1, <2>3, <2>4 DEF OtherShape
    <2> QED BY <2>1, <2>2, <2>5, CalmBy
  <1>7. ASSUME NEW t \in Threads, NEW n \in Nat, NEW l \in 2 .. lifetimes, Attached(t, n, l)
        PROVE  Calm
    <2>1. /\ ~terminated[l] /\ AddAction(l, ErasesFromParent(l)) /\ UNCHANGED <<owner, ran>>
          /\ Stacks(t, n - 1, {}, {"attach"})
      BY <1>7 DEF Attached, Pops
    <2>2. Restful
      BY <2>1, RestfulBy
    <2>3. l \in 1 .. lifetimes /\ l \in Nat
      BY Numbers
    <2>4. ErasesFromParent(l) \in Action /\ ErasesFromParent(l).does # "user"
      BY <2>3, SomeActions
    <2>5. OtherShape
      BY <2>1, <2>3, <2>4 DEF OtherShape, Adds
    <2> QED BY <2>1, <2>2, <2>5, CalmBy
  <1>8. ASSUME NEW t \in Threads, NEW n \in Nat, NEW l \in {Eternal} \union sequential,
               NEW p \in {Eternal} \union sequential, Replaces(t, n, l, p)
        PROVE  Calm
    <2>1. /\ Stacks(t, n - 1, IF p = Eternal THEN {} ELSE {Rec("take", p)}, {"replace"})
          /\ UNCHANGED <<actions, owner, ran>>
      BY <1>8 DEF Replaces, Pops
    <2>2. \A f \in IF p = Eternal THEN {} ELSE {Rec("take", p)} : f.op # "run"
      BY <1>0
    <2>3. Restful
      BY <2>1, <2>2, RestfulBy
    <2> QED BY <2>1, <2>3, CalmBy DEF OtherShape
  <1>9. CASE Empties
    BY <1>0, <1>2, <1>9, LifetimesAssumption DEF Empties
  <1>10. CASE AttachesNext(lifetimes + 1)
    BY <1>0, <1>6, <1>10 DEF AttachesNext
  <1>11. ASSUME NEW t, NEW p, AttachesNested(t, p, lifetimes + 1) PROVE Calm
    BY <1>6, <1>11 DEF AttachesNested
  <1>12. ASSUME NEW t \in Threads, NEW n \in Nat, NEW l,
                Refuses(t, n) \/ Opens(t, l) \/ NotAttached(t, n, l) \/ Reads(t, n, l)
         PROVE  Calm
    <2>1. CASE Refuses(t, n)
      BY <1>2, <2>1 DEF Refuses
    <2>2. CASE Opens(t, l)
      BY <1>0, <1>2, <2>2 DEF Opens
    <2>3. CASE NotAttached(t, n, l)
      BY <1>2, <2>3 DEF NotAttached
    <2>4. CASE Reads(t, n, l)
      <3>1. PICK f : f = [op |-> "replace", lifetime |-> l, previous |-> current] /\ f.op # "run"
        <4>1. PICK f : f = [op |-> "replace", lifetime |-> l, previous |-> current]
          OBVIOUS
        <4>2. f.op # "run"
          BY <4>1
        <4> QED BY <4>1, <4>2
      <3>2. Quiet(t, n - 1, {f}, {"current"})
        BY <2>4, <3>1 DEF Reads
      <3> QED BY <1>2, <3>1, <3>2
    <2> QED BY <1>12, <2>1, <2>2, <2>3, <2>4
  <1> QED
    BY <1>1, <1>3, <1>4, <1>5, <1>7, <1>8, <1>9, <1>10, <1>11, <1>12 DEF Step

-----------------------------------------------------------------------------
(* The users' actions.                                                     *)

UsersInv == Together /\ Complete /\ RunsInReverse

\* What is in a run, or has been run, has a terminated lifetime.
LEMMA OnlyTerminated ==
  ASSUME TypeOK, Stored, Framed, NEW a \in Nat
  PROVE  /\ HasRun(a) => a \in Accepted /\ terminated[owner[a]]
         /\ \A u \in Threads, k \in Nat : Holds(u, k, a) => a \in Accepted /\ terminated[owner[a]]
  <1>1. HasRun(a) => a \in Accepted /\ terminated[owner[a]]
    BY DEF HasRun, Stored, Accepted
  <1>2. ASSUME NEW u \in Threads, NEW k \in Nat, Holds(u, k, a)
        PROVE  a \in Accepted /\ terminated[owner[a]]
    <2>1. /\ Place(u, k) /\ stack[u][k].op = "run"
          /\ Contains(stack[u][k].rest, UserAction(a))
      BY <1>2, RestPlace DEF Holds
    <2>2. SoundRun(stack[u][k].rest)
      BY <2>1, TopSound DEF Sound
    <2>3. UserAction(a) \in Action /\ UserAction(a).does = "user" /\ UserAction(a).which = a
      BY SomeActions
    <2>4. PICK l \in 1 .. lifetimes : terminated[l] /\ Of(l, UserAction(a))
      BY <2>1, <2>2, <2>3 DEF SoundRun
    <2> QED BY <2>3, <2>4 DEF Of, Accepted
  <1> QED BY <1>1, <1>2

LEMMA RanOnes ==
  ASSUME TypeOK, Stored
  PROVE  /\ Len(ran) \in Nat /\ Len(owner) \in Nat
         /\ \A i \in 1 .. Len(ran) : ran[i] \in Accepted /\ HasRun(ran[i])
         /\ \A a \in Accepted : a \in Nat /\ owner[a] \in 1 .. lifetimes /\ owner[a] \in Lifetimes
  <1>1. Len(ran) \in Nat /\ Len(owner) \in Nat
    BY Elements DEF TypeOK
  <1>2. \A i \in 1 .. Len(ran) : ran[i] \in Accepted /\ HasRun(ran[i])
    BY DEF Stored, HasRun, Accepted
  <1>3. \A a \in Accepted : a \in Nat /\ owner[a] \in 1 .. lifetimes
    BY <1>1 DEF Stored, Accepted
  <1> QED BY <1>1, <1>2, <1>3, Numbers

\* Together, for two actions.
Pair(a, b) ==
  /\ Stays(a) => ~HasRun(b) /\ \A t \in Threads : \A k \in Nat : ~Holds(t, k, b)
  /\ \A t, u \in Threads : \A k, m \in Nat :
       Holds(t, k, a) /\ Holds(u, m, b) => t = u /\ k = m
  /\ \A t \in Threads : \A k \in Nat : Holds(t, k, a) /\ HasRun(b) => a < b
LEMMA Pairs == Together <=> \A a, b \in Accepted : owner[a] = owner[b] => Pair(a, b)
  BY DEF Together, Pair
LEMMA Completes ==
  Complete <=> \A a \in Accepted :
                 Stays(a) \/ HasRun(a) \/ \E t \in Threads : \E k \in Nat : Holds(t, k, a)
  BY DEF Complete, InRest, Holds

LEMMA CalmUsers ==
  ASSUME TypeOK, Stored, Calm, UsersInv
  PROVE  UsersInv'
  <1>1. /\ UNCHANGED <<owner, ran>> /\ Accepted' = Accepted
        /\ \A u \in Threads, k \in Nat, a \in Nat : Holds(u, k, a)' <=> Holds(u, k, a)
        /\ \A a : HasRun(a)' <=> HasRun(a)
    BY DEF Calm, Accepted, HasRun
  <1>2. \A a \in Accepted : a \in Nat /\ (Stays(a)' <=> Stays(a))
    BY <1>1, RanOnes DEF Calm, Stays
  <1>3. Together'
    <2>1. ASSUME NEW a \in Accepted, NEW b \in Accepted, owner[a] = owner[b]
          PROVE  Pair(a, b)'
      <3>1. Pair(a, b)
        BY <2>1, Pairs DEF UsersInv
      <3> QED BY <1>1, <1>2, <3>1 DEF Pair
    <2>2. \A a, b \in Accepted' : owner'[a] = owner'[b] => Pair(a, b)'
      BY <1>1, <2>1
    <2> QED BY <2>2 DEF Together, Pair
  <1>4. Complete'
    <2>1. \A a \in Accepted :
            Stays(a)' \/ HasRun(a)' \/ \E t \in Threads : \E k \in Nat : Holds(t, k, a)'
      BY <1>1, <1>2, Completes DEF UsersInv
    <2> QED BY <1>1, <2>1 DEF Complete, InRest, Holds
  <1>5. RunsInReverse'
    BY <1>1 DEF UsersInv, RunsInReverse
  <1> QED BY <1>3, <1>4, <1>5 DEF UsersInv

\* An action is accepted by what is not terminated: no thread has taken one of
\* this lifetime.
LEMMA AcceptingUsers ==
  ASSUME TypeOK, Stored, Framed, UsersInv, NEW t \in Threads, NEW m, NEW l \in 1 .. lifetimes,
         NEW O \in SUBSET {"close"}, Accepting(t, m, l, O)
  PROVE  UsersInv'
  <1> DEFINE N == Len(owner) + 1
  <1>0. PICK n : n = N
    OBVIOUS
  <1>1. /\ Stacks(t, m, {}, O) /\ "run" \notin O /\ ~terminated[l] /\ AcceptAction(l)
        /\ UNCHANGED ran /\ l \in Lifetimes
    BY Numbers DEF Accepting
  <1>2. Len(owner) \in Nat /\ n \in Nat /\ n = Len(owner) + 1
    BY <1>0, RanOnes
  <1>3. /\ Len(owner') = n /\ owner'[n] = l /\ n \notin Accepted
        /\ Accepted' = Accepted \union {n} /\ \A a \in Accepted : owner'[a] = owner[a]
    <2>1. /\ Len(owner') = Len(owner) + 1 /\ owner'[Len(owner) + 1] = l
          /\ \A a \in 1 .. Len(owner) : owner'[a] = owner[a]
      BY <1>1, AppendProperties DEF AcceptAction, TypeOK
    <2>2. 1 .. n = 1 .. Len(owner) \union {n} /\ n \notin 1 .. Len(owner)
      BY <1>2
    <2> QED BY <1>2, <2>1, <2>2 DEF Accepted
  <1> HIDE DEF N
  <1>4. \A u \in Threads, k \in Nat, a \in Nat : Holds(u, k, a)' <=> Holds(u, k, a)
    <2>1. Restful
      BY <1>1, RestfulBy
    <2>2. \A u \in Threads, k \in Nat : \A x : Rest(u, k, x)' <=> Rest(u, k, x)
      BY <2>1, RestKept DEF Alike
    <2> QED BY <2>2 DEF Holds, UserAction
  <1>5. \A a : HasRun(a)' <=> HasRun(a)
    BY <1>1 DEF HasRun
  <1>6. \A a \in Nat : \/ a \in Accepted /\ terminated[owner[a]]
                       \/ ~HasRun(a) /\ \A u \in Threads, k \in Nat : ~Holds(u, k, a)
    BY OnlyTerminated
  <1>7. actions' = [actions EXCEPT ![l] = Append(@, UserAction(n))]
    BY <1>1, <1>2 DEF AcceptAction, AddAction
  <1>8. \A k \in Lifetimes \ {l} : actions'[k] = actions[k]
    BY <1>7 DEF TypeOK
  <1>9. \A y : Contains(actions'[l], y) <=> Contains(actions[l], y) \/ y = UserAction(n)
    <2>1. PICK s \in Seq(Action) : s = actions[l]
      BY <1>1 DEF TypeOK
    <2>2. actions'[l] = Append(s, UserAction(n))
      BY <1>1, <1>7, <2>1 DEF TypeOK
    <2>3. UserAction(n) \in Action
      BY <1>2, SomeActions
    <2> QED BY <2>1, <2>2, <2>3, Appends
  <1>10. ASSUME NEW a \in Accepted'
         PROVE  /\ a \in Nat
                /\ owner'[a] = l => ~HasRun(a) /\ \A u \in Threads, k \in Nat : ~Holds(u, k, a)
                /\ owner'[a] # l => a \in Accepted /\ owner[a] = owner'[a] /\ (Stays(a)' <=> Stays(a))
    <2>1. a \in Nat
      BY <1>2, <1>3, RanOnes
    <2>2. CASE owner'[a] = l
      <3>1. ~(a \in Accepted /\ terminated[owner[a]])
        BY <1>1, <1>3, <2>2
      <3> QED BY <1>6, <2>1, <2>2, <3>1
    <2>3. CASE owner'[a] # l
      <3>1. a \in Accepted /\ owner[a] = owner'[a]
        BY <1>3, <2>3
      <3>2. owner[a] \in Lifetimes \ {l}
        BY <2>3, <3>1, RanOnes
      <3>3. Stays(a)' <=> Stays(a)
        BY <1>8, <3>1, <3>2 DEF Stays, UserAction
      <3> QED BY <2>1, <2>3, <3>1, <3>3
    <2> QED BY <2>2, <2>3
  <1>11. Together'
    <2>1. ASSUME NEW a \in Accepted', NEW b \in Accepted', owner'[a] = owner'[b]
          PROVE  Pair(a, b)'
      <3>1. a \in Nat /\ b \in Nat
        BY <1>10
      <3>2. CASE owner'[a] = l
        <4>1. /\ ~HasRun(b) /\ \A u \in Threads, k \in Nat : ~Holds(u, k, b)
              /\ \A u \in Threads, k \in Nat : ~Holds(u, k, a)
          BY <1>10, <2>1, <3>2
        <4>2. /\ ~HasRun(b)' /\ \A u \in Threads, k \in Nat : ~Holds(u, k, b)'
              /\ \A u \in Threads, k \in Nat : ~Holds(u, k, a)'
          BY <1>4, <1>5, <3>1, <4>1
        <4> QED BY <4>2 DEF Pair
      <3>3. CASE owner'[a] # l
        <4>1. /\ a \in Accepted /\ b \in Accepted /\ owner[a] = owner[b] /\ (Stays(a)' <=> Stays(a))
          BY <1>10, <2>1, <3>3
        <4>2. Pair(a, b)
          BY <4>1, Pairs DEF UsersInv
        <4> QED BY <1>4, <1>5, <3>1, <4>1, <4>2 DEF Pair
      <3> QED BY <3>2, <3>3
    <2> QED BY <2>1 DEF Together, Pair
  <1>12. Complete'
    <2>1. ASSUME NEW a \in Accepted'
          PROVE  Stays(a)' \/ HasRun(a)' \/ \E u \in Threads : \E k \in Nat : Holds(u, k, a)'
      <3>1. CASE a = n
        BY <1>3, <1>9, <3>1 DEF Stays, UserAction
      <3>2. CASE a \in Accepted
        <4>1. Stays(a) => Stays(a)'
          BY <1>3, <1>8, <1>9, <3>2, RanOnes DEF Stays, UserAction
        <4>2. a \in Nat /\ (Stays(a) \/ HasRun(a) \/ \E u \in Threads : \E k \in Nat : Holds(u, k, a))
          BY <3>2, Completes, RanOnes DEF UsersInv
        <4> QED BY <1>4, <1>5, <4>1, <4>2
      <3> QED BY <1>3, <3>1, <3>2
    <2> QED BY <2>1 DEF Complete, InRest, Holds
  <1>13. RunsInReverse'
    <2>1. \A i \in 1 .. Len(ran) : owner'[ran[i]] = owner[ran[i]]
      BY <1>3, RanOnes
    <2> QED BY <1>1, <2>1 DEF UsersInv, RunsInReverse
  <1> QED BY <1>11, <1>12, <1>13 DEF UsersInv

\* The thread that takes the actions of a lifetime takes them all.
LEMMA TakeoverUsers ==
  ASSUME TypeOK, Stored, UsersInv, NEW t \in Threads, NEW n \in Nat, NEW l \in 1 .. lifetimes,
         Takeover(t, n, l)
  PROVE  UsersInv'
  <1> DEFINE Taken(a) == Contains(actions[l], UserAction(a))
  <1>1. /\ UNCHANGED <<owner, ran>> /\ Accepted' = Accepted
        /\ actions' = [actions EXCEPT ![l] = <<>>]
        /\ \A a : HasRun(a)' <=> HasRun(a)
    BY DEF Takeover, Accepted, HasRun
  <1>2. l \in Lifetimes
    BY Numbers
  <1>3. ASSUME NEW u \in Threads, NEW k \in Nat, NEW a \in Nat
        PROVE  Holds(u, k, a)' <=> Holds(u, k, a) \/ (u = t /\ k = n /\ Taken(a))
    <2>1. PICK x : x = UserAction(a)
      OBVIOUS
    <2>2. Rest(u, k, x)' <=> Rest(u, k, x) \/ (u = t /\ k = n /\ Contains(actions[l], x))
      BY RestTakes
    <2>3. Holds(u, k, a) <=> Rest(u, k, x)
      BY <2>1 DEF Holds
    <2>4. Holds(u, k, a)' <=> Rest(u, k, x)'
      BY <2>1 DEF Holds, Rest
    <2> QED BY <2>1, <2>2, <2>3, <2>4
  <1>4. ASSUME NEW a \in Nat, Taken(a)
        PROVE  a \in Accepted /\ owner[a] = l /\ Stays(a)
    <2>1. UserAction(a) \in Action /\ UserAction(a).does = "user" /\ UserAction(a).which = a
      BY SomeActions
    <2>2. Of(l, UserAction(a))
      BY <1>2, <1>4, <2>1 DEF Stored
    <2>3. a \in Accepted /\ owner[a] = l
      BY <2>1, <2>2 DEF Of, Accepted
    <2> QED BY <1>4, <2>3 DEF Stays
  <1>5. ASSUME NEW a \in Accepted
        PROVE  /\ a \in Nat /\ (Stays(a)' <=> Stays(a) /\ owner[a] # l)
               /\ (Stays(a) /\ owner[a] = l => Taken(a))
    <2>1. a \in Nat /\ owner[a] \in Lifetimes
      BY RanOnes
    <2>2. CASE owner[a] = l
      <3>1. actions'[l] = <<>>
        BY <1>1, <1>2 DEF TypeOK
      <3>2. ~Stays(a)'
        BY <1>1, <2>2, <3>1 DEF Stays, Contains
      <3> QED BY <2>1, <2>2, <3>2 DEF Stays
    <2>3. CASE owner[a] # l
      <3>1. actions'[owner[a]] = actions[owner[a]]
        BY <1>1, <1>2, <2>1, <2>3 DEF TypeOK
      <3> QED BY <1>1, <2>1, <2>3, <3>1 DEF Stays, UserAction
    <2> QED BY <2>2, <2>3
  <1> HIDE DEF Taken
  <1>6. Together'
    <2>1. ASSUME NEW a \in Accepted, NEW b \in Accepted, owner[a] = owner[b]
          PROVE  Pair(a, b)'
      <3>0. Pair(a, b) /\ Pair(b, a) /\ a \in Nat /\ b \in Nat
        BY <1>5, <2>1, Pairs DEF UsersInv
      <3>1. ASSUME Stays(a)', NEW u \in Threads, NEW k \in Nat
            PROVE  ~HasRun(b)' /\ ~Holds(u, k, b)'
        <4>1. Stays(a) /\ owner[b] # l
          BY <1>5, <2>1, <3>1
        <4>2. ~HasRun(b) /\ ~Holds(u, k, b) /\ ~Taken(b)
          BY <1>4, <3>0, <4>1 DEF Pair
        <4> QED BY <1>1, <1>3, <3>0, <4>2
      <3>2. ASSUME NEW u \in Threads, NEW w \in Threads, NEW j \in Nat, NEW k \in Nat,
                   Holds(u, j, a)', Holds(w, k, b)'
            PROVE  u = w /\ j = k
        <4>1. Holds(u, j, a) \/ (u = t /\ j = n /\ Taken(a))
          BY <1>3, <3>0, <3>2
        <4>2. Holds(w, k, b) \/ (w = t /\ k = n /\ Taken(b))
          BY <1>3, <3>0, <3>2
        <4>3. /\ Holds(u, j, a) /\ Holds(w, k, b) => u = w /\ j = k
              /\ Holds(u, j, a) => ~Taken(b)
              /\ Holds(w, k, b) => ~Taken(a)
          BY <1>4, <3>0 DEF Pair
        <4> QED BY <4>1, <4>2, <4>3
      <3>3. ASSUME NEW u \in Threads, NEW k \in Nat, Holds(u, k, a)', HasRun(b)'
            PROVE  a < b
        <4>1. HasRun(b)
          BY <1>1, <3>3
        <4>2. ~Taken(a)
          BY <1>4, <3>0, <4>1 DEF Pair
        <4>3. Holds(u, k, a)
          BY <1>3, <3>0, <3>3, <4>2
        <4> QED BY <3>0, <4>1, <4>3 DEF Pair
      <3>4. Stays(a)' => ~HasRun(b)' /\ \A u \in Threads : \A k \in Nat : ~Holds(u, k, b)'
        BY <3>1
      <3> QED BY <3>2, <3>3, <3>4 DEF Pair
    <2>2. \A a, b \in Accepted' : owner'[a] = owner'[b] => Pair(a, b)'
      BY <1>1, <2>1
    <2> QED BY <2>2 DEF Together, Pair
  <1>7. Complete'
    <2>1. ASSUME NEW a \in Accepted
          PROVE  Stays(a)' \/ HasRun(a)' \/ \E u \in Threads : \E k \in Nat : Holds(u, k, a)'
      <3>1. a \in Nat
        BY <1>5
      <3>2. CASE Stays(a)
        <4>1. CASE owner[a] = l
          <5>1. Holds(t, n, a)'
            BY <1>3, <1>5, <3>1, <3>2, <4>1
          <5> QED BY <5>1
        <4>2. CASE owner[a] # l
          BY <1>5, <3>2, <4>2
        <4> QED BY <4>1, <4>2
      <3>3. CASE HasRun(a)
        BY <1>1, <3>3
      <3>4. CASE \E u \in Threads : \E k \in Nat : Holds(u, k, a)
        BY <1>3, <3>1, <3>4
      <3> QED BY <3>2, <3>3, <3>4, Completes DEF UsersInv
    <2> QED BY <1>1, <2>1 DEF Complete, InRest, Holds
  <1>8. RunsInReverse'
    BY <1>1 DEF UsersInv, RunsInReverse
  <1> QED BY <1>6, <1>7, <1>8 DEF UsersInv

\* An action is run by the thread that has taken it, which has the older ones.
LEMMA RunsUsers ==
  ASSUME TypeOK, Stored, Framed, Sorted, UsersInv, NEW t \in Threads, NEW n \in Nat,
         NEW s \in Seq(Action), RunsUser(t, n, s)
  PROVE  UsersInv'
  <1>1. /\ RunsOne(t, n, s, "user", {}) /\ ran' = Append(ran, Head(s).which)
        /\ UNCHANGED <<owner, actions>> /\ Accepted' = Accepted
    BY DEF RunsUser, RunsOne, Accepted
  <1>2. /\ s # <<>> /\ stack[t][n].rest = s /\ Head(s).does = "user" /\ Place(t, n)
        /\ stack[t][n].op = "run"
    BY <1>1 DEF RunsOne, Pops
  <1>3. Head(s) \in Action /\ Contains(s, Head(s))
    BY <1>2, Tails
  <1>4. PICK c \in Nat : c = Head(s).which
    BY <1>3 DEF Action
  <1>5. Head(s) = UserAction(c)
    BY <1>2, <1>3, <1>4 DEF Action, UserAction
  <1>6. n \in Running(t)
    BY <1>2 DEF Running, Place
  <1>7. /\ Holds(t, n, c)
        /\ \A u \in Threads, k \in Nat, a \in Nat : Holds(u, k, a)' =>
             Holds(u, k, a) /\ (u = t /\ k = n => Contains(Tail(s), UserAction(a)))
        /\ \A u \in Threads, k \in Nat, a \in Nat : Holds(u, k, a) => Holds(u, k, a)' \/ a = c
    <2>1. Holds(t, n, c)
      BY <1>2, <1>3, <1>5, <1>6 DEF Holds, Rest
    <2>2. ASSUME NEW u \in Threads, NEW k \in Nat, NEW a \in Nat
          PROVE  /\ Holds(u, k, a)' =>
                      Holds(u, k, a) /\ (u = t /\ k = n => Contains(Tail(s), UserAction(a)))
                 /\ Holds(u, k, a) => Holds(u, k, a)' \/ a = c
      <3>1. PICK x : x = UserAction(a)
        OBVIOUS
      <3>2. /\ Rest(u, k, x)' => Rest(u, k, x) /\ (u = t /\ k = n => Contains(Tail(s), x))
            /\ Rest(u, k, x) => Rest(u, k, x)' \/ (u = t /\ k = n /\ x = Head(s))
        BY <1>1, RestRuns
      <3>3. x = Head(s) => a = c
        BY <1>4, <3>1, SomeActions
      <3>4. Holds(u, k, a) <=> Rest(u, k, x)
        BY <3>1 DEF Holds
      <3>5. Holds(u, k, a)' <=> Rest(u, k, x)'
        BY <3>1 DEF Holds, Rest
      <3> QED BY <3>1, <3>2, <3>3, <3>4, <3>5
    <2> QED BY <2>1, <2>2
  <1>8. \A a \in Nat : Contains(Tail(s), UserAction(a)) => a < c
    <2>1. Falling(s)
      BY <1>2, <1>6 DEF Sorted
    <2>2. \A y : Contains(Tail(s), y) /\ y.does = "user" => Head(s).which > y.which
      BY <1>2, <2>1, Tails
    <2> QED BY <1>4, <2>2, SomeActions
  <1>9. c \in Accepted
    BY <1>7, OnlyTerminated
  <1>10. /\ ran' \in Seq(Nat) /\ Len(ran) \in Nat /\ Len(ran') = Len(ran) + 1
         /\ ran'[Len(ran) + 1] = c /\ \A i \in 1 .. Len(ran) : ran'[i] = ran[i]
    BY <1>1, <1>4, RanOnes, AppendProperties DEF TypeOK
  <1>11. \A a : HasRun(a)' <=> HasRun(a) \/ a = c
    <2>1. \A i : i \in 1 .. Len(ran) + 1 <=> i \in 1 .. Len(ran) \/ i = Len(ran) + 1
      BY <1>10
    <2> QED BY <1>10, <2>1 DEF HasRun
  <1>12. \A a \in Accepted : a \in Nat /\ (Stays(a)' <=> Stays(a))
    BY <1>1, RanOnes DEF Stays
  <1>13. Together'
    <2>1. ASSUME NEW a \in Accepted, NEW b \in Accepted, owner[a] = owner[b]
          PROVE  Pair(a, b)'
      <3>0. Pair(a, b) /\ a \in Nat /\ b \in Nat
        BY <1>12, <2>1, Pairs DEF UsersInv
      <3>1. ASSUME Stays(a)'
            PROVE  ~HasRun(b)' /\ \A u \in Threads : \A k \in Nat : ~Holds(u, k, b)'
        <4>1. Stays(a)
          BY <1>12, <3>1
        <4>2. ~HasRun(b) /\ \A u \in Threads : \A k \in Nat : ~Holds(u, k, b)
          BY <3>0, <4>1 DEF Pair
        <4>3. b # c
          BY <1>7, <4>2
        <4> QED BY <1>7, <1>11, <3>0, <4>2, <4>3
      <3>2. ASSUME NEW u \in Threads, NEW w \in Threads, NEW j \in Nat, NEW k \in Nat,
                   Holds(u, j, a)', Holds(w, k, b)'
            PROVE  u = w /\ j = k
        BY <1>7, <3>0, <3>2 DEF Pair
      <3>3. ASSUME NEW u \in Threads, NEW k \in Nat, Holds(u, k, a)', HasRun(b)'
            PROVE  a < b
        <4>1. /\ Holds(u, k, a)
              /\ u = t /\ k = n => Contains(Tail(s), UserAction(a))
          BY <1>7, <3>0, <3>3
        <4>2. CASE HasRun(b)
          BY <3>0, <4>1, <4>2 DEF Pair
        <4>3. CASE b = c
          <5>1. u = t /\ k = n
            BY <1>7, <3>0, <4>1, <4>3 DEF Pair
          <5> QED BY <1>8, <3>0, <4>1, <4>3, <5>1
        <4> QED BY <1>11, <3>3, <4>2, <4>3
      <3> QED BY <3>1, <3>2, <3>3 DEF Pair
    <2>2. \A a, b \in Accepted' : owner'[a] = owner'[b] => Pair(a, b)'
      BY <1>1, <2>1
    <2> QED BY <2>2 DEF Together, Pair
  <1>14. Complete'
    <2>1. ASSUME NEW a \in Accepted
          PROVE  Stays(a)' \/ HasRun(a)' \/ \E u \in Threads : \E k \in Nat : Holds(u, k, a)'
      BY <1>7, <1>11, <1>12, Completes DEF UsersInv
    <2> QED BY <1>1, <2>1 DEF Complete, InRest, Holds
  <1>15. RunsInReverse'
    <2>1. SUFFICES ASSUME NEW i \in 1 .. Len(ran'), NEW j \in 1 .. Len(ran'), i < j,
                          owner[ran'[i]] = owner[ran'[j]]
                   PROVE  ran'[i] > ran'[j]
      BY <1>1 DEF RunsInReverse
    <2>2. i \in 1 .. Len(ran) /\ ran'[i] = ran[i] /\ ran[i] \in Accepted /\ HasRun(ran[i])
      BY <1>10, <2>1, RanOnes
    <2>3. CASE j \in 1 .. Len(ran)
      BY <1>10, <2>1, <2>2, <2>3 DEF UsersInv, RunsInReverse
    <2>4. CASE j = Len(ran) + 1
      <3>1. ran'[j] = c /\ owner[c] = owner[ran[i]]
        BY <1>10, <2>1, <2>2, <2>4
      <3>2. Pair(c, ran[i])
        BY <1>9, <2>2, <3>1, Pairs DEF UsersInv
      <3>3. c < ran[i] /\ ran[i] \in Nat
        BY <1>7, <1>12, <2>2, <3>2 DEF Pair
      <3> QED BY <2>2, <3>1, <3>3
    <2> QED BY <1>10, <2>3, <2>4
  <1> QED BY <1>13, <1>14, <1>15 DEF UsersInv

LEMMA StepUsers ==
  ASSUME TypeOK, Stored, Framed, Sorted, UsersInv, Step
  PROVE  UsersInv'
  BY CalmSteps, CalmUsers, AcceptingUsers, TakeoverUsers, RunsUsers

-----------------------------------------------------------------------------
(* Nested lifetimes.                                                       *)

\* A step that runs and takes nothing: what is made is known to its parent.
Gentle ==
  /\ Restful
  /\ UNCHANGED actions \/ \E l \in 1 .. lifetimes, x \in Action : Adds(l, x)
  /\ \/ UNCHANGED <<lifetimes, parent>>
     \/ /\ lifetimes' = lifetimes + 1
        /\ \E p \in 1 .. lifetimes :
             /\ parent' = [parent EXCEPT ![lifetimes + 1] = p]
             /\ AddAction(p, TerminatesNested(lifetimes + 1))

LEMMA GentleSteps ==
  ASSUME TypeOK, Stored, Step
  PROVE  \/ Gentle
         \/ \E t \in Threads, n \in Nat, l \in 1 .. lifetimes : Takeover(t, n, l)
         \/ \E t \in Threads, n \in Nat, s \in Seq(Action) :
              \/ RunsUser(t, n, s)
              \/ \E l \in 1 .. lifetimes : RunsTerminate(t, n, s, l) \/ RunsErase(t, n, s, l)
              \/ RunsEternal(t, n, s)
  <1>0. \A l, o : Rec(o, l).op = o
    BY DEF Rec
  <1>1. ASSUME NEW t \in Threads, NEW l \in 1 .. lifetimes, Terminates(t, l) PROVE Gentle
    <2>1. Stacks(t, 0, {Rec("take", l)}, {}) /\ UNCHANGED <<actions, lifetimes, parent>>
      BY <1>1 DEF Terminates
    <2>2. Restful
      BY <1>0, <2>1, RestfulBy
    <2> QED BY <2>1, <2>2 DEF Gentle
  <1>2. ASSUME NEW t \in Threads, NEW m, NEW S, NEW O, Quiet(t, m, S, O), "run" \notin O,
               \A f \in S : f.op # "run"
        PROVE  Gentle
    <2>1. Stacks(t, m, S, O) /\ UNCHANGED <<actions, lifetimes, parent>>
      BY <1>2 DEF Quiet
    <2>2. Restful
      BY <1>2, <2>1, RestfulBy
    <2> QED BY <2>1, <2>2 DEF Gentle
  <1>3. ASSUME NEW t \in Threads, NEW m \in Nat, NEW l \in 1 .. lifetimes,
               NEW O \in SUBSET {"close"}, Accepting(t, m, l, O)
        PROVE  Gentle
    <2>1. /\ Stacks(t, m, {}, O) /\ "run" \notin O /\ AcceptAction(l) /\ ~terminated[l]
          /\ UNCHANGED <<lifetimes, parent>>
      BY <1>3 DEF Accepting
    <2>2. Restful
      BY <2>1, RestfulBy
    <2>3. Len(owner) + 1 \in Nat
      BY RanOnes
    <2>4. UserAction(Len(owner) + 1) \in Action /\ Adds(l, UserAction(Len(owner) + 1))
      BY <2>1, <2>3, SomeActions DEF Adds, AcceptAction
    <2> QED BY <2>1, <2>2, <2>4 DEF Gentle
  <1>6. ASSUME NEW t, NEW p, NEW l, NEW S, Attaches(t, p, l, S), \A f \in S : f.op # "run"
        PROVE  Gentle
    <2>1. /\ Stacks(t, 0, S \union {Rec("attach", l)}, {}) /\ p \in 1 .. lifetimes
          /\ AddAction(p, TerminatesNested(l)) /\ ~terminated[p] /\ l = lifetimes + 1
          /\ lifetimes' = l /\ parent' = [parent EXCEPT ![l] = p]
      BY <1>6 DEF Attaches
    <2>2. Restful
      BY <1>0, <1>6, <2>1, RestfulBy
    <2>3. TerminatesNested(l) \in Action /\ TerminatesNested(l).does # "user"
      BY <1>6, AttachesShape, SomeActions
    <2>4. Adds(p, TerminatesNested(l))
      BY <2>1, <2>3 DEF Adds
    <2> QED BY <2>1, <2>2, <2>3, <2>4 DEF Gentle
  <1>7. ASSUME NEW t \in Threads, NEW n \in Nat, NEW l \in 2 .. lifetimes, Attached(t, n, l)
        PROVE  Gentle
    <2>1. /\ ~terminated[l] /\ AddAction(l, ErasesFromParent(l)) /\ UNCHANGED <<lifetimes, parent>>
          /\ Stacks(t, n - 1, {}, {"attach"})
      BY <1>7 DEF Attached, Pops
    <2>2. Restful
      BY <2>1, RestfulBy
    <2>3. l \in 1 .. lifetimes /\ l \in Nat
      BY Numbers
    <2>4. ErasesFromParent(l) \in Action /\ ErasesFromParent(l).does # "user"
      BY <2>3, SomeActions
    <2> QED BY <2>1, <2>2, <2>3, <2>4 DEF Gentle, Adds
  <1>8. ASSUME NEW t \in Threads, NEW n \in Nat, NEW l \in {Eternal} \union sequential,
               NEW p \in {Eternal} \union sequential, Replaces(t, n, l, p)
        PROVE  Gentle
    <2>1. /\ Stacks(t, n - 1, IF p = Eternal THEN {} ELSE {Rec("take", p)}, {"replace"})
          /\ UNCHANGED <<actions, lifetimes, parent>>
      BY <1>8 DEF Replaces, Pops
    <2>2. \A f \in IF p = Eternal THEN {} ELSE {Rec("take", p)} : f.op # "run"
      BY <1>0
    <2>3. Restful
      BY <2>1, <2>2, RestfulBy
    <2> QED BY <2>1, <2>3 DEF Gentle
  <1>9. CASE Empties
    BY <1>0, <1>2, <1>9, LifetimesAssumption DEF Empties
  <1>10. CASE AttachesNext(lifetimes + 1)
    BY <1>0, <1>6, <1>10 DEF AttachesNext
  <1>11. ASSUME NEW t, NEW p, AttachesNested(t, p, lifetimes + 1) PROVE Gentle
    BY <1>6, <1>11 DEF AttachesNested
  <1>12. ASSUME NEW t \in Threads, NEW n \in Nat, NEW l,
                Refuses(t, n) \/ Opens(t, l) \/ NotAttached(t, n, l) \/ Reads(t, n, l)
         PROVE  Gentle
    <2>1. CASE Refuses(t, n)
      BY <1>2, <2>1 DEF Refuses
    <2>2. CASE Opens(t, l)
      BY <1>0, <1>2, <2>2 DEF Opens
    <2>3. CASE NotAttached(t, n, l)
      BY <1>2, <2>3 DEF NotAttached
    <2>4. CASE Reads(t, n, l)
      <3>1. PICK f : f = [op |-> "replace", lifetime |-> l, previous |-> current] /\ f.op # "run"
        <4>1. PICK f : f = [op |-> "replace", lifetime |-> l, previous |-> current]
          OBVIOUS
        <4>2. f.op # "run"
          BY <4>1
        <4> QED BY <4>1, <4>2
      <3>2. Quiet(t, n - 1, {f}, {"current"})
        BY <2>4, <3>1 DEF Reads
      <3> QED BY <1>2, <3>1, <3>2
    <2> QED BY <1>12, <2>1, <2>2, <2>3, <2>4
  <1> QED
    BY <1>1, <1>3, <1>7, <1>8, <1>9, <1>10, <1>11, <1>12 DEF Step

\* What is appended to a lifetime's actions leaves the others.
LEMMA AddKeeps ==
  ASSUME TypeOK, NEW l \in 1 .. lifetimes, NEW x \in Action, AddAction(l, x), NEW k \in Lifetimes
  PROVE  /\ \A y : Contains(actions[k], y) => Contains(actions'[k], y)
         /\ Contains(actions'[l], x)
  <1>1. l \in Lifetimes /\ actions' = [actions EXCEPT ![l] = Append(@, x)]
    BY Numbers DEF AddAction
  <1>2. PICK s \in Seq(Action) : s = actions[l]
    BY <1>1 DEF TypeOK
  <1>3. actions'[l] = Append(s, x) /\ (k # l => actions'[k] = actions[k])
    BY <1>1, <1>2 DEF TypeOK
  <1>4. \A y : Contains(Append(s, x), y) <=> Contains(s, y) \/ y = x
    BY Appends
  <1> QED BY <1>2, <1>3, <1>4

LEMMA StepNested ==
  ASSUME TypeOK, TypeOK', Stored, Nested, Grows, Step
  PROVE  Nested'
  <1> DEFINE X(l) == TerminatesNested(l)
             In(l) == Contains(actions[parent[l]], X(l))
             Good(l) == \/ terminated'[l]
                        \/ Contains(actions'[parent'[l]], X(l))
                        \/ \E u \in Threads : \E k \in Nat : Rest(u, k, X(l))'
  <1>0. /\ \A l \in 2 .. lifetimes :
             /\ l \in Lifetimes /\ l \in Nat /\ parent[l] \in Lifetimes
             /\ parent'[l] = parent[l] /\ (terminated[l] => terminated'[l])
        /\ lifetimes \in Nat
    <2>1. lifetimes \in Nat /\ 1 .. lifetimes \subseteq Lifetimes
      BY Numbers
    <2>2. \A l \in 2 .. lifetimes : l \in Lifetimes /\ l \in Nat /\ parent[l] \in Lifetimes
      BY <2>1 DEF Stored
    <2> QED BY <2>1, <2>2 DEF Grows
  <1>1. \A l \in 2 .. lifetimes : terminated[l] \/ In(l) \/ \E u \in Threads : \E k \in Nat : Rest(u, k, X(l))
    BY DEF Nested, InRest
  <1>2. SUFFICES \A l \in 2 .. lifetimes' : Good(l)
    BY DEF Nested, InRest
  <1>3. CASE Gentle
    <2>1. ASSUME NEW l \in 2 .. lifetimes PROVE Good(l)
      <3>1. CASE terminated[l]
        BY <1>0, <3>1
      <3>2. CASE In(l)
        <4>1. Contains(actions'[parent[l]], X(l))
          <5>1. CASE UNCHANGED actions
            BY <3>2, <5>1
          <5>2. ASSUME NEW k \in 1 .. lifetimes, NEW x \in Action, Adds(k, x)
                PROVE  Contains(actions'[parent[l]], X(l))
            BY <1>0, <3>2, <5>2, AddKeeps DEF Adds
          <5> QED BY <1>3, <5>1, <5>2 DEF Gentle
        <4> QED BY <1>0, <4>1
      <3>3. CASE \E u \in Threads : \E k \in Nat : Rest(u, k, X(l))
        <4>1. PICK x : x = X(l)
          OBVIOUS
        <4>2. PICK u \in Threads, k \in Nat : Rest(u, k, x)
          BY <3>3, <4>1
        <4>3. Rest(u, k, x)'
          BY <1>3, <4>2, RestKept DEF Gentle, Alike
        <4>4. Rest(u, k, X(l))'
          BY <4>1, <4>3 DEF Rest
        <4> QED BY <4>4
      <3> QED BY <1>1, <3>1, <3>2, <3>3
    <2>2. CASE UNCHANGED lifetimes
      BY <2>1, <2>2
    <2>3. ASSUME NEW p \in 1 .. lifetimes, lifetimes' = lifetimes + 1,
                 parent' = [parent EXCEPT ![lifetimes + 1] = p],
                 AddAction(p, TerminatesNested(lifetimes + 1))
          PROVE  \A l \in 2 .. lifetimes' : Good(l)
      <3>1. PICK l : l = lifetimes + 1
        OBVIOUS
      <3>0. lifetimes' \in Lifetimes
        BY DEF TypeOK
      <3>2. l \in Lifetimes /\ l \in Nat /\ p \in Lifetimes
        BY <1>0, <2>3, <3>0, <3>1, Numbers
      <3>3. parent'[l] = p
        BY <2>3, <3>1, <3>2 DEF TypeOK
      <3>4. X(l) \in Action /\ AddAction(p, X(l))
        BY <2>3, <3>1, <3>2, SomeActions
      <3>5. Contains(actions'[p], X(l))
        BY <3>2, <3>4, AddKeeps
      <3>6. Good(l)
        BY <3>3, <3>5
      <3>7. \A k \in 2 .. lifetimes' : k \in 2 .. lifetimes \/ k = l
        BY <1>0, <2>3, <3>1
      <3> HIDE DEF Good
      <3> QED BY <2>1, <3>6, <3>7
    <2> HIDE DEF Good
    <2> QED BY <1>3, <2>2, <2>3 DEF Gentle
  <1>4. ASSUME NEW t \in Threads, NEW n \in Nat, NEW k \in 1 .. lifetimes, Takeover(t, n, k)
        PROVE  \A l \in 2 .. lifetimes' : Good(l)
    <2>1. UNCHANGED <<lifetimes, parent>> /\ actions' = [actions EXCEPT ![k] = <<>>]
      BY <1>4 DEF Takeover
    <2>2. SUFFICES ASSUME NEW l \in 2 .. lifetimes PROVE Good(l)
      BY <2>1
    <2>3. PICK x : x = X(l)
      OBVIOUS
    <2>4. \A u \in Threads, j \in Nat :
            Rest(u, j, x)' <=> Rest(u, j, x) \/ (u = t /\ j = n /\ Contains(actions[k], x))
      BY <1>4, RestTakes
    <2>5. ASSUME NEW u \in Threads, NEW j \in Nat, Rest(u, j, x)'
          PROVE  Good(l)
      <3>1. Rest(u, j, X(l))'
        BY <2>3, <2>5 DEF Rest
      <3> QED BY <3>1
    <2>6. CASE terminated[l]
      BY <1>0, <2>6
    <2>7. CASE In(l) /\ parent[l] = k
      <3>1. Rest(t, n, x)'
        BY <2>3, <2>4, <2>7
      <3> HIDE DEF Good
      <3> QED BY <2>5, <3>1
    <2>8. CASE In(l) /\ parent[l] # k
      <3>1. actions'[parent[l]] = actions[parent[l]]
        BY <1>0, <2>1, <2>8 DEF TypeOK
      <3> QED BY <1>0, <2>8, <3>1
    <2>9. CASE \E u \in Threads : \E j \in Nat : Rest(u, j, X(l))
      <3>1. PICK u \in Threads, j \in Nat : Rest(u, j, x)
        BY <2>3, <2>9
      <3>2. Rest(u, j, x)'
        BY <2>4, <3>1
      <3> HIDE DEF Good
      <3> QED BY <2>5, <3>2
    <2> HIDE DEF Good
    <2> QED BY <1>1, <2>6, <2>7, <2>8, <2>9
  <1>5. ASSUME NEW t \in Threads, NEW n \in Nat, NEW s \in Seq(Action), NEW o, NEW S,
               RunsOne(t, n, s, o, S), \A f \in S : f.op # "run",
               o = "terminate" => terminated'[Head(s).which],
               \A l \in 2 .. lifetimes : In(l) => Contains(actions'[parent[l]], X(l)) \/ terminated[l]
        PROVE  \A l \in 2 .. lifetimes' : Good(l)
    <2>1. UNCHANGED <<lifetimes, parent>> /\ Head(s).does = o
      BY <1>5 DEF RunsOne
    <2>2. SUFFICES ASSUME NEW l \in 2 .. lifetimes PROVE Good(l)
      BY <2>1
    <2>3. PICK x : x = X(l)
      OBVIOUS
    <2>4. x.does = "terminate" /\ x.which = l
      BY <1>0, <2>3, SomeActions
    <2>6. CASE terminated[l]
      BY <1>0, <2>6
    <2>7. CASE In(l) /\ ~terminated[l]
      BY <1>0, <1>5, <2>7
    <2>9. CASE \E u \in Threads : \E j \in Nat : Rest(u, j, X(l))
      <3>1. PICK u \in Threads, j \in Nat : Rest(u, j, x)
        BY <2>3, <2>9
      <3>2. Rest(u, j, x)' \/ x = Head(s)
        BY <1>5, <3>1, RestRuns
      <3>3. CASE Rest(u, j, x)'
        <4>1. Rest(u, j, X(l))'
          BY <2>3, <3>3 DEF Rest
        <4> QED BY <4>1
      <3>4. CASE x = Head(s)
        BY <1>5, <2>1, <2>4, <3>4
      <3> QED BY <3>2, <3>3, <3>4
    <2> HIDE DEF Good
    <2> QED BY <1>1, <2>6, <2>7, <2>9
  <1>6. ASSUME NEW t \in Threads, NEW n \in Nat, NEW s \in Seq(Action),
               RunsUser(t, n, s) \/ RunsEternal(t, n, s)
        PROVE  \A l \in 2 .. lifetimes' : Good(l)
    <2>1. /\ UNCHANGED actions
          /\ \E o, S : RunsOne(t, n, s, o, S) /\ o # "terminate" /\ \A f \in S : f.op # "run"
      BY <1>6 DEF RunsUser, RunsEternal, Rec
    <2> HIDE DEF Good
    <2> QED BY <1>5, <2>1
  <1>7. ASSUME NEW t \in Threads, NEW n \in Nat, NEW s \in Seq(Action), NEW k \in 1 .. lifetimes,
               RunsTerminate(t, n, s, k)
        PROVE  \A l \in 2 .. lifetimes' : Good(l)
    <2>1. /\ UNCHANGED actions /\ Head(s).which = k /\ terminated' = [terminated EXCEPT ![k] = TRUE]
          /\ RunsOne(t, n, s, "terminate", {Rec("take", k)})
      BY <1>7 DEF RunsTerminate
    <2>2. terminated'[k]
      BY <2>1, Numbers DEF TypeOK
    <2>3. \A f \in {Rec("take", k)} : f.op # "run"
      BY DEF Rec
    <2> HIDE DEF Good
    <2> QED BY <1>5, <2>1, <2>2, <2>3
  <1>8. ASSUME NEW t \in Threads, NEW n \in Nat, NEW s \in Seq(Action), NEW k \in 1 .. lifetimes,
               RunsErase(t, n, s, k)
        PROVE  \A l \in 2 .. lifetimes' : Good(l)
    <2>1. /\ k \in 2 .. lifetimes /\ terminated[k] /\ Erase(parent[k], TerminatesNested(k))
          /\ RunsOne(t, n, s, "erase", {})
      BY <1>8 DEF RunsErase
    <2>2. ASSUME NEW l \in 2 .. lifetimes, In(l), ~terminated[l]
          PROVE  Contains(actions'[parent[l]], X(l))
      <3>1. X(l) # TerminatesNested(k)
        BY <1>0, <2>1, <2>2, SomeActions
      <3>2. parent[k] \in 1 .. lifetimes /\ parent[k] \in Lifetimes
        BY <1>0, <2>1 DEF Stored
      <3>3. CASE UNCHANGED actions
        BY <2>2, <3>3
      <3>4. ASSUME NEW i \in 1 .. Len(actions[parent[k]]),
                   actions[parent[k]][i] = TerminatesNested(k),
                   actions' = [actions EXCEPT ![parent[k]] = RemoveAt(@, i)]
            PROVE  Contains(actions'[parent[l]], X(l))
        <4>1. PICK r \in Seq(Action) : r = actions[parent[k]]
          BY <3>2 DEF TypeOK
        <4>2. CASE parent[l] = parent[k]
          <5>1. actions'[parent[l]] = RemoveAt(r, i)
            BY <3>2, <3>4, <4>1, <4>2 DEF TypeOK
          <5>2. i \in 1 .. Len(r) /\ X(l) # r[i] /\ Contains(r, X(l))
            BY <2>2, <3>1, <3>4, <4>1, <4>2
          <5>3. Contains(RemoveAt(r, i), X(l))
            BY <5>2, Removes
          <5> QED BY <5>1, <5>3
        <4>3. CASE parent[l] # parent[k]
          <5>1. actions'[parent[l]] = actions[parent[l]]
            BY <1>0, <3>2, <3>4, <4>3 DEF TypeOK
          <5> QED BY <2>2, <5>1
        <4> QED BY <4>2, <4>3
      <3> QED BY <2>1, <3>2, <3>3, <3>4, Erases
    <2> HIDE DEF Good
    <2> QED BY <1>5, <2>1, <2>2
  <1> HIDE DEF Good
  <1> QED BY <1>3, <1>4, <1>6, <1>7, <1>8, GentleSteps

-----------------------------------------------------------------------------
(* What a thread that attaches a lifetime, or makes one current, does.     *)

\* A step that attaches nothing, and puts frames on an empty stack or in the
\* place of others.
Plain ==
  \E t \in Threads : \E m, S, O :
    /\ Stacks(t, m, S, O) /\ \A f \in S : f.op # "attach"
    /\ S = {} \/ m < Len(stack[t]) \/ m = 0

LEMMA PopsPlain ==
  ASSUME TypeOK, NEW t \in Threads, NEW n, NEW o, NEW S, Pops(t, n, o, S),
         \A f \in S : f.op # "attach"
  PROVE  Plain
  <1>1. Stacks(t, n - 1, S, {o}) /\ n - 1 < Len(stack[t])
    BY DEF Pops
  <1> QED BY <1>1 DEF Plain

LEMMA PlainSteps ==
  ASSUME TypeOK, Step
  PROVE  \/ Plain
         \/ \E t \in Threads, p \in 1 .. lifetimes : AttachesNested(t, p, lifetimes + 1)
         \/ AttachesNext(lifetimes + 1)
  <1>0. /\ \A l, o : Rec(o, l).op = o
        /\ \A s : \A f \in RunSet(s) : f.op = "run"
    BY DEF Rec, RunSet
  <1>1. ASSUME NEW t \in Threads, NEW m, NEW S, NEW O, Stacks(t, m, S, O),
               \A f \in S : f.op # "attach", S = {} \/ m = 0
        PROVE  Plain
    BY <1>1 DEF Plain
  <1>2. ASSUME NEW t \in Threads, NEW l, Terminates(t, l) \/ Opens(t, l)
        PROVE  Plain
    BY <1>0, <1>1, <1>2 DEF Terminates, Opens, Quiet
  <1>3. ASSUME NEW t \in Threads, NEW m, NEW l, NEW O, Accepting(t, m, l, O)
        PROVE  Plain
    BY <1>1, <1>3 DEF Accepting
  <1>4. ASSUME NEW t \in Threads, NEW n, NEW l, Refuses(t, n) \/ NotAttached(t, n, l)
        PROVE  Plain
    BY <1>1, <1>4 DEF Refuses, NotAttached, Quiet
  <1>5. CASE Empties
    BY <1>0, <1>1, <1>5, LifetimesAssumption DEF Empties, Quiet
  <1>6. ASSUME NEW t \in Threads, NEW n, NEW l, Takeover(t, n, l)
        PROVE  Plain
    BY <1>0, <1>6, PopsPlain DEF Takeover
  <1>7. ASSUME NEW t \in Threads, NEW n, NEW s, NEW o, NEW S, RunsOne(t, n, s, o, S),
               \A f \in S : f.op # "attach"
        PROVE  Plain
    <2>1. PICK R : R = RunSet(Tail(s)) \union S
      OBVIOUS
    <2>2. Pops(t, n, "run", R)
      BY <1>7, <2>1 DEF RunsOne
    <2>3. \A f \in R : f.op # "attach"
      BY <1>0, <1>7, <2>1
    <2> QED BY <2>2, <2>3, PopsPlain
  <1>8. ASSUME NEW t \in Threads, NEW n, NEW s, NEW l,
               RunsUser(t, n, s) \/ RunsTerminate(t, n, s, l) \/ RunsErase(t, n, s, l)
                 \/ RunsEternal(t, n, s)
        PROVE  Plain
    BY <1>0, <1>7, <1>8 DEF RunsUser, RunsTerminate, RunsErase, RunsEternal
  <1>9. ASSUME NEW t \in Threads, NEW n, NEW l, Attached(t, n, l)
        PROVE  Plain
    BY <1>9, PopsPlain DEF Attached
  <1>10. ASSUME NEW t \in Threads, NEW n, NEW l, Reads(t, n, l)
         PROVE  Plain
    <2>1. PICK f : f = [op |-> "replace", lifetime |-> l, previous |-> current]
      OBVIOUS
    <2>2. f.op # "attach"
      BY <2>1
    <2>3. Pops(t, n, "current", {f})
      BY <1>10, <2>1 DEF Reads
    <2> QED BY <2>2, <2>3, PopsPlain
  <1>11. ASSUME NEW t \in Threads, NEW n, NEW l, NEW p, Replaces(t, n, l, p)
         PROVE  Plain
    <2>1. PICK S : S = IF p = Eternal THEN {} ELSE {Rec("take", p)}
      OBVIOUS
    <2>2. \A f \in S : f.op # "attach"
      BY <1>0, <2>1
    <2>3. Pops(t, n, "replace", S)
      BY <1>11, <2>1 DEF Replaces
    <2> QED BY <2>2, <2>3, PopsPlain
  <1> QED
    BY <1>2, <1>3, <1>4, <1>5, <1>6, <1>8, <1>9, <1>10, <1>11 DEF Step

LEMMA AttachingPlace ==
  Attaching <=>
    \A u \in Threads, k \in Nat : Place(u, k) /\ stack[u][k].op = "attach" =>
      /\ k = Len(stack[u])
      /\ \A m \in 1 .. k - 1 : stack[u][m] = SetsCurrent(stack[u][k].lifetime)
  BY DEF Attaching, Place

\* The other stacks are what they were.
LEMMA OthersStay ==
  ASSUME TypeOK, TypeOK', NEW t, NEW m, NEW S, Moved(t, m, S), NEW u \in Threads,
         u # t \/ (S = {} /\ m >= Len(stack[u]))
  PROVE  Len(stack'[u]) = Len(stack[u]) /\ \A k \in 1 .. Len(stack[u]) : stack'[u][k] = stack[u][k]
  <1>1. Len(stack[u]) \in Nat /\ Len(stack'[u]) \in Nat
    <2>1. stack[u] \in Seq(Frame) /\ stack'[u] \in Seq(Frame)
      BY DEF TypeOK
    <2> QED BY <2>1, LenProperties
  <1>2. \A k \in Nat : Place(u, k) => Place(u, k)' /\ stack'[u][k] = stack[u][k]
    <2>1. m \in Nat
      BY DEF Moved
    <2>2. \A k \in Nat : Place(u, k) => u # t \/ k <= m
      BY <1>1, <2>1 DEF Place
    <2> QED BY <2>2 DEF Moved
  <1>3. \A k \in Nat : Place(u, k)' => Place(u, k)
    BY DEF Moved
  <1>4. \A k \in 1 .. Len(stack[u]) : k \in 1 .. Len(stack'[u]) /\ stack'[u][k] = stack[u][k]
    BY <1>2 DEF Place
  <1>5. \A k \in 1 .. Len(stack'[u]) : k \in 1 .. Len(stack[u])
    BY <1>3 DEF Place
  <1>6. Len(stack'[u]) = Len(stack[u])
    <2>1. CASE Len(stack[u]) < Len(stack'[u])
      <3>1. Len(stack'[u]) \in 1 .. Len(stack'[u])
        BY <1>1, <2>1
      <3> QED BY <1>1, <1>5, <2>1, <3>1
    <2>2. CASE Len(stack'[u]) < Len(stack[u])
      <3>1. Len(stack[u]) \in 1 .. Len(stack[u])
        BY <1>1, <2>2
      <3> QED BY <1>1, <1>4, <2>2, <3>1
    <2> QED BY <1>1, <2>1, <2>2
  <1> QED BY <1>4, <1>6

LEMMA StepAttaching ==
  ASSUME TypeOK, TypeOK', Attaching, Step
  PROVE  Attaching'
  <1> DEFINE Good(u, k) == /\ k = Len(stack'[u])
                           /\ \A m \in 1 .. k - 1 : stack'[u][m] = SetsCurrent(stack'[u][k].lifetime)
  <1>1. SUFFICES ASSUME NEW u \in Threads, NEW k \in 1 .. Len(stack'[u]), stack'[u][k].op = "attach"
                 PROVE  Good(u, k)
    BY DEF Attaching
  <1>2. Place(u, k)' /\ k \in Nat
    BY DEF Place
  <1>3. ASSUME Place(u, k), Len(stack'[u]) = Len(stack[u]),
               \A j \in 1 .. Len(stack[u]) : stack'[u][j] = stack[u][j]
        PROVE  Good(u, k)
    <2>1. /\ k = Len(stack[u]) /\ stack[u][k] = stack'[u][k]
          /\ \A m \in 1 .. k - 1 : stack[u][m] = SetsCurrent(stack[u][k].lifetime)
      BY <1>1, <1>2, <1>3, AttachingPlace DEF Place
    <2>2. \A m \in 1 .. k - 1 : m \in 1 .. Len(stack[u])
      BY <2>1, <1>3 DEF Place
    <2> QED BY <1>3, <2>1, <2>2
  <1>4. CASE Plain
    <2>1. PICK t, m, S, O :
            /\ Stacks(t, m, S, O) /\ \A f \in S : f.op # "attach"
            /\ S = {} \/ m < Len(stack[t]) \/ m = 0
      BY <1>4 DEF Plain
    <2>2. Moved(t, m, S) /\ m \in Nat
      BY <2>1 DEF Stacks, Moved
    <2>3. Place(u, k) /\ (u # t \/ k <= m) /\ stack[u][k] = stack'[u][k]
      BY <1>1, <1>2, <2>1, <2>2 DEF Moved
    <2>4. k = Len(stack[u])
      BY <1>1, <1>2, <2>3, AttachingPlace
    <2>5. u # t \/ (S = {} /\ m >= Len(stack[u]))
      BY <1>2, <2>1, <2>2, <2>3, <2>4 DEF Place
    <2>6. Len(stack'[u]) = Len(stack[u]) /\ \A j \in 1 .. Len(stack[u]) : stack'[u][j] = stack[u][j]
      BY <2>2, <2>5, OthersStay
    <2> QED BY <1>3, <2>3, <2>6
  <1>5. ASSUME NEW t \in Threads, NEW S, NEW l, Moved(t, 0, S),
               stack'[t] = <<Rec("attach", l)>> \/ stack'[t] = <<Rec("current", l), Rec("attach", l)>>
        PROVE  Good(u, k)
    <2>0. /\ Rec("attach", l).lifetime = l /\ Rec("current", l) = SetsCurrent(l)
          /\ Rec("current", l).op # "attach"
      BY DEF Rec, SetsCurrent
    <2>1. CASE u # t
      <3>1. Len(stack'[u]) = Len(stack[u]) /\ \A j \in 1 .. Len(stack[u]) : stack'[u][j] = stack[u][j]
        BY <1>5, <2>1, OthersStay
      <3>2. Place(u, k)
        BY <1>2, <3>1 DEF Place
      <3> QED BY <1>3, <3>1, <3>2
    <2>2. CASE u = t /\ stack'[t] = <<Rec("attach", l)>>
      <3>1. Len(stack'[u]) = 1
        BY <2>2
      <3> QED BY <1>2, <3>1 DEF Place
    <2>3. CASE u = t /\ stack'[t] = <<Rec("current", l), Rec("attach", l)>>
      <3>1. Len(stack'[u]) = 2 /\ stack'[u][1] = Rec("current", l) /\ stack'[u][2] = Rec("attach", l)
        BY <2>3
      <3>2. k = 2
        BY <1>1, <2>0, <3>1
      <3>3. \A m \in 1 .. 2 - 1 : m = 1
        OBVIOUS
      <3> QED BY <2>0, <3>1, <3>2, <3>3
    <2> QED BY <1>5, <2>1, <2>2, <2>3
  <1>6. ASSUME NEW t \in Threads, NEW p, AttachesNested(t, p, lifetimes + 1)
        PROVE  Good(u, k)
    <2> HIDE DEF Good
    <2> QED BY <1>5, <1>6 DEF AttachesNested, Attaches, Stacks
  <1>7. CASE AttachesNext(lifetimes + 1)
    <2> HIDE DEF Good
    <2> QED BY <1>5, <1>7, LifetimesAssumption DEF AttachesNext, Attaches, Stacks
  <1> HIDE DEF Good
  <1> QED BY <1>4, <1>6, <1>7, PlainSteps

-----------------------------------------------------------------------------
(* The current lifetime.                                                   *)

Change(u, k) == Place(u, k) /\ Changes(stack[u][k])
Alone ==
  \A u \in Threads, k \in Nat : Change(u, k) =>
    /\ u = Viewer
    /\ \A m \in Nat : Change(u, m) => m = k
    /\ stack[u][k].op = "replace" => stack[u][k].previous = current
Ahead(l) == \E k \in Nat : Change(Viewer, k) /\ stack[Viewer][k].lifetime = l

LEMMA ChangePlaces ==
  /\ OneChanges <=> Alone
  /\ \A l : Upcoming(l) <=> Ahead(l)
  <1>1. Viewer \in Threads
    BY LifetimesAssumption
  <1>2. OneChanges <=> Alone
    BY DEF OneChanges, Alone, Change, Place
  <1>3. \A l : Upcoming(l) <=> Ahead(l)
    BY <1>1 DEF Upcoming, Ahead, Change, Place
  <1> QED BY <1>2, <1>3

LEMMA ChangeMoves ==
  ASSUME NEW t, NEW m, NEW S, NEW O, Stacks(t, m, S, O), NEW u \in Threads, NEW k \in Nat
  PROVE  /\ Change(u, k)' => \/ Change(u, k) /\ stack'[u][k] = stack[u][k]
                             \/ u = t /\ k > m /\ stack'[u][k] \in S /\ Changes(stack'[u][k])
         /\ Change(u, k) /\ (u # t \/ k <= m) => Change(u, k)' /\ stack'[u][k] = stack[u][k]
         /\ Change(u, k) /\ u = t /\ k > m => stack[u][k].op \in O
  BY DEF Stacks, Moved, Leaves, Change, Changes

\* A step that does not change the current lifetime and is not about to.
Steady ==
  /\ UNCHANGED <<current, sequential>>
  /\ \A u \in Threads, k \in Nat :
       /\ Change(u, k)' <=> Change(u, k)
       /\ Change(u, k) => stack'[u][k] = stack[u][k]

LEMMA SteadyBy ==
  ASSUME NEW t, NEW m, NEW S, NEW O, Stacks(t, m, S, O), UNCHANGED <<current, sequential>>,
         "current" \notin O, "replace" \notin O, \A f \in S : ~Changes(f)
  PROVE  Steady
  <1>1. ASSUME NEW u \in Threads, NEW k \in Nat
        PROVE  /\ Change(u, k)' <=> Change(u, k)
               /\ Change(u, k) => stack'[u][k] = stack[u][k]
    <2>1. m \in Nat
      BY DEF Stacks, Moved
    <2>2. /\ Change(u, k)' => \/ Change(u, k) /\ stack'[u][k] = stack[u][k]
                              \/ u = t /\ k > m /\ stack'[u][k] \in S /\ Changes(stack'[u][k])
          /\ Change(u, k) /\ (u # t \/ k <= m) => Change(u, k)' /\ stack'[u][k] = stack[u][k]
          /\ Change(u, k) /\ u = t /\ k > m => stack[u][k].op \in O
      BY ChangeMoves
    <2>3. Change(u, k) => stack[u][k].op \in {"current", "replace"}
      BY DEF Change, Changes
    <2>4. Change(u, k) => u # t \/ k <= m
      BY <2>1, <2>2, <2>3
    <2> QED BY <2>2, <2>4
  <1> QED BY <1>1 DEF Steady

LEMMA SteadySuccession ==
  ASSUME TypeOK, Grows, Succession, Steady
  PROVE  Succession'
  <1>0. Root \in Lifetimes /\ sequential \subseteq Lifetimes
    BY Numbers
  <1>1. SUFFICES ASSUME ~terminated[Root]
                 PROVE  Alone' /\ \A l \in sequential : terminated'[l] \/ l = current \/ Ahead(l)'
    <2>1. ~terminated'[Root] => ~terminated[Root]
      BY <1>0 DEF Grows
    <2>2. UNCHANGED <<current, sequential>>
      BY DEF Steady
    <2>3. Viewer \in Threads
      BY LifetimesAssumption
    <2>4. Alone' => OneChanges'
      BY DEF OneChanges, Alone, Change, Place
    <2>5. \A l : Ahead(l)' => Upcoming(l)'
      BY <2>3 DEF Upcoming, Ahead, Change, Place
    <2> QED BY <1>1, <2>1, <2>2, <2>4, <2>5 DEF Succession
  <1>2. Alone /\ \A l \in sequential : terminated[l] \/ l = current \/ Ahead(l)
    BY <1>1, ChangePlaces DEF Succession
  <1>3. Alone'
    BY <1>2 DEF Alone, Steady
  <1>4. \A l : Ahead(l) => Ahead(l)'
    BY LifetimesAssumption DEF Ahead, Steady
  <1>5. \A l \in sequential : terminated[l] => terminated'[l]
    BY <1>0 DEF Grows
  <1> QED BY <1>2, <1>3, <1>4, <1>5

\* What there is to show of a step that does.
LEMMA SuccessionBy ==
  ASSUME ~terminated[Root] =>
           Alone' /\ \A l \in sequential' : terminated'[l] \/ l = current' \/ Ahead(l)',
         TypeOK, Grows
  PROVE  Succession'
  <1>1. ~terminated'[Root] => ~terminated[Root]
    BY Numbers DEF Grows
  <1>3. Viewer \in Threads
    BY LifetimesAssumption
  <1>4. Alone' => OneChanges'
    BY DEF OneChanges, Alone, Change, Place
  <1>5. \A l : Ahead(l)' => Upcoming(l)'
    BY <1>3 DEF Upcoming, Ahead, Change, Place
  <1> QED BY <1>1, <1>4, <1>5 DEF Succession

LEMMA NextSuccession ==
  ASSUME TypeOK, TypeOK', Grows, Succession, NEW l, AttachesNext(l)
  PROVE  Succession'
  <1>1. /\ Stacks(Viewer, 0, {Rec("current", l)} \union {Rec("attach", l)}, {}) /\ Free(Viewer)
        /\ stack'[Viewer] = <<Rec("current", l), Rec("attach", l)>>
        /\ sequential' = sequential \union {l} /\ UNCHANGED <<terminated, current>>
        /\ Viewer \in Threads
    BY LifetimesAssumption DEF AttachesNext, Attaches
  <1>2. SUFFICES ASSUME ~terminated[Root]
                 PROVE  Alone' /\ \A k \in sequential' : terminated'[k] \/ k = current' \/ Ahead(k)'
    BY SuccessionBy
  <1>3. Alone /\ \A k \in sequential : terminated[k] \/ k = current \/ Ahead(k)
    BY <1>2, ChangePlaces DEF Succession
  <1>4. \A k \in Nat : ~Change(Viewer, k)
    BY <1>1, Places DEF Change, Place, Free
  <1>5. /\ Len(stack'[Viewer]) = 2 /\ stack'[Viewer][1] = Rec("current", l)
        /\ stack'[Viewer][2] = Rec("attach", l)
        /\ Changes(Rec("current", l)) /\ ~Changes(Rec("attach", l))
        /\ Rec("current", l).lifetime = l /\ Rec("current", l).op = "current"
    BY <1>1 DEF Changes, Rec
  <1>6. \A k \in Nat : Change(Viewer, k)' <=> k = 1
    BY <1>1, <1>5 DEF Change, Place
  <1>7. \A u \in Threads, k \in Nat : Change(u, k)' => u = Viewer
    BY <1>1, <1>3, <1>4, ChangeMoves DEF Alone
  <1>8. Alone'
    BY <1>1, <1>5, <1>6, <1>7 DEF Alone
  <1>9. Ahead(l)'
    BY <1>5, <1>6 DEF Ahead
  <1>10. \A k : ~Ahead(k)
    BY <1>4 DEF Ahead
  <1> QED BY <1>1, <1>3, <1>8, <1>9, <1>10

LEMMA NotAttachedSuccession ==
  ASSUME TypeOK, TypeOK', Grows, Attaching, Succession, NEW t \in Threads, NEW n \in Nat,
         NEW l \in 2 .. lifetimes, NotAttached(t, n, l)
  PROVE  Succession'
  <1>1. /\ Stacks(t, 0, {}, {"attach", "current"}) /\ stack'[t] = <<>>
        /\ Place(t, n) /\ stack[t][n].op = "attach" /\ stack[t][n].lifetime = l /\ terminated[l]
        /\ UNCHANGED <<terminated, current, sequential>>
    BY DEF NotAttached, Quiet
  <1>2. SUFFICES ASSUME ~terminated[Root]
                 PROVE  Alone' /\ \A k \in sequential' : terminated'[k] \/ k = current' \/ Ahead(k)'
    BY SuccessionBy
  <1>3. Alone /\ \A k \in sequential : terminated[k] \/ k = current \/ Ahead(k)
    BY <1>2, ChangePlaces DEF Succession
  <1>4. n = Len(stack[t]) /\ \A m \in 1 .. n - 1 : stack[t][m] = SetsCurrent(l)
    BY <1>1, AttachingPlace
  <1>5. \A k \in Nat : Change(t, k) => stack[t][k].lifetime = l
    <2>1. SUFFICES ASSUME NEW k \in Nat, Change(t, k) PROVE stack[t][k].lifetime = l
      OBVIOUS
    <2>2. k \in 1 .. n /\ stack[t][k].op \in {"current", "replace"}
      BY <1>4, <2>1 DEF Change, Place, Changes
    <2>3. k # n
      BY <1>1, <2>2
    <2>4. stack[t][k] = SetsCurrent(l)
      BY <1>4, <2>2, <2>3
    <2> QED BY <2>4 DEF SetsCurrent
  <1>6. \A u \in Threads, k \in Nat : Change(u, k)' =>
          Change(u, k) /\ stack'[u][k] = stack[u][k]
    BY <1>1, ChangeMoves
  <1>7. Alone'
    BY <1>1, <1>3, <1>6 DEF Alone
  <1>8. ASSUME NEW k \in sequential, Ahead(k)
        PROVE  terminated[k] \/ Ahead(k)'
    <2>1. PICK j \in Nat : Change(Viewer, j) /\ stack[Viewer][j].lifetime = k
      BY <1>8 DEF Ahead
    <2>2. CASE t = Viewer
      BY <1>1, <1>5, <2>1, <2>2
    <2>3. CASE t # Viewer
      <3>1. Change(Viewer, j)' /\ stack'[Viewer][j] = stack[Viewer][j]
        BY <1>1, <2>1, <2>3, ChangeMoves, LifetimesAssumption
      <3> QED BY <2>1, <3>1 DEF Ahead
    <2> QED BY <2>2, <2>3
  <1> QED BY <1>1, <1>3, <1>7, <1>8

LEMMA EmptiesSuccession ==
  ASSUME TypeOK, TypeOK', Grows, Succession, Empties
  PROVE  Succession'
  <1>1. /\ Stacks(Viewer, 0, {Rec("current", Eternal)}, {}) /\ Free(Viewer) /\ Viewer \in Threads
        /\ UNCHANGED <<terminated, current, sequential>>
    BY LifetimesAssumption DEF Empties, Quiet
  <1>2. SUFFICES ASSUME ~terminated[Root]
                 PROVE  Alone' /\ \A k \in sequential' : terminated'[k] \/ k = current' \/ Ahead(k)'
    BY SuccessionBy
  <1>3. Alone /\ \A k \in sequential : terminated[k] \/ k = current \/ Ahead(k)
    BY <1>2, ChangePlaces DEF Succession
  <1>4. \A k \in Nat : ~Change(Viewer, k)
    BY <1>1, Places DEF Change, Place, Free
  <1>5. \A u \in Threads, k \in Nat : Change(u, k)' =>
          u = Viewer /\ k > 0 /\ stack'[u][k] = Rec("current", Eternal)
    BY <1>1, <1>3, <1>4, ChangeMoves DEF Alone
  <1>6. \A j, k \in Nat : Place(Viewer, j)' /\ Place(Viewer, k)' /\ j > 0 /\ k > 0
          /\ stack'[Viewer][j] = stack'[Viewer][k] => j = k
    BY <1>1 DEF Stacks, Moved
  <1>7. Rec("current", Eternal).op = "current"
    BY DEF Rec
  <1>8. \A j, k \in Nat : Change(Viewer, j)' /\ Change(Viewer, k)' => j = k
    BY <1>1, <1>5, <1>6 DEF Change
  <1>9. Alone'
    BY <1>5, <1>7, <1>8 DEF Alone
  <1>10. \A k : ~Ahead(k)
    BY <1>4 DEF Ahead
  <1> QED BY <1>1, <1>3, <1>9, <1>10

LEMMA ReadsSuccession ==
  ASSUME TypeOK, TypeOK', Grows, Succession, NEW t \in Threads, NEW n \in Nat,
         NEW l \in {Eternal} \union sequential, Reads(t, n, l)
  PROVE  Succession'
  <1>1. PICK f : f = [op |-> "replace", lifetime |-> l, previous |-> current]
    OBVIOUS
  <1>2. f.op = "replace" /\ f.lifetime = l /\ f.previous = current /\ Changes(f)
    BY <1>1 DEF Changes
  <1>3. /\ Stacks(t, n - 1, {f}, {"current"}) /\ stack[t][n].lifetime = l /\ Place(t, n)
        /\ stack[t][n].op = "current" /\ n = Len(stack[t]) /\ n - 1 \in Nat
        /\ UNCHANGED <<terminated, current, sequential>>
    BY <1>1 DEF Reads, Pops, Quiet
  <1>4. SUFFICES ASSUME ~terminated[Root]
                 PROVE  Alone' /\ \A k \in sequential' : terminated'[k] \/ k = current' \/ Ahead(k)'
    BY SuccessionBy
  <1>5. Alone /\ \A k \in sequential : terminated[k] \/ k = current \/ Ahead(k)
    BY <1>4, ChangePlaces DEF Succession
  <1>6. Change(t, n)
    BY <1>3 DEF Change, Changes
  <1>7. t = Viewer /\ \A u \in Threads, k \in Nat : Change(u, k) => u = Viewer /\ k = n
    BY <1>5, <1>6 DEF Alone
  <1>8. \A u \in Threads, k \in Nat : Change(u, k)' =>
          u = Viewer /\ k > n - 1 /\ stack'[u][k] = f
    <2>1. ASSUME NEW u \in Threads, NEW k \in Nat, Change(u, k)'
          PROVE  u = Viewer /\ k > n - 1 /\ stack'[u][k] = f
      <3>1. \/ Change(u, k) /\ stack'[u][k] = stack[u][k]
            \/ u = t /\ k > n - 1 /\ stack'[u][k] \in {f}
        BY <1>3, <2>1, ChangeMoves
      <3>2. CASE Change(u, k) /\ stack'[u][k] = stack[u][k]
        <4>1. u = t /\ k = n /\ k > n - 1
          BY <1>7, <3>2
        <4>2. Place(t, k)'
          BY <2>1, <4>1 DEF Change
        <4>3. stack'[t][k] \in {f}
          <5>1. \/ Place(t, k) /\ (t # t \/ k <= n - 1)
                \/ t = t /\ k > n - 1 /\ stack'[t][k] \in {f}
            BY <1>3, <4>2 DEF Stacks, Moved
          <5>2. ~(k <= n - 1)
            BY <1>3, <4>1
          <5> QED BY <5>1, <5>2
        <4> QED BY <1>7, <4>1, <4>3
      <3> QED BY <1>7, <3>1, <3>2
    <2> QED BY <2>1
  <1>9. \A j, k \in Nat : Place(Viewer, j)' /\ Place(Viewer, k)' /\ j > n - 1 /\ k > n - 1
          /\ stack'[Viewer][j] = stack'[Viewer][k] => j = k
    BY <1>3, <1>7 DEF Stacks, Moved
  <1>10. \A j, k \in Nat : Change(Viewer, j)' /\ Change(Viewer, k)' => j = k
    BY <1>7, <1>8, <1>9 DEF Change
  <1>11. Alone'
    BY <1>2, <1>3, <1>8, <1>10 DEF Alone
  <1>12. Ahead(l)'
    <2>1. PICK k \in Nat : Place(Viewer, k)' /\ stack'[Viewer][k] = f
      BY <1>3, <1>7 DEF Stacks, Moved
    <2> QED BY <1>2, <2>1 DEF Ahead, Change
  <1>13. \A k : Ahead(k) => k = l
    BY <1>3, <1>7, LifetimesAssumption DEF Ahead
  <1> QED BY <1>3, <1>5, <1>11, <1>12, <1>13

LEMMA ReplacesSuccession ==
  ASSUME TypeOK, TypeOK', Grows, Succession, NEW t \in Threads, NEW n \in Nat,
         NEW l \in {Eternal} \union sequential, NEW p \in {Eternal} \union sequential,
         Replaces(t, n, l, p)
  PROVE  Succession'
  <1> DEFINE S == IF p = Eternal THEN {} ELSE {Rec("take", p)}
  <1>1. /\ Stacks(t, n - 1, S, {"replace"}) /\ stack[t][n].lifetime = l /\ Place(t, n)
        /\ stack[t][n].op = "replace" /\ stack[t][n].previous = p
        /\ n = Len(stack[t]) /\ n - 1 \in Nat /\ UNCHANGED sequential /\ current' = l
        /\ terminated' = IF p = Eternal THEN terminated ELSE [terminated EXCEPT ![p] = TRUE]
    BY DEF Replaces, Pops
  <1>2. \A f \in S : ~Changes(f)
    BY DEF Changes, Rec
  <1> HIDE DEF S
  <1>4. SUFFICES ASSUME ~terminated[Root]
                 PROVE  Alone' /\ \A k \in sequential' : terminated'[k] \/ k = current' \/ Ahead(k)'
    BY SuccessionBy
  <1>5. Alone /\ \A k \in sequential : terminated[k] \/ k = current \/ Ahead(k)
    BY <1>4, ChangePlaces DEF Succession
  <1>6. Change(t, n)
    BY <1>1 DEF Change, Changes
  <1>7. t = Viewer /\ p = current /\ \A u \in Threads, k \in Nat : Change(u, k) => u = Viewer /\ k = n
    BY <1>1, <1>5, <1>6 DEF Alone
  <1>8. \A u \in Threads, k \in Nat : ~Change(u, k)'
    <2>1. SUFFICES ASSUME NEW u \in Threads, NEW k \in Nat, Change(u, k)' PROVE FALSE
      OBVIOUS
    <2>2. Change(u, k) /\ u = t /\ k = n
      BY <1>1, <1>2, <1>7, <2>1, ChangeMoves
    <2>3. Place(t, k)' /\ Changes(stack'[t][k])
      BY <2>1, <2>2 DEF Change
    <2>4. \/ Place(t, k) /\ (t # t \/ k <= n - 1)
          \/ t = t /\ k > n - 1 /\ stack'[t][k] \in S
      BY <1>1, <2>3 DEF Stacks, Moved
    <2>5. ~(k <= n - 1)
      BY <1>1, <2>2
    <2> QED BY <1>2, <2>3, <2>4, <2>5
  <1>9. Alone'
    BY <1>8 DEF Alone
  <1>10. \A k : Ahead(k) => k = l
    BY <1>1, <1>7, LifetimesAssumption DEF Ahead
  <1>11. \A k \in sequential : k # Eternal /\ k \in Lifetimes
    BY Numbers
  <1>12. \A k \in sequential : (terminated[k] \/ k = p) => terminated'[k]
    BY <1>1, <1>11 DEF TypeOK
  <1> QED BY <1>1, <1>5, <1>7, <1>9, <1>10, <1>12

LEMMA StepSuccession ==
  ASSUME TypeOK, TypeOK', Stored, Framed, Attaching, Grows, Succession, Step
  PROVE  Succession'
  <1>0. /\ \A l, o : Rec(o, l).op = o
        /\ \A s : \A f \in RunSet(s) : ~Changes(f)
        /\ \A l : ~Changes(Rec("take", l)) /\ ~Changes(Rec("close", l)) /\ ~Changes(Rec("attach", l))
    BY DEF Rec, RunSet, Changes
  <1>1. ASSUME NEW t, NEW m, NEW S, NEW O, Stacks(t, m, S, O), UNCHANGED <<current, sequential>>,
               "current" \notin O, "replace" \notin O, \A f \in S : ~Changes(f)
        PROVE  Succession'
    <2>1. Steady
      BY <1>1, SteadyBy
    <2> QED BY <2>1, SteadySuccession
  <1>2. ASSUME NEW t, NEW l, Terminates(t, l) \/ Opens(t, l) PROVE Succession'
    BY <1>0, <1>1, <1>2 DEF Terminates, Opens, Quiet
  <1>3. ASSUME NEW t, NEW n, NEW l, Takeover(t, n, l) PROVE Succession'
    BY <1>0, <1>1, <1>3 DEF Takeover, Pops
  <1>4. ASSUME NEW t, NEW n, NEW s, NEW o, NEW S, RunsOne(t, n, s, o, S), UNCHANGED current,
               \A f \in S : ~Changes(f)
        PROVE  Succession'
    <2>1. PICK R : R = RunSet(Tail(s)) \union S
      OBVIOUS
    <2>2. /\ Stacks(t, n - 1, R, {"run"}) /\ UNCHANGED <<current, sequential>>
          /\ \A f \in R : ~Changes(f)
      BY <1>0, <1>4, <2>1 DEF RunsOne, Pops
    <2> QED BY <1>1, <2>2
  <1>5. ASSUME NEW t, NEW n, NEW s, NEW l,
               RunsUser(t, n, s) \/ RunsTerminate(t, n, s, l) \/ RunsErase(t, n, s, l)
        PROVE  Succession'
    BY <1>0, <1>4, <1>5 DEF RunsUser, RunsTerminate, RunsErase
  <1>6. ASSUME NEW t, NEW n, NEW s, RunsEternal(t, n, s) PROVE Succession'
    <2>1. terminated[Root]
      BY <1>6 DEF RunsEternal
    <2> QED BY <2>1, SuccessionBy
  <1>7. ASSUME NEW t, NEW m, NEW l, NEW O, Accepting(t, m, l, O) PROVE Succession'
    <2>1. Stacks(t, m, {}, O) /\ UNCHANGED <<current, sequential>> /\ O \subseteq {"close"}
      BY <1>7 DEF Accepting
    <2> QED BY <1>1, <2>1
  <1>8. ASSUME NEW t, NEW n, Refuses(t, n) PROVE Succession'
    BY <1>1, <1>8 DEF Refuses, Quiet
  <1>9. ASSUME NEW t, NEW p, AttachesNested(t, p, lifetimes + 1) PROVE Succession'
    BY <1>0, <1>1, <1>9 DEF AttachesNested, Attaches
  <1>10. ASSUME NEW t, NEW n, NEW l, Attached(t, n, l) PROVE Succession'
    BY <1>1, <1>10 DEF Attached, Pops
  <1> QED
    BY <1>2, <1>3, <1>5, <1>6, <1>7, <1>8, <1>9, <1>10, NextSuccession, NotAttachedSuccession,
       EmptiesSuccession, ReadsSuccession, ReplacesSuccession DEF Step

-----------------------------------------------------------------------------
(* The invariant.                                                          *)

LEMMA InitInv == Init => LifetimesInv
  <1> SUFFICES ASSUME Init PROVE LifetimesInv
    OBVIOUS
  <1>1. /\ lifetimes = 1 /\ terminated = [l \in Lifetimes |-> FALSE]
        /\ actions = [l \in Lifetimes |-> IF l = Root THEN <<SetsEternal>> ELSE <<>>]
        /\ current = Eternal /\ stack = [t \in Threads |-> <<>>]
        /\ parent = [l \in Lifetimes |-> 0] /\ sequential = {} /\ owner = <<>> /\ ran = <<>>
        /\ MaxLifetimes \in Nat /\ MaxLifetimes >= 1
    BY LifetimesAssumption DEF Init
  <1>2. SetsEternal \in Action /\ SetsEternal.does = "eternal"
    BY DEF SetsEternal, Action
  <1>3. /\ \A l \in Lifetimes : actions[l] \in Seq(Action)
        /\ \A l \in Lifetimes : \A x : Contains(actions[l], x) => x = SetsEternal /\ l = Root
        /\ \A l \in Lifetimes : Rising(actions[l])
    <2>1. <<SetsEternal>> \in Seq(Action) /\ <<>> \in Seq(Action)
      BY <1>2
    <2>2. /\ \A x : Contains(<<SetsEternal>>, x) => x = SetsEternal
          /\ \A x : ~Contains(<<>>, x)
      BY DEF Contains
    <2>3. Rising(<<SetsEternal>>) /\ Rising(<<>>)
      BY <1>2 DEF Rising
    <2> QED BY <1>1, <2>1, <2>2, <2>3
  <1>4. \A t \in Threads : stack[t] = <<>> /\ Len(stack[t]) = 0
    BY <1>1
  <1>5. Len(owner) = 0 /\ Len(ran) = 0
    BY <1>1
  <1>6. TypeOK
    <2>1. lifetimes \in Lifetimes /\ sequential \subseteq 2 .. lifetimes
      BY <1>1 DEF Lifetimes
    <2>2. terminated \in [Lifetimes -> BOOLEAN] /\ parent \in [Lifetimes -> 0 .. MaxLifetimes]
      BY <1>1
    <2>3. actions \in [Lifetimes -> Seq(Action)]
      BY <1>1, <1>3
    <2>4. stack \in [Threads -> Seq(Frame)] /\ owner \in Seq(Lifetimes) /\ ran \in Seq(Nat)
      BY <1>1
    <2>5. current \in 0 .. MaxLifetimes
      BY <1>1 DEF Eternal
    <2> QED BY <2>1, <2>2, <2>3, <2>4, <2>5 DEF TypeOK
  <1>7. \A l \in Lifetimes : ~terminated[l]
    BY <1>1
  <1>8. 2 .. lifetimes = {}
    BY <1>1
  <1>9. Stored
    <2>1. \A l \in Lifetimes : \A x \in Action : Contains(actions[l], x) => Of(l, x)
      BY <1>2, <1>3 DEF Of
    <2>2. \A l \in Lifetimes : l > lifetimes => ~terminated[l]
      BY <1>7
    <2>3. \A l \in 2 .. lifetimes : parent[l] \in 1 .. lifetimes
      BY <1>8
    <2>4. \A l \in sequential : parent[l] = Root
      BY <1>1
    <2>5. current \in {Eternal} \union sequential
      BY <1>1
    <2>6. 1 .. Len(owner) = {} /\ 1 .. Len(ran) = {}
      BY <1>5
    <2> QED BY <2>1, <2>2, <2>3, <2>4, <2>5, <2>6 DEF Stored
  <1>10. Framed /\ Attaching
    BY <1>4 DEF Framed, Attaching
  <1>11. Emptied
    BY <1>7 DEF Emptied
  <1>12. Sorted
    BY <1>3, <1>4 DEF Sorted, Running
  <1>13. UsersInv
    BY <1>5 DEF UsersInv, Together, Complete, RunsInReverse, Accepted
  <1>14. Nested
    BY <1>8 DEF Nested
  <1>15. Succession
    BY <1>1, <1>4 DEF Succession, OneChanges
  <1> QED BY <1>6, <1>9, <1>10, <1>11, <1>12, <1>13, <1>14, <1>15 DEF LifetimesInv, UsersInv

LEMMA StepInv == LifetimesInv /\ Step => LifetimesInv'
  <1> SUFFICES ASSUME LifetimesInv, Step PROVE LifetimesInv'
    OBVIOUS
  <1>1. /\ TypeOK /\ Stored /\ Framed /\ Emptied /\ Sorted /\ Nested /\ Attaching /\ Succession
        /\ UsersInv
    BY DEF LifetimesInv, UsersInv
  <1>2. Shapes /\ TypeOK' /\ Grows
    BY <1>1, StepShapes, StepTypes
  <1>3. Stored'
    BY <1>1, <1>2, StepStored
  <1>4. Framed' /\ Sorted'
    <2>1. PICK t, m, S, O : Exchanges(t, m, S, O)
      <3>1. CASE Quiets
        BY <3>1 DEF Quiets
      <3>2. ASSUME NEW t \in Threads, NEW n \in Nat, NEW l \in 1 .. lifetimes, Takeover(t, n, l)
            PROVE  \E u, m, S, O : Exchanges(u, m, S, O)
        BY <1>1, <1>2, <3>2, TakeoverPuts
      <3> QED BY <1>1, <1>2, <3>1, <3>2, StepMoves
    <2>2. Moved(t, m, S) /\ Puts(S)
      BY <2>1 DEF Exchanges, Stacks
    <2> QED BY <1>1, <1>2, <2>2, FramedStep, SortedStep
  <1>5. Emptied'
    BY <1>1, <1>2, StepEmptied
  <1>6. UsersInv'
    BY <1>1, <1>2, StepUsers
  <1>7. Nested' /\ Attaching' /\ Succession'
    BY <1>1, <1>2, StepNested, StepAttaching, StepSuccession
  <1> QED BY <1>2, <1>3, <1>4, <1>5, <1>6, <1>7 DEF LifetimesInv, UsersInv

LEMMA StillInv == LifetimesInv /\ UNCHANGED vars => LifetimesInv'
  <1> SUFFICES ASSUME LifetimesInv, UNCHANGED vars PROVE LifetimesInv'
    OBVIOUS
  <1>1. /\ lifetimes' = lifetimes /\ terminated' = terminated /\ actions' = actions
        /\ current' = current /\ stack' = stack /\ parent' = parent
        /\ sequential' = sequential /\ owner' = owner /\ ran' = ran
    BY DEF vars
  <1>2. /\ \A l, x : Of(l, x)' <=> Of(l, x)
        /\ \A l : Takes(l)' <=> Takes(l)
        /\ \A t, k, x : Rest(t, k, x)' <=> Rest(t, k, x)
        /\ \A a : HasRun(a)' <=> HasRun(a)
        /\ Accepted' = Accepted
        /\ \A t : Running(t)' = Running(t)
        /\ \A a : Stays(a)' <=> Stays(a)
        /\ \A l : Upcoming(l)' <=> Upcoming(l)
    BY <1>1 DEF Of, Takes, Rest, HasRun, Accepted, Running, Stays, Upcoming
  <1>3. \A f : Sound(f)' <=> Sound(f)
    BY <1>1, <1>2 DEF Sound, SoundRun
  <1>4. TypeOK' /\ Emptied' /\ Sorted' /\ RunsInReverse' /\ Attaching'
    BY <1>1, <1>2 DEF LifetimesInv, TypeOK, Emptied, Sorted, RunsInReverse, Attaching
  <1>5. Stored'
    BY <1>1, <1>2 DEF LifetimesInv, Stored
  <1>6. Framed'
    BY <1>1, <1>3 DEF LifetimesInv, Framed, Sound, SoundRun, Of
  <1>7. Together' /\ Complete'
    <2>1. Calm
      BY <1>1, <1>2 DEF Calm, Holds
    <2> QED BY <2>1, CalmUsers DEF LifetimesInv, UsersInv
  <1>9. Nested'
    <2>1. \A l : InRest(TerminatesNested(l))' <=> InRest(TerminatesNested(l))
      BY <1>2 DEF InRest
    <2> QED BY <1>1, <2>1 DEF LifetimesInv, Nested
  <1>8. Succession'
    BY <1>1 DEF LifetimesInv, Succession, OneChanges, Upcoming
  <1> QED BY <1>4, <1>5, <1>6, <1>7, <1>8, <1>9 DEF LifetimesInv

\* The invariant of the lifetimes holds in every state.
THEOREM LifetimesInvariance == Spec => []LifetimesInv
  <1>1. Init => LifetimesInv
    BY InitInv
  <1>2. LifetimesInv /\ [Next]_vars => LifetimesInv'
    <2>1. LifetimesInv => TypeOK /\ Stored /\ Framed /\ Attaching
      BY DEF LifetimesInv
    <2> QED BY <2>1, NextSteps, StepInv, StillInv
  <1> QED BY <1>1, <1>2, PTL DEF Spec

\* What threads are in the middle of, and the actions they have taken, are of
\* the kinds the program has (LifetimeImpl, SequentialLifetimes).
THEOREM LifetimesTypeCorrect == Spec => []TypeOK
  <1>1. LifetimesInv => TypeOK
    BY DEF LifetimesInv
  <1> QED BY <1>1, LifetimesInvariance, PTL

\* When every thread has returned, what has been terminated is empty and no
\* action is waiting to be run.
LEMMA NothingLeft ==
  ASSUME LifetimesInv, AllFree
  PROVE  /\ \A l \in Lifetimes : terminated[l] => actions[l] = <<>>
         /\ \A t \in Threads, k \in Nat : \A x : ~Rest(t, k, x)
  <1>1. \A t \in Threads : Len(stack[t]) = 0
    BY Places DEF LifetimesInv, AllFree, Free
  <1>2. \A t \in Threads, k \in Nat : \A x : ~Rest(t, k, x)
    BY <1>1 DEF Rest, Running
  <1>3. \A l \in Lifetimes : ~Takes(l)
    BY <1>1 DEF Takes
  <1> QED BY <1>2, <1>3 DEF LifetimesInv, Emptied

\* RunsExactlyOnce: an accepted action is run once if its lifetime is
\* terminated, and is never run twice or without that, for any number of
\* threads that add, terminate and nest (LifetimeImpl::terminate).
THEOREM ExactlyOnceHolds == Spec => []RunsExactlyOnce
  <1>1. LifetimesInv => RunsExactlyOnce
    <2> SUFFICES ASSUME LifetimesInv, NEW a \in 1 .. Len(owner)
                 PROVE  IF terminated[owner[a]] THEN /\ \A i, j \in Runs(a) : i = j
                                                     /\ AllFree => Runs(a) # {}
                                                ELSE Runs(a) = {}
      BY DEF RunsExactlyOnce
    <2>1. /\ TypeOK /\ Stored /\ Complete /\ RunsInReverse /\ a \in Accepted
          /\ DOMAIN ran = 1 .. Len(ran) /\ Len(ran) \in Nat
      BY Elements DEF LifetimesInv, Accepted, TypeOK
    <2>2. \A i, j \in Runs(a) : i = j
      <3> SUFFICES ASSUME NEW i \in Runs(a), NEW j \in Runs(a), i # j PROVE FALSE
        OBVIOUS
      <3>1. i \in 1 .. Len(ran) /\ j \in 1 .. Len(ran) /\ ran[i] = a /\ ran[j] = a
        BY <2>1 DEF Runs
      <3>2. a \in Nat /\ owner[ran[i]] = owner[ran[j]]
        BY <2>1, <3>1, RanOnes
      <3>3. i < j \/ j < i
        BY <2>1, <3>1
      <3> QED BY <2>1, <3>1, <3>2, <3>3 DEF RunsInReverse
    <2>3. ASSUME terminated[owner[a]], AllFree PROVE Runs(a) # {}
      <3>1. owner[a] \in Lifetimes /\ a \in Nat
        BY <2>1, RanOnes
      <3>2. actions[owner[a]] = <<>>
        BY <2>3, <3>1, NothingLeft
      <3>3. ~Stays(a)
        BY <3>2 DEF Stays, Contains
      <3>4. \A t \in Threads : \A k \in Nat : ~Holds(t, k, a)
        BY <2>3, NothingLeft DEF Holds
      <3>5. HasRun(a)
        BY <2>1, <3>3, <3>4, Completes
      <3> QED BY <2>1, <3>5 DEF HasRun, Runs
    <2>4. ASSUME ~terminated[owner[a]] PROVE Runs(a) = {}
      BY <2>1, <2>4 DEF Runs, Stored
    <2> QED BY <2>2, <2>3, <2>4
  <1> QED BY <1>1, LifetimesInvariance, PTL

\* RunsInReverse: the actions of a lifetime are run in the reverse of the order
\* in which they were accepted (LifetimeImpl::terminate).
THEOREM InReverseHolds == Spec => []RunsInReverse
  <1>1. LifetimesInv => RunsInReverse
    BY DEF LifetimesInv
  <1> QED BY <1>1, LifetimesInvariance, PTL

\* NestedEndsWithParent: when every thread has returned, what is nested in a
\* terminated lifetime is terminated (LifetimeImpl::attach_nested).
THEOREM NestedEndHolds == Spec => []NestedEndsWithParent
  <1>1. LifetimesInv => NestedEndsWithParent
    <2> SUFFICES ASSUME LifetimesInv, AllFree, NEW l \in 2 .. lifetimes, terminated[parent[l]]
                 PROVE  terminated[l]
      BY DEF NestedEndsWithParent
    <2>1. TypeOK /\ Stored /\ Nested
      BY DEF LifetimesInv
    <2>2. parent[l] \in Lifetimes
      BY <2>1, Numbers DEF Stored
    <2>3. actions[parent[l]] = <<>>
      BY <2>2, NothingLeft
    <2>4. ~Contains(actions[parent[l]], TerminatesNested(l))
      BY <2>3 DEF Contains
    <2>5. ~InRest(TerminatesNested(l))
      BY NothingLeft DEF InRest
    <2> QED BY <2>1, <2>4, <2>5 DEF Nested
  <1> QED BY <1>1, LifetimesInvariance, PTL

\* OneAtATime: a SequentialLifetimes has at most its current lifetime alive,
\* when every thread has returned (SequentialLifetimes::set_current_lifetime).
THEOREM OneAtATimeHolds == Spec => []OneAtATime
  <1>1. LifetimesInv => OneAtATime
    <2> SUFFICES ASSUME LifetimesInv, AllFree, NEW l \in sequential
                 PROVE  terminated[l] \/ l = current
      BY DEF OneAtATime
    <2>1. TypeOK /\ Stored /\ Nested /\ Succession
      BY DEF LifetimesInv
    <2>2. CASE terminated[Root]
      <3>1. l \in 2 .. lifetimes /\ parent[l] = Root /\ Root \in Lifetimes
        BY <2>1, Numbers DEF Stored
      <3>2. actions[Root] = <<>>
        BY <2>2, <3>1, NothingLeft
      <3>3. ~Contains(actions[parent[l]], TerminatesNested(l))
        BY <3>1, <3>2 DEF Contains
      <3>4. ~InRest(TerminatesNested(l))
        BY NothingLeft DEF InRest
      <3> QED BY <2>1, <3>1, <3>3, <3>4 DEF Nested
    <2>3. CASE ~terminated[Root]
      <3>1. ~Upcoming(l)
        BY <2>1, Places, LifetimesAssumption DEF AllFree, Free, Upcoming
      <3> QED BY <2>1, <2>3, <3>1 DEF Succession
    <2> QED BY <2>2, <2>3
  <1> QED BY <1>1, LifetimesInvariance, PTL
=============================================================================
