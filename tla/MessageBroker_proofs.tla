------------------------- MODULE MessageBroker_proofs -------------------------
(***************************************************************************)
(* Proofs about the broker of a wire's messages, for any entities of any   *)
(* kinds and any number of messages and subscriptions: no message is lost  *)
(* or doubled on its way, those of an entity keep their order, and an      *)
(* entity no longer bound is called only with a message for which that was *)
(* decided before.                                                         *)
(***************************************************************************)
EXTENDS MessageBroker, SequenceTheorems, TLAPS

Current == [to : Entities \cup {Nobody}, bound : BOOLEAN, rest : Seq(Nat)]

Types ==
  /\ ownScheduler \subseteq Entities
  /\ broker \in [Entities -> Mq]
  /\ queue \in Seq(Entry)
  /\ ownQueue \in [Entities -> Seq(Nat)]
  /\ ownChecked \in [Entities -> BOOLEAN]
  /\ current \in Current
  /\ dest \in Seq(Entities)
  /\ handled \in [Entities -> Seq(Nat)]
  /\ dropped \in [Entities -> Seq(Nat)]

\* The action of dispatch is about an entity, and about the message at the head
\* of its queue; it keeps messages back only when it has erased the Mq, which held
\* no parked message or was raced for.
Phases ==
  /\ pc # "idle" => current.to \in Entities
  /\ pc \notin {"flush", "flushCall"} => current.rest = <<>>
  /\ pc = "flushCall" => current.rest # <<>>
  /\ pc = "erase" => broker[current.to].default = <<>> \/ current.to \in raced
  /\ pc = "deliver" => /\ queue # <<>>
                      /\ Head(queue).op = "deliver" /\ Head(queue).to = current.to
  /\ pc \in {"look", "parkedCall"} =>
       /\ queue # <<>>
       /\ Head(queue).op = "parked" /\ Head(queue).to = current.to
       /\ broker[current.to].default # <<>>
  /\ pc = "parkedCall" => current.bound

\* Only signals have a scheduler of their own, and only entities that are called
\* at once are called after a check on the same thread.
Signals ==
  /\ \A e \in ownScheduler : kind[e] = "signal"
  /\ \A e \in Entities : ownChecked[e] => ownQueue[e] # <<>>
  /\ pc \in {"parkedCall", "flushCall"} => kind[current.to] \in {"ext", "intern"}
  /\ receiver \in {"found", "call"} => hand \in Entities
  /\ receiver = "call" => kind[hand] \in {"ext", "intern"}

Distinct(f) == \A i, j \in DOMAIN f : f[i] = f[j] => i = j
Rising(f) == \A i, j \in DOMAIN f : i < j => f[i] < f[j]
At(e, p) == Elements(In(e, p))

\* The messages for an entity are each in one place, once ...
Once(e) ==
  /\ \A p \in Places : Distinct(In(e, p)) /\ At(e, p) \subseteq MessagesOf(e)
  /\ \A p, q \in Places : p # q => At(e, p) \cap At(e, q) = {}

\* ... and none is lost, unless dispatch raced with the action.
Complete(e) == e \notin raced => \A m \in MessagesOf(e) : \E p \in Places : m \in At(e, p)

-----------------------------------------------------------------------------
(* What Append and Tail do to a place.                                     *)

Grown(f, g, m) ==
  /\ Elements(g) = Elements(f) \cup {m}
  /\ Distinct(f) /\ m \notin Elements(f) => Distinct(g)
  /\ Rising(f) /\ (\A x \in Elements(f) : x < m) => Rising(g)

Shrunk(f, g, m) ==
  /\ m \in Elements(f)
  /\ Distinct(f) => Distinct(g) /\ Elements(g) = Elements(f) \ {m}
  /\ Rising(f) => Rising(g) /\ \A x \in Elements(g) : m < x

Alike(f, g) ==
  /\ Elements(g) = Elements(f)
  /\ Distinct(f) => Distinct(g)
  /\ Rising(f) => Rising(g)

LEMMA AppendAt ==
  ASSUME NEW S, NEW s \in Seq(S), NEW x \in S
  PROVE  /\ Append(s, x) \in Seq(S)
         /\ Len(s) \in Nat
         /\ Len(Append(s, x)) = Len(s) + 1
         /\ DOMAIN s = 1 .. Len(s)
         /\ DOMAIN Append(s, x) = 1 .. Len(s) + 1
         /\ \A i \in 1 .. Len(s) : s[i] \in S /\ Append(s, x)[i] = s[i]
         /\ Append(s, x)[Len(s) + 1] = x
  BY SMT

LEMMA TailAt ==
  ASSUME NEW S, NEW s \in Seq(S), s # <<>>
  PROVE  /\ Tail(s) \in Seq(S)
         /\ Len(s) \in Nat
         /\ Len(s) > 0
         /\ Head(s) = s[1]
         /\ Head(s) \in S
         /\ Len(Tail(s)) = Len(s) - 1
         /\ DOMAIN s = 1 .. Len(s)
         /\ DOMAIN Tail(s) = 1 .. Len(s) - 1
         /\ \A i \in 1 .. Len(s) - 1 : Tail(s)[i] = s[i + 1]
  BY SMT

LEMMA AppendGrows ==
  ASSUME NEW s \in Seq(Nat), NEW m \in Nat
  PROVE  Grown(s, Append(s, m), m)
<1> DEFINE t == Append(s, m)
<1>0. /\ Len(s) \in Nat
      /\ DOMAIN s = 1 .. Len(s)
      /\ DOMAIN t = 1 .. Len(s) + 1
      /\ \A i \in 1 .. Len(s) : t[i] = s[i]
      /\ t[Len(s) + 1] = m
  BY AppendAt
<1>1. PICK n \in Nat : /\ DOMAIN s = 1 .. n
                       /\ DOMAIN t = 1 .. n + 1
                       /\ \A i \in 1 .. n : t[i] = s[i]
                       /\ t[n + 1] = m
  BY <1>0, Zenon
<1> HIDE DEF t
<1>2. Elements(t) = Elements(s) \cup {m}
  <2>1. ASSUME NEW x \in Elements(t)
        PROVE  x \in Elements(s) \cup {m}
    BY <1>1 DEF Elements
  <2>2. ASSUME NEW x \in Elements(s)
        PROVE  x \in Elements(t)
    BY <1>1 DEF Elements
  <2>3. m \in Elements(t)
    <3>1. n + 1 \in DOMAIN t
      BY <1>1
    <3> QED BY <1>1, <3>1 DEF Elements
  <2> QED BY <2>1, <2>2, <2>3
<1>3. \A i \in 1 .. n : t[i] \in Elements(s)
  BY <1>1 DEF Elements
<1>4. \A i \in 1 .. n + 1 : i \in 1 .. n \/ i = n + 1
  BY <1>1
<1>5. Distinct(s) /\ m \notin Elements(s) => Distinct(t)
  BY <1>1, <1>3, <1>4 DEF Distinct
<1>6. Rising(s) /\ (\A x \in Elements(s) : x < m) => Rising(t)
  <2> SUFFICES ASSUME Rising(s), \A x \in Elements(s) : x < m,
                      NEW i \in 1 .. n + 1, NEW j \in 1 .. n + 1, i < j
               PROVE  t[i] < t[j]
    BY <1>1 DEF Rising
  <2>1. i \in 1 .. n /\ (j \in 1 .. n \/ j = n + 1)
    BY <1>4
  <2> QED BY <1>1, <1>3, <2>1 DEF Rising
<1> QED BY <1>2, <1>5, <1>6 DEF Grown, t

LEMMA TailShrinks ==
  ASSUME NEW s \in Seq(Nat), s # <<>>
  PROVE  Shrunk(s, Tail(s), Head(s))
<1> DEFINE t == Tail(s)
           m == Head(s)
<1>0. /\ Len(s) \in Nat
      /\ Len(s) > 0
      /\ DOMAIN s = 1 .. Len(s)
      /\ DOMAIN t = 1 .. Len(s) - 1
      /\ \A i \in 1 .. Len(s) - 1 : t[i] = s[i + 1]
      /\ s[1] = m
  BY TailAt
<1>1. PICK n \in Nat : /\ n > 0
                       /\ DOMAIN s = 1 .. n
                       /\ DOMAIN t = 1 .. n - 1
                       /\ \A i \in 1 .. n - 1 : t[i] = s[i + 1]
                       /\ s[1] = m
  BY <1>0, Zenon
<1> HIDE DEF t, m
<1>2. m \in Elements(s)
  BY <1>1 DEF Elements
<1>3. \A i \in 1 .. n - 1 : i + 1 \in 1 .. n /\ i + 1 # 1
  BY <1>1
<1>3a. \A i, j \in 1 .. n - 1 : (i < j => i + 1 < j + 1) /\ (i + 1 = j + 1 => i = j)
  OBVIOUS
<1>4. Distinct(s) => Distinct(t)
  <2> SUFFICES ASSUME Distinct(s), NEW i \in 1 .. n - 1, NEW j \in 1 .. n - 1, t[i] = t[j]
               PROVE  i = j
    BY <1>1 DEF Distinct
  <2>1. s[i + 1] = s[j + 1] /\ i + 1 \in DOMAIN s /\ j + 1 \in DOMAIN s
    BY <1>1, <1>3
  <2>2. i + 1 = j + 1
    BY <2>1, Zenon DEF Distinct
  <2> QED BY <2>2
<1>5. Distinct(s) => Elements(t) = Elements(s) \ {m}
  <2> SUFFICES ASSUME Distinct(s) PROVE Elements(t) = Elements(s) \ {m}
    OBVIOUS
  <2>1. ASSUME NEW x \in Elements(t)
        PROVE  x \in Elements(s) /\ x # m
    <3>1. PICK i \in 1 .. n - 1 : x = s[i + 1]
      BY <1>1 DEF Elements
    <3>2. i + 1 \in 1 .. n /\ 1 \in 1 .. n /\ i + 1 # 1
      BY <1>1, <1>3
    <3> QED BY <1>1, <3>1, <3>2 DEF Elements, Distinct
  <2>2. ASSUME NEW x \in Elements(s), x # m
        PROVE  x \in Elements(t)
    <3>1. PICK i \in 1 .. n : x = s[i]
      BY <1>1 DEF Elements
    <3>2. i - 1 \in 1 .. n - 1 /\ (i - 1) + 1 = i
      BY <1>1, <2>2, <3>1
    <3>3. t[i - 1] = x
      BY <1>1, <3>1, <3>2
    <3> QED BY <1>1, <3>2, <3>3 DEF Elements
  <2> QED BY <2>1, <2>2
<1>6. Rising(s) => Rising(t)
  BY <1>1, <1>3, <1>3a DEF Rising
<1>7. Rising(s) => \A x \in Elements(t) : m < x
  <2>1. \A i \in 1 .. n - 1 : 1 \in 1 .. n /\ 1 < i + 1
    BY <1>1
  <2> QED BY <1>1, <1>3, <2>1 DEF Rising, Elements
<1> QED BY <1>2, <1>4, <1>5, <1>6, <1>7 DEF Shrunk, t, m

(* What is on the way to an entity, in any queue.                          *)
WayTo(q, e) == {i \in 1 .. Len(q) : q[i].op = "deliver" /\ q[i].to = e}
Way(q, e) == [i \in WayTo(q, e) |-> q[i].arg]

LEMMA AppendToWay ==
  ASSUME NEW q \in Seq(Entry), NEW t \in Entry, NEW e
  PROVE  IF t.op = "deliver" /\ t.to = e THEN Grown(Way(q, e), Way(Append(q, t), e), t.arg)
                                         ELSE Alike(Way(q, e), Way(Append(q, t), e))
<1> DEFINE r == Append(q, t)
           f == Way(q, e)
           g == Way(r, e)
<1>0. /\ Len(q) \in Nat
      /\ Len(r) = Len(q) + 1
      /\ \A i \in 1 .. Len(q) : r[i] = q[i]
      /\ r[Len(q) + 1] = t
  BY AppendAt
<1>1. PICK n \in Nat : /\ Len(q) = n
                       /\ Len(r) = n + 1
                       /\ \A i \in 1 .. n : r[i] = q[i]
                       /\ r[n + 1] = t
  BY <1>0, Zenon
<1> HIDE DEF r
<1>2. \A i \in 1 .. n + 1 : i \in 1 .. n \/ i = n + 1
  BY <1>1
<1>3. \A i \in WayTo(q, e) : i \in WayTo(r, e) /\ f[i] = g[i] /\ i < n + 1 /\ i # n + 1
  BY <1>1 DEF WayTo, Way
<1>4. CASE t.op = "deliver" /\ t.to = e
  <2>1. /\ n + 1 \in WayTo(r, e)
        /\ g[n + 1] = t.arg
    BY <1>1, <1>4 DEF WayTo, Way
  <2>2. \A i \in WayTo(r, e) : i \in WayTo(q, e) \/ i = n + 1
    BY <1>1, <1>2 DEF WayTo
  <2>3. DOMAIN f = WayTo(q, e) /\ DOMAIN g = WayTo(r, e) /\ WayTo(r, e) \subseteq Int
    BY DEF Way, WayTo
  <2> HIDE DEF f, g
  <2>4. Elements(g) = Elements(f) \cup {t.arg}
    BY <1>3, <2>1, <2>2, <2>3 DEF Elements
  <2>5. \A i \in WayTo(q, e) : f[i] \in Elements(f)
    BY <2>3 DEF Elements
  <2>6. Distinct(f) /\ t.arg \notin Elements(f) => Distinct(g)
    BY <1>3, <2>1, <2>2, <2>3, <2>5 DEF Distinct
  <2>7. \A i, j \in WayTo(r, e) : i < j => i \in WayTo(q, e)
    BY <1>1 DEF WayTo
  <2>8. Rising(f) /\ (\A x \in Elements(f) : x < t.arg) => Rising(g)
    BY <1>3, <2>1, <2>2, <2>3, <2>5, <2>7 DEF Rising
  <2>9. Grown(f, g, t.arg)
    BY <2>4, <2>6, <2>8 DEF Grown
  <2> QED BY <1>4, <2>9 DEF f, g, r
<1>5. CASE ~(t.op = "deliver" /\ t.to = e)
  <2>1. WayTo(r, e) = WayTo(q, e)
    BY <1>1, <1>2, <1>5 DEF WayTo
  <2>2. g = f
    BY <1>3, <2>1 DEF Way
  <2>3. Alike(f, f)
    BY DEF Alike
  <2> QED BY <1>5, <2>2, <2>3 DEF f, g, r
<1> QED BY <1>4, <1>5

LEMMA TailOfWay ==
  ASSUME NEW q \in Seq(Entry), q # <<>>, NEW e
  PROVE  LET t == Head(q)
         IN  IF t.op = "deliver" /\ t.to = e THEN Shrunk(Way(q, e), Way(Tail(q), e), t.arg)
                                             ELSE Alike(Way(q, e), Way(Tail(q), e))
<1> DEFINE r == Tail(q)
           t == Head(q)
           f == Way(q, e)
           g == Way(r, e)
<1>0. /\ Len(q) \in Nat
      /\ Len(q) > 0
      /\ Len(r) = Len(q) - 1
      /\ \A i \in 1 .. Len(q) - 1 : r[i] = q[i + 1]
      /\ q[1] = t
  BY TailAt
<1>1. PICK n \in Nat : /\ n > 0
                       /\ Len(q) = n
                       /\ Len(r) = n - 1
                       /\ \A i \in 1 .. n - 1 : r[i] = q[i + 1]
                       /\ q[1] = t
  BY <1>0, Zenon
<1> HIDE DEF r, t
<1>2. \A i \in WayTo(r, e) : i + 1 \in WayTo(q, e) /\ g[i] = f[i + 1] /\ 1 < i + 1 /\ i + 1 # 1
  BY <1>1 DEF WayTo, Way
<1>3. \A i \in WayTo(q, e) : i = 1 \/ (i - 1 \in WayTo(r, e) /\ (i - 1) + 1 = i)
  BY <1>1 DEF WayTo
<1>4. DOMAIN f = WayTo(q, e) /\ DOMAIN g = WayTo(r, e)
  BY DEF Way
<1>5. \A i, j \in WayTo(r, e) : (i < j => i + 1 < j + 1) /\ (i + 1 = j + 1 => i = j)
  BY DEF WayTo
<1>6. 1 \in WayTo(q, e) <=> t.op = "deliver" /\ t.to = e
  BY <1>1 DEF WayTo
<1>7. 1 \in WayTo(q, e) => f[1] = t.arg
  BY <1>1 DEF Way
<1> HIDE DEF f, g
<1>8. Distinct(f) => Distinct(g)
  BY <1>2, <1>4, <1>5 DEF Distinct
<1>9. Rising(f) => Rising(g)
  BY <1>2, <1>4, <1>5 DEF Rising
<1>10. \A x \in Elements(g) : \E i \in WayTo(q, e) : f[i] = x /\ 1 < i /\ i # 1
  BY <1>2, <1>4 DEF Elements
<1>11. \A i \in WayTo(q, e) : i = 1 \/ f[i] \in Elements(g)
  BY <1>2, <1>3, <1>4 DEF Elements
<1>12. CASE t.op = "deliver" /\ t.to = e
  <2>1. t.arg \in Elements(f)
    BY <1>4, <1>6, <1>7, <1>12 DEF Elements
  <2>2. Distinct(f) => Elements(g) = Elements(f) \ {t.arg}
    <3> SUFFICES ASSUME Distinct(f) PROVE Elements(g) = Elements(f) \ {t.arg}
      OBVIOUS
    <3>1. ASSUME NEW x \in Elements(g)
          PROVE  x \in Elements(f) /\ x # t.arg
      <4>1. PICK i \in WayTo(q, e) : f[i] = x /\ i # 1
        BY <1>10
      <4>2. f[i] # f[1]
        BY <1>4, <1>6, <1>12, <4>1 DEF Distinct
      <4>3. f[i] \in Elements(f)
        BY <1>4 DEF Elements
      <4> QED BY <1>6, <1>7, <1>12, <4>1, <4>2, <4>3
    <3>2. ASSUME NEW x \in Elements(f), x # t.arg
          PROVE  x \in Elements(g)
      <4>1. PICK i \in WayTo(q, e) : x = f[i]
        BY <1>4 DEF Elements
      <4> QED BY <1>7, <1>11, <3>2, <4>1
    <3> QED BY <3>1, <3>2
  <2>3. Rising(f) => \A x \in Elements(g) : t.arg < x
    BY <1>4, <1>6, <1>7, <1>10, <1>12 DEF Rising
  <2>4. Shrunk(f, g, t.arg)
    BY <1>8, <1>9, <2>1, <2>2, <2>3 DEF Shrunk
  <2> QED BY <1>12, <2>4 DEF f, g, r, t
<1>13. CASE ~(t.op = "deliver" /\ t.to = e)
  <2>1. Elements(g) = Elements(f)
    <3>1. Elements(g) \subseteq Elements(f)
      BY <1>4, <1>10 DEF Elements
    <3>2. Elements(f) \subseteq Elements(g)
      BY <1>4, <1>6, <1>11, <1>13 DEF Elements
    <3> QED BY <3>1, <3>2
  <2>2. Alike(f, g)
    BY <1>8, <1>9, <2>1 DEF Alike
  <2> QED BY <1>13, <2>2 DEF f, g, r, t
<1> QED BY <1>12, <1>13

-----------------------------------------------------------------------------
(* What a step does to the places.                                         *)

LEMMA Rows ==
  ASSUME NEW e
  PROVE  /\ In(e, "parked") = broker[e].default
         /\ In(e, "kept") = broker[e].custom
         /\ In(e, "flushed") = IF current.to = e THEN current.rest ELSE <<>>
         /\ In(e, "onTheWay") = Way(queue, e)
         /\ In(e, "own") = ownQueue[e]
         /\ In(e, "handled") = handled[e]
         /\ In(e, "dropped") = dropped[e]
  BY DEF In, Way, WayTo, OnTheWay

LEMMA NextRows ==
  ASSUME NEW e
  PROVE  /\ In(e, "parked")' = broker'[e].default
         /\ In(e, "kept")' = broker'[e].custom
         /\ In(e, "flushed")' = IF current'.to = e THEN current'.rest ELSE <<>>
         /\ In(e, "onTheWay")' = Way(queue', e)
         /\ In(e, "own")' = ownQueue'[e]
         /\ In(e, "handled")' = handled'[e]
         /\ In(e, "dropped")' = dropped'[e]
  BY DEF In, Way, WayTo, OnTheWay

LEMMA SameIsAlike ==
  ASSUME NEW f, NEW g, f = g
  PROVE  Alike(f, g)
  BY DEF Alike

Stay(e, S) == \A p \in S : Alike(In(e, p), In(e, p)')


\* m comes to the entity e, in the place q ...
ComesTo(e, m, q) ==
  /\ q \in Places
  /\ Grown(In(e, q), In(e, q)', m)
  /\ Stay(e, Places \ {q})
  /\ \A d \in Entities \ {e} : Stay(d, Places)

\* ... where it has gone to from the place p, in which it was the first.
GoesTo(e, m, p, q) ==
  /\ p \in Places /\ q \in Places \ {p}
  /\ Shrunk(In(e, p), In(e, p)', m)
  /\ Grown(In(e, q), In(e, q)', m)
  /\ Stay(e, Places \ {p, q})
  /\ \A d \in Entities \ {e} : Stay(d, Places)

\* What is kept back follows the parked messages, of which none is left,
\* unless dispatch has raced with the action.
LaterPlaces == {"onTheWay", "own", "handled", "dropped"}

Erases(e) ==
  /\ In(e, "parked")' = <<>>
  /\ In(e, "flushed") = <<>> /\ In(e, "flushed")' = In(e, "kept")
  /\ In(e, "kept")' = <<>>
  /\ Stay(e, LaterPlaces)
  /\ \A d \in Entities \ {e} : Stay(d, Places)

-----------------------------------------------------------------------------
(* What a step does to the containers, with the message m for the entity e. *)

Ends == {"handled", "dropped"}

EndsIn(e, m, q) ==
  /\ q \in Ends
  /\ handled' = IF q = "handled" THEN [handled EXCEPT ![e] = Append(@, m)] ELSE handled
  /\ dropped' = IF q = "dropped" THEN [dropped EXCEPT ![e] = Append(@, m)] ELSE dropped

\* To the queue of the signal's own scheduler, or to its end ...
TakenTo(e, m, q) ==
  \/ /\ q = "own" /\ Scheduler(e) = "own"
     /\ ownQueue' = [ownQueue EXCEPT ![e] = Append(@, m)]
     /\ UNCHANGED <<handled, dropped>>
  \/ EndsIn(e, m, q) /\ UNCHANGED ownQueue

\* ... or to the default scheduler's queue.
PassedTo(e, m, q) ==
  \/ /\ q = "onTheWay" /\ Scheduler(e) = "default"
     /\ queue' = Append(queue, [op |-> "deliver", to |-> e, arg |-> m])
     /\ UNCHANGED <<ownQueue, handled, dropped>>
  \/ TakenTo(e, m, q) /\ UNCHANGED queue

Unscheduled == UNCHANGED <<kind, ownScheduler, subscribed>>
RestEmpty == current.rest = <<>> /\ current'.rest = <<>>

\* dispatch parks the message, keeps it back or passes it on.
Parks(e, m) == Park(e, m) /\ UNCHANGED <<ownQueue, handled, dropped, current>>
Keeps(e, m) == WaitBehindParked(e, m) /\ UNCHANGED <<handled, dropped, ownQueue, current>>
Passes(e, m, q) ==
  /\ PassedTo(e, m, q)
  /\ q = "own" => ~Present(e) /\ (e \in overtaken' \/ ~Passing(e))
  /\ q = "handled" => receiver = "call" /\ hand = e
  /\ UNCHANGED <<broker, current>>

Receives(e, m) ==
  /\ m = Len(dest) + 1
  /\ dest' = Append(dest, e)
  /\ raced \subseteq raced'
  /\ Parks(e, m) \/ Keeps(e, m) \/ \E q : Passes(e, m, q)

\* The action of invoke is done with.
DeliversTo(e, m, q) ==
  /\ queue # <<>>
  /\ Head(queue).op = "deliver" /\ Head(queue).to = e /\ Head(queue).arg = m
  /\ queue' = Tail(queue)
  /\ EndsIn(e, m, q)
  /\ UNCHANGED <<broker, ownQueue>>
  /\ RestEmpty

\* The action of dispatch is done with its message.
UnparksTo(e, m, q) ==
  /\ pc \in {"look", "parkedCall"} /\ current.to = e
  /\ broker[e].default # <<>> /\ m = Head(broker[e].default)
  /\ broker' = [broker EXCEPT ![e].default = Tail(@)]
  /\ queue # <<>> /\ Head(queue).op = "parked" /\ Head(queue).to = e
  /\ queue' = Tail(queue)
  /\ TakenTo(e, m, q)
  /\ q # "dropped" => current.bound
  /\ q = "handled" => Scheduler(e) # "own"
  /\ RestEmpty

\* It passes on a message that was kept back.
FlushesTo(e, m, q) ==
  /\ current.to = e /\ current.rest # <<>> /\ m = Head(current.rest)
  /\ current' = [current EXCEPT !.rest = Tail(@)]
  /\ PassedTo(e, m, q)
  /\ q = "handled" => kind[e] \in {"ext", "intern"}
  /\ UNCHANGED broker

\* A signal's own scheduler is done with a message.
LeavesOwn(e, m, q) ==
  /\ ownQueue[e] # <<>> /\ m = Head(ownQueue[e])
  /\ ownQueue' = [ownQueue EXCEPT ![e] = Tail(@)]
  /\ EndsIn(e, m, q)
  /\ UNCHANGED <<broker, queue, current>>

MovesOn(e, m, q) ==
  DeliversTo(e, m, q) \/ UnparksTo(e, m, q) \/ FlushesTo(e, m, q) \/ LeavesOwn(e, m, q)

ErasesMq(e) ==
  /\ pc = "erase" /\ current.to = e /\ current.rest = <<>>
  /\ broker' = [broker EXCEPT ![e] = NoMq]
  /\ current' = [current EXCEPT !.rest = broker[e].custom]
  /\ UNCHANGED <<queue, ownQueue, handled, dropped>>

Idles ==
  /\ UNCHANGED <<broker, queue, ownQueue, handled, dropped>>
  /\ UNCHANGED current \/ RestEmpty

LEMMA ExecuteEnds ==
  ASSUME NEW e, NEW m, Execute(e, m)
  PROVE  \E q : EndsIn(e, m, q)
<1>1. CASE Refuses(e)
  <2>1. EndsIn(e, m, "dropped")
    BY <1>1 DEF Execute, EndsIn, Ends
  <2> QED BY <2>1
<1>2. CASE ~Refuses(e)
  <2>1. EndsIn(e, m, "handled")
    BY <1>2 DEF Execute, EndsIn, Ends
  <2> QED BY <2>1
<1> QED BY <1>1, <1>2

LEMMA DropEnds ==
  ASSUME NEW e, NEW m, Drop(e, m)
  PROVE  EndsIn(e, m, "dropped")
BY DEF Drop, EndsIn, Ends

LEMMA InvokePasses ==
  ASSUME NEW e, NEW m, Invoke(e, m), UNCHANGED history
  PROVE  \/ Scheduler(e) = "default" /\ PassedTo(e, m, "onTheWay")
         \/ Scheduler(e) = "own" /\ PassedTo(e, m, "own")
BY DEF Invoke, PassedTo, TakenTo, history

LEMMA DispatchReceives ==
  ASSUME Types, NEW e \in Entities, Dispatch(e)
  PROVE  /\ Unscheduled
         /\ \/ Receives(e, Len(dest) + 1)
            \/ UNCHANGED <<dest, raced>> /\ Idles
<1>1. UNCHANGED <<kind, ownScheduler, subscribed, ownQueue, handled, dropped, current>>
  <2>1. UNCHANGED <<life, ownQueue, thread, history>>
    BY DEF Dispatch
  <2>2. UNCHANGED subscribed
    BY DEF Dispatch
  <2> QED BY <2>1, <2>2 DEF life, thread, history
<1>2. CASE Park(e, Len(dest) + 1)
  <2>1. Parks(e, Len(dest) + 1)
    BY <1>1, <1>2 DEF Parks
  <2>2. dest' = Append(dest, e) /\ raced \subseteq raced'
    BY <1>2 DEF Park
  <2> QED BY <1>1, <2>1, <2>2 DEF Receives, Unscheduled
<1>3. CASE Find(e)
  BY <1>1, <1>3 DEF Find, Idles, Unscheduled
<1> QED BY <1>2, <1>3 DEF Dispatch

LEMMA RouteReceives ==
  ASSUME Types, Signals, Route
  PROVE  /\ hand \in Entities
         /\ Unscheduled
         /\ \/ Receives(hand, Len(dest) + 1)
            \/ UNCHANGED <<dest, raced>> /\ Idles
<1> DEFINE m == Len(dest) + 1
<1>1. hand \in Entities
  BY DEF Route, Signals
<1>2. UNCHANGED <<kind, ownScheduler, subscribed, current, raced>>
  BY DEF Route, life, entries, thread
<1>3. receiver' # "call" => dest' = Append(dest, hand)
  BY DEF Route
<1>4. receiver' = "call" => dest' = dest
  BY DEF Route
<1> HIDE DEF m
<1>5. CASE Break(hand, m)
  <2>1. /\ EndsIn(hand, m, "dropped") /\ receiver' = "broken"
        /\ UNCHANGED <<broker, queue, ownQueue>>
    BY <1>5, DropEnds DEF Break
  <2>2. Passes(hand, m, "dropped")
    BY <1>2, <2>1 DEF Passes, PassedTo, TakenTo
  <2> QED BY <1>1, <1>2, <1>3, <2>1, <2>2 DEF Receives, Unscheduled, m
<1>6. CASE WaitBehindParked(hand, m)
  <2>1. receiver' = "reading" /\ UNCHANGED <<ownQueue, handled, dropped>>
    BY <1>6 DEF WaitBehindParked, history
  <2>2. Keeps(hand, m)
    BY <1>2, <1>6, <2>1 DEF Keeps
  <2> QED BY <1>1, <1>2, <1>3, <2>1, <2>2 DEF Receives, Unscheduled, m
<1>7. CASE Pass(hand, m)
  <2>1. /\ UNCHANGED broker
        /\ Scheduler(hand) = "own" => ~Present(hand)
        /\ hand \in overtaken' \/ ~Passing(hand)
    BY <1>7 DEF Pass, PassesBy
  <2>2. CASE Invoke(hand, m) /\ receiver' = "reading" /\ UNCHANGED history
    <3>1. PICK q : PassedTo(hand, m, q) /\ q # "handled" /\ (q = "own" => Scheduler(hand) = "own")
      BY <2>2, InvokePasses
    <3>2. Passes(hand, m, q)
      BY <1>2, <2>1, <3>1 DEF Passes
    <3> QED BY <1>1, <1>2, <1>3, <2>2, <3>2 DEF Receives, Unscheduled, m
  <2>3. CASE Disappeared(hand, m) /\ receiver' = "reading" /\ UNCHANGED <<queue, ownQueue>>
    <3>1. EndsIn(hand, m, "dropped")
      BY <2>3, DropEnds DEF Disappeared
    <3>2. Passes(hand, m, "dropped")
      BY <1>2, <2>1, <2>3, <3>1 DEF Passes, PassedTo, TakenTo
    <3> QED BY <1>1, <1>2, <1>3, <2>3, <3>2 DEF Receives, Unscheduled, m
  <2>4. CASE receiver' = "call" /\ UNCHANGED <<queue, ownQueue, history>>
    BY <1>1, <1>2, <1>4, <2>1, <2>4 DEF Idles, Unscheduled, history
  <2> QED BY <1>7, <2>2, <2>3, <2>4 DEF Pass, PassesBy
<1> QED BY <1>5, <1>6, <1>7 DEF Route, m

LEMMA CallReceives ==
  ASSUME Types, Signals, Call
  PROVE  hand \in Entities /\ Unscheduled /\ Receives(hand, Len(dest) + 1)
<1>1. hand \in Entities /\ receiver = "call"
  BY DEF Call, Signals
<1>2. UNCHANGED <<kind, ownScheduler, subscribed, current, raced, broker, queue, ownQueue>>
  BY DEF Call, life, entries, thread
<1>3. dest' = Append(dest, hand) /\ Execute(hand, Len(dest) + 1)
  BY DEF Call
<1>4. PICK q : EndsIn(hand, Len(dest) + 1, q)
  BY <1>3, ExecuteEnds
<1>5. Passes(hand, Len(dest) + 1, q)
  BY <1>1, <1>2, <1>4 DEF Passes, PassedTo, TakenTo, EndsIn, Ends
<1> QED BY <1>1, <1>2, <1>3, <1>5 DEF Receives, Unscheduled

LEMMA BindIdles ==
  ASSUME NEW e, Bind(e) \/ Unbind(e) \/ LoseId(e) \/ AdviseOn(e)
  PROVE  /\ Idles
         /\ UNCHANGED <<kind, current, pc, dest, raced, receiver, hand>>
<1>1. CASE Bind(e)
  BY <1>1 DEF Bind, Idles, thread, history, receiving
<1>2. CASE Unbind(e)
  BY <1>2 DEF Unbind, Idles, thread, history, receiving, life
<1>3. CASE LoseId(e)
  BY <1>3 DEF LoseId, Idles, thread, history, receiving, life
<1>4. CASE AdviseOn(e)
  BY <1>4 DEF AdviseOn, Idles, thread, history, receiving
<1> QED BY <1>1, <1>2, <1>3, <1>4

LEMMA OwnThreadMoves ==
  ASSUME Types, Signals, NEW e \in Entities, OwnThread(e)
  PROVE  /\ Unscheduled /\ UNCHANGED <<dest, raced>>
         /\ Idles \/ \E m \in Nat : \E q : LeavesOwn(e, m, q)
<1>1. UNCHANGED <<kind, ownScheduler, subscribed, broker, queue, current, dest, raced>>
  BY DEF OwnThread, OwnCheck, OwnExecute, life, thread, entries
<1>2. ownQueue[e] # <<>> /\ Head(ownQueue[e]) \in Nat
  <2>1. ownQueue[e] # <<>> /\ ownQueue[e] \in Seq(Nat)
    BY DEF OwnThread, OwnCheck, OwnExecute, Signals, Types
  <2> QED BY <2>1, TailAt
<1>3. CASE UNCHANGED <<ownQueue, history>>
  BY <1>1, <1>3 DEF Unscheduled, Idles, history
<1>4. CASE /\ ownQueue' = [ownQueue EXCEPT ![e] = Tail(@)]
           /\ Drop(e, Head(ownQueue[e])) \/ Execute(e, Head(ownQueue[e]))
  <2>1. PICK q : EndsIn(e, Head(ownQueue[e]), q)
    BY <1>4, DropEnds, ExecuteEnds
  <2>2. LeavesOwn(e, Head(ownQueue[e]), q)
    BY <1>1, <1>2, <1>4, <2>1 DEF LeavesOwn
  <2> QED BY <1>1, <1>2, <2>2 DEF Unscheduled
<1> QED BY <1>3, <1>4 DEF OwnThread, OwnCheck, OwnExecute

\* The action at the head of the default scheduler's queue.
LEMMA HeadOfQueue ==
  ASSUME Types, queue # <<>>
  PROVE  /\ Head(queue) \in Entry
         /\ \E e \in Entities, m \in Nat : Head(queue).to = e /\ Head(queue).arg = m
<1>1. Head(queue) \in Entry
  BY TailAt DEF Types
<1> QED BY <1>1 DEF Entry

LEMMA ParkedSeq ==
  ASSUME Types, NEW d \in Entities
  PROVE  broker[d].default \in Seq(Nat) /\ broker[d].custom \in Seq(Nat)
BY DEF Types, Mq

LEMMA RunDeliverMoves ==
  ASSUME Types, Phases, RunDeliver
  PROVE  Idles \/ \E e \in Entities, m \in Nat : \E q : DeliversTo(e, m, q)
<1>1. UNCHANGED <<broker, ownQueue>> /\ queue # <<>> /\ Head(queue).op = "deliver"
  BY DEF RunDeliver
<1>2. current.rest = <<>>
  BY DEF RunDeliver, Phases
<1>3. PICK e \in Entities, m \in Nat : Head(queue).to = e /\ Head(queue).arg = m
  BY <1>1, HeadOfQueue
<1>4. CASE UNCHANGED <<queue, history>> /\ current' = [to |-> e, bound |-> TRUE, rest |-> <<>>]
  BY <1>1, <1>2, <1>4 DEF Idles, RestEmpty, history
<1>5. CASE Drop(e, m) /\ queue' = Tail(queue) /\ UNCHANGED thread
  <2>1. EndsIn(e, m, "dropped")
    BY <1>5, DropEnds
  <2>2. DeliversTo(e, m, "dropped")
    BY <1>1, <1>2, <1>3, <1>5, <2>1 DEF DeliversTo, RestEmpty, thread
  <2> QED BY <2>2
<1> QED BY <1>3, <1>4, <1>5 DEF RunDeliver

LEMMA DeliverMoves ==
  ASSUME Types, Phases, Deliver
  PROVE  \E e \in Entities, m \in Nat : \E q : DeliversTo(e, m, q)
<1>1. /\ UNCHANGED <<broker, ownQueue>> /\ queue' = Tail(queue) /\ current' = Nothing
      /\ Execute(current.to, Head(queue).arg)
  BY DEF Deliver, Done
<1>2. /\ current.rest = <<>> /\ current.to = Head(queue).to
      /\ queue # <<>> /\ Head(queue).op = "deliver"
  BY DEF Deliver, Phases
<1>3. PICK e \in Entities, m \in Nat : Head(queue).to = e /\ Head(queue).arg = m
  BY <1>2, HeadOfQueue
<1>4. PICK q : EndsIn(e, m, q)
  BY <1>1, <1>2, <1>3, ExecuteEnds
<1>5. DeliversTo(e, m, q)
  BY <1>1, <1>2, <1>3, <1>4 DEF DeliversTo, RestEmpty, Nothing
<1> QED BY <1>5

LEMMA RunParkedMoves ==
  ASSUME Types, Phases, RunParked
  PROVE  Idles
<1>1. UNCHANGED <<broker, queue, ownQueue, handled, dropped>>
  BY DEF RunParked, history
<1>2. current.rest = <<>>
  BY DEF RunParked, Phases
<1>3. UNCHANGED current \/ current'.rest = <<>>
  BY DEF RunParked, thread
<1> QED BY <1>1, <1>2, <1>3 DEF Idles, RestEmpty

\* The message that the action of dispatch is about.
LEMMA CurrentParked ==
  ASSUME Types, Phases, pc \in {"look", "parkedCall"}
  PROVE  \E e \in Entities, m \in Nat :
           /\ current.to = e /\ current.rest = <<>>
           /\ broker[e].default # <<>> /\ m = Head(broker[e].default)
           /\ queue # <<>> /\ Head(queue).op = "parked" /\ Head(queue).to = e
<1>1. PICK e \in Entities : current.to = e
  BY DEF Phases
<1>2. broker[e].default # <<>> /\ broker[e].default \in Seq(Nat)
  BY <1>1, ParkedSeq DEF Phases
<1>3. PICK m \in Nat : m = Head(broker[e].default)
  BY <1>2, TailAt
<1> QED BY <1>1, <1>2, <1>3 DEF Phases

LEMMA HandleParkedMoves ==
  ASSUME Types, Phases, HandleParked
  PROVE  Idles \/ \E e \in Entities, m \in Nat : \E q : UnparksTo(e, m, q)
<1>1. pc = "look"
  BY DEF HandleParked
<1>2. PICK e \in Entities, m \in Nat :
        /\ current.to = e /\ current.rest = <<>>
        /\ broker[e].default # <<>> /\ m = Head(broker[e].default)
        /\ queue # <<>> /\ Head(queue).op = "parked" /\ Head(queue).to = e
  BY <1>1, CurrentParked
<1>3. current' = Nothing \/ UNCHANGED current
  BY DEF HandleParked, Done
<1>4. RestEmpty
  BY <1>2, <1>3 DEF RestEmpty, Nothing
<1>5. ASSUME TakeParked, NEW q, TakenTo(e, m, q), q # "dropped" => current.bound,
             q = "handled" => Scheduler(e) # "own"
      PROVE  UnparksTo(e, m, q)
  BY <1>1, <1>2, <1>4, <1>5 DEF UnparksTo, TakeParked
<1>6. CASE /\ Drop(e, m) /\ TakeParked /\ UNCHANGED ownQueue
  <2>1. TakenTo(e, m, "dropped")
    BY <1>6, DropEnds DEF TakenTo
  <2> QED BY <1>5, <1>6, <2>1
<1>7. CASE /\ current.bound /\ Scheduler(e) = "default"
           /\ Execute(e, m) /\ TakeParked /\ UNCHANGED ownQueue
  <2>1. PICK q : EndsIn(e, m, q)
    BY <1>7, ExecuteEnds
  <2>2. TakenTo(e, m, q)
    BY <1>7, <2>1 DEF TakenTo
  <2> QED BY <1>5, <1>7, <2>2
<1>8. CASE /\ current.bound /\ Scheduler(e) = "own"
           /\ ownQueue' = [ownQueue EXCEPT ![e] = Append(@, m)]
           /\ TakeParked /\ UNCHANGED history
  <2>1. TakenTo(e, m, "own")
    BY <1>8 DEF TakenTo, history
  <2> QED BY <1>5, <1>8, <2>1
<1>9. CASE UNCHANGED <<broker, queue, ownQueue, history>>
  BY <1>4, <1>9 DEF Idles, history
<1> QED BY <1>2, <1>6, <1>7, <1>8, <1>9 DEF HandleParked, Disappeared

LEMMA CallParkedMoves ==
  ASSUME Types, Phases, Signals, CallParked
  PROVE  \E e \in Entities, m \in Nat : \E q : UnparksTo(e, m, q)
<1>1. pc = "parkedCall" /\ current.bound
  BY DEF CallParked, Phases
<1>2. PICK e \in Entities, m \in Nat :
        /\ current.to = e /\ current.rest = <<>>
        /\ broker[e].default # <<>> /\ m = Head(broker[e].default)
        /\ queue # <<>> /\ Head(queue).op = "parked" /\ Head(queue).to = e
  BY <1>1, CurrentParked
<1>3. /\ Execute(e, m) /\ TakeParked /\ UNCHANGED ownQueue
      /\ current' = Nothing \/ UNCHANGED current
  BY <1>2 DEF CallParked, Done
<1>4. PICK q : EndsIn(e, m, q)
  BY <1>3, ExecuteEnds
<1>5. Scheduler(e) # "own"
  BY <1>1, <1>2 DEF Signals, Scheduler
<1>6. RestEmpty
  BY <1>2, <1>3 DEF RestEmpty, Nothing
<1>7. TakenTo(e, m, q)
  BY <1>3, <1>4 DEF TakenTo
<1>8. UnparksTo(e, m, q)
  BY <1>1, <1>2, <1>3, <1>5, <1>6, <1>7 DEF UnparksTo, TakeParked
<1> QED BY <1>8

\* The message that the last action of dispatch passes on.
LEMMA CurrentRest ==
  ASSUME Types, Phases, pc # "idle", current.rest # <<>>
  PROVE  \E e \in Entities, m \in Nat : current.to = e /\ m = Head(current.rest)
<1>1. PICK e \in Entities : current.to = e
  BY DEF Phases
<1>2. current.rest \in Seq(Nat)
  BY DEF Types, Current
<1>3. PICK m \in Nat : m = Head(current.rest)
  BY <1>2, TailAt
<1> QED BY <1>1, <1>3

LEMMA FlushMoves ==
  ASSUME Types, Phases, Flush
  PROVE  Idles \/ \E e \in Entities, m \in Nat : \E q : FlushesTo(e, m, q)
<1>1. UNCHANGED broker /\ current.rest # <<>> /\ pc # "idle"
  BY DEF Flush
<1>2. PICK e \in Entities, m \in Nat : current.to = e /\ m = Head(current.rest)
  BY <1>1, CurrentRest
<1>3. CASE /\ Invoke(e, m) /\ UNCHANGED history
           /\ current' = [current EXCEPT !.rest = Tail(@)]
  <2>1. PICK q : PassedTo(e, m, q) /\ q # "handled"
    BY <1>3, InvokePasses
  <2>2. FlushesTo(e, m, q)
    BY <1>1, <1>2, <1>3, <2>1 DEF FlushesTo
  <2> QED BY <2>2
<1>4. CASE /\ Disappeared(e, m) /\ UNCHANGED <<queue, ownQueue>>
           /\ current' = [current EXCEPT !.rest = Tail(@)]
  <2>1. PassedTo(e, m, "dropped")
    BY <1>4, DropEnds DEF Disappeared, PassedTo, TakenTo
  <2>2. FlushesTo(e, m, "dropped")
    BY <1>1, <1>2, <1>4, <2>1 DEF FlushesTo
  <2> QED BY <2>2
<1>5. CASE UNCHANGED <<current, queue, ownQueue, history>>
  BY <1>1, <1>5 DEF Idles, history
<1> QED BY <1>2, <1>3, <1>4, <1>5 DEF Flush

LEMMA FlushCallMoves ==
  ASSUME Types, Phases, Signals, FlushCall
  PROVE  \E e \in Entities, m \in Nat : \E q : FlushesTo(e, m, q)
<1>1. /\ UNCHANGED <<broker, queue, ownQueue>> /\ current.rest # <<>> /\ pc # "idle"
      /\ kind[current.to] \in {"ext", "intern"}
  BY DEF FlushCall, Phases, Signals
<1>2. PICK e \in Entities, m \in Nat : current.to = e /\ m = Head(current.rest)
  BY <1>1, CurrentRest
<1>3. Execute(e, m) /\ current' = [current EXCEPT !.rest = Tail(@)]
  BY <1>2 DEF FlushCall
<1>4. PICK q : EndsIn(e, m, q)
  BY <1>3, ExecuteEnds
<1>5. PassedTo(e, m, q)
  BY <1>1, <1>4 DEF PassedTo, TakenTo
<1>6. FlushesTo(e, m, q)
  BY <1>1, <1>2, <1>3, <1>5 DEF FlushesTo
<1> QED BY <1>6

LEMMA EraseMoves ==
  ASSUME Types, Phases, Erase
  PROVE  \E e \in Entities : ErasesMq(e)
<1>1. pc = "erase" /\ current.rest = <<>>
  BY DEF Erase, Phases
<1>2. PICK e \in Entities : current.to = e
  BY <1>1 DEF Phases
<1>3. ErasesMq(e)
  BY <1>1, <1>2 DEF Erase, ErasesMq, history
<1> QED BY <1>3

LEMMA RestMoves ==
  ASSUME Types, Phases, TestEmpty \/ FlushToNull \/ FlushEnd
  PROVE  Idles
<1>1. CASE TestEmpty
  <2>1. UNCHANGED <<broker, queue, ownQueue, handled, dropped>> /\ current.rest = <<>>
    BY <1>1 DEF TestEmpty, history, Phases
  <2>2. UNCHANGED current \/ current' = Nothing
    BY <1>1 DEF TestEmpty, Done
  <2> QED BY <2>1, <2>2 DEF Idles, RestEmpty, Nothing
<1>2. CASE FlushToNull
  BY <1>2 DEF FlushToNull, history, thread, Idles
<1>3. CASE FlushEnd
  <2>1. UNCHANGED <<broker, queue, ownQueue, handled, dropped>> /\ current.rest = <<>>
    BY <1>3 DEF FlushEnd, history
  <2>2. current' = Nothing
    BY <1>3 DEF FlushEnd, Done
  <2> QED BY <2>1, <2>2 DEF Idles, RestEmpty, Nothing
<1> QED BY <1>1, <1>2, <1>3

LEMMA ThreadUnscheduled ==
  ASSUME DefaultThread
  PROVE  /\ Unscheduled /\ UNCHANGED <<bound, dest, raced, overtaken, receiver, hand, ownChecked>>
         /\ UNCHANGED <<binds, caught>>
<1>1. CASE RunDeliver \/ Deliver
  BY <1>1 DEF RunDeliver, Deliver, Unscheduled, life, entries, receiving
<1>2. CASE RunParked
  BY <1>2 DEF RunParked, Unscheduled, life, receiving
<1>3. CASE HandleParked \/ CallParked
  BY <1>3 DEF HandleParked, CallParked, Unscheduled, life, entries, receiving
<1>4. CASE TestEmpty \/ Erase
  BY <1>4 DEF TestEmpty, Erase, Unscheduled, life, entries, receiving
<1>5. CASE Flush \/ FlushCall \/ FlushToNull \/ FlushEnd
  BY <1>5 DEF Flush, FlushCall, FlushToNull, FlushEnd, Unscheduled, life, entries, receiving
<1> QED BY <1>1, <1>2, <1>3, <1>4, <1>5 DEF DefaultThread

LEMMA ThreadMoves ==
  ASSUME Types, Phases, Signals, DefaultThread
  PROVE  \/ Idles
         \/ \E e \in Entities : ErasesMq(e)
         \/ \E e \in Entities, m \in Nat : \E q : MovesOn(e, m, q)
<1>1. CASE RunDeliver
  BY <1>1, RunDeliverMoves DEF MovesOn
<1>2. CASE Deliver
  BY <1>2, DeliverMoves DEF MovesOn
<1>3. CASE RunParked
  BY <1>3, RunParkedMoves
<1>4. CASE HandleParked
  BY <1>4, HandleParkedMoves DEF MovesOn
<1>5. CASE CallParked
  BY <1>5, CallParkedMoves DEF MovesOn
<1>6. CASE Flush
  BY <1>6, FlushMoves DEF MovesOn
<1>7. CASE FlushCall
  BY <1>7, FlushCallMoves DEF MovesOn
<1>8. CASE Erase
  BY <1>8, EraseMoves
<1>9. CASE TestEmpty \/ FlushToNull \/ FlushEnd
  BY <1>9, RestMoves
<1> QED BY <1>1, <1>2, <1>3, <1>4, <1>5, <1>6, <1>7, <1>8, <1>9 DEF DefaultThread

\* What a step may do to the messages.
LEMMA StepEffects ==
  ASSUME Types, Phases, Signals, [Next]_vars
  PROVE  \/ \E e \in Entities : Bind(e) \/ Unbind(e) \/ LoseId(e) \/ AdviseOn(e)
         \/ /\ Unscheduled
            /\ \/ \E e \in Entities : Receives(e, Len(dest) + 1)
               \/ /\ UNCHANGED <<dest, raced>>
                  /\ \/ Idles
                     \/ \E e \in Entities : ErasesMq(e)
                     \/ \E e \in Entities, m \in Nat : \E q : MovesOn(e, m, q)
<1>1. CASE \E e \in Entities : Bind(e) \/ Unbind(e) \/ LoseId(e) \/ AdviseOn(e)
  BY <1>1
<1>2. CASE \E e \in Entities : Dispatch(e)
  BY <1>2, DispatchReceives
<1>3. CASE ReceiverThread
  BY <1>3, RouteReceives, CallReceives DEF ReceiverThread
<1>4. CASE \E e \in Entities : OwnThread(e)
  <2>1. PICK e \in Entities : OwnThread(e)
    BY <1>4
  <2> QED BY <2>1, OwnThreadMoves DEF MovesOn
<1>5. CASE DefaultThread
  BY <1>5, ThreadMoves, ThreadUnscheduled
<1>6. CASE UNCHANGED vars
  BY <1>6 DEF vars, life, entries, thread, history, Idles, Unscheduled
<1> QED BY <1>1, <1>2, <1>3, <1>4, <1>5, <1>6 DEF Next, Rest


-----------------------------------------------------------------------------
(* What that does to the places.                                           *)

LEMMA OneAppended ==
  ASSUME NEW f \in [Entities -> Seq(Nat)], NEW e \in Entities, NEW m \in Nat,
         NEW g, g = [f EXCEPT ![e] = Append(@, m)]
  PROVE  /\ g \in [Entities -> Seq(Nat)]
         /\ Grown(f[e], g[e], m)
         /\ \A d \in Entities \ {e} : g[d] = f[d]
<1>1. f[e] \in Seq(Nat)
  OBVIOUS
<1>2. Append(f[e], m) \in Seq(Nat)
  BY <1>1, AppendAt
<1>3. g[e] = Append(f[e], m)
  OBVIOUS
<1>4. Grown(f[e], g[e], m)
  BY <1>1, <1>3, AppendGrows
<1> QED BY <1>2, <1>4

LEMMA EndsInRows ==
  ASSUME Types, NEW e \in Entities, NEW m \in Nat, NEW q, EndsIn(e, m, q)
  PROVE  /\ handled' \in [Entities -> Seq(Nat)] /\ dropped' \in [Entities -> Seq(Nat)]
         /\ Grown(In(e, q), In(e, q)', m)
         /\ Stay(e, Ends \ {q})
         /\ \A d \in Entities \ {e} : Stay(d, Ends)
<1>0. handled \in [Entities -> Seq(Nat)] /\ dropped \in [Entities -> Seq(Nat)]
  BY DEF Types
<1>1. CASE q = "handled"
  <2>1. handled' = [handled EXCEPT ![e] = Append(@, m)] /\ dropped' = dropped
    BY <1>1 DEF EndsIn
  <2>2. /\ handled' \in [Entities -> Seq(Nat)]
        /\ Grown(handled[e], handled'[e], m)
        /\ \A d \in Entities \ {e} : handled'[d] = handled[d]
    BY <1>0, <2>1, OneAppended
  <2>3. Grown(In(e, q), In(e, q)', m)
    <3>1. In(e, "handled") = handled[e] /\ In(e, "handled")' = handled'[e]
      BY Rows, NextRows
    <3> QED BY <1>1, <2>2, <3>1
  <2>4. \A d \in Entities : Stay(d, {"dropped"})
    BY <2>1, Rows, NextRows, SameIsAlike DEF Stay
  <2>5. ASSUME NEW d \in Entities \ {e} PROVE Stay(d, {"handled"})
    <3>1. In(d, "handled")' = In(d, "handled")
      BY <2>2, Rows, NextRows
    <3> QED BY <3>1, SameIsAlike DEF Stay
  <2>6. Stay(e, Ends \ {q})
    BY <1>1, <2>4 DEF Stay, Ends
  <2>7. \A d \in Entities \ {e} : Stay(d, Ends)
    BY <2>4, <2>5 DEF Stay, Ends
  <2> QED BY <1>0, <2>1, <2>2, <2>3, <2>6, <2>7
<1>2. CASE q = "dropped"
  <2>1. dropped' = [dropped EXCEPT ![e] = Append(@, m)] /\ handled' = handled
    BY <1>2 DEF EndsIn
  <2>2. /\ dropped' \in [Entities -> Seq(Nat)]
        /\ Grown(dropped[e], dropped'[e], m)
        /\ \A d \in Entities \ {e} : dropped'[d] = dropped[d]
    BY <1>0, <2>1, OneAppended
  <2>3. Grown(In(e, q), In(e, q)', m)
    <3>1. In(e, "dropped") = dropped[e] /\ In(e, "dropped")' = dropped'[e]
      BY Rows, NextRows
    <3> QED BY <1>2, <2>2, <3>1
  <2>4. \A d \in Entities : Stay(d, {"handled"})
    BY <2>1, Rows, NextRows, SameIsAlike DEF Stay
  <2>5. ASSUME NEW d \in Entities \ {e} PROVE Stay(d, {"dropped"})
    <3>1. In(d, "dropped")' = In(d, "dropped")
      BY <2>2, Rows, NextRows
    <3> QED BY <3>1, SameIsAlike DEF Stay
  <2>6. Stay(e, Ends \ {q})
    BY <1>2, <2>4 DEF Stay, Ends
  <2>7. \A d \in Entities \ {e} : Stay(d, Ends)
    BY <2>4, <2>5 DEF Stay, Ends
  <2> QED BY <1>0, <2>1, <2>2, <2>3, <2>6, <2>7
<1> QED BY <1>1, <1>2 DEF EndsIn, Ends

LEMMA QueueStays ==
  ASSUME NEW e, UNCHANGED queue
  PROVE  Stay(e, {"onTheWay"})
  BY Rows, NextRows, SameIsAlike DEF Stay

LEMMA OwnStays ==
  ASSUME NEW e, UNCHANGED ownQueue
  PROVE  Stay(e, {"own"})
  BY Rows, NextRows, SameIsAlike DEF Stay

LEMMA EndsStay ==
  ASSUME NEW e, UNCHANGED <<handled, dropped>>
  PROVE  Stay(e, Ends)
  BY Rows, NextRows, SameIsAlike DEF Stay, Ends

LEMMA BrokerStays ==
  ASSUME NEW e, broker'[e] = broker[e]
  PROVE  Stay(e, {"parked", "kept"})
  BY Rows, NextRows, SameIsAlike DEF Stay

LEMMA RestStays ==
  ASSUME NEW e, UNCHANGED current \/ RestEmpty
  PROVE  Stay(e, {"flushed"})
<1>1. In(e, "flushed")' = In(e, "flushed")
  BY Rows, NextRows DEF RestEmpty
<1> QED BY <1>1, SameIsAlike DEF Stay

LEMMA TakenToRows ==
  ASSUME Types, NEW e \in Entities, NEW m \in Nat, NEW q, TakenTo(e, m, q)
  PROVE  /\ q \in {"own"} \cup Ends
         /\ ownQueue' \in [Entities -> Seq(Nat)]
         /\ handled' \in [Entities -> Seq(Nat)] /\ dropped' \in [Entities -> Seq(Nat)]
         /\ Grown(In(e, q), In(e, q)', m)
         /\ Stay(e, ({"own"} \cup Ends) \ {q})
         /\ \A d \in Entities \ {e} : Stay(d, {"own"} \cup Ends)
<1>1. CASE EndsIn(e, m, q) /\ UNCHANGED ownQueue
  <2>1. /\ handled' \in [Entities -> Seq(Nat)] /\ dropped' \in [Entities -> Seq(Nat)]
        /\ Grown(In(e, q), In(e, q)', m)
        /\ Stay(e, Ends \ {q})
        /\ \A d \in Entities \ {e} : Stay(d, Ends)
    BY <1>1, EndsInRows
  <2>2. \A d \in Entities : Stay(d, {"own"})
    BY <1>1, OwnStays
  <2>3. q \in Ends /\ ownQueue' \in [Entities -> Seq(Nat)]
    BY <1>1 DEF EndsIn, Types
  <2> QED BY <2>1, <2>2, <2>3 DEF Stay
<1>2. CASE /\ q = "own"
           /\ ownQueue' = [ownQueue EXCEPT ![e] = Append(@, m)]
           /\ UNCHANGED <<handled, dropped>>
  <2>0. ownQueue \in [Entities -> Seq(Nat)]
    BY DEF Types
  <2>1. /\ ownQueue' \in [Entities -> Seq(Nat)]
        /\ Grown(ownQueue[e], ownQueue'[e], m)
        /\ \A d \in Entities \ {e} : ownQueue'[d] = ownQueue[d]
    BY <1>2, <2>0, OneAppended
  <2>2. Grown(In(e, q), In(e, q)', m)
    <3>1. In(e, "own") = ownQueue[e] /\ In(e, "own")' = ownQueue'[e]
      BY Rows, NextRows
    <3> QED BY <1>2, <2>1, <3>1
  <2>3. \A d \in Entities \ {e} : Stay(d, {"own"})
    BY <2>1, Rows, NextRows, SameIsAlike DEF Stay
  <2>4. \A d \in Entities : Stay(d, Ends)
    BY <1>2, EndsStay
  <2>5. handled' \in [Entities -> Seq(Nat)] /\ dropped' \in [Entities -> Seq(Nat)]
    BY <1>2 DEF Types
  <2> QED BY <1>2, <2>1, <2>2, <2>3, <2>4, <2>5 DEF Stay
<1> QED BY <1>1, <1>2 DEF TakenTo

LEMMA PassedToRows ==
  ASSUME Types, NEW e \in Entities, NEW m \in Nat, NEW q, PassedTo(e, m, q)
  PROVE  /\ q \in LaterPlaces
         /\ queue' \in Seq(Entry)
         /\ ownQueue' \in [Entities -> Seq(Nat)]
         /\ handled' \in [Entities -> Seq(Nat)] /\ dropped' \in [Entities -> Seq(Nat)]
         /\ Grown(In(e, q), In(e, q)', m)
         /\ Stay(e, LaterPlaces \ {q})
         /\ \A d \in Entities \ {e} : Stay(d, LaterPlaces)
<1>1. CASE TakenTo(e, m, q) /\ UNCHANGED queue
  <2>1. /\ q \in {"own"} \cup Ends
        /\ ownQueue' \in [Entities -> Seq(Nat)]
        /\ handled' \in [Entities -> Seq(Nat)] /\ dropped' \in [Entities -> Seq(Nat)]
        /\ Grown(In(e, q), In(e, q)', m)
        /\ Stay(e, ({"own"} \cup Ends) \ {q})
        /\ \A d \in Entities \ {e} : Stay(d, {"own"} \cup Ends)
    BY <1>1, TakenToRows
  <2>2. \A d \in Entities : Stay(d, {"onTheWay"})
    BY <1>1, QueueStays
  <2>3. queue' \in Seq(Entry)
    BY <1>1 DEF Types
  <2> QED BY <2>1, <2>2, <2>3 DEF Stay, LaterPlaces, Ends
<1>2. CASE /\ q = "onTheWay"
           /\ queue' = Append(queue, [op |-> "deliver", to |-> e, arg |-> m])
           /\ UNCHANGED <<ownQueue, handled, dropped>>
  <2> DEFINE t == [op |-> "deliver", to |-> e, arg |-> m]
  <2>1. t \in Entry /\ queue \in Seq(Entry) /\ t.op = "deliver" /\ t.to = e /\ t.arg = m
    BY DEF Entry, Types
  <2>2. queue' = Append(queue, t)
    BY <1>2
  <2> HIDE DEF t
  <2>3. Grown(Way(queue, e), Way(Append(queue, t), e), m)
    BY <2>1, AppendToWay
  <2>4. Grown(In(e, "onTheWay"), In(e, "onTheWay")', m)
    BY <2>2, <2>3, Rows, NextRows
  <2>5. ASSUME NEW d \in Entities \ {e}
        PROVE  Alike(Way(queue, d), Way(Append(queue, t), d))
    <3>1. ~(t.op = "deliver" /\ t.to = d)
      BY <2>1
    <3> QED BY <2>1, <3>1, AppendToWay
  <2>6. \A d \in Entities \ {e} : Stay(d, {"onTheWay"})
    BY <2>2, <2>5, Rows, NextRows DEF Stay
  <2>7. \A d \in Entities : Stay(d, {"own"}) /\ Stay(d, Ends)
    BY <1>2, OwnStays, EndsStay
  <2>8. queue' \in Seq(Entry)
    BY <2>1, <2>2, AppendAt
  <2>9. /\ ownQueue' \in [Entities -> Seq(Nat)]
        /\ handled' \in [Entities -> Seq(Nat)] /\ dropped' \in [Entities -> Seq(Nat)]
    BY <1>2 DEF Types
  <2> QED BY <1>2, <2>4, <2>6, <2>7, <2>8, <2>9 DEF Stay, LaterPlaces, Ends
<1> QED BY <1>1, <1>2 DEF PassedTo

LEMMA ParkQueue ==
  ASSUME Types, NEW e \in Entities, NEW m \in Nat, Park(e, m)
  PROVE  /\ e \notin subscribed
         /\ \E t \in Entry : t.to = e /\ t.op = "parked" /\ queue' = Append(queue, t)
         /\ broker'[e].default = Append(broker[e].default, m)
         /\ broker'[e].custom = broker[e].custom
         /\ broker' \in [Entities -> Mq]
         /\ \A d \in Entities \ {e} : broker'[d] = broker[d]
<1> DEFINE mq == IF Present(e) THEN broker[e] ELSE [NoMq EXCEPT !.serial = m]
           t == [op |-> "parked", to |-> e, arg |-> mq.serial]
<1>1. /\ e \notin subscribed
      /\ broker' = [broker EXCEPT ![e] = [mq EXCEPT !.default = Append(@, m)]]
      /\ queue' = Append(queue, t)
  BY DEF Park
<1>2. mq \in Mq /\ mq.default = broker[e].default /\ mq.custom = broker[e].custom
  <2>1. broker[e] \in Mq
    BY DEF Types
  <2> QED BY <2>1 DEF Present, NoMq, Mq
<1>3. t \in Entry /\ t.to = e /\ t.op = "parked"
  BY <1>2 DEF Entry, Mq
<1> HIDE DEF t, mq
<1>4. Append(mq.default, m) \in Seq(Nat)
  <2>1. mq.default \in Seq(Nat)
    BY <1>2 DEF Mq
  <2> QED BY <2>1, AppendAt
<1>5. [mq EXCEPT !.default = Append(@, m)] \in Mq
  BY <1>2, <1>4 DEF Mq
<1>6. broker' \in [Entities -> Mq]
  BY <1>1, <1>5 DEF Types
<1>7. /\ broker'[e].default = Append(broker[e].default, m)
      /\ broker'[e].custom = broker[e].custom
      /\ \A d \in Entities \ {e} : broker'[d] = broker[d]
  BY <1>1, <1>2 DEF Types, Mq
<1> QED BY <1>1, <1>3, <1>6, <1>7

LEMMA ParksRows ==
  ASSUME Types, NEW e \in Entities, NEW m \in Nat, Parks(e, m)
  PROVE  /\ ComesTo(e, m, "parked")
         /\ broker' \in [Entities -> Mq] /\ queue' \in Seq(Entry)
<1>1. PICK t \in Entry : t.to = e /\ t.op = "parked" /\ queue' = Append(queue, t)
  BY ParkQueue DEF Parks
<1>2. /\ broker'[e].default = Append(broker[e].default, m)
      /\ broker'[e].custom = broker[e].custom
      /\ broker' \in [Entities -> Mq]
      /\ \A d \in Entities \ {e} : broker'[d] = broker[d]
  BY ParkQueue DEF Parks
<1>3. UNCHANGED <<ownQueue, handled, dropped, current>>
  BY DEF Parks
<1>4. Grown(In(e, "parked"), In(e, "parked")', m)
  <2>1. Grown(broker[e].default, Append(broker[e].default, m), m)
    BY AppendGrows, ParkedSeq
  <2>2. In(e, "parked") = broker[e].default /\ In(e, "parked")' = Append(broker[e].default, m)
    BY <1>2, Rows, NextRows
  <2> QED BY <2>1, <2>2
<1>5. Stay(e, {"kept"})
  BY <1>2, Rows, NextRows, SameIsAlike DEF Stay
<1>6. \A d \in Entities \ {e} : Stay(d, {"parked", "kept"})
  BY <1>2, BrokerStays
<1>7. \A d \in Entities : Stay(d, {"onTheWay"})
  <2>1. queue \in Seq(Entry) /\ t.op # "deliver"
    BY <1>1 DEF Types
  <2>2. \A d \in Entities : Alike(Way(queue, d), Way(Append(queue, t), d))
    BY <2>1, AppendToWay
  <2> QED BY <1>1, <2>2, Rows, NextRows DEF Stay
<1>8. \A d \in Entities : Stay(d, {"flushed"}) /\ Stay(d, {"own"}) /\ Stay(d, Ends)
  BY <1>3, RestStays, OwnStays, EndsStay
<1>9. Stay(e, Places \ {"parked"}) /\ \A d \in Entities \ {e} : Stay(d, Places)
  BY <1>5, <1>6, <1>7, <1>8 DEF Stay, Places, Ends
<1>10. queue' \in Seq(Entry)
  BY <1>1, AppendAt DEF Types
<1> QED BY <1>2, <1>4, <1>9, <1>10 DEF ComesTo, Places

LEMMA KeepsRows ==
  ASSUME Types, NEW e \in Entities, NEW m \in Nat, Keeps(e, m)
  PROVE  /\ ComesTo(e, m, "kept")
         /\ broker' \in [Entities -> Mq]
         /\ broker'[e].default = broker[e].default
         /\ \A d \in Entities \ {e} : broker'[d] = broker[d]
<1>1. /\ broker' = [broker EXCEPT ![e].custom = Append(@, m)]
      /\ UNCHANGED <<queue, ownQueue, handled, dropped, current>>
  BY DEF Keeps, WaitBehindParked
<1>2. broker[e] \in Mq /\ broker[e].custom \in Seq(Nat) /\ Append(broker[e].custom, m) \in Seq(Nat)
  <2>1. broker[e] \in Mq /\ broker[e].custom \in Seq(Nat)
    BY DEF Types, Mq
  <2> QED BY <2>1, AppendAt
<1>3. broker' \in [Entities -> Mq]
  BY <1>1, <1>2 DEF Types, Mq
<1>4. /\ broker'[e].custom = Append(broker[e].custom, m)
      /\ broker'[e].default = broker[e].default
      /\ \A d \in Entities \ {e} : broker'[d] = broker[d]
  BY <1>1, <1>2 DEF Types, Mq
<1>5. Grown(In(e, "kept"), In(e, "kept")', m)
  <2>1. Grown(broker[e].custom, Append(broker[e].custom, m), m)
    BY <1>2, AppendGrows
  <2>2. In(e, "kept") = broker[e].custom /\ In(e, "kept")' = Append(broker[e].custom, m)
    BY <1>4, Rows, NextRows
  <2> QED BY <2>1, <2>2
<1>6. Stay(e, {"parked"})
  BY <1>4, Rows, NextRows, SameIsAlike DEF Stay
<1>7. \A d \in Entities \ {e} : Stay(d, {"parked", "kept"})
  BY <1>4, BrokerStays
<1>8. \A d \in Entities : Stay(d, {"flushed"}) /\ Stay(d, {"onTheWay"}) /\ Stay(d, {"own"}) /\ Stay(d, Ends)
  BY <1>1, RestStays, QueueStays, OwnStays, EndsStay
<1>9. Stay(e, Places \ {"kept"}) /\ \A d \in Entities \ {e} : Stay(d, Places)
  BY <1>6, <1>7, <1>8 DEF Stay, Places, Ends
<1> QED BY <1>3, <1>4, <1>5, <1>9 DEF ComesTo, Places

LEMMA PassesRows ==
  ASSUME Types, NEW e \in Entities, NEW m \in Nat, NEW q, Passes(e, m, q)
  PROVE  q \in LaterPlaces /\ ComesTo(e, m, q)
<1>1. UNCHANGED <<broker, current>>
  BY DEF Passes
<1>2. /\ q \in LaterPlaces
      /\ Grown(In(e, q), In(e, q)', m)
      /\ Stay(e, LaterPlaces \ {q})
      /\ \A d \in Entities \ {e} : Stay(d, LaterPlaces)
  BY PassedToRows DEF Passes
<1>3. \A d \in Entities : Stay(d, {"flushed"}) /\ Stay(d, {"parked", "kept"})
  BY <1>1, RestStays, BrokerStays
<1>4. Stay(e, Places \ {q}) /\ \A d \in Entities \ {e} : Stay(d, Places)
  BY <1>2, <1>3 DEF Stay, Places, LaterPlaces
<1>5. q \in Places
  BY <1>2 DEF Places, LaterPlaces
<1> QED BY <1>2, <1>4, <1>5 DEF ComesTo

LEMMA ReceivesComes ==
  ASSUME Types, NEW e \in Entities, NEW m \in Nat, Receives(e, m)
  PROVE  \E q : ComesTo(e, m, q)
BY ParksRows, KeepsRows, PassesRows DEF Receives


LEMMA OneTaken ==
  ASSUME NEW f \in [Entities -> Seq(Nat)], NEW e \in Entities, f[e] # <<>>,
         NEW g, g = [f EXCEPT ![e] = Tail(@)]
  PROVE  /\ g \in [Entities -> Seq(Nat)]
         /\ Shrunk(f[e], g[e], Head(f[e]))
         /\ \A d \in Entities \ {e} : g[d] = f[d]
<1>1. f[e] \in Seq(Nat)
  OBVIOUS
<1>2. Tail(f[e]) \in Seq(Nat)
  BY <1>1, TailAt
<1>3. g[e] = Tail(f[e])
  OBVIOUS
<1>4. Shrunk(f[e], g[e], Head(f[e]))
  BY <1>1, <1>3, TailShrinks
<1> QED BY <1>2, <1>4

LEMMA DeliversRows ==
  ASSUME Types, NEW e \in Entities, NEW m \in Nat, NEW q, DeliversTo(e, m, q)
  PROVE  GoesTo(e, m, "onTheWay", q) /\ q \in Ends
<1>0. /\ queue \in Seq(Entry) /\ queue # <<>>
      /\ Head(queue).op = "deliver" /\ Head(queue).to = e /\ Head(queue).arg = m
      /\ queue' = Tail(queue)
  BY DEF DeliversTo, Types
<1>1. /\ handled' \in [Entities -> Seq(Nat)] /\ dropped' \in [Entities -> Seq(Nat)]
      /\ Grown(In(e, q), In(e, q)', m)
      /\ Stay(e, Ends \ {q})
      /\ \A d \in Entities \ {e} : Stay(d, Ends)
  BY EndsInRows DEF DeliversTo
<1>2. q \in Ends
  BY DEF DeliversTo, EndsIn
<1>3. Shrunk(In(e, "onTheWay"), In(e, "onTheWay")', m)
  <2>1. Shrunk(Way(queue, e), Way(Tail(queue), e), m)
    BY <1>0, TailOfWay
  <2>2. In(e, "onTheWay") = Way(queue, e) /\ In(e, "onTheWay")' = Way(Tail(queue), e)
    BY <1>0, Rows, NextRows
  <2> QED BY <2>1, <2>2
<1>4. \A d \in Entities \ {e} : Stay(d, {"onTheWay"})
  <2>1. \A d \in Entities \ {e} : Alike(Way(queue, d), Way(Tail(queue), d))
    BY <1>0, TailOfWay
  <2> QED BY <1>0, <2>1, Rows, NextRows DEF Stay
<1>5. \A d \in Entities : Stay(d, {"parked", "kept"}) /\ Stay(d, {"flushed"}) /\ Stay(d, {"own"})
  BY BrokerStays, RestStays, OwnStays DEF DeliversTo
<1>6. Stay(e, Places \ {"onTheWay", q}) /\ \A d \in Entities \ {e} : Stay(d, Places)
  BY <1>1, <1>4, <1>5 DEF Stay, Places, Ends
<1>7. "onTheWay" \in Places /\ q \in Places \ {"onTheWay"}
  BY <1>2 DEF Places, Ends
<1> QED BY <1>1, <1>2, <1>3, <1>6, <1>7 DEF GoesTo

LEMMA UnparksRows ==
  ASSUME Types, NEW e \in Entities, NEW m \in Nat, NEW q, UnparksTo(e, m, q)
  PROVE  /\ GoesTo(e, m, "parked", q) /\ q \in {"own"} \cup Ends
         /\ broker' \in [Entities -> Mq]
         /\ broker'[e].default = Tail(broker[e].default)
         /\ \A d \in Entities \ {e} : broker'[d] = broker[d]
<1>0. /\ queue \in Seq(Entry) /\ queue # <<>> /\ Head(queue).op = "parked"
      /\ queue' = Tail(queue)
      /\ broker[e].default # <<>> /\ m = Head(broker[e].default)
      /\ broker' = [broker EXCEPT ![e].default = Tail(@)]
  BY DEF UnparksTo, Types
<1>1. /\ q \in {"own"} \cup Ends
      /\ Grown(In(e, q), In(e, q)', m)
      /\ Stay(e, ({"own"} \cup Ends) \ {q})
      /\ \A d \in Entities \ {e} : Stay(d, {"own"} \cup Ends)
  BY TakenToRows DEF UnparksTo
<1>2. broker[e] \in Mq /\ broker[e].default \in Seq(Nat) /\ Tail(broker[e].default) \in Seq(Nat)
  <2>1. broker[e] \in Mq /\ broker[e].default \in Seq(Nat)
    BY DEF Types, Mq
  <2> QED BY <1>0, <2>1, TailAt
<1>3. broker' \in [Entities -> Mq]
  BY <1>0, <1>2 DEF Types, Mq
<1>4. /\ broker'[e].default = Tail(broker[e].default)
      /\ broker'[e].custom = broker[e].custom
      /\ \A d \in Entities \ {e} : broker'[d] = broker[d]
  BY <1>0, <1>2 DEF Types, Mq
<1>5. Shrunk(In(e, "parked"), In(e, "parked")', m)
  <2>1. Shrunk(broker[e].default, Tail(broker[e].default), m)
    BY <1>0, <1>2, TailShrinks
  <2>2. In(e, "parked") = broker[e].default /\ In(e, "parked")' = Tail(broker[e].default)
    BY <1>4, Rows, NextRows
  <2> QED BY <2>1, <2>2
<1>6. Stay(e, {"kept"})
  BY <1>4, Rows, NextRows, SameIsAlike DEF Stay
<1>7. \A d \in Entities \ {e} : Stay(d, {"parked", "kept"})
  BY <1>4, BrokerStays
<1>8. \A d \in Entities : Stay(d, {"onTheWay"})
  <2>1. \A d \in Entities : Alike(Way(queue, d), Way(Tail(queue), d))
    BY <1>0, TailOfWay
  <2> QED BY <1>0, <2>1, Rows, NextRows DEF Stay
<1>9. \A d \in Entities : Stay(d, {"flushed"})
  BY RestStays DEF UnparksTo
<1>10. Stay(e, Places \ {"parked", q}) /\ \A d \in Entities \ {e} : Stay(d, Places)
  BY <1>1, <1>6, <1>7, <1>8, <1>9 DEF Stay, Places, Ends
<1>11. "parked" \in Places /\ q \in Places \ {"parked"}
  BY <1>1 DEF Places, Ends
<1> QED BY <1>1, <1>3, <1>4, <1>5, <1>10, <1>11 DEF GoesTo

LEMMA FlushesRows ==
  ASSUME Types, NEW e \in Entities, NEW m \in Nat, NEW q, FlushesTo(e, m, q)
  PROVE  /\ GoesTo(e, m, "flushed", q) /\ q \in LaterPlaces
         /\ current' \in Current
<1>0. /\ current.to = e /\ current.rest # <<>> /\ m = Head(current.rest)
      /\ current' = [current EXCEPT !.rest = Tail(@)]
      /\ UNCHANGED broker
  BY DEF FlushesTo
<1>1. /\ q \in LaterPlaces
      /\ Grown(In(e, q), In(e, q)', m)
      /\ Stay(e, LaterPlaces \ {q})
      /\ \A d \in Entities \ {e} : Stay(d, LaterPlaces)
  BY PassedToRows DEF FlushesTo
<1>2. current \in Current /\ current.rest \in Seq(Nat) /\ Tail(current.rest) \in Seq(Nat)
  <2>1. current \in Current /\ current.rest \in Seq(Nat)
    BY DEF Types, Current
  <2> QED BY <1>0, <2>1, TailAt
<1>3. current' \in Current /\ current'.to = e /\ current'.rest = Tail(current.rest)
  BY <1>0, <1>2 DEF Current
<1>4. Shrunk(In(e, "flushed"), In(e, "flushed")', m)
  <2>1. Shrunk(current.rest, Tail(current.rest), m)
    BY <1>0, <1>2, TailShrinks
  <2>2. In(e, "flushed") = current.rest /\ In(e, "flushed")' = Tail(current.rest)
    BY <1>0, <1>3, Rows, NextRows
  <2> QED BY <2>1, <2>2
<1>5. \A d \in Entities \ {e} : Stay(d, {"flushed"})
  BY <1>0, <1>3, Rows, NextRows, SameIsAlike DEF Stay
<1>6. \A d \in Entities : Stay(d, {"parked", "kept"})
  BY <1>0, BrokerStays
<1>7. Stay(e, Places \ {"flushed", q}) /\ \A d \in Entities \ {e} : Stay(d, Places)
  BY <1>1, <1>5, <1>6 DEF Stay, Places, LaterPlaces
<1>8. "flushed" \in Places /\ q \in Places \ {"flushed"}
  BY <1>1 DEF Places, LaterPlaces
<1> QED BY <1>1, <1>3, <1>4, <1>7, <1>8 DEF GoesTo

LEMMA LeavesOwnRows ==
  ASSUME Types, NEW e \in Entities, NEW m \in Nat, NEW q, LeavesOwn(e, m, q)
  PROVE  /\ GoesTo(e, m, "own", q) /\ q \in Ends
         /\ ownQueue' \in [Entities -> Seq(Nat)]
<1>0. /\ ownQueue[e] # <<>> /\ m = Head(ownQueue[e])
      /\ ownQueue' = [ownQueue EXCEPT ![e] = Tail(@)]
      /\ UNCHANGED <<broker, queue, current>>
      /\ ownQueue \in [Entities -> Seq(Nat)]
  BY DEF LeavesOwn, Types
<1>1. /\ Grown(In(e, q), In(e, q)', m)
      /\ Stay(e, Ends \ {q})
      /\ \A d \in Entities \ {e} : Stay(d, Ends)
  BY EndsInRows DEF LeavesOwn
<1>2. q \in Ends
  BY DEF LeavesOwn, EndsIn
<1>3. /\ ownQueue' \in [Entities -> Seq(Nat)]
      /\ Shrunk(ownQueue[e], ownQueue'[e], m)
      /\ \A d \in Entities \ {e} : ownQueue'[d] = ownQueue[d]
  BY <1>0, OneTaken
<1>4. Shrunk(In(e, "own"), In(e, "own")', m)
  <2>1. In(e, "own") = ownQueue[e] /\ In(e, "own")' = ownQueue'[e]
    BY Rows, NextRows
  <2> QED BY <1>3, <2>1
<1>5. \A d \in Entities \ {e} : Stay(d, {"own"})
  BY <1>3, Rows, NextRows, SameIsAlike DEF Stay
<1>6. \A d \in Entities : Stay(d, {"parked", "kept"}) /\ Stay(d, {"flushed"}) /\ Stay(d, {"onTheWay"})
  BY <1>0, BrokerStays, RestStays, QueueStays
<1>7. Stay(e, Places \ {"own", q}) /\ \A d \in Entities \ {e} : Stay(d, Places)
  BY <1>1, <1>5, <1>6 DEF Stay, Places, Ends
<1>8. "own" \in Places /\ q \in Places \ {"own"}
  BY <1>2 DEF Places, Ends
<1> QED BY <1>1, <1>2, <1>3, <1>4, <1>7, <1>8 DEF GoesTo

LEMMA MovesOnGoes ==
  ASSUME Types, NEW e \in Entities, NEW m \in Nat, NEW q, MovesOn(e, m, q)
  PROVE  \E p : GoesTo(e, m, p, q)
BY DeliversRows, UnparksRows, FlushesRows, LeavesOwnRows DEF MovesOn

LEMMA ErasesMqRows ==
  ASSUME Types, NEW e \in Entities, ErasesMq(e)
  PROVE  /\ Erases(e)
         /\ broker' \in [Entities -> Mq] /\ current' \in Current
         /\ broker'[e] = NoMq /\ \A d \in Entities \ {e} : broker'[d] = broker[d]
<1>1. /\ broker' = [broker EXCEPT ![e] = NoMq]
      /\ current' = [current EXCEPT !.rest = broker[e].custom]
      /\ current.to = e /\ current.rest = <<>>
      /\ UNCHANGED <<queue, ownQueue, handled, dropped>>
  BY DEF ErasesMq
<1>2. NoMq \in Mq /\ broker[e].custom \in Seq(Nat) /\ current \in Current
  BY DEF NoMq, Mq, Types
<1>3. /\ broker' \in [Entities -> Mq]
      /\ broker'[e] = NoMq /\ \A d \in Entities \ {e} : broker'[d] = broker[d]
  BY <1>1, <1>2 DEF Types
<1>4. current' \in Current /\ current'.to = e /\ current'.rest = broker[e].custom
  BY <1>1, <1>2 DEF Current
<1>5. \A d \in Entities : Stay(d, LaterPlaces)
  <2>1. \A d \in Entities : Stay(d, {"onTheWay"}) /\ Stay(d, {"own"}) /\ Stay(d, Ends)
    BY <1>1, QueueStays, OwnStays, EndsStay
  <2> QED BY <2>1 DEF Stay, LaterPlaces, Ends
<1>6. ASSUME NEW d \in Entities \ {e} PROVE Stay(d, Places)
  <2>1. In(d, "flushed")' = In(d, "flushed")
    BY <1>1, <1>4, Rows, NextRows
  <2>2. Stay(d, {"flushed"}) /\ Stay(d, {"parked", "kept"})
    BY <1>3, <2>1, BrokerStays, SameIsAlike DEF Stay
  <2> QED BY <1>5, <2>2 DEF Stay, Places, LaterPlaces
<1>7. /\ In(e, "parked")' = <<>>
      /\ In(e, "flushed") = <<>> /\ In(e, "flushed")' = In(e, "kept")
      /\ In(e, "kept")' = <<>>
  BY <1>1, <1>3, <1>4, Rows, NextRows DEF NoMq
<1> QED BY <1>3, <1>4, <1>5, <1>6, <1>7 DEF Erases

LEMMA NothingMoves ==
  ASSUME Idles, NEW e \in Entities
  PROVE  Stay(e, Places)
<1>1. Stay(e, {"parked", "kept"}) /\ Stay(e, {"onTheWay"}) /\ Stay(e, {"own"}) /\ Stay(e, Ends)
  BY BrokerStays, QueueStays, OwnStays, EndsStay DEF Idles
<1>2. Stay(e, {"flushed"})
  BY RestStays DEF Idles
<1> QED BY <1>1, <1>2 DEF Stay, Places, Ends


-----------------------------------------------------------------------------
(* Each message is in one place, once.                                     *)

LEMMA StayAt ==
  ASSUME NEW e, NEW S, Stay(e, S)
  PROVE  \A p \in S : /\ At(e, p)' = At(e, p)
                      /\ Distinct(In(e, p)) => Distinct(In(e, p))'
                      /\ Rising(In(e, p)) => Rising(In(e, p))'
<1> TAKE p \in S
<1>1. Alike(In(e, p), In(e, p)')
  BY DEF Stay
<1> QED BY <1>1 DEF Alike, At, Elements, Distinct, Rising

LEMMA ArriveAt ==
  ASSUME NEW e, NEW m, NEW q, Grown(In(e, q), In(e, q)', m)
  PROVE  /\ At(e, q)' = At(e, q) \cup {m}
         /\ Distinct(In(e, q)) /\ m \notin At(e, q) => Distinct(In(e, q))'
         /\ Rising(In(e, q)) /\ (\A x \in At(e, q) : x < m) => Rising(In(e, q))'
  BY DEF Grown, At, Elements, Distinct, Rising

LEMMA LeaveAt ==
  ASSUME NEW e, NEW m, NEW p, Shrunk(In(e, p), In(e, p)', m)
  PROVE  /\ m \in At(e, p)
         /\ Distinct(In(e, p)) => Distinct(In(e, p))' /\ At(e, p)' = At(e, p) \ {m}
         /\ Rising(In(e, p)) => Rising(In(e, p))' /\ \A x \in At(e, p)' : m < x
  BY DEF Shrunk, At, Elements, Distinct, Rising

LEMMA StaysOnce ==
  ASSUME NEW e, Once(e), Stay(e, Places), MessagesOf(e) \subseteq MessagesOf(e)'
  PROVE  Once(e)' /\ \A p \in Places : At(e, p)' = At(e, p)
<1>1. \A p \in Places : At(e, p)' = At(e, p) /\ Distinct(In(e, p))'
  BY StayAt DEF Once
<1>2. \A p \in Places : At(e, p) \subseteq MessagesOf(e)'
  BY DEF Once
<1>3. \A p, q \in Places : p # q => At(e, p)' \cap At(e, q)' = {}
  BY <1>1 DEF Once
<1> QED BY <1>1, <1>2, <1>3 DEF Once

LEMMA ComesOnce ==
  ASSUME NEW e, NEW m, NEW q, Once(e), ComesTo(e, m, q),
         m \notin MessagesOf(e), MessagesOf(e)' = MessagesOf(e) \cup {m}
  PROVE  /\ Once(e)'
         /\ q \in Places /\ m \in At(e, q)'
         /\ \A p \in Places : At(e, p) \subseteq At(e, p)'
<1>1. /\ q \in Places
      /\ At(e, q)' = At(e, q) \cup {m}
      /\ Distinct(In(e, q)) /\ m \notin At(e, q) => Distinct(In(e, q))'
      /\ Stay(e, Places \ {q})
  BY ArriveAt DEF ComesTo
<1>2. \A p \in Places : m \notin At(e, p)
  BY DEF Once
<1>3. \A p \in Places \ {q} : At(e, p)' = At(e, p) /\ Distinct(In(e, p))'
  BY <1>1, StayAt DEF Once
<1>4. Distinct(In(e, q))'
  BY <1>1, <1>2 DEF Once
<1>5. \A p \in Places : Distinct(In(e, p))' /\ At(e, p)' \subseteq MessagesOf(e)'
  <2>1. \A p \in Places : At(e, p) \subseteq MessagesOf(e)
    BY DEF Once
  <2> QED BY <1>1, <1>3, <1>4, <2>1
<1>6. \A p, r \in Places : p # r => At(e, p)' \cap At(e, r)' = {}
  <2>1. \A p, r \in Places : p # r => At(e, p) \cap At(e, r) = {}
    BY DEF Once
  <2> QED BY <1>1, <1>2, <1>3, <2>1
<1>7. Once(e)'
  BY <1>5, <1>6 DEF Once
<1> QED BY <1>1, <1>3, <1>7

LEMMA GoesOnce ==
  ASSUME NEW e \in Entities, NEW m, NEW p, NEW q, Once(e), GoesTo(e, m, p, q),
         MessagesOf(e)' = MessagesOf(e)
  PROVE  /\ Once(e)'
         /\ At(e, q)' = At(e, q) \cup {m}
         /\ At(e, p)' = At(e, p) \ {m}
         /\ \A r \in Places \ {p, q} : At(e, r)' = At(e, r)
<1>1. /\ p \in Places /\ q \in Places \ {p}
      /\ Shrunk(In(e, p), In(e, p)', m)
      /\ Grown(In(e, q), In(e, q)', m)
      /\ Stay(e, Places \ {p, q})
  BY DEF GoesTo
<1>2. /\ At(e, q)' = At(e, q) \cup {m}
      /\ Distinct(In(e, q)) /\ m \notin At(e, q) => Distinct(In(e, q))'
  BY <1>1, ArriveAt
<1>3. m \in At(e, p) /\ Distinct(In(e, p))' /\ At(e, p)' = At(e, p) \ {m}
  BY <1>1, LeaveAt DEF Once
<1>4. \A r \in Places \ {p} : m \notin At(e, r)
  BY <1>1, <1>3 DEF Once
<1>5. \A r \in Places \ {p, q} : At(e, r)' = At(e, r) /\ Distinct(In(e, r))'
  BY <1>1, StayAt DEF Once
<1>6. Distinct(In(e, q))'
  BY <1>1, <1>2, <1>4 DEF Once
<1>7. \A r \in Places : Distinct(In(e, r))' /\ At(e, r)' \subseteq MessagesOf(e)'
  <2>1. \A r \in Places : At(e, r) \subseteq MessagesOf(e)
    BY DEF Once
  <2> QED BY <1>1, <1>2, <1>3, <1>5, <1>6, <2>1
<1>8. \A r, s \in Places : r # s => At(e, r)' \cap At(e, s)' = {}
  <2>1. \A r, s \in Places : r # s => At(e, r) \cap At(e, s) = {}
    BY DEF Once
  <2> QED BY <1>1, <1>2, <1>3, <1>4, <1>5, <2>1
<1>9. Once(e)'
  BY <1>7, <1>8 DEF Once
<1> QED BY <1>2, <1>3, <1>5, <1>9

LEMMA ErasesOnce ==
  ASSUME NEW e, Once(e), Erases(e), MessagesOf(e)' = MessagesOf(e)
  PROVE  /\ Once(e)'
         /\ \A p \in Places \ {"parked"} : \A x \in At(e, p) : \E q \in Places : x \in At(e, q)'
<1>1. At(e, "parked")' = {} /\ At(e, "kept")' = {} /\ At(e, "flushed") = {}
  BY DEF Erases, At, Elements
<1>2. At(e, "flushed")' = At(e, "kept")
  BY DEF Erases, At
<1>3. \A p \in LaterPlaces : At(e, p)' = At(e, p) /\ (Distinct(In(e, p)) => Distinct(In(e, p))')
  BY StayAt DEF Erases
<1>4. Distinct(In(e, "parked"))' /\ Distinct(In(e, "kept"))' /\ (Distinct(In(e, "kept")) => Distinct(In(e, "flushed"))')
  BY DEF Erases, Distinct
<1>5. \A p \in Places : p \in LaterPlaces \/ p \in {"parked", "kept", "flushed"}
  BY DEF Places, LaterPlaces
<1>6. LaterPlaces \subseteq Places /\ "kept" \in Places /\ "flushed" \in Places
  BY DEF Places, LaterPlaces
<1>7. \A p \in Places : Distinct(In(e, p))' /\ At(e, p)' \subseteq MessagesOf(e)'
  <2>1. \A p \in Places : At(e, p) \subseteq MessagesOf(e) /\ Distinct(In(e, p))
    BY DEF Once
  <2> QED BY <1>1, <1>2, <1>3, <1>4, <1>5, <1>6, <2>1
<1>8. \A p, q \in Places : p # q => At(e, p)' \cap At(e, q)' = {}
  <2>1. \A p, q \in Places : p # q => At(e, p) \cap At(e, q) = {}
    BY DEF Once
  <2>2. "kept" \notin LaterPlaces
    BY DEF LaterPlaces
  <2> QED BY <1>1, <1>2, <1>3, <1>5, <1>6, <2>1, <2>2
<1>9. Once(e)'
  BY <1>7, <1>8 DEF Once
<1>10. \A p \in Places \ {"parked"} : \A x \in At(e, p) : \E q \in Places : x \in At(e, q)'
  BY <1>1, <1>2, <1>3, <1>5, <1>6
<1> QED BY <1>9, <1>10

LEMMA ReceiptAdds ==
  ASSUME Types, NEW e \in Entities, dest' = Append(dest, e)
  PROVE  /\ Len(dest) + 1 \in Nat
         /\ Len(dest) + 1 \notin MessagesOf(e)
         /\ MessagesOf(e)' = MessagesOf(e) \cup {Len(dest) + 1}
         /\ \A d \in Entities \ {e} : MessagesOf(d)' = MessagesOf(d)
<1>0. dest \in Seq(Entities)
  BY DEF Types
<1>1. PICK n \in Nat : /\ Len(dest) = n
                       /\ Len(dest') = n + 1
                       /\ \A i \in 1 .. n : dest'[i] = dest[i]
                       /\ dest'[n + 1] = e
  <2>1. /\ Len(dest) \in Nat
        /\ Len(dest') = Len(dest) + 1
        /\ \A i \in 1 .. Len(dest) : dest'[i] = dest[i]
        /\ dest'[Len(dest) + 1] = e
    BY <1>0, AppendAt
  <2> QED BY <2>1, Zenon
<1>2. n + 1 \notin MessagesOf(e)
  BY <1>1 DEF MessagesOf
<1>3. \A i \in 1 .. n + 1 : i \in 1 .. n \/ i = n + 1
  BY <1>1
<1>4. \A i \in 1 .. n : i \in 1 .. n + 1
  BY <1>1
<1>5. n + 1 \in 1 .. n + 1
  BY <1>1
<1>6. MessagesOf(e)' = MessagesOf(e) \cup {n + 1}
  BY <1>1, <1>3, <1>4, <1>5 DEF MessagesOf
<1>7. \A d \in Entities \ {e} : MessagesOf(d)' = MessagesOf(d)
  BY <1>1, <1>3, <1>4 DEF MessagesOf
<1> QED BY <1>1, <1>2, <1>6, <1>7

LEMMA StepKeepsOnce ==
  ASSUME Types, Phases, Signals, [Next]_vars, NEW d \in Entities,
         Once(d), Complete(d)
  PROVE  Once(d)' /\ Complete(d)'
<1>1. ASSUME NEW e \in Entities, Receives(e, Len(dest) + 1)
      PROVE  Once(d)' /\ Complete(d)'
  <2>0. dest' = Append(dest, e) /\ raced \subseteq raced'
    BY <1>1 DEF Receives
  <2>2. PICK m \in Nat : m = Len(dest) + 1
    BY <2>0, ReceiptAdds
  <2>3. /\ m \notin MessagesOf(e)
        /\ MessagesOf(e)' = MessagesOf(e) \cup {m}
        /\ \A c \in Entities \ {e} : MessagesOf(c)' = MessagesOf(c)
    BY <2>0, <2>2, ReceiptAdds
  <2>4. PICK q : ComesTo(e, m, q)
    BY <1>1, <2>2, ReceivesComes
  <2>5. CASE d = e
    <3>1. /\ Once(e)'
          /\ q \in Places /\ m \in At(e, q)'
          /\ \A p \in Places : At(e, p) \subseteq At(e, p)'
      BY <2>3, <2>4, <2>5, ComesOnce
    <3> QED BY <2>0, <2>3, <2>5, <3>1 DEF Complete
  <2>6. CASE d # e
    <3>1. Stay(d, Places)
      BY <2>4, <2>6 DEF ComesTo
    <3>2. Once(d)' /\ \A p \in Places : At(d, p)' = At(d, p)
      BY <2>3, <2>6, <3>1, StaysOnce
    <3> QED BY <2>0, <2>3, <2>6, <3>2 DEF Complete
  <2> QED BY <2>5, <2>6
<1>2. ASSUME UNCHANGED <<dest, raced>>,
             NEW e \in Entities, NEW m \in Nat, NEW q, MovesOn(e, m, q)
      PROVE  Once(d)' /\ Complete(d)'
  <2>0. PICK p : GoesTo(e, m, p, q)
    BY <1>2, MovesOnGoes
  <2>1. MessagesOf(d)' = MessagesOf(d)
    BY <1>2 DEF MessagesOf
  <2>2. CASE d = e
    <3>1. /\ Once(e)'
          /\ At(e, q)' = At(e, q) \cup {m}
          /\ At(e, p)' = At(e, p) \ {m}
          /\ \A r \in Places \ {p, q} : At(e, r)' = At(e, r)
      BY <2>0, <2>1, <2>2, GoesOnce
    <3>2. q \in Places
      BY <2>0 DEF GoesTo
    <3>3. \A x : \A r \in Places : x \in At(e, r) => \E s \in Places : x \in At(e, s)'
      BY <3>1, <3>2
    <3> QED BY <1>2, <2>1, <2>2, <3>1, <3>3 DEF Complete
  <2>3. CASE d # e
    <3>1. Stay(d, Places)
      BY <2>0, <2>3 DEF GoesTo
    <3>2. Once(d)' /\ \A r \in Places : At(d, r)' = At(d, r)
      BY <2>1, <3>1, StaysOnce
    <3> QED BY <1>2, <2>1, <3>2 DEF Complete
  <2> QED BY <2>2, <2>3
<1>3. ASSUME UNCHANGED <<dest, raced>>, NEW e \in Entities, ErasesMq(e)
      PROVE  Once(d)' /\ Complete(d)'
  <2>0. Erases(e) /\ e = current.to /\ pc = "erase"
    BY <1>3, ErasesMqRows DEF ErasesMq
  <2>1. MessagesOf(d)' = MessagesOf(d)
    BY <1>3 DEF MessagesOf
  <2>2. CASE d = e
    <3>1. /\ Once(e)'
          /\ \A p \in Places \ {"parked"} : \A x \in At(e, p) : \E q \in Places : x \in At(e, q)'
      BY <2>0, <2>1, <2>2, ErasesOnce
    <3>2. e \notin raced => At(e, "parked") = {}
      BY <2>0, Rows DEF Phases, At, Elements
    <3> QED BY <1>3, <2>1, <2>2, <3>1, <3>2 DEF Complete
  <2>3. CASE d # e
    <3>1. Stay(d, Places)
      BY <2>0, <2>3 DEF Erases
    <3>2. Once(d)' /\ \A q \in Places : At(d, q)' = At(d, q)
      BY <2>1, <3>1, StaysOnce
    <3> QED BY <1>3, <2>1, <3>2 DEF Complete
  <2> QED BY <2>2, <2>3
<1>4. ASSUME UNCHANGED <<dest, raced>>, Idles
      PROVE  Once(d)' /\ Complete(d)'
  <2>1. MessagesOf(d)' = MessagesOf(d)
    BY <1>4 DEF MessagesOf
  <2>2. Stay(d, Places)
    BY <1>4, NothingMoves
  <2>3. Once(d)' /\ \A q \in Places : At(d, q)' = At(d, q)
    BY <2>1, <2>2, StaysOnce
  <2> QED BY <1>4, <2>1, <2>3 DEF Complete
<1>5. ASSUME NEW e \in Entities, Bind(e) \/ Unbind(e) \/ LoseId(e) \/ AdviseOn(e)
      PROVE  Once(d)' /\ Complete(d)'
  BY <1>4, <1>5, BindIdles
<1> QED BY <1>1, <1>2, <1>3, <1>4, <1>5, StepEffects

-----------------------------------------------------------------------------
(* The types and the phases of the threads.                                *)

Containers ==
  /\ broker \in [Entities -> Mq]
  /\ queue \in Seq(Entry)
  /\ ownQueue \in [Entities -> Seq(Nat)]
  /\ handled \in [Entities -> Seq(Nat)]
  /\ dropped \in [Entities -> Seq(Nat)]

LEMMA ContainersOfTypes ==
  ASSUME Types
  PROVE  Containers
BY DEF Types, Containers

LEMMA ReceivesTypes ==
  ASSUME Types, NEW e \in Entities, NEW m \in Nat, Receives(e, m)
  PROVE  Containers'
<1>0. Containers
  BY ContainersOfTypes
<1>1. CASE Parks(e, m)
  <2>1. broker' \in [Entities -> Mq] /\ queue' \in Seq(Entry)
    BY <1>1, ParksRows
  <2>2. UNCHANGED <<ownQueue, handled, dropped>>
    BY <1>1 DEF Parks
  <2> QED BY <1>0, <2>1, <2>2 DEF Containers
<1>2. CASE Keeps(e, m)
  <2>1. broker' \in [Entities -> Mq]
    BY <1>2, KeepsRows
  <2>2. UNCHANGED <<queue, ownQueue, handled, dropped>>
    BY <1>2 DEF Keeps, WaitBehindParked
  <2> QED BY <1>0, <2>1, <2>2 DEF Containers
<1>3. ASSUME NEW q, Passes(e, m, q)
      PROVE  Containers'
  <2>1. PassedTo(e, m, q) /\ UNCHANGED broker
    BY <1>3 DEF Passes
  <2>2. /\ queue' \in Seq(Entry) /\ ownQueue' \in [Entities -> Seq(Nat)]
        /\ handled' \in [Entities -> Seq(Nat)] /\ dropped' \in [Entities -> Seq(Nat)]
    BY <2>1, PassedToRows
  <2> QED BY <1>0, <2>1, <2>2 DEF Containers
<1> QED BY <1>1, <1>2, <1>3 DEF Receives

LEMMA MovesTypes ==
  ASSUME Types, NEW e \in Entities, NEW m \in Nat, NEW q, MovesOn(e, m, q)
  PROVE  Containers'
<1>0. Containers
  BY ContainersOfTypes
<1>1. ASSUME queue # <<>>, queue' = Tail(queue)
      PROVE  queue' \in Seq(Entry)
  BY <1>0, <1>1, TailAt DEF Containers
<1>2. CASE DeliversTo(e, m, q)
  <2>1. EndsIn(e, m, q) /\ UNCHANGED <<broker, ownQueue>>
    BY <1>2 DEF DeliversTo
  <2>2. queue' \in Seq(Entry)
    BY <1>1, <1>2 DEF DeliversTo
  <2>3. handled' \in [Entities -> Seq(Nat)] /\ dropped' \in [Entities -> Seq(Nat)]
    BY <2>1, EndsInRows
  <2> QED BY <1>0, <2>1, <2>2, <2>3 DEF Containers
<1>3. CASE UnparksTo(e, m, q)
  <2>1. TakenTo(e, m, q)
    BY <1>3 DEF UnparksTo
  <2>2. queue' \in Seq(Entry)
    BY <1>1, <1>3 DEF UnparksTo
  <2>3. /\ ownQueue' \in [Entities -> Seq(Nat)]
        /\ handled' \in [Entities -> Seq(Nat)] /\ dropped' \in [Entities -> Seq(Nat)]
    BY <2>1, TakenToRows
  <2>4. broker' \in [Entities -> Mq]
    BY <1>3, UnparksRows
  <2> QED BY <2>2, <2>3, <2>4 DEF Containers
<1>4. CASE FlushesTo(e, m, q)
  <2>1. PassedTo(e, m, q) /\ UNCHANGED broker
    BY <1>4 DEF FlushesTo
  <2>2. /\ queue' \in Seq(Entry) /\ ownQueue' \in [Entities -> Seq(Nat)]
        /\ handled' \in [Entities -> Seq(Nat)] /\ dropped' \in [Entities -> Seq(Nat)]
    BY <2>1, PassedToRows
  <2> QED BY <1>0, <2>1, <2>2 DEF Containers
<1>5. CASE LeavesOwn(e, m, q)
  <2>1. EndsIn(e, m, q) /\ UNCHANGED <<broker, queue>>
    BY <1>5 DEF LeavesOwn
  <2>2. handled' \in [Entities -> Seq(Nat)] /\ dropped' \in [Entities -> Seq(Nat)]
    BY <2>1, EndsInRows
  <2>3. ownQueue' \in [Entities -> Seq(Nat)]
    BY <1>5, LeavesOwnRows
  <2> QED BY <1>0, <2>1, <2>2, <2>3 DEF Containers
<1> QED BY <1>2, <1>3, <1>4, <1>5 DEF MovesOn

LEMMA StepContainers ==
  ASSUME Types, Phases, Signals, [Next]_vars
  PROVE  Containers' /\ dest' \in Seq(Entities)
<1>0. Containers /\ dest \in Seq(Entities) /\ Len(dest) + 1 \in Nat
  BY ContainersOfTypes DEF Types
<1>1. ASSUME Idles
      PROVE  Containers'
  BY <1>0, <1>1 DEF Idles, Containers
<1>2. CASE \E e \in Entities : Bind(e) \/ Unbind(e) \/ LoseId(e) \/ AdviseOn(e)
  <2>1. Idles /\ UNCHANGED dest
    BY <1>2, BindIdles
  <2> QED BY <1>0, <1>1, <2>1
<1>3. ASSUME NEW e \in Entities, Receives(e, Len(dest) + 1)
      PROVE  Containers' /\ dest' \in Seq(Entities)
  <2>1. dest' = Append(dest, e)
    BY <1>3 DEF Receives
  <2>2. dest' \in Seq(Entities)
    BY <1>0, <2>1
  <2> QED BY <1>0, <1>3, <2>2, ReceivesTypes
<1>4. ASSUME NEW e \in Entities, ErasesMq(e)
      PROVE  Containers'
  <2>1. broker' \in [Entities -> Mq]
    BY <1>4, ErasesMqRows
  <2>2. UNCHANGED <<queue, ownQueue, handled, dropped>>
    BY <1>4 DEF ErasesMq
  <2> QED BY <1>0, <2>1, <2>2 DEF Containers
<1>5. ASSUME NEW e \in Entities, NEW m \in Nat, NEW q, MovesOn(e, m, q)
      PROVE  Containers'
  BY <1>5, MovesTypes
<1> QED BY <1>0, <1>1, <1>2, <1>3, <1>4, <1>5, StepEffects

\* The other threads do not touch the default scheduler's ...
LEMMA ThreadStays ==
  ASSUME NEW e, Dispatch(e) \/ Bind(e) \/ Unbind(e) \/ LoseId(e) \/ AdviseOn(e) \/ OwnThread(e)
                \/ ReceiverThread
  PROVE  UNCHANGED <<pc, current>>
<1>1. CASE Dispatch(e)
  BY <1>1 DEF Dispatch, thread
<1>2. CASE Bind(e) \/ Unbind(e) \/ LoseId(e) \/ AdviseOn(e)
  BY <1>2, BindIdles
<1>3. CASE OwnThread(e)
  BY <1>3 DEF OwnThread, OwnCheck, OwnExecute, thread
<1>4. CASE ReceiverThread
  BY <1>4 DEF ReceiverThread, Route, Call, thread
<1> QED BY <1>1, <1>2, <1>3, <1>4

\* ... which knows what its action is about.
LEMMA StepCurrent ==
  ASSUME Types, Phases, [Next]_vars
  PROVE  current' \in Current
<1>0. current \in Current /\ Nothing \in Current
  BY DEF Types, Current, Nothing
<1>1. CASE UNCHANGED current
  BY <1>0, <1>1
<1>2. CASE current' = Nothing
  BY <1>0, <1>2
<1>3. CASE queue # <<>> /\ current' = [to |-> Head(queue).to, bound |-> TRUE, rest |-> <<>>]
  BY <1>3, HeadOfQueue DEF Current
<1>4. CASE /\ pc # "idle"
           /\ current' = [current EXCEPT !.rest = broker[current.to].custom]
  <2>1. PICK e \in Entities : current.to = e
    BY <1>4 DEF Phases
  <2>2. broker[e].custom \in Seq(Nat)
    BY ParkedSeq
  <2> QED BY <1>0, <1>4, <2>1, <2>2 DEF Current
<1>5. CASE current.rest # <<>> /\ current' = [current EXCEPT !.rest = Tail(@)]
  <2>1. current.rest \in Seq(Nat)
    BY <1>0 DEF Current
  <2>2. Tail(current.rest) \in Seq(Nat)
    BY <1>5, <2>1, TailAt
  <2> QED BY <1>0, <1>5, <2>2 DEF Current
<1>6. CASE \E e \in Entities : \/ Dispatch(e) \/ Bind(e) \/ Unbind(e) \/ LoseId(e)
                               \/ AdviseOn(e) \/ OwnThread(e)
  BY <1>1, <1>6, ThreadStays
<1>7. CASE ReceiverThread
  BY <1>1, <1>7, ThreadStays
<1>8. CASE RunDeliver
  <2>1. queue # <<>> /\ (UNCHANGED thread \/ current' = [to |-> Head(queue).to, bound |-> TRUE, rest |-> <<>>])
    BY <1>8 DEF RunDeliver
  <2> QED BY <1>1, <1>3, <2>1 DEF thread
<1>9. CASE RunParked
  <2>1. queue # <<>> /\ (UNCHANGED thread
           \/ current' = [to |-> Head(queue).to, bound |-> Head(queue).to \in subscribed, rest |-> <<>>])
    BY <1>9 DEF RunParked
  <2>2. PICK e \in Entities : Head(queue).to = e
    BY <2>1, HeadOfQueue
  <2>3. (e \in subscribed) \in BOOLEAN
    OBVIOUS
  <2>4. [to |-> e, bound |-> e \in subscribed, rest |-> <<>>] \in Current
    BY <2>3 DEF Current
  <2> QED BY <1>1, <2>1, <2>2, <2>4 DEF thread
<1>10. CASE Deliver \/ HandleParked \/ CallParked \/ TestEmpty \/ FlushEnd \/ FlushToNull
  BY <1>1, <1>2, <1>10 DEF Deliver, HandleParked, CallParked, TestEmpty, FlushEnd, FlushToNull,
                           Done, thread
<1>11. CASE Erase
  BY <1>4, <1>11 DEF Erase
<1>12. CASE Flush \/ FlushCall
  <2>1. CASE FlushCall
    <3>1. current.rest # <<>> /\ current' = [current EXCEPT !.rest = Tail(@)]
      BY <2>1 DEF FlushCall, Phases
    <3> QED BY <1>5, <3>1
  <2>2. CASE Flush
    BY <1>1, <1>5, <2>2 DEF Flush
  <2> QED BY <1>12, <2>1, <2>2
<1>13. CASE UNCHANGED vars
  BY <1>1, <1>13 DEF vars, thread
<1> QED
  BY <1>6, <1>7, <1>8, <1>9, <1>10, <1>11, <1>12, <1>13 DEF Next, DefaultThread, Rest

\* Only a signal's own thread writes whether it has checked.
LEMMA CheckedStays ==
  ASSUME [Next]_vars
  PROVE  UNCHANGED ownChecked \/ \E e \in Entities : OwnThread(e)
<1>1. ASSUME NEW e \in Entities, Dispatch(e) \/ Bind(e) \/ Unbind(e) \/ LoseId(e) \/ AdviseOn(e)
      PROVE  UNCHANGED ownChecked
  BY <1>1 DEF Dispatch, Bind, Unbind, LoseId, AdviseOn
<1>2. CASE ReceiverThread
  BY <1>2 DEF ReceiverThread, Route, Call
<1>3. CASE DefaultThread
  BY <1>3, ThreadUnscheduled
<1>4. CASE UNCHANGED vars
  BY <1>4 DEF vars
<1> QED BY <1>1, <1>2, <1>3, <1>4 DEF Next, Rest

LEMMA StepTypes ==
  ASSUME Types, Phases, Signals, [Next]_vars
  PROVE  Types'
<1>1. Containers' /\ dest' \in Seq(Entities)
  BY StepContainers
<1>2. current' \in Current
  BY StepCurrent
<1>3. ownChecked' \in [Entities -> BOOLEAN]
  <2>1. ownChecked \in [Entities -> BOOLEAN]
    BY DEF Types
  <2>2. ASSUME NEW e \in Entities, OwnThread(e)
        PROVE  ownChecked' \in [Entities -> BOOLEAN]
    BY <2>1, <2>2 DEF OwnThread, OwnCheck, OwnExecute
  <2> QED BY <2>1, <2>2, CheckedStays
<1>4. ownScheduler' \subseteq Entities
  <2>1. ownScheduler \subseteq Entities
    BY DEF Types
  <2>2. ASSUME NEW e \in Entities, Bind(e) \/ Unbind(e) \/ LoseId(e) \/ AdviseOn(e)
        PROVE  ownScheduler' \subseteq Entities
    BY <2>1, <2>2 DEF Bind, Unbind, LoseId, AdviseOn, life
  <2>3. Unscheduled => ownScheduler' = ownScheduler
    BY DEF Unscheduled
  <2> QED BY <2>1, <2>2, <2>3, StepEffects
<1> QED BY <1>1, <1>2, <1>3, <1>4 DEF Containers, Types

LEMMA AppendKeepsHead ==
  ASSUME NEW S, NEW s \in Seq(S), NEW x \in S
  PROVE  s # <<>> => Append(s, x) # <<>> /\ Head(Append(s, x)) = Head(s)
<1>1. s # <<>> => Len(s) > 0
  OBVIOUS
<1>2. Append(s, x) # <<>>
  BY AppendProperties
<1>3. Append(s, x) \in Seq(S)
  OBVIOUS
<1>4. s # <<>> => Head(s) = s[1] /\ 1 \in 1 .. Len(s)
  BY TailAt
<1>5. Head(Append(s, x)) = Append(s, x)[1]
  BY <1>2, <1>3, TailAt
<1>6. \A i \in 1 .. Len(s) : Append(s, x)[i] = s[i]
  BY AppendProperties
<1> QED BY <1>2, <1>4, <1>5, <1>6

LEMMA ParkedStays ==
  ASSUME Types, ReceiverThread \/ \E e \in Entities :
                  \/ Dispatch(e) \/ OwnThread(e)
                  \/ Bind(e) \/ Unbind(e) \/ LoseId(e) \/ AdviseOn(e)
  PROVE  /\ raced \subseteq raced'
         /\ queue # <<>> => queue' # <<>> /\ Head(queue') = Head(queue)
         /\ \A d \in Entities : broker[d].default # <<>> =>
                broker'[d].default # <<>> /\ Head(broker'[d].default) = Head(broker[d].default)
         /\ \A d \in Entities : \/ broker'[d].default = broker[d].default
                                \/ pc = "erase" /\ current.to = d => d \in raced'
<1>0. queue \in Seq(Entry) /\ Len(dest) + 1 \in Nat
  BY DEF Types
<1>1. ASSUME NEW t \in Entry, queue' = Append(queue, t)
      PROVE  queue # <<>> => queue' # <<>> /\ Head(queue') = Head(queue)
  BY <1>0, <1>1
<1>2. ASSUME NEW d, NEW m \in Nat, Park(d, m), d \in Entities
      PROVE  /\ raced \subseteq raced'
             /\ queue # <<>> => queue' # <<>> /\ Head(queue') = Head(queue)
             /\ \A c \in Entities : broker[c].default # <<>> =>
                    broker'[c].default # <<>> /\ Head(broker'[c].default) = Head(broker[c].default)
             /\ \A c \in Entities : \/ broker'[c].default = broker[c].default
                                    \/ pc = "erase" /\ current.to = c => c \in raced'
  <2>1. /\ \E t \in Entry : queue' = Append(queue, t)
        /\ broker'[d].default = Append(broker[d].default, m)
        /\ \A c \in Entities \ {d} : broker'[c] = broker[c]
    BY <1>2, ParkQueue
  <2>2. broker[d].default \in Seq(Nat)
    BY <1>2, ParkedSeq
  <2>3. broker[d].default # <<>> =>
          broker'[d].default # <<>> /\ Head(broker'[d].default) = Head(broker[d].default)
    <3>1. broker[d].default # <<>> =>
            /\ Append(broker[d].default, m) # <<>>
            /\ Head(Append(broker[d].default, m)) = Head(broker[d].default)
      BY <1>2, <2>2, AppendKeepsHead
    <3> QED BY <2>1, <3>1
  <2>4. raced \subseteq raced' /\ (pc = "erase" /\ current.to = d => d \in raced')
    BY <1>2 DEF Park
  <2>5. queue # <<>> => queue' # <<>> /\ Head(queue') = Head(queue)
    BY <1>1, <2>1
  <2> QED BY <2>1, <2>3, <2>4, <2>5
<1>3. ASSUME NEW e \in Entities, Dispatch(e)
      PROVE  /\ raced \subseteq raced'
             /\ queue # <<>> => queue' # <<>> /\ Head(queue') = Head(queue)
             /\ \A d \in Entities : broker[d].default # <<>> =>
                    broker'[d].default # <<>> /\ Head(broker'[d].default) = Head(broker[d].default)
             /\ \A d \in Entities : \/ broker'[d].default = broker[d].default
                                    \/ pc = "erase" /\ current.to = d => d \in raced'
  <2>1. CASE Find(e)
    BY <2>1 DEF Find
  <2> QED BY <1>0, <1>2, <1>3, <2>1 DEF Dispatch
<1>4. CASE Call \/ \E e \in Entities : OwnThread(e)
  BY <1>4 DEF OwnThread, OwnCheck, OwnExecute, Call
<1>5. CASE \E e \in Entities : Bind(e) \/ Unbind(e) \/ LoseId(e) \/ AdviseOn(e)
  BY <1>5 DEF Bind, Unbind, LoseId, AdviseOn
<1>6. CASE Route
  <2>1. UNCHANGED raced
    BY <1>6 DEF Route
  <2>2. PICK m \in Nat : Break(hand, m) \/ WaitBehindParked(hand, m) \/ Pass(hand, m)
    BY <1>0, <1>6 DEF Route
  <2>3. CASE Break(hand, m)
    BY <2>1, <2>3 DEF Break
  <2>4. CASE WaitBehindParked(hand, m)
    <3>1. \A d \in Entities : broker'[d].default = broker[d].default
      BY <2>4 DEF WaitBehindParked, Types, Mq
    <3> QED BY <2>1, <2>4, <3>1 DEF WaitBehindParked
  <2>5. CASE Pass(hand, m)
    <3>1. UNCHANGED broker
      BY <2>5 DEF Pass, PassesBy
    <3>2. CASE UNCHANGED queue
      BY <2>1, <3>1, <3>2
    <3>3. CASE queue' = Append(queue, [op |-> "deliver", to |-> hand, arg |-> m]) /\ queue # <<>>
      <4>1. Head(queue') = Head(queue) /\ queue' # <<>>
        BY <1>0, <3>3
      <4> QED BY <2>1, <3>1, <4>1
    <3> QED BY <2>1, <2>5, <3>1, <3>2, <3>3 DEF Pass, PassesBy, Invoke, Disappeared
  <2> QED BY <2>2, <2>3, <2>4, <2>5
<1> QED BY <1>3, <1>4, <1>5, <1>6 DEF ReceiverThread

LEMMA StepPhases ==
  ASSUME Types, Phases, [Next]_vars
  PROVE  Phases'
<1>1. CASE ReceiverThread \/ \E e \in Entities :
             Dispatch(e) \/ OwnThread(e) \/ Bind(e) \/ Unbind(e) \/ LoseId(e) \/ AdviseOn(e)
  <2>1. UNCHANGED <<pc, current>>
    BY <1>1, ThreadStays
  <2>2. /\ raced \subseteq raced'
        /\ queue # <<>> => queue' # <<>> /\ Head(queue') = Head(queue)
        /\ \A d \in Entities : broker[d].default # <<>> =>
               broker'[d].default # <<>> /\ Head(broker'[d].default) = Head(broker[d].default)
        /\ \A d \in Entities : \/ broker'[d].default = broker[d].default
                               \/ pc = "erase" /\ current.to = d => d \in raced'
    BY <1>1, ParkedStays
  <2>3. pc = "erase" => broker'[current.to].default = <<>> \/ current.to \in raced'
    BY <2>2 DEF Phases
  <2>4. pc \in {"look", "parkedCall"} => broker'[current.to].default # <<>>
    BY <2>2 DEF Phases
  <2> QED BY <2>1, <2>2, <2>3, <2>4 DEF Phases
<1>2. CASE RunDeliver
  <2>1. CASE UNCHANGED thread
    BY <1>2, <2>1 DEF RunDeliver, thread, Phases
  <2>2. CASE /\ pc' = "deliver" /\ UNCHANGED queue
             /\ current' = [to |-> Head(queue).to, bound |-> TRUE, rest |-> <<>>]
    BY <1>2, <2>2, HeadOfQueue DEF RunDeliver, Phases
  <2> QED BY <1>2, <2>1, <2>2 DEF RunDeliver
<1>3. CASE RunParked
  <2>1. UNCHANGED <<queue, broker>> /\ queue # <<>> /\ Head(queue).op = "parked" /\ pc = "idle"
    BY <1>3 DEF RunParked
  <2>2. CASE UNCHANGED thread
    BY <2>1, <2>2 DEF thread, Phases
  <2>3. CASE /\ ~(broker[Head(queue).to].default = <<>>) /\ pc' = "look"
             /\ current' = [to |-> Head(queue).to, bound |-> Head(queue).to \in subscribed, rest |-> <<>>]
    <3>1. current'.to = Head(queue).to /\ current'.rest = <<>> /\ current'.to \in Entities
      BY <2>1, <2>3, HeadOfQueue
    <3> QED BY <2>1, <2>3, <3>1 DEF Phases
  <2> QED BY <1>3, <2>2, <2>3 DEF RunParked
<1>4. CASE Deliver \/ FlushEnd
  BY <1>4 DEF Deliver, FlushEnd, Done, Nothing, Phases
<1>5. CASE HandleParked
  <2>1. pc = "look" /\ current.to \in Entities /\ current.rest = <<>>
    BY <1>5 DEF HandleParked, Phases
  <2>2. CASE Done
    BY <2>2 DEF Done, Nothing, Phases
  <2>3. CASE pc' \in {"test", "handler"} /\ UNCHANGED current
    BY <2>1, <2>3 DEF Phases
  <2>4. CASE pc' = "parkedCall" /\ current.bound /\ UNCHANGED <<current, broker, queue>>
    BY <2>1, <2>4 DEF Phases
  <2> QED BY <1>5, <2>2, <2>3, <2>4 DEF HandleParked
<1>6. CASE CallParked
  <2>1. pc = "parkedCall" /\ current.to \in Entities /\ current.rest = <<>>
    BY <1>6 DEF CallParked, Phases
  <2>2. CASE Done
    BY <2>2 DEF Done, Nothing, Phases
  <2>3. CASE pc' = "handler" /\ UNCHANGED current
    BY <2>1, <2>3 DEF Phases
  <2> QED BY <1>6, <2>2, <2>3 DEF CallParked
<1>7. CASE TestEmpty
  <2>1. UNCHANGED <<broker, raced>> /\ pc \in {"handler", "test"}
    BY <1>7 DEF TestEmpty
  <2>2. CASE Done
    BY <2>2 DEF Done, Phases, Nothing
  <2>3. CASE NothingParked(current.to) /\ pc' = "erase" /\ UNCHANGED current
    BY <2>1, <2>3 DEF Phases, NothingParked
  <2> QED BY <1>7, <2>2, <2>3 DEF TestEmpty
<1>8. CASE Erase
  <2>1. pc = "erase" /\ pc' = "flush" /\ current'.to = current.to
    BY <1>8 DEF Erase, Types, Current
  <2> QED BY <2>1 DEF Phases
<1>9. CASE Flush
  <2>1. pc = "flush" /\ current.rest # <<>> /\ pc' \in {"flush", "flushCall"}
        /\ current'.to = current.to /\ (pc' = "flushCall" => UNCHANGED current)
    BY <1>9 DEF Flush, Types, Current
  <2> QED BY <2>1 DEF Phases
<1>10. CASE FlushCall
  <2>1. pc = "flushCall" /\ pc' = "flush" /\ current'.to = current.to
    BY <1>10 DEF FlushCall, Types, Current
  <2> QED BY <2>1 DEF Phases
<1>11. CASE FlushToNull
  BY <1>11 DEF FlushToNull, thread, Phases
<1>12. CASE UNCHANGED vars
  BY <1>12 DEF vars, thread, Phases
<1> QED
  BY <1>1, <1>2, <1>3, <1>4, <1>5, <1>6, <1>7, <1>8, <1>9, <1>10, <1>11, <1>12
  DEF Next, DefaultThread, Rest


\* What was checked for stays in the queue of the signal's own scheduler ...
LEMMA OwnGrows ==
  ASSUME Types, NEW e \in Entities, NEW m \in Nat, NEW q,
         TakenTo(e, m, q)
  PROVE  \A d \in Entities : ownQueue[d] # <<>> =>
             ownQueue'[d] # <<>> /\ Head(ownQueue'[d]) = Head(ownQueue[d])
<1>1. CASE UNCHANGED ownQueue
  BY <1>1
<1>2. CASE ownQueue' = [ownQueue EXCEPT ![e] = Append(@, m)]
  <2>1. ownQueue \in [Entities -> Seq(Nat)] /\ ownQueue[e] \in Seq(Nat)
    BY DEF Types
  <2>2. ownQueue[e] # <<>> => /\ Append(ownQueue[e], m) # <<>>
                              /\ Head(Append(ownQueue[e], m)) = Head(ownQueue[e])
    BY <2>1, AppendKeepsHead
  <2> QED BY <1>2, <2>1, <2>2
<1> QED BY <1>1, <1>2 DEF TakenTo

LEMMA PassedOwnGrows ==
  ASSUME Types, NEW e \in Entities, NEW m \in Nat, NEW q,
         PassedTo(e, m, q)
  PROVE  \A d \in Entities : ownQueue[d] # <<>> =>
             ownQueue'[d] # <<>> /\ Head(ownQueue'[d]) = Head(ownQueue[d])
<1>1. CASE UNCHANGED ownQueue
  BY <1>1
<1>2. CASE TakenTo(e, m, q)
  BY <1>2, OwnGrows
<1> QED BY <1>1, <1>2 DEF PassedTo

LEMMA DefaultKeepsOwn ==
  ASSUME Types, Phases, Signals, DefaultThread
  PROVE  \A d \in Entities : ownQueue[d] # <<>> =>
           ownQueue'[d] # <<>> /\ Head(ownQueue'[d]) = Head(ownQueue[d])
<1>1. CASE UNCHANGED ownQueue
  BY <1>1
<1>2. ASSUME NEW e \in Entities, NEW m \in Nat, NEW q,
             DeliversTo(e, m, q) \/ UnparksTo(e, m, q) \/ FlushesTo(e, m, q)
      PROVE  \A d \in Entities : ownQueue[d] # <<>> =>
               ownQueue'[d] # <<>> /\ Head(ownQueue'[d]) = Head(ownQueue[d])
  BY <1>1, <1>2, OwnGrows, PassedOwnGrows DEF DeliversTo, UnparksTo, FlushesTo
<1>3. CASE RunDeliver
  BY <1>1, <1>2, <1>3, RunDeliverMoves DEF Idles
<1>4. CASE Deliver
  BY <1>2, <1>4, DeliverMoves
<1>5. CASE HandleParked
  BY <1>1, <1>2, <1>5, HandleParkedMoves DEF Idles
<1>6. CASE CallParked
  BY <1>2, <1>6, CallParkedMoves
<1>7. CASE Flush
  BY <1>1, <1>2, <1>7, FlushMoves DEF Idles
<1>8. CASE FlushCall
  BY <1>2, <1>8, FlushCallMoves
<1>9. CASE RunParked \/ TestEmpty \/ FlushToNull \/ FlushEnd \/ Erase
  BY <1>1, <1>9 DEF RunParked, TestEmpty, FlushToNull, FlushEnd, Erase
<1> QED BY <1>3, <1>4, <1>5, <1>6, <1>7, <1>8, <1>9 DEF DefaultThread

LEMMA ReceiverKeepsOwn ==
  ASSUME Types, Signals, ReceiverThread \/ \E e \in Entities : Dispatch(e)
  PROVE  \A d \in Entities : ownQueue[d] # <<>> =>
           ownQueue'[d] # <<>> /\ Head(ownQueue'[d]) = Head(ownQueue[d])
<1>1. CASE UNCHANGED ownQueue
  BY <1>1
<1>2. ASSUME NEW e \in Entities, Receives(e, Len(dest) + 1)
      PROVE  \A d \in Entities : ownQueue[d] # <<>> =>
               ownQueue'[d] # <<>> /\ Head(ownQueue'[d]) = Head(ownQueue[d])
  <2>1. Len(dest) + 1 \in Nat
    BY DEF Types
  <2> QED BY <1>1, <1>2, <2>1, PassedOwnGrows DEF Receives, Parks, Keeps, Passes
<1> QED
  BY <1>1, <1>2, DispatchReceives, RouteReceives, CallReceives DEF Idles, ReceiverThread

LEMMA OwnUntouched ==
  ASSUME (\E e \in Entities : Bind(e) \/ Unbind(e) \/ LoseId(e) \/ AdviseOn(e)) \/ UNCHANGED vars
  PROVE  UNCHANGED ownQueue
BY BindIdles DEF Idles, vars

LEMMA StepOwn ==
  ASSUME Types, Phases, Signals, [Next]_vars
  PROVE  \A e \in Entities : ownChecked'[e] => ownQueue'[e] # <<>>
<1>0. \A e \in Entities : ownChecked[e] => ownQueue[e] # <<>>
  BY DEF Signals
<1>1. CASE \E e \in Entities : OwnThread(e)
  <2>1. PICK e \in Entities : OwnThread(e)
    BY <1>1
  <2>2. ownQueue \in [Entities -> Seq(Nat)] /\ ownChecked \in [Entities -> BOOLEAN]
    BY DEF Types
  <2>3. CASE OwnCheck(e)
    BY <1>0, <2>2, <2>3 DEF OwnCheck
  <2>4. CASE OwnExecute(e)
    BY <1>0, <2>2, <2>4 DEF OwnExecute
  <2> QED BY <2>1, <2>3, <2>4 DEF OwnThread
<1>2. CASE ~\E e \in Entities : OwnThread(e)
  <2>1. UNCHANGED ownChecked
    BY <1>2, CheckedStays
  <2>2. \A e \in Entities : ownQueue[e] # <<>> => ownQueue'[e] # <<>>
    BY <1>2, DefaultKeepsOwn, ReceiverKeepsOwn, OwnUntouched DEF Next, Rest
  <2> QED BY <1>0, <2>1, <2>2
<1> QED BY <1>1, <1>2

\* ... and a kind is called at once or not, all along.
LEMMA AtOnceKinds ==
  ASSUME Signals, NEW e \in Entities, AtOnce(e)
  PROVE  kind[e] \in {"ext", "intern"}
BY DEF AtOnce, Scheduler, Signals

LEMMA StepSignals ==
  ASSUME Types, Phases, Signals, [Next]_vars
  PROVE  Signals'
<1>0. kind' = kind
  BY StepEffects, BindIdles DEF Unscheduled
<1>1. \A e \in ownScheduler' : kind[e] = "signal"
  <2>1. CASE UNCHANGED ownScheduler
    BY <2>1 DEF Signals
  <2>2. ASSUME NEW e \in Entities, Bind(e) \/ Unbind(e) \/ LoseId(e) \/ AdviseOn(e)
        PROVE  \A d \in ownScheduler' : kind[d] = "signal"
    BY <2>2 DEF Bind, Unbind, LoseId, AdviseOn, life, Signals
  <2> QED BY <2>1, <2>2, StepEffects DEF Unscheduled
<1>2. \A e \in Entities : ownChecked'[e] => ownQueue'[e] # <<>>
  BY StepOwn
<1>3. pc' \in {"parkedCall", "flushCall"} => kind[current'.to] \in {"ext", "intern"}
  <2>1. CASE UNCHANGED <<pc, current>>
    BY <2>1 DEF Signals
  <2>2. CASE pc' \notin {"parkedCall", "flushCall"}
    BY <2>2
  <2>3. CASE /\ AtOnce(current.to) /\ pc # "idle" /\ UNCHANGED current
    BY <2>3, AtOnceKinds DEF Phases
  <2>4. CASE DefaultThread
    <3>1. CASE RunDeliver \/ Deliver \/ RunParked \/ CallParked
      BY <2>1, <2>2, <3>1 DEF RunDeliver, Deliver, RunParked, CallParked, Done, thread
    <3>2. CASE TestEmpty \/ Erase \/ FlushCall \/ FlushToNull \/ FlushEnd
      BY <2>1, <2>2, <3>2 DEF TestEmpty, Erase, FlushCall, FlushToNull, FlushEnd, Done, thread
    <3>3. CASE HandleParked
      BY <2>2, <2>3, <3>3 DEF HandleParked, Done
    <3>4. CASE Flush
      <4>1. pc = "flush"
        BY <3>4 DEF Flush
      <4> QED BY <2>2, <2>3, <3>4, <4>1 DEF Flush
    <3> QED BY <2>4, <3>1, <3>2, <3>3, <3>4 DEF DefaultThread
  <2>5. CASE UNCHANGED vars
    BY <2>1, <2>5 DEF vars, thread
  <2>6. CASE ReceiverThread \/ \E e \in Entities :
               Dispatch(e) \/ Bind(e) \/ Unbind(e) \/ LoseId(e) \/ AdviseOn(e) \/ OwnThread(e)
    BY <2>1, <2>6, ThreadStays
  <2> QED BY <2>4, <2>5, <2>6 DEF Next, Rest
<1>4. /\ receiver' \in {"found", "call"} => hand' \in Entities
      /\ receiver' = "call" => kind[hand'] \in {"ext", "intern"}
  <2>1. CASE UNCHANGED <<receiver, hand>>
    BY <2>1 DEF Signals
  <2>2. ASSUME NEW e \in Entities, Dispatch(e)
        PROVE  \/ UNCHANGED <<receiver, hand>>
               \/ receiver' = "found" /\ hand' = e
    BY <2>2 DEF Dispatch, Park, Find, receiving
  <2>3. CASE Route
    <3>1. hand \in Entities
      BY <2>3 DEF Route, Signals
    <3>2. CASE receiver' = "call"
      <4>1. AtOnce(hand) /\ hand' = hand
        BY <2>3, <3>2 DEF Route, Break, WaitBehindParked, Pass, PassesBy
      <4> QED BY <3>1, <4>1, AtOnceKinds
    <3>3. CASE receiver' # "call"
      <4>1. receiver' \in {"reading", "broken"}
        BY <2>3, <3>3 DEF Route, Break, WaitBehindParked, Pass, PassesBy
      <4> QED BY <4>1
    <3> QED BY <3>2, <3>3
  <2>4. CASE Call
    BY <2>4 DEF Call
  <2>5. ASSUME NEW e \in Entities, Bind(e) \/ Unbind(e) \/ LoseId(e) \/ AdviseOn(e)
        PROVE  UNCHANGED <<receiver, hand>>
    BY <2>5, BindIdles
  <2>6. ASSUME NEW e \in Entities, OwnThread(e)
        PROVE  UNCHANGED <<receiver, hand>>
    BY <2>6 DEF OwnThread, OwnCheck, OwnExecute, receiving
  <2>7. DefaultThread => UNCHANGED <<receiver, hand>>
    BY ThreadUnscheduled
  <2>8. UNCHANGED vars => UNCHANGED <<receiver, hand>>
    BY DEF vars, receiving
  <2> QED BY <2>1, <2>2, <2>3, <2>4, <2>5, <2>6, <2>7, <2>8 DEF Next, Rest, ReceiverThread
<1> QED BY <1>0, <1>1, <1>2, <1>3, <1>4 DEF Signals


-----------------------------------------------------------------------------
BrokerInv ==
  /\ Types /\ Phases /\ Signals
  /\ \A e \in Entities : Once(e) /\ Complete(e)

LEMMA EmptyAtFirst ==
  ASSUME Init
  PROVE  /\ Types /\ Phases /\ Signals
         /\ \A e \in Entities : MessagesOf(e) = {}
         /\ \A e \in Entities : \A p \in Places : In(e, p) = <<>>
<1>1. dest = <<>> /\ queue = <<>> /\ current = Nothing
  BY DEF Init
<1>2. <<>> \in Seq(Entities) /\ <<>> \in Seq(Entry) /\ <<>> \in Seq(Nat)
  OBVIOUS
<1>3. Types
  <2>1. current \in Current
    BY <1>1, <1>2 DEF Nothing, Current
  <2>2. broker \in [Entities -> Mq]
    BY <1>2 DEF Init, NoMq, Mq
  <2> QED BY <1>1, <1>2, <2>1, <2>2 DEF Init, Types
<1>4. Phases /\ Signals
  BY DEF Init, Phases, Signals, Nothing
<1>5. \A e \in Entities : MessagesOf(e) = {}
  BY <1>1 DEF MessagesOf
<1>6. ASSUME NEW e \in Entities
      PROVE  Way(queue, e) = <<>>
  <2>1. WayTo(queue, e) = {}
    BY <1>1 DEF WayTo
  <2> QED BY <2>1 DEF Way
<1>7. \A e \in Entities : \A p \in Places : In(e, p) = <<>>
  BY <1>6, Rows DEF Init, Places, NoMq, Nothing
<1> QED BY <1>3, <1>4, <1>5, <1>7

\* However dispatch, the ends of lifetimes, the scheduler's actions and the
\* threads of the signals interleave, the messages keep to their places
\* (MessageBroker::dispatch).
THEOREM BrokerInvariance == Spec => []BrokerInv
<1>1. Init => BrokerInv
  <2> SUFFICES ASSUME Init PROVE BrokerInv
    OBVIOUS
  <2>2. ASSUME NEW e \in Entities
        PROVE  Once(e) /\ Complete(e)
    <3>1. MessagesOf(e) = {} /\ \A p \in Places : In(e, p) = <<>>
      BY EmptyAtFirst, Zenon
    <3>2. \A p \in Places : Distinct(In(e, p)) /\ At(e, p) = {}
      BY <3>1 DEF Distinct, At, Elements
    <3> QED BY <3>1, <3>2, Zenon DEF Once, Complete
  <2> QED BY <2>2, EmptyAtFirst DEF BrokerInv
<1>2. BrokerInv /\ [Next]_vars => BrokerInv'
  <2> SUFFICES ASSUME BrokerInv, [Next]_vars PROVE BrokerInv'
    OBVIOUS
  <2>1. Types' /\ Phases' /\ Signals'
    BY StepTypes, StepPhases, StepSignals DEF BrokerInv
  <2>2. \A e \in Entities : Once(e)' /\ Complete(e)'
    BY StepKeepsOnce DEF BrokerInv
  <2> QED BY <2>1, <2>2 DEF BrokerInv
<1> QED BY <1>1, <1>2, PTL DEF Spec

\* What the steps write besides the containers.
Others ==
  /\ kind \in [Entities -> Kinds]
  /\ subscribed \subseteq bound /\ bound \subseteq Entities /\ nulls \subseteq Entities
  /\ receiver \in {"reading", "found", "call", "broken"}
  /\ pc \in {"idle", "deliver", "look", "parkedCall", "handler", "test", "erase", "flush",
             "flushCall"}
  /\ hand \in Entities \cup {Nobody}
  /\ fault \in {"none", "danglingIterator", "nullSubscription"}
  /\ binds \in 0 .. MaxBinds
  /\ raced \subseteq Entities /\ overtaken \subseteq Entities

LEMMA StepKeepsOthers ==
  ASSUME Types, Phases, Signals, Others, [Next]_vars
  PROVE  Others'
<1>1. CASE UNCHANGED vars
  BY <1>1 DEF Others, vars, life, entries, receiving, thread
<1>2. CASE Rest
  BY <1>1, <1>2 DEF Rest
<1>3. ASSUME NEW e \in Entities, Dispatch(e)
      PROVE  Others'
  <2>1. UNCHANGED <<kind, binds, subscribed, bound, pc, fault, overtaken>>
    BY <1>3 DEF Dispatch, life, thread
  <2>2. /\ nulls' \in {nulls, nulls \cup {e}} /\ raced' \in {raced, raced \cup {e}}
        /\ hand' \in {hand, e} /\ receiver' \in {receiver, "found"}
    BY <1>3 DEF Dispatch, Park, Find, receiving
  <2> QED BY <2>1, <2>2 DEF Others
<1>4. ASSUME NEW e \in Entities, Bind(e) \/ Unbind(e) \/ LoseId(e) \/ AdviseOn(e)
      PROVE  Others'
  <2>1. CASE Bind(e)
    BY <2>1, BoundAssumption DEF Bind, Others, thread, receiving
  <2>2. CASE Unbind(e)
    BY <2>2 DEF Unbind, Others, life, thread, receiving
  <2>3. CASE LoseId(e)
    BY <2>3 DEF LoseId, Others, life, thread, receiving
  <2>4. CASE AdviseOn(e)
    BY <2>4 DEF AdviseOn, Others, thread, receiving, entries
  <2> QED BY <1>4, <2>1, <2>2, <2>3, <2>4
<1>5. ASSUME NEW e \in Entities, OwnThread(e)
      PROVE  Others'
  BY <1>5 DEF OwnThread, OwnCheck, OwnExecute, Others, life, thread, entries, receiving
<1>6. CASE ReceiverThread
  <2>1. UNCHANGED <<kind, binds, subscribed, bound, nulls, pc, fault, raced>>
    BY <1>6 DEF ReceiverThread, Route, Call, life, thread, entries
  <2>2. hand \in Entities
    BY <1>6 DEF ReceiverThread, Route, Call, Signals
  <2>3. /\ hand' \in {hand, Nobody}
        /\ receiver' \in {"reading", "call", "broken"}
        /\ overtaken' \in {overtaken, overtaken \cup {hand}}
    BY <1>6 DEF ReceiverThread, Route, Call, Break, WaitBehindParked, Pass, PassesBy
  <2> QED BY <2>1, <2>2, <2>3 DEF Others
<1>7. CASE DefaultThread
  <2>1. UNCHANGED <<kind, subscribed, binds, bound, raced, overtaken, receiver, hand>>
    BY <1>7, ThreadUnscheduled DEF Unscheduled
  <2>2. /\ pc' \in {pc, "idle", "deliver", "look", "parkedCall", "handler", "test", "erase",
                    "flush", "flushCall"}
        /\ fault' \in {fault, "danglingIterator", "nullSubscription"}
    <3>1. CASE RunDeliver \/ Deliver \/ RunParked
      BY <3>1 DEF RunDeliver, Deliver, RunParked, Done, thread
    <3>2. CASE HandleParked \/ CallParked
      BY <3>2 DEF HandleParked, CallParked, Done
    <3>3. CASE TestEmpty \/ Erase \/ Flush
      BY <3>3 DEF TestEmpty, Erase, Flush, Done
    <3>4. CASE FlushCall \/ FlushToNull \/ FlushEnd
      BY <3>4 DEF FlushCall, FlushToNull, FlushEnd, Done, thread
    <3> QED BY <1>7, <3>1, <3>2, <3>3, <3>4 DEF DefaultThread
  <2>3. nulls' \subseteq Entities
    <3>1. CASE UNCHANGED nulls
      BY <3>1 DEF Others
    <3>2. CASE RunParked
      <4>1. PICK e \in Entities : Head(queue).to = e
        BY <3>2, HeadOfQueue DEF RunParked
      <4>2. nulls' \in {nulls, nulls \cup {e}}
        BY <3>2, <4>1 DEF RunParked
      <4> QED BY <4>2 DEF Others
    <3>3. CASE RunDeliver \/ Deliver \/ HandleParked \/ CallParked \/ TestEmpty
      BY <3>1, <3>3 DEF RunDeliver, Deliver, HandleParked, CallParked, TestEmpty, entries
    <3>4. CASE Erase \/ Flush \/ FlushCall \/ FlushToNull \/ FlushEnd
      BY <3>1, <3>4 DEF Erase, Flush, FlushCall, FlushToNull, FlushEnd, entries
    <3> QED BY <1>7, <3>2, <3>3, <3>4 DEF DefaultThread
  <2> QED BY <2>1, <2>2, <2>3 DEF Others
<1> QED BY <1>1, <1>2, <1>3, <1>4, <1>5, <1>6, <1>7 DEF Next

\* Every queue of the broker and the schedulers holds what it should, and an
\* action that has begun knows its entity (dispatch l.46-126).
THEOREM BrokerTypeCorrect == Spec => []TypeOK
<1>1. Init => Others
  BY BoundAssumption DEF Init, Others
<1>2. BrokerInv /\ Others /\ [Next]_vars => Others'
  BY StepKeepsOthers DEF BrokerInv
<1>3. BrokerInv /\ Others => TypeOK
  BY DEF BrokerInv, Types, Current, Phases, Signals, Others, TypeOK, LockFree
<1> QED BY <1>1, <1>2, <1>3, BrokerInvariance, PTL DEF Spec
\* A message that was received is in one of the queues of three threads, or
\* was handled, or dropped, and that once, unless its id is one of those that
\* raced (dispatch, invoke l.16-128).
THEOREM EachHeldOnceHolds == Spec => []EachHeldOnce
<1>1. BrokerInv => EachHeldOnce
  <2> SUFFICES ASSUME BrokerInv, NEW e \in Entities \ raced
               PROVE  /\ UNION {Elements(In(e, p)) : p \in Places} = MessagesOf(e)
                      /\ \A p, q \in Places : \A i \in DOMAIN In(e, p), j \in DOMAIN In(e, q) :
                           In(e, p)[i] = In(e, q)[j] => p = q /\ i = j
    BY Zenon DEF EachHeldOnce
  <2>1. Once(e) /\ Complete(e)
    BY DEF BrokerInv
  <2>2. UNION {Elements(In(e, p)) : p \in Places} = MessagesOf(e)
    <3>1. \A x \in UNION {Elements(In(e, p)) : p \in Places} : x \in MessagesOf(e)
      BY <2>1 DEF Once, At
    <3>2. \A x \in MessagesOf(e) : x \in UNION {Elements(In(e, p)) : p \in Places}
      BY <2>1 DEF Complete, At
    <3> QED BY <3>1, <3>2
  <2>3. ASSUME NEW p \in Places, NEW q \in Places,
               NEW i \in DOMAIN In(e, p), NEW j \in DOMAIN In(e, q),
               In(e, p)[i] = In(e, q)[j]
        PROVE  p = q /\ i = j
    <3>1. In(e, p)[i] \in At(e, p) /\ In(e, q)[j] \in At(e, q)
      BY DEF At, Elements
    <3>2. p = q
      BY <2>1, <2>3, <3>1 DEF Once
    <3> QED BY <2>1, <2>3, <3>2 DEF Once, Distinct
  <2> QED BY <2>2, <2>3
<1> QED BY <1>1, BrokerInvariance, PTL

-----------------------------------------------------------------------------
(* Which messages an entity is called with after it was unbound.           *)

Caught ==
  /\ unbound \subseteq caught
  /\ \A e \in Entities \ bound : \A m : Decided(e, m) => m \in caught

LEMMA ExecutesDecided ==
  ASSUME Caught, NEW e \in Entities, NEW m, Execute(e, m), Decided(e, m)
  PROVE  unbound' \subseteq caught
<1>1. CASE e \in bound
  BY <1>1 DEF Caught, Execute
<1>2. CASE e \notin bound
  <2>1. m \in caught
    BY <1>2 DEF Caught
  <2> QED BY <1>2, <2>1 DEF Caught, Execute
<1> QED BY <1>1, <1>2

LEMMA KeepsCaught ==
  ASSUME Caught, UNCHANGED caught, unbound' \subseteq caught, bound \subseteq bound',
         \A e \in Entities \ bound' : \A m : Decided(e, m)' => Decided(e, m)
  PROVE  Caught'
BY DEF Caught

\* Every message that was decided for is one that was received, or is being received.
LEMMA DecidedReceived ==
  ASSUME BrokerInv, NEW e \in Entities, NEW m, Decided(e, m)
  PROVE  m \in 1 .. Len(dest) + 1
<1>0. Types /\ Phases /\ Signals /\ Once(e)
  BY DEF BrokerInv
<1>1. Len(dest) \in Nat
  BY <1>0 DEF Types
<1>2. \A p \in Places : \A x \in At(e, p) : x \in 1 .. Len(dest) + 1
  BY <1>0, <1>1 DEF Once, MessagesOf
<1>3. ASSUME NEW s \in Seq(Nat), s # <<>>
      PROVE  Head(s) \in Elements(s)
  BY <1>3, TailShrinks DEF Shrunk
<1>4. CASE receiver = "call" /\ hand = e /\ m = Len(dest) + 1
  BY <1>1, <1>4
<1>5. CASE ownChecked[e] /\ m = Head(ownQueue[e])
  <2>1. ownQueue[e] \in Seq(Nat) /\ ownQueue[e] # <<>>
    BY <1>0, <1>5 DEF Types, Signals
  <2>2. m \in At(e, "own")
    BY <1>3, <1>5, <2>1, Rows DEF At
  <2> QED BY <1>2, <2>2 DEF Places
<1>6. CASE current.to = e /\ pc = "deliver" /\ m = Head(queue).arg
  <2>1. queue \in Seq(Entry) /\ queue # <<>> /\ Head(queue).op = "deliver" /\ Head(queue).to = e
    BY <1>0, <1>6 DEF Types, Phases
  <2>2. m \in Elements(Way(queue, e))
    BY <1>6, <2>1, TailOfWay DEF Shrunk
  <2>3. m \in At(e, "onTheWay")
    BY <2>2, Rows DEF At
  <2> QED BY <1>2, <2>3 DEF Places
<1>7. CASE current.to = e /\ pc \in {"look", "parkedCall"} /\ m = Head(broker[e].default)
  <2>1. broker[e].default \in Seq(Nat) /\ broker[e].default # <<>>
    BY <1>0, <1>7, ParkedSeq DEF Phases
  <2>2. m \in At(e, "parked")
    BY <1>3, <1>7, <2>1, Rows DEF At
  <2> QED BY <1>2, <2>2 DEF Places
<1>8. CASE current.to = e /\ pc = "flushCall" /\ m = Head(current.rest)
  <2>1. current.rest \in Seq(Nat) /\ current.rest # <<>>
    BY <1>0, <1>8 DEF Types, Current, Phases
  <2>2. m \in At(e, "flushed")
    BY <1>3, <1>8, <2>1, Rows DEF At
  <2> QED BY <1>2, <2>2 DEF Places
<1> QED BY <1>4, <1>5, <1>6, <1>7, <1>8 DEF Decided

\* The receiver's thread decides only for an entity that is bound.
LEMMA ReceiverDecides ==
  ASSUME BrokerInv, Others, NEW d \in Entities, Dispatch(d) \/ ReceiverThread,
         NEW e \in Entities \ bound, NEW m, Decided(e, m)'
  PROVE  Decided(e, m)
<1>0. Types /\ Phases /\ Signals
  BY DEF BrokerInv
<1>1. UNCHANGED <<bound, pc, current, ownChecked, kind, ownScheduler>>
  <2>1. CASE Dispatch(d)
    BY <2>1 DEF Dispatch, thread, life
  <2>2. CASE ReceiverThread
    BY <2>2 DEF ReceiverThread, Route, Call, thread, life, entries
  <2> QED BY <2>1, <2>2
<1>2. /\ queue # <<>> => Head(queue') = Head(queue)
      /\ broker[e].default # <<>> => Head(broker'[e].default) = Head(broker[e].default)
  BY <1>0, ParkedStays
<1>3. ownQueue[e] # <<>> => Head(ownQueue'[e]) = Head(ownQueue[e])
  BY <1>0, ReceiverKeepsOwn
<1>4. ~(receiver' = "call" /\ hand' = e)
  <2>1. CASE Dispatch(d)
    BY <2>1 DEF Dispatch, Park, Find, receiving
  <2>2. CASE Call
    BY <2>2 DEF Call
  <2>3. CASE Route
    <3>1. ASSUME receiver' = "call"
          PROVE  ExistsId(hand) /\ hand' = hand
      BY <2>3, <3>1 DEF Route, Break, WaitBehindParked, Pass, PassesBy
    <3>2. ExistsId(hand) => hand \in bound
      BY DEF ExistsId, Others
    <3> QED BY <3>1, <3>2
  <2> QED BY <2>1, <2>2, <2>3 DEF ReceiverThread
<1>5. ownChecked[e] => ownQueue[e] # <<>>
  BY <1>0 DEF Signals
<1>6. current.to = e /\ pc = "deliver" => queue # <<>>
  BY <1>0 DEF Phases
<1>7. current.to = e /\ pc \in {"look", "parkedCall"} => broker[e].default # <<>>
  BY <1>0 DEF Phases
<1>8. Scheduler(e)' = Scheduler(e)
  BY <1>1 DEF Scheduler
<1> QED BY <1>1, <1>2, <1>3, <1>4, <1>5, <1>6, <1>7, <1>8 DEF Decided


\* So do the threads that look for its id, or at its subscription.
LEMMA DefaultDecides ==
  ASSUME BrokerInv, Others, DefaultThread, NEW e \in Entities \ bound, NEW m, Decided(e, m)'
  PROVE  Decided(e, m)
<1>0. Types /\ Phases /\ Signals
  BY DEF BrokerInv
<1>1. UNCHANGED <<bound, receiver, hand, dest, ownChecked, kind, ownScheduler>>
  BY ThreadUnscheduled DEF Unscheduled
<1>2. ownQueue[e] # <<>> => Head(ownQueue'[e]) = Head(ownQueue[e])
  BY <1>0, DefaultKeepsOwn
<1>3. ownChecked[e] => ownQueue[e] # <<>>
  BY <1>0 DEF Signals
<1>4. CASE (receiver = "call" /\ hand = e /\ m = Len(dest) + 1) \/ (ownChecked[e] /\ m = Head(ownQueue'[e]))
  BY <1>2, <1>3, <1>4 DEF Decided
<1>5. ASSUME current'.to = e,
             pc' \in {"deliver", "parkedCall", "flushCall"} \/ (pc' = "look" /\ current'.bound)
      PROVE  FALSE
  <2>0. e \notin bound /\ ~ExistsId(e) /\ e \notin subscribed
    BY DEF ExistsId, Others
  <2>1. CASE RunDeliver
    <3>1. pc = "idle"
      BY <2>1 DEF RunDeliver
    <3> QED BY <1>5, <2>0, <2>1, <3>1 DEF RunDeliver, thread
  <2>2. CASE RunParked
    <3>1. pc = "idle"
      BY <2>2 DEF RunParked
    <3>2. \/ UNCHANGED <<pc, current>>
          \/ current' = [to |-> Head(queue).to, bound |-> Head(queue).to \in subscribed,
                         rest |-> <<>>]
      BY <2>2, Zenon DEF RunParked, thread
    <3>3. CASE current' = [to |-> Head(queue).to, bound |-> Head(queue).to \in subscribed,
                           rest |-> <<>>]
      <4>1. Head(queue).to = e /\ current'.bound = (Head(queue).to \in subscribed)
        BY <1>5, <3>3
      <4>2. ~current'.bound
        BY <2>0, <4>1, Zenon
      <4>3. pc' = "look"
        BY <1>5, <2>2, <3>1 DEF RunParked, thread
      <4> QED BY <1>5, <4>2, <4>3
    <3> QED BY <1>5, <3>1, <3>2, <3>3
  <2>3. CASE HandleParked
    BY <1>5, <2>0, <2>3 DEF HandleParked, Done
  <2>4. CASE Flush
    <3>1. pc = "flush" /\ current'.to = current.to
      BY <2>4, <1>0 DEF Flush, Types, Current
    <3> QED BY <1>5, <2>0, <2>4, <3>1 DEF Flush
  <2>5. CASE Deliver \/ CallParked
    BY <1>5, <2>5 DEF Deliver, CallParked, Done
  <2>6. CASE TestEmpty \/ Erase \/ FlushCall \/ FlushEnd
    BY <1>5, <2>6 DEF TestEmpty, Erase, FlushCall, FlushEnd, Done
  <2>7. CASE FlushToNull
    BY <1>5, <2>7 DEF FlushToNull, thread
  <2> QED BY <2>1, <2>2, <2>3, <2>4, <2>5, <2>6, <2>7 DEF DefaultThread
<1>6. \/ receiver' = "call" /\ hand' = e /\ m = Len(dest') + 1
      \/ ownChecked'[e] /\ m = Head(ownQueue'[e])
      \/ /\ current'.to = e
         /\ pc' \in {"deliver", "parkedCall", "flushCall"} \/ (pc' = "look" /\ current'.bound)
  BY DEF Decided
<1> QED BY <1>1, <1>4, <1>5, <1>6

LEMMA OwnDecides ==
  ASSUME BrokerInv, Others, NEW d \in Entities, OwnThread(d),
         NEW e \in Entities \ bound, NEW m, Decided(e, m)'
  PROVE  Decided(e, m)
<1>0. Types
  BY DEF BrokerInv
<1>1. UNCHANGED <<bound, receiving, dest, broker, queue, thread, life>>
  BY DEF OwnThread, OwnCheck, OwnExecute, entries
<1>2. UNCHANGED <<receiver, hand, pc, current>> /\ Scheduler(e)' = Scheduler(e)
  BY <1>1 DEF receiving, thread, life, Scheduler
<1>3. ownChecked'[e] => ownChecked[e] /\ ownQueue'[e] = ownQueue[e]
  <2>0. ~ExistsId(e) /\ ownQueue \in [Entities -> Seq(Nat)] /\ ownChecked \in [Entities -> BOOLEAN]
    BY <1>0 DEF ExistsId, Others, Types
  <2>1. CASE OwnCheck(d)
    BY <2>0, <2>1 DEF OwnCheck
  <2>2. CASE OwnExecute(d)
    BY <2>0, <2>2 DEF OwnExecute
  <2> QED BY <2>1, <2>2 DEF OwnThread
<1> QED BY <1>1, <1>2, <1>3 DEF Decided

\* Who is called, was decided to be.
LEMMA CallsDecided ==
  ASSUME BrokerInv, Caught, ReceiverThread \/ DefaultThread \/ \E d \in Entities : OwnThread(d)
  PROVE  unbound' \subseteq caught
<1>0. Phases /\ Signals /\ unbound \subseteq caught
  BY DEF BrokerInv, Caught
<1>1. CASE UNCHANGED unbound
  BY <1>0, <1>1
<1>2. CASE Route
  BY <1>1, <1>2 DEF Route, Break, WaitBehindParked, Pass, PassesBy, Disappeared, Drop, history
<1>3. CASE Call
  <2>1. hand \in Entities /\ Decided(hand, Len(dest) + 1)
    BY <1>0, <1>3 DEF Call, Signals, Decided
  <2> QED BY <1>3, <2>1, ExecutesDecided DEF Call
<1>4. ASSUME NEW d \in Entities, OwnThread(d)
      PROVE  unbound' \subseteq caught
  <2>1. CASE OwnCheck(d)
    BY <1>1, <2>1 DEF OwnCheck, Drop, history
  <2>2. CASE OwnExecute(d)
    <3>1. Decided(d, Head(ownQueue[d]))
      BY <2>2 DEF OwnExecute, Decided
    <3> QED BY <2>2, <3>1, ExecutesDecided DEF OwnExecute
  <2> QED BY <1>4, <2>1, <2>2 DEF OwnThread
<1>5. CASE RunDeliver
  BY <1>1, <1>5 DEF RunDeliver, Drop, history
<1>6. CASE Deliver
  <2>1. current.to \in Entities /\ Decided(current.to, Head(queue).arg)
    BY <1>0, <1>6 DEF Deliver, Phases, Decided
  <2> QED BY <1>6, <2>1, ExecutesDecided DEF Deliver
<1>7. CASE HandleParked
  <2>0. current.to \in Entities /\ pc = "look"
    BY <1>0, <1>7 DEF HandleParked, Phases
  <2>1. \/ UNCHANGED unbound
        \/ /\ current.bound /\ Scheduler(current.to) = "default"
           /\ Execute(current.to, Head(broker[current.to].default))
    BY <1>7 DEF HandleParked, Disappeared, Drop, history
  <2>2. CASE /\ current.bound /\ Scheduler(current.to) = "default"
             /\ Execute(current.to, Head(broker[current.to].default))
    <3>1. Decided(current.to, Head(broker[current.to].default))
      BY <2>0, <2>2 DEF Decided
    <3> QED BY <2>0, <2>2, <3>1, ExecutesDecided
  <2> QED BY <1>1, <2>1, <2>2
<1>8. CASE CallParked
  <2>1. current.to \in Entities /\ Decided(current.to, Head(broker[current.to].default))
    BY <1>0, <1>8 DEF CallParked, Phases, Decided
  <2> QED BY <1>8, <2>1, ExecutesDecided DEF CallParked
<1>9. CASE FlushCall
  <2>1. current.to \in Entities /\ Decided(current.to, Head(current.rest))
    BY <1>0, <1>9 DEF FlushCall, Phases, Decided
  <2> QED BY <1>9, <2>1, ExecutesDecided DEF FlushCall
<1>10. CASE Flush
  BY <1>1, <1>10 DEF Flush, Disappeared, Drop, history
<1>11. CASE RunParked \/ TestEmpty \/ Erase \/ FlushToNull \/ FlushEnd
  BY <1>1, <1>11 DEF RunParked, TestEmpty, Erase, FlushToNull, FlushEnd, history
<1> QED
  BY <1>2, <1>3, <1>4, <1>5, <1>6, <1>7, <1>8, <1>9, <1>10, <1>11
  DEF ReceiverThread, DefaultThread

LEMMA BindCatches ==
  ASSUME BrokerInv, Others, Caught, NEW d \in Entities,
         Bind(d) \/ Unbind(d) \/ LoseId(d) \/ AdviseOn(d)
  PROVE  Caught'
<1>0. /\ UNCHANGED <<receiver, hand, pc, current, dest, broker, queue, ownQueue, ownChecked>>
      /\ UNCHANGED <<kind, unbound>>
  <2>1. CASE Bind(d)
    BY <2>1 DEF Bind, receiving, thread, history
  <2>2. CASE Unbind(d)
    BY <2>2 DEF Unbind, receiving, thread, history, life
  <2>3. CASE LoseId(d)
    BY <2>3 DEF LoseId, receiving, thread, history, life
  <2>4. CASE AdviseOn(d)
    BY <2>4 DEF AdviseOn, receiving, thread, history
  <2> QED BY <2>1, <2>2, <2>3, <2>4
<1>1. ASSUME NEW e, NEW m, Decided(e, m)', Scheduler(e)' = Scheduler(e)
      PROVE  Decided(e, m)
  BY <1>0, <1>1 DEF Decided
<1>2. unbound \subseteq caught
  BY DEF Caught
<1>3. CASE Bind(d)
  <2>1. ASSUME NEW e \in Entities \ bound' PROVE Scheduler(e)' = Scheduler(e)
    BY <1>0, <1>3 DEF Bind, Scheduler
  <2> QED BY <1>0, <1>1, <1>2, <1>3, <2>1, KeepsCaught DEF Bind
<1>4. CASE Unbind(d)
  <2>1. UNCHANGED <<ownScheduler, bound, caught>>
    BY <1>4 DEF Unbind, life
  <2>2. ASSUME NEW e PROVE Scheduler(e)' = Scheduler(e)
    BY <1>0, <2>1 DEF Scheduler
  <2> QED BY <1>0, <1>1, <1>2, <2>1, <2>2, KeepsCaught
<1>5. CASE AdviseOn(d)
  <2>1. UNCHANGED <<bound, caught>> /\ d \in bound
    BY <1>5 DEF AdviseOn, entries, Others
  <2>2. ASSUME NEW e \in Entities \ bound' PROVE Scheduler(e)' = Scheduler(e)
    BY <1>0, <1>5, <2>1 DEF AdviseOn, Scheduler
  <2> QED BY <1>0, <1>1, <1>2, <2>1, <2>2, KeepsCaught
<1>6. CASE LoseId(d)
  <2>1. /\ bound' = bound \ {d} /\ UNCHANGED ownScheduler
        /\ caught' = caught \cup {m \in 1 .. Len(dest) + 1 : Decided(d, m)}
    BY <1>6 DEF LoseId, life
  <2>2. ASSUME NEW e PROVE Scheduler(e)' = Scheduler(e)
    BY <1>0, <2>1 DEF Scheduler
  <2>3. ASSUME NEW e \in Entities \ bound', NEW m, Decided(e, m)'
        PROVE  m \in caught'
    <3>1. Decided(e, m)
      BY <1>1, <2>2, <2>3
    <3>2. m \in 1 .. Len(dest) + 1
      BY <3>1, DecidedReceived
    <3>3. CASE e = d
      BY <2>1, <3>1, <3>2, <3>3
    <3>4. CASE e # d
      BY <2>1, <3>1, <3>4 DEF Caught
    <3> QED BY <3>3, <3>4
  <2> QED BY <1>0, <1>2, <2>1, <2>3 DEF Caught
<1> QED BY <1>3, <1>4, <1>5, <1>6

LEMMA StepKeepsCaught ==
  ASSUME BrokerInv, Others, Caught, [Next]_vars
  PROVE  Caught'
<1>0. unbound \subseteq caught
  BY DEF Caught
<1>1. CASE \E d \in Entities : Bind(d) \/ Unbind(d) \/ LoseId(d) \/ AdviseOn(d)
  BY <1>1, BindCatches
<1>2. ASSUME NEW d \in Entities, Dispatch(d)
      PROVE  Caught'
  <2>1. UNCHANGED <<bound, caught, unbound>>
    BY <1>2 DEF Dispatch, history
  <2>2. \A e \in Entities \ bound' : \A m : Decided(e, m)' => Decided(e, m)
    BY <1>2, <2>1, ReceiverDecides
  <2> QED BY <1>0, <2>1, <2>2, KeepsCaught
<1>3. CASE ReceiverThread
  <2>1. UNCHANGED <<bound, caught>> /\ unbound' \subseteq caught
    <3>1. UNCHANGED entries
      BY <1>3 DEF ReceiverThread, Route, Call
    <3> QED BY <1>3, <3>1, CallsDecided DEF entries
  <2>2. \A e \in Entities \ bound' : \A m : Decided(e, m)' => Decided(e, m)
    BY <1>3, <2>1, ReceiverDecides
  <2> QED BY <2>1, <2>2, KeepsCaught
<1>4. ASSUME NEW d \in Entities, OwnThread(d)
      PROVE  Caught'
  <2>1. UNCHANGED <<bound, caught>> /\ unbound' \subseteq caught
    <3>1. UNCHANGED entries
      BY <1>4 DEF OwnThread, OwnCheck, OwnExecute
    <3> QED BY <1>4, <3>1, CallsDecided DEF entries
  <2>2. \A e \in Entities \ bound' : \A m : Decided(e, m)' => Decided(e, m)
    BY <1>4, <2>1, OwnDecides
  <2> QED BY <2>1, <2>2, KeepsCaught
<1>5. CASE DefaultThread
  <2>1. UNCHANGED <<bound, caught>> /\ unbound' \subseteq caught
    BY <1>5, CallsDecided, ThreadUnscheduled
  <2>2. \A e \in Entities \ bound' : \A m : Decided(e, m)' => Decided(e, m)
    BY <1>5, <2>1, DefaultDecides
  <2> QED BY <2>1, <2>2, KeepsCaught
<1>6. CASE UNCHANGED vars
  <2>1. UNCHANGED <<bound, caught, unbound>>
    BY <1>6 DEF vars, entries, history
  <2>2. \A e \in Entities \ bound' : \A m : Decided(e, m)' => Decided(e, m)
    BY <1>6 DEF vars, life, receiving, thread, Decided, Scheduler
  <2> QED BY <1>0, <2>1, <2>2, KeepsCaught
<1> QED BY <1>1, <1>2, <1>3, <1>4, <1>5, <1>6 DEF Next, Rest

\* Whichever thread ends a lifetime, and between whatever two steps of dispatch
\* and the schedulers, an entity that is no longer bound gets no message but those
\* its call was decided for before (MessageBroker l.28, l.67, l.143).
THEOREM RemovedIsNotCalledHolds == Spec => []RemovedIsNotCalled
<1>1. Init => Others /\ Caught
  BY BoundAssumption DEF Init, Others, Caught, Decided, Nothing
<1>2. BrokerInv /\ Others /\ [Next]_vars => Others'
  BY StepKeepsOthers DEF BrokerInv
<1>3. BrokerInv /\ Others /\ Caught /\ [Next]_vars => Caught'
  BY StepKeepsCaught
<1>4. Caught => RemovedIsNotCalled
  BY DEF Caught, RemovedIsNotCalled
<1> QED BY <1>1, <1>2, <1>3, <1>4, BrokerInvariance, PTL DEF Spec

-----------------------------------------------------------------------------
(* Order.  Where the message of an entity is, those in the places before it *)
(* are older.                                                              *)

Below(e, p, q) == \A x \in At(e, p), y \in At(e, q) : x < y

Precedes(p, q) ==
  \/ p = "handled" /\ q \in {"onTheWay", "own", "flushed", "parked", "kept"}
  \/ p = "own" /\ q \in {"flushed", "parked", "kept"}
  \/ p = "flushed" /\ q \in {"parked", "kept"}

Ordered(e) ==
  /\ \A p \in Places \ {"dropped"} : Rising(In(e, p))
  /\ \A p, q \in Places : Precedes(p, q) => Below(e, p, q)
  /\ e \in subscribed => Below(e, "parked", "kept")

\* Only the places that the entity's scheduler uses have messages.
Sorted(e) ==
  /\ Scheduler(e) = "own" => At(e, "onTheWay") = {}
  /\ Scheduler(e) = "synchronous" => At(e, "onTheWay") = {} /\ At(e, "own") = {}
  /\ Scheduler(e) = "default" =>
       At(e, "own") = {} /\ At(e, "kept") = {} /\ At(e, "flushed") = {}

\* f gives every parked message its action in the queue, in the same order;
\* what else is on the way to the entity is older exactly if it is ahead.
TokensOf(q, e) == {i \in 1 .. Len(q) : q[i].op = "parked" /\ q[i].to = e}

Aligned(q, e, s, f) ==
  /\ f \in [1 .. Len(s) -> TokensOf(q, e)]
  /\ \A j, k \in 1 .. Len(s) : j < k => f[j] < f[k]
  /\ \A i \in TokensOf(q, e) : \E k \in 1 .. Len(s) : f[k] = i
  /\ \A k \in 1 .. Len(s), i \in WayTo(q, e) :
       /\ i < f[k] => q[i].arg < s[k]
       /\ f[k] < i => s[k] < q[i].arg

InLine(q, e, s) == \E f : Aligned(q, e, s, f)

Tidy(e) == Ordered(e) /\ Sorted(e) /\ InLine(queue, e, broker[e].default)

\* A message that is decided for has none behind it that is older.
HeadIsOldest(e) ==
  pc \in {"look", "parkedCall"} /\ current.to = e /\ current.bound =>
    \A y \in At(e, "kept") : Head(broker[e].default) < y

CallIsAlone(e) ==
  receiver = "call" /\ hand = e =>
    At(e, "parked") = {} /\ At(e, "kept") = {} /\ At(e, "flushed") = {}

OrderInv ==
  \A e \in Entities \ (raced \cup overtaken) :
    kind[e] # "intern" => Tidy(e) /\ HeadIsOldest(e) /\ CallIsAlone(e)

(* The actions of parked messages keep in line.                            *)

LEMMA Shifted ==
  ASSUME NEW a \in Int, NEW b \in Int, NEW c, NEW d, c = a - 1, d = b - 1, a < b
  PROVE  c < d
OBVIOUS

LEMMA ShiftedOne ==
  ASSUME NEW a \in Int, NEW b \in Int, NEW d, d = b - 1
  PROVE  (a < d <=> a + 1 < b) /\ (d < a <=> b < a + 1)
OBVIOUS

LEMMA PositionsAfterAppend ==
  ASSUME NEW q \in Seq(Entry), NEW t \in Entry
  PROVE  LET r == Append(q, t)
         IN  \E n \in Nat : /\ Len(q) = n /\ Len(r) = n + 1
                            /\ \A i \in 1 .. n : r[i] = q[i]
                            /\ r[n + 1] = t
                            /\ \A i \in 1 .. n + 1 : i \in 1 .. n \/ i = n + 1
                            /\ \A i \in 1 .. n : i \in 1 .. n + 1 /\ i < n + 1 /\ ~(n + 1 < i)
                            /\ n + 1 \in 1 .. n + 1
<1>1. /\ Len(q) \in Nat /\ Len(Append(q, t)) = Len(q) + 1
      /\ \A i \in 1 .. Len(q) : Append(q, t)[i] = q[i]
      /\ Append(q, t)[Len(q) + 1] = t
  BY AppendAt
<1> QED BY <1>1

LEMMA AppendOther ==
  ASSUME NEW q \in Seq(Entry), NEW t \in Entry, NEW e, t.to # e,
         NEW s, InLine(q, e, s)
  PROVE  InLine(Append(q, t), e, s)
<1> DEFINE r == Append(q, t)
<1>1. PICK n \in Nat : /\ Len(q) = n /\ Len(r) = n + 1
                       /\ \A i \in 1 .. n : r[i] = q[i]
                       /\ r[n + 1] = t
                       /\ \A i \in 1 .. n + 1 : i \in 1 .. n \/ i = n + 1
                       /\ \A i \in 1 .. n : i \in 1 .. n + 1
  BY PositionsAfterAppend, Zenon
<1>2. PICK f : Aligned(q, e, s, f)
  BY DEF InLine
<1> HIDE DEF r
<1>3. TokensOf(r, e) = TokensOf(q, e) /\ WayTo(r, e) = WayTo(q, e)
  BY <1>1 DEF TokensOf, WayTo
<1>4. \A i \in WayTo(q, e) : r[i] = q[i]
  BY <1>1 DEF WayTo
<1>5. Aligned(r, e, s, f)
  BY <1>2, <1>3, <1>4 DEF Aligned
<1> QED BY <1>5 DEF InLine, r

LEMMA AppendDeliver ==
  ASSUME NEW q \in Seq(Entry), NEW t \in Entry, NEW e, t.to = e, t.op = "deliver",
         NEW s \in Seq(Nat), \A k \in 1 .. Len(s) : s[k] < t.arg, InLine(q, e, s)
  PROVE  InLine(Append(q, t), e, s)
<1> DEFINE r == Append(q, t)
<1>1. PICK n \in Nat : /\ Len(q) = n /\ Len(r) = n + 1
                       /\ \A i \in 1 .. n : r[i] = q[i]
                       /\ r[n + 1] = t
                       /\ \A i \in 1 .. n + 1 : i \in 1 .. n \/ i = n + 1
                       /\ \A i \in 1 .. n : i \in 1 .. n + 1 /\ ~(n + 1 < i)
  BY PositionsAfterAppend, Zenon
<1>2. PICK f : Aligned(q, e, s, f)
  BY DEF InLine
<1> HIDE DEF r
<1>3. /\ TokensOf(r, e) = TokensOf(q, e) /\ TokensOf(q, e) \subseteq 1 .. n
      /\ \A i \in WayTo(r, e) : i = n + 1 \/ (i \in WayTo(q, e) /\ r[i] = q[i])
  BY <1>1 DEF TokensOf, WayTo
<1>4. ASSUME NEW k \in 1 .. Len(s), NEW i \in WayTo(r, e)
      PROVE  (i < f[k] => r[i].arg < s[k]) /\ (f[k] < i => s[k] < r[i].arg)
  <2>1. f[k] \in 1 .. n
    BY <1>2, <1>3 DEF Aligned
  <2>2. CASE i = n + 1
    BY <1>1, <2>1, <2>2
  <2>3. CASE i \in WayTo(q, e) /\ r[i] = q[i]
    BY <1>2, <2>3 DEF Aligned
  <2> QED BY <1>3, <2>2, <2>3
<1>5. Aligned(r, e, s, f)
  BY <1>2, <1>3, <1>4 DEF Aligned
<1> QED BY <1>5 DEF InLine, r

LEMMA AppendToken ==
  ASSUME NEW q \in Seq(Entry), NEW t \in Entry, NEW e, t.to = e, t.op = "parked",
         NEW s \in Seq(Nat), NEW m \in Nat, \A i \in WayTo(q, e) : q[i].arg < m, InLine(q, e, s)
  PROVE  InLine(Append(q, t), e, Append(s, m))
<1> DEFINE r == Append(q, t)
           z == Append(s, m)
<1>1. PICK n \in Nat : /\ Len(q) = n /\ Len(r) = n + 1
                       /\ \A i \in 1 .. n : r[i] = q[i]
                       /\ r[n + 1] = t
                       /\ \A i \in 1 .. n + 1 : i \in 1 .. n \/ i = n + 1
                       /\ \A i \in 1 .. n : i \in 1 .. n + 1 /\ i < n + 1 /\ ~(n + 1 < i)
                       /\ n + 1 \in 1 .. n + 1
  BY PositionsAfterAppend, Zenon
<1>2. PICK l \in Nat : /\ Len(s) = l /\ Len(z) = l + 1
                       /\ \A k \in 1 .. l : z[k] = s[k]
                       /\ z[l + 1] = m
  <2>1. /\ Len(s) \in Nat /\ Len(z) = Len(s) + 1
        /\ \A k \in 1 .. Len(s) : z[k] = s[k]
        /\ z[Len(s) + 1] = m
    BY AppendAt
  <2> QED BY <2>1, Zenon
<1>3. PICK f : Aligned(q, e, s, f)
  BY DEF InLine
<1> DEFINE g == [k \in 1 .. l + 1 |-> IF k = l + 1 THEN n + 1 ELSE f[k]]
<1> HIDE DEF r, z
<1>4. /\ TokensOf(r, e) = TokensOf(q, e) \cup {n + 1} /\ TokensOf(q, e) \subseteq 1 .. n
      /\ WayTo(r, e) = WayTo(q, e) /\ WayTo(q, e) \subseteq 1 .. n
      /\ \A i \in WayTo(q, e) : r[i] = q[i]
  BY <1>1 DEF TokensOf, WayTo
<1>5. \A k \in 1 .. l + 1 : k \in 1 .. l \/ k = l + 1
  BY <1>2
<1>6. \A k \in 1 .. l : k \in 1 .. l + 1 /\ k # l + 1 /\ k < l + 1 /\ ~(l + 1 < k)
  BY <1>2
<1>7. /\ \A k \in 1 .. l : g[k] = f[k] /\ f[k] \in TokensOf(q, e) /\ f[k] \in 1 .. n
      /\ g[l + 1] = n + 1 /\ l + 1 \in 1 .. l + 1
  BY <1>2, <1>3, <1>4, <1>6 DEF Aligned
<1>8. g \in [1 .. l + 1 -> TokensOf(r, e)]
  BY <1>4, <1>5, <1>7
<1> HIDE DEF g
<1>9. \A j, k \in 1 .. l + 1 : j < k => g[j] < g[k]
  <2> SUFFICES ASSUME NEW j \in 1 .. l + 1, NEW k \in 1 .. l + 1, j < k
               PROVE  g[j] < g[k]
    OBVIOUS
  <2>1. j \in 1 .. l
    BY <1>5, <1>6
  <2>2. CASE k = l + 1
    BY <1>1, <1>7, <2>1, <2>2
  <2>3. CASE k \in 1 .. l
    BY <1>2, <1>3, <1>7, <2>1, <2>3 DEF Aligned
  <2> QED BY <1>5, <2>2, <2>3
<1>10. ASSUME NEW i \in TokensOf(r, e)
       PROVE  \E k \in 1 .. l + 1 : g[k] = i
  <2>1. CASE i = n + 1
    BY <1>7, <2>1
  <2>2. CASE i \in TokensOf(q, e)
    <3>1. PICK k \in 1 .. l : f[k] = i
      BY <1>2, <1>3, <2>2 DEF Aligned
    <3> QED BY <1>6, <1>7, <3>1
  <2> QED BY <1>4, <2>1, <2>2
<1>11. ASSUME NEW k \in 1 .. l + 1, NEW i \in WayTo(r, e)
       PROVE  (i < g[k] => r[i].arg < z[k]) /\ (g[k] < i => z[k] < r[i].arg)
  <2>1. i \in WayTo(q, e) /\ r[i] = q[i] /\ i \in 1 .. n
    BY <1>4
  <2>2. CASE k = l + 1
    BY <1>1, <1>2, <1>7, <2>1, <2>2
  <2>3. CASE k \in 1 .. l
    BY <1>2, <1>3, <1>7, <2>1, <2>3 DEF Aligned
  <2> QED BY <1>5, <2>2, <2>3
<1>12. Aligned(r, e, z, g)
  BY <1>2, <1>8, <1>9, <1>10, <1>11 DEF Aligned
<1> QED BY <1>12 DEF InLine, r, z

LEMMA PositionsAfterTail ==
  ASSUME NEW q \in Seq(Entry), q # <<>>
  PROVE  \E n \in Nat : /\ n > 0
                        /\ Len(q) = n /\ Len(Tail(q)) = n - 1
                        /\ \A i \in 1 .. n - 1 : Tail(q)[i] = q[i + 1]
                        /\ q[1] = Head(q)
<1>1. /\ Len(q) \in Nat /\ Len(q) > 0
      /\ Len(Tail(q)) = Len(q) - 1
      /\ \A i \in 1 .. Len(q) - 1 : Tail(q)[i] = q[i + 1]
      /\ q[1] = Head(q)
  BY TailAt
<1> QED BY <1>1, Zenon

LEMMA TailOther ==
  ASSUME NEW q \in Seq(Entry), q # <<>>, NEW e, Head(q).op = "deliver" \/ Head(q).to # e,
         NEW s \in Seq(Nat), InLine(q, e, s)
  PROVE  InLine(Tail(q), e, s)
<1> DEFINE r == Tail(q)
<1>1. PICK n \in Nat : /\ n > 0
                       /\ Len(q) = n /\ Len(r) = n - 1
                       /\ \A i \in 1 .. n - 1 : r[i] = q[i + 1]
                       /\ q[1] = Head(q)
  BY PositionsAfterTail, Zenon
<1>2. PICK f : Aligned(q, e, s, f)
  BY DEF InLine
<1> DEFINE g == [k \in 1 .. Len(s) |-> f[k] - 1]
<1> HIDE DEF r
<1>3. \A i \in TokensOf(q, e) : i \in Int /\ i - 1 \in TokensOf(r, e)
  BY <1>1 DEF TokensOf
<1>4. \A i \in TokensOf(r, e) : i \in Int /\ i + 1 \in TokensOf(q, e)
  BY <1>1 DEF TokensOf
<1>5. \A i \in WayTo(r, e) : i \in Int /\ i + 1 \in WayTo(q, e) /\ r[i] = q[i + 1]
  BY <1>1 DEF WayTo
<1>6. \A k \in 1 .. Len(s) : f[k] \in TokensOf(q, e) /\ f[k] \in Int /\ g[k] = f[k] - 1
  BY <1>2, <1>3 DEF Aligned
<1>7. g \in [1 .. Len(s) -> TokensOf(r, e)]
  BY <1>3, <1>6
<1> HIDE DEF g
<1>8. \A j, k \in 1 .. Len(s) : j < k => g[j] < g[k]
  <2> TAKE j, k \in 1 .. Len(s)
  <2>1. j < k => f[j] < f[k]
    BY <1>2 DEF Aligned
  <2>2. f[j] \in Int /\ f[k] \in Int /\ g[j] = f[j] - 1 /\ g[k] = f[k] - 1
    BY <1>6, Zenon
  <2>3. f[j] < f[k] => g[j] < g[k]
    BY <2>2, Shifted, Zenon
  <2> QED BY <2>1, <2>3, Zenon
<1>9. \A i \in TokensOf(r, e) : \E k \in 1 .. Len(s) : g[k] = i
  <2> TAKE i \in TokensOf(r, e)
  <2>1. PICK k \in 1 .. Len(s) : f[k] = i + 1
    BY <1>2, <1>4 DEF Aligned
  <2>2. i \in Int /\ g[k] = f[k] - 1
    BY <1>4, <1>6, Zenon
  <2>3. g[k] = i
    BY <2>1, <2>2
  <2> QED BY <2>3
<1>10. \A k \in 1 .. Len(s), i \in WayTo(r, e) :
         /\ i < g[k] => r[i].arg < s[k]
         /\ g[k] < i => s[k] < r[i].arg
  <2> TAKE k \in 1 .. Len(s), i \in WayTo(r, e)
  <2>1. /\ i + 1 < f[k] => q[i + 1].arg < s[k]
        /\ f[k] < i + 1 => s[k] < q[i + 1].arg
    BY <1>2, <1>5 DEF Aligned
  <2>2. i \in Int /\ f[k] \in Int /\ g[k] = f[k] - 1
    BY <1>5, <1>6, Zenon
  <2>3. (i < g[k] <=> i + 1 < f[k]) /\ (g[k] < i <=> f[k] < i + 1)
    BY <2>2, ShiftedOne, Zenon
  <2>4. r[i] = q[i + 1]
    BY <1>5
  <2> QED BY <2>1, <2>3, <2>4, Zenon
<1>11. Aligned(r, e, s, g)
  BY <1>7, <1>8, <1>9, <1>10 DEF Aligned
<1> QED BY <1>11 DEF InLine, r

\* The first action for a parked message is for the first parked message.
LEMMA FirstToken ==
  ASSUME NEW q \in Seq(Entry), q # <<>>, NEW e, Head(q).op = "parked", Head(q).to = e,
         NEW s \in Seq(Nat), NEW f, Aligned(q, e, s, f)
  PROVE  1 \in 1 .. Len(s) /\ f[1] = 1
<1>1. PICK n \in Nat : /\ n > 0 /\ Len(q) = n /\ q[1] = Head(q)
  BY PositionsAfterTail, Zenon
<1>2. 1 \in TokensOf(q, e) /\ \A i \in TokensOf(q, e) : i \in Nat /\ i >= 1
  BY <1>1 DEF TokensOf
<1>3. PICK k \in 1 .. Len(s) : f[k] = 1
  BY <1>2 DEF Aligned
<1>4. Len(s) \in Nat /\ 1 \in 1 .. Len(s) /\ k >= 1 /\ k \in Nat
  BY <1>3
<1>5. 1 < k => f[1] < 1
  BY <1>3, <1>4 DEF Aligned
<1>6. f[1] \in Nat /\ f[1] >= 1
  BY <1>2, <1>4 DEF Aligned
<1> QED BY <1>3, <1>4, <1>5, <1>6

LEMMA TailToken ==
  ASSUME NEW q \in Seq(Entry), q # <<>>, NEW e, Head(q).op = "parked", Head(q).to = e,
         NEW s \in Seq(Nat), s # <<>>, InLine(q, e, s)
  PROVE  InLine(Tail(q), e, Tail(s))
<1> DEFINE r == Tail(q)
           z == Tail(s)
<1>1. PICK n \in Nat : /\ n > 0
                       /\ Len(q) = n /\ Len(r) = n - 1
                       /\ \A i \in 1 .. n - 1 : r[i] = q[i + 1]
                       /\ q[1] = Head(q)
  BY PositionsAfterTail, Zenon
<1>2. PICK l \in Nat : /\ l > 0
                       /\ Len(s) = l /\ Len(z) = l - 1
                       /\ \A k \in 1 .. l - 1 : z[k] = s[k + 1]
  <2>1. /\ Len(s) \in Nat /\ Len(s) > 0
        /\ Len(z) = Len(s) - 1
        /\ \A k \in 1 .. Len(s) - 1 : z[k] = s[k + 1]
    BY TailAt
  <2> QED BY <2>1, Zenon
<1>3. PICK f : Aligned(q, e, s, f)
  BY DEF InLine
<1> DEFINE g == [k \in 1 .. l - 1 |-> f[k + 1] - 1]
<1>4. f[1] = 1
  BY <1>3, FirstToken
<1> HIDE DEF r, z
<1>5. \A i \in TokensOf(q, e) : i \in Int /\ (i = 1 \/ i - 1 \in TokensOf(r, e))
  BY <1>1 DEF TokensOf
<1>6. \A i \in TokensOf(r, e) : i \in Int /\ i + 1 \in TokensOf(q, e) /\ i + 1 # 1
  BY <1>1 DEF TokensOf
<1>7. \A i \in WayTo(r, e) : i \in Int /\ i + 1 \in WayTo(q, e) /\ r[i] = q[i + 1]
  BY <1>1 DEF WayTo
<1>8. \A k \in 1 .. l - 1 : k + 1 \in 1 .. l /\ 1 \in 1 .. l /\ 1 < k + 1
  BY <1>2
<1>9. ASSUME NEW k \in 1 .. l - 1
      PROVE  /\ f[k + 1] \in TokensOf(q, e) /\ f[k + 1] \in Int /\ f[k + 1] - 1 \in TokensOf(r, e)
             /\ g[k] = f[k + 1] - 1
  <2>1. f[k + 1] \in TokensOf(q, e) /\ f[1] < f[k + 1]
    BY <1>2, <1>3, <1>8 DEF Aligned
  <2> QED BY <1>4, <1>5, <2>1
<1>10. g \in [1 .. l - 1 -> TokensOf(r, e)]
  BY <1>9
<1> HIDE DEF g
<1>11. \A j, k \in 1 .. l - 1 : j < k => g[j] < g[k]
  <2> TAKE j, k \in 1 .. l - 1
  <2>1. j < k => f[j + 1] < f[k + 1]
    <3>1. j < k => j + 1 < k + 1
      OBVIOUS
    <3> QED BY <1>2, <1>3, <1>8, <3>1 DEF Aligned
  <2>2. f[j + 1] \in Int /\ f[k + 1] \in Int /\ g[j] = f[j + 1] - 1 /\ g[k] = f[k + 1] - 1
    BY <1>9, Zenon
  <2>3. f[j + 1] < f[k + 1] => g[j] < g[k]
    BY <2>2, Shifted, Zenon
  <2> QED BY <2>1, <2>3, Zenon
<1>12. \A i \in TokensOf(r, e) : \E k \in 1 .. l - 1 : g[k] = i
  <2> TAKE i \in TokensOf(r, e)
  <2>1. PICK k \in 1 .. l : f[k] = i + 1
    BY <1>2, <1>3, <1>6 DEF Aligned
  <2>2. k # 1
    BY <1>4, <1>6, <2>1
  <2>3. k - 1 \in 1 .. l - 1 /\ (k - 1) + 1 = k
    BY <1>2, <2>2
  <2>4. i \in Int /\ g[k - 1] = f[k] - 1
    BY <1>6, <1>9, <2>3
  <2>5. g[k - 1] = i
    BY <2>1, <2>4
  <2> QED BY <2>3, <2>5
<1>13. \A k \in 1 .. l - 1, i \in WayTo(r, e) :
         /\ i < g[k] => r[i].arg < z[k]
         /\ g[k] < i => z[k] < r[i].arg
  <2> TAKE k \in 1 .. l - 1, i \in WayTo(r, e)
  <2>1. /\ i + 1 < f[k + 1] => q[i + 1].arg < s[k + 1]
        /\ f[k + 1] < i + 1 => s[k + 1] < q[i + 1].arg
    BY <1>2, <1>3, <1>7, <1>8 DEF Aligned
  <2>2. i \in Int /\ f[k + 1] \in Int /\ g[k] = f[k + 1] - 1
    BY <1>7, <1>9, Zenon
  <2>3. (i < g[k] <=> i + 1 < f[k + 1]) /\ (g[k] < i <=> f[k + 1] < i + 1)
    BY <2>2, ShiftedOne, Zenon
  <2>4. r[i] = q[i + 1] /\ z[k] = s[k + 1]
    BY <1>2, <1>7, Zenon
  <2> QED BY <2>1, <2>3, <2>4, Zenon
<1>14. Aligned(r, e, z, g)
  BY <1>2, <1>10, <1>11, <1>12, <1>13 DEF Aligned
<1> QED BY <1>14 DEF InLine, r, z


(* Moves that keep the order.                                              *)

LEMMA OrderedStays ==
  ASSUME NEW d, Ordered(d), Stay(d, Places),
         d \in subscribed' => d \in subscribed \/ At(d, "kept") = {}
  PROVE  Ordered(d)'
<1>1. \A p \in Places : At(d, p)' = At(d, p) /\ (Rising(In(d, p)) => Rising(In(d, p))')
  BY StayAt
<1>2. \A p \in Places \ {"dropped"} : Rising(In(d, p))'
  BY <1>1 DEF Ordered
<1>3. \A p, q \in Places : Precedes(p, q) => Below(d, p, q)'
  BY <1>1 DEF Ordered, Below
<1>4. d \in subscribed' => Below(d, "parked", "kept")'
  <2>1. "parked" \in Places /\ "kept" \in Places
    BY DEF Places
  <2> QED BY <1>1, <2>1 DEF Ordered, Below
<1> QED BY <1>2, <1>3, <1>4 DEF Ordered

\* The newest message comes to the place q, and no message is in a place behind.
LEMMA NewestOrdered ==
  ASSUME NEW d, NEW m \in Nat, NEW q \in Places, Ordered(d),
         Grown(In(d, q), In(d, q)', m), Stay(d, Places \ {q}),
         \A p \in Places : \A x \in At(d, p) : x < m,
         \A p \in Places : Precedes(q, p) => At(d, p) = {},
         q = "parked" => d \notin subscribed,
         UNCHANGED subscribed
  PROVE  Ordered(d)'
<1>1. \A p \in Places \ {q} : At(d, p)' = At(d, p) /\ (Rising(In(d, p)) => Rising(In(d, p))')
  BY StayAt
<1>2. /\ At(d, q)' = At(d, q) \cup {m}
      /\ Rising(In(d, q)) /\ (\A x \in At(d, q) : x < m) => Rising(In(d, q))'
  BY DEF Grown, At, Elements, Rising
<1>3. \A p \in Places \ {"dropped"} : Rising(In(d, p))'
  BY <1>1, <1>2 DEF Ordered
<1>4. ASSUME NEW p \in Places, NEW r \in Places, Precedes(p, r)
      PROVE  Below(d, p, r)'
  <2>1. Below(d, p, r) /\ p # r
    BY <1>4 DEF Ordered, Precedes
  <2>2. CASE p = q
    <3>1. At(d, r)' = {}
      BY <1>1, <1>4, <2>1, <2>2
    <3> QED BY <3>1 DEF Below
  <2>3. CASE r = q
    <3>1. At(d, p)' = At(d, p) /\ \A x \in At(d, p) : x < m
      BY <1>1, <2>1, <2>3
    <3> QED BY <1>2, <2>1, <2>3, <3>1 DEF Below
  <2>4. CASE p # q /\ r # q
    BY <1>1, <2>1, <2>4 DEF Below
  <2> QED BY <2>2, <2>3, <2>4
<1>5. ASSUME d \in subscribed'
      PROVE  Below(d, "parked", "kept")'
  <2>1. d \in subscribed /\ Below(d, "parked", "kept") /\ q # "parked"
    BY <1>5 DEF Ordered
  <2>2. "parked" \in Places /\ "kept" \in Places
    BY DEF Places
  <2>3. At(d, "parked")' = At(d, "parked") /\ \A x \in At(d, "parked") : x < m
    BY <1>1, <2>1, <2>2
  <2>4. At(d, "kept")' \subseteq At(d, "kept") \cup {m}
    BY <1>1, <1>2, <2>2
  <2> QED BY <2>1, <2>3, <2>4 DEF Below
<1> QED BY <1>3, <1>4, <1>5 DEF Ordered

\* The first message of the place p goes on to the place q.
LEMMA FirstOrdered ==
  ASSUME NEW d, NEW m \in Nat, NEW p \in Places, NEW q \in {"own", "handled", "dropped"}, Ordered(d),
         p # "dropped", q # p, q # "dropped" => Precedes(q, p), Distinct(In(d, p)),
         Shrunk(In(d, p), In(d, p)', m), Grown(In(d, q), In(d, q)', m), Stay(d, Places \ {p, q}),
         \A r \in Places \ {p} : Precedes(q, r) => \A x \in At(d, r) : m < x,
         UNCHANGED subscribed
  PROVE  Ordered(d)'
<1>0. /\ q \in Places /\ q # "parked" /\ q # "kept"
      /\ \A r : ~Precedes(r, "dropped") /\ ~Precedes("dropped", r) /\ ~Precedes(r, r)
      /\ \A r : q # "dropped" /\ Precedes(r, q) => Precedes(r, p) /\ r # p
  BY DEF Precedes, Places
<1>1. \A r \in Places \ {p, q} : At(d, r)' = At(d, r) /\ (Rising(In(d, r)) => Rising(In(d, r))')
  BY StayAt
<1>2. /\ At(d, q)' = At(d, q) \cup {m}
      /\ Rising(In(d, q)) /\ (\A x \in At(d, q) : x < m) => Rising(In(d, q))'
  BY DEF Grown, At, Elements, Rising
<1>3. m \in At(d, p) /\ Rising(In(d, p))' /\ \A x \in At(d, p)' : m < x
  BY LeaveAt DEF Ordered
<1>4. At(d, p)' \subseteq At(d, p)
  BY LeaveAt
<1>5. ASSUME NEW r \in Places \ {"dropped"}
      PROVE  Rising(In(d, r))'
  <2>1. CASE r = p
    BY <1>3, <2>1
  <2>2. CASE r = q
    <3>1. \A x \in At(d, q) : x < m
      BY <1>0, <1>3, <2>2 DEF Ordered, Below
    <3> QED BY <1>2, <2>2, <3>1 DEF Ordered
  <2>3. CASE r \notin {p, q}
    BY <1>1, <2>3 DEF Ordered
  <2> QED BY <2>1, <2>2, <2>3
<1>6. ASSUME NEW r \in Places, NEW s \in Places, Precedes(r, s)
      PROVE  Below(d, r, s)'
  <2>1. Below(d, r, s) /\ r # s /\ r # "dropped" /\ s # "dropped"
    BY <1>0, <1>6 DEF Ordered
  <2>2. CASE r = q /\ s = p
    BY <1>2, <1>3, <1>4, <2>1, <2>2 DEF Below
  <2>3. CASE r = q /\ s # p
    <3>1. At(d, s)' = At(d, s) /\ \A x \in At(d, s) : m < x
      BY <1>1, <1>6, <2>1, <2>3
    <3> QED BY <1>2, <2>1, <2>3, <3>1 DEF Below
  <2>4. CASE r # q /\ s = q
    <3>1. Precedes(r, p) /\ r # p
      BY <1>0, <1>6, <2>1, <2>4
    <3>2. At(d, r)' = At(d, r) /\ \A x \in At(d, r) : x < m
      BY <1>1, <1>3, <2>4, <3>1 DEF Ordered, Below
    <3> QED BY <1>2, <2>1, <2>4, <3>2 DEF Below
  <2>5. CASE r # q /\ s # q
    <3>1. At(d, r)' \subseteq At(d, r) /\ At(d, s)' \subseteq At(d, s)
      BY <1>1, <1>4, <2>5
    <3> QED BY <2>1, <3>1 DEF Below
  <2> QED BY <2>2, <2>3, <2>4, <2>5
<1>7. ASSUME d \in subscribed'
      PROVE  Below(d, "parked", "kept")'
  <2>1. "parked" \in Places /\ "kept" \in Places
    BY DEF Places
  <2>2. At(d, "parked")' \subseteq At(d, "parked") /\ At(d, "kept")' \subseteq At(d, "kept")
    BY <1>0, <1>1, <1>4, <2>1
  <2>3. Below(d, "parked", "kept")
    BY <1>7 DEF Ordered
  <2> QED BY <2>2, <2>3 DEF Below
<1> QED BY <1>5, <1>6, <1>7 DEF Ordered

\* What is kept back follows.
LEMMA ErasesOrdered ==
  ASSUME NEW d, Ordered(d), Erases(d)
  PROVE  Ordered(d)'
<1>1. /\ At(d, "parked")' = {} /\ At(d, "kept")' = {} /\ At(d, "flushed")' = At(d, "kept")
      /\ Rising(In(d, "parked"))' /\ Rising(In(d, "kept"))'
      /\ Rising(In(d, "kept")) => Rising(In(d, "flushed"))'
  BY DEF Erases, At, Elements, Rising
<1>2. \A p \in LaterPlaces : At(d, p)' = At(d, p) /\ (Rising(In(d, p)) => Rising(In(d, p))')
  BY StayAt DEF Erases
<1>3. \A p \in Places : p \in LaterPlaces \/ p \in {"parked", "kept", "flushed"}
  BY DEF Places, LaterPlaces
<1>4. \A p \in Places \ {"dropped"} : Rising(In(d, p))'
  <2>1. "kept" \in Places \ {"dropped"}
    BY DEF Places
  <2> QED BY <1>1, <1>2, <1>3, <2>1 DEF Ordered
<1>5. ASSUME NEW p \in Places, NEW r \in Places, Precedes(p, r)
      PROVE  Below(d, p, r)'
  <2>1. Below(d, p, r)
    BY <1>5 DEF Ordered
  <2>2. CASE r \in {"parked", "kept"} \/ p \in {"parked", "kept"}
    BY <1>1, <2>2 DEF Below
  <2>3. CASE p \in LaterPlaces /\ r \in LaterPlaces
    BY <1>2, <2>1, <2>3 DEF Below
  <2>4. CASE p \in LaterPlaces /\ r = "flushed"
    <3>1. Precedes(p, "kept") /\ "kept" \in Places
      BY <1>5, <2>4 DEF Precedes, Places
    <3>2. Below(d, p, "kept")
      BY <3>1 DEF Ordered
    <3> QED BY <1>1, <1>2, <2>4, <3>2 DEF Below
  <2>5. p = "flushed" => r \in {"parked", "kept"}
    BY <1>5 DEF Precedes
  <2> QED BY <1>3, <2>2, <2>3, <2>4, <2>5
<1>6. Below(d, "parked", "kept")'
  BY <1>1 DEF Below
<1> QED BY <1>4, <1>5, <1>6 DEF Ordered

LEMMA Numbered ==
  ASSUME Types, NEW d \in Entities, Once(d)
  PROVE  \A p \in Places : \A x \in At(d, p) : x \in Nat /\ x < Len(dest) + 1
<1>1. \A x \in MessagesOf(d) : x \in Nat /\ x < Len(dest) + 1
  <2>1. PICK n \in Nat : Len(dest) = n
    BY DEF Types
  <2> QED BY <2>1 DEF MessagesOf
<1> QED BY <1>1, Zenon DEF Once

LEMMA WayAt ==
  ASSUME NEW d
  PROVE  /\ \A i \in WayTo(queue, d) : queue[i].arg \in At(d, "onTheWay")
         /\ \A x \in At(d, "onTheWay") : \E i \in WayTo(queue, d) : queue[i].arg = x
<1>1. In(d, "onTheWay") = Way(queue, d)
  BY Rows
<1>2. At(d, "onTheWay") = Elements(Way(queue, d))
  BY <1>1 DEF At
<1> QED BY <1>2 DEF Elements, Way

LEMMA OtherInLine ==
  ASSUME Types, NEW d, NEW s \in Seq(Nat), InLine(queue, d, s),
         \/ UNCHANGED queue
         \/ \E t \in Entry : t.to # d /\ queue' = Append(queue, t)
         \/ /\ queue # <<>> /\ queue' = Tail(queue)
            /\ Head(queue).op = "deliver" \/ Head(queue).to # d
  PROVE  InLine(queue', d, s)
<1>1. queue \in Seq(Entry)
  BY DEF Types
<1>2. CASE UNCHANGED queue
  BY <1>2
<1>3. ASSUME NEW t \in Entry, t.to # d, queue' = Append(queue, t)
      PROVE  InLine(queue', d, s)
  BY <1>1, <1>3, AppendOther
<1>4. CASE /\ queue # <<>> /\ queue' = Tail(queue)
           /\ Head(queue).op = "deliver" \/ Head(queue).to # d
  BY <1>1, <1>4, TailOther
<1> QED BY <1>2, <1>3, <1>4

LEMMA SameScheduler ==
  ASSUME NEW d, UNCHANGED <<kind, ownScheduler>>
  PROVE  Scheduler(d)' = Scheduler(d)
BY DEF Scheduler

LEMMA SchedulerOf ==
  ASSUME NEW d, kind[d] # "intern"
  PROVE  Scheduler(d) \in {"default", "own", "synchronous"}
BY DEF Scheduler

LEMMA SortedStays ==
  ASSUME NEW d, Sorted(d), Scheduler(d)' = Scheduler(d),
         At(d, "onTheWay")' \subseteq At(d, "onTheWay") \/ Scheduler(d) \notin {"own", "synchronous"},
         At(d, "own")' \subseteq At(d, "own") \/ Scheduler(d) \notin {"synchronous", "default"},
         At(d, "kept")' \subseteq At(d, "kept") \/ Scheduler(d) # "default",
         At(d, "flushed")' \subseteq At(d, "flushed") \/ Scheduler(d) # "default"
  PROVE  Sorted(d)'
BY DEF Sorted

\* The step is none of d.
LEMMA AloneTidy ==
  ASSUME NEW d \in Entities, Tidy(d), Stay(d, Places), Scheduler(d)' = Scheduler(d),
         d \in subscribed' => d \in subscribed \/ At(d, "kept") = {},
         InLine(queue', d, broker'[d].default)
  PROVE  Tidy(d)'
<1>1. Ordered(d)'
  BY OrderedStays DEF Tidy
<1>2. \A p \in Places : At(d, p)' = At(d, p)
  BY StayAt
<1>3. {"onTheWay", "own", "kept", "flushed"} \subseteq Places
  BY DEF Places
<1>4. Sorted(d)'
  BY <1>2, <1>3, SortedStays DEF Tidy
<1> QED BY <1>1, <1>4 DEF Tidy

LEMMA OthersTidy ==
  ASSUME Types, NEW d \in Entities, Tidy(d), Stay(d, Places),
         UNCHANGED <<kind, ownScheduler, subscribed>>, broker'[d] = broker[d],
         \/ UNCHANGED queue
         \/ \E t \in Entry : t.to # d /\ queue' = Append(queue, t)
         \/ /\ queue # <<>> /\ queue' = Tail(queue)
            /\ Head(queue).op = "deliver" \/ Head(queue).to # d
  PROVE  Tidy(d)'
<1>1. InLine(queue', d, broker'[d].default)
  BY OtherInLine, ParkedSeq DEF Tidy
<1>2. Scheduler(d)' = Scheduler(d)
  BY SameScheduler
<1> QED BY <1>1, <1>2, AloneTidy

\* What goes from the place p to the place q passes nothing that is older.
Ahead(d, m, p, q) ==
  /\ q # "dropped" => Precedes(q, p)
  /\ \A r \in Places \ {p} : Precedes(q, r) => \A x \in At(d, r) : m < x

LEMMA GoesOrdered ==
  ASSUME NEW d \in Entities, NEW m \in Nat, NEW p, NEW q \in {"own", "handled", "dropped"},
         GoesTo(d, m, p, q), Once(d), Ordered(d), p # "dropped",
         Ahead(d, m, p, q), UNCHANGED subscribed
  PROVE  /\ Ordered(d)'
         /\ \A r \in Places \ {q} : At(d, r)' \subseteq At(d, r)
<1>1. /\ p \in Places /\ q # p
      /\ Shrunk(In(d, p), In(d, p)', m)
      /\ Grown(In(d, q), In(d, q)', m)
      /\ Stay(d, Places \ {p, q})
  BY DEF GoesTo
<1>2. Distinct(In(d, p))
  BY <1>1 DEF Once
<1>3. Ordered(d)'
  BY <1>1, <1>2, FirstOrdered DEF Ahead
<1>4. At(d, p)' \subseteq At(d, p)
  BY <1>1, <1>2, LeaveAt
<1>5. \A r \in Places \ {p, q} : At(d, r)' = At(d, r)
  BY <1>1, StayAt
<1> QED BY <1>3, <1>4, <1>5

LEMMA FirstOnTheWay ==
  ASSUME NEW q \in Seq(Entry), q # <<>>, NEW e, Head(q).op = "deliver", Head(q).to = e,
         NEW s \in Seq(Nat), InLine(q, e, s)
  PROVE  \A k \in 1 .. Len(s) : Head(q).arg < s[k]
<1>1. PICK n \in Nat : /\ n > 0 /\ Len(q) = n /\ q[1] = Head(q)
  BY PositionsAfterTail, Zenon
<1>2. PICK f : Aligned(q, e, s, f)
  BY DEF InLine
<1>3. 1 \in WayTo(q, e) /\ \A i \in TokensOf(q, e) : 1 < i
  BY <1>1 DEF WayTo, TokensOf
<1> QED BY <1>1, <1>2, <1>3 DEF Aligned

LEMMA FirstParked ==
  ASSUME NEW q \in Seq(Entry), q # <<>>, NEW e, Head(q).op = "parked", Head(q).to = e,
         NEW s \in Seq(Nat), s # <<>>, InLine(q, e, s)
  PROVE  \A i \in WayTo(q, e) : Head(s) < q[i].arg
<1>1. PICK n \in Nat : /\ n > 0 /\ Len(q) = n /\ q[1] = Head(q)
  BY PositionsAfterTail, Zenon
<1>2. PICK f : Aligned(q, e, s, f)
  BY DEF InLine
<1>3. 1 \in 1 .. Len(s) /\ f[1] = 1
  BY <1>2, FirstToken
<1>4. \A i \in WayTo(q, e) : 1 < i
  BY <1>1 DEF WayTo
<1>5. Head(s) = s[1]
  BY TailAt
<1> QED BY <1>2, <1>3, <1>4, <1>5 DEF Aligned


\* The newest message of an entity comes where nothing is behind it.
LEMMA ParksTidy ==
  ASSUME Types, NEW d \in Entities, NEW m \in Nat, Parks(d, m), Tidy(d), Unscheduled,
         \A p \in Places : \A x \in At(d, p) : x < m
  PROVE  Tidy(d)'
<1>1. Ordered(d) /\ Sorted(d) /\ InLine(queue, d, broker[d].default)
  BY DEF Tidy
<1>2. Scheduler(d)' = Scheduler(d) /\ UNCHANGED subscribed
  BY SameScheduler DEF Unscheduled
<1>3. {"parked", "kept", "flushed", "onTheWay", "own", "handled"} \subseteq Places
  BY DEF Places
<1>4. Grown(In(d, "parked"), In(d, "parked")', m) /\ Stay(d, Places \ {"parked"})
  BY ParksRows DEF ComesTo
<1>5. PICK t \in Entry : t.to = d /\ t.op = "parked" /\ queue' = Append(queue, t)
  BY ParkQueue DEF Parks
<1>6. d \notin subscribed /\ broker'[d].default = Append(broker[d].default, m)
  BY ParkQueue DEF Parks
<1>7. \A p : ~Precedes("parked", p)
  BY DEF Precedes
<1>8. Ordered(d)'
  BY <1>1, <1>2, <1>3, <1>4, <1>6, <1>7, NewestOrdered
<1>9. \A p \in Places \ {"parked"} : At(d, p)' = At(d, p)
  BY <1>4, StayAt
<1>10. Sorted(d)'
  BY <1>1, <1>2, <1>3, <1>9, SortedStays
<1>11. \A i \in WayTo(queue, d) : queue[i].arg < m
  BY <1>3, WayAt
<1>12. queue \in Seq(Entry) /\ broker[d].default \in Seq(Nat)
  BY ParkedSeq DEF Types
<1>13. InLine(queue', d, broker'[d].default)
  BY <1>1, <1>5, <1>6, <1>11, <1>12, AppendToken
<1> QED BY <1>8, <1>10, <1>13 DEF Tidy

LEMMA KeepsTidy ==
  ASSUME Types, NEW d \in Entities, NEW m \in Nat, Keeps(d, m), Tidy(d), Unscheduled,
         \A p \in Places : \A x \in At(d, p) : x < m
  PROVE  Tidy(d)'
<1>1. Ordered(d) /\ Sorted(d) /\ InLine(queue, d, broker[d].default)
  BY DEF Tidy
<1>2. Scheduler(d)' = Scheduler(d) /\ UNCHANGED subscribed
  BY SameScheduler DEF Unscheduled
<1>3. {"parked", "kept", "flushed", "onTheWay", "own", "handled"} \subseteq Places
  BY DEF Places
<1>4. Grown(In(d, "kept"), In(d, "kept")', m) /\ Stay(d, Places \ {"kept"})
  BY KeepsRows DEF ComesTo
<1>5. UNCHANGED queue /\ Scheduler(d) # "default"
  BY DEF Keeps, WaitBehindParked
<1>6. broker'[d].default = broker[d].default
  BY KeepsRows
<1>7. \A p : ~Precedes("kept", p)
  BY DEF Precedes
<1>8. Ordered(d)'
  BY <1>1, <1>2, <1>3, <1>4, <1>7, NewestOrdered
<1>9. \A p \in Places \ {"kept"} : At(d, p)' = At(d, p)
  BY <1>4, StayAt
<1>10. Sorted(d)'
  BY <1>1, <1>2, <1>3, <1>5, <1>9, SortedStays
<1> QED BY <1>1, <1>5, <1>6, <1>8, <1>10 DEF Tidy

\* Where PassedTo leads, and what it does to the default scheduler's queue.
LEMMA PassedQueue ==
  ASSUME NEW e \in Entities, NEW m \in Nat, NEW q, PassedTo(e, m, q)
  PROVE  /\ q = "onTheWay" => Scheduler(e) = "default"
         /\ q = "own" => Scheduler(e) = "own"
         /\ \/ UNCHANGED queue
            \/ \E t \in Entry : t.to = e /\ t.op = "deliver" /\ t.arg = m /\ queue' = Append(queue, t)
<1>1. [op |-> "deliver", to |-> e, arg |-> m] \in Entry
  BY DEF Entry
<1>2. q \in Ends => q # "onTheWay" /\ q # "own"
  BY DEF Ends
<1> QED BY <1>1, <1>2 DEF PassedTo, TakenTo, EndsIn

LEMMA PassesTidy ==
  ASSUME Types, Signals, NEW d \in Entities, NEW m \in Nat, NEW q, Passes(d, m, q), Tidy(d), CallIsAlone(d),
         Unscheduled, \A p \in Places : \A x \in At(d, p) : x < m,
         d \notin overtaken', kind[d] # "intern"
  PROVE  Tidy(d)'
<1>1. Ordered(d) /\ Sorted(d) /\ InLine(queue, d, broker[d].default)
  BY DEF Tidy
<1>2. Scheduler(d)' = Scheduler(d) /\ UNCHANGED subscribed
  BY SameScheduler DEF Unscheduled
<1>3. {"parked", "kept", "flushed", "onTheWay", "own", "handled"} \subseteq Places
  BY DEF Places
<1>4. q \in LaterPlaces /\ Grown(In(d, q), In(d, q)', m) /\ Stay(d, Places \ {q})
  BY PassesRows DEF ComesTo
<1>5. /\ q = "onTheWay" => Scheduler(d) = "default"
      /\ q = "own" => Scheduler(d) = "own"
      /\ \/ UNCHANGED queue
         \/ \E t \in Entry : t.to = d /\ t.op = "deliver" /\ t.arg = m /\ queue' = Append(queue, t)
  <2>1. PassedTo(d, m, q)
    BY DEF Passes
  <2> QED BY <2>1, PassedQueue
<1>6. q \in Places /\ q # "parked" /\ q # "kept" /\ q # "flushed"
  BY <1>4 DEF LaterPlaces, Places
<1>7. \A p \in Places : Precedes(q, p) => At(d, p) = {}
  <2>1. CASE q = "onTheWay" \/ q = "dropped"
    BY <2>1 DEF Precedes
  <2>2. CASE q = "own"
    <3>1. ~Present(d) /\ ~Passing(d)
      BY <2>2 DEF Passes
    <3>2. In(d, "flushed") = <<>> /\ In(d, "parked") = <<>> /\ In(d, "kept") = <<>>
      BY <3>1, Rows DEF Present, NoMq, Passing
    <3>3. At(d, "flushed") = {} /\ At(d, "parked") = {} /\ At(d, "kept") = {}
      BY <3>2 DEF At, Elements
    <3> QED BY <2>2, <3>3 DEF Precedes
  <2>3. CASE q = "handled"
    <3>1. receiver = "call" /\ hand = d
      BY <2>3 DEF Passes
    <3>2. At(d, "flushed") = {} /\ At(d, "parked") = {} /\ At(d, "kept") = {}
      BY <3>1 DEF CallIsAlone
    <3>3. Scheduler(d) = "synchronous"
      BY <3>1 DEF Signals, Scheduler
    <3>4. At(d, "onTheWay") = {} /\ At(d, "own") = {}
      BY <1>1, <3>3 DEF Sorted
    <3> QED BY <2>3, <3>2, <3>4 DEF Precedes
  <2> QED BY <1>4, <2>1, <2>2, <2>3 DEF LaterPlaces
<1>8. Ordered(d)'
  BY <1>1, <1>2, <1>4, <1>6, <1>7, NewestOrdered
<1>9. \A p \in Places \ {q} : At(d, p)' = At(d, p)
  BY <1>4, StayAt
<1>10. Sorted(d)'
  BY <1>1, <1>2, <1>3, <1>5, <1>6, <1>9, SortedStays
<1>11. UNCHANGED broker
  BY DEF Passes
<1>12. queue \in Seq(Entry) /\ broker[d].default \in Seq(Nat)
  BY ParkedSeq DEF Types
<1>13. InLine(queue', d, broker[d].default)
  <2>1. CASE UNCHANGED queue
    BY <1>1, <2>1
  <2>2. ASSUME NEW t \in Entry, t.to = d, t.op = "deliver", t.arg = m, queue' = Append(queue, t)
        PROVE  InLine(queue', d, broker[d].default)
    <3>1. \A k \in 1 .. Len(broker[d].default) : broker[d].default[k] \in At(d, "parked")
      BY <1>12, Rows DEF At, Elements
    <3>2. \A k \in 1 .. Len(broker[d].default) : broker[d].default[k] < t.arg
      BY <1>3, <2>2, <3>1
    <3> QED BY <1>1, <1>12, <2>2, <3>2, AppendDeliver
  <2> QED BY <1>5, <2>1, <2>2
<1> QED BY <1>8, <1>10, <1>11, <1>13 DEF Tidy

LEMMA ReceivesTidy ==
  ASSUME Types, Signals, NEW e \in Entities, Receives(e, Len(dest) + 1), Unscheduled,
         NEW d \in Entities, Once(d), Tidy(d), CallIsAlone(d), d \notin overtaken', kind[d] # "intern"
  PROVE  Tidy(d)'
<1>1. PICK m \in Nat : m = Len(dest) + 1
  BY DEF Types
<1>2. CASE d = e
  <2>1. \A p \in Places : \A x \in At(d, p) : x < m
    BY <1>1, Numbered
  <2> QED BY <1>1, <1>2, <2>1, ParksTidy, KeepsTidy, PassesTidy DEF Receives
<1>3. CASE d # e
  <2>1. Stay(d, Places)
    BY <1>1, <1>3, ReceivesComes DEF ComesTo
  <2>2. CASE Parks(e, m)
    <3>1. /\ \E t \in Entry : t.to # d /\ queue' = Append(queue, t)
          /\ broker'[d] = broker[d]
      BY <1>3, <2>2, ParkQueue DEF Parks
    <3> QED BY <2>1, <3>1, OthersTidy DEF Unscheduled
  <2>3. CASE Keeps(e, m)
    <3>1. UNCHANGED queue /\ broker'[d] = broker[d]
      BY <1>3, <2>3, KeepsRows DEF Keeps, WaitBehindParked
    <3> QED BY <2>1, <3>1, OthersTidy DEF Unscheduled
  <2>4. ASSUME NEW q, Passes(e, m, q)
        PROVE  Tidy(d)'
    <3>1. UNCHANGED queue \/ \E t \in Entry : t.to # d /\ queue' = Append(queue, t)
      BY <1>3, <2>4, PassedQueue DEF Passes
    <3>2. broker'[d] = broker[d]
      BY <2>4 DEF Passes
    <3> QED BY <2>1, <3>1, <3>2, OthersTidy DEF Unscheduled
  <2> QED BY <1>1, <2>2, <2>3, <2>4 DEF Receives
<1> QED BY <1>2, <1>3

\* The message goes on from the place it was the first in.
LEMMA MovesOther ==
  ASSUME Types, Unscheduled, NEW e \in Entities, NEW m \in Nat, NEW q, MovesOn(e, m, q),
         NEW d \in Entities, d # e, Tidy(d)
  PROVE  Tidy(d)'
<1>1. Stay(d, Places)
  BY MovesOnGoes DEF GoesTo
<1>2. CASE DeliversTo(e, m, q)
  BY <1>1, <1>2, OthersTidy DEF DeliversTo, Unscheduled
<1>3. CASE UnparksTo(e, m, q)
  <2>1. broker'[d] = broker[d]
    BY <1>3, UnparksRows
  <2> QED BY <1>1, <1>3, <2>1, OthersTidy DEF UnparksTo, Unscheduled
<1>4. CASE FlushesTo(e, m, q)
  <2>1. UNCHANGED queue \/ \E t \in Entry : t.to # d /\ queue' = Append(queue, t)
    BY <1>4, PassedQueue DEF FlushesTo
  <2> QED BY <1>1, <1>4, <2>1, OthersTidy DEF FlushesTo, Unscheduled
<1>5. CASE LeavesOwn(e, m, q)
  BY <1>1, <1>5, OthersTidy DEF LeavesOwn, Unscheduled
<1> QED BY <1>2, <1>3, <1>4, <1>5 DEF MovesOn

LEMMA DeliversTidy ==
  ASSUME Types, Unscheduled, NEW d \in Entities, NEW m \in Nat, NEW q, DeliversTo(d, m, q),
         Once(d), Tidy(d), kind[d] # "intern"
  PROVE  Tidy(d)'
<1>1. GoesTo(d, m, "onTheWay", q) /\ q \in Ends
  BY DeliversRows
<1>2. /\ queue \in Seq(Entry) /\ queue # <<>> /\ queue' = Tail(queue)
      /\ Head(queue).op = "deliver" /\ Head(queue).to = d /\ Head(queue).arg = m
      /\ UNCHANGED broker
  BY DEF DeliversTo, Types
<1>3. Ordered(d) /\ Sorted(d) /\ InLine(queue, d, broker[d].default) /\ broker[d].default \in Seq(Nat)
  BY ParkedSeq DEF Tidy
<1>4. m \in At(d, "onTheWay")
  BY <1>1, LeaveAt DEF GoesTo
<1>5. Scheduler(d) = "default"
  BY <1>3, <1>4, SchedulerOf DEF Sorted
<1>6. At(d, "own") = {} /\ At(d, "kept") = {} /\ At(d, "flushed") = {}
  BY <1>3, <1>5 DEF Sorted
<1>7. \A x \in At(d, "parked") : m < x
  <2>1. \A k \in 1 .. Len(broker[d].default) : m < broker[d].default[k]
    BY <1>2, <1>3, FirstOnTheWay
  <2>2. DOMAIN broker[d].default = 1 .. Len(broker[d].default)
    BY <1>3
  <2> QED BY <2>1, <2>2, Rows DEF At, Elements
<1>8. q \in {"own", "handled", "dropped"} /\ q # "own" /\ Ahead(d, m, "onTheWay", q)
  BY <1>1, <1>6, <1>7 DEF Ends, Precedes, Ahead
<1>9. UNCHANGED subscribed /\ Scheduler(d)' = Scheduler(d)
  BY SameScheduler DEF Unscheduled
<1>10. /\ Ordered(d)'
       /\ \A r \in Places \ {q} : At(d, r)' \subseteq At(d, r)
  BY <1>1, <1>3, <1>8, <1>9, GoesOrdered
<1>11. Sorted(d)'
  <2>1. {"onTheWay", "own", "kept", "flushed"} \subseteq Places \ {q}
    BY <1>1 DEF Places, Ends
  <2> QED BY <1>3, <1>9, <1>10, <2>1, SortedStays
<1>12. InLine(queue', d, broker'[d].default)
  BY <1>2, <1>3, OtherInLine
<1> QED BY <1>10, <1>11, <1>12 DEF Tidy

LEMMA UnparksTidy ==
  ASSUME Types, Unscheduled, NEW d \in Entities, NEW m \in Nat, NEW q, UnparksTo(d, m, q),
         Once(d), Tidy(d), HeadIsOldest(d), kind[d] # "intern"
  PROVE  Tidy(d)'
<1>1. GoesTo(d, m, "parked", q) /\ q \in {"own"} \cup Ends
      /\ broker'[d].default = Tail(broker[d].default)
  BY UnparksRows
<1>2. /\ queue \in Seq(Entry) /\ queue # <<>> /\ queue' = Tail(queue)
      /\ Head(queue).op = "parked" /\ Head(queue).to = d
      /\ broker[d].default # <<>> /\ m = Head(broker[d].default)
  BY DEF UnparksTo, Types
<1>3. Ordered(d) /\ Sorted(d) /\ InLine(queue, d, broker[d].default) /\ broker[d].default \in Seq(Nat)
  BY ParkedSeq DEF Tidy
<1>4. /\ q = "own" => Scheduler(d) = "own"
      /\ q = "handled" => Scheduler(d) # "own"
  BY DEF UnparksTo, TakenTo, EndsIn, Ends
<1>5. At(d, "flushed") = {}
  <2>1. In(d, "flushed") = <<>>
    BY Rows DEF UnparksTo, RestEmpty
  <2> QED BY <2>1 DEF At, Elements
<1>6. q # "dropped" => \A x \in At(d, "kept") : m < x
  BY <1>2 DEF UnparksTo, HeadIsOldest
<1>7. \A x \in At(d, "onTheWay") : m < x
  <2>1. \A i \in WayTo(queue, d) : m < queue[i].arg
    BY <1>2, <1>3, FirstParked
  <2> QED BY <2>1, WayAt
<1>8. q = "handled" => At(d, "own") = {}
  BY <1>3, <1>4, SchedulerOf DEF Sorted
<1>9. q \in {"own", "handled", "dropped"} /\ Ahead(d, m, "parked", q)
  BY <1>1, <1>5, <1>6, <1>7, <1>8 DEF Precedes, Ahead, Ends
<1>10. UNCHANGED subscribed /\ Scheduler(d)' = Scheduler(d)
  BY SameScheduler DEF Unscheduled
<1>11. /\ Ordered(d)'
       /\ \A r \in Places \ {q} : At(d, r)' \subseteq At(d, r)
  BY <1>1, <1>3, <1>9, <1>10, GoesOrdered
<1>12. Sorted(d)'
  <2>1. {"onTheWay", "own", "kept", "flushed"} \subseteq Places
    BY DEF Places
  <2>2. \A r \in {"onTheWay", "kept", "flushed"} : At(d, r)' \subseteq At(d, r)
    BY <1>9, <1>11, <2>1
  <2>3. q # "own" => At(d, "own")' \subseteq At(d, "own")
    BY <1>11, <2>1
  <2> QED BY <1>3, <1>4, <1>10, <2>2, <2>3, SortedStays
<1>13. InLine(queue', d, broker'[d].default)
  BY <1>1, <1>2, <1>3, TailToken
<1> QED BY <1>11, <1>12, <1>13 DEF Tidy

LEMMA FlushesTidy ==
  ASSUME Types, Signals, Unscheduled, NEW d \in Entities, NEW m \in Nat, NEW q, FlushesTo(d, m, q),
         Once(d), Tidy(d), kind[d] # "intern"
  PROVE  Tidy(d)'
<1>1. GoesTo(d, m, "flushed", q) /\ q \in LaterPlaces /\ UNCHANGED broker
  BY FlushesRows DEF FlushesTo
<1>2. /\ q = "onTheWay" => Scheduler(d) = "default"
      /\ q = "own" => Scheduler(d) = "own"
      /\ q = "handled" => kind[d] = "ext"
  BY PassedQueue DEF FlushesTo
<1>3. Ordered(d) /\ Sorted(d) /\ InLine(queue, d, broker[d].default)
  BY DEF Tidy
<1>4. m \in At(d, "flushed")
  BY <1>1, LeaveAt DEF GoesTo
<1>5. Scheduler(d) \in {"own", "synchronous"}
  BY <1>3, <1>4, SchedulerOf DEF Sorted
<1>6. q \in {"own", "handled", "dropped"}
  BY <1>1, <1>2, <1>5 DEF LaterPlaces
<1>7. q = "handled" => At(d, "onTheWay") = {} /\ At(d, "own") = {}
  <2>1. q = "handled" => Scheduler(d) = "synchronous"
    <3>1. kind[d] = "ext" => Scheduler(d) = "synchronous"
      BY DEF Scheduler, Signals
    <3> QED BY <1>2, <3>1
  <2> QED BY <1>3, <2>1 DEF Sorted
<1>8. \A x \in At(d, "parked") \cup At(d, "kept") : m < x
  <2>1. Below(d, "flushed", "parked") /\ Below(d, "flushed", "kept")
    BY <1>3 DEF Ordered, Precedes, Places
  <2> QED BY <1>4, <2>1 DEF Below
<1>9. Ahead(d, m, "flushed", q)
  BY <1>6, <1>7, <1>8 DEF Ahead, Precedes
<1>10. UNCHANGED subscribed /\ Scheduler(d)' = Scheduler(d)
  BY SameScheduler DEF Unscheduled
<1>11. /\ Ordered(d)'
       /\ \A r \in Places \ {q} : At(d, r)' \subseteq At(d, r)
  BY <1>1, <1>3, <1>6, <1>9, <1>10, GoesOrdered
<1>12. Sorted(d)'
  <2>1. {"onTheWay", "own", "kept", "flushed"} \subseteq Places
    BY DEF Places
  <2>2. \A r \in {"onTheWay", "kept", "flushed"} : At(d, r)' \subseteq At(d, r)
    BY <1>6, <1>11, <2>1
  <2>3. q # "own" => At(d, "own")' \subseteq At(d, "own")
    BY <1>11, <2>1
  <2> QED BY <1>2, <1>3, <1>10, <2>2, <2>3, SortedStays
<1>13. UNCHANGED queue
  BY <1>1, <1>5, <1>6 DEF FlushesTo, PassedTo
<1> QED BY <1>1, <1>3, <1>11, <1>12, <1>13 DEF Tidy

LEMMA LeavesOwnTidy ==
  ASSUME Types, Unscheduled, NEW d \in Entities, NEW m \in Nat, NEW q, LeavesOwn(d, m, q),
         Once(d), Tidy(d), kind[d] # "intern"
  PROVE  Tidy(d)'
<1>1. GoesTo(d, m, "own", q) /\ q \in Ends /\ UNCHANGED <<broker, queue>>
  BY LeavesOwnRows DEF LeavesOwn
<1>2. Ordered(d) /\ Sorted(d) /\ InLine(queue, d, broker[d].default)
  BY DEF Tidy
<1>3. m \in At(d, "own")
  BY <1>1, LeaveAt DEF GoesTo
<1>4. Scheduler(d) = "own" /\ At(d, "onTheWay") = {}
  BY <1>2, <1>3, SchedulerOf DEF Sorted
<1>5. \A x \in At(d, "flushed") \cup At(d, "parked") \cup At(d, "kept") : m < x
  BY <1>2, <1>3 DEF Ordered, Below, Precedes, Places
<1>6. q \in {"own", "handled", "dropped"} /\ Ahead(d, m, "own", q)
  BY <1>1, <1>4, <1>5 DEF Ahead, Precedes, Ends
<1>7. UNCHANGED subscribed /\ Scheduler(d)' = Scheduler(d)
  BY SameScheduler DEF Unscheduled
<1>8. /\ Ordered(d)'
      /\ \A r \in Places \ {q} : At(d, r)' \subseteq At(d, r)
  BY <1>1, <1>2, <1>6, <1>7, GoesOrdered
<1>9. Sorted(d)'
  <2>1. {"onTheWay", "own", "kept", "flushed"} \subseteq Places \ {q}
    BY <1>1 DEF Places, Ends
  <2> QED BY <1>2, <1>7, <1>8, <2>1, SortedStays
<1> QED BY <1>1, <1>2, <1>8, <1>9 DEF Tidy

LEMMA ErasesMqTidy ==
  ASSUME Types, Phases, Unscheduled, NEW e \in Entities, ErasesMq(e),
         NEW d \in Entities, Tidy(d), d \notin raced
  PROVE  Tidy(d)'
<1>1. /\ Erases(e)
      /\ broker'[e] = NoMq /\ \A c \in Entities \ {e} : broker'[c] = broker[c]
      /\ pc = "erase" /\ current.to = e /\ UNCHANGED queue
  BY ErasesMqRows DEF ErasesMq
<1>2. CASE d # e
  <2>1. Stay(d, Places)
    BY <1>1, <1>2 DEF Erases
  <2> QED BY <1>1, <1>2, <2>1, OthersTidy DEF Unscheduled
<1>3. CASE d = e
  <2>1. Ordered(d) /\ Sorted(d) /\ InLine(queue, d, broker[d].default)
    BY DEF Tidy
  <2>2. Ordered(d)'
    BY <1>1, <1>3, <2>1, ErasesOrdered
  <2>3. Scheduler(d)' = Scheduler(d)
    BY SameScheduler DEF Unscheduled
  <2>4. At(d, "kept")' = {} /\ At(d, "flushed")' = At(d, "kept")
    BY <1>1, <1>3 DEF Erases, At, Elements
  <2>5. At(d, "onTheWay")' = At(d, "onTheWay") /\ At(d, "own")' = At(d, "own")
    BY <1>1, <1>3, StayAt DEF Erases, LaterPlaces
  <2>6. Sorted(d)'
    BY <2>1, <2>3, <2>4, <2>5 DEF Sorted
  <2>7. broker[d].default = <<>> /\ broker'[d].default = <<>>
    BY <1>1, <1>3 DEF Phases, NoMq
  <2> QED BY <1>1, <2>1, <2>2, <2>6, <2>7 DEF Tidy
<1> QED BY <1>2, <1>3

LEMMA IdlesTidy ==
  ASSUME Types, Unscheduled, Idles, NEW d \in Entities, Tidy(d)
  PROVE  Tidy(d)'
<1>1. Stay(d, Places)
  BY NothingMoves
<1> QED BY <1>1, OthersTidy DEF Idles, Unscheduled

\* The scheduler of a signal changes when nothing is on its way to the old one.
LEMMA BindTidy ==
  ASSUME Types, Phases, NEW e \in Entities, Bind(e) \/ Unbind(e) \/ LoseId(e) \/ AdviseOn(e),
         NEW d \in Entities, Tidy(d), d \notin overtaken', kind[d] # "intern"
  PROVE  Tidy(d)'
<1>1. Idles /\ UNCHANGED <<kind, broker, queue, current>>
  BY BindIdles DEF Idles
<1>2. Stay(d, Places)
  BY <1>1, NothingMoves
<1>3. Ordered(d) /\ Sorted(d) /\ InLine(queue', d, broker'[d].default)
  BY <1>1 DEF Tidy
<1>4. \A p \in Places : At(d, p)' = At(d, p)
  BY <1>2, StayAt
<1>5. {"onTheWay", "own", "kept", "flushed"} \subseteq Places
  BY DEF Places
<1>6. CASE d = e /\ Bind(e)
  <2>1. /\ ownQueue[d] = <<>> /\ broker[d].custom = <<>> /\ ownScheduler' = ownScheduler \ {d}
        /\ pc \in {"idle", "handler"}
    BY <1>6 DEF Bind, MayBind
  <2>2. At(d, "own") = {} /\ At(d, "kept") = {} /\ At(d, "flushed") = {}
    <3>1. In(d, "own") = <<>> /\ In(d, "kept") = <<>> /\ In(d, "flushed") = <<>>
      BY <2>1, Rows DEF Phases
    <3> QED BY <3>1 DEF At, Elements
  <2>3. Ordered(d)'
    BY <1>2, <1>3, <2>2, OrderedStays
  <2>4. Scheduler(d)' = Scheduler(d) \/ Scheduler(d)' = "default"
    BY <1>1, <2>1 DEF Scheduler
  <2>5. Sorted(d)'
    BY <1>3, <1>4, <1>5, <2>2, <2>4 DEF Sorted
  <2> QED BY <1>3, <2>3, <2>5 DEF Tidy
<1>7. CASE d = e /\ AdviseOn(e)
  <2>1. /\ OnTheWay(d) = {} /\ ownScheduler' = ownScheduler \cup {d} /\ kind[d] = "signal"
        /\ UNCHANGED subscribed
    BY <1>7 DEF AdviseOn, entries
  <2>2. At(d, "onTheWay") = {}
    BY <2>1 DEF At, In, Elements
  <2>3. Ordered(d)'
    BY <1>2, <1>3, <2>1, OrderedStays
  <2>4. Scheduler(d)' = "own"
    BY <1>1, <2>1 DEF Scheduler
  <2>5. Sorted(d)'
    BY <1>4, <1>5, <2>2, <2>4 DEF Sorted
  <2> QED BY <1>3, <2>3, <2>5 DEF Tidy
<1>8. CASE d # e \/ Unbind(e) \/ LoseId(e)
  <2>1. d \in subscribed' => d \in subscribed
    BY <1>8 DEF Bind, Unbind, LoseId, AdviseOn, entries
  <2>2. Scheduler(d)' = Scheduler(d)
    <3>1. d \in ownScheduler' <=> d \in ownScheduler
      BY <1>8 DEF Bind, Unbind, LoseId, AdviseOn, life
    <3> QED BY <1>1, <3>1 DEF Scheduler
  <2> QED BY <1>2, <1>3, <2>1, <2>2, AloneTidy
<1> QED BY <1>6, <1>7, <1>8

LEMMA Histories ==
  ASSUME [Next]_vars
  PROVE  kind' = kind /\ raced \subseteq raced' /\ overtaken \subseteq overtaken'
<1>1. CASE \E e \in Entities : Dispatch(e)
  BY <1>1 DEF Dispatch, Park, Find, life
<1>2. CASE \E e \in Entities : Bind(e) \/ Unbind(e) \/ LoseId(e) \/ AdviseOn(e)
  BY <1>2 DEF Bind, Unbind, LoseId, AdviseOn, life
<1>3. CASE \E e \in Entities : OwnThread(e)
  BY <1>3 DEF OwnThread, OwnCheck, OwnExecute, life
<1>4. CASE DefaultThread
  BY <1>4, ThreadUnscheduled DEF Unscheduled
<1>5. CASE ReceiverThread
  BY <1>5 DEF ReceiverThread, Route, Call, Break, WaitBehindParked, Pass, PassesBy, life
<1>6. CASE UNCHANGED vars
  BY <1>6 DEF vars, life
<1> QED BY <1>1, <1>2, <1>3, <1>4, <1>5, <1>6 DEF Next, Rest

LEMMA StepKeepsTidy ==
  ASSUME Types, Phases, Signals, [Next]_vars,
         NEW d \in Entities, Once(d), Tidy(d), HeadIsOldest(d), CallIsAlone(d),
         d \notin raced' \cup overtaken', kind[d] # "intern"
  PROVE  Tidy(d)'
<1>1. CASE \E e \in Entities : Bind(e) \/ Unbind(e) \/ LoseId(e) \/ AdviseOn(e)
  BY <1>1, BindTidy
<1>2. ASSUME Unscheduled, NEW e \in Entities, Receives(e, Len(dest) + 1)
      PROVE  Tidy(d)'
  BY <1>2, ReceivesTidy
<1>3. ASSUME Unscheduled, Idles
      PROVE  Tidy(d)'
  BY <1>3, IdlesTidy
<1>4. ASSUME Unscheduled, NEW e \in Entities, ErasesMq(e)
      PROVE  Tidy(d)'
  BY <1>4, Histories, ErasesMqTidy
<1>5. ASSUME Unscheduled, NEW e \in Entities, NEW m \in Nat, NEW q, MovesOn(e, m, q)
      PROVE  Tidy(d)'
  <2>1. CASE d # e
    BY <1>5, <2>1, MovesOther
  <2>2. CASE d = e
    BY <1>5, <2>2, DeliversTidy, UnparksTidy, FlushesTidy, LeavesOwnTidy DEF MovesOn
  <2> QED BY <2>1, <2>2
<1> QED BY <1>1, <1>2, <1>3, <1>4, <1>5, StepEffects

(* What is decided for.                                                    *)

Behind == {"parked", "kept", "flushed"}

LEMMA MovesFromBehind ==
  ASSUME Types, NEW e \in Entities, NEW m \in Nat, NEW q, MovesOn(e, m, q),
         NEW d \in Entities, Once(d)
  PROVE  \A p \in Behind : At(d, p)' \subseteq At(d, p)
<1>1. PICK p : GoesTo(e, m, p, q)
  BY MovesOnGoes
<1>2. q \notin Behind
  <2>1. DeliversTo(e, m, q) => q \in Ends
    BY DeliversRows
  <2>2. UnparksTo(e, m, q) => q \in {"own"} \cup Ends
    BY UnparksRows
  <2>3. FlushesTo(e, m, q) => q \in LaterPlaces
    BY FlushesRows
  <2>4. LeavesOwn(e, m, q) => q \in Ends
    BY LeavesOwnRows
  <2> QED BY <2>1, <2>2, <2>3, <2>4 DEF MovesOn, Ends, LaterPlaces, Behind
<1>3. Behind \subseteq Places
  BY DEF Behind, Places
<1>4. CASE d # e
  <2>1. Stay(d, Places)
    BY <1>1, <1>4 DEF GoesTo
  <2> QED BY <1>3, <2>1, StayAt
<1>5. CASE d = e
  <2>1. p \in Places /\ Shrunk(In(d, p), In(d, p)', m) /\ Stay(d, Places \ {p, q})
    BY <1>1, <1>5 DEF GoesTo
  <2>2. At(d, p)' \subseteq At(d, p)
    BY <2>1, LeaveAt DEF Once
  <2>3. \A r \in Places \ {p, q} : At(d, r)' = At(d, r)
    BY <2>1, StayAt
  <2> QED BY <1>2, <1>3, <2>2, <2>3
<1> QED BY <1>4, <1>5

LEMMA ErasesBehind ==
  ASSUME Types, NEW e \in Entities, ErasesMq(e), NEW d \in Entities
  PROVE  \/ \A p \in Behind : At(d, p)' = At(d, p)
         \/ /\ At(d, "parked")' = {} /\ At(d, "kept")' = {}
            /\ At(d, "flushed")' = At(d, "kept")
<1>1. Erases(e)
  BY ErasesMqRows
<1>2. CASE d # e
  <2>1. Stay(d, Places) /\ Behind \subseteq Places
    BY <1>1, <1>2 DEF Erases, Behind, Places
  <2> QED BY <2>1, StayAt
<1>3. CASE d = e
  BY <1>1, <1>3 DEF Erases, At, Elements
<1> QED BY <1>2, <1>3

LEMMA IdlesBehind ==
  ASSUME Idles, NEW d \in Entities
  PROVE  \A p \in Behind : At(d, p)' = At(d, p)
<1>1. Stay(d, Places) /\ Behind \subseteq Places
  BY NothingMoves DEF Behind, Places
<1> QED BY <1>1, StayAt

\* Only what is received now comes behind.
LEMMA KeptGrows ==
  ASSUME Types, Phases, Signals, [Next]_vars, NEW d \in Entities, Once(d)
  PROVE  At(d, "kept")' \subseteq At(d, "kept") \cup {Len(dest) + 1}
<1>1. "kept" \in Behind /\ "kept" \in Places
  BY DEF Behind, Places
<1>2. CASE Idles
  BY <1>1, <1>2, IdlesBehind
<1>3. CASE \E e \in Entities : Bind(e) \/ Unbind(e) \/ LoseId(e) \/ AdviseOn(e)
  BY <1>2, <1>3, BindIdles
<1>4. CASE \E e \in Entities : ErasesMq(e)
  BY <1>1, <1>4, ErasesBehind
<1>5. CASE \E e \in Entities, m \in Nat : \E q : MovesOn(e, m, q)
  BY <1>1, <1>5, MovesFromBehind
<1>6. ASSUME NEW e \in Entities, Receives(e, Len(dest) + 1)
      PROVE  At(d, "kept")' \subseteq At(d, "kept") \cup {Len(dest) + 1}
  <2>1. PICK m \in Nat : m = Len(dest) + 1
    BY DEF Types
  <2>2. PICK q : ComesTo(e, m, q)
    BY <1>6, <2>1, ReceivesComes
  <2>3. CASE d # e
    <3>1. Stay(d, Places)
      BY <2>2, <2>3 DEF ComesTo
    <3> QED BY <1>1, <3>1, StayAt
  <2>4. CASE d = e
    <3>1. Grown(In(d, q), In(d, q)', m) /\ Stay(d, Places \ {q})
      BY <2>2, <2>4 DEF ComesTo
    <3>2. At(d, q)' = At(d, q) \cup {m}
      BY <3>1, ArriveAt
    <3>3. \A r \in Places \ {q} : At(d, r)' = At(d, r)
      BY <3>1, StayAt
    <3> QED BY <1>1, <2>1, <3>2, <3>3
  <2> QED BY <2>3, <2>4
<1> QED BY <1>2, <1>3, <1>4, <1>5, <1>6, StepEffects

LEMMA HeadAt ==
  ASSUME Types, NEW d \in Entities, broker[d].default # <<>>
  PROVE  Head(broker[d].default) \in At(d, "parked")
<1>1. broker[d].default \in Seq(Nat)
  BY ParkedSeq
<1>2. 1 \in DOMAIN broker[d].default /\ Head(broker[d].default) = broker[d].default[1]
  BY <1>1, TailAt
<1> QED BY <1>2, Rows DEF At, Elements

LEMMA HeadStays ==
  ASSUME Types, Phases, Signals, [Next]_vars, NEW d \in Entities, Once(d), HeadIsOldest(d),
         UNCHANGED <<pc, current>>,
         broker[d].default # <<>> => Head(broker'[d].default) = Head(broker[d].default)
  PROVE  HeadIsOldest(d)'
<1> SUFFICES ASSUME pc \in {"look", "parkedCall"}, current.to = d, current.bound,
                    NEW y \in At(d, "kept")'
             PROVE  Head(broker'[d].default) < y
  BY DEF HeadIsOldest
<1>1. broker[d].default # <<>>
  BY DEF Phases
<1>2. Head(broker[d].default) \in At(d, "parked") /\ "parked" \in Places
  BY <1>1, HeadAt DEF Places
<1>3. Head(broker[d].default) < Len(dest) + 1
  BY <1>2, Numbered
<1>4. \A x \in At(d, "kept") : Head(broker[d].default) < x
  BY DEF HeadIsOldest
<1> QED BY <1>1, <1>3, <1>4, KeptGrows

LEMMA StepKeepsHead ==
  ASSUME Types, Phases, Signals, [Next]_vars, NEW d \in Entities, Once(d), Ordered(d), HeadIsOldest(d)
  PROVE  HeadIsOldest(d)'
<1>1. CASE ReceiverThread \/ \E e \in Entities :
             Dispatch(e) \/ OwnThread(e) \/ Bind(e) \/ Unbind(e) \/ LoseId(e) \/ AdviseOn(e)
  <2>1. UNCHANGED <<pc, current>>
    BY <1>1, ThreadStays
  <2>2. broker[d].default # <<>> => Head(broker'[d].default) = Head(broker[d].default)
    BY <1>1, ParkedStays
  <2> QED BY <2>1, <2>2, HeadStays
<1>2. CASE UNCHANGED vars
  <2>1. UNCHANGED <<pc, current, broker>>
    BY <1>2 DEF vars, thread
  <2> QED BY <2>1, HeadStays
<1>3. CASE UNCHANGED <<pc, current>> /\ pc \notin {"look", "parkedCall"}
  BY <1>3 DEF HeadIsOldest
<1>4. CASE pc' \notin {"look", "parkedCall"}
  BY <1>4 DEF HeadIsOldest
<1>5. CASE RunParked
  <2>1. CASE UNCHANGED thread
    BY <1>3, <1>5, <2>1 DEF RunParked, thread
  <2>2. CASE /\ ~(broker[Head(queue).to].default = <<>>)
             /\ current' = [to |-> Head(queue).to, bound |-> Head(queue).to \in subscribed, rest |-> <<>>]
    <3>1. UNCHANGED broker
      BY <1>5 DEF RunParked
    <3>2. current'.to = Head(queue).to /\ (current'.bound => Head(queue).to \in subscribed)
      BY <2>2
    <3> SUFFICES ASSUME current'.to = d, current'.bound, NEW y \in At(d, "kept")'
                 PROVE  Head(broker'[d].default) < y
      BY DEF HeadIsOldest
    <3>3. d \in subscribed /\ broker[d].default # <<>>
      BY <2>2, <3>2
    <3>4. Head(broker[d].default) \in At(d, "parked")
      BY <3>3, HeadAt
    <3>5. At(d, "kept")' = At(d, "kept")
      BY <3>1, Rows, NextRows DEF At
    <3> QED BY <3>1, <3>3, <3>4, <3>5 DEF Ordered, Below
  <2> QED BY <1>5, <2>1, <2>2 DEF RunParked
<1>6. CASE HandleParked
  <2>1. CASE UNCHANGED <<current, broker>>
    <3>1. pc = "look"
      BY <1>6 DEF HandleParked
    <3>2. At(d, "kept")' = At(d, "kept")
      BY <2>1, Rows, NextRows DEF At
    <3> QED BY <2>1, <3>1, <3>2 DEF HeadIsOldest
  <2> QED BY <1>4, <1>6, <2>1 DEF HandleParked, Done
<1>7. CASE RunDeliver \/ FlushToNull
  <2>1. pc \notin {"look", "parkedCall"} /\ (UNCHANGED thread \/ pc' = "deliver")
    BY <1>7 DEF RunDeliver, FlushToNull
  <2> QED BY <1>3, <1>4, <2>1 DEF thread
<1>8. CASE Deliver \/ CallParked \/ TestEmpty \/ Erase \/ Flush \/ FlushCall \/ FlushEnd
  <2>1. pc' \notin {"look", "parkedCall"}
    BY <1>8 DEF Deliver, CallParked, TestEmpty, Erase, Flush, FlushCall, FlushEnd, Done
  <2> QED BY <1>4, <2>1
<1> QED BY <1>1, <1>2, <1>5, <1>6, <1>7, <1>8 DEF Next, DefaultThread, Rest

LEMMA CallStays ==
  ASSUME Types, Phases, Signals, [Next]_vars, NEW d \in Entities, Once(d), CallIsAlone(d),
         UNCHANGED <<receiver, hand>>,
         \/ Idles
         \/ \E e \in Entities : ErasesMq(e)
         \/ \E e \in Entities, m \in Nat : \E q : MovesOn(e, m, q)
  PROVE  CallIsAlone(d)'
<1> SUFFICES ASSUME At(d, "parked") = {}, At(d, "kept") = {}, At(d, "flushed") = {}
             PROVE  At(d, "parked")' = {} /\ At(d, "kept")' = {} /\ At(d, "flushed")' = {}
  BY DEF CallIsAlone
<1>1. CASE Idles
  BY <1>1, IdlesBehind DEF Behind
<1>2. CASE \E e \in Entities : ErasesMq(e)
  BY <1>2, ErasesBehind DEF Behind
<1>3. CASE \E e \in Entities, m \in Nat : \E q : MovesOn(e, m, q)
  BY <1>3, MovesFromBehind DEF Behind
<1> QED BY <1>1, <1>2, <1>3

LEMMA StepKeepsAlone ==
  ASSUME Types, Phases, Signals, [Next]_vars, NEW d \in Entities, Once(d), CallIsAlone(d),
         d \notin overtaken', kind[d] # "intern"
  PROVE  CallIsAlone(d)'
<1>1. CASE receiver' # "call"
  BY <1>1 DEF CallIsAlone
<1>2. CASE \E e \in Entities : Dispatch(e)
  <2>1. receiver' # "call"
    BY <1>2 DEF Dispatch, Park, Find, receiving
  <2> QED BY <1>1, <2>1
<1>3. CASE Call
  BY <1>1, <1>3 DEF Call
<1>4. CASE Route
  <2> SUFFICES ASSUME receiver' = "call", hand' = d
               PROVE  At(d, "parked")' = {} /\ At(d, "kept")' = {} /\ At(d, "flushed")' = {}
    BY DEF CallIsAlone
  <2>1. hand = d /\ UNCHANGED current
    BY <1>4 DEF Route, thread
  <2>2. /\ Scheduler(d) \in {"default", "outOfOrder"} \/ ~Present(d)
        /\ AtOnce(d) /\ UNCHANGED broker
        /\ overtaken' = IF Passing(d) THEN overtaken \cup {d} ELSE overtaken
    BY <1>4, <2>1 DEF Route, Break, WaitBehindParked, Pass, PassesBy
  <2>3. Scheduler(d) \in {"default", "own", "synchronous"}
    BY SchedulerOf
  <2>4. broker'[d] = NoMq
    BY <2>2, <2>3 DEF AtOnce, Present
  <2>5. current'.to = d => current'.rest = <<>>
    BY <2>1, <2>2 DEF Passing
  <2>6. In(d, "parked")' = <<>> /\ In(d, "kept")' = <<>> /\ In(d, "flushed")' = <<>>
    BY <2>4, <2>5, NextRows DEF NoMq
  <2> QED BY <2>6 DEF At, Elements
<1>5. CASE \E e \in Entities : Bind(e) \/ Unbind(e) \/ LoseId(e) \/ AdviseOn(e)
  BY <1>5, BindIdles, CallStays
<1>6. CASE \E e \in Entities : OwnThread(e)
  <2>1. UNCHANGED <<receiver, hand>>
    BY <1>6 DEF OwnThread, OwnCheck, OwnExecute, receiving
  <2>2. Idles \/ \E e \in Entities, m \in Nat : \E q : MovesOn(e, m, q)
    BY <1>6, OwnThreadMoves DEF MovesOn
  <2> QED BY <2>1, <2>2, CallStays
<1>7. CASE DefaultThread
  BY <1>7, ThreadUnscheduled, ThreadMoves, CallStays
<1>8. CASE UNCHANGED vars
  <2>1. UNCHANGED <<receiver, hand>> /\ Idles
    BY <1>8 DEF vars, receiving, thread, history, Idles
  <2> QED BY <2>1, CallStays
<1> QED BY <1>2, <1>3, <1>4, <1>5, <1>6, <1>7, <1>8 DEF Next, ReceiverThread, Rest

LEMMA StepKeepsOrder ==
  ASSUME BrokerInv, OrderInv, [Next]_vars
  PROVE  OrderInv'
<1>1. kind' = kind /\ raced \subseteq raced' /\ overtaken \subseteq overtaken'
  BY Histories
<1>2. ASSUME NEW d \in Entities \ (raced' \cup overtaken'), kind'[d] # "intern"
      PROVE  Tidy(d)' /\ HeadIsOldest(d)' /\ CallIsAlone(d)'
  <2>1. kind[d] # "intern" /\ Tidy(d) /\ HeadIsOldest(d) /\ CallIsAlone(d)
    BY <1>1, <1>2 DEF OrderInv
  <2>2. Types /\ Phases /\ Signals /\ Once(d)
    BY DEF BrokerInv
  <2>3. Ordered(d)
    BY <2>1 DEF Tidy
  <2>4. Tidy(d)'
    BY <1>2, <2>1, <2>2, StepKeepsTidy
  <2>5. HeadIsOldest(d)'
    BY <2>1, <2>2, <2>3, StepKeepsHead
  <2>6. CallIsAlone(d)'
    BY <1>2, <2>1, <2>2, StepKeepsAlone
  <2> QED BY <2>4, <2>5, <2>6
<1> QED BY <1>2 DEF OrderInv

\* Whatever is parked, kept back and passed on, the handler of an entity gets
\* its messages in the order they were received in, unless the id raced or was
\* overtaken (dispatch l.107-123).
THEOREM InOrderHolds == Spec => []InOrder
<1>1. Init => OrderInv
  <2> SUFFICES ASSUME Init, NEW e \in Entities
               PROVE  Tidy(e) /\ HeadIsOldest(e) /\ CallIsAlone(e)
    BY DEF OrderInv
  <2>1. \A p \in Places : In(e, p) = <<>>
    BY EmptyAtFirst, Zenon
  <2>2. \A p \in Places : Rising(In(e, p)) /\ At(e, p) = {}
    BY <2>1 DEF Rising, At, Elements
  <2>3. {"parked", "kept", "flushed", "onTheWay", "own"} \subseteq Places
    BY DEF Places
  <2>4. Ordered(e) /\ Sorted(e)
    BY <2>2, <2>3 DEF Ordered, Below, Sorted
  <2>5. queue = <<>> /\ broker[e].default = <<>>
    BY DEF Init, NoMq
  <2>6. Aligned(queue, e, broker[e].default, <<>>)
    BY <2>5 DEF Aligned, TokensOf, WayTo
  <2>7. HeadIsOldest(e) /\ CallIsAlone(e)
    BY DEF Init, HeadIsOldest, CallIsAlone
  <2> QED BY <2>4, <2>6, <2>7 DEF Tidy, InLine
<1>2. BrokerInv /\ OrderInv /\ [Next]_vars => OrderInv'
  BY StepKeepsOrder
<1>3. BrokerInv /\ OrderInv => InOrder
  <2> SUFFICES ASSUME BrokerInv, OrderInv, NEW e \in Entities \ (raced \cup overtaken), kind[e] # "intern",
                      NEW i \in 1 .. Len(handled[e]), NEW j \in 1 .. Len(handled[e]), i < j
               PROVE  handled[e][i] < handled[e][j]
    BY DEF InOrder
  <2>1. Rising(In(e, "handled"))
    BY DEF OrderInv, Tidy, Ordered, Places
  <2>2. Rising(handled[e])
    BY <2>1, Rows
  <2>3. DOMAIN handled[e] = 1 .. Len(handled[e])
    BY DEF BrokerInv, Types
  <2> QED BY <2>2, <2>3 DEF Rising
<1> QED BY <1>1, <1>2, <1>3, BrokerInvariance, PTL DEF Spec

=============================================================================
