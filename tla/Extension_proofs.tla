---------------------------- MODULE Extension_proofs ----------------------------
(***************************************************************************)
(* Proofs about the two ends of an extension, for any number of messages   *)
(* that their members send.                                                *)
(***************************************************************************)
EXTENDS Extension, SequenceTheorems, TLAPS

Mail == States \cup Messages

\* The messages of the members in s are those with the numbers after a and up to b, in order.
Numbers(s, a, b) ==
  /\ \A i \in 1 .. Len(s) : ~IsState(s[i]) => s[i].n \in a + 1 .. b
  /\ \A i, j \in 1 .. Len(s) : i < j /\ ~IsState(s[i]) /\ ~IsState(s[j]) => s[i].n < s[j].n
  /\ \A n \in a + 1 .. b : \E i \in 1 .. Len(s) : ~IsState(s[i]) /\ s[i].n = n

\* Nothing in s is for the extension itself, or the last that is says Disconnected.
Silent(s) == \A i \in 1 .. Len(s) : ~IsState(s[i])
Closes(s) ==
  \E i \in 1 .. Len(s) :
    s[i].state = "Disconnected" /\ \A j \in 1 .. Len(s) : i < j => ~IsState(s[j])

-----------------------------------------------------------------------------
(* Ends, messages and sequences of them.                                   *)

\* There are two ends.
LEMMA TwoEnds ==
  /\ \A e \in Ends : Other(e) \in Ends /\ Other(e) # e /\ Other(Other(e)) = e
  /\ \A e, f \in Ends : f = e \/ f = Other(e)
  BY DEF Ends, Other

\* A message is for the extension, with one of three states, or has a number.
LEMMA Kinds ==
  /\ \A m \in States : m \in Mail /\ IsState(m)
  /\ \A m \in Messages : m \in Mail /\ ~IsState(m) /\ m.n \in 1 .. MaxSent /\ m = Message(m.n)
  /\ \A m \in Mail : IF IsState(m) THEN m \in States ELSE m \in Messages
  /\ \A s \in {"Ready", "ReceivedCounterpart", "Disconnected"} : State(s) \in States /\ State(s).state = s
  /\ \A n \in 1 .. MaxSent : Message(n) \in Messages /\ Message(n).n = n
<1>1. \A m \in States : m.state \in {"Ready", "ReceivedCounterpart", "Disconnected"}
  BY DEF States, State
<1>2. \A m \in Messages : m.state = "Message" /\ m.n \in 1 .. MaxSent /\ m = Message(m.n)
  BY DEF Messages, Message
<1>3. \A m \in States : IsState(m)
  BY <1>1 DEF IsState
<1>4. \A m \in Messages : ~IsState(m)
  BY <1>2 DEF IsState
<1>5. \A s \in {"Ready", "ReceivedCounterpart", "Disconnected"} : State(s) \in States /\ State(s).state = s
  BY DEF States, State
<1>6. \A n \in 1 .. MaxSent : Message(n) \in Messages /\ Message(n).n = n
  BY DEF Messages, Message
<1> QED
  BY <1>2, <1>3, <1>4, <1>5, <1>6 DEF Mail

\* What Append, Tail and \o do, place by place.
Joined(s, t, u) ==
  \E l, k \in Nat :
    /\ l = Len(s) /\ k = Len(t) /\ Len(u) = l + k
    /\ \A i \in 1 .. l : u[i] = s[i]
    /\ \A i \in 1 .. k : u[l + i] = t[i]

Dropped(s, u) ==
  \E l \in Nat : /\ Len(s) = l + 1 /\ Len(u) = l
                 /\ \A i \in 1 .. l : u[i] = s[i + 1]

LEMMA Sequences ==
  ASSUME NEW M, NEW s \in Seq(M)
  PROVE  /\ Len(s) \in Nat
         /\ \A t \in Seq(M) : s \o t \in Seq(M) /\ Joined(s, t, s \o t)
         /\ \A m \in M : Append(s, m) \in Seq(M) /\ Joined(s, <<m>>, Append(s, m))
         /\ s # <<>> => /\ Head(s) = s[1] /\ Head(s) \in M /\ Tail(s) \in Seq(M)
                        /\ Dropped(s, Tail(s))
<1>1. Len(s) \in Nat
  BY LenProperties
<1>2. ASSUME NEW t \in Seq(M) PROVE s \o t \in Seq(M) /\ Joined(s, t, s \o t)
  <2>1. PICK l \in Nat, k \in Nat : l = Len(s) /\ k = Len(t)
    BY <1>1, LenProperties
  <2>2. /\ s \o t \in Seq(M) /\ Len(s \o t) = l + k
        /\ \A i \in 1 .. l + k : (s \o t)[i] = IF i <= l THEN s[i] ELSE t[i - l]
    BY <2>1, ConcatProperties
  <2>3. \A i \in 1 .. l : (s \o t)[i] = s[i]
    <3>1. \A i \in 1 .. l : i \in 1 .. l + k /\ i <= l
      OBVIOUS
    <3> QED
      BY <2>2, <3>1
  <2>4. \A i \in 1 .. k : (s \o t)[l + i] = t[i]
    <3>1. \A i \in 1 .. k : l + i \in 1 .. l + k /\ ~(l + i <= l) /\ (l + i) - l = i
      OBVIOUS
    <3> QED
      BY <2>2, <3>1
  <2> QED
    BY <2>1, <2>2, <2>3, <2>4 DEF Joined
<1>3. ASSUME NEW m \in M PROVE Append(s, m) \in Seq(M) /\ Joined(s, <<m>>, Append(s, m))
  <2>1. <<m>> \in Seq(M) /\ Append(s, m) = s \o <<m>>
    BY AppendIsConcat
  <2> QED
    BY <1>2, <2>1
<1>4. ASSUME s # <<>>
      PROVE  Head(s) = s[1] /\ Head(s) \in M /\ Tail(s) \in Seq(M) /\ Dropped(s, Tail(s))
  <2>1. Len(s) \in Nat \ {0}
    BY <1>4, EmptySeq
  <2>2. /\ Head(s) \in M /\ Tail(s) \in Seq(M) /\ Len(Tail(s)) = Len(s) - 1
        /\ \A i \in 1 .. Len(Tail(s)) : Tail(s)[i] = s[i + 1]
    BY <1>4, HeadTailProperties
  <2>3. PICK l \in Nat : Len(s) = l + 1
    BY <2>1
  <2>4. Dropped(s, Tail(s))
    BY <2>2, <2>3 DEF Dropped
  <2>5. Head(s) = s[1]
    BY <1>4
  <2> QED
    BY <2>2, <2>4, <2>5
<1> QED
  BY <1>1, <1>2, <1>3, <1>4

\* A sequence of numbered messages without its head.
LEMMA NumbersTail ==
  ASSUME NEW s, NEW u, Dropped(s, u), NEW a \in Nat, NEW b \in Nat, Numbers(s, a, b),
         \A i \in 1 .. Len(s) : ~IsState(s[i]) => s[i].n \in Nat
  PROVE  IF IsState(s[1]) THEN Numbers(u, a, b)
         ELSE s[1].n = a + 1 /\ a + 1 <= b /\ Numbers(u, a + 1, b)
<1>1. PICK l \in Nat : /\ Len(s) = l + 1 /\ Len(u) = l
                       /\ \A i \in 1 .. l : u[i] = s[i + 1]
  BY DEF Dropped
<1>2. /\ \A i \in 1 .. l + 1 : ~IsState(s[i]) => s[i].n \in a + 1 .. b
      /\ \A i, j \in 1 .. l + 1 : i < j /\ ~IsState(s[i]) /\ ~IsState(s[j]) => s[i].n < s[j].n
      /\ \A n \in a + 1 .. b : \E i \in 1 .. l + 1 : ~IsState(s[i]) /\ s[i].n = n
  BY <1>1 DEF Numbers
<1>3. /\ 1 \in 1 .. l + 1
      /\ \A i \in 1 .. l : i + 1 \in 1 .. l + 1 /\ 1 < i + 1
      /\ \A i, j \in 1 .. l : i < j => i + 1 < j + 1
      /\ \A i \in 1 .. l + 1 : i = 1 \/ (i - 1 \in 1 .. l /\ (i - 1) + 1 = i)
  OBVIOUS
<1>4. ASSUME NEW i \in 1 .. l, NEW j \in 1 .. l, i < j, ~IsState(u[i]), ~IsState(u[j])
      PROVE  u[i].n < u[j].n
  <2>1. u[i] = s[i + 1] /\ u[j] = s[j + 1]
    BY <1>1
  <2>2. i + 1 \in 1 .. l + 1 /\ j + 1 \in 1 .. l + 1 /\ i + 1 < j + 1
    BY <1>3, <1>4
  <2> QED
    BY <1>2, <1>4, <2>1, <2>2
<1>5. ASSUME NEW i \in 1 .. l, ~IsState(u[i]) PROVE u[i].n \in a + 1 .. b
  <2>1. u[i] = s[i + 1] /\ i + 1 \in 1 .. l + 1
    BY <1>1, <1>3
  <2> QED
    BY <1>2, <1>5, <2>1
<1>6. CASE IsState(s[1])
  <2>1. ASSUME NEW n \in a + 1 .. b PROVE \E i \in 1 .. l : ~IsState(u[i]) /\ u[i].n = n
    <3>1. PICK j \in 1 .. l + 1 : ~IsState(s[j]) /\ s[j].n = n
      BY <1>2
    <3>2. j - 1 \in 1 .. l /\ s[j] = u[j - 1]
      <4>1. j # 1
        BY <1>6, <3>1
      <4> QED
        BY <1>1, <1>3, <4>1
    <3> QED
      BY <3>1, <3>2
  <2> QED
    BY <1>1, <1>4, <1>5, <1>6, <2>1 DEF Numbers
<1>7. CASE ~IsState(s[1])
  <2>1. s[1].n \in a + 1 .. b /\ \A i \in 1 .. l : ~IsState(u[i]) => s[1].n < u[i].n
    BY <1>1, <1>2, <1>3, <1>7
  <2>2. a + 1 <= b /\ a + 1 \in a + 1 .. b
    BY <2>1
  <2>3. PICK i \in 1 .. l + 1 : ~IsState(s[i]) /\ s[i].n = a + 1
    BY <1>2, <2>2
  <2>4. s[1].n = a + 1
    <3>1. CASE i = 1
      BY <2>3, <3>1
    <3>2. CASE i # 1
      <4>1. s[1].n < s[i].n
        BY <1>2, <1>3, <1>7, <2>3, <3>2
      <4> QED
        BY <2>1, <2>3, <4>1
    <3> QED
      BY <3>1, <3>2
  <2>5. \A k \in 1 .. l : ~IsState(u[k]) => u[k].n \in (a + 1) + 1 .. b
    BY <1>5, <2>1, <2>4
  <2>6. \A n \in (a + 1) + 1 .. b : \E k \in 1 .. l : ~IsState(u[k]) /\ u[k].n = n
    <3>1. \A n \in (a + 1) + 1 .. b : n \in a + 1 .. b /\ n # a + 1
      OBVIOUS
    <3>2. ASSUME NEW n \in (a + 1) + 1 .. b PROVE \E k \in 1 .. l : ~IsState(u[k]) /\ u[k].n = n
      <4>1. PICK j \in 1 .. l + 1 : ~IsState(s[j]) /\ s[j].n = n
        BY <1>2, <3>1
      <4>2. j # 1
        BY <2>4, <3>1, <4>1
      <4>3. j - 1 \in 1 .. l /\ s[j] = u[j - 1]
        BY <1>1, <1>3, <4>2
      <4> QED
        BY <4>1, <4>3
    <3> QED
      BY <3>2
  <2> QED
    BY <1>1, <1>4, <1>7, <2>2, <2>4, <2>5, <2>6 DEF Numbers
<1> QED
  BY <1>6, <1>7

\* Two such sequences, one after the other.
LEMMA NumbersJoin ==
  ASSUME NEW s, NEW t, NEW u, Joined(s, t, u), NEW a \in Nat, NEW b \in Nat, NEW c \in Nat, a <= b, b <= c,
         Numbers(s, a, b), Numbers(t, b, c)
  PROVE  Numbers(u, a, c)
<1>1. PICK l \in Nat, k \in Nat :
        /\ l = Len(s) /\ k = Len(t) /\ Len(u) = l + k
        /\ \A i \in 1 .. l : u[i] = s[i]
        /\ \A i \in 1 .. k : u[l + i] = t[i]
  BY DEF Joined
<1>2. /\ \A i \in 1 .. l : ~IsState(s[i]) => s[i].n \in a + 1 .. b
      /\ \A i, j \in 1 .. l : i < j /\ ~IsState(s[i]) /\ ~IsState(s[j]) => s[i].n < s[j].n
      /\ \A n \in a + 1 .. b : \E i \in 1 .. l : ~IsState(s[i]) /\ s[i].n = n
  BY <1>1 DEF Numbers
<1>3. /\ \A i \in 1 .. k : ~IsState(t[i]) => t[i].n \in b + 1 .. c
      /\ \A i, j \in 1 .. k : i < j /\ ~IsState(t[i]) /\ ~IsState(t[j]) => t[i].n < t[j].n
      /\ \A n \in b + 1 .. c : \E i \in 1 .. k : ~IsState(t[i]) /\ t[i].n = n
  BY <1>1 DEF Numbers
<1>4. /\ \A i \in 1 .. l + k : i \in 1 .. l \/ (i - l \in 1 .. k /\ l + (i - l) = i)
      /\ \A i \in 1 .. l : i \in 1 .. l + k
      /\ \A i \in 1 .. k : l + i \in 1 .. l + k
      /\ \A n \in a + 1 .. c : n \in a + 1 .. b \/ n \in b + 1 .. c
      /\ \A n \in a + 1 .. b : n \in a + 1 .. c /\ n \in Int /\ n <= b
      /\ \A n \in b + 1 .. c : n \in a + 1 .. c /\ n \in Int /\ b < n
  OBVIOUS
<1>5. \A i \in 1 .. l + k : ~IsState(u[i]) => u[i].n \in a + 1 .. c
  <2> SUFFICES ASSUME NEW i \in 1 .. l + k, ~IsState(u[i]) PROVE u[i].n \in a + 1 .. c
    OBVIOUS
  <2>1. CASE i \in 1 .. l
    <3>1. u[i].n \in a + 1 .. b
      BY <1>1, <1>2, <2>1
    <3> QED
      BY <1>4, <3>1
  <2>2. CASE i \notin 1 .. l
    <3>1. i - l \in 1 .. k /\ u[i] = t[i - l]
      BY <1>1, <1>4, <2>2
    <3>2. u[i].n \in b + 1 .. c
      BY <1>3, <3>1
    <3> QED
      BY <1>4, <3>2
  <2> QED
    BY <2>1, <2>2
<1>6. \A n \in a + 1 .. c : \E i \in 1 .. l + k : ~IsState(u[i]) /\ u[i].n = n
  <2> SUFFICES ASSUME NEW n \in a + 1 .. c PROVE \E i \in 1 .. l + k : ~IsState(u[i]) /\ u[i].n = n
    OBVIOUS
  <2>1. CASE n \in a + 1 .. b
    <3>1. PICK i \in 1 .. l : ~IsState(s[i]) /\ s[i].n = n
      BY <1>2, <2>1
    <3>2. i \in 1 .. l + k /\ u[i] = s[i]
      BY <1>1, <1>4
    <3> QED
      BY <3>1, <3>2
  <2>2. CASE n \in b + 1 .. c
    <3>1. PICK i \in 1 .. k : ~IsState(t[i]) /\ t[i].n = n
      BY <1>3, <2>2
    <3>2. l + i \in 1 .. l + k /\ u[l + i] = t[i]
      BY <1>1, <1>4
    <3> QED
      BY <3>1, <3>2
  <2> QED
    BY <1>4, <2>1, <2>2
<1>7. ASSUME NEW i \in 1 .. l + k, NEW j \in 1 .. l + k, i < j, ~IsState(u[i]), ~IsState(u[j])
      PROVE  u[i].n < u[j].n
  <2>1. CASE i \in 1 .. l /\ j \in 1 .. l
    BY <1>1, <1>2, <1>7, <2>1
  <2>2. CASE i \in 1 .. l /\ j \notin 1 .. l
    <3>1. j - l \in 1 .. k /\ u[j] = t[j - l] /\ u[i] = s[i]
      BY <1>1, <1>4, <2>2
    <3>2. u[i].n \in a + 1 .. b /\ u[j].n \in b + 1 .. c
      BY <1>2, <1>3, <1>7, <2>2, <3>1
    <3> QED
      BY <3>2
  <2>3. CASE i \notin 1 .. l
    <3>1. j \notin 1 .. l /\ i - l < j - l
      BY <1>7, <2>3
    <3>2. i - l \in 1 .. k /\ j - l \in 1 .. k /\ u[i] = t[i - l] /\ u[j] = t[j - l]
      BY <1>1, <1>4, <2>3, <3>1
    <3> QED
      BY <1>3, <1>7, <3>1, <3>2
  <2> QED
    BY <2>1, <2>2, <2>3
<1> QED
  BY <1>1, <1>5, <1>6, <1>7 DEF Numbers

\* One more message for the extension, or the next one of the members.
LEMMA NumbersOne ==
  ASSUME NEW m \in Mail, NEW b \in Nat
  PROVE  /\ IsState(m) => Numbers(<<m>>, b, b)
         /\ ~IsState(m) /\ m.n = b + 1 => Numbers(<<m>>, b, b + 1)
<1>1. Len(<<m>>) = 1 /\ <<m>>[1] = m
  OBVIOUS
<1>2. 1 .. 1 = {1} /\ b + 1 .. b = {} /\ b + 1 .. b + 1 = {b + 1}
  OBVIOUS
<1> QED
  BY <1>1, <1>2 DEF Numbers

LEMMA NumbersNone == \A b \in Nat : Numbers(<<>>, b, b)
<1>1. Len(<<>>) = 0 /\ 1 .. 0 = {} /\ \A b \in Nat : b + 1 .. b = {}
  OBVIOUS
<1> QED
  BY <1>1 DEF Numbers

\* What was last said for the extension, without the head and with more behind it.
LEMMA ClosesTail ==
  ASSUME NEW s, NEW u, Dropped(s, u)
  PROVE  /\ Silent(s) => Silent(u) /\ ~IsState(s[1])
         /\ Closes(s) => Closes(u) \/ (s[1].state = "Disconnected" /\ Silent(u))
<1>1. PICK l \in Nat : /\ Len(s) = l + 1 /\ Len(u) = l
                       /\ \A i \in 1 .. l : u[i] = s[i + 1]
  BY DEF Dropped
<1>2. /\ 1 \in 1 .. l + 1
      /\ \A i \in 1 .. l : i + 1 \in 1 .. l + 1 /\ 1 < i + 1
      /\ \A i, j \in 1 .. l : i < j => i + 1 < j + 1
      /\ \A i \in 1 .. l + 1 : i = 1 \/ (i - 1 \in 1 .. l /\ (i - 1) + 1 = i)
  OBVIOUS
<1>3. Silent(s) => Silent(u) /\ ~IsState(s[1])
  BY <1>1, <1>2 DEF Silent
<1>4. ASSUME Closes(s) PROVE Closes(u) \/ (s[1].state = "Disconnected" /\ Silent(u))
  <2>1. PICK i \in 1 .. l + 1 : s[i].state = "Disconnected" /\ \A j \in 1 .. l + 1 : i < j => ~IsState(s[j])
    BY <1>1, <1>4 DEF Closes
  <2>2. CASE i = 1
    BY <1>1, <1>2, <2>1, <2>2 DEF Silent
  <2>3. CASE i # 1
    <3>1. PICK k \in 1 .. l : i = k + 1
      BY <1>2, <2>3
    <3>2. u[k].state = "Disconnected" /\ \A j \in 1 .. l : k < j => ~IsState(u[j])
      BY <1>1, <1>2, <2>1, <3>1
    <3> QED
      BY <1>1, <3>2 DEF Closes
  <2> QED
    BY <2>2, <2>3
<1> QED
  BY <1>3, <1>4

LEMMA ClosesJoin ==
  ASSUME NEW s, NEW t, NEW u, Joined(s, t, u)
  PROVE  /\ Silent(s) /\ Silent(t) => Silent(u)
         /\ Closes(s) /\ Silent(t) => Closes(u)
         /\ Closes(t) => Closes(u)
<1>1. PICK l \in Nat, k \in Nat :
        /\ l = Len(s) /\ k = Len(t) /\ Len(u) = l + k
        /\ \A i \in 1 .. l : u[i] = s[i]
        /\ \A i \in 1 .. k : u[l + i] = t[i]
  BY DEF Joined
<1>2. /\ \A i \in 1 .. l + k : i \in 1 .. l \/ (i - l \in 1 .. k /\ l + (i - l) = i)
      /\ \A i \in 1 .. l : i \in 1 .. l + k
      /\ \A i \in 1 .. k : l + i \in 1 .. l + k
      /\ \A i \in 1 .. k, j \in 1 .. l + k :
           l + i < j => j - l \in 1 .. k /\ l + (j - l) = j /\ i < j - l
  OBVIOUS
<1>3. ASSUME NEW j \in 1 .. l + k
      PROVE  \/ j \in 1 .. l /\ u[j] = s[j]
             \/ j - l \in 1 .. k /\ l + (j - l) = j /\ u[j] = t[j - l]
  BY <1>1, <1>2
<1>4. ASSUME Silent(s), Silent(t) PROVE Silent(u)
  <2>1. ASSUME NEW j \in 1 .. l + k PROVE ~IsState(u[j])
    BY <1>1, <1>3, <1>4 DEF Silent
  <2> QED
    BY <1>1, <2>1 DEF Silent
<1>5. ASSUME Closes(s), Silent(t) PROVE Closes(u)
  <2>1. PICK i \in 1 .. l : s[i].state = "Disconnected" /\ \A j \in 1 .. l : i < j => ~IsState(s[j])
    BY <1>1, <1>5 DEF Closes
  <2>2. ASSUME NEW j \in 1 .. l + k, i < j PROVE ~IsState(u[j])
    BY <1>1, <1>3, <1>5, <2>1, <2>2 DEF Silent
  <2> QED
    BY <1>1, <1>2, <2>1, <2>2 DEF Closes
<1>6. ASSUME Closes(t) PROVE Closes(u)
  <2>1. PICK i \in 1 .. k : t[i].state = "Disconnected" /\ \A j \in 1 .. k : i < j => ~IsState(t[j])
    BY <1>1, <1>6 DEF Closes
  <2>2. ASSUME NEW j \in 1 .. l + k, l + i < j PROVE ~IsState(u[j])
    <3>1. j - l \in 1 .. k /\ l + (j - l) = j /\ i < j - l
      BY <1>2, <2>2
    <3>2. u[j] = t[j - l]
      <4>1. u[l + (j - l)] = t[j - l]
        BY <1>1, <3>1
      <4> QED
        BY <3>1, <4>1
    <3> QED
      BY <2>1, <3>1, <3>2
  <2> QED
    BY <1>1, <1>2, <2>1, <2>2 DEF Closes
<1> QED
  BY <1>4, <1>5, <1>6

LEMMA ClosesOne ==
  ASSUME NEW m \in Mail
  PROVE  /\ ~IsState(m) => Silent(<<m>>)
         /\ m.state = "Disconnected" => Closes(<<m>>)
<1>1. Len(<<m>>) = 1 /\ <<m>>[1] = m /\ 1 .. 1 = {1}
  OBVIOUS
<1> QED
  BY <1>1 DEF Silent, Closes

LEMMA NumbersTyped ==
  ASSUME NEW s \in Seq(Mail)
  PROVE  \A i \in 1 .. Len(s) : ~IsState(s[i]) => s[i].n \in Nat
<1>1. \A i \in 1 .. Len(s) : s[i] \in Mail
  BY ElementOfSeq
<1> QED
  BY <1>1, Kinds, SentAssumption

-----------------------------------------------------------------------------
(* The invariant.                                                          *)

Types ==
  /\ TypeOK
  /\ got \in [Ends -> Seq(Nat)] /\ lost \in [Ends -> Seq(Nat)]

\* Before e is bound, nothing of it has reached f, so f does not send anything either.
Unheard(e, f) ==
  phase[e] = "new" =>
    /\ \A g \in {e, f} : ~connected[g] /\ draining[g] = {} /\ sending[g] = 0 /\ kept[g] = <<>>
    /\ net[f] = <<>> /\ queue[f] = <<>>
    /\ \A i \in 1 .. Len(net[e]) : IsState(net[e][i])
    /\ \A i \in 1 .. Len(queue[e]) : IsState(queue[e][i])

Early(e) == lost[e] # <<>> => phase[e] \in {"closing", "closed"}

Handled(e) == Len(got[e]) + Len(lost[e])

\* The messages from f to e that the default scheduler of e has not run: up to b they are in
\* its queue, up to c on the parent wire, and the rest have not left f.
Flow(e, f, b, c) ==
  /\ Handled(e) <= b /\ b <= c /\ c <= sent[f]
  /\ Numbers(queue[e], Handled(e), b)
  /\ Numbers(net[e], b, c)
  /\ IF sending[f] = 0 THEN Numbers(sendQ[f], c, sent[f])
     ELSE sending[f] = c + 1 /\ sent[f] = c + 1 /\ sendQ[f] = <<>>

Ordered(e, f) ==
  /\ \A i \in 1 .. Len(got[e]) : got[e][i] = i
  /\ \E b, c \in Nat : Flow(e, f, b, c)

\* Once e has been unbound, the last that f will handle is Disconnected, or f has handled it.
Told(e, f) ==
  e \notin late /\ phase[e] \in {"closing", "closed"} /\ phase[f] \notin {"closing", "closed"} =>
    \/ Closes(net[f])
    \/ /\ Silent(net[f])
       /\ \/ Closes(kept[f])
          \/ /\ kept[f] = <<>>
             /\ Closes(queue[f]) \/ (Silent(queue[f]) /\ ~connected[f])

Side(e, f) == Unheard(e, f) /\ Early(e) /\ Ordered(e, f) /\ Told(e, f)

ExtInv == Types /\ \A e \in Ends : Side(e, Other(e))

\* What the types say of one end.
LEMMA TypesAt ==
  ASSUME Types, NEW e \in Ends
  PROVE  /\ phase[e] \in {"new", "advised", "ready", "bound", "closing", "closed"}
         /\ connected[e] \in BOOLEAN /\ draining[e] \subseteq {"wire", "default"}
         /\ sendQ[e] \in Seq(Messages) /\ sendQ[e] \in Seq(Mail)
         /\ sent[e] \in Nat /\ sent[e] <= MaxSent /\ sending[e] \in Nat /\ sending[e] <= MaxSent
         /\ net[e] \in Seq(Mail) /\ queue[e] \in Seq(Mail)
         /\ kept[e] \in Seq(States) /\ kept[e] \in Seq(Mail)
         /\ got[e] \in Seq(Nat) /\ lost[e] \in Seq(Nat)
         /\ Len(got[e]) \in Nat /\ Len(lost[e]) \in Nat /\ Handled(e) \in Nat
<1>1. /\ phase[e] \in {"new", "advised", "ready", "bound", "closing", "closed"}
      /\ connected[e] \in BOOLEAN /\ draining[e] \subseteq {"wire", "default"}
      /\ sendQ[e] \in Seq(Messages)
      /\ sent[e] \in 0 .. MaxSent /\ sending[e] \in 0 .. MaxSent
      /\ net[e] \in Seq(Mail) /\ queue[e] \in Seq(Mail)
      /\ kept[e] \in Seq(States)
      /\ got[e] \in Seq(Nat) /\ lost[e] \in Seq(Nat)
  BY DEF Types, TypeOK, Mail
<1>2. States \subseteq Mail /\ Messages \subseteq Mail
  BY DEF Mail
<1>3. sendQ[e] \in Seq(Mail) /\ kept[e] \in Seq(Mail)
  BY <1>1, <1>2, SeqMonotonic
<1>4. Len(got[e]) \in Nat /\ Len(lost[e]) \in Nat
  BY <1>1, LenProperties
<1>5. Handled(e) \in Nat
  <2>1. PICK g \in Nat, l \in Nat : g = Len(got[e]) /\ l = Len(lost[e])
    BY <1>4
  <2>2. g + l \in Nat
    OBVIOUS
  <2> QED
    BY <2>1, <2>2 DEF Handled
<1>6. sent[e] \in Nat /\ sent[e] <= MaxSent /\ sending[e] \in Nat /\ sending[e] <= MaxSent
  BY <1>1, SentAssumption
<1> QED
  BY <1>1, <1>3, <1>4, <1>5, <1>6

-----------------------------------------------------------------------------
(* The order of the messages from f to e.                                  *)

AtReceiver(e) == queue'[e] = queue[e] /\ got'[e] = got[e] /\ lost'[e] = lost[e]
AtSender(f) == sent'[f] = sent[f] /\ sending'[f] = sending[f] /\ sendQ'[f] = sendQ[f]

\* Nothing happens to them, but the extension may say something.
SaysMore(e) == net'[e] = net[e] \/ \E m \in States : net'[e] = Append(net[e], m)

LEMMA OrderedFrame ==
  ASSUME Types, NEW e \in Ends, NEW f \in Ends, Ordered(e, f), AtReceiver(e), AtSender(f), SaysMore(e)
  PROVE  Ordered(e, f)'
<1>1. PICK b \in Nat, c \in Nat : Flow(e, f, b, c)
  BY DEF Ordered
<1>2. net[e] \in Seq(Mail)
  BY TypesAt
<1>3. Numbers(net'[e], b, c)
  <2>1. Numbers(net[e], b, c) /\ b <= c
    BY <1>1 DEF Flow
  <2>2. CASE net'[e] = net[e]
    BY <2>1, <2>2
  <2>3. CASE net'[e] # net[e]
    <3>1. PICK m \in States : net'[e] = Append(net[e], m)
      BY <2>3 DEF SaysMore
    <3>2. m \in Mail /\ IsState(m)
      BY Kinds
    <3>3. Numbers(<<m>>, c, c)
      BY <3>2, NumbersOne
    <3>4. Joined(net[e], <<m>>, net'[e])
      BY <1>2, <3>1, <3>2, Sequences
    <3> QED
      BY <2>1, <3>3, <3>4, NumbersJoin
  <2> QED
    BY <2>2, <2>3
<1>4. Handled(e)' = Handled(e)
  BY DEF Handled, AtReceiver
<1>5. Flow(e, f, b, c)'
  BY <1>1, <1>3, <1>4 DEF Flow, AtReceiver, AtSender
<1> QED
  BY <1>5 DEF Ordered, AtReceiver

\* The receiver thread takes one that is queued ...
LEMMA OrderedQueues ==
  ASSUME Types, NEW e \in Ends, NEW f \in Ends, Ordered(e, f), AtSender(f),
         got'[e] = got[e], lost'[e] = lost[e],
         net[e] # <<>>, net'[e] = Tail(net[e]), queue'[e] = Append(queue[e], Head(net[e]))
  PROVE  Ordered(e, f)'
<1>1. PICK b \in Nat, c \in Nat : Flow(e, f, b, c)
  BY DEF Ordered
<1>2. /\ net[e] \in Seq(Mail) /\ queue[e] \in Seq(Mail) /\ Handled(e) \in Nat
      /\ Handled(e)' = Handled(e)
  BY TypesAt DEF Handled
<1>3. /\ Handled(e) <= b /\ b <= c /\ c <= sent[f]
      /\ Numbers(queue[e], Handled(e), b) /\ Numbers(net[e], b, c)
      /\ IF sending[f] = 0 THEN Numbers(sendQ[f], c, sent[f])
         ELSE sending[f] = c + 1 /\ sent[f] = c + 1 /\ sendQ[f] = <<>>
  BY <1>1 DEF Flow
<1>4. PICK m \in Mail : m = Head(net[e]) /\ m = net[e][1]
  BY <1>2, Sequences
<1>5. Dropped(net[e], net'[e]) /\ Joined(queue[e], <<m>>, queue'[e])
  BY <1>2, <1>4, Sequences
<1>6. CASE IsState(m)
  <2>1. Numbers(net'[e], b, c)
    BY <1>2, <1>3, <1>4, <1>5, <1>6, NumbersTail, NumbersTyped
  <2>2. Numbers(<<m>>, b, b)
    BY <1>6, NumbersOne
  <2>3. Numbers(queue'[e], Handled(e), b)
    BY <1>2, <1>3, <1>5, <2>2, NumbersJoin
  <2>4. Flow(e, f, b, c)'
    BY <1>2, <1>3, <2>1, <2>3 DEF Flow, AtSender
  <2> QED
    BY <2>4 DEF Ordered
<1>7. CASE ~IsState(m)
  <2>1. m.n = b + 1 /\ b + 1 <= c /\ Numbers(net'[e], b + 1, c)
    BY <1>2, <1>3, <1>4, <1>5, <1>7, NumbersTail, NumbersTyped
  <2>2. Numbers(<<m>>, b, b + 1)
    BY <1>7, <2>1, NumbersOne
  <2>3. PICK d \in Nat : d = b + 1 /\ b <= d /\ d <= c /\ Handled(e) <= d
    BY <1>2, <1>3, <2>1
  <2>4. Numbers(queue'[e], Handled(e), d)
    BY <1>2, <1>3, <1>5, <2>2, <2>3, NumbersJoin
  <2>5. Flow(e, f, d, c)'
    BY <1>2, <1>3, <2>1, <2>3, <2>4 DEF Flow, AtSender
  <2> QED
    BY <2>5 DEF Ordered
<1> QED
  BY <1>6, <1>7

\* ... or one for the extension, which it handles or keeps, or drops it.
LEMMA OrderedTakes ==
  ASSUME Types, NEW e \in Ends, NEW f \in Ends, Ordered(e, f), AtReceiver(e), AtSender(f),
         net[e] # <<>>, IsState(Head(net[e])), net'[e] = Tail(net[e])
  PROVE  Ordered(e, f)'
<1>1. PICK b \in Nat, c \in Nat : Flow(e, f, b, c)
  BY DEF Ordered
<1>2. net[e] \in Seq(Mail)
  BY TypesAt
<1>3. Dropped(net[e], net'[e]) /\ IsState(net[e][1])
  BY <1>2, Sequences
<1>4. Numbers(net[e], b, c)
  BY <1>1 DEF Flow
<1>5. Numbers(net'[e], b, c)
  BY <1>2, <1>3, <1>4, NumbersTail, NumbersTyped
<1>6. Handled(e)' = Handled(e)
  BY DEF Handled, AtReceiver
<1>7. Flow(e, f, b, c)'
  BY <1>1, <1>5, <1>6 DEF Flow, AtReceiver, AtSender
<1> QED
  BY <1>7 DEF Ordered, AtReceiver

\* The default scheduler runs one for the extension ...
LEMMA OrderedRuns ==
  ASSUME Types, NEW e \in Ends, NEW f \in Ends, Ordered(e, f), AtSender(f), net'[e] = net[e],
         got'[e] = got[e], lost'[e] = lost[e],
         queue[e] # <<>>, IsState(Head(queue[e])), queue'[e] = Tail(queue[e])
  PROVE  Ordered(e, f)'
<1>1. PICK b \in Nat, c \in Nat : Flow(e, f, b, c)
  BY DEF Ordered
<1>2. queue[e] \in Seq(Mail) /\ Handled(e) \in Nat
  BY TypesAt
<1>3. Dropped(queue[e], queue'[e]) /\ IsState(queue[e][1])
  BY <1>2, Sequences
<1>4. Numbers(queue[e], Handled(e), b)
  BY <1>1 DEF Flow
<1>5. Numbers(queue'[e], Handled(e), b)
  BY <1>2, <1>3, <1>4, NumbersTail, NumbersTyped
<1>6. Handled(e)' = Handled(e)
  BY DEF Handled
<1>7. Flow(e, f, b, c)'
  BY <1>1, <1>5, <1>6 DEF Flow, AtSender
<1> QED
  BY <1>7 DEF Ordered

\* ... or one for the members: it is the next one.
LEMMA OrderedDelivers ==
  ASSUME Types, NEW e \in Ends, NEW f \in Ends, Ordered(e, f), AtSender(f), net'[e] = net[e],
         queue[e] # <<>>, ~IsState(Head(queue[e])), queue'[e] = Tail(queue[e]),
         \/ lost[e] = <<>> /\ lost'[e] = lost[e] /\ got'[e] = Append(got[e], Head(queue[e]).n)
         \/ got'[e] = got[e] /\ lost'[e] = Append(lost[e], Head(queue[e]).n)
  PROVE  Ordered(e, f)'
<1>1. PICK b \in Nat, c \in Nat : Flow(e, f, b, c)
  BY DEF Ordered
<1>2. /\ queue[e] \in Seq(Mail) /\ Handled(e) \in Nat
      /\ got[e] \in Seq(Nat) /\ lost[e] \in Seq(Nat) /\ Len(got[e]) \in Nat /\ Len(lost[e]) \in Nat
  BY TypesAt
<1>3. /\ Dropped(queue[e], queue'[e]) /\ ~IsState(queue[e][1]) /\ Head(queue[e]) = queue[e][1]
  BY <1>2, Sequences
<1>4. PICK n : n = Head(queue[e]).n
  OBVIOUS
<1>5. Numbers(queue[e], Handled(e), b) /\ Handled(e) <= b
  BY <1>1 DEF Flow
<1>6. n = Handled(e) + 1 /\ Handled(e) + 1 <= b /\ Numbers(queue'[e], Handled(e) + 1, b)
  BY <1>2, <1>3, <1>4, <1>5, NumbersTail, NumbersTyped
<1>7. /\ Handled(e)' = Handled(e) + 1
      /\ \A i \in 1 .. Len(got'[e]) : got'[e][i] = i
  <2>1. n \in Nat
    BY <1>2, <1>6
  <2>2. \A i \in 1 .. Len(got[e]) : got[e][i] = i
    BY DEF Ordered
  <2>3. PICK g \in Nat, l \in Nat : g = Len(got[e]) /\ l = Len(lost[e]) /\ Handled(e) = g + l
    BY <1>2 DEF Handled
  <2>4. CASE lost[e] = <<>> /\ lost'[e] = lost[e] /\ got'[e] = Append(got[e], n)
    <3>1. /\ Len(got'[e]) = g + 1
          /\ \A i \in 1 .. g + 1 : got'[e][i] = IF i = g + 1 THEN n ELSE got[e][i]
      BY <1>2, <2>1, <2>3, <2>4, AppendProperties
    <3>2. l = 0 /\ Len(lost'[e]) = 0
      BY <2>3, <2>4
    <3>3. \A i \in 1 .. g + 1 : i = g + 1 \/ i \in 1 .. g
      OBVIOUS
    <3>4. n = g + 1 /\ Handled(e) + 1 = (g + 1) + 0
      BY <1>6, <2>3, <3>2
    <3>5. \A i \in 1 .. g + 1 : got'[e][i] = i
      BY <2>2, <2>3, <3>1, <3>3, <3>4
    <3> QED
      BY <3>1, <3>2, <3>4, <3>5 DEF Handled
  <2>5. CASE got'[e] = got[e] /\ lost'[e] = Append(lost[e], n)
    <3>1. Len(lost'[e]) = l + 1
      BY <1>2, <2>1, <2>3, <2>5, AppendProperties
    <3>2. Handled(e) + 1 = g + (l + 1)
      <4>1. (g + l) + 1 = g + (l + 1)
        OBVIOUS
      <4> QED
        BY <2>3, <4>1
    <3>3. Handled(e)' = Handled(e) + 1
      BY <2>3, <2>5, <3>1, <3>2 DEF Handled
    <3> QED
      BY <2>2, <2>5, <3>3
  <2> QED
    BY <1>4, <2>4, <2>5
<1>8. Flow(e, f, b, c)'
  BY <1>1, <1>6, <1>7 DEF Flow, AtSender
<1> QED
  BY <1>7, <1>8 DEF Ordered

\* The members of f send: directly, if nothing is waiting and f knows of e ...
LEMMA OrderedBegins ==
  ASSUME Types, NEW e \in Ends, NEW f \in Ends, Ordered(e, f), AtReceiver(e), net'[e] = net[e],
         sending[f] = 0, sent[f] < MaxSent, sent'[f] = sent[f] + 1,
         \/ sendQ'[f] = Append(sendQ[f], Message(sent[f] + 1)) /\ sending'[f] = sending[f]
         \/ sendQ[f] = <<>> /\ sendQ'[f] = sendQ[f] /\ sending'[f] = sent[f] + 1
  PROVE  Ordered(e, f)'
<1>1. PICK b \in Nat, c \in Nat : Flow(e, f, b, c)
  BY DEF Ordered
<1>2. /\ sendQ[f] \in Seq(Mail) /\ sent[f] \in Nat /\ Handled(e) \in Nat
      /\ Handled(e)' = Handled(e)
  BY TypesAt DEF Handled, AtReceiver
<1>3. /\ Handled(e) <= b /\ b <= c /\ c <= sent[f]
      /\ Numbers(queue[e], Handled(e), b) /\ Numbers(net[e], b, c)
      /\ Numbers(sendQ[f], c, sent[f])
  BY <1>1 DEF Flow
<1>4. PICK n \in Nat : n = sent[f] + 1
  BY <1>2
<1>5. n \in 1 .. MaxSent /\ c <= n /\ sent[f] <= n /\ n # 0
  BY <1>2, <1>3, <1>4, SentAssumption
<1>6. CASE sendQ'[f] = Append(sendQ[f], Message(sent[f] + 1)) /\ sending'[f] = sending[f]
  <2>1. PICK m \in Mail : m = Message(n) /\ ~IsState(m) /\ m.n = n
    BY <1>5, Kinds
  <2>2. Joined(sendQ[f], <<m>>, sendQ'[f])
    BY <1>2, <1>4, <1>6, <2>1, Sequences
  <2>3. Numbers(<<m>>, sent[f], n)
    BY <1>2, <1>4, <2>1, NumbersOne
  <2>4. Numbers(sendQ'[f], c, n)
    BY <1>2, <1>3, <1>5, <2>2, <2>3, NumbersJoin
  <2>5. Flow(e, f, b, c)'
    BY <1>2, <1>3, <1>4, <1>5, <1>6, <2>4 DEF Flow, AtReceiver
  <2> QED
    BY <2>5 DEF Ordered, AtReceiver
<1>7. CASE sendQ[f] = <<>> /\ sendQ'[f] = sendQ[f] /\ sending'[f] = sent[f] + 1
  <2>1. c = sent[f]
    <3>1. 1 .. Len(sendQ[f]) = {}
      BY <1>7
    <3>2. \A k \in c + 1 .. sent[f] : FALSE
      BY <1>3, <3>1 DEF Numbers
    <3> QED
      BY <1>2, <1>3, <3>2
  <2>2. sending'[f] = c + 1 /\ sent'[f] = c + 1 /\ sendQ'[f] = <<>> /\ c <= c + 1 /\ sending'[f] # 0
    BY <1>7, <2>1
  <2>3. Flow(e, f, b, c)'
    BY <1>2, <1>3, <2>2 DEF Flow, AtReceiver
  <2> QED
    BY <2>3 DEF Ordered, AtReceiver
<1> QED
  BY <1>6, <1>7

LEMMA OrderedDirect ==
  ASSUME Types, NEW e \in Ends, NEW f \in Ends, Ordered(e, f), AtReceiver(e),
         sending[f] # 0, sending'[f] = 0, sent'[f] = sent[f], sendQ'[f] = sendQ[f],
         net'[e] = Append(net[e], Message(sending[f]))
  PROVE  Ordered(e, f)'
<1>1. PICK b \in Nat, c \in Nat : Flow(e, f, b, c)
  BY DEF Ordered
<1>2. /\ net[e] \in Seq(Mail) /\ sending[f] \in Nat /\ sending[f] <= MaxSent
      /\ Handled(e)' = Handled(e)
  BY TypesAt DEF Handled, AtReceiver
<1>3. /\ Handled(e) <= b /\ b <= c /\ c <= sent[f]
      /\ Numbers(queue[e], Handled(e), b) /\ Numbers(net[e], b, c)
      /\ sending[f] = c + 1 /\ sent[f] = c + 1 /\ sendQ[f] = <<>>
  BY <1>1 DEF Flow
<1>4. PICK d \in Nat : d = c + 1 /\ b <= d /\ c <= d /\ d = sending[f] /\ d \in 1 .. MaxSent
  BY <1>2, <1>3, SentAssumption
<1>5. PICK m \in Mail : m = Message(d) /\ ~IsState(m) /\ m.n = d
  BY <1>4, Kinds
<1>6. Joined(net[e], <<m>>, net'[e])
  BY <1>2, <1>4, <1>5, Sequences
<1>7. Numbers(<<m>>, c, d)
  BY <1>4, <1>5, NumbersOne
<1>8. Numbers(net'[e], b, d)
  BY <1>3, <1>4, <1>6, <1>7, NumbersJoin
<1>9. Numbers(sendQ'[f], d, sent'[f]) /\ d <= sent'[f]
  BY <1>3, <1>4, NumbersNone
<1>10. Flow(e, f, b, d)'
  BY <1>2, <1>3, <1>4, <1>8, <1>9 DEF Flow, AtReceiver
<1> QED
  BY <1>10 DEF Ordered, AtReceiver

\* ... or later, when a thread empties sendQ.
LEMMA OrderedDrains ==
  ASSUME Types, NEW e \in Ends, NEW f \in Ends, Ordered(e, f), AtReceiver(e),
         sending'[f] = sending[f], sent'[f] = sent[f], sendQ'[f] = <<>>,
         net'[e] = net[e] \o sendQ[f]
  PROVE  Ordered(e, f)'
<1>1. PICK b \in Nat, c \in Nat : Flow(e, f, b, c)
  BY DEF Ordered
<1>2. /\ net[e] \in Seq(Mail) /\ sendQ[f] \in Seq(Mail) /\ sent[f] \in Nat
      /\ Handled(e) \in Nat /\ Handled(e)' = Handled(e)
  BY TypesAt DEF Handled, AtReceiver
<1>3. /\ Handled(e) <= b /\ b <= c /\ c <= sent[f]
      /\ Numbers(queue[e], Handled(e), b) /\ Numbers(net[e], b, c)
      /\ IF sending[f] = 0 THEN Numbers(sendQ[f], c, sent[f])
         ELSE sending[f] = c + 1 /\ sent[f] = c + 1 /\ sendQ[f] = <<>>
  BY <1>1 DEF Flow
<1>4. Joined(net[e], sendQ[f], net'[e])
  BY <1>2, Sequences
<1>5. CASE sending[f] = 0
  <2>1. Numbers(net'[e], b, sent[f]) /\ b <= sent[f]
    BY <1>2, <1>3, <1>4, <1>5, NumbersJoin
  <2>2. Numbers(sendQ'[f], sent[f], sent[f])
    BY <1>2, NumbersNone
  <2>3. Flow(e, f, b, sent[f])'
    BY <1>2, <1>3, <1>5, <2>1, <2>2 DEF Flow, AtReceiver
  <2> QED
    BY <1>2, <2>3 DEF Ordered, AtReceiver
<1>6. CASE sending[f] # 0
  <2>1. Numbers(sendQ[f], c, c)
    BY <1>3, <1>6, NumbersNone
  <2>2. Numbers(net'[e], b, c)
    BY <1>3, <1>4, <2>1, NumbersJoin
  <2>3. Flow(e, f, b, c)'
    BY <1>2, <1>3, <1>6, <2>2 DEF Flow, AtReceiver
  <2> QED
    BY <2>3 DEF Ordered, AtReceiver
<1> QED
  BY <1>5, <1>6

-----------------------------------------------------------------------------
(* What is told of the end of f, and what is not heard before its begin.   *)

Pair(e, f) == e \in Ends /\ f \in Ends /\ f = Other(e) /\ e = Other(f) /\ e # f

\* Nothing about the extension changes on its way to e, and e does not handle anything.
SaysNothing(e) ==
  /\ net'[e] = net[e] \/ \E t \in Seq(Mail) : Silent(t) /\ net'[e] = net[e] \o t
  /\ kept'[e] = kept[e] /\ queue'[e] = queue[e] /\ connected'[e] = connected[e]

LEMMA ToldFrame ==
  ASSUME Types, NEW f \in Ends, NEW e \in Ends, Told(f, e), SaysNothing(e), late \subseteq late',
         phase'[f] \in {"closing", "closed"} => phase[f] \in {"closing", "closed"},
         phase[e] \in {"closing", "closed"} => phase'[e] \in {"closing", "closed"}
  PROVE  Told(f, e)'
<1>1. /\ Silent(net[e]) => Silent(net'[e])
      /\ Closes(net[e]) => Closes(net'[e])
  <2>1. CASE net'[e] = net[e]
    BY <2>1
  <2>2. CASE net'[e] # net[e]
    <3>1. PICK t \in Seq(Mail) : Silent(t) /\ net'[e] = net[e] \o t
      BY <2>2 DEF SaysNothing
    <3>2. Joined(net[e], t, net'[e])
      BY <3>1, TypesAt, Sequences
    <3> QED
      BY <3>1, <3>2, ClosesJoin
  <2> QED
    BY <2>1, <2>2
<1>2. kept'[e] = kept[e] /\ queue'[e] = queue[e] /\ connected'[e] = connected[e]
  BY DEF SaysNothing
<1> QED
  BY <1>1, <1>2 DEF Told

\* When both have been bound there is nothing to say of an end that has not.
LEMMA UnheardFrame ==
  ASSUME NEW e, NEW f, phase' = phase, phase[e] # "new", phase[f] # "new"
  PROVE  Unheard(e, f)' /\ Unheard(f, e)'
BY DEF Unheard

LEMMA OneMore ==
  ASSUME NEW s \in Seq(Mail), NEW m \in Mail
  PROVE  /\ Append(s, m) \in Seq(Mail) /\ <<m>> \in Seq(Mail) /\ Append(s, m) = s \o <<m>>
         /\ (\A i \in 1 .. Len(s) : IsState(s[i])) /\ IsState(m)
              => \A i \in 1 .. Len(Append(s, m)) : IsState(Append(s, m)[i])
         /\ Silent(s) /\ ~IsState(m) => Silent(Append(s, m))
         /\ Closes(s) /\ ~IsState(m) => Closes(Append(s, m))
         /\ m.state = "Disconnected" => Closes(Append(s, m))
<1>1. <<m>> \in Seq(Mail) /\ Append(s, m) = s \o <<m>>
  BY AppendIsConcat
<1>2. Append(s, m) \in Seq(Mail) /\ Joined(s, <<m>>, Append(s, m))
  BY Sequences
<1>3. /\ ~IsState(m) => Silent(<<m>>)
      /\ m.state = "Disconnected" => Closes(<<m>>)
  BY ClosesOne
<1>4. (\A i \in 1 .. Len(s) : IsState(s[i])) /\ IsState(m)
        => \A i \in 1 .. Len(Append(s, m)) : IsState(Append(s, m)[i])
  BY AppendProperties
<1> QED
  BY <1>1, <1>2, <1>3, <1>4, ClosesJoin

LEMMA OneLess ==
  ASSUME NEW s \in Seq(Mail), s # <<>>
  PROVE  /\ Head(s) \in Mail /\ Tail(s) \in Seq(Mail)
         /\ (\A i \in 1 .. Len(s) : IsState(s[i]))
              => IsState(Head(s)) /\ \A i \in 1 .. Len(Tail(s)) : IsState(Tail(s)[i])
         /\ Silent(s) => Silent(Tail(s)) /\ ~IsState(Head(s))
         /\ Closes(s) => Closes(Tail(s)) \/ (Head(s).state = "Disconnected" /\ Silent(Tail(s)))
<1>1. Head(s) \in Mail /\ Tail(s) \in Seq(Mail) /\ Dropped(s, Tail(s)) /\ Head(s) = s[1]
  BY Sequences
<1>2. ASSUME \A i \in 1 .. Len(s) : IsState(s[i])
      PROVE  IsState(Head(s)) /\ \A i \in 1 .. Len(Tail(s)) : IsState(Tail(s)[i])
  <2>1. PICK l \in Nat : /\ Len(s) = l + 1 /\ Len(Tail(s)) = l
                         /\ \A i \in 1 .. l : Tail(s)[i] = s[i + 1]
    BY <1>1 DEF Dropped
  <2>2. 1 \in 1 .. l + 1 /\ \A i \in 1 .. l : i + 1 \in 1 .. l + 1
    OBVIOUS
  <2> QED
    BY <1>1, <1>2, <2>1, <2>2
<1> QED
  BY <1>1, <1>2, ClosesTail

LEMMA NothingSilent ==
  ASSUME NEW s \in Seq(States), Silent(s)
  PROVE  s = <<>>
<1>1. ASSUME s # <<>> PROVE FALSE
  <2>1. Len(s) \in Nat \ {0}
    BY <1>1, EmptySeq
  <2>2. 1 \in 1 .. Len(s)
    BY <2>1
  <2>3. s[1] \in States
    BY <2>2, ElementOfSeq
  <2> QED
    BY <2>2, <2>3, Kinds DEF Silent
<1> QED
  BY <1>1

LEMMA MessagesSilent ==
  ASSUME NEW s \in Seq(Messages)
  PROVE  Silent(s)
<1>1. \A i \in 1 .. Len(s) : s[i] \in Messages
  BY ElementOfSeq
<1> QED
  BY <1>1, Kinds DEF Silent

\* Both sides, from those of one end and of the other.
LEMMA BothSides ==
  ASSUME NEW e, NEW f, Pair(e, f), Types', Side(e, f)', Side(f, e)'
  PROVE  ExtInv'
<1>1. \A g \in Ends : Side(g, Other(g))'
  BY TwoEnds DEF Pair
<1> QED
  BY <1>1 DEF ExtInv

-----------------------------------------------------------------------------
(* The steps.                                                              *)

\* init and the end of the lifetime.
PhaseStep(e) == Advise(e) \/ SendReady(e) \/ BindMembers(e) \/ Disconnect(e) \/ Unsubscribe(e)

LEMMA PhaseKeeps ==
  ASSUME ExtInv, NEW e, NEW f, Pair(e, f), PhaseStep(e)
  PROVE  ExtInv'
<1>0. Types /\ Side(e, f) /\ Side(f, e) /\ e \in Ends /\ f \in Ends
  BY DEF ExtInv, Pair
<1>1. /\ UNCHANGED <<wire, sender, queue, kept, got, lost, late, crashed>>
      /\ \/ phase[e] = "new" /\ phase' = [phase EXCEPT ![e] = "advised"] /\ net' = net
         \/ /\ phase[e] = "advised" /\ phase' = [phase EXCEPT ![e] = "ready"]
            /\ net' = [net EXCEPT ![f] = Append(@, State("Ready"))]
         \/ phase[e] = "ready" /\ phase' = [phase EXCEPT ![e] = "bound"] /\ net' = net
         \/ /\ phase[e] = "bound" /\ phase' = [phase EXCEPT ![e] = "closing"]
            /\ net' = [net EXCEPT ![f] = Append(@, State("Disconnected"))]
         \/ phase[e] = "closing" /\ phase' = [phase EXCEPT ![e] = "closed"] /\ net' = net
  BY DEF PhaseStep, Advise, SendReady, BindMembers, Disconnect, Unsubscribe, Pair, inbox
<1>2. /\ connected' = connected /\ sendQ' = sendQ /\ draining' = draining /\ sent' = sent
      /\ sending' = sending /\ queue' = queue /\ kept' = kept /\ got' = got /\ lost' = lost /\ late' = late
  BY <1>1 DEF wire, sender
<1>3. /\ phase \in [Ends -> {"new", "advised", "ready", "bound", "closing", "closed"}]
      /\ net \in [Ends -> Seq(Mail)] /\ net[f] \in Seq(Mail)
  BY <1>0 DEF Types, TypeOK, Mail
<1>4. /\ State("Ready") \in States /\ State("Ready").state = "Ready"
      /\ State("Disconnected") \in States /\ State("Disconnected").state = "Disconnected"
      /\ \A m \in States : m \in Mail /\ IsState(m)
  BY Kinds
<1>5. PICK m \in States :
        /\ net' = net \/ net' = [net EXCEPT ![f] = Append(@, m)]
        /\ phase[e] = "bound" => m.state = "Disconnected" /\ net' = [net EXCEPT ![f] = Append(@, m)]
        /\ phase[e] = "new" => net' = net
  BY <1>1, <1>4
<1>6. /\ phase' \in [Ends -> {"new", "advised", "ready", "bound", "closing", "closed"}]
      /\ phase'[f] = phase[f] /\ phase'[e] # "new"
      /\ phase[e] \in {"closing", "closed"} => phase'[e] \in {"closing", "closed"}
      /\ phase'[e] \in {"closing", "closed"} => phase[e] \in {"bound", "closing"}
  BY <1>0, <1>1, <1>3 DEF Pair
<1>7. /\ net' \in [Ends -> Seq(Mail)] /\ net'[e] = net[e]
      /\ net'[f] = net[f] \/ net'[f] = Append(net[f], m)
      /\ phase[e] = "bound" => m.state = "Disconnected" /\ net'[f] = Append(net[f], m)
  <2>1. Append(net[f], m) \in Seq(Mail)
    BY <1>3, <1>4, OneMore
  <2> QED
    BY <1>0, <1>3, <1>5, <2>1 DEF Pair
<1>8. Types'
  BY <1>0, <1>2, <1>6, <1>7 DEF Types, TypeOK, Mail
<1>9. Unheard(e, f)' /\ Early(e)' /\ Early(f)'
  BY <1>0, <1>2, <1>6 DEF Unheard, Early, Side
<1>10. Unheard(f, e)'
  <2>1. ASSUME phase[f] = "new"
        PROVE  \A i \in 1 .. Len(net'[f]) : IsState(net'[f][i])
    <3>1. \A i \in 1 .. Len(net[f]) : IsState(net[f][i])
      BY <1>0, <2>1 DEF Side, Unheard
    <3>2. CASE net'[f] = net[f]
      BY <3>1, <3>2
    <3>3. CASE net'[f] = Append(net[f], m)
      BY <1>3, <1>4, <3>1, <3>3, OneMore
    <3> QED
      BY <1>7, <3>2, <3>3
  <2> QED
    BY <1>0, <1>2, <1>6, <1>7, <2>1 DEF Unheard, Side
<1>11. Ordered(e, f)' /\ Ordered(f, e)'
  <2>1. AtReceiver(e) /\ AtReceiver(f) /\ AtSender(e) /\ AtSender(f)
    BY <1>2 DEF AtReceiver, AtSender
  <2>2. SaysMore(e) /\ SaysMore(f)
    BY <1>7 DEF SaysMore
  <2> QED
    BY <1>0, <2>1, <2>2, OrderedFrame DEF Side
<1>12. Told(f, e)'
  <2>1. SaysNothing(e)
    BY <1>2, <1>7 DEF SaysNothing
  <2> QED
    BY <1>0, <1>2, <1>6, <2>1, ToldFrame DEF Side
<1>13. Told(e, f)'
  <2>1. CASE phase[e] = "bound"
    <3>1. Closes(net'[f])
      BY <1>3, <1>4, <1>7, <2>1, OneMore
    <3> QED
      BY <3>1 DEF Told
  <2>2. CASE phase[e] = "closing"
    <3>1. net' = net
      BY <1>1, <2>2
    <3>2. SaysNothing(f)
      BY <1>2, <3>1 DEF SaysNothing
    <3> QED
      BY <1>0, <1>2, <1>6, <2>2, <3>2, ToldFrame DEF Side
  <2>3. CASE phase[e] \notin {"bound", "closing"}
    BY <1>6, <2>3 DEF Told
  <2> QED
    BY <2>1, <2>2, <2>3
<1> QED
  BY <1>8, <1>9, <1>10, <1>11, <1>12, <1>13, BothSides DEF Side

\* The members send.
LEMMA SendBeginKeeps ==
  ASSUME ExtInv, NEW e, NEW f, Pair(e, f), SendBegin(e)
  PROVE  ExtInv'
<1>0. Types /\ Side(e, f) /\ Side(f, e) /\ e \in Ends /\ f \in Ends /\ e # f
  BY DEF ExtInv, Pair
<1>1. /\ phase' = phase /\ connected' = connected /\ draining' = draining /\ net' = net
      /\ queue' = queue /\ kept' = kept /\ got' = got /\ lost' = lost /\ late' = late
  BY DEF SendBegin, inbox
<1>2. phase[e] = "bound" /\ sending[e] = 0 /\ sent[e] < MaxSent /\ sent' = [sent EXCEPT ![e] = @ + 1]
  BY DEF SendBegin, MembersBound
<1>3. \/ /\ sendQ' = [sendQ EXCEPT ![e] = Append(@, Message(sent[e] + 1))] /\ sending' = sending
      \/ /\ sendQ[e] = <<>> /\ connected[e]
         /\ sending' = [sending EXCEPT ![e] = sent[e] + 1] /\ sendQ' = sendQ
  BY DEF SendBegin, MustQueue
<1>4. /\ sendQ \in [Ends -> Seq(Messages)] /\ sendQ[e] \in Seq(Messages)
      /\ sent \in [Ends -> 0 .. MaxSent] /\ sending \in [Ends -> 0 .. MaxSent]
      /\ sent[e] \in Nat
  BY <1>0, TypesAt DEF Types, TypeOK
<1>5. sent[e] + 1 \in 1 .. MaxSent /\ sent[e] + 1 \in 0 .. MaxSent
  BY <1>2, <1>4, SentAssumption
<1>6. Message(sent[e] + 1) \in Messages /\ Append(sendQ[e], Message(sent[e] + 1)) \in Seq(Messages)
  BY <1>4, <1>5, Kinds, Sequences
<1>7. /\ sent' \in [Ends -> 0 .. MaxSent] /\ sent'[e] = sent[e] + 1 /\ sent'[f] = sent[f]
      /\ sending' \in [Ends -> 0 .. MaxSent] /\ sending'[f] = sending[f]
      /\ sendQ' \in [Ends -> Seq(Messages)] /\ sendQ'[f] = sendQ[f]
      /\ \/ sendQ'[e] = Append(sendQ[e], Message(sent[e] + 1)) /\ sending'[e] = sending[e]
         \/ sendQ[e] = <<>> /\ connected[e] /\ sendQ'[e] = sendQ[e] /\ sending'[e] = sent[e] + 1
  BY <1>0, <1>2, <1>3, <1>4, <1>5, <1>6
<1>8. Types'
  BY <1>0, <1>1, <1>7 DEF Types, TypeOK
<1>9. Unheard(e, f)' /\ Early(e)' /\ Early(f)'
  BY <1>0, <1>1, <1>2 DEF Unheard, Early, Side
<1>10. Unheard(f, e)'
  <2>1. phase[f] = "new" => sending'[e] = sending[e] /\ sending'[f] = sending[f]
    BY <1>0, <1>7 DEF Unheard, Side
  <2> QED
    BY <1>0, <1>1, <2>1 DEF Unheard, Side
<1>11. AtReceiver(e) /\ AtReceiver(f) /\ AtSender(f) /\ SaysMore(e)
  BY <1>1, <1>7 DEF AtReceiver, AtSender, SaysMore
<1>12. Ordered(e, f)'
  BY <1>0, <1>11, OrderedFrame DEF Side
<1>13. Ordered(f, e)'
  <2>1. \/ sendQ'[e] = Append(sendQ[e], Message(sent[e] + 1)) /\ sending'[e] = sending[e]
        \/ sendQ[e] = <<>> /\ sendQ'[e] = sendQ[e] /\ sending'[e] = sent[e] + 1
    BY <1>7
  <2>2. net'[f] = net[f] /\ sent'[e] = sent[e] + 1 /\ Ordered(f, e)
    BY <1>0, <1>1, <1>7 DEF Side
  <2> QED
    BY <1>0, <1>2, <1>11, <2>1, <2>2, OrderedBegins
<1>14. SaysNothing(e) /\ SaysNothing(f)
  BY <1>1 DEF SaysNothing
<1>15. Told(e, f)' /\ Told(f, e)'
  BY <1>0, <1>1, <1>14, ToldFrame DEF Side
<1> QED
  BY <1>8, <1>9, <1>10, <1>12, <1>13, <1>15, BothSides DEF Side

LEMMA SendDirectKeeps ==
  ASSUME ExtInv, NEW e, NEW f, Pair(e, f), SendDirect(e)
  PROVE  ExtInv'
<1>0. Types /\ Side(e, f) /\ Side(f, e) /\ e \in Ends /\ f \in Ends /\ e # f
  BY DEF ExtInv, Pair
<1>1. /\ phase' = phase /\ connected' = connected /\ draining' = draining /\ sendQ' = sendQ /\ sent' = sent
      /\ queue' = queue /\ kept' = kept /\ got' = got /\ lost' = lost /\ late' = late
      /\ sending[e] # 0
      /\ net' = [net EXCEPT ![f] = Append(@, Message(sending[e]))]
      /\ sending' = [sending EXCEPT ![e] = 0]
  BY DEF SendDirect, wire, Pair
<1>2. /\ net \in [Ends -> Seq(Mail)] /\ net[f] \in Seq(Mail)
      /\ sending \in [Ends -> 0 .. MaxSent] /\ sending[e] \in Nat /\ sending[e] <= MaxSent
  BY <1>0, TypesAt DEF Types, TypeOK, Mail
<1>3. sending[e] \in 1 .. MaxSent /\ 0 \in 0 .. MaxSent
  BY <1>1, <1>2, SentAssumption
<1>4. PICK m \in Mail : m = Message(sending[e]) /\ ~IsState(m)
  BY <1>3, Kinds
<1>5. Append(net[f], m) \in Seq(Mail) /\ <<m>> \in Seq(Mail) /\ Append(net[f], m) = net[f] \o <<m>> /\ Silent(<<m>>)
  BY <1>2, <1>4, OneMore, ClosesOne
<1>6. /\ net' \in [Ends -> Seq(Mail)] /\ net'[e] = net[e] /\ net'[f] = Append(net[f], m)
      /\ sending' \in [Ends -> 0 .. MaxSent] /\ sending'[e] = 0 /\ sending'[f] = sending[f]
  BY <1>0, <1>1, <1>2, <1>3, <1>4, <1>5
<1>7. Types'
  BY <1>0, <1>1, <1>6 DEF Types, TypeOK, Mail
<1>8. phase[e] # "new" /\ phase[f] # "new"
  BY <1>0, <1>1 DEF Side, Unheard
<1>9. Unheard(e, f)' /\ Unheard(f, e)' /\ Early(e)' /\ Early(f)'
  BY <1>0, <1>1, <1>8, UnheardFrame DEF Early, Side
<1>10. AtReceiver(e) /\ AtReceiver(f) /\ AtSender(f) /\ SaysMore(e)
  BY <1>1, <1>6 DEF AtReceiver, AtSender, SaysMore
<1>11. Ordered(e, f)'
  BY <1>0, <1>10, OrderedFrame DEF Side
<1>12. Ordered(f, e)'
  <2>1. /\ net'[f] = Append(net[f], Message(sending[e])) /\ sent'[e] = sent[e] /\ sendQ'[e] = sendQ[e]
        /\ Ordered(f, e)
    BY <1>0, <1>1, <1>4, <1>6 DEF Side
  <2> QED
    BY <1>0, <1>1, <1>6, <1>10, <2>1, OrderedDirect
<1>13. SaysNothing(e) /\ SaysNothing(f)
  BY <1>1, <1>5, <1>6 DEF SaysNothing
<1>14. Told(e, f)' /\ Told(f, e)'
  BY <1>0, <1>1, <1>13, ToldFrame DEF Side
<1> QED
  BY <1>7, <1>9, <1>11, <1>12, <1>14, BothSides DEF Side

LEMMA DrainKeeps ==
  ASSUME ExtInv, NEW e, NEW f, Pair(e, f), NEW t, Drain(e, t)
  PROVE  ExtInv'
<1>0. Types /\ Side(e, f) /\ Side(f, e) /\ e \in Ends /\ f \in Ends /\ e # f
  BY DEF ExtInv, Pair
<1>1. /\ phase' = phase /\ connected' = connected /\ sent' = sent /\ sending' = sending
      /\ queue' = queue /\ kept' = kept /\ got' = got /\ lost' = lost /\ late' = late
      /\ t \in draining[e]
      /\ net' = [net EXCEPT ![f] = @ \o sendQ[e]]
      /\ sendQ' = [sendQ EXCEPT ![e] = <<>>]
      /\ draining' = [draining EXCEPT ![e] = @ \ {t}]
  BY DEF Drain, sender, Pair
<1>2. /\ net \in [Ends -> Seq(Mail)] /\ net[f] \in Seq(Mail) /\ sendQ[e] \in Seq(Messages) /\ sendQ[e] \in Seq(Mail)
      /\ sendQ \in [Ends -> Seq(Messages)] /\ <<>> \in Seq(Messages)
      /\ draining \in [Ends -> SUBSET {"wire", "default"}]
  BY <1>0, TypesAt, EmptySeq DEF Types, TypeOK, Mail
<1>3. net[f] \o sendQ[e] \in Seq(Mail) /\ Silent(sendQ[e])
  BY <1>2, Sequences, MessagesSilent
<1>4. /\ net' \in [Ends -> Seq(Mail)] /\ net'[e] = net[e] /\ net'[f] = net[f] \o sendQ[e]
      /\ sendQ' \in [Ends -> Seq(Messages)] /\ sendQ'[e] = <<>> /\ sendQ'[f] = sendQ[f]
  BY <1>0, <1>1, <1>2, <1>3
<1>5. draining' \in [Ends -> SUBSET {"wire", "default"}]
  BY <1>0, <1>1, <1>2
<1>6. Types'
  BY <1>0, <1>1, <1>4, <1>5 DEF Types, TypeOK, Mail
<1>7. phase[e] # "new" /\ phase[f] # "new"
  BY <1>0, <1>1 DEF Side, Unheard
<1>8. Unheard(e, f)' /\ Unheard(f, e)' /\ Early(e)' /\ Early(f)'
  BY <1>0, <1>1, <1>7, UnheardFrame DEF Early, Side
<1>9. AtReceiver(e) /\ AtReceiver(f) /\ AtSender(f) /\ SaysMore(e)
  BY <1>1, <1>4 DEF AtReceiver, AtSender, SaysMore
<1>10. Ordered(e, f)'
  BY <1>0, <1>9, OrderedFrame DEF Side
<1>11. Ordered(f, e)'
  <2>1. sent'[e] = sent[e] /\ sending'[e] = sending[e] /\ Ordered(f, e)
    BY <1>0, <1>1 DEF Side
  <2> QED
    BY <1>0, <1>4, <1>9, <2>1, OrderedDrains
<1>12. SaysNothing(e) /\ SaysNothing(f)
  BY <1>1, <1>2, <1>3, <1>4 DEF SaysNothing
<1>13. Told(e, f)' /\ Told(f, e)'
  BY <1>0, <1>1, <1>12, ToldFrame DEF Side
<1> QED
  BY <1>6, <1>8, <1>10, <1>11, <1>13, BothSides DEF Side

\* on_wire_received of the extension: what it answers, knows and, too late, says.
Handles(e, f, t, s, incoming) ==
  /\ net' \in [Ends -> Seq(Mail)] /\ net'[e] = incoming[e]
  /\ \/ net'[f] = incoming[f]
     \/ /\ net'[f] = Append(incoming[f], State("ReceivedCounterpart"))
        /\ phase[e] = "closing" => e \in late'
  /\ connected' \in [Ends -> BOOLEAN] /\ connected'[f] = connected[f]
  /\ s = "Disconnected" => ~connected'[e]
  /\ draining' \in [Ends -> SUBSET {"wire", "default"}] /\ draining'[f] = draining[f]
  /\ late \subseteq late'
  /\ s = "Disconnected" /\ t = "wire" /\ Flushing(e) => f \in late'

LEMMA HandlesIt ==
  ASSUME Types, NEW e, NEW f, Pair(e, f), NEW t \in {"wire", "default"}, NEW s,
         NEW incoming \in [Ends -> Seq(Mail)], OnWireReceived(e, t, s, incoming)
  PROVE  Handles(e, f, t, s, incoming)
<1>0. e \in Ends /\ f \in Ends /\ e # f /\ f = Other(e)
  BY DEF Pair
<1>1. /\ connected \in [Ends -> BOOLEAN] /\ draining \in [Ends -> SUBSET {"wire", "default"}]
      /\ incoming[f] \in Seq(Mail)
  BY <1>0 DEF Types, TypeOK
<1>2. ASSUME SetConnected(e, t)
      PROVE  /\ connected' \in [Ends -> BOOLEAN] /\ connected'[f] = connected[f]
             /\ draining' \in [Ends -> SUBSET {"wire", "default"}] /\ draining'[f] = draining[f]
  <2>1. connected' = [connected EXCEPT ![e] = TRUE]
    BY <1>2 DEF SetConnected
  <2>2. draining' = draining \/ draining' = [draining EXCEPT ![e] = @ \cup {t}]
    BY <1>2 DEF SetConnected
  <2>3. draining[e] \cup {t} \in SUBSET {"wire", "default"}
    BY <1>0, <1>1
  <2> QED
    BY <1>0, <1>1, <2>1, <2>2, <2>3
<1>3. CASE s = "Ready"
  <2>1. /\ SetConnected(e, t)
        /\ net' = [incoming EXCEPT ![f] = Append(@, State("ReceivedCounterpart"))]
        /\ late' = IF phase[e] = "closing" THEN late \cup {e} ELSE late
    BY <1>0, <1>3 DEF OnWireReceived
  <2>2. PICK m \in Mail : m = State("ReceivedCounterpart")
    BY Kinds
  <2>3. Append(incoming[f], m) \in Seq(Mail)
    BY <1>1, OneMore
  <2>4. /\ net' \in [Ends -> Seq(Mail)] /\ net'[e] = incoming[e]
        /\ net'[f] = Append(incoming[f], State("ReceivedCounterpart"))
    BY <1>0, <2>1, <2>2, <2>3
  <2>5. late \subseteq late' /\ (phase[e] = "closing" => e \in late')
    BY <2>1
  <2> QED
    BY <1>2, <1>3, <2>1, <2>4, <2>5 DEF Handles
<1>4. CASE s = "ReceivedCounterpart"
  <2>1. SetConnected(e, t) /\ net' = incoming /\ late' = late
    BY <1>4 DEF OnWireReceived
  <2> QED
    BY <1>2, <1>4, <2>1 DEF Handles
<1>5. CASE s = "Disconnected"
  <2>1. /\ connected' = [connected EXCEPT ![e] = FALSE] /\ net' = incoming /\ draining' = draining
        /\ late' = IF t = "wire" /\ Flushing(e) THEN late \cup {f} ELSE late
    BY <1>0, <1>5 DEF OnWireReceived
  <2>2. /\ connected' \in [Ends -> BOOLEAN] /\ connected'[f] = connected[f] /\ ~connected'[e]
    BY <1>0, <1>1, <2>1
  <2>3. late \subseteq late' /\ (t = "wire" /\ Flushing(e) => f \in late')
    BY <2>1
  <2> QED
    BY <1>1, <1>5, <2>1, <2>2, <2>3 DEF Handles
<1> QED
  BY <1>3, <1>4, <1>5 DEF OnWireReceived

\* What the handling end itself has said stays the last that it says, or it is too late.
LEMMA AnswersLate ==
  ASSUME Types, NEW e, NEW f, Pair(e, f), Told(e, f), NEW t, NEW s, NEW incoming,
         Handles(e, f, t, s, incoming), incoming[f] = net[f], Subscribed(e),
         phase' = phase, kept'[f] = kept[f], queue'[f] = queue[f]
  PROVE  Told(e, f)'
<1>1. CASE net'[f] = net[f]
  <2>1. SaysNothing(f) /\ late \subseteq late'
    BY <1>1 DEF SaysNothing, Handles
  <2> QED
    BY <2>1, ToldFrame DEF Pair
<1>2. CASE net'[f] # net[f]
  <2>1. phase[e] = "closing" => e \in late'
    BY <1>2 DEF Handles
  <2>2. phase'[e] # "closed"
    BY DEF Subscribed
  <2> QED
    BY <2>1, <2>2 DEF Told
<1> QED
  BY <1>1, <1>2

LEMMA HandlesMore ==
  ASSUME NEW e, NEW f, NEW t, NEW s, NEW incoming, Handles(e, f, t, s, incoming), incoming[f] = net[f]
  PROVE  SaysMore(f)
BY Kinds DEF Handles, SaysMore

\* The receiver thread.
LEMMA ReceiveKeeps ==
  ASSUME ExtInv, NEW e, NEW f, Pair(e, f), Receive(e)
  PROVE  ExtInv'
<1>0. Types /\ Side(e, f) /\ Side(f, e) /\ e \in Ends /\ f \in Ends /\ e # f
  BY DEF ExtInv, Pair
<1>1. PICK m : m = Head(net[e])
  OBVIOUS
<1>2. PICK rest : rest = [net EXCEPT ![e] = Tail(@)]
  OBVIOUS
<1>3. /\ phase' = phase /\ sendQ' = sendQ /\ sent' = sent /\ sending' = sending
      /\ got' = got /\ lost' = lost /\ net[e] # <<>>
      /\ \/ /\ ~IsState(m) \/ ~Subscribed(e)
            /\ queue' = [queue EXCEPT ![e] = Append(@, m)]
            /\ net' = rest
            /\ UNCHANGED <<connected, draining, kept, late>>
         \/ /\ IsState(m) /\ Subscribed(e) /\ Parked(e)
            /\ kept' = [kept EXCEPT ![e] = Append(@, m)]
            /\ net' = rest
            /\ UNCHANGED <<connected, draining, queue, late>>
         \/ /\ IsState(m) /\ Subscribed(e) /\ ~Parked(e)
            /\ OnWireReceived(e, "wire", m.state, rest)
            /\ UNCHANGED <<queue, kept>>
  BY <1>1, <1>2 DEF Receive, sender
<1>4. /\ net \in [Ends -> Seq(Mail)] /\ net[e] \in Seq(Mail) /\ queue[e] \in Seq(Mail)
      /\ kept[e] \in Seq(Mail) /\ kept[e] \in Seq(States)
      /\ queue \in [Ends -> Seq(Mail)] /\ kept \in [Ends -> Seq(States)]
  BY <1>0, TypesAt DEF Types, TypeOK, Mail
<1>5. m \in Mail /\ Tail(net[e]) \in Seq(Mail)
  BY <1>1, <1>3, <1>4, OneLess
<1>6. rest \in [Ends -> Seq(Mail)] /\ rest[e] = Tail(net[e]) /\ rest[f] = net[f]
  BY <1>0, <1>2, <1>4, <1>5
<1>7. phase[f] # "new"
  BY <1>0, <1>3 DEF Side, Unheard
<1>8. Unheard(f, e)' /\ Early(e)' /\ Early(f)' /\ AtSender(e) /\ AtSender(f)
  BY <1>0, <1>3, <1>7 DEF Side, Unheard, Early, AtSender
<1>9. /\ Silent(net[e]) => Silent(Tail(net[e])) /\ ~IsState(m)
      /\ Closes(net[e]) => Closes(Tail(net[e])) \/ (m.state = "Disconnected" /\ IsState(m) /\ Silent(Tail(net[e])))
  BY <1>1, <1>3, <1>4, OneLess DEF IsState
<1>10. CASE /\ ~IsState(m) \/ ~Subscribed(e)
            /\ queue' = [queue EXCEPT ![e] = Append(@, m)]
            /\ net' = rest
            /\ UNCHANGED <<connected, draining, kept, late>>
  <2>1. Append(queue[e], m) \in Seq(Mail)
    BY <1>4, <1>5, OneMore
  <2>2. /\ queue' \in [Ends -> Seq(Mail)] /\ queue'[e] = Append(queue[e], m) /\ queue'[f] = queue[f]
        /\ net' \in [Ends -> Seq(Mail)] /\ net'[e] = Tail(net[e]) /\ net'[f] = net[f]
    BY <1>0, <1>4, <1>6, <1>10, <2>1
  <2>3. Types'
    BY <1>0, <1>3, <1>10, <2>2 DEF Types, TypeOK, Mail
  <2>4. Unheard(e, f)'
    <3>1. CASE phase[e] = "new"
      <4>1. /\ \A i \in 1 .. Len(net[e]) : IsState(net[e][i])
            /\ \A i \in 1 .. Len(queue[e]) : IsState(queue[e][i])
        BY <1>0, <3>1 DEF Side, Unheard
      <4>2. IsState(m) /\ \A i \in 1 .. Len(net'[e]) : IsState(net'[e][i])
        BY <1>1, <1>3, <1>4, <2>2, <4>1, OneLess
      <4>3. \A i \in 1 .. Len(queue'[e]) : IsState(queue'[e][i])
        BY <1>4, <1>5, <2>2, <4>1, <4>2, OneMore
      <4> QED
        BY <1>0, <1>3, <1>10, <2>2, <3>1, <4>2, <4>3 DEF Side, Unheard
    <3>2. CASE phase[e] # "new"
      BY <1>3, <3>2 DEF Unheard
    <3> QED
      BY <3>1, <3>2
  <2>5. Ordered(e, f)'
    BY <1>0, <1>1, <1>3, <1>8, <2>2, OrderedQueues DEF Side
  <2>6. Ordered(f, e)'
    <3>1. AtReceiver(f) /\ SaysMore(f)
      BY <1>3, <2>2 DEF AtReceiver, SaysMore
    <3> QED
      BY <1>0, <1>8, <3>1, OrderedFrame DEF Side
  <2>7. Told(e, f)'
    <3>1. SaysNothing(f)
      BY <1>10, <2>2 DEF SaysNothing
    <3> QED
      BY <1>0, <1>3, <1>10, <3>1, ToldFrame DEF Side
  <2>8. Told(f, e)'
    <3> SUFFICES ASSUME f \notin late', phase'[f] \in {"closing", "closed"}, phase'[e] \notin {"closing", "closed"}
                 PROVE  \/ Closes(net'[e])
                        \/ /\ Silent(net'[e])
                           /\ \/ Closes(kept'[e])
                              \/ /\ kept'[e] = <<>>
                                 /\ Closes(queue'[e]) \/ (Silent(queue'[e]) /\ ~connected'[e])
      BY DEF Told
    <3>1. \/ Closes(net[e])
          \/ /\ Silent(net[e])
             /\ \/ Closes(kept[e])
                \/ /\ kept[e] = <<>>
                   /\ Closes(queue[e]) \/ (Silent(queue[e]) /\ ~connected[e])
      BY <1>0, <1>3, <1>10 DEF Side, Told
    <3>2. kept'[e] = kept[e] /\ connected'[e] = connected[e]
      BY <1>10
    <3>3. CASE Silent(net[e])
      <4>1. Silent(net'[e]) /\ ~IsState(m)
        BY <1>9, <2>2, <3>3
      <4>2. /\ Closes(queue[e]) => Closes(queue'[e])
            /\ Silent(queue[e]) => Silent(queue'[e])
        BY <1>4, <1>5, <2>2, <4>1, OneMore
      <4>3. CASE Closes(net[e])
        BY <1>9, <2>2, <4>1, <4>3
      <4> QED
        BY <3>1, <3>2, <4>1, <4>2, <4>3
    <3>4. CASE Closes(net[e])
      <4>1. CASE Closes(net'[e])
        BY <4>1
      <4>2. CASE ~Closes(net'[e])
        <5>1. m.state = "Disconnected" /\ IsState(m) /\ Silent(net'[e])
          BY <1>9, <2>2, <3>4, <4>2
        <5>2. phase[e] = "new"
          <6>1. phase[e] \in {"new", "advised", "ready", "bound", "closing", "closed"}
            BY <1>0, TypesAt
          <6> QED
            BY <1>3, <1>10, <5>1, <6>1 DEF Subscribed
        <5>3. kept[e] = <<>>
          BY <1>0, <5>2 DEF Side, Unheard
        <5>4. Closes(queue'[e])
          BY <1>4, <1>5, <2>2, <5>1, OneMore
        <5> QED
          BY <3>2, <5>1, <5>3, <5>4
      <4> QED
        BY <4>1, <4>2
    <3> QED
      BY <3>1, <3>3, <3>4
  <2> QED
    BY <1>8, <2>3, <2>4, <2>5, <2>6, <2>7, <2>8, BothSides DEF Side
<1>11. CASE /\ IsState(m) /\ Subscribed(e) /\ Parked(e)
            /\ kept' = [kept EXCEPT ![e] = Append(@, m)]
            /\ net' = rest
            /\ UNCHANGED <<connected, draining, queue, late>>
  <2>1. m \in States /\ Append(kept[e], m) \in Seq(States)
    BY <1>4, <1>5, <1>11, Kinds, Sequences
  <2>2. /\ kept' \in [Ends -> Seq(States)] /\ kept'[e] = Append(kept[e], m) /\ kept'[f] = kept[f]
        /\ net' \in [Ends -> Seq(Mail)] /\ net'[e] = Tail(net[e]) /\ net'[f] = net[f]
    BY <1>0, <1>4, <1>6, <1>11, <2>1
  <2>3. Types'
    BY <1>0, <1>3, <1>11, <2>2 DEF Types, TypeOK, Mail
  <2>4. Unheard(e, f)'
    BY <1>3, <1>11 DEF Unheard, Subscribed
  <2>5. Ordered(e, f)'
    <3>1. AtReceiver(e)
      BY <1>3, <1>11 DEF AtReceiver
    <3> QED
      BY <1>0, <1>1, <1>3, <1>8, <1>11, <2>2, <3>1, OrderedTakes DEF Side
  <2>6. Ordered(f, e)'
    <3>1. AtReceiver(f) /\ SaysMore(f)
      BY <1>3, <1>11, <2>2 DEF AtReceiver, SaysMore
    <3> QED
      BY <1>0, <1>8, <3>1, OrderedFrame DEF Side
  <2>7. Told(e, f)'
    <3>1. SaysNothing(f)
      BY <1>11, <2>2 DEF SaysNothing
    <3> QED
      BY <1>0, <1>3, <1>11, <3>1, ToldFrame DEF Side
  <2>8. Told(f, e)'
    <3> SUFFICES ASSUME f \notin late', phase'[f] \in {"closing", "closed"}, phase'[e] \notin {"closing", "closed"}
                 PROVE  Closes(net'[e]) \/ (Silent(net'[e]) /\ Closes(kept'[e]))
      BY DEF Told
    <3>1. Closes(net[e])
      BY <1>0, <1>3, <1>9, <1>11 DEF Side, Told
    <3>2. CASE m.state = "Disconnected" /\ Silent(Tail(net[e]))
      <4>1. Closes(kept'[e])
        BY <1>4, <1>5, <2>2, <3>2, OneMore
      <4> QED
        BY <2>2, <3>2, <4>1
    <3> QED
      BY <1>9, <2>2, <3>1, <3>2
  <2> QED
    BY <1>8, <2>3, <2>4, <2>5, <2>6, <2>7, <2>8, BothSides DEF Side
<1>12. CASE /\ IsState(m) /\ Subscribed(e) /\ ~Parked(e)
            /\ OnWireReceived(e, "wire", m.state, rest)
            /\ UNCHANGED <<queue, kept>>
  <2>1. Handles(e, f, "wire", m.state, rest)
    BY <1>0, <1>6, <1>12, HandlesIt
  <2>2. Types'
    BY <1>0, <1>3, <1>12, <2>1 DEF Types, TypeOK, Handles, Mail
  <2>3. Unheard(e, f)'
    BY <1>3, <1>12 DEF Unheard, Subscribed
  <2>4. AtReceiver(e) /\ AtReceiver(f) /\ net'[e] = Tail(net[e])
    BY <1>3, <1>6, <1>12, <2>1 DEF AtReceiver, Handles
  <2>5. Ordered(e, f)'
    BY <1>0, <1>1, <1>3, <1>8, <1>12, <2>4, OrderedTakes DEF Side
  <2>6. Ordered(f, e)'
    <3>1. SaysMore(f)
      BY <1>6, <2>1, HandlesMore
    <3> QED
      BY <1>0, <1>8, <2>4, <3>1, OrderedFrame DEF Side
  <2>7. Told(e, f)'
    BY <1>0, <1>3, <1>6, <1>12, <2>1, AnswersLate DEF Side
  <2>8. Told(f, e)'
    <3> SUFFICES ASSUME f \notin late', phase'[f] \in {"closing", "closed"}, phase'[e] \notin {"closing", "closed"}
                 PROVE  \/ Closes(net'[e])
                        \/ /\ Silent(net'[e])
                           /\ \/ Closes(kept'[e])
                              \/ kept'[e] = <<>> /\ Silent(queue'[e]) /\ ~connected'[e]
      BY DEF Told
    <3>1. Closes(net[e])
      <4>1. f \notin late
        BY <2>1 DEF Handles
      <4> QED
        BY <1>0, <1>3, <1>9, <1>12, <4>1 DEF Side, Told
    <3>2. CASE m.state = "Disconnected" /\ Silent(Tail(net[e]))
      <4>1. ~connected'[e] /\ ~Flushing(e)
        BY <2>1, <3>2 DEF Handles
      <4>2. kept[e] = <<>> /\ Silent(queue[e])
        BY <1>12, <4>1 DEF Flushing, Parked, Silent
      <4> QED
        BY <1>12, <2>4, <3>2, <4>1, <4>2
    <3> QED
      BY <1>9, <2>4, <3>1, <3>2
  <2> QED
    BY <1>8, <2>2, <2>3, <2>5, <2>6, <2>7, <2>8, BothSides DEF Side
<1> QED
  BY <1>3, <1>10, <1>11, <1>12

\* The default scheduler runs what is queued.
LEMMA RunQueuedKeeps ==
  ASSUME ExtInv, NEW e, NEW f, Pair(e, f), RunQueued(e)
  PROVE  ExtInv'
<1>0. Types /\ Side(e, f) /\ Side(f, e) /\ e \in Ends /\ f \in Ends /\ e # f
  BY DEF ExtInv, Pair
<1>1. PICK m : m = Head(queue[e])
  OBVIOUS
<1>2. /\ phase' = phase /\ sendQ' = sendQ /\ sent' = sent /\ sending' = sending /\ kept' = kept
      /\ DefaultIdle(e) /\ queue[e] # <<>> /\ queue' = [queue EXCEPT ![e] = Tail(@)]
      /\ \/ /\ IsState(m) /\ Subscribed(e)
            /\ OnWireReceived(e, "default", m.state, net)
            /\ UNCHANGED <<got, lost>>
         \/ /\ IsState(m) /\ ~Subscribed(e)
            /\ UNCHANGED <<net, connected, draining, got, lost, late>>
         \/ /\ ~IsState(m)
            /\ IF MembersBound(e)
               THEN got' = [got EXCEPT ![e] = Append(@, m.n)] /\ UNCHANGED lost
               ELSE lost' = [lost EXCEPT ![e] = Append(@, m.n)] /\ UNCHANGED got
            /\ UNCHANGED <<net, connected, draining, late>>
  BY <1>1 DEF RunQueued, sender
<1>3. /\ net \in [Ends -> Seq(Mail)] /\ net[e] \in Seq(Mail) /\ queue[e] \in Seq(Mail)
      /\ queue \in [Ends -> Seq(Mail)] /\ got \in [Ends -> Seq(Nat)] /\ lost \in [Ends -> Seq(Nat)]
      /\ phase[e] \in {"new", "advised", "ready", "bound", "closing", "closed"}
  BY <1>0, TypesAt DEF Types, TypeOK, Mail
<1>4. m \in Mail /\ Tail(queue[e]) \in Seq(Mail)
  BY <1>1, <1>2, <1>3, OneLess
<1>5. /\ queue' \in [Ends -> Seq(Mail)] /\ queue'[e] = Tail(queue[e]) /\ queue'[f] = queue[f]
  BY <1>0, <1>2, <1>3, <1>4
<1>6. phase[f] # "new" /\ phase[e] \in {"new", "bound", "closed"}
  BY <1>0, <1>2 DEF Side, Unheard, DefaultIdle
<1>7. Unheard(f, e)' /\ AtSender(e) /\ AtSender(f)
  BY <1>2, <1>6 DEF Unheard, AtSender
<1>8. /\ Silent(queue[e]) => Silent(queue'[e]) /\ ~IsState(m)
      /\ Closes(queue[e]) => Closes(queue'[e]) \/ (m.state = "Disconnected" /\ IsState(m) /\ Silent(queue'[e]))
  BY <1>1, <1>2, <1>3, <1>5, OneLess DEF IsState
<1>9. phase[e] = "new" => IsState(m) /\ \A i \in 1 .. Len(queue'[e]) : IsState(queue'[e][i])
  <2>1. phase[e] = "new" => \A i \in 1 .. Len(queue[e]) : IsState(queue[e][i])
    BY <1>0 DEF Side, Unheard
  <2> QED
    BY <1>1, <1>2, <1>3, <1>5, <2>1, OneLess
<1>10. CASE /\ IsState(m) /\ Subscribed(e)
            /\ OnWireReceived(e, "default", m.state, net)
            /\ UNCHANGED <<got, lost>>
  <2>1. Handles(e, f, "default", m.state, net)
    BY <1>0, <1>3, <1>10, HandlesIt
  <2>2. Types'
    BY <1>0, <1>2, <1>5, <1>10, <2>1 DEF Types, TypeOK, Handles, Mail
  <2>3. Unheard(e, f)' /\ Early(e)' /\ Early(f)'
    BY <1>0, <1>2, <1>10 DEF Unheard, Subscribed, Side, Early
  <2>4. Ordered(e, f)'
    <3>1. net'[e] = net[e] /\ got'[e] = got[e] /\ lost'[e] = lost[e]
      BY <1>10, <2>1 DEF Handles
    <3> QED
      BY <1>0, <1>1, <1>2, <1>5, <1>7, <1>10, <3>1, OrderedRuns DEF Side
  <2>5. Ordered(f, e)'
    <3>1. SaysMore(f) /\ AtReceiver(f)
      BY <1>5, <1>10, <2>1, HandlesMore DEF AtReceiver
    <3> QED
      BY <1>0, <1>7, <3>1, OrderedFrame DEF Side
  <2>6. Told(e, f)'
    BY <1>0, <1>2, <1>5, <1>10, <2>1, AnswersLate DEF Side
  <2>7. Told(f, e)'
    <3> SUFFICES ASSUME f \notin late', phase'[f] \in {"closing", "closed"}, phase'[e] \notin {"closing", "closed"}
                 PROVE  \/ Closes(net'[e])
                        \/ /\ Silent(net'[e])
                           /\ \/ Closes(kept'[e])
                              \/ /\ kept'[e] = <<>>
                                 /\ Closes(queue'[e]) \/ (Silent(queue'[e]) /\ ~connected'[e])
      BY DEF Told
    <3>1. f \notin late /\ net'[e] = net[e] /\ kept'[e] = kept[e]
      BY <1>2, <2>1 DEF Handles
    <3>2. \/ Closes(net[e])
          \/ Silent(net[e]) /\ Closes(kept[e])
          \/ Silent(net[e]) /\ kept[e] = <<>> /\ Closes(queue[e])
      BY <1>0, <1>2, <1>8, <1>10, <3>1 DEF Side, Told
    <3>3. m.state = "Disconnected" => ~connected'[e]
      BY <2>1 DEF Handles
    <3> QED
      BY <1>8, <3>1, <3>2, <3>3
  <2> QED
    BY <1>7, <2>2, <2>3, <2>4, <2>5, <2>6, <2>7, BothSides DEF Side
<1>11. CASE /\ IsState(m) /\ ~Subscribed(e)
            /\ UNCHANGED <<net, connected, draining, got, lost, late>>
  <2>1. Types'
    BY <1>0, <1>2, <1>5, <1>11 DEF Types, TypeOK, Mail
  <2>2. Unheard(e, f)' /\ Early(e)' /\ Early(f)'
    BY <1>0, <1>2, <1>5, <1>9, <1>11 DEF Unheard, Side, Early
  <2>3. Ordered(e, f)'
    BY <1>0, <1>1, <1>2, <1>5, <1>7, <1>11, OrderedRuns DEF Side
  <2>4. Ordered(f, e)'
    <3>1. SaysMore(f) /\ AtReceiver(f)
      BY <1>5, <1>11 DEF AtReceiver, SaysMore
    <3> QED
      BY <1>0, <1>7, <3>1, OrderedFrame DEF Side
  <2>5. Told(e, f)'
    <3>1. SaysNothing(f)
      BY <1>2, <1>5, <1>11 DEF SaysNothing
    <3> QED
      BY <1>0, <1>2, <1>11, <3>1, ToldFrame DEF Side
  <2>6. Told(f, e)'
    <3>1. CASE phase[e] = "new"
      <4>1. ~connected'[e] /\ kept'[e] = <<>>
        BY <1>0, <1>2, <1>11, <3>1 DEF Side, Unheard
      <4> QED
        BY <1>0, <1>2, <1>8, <1>11, <4>1 DEF Side, Told
    <3>2. CASE phase[e] = "closed"
      BY <1>2, <3>2 DEF Told
    <3> QED
      BY <1>6, <1>11, <3>1, <3>2 DEF Subscribed
  <2> QED
    BY <1>7, <2>1, <2>2, <2>3, <2>4, <2>5, <2>6, BothSides DEF Side
<1>12. CASE /\ ~IsState(m)
            /\ IF MembersBound(e)
               THEN got' = [got EXCEPT ![e] = Append(@, m.n)] /\ UNCHANGED lost
               ELSE lost' = [lost EXCEPT ![e] = Append(@, m.n)] /\ UNCHANGED got
            /\ UNCHANGED <<net, connected, draining, late>>
  <2>1. m.n \in Nat
    BY <1>4, <1>12, Kinds, SentAssumption
  <2>2. Append(got[e], m.n) \in Seq(Nat) /\ Append(lost[e], m.n) \in Seq(Nat)
    BY <1>0, <1>3, <2>1, Sequences
  <2>3. /\ got' \in [Ends -> Seq(Nat)] /\ lost' \in [Ends -> Seq(Nat)]
        /\ got'[f] = got[f] /\ lost'[f] = lost[f]
        /\ \/ phase[e] = "bound" /\ lost'[e] = lost[e] /\ got'[e] = Append(got[e], m.n)
           \/ phase[e] # "bound" /\ got'[e] = got[e] /\ lost'[e] = Append(lost[e], m.n)
    BY <1>0, <1>3, <1>12, <2>2 DEF MembersBound
  <2>4. Types'
    BY <1>0, <1>2, <1>5, <1>12, <2>3 DEF Types, TypeOK, Mail
  <2>5. phase[e] # "new"
    BY <1>9, <1>12
  <2>6. Unheard(e, f)' /\ Early(e)' /\ Early(f)'
    BY <1>0, <1>2, <1>6, <2>3, <2>5 DEF Unheard, Side, Early
  <2>7. Ordered(e, f)'
    <3>1. \/ lost[e] = <<>> /\ lost'[e] = lost[e] /\ got'[e] = Append(got[e], m.n)
          \/ got'[e] = got[e] /\ lost'[e] = Append(lost[e], m.n)
      BY <1>0, <2>3 DEF Side, Early
    <3> QED
      BY <1>0, <1>1, <1>2, <1>5, <1>7, <1>12, <3>1, OrderedDelivers DEF Side
  <2>8. Ordered(f, e)'
    <3>1. SaysMore(f) /\ AtReceiver(f)
      BY <1>5, <1>12, <2>3 DEF AtReceiver, SaysMore
    <3> QED
      BY <1>0, <1>7, <3>1, OrderedFrame DEF Side
  <2>9. Told(e, f)'
    <3>1. SaysNothing(f)
      BY <1>2, <1>5, <1>12 DEF SaysNothing
    <3> QED
      BY <1>0, <1>2, <1>12, <3>1, ToldFrame DEF Side
  <2>10. Told(f, e)'
    BY <1>0, <1>2, <1>8, <1>12 DEF Side, Told
  <2> QED
    BY <1>7, <2>4, <2>6, <2>7, <2>8, <2>9, <2>10, BothSides DEF Side
<1> QED
  BY <1>2, <1>10, <1>11, <1>12

\* ... and what was kept behind it.
LEMMA FlushKeptKeeps ==
  ASSUME ExtInv, NEW e, NEW f, Pair(e, f), FlushKept(e)
  PROVE  ExtInv'
<1>0. Types /\ Side(e, f) /\ Side(f, e) /\ e \in Ends /\ f \in Ends /\ e # f
  BY DEF ExtInv, Pair
<1>1. PICK m : m = Head(kept[e])
  OBVIOUS
<1>2. /\ phase' = phase /\ sendQ' = sendQ /\ sent' = sent /\ sending' = sending /\ queue' = queue
      /\ got' = got /\ lost' = lost
      /\ kept[e] # <<>> /\ ~Parked(e) /\ kept' = [kept EXCEPT ![e] = Tail(@)]
      /\ IF Subscribed(e) THEN OnWireReceived(e, "default", m.state, net)
         ELSE UNCHANGED <<connected, draining, net, late>>
  BY <1>1 DEF FlushKept, Flushing, sender
<1>3. /\ net \in [Ends -> Seq(Mail)] /\ kept[e] \in Seq(States) /\ kept[e] \in Seq(Mail)
      /\ kept \in [Ends -> Seq(States)]
      /\ phase[e] \in {"new", "advised", "ready", "bound", "closing", "closed"}
  BY <1>0, TypesAt DEF Types, TypeOK, Mail
<1>4. m \in Mail /\ Tail(kept[e]) \in Seq(States)
  BY <1>1, <1>2, <1>3, OneLess, Sequences
<1>5. /\ kept' \in [Ends -> Seq(States)] /\ kept'[e] = Tail(kept[e]) /\ kept'[f] = kept[f]
  BY <1>0, <1>2, <1>3, <1>4
<1>6. phase[f] # "new" /\ phase[e] # "new"
  BY <1>0, <1>2 DEF Side, Unheard
<1>7. Unheard(e, f)' /\ Unheard(f, e)' /\ Early(e)' /\ Early(f)' /\ AtSender(e) /\ AtSender(f)
  BY <1>0, <1>2, <1>6, UnheardFrame DEF AtSender, Side, Early
<1>8. Closes(kept[e]) => Closes(kept'[e]) \/ (m.state = "Disconnected" /\ kept'[e] = <<>>)
  <2>1. Closes(kept[e]) => Closes(kept'[e]) \/ (m.state = "Disconnected" /\ Silent(kept'[e]))
    BY <1>1, <1>2, <1>3, <1>5, OneLess
  <2>2. Silent(kept'[e]) => kept'[e] = <<>>
    BY <1>4, <1>5, NothingSilent
  <2> QED
    BY <2>1, <2>2
<1>9. AtReceiver(e) /\ AtReceiver(f)
  BY <1>2 DEF AtReceiver
<1>10. CASE Subscribed(e)
  <2>1. Handles(e, f, "default", m.state, net)
    BY <1>0, <1>2, <1>3, <1>10, HandlesIt
  <2>2. Types'
    BY <1>0, <1>2, <1>5, <2>1 DEF Types, TypeOK, Handles, Mail
  <2>3. Ordered(e, f)'
    <3>1. SaysMore(e)
      BY <2>1 DEF Handles, SaysMore
    <3> QED
      BY <1>0, <1>7, <1>9, <3>1, OrderedFrame DEF Side
  <2>4. Ordered(f, e)'
    <3>1. SaysMore(f)
      BY <2>1, HandlesMore
    <3> QED
      BY <1>0, <1>7, <1>9, <3>1, OrderedFrame DEF Side
  <2>5. Told(e, f)'
    BY <1>0, <1>2, <1>5, <1>10, <2>1, AnswersLate DEF Side
  <2>6. Told(f, e)'
    <3> SUFFICES ASSUME f \notin late', phase'[f] \in {"closing", "closed"}, phase'[e] \notin {"closing", "closed"}
                 PROVE  \/ Closes(net'[e])
                        \/ /\ Silent(net'[e])
                           /\ \/ Closes(kept'[e])
                              \/ kept'[e] = <<>> /\ Silent(queue'[e]) /\ ~connected'[e]
      BY DEF Told
    <3>1. f \notin late /\ net'[e] = net[e] /\ (m.state = "Disconnected" => ~connected'[e])
      BY <2>1 DEF Handles
    <3>2. Closes(net[e]) \/ (Silent(net[e]) /\ Closes(kept[e]))
      BY <1>0, <1>2, <3>1 DEF Side, Told
    <3>3. Silent(queue'[e])
      BY <1>2 DEF Parked, Silent
    <3> QED
      BY <1>8, <3>1, <3>2, <3>3
  <2> QED
    BY <1>7, <2>2, <2>3, <2>4, <2>5, <2>6, BothSides DEF Side
<1>11. CASE ~Subscribed(e)
  <2>1. connected' = connected /\ draining' = draining /\ net' = net /\ late' = late
    BY <1>2, <1>11
  <2>2. Types'
    BY <1>0, <1>2, <1>5, <2>1 DEF Types, TypeOK, Mail
  <2>3. Ordered(e, f)' /\ Ordered(f, e)'
    <3>1. SaysMore(e) /\ SaysMore(f)
      BY <2>1 DEF SaysMore
    <3> QED
      BY <1>0, <1>7, <1>9, <3>1, OrderedFrame DEF Side
  <2>4. Told(e, f)'
    <3>1. SaysNothing(f)
      BY <1>2, <1>5, <2>1 DEF SaysNothing
    <3> QED
      BY <1>0, <1>2, <2>1, <3>1, ToldFrame DEF Side
  <2>5. Told(f, e)'
    BY <1>2, <1>3, <1>6, <1>11 DEF Told, Subscribed
  <2> QED
    BY <1>7, <2>2, <2>3, <2>4, <2>5, BothSides DEF Side
<1> QED
  BY <1>10, <1>11

-----------------------------------------------------------------------------
(* The theorems.                                                           *)

\* For any number of messages, whichever end is bound or unbound first, and whatever
\* the threads do in between: before an end is bound nothing of it is under way, the
\* messages of its members are in order wherever they are, and Disconnected is the
\* last that is under way once it has been sent.
THEOREM ExtensionInvariance == Spec => []ExtInv
<1>1. Init => ExtInv
  <2> SUFFICES ASSUME Init PROVE ExtInv
    OBVIOUS
  <2>1. \A M : <<>> \in Seq(M)
    BY EmptySeq
  <2>2. Len(<<>>) = 0 /\ 1 .. 0 = {}
    OBVIOUS
  <2>3. Types
    BY <2>1, SentAssumption DEF Init, Types, TypeOK
  <2>4. ASSUME NEW e \in Ends, NEW f \in Ends PROVE Side(e, f)
    <3>1. /\ phase[e] = "new" /\ ~connected[e] /\ ~connected[f] /\ draining[e] = {} /\ draining[f] = {}
          /\ sendQ[f] = <<>> /\ sent[f] = 0 /\ sending[e] = 0 /\ sending[f] = 0
          /\ net[e] = <<>> /\ net[f] = <<>> /\ queue[e] = <<>> /\ queue[f] = <<>>
          /\ kept[e] = <<>> /\ kept[f] = <<>> /\ got[e] = <<>> /\ lost[e] = <<>>
      BY DEF Init
    <3>2. Unheard(e, f) /\ Early(e) /\ Told(e, f)
      BY <2>2, <3>1 DEF Unheard, Early, Told
    <3>3. Handled(e) = 0
      BY <3>1 DEF Handled
    <3>4. Flow(e, f, 0, 0)
      BY <3>1, <3>3, NumbersNone DEF Flow
    <3>5. Ordered(e, f)
      BY <2>2, <3>1, <3>4 DEF Ordered
    <3> QED
      BY <3>2, <3>5 DEF Side
  <2> QED
    BY <2>3, <2>4, TwoEnds DEF ExtInv
<1>2. ExtInv /\ [Next]_vars => ExtInv'
  <2> SUFFICES ASSUME ExtInv, [Next]_vars PROVE ExtInv'
    OBVIOUS
  <2>1. ASSUME NEW e \in Ends, Advise(e) \/ Disconnect(e) \/ SendBegin(e) \/ Threads(e)
        PROVE  ExtInv'
    <3>1. PICK f : Pair(e, f)
      BY TwoEnds DEF Pair
    <3>2. CASE PhaseStep(e)
      BY <3>1, <3>2, PhaseKeeps
    <3>3. CASE SendBegin(e)
      BY <3>1, <3>3, SendBeginKeeps
    <3>4. CASE SendDirect(e)
      BY <3>1, <3>4, SendDirectKeeps
    <3>5. CASE Drain(e, "wire") \/ Drain(e, "default")
      BY <3>1, <3>5, DrainKeeps
    <3>6. CASE Receive(e)
      BY <3>1, <3>6, ReceiveKeeps
    <3>7. CASE RunQueued(e)
      BY <3>1, <3>7, RunQueuedKeeps
    <3>8. CASE FlushKept(e)
      BY <3>1, <3>8, FlushKeptKeeps
    <3> QED
      BY <2>1, <3>2, <3>3, <3>4, <3>5, <3>6, <3>7, <3>8 DEF Threads, PhaseStep
  <2>2. CASE UNCHANGED vars
    <3>1. /\ phase' = phase /\ connected' = connected /\ sendQ' = sendQ /\ draining' = draining
          /\ sent' = sent /\ sending' = sending /\ net' = net /\ queue' = queue /\ kept' = kept
          /\ got' = got /\ lost' = lost /\ late' = late
      BY <2>2 DEF vars, wire, sender, inbox
    <3>2. Types'
      BY <3>1 DEF ExtInv, Types, TypeOK
    <3>3. ASSUME NEW e \in Ends, NEW f \in Ends, Side(e, f) PROVE Side(e, f)'
      <4>1. Unheard(e, f)' /\ Early(e)' /\ Told(e, f)'
        BY <3>1, <3>3 DEF Side, Unheard, Early, Told
      <4>2. Ordered(e, f)'
        <5>1. AtReceiver(e) /\ AtSender(f) /\ SaysMore(e)
          BY <3>1 DEF AtReceiver, AtSender, SaysMore
        <5> QED
          BY <3>3, <5>1, OrderedFrame DEF Side, ExtInv
      <4> QED
        BY <4>1, <4>2 DEF Side
    <3> QED
      BY <3>2, <3>3, TwoEnds DEF ExtInv
  <2> QED
    BY <2>1, <2>2 DEF Next, Rest
<1> QED
  BY <1>1, <1>2, PTL DEF Spec

\* Every variable keeps its type.
THEOREM ExtensionTypeCorrect == Spec => []TypeOK
<1>1. ExtInv => TypeOK
  BY DEF ExtInv, Types
<1> QED
  BY <1>1, ExtensionInvariance, PTL

\* Nothing that a member sends reaches an end whose members are not bound yet.
THEOREM NothingTooEarly == Spec => []NeverTooEarly
<1>1. ExtInv => NeverTooEarly
  BY DEF ExtInv, Side, Early, NeverTooEarly
<1> QED
  BY <1>1, ExtensionInvariance, PTL

\* The members' messages arrive in the order they were sent in, none missing and
\* none twice, though one thread may send directly while others empty the queue.
THEOREM MembersInOrder == Spec => []InOrder
<1>1. ExtInv => InOrder
  <2> SUFFICES ASSUME ExtInv, NEW e \in Ends PROVE got[e] = [i \in 1 .. Len(got[e]) |-> i]
    BY DEF InOrder
  <2>1. got[e] \in Seq(Nat)
    BY TypesAt DEF ExtInv
  <2>2. \A i \in 1 .. Len(got[e]) : got[e][i] = i
    BY DEF ExtInv, Side, Ordered
  <2>3. got[e] \in [1 .. Len(got[e]) -> Nat]
    BY <2>1, LenProperties
  <2> QED
    BY <2>2, <2>3
<1> QED
  BY <1>1, ExtensionInvariance, PTL

\* When everything has arrived, an end whose counterpart has been unbound knows it, unless
\* Disconnected was not the last that the counterpart said or that was handled.
THEOREM EndIsKnown == Spec => []DisconnectedIsKnown
<1>1. ExtInv => DisconnectedIsKnown
  <2> SUFFICES ASSUME ExtInv, Quiet, NEW e \in Ends \ late, phase[e] = "closed", phase[Other(e)] = "bound"
               PROVE  ~connected[Other(e)]
    BY DEF DisconnectedIsKnown
  <2>1. PICK f \in Ends : f = Other(e)
    BY TwoEnds
  <2>2. Told(e, f)
    BY <2>1 DEF ExtInv, Side
  <2>3. net[f] = <<>> /\ queue[f] = <<>> /\ kept[f] = <<>>
    BY DEF Quiet
  <2>4. ~Closes(<<>>)
    BY DEF Closes
  <2> QED
    BY <2>1, <2>2, <2>3, <2>4 DEF Told
<1> QED
  BY <1>1, ExtensionInvariance, PTL
=============================================================================
