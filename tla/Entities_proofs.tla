---------------------------- MODULE Entities_proofs ----------------------------
(***************************************************************************)
(* Proofs about the reactive entities, for any values, keys, writers and   *)
(* number of changes.  Every kind of entity has an inductive invariant of  *)
(* its own, which the steps of the other kinds do not touch.               *)
(***************************************************************************)
EXTENDS Entities, SequenceTheorems, FiniteSetTheorems, TLAPS

-----------------------------------------------------------------------------
(* The two ends and what is on the way between them.                       *)

\* `Other' is the other one of two ends.
LEMMA OtherEnd ==
  /\ \A e \in Ends : Other(e) \in Ends /\ Other(e) # e /\ Other(Other(e)) = e
  /\ \A e, f \in Ends : f = e \/ f = Other(e)
<1>1. ASSUME NEW e \in Ends
      PROVE  \E f \in Ends : f # e /\ \A g \in Ends : g = e \/ g = f
  <2>1. IsFiniteSet(Ends \ {e}) /\ Cardinality(Ends \ {e}) = 1
    BY FS_RemoveElement, EndsAssumption
  <2>2. \E f : Ends \ {e} = {f}
    BY <2>1, FS_Singleton
  <2> QED
    BY <2>2
<1> QED
  BY <1>1 DEF Other

Places(e) == 1 .. Len(wire[e])

\* The messages `events' follow what was on its way to e.
Join(e, events) ==
  \E l \in Nat :
    /\ \A i \in Places(e) : i \in Places(e)' /\ wire'[e][i] = wire[e][i] /\ i \in Nat /\ i <= l
    /\ \A i \in 1 .. Len(events) : l + i \in Places(e)' /\ wire'[e][l + i] = events[i]
    /\ \A j \in Places(e)' : j \in Nat /\ (j \in Places(e) \/ \E i \in 1 .. Len(events) : j = l + i)

\* The first message has arrived at e.
Taken(e) ==
  /\ 1 \in Places(e) /\ Arriving(e) = wire[e][1]
  /\ \A i \in Places(e)' : i \in Nat \ {0} /\ i + 1 \in Places(e) /\ wire'[e][i] = wire[e][i + 1]
  /\ \A j \in Places(e) : /\ j \in Nat /\ 1 <= j
                          /\ j # 1 => j - 1 \in Places(e)' /\ wire'[e][j - 1] = wire[e][j]

\* A message on its way is a message.
LEMMA MessageAt ==
  ASSUME NEW M, wire \in [Ends -> Seq(M)], NEW e \in Ends
  PROVE  \A i \in Places(e) : i \in Nat \ {0} /\ wire[e][i] \in M
<1>1. wire[e] \in Seq(M)
  OBVIOUS
<1>2. \A i \in 1 .. Len(wire[e]) : wire[e][i] \in M
  BY <1>1, ElementOfSeq
<1>3. Len(wire[e]) \in Nat
  BY <1>1, LenProperties
<1> QED
  BY <1>2, <1>3 DEF Places

\* What a concatenation is made of.
LEMMA JoinedAt ==
  ASSUME NEW M, wire \in [Ends -> Seq(M)], wire' \in [Ends -> Seq(M)], NEW e \in Ends,
         NEW events \in Seq(M), wire'[e] = wire[e] \o events
  PROVE  Join(e, events)
<1>1. wire[e] \in Seq(M) /\ wire'[e] \in Seq(M)
  OBVIOUS
<1>2. PICK l \in Nat : l = Len(wire[e])
  BY <1>1, LenProperties
<1>3. PICK m \in Nat : m = Len(events)
  BY LenProperties
<1>4. /\ Len(wire'[e]) = l + m
      /\ \A i \in 1 .. l + m : wire'[e][i] = IF i <= l THEN wire[e][i] ELSE events[i - l]
  BY <1>1, <1>2, <1>3, ConcatProperties
<1>5. Places(e) = 1 .. l /\ Places(e)' = 1 .. l + m
  BY <1>2, <1>4 DEF Places
<1>6. \A i \in 1 .. l : i \in 1 .. l + m /\ wire'[e][i] = wire[e][i] /\ i \in Nat /\ i <= l
  <2>1. \A i \in 1 .. l : i \in 1 .. l + m /\ i \in Nat /\ i <= l
    OBVIOUS
  <2> QED
    BY <1>4, <2>1
<1>7. \A i \in 1 .. m : l + i \in 1 .. l + m /\ wire'[e][l + i] = events[i]
  <2>1. \A i \in 1 .. m : l + i \in 1 .. l + m /\ ~(l + i <= l) /\ (l + i) - l = i
    OBVIOUS
  <2> QED
    BY <1>4, <2>1
<1>8. \A j \in 1 .. l + m : j \in Nat /\ (j \in 1 .. l \/ \E i \in 1 .. m : j = l + i)
  <2>1. \A j \in 1 .. l + m : j \in Nat /\ (j \in 1 .. l \/ (j - l \in 1 .. m /\ j = l + (j - l)))
    OBVIOUS
  <2> QED
    BY <2>1
<1>9. /\ \A i \in Places(e) : i \in Places(e)' /\ wire'[e][i] = wire[e][i] /\ i \in Nat /\ i <= l
      /\ \A i \in 1 .. Len(events) : l + i \in Places(e)' /\ wire'[e][l + i] = events[i]
      /\ \A j \in Places(e)' : j \in Nat /\ (j \in Places(e) \/ \E i \in 1 .. Len(events) : j = l + i)
  BY <1>3, <1>5, <1>6, <1>7, <1>8
<1> QED
  BY <1>9 DEF Join

\* A local change.
LEMMA ChangeSends ==
  ASSUME NEW M, wire \in [Ends -> Seq(M)], NEW e \in Ends, NEW events \in Seq(M),
         Change(e, events)
  PROVE  /\ wire' \in [Ends -> Seq(M)]
         /\ wire'[e] = wire[e] /\ Places(e)' = Places(e)
         /\ bound[e] => Join(Other(e), events)
         /\ ~bound[e] => wire' = wire
         /\ UNCHANGED <<bound, master>>
<1> USE OtherEnd
<1>1. wire' = IF bound[e] THEN [wire EXCEPT ![Other(e)] = @ \o events] ELSE wire
  BY DEF Change
<1>2. wire[Other(e)] \o events \in Seq(M)
  BY ConcatProperties
<1>3. wire' \in [Ends -> Seq(M)] /\ wire'[e] = wire[e]
  BY <1>1, <1>2
<1>4. bound[e] => wire'[Other(e)] = wire[Other(e)] \o events
  BY <1>1
<1>5. bound[e] => Join(Other(e), events)
  BY <1>3, <1>4, JoinedAt
<1> QED
  BY <1>1, <1>3, <1>5 DEF Change, Places

\* init
LEMMA BindSends ==
  ASSUME NEW M, wire \in [Ends -> Seq(M)], bound \in [Ends -> BOOLEAN],
         NEW e \in Ends, NEW events \in Seq(M), Bind(e, events)
  PROVE  /\ wire' \in [Ends -> Seq(M)]
         /\ wire'[e] = wire[e] /\ Places(e)' = Places(e)
         /\ Join(Other(e), events)
         /\ bound' \in [Ends -> BOOLEAN] /\ ~bound[e] /\ bound'[e] /\ bound'[Other(e)] = bound[Other(e)]
         /\ UNCHANGED <<master, changes>>
<1> USE OtherEnd
<1>1. wire' = [wire EXCEPT ![Other(e)] = @ \o events]
  BY DEF Bind
<1>2. wire[Other(e)] \o events \in Seq(M)
  BY ConcatProperties
<1>3. wire' \in [Ends -> Seq(M)] /\ wire'[e] = wire[e]
  BY <1>1, <1>2
<1>4. wire'[Other(e)] = wire[Other(e)] \o events
  BY <1>1
<1>5. Join(Other(e), events)
  BY <1>3, <1>4, JoinedAt
<1> QED
  BY <1>3, <1>5 DEF Bind, Places

\* A message that is not answered at once.
LEMMA ReceiveTakes ==
  ASSUME NEW M, wire \in [Ends -> Seq(M)], NEW e \in Ends, Receive(e, <<>>)
  PROVE  /\ wire' \in [Ends -> Seq(M)]
         /\ wire'[Other(e)] = wire[Other(e)] /\ Places(Other(e))' = Places(Other(e))
         /\ Taken(e) /\ Arriving(e) \in M
         /\ bound[e] /\ UNCHANGED <<bound, master, changes>>
<1> USE OtherEnd
<1>1. wire' = [wire EXCEPT ![e] = Tail(@), ![Other(e)] = @ \o <<>>] /\ wire[e] # <<>>
  BY DEF Receive
<1>2. wire[e] \in Seq(M) /\ wire[Other(e)] \in Seq(M) /\ wire[Other(e)] \o <<>> = wire[Other(e)]
  BY ConcatEmptySeq
<1>3. PICK l \in Nat : l = Len(wire[e])
  BY <1>2, LenProperties
<1>4. /\ Tail(wire[e]) \in Seq(M) /\ Len(Tail(wire[e])) = l - 1 /\ l # 0
      /\ Head(wire[e]) = wire[e][1] /\ Head(wire[e]) \in M
      /\ \A i \in 1 .. l - 1 : Tail(wire[e])[i] = wire[e][i + 1]
  BY <1>1, <1>2, <1>3, HeadTailProperties, EmptySeq
<1>5. wire'[e] = Tail(wire[e]) /\ wire'[Other(e)] = wire[Other(e)]
  BY <1>1, <1>2
<1>6. wire' \in [Ends -> Seq(M)]
  BY <1>1, <1>2, <1>4
<1>7. Places(e) = 1 .. l /\ Places(e)' = 1 .. l - 1
  BY <1>3, <1>4, <1>5 DEF Places
<1>8. /\ 1 \in 1 .. l
      /\ \A i \in 1 .. l - 1 : i \in Nat \ {0} /\ i + 1 \in 1 .. l
      /\ \A j \in 1 .. l : j \in Nat /\ 1 <= j /\ (j # 1 => j - 1 \in 1 .. l - 1 /\ (j - 1) + 1 = j)
  BY <1>4
<1>9. \A i \in Places(e)' : wire'[e][i] = wire[e][i + 1]
  BY <1>4, <1>5, <1>7
<1>10. Taken(e)
  BY <1>4, <1>7, <1>8, <1>9 DEF Taken, Arriving
<1> QED
  BY <1>4, <1>5, <1>6, <1>10 DEF Receive, Places, Arriving

-----------------------------------------------------------------------------
(* RdProperty.                                                             *)

PropertyMessages == [version : Nat, value : Values]

Newest(e, i) == \A j \in Places(e) : j <= i
InTime(m, i) == wire[m][i].version = master_version[m]

\* m is the master, s the slave.  Of what is on its way to the slave the last is
\* what the master has, and the slave's own changes will be refused; when nothing
\* is, those made since the master's last change decide, the last of them above all.
Agreeing(m, s) ==
  /\ master_version[s] <= master_version[m]
  /\ \A i \in Places(m) : wire[m][i].version <= master_version[s]
  /\ \A i \in Places(s) :
       /\ master_version[s] < wire[s][i].version /\ wire[s][i].version <= master_version[m]
       /\ Newest(s, i) => wire[s][i].version = master_version[m] /\ wire[s][i].value = value[m]
       /\ \A j \in Places(s) : i < j => wire[s][i].version < wire[s][j].version
  /\ Places(s) = {} =>
       /\ master_version[s] = master_version[m]
       /\ \A i \in Places(m) :
            InTime(m, i) /\ (\A j \in Places(m) : i < j => ~InTime(m, j)) =>
              wire[m][i].value = value[s]
       /\ (\A i \in Places(m) : ~InTime(m, i)) => value[s] = value[m]

PropertyInv ==
  /\ value \in [Ends -> Values] /\ master_version \in [Ends -> Nat]
  /\ kind # "property" => \A e, f \in Ends : value[e] = value[f]
  /\ kind = "property" =>
       /\ wire \in [Ends -> Seq(PropertyMessages)]
       /\ bound \in [Ends -> {TRUE}]
       /\ master \in Ends \union {None}
       /\ master \in Ends => Agreeing(master, Other(master))

\* Versions are numbers.
LEMMA VersionsAreNumbers ==
  ASSUME wire \in [Ends -> Seq(PropertyMessages)], NEW e \in Ends
  PROVE  \A i \in Places(e) : wire[e][i].version \in Nat
<1>1. \A i \in Places(e) : wire[e][i] \in PropertyMessages
  BY MessageAt
<1> QED
  BY <1>1 DEF PropertyMessages

\* set
LEMMA SetKeepsAgreeing ==
  ASSUME PropertyInv, kind = "property", UNCHANGED kind,
         NEW e \in Ends, NEW v \in Values, PropertySet(e, v)
  PROVE  PropertyInv'
<1> USE OtherEnd
<1>0. PICK n : n = IF master = e THEN master_version[e] + 1 ELSE master_version[e]
  OBVIOUS
<1>00. PICK msg : msg = [version |-> n, value |-> v]
  OBVIOUS
<1>1. /\ value \in [Ends -> Values] /\ master_version \in [Ends -> Nat]
      /\ wire \in [Ends -> Seq(PropertyMessages)] /\ bound \in [Ends -> {TRUE}]
  BY DEF PropertyInv
<1>2. n \in Nat /\ msg \in PropertyMessages /\ <<msg>> \in Seq(PropertyMessages)
  BY <1>0, <1>00, <1>1 DEF PropertyMessages
<1>3. /\ value' = [value EXCEPT ![e] = v]
      /\ master_version' = [master_version EXCEPT ![e] = n]
      /\ Change(e, <<msg>>) /\ bound[e]
  BY <1>0, <1>00, <1>1 DEF PropertySet
<1>4. /\ wire' \in [Ends -> Seq(PropertyMessages)]
      /\ wire'[e] = wire[e] /\ Places(e)' = Places(e)
      /\ Join(Other(e), <<msg>>) /\ UNCHANGED <<bound, master>>
  BY <1>1, <1>2, <1>3, ChangeSends
<1>5. value' \in [Ends -> Values] /\ master_version' \in [Ends -> Nat]
  BY <1>1, <1>2, <1>3
<1>6. PICK l \in Nat :
        /\ \A i \in Places(Other(e)) :
             i \in Places(Other(e))' /\ wire'[Other(e)][i] = wire[Other(e)][i] /\ i \in Nat /\ i < l
        /\ l \in Places(Other(e))' /\ wire'[Other(e)][l] = msg
        /\ \A j \in Places(Other(e))' : j \in Places(Other(e)) \/ j = l
  <2>1. Len(<<msg>>) = 1 /\ 1 \in 1 .. Len(<<msg>>) /\ <<msg>>[1] = msg
        /\ \A i \in 1 .. Len(<<msg>>) : i = 1
    OBVIOUS
  <2>2. PICK k \in Nat :
          /\ \A i \in Places(Other(e)) :
               i \in Places(Other(e))' /\ wire'[Other(e)][i] = wire[Other(e)][i] /\ i \in Nat /\ i <= k
          /\ \A i \in 1 .. Len(<<msg>>) :
               k + i \in Places(Other(e))' /\ wire'[Other(e)][k + i] = <<msg>>[i]
          /\ \A j \in Places(Other(e))' :
               j \in Nat /\ (j \in Places(Other(e)) \/ \E i \in 1 .. Len(<<msg>>) : j = k + i)
    BY <1>4 DEF Join
  <2>3. k + 1 \in Places(Other(e))' /\ wire'[Other(e)][k + 1] = msg
    BY <2>1, <2>2
  <2>4. \A j \in Places(Other(e))' : j \in Places(Other(e)) \/ j = k + 1
    BY <2>1, <2>2
  <2>5. \A i \in Places(Other(e)) : i < k + 1
    BY <2>2
  <2> QED
    BY <2>2, <2>3, <2>4, <2>5
<1>7. ASSUME master \in Ends PROVE Agreeing(master, Other(master))'
  <2>1. Agreeing(master, Other(master)) /\ master' = master
    BY <1>4, <1>7 DEF PropertyInv
  <2>2. msg.version = n /\ msg.value = v
    BY <1>00
  <2>3. CASE master = e
    <3> DEFINE s == Other(e)
    <3>1. /\ master_version'[e] = master_version[e] + 1 /\ master_version'[s] = master_version[s]
          /\ value'[e] = v /\ n = master_version[e] + 1
          /\ master_version[e] \in Nat /\ master_version[s] \in Nat
      BY <1>0, <1>1, <1>3, <2>3
    <3>2. Agreeing(e, s)
      BY <2>1, <2>3
    <3>3. \A i \in Places(s) : wire[s][i].version \in Nat
      BY <1>1, VersionsAreNumbers
    <3>4. /\ l \in Places(s)' /\ wire'[s][l] = msg
          /\ \A i \in Places(s) : i \in Places(s)' /\ wire'[s][i] = wire[s][i] /\ i \in Nat /\ i < l
          /\ \A i \in Places(s)' : i \in Places(s) \/ i = l
      BY <1>6
    <3>5. \A i \in Places(s)' : Newest(s, i)' => i = l
      BY <3>4 DEF Newest
    <3>6. \A i \in Places(s)' : master_version'[s] < wire'[s][i].version
                              /\ wire'[s][i].version <= master_version'[e]
      BY <2>2, <3>1, <3>2, <3>3, <3>4 DEF Agreeing
    <3>7. \A i \in Places(s)' : Newest(s, i)' =>
            wire'[s][i].version = master_version'[e] /\ wire'[s][i].value = value'[e]
      BY <2>2, <3>1, <3>4, <3>5
    <3>8. ASSUME NEW i \in Places(s)', NEW j \in Places(s)', i < j
          PROVE  wire'[s][i].version < wire'[s][j].version
      <4>0. (j \in Places(s) /\ j \in Nat /\ j < l) \/ j = l
        BY <3>4
      <4>1. i \in Places(s)
        <5>1. i # l
          BY <3>8, <4>0
        <5> QED
          BY <3>4, <5>1
      <4>2. CASE j \in Places(s)
        BY <3>2, <3>4, <3>8, <4>1, <4>2 DEF Agreeing
      <4>3. CASE j = l
        <5>1. wire[s][i].version <= master_version[e] /\ wire[s][i].version \in Nat
          BY <3>2, <3>3, <4>1 DEF Agreeing
        <5> QED
          BY <2>2, <3>1, <3>4, <4>1, <4>3, <5>1
      <4> QED
        BY <3>4, <4>2, <4>3
    <3>9. /\ master_version'[s] <= master_version'[e]
          /\ \A i \in Places(e)' : wire'[e][i].version <= master_version'[s]
      BY <1>4, <3>1, <3>2 DEF Agreeing
    <3>10. Agreeing(e, s)'
      BY <3>4, <3>6, <3>7, <3>8, <3>9 DEF Agreeing
    <3> QED
      BY <2>1, <2>3, <3>10
  <2>4. CASE master = Other(e)
    <3> DEFINE m == Other(e)
    <3>1. /\ master_version' = master_version /\ value'[e] = v /\ value'[m] = value[m]
          /\ n = master_version[e] /\ master_version[e] \in Nat /\ master_version[m] \in Nat
      BY <1>0, <1>1, <1>3, <2>4
    <3>2. Agreeing(m, e)
      BY <2>1, <2>4
    <3>3. \A i \in Places(m)' : wire'[m][i].version <= master_version'[e]
      BY <1>6, <2>2, <3>1, <3>2 DEF Agreeing
    <3>4. \A i \in Places(e)' : Newest(e, i)' <=> Newest(e, i)
      BY <1>4 DEF Newest
    <3>5. Places(e) = {} => InTime(m, l)'
      BY <1>6, <2>2, <3>1, <3>2 DEF Agreeing, InTime
    <3>6. ASSUME Places(e) = {}, NEW i \in Places(m)',
                 \A j \in Places(m)' : i < j => ~InTime(m, j)'
          PROVE  wire'[m][i].value = value'[e]
      <4>1. i = l
        BY <1>6, <3>5, <3>6
      <4> QED
        BY <1>6, <2>2, <3>1, <4>1
    <3>7. /\ master_version'[e] <= master_version'[m]
          /\ Places(e)' = {} => master_version'[e] = master_version'[m]
          /\ \A i \in Places(e)' :
               /\ master_version'[e] < wire'[e][i].version /\ wire'[e][i].version <= master_version'[m]
               /\ Newest(e, i) => wire'[e][i].version = master_version'[m] /\ wire'[e][i].value = value'[m]
               /\ \A j \in Places(e)' : i < j => wire'[e][i].version < wire'[e][j].version
      BY <1>4, <3>1, <3>2 DEF Agreeing
    <3>8. Agreeing(m, e)'
      BY <1>4, <1>6, <3>3, <3>4, <3>5, <3>6, <3>7 DEF Agreeing
    <3> QED
      BY <2>1, <2>4, <3>8
  <2> QED
    BY <1>7, <2>3, <2>4
<1> QED
  BY <1>1, <1>4, <1>5, <1>7 DEF PropertyInv

\* on_wire_received
LEMMA ReceiveKeepsAgreeing ==
  ASSUME PropertyInv, kind = "property", UNCHANGED kind, NEW e \in Ends, PropertyReceive(e)
  PROVE  PropertyInv'
<1> USE OtherEnd
<1>1. /\ value \in [Ends -> Values] /\ master_version \in [Ends -> Nat]
      /\ wire \in [Ends -> Seq(PropertyMessages)] /\ bound \in [Ends -> {TRUE}]
  BY DEF PropertyInv
<1>2. PICK msg : msg = Arriving(e)
  OBVIOUS
<1>3. /\ wire' \in [Ends -> Seq(PropertyMessages)]
      /\ wire'[Other(e)] = wire[Other(e)] /\ Places(Other(e))' = Places(Other(e))
      /\ Taken(e) /\ UNCHANGED <<bound, master>>
      /\ msg \in PropertyMessages /\ msg = wire[e][1]
  BY <1>1, <1>2, ReceiveTakes DEF PropertyReceive, Taken
<1>4. msg.version \in Nat /\ msg.value \in Values
  BY <1>3 DEF PropertyMessages
<1>5. IF Rejected(e, msg.version)
      THEN UNCHANGED propertyVars
      ELSE /\ value' = [value EXCEPT ![e] = msg.value]
           /\ master_version' = [master_version EXCEPT ![e] = msg.version]
  BY <1>2 DEF PropertyReceive
<1>6. value' \in [Ends -> Values] /\ master_version' \in [Ends -> Nat]
  BY <1>1, <1>4, <1>5 DEF propertyVars
<1>7. ASSUME master \in Ends PROVE Agreeing(master, Other(master))'
  <2>1. Agreeing(master, Other(master)) /\ master' = master
    BY <1>3, <1>7 DEF PropertyInv
  <2>2. /\ 1 \in Places(e)
        /\ \A i \in Places(e)' : i \in Nat \ {0} /\ i + 1 \in Places(e) /\ wire'[e][i] = wire[e][i + 1]
        /\ \A j \in Places(e) : /\ j \in Nat /\ 1 <= j
                                /\ j # 1 => j - 1 \in Places(e)' /\ wire'[e][j - 1] = wire[e][j]
    BY <1>3 DEF Taken
  <2>3. CASE master = e
    <3> DEFINE s == Other(e)
    <3>0. Agreeing(e, s)
      BY <2>1, <2>3
    <3>1. /\ master_version[e] \in Nat /\ master_version[s] \in Nat
          /\ master_version[s] <= master_version[e] /\ msg.version <= master_version[s]
      BY <1>1, <1>3, <2>2, <3>0 DEF Agreeing
    <3>2. /\ master_version' = master_version /\ value'[s] = value[s]
          /\ value'[e] = IF msg.version = master_version[e] THEN msg.value ELSE value[e]
      <4>1. CASE msg.version < master_version[e]
        BY <1>4, <1>5, <2>3, <3>1, <4>1 DEF Rejected, propertyVars
      <4>2. CASE msg.version = master_version[e]
        <5>1. ~Rejected(e, msg.version)
          BY <1>4, <4>2 DEF Rejected
        <5> QED
          BY <1>1, <1>5, <4>2, <5>1
      <4> QED
        BY <1>4, <3>1, <4>1, <4>2
    <3>3. \A i \in Places(e)' : wire'[e][i].version <= master_version'[s]
      BY <2>2, <3>0, <3>2 DEF Agreeing
    <3>4. \A i \in Places(s)' : Newest(s, i)' <=> Newest(s, i)
      BY <1>3 DEF Newest
    <3>5. Places(s) # {} => msg.version # master_version[e]
      <4>1. \A i \in Places(s) : wire[s][i].version \in Nat
        BY <1>1, VersionsAreNumbers
      <4> QED
        BY <1>4, <3>0, <3>1, <4>1 DEF Agreeing
    <3>6. /\ master_version'[s] <= master_version'[e]
          /\ Places(s)' = {} => master_version'[s] = master_version'[e]
          /\ \A i \in Places(s)' :
               /\ master_version'[s] < wire'[s][i].version /\ wire'[s][i].version <= master_version'[e]
               /\ Newest(s, i)' => wire'[s][i].version = master_version'[e] /\ wire'[s][i].value = value'[e]
               /\ \A j \in Places(s)' : i < j => wire'[s][i].version < wire'[s][j].version
      BY <1>3, <3>0, <3>2, <3>4, <3>5 DEF Agreeing
    <3>7. \A i \in Places(e)' : InTime(e, i)' <=> InTime(e, i + 1)
      BY <2>2, <3>2 DEF InTime
    <3>8. ASSUME Places(s) = {}, NEW i \in Places(e)', InTime(e, i)',
                 \A j \in Places(e)' : i < j => ~InTime(e, j)'
          PROVE  wire'[e][i].value = value'[s]
      <4>1. i \in Nat /\ i + 1 \in Places(e) /\ InTime(e, i + 1)
        BY <2>2, <3>7, <3>8
      <4>2. ASSUME NEW j \in Places(e), i + 1 < j PROVE ~InTime(e, j)
        <5>1. j - 1 \in Places(e)' /\ i < j - 1 /\ j \in Nat /\ (j - 1) + 1 = j
          BY <2>2, <4>1, <4>2
        <5> QED
          BY <3>7, <3>8, <5>1
      <4>3. wire[e][i + 1].value = value[s]
        BY <3>0, <3>8, <4>1, <4>2 DEF Agreeing
      <4> QED
        BY <2>2, <3>2, <4>3
    <3>9. ASSUME Places(s) = {}, \A i \in Places(e)' : ~InTime(e, i)'
          PROVE  value'[s] = value'[e]
      <4>1. \A j \in Places(e) : 1 < j => ~InTime(e, j)
        <5>1. \A j \in Places(e) : 1 < j => j - 1 \in Places(e)' /\ (j - 1) + 1 = j
          BY <2>2
        <5> QED
          BY <3>7, <3>9, <5>1
      <4>2. CASE InTime(e, 1)
        BY <1>3, <2>2, <3>0, <3>2, <3>9, <4>1, <4>2 DEF Agreeing, InTime
      <4>3. CASE ~InTime(e, 1)
        <5>1. \A j \in Places(e) : ~InTime(e, j)
          BY <2>2, <4>1, <4>3
        <5> QED
          BY <1>3, <3>0, <3>2, <3>9, <4>3, <5>1 DEF Agreeing, InTime
      <4> QED
        BY <4>2, <4>3
    <3>10. Agreeing(e, s)'
      BY <1>3, <3>3, <3>6, <3>8, <3>9 DEF Agreeing
    <3> QED
      BY <2>1, <2>3, <3>10
  <2>4. CASE master = Other(e)
    <3> DEFINE m == Other(e)
    <3>0. Agreeing(m, e)
      BY <2>1, <2>4
    <3>1. /\ value' = [value EXCEPT ![e] = msg.value]
          /\ master_version' = [master_version EXCEPT ![e] = msg.version]
      BY <1>5, <2>4 DEF Rejected
    <3>2. /\ value'[e] = msg.value /\ value'[m] = value[m]
          /\ master_version'[e] = msg.version /\ master_version'[m] = master_version[m]
          /\ master_version[e] \in Nat /\ master_version[m] \in Nat
      BY <1>1, <3>1
    <3>3. \A i \in Places(e)' : Newest(e, i)' <=> Newest(e, i + 1)
      BY <2>2 DEF Newest
    <3>4. Newest(e, 1) <=> Places(e)' = {}
      BY <2>2 DEF Newest
    <3>5. /\ master_version[e] < msg.version /\ msg.version <= master_version[m]
          /\ Places(e)' = {} => msg.version = master_version[m] /\ msg.value = value[m]
      BY <1>3, <2>2, <3>0, <3>4 DEF Agreeing
    <3>6. \A i \in Places(e)' :
            /\ i + 1 \in Places(e) /\ 1 < i + 1 /\ wire'[e][i] = wire[e][i + 1]
            /\ \A j \in Places(e)' : i < j => i + 1 < j + 1
      BY <2>2
    <3>7. \A i \in Places(e)' :
            /\ master_version'[e] < wire'[e][i].version /\ wire'[e][i].version <= master_version'[m]
            /\ Newest(e, i)' => wire'[e][i].version = master_version'[m] /\ wire'[e][i].value = value'[m]
            /\ \A j \in Places(e)' : i < j => wire'[e][i].version < wire'[e][j].version
      <4> SUFFICES ASSUME NEW i \in Places(e)'
                   PROVE  /\ msg.version < wire'[e][i].version
                          /\ wire'[e][i].version <= master_version[m]
                          /\ Newest(e, i + 1) => wire'[e][i].version = master_version[m]
                                                  /\ wire'[e][i].value = value[m]
                          /\ \A j \in Places(e)' : i < j => wire'[e][i].version < wire'[e][j].version
        BY <3>2, <3>3
      <4>1. i + 1 \in Places(e) /\ 1 < i + 1 /\ wire'[e][i] = wire[e][i + 1]
        BY <3>6
      <4>2. msg.version < wire[e][i + 1].version
        BY <1>3, <2>2, <3>0, <4>1 DEF Agreeing
      <4>3. /\ wire[e][i + 1].version <= master_version[m]
            /\ Newest(e, i + 1) => wire[e][i + 1].version = master_version[m]
                                    /\ wire[e][i + 1].value = value[m]
        BY <3>0, <4>1 DEF Agreeing
      <4>4. ASSUME NEW j \in Places(e)', i < j
            PROVE  wire[e][i + 1].version < wire[e][j + 1].version
        <5>1. j + 1 \in Places(e) /\ i + 1 < j + 1
          BY <3>6, <4>4
        <5> QED
          BY <3>0, <4>1, <5>1 DEF Agreeing
      <4>5. \A j \in Places(e)' : wire'[e][j] = wire[e][j + 1]
        BY <3>6
      <4> QED
        BY <4>1, <4>2, <4>3, <4>4, <4>5
    <3>8. \A i \in Places(m) : wire[m][i].version \in Nat /\ wire[m][i].version <= master_version[e]
      <4>1. \A i \in Places(m) : wire[m][i].version \in Nat
        BY <1>1, VersionsAreNumbers
      <4> QED
        BY <3>0, <4>1 DEF Agreeing
    <3>9. \A i \in Places(m)' : wire'[m][i].version < msg.version
      BY <1>3, <1>4, <3>2, <3>5, <3>8
    <3>10. \A i \in Places(m)' : wire'[m][i].version <= master_version'[e] /\ ~InTime(m, i)'
      <4>1. \A i \in Places(m)' : wire'[m][i].version \in Nat
        BY <1>3, <3>8
      <4> QED
        BY <1>4, <3>2, <3>5, <3>9, <4>1 DEF InTime
    <3>11. /\ master_version'[e] <= master_version'[m]
           /\ Places(e)' = {} => master_version'[e] = master_version'[m] /\ value'[e] = value'[m]
      BY <3>2, <3>5
    <3>12. Agreeing(m, e)'
      BY <3>7, <3>10, <3>11 DEF Agreeing
    <3> QED
      BY <2>1, <2>4, <3>12
  <2> QED
    BY <1>7, <2>3, <2>4
<1> QED
  BY <1>1, <1>3, <1>6, <1>7 DEF PropertyInv

\* Steps of other entities leave a property alone.
LEMMA PropertyStays ==
  ASSUME PropertyInv, UNCHANGED <<kind, propertyVars>>,
         kind # "property" \/ UNCHANGED endVars
  PROVE  PropertyInv'
<1>1. UNCHANGED <<kind, value, master_version>>
  BY DEF propertyVars
<1>2. CASE kind # "property"
  BY <1>1, <1>2 DEF PropertyInv
<1>3. CASE UNCHANGED endVars
  <2>1. UNCHANGED <<wire, bound, master>>
    BY <1>3 DEF endVars
  <2>2. \A m, s : Agreeing(m, s)' <=> Agreeing(m, s)
    BY <1>1, <2>1 DEF Agreeing, InTime, Newest, Places
  <2>3. (master \in Ends => Agreeing(master, Other(master)))' <=>
          (master \in Ends => Agreeing(master, Other(master)))
    BY <2>1, <2>2
  <2> QED
    BY <1>1, <2>1, <2>3 DEF PropertyInv
<1> QED
  BY <1>2, <1>3

\* For any number of changes at either end, while messages cross, what the master
\* and the slave hold and what is on its way decide on the same value.
THEOREM PropertyInvariance == Spec => []PropertyInv
<1>1. Init => PropertyInv
  <2> SUFFICES ASSUME Init PROVE PropertyInv
    OBVIOUS
  <2>1. PICK v \in Values : value = [e \in Ends |-> v]
    BY DEF Init, PropertyInit
  <2>2. /\ master_version = [e \in Ends |-> 0] /\ wire = [e \in Ends |-> <<>>]
        /\ master \in Ends \union {None} /\ bound = [e \in Ends |-> kind \notin Filled]
    BY DEF Init, PropertyInit, EndsInit
  <2>3. wire \in [Ends -> Seq(PropertyMessages)] /\ \A e \in Ends : Places(e) = {}
    BY <2>2 DEF Places
  <2>4. kind = "property" => bound \in [Ends -> {TRUE}]
    BY <2>2 DEF Filled
  <2>5. ASSUME master \in Ends PROVE Agreeing(master, Other(master))
    BY <2>1, <2>2, <2>3, <2>5, OtherEnd DEF Agreeing
  <2> QED
    BY <2>1, <2>2, <2>3, <2>4, <2>5 DEF PropertyInv
<1>2. PropertyInv /\ [Next]_vars => PropertyInv'
  <2> SUFFICES ASSUME PropertyInv, [Next]_vars PROVE PropertyInv'
    OBVIOUS
  <2>1. CASE PropertyStep
    BY <2>1, SetKeepsAgreeing, ReceiveKeepsAgreeing DEF PropertyStep, PropertyNext
  <2>2. CASE MapStep \/ ListStep \/ SetStep \/ InternStep
    <3>1. kind # "property" /\ UNCHANGED <<kind, propertyVars>>
      BY <2>2 DEF MapStep, ListStep, SetStep, InternStep
    <3> QED
      BY <3>1, PropertyStays
  <2>3. CASE UNCHANGED vars
    <3>1. UNCHANGED <<kind, propertyVars, endVars>>
      BY <2>3 DEF vars
    <3> QED
      BY <3>1, PropertyStays
  <2> QED
    BY <2>1, <2>2, <2>3 DEF Next
<1> QED
  BY <1>1, <1>2, PTL DEF Spec

\* The replicas of a property with a master agree when every message has arrived,
\* whatever changes crossed.
THEOREM PropertyAgrees == Spec => []PropertyConverges
<1>1. PropertyInv => PropertyConverges
  <2> SUFFICES ASSUME PropertyInv, Quiet, master # None, NEW e \in Ends, NEW f \in Ends
               PROVE  value[e] = value[f]
    BY DEF PropertyConverges
  <2>1. CASE kind = "property"
    <3>1. master \in Ends /\ Agreeing(master, Other(master)) /\ Other(master) \in Ends
      BY <2>1, OtherEnd DEF PropertyInv
    <3>2. \A g \in Ends : Places(g) = {}
      BY DEF Quiet, Places
    <3>3. value[Other(master)] = value[master]
      BY <3>1, <3>2 DEF Agreeing
    <3> QED
      BY <3>1, <3>3, OtherEnd
  <2> QED
    BY <2>1 DEF PropertyInv
<1> QED
  BY <1>1, PropertyInvariance, PTL

-----------------------------------------------------------------------------
(* Interning.                                                              *)

InternMessages == [kind : {"intern", "use"}, index : Nat, value : Values]
Writes == [index : Nat, value : Values]

\* The value e has given number j, and what e knows of the counterpart's.
Own(e, j, v) == j + 1 \in 1 .. Len(my_items[e]) /\ my_items[e][j + 1] = v
Here(e, j) == j \in DOMAIN other_items[e]

\* What index id of e stands for.
Means(e, id, v) ==
  \E j \in Nat : \/ id = 2 * j /\ Own(e, j, v)
                 \/ id = 2 * j + 1 /\ Here(e, j) /\ Own(Other(e), j, v)

ItemsKnown(e) ==
  \A j \in DOMAIN other_items[e] : j \in Nat /\ \A v \in {other_items[e][j]} : Own(Other(e), j, v)
IndicesKnown(e) ==
  /\ \A v \in DOMAIN inverse_map[e] : \A id \in {inverse_map[e][v]} : Means(e, id, v)
  /\ \A t \in Writers : \A w \in {writing[e][t]} : w # Nowhere => Means(e, w.index, w.value)

Introduction(e, m) == \E j \in Nat : m.index = 2 * j /\ Own(Other(e), j, m.value)
Claimed(e, m) ==
  /\ m.kind = "intern" => Introduction(e, m)
  /\ m.kind = "use" => Means(Other(e), m.index, m.value)
MessagesTrue(e) ==
  /\ \A i \in Places(e) : \A m \in {wire[e][i]} : Claimed(e, m)
  /\ \A m \in {inserting[e]} : m # Nowhere => Introduction(e, m)

\* Every value of the counterpart has arrived or is on its way, before its uses.
Introduces(m, j) == m.kind = "intern" /\ m.index = 2 * j
Coming(e, j) == Here(e, j) \/ (inserting[e] # Nowhere /\ inserting[e].index = 2 * j)
AllComing(e) ==
  \A j \in Nat : j + 1 \in 1 .. Len(my_items[Other(e)]) =>
    Coming(e, j) \/ \E i \in Places(e) : Introduces(wire[e][i], j)
UsesBehind(e) ==
  \A i \in Places(e), j \in Nat : wire[e][i].kind = "use" /\ wire[e][i].index = 2 * j =>
    Coming(e, j) \/ \E k \in Places(e) : k < i /\ Introduces(wire[e][k], j)
UsesResolve(e) ==
  \A i \in 1 .. Len(queue[e]) : \A m \in {queue[e][i]} :
    /\ Means(Other(e), m.index, m.value)
    /\ \A j \in Nat : m.index = 2 * j => Here(e, j)

InternTypes ==
  /\ bound \in [Ends -> {TRUE}]
  /\ wire \in [Ends -> Seq(InternMessages)]
  /\ my_items \in [Ends -> Seq(Values)]
  /\ other_items = [e \in Ends |-> other_items[e]]
  /\ inverse_map = [e \in Ends |-> inverse_map[e]]
  /\ writing \in [Ends -> [Writers -> Writes \union {Nowhere}]]
  /\ inserting \in [Ends -> InternMessages \union {Nowhere}]
  /\ queue \in [Ends -> Seq(InternMessages)]

InternInv ==
  /\ kind # "intern" => \A e \in Ends : queue[e] = <<>>
  /\ kind = "intern" =>
       /\ InternTypes
       /\ \A e \in Ends : /\ ItemsKnown(e) /\ IndicesKnown(e) /\ MessagesTrue(e)
                          /\ AllComing(e) /\ UsesBehind(e) /\ UsesResolve(e)

\* The parts of it.
LEMMA InternParts ==
  ASSUME InternInv, kind = "intern"
  PROVE  /\ InternTypes
         /\ \A e \in Ends : ItemsKnown(e)
         /\ \A e \in Ends : IndicesKnown(e)
         /\ \A e \in Ends : MessagesTrue(e)
         /\ \A e \in Ends : AllComing(e)
         /\ \A e \in Ends : UsesBehind(e)
         /\ \A e \in Ends : UsesResolve(e)
BY DEF InternInv

\* Nothing an end knows is forgotten.
Grows ==
  /\ \A e \in Ends, j \in Nat : \A v : Own(e, j, v) => Own(e, j, v)'
  /\ \A e \in Ends, j \in Nat : Here(e, j) => Here(e, j)'

\* What is known stays known.
LEMMA MeansStays ==
  ASSUME Grows, NEW e \in Ends
  PROVE  /\ \A id, v : Means(e, id, v) => Means(e, id, v)'
         /\ \A id, v : (\E j \in Nat : id = 2 * j /\ Own(Other(e), j, v)) =>
                       (\E j \in Nat : id = 2 * j /\ Own(Other(e), j, v)')
<1>1. Other(e) \in Ends
  BY OtherEnd
<1>2. ASSUME NEW id, NEW v, Means(e, id, v) PROVE Means(e, id, v)'
  <2>1. PICK j \in Nat : \/ id = 2 * j /\ Own(e, j, v)
                         \/ id = 2 * j + 1 /\ Here(e, j) /\ Own(Other(e), j, v)
    BY <1>2 DEF Means
  <2>2. \/ id = 2 * j /\ Own(e, j, v)'
        \/ id = 2 * j + 1 /\ Here(e, j)' /\ Own(Other(e), j, v)'
    BY <1>1, <2>1 DEF Grows
  <2> QED
    BY <2>2 DEF Means
<1>3. ASSUME NEW id, NEW v, NEW j \in Nat, id = 2 * j, Own(Other(e), j, v)
      PROVE  \E k \in Nat : id = 2 * k /\ Own(Other(e), k, v)'
  BY <1>1, <1>3 DEF Grows
<1> QED
  BY <1>2, <1>3

\* What does not change goes on to be true.
LEMMA InternStays ==
  ASSUME Grows, NEW e \in Ends
  PROVE  /\ ItemsKnown(e) /\ other_items'[e] = other_items[e] => ItemsKnown(e)'
         /\ IndicesKnown(e) /\ inverse_map'[e] = inverse_map[e] /\ writing'[e] = writing[e] =>
              IndicesKnown(e)'
         /\ UsesResolve(e) /\ queue'[e] = queue[e] => UsesResolve(e)'
         /\ MessagesTrue(e) /\ wire'[e] = wire[e] /\ inserting'[e] \in {inserting[e], Nowhere} =>
              MessagesTrue(e)'
         /\ (\A j \in Nat : Coming(e, j) => Coming(e, j)') /\ wire'[e] = wire[e] =>
              /\ UsesBehind(e) => UsesBehind(e)'
              /\ AllComing(e) /\ my_items'[Other(e)] = my_items[Other(e)] => AllComing(e)'
<1> USE OtherEnd
<1>1. /\ \A f \in Ends : \A id, v : Means(f, id, v) => Means(f, id, v)'
      /\ \A m : Introduction(e, m) => Introduction(e, m)'
      /\ \A m : Claimed(e, m) => Claimed(e, m)'
  BY MeansStays DEF Introduction, Claimed
<1>2. wire'[e] = wire[e] => Places(e)' = Places(e)
  BY DEF Places
<1>3. ItemsKnown(e) /\ other_items'[e] = other_items[e] => ItemsKnown(e)'
  BY DEF ItemsKnown, Grows
<1>4. MessagesTrue(e) /\ wire'[e] = wire[e] /\ inserting'[e] \in {inserting[e], Nowhere} =>
        MessagesTrue(e)'
  BY <1>1, <1>2 DEF MessagesTrue
<1>5. (\A j \in Nat : Coming(e, j) => Coming(e, j)') /\ wire'[e] = wire[e] =>
        (UsesBehind(e) => UsesBehind(e)')
  BY <1>2 DEF UsesBehind
<1>6. (\A j \in Nat : Coming(e, j) => Coming(e, j)') /\ wire'[e] = wire[e] =>
        (AllComing(e) /\ my_items'[Other(e)] = my_items[Other(e)] => AllComing(e)')
  BY <1>2 DEF AllComing
<1>7. IndicesKnown(e) /\ inverse_map'[e] = inverse_map[e] /\ writing'[e] = writing[e] =>
        IndicesKnown(e)'
  BY <1>1 DEF IndicesKnown
<1>8. UsesResolve(e) /\ queue'[e] = queue[e] => UsesResolve(e)'
  BY <1>1 DEF UsesResolve, Grows
<1> QED
  BY <1>3, <1>4, <1>5, <1>6, <1>7, <1>8

\* The invariant is made of its parts.
LEMMA InternWhole ==
  ASSUME kind' = "intern", InternTypes',
         \A e \in Ends : ItemsKnown(e)' /\ IndicesKnown(e)' /\ UsesResolve(e)',
         \A e \in Ends : MessagesTrue(e)' /\ AllComing(e)' /\ UsesBehind(e)'
  PROVE  InternInv'
BY DEF InternInv

\* A message follows what was on its way to e.
Follows(e, m) ==
  \E l \in Nat :
    /\ \A i \in Places(e) : i \in Places(e)' /\ wire'[e][i] = wire[e][i] /\ i \in Nat /\ i < l
    /\ l \in Places(e)' /\ wire'[e][l] = m
    /\ \A j \in Places(e)' : j \in Places(e) \/ j = l

\* One message is sent.
LEMMA OneFollows ==
  ASSUME NEW e, NEW m, Join(e, <<m>>)
  PROVE  Follows(e, m)
<1>1. Len(<<m>>) = 1 /\ 1 \in 1 .. Len(<<m>>) /\ <<m>>[1] = m /\ \A i \in 1 .. Len(<<m>>) : i = 1
  OBVIOUS
<1>2. PICK k \in Nat :
        /\ \A i \in Places(e) : i \in Places(e)' /\ wire'[e][i] = wire[e][i] /\ i \in Nat /\ i <= k
        /\ \A i \in 1 .. Len(<<m>>) : k + i \in Places(e)' /\ wire'[e][k + i] = <<m>>[i]
        /\ \A j \in Places(e)' : j \in Nat /\ (j \in Places(e) \/ \E i \in 1 .. Len(<<m>>) : j = k + i)
  BY DEF Join
<1>3. k + 1 \in Places(e)' /\ wire'[e][k + 1] = m
  BY <1>1, <1>2
<1>4. \A j \in Places(e)' : j \in Places(e) \/ j = k + 1
  BY <1>1, <1>2
<1>5. \A i \in Places(e) : i < k + 1
  BY <1>2
<1> QED
  BY <1>2, <1>3, <1>4, <1>5 DEF Follows

\* A message to e that is true, and a use only of what is coming.
LEMMA InternFollows ==
  ASSUME Grows, NEW e \in Ends, NEW m, Follows(e, m),
         other_items'[e] = other_items[e], inserting'[e] = inserting[e],
         MessagesTrue(e), UsesBehind(e), AllComing(e),
         Claimed(e, m)',
         m.kind = "use" =>
           \A j \in Nat : m.index = 2 * j => j + 1 \in 1 .. Len(my_items[Other(e)])
  PROVE  MessagesTrue(e)' /\ UsesBehind(e)'
<1> USE OtherEnd
<1>1. /\ \A f \in Ends : \A id, v : Means(f, id, v) => Means(f, id, v)'
      /\ \A f \in Ends : \A p : Introduction(f, p) => Introduction(f, p)'
  BY MeansStays DEF Introduction
<1>2. \A j : Coming(e, j)' <=> Coming(e, j)
  BY DEF Coming, Here
<1>3. PICK l \in Nat :
        /\ \A i \in Places(e) : i \in Places(e)' /\ wire'[e][i] = wire[e][i] /\ i \in Nat /\ i < l
        /\ l \in Places(e)' /\ wire'[e][l] = m
        /\ \A j \in Places(e)' : j \in Places(e) \/ j = l
  BY DEF Follows
<1>4. MessagesTrue(e)'
  <2>1. \A p : Claimed(e, p) => Claimed(e, p)'
    BY <1>1 DEF Claimed
  <2>2. \A i \in Places(e)' : \A p \in {wire'[e][i]} : Claimed(e, p)'
    BY <1>3, <2>1 DEF MessagesTrue
  <2>3. \A p \in {inserting'[e]} : p # Nowhere => Introduction(e, p)'
    BY <1>1 DEF MessagesTrue
  <2> QED
    BY <2>2, <2>3 DEF MessagesTrue
<1>5. ASSUME NEW i \in Places(e)', NEW j \in Nat,
             wire'[e][i].kind = "use", wire'[e][i].index = 2 * j
      PROVE  Coming(e, j) \/ \E k \in Places(e)' : k < i /\ Introduces(wire'[e][k], j)
  <2>1. CASE i \in Places(e)
    <3>1. Coming(e, j) \/ \E k \in Places(e) : k < i /\ Introduces(wire[e][k], j)
      BY <1>3, <1>5, <2>1 DEF UsesBehind
    <3> QED
      BY <1>3, <3>1
  <2>2. CASE i = l
    <3>1. j + 1 \in 1 .. Len(my_items[Other(e)])
      BY <1>3, <1>5, <2>2
    <3>2. Coming(e, j) \/ \E k \in Places(e) : Introduces(wire[e][k], j)
      BY <3>1 DEF AllComing
    <3> QED
      BY <1>3, <2>2, <3>2
  <2> QED
    BY <1>3, <2>1, <2>2
<1>6. UsesBehind(e)'
  BY <1>2, <1>5 DEF UsesBehind
<1> QED
  BY <1>4, <1>6

\* Neither a message nor what is known changes for an end.
Untouched(e) ==
  /\ wire'[e] = wire[e] /\ inserting'[e] = inserting[e] /\ other_items'[e] = other_items[e]
  /\ inverse_map'[e] = inverse_map[e] /\ writing'[e] = writing[e] /\ queue'[e] = queue[e]

LEMMA UntouchedStays ==
  ASSUME InternInv, kind = "intern", Grows, NEW e \in Ends, Untouched(e),
         my_items'[Other(e)] = my_items[Other(e)]
  PROVE  /\ ItemsKnown(e)' /\ IndicesKnown(e)' /\ UsesResolve(e)'
         /\ MessagesTrue(e)' /\ AllComing(e)' /\ UsesBehind(e)'
<1>1. \A j \in Nat : Coming(e, j) => Coming(e, j)'
  BY DEF Untouched, Coming, Here
<1> QED
  BY <1>1, InternParts, InternStays DEF Untouched

\* Indices and their opposites.
LEMMA OppositeOf ==
  ASSUME NEW j \in Nat
  PROVE  /\ Opposite(2 * j) = 2 * j + 1 /\ Opposite(2 * j + 1) = 2 * j
         /\ (2 * j) \div 2 = j /\ (2 * j + 1) \div 2 = j
         /\ is_index_owned(2 * j) /\ ~is_index_owned(2 * j + 1)
<1>1. /\ (2 * j) % 2 = 0 /\ (2 * j + 1) % 2 = 1
      /\ (2 * j) \div 2 = j /\ (2 * j + 1) \div 2 = j
      /\ (2 * j + 1) - 1 = 2 * j
  OBVIOUS
<1> QED
  BY <1>1 DEF Opposite, is_index_owned

\* A message is there.
LEMMA NotNowhere == \A m \in InternMessages : m # Nowhere
<1> SUFFICES ASSUME NEW m \in InternMessages PROVE m # Nowhere
  OBVIOUS
<1>1. "kind" \in DOMAIN m
  BY DEF InternMessages
<1>2. "kind" \notin DOMAIN Nowhere
  BY DEF Nowhere
<1> QED
  BY <1>1, <1>2

\* intern_value of a value that has an index
LEMMA KnownValueKeeps ==
  ASSUME InternInv, kind = "intern", UNCHANGED kind, NEW e \in Ends, NEW t \in Writers,
         NEW v \in Values, InternValue(e, t, v), v \in DOMAIN inverse_map[e]
  PROVE  InternInv'
<1> USE OtherEnd
<1>1. InternTypes /\ IndicesKnown(e)
  BY InternParts
<1>2. PICK id : id = inverse_map[e][v]
  OBVIOUS
<1>3. Means(e, id, v)
  BY <1>1, <1>2 DEF IndicesKnown
<1>4. id \in Nat
  BY <1>3 DEF Means
<1>5. PICK w \in Writes : w = [index |-> id, value |-> v]
  BY <1>4 DEF Writes
<1>6. /\ writing' = [writing EXCEPT ![e][t] = w] /\ Change(e, <<>>)
      /\ UNCHANGED <<my_items, inverse_map, other_items, inserting, queue>>
  BY <1>2, <1>5 DEF InternValue
<1>7. UNCHANGED <<wire, bound>>
  <2>1. wire \in [Ends -> Seq(InternMessages)]
    BY <1>1 DEF InternTypes
  <2>2. wire[Other(e)] \o <<>> = wire[Other(e)]
    BY <2>1, ConcatEmptySeq
  <2> QED
    BY <1>6, <2>1, <2>2 DEF Change
<1>8. writing' \in [Ends -> [Writers -> Writes \union {Nowhere}]]
  BY <1>1, <1>5, <1>6 DEF InternTypes
<1>9. InternTypes'
  BY <1>1, <1>6, <1>7, <1>8 DEF InternTypes
<1>10. Grows
  BY <1>6 DEF Grows, Own, Here
<1>11. writing'[Other(e)] = writing[Other(e)] /\ \A u \in Writers : u # t => writing'[e][u] = writing[e][u]
  BY <1>1, <1>6 DEF InternTypes
<1>12. writing'[e][t] = w
  BY <1>1, <1>6 DEF InternTypes
<1>13. \A id2, v2 : Means(e, id2, v2) => Means(e, id2, v2)'
  BY <1>10, MeansStays
<1>14. IndicesKnown(e)'
  <2>1. \A v2 \in DOMAIN inverse_map'[e] : \A id2 \in {inverse_map'[e][v2]} : Means(e, id2, v2)'
    BY <1>1, <1>6, <1>13 DEF IndicesKnown
  <2>2. Means(e, w.index, w.value)'
    BY <1>3, <1>5, <1>13
  <2>3. \A u \in Writers : \A x \in {writing'[e][u]} : x # Nowhere => Means(e, x.index, x.value)'
    BY <1>1, <1>11, <1>12, <1>13, <2>2 DEF IndicesKnown
  <2> QED
    BY <2>1, <2>3 DEF IndicesKnown
<1>15. \A f \in Ends : \A j \in Nat : Coming(f, j) => Coming(f, j)'
  BY <1>6 DEF Coming, Here
<1>16. \A f \in Ends : ItemsKnown(f)' /\ UsesResolve(f)' /\ MessagesTrue(f)' /\ AllComing(f)' /\ UsesBehind(f)'
  BY <1>6, <1>7, <1>10, <1>15, InternParts, InternStays
<1>17. Untouched(Other(e))
  BY <1>6, <1>7, <1>11 DEF Untouched
<1>18. IndicesKnown(Other(e))'
  BY <1>6, <1>10, <1>17, UntouchedStays
<1> QED
  BY <1>9, <1>14, <1>16, <1>18, InternWhole

\* intern_value of a value that has none
LEMMA NewValueKeeps ==
  ASSUME InternInv, kind = "intern", UNCHANGED kind, NEW e \in Ends, NEW t \in Writers,
         NEW v \in Values, InternValue(e, t, v), v \notin DOMAIN inverse_map[e]
  PROVE  InternInv'
<1> USE OtherEnd
<1>1. InternTypes /\ IndicesKnown(e)
  BY InternParts
<1>2. PICK n \in Nat : n = Len(my_items[e])
  BY <1>1, LenProperties DEF InternTypes
<1>0. PICK k \in Nat : k = 2 * n
  OBVIOUS
<1>3. PICK w : w = [index |-> k, value |-> v]
  OBVIOUS
<1>4. PICK m : m = [kind |-> "intern", index |-> k, value |-> v]
  OBVIOUS
<1>34. w \in Writes /\ m \in InternMessages
  BY <1>3, <1>4 DEF Writes, InternMessages
<1>5. /\ writing' = [writing EXCEPT ![e][t] = w] /\ Change(e, <<m>>)
      /\ my_items' = [my_items EXCEPT ![e] = Append(@, v)]
      /\ inverse_map' = [inverse_map EXCEPT ![e] = With(@, v, k)]
      /\ UNCHANGED <<other_items, inserting, queue>>
  BY <1>0, <1>2, <1>3, <1>4 DEF InternValue, NextIndex
<1>6. wire \in [Ends -> Seq(InternMessages)] /\ bound[e] /\ <<m>> \in Seq(InternMessages)
  <2>1. wire \in [Ends -> Seq(InternMessages)] /\ bound[e]
    BY <1>1 DEF InternTypes
  <2>2. <<m>> \in Seq(InternMessages)
    BY <1>34
  <2> QED
    BY <2>1, <2>2
<1>7. /\ wire' \in [Ends -> Seq(InternMessages)] /\ wire'[e] = wire[e]
      /\ Join(Other(e), <<m>>) /\ bound' = bound
  BY <1>5, <1>6, ChangeSends
<1>8. /\ my_items[e] \in Seq(Values) /\ my_items'[e] = Append(my_items[e], v)
      /\ my_items'[Other(e)] = my_items[Other(e)]
      /\ inverse_map'[e] = With(inverse_map[e], v, k)
      /\ inverse_map'[Other(e)] = inverse_map[Other(e)]
      /\ writing'[Other(e)] = writing[Other(e)] /\ writing'[e][t] = w
      /\ \A u \in Writers : u # t => writing'[e][u] = writing[e][u]
  BY <1>1, <1>5 DEF InternTypes
<1>9. /\ my_items'[e] \in Seq(Values) /\ Len(my_items'[e]) = n + 1
      /\ \A i \in 1 .. n : my_items'[e][i] = my_items[e][i]
      /\ my_items'[e][n + 1] = v
  BY <1>2, <1>8, AppendProperties
<1>10. Grows
  <2>1. ASSUME NEW j \in Nat, NEW x, Own(e, j, x) PROVE Own(e, j, x)'
    <3>1. j + 1 \in 1 .. n /\ my_items[e][j + 1] = x
      BY <1>2, <2>1 DEF Own
    <3>2. j + 1 \in 1 .. n + 1
      BY <3>1
    <3> QED
      BY <1>9, <3>1, <3>2 DEF Own
  <2>2. ASSUME NEW j \in Nat, NEW x, Own(Other(e), j, x) PROVE Own(Other(e), j, x)'
    BY <1>8, <2>2 DEF Own
  <2>3. \A f \in Ends, j \in Nat : Here(f, j) => Here(f, j)'
    BY <1>5 DEF Here
  <2> QED
    BY <2>1, <2>2, <2>3 DEF Grows
<1>11. Own(e, n, v)'
  <2>1. n + 1 \in 1 .. n + 1
    OBVIOUS
  <2> QED
    BY <1>9, <2>1 DEF Own
<1>12. Means(e, k, v)' /\ Claimed(Other(e), m)'
  BY <1>0, <1>4, <1>11 DEF Means, Claimed, Introduction
<1>13. InternTypes'
  <2>1. writing' \in [Ends -> [Writers -> Writes \union {Nowhere}]]
    BY <1>1, <1>34, <1>5 DEF InternTypes
  <2>2. my_items' \in [Ends -> Seq(Values)]
    BY <1>1, <1>5, <1>8, <1>9 DEF InternTypes
  <2>3. inverse_map' = [f \in Ends |-> inverse_map'[f]]
    BY <1>1, <1>5 DEF InternTypes
  <2>4. UNCHANGED <<other_items, inserting, queue>>
    BY <1>5
  <2>5. /\ inserting' \in [Ends -> InternMessages \union {Nowhere}]
        /\ queue' \in [Ends -> Seq(InternMessages)]
    BY <1>1, <2>4 DEF InternTypes
  <2>7. other_items' = [f \in Ends |-> other_items'[f]]
    BY <1>1, <2>4 DEF InternTypes
  <2>8. bound' \in [Ends -> {TRUE}]
    BY <1>1, <1>7 DEF InternTypes
  <2>6. wire' \in [Ends -> Seq(InternMessages)]
    BY <1>1, <1>7 DEF InternTypes
  <2> QED
    BY <2>1, <2>2, <2>3, <2>5, <2>6, <2>7, <2>8 DEF InternTypes
<1>14. \A id2, v2 : Means(e, id2, v2) => Means(e, id2, v2)'
  BY <1>10, MeansStays
<1>15. IndicesKnown(e)'
  <2>1. ASSUME NEW x \in DOMAIN inverse_map'[e], NEW id, id = inverse_map'[e][x]
        PROVE  Means(e, id, x)'
    <3>1. CASE x = v
      BY <1>8, <1>12, <2>1, <3>1 DEF With
    <3>2. CASE x # v
      <4>1. x \in DOMAIN inverse_map[e] /\ id = inverse_map[e][x]
        BY <1>8, <2>1, <3>2 DEF With
      <4> QED
        BY <1>1, <1>14, <4>1 DEF IndicesKnown
    <3> QED
      BY <3>1, <3>2
  <2>2. Means(e, w.index, w.value)'
    BY <1>3, <1>12
  <2>3. \A u \in Writers : \A x \in {writing'[e][u]} : x # Nowhere => Means(e, x.index, x.value)'
    BY <1>1, <1>8, <1>14, <2>2 DEF IndicesKnown
  <2> QED
    BY <2>1, <2>3 DEF IndicesKnown
<1>16. \A f \in Ends : \A j \in Nat : Coming(f, j) => Coming(f, j)'
  BY <1>5 DEF Coming, Here
<1>17. /\ ItemsKnown(e)' /\ UsesResolve(e)' /\ MessagesTrue(e)' /\ AllComing(e)' /\ UsesBehind(e)'
  BY <1>5, <1>7, <1>8, <1>10, <1>16, InternParts, InternStays
<1>18. /\ ItemsKnown(Other(e))' /\ UsesResolve(Other(e))' /\ IndicesKnown(Other(e))'
  BY <1>5, <1>8, <1>10, InternParts, InternStays
<1>19. Follows(Other(e), m)
  BY <1>7, OneFollows
<1>20. MessagesTrue(Other(e))' /\ UsesBehind(Other(e))'
  <2>1. m.kind # "use"
    BY <1>4
  <2>2. MessagesTrue(Other(e)) /\ UsesBehind(Other(e)) /\ AllComing(Other(e))
    BY InternParts
  <2>3. other_items'[Other(e)] = other_items[Other(e)] /\ inserting'[Other(e)] = inserting[Other(e)]
    BY <1>5
  <2> QED
    BY <1>10, <1>12, <1>19, <2>1, <2>2, <2>3, InternFollows
<1>21. AllComing(Other(e))'
  <2>1. AllComing(Other(e))
    BY InternParts
  <2>2. PICK l : /\ l \in Places(Other(e))' /\ wire'[Other(e)][l] = m
                 /\ \A i \in Places(Other(e)) : i \in Places(Other(e))' /\ wire'[Other(e)][i] = wire[Other(e)][i]
    BY <1>19 DEF Follows
  <2>3. ASSUME NEW j \in Nat, j + 1 \in 1 .. n + 1
        PROVE  Coming(Other(e), j)' \/ \E i \in Places(Other(e))' : Introduces(wire'[Other(e)][i], j)
    <3>1. CASE j = n
      <4>1. Introduces(m, j)
        BY <1>0, <1>4, <3>1 DEF Introduces
      <4> QED
        BY <2>2, <4>1
    <3>2. CASE j # n
      <4>1. j + 1 \in 1 .. Len(my_items[e])
        BY <1>2, <2>3, <3>2
      <4>2. Coming(Other(e), j) \/ \E i \in Places(Other(e)) : Introduces(wire[Other(e)][i], j)
        BY <2>1, <4>1 DEF AllComing
      <4> QED
        BY <1>16, <2>2, <4>2
    <3> QED
      BY <3>1, <3>2
  <2> QED
    BY <1>9, <2>3 DEF AllComing
<1> QED
  BY <1>13, <1>15, <1>17, <1>18, <1>20, <1>21, InternWhole

\* The message with the index in it is sent.
LEMMA SendUseKeeps ==
  ASSUME InternInv, kind = "intern", UNCHANGED kind, NEW e \in Ends, NEW t \in Writers, SendUse(e, t)
  PROVE  InternInv'
<1> USE OtherEnd
<1>1. InternTypes /\ IndicesKnown(e)
  BY InternParts
<1>2. PICK w : w = writing[e][t] /\ w # Nowhere
  BY DEF SendUse
<1>3. Means(e, w.index, w.value) /\ w \in Writes
  BY <1>1, <1>2 DEF IndicesKnown, InternTypes
<1>4. PICK m : m = [kind |-> "use", index |-> w.index, value |-> w.value]
  OBVIOUS
<1>5. m \in InternMessages /\ <<m>> \in Seq(InternMessages)
  <2>1. m \in InternMessages
    BY <1>3, <1>4 DEF InternMessages, Writes
  <2> QED
    BY <2>1
<1>6. /\ wire' = [wire EXCEPT ![Other(e)] = Append(@, m)]
      /\ writing' = [writing EXCEPT ![e][t] = Nowhere]
      /\ UNCHANGED <<bound, my_items, other_items, inverse_map, inserting, queue>>
  BY <1>2, <1>4 DEF SendUse
<1>7. wire \in [Ends -> Seq(InternMessages)] /\ wire[Other(e)] \in Seq(InternMessages)
  BY <1>1 DEF InternTypes
<1>8. Append(wire[Other(e)], m) = wire[Other(e)] \o <<m>> /\ Append(wire[Other(e)], m) \in Seq(InternMessages)
  BY <1>5, <1>7, AppendIsConcat, AppendProperties
<1>9. /\ wire' \in [Ends -> Seq(InternMessages)] /\ wire'[e] = wire[e]
      /\ wire'[Other(e)] = wire[Other(e)] \o <<m>>
  BY <1>6, <1>7, <1>8
<1>10. Follows(Other(e), m)
  BY <1>5, <1>7, <1>9, JoinedAt, OneFollows
<1>11. /\ writing'[Other(e)] = writing[Other(e)] /\ writing'[e][t] = Nowhere
       /\ \A u \in Writers : u # t => writing'[e][u] = writing[e][u]
       /\ writing' \in [Ends -> [Writers -> Writes \union {Nowhere}]]
  BY <1>1, <1>6 DEF InternTypes
<1>12. InternTypes'
  <2>1. /\ my_items' = my_items /\ other_items' = other_items /\ inverse_map' = inverse_map
        /\ inserting' = inserting /\ queue' = queue /\ bound' = bound
    BY <1>6
  <2> QED
    BY <1>1, <1>9, <1>11, <2>1 DEF InternTypes
<1>13. Grows
  BY <1>6 DEF Grows, Own, Here
<1>14. \A id2, v2 : Means(e, id2, v2) => Means(e, id2, v2)'
  BY <1>13, MeansStays
<1>15. IndicesKnown(e)'
  <2>1. \A v2 \in DOMAIN inverse_map'[e] : \A id2 \in {inverse_map'[e][v2]} : Means(e, id2, v2)'
    BY <1>1, <1>6, <1>14 DEF IndicesKnown
  <2>2. \A u \in Writers : \A x \in {writing'[e][u]} : x # Nowhere => Means(e, x.index, x.value)'
    BY <1>1, <1>11, <1>14 DEF IndicesKnown
  <2> QED
    BY <2>1, <2>2 DEF IndicesKnown
<1>16. \A f \in Ends : \A j \in Nat : Coming(f, j) => Coming(f, j)'
  BY <1>6 DEF Coming, Here
<1>17. ItemsKnown(e)' /\ UsesResolve(e)' /\ MessagesTrue(e)' /\ AllComing(e)' /\ UsesBehind(e)'
  BY <1>6, <1>9, <1>13, <1>16, InternParts, InternStays
<1>18. ItemsKnown(Other(e))' /\ UsesResolve(Other(e))' /\ IndicesKnown(Other(e))'
  BY <1>6, <1>11, <1>13, InternParts, InternStays
<1>19. MessagesTrue(Other(e))' /\ UsesBehind(Other(e))'
  <2>1. Claimed(Other(e), m)'
    <3>1. Means(e, w.index, w.value)'
      BY <1>3, <1>14
    <3>2. m.kind = "use" /\ m.index = w.index /\ m.value = w.value
      BY <1>4
    <3> QED
      BY <3>1, <3>2 DEF Claimed
  <2>2. ASSUME NEW j \in Nat, m.index = 2 * j PROVE j + 1 \in 1 .. Len(my_items[e])
    <3>1. PICK k \in Nat : \/ w.index = 2 * k /\ Own(e, k, w.value)
                           \/ w.index = 2 * k + 1 /\ Here(e, k) /\ Own(Other(e), k, w.value)
      BY <1>3 DEF Means
    <3>2. w.index = 2 * j
      BY <1>4, <2>2
    <3>3. 2 * j # 2 * k + 1 /\ (2 * j = 2 * k => j = k)
      OBVIOUS
    <3> QED
      BY <3>1, <3>2, <3>3 DEF Own
  <2>3. MessagesTrue(Other(e)) /\ UsesBehind(Other(e)) /\ AllComing(Other(e))
    BY InternParts
  <2>4. other_items'[Other(e)] = other_items[Other(e)] /\ inserting'[Other(e)] = inserting[Other(e)]
    BY <1>6
  <2> QED
    BY <1>10, <1>13, <2>1, <2>2, <2>3, <2>4, InternFollows
<1>20. AllComing(Other(e))'
  <2>1. AllComing(Other(e)) /\ my_items' = my_items
    BY <1>6, InternParts
  <2>2. \A i \in Places(Other(e)) : i \in Places(Other(e))' /\ wire'[Other(e)][i] = wire[Other(e)][i]
    BY <1>10 DEF Follows
  <2> QED
    BY <1>16, <2>1, <2>2 DEF AllComing
<1> QED
  BY <1>12, <1>15, <1>17, <1>18, <1>19, <1>20, InternWhole

\* What the socket thread takes off the wire.
LEMMA InternTaken ==
  ASSUME InternInv, kind = "intern", NEW e \in Ends, Receive(e, <<>>),
         UNCHANGED <<my_items, other_items, inverse_map, writing>>,
         inserting'[Other(e)] = inserting[Other(e)], queue'[Other(e)] = queue[Other(e)]
  PROVE  /\ wire' \in [Ends -> Seq(InternMessages)] /\ bound' = bound
         /\ Taken(e) /\ Arriving(e) \in InternMessages /\ Claimed(e, Arriving(e))
         /\ Grows
         /\ ItemsKnown(e)' /\ IndicesKnown(e)'
         /\ ItemsKnown(Other(e))' /\ IndicesKnown(Other(e))' /\ UsesResolve(Other(e))'
         /\ MessagesTrue(Other(e))' /\ AllComing(Other(e))' /\ UsesBehind(Other(e))'
<1> USE OtherEnd
<1>1. wire \in [Ends -> Seq(InternMessages)] /\ MessagesTrue(e)
  BY InternParts DEF InternTypes
<1>2. /\ wire' \in [Ends -> Seq(InternMessages)] /\ wire'[Other(e)] = wire[Other(e)]
      /\ Taken(e) /\ Arriving(e) \in InternMessages /\ bound' = bound
  BY <1>1, ReceiveTakes
<1>3. Claimed(e, Arriving(e))
  BY <1>1, <1>2 DEF MessagesTrue, Taken
<1>4. Grows
  BY DEF Grows, Own, Here
<1>5. Untouched(Other(e))
  BY <1>2 DEF Untouched
<1>6. /\ ItemsKnown(Other(e))' /\ IndicesKnown(Other(e))' /\ UsesResolve(Other(e))'
      /\ MessagesTrue(Other(e))' /\ AllComing(Other(e))' /\ UsesBehind(Other(e))'
  BY <1>4, <1>5, UntouchedStays
<1>7. ItemsKnown(e)' /\ IndicesKnown(e)'
  BY <1>4, InternParts, InternStays
<1> QED
  BY <1>2, <1>3, <1>4, <1>6, <1>7

\* The start of an insertion
LEMMA InsertBeginKeeps ==
  ASSUME InternInv, kind = "intern", UNCHANGED kind, NEW e \in Ends, InsertBegin(e)
  PROVE  InternInv'
<1> USE OtherEnd
<1>1. InternTypes /\ MessagesTrue(e) /\ AllComing(e) /\ UsesBehind(e)
  BY InternParts
<1>2. PICK m : m = Arriving(e)
  OBVIOUS
<1>3. /\ Receive(e, <<>>) /\ m.kind = "intern" /\ inserting[e] = Nowhere
      /\ inserting' = [inserting EXCEPT ![e] = m]
      /\ UNCHANGED <<my_items, other_items, inverse_map, writing, queue>>
  BY <1>2 DEF InsertBegin
<1>4. inserting'[e] = m /\ inserting'[Other(e)] = inserting[Other(e)]
  BY <1>1, <1>3 DEF InternTypes
<1>5. /\ wire' \in [Ends -> Seq(InternMessages)] /\ bound' = bound
      /\ Taken(e) /\ m \in InternMessages /\ Claimed(e, m)
      /\ Grows
      /\ ItemsKnown(e)' /\ IndicesKnown(e)'
      /\ ItemsKnown(Other(e))' /\ IndicesKnown(Other(e))' /\ UsesResolve(Other(e))'
      /\ MessagesTrue(Other(e))' /\ AllComing(Other(e))' /\ UsesBehind(Other(e))'
  BY <1>2, <1>3, <1>4, InternTaken
<1>6. InternTypes'
  <2>1. inserting' \in [Ends -> InternMessages \union {Nowhere}]
    BY <1>1, <1>3, <1>5 DEF InternTypes
  <2> QED
    BY <1>1, <1>3, <1>5, <2>1 DEF InternTypes
<1>7. m # Nowhere
  BY <1>5, NotNowhere
<1>8. \A j \in Nat : Coming(e, j)' <=> Coming(e, j) \/ m.index = 2 * j
  BY <1>3, <1>4, <1>7 DEF Coming, Here
<1>9. /\ m = wire[e][1]
      /\ \A i \in Places(e)' : i \in Nat \ {0} /\ i + 1 \in Places(e) /\ wire'[e][i] = wire[e][i + 1]
      /\ \A j \in Places(e) : /\ j \in Nat /\ 1 <= j
                              /\ j # 1 => j - 1 \in Places(e)' /\ wire'[e][j - 1] = wire[e][j]
  BY <1>2, <1>5 DEF Taken
<1>10. MessagesTrue(e)'
  <2>1. \A p : Claimed(e, p) => Claimed(e, p)'
    BY <1>5, MeansStays DEF Claimed, Introduction
  <2>2. \A i \in Places(e)' : \A p \in {wire'[e][i]} : Claimed(e, p)'
    BY <1>1, <1>9, <2>1 DEF MessagesTrue
  <2>3. Introduction(e, m)'
    BY <1>3, <1>5, <2>1 DEF Claimed
  <2> QED
    BY <1>4, <2>2, <2>3 DEF MessagesTrue
<1>11. AllComing(e)'
  <2>1. ASSUME NEW j \in Nat, j + 1 \in 1 .. Len(my_items[Other(e)])
        PROVE  Coming(e, j)' \/ \E i \in Places(e)' : Introduces(wire'[e][i], j)
    <3>1. Coming(e, j) \/ \E i \in Places(e) : Introduces(wire[e][i], j)
      BY <1>1, <2>1 DEF AllComing
    <3>2. \A i \in Places(e) : Introduces(wire[e][i], j) =>
            \/ m.index = 2 * j
            \/ i - 1 \in Places(e)' /\ Introduces(wire'[e][i - 1], j)
      BY <1>9 DEF Introduces
    <3> QED
      BY <1>8, <3>1, <3>2
  <2> QED
    BY <1>3, <2>1 DEF AllComing
<1>12. UsesBehind(e)'
  <2>1. ASSUME NEW i \in Places(e)', NEW j \in Nat, wire'[e][i].kind = "use", wire'[e][i].index = 2 * j
        PROVE  Coming(e, j)' \/ \E k \in Places(e)' : k < i /\ Introduces(wire'[e][k], j)
    <3>1. i \in Nat /\ i + 1 \in Places(e) /\ wire'[e][i] = wire[e][i + 1]
      BY <1>9
    <3>2. Coming(e, j) \/ \E k \in Places(e) : k < i + 1 /\ Introduces(wire[e][k], j)
      BY <1>1, <2>1, <3>1 DEF UsesBehind
    <3>3. ASSUME NEW k \in Places(e), k < i + 1, Introduces(wire[e][k], j)
          PROVE  m.index = 2 * j \/ (k - 1 \in Places(e)' /\ k - 1 < i /\ Introduces(wire'[e][k - 1], j))
      <4>1. k \in Nat /\ (k # 1 => k - 1 \in Places(e)' /\ wire'[e][k - 1] = wire[e][k])
        BY <1>9
      <4>2. k - 1 < i
        BY <3>1, <3>3, <4>1
      <4> QED
        BY <1>9, <3>3, <4>1, <4>2 DEF Introduces
    <3> QED
      BY <1>8, <3>2, <3>3
  <2> QED
    BY <2>1 DEF UsesBehind
<1>13. UsesResolve(e)'
  BY <1>3, <1>5, InternParts, InternStays
<1> QED
  BY <1>5, <1>6, <1>10, <1>11, <1>12, <1>13, InternWhole

\* set_interned_correspondence
LEMMA InsertEndKeeps ==
  ASSUME InternInv, kind = "intern", UNCHANGED kind, NEW e \in Ends, InsertEnd(e)
  PROVE  InternInv'
<1> USE OtherEnd
<1>1. InternTypes /\ ItemsKnown(e) /\ IndicesKnown(e) /\ MessagesTrue(e)
  BY InternParts
<1>2. PICK m : m = inserting[e] /\ m # Nowhere
  BY DEF InsertEnd
<1>3. m \in InternMessages /\ Introduction(e, m)
  BY <1>1, <1>2 DEF InternTypes, MessagesTrue
<1>4. PICK j \in Nat : m.index = 2 * j /\ Own(Other(e), j, m.value)
  BY <1>3 DEF Introduction
<1>5. PICK id : id = 2 * j + 1 /\ id = Opposite(m.index) /\ id \div 2 = j
  BY <1>4, OppositeOf
<1>6. PICK v : v = m.value
  OBVIOUS
<1>7. /\ other_items' = [other_items EXCEPT ![e] = With(@, j, v)]
      /\ inverse_map' = [inverse_map EXCEPT ![e] = With(@, v, id)]
      /\ inserting' = [inserting EXCEPT ![e] = Nowhere]
      /\ UNCHANGED <<bound, wire, my_items, writing, queue>>
  BY <1>2, <1>5, <1>6 DEF InsertEnd, endVars
<1>8. /\ other_items'[e] = With(other_items[e], j, v) /\ other_items'[Other(e)] = other_items[Other(e)]
      /\ inverse_map'[e] = With(inverse_map[e], v, id) /\ inverse_map'[Other(e)] = inverse_map[Other(e)]
      /\ inserting'[e] = Nowhere /\ inserting'[Other(e)] = inserting[Other(e)]
  BY <1>1, <1>7 DEF InternTypes
<1>9. InternTypes'
  <2>1. inserting' \in [Ends -> InternMessages \union {Nowhere}]
    BY <1>1, <1>7 DEF InternTypes
  <2>2. other_items' = [f \in Ends |-> other_items'[f]] /\ inverse_map' = [f \in Ends |-> inverse_map'[f]]
    BY <1>1, <1>7 DEF InternTypes
  <2> QED
    BY <1>1, <1>7, <2>1, <2>2 DEF InternTypes
<1>10. /\ j \in DOMAIN other_items'[e] /\ other_items'[e][j] = v
       /\ \A k \in DOMAIN other_items'[e] :
            k = j \/ (k \in DOMAIN other_items[e] /\ other_items'[e][k] = other_items[e][k])
       /\ \A k \in DOMAIN other_items[e] : k \in DOMAIN other_items'[e]
  BY <1>8 DEF With
<1>11. \A x \in DOMAIN inverse_map'[e] :
         \/ x = v /\ inverse_map'[e][x] = id
         \/ x \in DOMAIN inverse_map[e] /\ inverse_map'[e][x] = inverse_map[e][x]
  BY <1>8 DEF With
<1>12. Grows
  <2>1. \A f \in Ends, k \in Nat : \A x : Own(f, k, x) => Own(f, k, x)'
    BY <1>7 DEF Own
  <2>2. \A k \in Nat : Here(e, k) => Here(e, k)'
    BY <1>10 DEF Here
  <2>3. \A k \in Nat : Here(Other(e), k) => Here(Other(e), k)'
    BY <1>8 DEF Here
  <2> QED
    BY <2>1, <2>2, <2>3 DEF Grows
<1>13. \A id2, v2 : Means(e, id2, v2) => Means(e, id2, v2)'
  BY <1>12, MeansStays
<1>14. Own(Other(e), j, v)' /\ Here(e, j)'
  BY <1>4, <1>6, <1>10, <1>12 DEF Grows, Here
<1>15. Means(e, id, v)'
  BY <1>5, <1>14 DEF Means
<1>16. ItemsKnown(e)'
  <2>1. \A k \in DOMAIN other_items[e] :
          k \in Nat /\ \A x \in {other_items[e][k]} : Own(Other(e), k, x)'
    BY <1>1, <1>12 DEF ItemsKnown, Grows
  <2>2. \A k \in DOMAIN other_items'[e] :
          k \in Nat /\ \A x \in {other_items'[e][k]} : Own(Other(e), k, x)'
    BY <1>10, <1>14, <2>1
  <2> QED
    BY <2>2 DEF ItemsKnown
<1>17. IndicesKnown(e)'
  <2>1. \A x \in DOMAIN inverse_map[e] : \A y \in {inverse_map[e][x]} : Means(e, y, x)'
    BY <1>1, <1>13 DEF IndicesKnown
  <2>2. \A x \in DOMAIN inverse_map'[e] : \A y \in {inverse_map'[e][x]} : Means(e, y, x)'
    BY <1>11, <1>15, <2>1
  <2>3. \A u \in Writers : \A x \in {writing'[e][u]} : x # Nowhere => Means(e, x.index, x.value)'
    BY <1>1, <1>7, <1>13 DEF IndicesKnown
  <2> QED
    BY <2>2, <2>3 DEF IndicesKnown
<1>18. \A k \in Nat : Coming(e, k) => Coming(e, k)'
  <2>1. ASSUME NEW k \in Nat, Coming(e, k) PROVE Here(e, k)'
    <3>1. Here(e, k) \/ m.index = 2 * k
      BY <1>2, <2>1 DEF Coming
    <3>2. m.index = 2 * k => k = j
      BY <1>4
    <3> QED
      BY <1>12, <1>14, <3>1, <3>2 DEF Grows
  <2> QED
    BY <2>1 DEF Coming
<1>19. UsesResolve(e)' /\ MessagesTrue(e)' /\ AllComing(e)' /\ UsesBehind(e)'
  BY <1>7, <1>8, <1>12, <1>18, InternParts, InternStays
<1>20. Untouched(Other(e))
  BY <1>7, <1>8 DEF Untouched
<1>21. /\ ItemsKnown(Other(e))' /\ IndicesKnown(Other(e))' /\ UsesResolve(Other(e))'
       /\ MessagesTrue(Other(e))' /\ AllComing(Other(e))' /\ UsesBehind(Other(e))'
  BY <1>7, <1>12, <1>20, UntouchedStays
<1> QED
  BY <1>9, <1>16, <1>17, <1>19, <1>21, InternWhole

\* dispatch
LEMMA QueueUseKeeps ==
  ASSUME InternInv, kind = "intern", UNCHANGED kind, NEW e \in Ends, QueueUse(e)
  PROVE  InternInv'
<1> USE OtherEnd
<1>1. InternTypes /\ MessagesTrue(e) /\ AllComing(e) /\ UsesBehind(e) /\ UsesResolve(e)
  BY InternParts
<1>2. PICK m : m = Arriving(e)
  OBVIOUS
<1>3. /\ Receive(e, <<>>) /\ m.kind = "use" /\ inserting[e] = Nowhere
      /\ queue' = [queue EXCEPT ![e] = Append(@, m)]
      /\ UNCHANGED <<my_items, other_items, inverse_map, writing, inserting>>
  BY <1>2 DEF QueueUse
<1>4. /\ queue'[e] = Append(queue[e], m) /\ queue'[Other(e)] = queue[Other(e)]
      /\ queue[e] \in Seq(InternMessages)
  BY <1>1, <1>3 DEF InternTypes
<1>5. /\ wire' \in [Ends -> Seq(InternMessages)] /\ bound' = bound
      /\ Taken(e) /\ m \in InternMessages /\ Claimed(e, m)
      /\ Grows
      /\ ItemsKnown(e)' /\ IndicesKnown(e)'
      /\ ItemsKnown(Other(e))' /\ IndicesKnown(Other(e))' /\ UsesResolve(Other(e))'
      /\ MessagesTrue(Other(e))' /\ AllComing(Other(e))' /\ UsesBehind(Other(e))'
  BY <1>2, <1>3, <1>4, InternTaken
<1>6. PICK n \in Nat : n = Len(queue[e])
  BY <1>4, LenProperties
<1>7. /\ queue'[e] \in Seq(InternMessages) /\ Len(queue'[e]) = n + 1
      /\ \A i \in 1 .. n : queue'[e][i] = queue[e][i]
      /\ queue'[e][n + 1] = m
  BY <1>4, <1>5, <1>6, AppendProperties
<1>8. InternTypes'
  <2>1. queue' \in [Ends -> Seq(InternMessages)]
    BY <1>1, <1>3, <1>4, <1>7 DEF InternTypes
  <2> QED
    BY <1>1, <1>3, <1>5, <2>1 DEF InternTypes
<1>9. \A j \in Nat : (Coming(e, j)' <=> Here(e, j)') /\ (Coming(e, j) <=> Here(e, j)) /\ (Here(e, j)' <=> Here(e, j))
  BY <1>3 DEF Coming, Here
<1>10. /\ m = wire[e][1] /\ 1 \in Places(e)
       /\ \A i \in Places(e)' : i \in Nat \ {0} /\ i + 1 \in Places(e) /\ wire'[e][i] = wire[e][i + 1]
       /\ \A j \in Places(e) : /\ j \in Nat /\ 1 <= j
                               /\ j # 1 => j - 1 \in Places(e)' /\ wire'[e][j - 1] = wire[e][j]
  BY <1>2, <1>5 DEF Taken
<1>11. MessagesTrue(e)'
  <2>1. \A p : Claimed(e, p) => Claimed(e, p)'
    BY <1>5, MeansStays DEF Claimed, Introduction
  <2>2. \A i \in Places(e)' : \A p \in {wire'[e][i]} : Claimed(e, p)'
    BY <1>1, <1>10, <2>1 DEF MessagesTrue
  <2> QED
    BY <1>3, <2>2 DEF MessagesTrue
<1>12. \A k \in Places(e) : \A j : Introduces(wire[e][k], j) =>
         k \in Nat /\ k - 1 \in Places(e)' /\ Introduces(wire'[e][k - 1], j)
  BY <1>3, <1>10 DEF Introduces
<1>13. AllComing(e)'
  <2>1. ASSUME NEW j \in Nat, j + 1 \in 1 .. Len(my_items[Other(e)])
        PROVE  Coming(e, j)' \/ \E i \in Places(e)' : Introduces(wire'[e][i], j)
    <3>1. Coming(e, j) \/ \E i \in Places(e) : Introduces(wire[e][i], j)
      BY <1>1, <2>1 DEF AllComing
    <3> QED
      BY <1>9, <1>12, <3>1
  <2> QED
    BY <1>3, <2>1 DEF AllComing
<1>14. UsesBehind(e)'
  <2>1. ASSUME NEW i \in Places(e)', NEW j \in Nat, wire'[e][i].kind = "use", wire'[e][i].index = 2 * j
        PROVE  Coming(e, j)' \/ \E k \in Places(e)' : k < i /\ Introduces(wire'[e][k], j)
    <3>1. i \in Nat /\ i + 1 \in Places(e) /\ wire'[e][i] = wire[e][i + 1]
      BY <1>10
    <3>2. Coming(e, j) \/ \E k \in Places(e) : k < i + 1 /\ Introduces(wire[e][k], j)
      BY <1>1, <2>1, <3>1 DEF UsesBehind
    <3>3. ASSUME NEW k \in Places(e), k < i + 1, Introduces(wire[e][k], j)
          PROVE  k - 1 \in Places(e)' /\ k - 1 < i /\ Introduces(wire'[e][k - 1], j)
      <4>1. k \in Nat /\ k - 1 \in Places(e)' /\ Introduces(wire'[e][k - 1], j)
        BY <1>12, <3>3
      <4>2. k - 1 < i
        BY <3>1, <3>3, <4>1
      <4> QED
        BY <4>1, <4>2
    <3> QED
      BY <1>9, <3>2, <3>3
  <2> QED
    BY <2>1 DEF UsesBehind
<1>15. UsesResolve(e)'
  <2>1. \A id2, v2 : Means(Other(e), id2, v2) => Means(Other(e), id2, v2)'
    BY <1>5, MeansStays
  <2>2. Means(Other(e), m.index, m.value)'
    BY <1>3, <1>5, <2>1 DEF Claimed
  <2>3. ASSUME NEW j \in Nat, m.index = 2 * j PROVE Here(e, j)'
    <3>1. Coming(e, j) \/ \E k \in Places(e) : k < 1 /\ Introduces(wire[e][k], j)
      BY <1>1, <1>3, <1>10, <2>3 DEF UsesBehind
    <3>2. \A k \in Places(e) : ~(k < 1)
      BY <1>10
    <3> QED
      BY <1>9, <3>1, <3>2
  <2>4. \A i \in 1 .. n : \A p \in {queue'[e][i]} :
          Means(Other(e), p.index, p.value)' /\ \A j \in Nat : p.index = 2 * j => Here(e, j)'
    BY <1>1, <1>6, <1>7, <1>9, <2>1 DEF UsesResolve
  <2>5. \A i \in 1 .. n + 1 : i \in 1 .. n \/ i = n + 1
    OBVIOUS
  <2>6. \A i \in 1 .. n + 1 : \A p \in {queue'[e][i]} :
          Means(Other(e), p.index, p.value)' /\ \A j \in Nat : p.index = 2 * j => Here(e, j)'
    BY <1>7, <2>2, <2>3, <2>4, <2>5
  <2> QED
    BY <1>7, <2>6 DEF UsesResolve
<1> QED
  BY <1>5, <1>8, <1>11, <1>13, <1>14, <1>15, InternWhole

\* readInterned
LEMMA ReadUseKeeps ==
  ASSUME InternInv, kind = "intern", UNCHANGED kind, NEW e \in Ends, ReadUse(e)
  PROVE  InternInv'
<1> USE OtherEnd
<1>1. InternTypes /\ UsesResolve(e)
  BY InternParts
<1>2. /\ queue[e] # <<>> /\ queue' = [queue EXCEPT ![e] = Tail(@)]
      /\ UNCHANGED <<bound, wire, my_items, other_items, inverse_map, writing, inserting>>
  BY DEF ReadUse, endVars
<1>3. queue[e] \in Seq(InternMessages) /\ queue'[e] = Tail(queue[e]) /\ queue'[Other(e)] = queue[Other(e)]
  BY <1>1, <1>2 DEF InternTypes
<1>4. PICK n \in Nat : n = Len(queue[e]) /\ n # 0
  BY <1>2, <1>3, LenProperties, EmptySeq
<1>5. /\ queue'[e] \in Seq(InternMessages) /\ Len(queue'[e]) = n - 1
      /\ \A i \in 1 .. n - 1 : queue'[e][i] = queue[e][i + 1]
  <2>1. PICK q \in Seq(InternMessages) : q = queue[e] /\ q # <<>>
    BY <1>2, <1>3
  <2>2. /\ Tail(q) \in Seq(InternMessages) /\ Len(Tail(q)) = Len(q) - 1
        /\ \A i \in 1 .. Len(Tail(q)) : Tail(q)[i] = q[i + 1]
    BY <2>1, HeadTailProperties
  <2>3. queue'[e] = Tail(q) /\ Len(Tail(q)) = n - 1
    BY <1>3, <1>4, <2>1, <2>2
  <2> QED
    BY <2>1, <2>2, <2>3
<1>6. InternTypes'
  <2>1. queue' \in [Ends -> Seq(InternMessages)]
    BY <1>1, <1>2, <1>3, <1>5 DEF InternTypes
  <2> QED
    BY <1>1, <1>2, <2>1 DEF InternTypes
<1>7. Grows
  BY <1>2 DEF Grows, Own, Here
<1>8. UsesResolve(e)'
  <2>1. \A id2, v2 : Means(Other(e), id2, v2) => Means(Other(e), id2, v2)'
    BY <1>7, MeansStays
  <2>2. \A i \in 1 .. n - 1 : i + 1 \in 1 .. n
    BY <1>4
  <2>3. \A i \in 1 .. n - 1 : \A p \in {queue'[e][i]} :
          Means(Other(e), p.index, p.value)' /\ \A j \in Nat : p.index = 2 * j => Here(e, j)'
    <3> SUFFICES ASSUME NEW i \in 1 .. n - 1, NEW p, p = queue'[e][i]
                 PROVE  Means(Other(e), p.index, p.value)' /\ \A j \in Nat : p.index = 2 * j => Here(e, j)'
      OBVIOUS
    <3>1. i + 1 \in 1 .. Len(queue[e]) /\ p = queue[e][i + 1]
      BY <1>4, <1>5, <2>2
    <3>2. Means(Other(e), p.index, p.value) /\ \A j \in Nat : p.index = 2 * j => Here(e, j)
      BY <1>1, <3>1 DEF UsesResolve
    <3> QED
      BY <1>7, <2>1, <3>2 DEF Grows
  <2> QED
    BY <1>5, <2>3 DEF UsesResolve
<1>9. \A f \in Ends : \A j \in Nat : Coming(f, j) => Coming(f, j)'
  BY <1>2 DEF Coming, Here
<1>10. \A f \in Ends : ItemsKnown(f)' /\ IndicesKnown(f)' /\ MessagesTrue(f)' /\ AllComing(f)' /\ UsesBehind(f)'
  BY <1>2, <1>7, <1>9, InternParts, InternStays
<1>11. UsesResolve(Other(e))'
  BY <1>3, <1>7, InternParts, InternStays
<1> QED
  BY <1>6, <1>8, <1>10, <1>11, InternWhole

\* Steps of other entities leave an intern root alone.
LEMMA InternsStay ==
  ASSUME InternInv, UNCHANGED <<kind, internVars>>,
         kind # "intern" \/ UNCHANGED endVars
  PROVE  InternInv'
<1> USE OtherEnd
<1>1. UNCHANGED <<kind, my_items, other_items, inverse_map, writing, inserting, queue>>
  BY DEF internVars
<1>2. CASE kind # "intern"
  BY <1>1, <1>2 DEF InternInv
<1>3. CASE kind = "intern"
  <2>1. UNCHANGED <<wire, bound>>
    BY <1>3 DEF endVars
  <2>2. InternTypes'
    BY <1>1, <1>3, <2>1, InternParts DEF InternTypes
  <2>3. Grows
    BY <1>1 DEF Grows, Own, Here
  <2>4. \A e \in Ends : Untouched(e) /\ my_items'[Other(e)] = my_items[Other(e)]
    BY <1>1, <2>1 DEF Untouched
  <2>5. \A e \in Ends : /\ ItemsKnown(e)' /\ IndicesKnown(e)' /\ UsesResolve(e)'
                        /\ MessagesTrue(e)' /\ AllComing(e)' /\ UsesBehind(e)'
    BY <1>3, <2>3, <2>4, UntouchedStays
  <2> QED
    BY <1>1, <1>3, <2>2, <2>5, InternWhole
<1> QED
  BY <1>2, <1>3

\* For any number of values, writers and messages: what an end knows of indices is
\* true, and every value is introduced to the counterpart before it is used.
THEOREM InternInvariance == Spec => []InternInv
<1>1. Init => InternInv
  <2> SUFFICES ASSUME Init PROVE InternInv
    OBVIOUS
  <2>1. /\ my_items = [e \in Ends |-> <<>>] /\ other_items = [e \in Ends |-> <<>>]
        /\ inverse_map = [e \in Ends |-> <<>>] /\ queue = [e \in Ends |-> <<>>]
        /\ writing = [e \in Ends |-> [t \in Writers |-> Nowhere]]
        /\ inserting = [e \in Ends |-> Nowhere] /\ wire = [e \in Ends |-> <<>>]
        /\ bound = [e \in Ends |-> kind \notin Filled]
    BY DEF Init, InternInit, EndsInit
  <2>2. ASSUME kind = "intern" PROVE InternTypes
    <3>1. bound \in [Ends -> {TRUE}]
      BY <2>1, <2>2 DEF Filled
    <3>2. wire \in [Ends -> Seq(InternMessages)] /\ queue \in [Ends -> Seq(InternMessages)]
      BY <2>1
    <3>3. my_items \in [Ends -> Seq(Values)]
      BY <2>1
    <3>4. other_items = [e \in Ends |-> other_items[e]] /\ inverse_map = [e \in Ends |-> inverse_map[e]]
      BY <2>1
    <3>5. /\ writing \in [Ends -> [Writers -> Writes \union {Nowhere}]]
          /\ inserting \in [Ends -> InternMessages \union {Nowhere}]
      BY <2>1
    <3> QED
      BY <3>1, <3>2, <3>3, <3>4, <3>5 DEF InternTypes
  <2>3. \A e \in Ends : /\ Places(e) = {} /\ DOMAIN other_items[e] = {} /\ DOMAIN inverse_map[e] = {}
                        /\ 1 .. Len(my_items[e]) = {} /\ 1 .. Len(queue[e]) = {}
                        /\ inserting[e] = Nowhere /\ \A t \in Writers : writing[e][t] = Nowhere
    BY <2>1 DEF Places
  <2>4. \A e \in Ends : /\ ItemsKnown(e) /\ IndicesKnown(e) /\ MessagesTrue(e)
                        /\ AllComing(e) /\ UsesBehind(e) /\ UsesResolve(e)
    BY <2>3, OtherEnd
       DEF ItemsKnown, IndicesKnown, MessagesTrue, AllComing, UsesBehind, UsesResolve
  <2> QED
    BY <2>1, <2>2, <2>4 DEF InternInv
<1>2. InternInv /\ [Next]_vars => InternInv'
  <2> SUFFICES ASSUME InternInv, [Next]_vars PROVE InternInv'
    OBVIOUS
  <2>1. CASE InternStep
    <3>1. kind = "intern" /\ UNCHANGED kind /\ InternNext
      BY <2>1 DEF InternStep
    <3>2. ASSUME NEW e \in Ends, NEW t \in Writers, NEW v \in Values, InternValue(e, t, v)
          PROVE  InternInv'
      BY <3>1, <3>2, KnownValueKeeps, NewValueKeeps
    <3> QED
      BY <3>1, <3>2, SendUseKeeps, InsertBeginKeeps, InsertEndKeeps, QueueUseKeeps, ReadUseKeeps
         DEF InternNext
  <2>2. CASE PropertyStep \/ MapStep \/ ListStep \/ SetStep
    <3>1. kind # "intern" /\ UNCHANGED <<kind, internVars>>
      BY <2>2 DEF PropertyStep, MapStep, ListStep, SetStep
    <3> QED
      BY <3>1, InternsStay
  <2>3. CASE UNCHANGED vars
    <3>1. UNCHANGED <<kind, internVars, endVars>>
      BY <2>3 DEF vars
    <3> QED
      BY <3>1, InternsStay
  <2> QED
    BY <2>1, <2>2, <2>3 DEF Next
<1> QED
  BY <1>1, <1>2, PTL DEF Spec

\* Every index in a message that has arrived stands for the value its writer meant,
\* although the two ends may have interned the same value at the same time.
THEOREM InternedResolve == Spec => []IndicesResolve
<1>1. InternInv => IndicesResolve
  <2> USE OtherEnd
  <2> SUFFICES ASSUME InternInv, NEW e \in Ends, NEW i \in 1 .. Len(queue[e])
               PROVE  Resolved(e, Opposite(queue[e][i].index)) = queue[e][i].value
    BY DEF IndicesResolve
  <2>1. kind = "intern"
    <3>1. queue[e] = <<>> => 1 .. Len(queue[e]) = {}
      OBVIOUS
    <3> QED
      BY <3>1 DEF InternInv
  <2>2. InternTypes /\ ItemsKnown(e) /\ UsesResolve(e)
    BY <2>1, InternParts
  <2>3. PICK m : m = queue[e][i]
    OBVIOUS
  <2>4. Means(Other(e), m.index, m.value) /\ \A j \in Nat : m.index = 2 * j => Here(e, j)
    BY <2>2, <2>3 DEF UsesResolve
  <2>5. PICK j \in Nat : \/ m.index = 2 * j /\ Own(Other(e), j, m.value)
                         \/ m.index = 2 * j + 1 /\ Here(Other(e), j) /\ Own(e, j, m.value)
    BY <2>4 DEF Means
  <2>6. CASE m.index = 2 * j /\ Own(Other(e), j, m.value)
    <3>1. j \in DOMAIN other_items[e]
      BY <2>4, <2>6 DEF Here
    <3>2. Own(Other(e), j, other_items[e][j])
      BY <2>2, <3>1 DEF ItemsKnown
    <3>3. Opposite(m.index) = 2 * j + 1 /\ ~is_index_owned(2 * j + 1) /\ (2 * j + 1) \div 2 = j
      BY <2>6, OppositeOf
    <3>4. Resolved(e, Opposite(m.index)) = other_items[e][j]
      BY <3>1, <3>3 DEF Resolved
    <3> QED
      BY <2>3, <2>6, <3>2, <3>4 DEF Own
  <2>7. CASE m.index = 2 * j + 1 /\ Own(e, j, m.value)
    <3>1. j + 1 \in 1 .. Len(my_items[e]) /\ my_items[e][j + 1] = m.value
      BY <2>7 DEF Own
    <3>2. Opposite(m.index) = 2 * j /\ is_index_owned(2 * j) /\ (2 * j) \div 2 = j
      BY <2>7, OppositeOf
    <3>3. Len(my_items[e]) \in Nat
      BY <2>2, LenProperties DEF InternTypes
    <3>4. j < Len(my_items[e])
      BY <3>1, <3>3
    <3>5. Resolved(e, Opposite(m.index)) = my_items[e][j + 1]
      BY <3>2, <3>4 DEF Resolved
    <3> QED
      BY <2>3, <3>1, <3>5
  <2> QED
    BY <2>5, <2>6, <2>7
<1> QED
  BY <1>1, InternInvariance, PTL

-----------------------------------------------------------------------------
(* RdSet.                                                                  *)

SetMessages == [kind : {"add", "remove"}, value : Values]

About(e, i, x) == wire[e][i].value = x
Unspoken(e, x) == \A i \in Places(e) : ~About(e, i, x)
LastAbout(e, i, x) == About(e, i, x) /\ \A j \in Places(e) : i < j => ~About(e, j, x)

\* What crosses says the same of x, the last that is said is what its sender has,
\* and when nothing is said the replicas agree or one of them is not bound yet.
SaysTheSame(x) ==
  \A e, f \in Ends : \A i \in Places(e), j \in Places(f) :
    e # f /\ About(e, i, x) /\ About(f, j, x) => wire[e][i].kind = wire[f][j].kind
SaysWhatIs(x) ==
  \A e \in Ends : \A i \in Places(e) :
    LastAbout(e, i, x) => (wire[e][i].kind = "add" <=> x \in elements[Other(e)])
SameElement(x) ==
  \A e \in Ends : bound[e] /\ Unspoken(e, x) /\ Unspoken(Other(e), x) =>
    (x \in elements[e] <=> (bound[Other(e)] /\ x \in elements[Other(e)]))
Alike(x) == SaysTheSame(x) /\ SaysWhatIs(x) /\ SameElement(x)

SetTypes ==
  /\ wire \in [Ends -> Seq(SetMessages)]
  /\ bound \in [Ends -> BOOLEAN]
  /\ elements \in [Ends -> SUBSET Values]
  /\ \A e \in Ends : IsFiniteSet(elements[e])
  /\ \A e \in Ends : ~bound[e] => Places(Other(e)) = {}

SetInv ==
  /\ kind # "set" => elements = [e \in Ends |-> {}]
  /\ kind = "set" => SetTypes /\ \A x \in Values \ tangled : Alike(x)

\* Every element of a finite set is in its sequence, once.
LEMMA SetToSeqAll ==
  ASSUME NEW S, IsFiniteSet(S)
  PROVE  /\ SetToSeq(S) \in Seq(S) /\ ToSet(SetToSeq(S)) = S
         /\ \A i, j \in 1 .. Len(SetToSeq(S)) : SetToSeq(S)[i] = SetToSeq(S)[j] => i = j
<1>1. PICK n \in Nat : n = Cardinality(S)
  BY FS_CardinalityType
<1>2. PICK g : g \in Bijection(1 .. n, S)
  BY <1>1, FS_CardinalityType DEF ExistsBijection
<1>3. g \in [1 .. n -> S] /\ \A a, b \in 1 .. n : g[a] = g[b] => a = b
  BY <1>2 DEF Bijection, Injection, IsInjective
<1>4. IsInjective(g)
  BY <1>3 DEF IsInjective
<1>5. PICK f : f = SetToSeq(S)
  OBVIOUS
<1>6. f \in [1 .. n -> S] /\ IsInjective(f)
  BY <1>1, <1>3, <1>4, <1>5 DEF SetToSeq
<1>7. f \in Injection(1 .. n, S)
  BY <1>6 DEF Injection
<1>8. Cardinality(1 .. n) = n
  BY FS_Interval
<1>9. f \in Surjection(1 .. n, S)
  BY <1>1, <1>7, <1>8, FS_Injection
<1>10. \A x \in S : \E i \in 1 .. n : f[i] = x
  BY <1>9 DEF Surjection
<1>11. DOMAIN f = 1 .. n
  BY <1>6
<1>12. ToSet(f) = S
  BY <1>6, <1>10, <1>11 DEF ToSet
<1>13. f \in Seq(S) /\ Len(f) = n
  BY <1>6
<1>14. \A i, j \in 1 .. n : f[i] = f[j] => i = j
  BY <1>6, <1>11 DEF IsInjective
<1> QED
  BY <1>5, <1>12, <1>13, <1>14

\* A message for every value.
LEMMA FiresAll ==
  ASSUME NEW k \in {"add", "remove"}, NEW values \in Seq(Values)
  PROVE  /\ SetFire(k, values) \in Seq(SetMessages) /\ Len(SetFire(k, values)) = Len(values)
         /\ \A i \in 1 .. Len(values) :
              SetFire(k, values)[i].kind = k /\ SetFire(k, values)[i].value = values[i]
         /\ \A x : x \in ToSet(values) <=> \E i \in 1 .. Len(values) : values[i] = x
<1>1. PICK n \in Nat : n = Len(values) /\ DOMAIN values = 1 .. n
  BY LenProperties
<1>2. \A i \in 1 .. n : values[i] \in Values
  BY <1>1, ElementOfSeq
<1>3. PICK g : g = SetFire(k, values)
  OBVIOUS
<1>4. g = [i \in 1 .. n |-> [kind |-> k, value |-> values[i]]]
  BY <1>1, <1>3 DEF SetFire
<1>5. \A i \in 1 .. n : g[i].kind = k /\ g[i].value = values[i] /\ g[i] \in SetMessages
  BY <1>2, <1>4 DEF SetMessages
<1>6. g \in [1 .. n -> SetMessages]
  BY <1>4, <1>5
<1>7. g \in Seq(SetMessages) /\ Len(g) = n
  BY <1>6
<1> QED
  BY <1>1, <1>3, <1>5, <1>7 DEF ToSet

\* A bound end, or one that is bound now, says what has become of some values.
LEMMA SetSays ==
  ASSUME SetTypes, NEW x, Alike(x), NEW e \in Ends,
         NEW k \in {"add", "remove"}, NEW values \in Seq(Values),
         wire'[e] = wire[e], Join(Other(e), SetFire(k, values)),
         bound'[e], bound'[Other(e)] = bound[Other(e)],
         elements'[Other(e)] = elements[Other(e)],
         x \in ToSet(values) => ~Tangles(e, k, x) /\ (x \in elements'[e] <=> k = "add"),
         x \notin ToSet(values) => /\ x \in elements'[e] <=> x \in elements[e]
                                   /\ ~bound[e] => x \notin elements[e]
  PROVE  Alike(x)'
<1> USE OtherEnd
<1>1. PICK f \in Ends : f = Other(e) /\ f # e /\ Other(f) = e /\ \A g \in Ends : g = e \/ g = f
  BY OtherEnd
<1>2. PICK v, n : v = SetFire(k, values) /\ n = Len(values)
  OBVIOUS
<1>3. /\ n \in Nat /\ Len(v) = n
      /\ \A i \in 1 .. n : v[i].kind = k /\ v[i].value = values[i]
      /\ x \in ToSet(values) <=> \E i \in 1 .. n : values[i] = x
  BY <1>2, FiresAll, LenProperties
<1>4. PICK l \in Nat :
        /\ \A i \in Places(f) : i \in Places(f)' /\ wire'[f][i] = wire[f][i] /\ i \in Nat /\ i <= l
        /\ \A i \in 1 .. n : l + i \in Places(f)' /\ wire'[f][l + i] = v[i]
        /\ \A j \in Places(f)' : j \in Nat /\ (j \in Places(f) \/ \E i \in 1 .. n : j = l + i)
  <2>1. Join(f, v)
    BY <1>1, <1>2
  <2>2. \E l \in Nat :
          /\ \A i \in Places(f) : i \in Places(f)' /\ wire'[f][i] = wire[f][i] /\ i \in Nat /\ i <= l
          /\ \A i \in 1 .. Len(v) : l + i \in Places(f)' /\ wire'[f][l + i] = v[i]
          /\ \A j \in Places(f)' : j \in Nat /\ (j \in Places(f) \/ \E i \in 1 .. Len(v) : j = l + i)
    BY <2>1 DEF Join
  <2>3. Len(v) = n
    BY <1>3
  <2> QED
    BY <2>2, <2>3
<1>5. Places(e)' = Places(e) /\ \A i \in Places(e) : About(e, i, x)' <=> About(e, i, x)
  BY DEF Places, About
<1>6. \A i \in Places(e) : LastAbout(e, i, x)' <=> LastAbout(e, i, x)
  BY <1>5 DEF LastAbout
<1>7. Unspoken(e, x)' <=> Unspoken(e, x)
  BY <1>5 DEF Unspoken
<1>8. \A i \in Places(f) : i \in Places(f)' /\ (About(f, i, x)' <=> About(f, i, x))
                           /\ wire'[f][i].kind = wire[f][i].kind
  BY <1>4 DEF About
<1>9. CASE x \in ToSet(values)
  <2>1. PICK p \in Places(f)' : About(f, p, x)' /\ \A i \in Places(f) : i < p
    <3>1. PICK i \in 1 .. n : values[i] = x
      BY <1>3, <1>9
    <3>2. l + i \in Places(f)' /\ wire'[f][l + i].value = x
      BY <1>3, <1>4, <3>1
    <3>3. \A j \in Places(f) : j < l + i
      BY <1>4
    <3> QED
      BY <3>2, <3>3 DEF About
  <2>3. ASSUME NEW i \in Places(f)', i \notin Places(f) PROVE wire'[f][i].kind = k
    <3>1. PICK j \in 1 .. n : i = l + j
      BY <1>4, <2>3
    <3>2. wire'[f][i] = v[j]
      BY <1>4, <3>1
    <3> QED
      BY <1>3, <3>2
  <2>4. \A i \in Places(e) : About(e, i, x) => wire[e][i].kind = k
    BY <1>9 DEF Tangles, About, Places
  <2>5. \A i \in Places(e)', j \in Places(f)' :
          About(e, i, x)' /\ About(f, j, x)' => wire'[e][i].kind = wire'[f][j].kind
    <3> SUFFICES ASSUME NEW i \in Places(e), NEW j \in Places(f)', About(e, i, x), About(f, j, x)'
                 PROVE  wire[e][i].kind = wire'[f][j].kind
      BY <1>5
    <3>1. CASE j \in Places(f)
      BY <1>1, <1>8, <3>1 DEF Alike, SaysTheSame
    <3>2. CASE j \notin Places(f)
      BY <2>3, <2>4, <3>2
    <3> QED
      BY <3>1, <3>2
  <2>6. SaysTheSame(x)'
    BY <1>1, <2>5 DEF SaysTheSame
  <2>7. \A i \in Places(f)' : LastAbout(f, i, x)' => (wire'[f][i].kind = "add" <=> x \in elements'[e])
    <3> SUFFICES ASSUME NEW i \in Places(f)', LastAbout(f, i, x)'
                 PROVE  wire'[f][i].kind = "add" <=> x \in elements'[e]
      OBVIOUS
    <3>1. i \notin Places(f)
      BY <2>1 DEF LastAbout
    <3> QED
      BY <1>9, <2>3, <3>1
  <2>8. SaysWhatIs(x)'
    <3>1. \A i \in Places(e)' : LastAbout(e, i, x)' => (wire'[e][i].kind = "add" <=> x \in elements'[f])
      BY <1>1, <1>5, <1>6 DEF Alike, SaysWhatIs
    <3> QED
      BY <1>1, <2>7, <3>1 DEF SaysWhatIs
  <2>9. ~Unspoken(f, x)'
    BY <2>1 DEF Unspoken
  <2>10. SameElement(x)'
    BY <1>1, <2>9 DEF SameElement
  <2> QED
    BY <2>6, <2>8, <2>10 DEF Alike
<1>10. CASE x \notin ToSet(values)
  <2>1. \A i \in 1 .. n : v[i].value # x
    BY <1>3, <1>10
  <2>2. ASSUME NEW i \in Places(f)', About(f, i, x)' PROVE i \in Places(f)
    <3>1. ASSUME NEW j \in 1 .. n, i = l + j PROVE FALSE
      <4>1. wire'[f][i] = v[j]
        BY <1>4, <3>1
      <4> QED
        BY <2>1, <2>2, <4>1 DEF About
    <3> QED
      BY <1>4, <3>1
  <2>3. \A i \in Places(f)' : LastAbout(f, i, x)' => i \in Places(f) /\ LastAbout(f, i, x)
    BY <1>8, <2>2 DEF LastAbout
  <2>4. Unspoken(f, x)' <=> Unspoken(f, x)
    BY <1>8, <2>2 DEF Unspoken
  <2>5. SaysTheSame(x)'
    <3>1. \A i \in Places(e)', j \in Places(f)' :
            About(e, i, x)' /\ About(f, j, x)' => wire'[e][i].kind = wire'[f][j].kind
      BY <1>1, <1>5, <1>8, <2>2 DEF Alike, SaysTheSame
    <3> QED
      BY <1>1, <3>1 DEF SaysTheSame
  <2>6. SaysWhatIs(x)'
    <3>1. \A i \in Places(e)' : LastAbout(e, i, x)' => (wire'[e][i].kind = "add" <=> x \in elements'[f])
      BY <1>1, <1>5, <1>6 DEF Alike, SaysWhatIs
    <3>2. \A i \in Places(f)' : LastAbout(f, i, x)' => (wire'[f][i].kind = "add" <=> x \in elements'[e])
      BY <1>1, <1>8, <1>10, <2>3 DEF Alike, SaysWhatIs
    <3> QED
      BY <1>1, <3>1, <3>2 DEF SaysWhatIs
  <2>7. SameElement(x)'
    <3>1. SameElement(x)
      BY DEF Alike
    <3>2. \A g \in Ends : /\ g = e \/ g = f
                          /\ Unspoken(g, x)' <=> Unspoken(g, x)
                          /\ x \in elements'[g] <=> x \in elements[g]
      BY <1>1, <1>7, <1>10, <2>4
    <3>3. ASSUME Unspoken(e, x), Unspoken(f, x)
          PROVE  bound[f] => (x \in elements[f] <=> x \in elements[e])
      BY <1>1, <1>10, <3>1, <3>3 DEF SameElement
    <3>4. ASSUME Unspoken(e, x), Unspoken(f, x)
          PROVE  x \in elements[e] <=> (bound[f] /\ x \in elements[f])
      BY <1>1, <1>10, <3>1, <3>3, <3>4 DEF SameElement
    <3> QED
      BY <1>1, <3>2, <3>3, <3>4 DEF SameElement
  <2> QED
    BY <2>5, <2>6, <2>7 DEF Alike
<1> QED
  BY <1>9, <1>10

\* add, remove and clear
LEMMA SetChangeKeeps ==
  ASSUME SetInv, kind = "set", UNCHANGED kind, NEW e \in Ends,
         NEW k \in {"add", "remove"}, NEW values \in Seq(Values), NEW new \in SUBSET Values,
         SetChange(e, k, new, values), IsFiniteSet(new),
         \A x \in ToSet(values) : x \in new <=> k = "add",
         \A x : x \notin ToSet(values) => (x \in new <=> x \in elements[e])
  PROVE  SetInv'
<1> USE OtherEnd
<1>1. SetTypes /\ \A x \in Values \ tangled : Alike(x)
  BY DEF SetInv
<1>2. wire \in [Ends -> Seq(SetMessages)] /\ SetFire(k, values) \in Seq(SetMessages)
  BY <1>1, FiresAll DEF SetTypes
<1>3. /\ Change(e, SetFire(k, values)) /\ elements' = [elements EXCEPT ![e] = new]
      /\ tangled' = tangled \union {x \in ToSet(values) : bound[e] /\ Tangles(e, k, x)}
  BY DEF SetChange
<1>4. /\ wire' \in [Ends -> Seq(SetMessages)] /\ wire'[e] = wire[e] /\ Places(e)' = Places(e)
      /\ bound[e] => Join(Other(e), SetFire(k, values))
      /\ ~bound[e] => wire' = wire
      /\ bound' = bound
  BY <1>2, <1>3, ChangeSends
<1>5. elements'[e] = new /\ elements'[Other(e)] = elements[Other(e)]
  BY <1>1, <1>3 DEF SetTypes
<1>6. SetTypes'
  <2>1. elements' \in [Ends -> SUBSET Values] /\ bound' \in [Ends -> BOOLEAN]
    BY <1>1, <1>3, <1>4 DEF SetTypes
  <2>2. \A g \in Ends : IsFiniteSet(elements'[g])
    BY <1>1, <1>5 DEF SetTypes
  <2>3. ASSUME NEW g \in Ends, ~bound'[g] PROVE Places(Other(g))' = {}
    <3>1. Places(Other(g)) = {}
      BY <1>1, <1>4, <2>3 DEF SetTypes
    <3>2. CASE bound[e]
      BY <1>4, <2>3, <3>1, <3>2
    <3>3. CASE ~bound[e]
      BY <1>4, <3>1, <3>3 DEF Places
    <3> QED
      BY <3>2, <3>3
  <2> QED
    BY <1>4, <2>1, <2>2, <2>3 DEF SetTypes
<1>7. ASSUME NEW x \in Values \ tangled' PROVE Alike(x)'
  <2>1. Alike(x)
    BY <1>1, <1>3, <1>7
  <2>2. CASE bound[e]
    <3>1. x \in ToSet(values) => ~Tangles(e, k, x) /\ (x \in elements'[e] <=> k = "add")
      BY <1>3, <1>5, <1>7, <2>2
    <3>2. x \notin ToSet(values) => (x \in elements'[e] <=> x \in elements[e])
      BY <1>5
    <3>3. Join(Other(e), SetFire(k, values)) /\ bound'[e] /\ bound'[Other(e)] = bound[Other(e)]
      BY <1>4, <2>2
    <3> QED
      BY <1>1, <1>4, <1>5, <2>1, <2>2, <3>1, <3>2, <3>3, SetSays
  <2>3. CASE ~bound[e]
    <3>1. /\ wire' = wire /\ bound' = bound
          /\ \A g \in Ends : Places(g)' = Places(g)
      BY <1>4, <2>3 DEF Places
    <3>2. \A g \in Ends : /\ \A i : About(g, i, x)' <=> About(g, i, x)
                          /\ \A i : LastAbout(g, i, x)' <=> LastAbout(g, i, x)
                          /\ Unspoken(g, x)' <=> Unspoken(g, x)
      BY <3>1 DEF About, LastAbout, Unspoken
    <3>3. Places(Other(e)) = {}
      BY <1>1, <2>3 DEF SetTypes
    <3>4. SaysTheSame(x)'
      BY <2>1, <3>1, <3>2 DEF Alike, SaysTheSame
    <3>5. SaysWhatIs(x)'
      <4>1. \A i \in Places(e)' : LastAbout(e, i, x)' =>
              (wire'[e][i].kind = "add" <=> x \in elements'[Other(e)])
        BY <1>5, <2>1, <3>1, <3>2 DEF Alike, SaysWhatIs
      <4>2. Places(Other(e))' = {}
        BY <3>1, <3>3
      <4> QED
        BY <4>1, <4>2 DEF SaysWhatIs
    <3>6. SameElement(x)'
      <4>1. ~bound'[e]
        BY <2>3, <3>1
      <4>2. bound[Other(e)] /\ Unspoken(Other(e), x) /\ Unspoken(e, x) => x \notin elements[Other(e)]
        BY <2>1, <2>3 DEF Alike, SameElement
      <4>3. bound'[Other(e)] /\ Unspoken(Other(e), x)' /\ Unspoken(e, x)' => x \notin elements'[Other(e)]
        BY <1>5, <3>1, <3>2, <4>2
      <4> QED
        BY <4>1, <4>3 DEF SameElement
    <3> QED
      BY <3>4, <3>5, <3>6 DEF Alike
  <2> QED
    BY <2>2, <2>3
<1> QED
  BY <1>6, <1>7 DEF SetInv

\* init
LEMMA SetBindKeeps ==
  ASSUME SetInv, kind = "set", UNCHANGED kind, NEW e \in Ends, SetBind(e)
  PROVE  SetInv'
<1> USE OtherEnd
<1>1. SetTypes /\ \A x \in Values \ tangled : Alike(x)
  BY DEF SetInv
<1>2. PICK values : values = SetToSeq(elements[e])
  OBVIOUS
<1>0. PICK k \in {"add", "remove"} : k = "add"
  OBVIOUS
<1>3. values \in Seq(Values) /\ ToSet(values) = elements[e]
  <2>1. IsFiniteSet(elements[e]) /\ elements[e] \subseteq Values
    BY <1>1 DEF SetTypes
  <2> QED
    BY <1>2, <2>1, SetToSeqAll, SeqMonotonic
<1>4. wire \in [Ends -> Seq(SetMessages)] /\ SetFire(k, values) \in Seq(SetMessages)
  BY <1>1, <1>3, FiresAll DEF SetTypes
<1>5. /\ Bind(e, SetFire(k, values)) /\ elements' = elements
      /\ tangled' = tangled \union {x \in elements[e] : Tangles(e, k, x)}
  BY <1>0, <1>2 DEF SetBind
<1>6. bound \in [Ends -> BOOLEAN]
  BY <1>1 DEF SetTypes
<1>7. /\ wire' \in [Ends -> Seq(SetMessages)] /\ wire'[e] = wire[e] /\ Places(e)' = Places(e)
      /\ Join(Other(e), SetFire(k, values))
      /\ bound' \in [Ends -> BOOLEAN] /\ ~bound[e] /\ bound'[e] /\ bound'[Other(e)] = bound[Other(e)]
  BY <1>4, <1>5, <1>6, BindSends
<1>8. SetTypes'
  <2>1. elements' \in [Ends -> SUBSET Values] /\ \A g \in Ends : IsFiniteSet(elements'[g])
    BY <1>1, <1>5 DEF SetTypes
  <2>2. ASSUME NEW g \in Ends, ~bound'[g] PROVE Places(Other(g))' = {}
    <3>1. g = Other(e) /\ ~bound[Other(e)]
      BY <1>7, <2>2
    <3> QED
      BY <1>1, <1>7, <3>1 DEF SetTypes
  <2> QED
    BY <1>7, <2>1, <2>2 DEF SetTypes
<1>9. ASSUME NEW x \in Values \ tangled' PROVE Alike(x)'
  <2>1. Alike(x)
    BY <1>1, <1>5, <1>9
  <2>2. x \in ToSet(values) => ~Tangles(e, k, x) /\ (x \in elements'[e] <=> k = "add")
    BY <1>0, <1>3, <1>5, <1>9
  <2>3. x \notin ToSet(values) => /\ x \in elements'[e] <=> x \in elements[e]
                                  /\ ~bound[e] => x \notin elements[e]
    BY <1>3, <1>5
  <2> QED
    BY <1>1, <1>3, <1>5, <1>7, <2>1, <2>2, <2>3, SetSays
<1> QED
  BY <1>8, <1>9 DEF SetInv

\* on_wire_received
LEMMA SetReceiveKeeps ==
  ASSUME SetInv, kind = "set", UNCHANGED kind, NEW e \in Ends, SetReceive(e)
  PROVE  SetInv'
<1> USE OtherEnd
<1>1. SetTypes /\ \A x \in Values \ tangled : Alike(x)
  BY DEF SetInv
<1>2. PICK m : m = Arriving(e)
  OBVIOUS
<1>3. PICK f \in Ends : f = Other(e) /\ f # e /\ Other(f) = e /\ \A g \in Ends : g = e \/ g = f
  BY OtherEnd
<1>4. /\ Receive(e, <<>>) /\ tangled' = tangled
      /\ elements' = [elements EXCEPT ![e] =
                        IF m.kind = "add" THEN @ \union {m.value} ELSE @ \ {m.value}]
  BY <1>2 DEF SetReceive
<1>5. /\ wire' \in [Ends -> Seq(SetMessages)] /\ wire'[f] = wire[f] /\ Places(f)' = Places(f)
      /\ Taken(e) /\ m \in SetMessages /\ bound[e] /\ bound' = bound
  BY <1>1, <1>2, <1>3, <1>4, ReceiveTakes DEF SetTypes
<1>6. /\ 1 \in Places(e) /\ m = wire[e][1]
      /\ \A i \in Places(e)' : i \in Nat \ {0} /\ i + 1 \in Places(e) /\ wire'[e][i] = wire[e][i + 1]
      /\ \A j \in Places(e) : /\ j \in Nat /\ 1 <= j
                              /\ j # 1 => j - 1 \in Places(e)' /\ wire'[e][j - 1] = wire[e][j]
  BY <1>2, <1>5 DEF Taken
<1>7. m.kind \in {"add", "remove"} /\ m.value \in Values
  BY <1>5 DEF SetMessages
<1>8. /\ elements'[f] = elements[f]
      /\ elements'[e] = IF m.kind = "add" THEN elements[e] \union {m.value} ELSE elements[e] \ {m.value}
  BY <1>1, <1>3, <1>4 DEF SetTypes
<1>9. SetTypes'
  <2>1. elements' \in [Ends -> SUBSET Values]
    BY <1>1, <1>4, <1>7 DEF SetTypes
  <2>2. IsFiniteSet(elements'[e]) /\ IsFiniteSet(elements'[f])
    <3>1. IsFiniteSet(elements[e]) /\ IsFiniteSet(elements[f])
      BY <1>1 DEF SetTypes
    <3>2. IsFiniteSet(elements[e] \union {m.value}) /\ IsFiniteSet(elements[e] \ {m.value})
      BY <3>1, FS_AddElement, FS_RemoveElement
    <3> QED
      BY <1>8, <3>1, <3>2
  <2>3. bound[f]
    BY <1>1, <1>3, <1>6 DEF SetTypes
  <2>4. \A g \in Ends : bound'[g] /\ IsFiniteSet(elements'[g])
    BY <1>3, <1>5, <2>2, <2>3
  <2> QED
    BY <1>1, <1>5, <2>1, <2>4 DEF SetTypes
<1>10. bound[f]
  BY <1>1, <1>3, <1>6 DEF SetTypes
<1>11. ASSUME NEW x \in Values \ tangled' PROVE Alike(x)'
  <2>1. Alike(x)
    BY <1>1, <1>4, <1>11
  <2>2. \A i \in Places(f)' : /\ i \in Places(f)
                              /\ About(f, i, x)' <=> About(f, i, x)
                              /\ LastAbout(f, i, x)' <=> LastAbout(f, i, x)
    BY <1>5 DEF About, LastAbout
  <2>3. Unspoken(f, x)' <=> Unspoken(f, x)
    BY <1>5, <2>2 DEF Unspoken
  <2>4. \A i \in Places(e)' : About(e, i, x)' <=> About(e, i + 1, x)
    BY <1>6 DEF About
  <2>5. ASSUME NEW i \in Places(e)', LastAbout(e, i, x)' PROVE LastAbout(e, i + 1, x)
    <3>1. ASSUME NEW j \in Places(e), i + 1 < j PROVE ~About(e, j, x)
      <4>1. i \in Nat /\ j \in Nat /\ j # 1 /\ (j - 1) + 1 = j /\ i < j - 1
        BY <1>6, <3>1
      <4>2. j - 1 \in Places(e)'
        BY <1>6, <4>1
      <4>3. ~About(e, j - 1, x)'
        BY <2>5, <4>1, <4>2 DEF LastAbout
      <4> QED
        BY <2>4, <4>1, <4>2, <4>3
    <3> QED
      BY <2>4, <2>5, <3>1 DEF LastAbout
  <2>6. m.value # x => (x \in elements'[e] <=> x \in elements[e])
    BY <1>8
  <2>7. m.value = x => (x \in elements'[e] <=> m.kind = "add")
    BY <1>7, <1>8
  <2>8. m.value = x <=> About(e, 1, x)
    BY <1>6 DEF About
  <2>9. SaysTheSame(x)'
    <3>1. \A i \in Places(e)', j \in Places(f)' :
            About(e, i, x)' /\ About(f, j, x)' => wire'[e][i].kind = wire'[f][j].kind
      BY <1>3, <1>5, <1>6, <2>1, <2>2, <2>4 DEF Alike, SaysTheSame
    <3> QED
      BY <1>3, <3>1 DEF SaysTheSame
  <2>10. SaysWhatIs(x)'
    <3>1. \A i \in Places(e)' : LastAbout(e, i, x)' => (wire'[e][i].kind = "add" <=> x \in elements'[f])
      BY <1>3, <1>6, <1>8, <2>1, <2>5 DEF Alike, SaysWhatIs
    <3>2. ASSUME NEW i \in Places(f), LastAbout(f, i, x)
          PROVE  wire[f][i].kind = "add" <=> x \in elements'[e]
      <4>1. wire[f][i].kind = "add" <=> x \in elements[e]
        BY <1>3, <2>1, <3>2 DEF Alike, SaysWhatIs
      <4>2. m.value = x => wire[f][i].kind = m.kind
        BY <1>3, <1>6, <2>1, <2>8, <3>2 DEF Alike, SaysTheSame, LastAbout
      <4> QED
        BY <2>6, <2>7, <4>1, <4>2
    <3>3. \A i \in Places(f)' : LastAbout(f, i, x)' => (wire'[f][i].kind = "add" <=> x \in elements'[e])
      BY <1>5, <2>2, <3>2
    <3> QED
      BY <1>3, <3>1, <3>3 DEF SaysWhatIs
  <2>11. SameElement(x)'
    <3>1. ASSUME Unspoken(e, x)', Unspoken(f, x)'
          PROVE  x \in elements'[e] <=> x \in elements[f]
      <4>1. \A j \in Places(e) : j # 1 => ~About(e, j, x)
        <5>1. \A j \in Places(e) : j # 1 => j - 1 \in Places(e)' /\ (j - 1) + 1 = j
          BY <1>6
        <5> QED
          BY <2>4, <3>1, <5>1 DEF Unspoken
      <4>2. CASE m.value = x
        <5>1. LastAbout(e, 1, x)
          BY <2>8, <4>1, <4>2 DEF LastAbout
        <5>2. m.kind = "add" <=> x \in elements[f]
          BY <1>3, <1>6, <2>1, <5>1 DEF Alike, SaysWhatIs
        <5> QED
          BY <2>7, <4>2, <5>2
      <4>3. CASE m.value # x
        <5>1. Unspoken(e, x)
          BY <2>8, <4>1, <4>3 DEF Unspoken
        <5>2. x \in elements[e] <=> x \in elements[f]
          BY <1>3, <1>5, <1>10, <2>1, <2>3, <3>1, <5>1 DEF Alike, SameElement
        <5> QED
          BY <2>6, <4>3, <5>2
      <4> QED
        BY <4>2, <4>3
    <3>2. bound'[e] /\ bound'[f]
      BY <1>5, <1>10
    <3> QED
      BY <1>3, <1>8, <3>1, <3>2 DEF SameElement
  <2> QED
    BY <2>9, <2>10, <2>11 DEF Alike
<1> QED
  BY <1>9, <1>11 DEF SetInv

\* Steps of other entities leave a set alone.
LEMMA SetStays ==
  ASSUME SetInv, UNCHANGED <<kind, setVars>>, kind # "set" \/ UNCHANGED endVars
  PROVE  SetInv'
<1>1. UNCHANGED <<kind, elements, tangled>>
  BY DEF setVars
<1>2. CASE kind # "set"
  BY <1>1, <1>2 DEF SetInv
<1>3. CASE UNCHANGED endVars
  <2>1. UNCHANGED <<wire, bound>>
    BY <1>3 DEF endVars
  <2>2. SetTypes' <=> SetTypes
    BY <1>1, <2>1 DEF SetTypes, Places
  <2>3. \A x : Alike(x)' <=> Alike(x)
    BY <1>1, <2>1 DEF Alike, SaysTheSame, SaysWhatIs, SameElement, LastAbout, Unspoken, About, Places
  <2> QED
    BY <1>1, <2>2, <2>3 DEF SetInv
<1> QED
  BY <1>2, <1>3

\* For any number of changes at either end, while messages cross: what is on its way
\* about an element that is not tangled is what its sender has, and nothing else.
THEOREM SetInvariance == Spec => []SetInv
<1>1. Init => SetInv
  <2> SUFFICES ASSUME Init PROVE SetInv
    OBVIOUS
  <2>1. /\ elements = [e \in Ends |-> {}] /\ wire = [e \in Ends |-> <<>>]
        /\ bound = [e \in Ends |-> kind \notin Filled]
    BY DEF Init, SetInit, EndsInit
  <2>2. wire \in [Ends -> Seq(SetMessages)] /\ \A e \in Ends : Places(e) = {} /\ Places(Other(e)) = {}
    BY <2>1, OtherEnd DEF Places
  <2>3. SetTypes
    <3>1. bound \in [Ends -> BOOLEAN]
      BY <2>1
    <3>2. elements \in [Ends -> SUBSET Values] /\ \A e \in Ends : IsFiniteSet(elements[e])
      BY <2>1, FS_EmptySet
    <3> QED
      BY <2>2, <3>1, <3>2 DEF SetTypes
  <2>4. \A x : Alike(x)
    BY <2>1, <2>2, OtherEnd DEF Alike, SaysTheSame, SaysWhatIs, SameElement, Filled
  <2> QED
    BY <2>1, <2>3, <2>4 DEF SetInv
<1>2. SetInv /\ [Next]_vars => SetInv'
  <2> SUFFICES ASSUME SetInv, [Next]_vars PROVE SetInv'
    OBVIOUS
  <2>1. CASE SetStep
    <3>1. kind = "set" /\ UNCHANGED kind /\ SetNext /\ SetTypes
      BY <2>1 DEF SetStep, SetInv
    <3>2. ASSUME NEW e \in Ends
          PROVE  IsFiniteSet(elements[e]) /\ elements[e] \in SUBSET Values
      BY <3>1 DEF SetTypes
    <3>3. \A x \in Values : <<x>> \in Seq(Values) /\ ToSet(<<x>>) = {x}
      BY DEF ToSet
    <3>4. ASSUME NEW e \in Ends, NEW x \in Values, SetAdd(e, x) PROVE SetInv'
      <4>1. IsFiniteSet(elements[e] \union {x}) /\ elements[e] \union {x} \in SUBSET Values
        BY <3>2, FS_AddElement
      <4>2. SetChange(e, "add", elements[e] \union {x}, <<x>>)
        BY <3>4 DEF SetAdd
      <4> QED
        BY <3>1, <3>3, <4>1, <4>2, SetChangeKeeps
    <3>5. ASSUME NEW e \in Ends, NEW x \in Values, SetRemove(e, x) PROVE SetInv'
      <4>1. IsFiniteSet(elements[e] \ {x}) /\ elements[e] \ {x} \in SUBSET Values
        BY <3>2, FS_RemoveElement
      <4>2. PICK k \in {"add", "remove"} : k = "remove" /\ SetChange(e, k, elements[e] \ {x}, <<x>>)
        BY <3>5 DEF SetRemove
      <4>3. /\ \A y \in ToSet(<<x>>) : y \in elements[e] \ {x} <=> k = "add"
            /\ \A y : y \notin ToSet(<<x>>) => (y \in elements[e] \ {x} <=> y \in elements[e])
        BY <3>3, <4>2
      <4> QED
        BY <3>1, <3>3, <4>1, <4>2, <4>3, SetChangeKeeps
    <3>6. ASSUME NEW e \in Ends, SetClear(e) PROVE SetInv'
      <4>1. PICK values : values = SetToSeq(elements[e])
        OBVIOUS
      <4>2. values \in Seq(Values) /\ ToSet(values) = elements[e]
        BY <3>2, <4>1, SetToSeqAll, SeqMonotonic
      <4>3. SetChange(e, "remove", {}, values)
        BY <3>6, <4>1 DEF SetClear
      <4>4. IsFiniteSet({}) /\ {} \in SUBSET Values
        BY FS_EmptySet
      <4> QED
        BY <3>1, <4>2, <4>3, <4>4, SetChangeKeeps
    <3> QED
      BY <3>1, <3>4, <3>5, <3>6, SetBindKeeps, SetReceiveKeeps DEF SetNext
  <2>2. CASE PropertyStep \/ MapStep \/ ListStep \/ InternStep
    <3>1. kind # "set" /\ UNCHANGED <<kind, setVars>>
      BY <2>2 DEF PropertyStep, MapStep, ListStep, InternStep
    <3> QED
      BY <3>1, SetStays
  <2>3. CASE UNCHANGED vars
    <3>1. UNCHANGED <<kind, setVars, endVars>>
      BY <2>3 DEF vars
    <3> QED
      BY <3>1, SetStays
  <2> QED
    BY <2>1, <2>2, <2>3 DEF Next
<1> QED
  BY <1>1, <1>2, PTL DEF Spec

\* The replicas of a set agree, when every message has arrived, on every element
\* whose opposite changes have not crossed.
THEOREM SetAgrees == Spec => []SetConverges
<1>1. SetInv => SetConverges
  <2> SUFFICES ASSUME SetInv, Quiet, NEW e \in Ends, NEW f \in Ends, NEW x \in Values \ tangled
               PROVE  x \in elements[e] <=> x \in elements[f]
    BY DEF SetConverges
  <2>1. CASE kind = "set"
    <3>1. \A g \in Ends : bound[g] /\ Places(g) = {}
      BY DEF Quiet, Places
    <3>2. SameElement(x)
      BY <2>1 DEF SetInv, Alike
    <3>3. x \in elements[e] <=> x \in elements[Other(e)]
      BY <3>1, <3>2, OtherEnd DEF SameElement, Unspoken
    <3> QED
      BY <3>3, OtherEnd
  <2>2. CASE kind # "set"
    BY <2>2 DEF SetInv
  <2> QED
    BY <2>1, <2>2
<1> QED
  BY <1>1, SetInvariance, PTL

-----------------------------------------------------------------------------
(* RdList.                                                                 *)

Events == [op : {"add", "update", "remove"}, index : Nat, value : Values]
ListMessages == [version : Nat, event : Events]

\* The n events a lead from the items s to the items t.
Path(s, n, a, t) ==
  \E g \in [0 .. n -> Seq(Values)] :
    g[0] = s /\ g[n] = t /\ \A i \in 1 .. n : g[i] = Applied(g[i - 1], a[i])

EventsTo(e) == [i \in Places(e) |-> wire[e][i].event]
Base(e) == IF bound[e] THEN items[e] ELSE <<>>

\* What is on its way to e has the numbers e expects and makes its items t.
Linked(e, t) ==
  /\ \A i \in Places(e) : wire[e][i].version = expected[e] + i - 1
  /\ expected[Other(e)] = expected[e] + Len(wire[e])
  /\ Path(Base(e), Len(wire[e]), EventsTo(e), t)

\* It is the turn of the counterpart of e to change the list.
Turn(e) == bound[Other(e)] /\ wire[Other(e)] = <<>> /\ Linked(e, items[Other(e)])

\* The next message to e has a number that is no longer expected.
Late(e) == 1 \in Places(e) /\ wire[e][1].version < expected[e]

ListTypes ==
  /\ wire \in [Ends -> Seq(ListMessages)]
  /\ bound \in [Ends -> BOOLEAN]
  /\ items \in [Ends -> Seq(Values)]
  /\ expected \in [Ends -> Nat \ {0}]
  /\ conflicts \in SUBSET Ends
  /\ crossed \in BOOLEAN
Unbound == \A e \in Ends : ~bound[e] => wire[Other(e)] = <<>> /\ expected[e] = 1
TakingTurns == (\E e \in Ends : Turn(e)) \/ (\A e \in Ends : ~bound[e])
ListInv ==
  /\ kind # "list" => /\ items = [e \in Ends |-> <<>>] /\ conflicts = {} /\ ~crossed
  /\ kind = "list" =>
       /\ ListTypes /\ Unbound
       /\ ~crossed => conflicts = {} /\ TakingTurns
       /\ crossed => \A e \in Ends : bound[e] /\ (e \in conflicts \/ Late(e))

\* The operations on sequences.
LEMMA PrefixOf ==
  ASSUME NEW s \in Seq(Values), NEW k \in 0 .. Len(s)
  PROVE  /\ SubSeq(s, 1, k) \in Seq(Values) /\ Len(SubSeq(s, 1, k)) = k
         /\ \A i \in 1 .. k : SubSeq(s, 1, k)[i] = s[i]
<1>1. PICK n \in Nat : n = Len(s)
  BY LenProperties
<1>2. k \in Nat /\ k <= n
  BY <1>1
<1>3. \A i \in 1 .. k : i \in 1 .. n
  BY <1>2
<1>4. \A i \in 1 .. k : s[i] \in Values
  BY <1>1, <1>3, ElementOfSeq
<1>5. PICK q : q = SubSeq(s, 1, k)
  OBVIOUS
<1>6. /\ q \in Seq(Values) /\ Len(q) = IF 1 <= k THEN k - 1 + 1 ELSE 0
      /\ \A i \in 1 .. k - 1 + 1 : q[i] = s[1 + i - 1]
  BY <1>2, <1>4, <1>5, SubSeqProperties
<1>7. Len(q) = k
  BY <1>2, <1>6
<1>8. \A i \in 1 .. k : q[i] = s[i]
  <2>1. \A i \in 1 .. k : i \in 1 .. k - 1 + 1 /\ 1 + i - 1 = i
    BY <1>2
  <2> QED
    BY <1>6, <2>1
<1> QED
  BY <1>5, <1>6, <1>7, <1>8

\* The last item is removed, or put back.
LEMMA LastItem ==
  ASSUME NEW s \in Seq(Values), NEW k \in 1 .. Len(s)
  PROVE  /\ RemoveAt(SubSeq(s, 1, k), k) = SubSeq(s, 1, k - 1)
         /\ InsertAt(SubSeq(s, 1, k - 1), k, s[k]) = SubSeq(s, 1, k)
<1>1. PICK n \in Nat : n = Len(s)
  BY LenProperties
<1>2. k \in Nat /\ k - 1 \in Nat /\ k <= n /\ k - 1 <= n /\ k - 1 < k /\ k < k + 1
  BY <1>1
<1>3. k - 1 \in 0 .. Len(s) /\ k \in 0 .. Len(s)
  BY <1>1, <1>2
<1>4. PICK q : q = SubSeq(s, 1, k)
  OBVIOUS
<1>5. PICK r : r = SubSeq(s, 1, k - 1)
  OBVIOUS
<1>6. q \in Seq(Values) /\ Len(q) = k /\ \A i \in 1 .. k : q[i] = s[i]
  BY <1>3, <1>4, PrefixOf
<1>7. r \in Seq(Values) /\ Len(r) = k - 1 /\ \A i \in 1 .. k - 1 : r[i] = s[i]
  BY <1>3, <1>5, PrefixOf
<1>8. SubSeq(q, 1, k - 1) = r
  <2>1. k - 1 \in 0 .. Len(q)
    BY <1>2, <1>6
  <2>2. PICK p : p = SubSeq(q, 1, k - 1)
    OBVIOUS
  <2>3. p \in Seq(Values) /\ Len(p) = k - 1 /\ \A i \in 1 .. k - 1 : p[i] = q[i]
    BY <1>6, <2>1, <2>2, PrefixOf
  <2>4. \A i \in 1 .. k - 1 : i \in 1 .. k
    BY <1>2
  <2>5. \A i \in 1 .. Len(p) : p[i] = r[i]
    BY <1>6, <1>7, <2>3, <2>4
  <2>6. p = r
    BY <1>7, <2>3, <2>5, SeqEqual
  <2> QED
    BY <2>2, <2>6
<1>9. RemoveAt(q, k) = r
  <2>1. SubSeq(q, k + 1, Len(q)) = <<>>
    BY <1>2, <1>6, SubSeqEmpty
  <2> QED
    BY <1>7, <1>8, <2>1, ConcatEmptySeq DEF RemoveAt
<1>10. InsertAt(r, k, s[k]) = q
  <2>1. SubSeq(r, 1, k - 1) = r
    BY <1>7, SubSeqFull
  <2>2. SubSeq(r, k, Len(r)) = <<>>
    BY <1>2, <1>7, SubSeqEmpty
  <2>3. s[k] \in Values
    BY ElementOfSeq
  <2>4. <<s[k]>> \in Seq(Values)
    BY <2>3
  <2>5. r \o <<s[k]>> \in Seq(Values)
    BY <1>7, <2>4, ConcatProperties
  <2>6. InsertAt(r, k, s[k]) = r \o <<s[k]>>
    BY <2>1, <2>2, <2>5, ConcatEmptySeq DEF InsertAt
  <2>7. 1 \in 1 .. Len(s) /\ k \in 1 .. Len(s)
    BY <1>1, <1>2
  <2>8. q = r \o <<s[k]>>
    BY <1>4, <1>5, <2>7, SubSeqRecursiveSecond
  <2> QED
    BY <2>6, <2>8
<1> QED
  BY <1>4, <1>5, <1>9, <1>10

\* What an operation at a place of the list makes is a list.
LEMMA StaysAList ==
  ASSUME NEW s \in Seq(Values), NEW v \in Values
  PROVE  /\ \A i \in 1 .. Len(s) + 1 : InsertAt(s, i, v) \in Seq(Values)
         /\ \A i \in 1 .. Len(s) : ReplaceAt(s, i, v) \in Seq(Values)
         /\ \A i \in 1 .. Len(s) : RemoveAt(s, i) \in Seq(Values)
<1>1. PICK n \in Nat : n = Len(s)
  BY LenProperties
<1>2. \A i \in 1 .. n : s[i] \in Values
  BY <1>1, ElementOfSeq
<1>3. ASSUME NEW j \in 0 .. n PROVE SubSeq(s, 1, j) \in Seq(Values)
  BY <1>1, <1>3, PrefixOf
<1>4. ASSUME NEW j \in 1 .. n + 2 PROVE SubSeq(s, j, n) \in Seq(Values)
  <2>1. \A i \in j .. n : i \in 1 .. n
    OBVIOUS
  <2>2. \A i \in j .. n : s[i] \in Values
    BY <1>2, <2>1
  <2>3. j \in Int /\ n \in Int
    OBVIOUS
  <2> QED
    BY <2>2, <2>3, SubSeqProperties
<1>5. ASSUME NEW i \in 1 .. n + 1 PROVE InsertAt(s, i, v) \in Seq(Values)
  <2>1. i - 1 \in 0 .. n /\ i \in 1 .. n + 2
    OBVIOUS
  <2>2. <<v>> \in Seq(Values)
    OBVIOUS
  <2>3. SubSeq(s, 1, i - 1) \in Seq(Values) /\ SubSeq(s, i, n) \in Seq(Values)
    BY <1>3, <1>4, <2>1
  <2>4. SubSeq(s, 1, i - 1) \o <<v>> \in Seq(Values)
    BY <2>2, <2>3, ConcatProperties
  <2>5. SubSeq(s, 1, i - 1) \o <<v>> \o SubSeq(s, i, n) \in Seq(Values)
    BY <2>3, <2>4, ConcatProperties
  <2> QED
    BY <1>1, <2>5 DEF InsertAt
<1>6. ASSUME NEW i \in 1 .. n PROVE ReplaceAt(s, i, v) \in Seq(Values)
  BY <1>1, ExceptSeq DEF ReplaceAt
<1>7. ASSUME NEW i \in 1 .. n PROVE RemoveAt(s, i) \in Seq(Values)
  <2>1. i - 1 \in 0 .. n /\ i + 1 \in 1 .. n + 2
    OBVIOUS
  <2>2. SubSeq(s, 1, i - 1) \in Seq(Values) /\ SubSeq(s, i + 1, n) \in Seq(Values)
    BY <1>3, <1>4, <2>1
  <2> QED
    BY <1>1, <2>2, ConcatProperties DEF RemoveAt
<1> QED
  BY <1>1, <1>5, <1>6, <1>7

\* Paths of no event and of one event.
LEMMA ShortPaths ==
  ASSUME NEW s \in Seq(Values)
  PROVE  /\ \A a : Path(s, 0, a, s)
         /\ \A a, t : Path(s, 0, a, t) => t = s
         /\ \A event : Applied(s, event) \in Seq(Values) => Path(s, 1, <<event>>, Applied(s, event))
<1>1. ASSUME NEW a PROVE Path(s, 0, a, s)
  <2>1. PICK g : g = [i \in 0 .. 0 |-> s]
    OBVIOUS
  <2>2. g \in [0 .. 0 -> Seq(Values)] /\ g[0] = s /\ \A i \in 1 .. 0 : FALSE
    BY <2>1
  <2> QED
    BY <2>2 DEF Path
<1>2. ASSUME NEW a, NEW t, Path(s, 0, a, t) PROVE t = s
  BY <1>2 DEF Path
<1>3. ASSUME NEW event, Applied(s, event) \in Seq(Values) PROVE Path(s, 1, <<event>>, Applied(s, event))
  <2>1. PICK t \in Seq(Values) : t = Applied(s, event)
    BY <1>3
  <2>2. PICK g : g = [i \in 0 .. 1 |-> IF i = 0 THEN s ELSE t]
    OBVIOUS
  <2>3. g \in [0 .. 1 -> Seq(Values)] /\ g[0] = s /\ g[1] = t
    BY <2>2
  <2>4. \A i \in 1 .. 1 : i = 1 /\ i - 1 = 0
    OBVIOUS
  <2>5. <<event>>[1] = event
    OBVIOUS
  <2>6. \A i \in 1 .. 1 : g[i] = Applied(g[i - 1], <<event>>[i])
    BY <2>1, <2>3, <2>4, <2>5
  <2> QED
    BY <2>1, <2>3, <2>6 DEF Path
<1> QED
  BY <1>1, <1>2, <1>3

\* A path is followed by another.
LEMMA PathJoin ==
  ASSUME NEW s, NEW t, NEW u, NEW a, NEW b, NEW c, NEW n \in Nat, NEW m \in Nat,
         Path(s, n, a, t), Path(t, m, b, u),
         \A i \in 1 .. n : c[i] = a[i], \A i \in 1 .. m : c[n + i] = b[i]
  PROVE  Path(s, n + m, c, u)
<1>1. PICK g \in [0 .. n -> Seq(Values)] :
        g[0] = s /\ g[n] = t /\ \A i \in 1 .. n : g[i] = Applied(g[i - 1], a[i])
  BY DEF Path
<1>2. PICK h \in [0 .. m -> Seq(Values)] :
        h[0] = t /\ h[m] = u /\ \A i \in 1 .. m : h[i] = Applied(h[i - 1], b[i])
  BY DEF Path
<1>3. PICK k : k = [i \in 0 .. n + m |-> IF i <= n THEN g[i] ELSE h[i - n]]
  OBVIOUS
<1>4. \A i \in 0 .. n + m : k[i] = IF i <= n THEN g[i] ELSE h[i - n]
  BY <1>3
<1>5. \A i \in 0 .. n : k[i] = g[i]
  <2>1. \A i \in 0 .. n : i \in 0 .. n + m /\ i <= n
    OBVIOUS
  <2> QED
    BY <1>4, <2>1
<1>6. \A i \in 0 .. m : k[n + i] = h[i]
  <2>1. \A i \in 0 .. m : n + i \in 0 .. n + m /\ (n + i <= n => i = 0) /\ (n + i) - n = i /\ n + 0 = n
    OBVIOUS
  <2>2. g[n] = h[0]
    BY <1>1, <1>2
  <2> QED
    BY <1>4, <2>1, <2>2
<1>7. k \in [0 .. n + m -> Seq(Values)]
  <2>1. \A i \in 0 .. n + m : i \in 0 .. n \/ (i - n \in 0 .. m /\ ~(i <= n))
    OBVIOUS
  <2>2. \A i \in 0 .. n + m : (IF i <= n THEN g[i] ELSE h[i - n]) \in Seq(Values)
    BY <2>1
  <2> QED
    BY <1>3, <2>2
<1>8. k[0] = s /\ k[n + m] = u
  BY <1>1, <1>2, <1>5, <1>6
<1>9. ASSUME NEW i \in 1 .. n + m PROVE k[i] = Applied(k[i - 1], c[i])
  <2>1. CASE i <= n
    <3>1. i \in 1 .. n /\ i \in 0 .. n /\ i - 1 \in 0 .. n
      BY <2>1
    <3> QED
      BY <1>1, <1>5, <3>1
  <2>2. CASE ~(i <= n)
    <3>1. PICK j \in 1 .. m : i = n + j /\ i - 1 = n + (j - 1) /\ j \in 0 .. m /\ j - 1 \in 0 .. m
      <4>1. i - n \in 1 .. m /\ i = n + (i - n) /\ i - 1 = n + ((i - n) - 1)
        BY <2>2
      <4> QED
        BY <4>1
    <3>2. k[i] = h[j] /\ k[i - 1] = h[j - 1] /\ c[i] = b[j]
      BY <1>6, <3>1
    <3> QED
      BY <1>2, <3>2
  <2> QED
    BY <2>1, <2>2
<1> QED
  BY <1>7, <1>8, <1>9 DEF Path

\* The first event of a path has happened.
LEMMA PathNext ==
  ASSUME NEW s, NEW t, NEW a, NEW b, NEW n \in Nat \ {0}, Path(s, n, a, t),
         \A i \in 1 .. n - 1 : b[i] = a[i + 1]
  PROVE  Applied(s, a[1]) \in Seq(Values) /\ Path(Applied(s, a[1]), n - 1, b, t)
<1>1. PICK g \in [0 .. n -> Seq(Values)] :
        g[0] = s /\ g[n] = t /\ \A i \in 1 .. n : g[i] = Applied(g[i - 1], a[i])
  BY DEF Path
<1>2. g[1] = Applied(s, a[1]) /\ g[1] \in Seq(Values)
  <2>1. 1 \in 1 .. n /\ 1 - 1 = 0 /\ 1 \in 0 .. n
    OBVIOUS
  <2> QED
    BY <1>1, <2>1
<1>3. PICK h : h = [i \in 0 .. n - 1 |-> g[i + 1]]
  OBVIOUS
<1>4. \A i \in 0 .. n - 1 : h[i] = g[i + 1] /\ i + 1 \in 0 .. n
  BY <1>3
<1>5. h \in [0 .. n - 1 -> Seq(Values)] /\ h[0] = g[1] /\ h[n - 1] = t
  BY <1>1, <1>3, <1>4
<1>6. ASSUME NEW i \in 1 .. n - 1 PROVE h[i] = Applied(h[i - 1], b[i])
  <2>1. i \in 0 .. n - 1 /\ i - 1 \in 0 .. n - 1 /\ (i - 1) + 1 = i /\ i + 1 \in 1 .. n /\ (i + 1) - 1 = i
    OBVIOUS
  <2>2. h[i] = g[i + 1] /\ h[i - 1] = g[i] /\ b[i] = a[i + 1]
    BY <1>4, <2>1
  <2>3. g[i + 1] = Applied(g[(i + 1) - 1], a[i + 1])
    BY <1>1, <2>1
  <2> QED
    BY <2>1, <2>2, <2>3
<1> QED
  BY <1>2, <1>5, <1>6 DEF Path

\* clear, and the replay of init.
LEMMA LongPaths ==
  ASSUME NEW s \in Seq(Values), NEW n \in Nat, n = Len(s)
  PROVE  /\ Path(s, n, [i \in 1 .. n |-> Removed(n + 1 - i, s[n + 1 - i])], <<>>)
         /\ Path(<<>>, n, [i \in 1 .. n |-> Added(i, s[i])], s)
<1>1. \A i \in 0 .. n : SubSeq(s, 1, i) \in Seq(Values)
  BY PrefixOf
<1>2. SubSeq(s, 1, n) = s /\ SubSeq(s, 1, 0) = <<>>
  BY SubSeqFull, SubSeqEmpty
<1>3. PICK a : a = [i \in 1 .. n |-> Removed(n + 1 - i, s[n + 1 - i])]
  OBVIOUS
<1>4. PICK b : b = [i \in 1 .. n |-> Added(i, s[i])]
  OBVIOUS
<1>5. Path(s, n, a, <<>>)
  <2>1. PICK g : g = [i \in 0 .. n |-> SubSeq(s, 1, n - i)]
    OBVIOUS
  <2>2. \A i \in 0 .. n : g[i] = SubSeq(s, 1, n - i) /\ n - i \in 0 .. n
    BY <2>1
  <2>3. g \in [0 .. n -> Seq(Values)]
    BY <1>1, <2>1, <2>2
  <2>4. 0 \in 0 .. n /\ n \in 0 .. n /\ n - 0 = n /\ n - n = 0
    OBVIOUS
  <2>5. g[0] = s /\ g[n] = <<>>
    <3>1. g[0] = SubSeq(s, 1, n - 0) /\ g[n] = SubSeq(s, 1, n - n)
      BY <2>2, <2>4
    <3>2. g[0] = SubSeq(s, 1, n) /\ g[n] = SubSeq(s, 1, 0)
      BY <2>4, <3>1
    <3> QED
      BY <1>2, <3>2
  <2>6. ASSUME NEW i \in 1 .. n PROVE g[i] = Applied(g[i - 1], a[i])
    <3>1. PICK k \in 1 .. n : k = n + 1 - i /\ k = n - (i - 1) /\ k - 1 = n - i
      <4>1. n + 1 - i \in 1 .. n /\ n + 1 - i = n - (i - 1) /\ (n + 1 - i) - 1 = n - i
        OBVIOUS
      <4> QED
        BY <4>1
    <3>2. i \in 0 .. n /\ i - 1 \in 0 .. n
      OBVIOUS
    <3>3. g[i] = SubSeq(s, 1, k - 1) /\ g[i - 1] = SubSeq(s, 1, k)
      BY <2>2, <3>1, <3>2
    <3>4. a[i] = Removed(k, s[k])
      BY <1>3, <3>1
    <3>5. RemoveAt(SubSeq(s, 1, k), k) = SubSeq(s, 1, k - 1)
      BY LastItem
    <3>6. Applied(g[i - 1], a[i]) = RemoveAt(g[i - 1], k)
      BY <3>4 DEF Applied, Removed
    <3> QED
      BY <3>3, <3>5, <3>6
  <2> QED
    BY <2>3, <2>5, <2>6 DEF Path
<1>6. Path(<<>>, n, b, s)
  <2>1. PICK g : g = [i \in 0 .. n |-> SubSeq(s, 1, i)]
    OBVIOUS
  <2>2. g \in [0 .. n -> Seq(Values)] /\ \A i \in 0 .. n : g[i] = SubSeq(s, 1, i)
    BY <1>1, <2>1
  <2>3. g[0] = <<>> /\ g[n] = s
    BY <1>2, <2>2
  <2>4. ASSUME NEW i \in 1 .. n PROVE g[i] = Applied(g[i - 1], b[i])
    <3>1. i \in 0 .. n /\ i - 1 \in 0 .. n /\ i \in 1 .. Len(s)
      OBVIOUS
    <3>2. g[i] = SubSeq(s, 1, i) /\ g[i - 1] = SubSeq(s, 1, i - 1)
      BY <2>2, <3>1
    <3>3. b[i] = Added(i, s[i])
      BY <1>4
    <3>4. InsertAt(SubSeq(s, 1, i - 1), i, s[i]) = SubSeq(s, 1, i)
      BY <3>1, LastItem
    <3>5. Applied(g[i - 1], b[i]) = InsertAt(g[i - 1], i, s[i])
      BY <3>3 DEF Applied, Added
    <3> QED
      BY <3>2, <3>4, <3>5
  <2> QED
    BY <2>2, <2>3, <2>4 DEF Path
<1> QED
  BY <1>3, <1>4, <1>5, <1>6

\* The parts of the invariant.
LEMMA ListParts ==
  ASSUME ListInv, kind = "list"
  PROVE  /\ ListTypes /\ Unbound
         /\ ~crossed => conflicts = {} /\ TakingTurns
         /\ crossed => \A e \in Ends : bound[e] /\ (e \in conflicts \/ Late(e))
BY DEF ListInv

\* The messages that are made of events.
LEMMA NumberedAre ==
  ASSUME ListTypes, NEW e \in Ends, NEW a \in Seq(Events)
  PROVE  /\ Numbered(e, a) \in Seq(ListMessages) /\ Len(Numbered(e, a)) = Len(a)
         /\ \A i \in 1 .. Len(a) :
              Numbered(e, a)[i].version = expected[e] + i - 1 /\ Numbered(e, a)[i].event = a[i]
<1>1. PICK n \in Nat : n = Len(a)
  BY LenProperties
<1>2. PICK x \in Nat \ {0} : x = expected[e]
  BY DEF ListTypes
<1>3. \A i \in 1 .. n : a[i] \in Events
  BY <1>1, ElementOfSeq
<1>4. \A i \in 1 .. n : x + i - 1 \in Nat
  OBVIOUS
<1>5. PICK g : g = Numbered(e, a)
  OBVIOUS
<1>6. g = [i \in 1 .. n |-> [version |-> x + i - 1, event |-> a[i]]]
  BY <1>1, <1>2, <1>5 DEF Numbered
<1>7. \A i \in 1 .. n : g[i] \in ListMessages
  BY <1>3, <1>4, <1>6 DEF ListMessages
<1>8. \A i \in 1 .. n : g[i].version = x + i - 1 /\ g[i].event = a[i]
  BY <1>6
<1>9. g \in Seq(ListMessages) /\ Len(g) = n
  BY <1>6, <1>7
<1> QED
  BY <1>1, <1>2, <1>5, <1>8, <1>9

\* One sequence after another.
LEMMA Joined ==
  \A p, q \in Seq(ListMessages) :
    /\ Len(p \o q) = Len(p) + Len(q)
    /\ \A i \in 1 .. Len(p) + Len(q) : (p \o q)[i] = IF i <= Len(p) THEN p[i] ELSE q[i - Len(p)]
OBVIOUS

\* The counterpart of r goes on from the items t to the items u.
LEMMA LinkedSends ==
  ASSUME ListTypes, NEW r \in Ends, NEW t, NEW u, NEW a \in Seq(Events), Linked(r, t),
         wire'[r] = wire[r] \o Numbered(Other(r), a), Base(r)' = Base(r),
         expected'[r] = expected[r], expected'[Other(r)] = expected[Other(r)] + Len(a),
         Path(t, Len(a), a, u)
  PROVE  Linked(r, u)'
<1>0. PICK f \in Ends : f = Other(r)
  BY OtherEnd
<1>1. PICK v : v = Numbered(Other(r), a)
  OBVIOUS
<1>2. PICK n \in Nat : n = Len(a)
  BY LenProperties
<1>3. PICK x \in Nat \ {0}, y \in Nat \ {0} : x = expected[r] /\ y = expected[Other(r)]
  <2>1. expected[r] \in Nat \ {0} /\ expected[f] \in Nat \ {0}
    BY DEF ListTypes
  <2> QED
    BY <1>0, <2>1
<1>4. /\ v \in Seq(ListMessages) /\ Len(v) = n
      /\ \A i \in 1 .. n : v[i].version = y + i - 1 /\ v[i].event = a[i]
  <2>1. /\ Numbered(f, a) \in Seq(ListMessages) /\ Len(Numbered(f, a)) = Len(a)
        /\ \A i \in 1 .. Len(a) :
             Numbered(f, a)[i].version = expected[f] + i - 1 /\ Numbered(f, a)[i].event = a[i]
    BY NumberedAre
  <2> QED
    BY <1>0, <1>1, <1>2, <1>3, <2>1
<1>5. wire[r] \in Seq(ListMessages)
  BY DEF ListTypes
<1>6. PICK l \in Nat : l = Len(wire[r])
  BY <1>5, LenProperties
<1>7. /\ Len(wire'[r]) = l + n
      /\ \A i \in 1 .. l + n : wire'[r][i] = IF i <= l THEN wire[r][i] ELSE v[i - l]
  <2>1. PICK w \in Seq(ListMessages) : w = wire[r]
    BY <1>5
  <2>2. Len(w) = l /\ wire'[r] = w \o v
    BY <1>1, <1>6, <2>1
  <2>3. PICK q \in Seq(ListMessages) : q = v /\ Len(q) = n
    BY <1>4
  <2>4. Len(w) = l
    BY <2>2
  <2>5. Len(w \o q) = l + n /\ \A i \in 1 .. l + n : (w \o q)[i] = IF i <= l THEN w[i] ELSE q[i - l]
    <3>1. /\ Len(w \o q) = Len(w) + Len(q)
          /\ \A i \in 1 .. Len(w) + Len(q) :
               (w \o q)[i] = IF i <= Len(w) THEN w[i] ELSE q[i - Len(w)]
      BY Joined
    <3> QED
      BY <2>3, <2>4, <3>1
  <2> QED
    BY <2>1, <2>2, <2>3, <2>5
<1>8. \A i \in 1 .. l : i \in 1 .. l + n /\ wire'[r][i] = wire[r][i]
  <2>1. \A i \in 1 .. l : i \in 1 .. l + n /\ i <= l
    OBVIOUS
  <2> QED
    BY <1>7, <2>1
<1>9. \A i \in 1 .. n : l + i \in 1 .. l + n /\ wire'[r][l + i] = v[i]
  <2>1. \A i \in 1 .. n : l + i \in 1 .. l + n /\ ~(l + i <= l) /\ (l + i) - l = i
    OBVIOUS
  <2> QED
    BY <1>7, <2>1
<1>10. Places(r) = 1 .. l /\ Places(r)' = 1 .. l + n
  BY <1>6, <1>7 DEF Places
<1>11. y = x + l /\ \A i \in 1 .. l : wire[r][i].version = x + i - 1
  BY <1>3, <1>6, <1>10 DEF Linked
<1>12. \A i \in 1 .. l + n : wire'[r][i].version = x + i - 1
  <2>1. \A i \in 1 .. l : wire'[r][i].version = x + i - 1
    BY <1>8, <1>11
  <2>2. ASSUME NEW i \in 1 .. l + n, ~(i <= l) PROVE wire'[r][i].version = x + i - 1
    <3>1. PICK j \in 1 .. n : i = l + j
      <4>1. i - l \in 1 .. n /\ i = l + (i - l)
        BY <2>2
      <4> QED
        BY <4>1
    <3>2. wire'[r][i].version = y + j - 1
      BY <1>4, <1>9, <3>1
    <3> QED
      BY <1>11, <3>1, <3>2
  <2>3. \A i \in 1 .. l + n : i <= l => i \in 1 .. l
    OBVIOUS
  <2> QED
    BY <2>1, <2>2, <2>3
<1>13. expected'[Other(r)] = x + (l + n)
  BY <1>2, <1>3, <1>11
<1>14. PICK c : c = EventsTo(r)'
  OBVIOUS
<1>15. c = [i \in 1 .. l + n |-> wire'[r][i].event]
  BY <1>10, <1>14 DEF EventsTo
<1>16. EventsTo(r) = [i \in 1 .. l |-> wire[r][i].event]
  BY <1>10 DEF EventsTo
<1>17. ASSUME NEW i \in 1 .. l PROVE c[i] = EventsTo(r)[i]
  <2>1. c[i] = wire'[r][i].event
    BY <1>8, <1>15
  <2>2. EventsTo(r)[i] = wire[r][i].event
    BY <1>16
  <2> QED
    BY <1>8, <2>1, <2>2
<1>18. \A i \in 1 .. n : c[l + i] = a[i]
  BY <1>4, <1>9, <1>15
<1>19. Path(Base(r), l, EventsTo(r), t)
  BY <1>6 DEF Linked
<1>20. Path(Base(r), l + n, c, u)
  BY <1>2, <1>17, <1>18, <1>19, PathJoin
<1>21. Path(Base(r), Len(wire[r]), EventsTo(r), u)'
  BY <1>7, <1>14, <1>20
<1>22. \A i \in Places(r)' : wire'[r][i].version = expected'[r] + i - 1
  BY <1>3, <1>10, <1>12
<1>23. expected'[Other(r)] = expected'[r] + Len(wire'[r])
  BY <1>3, <1>7, <1>13
<1> QED
  BY <1>21, <1>22, <1>23 DEF Linked

\* When nothing is on its way it is the turn of either end.
LEMMA TurnPasses ==
  ASSUME ListTypes, NEW e \in Ends, Turn(e), bound[e], wire[e] = <<>>
  PROVE  Turn(Other(e)) /\ items[Other(e)] = items[e]
<1> USE OtherEnd
<1>1. Len(wire[e]) = 0 /\ Len(wire[Other(e)]) = 0 /\ Places(e) = {} /\ Places(Other(e)) = {}
  BY DEF Turn, Places
<1>2. /\ expected[e] \in Nat /\ items[e] \in Seq(Values) /\ items[Other(e)] \in Seq(Values)
      /\ expected[Other(e)] \in Nat
  BY DEF ListTypes
<1>3. expected[Other(e)] = expected[e] /\ Path(items[e], 0, EventsTo(e), items[Other(e)])
  BY <1>1, <1>2 DEF Turn, Linked, Base
<1>4. items[Other(e)] = items[e]
  BY <1>2, <1>3, ShortPaths
<1>5. Path(items[Other(e)], 0, EventsTo(Other(e)), items[e])
  BY <1>2, <1>4, ShortPaths
<1>6. expected[e] = expected[Other(e)] + 0
  BY <1>2, <1>3
<1> QED
  BY <1>1, <1>4, <1>5, <1>6 DEF Turn, Linked, Base

\* e sends the events a.
Sent(e, a) ==
  /\ wire' = [wire EXCEPT ![Other(e)] = @ \o Numbered(e, a)]
  /\ expected' = [expected EXCEPT ![e] = @ + Len(a)]

LEMMA SentEffect ==
  ASSUME ListTypes, NEW e \in Ends, NEW a \in Seq(Events), Sent(e, a)
  PROVE  /\ wire'[Other(e)] = wire[Other(e)] \o Numbered(e, a) /\ wire'[e] = wire[e]
         /\ expected'[e] = expected[e] + Len(a) /\ expected'[Other(e)] = expected[Other(e)]
         /\ wire' \in [Ends -> Seq(ListMessages)] /\ expected' \in [Ends -> Nat \ {0}]
<1> USE OtherEnd
<1>1. wire \in [Ends -> Seq(ListMessages)] /\ expected \in [Ends -> Nat \ {0}]
  BY DEF ListTypes
<1>2. PICK q \in Seq(ListMessages) : q = Numbered(e, a)
  BY NumberedAre
<1>3. PICK n \in Nat : n = Len(a)
  BY LenProperties
<1>4. Other(e) \in Ends /\ Other(e) # e
  OBVIOUS
<1>5. wire[Other(e)] \o q \in Seq(ListMessages)
  BY <1>1, <1>2, <1>4, ConcatProperties
<1>6. wire' = [wire EXCEPT ![Other(e)] = wire[Other(e)] \o q]
  BY <1>2 DEF Sent
<1>7. wire'[Other(e)] = wire[Other(e)] \o q /\ wire'[e] = wire[e]
  BY <1>1, <1>4, <1>6
<1>8. wire' \in [Ends -> Seq(ListMessages)]
  BY <1>1, <1>4, <1>5, <1>6
<1>9. PICK x \in Nat \ {0} : x = expected[e] + n
  <2>1. expected[e] \in Nat \ {0}
    BY <1>1
  <2> QED
    BY <1>3, <2>1
<1>10. expected' = [expected EXCEPT ![e] = x]
  BY <1>3, <1>9 DEF Sent
<1>11. expected'[e] = x /\ expected'[Other(e)] = expected[Other(e)] /\ expected' \in [Ends -> Nat \ {0}]
  BY <1>1, <1>4, <1>9, <1>10
<1> QED
  BY <1>2, <1>3, <1>7, <1>8, <1>9, <1>11

\* An end that is not bound has received nothing and numbered nothing.
LEMMA SentUnbound ==
  ASSUME ListTypes, Unbound, NEW e \in Ends, NEW a \in Seq(Events), Sent(e, a),
         bound'[e], bound'[Other(e)] = bound[Other(e)]
  PROVE  Unbound'
<1> USE OtherEnd
<1>1. wire'[e] = wire[e] /\ expected'[Other(e)] = expected[Other(e)]
  BY SentEffect
<1>2. ASSUME NEW g \in Ends, ~bound'[g] PROVE wire'[Other(g)] = <<>> /\ expected'[g] = 1
  <2>1. g = Other(e) /\ Other(g) = e /\ ~bound[g]
    BY <1>2
  <2>2. wire[Other(g)] = <<>> /\ expected[g] = 1
    BY <2>1 DEF Unbound
  <2> QED
    BY <1>1, <2>1, <2>2
<1> QED
  BY <1>2 DEF Unbound

\* Whose turn it is, seen from an end that is bound.
LEMMA TurnOf ==
  ASSUME ListTypes, TakingTurns, NEW e \in Ends, bound[e]
  PROVE  /\ wire[e] = <<>> => Turn(Other(e))
         /\ wire[e] # <<>> => Turn(e)
<1> USE OtherEnd
<1>1. Turn(e) \/ Turn(Other(e))
  <2>1. PICK g \in Ends : Turn(g)
    BY DEF TakingTurns
  <2>2. g = e \/ g = Other(e)
    OBVIOUS
  <2> QED
    BY <2>1, <2>2
<1>2. Turn(Other(e)) => wire[e] = <<>>
  BY DEF Turn
<1>3. Turn(e) /\ wire[e] = <<>> => Turn(Other(e))
  BY TurnPasses
<1> QED
  BY <1>1, <1>2, <1>3

\* After the change of an end that had nothing on its way to it, it is the turn of that end.
LEMMA TurnSends ==
  ASSUME ListTypes, NEW e \in Ends, NEW a \in Seq(Events), Sent(e, a), NEW t,
         Linked(Other(e), t), Path(t, Len(a), a, items'[e]),
         Base(Other(e))' = Base(Other(e)), bound'[e], wire[e] = <<>>
  PROVE  Turn(Other(e))'
<1> USE OtherEnd
<1>1. PICK r \in Ends : r = Other(e) /\ Other(r) = e
  OBVIOUS
<1>2. PICK u : u = items'[e]
  OBVIOUS
<1>3. /\ wire'[r] = wire[r] \o Numbered(Other(r), a) /\ expected'[r] = expected[r]
      /\ expected'[Other(r)] = expected[Other(r)] + Len(a) /\ wire'[e] = <<>>
  <2>1. /\ wire'[Other(e)] = wire[Other(e)] \o Numbered(e, a) /\ wire'[e] = wire[e]
        /\ expected'[e] = expected[e] + Len(a) /\ expected'[Other(e)] = expected[Other(e)]
    BY SentEffect
  <2> QED
    BY <1>1, <2>1
<1>4. Linked(r, t) /\ Path(t, Len(a), a, u) /\ Base(r)' = Base(r)
  BY <1>1, <1>2
<1>5. Linked(r, u)'
  BY <1>3, <1>4, LinkedSends
<1>6. bound'[Other(r)] /\ wire'[Other(r)] = <<>> /\ items'[Other(r)] = u
  BY <1>1, <1>2, <1>3
<1>7. Linked(r, items[Other(r)])'
  BY <1>5, <1>6 DEF Linked
<1>8. Turn(r)'
  BY <1>6, <1>7 DEF Turn
<1> QED
  BY <1>1, <1>8

\* A late message stays late.
LEMMA LateStays ==
  ASSUME ListTypes, ListTypes', NEW g \in Ends, Late(g), expected[g] <= expected'[g],
         wire'[g] = wire[g] \/ \E q \in Seq(ListMessages) : wire'[g] = wire[g] \o q
  PROVE  Late(g)'
<1>1. PICK w \in Seq(ListMessages) : w = wire[g]
  BY DEF ListTypes
<1>2. PICK l \in Nat : l = Len(w)
  BY LenProperties
<1>3. 1 <= l /\ w[1].version < expected[g]
  BY <1>1, <1>2 DEF Late, Places
<1>4. PICK q \in Seq(ListMessages) : wire'[g] = w \o q \/ wire'[g] = w
  <2>1. <<>> \in Seq(ListMessages)
    OBVIOUS
  <2> QED
    BY <1>1, <2>1
<1>5. PICK n \in Nat : n = Len(q)
  BY LenProperties
<1>6. Len(w \o q) = l + n /\ \A i \in 1 .. l + n : (w \o q)[i] = IF i <= l THEN w[i] ELSE q[i - l]
  BY <1>2, <1>5
<1>7. (w \o q)[1] = w[1] /\ 1 <= l + n
  <2>1. 1 \in 1 .. l + n /\ 1 <= l /\ 1 <= l + n
    BY <1>3
  <2> QED
    BY <1>6, <2>1
<1>8. PICK k \in Nat : k = Len(wire'[g]) /\ 1 <= k /\ wire'[g][1] = w[1]
  BY <1>2, <1>3, <1>4, <1>6, <1>7
<1>9. w[1].version < expected'[g]
  <2>1. w[1] \in ListMessages
    BY <1>2, <1>3, ElementOfSeq
  <2>2. w[1].version \in Nat
    BY <2>1 DEF ListMessages
  <2>3. expected[g] \in Nat
    BY DEF ListTypes
  <2>4. expected'[g] \in Nat
    BY DEF ListTypes
  <2> QED
    BY <1>3, <2>2, <2>3, <2>4
<1> QED
  BY <1>8, <1>9 DEF Late, Places

\* Changes that have crossed are late at either end.
LEMMA BothLate ==
  ASSUME ListTypes, NEW e \in Ends, Turn(e), wire[e] # <<>>,
         NEW a \in Seq(Events), Len(a) > 0, Sent(e, a)
  PROVE  Late(e)' /\ Late(Other(e))'
<1> USE OtherEnd
<1>1. PICK w \in Seq(ListMessages) : w = wire[e]
  BY DEF ListTypes
<1>2. PICK l \in Nat : l = Len(w)
  BY LenProperties
<1>3. PICK n \in Nat : n = Len(a)
  BY LenProperties
<1>4. PICK x \in Nat \ {0}, y \in Nat \ {0} : x = expected[e] /\ y = expected[Other(e)]
  BY DEF ListTypes
<1>5. l # 0
  BY <1>1, <1>2, EmptySeq
<1>6. \A i \in 1 .. l : w[i].version = x + i - 1
  BY <1>1, <1>2, <1>4 DEF Turn, Linked, Places
<1>7. y = x + l /\ wire[Other(e)] = <<>>
  BY <1>1, <1>2, <1>4 DEF Turn, Linked
<1>8. /\ wire'[Other(e)] = <<>> \o Numbered(e, a) /\ wire'[e] = w
      /\ expected'[e] = x + n /\ expected'[Other(e)] = y
  <2>1. /\ wire'[Other(e)] = wire[Other(e)] \o Numbered(e, a) /\ wire'[e] = wire[e]
        /\ expected'[e] = expected[e] + Len(a) /\ expected'[Other(e)] = expected[Other(e)]
    BY SentEffect
  <2> QED
    BY <1>1, <1>3, <1>4, <1>7, <2>1
<1>9. PICK v \in Seq(ListMessages) : v = Numbered(e, a) /\ Len(v) = n
        /\ \A i \in 1 .. n : v[i].version = x + i - 1
  BY <1>3, <1>4, NumberedAre
<1>10. wire'[Other(e)] = v
  BY <1>8, <1>9, ConcatEmptySeq
<1>11. 1 \in 1 .. l /\ 1 \in 1 .. n /\ x + 1 - 1 = x /\ x < x + n /\ x < y
  BY <1>2, <1>3, <1>5, <1>7
<1>12. w[1].version = x /\ v[1].version = x
  <2>1. w[1].version = x + 1 - 1
    BY <1>6, <1>11
  <2>2. v[1].version = x + 1 - 1
    BY <1>9, <1>11
  <2> QED
    BY <1>11, <2>1, <2>2
<1>13. Late(e)'
  BY <1>2, <1>8, <1>11, <1>12 DEF Late, Places
<1>14. 1 \in 1 .. Len(wire'[Other(e)]) /\ wire'[Other(e)][1].version < expected'[Other(e)]
  BY <1>8, <1>9, <1>10, <1>11, <1>12
<1>15. Late(Other(e))'
  BY <1>14 DEF Late, Places
<1> QED
  BY <1>13, <1>15

\* When e, which is bound by then, has sent its events: the two ways it can go.
LEMMA SentKeeps ==
  ASSUME ListInv, kind = "list", kind' = kind, ListTypes', NEW e \in Ends, NEW a \in Seq(Events),
         Sent(e, a), bound'[e], bound'[Other(e)] = bound[Other(e)], conflicts' = conflicts,
         crossed' = (crossed \/ (Len(a) > 0 /\ wire[e] # <<>>)),
         crossed => e \notin conflicts,
         ~crossed /\ ~crossed' => TakingTurns',
         ~crossed /\ wire[e] # <<>> => Turn(e)
  PROVE  ListInv'
<1> USE OtherEnd
<1>1. /\ ListTypes /\ Unbound
      /\ ~crossed => conflicts = {} /\ TakingTurns
      /\ crossed => \A g \in Ends : bound[g] /\ (g \in conflicts \/ Late(g))
  BY ListParts
<1>2. Unbound'
  BY <1>1, SentUnbound
<1>3. /\ wire'[Other(e)] = wire[Other(e)] \o Numbered(e, a) /\ wire'[e] = wire[e]
      /\ expected'[e] = expected[e] + Len(a) /\ expected'[Other(e)] = expected[Other(e)]
  BY <1>1, SentEffect
<1>4. PICK q \in Seq(ListMessages) : q = Numbered(e, a)
  BY <1>1, NumberedAre
<1>5. PICK n \in Nat : n = Len(a)
  BY LenProperties
<1>6. \A g \in Ends : expected[g] \in Nat /\ expected'[g] \in Nat
  BY <1>1 DEF ListTypes
<1>7. \A g \in Ends : expected[g] <= expected'[g]
  <2>1. expected[e] <= expected'[e] /\ expected[Other(e)] <= expected'[Other(e)]
    BY <1>3, <1>5, <1>6
  <2> QED
    BY <2>1
<1>8. \A g \in Ends : wire'[g] = wire[g] \/ wire'[g] = wire[g] \o q
  BY <1>3, <1>4
<1>9. CASE crossed
  <2>1. \A g \in Ends : bound[g] /\ (g \in conflicts \/ Late(g))
    BY <1>1, <1>9
  <2>2. ASSUME NEW g \in Ends, Late(g) PROVE Late(g)'
    BY <1>1, <1>7, <1>8, <2>2, LateStays
  <2>3. ASSUME NEW g \in Ends PROVE bound'[g]
    BY <2>1
  <2>4. crossed'
    BY <1>9
  <2>5. \A g \in Ends : bound'[g] /\ (g \in conflicts' \/ Late(g)')
    BY <2>1, <2>2, <2>3
  <2> QED
    BY <1>2, <2>4, <2>5 DEF ListInv
<1>10. CASE ~crossed /\ ~crossed'
  BY <1>1, <1>2, <1>10 DEF ListInv
<1>11. CASE ~crossed /\ crossed'
  <2>1. Len(a) > 0 /\ wire[e] # <<>> /\ Turn(e)
    BY <1>11
  <2>2. Late(e)' /\ Late(Other(e))'
    BY <1>1, <2>1, BothLate
  <2>3. bound[Other(e)]
    BY <2>1 DEF Turn
  <2>4. \A g \in Ends : g = e \/ g = Other(e)
    OBVIOUS
  <2>5. \A g \in Ends : bound'[g]
    BY <2>3, <2>4
  <2>6. ASSUME NEW g \in Ends PROVE Late(g)'
    <3>1. CASE g = e
      BY <2>2, <3>1
    <3>2. CASE g = Other(e)
      BY <2>2, <3>2
    <3> QED
      BY <2>4, <3>1, <3>2
  <2> QED
    BY <1>2, <1>11, <2>5, <2>6 DEF ListInv
<1> QED
  BY <1>9, <1>10, <1>11

\* ListAdd, ListUpdate, ListRemoveAt and ListClear.
LEMMA ListChangeKeeps ==
  ASSUME ListInv, kind = "list", kind' = kind, NEW e \in Ends, NEW new \in Seq(Values),
         NEW a \in Seq(Events), Len(a) > 0, Path(items[e], Len(a), a, new), ListChange(e, new, a)
  PROVE  ListInv'
<1> USE OtherEnd
<1>1. /\ ListTypes /\ Unbound
      /\ ~crossed => conflicts = {} /\ TakingTurns
      /\ crossed => \A g \in Ends : bound[g] /\ (g \in conflicts \/ Late(g))
  BY ListParts
<1>2. /\ e \notin conflicts /\ conflicts' = conflicts /\ bound' = bound
      /\ items' = [items EXCEPT ![e] = new]
      /\ crossed' = (crossed \/ (bound[e] /\ wire[e] # <<>>))
  BY DEF ListChange, Change, Crosses
<1>3. bound[e] => Sent(e, a)
  BY DEF ListChange, Change, Sent
<1>4. ~bound[e] => wire' = wire /\ expected' = expected
  BY DEF ListChange, Change
<1>5. items'[e] = new /\ items'[Other(e)] = items[Other(e)] /\ items' \in [Ends -> Seq(Values)]
  <2>1. items \in [Ends -> Seq(Values)]
    BY <1>1 DEF ListTypes
  <2> QED
    BY <1>2, <2>1
<1>6. ListTypes'
  <2>1. wire' \in [Ends -> Seq(ListMessages)] /\ expected' \in [Ends -> Nat \ {0}]
    <3>1. CASE bound[e]
      BY <1>1, <1>3, <3>1, SentEffect
    <3>2. CASE ~bound[e]
      BY <1>1, <1>4, <3>2 DEF ListTypes
    <3> QED
      BY <3>1, <3>2
  <2>2. bound' \in [Ends -> BOOLEAN] /\ conflicts' \in SUBSET Ends
    BY <1>1, <1>2 DEF ListTypes
  <2>3. crossed' \in BOOLEAN
    BY <1>1, <1>2 DEF ListTypes
  <2> QED
    BY <1>5, <2>1, <2>2, <2>3 DEF ListTypes
<1>7. Base(Other(e))' = Base(Other(e))
  BY <1>2, <1>5 DEF Base
<1>8. CASE bound[e]
  <2>1. Sent(e, a) /\ bound'[e] /\ bound'[Other(e)] = bound[Other(e)]
    BY <1>2, <1>3, <1>8
  <2>2. crossed' = (crossed \/ (Len(a) > 0 /\ wire[e] # <<>>))
    BY <1>2, <1>8
  <2>3. ASSUME ~crossed, wire[e] = <<>> PROVE TakingTurns'
    <3>1. Turn(Other(e))
      BY <1>1, <1>8, <2>3, TurnOf
    <3>2. PICK t : t = items[e]
      OBVIOUS
    <3>3. Linked(Other(e), t) /\ Path(t, Len(a), a, items'[e])
      BY <1>5, <3>1, <3>2 DEF Turn
    <3>4. Turn(Other(e))'
      BY <1>1, <1>7, <2>1, <2>3, <3>3, TurnSends
    <3> QED
      BY <3>4 DEF TakingTurns
  <2>4. ~crossed /\ ~crossed' => TakingTurns'
    BY <2>2, <2>3
  <2>5. ~crossed /\ wire[e] # <<>> => Turn(e)
    BY <1>1, <1>8, TurnOf
  <2> QED
    BY <1>2, <1>6, <2>1, <2>2, <2>4, <2>5, SentKeeps
<1>9. CASE ~bound[e]
  <2>1. ~crossed /\ ~crossed' /\ conflicts' = {} /\ TakingTurns
    BY <1>1, <1>2, <1>9
  <2>2. wire' = wire /\ expected' = expected
    BY <1>4, <1>9
  <2>3. Unbound'
    BY <1>1, <1>2, <2>2 DEF Unbound
  <2>4. CASE \A g \in Ends : ~bound[g]
    <3>1. TakingTurns'
      BY <1>2, <2>4 DEF TakingTurns
    <3> QED
      BY <1>6, <2>1, <2>3, <3>1 DEF ListInv
  <2>5. CASE \E g \in Ends : Turn(g)
    <3>1. Turn(e)
      BY <1>9, <2>5 DEF Turn
    <3>2. PICK t : t = items[Other(e)]
      OBVIOUS
    <3>3. Base(e)' = Base(e) /\ EventsTo(e)' = EventsTo(e) /\ Places(e)' = Places(e)
      BY <1>2, <1>9, <2>2 DEF Base, EventsTo, Places
    <3>4. Linked(e, t)
      BY <3>1, <3>2 DEF Turn
    <3>5. Linked(e, t)'
      BY <2>2, <3>3, <3>4 DEF Linked
    <3>6. Linked(e, items[Other(e)])'
      BY <1>5, <3>2, <3>5 DEF Linked
    <3>7. Turn(e)'
      BY <1>2, <2>2, <3>1, <3>6 DEF Turn
    <3>8. TakingTurns'
      BY <3>7 DEF TakingTurns
    <3> QED
      BY <1>6, <2>1, <2>3, <3>8 DEF ListInv
  <2> QED
    BY <2>1, <2>4, <2>5 DEF TakingTurns
<1> QED
  BY <1>8, <1>9

\* The counterpart of an end that is not bound, when nothing is on its way to that end.
LEMMA FreshLink ==
  ASSUME ListTypes, Unbound, TakingTurns, NEW e \in Ends, ~bound[e], wire[e] = <<>>
  PROVE  Linked(Other(e), <<>>)
<1> USE OtherEnd
<1>1. wire[Other(e)] = <<>> /\ expected[e] = 1
  BY DEF Unbound
<1>2. Len(wire[e]) = 0 /\ Len(wire[Other(e)]) = 0 /\ Places(e) = {} /\ Places(Other(e)) = {}
  BY <1>1 DEF Places
<1>3. expected[Other(e)] \in Nat /\ items[Other(e)] \in Seq(Values)
  BY DEF ListTypes
<1>4. <<>> \in Seq(Values)
  OBVIOUS
<1>5. expected[Other(e)] = 1 /\ Base(Other(e)) = <<>>
  <2>1. CASE ~bound[Other(e)]
    BY <2>1 DEF Unbound, Base
  <2>2. CASE bound[Other(e)]
    <3>1. Turn(e)
      BY <2>2 DEF TakingTurns, Turn
    <3>2. expected[Other(e)] = expected[e] + 0 /\ Path(<<>>, 0, EventsTo(e), items[Other(e)])
      BY <1>2, <3>1 DEF Turn, Linked, Base
    <3>3. items[Other(e)] = <<>>
      BY <1>4, <3>2, ShortPaths
    <3> QED
      BY <1>1, <2>2, <3>2, <3>3 DEF Base
  <2> QED
    BY <2>1, <2>2
<1>6. Path(Base(Other(e)), 0, EventsTo(Other(e)), <<>>)
  <2>1. PICK s \in Seq(Values) : s = <<>>
    BY <1>4
  <2>2. \A a : Path(s, 0, a, s)
    BY ShortPaths
  <2>3. PICK a : a = EventsTo(Other(e))
    OBVIOUS
  <2>4. Path(s, 0, a, s)
    BY <2>2
  <2> QED
    BY <1>5, <2>1, <2>3, <2>4
<1>7. expected[e] = expected[Other(e)] + 0
  BY <1>1, <1>5
<1> QED
  BY <1>2, <1>6, <1>7 DEF Linked

LEMMA ListBindKeeps ==
  ASSUME ListInv, kind = "list", kind' = kind, NEW e \in Ends, ListBind(e)
  PROVE  ListInv'
<1> USE OtherEnd
<1>1. /\ ListTypes /\ Unbound
      /\ ~crossed => conflicts = {} /\ TakingTurns
      /\ crossed => \A g \in Ends : bound[g] /\ (g \in conflicts \/ Late(g))
  BY ListParts
<1>2. PICK s \in Seq(Values) : s = items[e]
  BY <1>1 DEF ListTypes
<1>3. PICK n \in Nat : n = Len(s)
  BY LenProperties
<1>4. PICK a : a = [i \in 1 .. n |-> Added(i, s[i])]
  OBVIOUS
<1>5. a \in Seq(Events) /\ Len(a) = n
  <2>1. \A i \in 1 .. n : s[i] \in Values
    BY <1>3, ElementOfSeq
  <2>2. \A i \in 1 .. n : Added(i, s[i]) \in Events
    BY <2>1 DEF Added, Events
  <2> QED
    BY <1>4, <2>2
<1>6. Path(<<>>, n, a, s)
  BY <1>3, <1>4, LongPaths
<1>7. /\ ~bound[e] /\ bound' = [bound EXCEPT ![e] = TRUE] /\ Sent(e, a)
      /\ crossed' = (crossed \/ (n > 0 /\ wire[e] # <<>>)) /\ items' = items /\ conflicts' = conflicts
  BY <1>2, <1>3, <1>4, <1>5 DEF ListBind, Bind, Sent, Crosses
<1>8. ~crossed /\ TakingTurns
  BY <1>1, <1>7
<1>9. bound'[e] /\ bound'[Other(e)] = bound[Other(e)] /\ bound' \in [Ends -> BOOLEAN]
  <2>1. bound \in [Ends -> BOOLEAN]
    BY <1>1 DEF ListTypes
  <2> QED
    BY <1>7, <2>1
<1>10. ListTypes'
  <2>1. wire' \in [Ends -> Seq(ListMessages)] /\ expected' \in [Ends -> Nat \ {0}]
    BY <1>1, <1>5, <1>7, SentEffect
  <2>2. items' \in [Ends -> Seq(Values)] /\ conflicts' \in SUBSET Ends /\ crossed' \in BOOLEAN
    BY <1>1, <1>7 DEF ListTypes
  <2> QED
    BY <1>9, <2>1, <2>2 DEF ListTypes
<1>11. wire[e] # <<>> => Turn(e)
  <2>1. wire[e] # <<>> => bound[Other(e)]
    BY <1>1 DEF Unbound
  <2> QED
    BY <1>7, <1>8, <2>1 DEF TakingTurns, Turn
<1>12. ASSUME ~crossed' PROVE TakingTurns'
  <2>1. CASE wire[e] = <<>>
    <3>1. Linked(Other(e), <<>>)
      BY <1>1, <1>7, <1>8, <2>1, FreshLink
    <3>2. Base(Other(e))' = Base(Other(e))
      BY <1>7, <1>9 DEF Base
    <3>3. Path(<<>>, Len(a), a, items'[e])
      BY <1>2, <1>5, <1>6, <1>7
    <3>4. Turn(Other(e))'
      BY <1>1, <1>5, <1>7, <1>9, <2>1, <3>1, <3>2, <3>3, TurnSends
    <3> QED
      BY <3>4 DEF TakingTurns
  <2>2. CASE wire[e] # <<>>
    <3>1. Turn(e) /\ n = 0
      <4>1. ~(n > 0)
        BY <1>7, <1>12, <2>2
      <4>2. n = 0
        BY <4>1
      <4> QED
        BY <1>11, <2>2, <4>2
    <3>2. s = <<>>
      BY <1>3, <3>1, EmptySeq
    <3>3. /\ wire'[Other(e)] = wire[Other(e)] \o Numbered(e, a) /\ wire'[e] = wire[e]
          /\ expected'[e] = expected[e] + Len(a) /\ expected'[Other(e)] = expected[Other(e)]
      BY <1>1, <1>5, <1>7, SentEffect
    <3>4. expected'[e] = expected[e]
      <4>1. expected[e] \in Nat
        BY <1>1 DEF ListTypes
      <4> QED
        BY <1>5, <3>1, <3>3, <4>1
    <3>5. wire'[Other(e)] = <<>>
      <4>1. PICK q \in Seq(ListMessages) : q = Numbered(e, a) /\ Len(q) = 0
        <5>1. Numbered(e, a) \in Seq(ListMessages) /\ Len(Numbered(e, a)) = Len(a)
          BY <1>1, <1>5, NumberedAre
        <5> QED
          BY <1>5, <3>1, <5>1
      <4>2. q = <<>>
        BY <4>1, EmptySeq
      <4>3. wire[Other(e)] = <<>>
        BY <3>1 DEF Turn
      <4>4. wire'[Other(e)] = <<>> \o q
        BY <3>3, <4>1, <4>3
      <4> QED
        BY <4>1, <4>2, <4>4, ConcatEmptySeq
    <3>6. Base(e)' = Base(e)
      BY <1>2, <1>7, <1>9, <3>2 DEF Base
    <3>7. EventsTo(e)' = EventsTo(e) /\ Places(e)' = Places(e)
      BY <3>3 DEF EventsTo, Places
    <3>8. PICK t : t = items[Other(e)]
      OBVIOUS
    <3>9. Linked(e, t)
      BY <3>1, <3>8 DEF Turn
    <3>10. Linked(e, t)'
      BY <3>3, <3>4, <3>6, <3>7, <3>9 DEF Linked
    <3>11. Linked(e, items[Other(e)])'
      BY <1>7, <3>8, <3>10 DEF Linked
    <3>12. bound'[Other(e)]
      BY <1>9, <3>1 DEF Turn
    <3>13. Turn(e)'
      BY <3>5, <3>11, <3>12 DEF Turn
    <3> QED
      BY <3>13 DEF TakingTurns
  <2> QED
    BY <2>1, <2>2
<1>13. crossed' = (crossed \/ (Len(a) > 0 /\ wire[e] # <<>>))
  BY <1>5, <1>7
<1> QED
  BY <1>5, <1>7, <1>8, <1>9, <1>10, <1>11, <1>12, <1>13, SentKeeps

LEMMA ListReceiveKeeps ==
  ASSUME ListInv, kind = "list", kind' = kind, NEW e \in Ends, ListReceive(e)
  PROVE  ListInv'
<1> USE OtherEnd
<1>1. /\ ListTypes /\ Unbound
      /\ ~crossed => conflicts = {} /\ TakingTurns
      /\ crossed => \A g \in Ends : bound[g] /\ (g \in conflicts \/ Late(g))
  BY ListParts
<1>2. PICK w \in Seq(ListMessages) : w = wire[e] /\ w # <<>>
  BY <1>1 DEF ListTypes, ListReceive, Receive
<1>3. PICK l \in Nat : l = Len(w)
  BY LenProperties
<1>4. PICK m : m = Head(w)
  OBVIOUS
<1>5. PICK v : v = Tail(w)
  OBVIOUS
<1>6. /\ m \in ListMessages /\ v \in Seq(ListMessages) /\ l >= 1 /\ Len(v) = l - 1
      /\ \A i \in 1 .. l - 1 : v[i] = w[i + 1]
  <2>1. /\ Head(w) \in ListMessages /\ Tail(w) \in Seq(ListMessages)
        /\ Len(Tail(w)) = Len(w) - 1 /\ \A i \in 1 .. Len(Tail(w)) : Tail(w)[i] = w[i + 1]
    BY <1>2, HeadTailProperties
  <2>2. l # 0
    BY <1>2, <1>3, EmptySeq
  <2> QED
    BY <1>3, <1>4, <1>5, <2>1, <2>2
<1>7. m = w[1]
  BY <1>2, <1>4
<1>8. /\ e \notin conflicts /\ bound[e] /\ bound' = bound /\ crossed' = crossed
      /\ wire' = [wire EXCEPT ![e] = v, ![Other(e)] = @ \o <<>>]
  BY <1>2, <1>4, <1>5 DEF ListReceive, Receive
<1>9. wire \in [Ends -> Seq(ListMessages)]
  BY <1>1 DEF ListTypes
<1>10. wire'[e] = v /\ wire'[Other(e)] = wire[Other(e)] /\ wire' \in [Ends -> Seq(ListMessages)]
  <2>1. PICK q \in Seq(ListMessages) : q = wire[Other(e)]
    BY <1>9
  <2>2. q \o <<>> = q
    BY <2>1, ConcatEmptySeq
  <2>3. wire' = [wire EXCEPT ![e] = v, ![Other(e)] = q]
    BY <1>8, <2>1, <2>2
  <2> QED
    BY <1>6, <1>9, <2>1, <2>3
<1>11. bound' \in [Ends -> BOOLEAN] /\ crossed' \in BOOLEAN
  BY <1>1, <1>8 DEF ListTypes
<1>12. CASE crossed
  <2>1. Late(e)
    BY <1>1, <1>8, <1>12
  <2>2. m.version < expected[e]
    BY <1>2, <1>7, <2>1 DEF Late
  <2>3. ~Expects(e, m)
    <3>1. expected[e] \in Nat
      BY <1>1 DEF ListTypes
    <3> QED
      BY <2>2, <3>1 DEF Expects
  <2>4. conflicts' = conflicts \union {e} /\ items' = items /\ expected' = expected
    BY <1>2, <1>4, <2>3 DEF ListReceive, Arriving
  <2>5. ListTypes'
    <3>1. items' \in [Ends -> Seq(Values)] /\ expected' \in [Ends -> Nat \ {0}]
      BY <1>1, <2>4 DEF ListTypes
    <3>2. conflicts' \in SUBSET Ends
      BY <1>1, <2>4 DEF ListTypes
    <3> QED
      BY <1>10, <1>11, <3>1, <3>2 DEF ListTypes
  <2>6. \A g \in Ends : bound'[g]
    BY <1>1, <1>8, <1>12
  <2>7. Unbound'
    BY <2>6 DEF Unbound
  <2>8. Late(Other(e)) => Late(Other(e))'
    BY <1>10, <2>4 DEF Late, Places
  <2>9. ASSUME NEW g \in Ends PROVE g \in conflicts' \/ Late(g)'
    <3>1. CASE g = e
      BY <2>4, <3>1
    <3>2. CASE g = Other(e)
      BY <1>1, <1>12, <2>4, <2>8, <3>2
    <3> QED
      BY <3>1, <3>2
  <2> QED
    BY <1>8, <1>12, <2>5, <2>6, <2>7, <2>9 DEF ListInv
<1>13. CASE ~crossed
  <2>1. Turn(e) /\ conflicts = {}
    BY <1>1, <1>2, <1>8, <1>13, TurnOf
  <2>2. PICK x \in Nat \ {0} : x = expected[e]
    BY <1>1 DEF ListTypes
  <2>3. \A i \in 1 .. l : w[i].version = x + i - 1
    BY <1>2, <1>3, <2>1, <2>2 DEF Turn, Linked, Places
  <2>4. m.version = x
    <3>1. 1 \in 1 .. l /\ x + 1 - 1 = x
      BY <1>6
    <3> QED
      BY <1>7, <2>3, <3>1
  <2>5. /\ expected' = [expected EXCEPT ![e] = @ + 1]
        /\ items' = [items EXCEPT ![e] = Applied(@, m.event)] /\ conflicts' = conflicts
    <3>1. Expects(e, m)
      BY <2>2, <2>4 DEF Expects
    <3> QED
      BY <1>2, <1>4, <3>1 DEF ListReceive, Arriving
  <2>6. PICK s \in Seq(Values), t \in Seq(Values) : s = items[e] /\ t = items[Other(e)]
    BY <1>1 DEF ListTypes
  <2>7. PICK a : a = EventsTo(e)
    OBVIOUS
  <2>8. PICK b : b = EventsTo(e)'
    OBVIOUS
  <2>9. \A i \in 1 .. l : a[i] = w[i].event
    BY <1>2, <1>3, <2>7 DEF EventsTo, Places
  <2>10. \A i \in 1 .. l - 1 : b[i] = v[i].event
    BY <1>6, <1>10, <2>8 DEF EventsTo, Places
  <2>11. \A i \in 1 .. l - 1 : i + 1 \in 1 .. l
    OBVIOUS
  <2>12. \A i \in 1 .. l - 1 : b[i] = a[i + 1]
    BY <1>6, <2>9, <2>10, <2>11
  <2>13. Path(s, l, a, t)
    BY <1>2, <1>3, <1>8, <2>1, <2>6, <2>7 DEF Turn, Linked, Base
  <2>14. Applied(s, a[1]) \in Seq(Values) /\ Path(Applied(s, a[1]), l - 1, b, t)
    <3>1. l \in Nat \ {0}
      BY <1>6
    <3> QED
      BY <2>12, <2>13, <3>1, PathNext
  <2>15. a[1] = m.event
    <3>1. 1 \in 1 .. l
      BY <1>6
    <3> QED
      BY <1>7, <2>9, <3>1
  <2>16. PICK u \in Seq(Values) : u = Applied(s, m.event)
    BY <2>14, <2>15
  <2>17. items'[e] = u /\ items'[Other(e)] = t /\ items' \in [Ends -> Seq(Values)]
    <3>1. items \in [Ends -> Seq(Values)]
      BY <1>1 DEF ListTypes
    <3>2. items' = [items EXCEPT ![e] = u]
      BY <2>5, <2>6, <2>16
    <3> QED
      BY <2>6, <3>1, <3>2
  <2>18. /\ expected'[e] = x + 1 /\ expected'[Other(e)] = expected[Other(e)]
         /\ expected' \in [Ends -> Nat \ {0}]
    <3>1. expected \in [Ends -> Nat \ {0}]
      BY <1>1 DEF ListTypes
    <3>2. PICK k \in Nat \ {0} : k = x + 1
      OBVIOUS
    <3>3. expected' = [expected EXCEPT ![e] = k]
      BY <2>2, <2>5, <3>2
    <3> QED
      BY <3>1, <3>2, <3>3
  <2>19. ListTypes'
    <3>1. conflicts' \in SUBSET Ends
      BY <2>1, <2>5
    <3> QED
      BY <1>10, <1>11, <2>17, <2>18, <3>1 DEF ListTypes
  <2>20. expected[Other(e)] = x + l /\ bound[Other(e)] /\ wire[Other(e)] = <<>>
    BY <1>2, <1>3, <2>1, <2>2 DEF Turn, Linked
  <2>21. Unbound'
    <3>1. \A g \in Ends : bound'[g]
      BY <1>8, <2>20
    <3> QED
      BY <3>1 DEF Unbound
  <2>22. \A i \in 1 .. l - 1 : v[i].version = (x + 1) + i - 1
    <3>1. ASSUME NEW i \in 1 .. l - 1 PROVE v[i].version = (x + 1) + i - 1
      <4>1. w[i + 1].version = x + (i + 1) - 1
        BY <2>3, <2>11
      <4> QED
        BY <1>6, <4>1
    <3> QED
      BY <3>1
  <2>23. x + l = (x + 1) + (l - 1)
    OBVIOUS
  <2>24. Len(wire'[e]) = l - 1 /\ Places(e)' = 1 .. l - 1 /\ Base(e)' = u
    BY <1>6, <1>8, <1>10, <2>17 DEF Places, Base
  <2>25. Path(Base(e), Len(wire[e]), EventsTo(e), items[Other(e)])'
    BY <2>8, <2>14, <2>15, <2>16, <2>17, <2>24
  <2>26. \A i \in Places(e)' : wire'[e][i].version = expected'[e] + i - 1
    BY <1>10, <2>18, <2>22, <2>24
  <2>27. expected'[Other(e)] = expected'[e] + Len(wire'[e])
    BY <2>18, <2>20, <2>23, <2>24
  <2>28. Linked(e, items[Other(e)])'
    BY <2>25, <2>26, <2>27 DEF Linked
  <2>29. Turn(e)'
    BY <1>8, <1>10, <2>20, <2>28 DEF Turn
  <2>30. TakingTurns'
    BY <2>29 DEF TakingTurns
  <2> QED
    BY <1>8, <1>13, <2>1, <2>5, <2>19, <2>21, <2>30 DEF ListInv
<1> QED
  BY <1>12, <1>13

\* A list whose two ends and items are as they were.
LEMMA ListStays ==
  ASSUME ListInv, UNCHANGED <<kind, listVars>>, kind # "list" \/ UNCHANGED endVars
  PROVE  ListInv'
<1>1. UNCHANGED <<kind, items, expected, conflicts, crossed>>
  BY DEF listVars
<1>2. CASE kind # "list"
  BY <1>1, <1>2 DEF ListInv
<1>3. CASE UNCHANGED endVars
  <2>1. UNCHANGED <<wire, bound>>
    BY <1>3 DEF endVars
  <2>2. ListTypes' <=> ListTypes
    BY <1>1, <2>1 DEF ListTypes
  <2>3. Unbound' <=> Unbound
    BY <1>1, <2>1 DEF Unbound
  <2>4. \A e : Late(e)' <=> Late(e)
    BY <1>1, <2>1 DEF Late, Places
  <2>5. \A e : Turn(e)' <=> Turn(e)
    BY <1>1, <2>1 DEF Turn, Linked, Base, EventsTo, Places
  <2>6. TakingTurns' <=> TakingTurns
    BY <2>1, <2>5 DEF TakingTurns
  <2> QED
    BY <1>1, <2>1, <2>2, <2>3, <2>4, <2>6 DEF ListInv
<1> QED
  BY <1>2, <1>3

\* For lists of every length and any number of changes: as long as none has crossed, the
\* messages on their way are numbered as they are expected and lead to what their sender
\* has; once one has, an end that has not reported it yet will not expect its next message.
THEOREM ListInvariance == Spec => []ListInv
<1>1. Init => ListInv
  <2> SUFFICES ASSUME Init PROVE ListInv
    OBVIOUS
  <2>1. /\ items = [e \in Ends |-> <<>>] /\ expected = [e \in Ends |-> 1] /\ conflicts = {} /\ ~crossed
        /\ wire = [e \in Ends |-> <<>>] /\ bound = [e \in Ends |-> kind \notin Filled] /\ crossed \in BOOLEAN
    BY DEF Init, ListInit, EndsInit
  <2>2. wire \in [Ends -> Seq(ListMessages)] /\ items \in [Ends -> Seq(Values)]
    BY <2>1
  <2>3. bound \in [Ends -> BOOLEAN] /\ expected \in [Ends -> Nat \ {0}]
    BY <2>1
  <2>4. ListTypes
    BY <2>1, <2>2, <2>3 DEF ListTypes
  <2>5. Unbound
    BY <2>1, OtherEnd DEF Unbound
  <2>6. kind = "list" => TakingTurns
    BY <2>1 DEF TakingTurns, Filled
  <2> QED
    BY <2>1, <2>4, <2>5, <2>6 DEF ListInv
<1>2. ListInv /\ [Next]_vars => ListInv'
  <2> SUFFICES ASSUME ListInv, [Next]_vars PROVE ListInv'
    OBVIOUS
  <2>1. CASE ListStep
    <3>1. kind = "list" /\ kind' = kind /\ ListNext
      BY <2>1 DEF ListStep
    <3>2. \A e \in Ends : items[e] \in Seq(Values)
      BY <3>1 DEF ListInv, ListTypes
    <3>3. ASSUME NEW e \in Ends, NEW new \in Seq(Values), NEW event \in Events,
                 new = Applied(items[e], event), ListChange(e, new, <<event>>)
          PROVE  ListInv'
      <4>1. PICK a \in Seq(Events) : a = <<event>> /\ Len(a) = 1 /\ Len(a) > 0
        <5>1. <<event>> \in Seq(Events)
          OBVIOUS
        <5>2. PICK a \in Seq(Events) : a = <<event>>
          BY <5>1
        <5>3. Len(a) = 1 /\ 1 > 0
          BY <5>2
        <5> QED
          BY <5>2, <5>3
      <4>2. Path(items[e], Len(a), a, new)
        BY <3>2, <3>3, <4>1, ShortPaths
      <4> QED
        BY <3>1, <3>3, <4>1, <4>2, ListChangeKeeps
    <3>4. ASSUME NEW e \in Ends, NEW x \in Values, NEW i \in 1 .. Len(items[e]) + 1, ListAdd(e, i, x)
          PROVE  ListInv'
      <4>1. Len(items[e]) \in Nat
        BY <3>2, LenProperties
      <4>2. i \in Nat
        BY <4>1
      <4>3. PICK event \in Events : event = Added(i, x)
        BY <4>2 DEF Added, Events
      <4>4. InsertAt(items[e], i, x) \in Seq(Values)
        BY <3>2, StaysAList
      <4>5. Applied(items[e], event) = InsertAt(items[e], i, x)
        BY <4>3 DEF Applied, Added
      <4>6. ListChange(e, InsertAt(items[e], i, x), <<event>>)
        BY <3>4, <4>3 DEF ListAdd
      <4> QED
        BY <3>3, <4>4, <4>5, <4>6
    <3>5. ASSUME NEW e \in Ends, NEW x \in Values, NEW i \in 1 .. Len(items[e]), ListUpdate(e, i, x)
          PROVE  ListInv'
      <4>1. Len(items[e]) \in Nat
        BY <3>2, LenProperties
      <4>2. i \in Nat
        BY <4>1
      <4>3. PICK event \in Events : event = Updated(i, x)
        BY <4>2 DEF Updated, Events
      <4>4. ReplaceAt(items[e], i, x) \in Seq(Values)
        BY <3>2, StaysAList
      <4>5. Applied(items[e], event) = ReplaceAt(items[e], i, x)
        BY <4>3 DEF Applied, Updated
      <4>6. ListChange(e, ReplaceAt(items[e], i, x), <<event>>)
        BY <3>5, <4>3 DEF ListUpdate
      <4> QED
        BY <3>3, <4>4, <4>5, <4>6
    <3>6. ASSUME NEW e \in Ends, NEW i \in 1 .. Len(items[e]), ListRemoveAt(e, i)
          PROVE  ListInv'
      <4>1. Len(items[e]) \in Nat
        BY <3>2, LenProperties
      <4>2. i \in Nat
        BY <4>1
      <4>3. PICK x \in Values : x = items[e][i]
        BY <3>2, ElementOfSeq
      <4>4. PICK event \in Events : event = Removed(i, x)
        BY <4>2 DEF Removed, Events
      <4>5. RemoveAt(items[e], i) \in Seq(Values)
        BY <3>2, <4>3, StaysAList
      <4>6. Applied(items[e], event) = RemoveAt(items[e], i)
        BY <4>4 DEF Applied, Removed
      <4>7. ListChange(e, RemoveAt(items[e], i), <<event>>)
        BY <3>6, <4>3, <4>4 DEF ListRemoveAt
      <4> QED
        BY <3>3, <4>5, <4>6, <4>7
    <3>7. ASSUME NEW e \in Ends, ListClear(e) PROVE ListInv'
      <4>1. PICK s \in Seq(Values) : s = items[e]
        BY <3>2
      <4>2. PICK n \in Nat : n = Len(s)
        BY LenProperties
      <4>3. PICK a : a = [i \in 1 .. n |-> Removed(n + 1 - i, s[n + 1 - i])]
        OBVIOUS
      <4>4. a \in Seq(Events) /\ Len(a) = n
        <5>1. \A i \in 1 .. n : n + 1 - i \in 1 .. n /\ n + 1 - i \in Nat
          OBVIOUS
        <5>2. \A i \in 1 .. n : s[i] \in Values
          BY <4>2, ElementOfSeq
        <5>3. ASSUME NEW i \in 1 .. n PROVE Removed(n + 1 - i, s[n + 1 - i]) \in Events
          <6>1. PICK k \in 1 .. n : k = n + 1 - i /\ k \in Nat
            BY <5>1
          <6> QED
            BY <5>2, <6>1 DEF Removed, Events
        <5> QED
          BY <4>3, <5>3
      <4>5. ListChange(e, <<>>, a) /\ n > 0
        BY <3>7, <4>1, <4>2, <4>3 DEF ListClear
      <4>6. Path(items[e], Len(a), a, <<>>)
        BY <4>1, <4>2, <4>3, <4>4, LongPaths
      <4>7. <<>> \in Seq(Values) /\ Len(a) > 0
        BY <4>4, <4>5
      <4> QED
        BY <3>1, <4>4, <4>5, <4>6, <4>7, ListChangeKeeps
    <3> QED
      BY <3>1, <3>4, <3>5, <3>6, <3>7, ListBindKeeps, ListReceiveKeeps DEF ListNext
  <2>2. CASE PropertyStep \/ MapStep \/ SetStep \/ InternStep
    <3>1. kind # "list" /\ UNCHANGED <<kind, listVars>>
      BY <2>2 DEF PropertyStep, MapStep, SetStep, InternStep
    <3> QED
      BY <3>1, ListStays
  <2>3. CASE UNCHANGED vars
    <3>1. UNCHANGED <<kind, listVars, endVars>>
      BY <2>3 DEF vars
    <3> QED
      BY <3>1, ListStays
  <2> QED
    BY <2>1, <2>2, <2>3 DEF Next
<1> QED
  BY <1>1, <1>2, PTL DEF Spec

\* A list reports a conflict only if changes crossed; if none is reported, none did, and
\* the replicas are the same when every message has arrived.
THEOREM ListReports == Spec => []ListReportsCrossing
<1> USE OtherEnd
<1>1. ListInv => ListReportsCrossing
  <2> SUFFICES ASSUME ListInv PROVE ListReportsCrossing
    OBVIOUS
  <2>1. CASE kind # "list"
    BY <2>1 DEF ListInv, ListReportsCrossing
  <2>2. CASE kind = "list"
    <3>1. /\ ListTypes
          /\ ~crossed => conflicts = {} /\ TakingTurns
          /\ crossed => \A e \in Ends : bound[e] /\ (e \in conflicts \/ Late(e))
      BY <2>2, ListParts
    <3>2. ASSUME Quiet, conflicts = {}, crossed PROVE FALSE
      <4>1. PICK e \in Ends : TRUE
        BY EndsAssumption, FS_EmptySet
      <4>2. wire[e] = <<>> /\ Late(e)
        BY <3>1, <3>2 DEF Quiet
      <4> QED
        BY <4>2 DEF Late, Places
    <3>3. ASSUME Quiet, ~crossed, NEW e \in Ends, NEW f \in Ends PROVE items[e] = items[f]
      <4>1. bound[e] /\ bound[Other(e)] /\ wire[e] = <<>> /\ wire[Other(e)] = <<>>
        BY <3>3 DEF Quiet
      <4>2. Turn(Other(e))
        BY <3>1, <3>3, <4>1, TurnOf
      <4>3. items[Other(Other(e))] = items[Other(e)]
        BY <3>1, <4>1, <4>2, TurnPasses
      <4> QED
        BY <4>3
    <3> QED
      BY <3>1, <3>2, <3>3 DEF ListReportsCrossing
  <2> QED
    BY <2>1, <2>2
<1> QED
  BY <1>1, ListInvariance, PTL

-----------------------------------------------------------------------------
(* RdMap.                                                                  *)

MapMessages ==
  [op : {"change", "ack"}, key : Keys, value : Values \union {None}, version : Nat]

Says(e, op, k, i) == wire[e][i].op = op /\ wire[e][i].key = k
Silent(e, op, k) == \A i \in Places(e) : ~Says(e, op, k, i)
OnlyAt(e, op, k, p) ==
  p \in Places(e) /\ Says(e, op, k, p) /\ \A i \in Places(e) : Says(e, op, k, i) => i = p
Told(e, k) == IF bound[e] THEN entries[e][k] ELSE None

\* The master m is going to accept what s says of k after place p, and of that
\* the last is what s has; if s says nothing after it they have the same.
WillAgree(m, s, k, p) ==
  /\ \A i \in Places(m) :
       /\ p < i /\ Says(m, "change", k, i)
       /\ \A j \in Places(m) : i < j => ~Says(m, "change", k, j)
       => wire[m][i].value = entries[s][k]
  /\ (\A i \in Places(m) : p < i => ~Says(m, "change", k, i)) => Told(s, k) = Told(m, k)

\* No change of the master is pending, or it is on its way to the slave, or its
\* acknowledgement is on its way back.
Settled(m, s, k) ==
  /\ pendingForAck[k] = 0
  /\ Silent(s, "change", k) /\ Silent(m, "ack", k) /\ WillAgree(m, s, k, 0)
Offered(m, s, k) ==
  /\ pendingForAck[k] # 0 /\ bound[m] /\ Silent(m, "ack", k)
  /\ \E p \in Places(s) :
       OnlyAt(s, "change", k, p) /\ wire[s][p].version = pendingForAck[k] /\ wire[s][p].value = entries[m][k]
Acked(m, s, k) ==
  /\ pendingForAck[k] # 0 /\ bound[m] /\ bound[s] /\ Silent(s, "change", k)
  /\ \E p \in Places(m) :
       OnlyAt(m, "ack", k, p) /\ wire[m][p].version = pendingForAck[k] /\ WillAgree(m, s, k, p)
Tracked(m, s, k) == Settled(m, s, k) \/ Offered(m, s, k) \/ Acked(m, s, k)

MapTypes(m, s) ==
  /\ wire \in [Ends -> Seq(MapMessages)]
  /\ bound \in [Ends -> BOOLEAN]
  /\ entries \in [Ends -> [Keys -> Values \union {None}]]
  /\ \A e \in Ends : IsFiniteSet({k \in Keys : entries[e][k] # None})
  /\ next_version \in Nat /\ pendingForAck \in [Keys -> Nat]
  /\ \A i \in Places(s) : wire[s][i].op = "change" /\ wire[s][i].version # 0
  /\ \A i \in Places(m) : wire[m][i].op = "change" => wire[m][i].version = 0
  /\ ~bound[s] => Places(m) = {}
  /\ ~bound[m] => Places(s) = {}

MapInv ==
  /\ kind # "map" => \A e, f \in Ends : entries[e] = entries[f]
  /\ kind = "map" => master \in Ends \union {None}
  /\ kind = "map" =>
       \A m, s \in Ends : m = master /\ s = Other(m) =>
         MapTypes(m, s) /\ \A k \in Keys \ lost : Tracked(m, s, k)

\* What e gets of one kind about k stays on its way, c places further on, and
\* nothing of that kind is added.
Carried(e, op, k, c) ==
  /\ \A i \in Places(e)' :
       Says(e, op, k, i)' => i + c \in Places(e) /\ Says(e, op, k, i + c) /\ wire'[e][i] = wire[e][i + c]
  /\ \A j \in Places(e) :
       Says(e, op, k, j) => j - c \in Places(e)' /\ Says(e, op, k, j - c)' /\ wire'[e][j - c] = wire[e][j]

\* Nothing happens to what is on its way to e, or something is added.
LEMMA CarriedByJoin ==
  ASSUME NEW e \in Ends, NEW events, NEW op, NEW k,
         Join(e, events), \A i \in 1 .. Len(events) : ~(events[i].op = op /\ events[i].key = k)
  PROVE  Carried(e, op, k, 0)
<1>1. PICK l \in Nat :
        /\ \A i \in Places(e) : i \in Places(e)' /\ wire'[e][i] = wire[e][i] /\ i \in Nat /\ i <= l
        /\ \A i \in 1 .. Len(events) : l + i \in Places(e)' /\ wire'[e][l + i] = events[i]
        /\ \A j \in Places(e)' : j \in Nat /\ (j \in Places(e) \/ \E i \in 1 .. Len(events) : j = l + i)
  BY DEF Join
<1>2. ASSUME NEW i \in Places(e)', Says(e, op, k, i)'
      PROVE  i + 0 \in Places(e) /\ Says(e, op, k, i + 0) /\ wire'[e][i] = wire[e][i + 0]
  <2>1. i \in Nat /\ i + 0 = i
    BY <1>1
  <2>2. i \in Places(e)
    <3>1. ASSUME NEW j \in 1 .. Len(events), i = l + j PROVE FALSE
      BY <1>1, <1>2, <3>1 DEF Says
    <3> QED
      BY <1>1, <3>1
  <2>3. wire'[e][i] = wire[e][i]
    BY <1>1, <2>2
  <2> QED
    BY <1>2, <2>1, <2>2, <2>3 DEF Says
<1>3. ASSUME NEW j \in Places(e), Says(e, op, k, j)
      PROVE  j - 0 \in Places(e)' /\ Says(e, op, k, j - 0)' /\ wire'[e][j - 0] = wire[e][j]
  <2>1. j - 0 = j
    BY <1>1
  <2>2. j \in Places(e)' /\ wire'[e][j] = wire[e][j]
    BY <1>1
  <2> QED
    BY <1>3, <2>1, <2>2 DEF Says
<1> QED
  BY <1>2, <1>3 DEF Carried

LEMMA CarriedWhenStill ==
  ASSUME wire \in [Ends -> Seq(MapMessages)], NEW e \in Ends, wire'[e] = wire[e], NEW op, NEW k
  PROVE  Carried(e, op, k, 0)
<1>1. \A i \in Places(e) : i \in Nat
  BY MessageAt
<1>2. Places(e)' = Places(e)
  BY DEF Places
<1>3. \A i \in Places(e) : i + 0 = i /\ i - 0 = i
  BY <1>1
<1>4. \A i \in Places(e) : Says(e, op, k, i)' <=> Says(e, op, k, i)
  BY DEF Says
<1> QED
  BY <1>2, <1>3, <1>4 DEF Carried

\* The first message, which is another one, has arrived.
LEMMA CarriedWhenTaken ==
  ASSUME NEW e \in Ends, Taken(e), NEW op, NEW k, ~Says(e, op, k, 1)
  PROVE  Carried(e, op, k, 1)
<1>1. /\ \A i \in Places(e)' : i \in Nat \ {0} /\ i + 1 \in Places(e) /\ wire'[e][i] = wire[e][i + 1]
      /\ \A j \in Places(e) : /\ j \in Nat /\ 1 <= j
                              /\ j # 1 => j - 1 \in Places(e)' /\ wire'[e][j - 1] = wire[e][j]
  BY DEF Taken
<1>2. \A i \in Places(e)' : Says(e, op, k, i)' <=> Says(e, op, k, i + 1)
  BY <1>1 DEF Says
<1>3. ASSUME NEW j \in Places(e), Says(e, op, k, j)
      PROVE  j - 1 \in Places(e)' /\ Says(e, op, k, j - 1)' /\ wire'[e][j - 1] = wire[e][j]
  <2>1. j # 1
    BY <1>3
  <2>2. j - 1 \in Places(e)' /\ wire'[e][j - 1] = wire[e][j]
    BY <1>1, <2>1
  <2> QED
    BY <1>3, <2>2 DEF Says
<1> QED
  BY <1>1, <1>2, <1>3 DEF Carried

LEMMA SilentCarried ==
  ASSUME NEW e \in Ends, NEW op, NEW k, NEW c, Carried(e, op, k, c), Silent(e, op, k)
  PROVE  Silent(e, op, k)'
<1>1. \A i \in Places(e)' : ~Says(e, op, k, i)'
  BY DEF Carried, Silent
<1> QED
  BY <1>1 DEF Silent

LEMMA OnlyAtCarried ==
  ASSUME wire \in [Ends -> Seq(MapMessages)], wire' \in [Ends -> Seq(MapMessages)], NEW e \in Ends,
         NEW op, NEW k, NEW c \in {0, 1}, NEW p \in Places(e),
         Carried(e, op, k, c), OnlyAt(e, op, k, p)
  PROVE  p \in Nat /\ OnlyAt(e, op, k, p - c)' /\ wire'[e][p - c] = wire[e][p]
<1>1. /\ \A i \in Places(e) : i \in Nat
      /\ \A i \in Places(e)' : i \in Nat
  <2>1. Len(wire[e]) \in Nat /\ Len(wire'[e]) \in Nat
    BY LenProperties
  <2> QED
    BY <2>1 DEF Places
<1>2. p \in Places(e) /\ Says(e, op, k, p) /\ \A i \in Places(e) : Says(e, op, k, i) => i = p
  BY DEF OnlyAt
<1>3. p - c \in Places(e)' /\ Says(e, op, k, p - c)' /\ wire'[e][p - c] = wire[e][p]
  BY <1>2 DEF Carried
<1>4. ASSUME NEW i \in Places(e)', Says(e, op, k, i)' PROVE i = p - c
  <2>1. i + c \in Places(e) /\ Says(e, op, k, i + c)
    BY <1>4 DEF Carried
  <2>2. i + c = p
    BY <1>2, <2>1
  <2> QED
    BY <1>1, <2>2
<1> QED
  BY <1>1, <1>2, <1>3, <1>4 DEF OnlyAt

LEMMA WillAgreeCarried ==
  ASSUME wire \in [Ends -> Seq(MapMessages)], wire' \in [Ends -> Seq(MapMessages)],
         NEW m \in Ends, NEW s \in Ends, NEW k, NEW c \in {0, 1}, Carried(m, "change", k, c),
         NEW p \in Nat, NEW q \in Int, q = p - c \/ (p = 0 /\ q = 0),
         WillAgree(m, s, k, p), entries'[s][k] = entries[s][k] \/ Places(m) = {},
         Told(s, k)' = Told(s, k), Told(m, k)' = Told(m, k)
  PROVE  WillAgree(m, s, k, q)'
<1>1. /\ \A i \in Places(m) : i \in Nat \ {0}
      /\ \A i \in Places(m)' : i \in Nat \ {0}
  <2>1. Len(wire[m]) \in Nat /\ Len(wire'[m]) \in Nat
    BY LenProperties
  <2> QED
    BY <2>1 DEF Places
<1>2. /\ \A i \in Places(m)' :
           Says(m, "change", k, i)' =>
             i + c \in Places(m) /\ Says(m, "change", k, i + c) /\ wire'[m][i] = wire[m][i + c]
      /\ \A j \in Places(m) :
           Says(m, "change", k, j) =>
             j - c \in Places(m)' /\ Says(m, "change", k, j - c)' /\ wire'[m][j - c] = wire[m][j]
  BY DEF Carried
<1>3. ASSUME NEW i \in Places(m)', q < i, Says(m, "change", k, i)',
             \A j \in Places(m)' : i < j => ~Says(m, "change", k, j)'
      PROVE  wire'[m][i].value = entries'[s][k]
  <2>1. i + c \in Places(m) /\ Says(m, "change", k, i + c) /\ wire'[m][i] = wire[m][i + c]
    BY <1>2, <1>3
  <2>2. p < i + c
    BY <1>1, <1>3
  <2>3. ASSUME NEW j \in Places(m), i + c < j, Says(m, "change", k, j) PROVE FALSE
    <3>1. j - c \in Places(m)' /\ Says(m, "change", k, j - c)'
      BY <1>2, <2>3
    <3>2. i < j - c
      BY <1>1, <2>3
    <3> QED
      BY <1>3, <3>1, <3>2
  <2>4. wire[m][i + c].value = entries[s][k]
    BY <2>1, <2>2, <2>3 DEF WillAgree
  <2> QED
    BY <2>1, <2>4
<1>4. ASSUME \A i \in Places(m)' : q < i => ~Says(m, "change", k, i)' PROVE Told(s, k)' = Told(m, k)'
  <2>1. ASSUME NEW j \in Places(m), p < j, Says(m, "change", k, j) PROVE FALSE
    <3>1. j - c \in Places(m)' /\ Says(m, "change", k, j - c)'
      BY <1>2, <2>1
    <3>2. q < j - c
      BY <1>1, <2>1, <3>1
    <3> QED
      BY <1>4, <3>1, <3>2
  <2>2. Told(s, k) = Told(m, k)
    BY <2>1 DEF WillAgree
  <2> QED
    BY <2>2
<1> QED
  BY <1>3, <1>4 DEF WillAgree

\* The messages a handler makes.
AreMessages(e, new, keys, events) ==
  /\ events \in Seq(MapMessages) /\ Len(events) = Len(keys) /\ Len(keys) \in Nat
  /\ \A i \in 1 .. Len(keys) :
       /\ i \in Nat \ {0} /\ keys[i] \in Keys
       /\ events[i].op = "change" /\ events[i].key = keys[i] /\ events[i].value = new[keys[i]]
       /\ events[i].version = IF e = master THEN next_version + i ELSE 0

LEMMA MessagesAre ==
  ASSUME NEW e \in Ends, NEW new \in [Keys -> Values \union {None}], NEW keys \in Seq(Keys),
         next_version \in Nat
  PROVE  AreMessages(e, new, keys, Messages(e, new, keys))
<1>1. PICK n \in Nat : n = Len(keys)
  BY LenProperties
<1>2. \A i \in 1 .. n : keys[i] \in Keys /\ i \in Nat \ {0}
  BY <1>1, ElementOfSeq
<1>3. PICK g : g = Messages(e, new, keys)
  OBVIOUS
<1>4. g = [i \in 1 .. n |-> [op |-> "change", key |-> keys[i], value |-> new[keys[i]],
                             version |-> IF e = master THEN next_version + i ELSE 0]]
  BY <1>1, <1>3 DEF Messages, ChangeMessage
<1>5. \A i \in 1 .. n : g[i] \in MapMessages
  <2>1. ASSUME NEW i \in 1 .. n PROVE g[i] \in MapMessages
    <3>1. new[keys[i]] \in Values \union {None}
      BY <1>2
    <3>2. (IF e = master THEN next_version + i ELSE 0) \in Nat
      BY <1>2
    <3> QED
      BY <1>2, <1>4, <3>1, <3>2 DEF MapMessages
  <2> QED
    BY <2>1
<1>6. g \in Seq(MapMessages) /\ Len(g) = n
  BY <1>4, <1>5
<1>7. \A i \in 1 .. n : /\ g[i].op = "change" /\ g[i].key = keys[i] /\ g[i].value = new[keys[i]]
                        /\ g[i].version = IF e = master THEN next_version + i ELSE 0
  BY <1>4
<1> QED
  BY <1>1, <1>2, <1>3, <1>6, <1>7 DEF AreMessages

\* What the handler of the master remembers.
Remembers(keys) ==
  /\ next_version' \in Nat /\ pendingForAck' \in [Keys -> Nat] /\ lost \subseteq lost'
  /\ \A i \in 1 .. Len(keys) : keys[i] \notin lost' =>
       /\ ~Unacknowledged(keys[i])
       /\ pendingForAck[keys[i]] = 0 => pendingForAck'[keys[i]] = next_version + i
  /\ \A k \in Keys : (\A i \in 1 .. Len(keys) : keys[i] # k) => pendingForAck'[k] = pendingForAck[k]

LEMMA EmplaceRemembers ==
  ASSUME NEW e \in Ends, e = master, bound'[e],
         next_version \in Nat, pendingForAck \in [Keys -> Nat],
         NEW new, NEW keys, NEW messages, AreMessages(e, new, keys, messages),
         \A i, j \in 1 .. Len(keys) : keys[i] = keys[j] => i = j,
         EmplacePending(e, messages)
  PROVE  Remembers(keys)
<1>0. PICK n \in Nat : /\ n = Len(keys) /\ Len(messages) = n
                       /\ \A i \in 1 .. n : /\ messages[i].key = keys[i] /\ keys[i] \in Keys
                                             /\ messages[i].version = next_version + i
                       /\ \A i, j \in 1 .. n : keys[i] = keys[j] => i = j
  BY DEF AreMessages
<1> DEFINE sent(k) == {i \in 1 .. Len(messages) : messages[i].key = k}
           removed == {k \in Keys : \E i \in sent(k) : messages[i].value = None}
<1>1. PICK found \in Found :
        /\ next_version' = next_version + Len(messages)
        /\ pendingForAck' =
             [k \in Keys |-> IF sent(k) # {} /\ k \notin found
                             THEN messages[CHOOSE i \in sent(k) : TRUE].version
                             ELSE pendingForAck[k]]
        /\ lost' = lost \union {k \in Keys :
                     sent(k) # {} /\ (Unacknowledged(k) \/ k \in NotFound(found))}
  BY DEF EmplacePending
<1>2. \A k \in Keys : k \in found => pendingForAck[k] # 0
  BY <1>1 DEF Found
<1>3. \A i \in 1 .. n : sent(keys[i]) = {i}
  BY <1>0
<1>4. \A k \in Keys : (\A i \in 1 .. n : keys[i] # k) => sent(k) = {}
  BY <1>0
<1>6. \A i \in 1 .. n : (CHOOSE j \in sent(keys[i]) : TRUE) = i
  BY <1>3
<1> HIDE DEF sent
<1>7. \A i \in 1 .. n : pendingForAck'[keys[i]] =
        IF keys[i] \notin found THEN next_version + i ELSE pendingForAck[keys[i]]
  <2>1. ASSUME NEW i \in 1 .. n
        PROVE  pendingForAck'[keys[i]] =
                 IF keys[i] \notin found THEN next_version + i ELSE pendingForAck[keys[i]]
    <3>1. keys[i] \in Keys /\ sent(keys[i]) # {}
      BY <1>0, <1>3
    <3>2. messages[CHOOSE j \in sent(keys[i]) : TRUE].version = next_version + i
      BY <1>0, <1>6
    <3> QED
      BY <1>1, <3>1, <3>2
  <2> QED
    BY <2>1
<1>8. \A k \in Keys : (\A i \in 1 .. n : keys[i] # k) => pendingForAck'[k] = pendingForAck[k]
  BY <1>1, <1>4
<1>9. \A k \in Keys : pendingForAck'[k] \in Nat
  <2>1. ASSUME NEW k \in Keys PROVE pendingForAck'[k] \in Nat
    <3>1. CASE \E i \in 1 .. n : keys[i] = k
      BY <1>0, <1>7, <3>1
    <3> QED
      BY <1>8, <3>1
  <2> QED
    BY <2>1
<1>10. pendingForAck' \in [Keys -> Nat]
  BY <1>1, <1>9
<1>11. \A i \in 1 .. n : keys[i] \notin lost' => ~Unacknowledged(keys[i])
  BY <1>0, <1>1, <1>3
<1>12. \A i \in 1 .. n : pendingForAck[keys[i]] = 0 => pendingForAck'[keys[i]] = next_version + i
  BY <1>0, <1>2, <1>7
<1>13. next_version' \in Nat /\ lost \subseteq lost'
  BY <1>0, <1>1
<1> QED
  BY <1>0, <1>8, <1>10, <1>11, <1>12, <1>13 DEF Remembers

\* What a step does not speak of stays tracked.
LEMMA TrackedCarried ==
  ASSUME wire \in [Ends -> Seq(MapMessages)], wire' \in [Ends -> Seq(MapMessages)],
         NEW m \in Ends, NEW s \in Ends, NEW k, NEW c \in {0, 1}, NEW d \in {0, 1},
         Carried(m, "change", k, c), Carried(m, "ack", k, c), Carried(s, "change", k, d),
         bound[m] => bound'[m] /\ entries'[m][k] = entries[m][k], bound[s] => bound'[s],
         entries'[s][k] = entries[s][k] \/ Places(m) = {},
         Told(s, k)' = Told(s, k), Told(m, k)' = Told(m, k), pendingForAck'[k] = pendingForAck[k],
         Tracked(m, s, k)
  PROVE  Tracked(m, s, k)'
<1>1. CASE Settled(m, s, k)
  <2>1. Silent(s, "change", k)' /\ Silent(m, "ack", k)'
    BY <1>1, SilentCarried DEF Settled
  <2>2. WillAgree(m, s, k, 0)'
    BY <1>1, WillAgreeCarried DEF Settled
  <2> QED
    BY <1>1, <2>1, <2>2 DEF Settled, Tracked
<1>2. CASE Offered(m, s, k)
  <2>1. PICK p \in Places(s) : /\ OnlyAt(s, "change", k, p) /\ wire[s][p].version = pendingForAck[k]
                               /\ wire[s][p].value = entries[m][k]
    BY <1>2 DEF Offered
  <2>2. OnlyAt(s, "change", k, p - d)' /\ wire'[s][p - d] = wire[s][p]
    BY <2>1, OnlyAtCarried
  <2>3. Silent(m, "ack", k)'
    BY <1>2, SilentCarried DEF Offered
  <2>4. bound'[m] /\ entries'[m][k] = entries[m][k] /\ pendingForAck'[k] # 0
    BY <1>2 DEF Offered
  <2>5. /\ p - d \in Places(s)' /\ wire'[s][p - d].version = pendingForAck'[k]
        /\ wire'[s][p - d].value = entries'[m][k]
    BY <2>1, <2>2, <2>4 DEF OnlyAt
  <2> QED
    BY <2>2, <2>3, <2>4, <2>5 DEF Offered, Tracked
<1>3. CASE Acked(m, s, k)
  <2>1. PICK p \in Places(m) : /\ OnlyAt(m, "ack", k, p) /\ wire[m][p].version = pendingForAck[k]
                               /\ WillAgree(m, s, k, p)
    BY <1>3 DEF Acked
  <2>2. p \in Nat /\ OnlyAt(m, "ack", k, p - c)' /\ wire'[m][p - c] = wire[m][p]
    BY <2>1, OnlyAtCarried
  <2>3. Silent(s, "change", k)'
    BY <1>3, SilentCarried DEF Acked
  <2>4. bound'[m] /\ bound'[s] /\ pendingForAck'[k] # 0
    BY <1>3 DEF Acked
  <2>5. p - c \in Int /\ WillAgree(m, s, k, p - c)'
    <3>1. p - c \in Int
      BY <2>2
    <3> QED
      BY <2>1, <2>2, <3>1, WillAgreeCarried
  <2>6. p - c \in Places(m)' /\ wire'[m][p - c].version = pendingForAck'[k]
    BY <2>1, <2>2 DEF OnlyAt
  <2> QED
    BY <2>2, <2>3, <2>4, <2>5, <2>6 DEF Acked, Tracked
<1> QED
  BY <1>1, <1>2, <1>3 DEF Tracked

\* A message has been added at q, and no other one about k.
OneMore(e, k, msg, q) ==
  /\ q \in Places(e)' /\ q \in Nat \ {0} /\ wire'[e][q] = msg
  /\ \A i \in Places(e) : i \in Nat /\ i < q
  /\ \A op : \A j \in Places(e)' :
       j # q /\ Says(e, op, k, j)' => j \in Places(e) /\ Says(e, op, k, j)

\* Of some messages only the n-th is about k.
OneAbout(k, events, n) ==
  /\ n \in 1 .. Len(events) /\ \A i \in 1 .. Len(events) : events[i].key = k => i = n
  /\ events[n].op = "change" /\ events[n].key = k

LEMMA JoinedOnce ==
  ASSUME wire \in [Ends -> Seq(MapMessages)], NEW e \in Ends, NEW events, Join(e, events),
         NEW k, NEW n, OneAbout(k, events, n)
  PROVE  \E q : OneMore(e, k, events[n], q)
<1>0. Len(wire[e]) \in Nat /\ \A i \in Places(e) : i \in Nat
  BY LenProperties DEF Places
<1>1. PICK l \in Nat :
        /\ \A i \in Places(e) : i \in Places(e)' /\ wire'[e][i] = wire[e][i] /\ i \in Nat /\ i <= l
        /\ \A i \in 1 .. Len(events) : l + i \in Places(e)' /\ wire'[e][l + i] = events[i]
        /\ \A j \in Places(e)' : j \in Nat /\ (j \in Places(e) \/ \E i \in 1 .. Len(events) : j = l + i)
  BY DEF Join
<1>2. /\ n \in Nat \ {0} /\ n \in 1 .. Len(events)
      /\ \A i \in 1 .. Len(events) : events[i].key = k => i = n
  BY DEF OneAbout
<1>3. PICK q \in Nat : q = l + n
  BY <1>2
<1>4. q \in Places(e)' /\ q \in Nat \ {0} /\ wire'[e][q] = events[n]
  BY <1>1, <1>2, <1>3
<1>5. \A i \in Places(e) : i \in Nat /\ i < q
  BY <1>1, <1>2, <1>3
<1>6. ASSUME NEW j \in Places(e)', NEW op, j # q, Says(e, op, k, j)'
      PROVE  j \in Places(e) /\ Says(e, op, k, j)
  <2>1. ASSUME NEW i \in 1 .. Len(events), j = l + i PROVE FALSE
    <3>1. events[i].key = k
      BY <1>1, <1>6, <2>1 DEF Says
    <3> QED
      BY <1>2, <1>3, <1>6, <2>1, <3>1
  <2>2. j \in Places(e)
    BY <1>1, <2>1
  <2>3. wire'[e][j] = wire[e][j]
    BY <1>1, <2>2
  <2> QED
    BY <1>6, <2>2, <2>3 DEF Says
<1> QED
  BY <1>4, <1>5, <1>6 DEF OneMore

\* The slave s changes k: the master will accept that last, or has it refused.
LEMMA SlaveSays ==
  ASSUME wire \in [Ends -> Seq(MapMessages)], wire' \in [Ends -> Seq(MapMessages)],
         NEW m \in Ends, NEW s \in Ends, NEW k,
         Carried(m, "ack", k, 0), Carried(s, "change", k, 0),
         NEW events, Join(m, events), NEW n, OneAbout(k, events, n), events[n].value = entries'[s][k],
         bound'[m] = bound[m], bound'[s], entries'[m][k] = entries[m][k],
         pendingForAck'[k] = pendingForAck[k],
         Tracked(m, s, k)
  PROVE  Tracked(m, s, k)'
<1>0. PICK q : OneMore(m, k, events[n], q)
  BY JoinedOnce
<1>1. /\ q \in Places(m)' /\ q \in Nat \ {0} /\ wire'[m][q] = events[n]
      /\ \A i \in Places(m) : i \in Nat /\ i < q
      /\ \A op : \A j \in Places(m)' :
           j # q /\ Says(m, op, k, j)' => j \in Places(m) /\ Says(m, op, k, j)
  BY <1>0 DEF OneMore
<1>2. /\ Says(m, "change", k, q)' /\ wire'[m][q].value = entries'[s][k]
      /\ \A j \in Places(m)' : q < j => ~Says(m, "change", k, j)'
  <2>1. ASSUME NEW j \in Places(m)', q < j, Says(m, "change", k, j)' PROVE FALSE
    <3>1. j # q
      BY <1>1, <2>1
    <3>2. j \in Nat /\ j < q
      BY <1>1, <2>1, <3>1
    <3> QED
      BY <1>1, <2>1, <3>2
  <2> QED
    BY <1>1, <2>1 DEF Says, OneAbout
<1>3. ASSUME NEW p, p < q PROVE WillAgree(m, s, k, p)'
  <2>1. ASSUME NEW i \in Places(m)', Says(m, "change", k, i)',
               \A j \in Places(m)' : i < j => ~Says(m, "change", k, j)'
        PROVE  i = q
    <3>1. CASE i # q
      <4>1. i < q
        BY <1>1, <2>1, <3>1
      <4> QED
        BY <1>1, <1>2, <2>1, <4>1
    <3> QED
      BY <3>1
  <2>2. ~(\A i \in Places(m)' : p < i => ~Says(m, "change", k, i)')
    BY <1>1, <1>2, <1>3
  <2> QED
    BY <1>2, <2>1, <2>2 DEF WillAgree
<1>4. CASE Settled(m, s, k)
  <2>1. Silent(s, "change", k)' /\ Silent(m, "ack", k)'
    BY <1>4, SilentCarried DEF Settled
  <2>2. 0 < q
    BY <1>1
  <2> QED
    BY <1>3, <1>4, <2>1, <2>2 DEF Settled, Tracked
<1>5. CASE Offered(m, s, k)
  <2>1. PICK p \in Places(s) : /\ OnlyAt(s, "change", k, p) /\ wire[s][p].version = pendingForAck[k]
                               /\ wire[s][p].value = entries[m][k]
    BY <1>5 DEF Offered
  <2>2. p \in Nat /\ OnlyAt(s, "change", k, p - 0)' /\ wire'[s][p - 0] = wire[s][p]
    BY <2>1, OnlyAtCarried
  <2>3. Silent(m, "ack", k)'
    BY <1>5, SilentCarried DEF Offered
  <2>4. bound'[m] /\ pendingForAck'[k] # 0
    BY <1>5 DEF Offered
  <2>5. /\ p - 0 \in Places(s)' /\ wire'[s][p - 0].version = pendingForAck'[k]
        /\ wire'[s][p - 0].value = entries'[m][k]
    BY <2>1, <2>2, <2>4 DEF OnlyAt
  <2> QED
    BY <2>2, <2>3, <2>4, <2>5 DEF Offered, Tracked
<1>6. CASE Acked(m, s, k)
  <2>1. PICK p \in Places(m) : OnlyAt(m, "ack", k, p) /\ wire[m][p].version = pendingForAck[k]
    BY <1>6 DEF Acked
  <2>2. p \in Nat /\ OnlyAt(m, "ack", k, p - 0)' /\ wire'[m][p - 0] = wire[m][p]
    BY <2>1, OnlyAtCarried
  <2>3. Silent(s, "change", k)'
    BY <1>6, SilentCarried DEF Acked
  <2>4. bound'[m] /\ pendingForAck'[k] # 0
    BY <1>6 DEF Acked
  <2>5. p - 0 = p /\ p < q
    BY <1>1, <2>1, <2>2
  <2>6. WillAgree(m, s, k, p - 0)'
    BY <1>3, <2>5
  <2>7. p - 0 \in Places(m)' /\ wire'[m][p - 0].version = pendingForAck'[k]
    BY <2>1, <2>2 DEF OnlyAt
  <2> QED
    BY <2>2, <2>3, <2>4, <2>6, <2>7 DEF Acked, Tracked
<1> QED
  BY <1>4, <1>5, <1>6 DEF Tracked

\* The master m changes k, no earlier change of which is pending: it offers it.
LEMMA MasterSays ==
  ASSUME wire \in [Ends -> Seq(MapMessages)], wire' \in [Ends -> Seq(MapMessages)],
         NEW m \in Ends, NEW s \in Ends, NEW k, Carried(m, "ack", k, 0),
         NEW events, Join(s, events), NEW n, OneAbout(k, events, n), events[n].value = entries'[m][k],
         events[n].version = pendingForAck'[k], pendingForAck'[k] # 0, bound'[m],
         Settled(m, s, k)
  PROVE  Tracked(m, s, k)'
<1>0. PICK q : OneMore(s, k, events[n], q)
  BY JoinedOnce
<1>1. /\ q \in Places(s)' /\ q \in Nat \ {0} /\ wire'[s][q] = events[n]
      /\ \A i \in Places(s) : i \in Nat /\ i < q
      /\ \A op : \A j \in Places(s)' :
           j # q /\ Says(s, op, k, j)' => j \in Places(s) /\ Says(s, op, k, j)
  BY <1>0 DEF OneMore
<1>2. Silent(m, "ack", k)' /\ Silent(s, "change", k)
  BY SilentCarried DEF Settled
<1>3. OnlyAt(s, "change", k, q)'
  <2>1. Says(s, "change", k, q)'
    BY <1>1 DEF Says, OneAbout
  <2>2. \A i \in Places(s)' : Says(s, "change", k, i)' => i = q
    BY <1>1, <1>2 DEF Silent
  <2> QED
    BY <1>1, <2>1, <2>2 DEF OnlyAt
<1> QED
  BY <1>1, <1>2, <1>3 DEF Offered, Tracked

\* An entry more or less leaves finitely many.
Finite(f) == IsFiniteSet({k \in Keys : f[k] # None})

LEMMA FewEntries ==
  ASSUME NEW f, Finite(f), NEW x \in Keys, NEW g, \A k \in Keys : k # x => g[k] = f[k]
  PROVE  Finite(g)
<1>1. IsFiniteSet({k \in Keys : f[k] # None} \union {x})
  BY FS_AddElement DEF Finite
<1>2. {k \in Keys : g[k] # None} \subseteq {k \in Keys : f[k] # None} \union {x}
  OBVIOUS
<1> QED
  BY <1>1, <1>2, FS_Subset DEF Finite

MapEnds(m, s) == m = master /\ s = Other(m)

LEMMA MapParts ==
  ASSUME MapInv, kind = "map", NEW m \in Ends, NEW s \in Ends, MapEnds(m, s)
  PROVE  /\ MapTypes(m, s) /\ \A k \in Keys \ lost : Tracked(m, s, k)
         /\ m # s /\ Other(s) = m /\ \A g \in Ends : g = m \/ g = s
BY OtherEnd DEF MapInv, MapEnds

\* The handler of advise: what it sends, with what becomes of the entries of e.
Fires(e, new, keys) ==
  /\ Change(e, Messages(e, new, keys)) \/ Bind(e, Messages(e, new, keys))
  /\ EmplacePending(e, Messages(e, new, keys))
  /\ entries' = [entries EXCEPT ![e] = new]
FiresAbout(e, new, keys) ==
  /\ new \in [Keys -> Values \union {None}] /\ keys \in Seq(Keys)
  /\ IsFiniteSet({k \in Keys : new[k] # None})
  /\ \A i, j \in 1 .. Len(keys) : keys[i] = keys[j] => i = j
  /\ \A k \in Keys : (\A i \in 1 .. Len(keys) : keys[i] # k) =>
       /\ new[k] = entries[e][k]
       /\ ~bound[e] /\ bound'[e] => new[k] = None

LEMMA FiresSends ==
  ASSUME NEW m \in Ends, NEW s \in Ends, MapEnds(m, s), MapTypes(m, s),
         NEW e \in Ends, NEW new, NEW keys, FiresAbout(e, new, keys), Fires(e, new, keys)
  PROVE  /\ wire' \in [Ends -> Seq(MapMessages)] /\ bound' \in [Ends -> BOOLEAN]
         /\ wire'[e] = wire[e] /\ Places(e)' = Places(e)
         /\ bound'[e] => Join(Other(e), Messages(e, new, keys))
         /\ ~bound'[e] => wire' = wire /\ ~bound[e] /\ UNCHANGED <<next_version, pendingForAck, lost>>
         /\ bound[e] => bound'[e]
         /\ bound'[Other(e)] = bound[Other(e)] /\ master' = master
<1>1. /\ wire \in [Ends -> Seq(MapMessages)] /\ bound \in [Ends -> BOOLEAN] /\ next_version \in Nat
      /\ new \in [Keys -> Values \union {None}] /\ keys \in Seq(Keys)
  BY DEF MapTypes, FiresAbout
<1>2. PICK events : events = Messages(e, new, keys)
  OBVIOUS
<1>3. events \in Seq(MapMessages)
  BY <1>1, <1>2, MessagesAre DEF AreMessages
<1>4. CASE Change(e, events)
  <2>1. /\ wire' \in [Ends -> Seq(MapMessages)] /\ wire'[e] = wire[e] /\ Places(e)' = Places(e)
        /\ bound[e] => Join(Other(e), events)
        /\ ~bound[e] => wire' = wire
        /\ UNCHANGED <<bound, master>>
    BY <1>1, <1>3, <1>4, ChangeSends
  <2>2. ~bound'[e] => UNCHANGED <<next_version, pendingForAck, lost>>
    BY DEF Fires, EmplacePending
  <2> QED
    BY <1>1, <1>2, <2>1, <2>2
<1>5. CASE Bind(e, events)
  <2>1. /\ wire' \in [Ends -> Seq(MapMessages)] /\ wire'[e] = wire[e] /\ Places(e)' = Places(e)
        /\ Join(Other(e), events)
        /\ bound' \in [Ends -> BOOLEAN] /\ ~bound[e] /\ bound'[e] /\ bound'[Other(e)] = bound[Other(e)]
        /\ UNCHANGED <<master, changes>>
    BY <1>1, <1>3, <1>5, BindSends
  <2> QED
    BY <1>2, <2>1
<1> QED
  BY <1>2, <1>4, <1>5 DEF Fires

\* What the handler of the slave fires.
LEMMA SlaveFires ==
  ASSUME NEW m \in Ends, NEW s \in Ends, MapEnds(m, s), m # s, Other(s) = m, MapTypes(m, s),
         NEW new, NEW keys, FiresAbout(s, new, keys), Fires(s, new, keys),
         NEW k \in Keys, Tracked(m, s, k)
  PROVE  Tracked(m, s, k)'
<1>1. /\ wire \in [Ends -> Seq(MapMessages)] /\ bound \in [Ends -> BOOLEAN] /\ next_version \in Nat
      /\ entries \in [Ends -> [Keys -> Values \union {None}]]
      /\ new \in [Keys -> Values \union {None}] /\ keys \in Seq(Keys)
      /\ ~bound[s] => Places(m) = {}
      /\ \A x \in Keys : (\A i \in 1 .. Len(keys) : keys[i] # x) =>
           /\ new[x] = entries[s][x]
           /\ ~bound[s] /\ bound'[s] => new[x] = None
      /\ \A i, j \in 1 .. Len(keys) : keys[i] = keys[j] => i = j
  BY DEF MapTypes, FiresAbout
<1>2. PICK events : events = Messages(s, new, keys)
  OBVIOUS
<1>3. /\ wire' \in [Ends -> Seq(MapMessages)] /\ wire'[s] = wire[s]
      /\ bound'[s] => Join(m, events)
      /\ ~bound'[s] => wire' = wire /\ ~bound[s]
      /\ bound[s] => bound'[s]
      /\ bound'[m] = bound[m]
  BY <1>2, FiresSends
<1>4. /\ Len(events) = Len(keys)
      /\ \A i \in 1 .. Len(keys) :
           events[i].op = "change" /\ events[i].key = keys[i] /\ events[i].value = new[keys[i]]
  <2>1. AreMessages(s, new, keys, events)
    BY <1>1, <1>2, MessagesAre
  <2> QED
    BY <2>1 DEF AreMessages
<1>5. /\ entries'[s] = new /\ entries'[m] = entries[m] /\ pendingForAck' = pendingForAck
  BY <1>1 DEF Fires, EmplacePending, MapEnds
<1>6. Carried(s, "change", k, 0)
  BY <1>1, <1>3, CarriedWhenStill
<1>7. Carried(m, "ack", k, 0)
  <2>1. CASE bound'[s]
    BY <1>3, <1>4, <2>1, CarriedByJoin
  <2>2. CASE ~bound'[s]
    BY <1>1, <1>3, <2>2, CarriedWhenStill
  <2> QED
    BY <2>1, <2>2
<1>8. Told(m, k)' = Told(m, k)
  BY <1>3, <1>5 DEF Told
<1>9. CASE bound'[s] /\ \E i \in 1 .. Len(keys) : keys[i] = k
  <2>1. PICK n \in 1 .. Len(keys) : keys[n] = k
    BY <1>9
  <2>2. OneAbout(k, events, n) /\ events[n].value = entries'[s][k]
    BY <1>1, <1>4, <1>5, <2>1 DEF OneAbout
  <2>3. Join(m, events) /\ entries'[m][k] = entries[m][k] /\ pendingForAck'[k] = pendingForAck[k]
    BY <1>3, <1>5, <1>9
  <2> QED
    BY <1>1, <1>3, <1>6, <1>7, <1>9, <2>2, <2>3, SlaveSays
<1>10. CASE ~bound'[s] \/ \A i \in 1 .. Len(keys) : keys[i] # k
  <2>1. Carried(m, "change", k, 0)
    <3>1. CASE bound'[s]
      <4>1. \A i \in 1 .. Len(events) : events[i].key # k
        BY <1>4, <1>10, <3>1
      <4> QED
        BY <1>3, <3>1, <4>1, CarriedByJoin
    <3>2. CASE ~bound'[s]
      BY <1>1, <1>3, <3>2, CarriedWhenStill
    <3> QED
      BY <3>1, <3>2
  <2>2. entries'[s][k] = entries[s][k] \/ Places(m) = {}
    BY <1>1, <1>3, <1>5, <1>10
  <2>3. Told(s, k)' = Told(s, k)
    BY <1>1, <1>3, <1>5, <1>10 DEF Told
  <2>4. /\ bound[m] => bound'[m] /\ entries'[m][k] = entries[m][k]
        /\ bound[s] => bound'[s]
        /\ pendingForAck'[k] = pendingForAck[k]
    BY <1>3, <1>5
  <2> QED
    BY <1>1, <1>3, <1>6, <1>7, <1>8, <2>1, <2>2, <2>3, <2>4, TrackedCarried
<1> QED
  BY <1>9, <1>10

\* Without a message about it, no change of k is pending.
LEMMA NonePending ==
  ASSUME NEW m \in Ends, NEW s \in Ends, MapEnds(m, s), NEW k \in Keys,
         Tracked(m, s, k), ~Unacknowledged(k)
  PROVE  Settled(m, s, k)
<1>1. \A i \in Places(s) : ~Says(s, "change", k, i)
  BY DEF Unacknowledged, IsAbout, Says, Places, MapEnds
<1>2. \A i \in Places(m) : ~Says(m, "ack", k, i)
  BY DEF Unacknowledged, IsAbout, Says, Places, MapEnds
<1>3. ~Offered(m, s, k)
  BY <1>1 DEF Offered, OnlyAt
<1>4. ~Acked(m, s, k)
  BY <1>2 DEF Acked, OnlyAt
<1> QED
  BY <1>3, <1>4 DEF Tracked

\* What the handler of the master fires.
LEMMA MasterFires ==
  ASSUME NEW m \in Ends, NEW s \in Ends, MapEnds(m, s), m # s, Other(m) = s, MapTypes(m, s),
         NEW new, NEW keys, FiresAbout(m, new, keys), Fires(m, new, keys)
  PROVE  /\ next_version' \in Nat /\ pendingForAck' \in [Keys -> Nat] /\ lost \subseteq lost'
         /\ \A k \in Keys \ lost' : Tracked(m, s, k) => Tracked(m, s, k)'
<1>1. /\ wire \in [Ends -> Seq(MapMessages)] /\ bound \in [Ends -> BOOLEAN] /\ next_version \in Nat
      /\ pendingForAck \in [Keys -> Nat]
      /\ entries \in [Ends -> [Keys -> Values \union {None}]]
      /\ new \in [Keys -> Values \union {None}] /\ keys \in Seq(Keys)
      /\ ~bound[s] => Places(m) = {}
      /\ \A x \in Keys : (\A i \in 1 .. Len(keys) : keys[i] # x) =>
           /\ new[x] = entries[m][x]
           /\ ~bound[m] /\ bound'[m] => new[x] = None
      /\ \A i, j \in 1 .. Len(keys) : keys[i] = keys[j] => i = j
  BY DEF MapTypes, FiresAbout
<1>2. PICK events : events = Messages(m, new, keys)
  OBVIOUS
<1>3. /\ wire' \in [Ends -> Seq(MapMessages)] /\ wire'[m] = wire[m]
      /\ bound'[m] => Join(s, events)
      /\ ~bound'[m] => wire' = wire /\ ~bound[m] /\ UNCHANGED <<next_version, pendingForAck, lost>>
      /\ bound[m] => bound'[m]
      /\ bound'[s] = bound[s]
  BY <1>2, FiresSends
<1>4. /\ Len(events) = Len(keys) /\ Len(keys) \in Nat
      /\ \A i \in 1 .. Len(keys) :
           /\ i \in Nat \ {0} /\ keys[i] \in Keys
           /\ events[i].op = "change" /\ events[i].key = keys[i] /\ events[i].value = new[keys[i]]
           /\ events[i].version = next_version + i
  <2>1. AreMessages(m, new, keys, events)
    BY <1>1, <1>2, MessagesAre
  <2> QED
    BY <2>1 DEF AreMessages, MapEnds
<1>5. entries'[m] = new /\ entries'[s] = entries[s] /\ EmplacePending(m, events) /\ m = master
  BY <1>1, <1>2 DEF Fires, MapEnds
<1>6. bound'[m] =>
        /\ next_version' \in Nat /\ pendingForAck' \in [Keys -> Nat] /\ lost \subseteq lost'
        /\ \A i \in 1 .. Len(keys) : keys[i] \notin lost' =>
             /\ ~Unacknowledged(keys[i])
             /\ pendingForAck[keys[i]] = 0 => pendingForAck'[keys[i]] = next_version + i
        /\ \A k \in Keys : (\A i \in 1 .. Len(keys) : keys[i] # k) => pendingForAck'[k] = pendingForAck[k]
  <2>1. AreMessages(m, new, keys, events)
    BY <1>1, <1>2, MessagesAre
  <2>2. bound'[m] => Remembers(keys)
    BY <1>1, <1>5, <2>1, EmplaceRemembers
  <2> QED
    BY <2>2 DEF Remembers
<1>7. next_version' \in Nat /\ pendingForAck' \in [Keys -> Nat] /\ lost \subseteq lost'
  BY <1>1, <1>3, <1>6
<1>8. ASSUME NEW k \in Keys \ lost', Tracked(m, s, k) PROVE Tracked(m, s, k)'
  <2>1. Carried(m, "ack", k, 0) /\ Carried(m, "change", k, 0)
    BY <1>1, <1>3, CarriedWhenStill
  <2>2. CASE bound'[m] /\ \E i \in 1 .. Len(keys) : keys[i] = k
    <3>1. PICK n \in 1 .. Len(keys) : keys[n] = k
      BY <2>2
    <3>2. ~Unacknowledged(k) /\ (pendingForAck[k] = 0 => pendingForAck'[k] = next_version + n)
      BY <1>6, <1>8, <2>2, <3>1
    <3>3. Settled(m, s, k)
      BY <1>8, <3>2, NonePending
    <3>4. pendingForAck'[k] = next_version + n /\ pendingForAck'[k] # 0
      BY <1>1, <1>4, <3>2, <3>3 DEF Settled
    <3>5. /\ OneAbout(k, events, n) /\ events[n].value = entries'[m][k]
          /\ events[n].version = pendingForAck'[k]
      BY <1>1, <1>4, <1>5, <3>1, <3>4 DEF OneAbout
    <3>6. Join(s, events)
      BY <1>3, <2>2
    <3> QED
      BY <1>1, <1>3, <2>1, <2>2, <3>3, <3>4, <3>5, <3>6, MasterSays
  <2>3. CASE ~bound'[m] \/ \A i \in 1 .. Len(keys) : keys[i] # k
    <3>1. Carried(s, "change", k, 0)
      <4>1. CASE bound'[m]
        <5>1. \A i \in 1 .. Len(events) : events[i].key # k
          BY <1>4, <2>3, <4>1
        <5> QED
          BY <1>3, <4>1, <5>1, CarriedByJoin
      <4>2. CASE ~bound'[m]
        BY <1>1, <1>3, <4>2, CarriedWhenStill
      <4> QED
        BY <4>1, <4>2
    <3>2. Told(m, k)' = Told(m, k)
      BY <1>1, <1>3, <1>5, <2>3 DEF Told
    <3>3. Told(s, k)' = Told(s, k)
      BY <1>3, <1>5 DEF Told
    <3>4. pendingForAck'[k] = pendingForAck[k]
      BY <1>3, <1>6, <2>3
    <3>5. /\ bound[m] => bound'[m] /\ entries'[m][k] = entries[m][k]
          /\ bound[s] => bound'[s]
          /\ entries'[s][k] = entries[s][k]
      BY <1>1, <1>3, <1>5, <2>3
    <3> QED
      BY <1>1, <1>3, <1>8, <2>1, <3>1, <3>2, <3>3, <3>4, <3>5, TrackedCarried
  <2> QED
    BY <2>2, <2>3
<1> QED
  BY <1>7, <1>8

\* What is fired is on its way as the types say.
LEMMA FiresTypes ==
  ASSUME NEW m \in Ends, NEW s \in Ends, MapEnds(m, s), m # s, Other(m) = s, Other(s) = m,
         \A g \in Ends : g = m \/ g = s, MapTypes(m, s),
         NEW e \in Ends, NEW new, NEW keys, FiresAbout(e, new, keys), Fires(e, new, keys),
         next_version' \in Nat, pendingForAck' \in [Keys -> Nat]
  PROVE  MapTypes(m, s)'
<1>1. /\ wire \in [Ends -> Seq(MapMessages)] /\ bound \in [Ends -> BOOLEAN] /\ next_version \in Nat
      /\ entries \in [Ends -> [Keys -> Values \union {None}]]
      /\ \A g \in Ends : IsFiniteSet({k \in Keys : entries[g][k] # None})
      /\ new \in [Keys -> Values \union {None}] /\ keys \in Seq(Keys)
      /\ IsFiniteSet({k \in Keys : new[k] # None})
      /\ \A i \in Places(s) : wire[s][i].op = "change" /\ wire[s][i].version # 0
      /\ \A i \in Places(m) : wire[m][i].op = "change" => wire[m][i].version = 0
      /\ ~bound[s] => Places(m) = {}
      /\ ~bound[m] => Places(s) = {}
  BY DEF MapTypes, FiresAbout
<1>2. PICK events : events = Messages(e, new, keys)
  OBVIOUS
<1>3. /\ wire' \in [Ends -> Seq(MapMessages)] /\ bound' \in [Ends -> BOOLEAN]
      /\ wire'[e] = wire[e] /\ Places(e)' = Places(e)
      /\ bound'[e] => Join(Other(e), events)
      /\ ~bound'[e] => wire' = wire
      /\ bound[e] => bound'[e]
      /\ bound'[Other(e)] = bound[Other(e)]
  BY <1>2, FiresSends
<1>4. /\ Len(events) = Len(keys)
      /\ \A i \in 1 .. Len(keys) :
           /\ events[i].op = "change" /\ i \in Nat \ {0}
           /\ events[i].version = IF e = m THEN next_version + i ELSE 0
  <2>1. AreMessages(e, new, keys, events)
    BY <1>1, <1>2, MessagesAre
  <2> QED
    BY <2>1 DEF AreMessages, MapEnds
<1>5. entries' = [entries EXCEPT ![e] = new]
  BY DEF Fires
<1>6. /\ entries' \in [Ends -> [Keys -> Values \union {None}]]
      /\ \A g \in Ends : IsFiniteSet({k \in Keys : entries'[g][k] # None})
  <2>1. \A g \in Ends : entries'[g] = IF g = e THEN new ELSE entries[g]
    BY <1>1, <1>5
  <2>2. entries' \in [Ends -> [Keys -> Values \union {None}]]
    BY <1>1, <1>5
  <2>3. ASSUME NEW g \in Ends PROVE IsFiniteSet({k \in Keys : entries'[g][k] # None})
    <3>1. CASE g = e
      <4>1. entries'[g] = new
        BY <2>1, <3>1
      <4> QED
        BY <1>1, <4>1
    <3>2. CASE g # e
      <4>1. entries'[g] = entries[g]
        BY <2>1, <3>2
      <4> QED
        BY <1>1, <4>1
    <3> QED
      BY <3>1, <3>2
  <2> QED
    BY <2>2, <2>3
<1>7. ~bound'[e] => \A g \in Ends : Places(g)' = Places(g)
  BY <1>3 DEF Places
<1>8. ASSUME bound'[e], NEW j \in Places(Other(e))'
      PROVE  \/ j \in Places(Other(e)) /\ wire'[Other(e)][j] = wire[Other(e)][j]
             \/ \E i \in 1 .. Len(keys) : wire'[Other(e)][j] = events[i]
  BY <1>3, <1>4, <1>8 DEF Join
<1>9. \A i \in Places(s)' : wire'[s][i].op = "change" /\ wire'[s][i].version # 0
  <2>1. CASE e = s
    BY <1>1, <1>3, <2>1
  <2>2. CASE e = m /\ ~bound'[m]
    BY <1>1, <1>3, <1>7, <2>2
  <2>3. CASE e = m /\ bound'[m]
    <3>1. \A i \in 1 .. Len(keys) : events[i].op = "change" /\ events[i].version # 0
      BY <1>1, <1>4, <2>3
    <3>2. ASSUME NEW j \in Places(s)' PROVE wire'[s][j].op = "change" /\ wire'[s][j].version # 0
      <4>1. CASE j \in Places(s) /\ wire'[s][j] = wire[s][j]
        BY <1>1, <4>1
      <4>2. CASE \E i \in 1 .. Len(keys) : wire'[s][j] = events[i]
        BY <3>1, <4>2
      <4> QED
        BY <1>8, <2>3, <4>1, <4>2
    <3> QED
      BY <3>2
  <2> QED
    BY <2>1, <2>2, <2>3
<1>10. \A i \in Places(m)' : wire'[m][i].op = "change" => wire'[m][i].version = 0
  <2>1. CASE e = m
    BY <1>1, <1>3, <2>1
  <2>2. CASE e = s /\ ~bound'[s]
    BY <1>1, <1>3, <1>7, <2>2
  <2>3. CASE e = s /\ bound'[s]
    <3>1. \A i \in 1 .. Len(keys) : events[i].version = 0
      BY <1>4, <2>3
    <3>2. ASSUME NEW j \in Places(m)' PROVE wire'[m][j].op = "change" => wire'[m][j].version = 0
      <4>1. CASE j \in Places(m) /\ wire'[m][j] = wire[m][j]
        BY <1>1, <4>1
      <4>2. CASE \E i \in 1 .. Len(keys) : wire'[m][j] = events[i]
        BY <3>1, <4>2
      <4> QED
        BY <1>8, <2>3, <4>1, <4>2
    <3> QED
      BY <3>2
  <2> QED
    BY <2>1, <2>2, <2>3
<1>11. (~bound'[s] => Places(m)' = {}) /\ (~bound'[m] => Places(s)' = {})
  <2>1. CASE e = m
    BY <1>1, <1>3, <1>7, <2>1
  <2>2. CASE e = s
    BY <1>1, <1>3, <1>7, <2>2
  <2> QED
    BY <2>1, <2>2
<1> QED
  BY <1>3, <1>6, <1>9, <1>10, <1>11 DEF MapTypes

\* A message that is answered at once.
LEMMA ReceiveAnswers ==
  ASSUME wire \in [Ends -> Seq(MapMessages)], NEW e \in Ends,
         NEW replies \in Seq(MapMessages), Receive(e, replies)
  PROVE  /\ wire' \in [Ends -> Seq(MapMessages)]
         /\ Taken(e) /\ Arriving(e) \in MapMessages /\ Join(Other(e), replies)
         /\ bound[e] /\ UNCHANGED <<bound, master, changes>>
<1>1. Other(e) \in Ends /\ Other(e) # e
  BY OtherEnd
<1>2. wire' = [wire EXCEPT ![e] = Tail(@), ![Other(e)] = @ \o replies] /\ wire[e] # <<>>
  BY DEF Receive
<1>3. wire[e] \in Seq(MapMessages) /\ wire[Other(e)] \in Seq(MapMessages) /\ wire[Other(e)] \o replies \in Seq(MapMessages)
  BY <1>1, ConcatProperties
<1>4. PICK l \in Nat : l = Len(wire[e])
  BY <1>3, LenProperties
<1>5. /\ Tail(wire[e]) \in Seq(MapMessages) /\ Len(Tail(wire[e])) = l - 1 /\ l # 0
      /\ Head(wire[e]) = wire[e][1] /\ Head(wire[e]) \in MapMessages
      /\ \A i \in 1 .. l - 1 : Tail(wire[e])[i] = wire[e][i + 1]
  BY <1>2, <1>3, <1>4, HeadTailProperties, EmptySeq
<1>6. /\ wire' \in [Ends -> Seq(MapMessages)]
      /\ wire'[e] = Tail(wire[e]) /\ wire'[Other(e)] = wire[Other(e)] \o replies
  BY <1>1, <1>2, <1>3, <1>5
<1>7. Places(e) = 1 .. l /\ Places(e)' = 1 .. l - 1
  BY <1>4, <1>5, <1>6 DEF Places
<1>8. /\ 1 \in 1 .. l
      /\ \A i \in 1 .. l - 1 : i \in Nat \ {0} /\ i + 1 \in 1 .. l
      /\ \A j \in 1 .. l : j \in Nat /\ 1 <= j /\ (j # 1 => j - 1 \in 1 .. l - 1 /\ (j - 1) + 1 = j)
  BY <1>5
<1>9. \A i \in Places(e)' : wire'[e][i] = wire[e][i + 1]
  BY <1>5, <1>6, <1>7
<1>10. Taken(e)
  BY <1>5, <1>7, <1>8, <1>9 DEF Taken, Arriving
<1>11. Join(Other(e), replies)
  BY <1>1, <1>6, JoinedAt
<1> QED
  BY <1>5, <1>6, <1>10, <1>11 DEF Receive, Arriving

\* What the types need of a message that is received.
Stores(e) ==
  entries' = entries \/ \E x \in Keys, v \in Values \union {None} : entries' = [entries EXCEPT ![e][x] = v]

Received(m, s, e, replies) ==
  /\ Taken(e) /\ wire' \in [Ends -> Seq(MapMessages)] /\ bound' = bound /\ bound[e]
  /\ e = s => Join(m, replies)
  /\ e = m => wire'[s] = wire[s]
  /\ \A i \in 1 .. Len(replies) : replies[i].op = "ack"
  /\ Stores(e)
  /\ next_version' = next_version /\ pendingForAck' \in [Keys -> Nat]

LEMMA ReceiveTypes ==
  ASSUME NEW m \in Ends, NEW s \in Ends, m # s, \A g \in Ends : g = m \/ g = s, MapTypes(m, s),
         NEW e \in Ends, NEW replies, Received(m, s, e, replies)
  PROVE  MapTypes(m, s)'
<1>0. /\ Taken(e) /\ wire' \in [Ends -> Seq(MapMessages)] /\ bound' = bound /\ bound[e]
      /\ e = s => Join(m, replies)
      /\ e = m => wire'[s] = wire[s]
      /\ \A i \in 1 .. Len(replies) : replies[i].op = "ack"
      /\ Stores(e)
      /\ next_version' = next_version /\ pendingForAck' \in [Keys -> Nat]
  BY DEF Received
<1>1. /\ bound \in [Ends -> BOOLEAN] /\ next_version \in Nat
      /\ entries \in [Ends -> [Keys -> Values \union {None}]]
      /\ \A g \in Ends : IsFiniteSet({k \in Keys : entries[g][k] # None})
      /\ \A i \in Places(s) : wire[s][i].op = "change" /\ wire[s][i].version # 0
      /\ \A i \in Places(m) : wire[m][i].op = "change" => wire[m][i].version = 0
      /\ ~bound[s] => Places(m) = {}
      /\ ~bound[m] => Places(s) = {}
  BY DEF MapTypes
<1>2. /\ entries' \in [Ends -> [Keys -> Values \union {None}]]
      /\ \A g \in Ends : IsFiniteSet({k \in Keys : entries'[g][k] # None})
  <2>1. CASE entries' = entries
    BY <1>1, <2>1
  <2>2. CASE entries' # entries
    <3>1. PICK x \in Keys, v \in Values \union {None} : entries' = [entries EXCEPT ![e][x] = v]
      BY <1>0, <2>2 DEF Stores
    <3>2. PICK f \in [Keys -> Values \union {None}] : f = [entries[e] EXCEPT ![x] = v]
      BY <1>1
    <3>3. entries'[e] = f /\ \A g \in Ends : g # e => entries'[g] = entries[g]
      BY <1>1, <3>1, <3>2
    <3>4. entries' \in [Ends -> [Keys -> Values \union {None}]]
      BY <1>1, <3>1
    <3>5. IsFiniteSet({k \in Keys : f[k] # None})
      <4>1. Finite(entries[e]) /\ \A k \in Keys : k # x => f[k] = entries[e][k]
        BY <1>1, <3>2 DEF Finite
      <4>2. Finite(f)
        BY <4>1, FewEntries
      <4> QED
        BY <4>2 DEF Finite
    <3>6. ASSUME NEW g \in Ends PROVE IsFiniteSet({k \in Keys : entries'[g][k] # None})
      <4>1. CASE g = e
        <5>1. entries'[g] = f
          BY <3>3, <4>1
        <5> QED
          BY <3>5, <5>1
      <4>2. CASE g # e
        <5>1. entries'[g] = entries[g]
          BY <3>3, <4>2
        <5> QED
          BY <1>1, <5>1
      <4> QED
        BY <4>1, <4>2
    <3> QED
      BY <3>4, <3>6
  <2> QED
    BY <2>1, <2>2
<1>3. \A i \in Places(e)' : i + 1 \in Places(e) /\ wire'[e][i] = wire[e][i + 1]
  BY <1>0 DEF Taken
<1>4. \A i \in Places(s)' : wire'[s][i].op = "change" /\ wire'[s][i].version # 0
  <2>1. CASE e = s
    BY <1>1, <1>3, <2>1
  <2>2. CASE e = m
    <3>1. wire'[s] = wire[s] /\ Places(s)' = Places(s)
      BY <1>0, <2>2 DEF Places
    <3> QED
      BY <1>1, <3>1
  <2> QED
    BY <2>1, <2>2
<1>5. ASSUME NEW j \in Places(m)', wire'[m][j].op = "change" PROVE wire'[m][j].version = 0
  <2>1. CASE e = m
    <3>1. j + 1 \in Places(m) /\ wire'[m][j] = wire[m][j + 1]
      BY <1>3, <2>1
    <3>2. PICK i \in Places(m) : wire'[m][j] = wire[m][i]
      BY <3>1
    <3> QED
      BY <1>1, <1>5, <3>2
  <2>2. CASE e = s
    <3>1. \/ j \in Places(m) /\ wire'[m][j] = wire[m][j]
          \/ \E i \in 1 .. Len(replies) : wire'[m][j] = replies[i]
      <4>1. Join(m, replies)
        BY <1>0, <2>2
      <4> HIDE <1>0
      <4> QED
        BY <4>1 DEF Join
    <3>2. ~\E i \in 1 .. Len(replies) : wire'[m][j] = replies[i]
      BY <1>0, <1>5
    <3> QED
      BY <1>1, <1>5, <3>1, <3>2
  <2> QED
    BY <2>1, <2>2
<1>6. bound'[m] /\ bound'[s]
  <2>1. Places(e) # {}
    BY <1>0 DEF Taken
  <2> QED
    BY <1>0, <1>1, <2>1
<1> QED
  BY <1>0, <1>1, <1>2, <1>4, <1>5, <1>6 DEF MapTypes

\* on_wire_received of an acknowledgement
LEMMA AckKeeps ==
  ASSUME NEW m \in Ends, NEW s \in Ends, MapEnds(m, s), m # s, Other(m) = s, Other(s) = m,
         \A g \in Ends : g = m \/ g = s, MapTypes(m, s),
         NEW e \in Ends, Arriving(e).op = "ack", ReceiveAck(e, Arriving(e))
  PROVE  /\ MapTypes(m, s)' /\ lost \subseteq lost' /\ master' = master
         /\ \A k \in Keys \ lost' : Tracked(m, s, k) => Tracked(m, s, k)'
<1>1. /\ wire \in [Ends -> Seq(MapMessages)]
      /\ pendingForAck \in [Keys -> Nat]
      /\ \A i \in Places(s) : wire[s][i].op = "change"
      /\ ~bound[s] => Places(m) = {}
  BY DEF MapTypes
<1>2. PICK msg : msg = Arriving(e)
  OBVIOUS
<1>3. /\ wire' \in [Ends -> Seq(MapMessages)] /\ wire'[Other(e)] = wire[Other(e)]
      /\ Taken(e) /\ msg \in MapMessages
      /\ bound[e] /\ UNCHANGED <<bound, master, changes>>
  BY <1>1, <1>2, ReceiveTakes DEF ReceiveAck
<1>4. 1 \in Places(e) /\ msg = wire[e][1] /\ msg.op = "ack" /\ msg.key \in Keys
  BY <1>2, <1>3 DEF Taken, MapMessages
<1>5. e = m
  BY <1>1, <1>4
<1>6. PICK found \in Found :
        /\ pendingForAck' = IF msg.key \in found /\ pendingForAck[msg.key] = msg.version
                            THEN [pendingForAck EXCEPT ![msg.key] = 0] ELSE pendingForAck
        /\ lost' = lost \union ({msg.key} \intersect NotFound(found))
  BY <1>2 DEF ReceiveAck
<1>7. entries' = entries /\ next_version' = next_version
  BY DEF ReceiveAck
<1>8. pendingForAck' \in [Keys -> Nat]
  BY <1>1, <1>4, <1>6
<1>9. MapTypes(m, s)'
  <2>1. PICK none : none = <<>>
    OBVIOUS
  <2>2. \A i \in 1 .. Len(none) : none[i].op = "ack"
    BY <2>1
  <2>3. Stores(e)
    BY <1>7 DEF Stores
  <2>4. /\ pendingForAck' \in [Keys -> Nat] /\ next_version' = next_version /\ bound' = bound
        /\ (e = s => Join(m, none)) /\ (e = m => wire'[s] = wire[s])
    BY <1>3, <1>5, <1>7, <1>8
  <2> QED
    <3>1. Received(m, s, e, none)
      BY <1>3, <2>2, <2>3, <2>4 DEF Received
    <3> QED
      BY <3>1, ReceiveTypes
<1>10. ASSUME NEW k \in Keys \ lost', Tracked(m, s, k) PROVE Tracked(m, s, k)'
  <2>1. Carried(s, "change", k, 0)
    BY <1>1, <1>3, <1>5, CarriedWhenStill
  <2>2. Carried(m, "change", k, 1)
    <3>1. ~Says(m, "change", k, 1)
      BY <1>4, <1>5 DEF Says
    <3> QED
      BY <1>3, <1>5, <3>1, CarriedWhenTaken
  <2>3. /\ entries' = entries /\ bound' = bound /\ Told(m, k)' = Told(m, k) /\ Told(s, k)' = Told(s, k)
    BY <1>3, <1>7 DEF Told
  <2>4. CASE msg.key # k
    <3>1. Carried(m, "ack", k, 1)
      <4>1. ~Says(m, "ack", k, 1)
        BY <1>4, <1>5, <2>4 DEF Says
      <4> QED
        BY <1>3, <1>5, <4>1, CarriedWhenTaken
    <3>2. pendingForAck'[k] = pendingForAck[k]
      BY <1>1, <1>4, <1>6, <2>4
    <3> QED
      BY <1>1, <1>3, <1>10, <2>1, <2>2, <2>3, <3>1, <3>2, TrackedCarried
  <2>5. CASE msg.key = k
    <3>1. Says(m, "ack", k, 1) /\ 1 \in Places(m)
      BY <1>4, <1>5, <2>5 DEF Says
    <3>2. Acked(m, s, k)
      BY <1>10, <3>1 DEF Tracked, Settled, Offered, Silent
    <3>3. PICK p \in Places(m) : /\ OnlyAt(m, "ack", k, p) /\ wire[m][p].version = pendingForAck[k]
                                 /\ WillAgree(m, s, k, p)
      BY <3>2 DEF Acked
    <3>4. p = 1 /\ \A i \in Places(m) : Says(m, "ack", k, i) => i = 1
      BY <3>1, <3>3 DEF OnlyAt
    <3>5. msg.version = pendingForAck[k] /\ pendingForAck[k] # 0 /\ Silent(s, "change", k)
      BY <1>4, <1>5, <3>2, <3>3, <3>4 DEF Acked
    <3>6. k \in found
      BY <1>6, <1>10, <2>5, <3>5 DEF Found, NotFound
    <3>7. pendingForAck'[k] = 0
      BY <1>1, <1>6, <2>5, <3>5, <3>6
    <3>8. Silent(m, "ack", k)'
      <4>1. ASSUME NEW i \in Places(m)', Says(m, "ack", k, i)' PROVE FALSE
        <5>1. i \in Nat \ {0} /\ i + 1 \in Places(m) /\ wire'[m][i] = wire[m][i + 1]
          BY <1>3, <1>5 DEF Taken
        <5>2. Says(m, "ack", k, i + 1)
          BY <4>1, <5>1 DEF Says
        <5> QED
          BY <3>4, <5>1, <5>2
      <4> QED
        BY <4>1 DEF Silent
    <3>9. Silent(s, "change", k)'
      BY <2>1, <3>5, SilentCarried
    <3>10. WillAgree(m, s, k, 0)'
      <4>1. 1 \in Nat /\ 0 \in Int /\ 0 = 1 - 1 /\ 1 \in {0, 1} /\ WillAgree(m, s, k, 1)
        BY <3>3, <3>4
      <4>2. entries'[s][k] = entries[s][k]
        BY <2>3
      <4> QED
        BY <1>1, <1>3, <2>2, <2>3, <4>1, <4>2, WillAgreeCarried
    <3> QED
      BY <3>7, <3>8, <3>9, <3>10 DEF Settled, Tracked
  <2> QED
    BY <2>4, <2>5
<1> QED
  BY <1>3, <1>6, <1>9, <1>10

\* on_wire_received of a change at the slave, which accepts and acknowledges it.
LEMMA SlaveAccepts ==
  ASSUME NEW m \in Ends, NEW s \in Ends, MapEnds(m, s), m # s, Other(m) = s, Other(s) = m,
         \A g \in Ends : g = m \/ g = s, MapTypes(m, s), ReceiveChange(s, Arriving(s))
  PROVE  /\ MapTypes(m, s)' /\ lost \subseteq lost' /\ master' = master
         /\ \A k \in Keys \ lost' : Tracked(m, s, k) => Tracked(m, s, k)'
<1>1. /\ wire \in [Ends -> Seq(MapMessages)]
      /\ entries \in [Ends -> [Keys -> Values \union {None}]]
      /\ pendingForAck \in [Keys -> Nat]
      /\ \A i \in Places(s) : wire[s][i].version # 0
  BY DEF MapTypes
<1>2. PICK msg : msg = Arriving(s)
  OBVIOUS
<1>3. wire[s] # <<>> /\ wire[s] \in Seq(MapMessages)
  BY <1>1 DEF ReceiveChange, Receive
<1>4. 1 \in Places(s) /\ msg = wire[s][1] /\ msg \in MapMessages
  <2>1. Len(wire[s]) \in Nat \ {0} /\ Head(wire[s]) = wire[s][1] /\ Head(wire[s]) \in MapMessages
    BY <1>3, HeadTailProperties, EmptySeq, LenProperties
  <2> QED
    BY <1>2, <2>1 DEF Places, Arriving
<1>5. msg.version \in Nat \ {0} /\ msg.key \in Keys /\ msg.value \in Values \union {None}
  BY <1>1, <1>4 DEF MapMessages
<1>6. PICK reply : reply = [op |-> "ack", key |-> msg.key, value |-> None, version |-> msg.version]
  OBVIOUS
<1>7. reply \in MapMessages /\ reply.op = "ack" /\ reply.key = msg.key /\ reply.version = msg.version
  BY <1>5, <1>6 DEF MapMessages
<1>8. <<reply>> \in Seq(MapMessages) /\ Len(<<reply>>) = 1 /\ <<reply>>[1] = reply
  BY <1>7
<1>9. Receive(s, <<reply>>)
  BY <1>2, <1>5, <1>6 DEF ReceiveChange
<1>10. /\ wire' \in [Ends -> Seq(MapMessages)] /\ Taken(s) /\ Join(m, <<reply>>)
       /\ bound[s] /\ UNCHANGED <<bound, master, changes>>
  BY <1>1, <1>8, <1>9, ReceiveAnswers
<1>11. /\ entries' = [entries EXCEPT ![s][msg.key] = msg.value] /\ lost' = lost
       /\ next_version' = next_version /\ pendingForAck' = pendingForAck
  BY <1>2, <1>5 DEF ReceiveChange, Accepts, MapEnds
<1>12. /\ entries'[m] = entries[m] /\ entries'[s][msg.key] = msg.value
       /\ \A k \in Keys : k # msg.key => entries'[s][k] = entries[s][k]
  BY <1>1, <1>5, <1>11
<1>13. MapTypes(m, s)'
  <2>1. \A i \in 1 .. Len(<<reply>>) : <<reply>>[i].op = "ack"
    BY <1>7, <1>8
  <2>2. Stores(s)
    BY <1>5, <1>11 DEF Stores
  <2>3. pendingForAck' \in [Keys -> Nat] /\ bound' = bound /\ (s = m => wire'[s] = wire[s])
    BY <1>1, <1>10, <1>11
  <2> QED
    <3>1. Received(m, s, s, <<reply>>)
      BY <1>10, <1>11, <2>1, <2>2, <2>3 DEF Received
    <3> QED
      BY <3>1, ReceiveTypes
<1>14. ASSUME NEW k \in Keys \ lost', Tracked(m, s, k) PROVE Tracked(m, s, k)'
  <2>1. Carried(m, "change", k, 0)
    BY <1>7, <1>8, <1>10, CarriedByJoin
  <2>2. bound' = bound /\ Told(m, k)' = Told(m, k)
    BY <1>10, <1>12 DEF Told
  <2>3. CASE msg.key # k
    <3>1. Carried(m, "ack", k, 0)
      BY <1>7, <1>8, <1>10, <2>3, CarriedByJoin
    <3>2. Carried(s, "change", k, 1)
      <4>1. ~Says(s, "change", k, 1)
        BY <1>4, <2>3 DEF Says
      <4> QED
        BY <1>10, <4>1, CarriedWhenTaken
    <3>3. /\ entries'[s][k] = entries[s][k] /\ entries'[m][k] = entries[m][k]
          /\ pendingForAck'[k] = pendingForAck[k]
      BY <1>11, <1>12, <2>3
    <3>4. Told(s, k)' = Told(s, k)
      BY <2>2, <3>3 DEF Told
    <3>5. 0 \in {0, 1} /\ 1 \in {0, 1}
      OBVIOUS
    <3> QED
      BY <1>1, <1>10, <1>14, <2>1, <2>2, <3>1, <3>2, <3>3, <3>4, <3>5, TrackedCarried
  <2>4. CASE msg.key = k
    <3>1. Says(s, "change", k, 1) /\ 1 \in Places(s)
      <4>1. wire[s][1].op = "change"
        BY <1>4 DEF MapTypes
      <4> QED
        BY <1>4, <2>4, <4>1 DEF Says
    <3>2. Offered(m, s, k)
      BY <1>14, <3>1 DEF Tracked, Settled, Acked, Silent
    <3>3. PICK p \in Places(s) : /\ OnlyAt(s, "change", k, p) /\ wire[s][p].version = pendingForAck[k]
                                 /\ wire[s][p].value = entries[m][k]
      BY <3>2 DEF Offered
    <3>4. p = 1 /\ \A i \in Places(s) : Says(s, "change", k, i) => i = 1
      BY <3>1, <3>3 DEF OnlyAt
    <3>5. /\ msg.version = pendingForAck[k] /\ msg.value = entries[m][k]
          /\ pendingForAck[k] # 0 /\ bound[m] /\ Silent(m, "ack", k)
      BY <1>4, <3>2, <3>3, <3>4 DEF Offered
    <3>6. Silent(s, "change", k)'
      <4>1. ASSUME NEW i \in Places(s)', Says(s, "change", k, i)' PROVE FALSE
        <5>1. i \in Nat \ {0} /\ i + 1 \in Places(s) /\ wire'[s][i] = wire[s][i + 1]
          BY <1>10 DEF Taken
        <5>2. Says(s, "change", k, i + 1)
          BY <4>1, <5>1 DEF Says
        <5> QED
          BY <3>4, <5>1, <5>2
      <4> QED
        BY <4>1 DEF Silent
    <3>7. PICK q \in Nat : /\ q \in Places(m)' /\ wire'[m][q] = reply
                           /\ \A j \in Places(m)' : j \in Nat /\ (j = q \/ (j \in Places(m) /\ wire'[m][j] = wire[m][j] /\ j < q))
      <4>1. PICK l \in Nat :
              /\ \A i \in Places(m) : i \in Places(m)' /\ wire'[m][i] = wire[m][i] /\ i \in Nat /\ i <= l
              /\ \A i \in 1 .. Len(<<reply>>) : l + i \in Places(m)' /\ wire'[m][l + i] = <<reply>>[i]
              /\ \A j \in Places(m)' : j \in Nat /\ (j \in Places(m) \/ \E i \in 1 .. Len(<<reply>>) : j = l + i)
        BY <1>10 DEF Join
      <4>2. 1 \in 1 .. Len(<<reply>>) /\ \A i \in 1 .. Len(<<reply>>) : i = 1
        BY <1>8
      <4>3. l + 1 \in Places(m)' /\ wire'[m][l + 1] = reply
        BY <1>8, <4>1, <4>2
      <4>4. \A j \in Places(m)' : j \in Nat /\ (j = l + 1 \/ (j \in Places(m) /\ wire'[m][j] = wire[m][j] /\ j < l + 1))
        BY <4>1, <4>2
      <4> QED
        BY <4>3, <4>4
    <3>8. OnlyAt(m, "ack", k, q)'
      <4>1. Says(m, "ack", k, q)'
        BY <1>7, <2>4, <3>7 DEF Says
      <4>2. ASSUME NEW j \in Places(m)', Says(m, "ack", k, j)' PROVE j = q
        <5>1. CASE j # q
          <6>1. j \in Places(m) /\ Says(m, "ack", k, j)
            BY <3>7, <4>2, <5>1 DEF Says
          <6> QED
            BY <3>5, <6>1 DEF Silent
        <5> QED
          BY <5>1
      <4> QED
        BY <3>7, <4>1, <4>2 DEF OnlyAt
    <3>9. WillAgree(m, s, k, q)'
      <4>1. \A j \in Places(m)' : ~(q < j)
        BY <3>7
      <4>2. Told(s, k)' = Told(m, k)'
        BY <1>10, <1>12, <2>2, <2>4, <3>5 DEF Told
      <4> QED
        BY <4>1, <4>2 DEF WillAgree
    <3>10. wire'[m][q].version = pendingForAck'[k] /\ pendingForAck'[k] # 0 /\ bound'[m] /\ bound'[s]
      BY <1>7, <1>10, <1>11, <2>2, <3>5, <3>7
    <3> QED
      BY <3>6, <3>7, <3>8, <3>9, <3>10 DEF Acked, Tracked
  <2> QED
    BY <2>3, <2>4
<1> QED
  BY <1>10, <1>11, <1>13, <1>14

\* on_wire_received of a change at the master, which refuses it while a change
\* of its own is pending.
LEMMA MasterDecides ==
  ASSUME NEW m \in Ends, NEW s \in Ends, MapEnds(m, s), m # s, Other(m) = s, Other(s) = m,
         \A g \in Ends : g = m \/ g = s, MapTypes(m, s),
         Arriving(m).op = "change", ReceiveChange(m, Arriving(m))
  PROVE  /\ MapTypes(m, s)' /\ lost \subseteq lost' /\ master' = master
         /\ \A k \in Keys \ lost' : Tracked(m, s, k) => Tracked(m, s, k)'
<1>1. /\ wire \in [Ends -> Seq(MapMessages)]
      /\ entries \in [Ends -> [Keys -> Values \union {None}]]
      /\ pendingForAck \in [Keys -> Nat]
      /\ \A i \in Places(m) : wire[m][i].op = "change" => wire[m][i].version = 0
      /\ ~bound[s] => Places(m) = {}
  BY DEF MapTypes
<1>2. PICK msg : msg = Arriving(m)
  OBVIOUS
<1>3. wire[m] # <<>> /\ wire[m] \in Seq(MapMessages)
  BY <1>1 DEF ReceiveChange, Receive
<1>4. 1 \in Places(m) /\ msg = wire[m][1] /\ msg \in MapMessages
  <2>1. Len(wire[m]) \in Nat \ {0} /\ Head(wire[m]) = wire[m][1] /\ Head(wire[m]) \in MapMessages
    BY <1>3, HeadTailProperties, EmptySeq, LenProperties
  <2> QED
    BY <1>2, <2>1 DEF Places, Arriving
<1>5. msg.op = "change" /\ msg.version = 0 /\ msg.key \in Keys /\ msg.value \in Values \union {None}
  BY <1>1, <1>2, <1>4 DEF MapMessages
<1>6. Receive(m, <<>>)
  BY <1>2, <1>5 DEF ReceiveChange
<1>7. /\ wire' \in [Ends -> Seq(MapMessages)] /\ wire'[s] = wire[s] /\ Taken(m)
      /\ bound[m] /\ UNCHANGED <<bound, master, changes>>
  BY <1>1, <1>6, ReceiveTakes
<1>8. PICK found \in Found :
        /\ entries' = IF msg.key \notin found THEN [entries EXCEPT ![m][msg.key] = msg.value] ELSE entries
        /\ lost' = lost \union ({msg.key} \intersect NotFound(found))
  BY <1>2, <1>5 DEF ReceiveChange, Accepts, MapEnds
<1>9. next_version' = next_version /\ pendingForAck' = pendingForAck
  BY DEF ReceiveChange
<1>10. /\ entries'[s] = entries[s]
       /\ entries'[m][msg.key] = IF msg.key \notin found THEN msg.value ELSE entries[m][msg.key]
       /\ \A k \in Keys : k # msg.key => entries'[m][k] = entries[m][k]
  BY <1>1, <1>5, <1>8
<1>11. bound[s] /\ bound' = bound
  BY <1>1, <1>4, <1>7
<1>12. MapTypes(m, s)'
  <2>1. Stores(m)
    BY <1>5, <1>8 DEF Stores
  <2>2. PICK none : none = <<>>
    OBVIOUS
  <2>3. \A i \in 1 .. Len(none) : none[i].op = "ack"
    BY <2>2
  <2>4. /\ pendingForAck' \in [Keys -> Nat] /\ next_version' = next_version /\ bound' = bound
        /\ (m = s => Join(m, none)) /\ (m = m => wire'[s] = wire[s])
    BY <1>1, <1>7, <1>9, <1>11
  <2> QED
    <3>1. Received(m, s, m, none)
      BY <1>7, <2>1, <2>3, <2>4 DEF Received
    <3> QED
      BY <3>1, ReceiveTypes
<1>13. ASSUME NEW k \in Keys \ lost', Tracked(m, s, k) PROVE Tracked(m, s, k)'
  <2>1. Carried(s, "change", k, 0)
    BY <1>1, <1>7, CarriedWhenStill
  <2>2. Carried(m, "ack", k, 1)
    <3>1. ~Says(m, "ack", k, 1)
      BY <1>4, <1>5 DEF Says
    <3> QED
      BY <1>7, <3>1, CarriedWhenTaken
  <2>3. Told(s, k)' = Told(s, k) /\ Told(s, k) = entries[s][k] /\ pendingForAck'[k] = pendingForAck[k]
    BY <1>9, <1>10, <1>11 DEF Told
  <2>4. CASE msg.key # k
    <3>1. Carried(m, "change", k, 1)
      <4>1. ~Says(m, "change", k, 1)
        BY <1>4, <2>4 DEF Says
      <4> QED
        BY <1>7, <4>1, CarriedWhenTaken
    <3>2. entries'[s][k] = entries[s][k] /\ entries'[m][k] = entries[m][k]
      BY <1>10, <2>4
    <3>3. Told(m, k)' = Told(m, k)
      BY <1>11, <3>2 DEF Told
    <3>4. 0 \in {0, 1} /\ 1 \in {0, 1}
      OBVIOUS
    <3> QED
      BY <1>1, <1>7, <1>11, <1>13, <2>1, <2>2, <2>3, <3>1, <3>2, <3>3, <3>4, TrackedCarried
  <2>5. CASE msg.key = k
    <3>1. k \in found <=> pendingForAck[k] # 0
      BY <1>8, <1>13, <2>5 DEF Found, NotFound
    <3>2. Says(m, "change", k, 1) /\ wire[m][1].value = msg.value
      BY <1>4, <1>5, <2>5 DEF Says
    <3>3. /\ \A i \in Places(m)' : i \in Nat \ {0} /\ i + 1 \in Places(m) /\ wire'[m][i] = wire[m][i + 1]
          /\ \A j \in Places(m) : /\ j \in Nat /\ 1 <= j
                                  /\ j # 1 => j - 1 \in Places(m)' /\ wire'[m][j - 1] = wire[m][j]
      BY <1>7 DEF Taken
    <3>4. /\ \A i \in Places(m)' : Says(m, "change", k, i)' <=> Says(m, "change", k, i + 1)
          /\ \A j \in Places(m) : j # 1 => (Says(m, "change", k, j) <=> Says(m, "change", k, j - 1)')
      BY <3>3 DEF Says
    <3>5. ASSUME NEW p \in Nat, NEW q \in Int, q = p - 1 \/ (p = 0 /\ q = 0), WillAgree(m, s, k, p),
                 NEW i \in Places(m)', q < i, Says(m, "change", k, i)',
                 \A j \in Places(m)' : i < j => ~Says(m, "change", k, j)'
          PROVE  wire'[m][i].value = entries'[s][k]
      <4>1. i + 1 \in Places(m) /\ Says(m, "change", k, i + 1) /\ p < i + 1
        BY <3>3, <3>4, <3>5
      <4>2. ASSUME NEW j \in Places(m), i + 1 < j, Says(m, "change", k, j) PROVE FALSE
        <5>1. j # 1 /\ i < j - 1
          BY <3>3, <4>2
        <5>2. j - 1 \in Places(m)' /\ Says(m, "change", k, j - 1)'
          BY <3>3, <3>4, <4>2, <5>1
        <5> QED
          BY <3>5, <5>1, <5>2
      <4>3. wire[m][i + 1].value = entries[s][k]
        BY <3>5, <4>1, <4>2 DEF WillAgree
      <4> QED
        BY <1>10, <3>3, <4>3
    <3>6. CASE Settled(m, s, k)
      <4>1. entries'[m][k] = msg.value /\ pendingForAck'[k] = 0
        BY <1>10, <2>3, <2>5, <3>1, <3>6 DEF Settled
      <4>2. WillAgree(m, s, k, 0)
        BY <3>6 DEF Settled
      <4>3. ASSUME \A i \in Places(m)' : 0 < i => ~Says(m, "change", k, i)'
            PROVE  Told(s, k)' = Told(m, k)'
        <5>1. ASSUME NEW j \in Places(m), 1 < j, Says(m, "change", k, j) PROVE FALSE
          <6>1. j # 1 /\ 0 < j - 1
            BY <3>3, <5>1
          <6>2. j - 1 \in Places(m)' /\ Says(m, "change", k, j - 1)'
            BY <3>3, <3>4, <5>1, <6>1
          <6> QED
            BY <4>3, <6>1, <6>2
        <5>2. msg.value = entries[s][k]
          BY <1>4, <3>2, <4>2, <5>1 DEF WillAgree
        <5>3. Told(m, k)' = entries'[m][k]
          BY <1>7 DEF Told
        <5> QED
          BY <2>3, <4>1, <5>2, <5>3
      <4>4. WillAgree(m, s, k, 0)'
        <5>1. ASSUME NEW i \in Places(m)', 0 < i, Says(m, "change", k, i)',
                     \A j \in Places(m)' : i < j => ~Says(m, "change", k, j)'
              PROVE  wire'[m][i].value = entries'[s][k]
          BY <3>5, <4>2, <5>1
        <5> QED
          BY <4>3, <5>1 DEF WillAgree
      <4>5. Silent(s, "change", k)' /\ Silent(m, "ack", k)'
        BY <2>1, <2>2, <3>6, SilentCarried DEF Settled
      <4> QED
        BY <4>1, <4>4, <4>5 DEF Settled, Tracked
    <3>7. CASE ~Settled(m, s, k)
      <4>1. pendingForAck[k] # 0
        BY <1>13, <3>7 DEF Tracked, Offered, Acked
      <4>2. entries'[m][k] = entries[m][k]
        BY <1>10, <2>5, <3>1, <4>1
      <4>3. Told(m, k)' = Told(m, k)
        BY <1>11, <4>2 DEF Told
      <4>4. CASE Offered(m, s, k)
        <5>1. PICK p \in Places(s) : /\ OnlyAt(s, "change", k, p) /\ wire[s][p].version = pendingForAck[k]
                                     /\ wire[s][p].value = entries[m][k]
          BY <4>4 DEF Offered
        <5>2. 0 \in {0, 1} /\ OnlyAt(s, "change", k, p - 0)' /\ wire'[s][p - 0] = wire[s][p]
          BY <1>1, <1>7, <2>1, <5>1, OnlyAtCarried
        <5>3. Silent(m, "ack", k)'
          BY <2>2, <4>4, SilentCarried DEF Offered
        <5>4. p - 0 \in Places(s)' /\ wire'[s][p - 0].version = pendingForAck'[k]
              /\ wire'[s][p - 0].value = entries'[m][k]
          BY <2>3, <4>2, <5>1, <5>2 DEF OnlyAt
        <5> QED
          BY <1>7, <1>9, <4>1, <5>2, <5>3, <5>4 DEF Offered, Tracked
      <4>5. CASE Acked(m, s, k)
        <5>1. PICK p \in Places(m) : /\ OnlyAt(m, "ack", k, p) /\ wire[m][p].version = pendingForAck[k]
                                     /\ WillAgree(m, s, k, p)
          BY <4>5 DEF Acked
        <5>2. /\ 1 \in {0, 1} /\ p \in Nat
              /\ OnlyAt(m, "ack", k, p - 1)' /\ wire'[m][p - 1] = wire[m][p]
          BY <1>1, <1>7, <2>2, <5>1, OnlyAtCarried
        <5>3. p # 1 /\ p - 1 \in Int
          BY <1>4, <1>5, <5>1, <5>2 DEF OnlyAt, Says
        <5>4. ASSUME \A i \in Places(m)' : p - 1 < i => ~Says(m, "change", k, i)'
              PROVE  Told(s, k)' = Told(m, k)'
          <6>1. ASSUME NEW j \in Places(m), p < j, Says(m, "change", k, j) PROVE FALSE
            <7>1. j # 1 /\ p - 1 < j - 1
              BY <3>3, <5>2, <6>1
            <7>2. j - 1 \in Places(m)' /\ Says(m, "change", k, j - 1)'
              BY <3>3, <3>4, <6>1, <7>1
            <7> QED
              BY <5>4, <7>1, <7>2
          <6>2. Told(s, k) = Told(m, k)
            BY <5>1, <6>1 DEF WillAgree
          <6> QED
            BY <2>3, <4>3, <6>2
        <5>5. WillAgree(m, s, k, p - 1)'
          <6>1. ASSUME NEW i \in Places(m)', p - 1 < i, Says(m, "change", k, i)',
                       \A j \in Places(m)' : i < j => ~Says(m, "change", k, j)'
                PROVE  wire'[m][i].value = entries'[s][k]
            BY <3>5, <5>1, <5>2, <5>3, <6>1
          <6> QED
            BY <5>4, <6>1 DEF WillAgree
        <5>6. Silent(s, "change", k)'
          BY <2>1, <4>5, SilentCarried DEF Acked
        <5>7. p - 1 \in Places(m)' /\ wire'[m][p - 1].version = pendingForAck'[k]
          BY <2>3, <5>1, <5>2 DEF OnlyAt
        <5> QED
          BY <1>7, <1>9, <1>11, <4>1, <5>2, <5>5, <5>6, <5>7 DEF Acked, Tracked
      <4> QED
        BY <1>13, <3>7, <4>4, <4>5 DEF Tracked
    <3> QED
      BY <3>6, <3>7
  <2> QED
    BY <2>4, <2>5
<1> QED
  BY <1>7, <1>8, <1>12, <1>13

\* The handler of advise, at either end.
LEMMA FiresKeep ==
  ASSUME NEW m \in Ends, NEW s \in Ends, MapEnds(m, s), m # s, Other(m) = s, Other(s) = m,
         \A g \in Ends : g = m \/ g = s, MapTypes(m, s),
         NEW e \in Ends, NEW new, NEW keys, FiresAbout(e, new, keys), Fires(e, new, keys)
  PROVE  /\ MapTypes(m, s)' /\ lost \subseteq lost' /\ master' = master
         /\ \A k \in Keys \ lost' : Tracked(m, s, k) => Tracked(m, s, k)'
<1>1. master' = master
  BY FiresSends
<1>2. CASE e = m
  <2>1. /\ next_version' \in Nat /\ pendingForAck' \in [Keys -> Nat] /\ lost \subseteq lost'
        /\ \A k \in Keys \ lost' : Tracked(m, s, k) => Tracked(m, s, k)'
    BY <1>2, MasterFires
  <2>2. MapTypes(m, s)'
    BY <2>1, FiresTypes
  <2> QED
    BY <1>1, <2>1, <2>2
<1>3. CASE e = s
  <2>1. UNCHANGED <<next_version, pendingForAck, dangling, lost>>
    BY <1>3 DEF Fires, EmplacePending, MapEnds
  <2>2. next_version' \in Nat /\ pendingForAck' \in [Keys -> Nat]
    BY <2>1 DEF MapTypes
  <2>3. MapTypes(m, s)'
    BY <2>2, FiresTypes
  <2>4. ASSUME NEW k \in Keys, Tracked(m, s, k) PROVE Tracked(m, s, k)'
    BY <1>3, <2>4, SlaveFires
  <2> QED
    BY <1>1, <2>1, <2>3, <2>4
<1> QED
  BY <1>2, <1>3

\* set, remove, clear and init fire as the handler does.
LEMMA ChangesFire ==
  ASSUME NEW m \in Ends, NEW s \in Ends, MapTypes(m, s), NEW e \in Ends
  PROVE  /\ \A k \in Keys, v \in Values \union {None} :
              Fire(e, [entries[e] EXCEPT ![k] = v], <<k>>) =>
                /\ FiresAbout(e, [entries[e] EXCEPT ![k] = v], <<k>>)
                /\ Fires(e, [entries[e] EXCEPT ![k] = v], <<k>>)
         /\ MapClear(e) => /\ FiresAbout(e, [k \in Keys |-> None], Present(e))
                           /\ Fires(e, [k \in Keys |-> None], Present(e))
         /\ MapBind(e) => FiresAbout(e, entries[e], Present(e)) /\ Fires(e, entries[e], Present(e))
<1>1. /\ entries \in [Ends -> [Keys -> Values \union {None}]]
      /\ entries[e] \in [Keys -> Values \union {None}] /\ Finite(entries[e])
  BY DEF MapTypes, Finite
<1>2. \A new, keys : Change(e, Messages(e, new, keys)) => bound' = bound
  BY DEF Change
<1>3. \A new, keys : Fire(e, new, keys) => Fires(e, new, keys) /\ bound' = bound
  BY <1>2 DEF Fire, Fires
<1>4. /\ Present(e) \in Seq(Keys)
      /\ \A i, j \in 1 .. Len(Present(e)) : Present(e)[i] = Present(e)[j] => i = j
      /\ \A k \in Keys : (\A i \in 1 .. Len(Present(e)) : Present(e)[i] # k) => entries[e][k] = None
  <2>1. PICK S : S = {k \in Keys : entries[e][k] # None} /\ IsFiniteSet(S) /\ S \subseteq Keys
    BY <1>1 DEF Finite
  <2>2. PICK keys : keys = SetToSeq(S)
    OBVIOUS
  <2>3. /\ keys \in Seq(S) /\ ToSet(keys) = S
        /\ \A i, j \in 1 .. Len(keys) : keys[i] = keys[j] => i = j
    <3>1. /\ SetToSeq(S) \in Seq(S) /\ ToSet(SetToSeq(S)) = S
          /\ \A i, j \in 1 .. Len(SetToSeq(S)) : SetToSeq(S)[i] = SetToSeq(S)[j] => i = j
      BY <2>1, SetToSeqAll
    <3> QED
      BY <2>2, <3>1
  <2>4. keys \in Seq(Keys)
    BY <2>1, <2>3, SeqMonotonic
  <2>5. DOMAIN keys = 1 .. Len(keys)
    BY <2>4, LenProperties
  <2>6. ASSUME NEW k \in Keys, \A i \in 1 .. Len(keys) : keys[i] # k PROVE entries[e][k] = None
    <3>1. k \notin ToSet(keys)
      BY <2>5, <2>6 DEF ToSet
    <3> QED
      BY <2>1, <2>3, <3>1
  <2>7. Present(e) = keys
    BY <2>1, <2>2 DEF Present
  <2> QED
    BY <2>3, <2>4, <2>6, <2>7
<1>5. ASSUME NEW k \in Keys, NEW v \in Values \union {None},
             Fire(e, [entries[e] EXCEPT ![k] = v], <<k>>)
      PROVE  FiresAbout(e, [entries[e] EXCEPT ![k] = v], <<k>>)
  <2>1. PICK new : new = [entries[e] EXCEPT ![k] = v]
    OBVIOUS
  <2>2. new \in [Keys -> Values \union {None}] /\ \A x \in Keys : x # k => new[x] = entries[e][x]
    BY <1>1, <2>1
  <2>3. Finite(new)
    BY <1>1, <2>2, FewEntries
  <2>4. <<k>> \in Seq(Keys) /\ Len(<<k>>) = 1 /\ <<k>>[1] = k
    OBVIOUS
  <2>5. bound' = bound
    BY <1>3, <1>5
  <2>6. \A i, j \in 1 .. Len(<<k>>) : <<k>>[i] = <<k>>[j] => i = j
    BY <2>4
  <2>7. \A x \in Keys : (\A i \in 1 .. Len(<<k>>) : <<k>>[i] # x) => x # k
    BY <2>4
  <2>8. FiresAbout(e, new, <<k>>)
    BY <2>2, <2>3, <2>4, <2>5, <2>6, <2>7 DEF FiresAbout, Finite
  <2> QED
    BY <2>1, <2>8
<1>6. ASSUME MapClear(e) PROVE FiresAbout(e, [k \in Keys |-> None], Present(e))
  <2>1. PICK new : new = [k \in Keys |-> None]
    OBVIOUS
  <2>2. new \in [Keys -> Values \union {None}] /\ \A k \in Keys : new[k] = None
    BY <2>1
  <2>3. IsFiniteSet({k \in Keys : new[k] # None})
    <3>1. {k \in Keys : new[k] # None} = {}
      BY <2>2
    <3> QED
      BY <3>1, FS_EmptySet
  <2>4. FiresAbout(e, new, Present(e))
    BY <1>4, <2>2, <2>3 DEF FiresAbout
  <2> QED
    BY <2>1, <2>4
<1>7. ASSUME MapBind(e) PROVE FiresAbout(e, entries[e], Present(e)) /\ Fires(e, entries[e], Present(e))
  <2>1. FiresAbout(e, entries[e], Present(e))
    BY <1>1, <1>4 DEF FiresAbout, Finite
  <2>2. entries' = [entries EXCEPT ![e] = entries[e]]
    BY <1>1, <1>7 DEF MapBind
  <2> QED
    BY <1>7, <2>1, <2>2 DEF MapBind, Fires
<1>8. MapClear(e) => Fires(e, [k \in Keys |-> None], Present(e))
  BY <1>3 DEF MapClear
<1> QED
  BY <1>3, <1>5, <1>6, <1>7, <1>8

\* A step of another kind of entity, and one that changes nothing.
LEMMA MapStays ==
  ASSUME MapInv, UNCHANGED <<kind, mapVars>>, kind # "map" \/ UNCHANGED endVars
  PROVE  MapInv'
<1>1. UNCHANGED <<kind, entries, next_version, pendingForAck, lost>>
  BY DEF mapVars
<1>2. CASE kind # "map"
  BY <1>1, <1>2 DEF MapInv
<1>3. CASE UNCHANGED endVars
  <2>1. UNCHANGED <<wire, bound, master>>
    BY <1>3 DEF endVars
  <2>2. \A m, s : MapTypes(m, s)' <=> MapTypes(m, s)
    BY <1>1, <2>1 DEF MapTypes, Places
  <2>3. \A m, s, k : Tracked(m, s, k)' <=> Tracked(m, s, k)
    BY <1>1, <2>1 DEF Tracked, Settled, Offered, Acked, WillAgree, Silent, OnlyAt, Says, Told, Places
  <2> QED
    BY <1>1, <2>1, <2>2, <2>3 DEF MapInv
<1> QED
  BY <1>2, <1>3

\* For any number of changes at either end, while messages cross: of every key that
\* pendingForAck has not lost, a change of the master is on its way, or its acknowledgement
\* is, or none is pending and what the slave sends will be accepted.
THEOREM MapInvariance == Spec => []MapInv
<1>1. Init => MapInv
  <2> SUFFICES ASSUME Init PROVE MapInv
    OBVIOUS
  <2>1. /\ entries = [e \in Ends |-> [k \in Keys |-> None]] /\ wire = [e \in Ends |-> <<>>]
        /\ bound = [e \in Ends |-> kind \notin Filled] /\ master \in Ends \union {None}
        /\ next_version = 0 /\ pendingForAck = [k \in Keys |-> 0]
    BY DEF Init, MapInit, EndsInit
  <2>2. ASSUME kind = "map", NEW m \in Ends, NEW s \in Ends
        PROVE  MapTypes(m, s) /\ \A k \in Keys : Tracked(m, s, k)
    <3>1. wire \in [Ends -> Seq(MapMessages)] /\ \A e \in Ends : Places(e) = {}
      BY <2>1 DEF Places
    <3>2. \A e \in Ends : IsFiniteSet({k \in Keys : entries[e][k] # None})
      <4>1. \A e \in Ends : {k \in Keys : entries[e][k] # None} = {}
        BY <2>1
      <4> QED
        BY <4>1, FS_EmptySet
    <3>3. /\ bound \in [Ends -> BOOLEAN] /\ entries \in [Ends -> [Keys -> Values \union {None}]]
          /\ next_version \in Nat /\ pendingForAck \in [Keys -> Nat]
      BY <2>1
    <3>4. MapTypes(m, s)
      BY <3>1, <3>2, <3>3 DEF MapTypes
    <3>5. \A k \in Keys : Told(m, k) = None /\ Told(s, k) = None /\ pendingForAck[k] = 0
      BY <2>1 DEF Told
    <3>6. \A k \in Keys : Tracked(m, s, k)
      BY <3>1, <3>5 DEF Tracked, Settled, Silent, WillAgree
    <3> QED
      BY <3>4, <3>6
  <2>3. kind # "map" => \A e, f \in Ends : entries[e] = entries[f]
    BY <2>1
  <2> QED
    BY <2>1, <2>2, <2>3 DEF MapInv
<1>2. MapInv /\ [Next]_vars => MapInv'
  <2> SUFFICES ASSUME MapInv, [Next]_vars PROVE MapInv'
    OBVIOUS
  <2>1. CASE MapStep
    <3>1. kind = "map" /\ UNCHANGED kind /\ MapNext /\ master \in Ends \union {None}
      BY <2>1 DEF MapStep, MapInv
    <3>2. PICK e \in Ends :
            \/ \E k \in Keys, v \in Values : MapSet(e, k, v)
            \/ \E k \in Keys : MapRemove(e, k)
            \/ MapClear(e)
            \/ MapBind(e)
            \/ ReceiveAck(e, Arriving(e)) /\ Arriving(e).op = "ack"
            \/ ReceiveChange(e, Arriving(e)) /\ Arriving(e).op = "change"
      BY <3>1 DEF MapNext
    <3>3. master' = master
      <4>1. \A events : Change(e, events) \/ Bind(e, events) \/ Receive(e, events) => master' = master
        BY DEF Change, Bind, Receive
      <4>2. \/ \E events : Change(e, events)
            \/ \E events : Bind(e, events)
            \/ \E events : Receive(e, events)
        BY <3>2 DEF MapSet, MapRemove, MapClear, MapBind, Fire, ReceiveAck, ReceiveChange
      <4> QED
        BY <4>1, <4>2
    <3>4. ASSUME NEW m \in Ends, NEW s \in Ends, MapEnds(m, s)
          PROVE  MapTypes(m, s)' /\ \A k \in Keys \ lost' : Tracked(m, s, k)'
      <4>1. /\ MapTypes(m, s) /\ \A k \in Keys \ lost : Tracked(m, s, k)
            /\ m # s /\ Other(m) = s /\ Other(s) = m /\ \A g \in Ends : g = m \/ g = s
        BY <3>1, <3>4, MapParts DEF MapEnds
      <4>2. SUFFICES /\ MapTypes(m, s)' /\ lost \subseteq lost'
                     /\ \A k \in Keys \ lost' : Tracked(m, s, k) => Tracked(m, s, k)'
        BY <4>1
      <4>3. ASSUME NEW new, NEW keys, FiresAbout(e, new, keys), Fires(e, new, keys)
            PROVE  /\ MapTypes(m, s)' /\ lost \subseteq lost'
                   /\ \A k \in Keys \ lost' : Tracked(m, s, k) => Tracked(m, s, k)'
        BY <3>4, <4>1, <4>3, FiresKeep
      <4>4. /\ \A k \in Keys, v \in Values \union {None} :
                 Fire(e, [entries[e] EXCEPT ![k] = v], <<k>>) =>
                   /\ FiresAbout(e, [entries[e] EXCEPT ![k] = v], <<k>>)
                   /\ Fires(e, [entries[e] EXCEPT ![k] = v], <<k>>)
            /\ MapClear(e) => /\ FiresAbout(e, [k \in Keys |-> None], Present(e))
                              /\ Fires(e, [k \in Keys |-> None], Present(e))
            /\ MapBind(e) => FiresAbout(e, entries[e], Present(e)) /\ Fires(e, entries[e], Present(e))
        BY <4>1, ChangesFire
      <4>5. CASE \E k \in Keys, v \in Values : MapSet(e, k, v)
        BY <4>3, <4>4, <4>5 DEF MapSet
      <4>6. CASE \E k \in Keys : MapRemove(e, k)
        BY <4>3, <4>4, <4>6 DEF MapRemove
      <4>7. CASE MapClear(e) \/ MapBind(e)
        BY <4>3, <4>4, <4>7
      <4>8. CASE ReceiveAck(e, Arriving(e)) /\ Arriving(e).op = "ack"
        BY <3>4, <4>1, <4>8, AckKeeps
      <4>9. CASE ReceiveChange(e, Arriving(e)) /\ Arriving(e).op = "change"
        <5>1. CASE e = m
          BY <3>4, <4>1, <4>9, <5>1, MasterDecides
        <5>2. CASE e = s
          BY <3>4, <4>1, <4>9, <5>2, SlaveAccepts
        <5> QED
          BY <4>1, <5>1, <5>2
      <4> QED
        BY <3>2, <4>5, <4>6, <4>7, <4>8, <4>9
    <3> QED
      BY <3>1, <3>3, <3>4 DEF MapInv, MapEnds
  <2>2. CASE PropertyStep \/ ListStep \/ SetStep \/ InternStep
    <3>1. kind # "map" /\ UNCHANGED <<kind, mapVars>>
      BY <2>2 DEF PropertyStep, ListStep, SetStep, InternStep
    <3> QED
      BY <3>1, MapStays
  <2>3. CASE UNCHANGED vars
    <3>1. UNCHANGED <<kind, mapVars>> /\ UNCHANGED endVars
      BY <2>3 DEF vars
    <3> QED
      BY <3>1, MapStays
  <2> QED
    BY <2>1, <2>2, <2>3 DEF Next
<1> QED
  BY <1>1, <1>2, PTL DEF Spec

\* The replicas of a map with a master agree when every message has arrived, on every
\* key that pendingForAck has not lost track of, whatever changes crossed.
THEOREM MapAgrees == Spec => []MapConverges
<1>1. MapInv => MapConverges
  <2> SUFFICES ASSUME MapInv, Quiet, master # None, NEW k \in Keys \ lost, NEW e \in Ends, NEW f \in Ends
               PROVE  entries[e][k] = entries[f][k]
    BY DEF MapConverges
  <2>1. CASE kind # "map"
    BY <2>1 DEF MapInv
  <2>2. CASE kind = "map"
    <3>1. PICK m \in Ends, s \in Ends : MapEnds(m, s)
      BY <2>2, OtherEnd DEF MapInv, MapEnds
    <3>2. Tracked(m, s, k) /\ \A g \in Ends : g = m \/ g = s
      BY <2>2, <3>1, MapParts
    <3>3. \A g \in Ends : bound[g] /\ Places(g) = {}
      BY DEF Quiet, Places
    <3>4. Settled(m, s, k)
      BY <3>2, <3>3 DEF Tracked, Offered, Acked
    <3>5. Told(s, k) = Told(m, k)
      BY <3>3, <3>4 DEF Settled, WillAgree
    <3>6. entries[s][k] = entries[m][k]
      BY <3>3, <3>5 DEF Told
    <3> QED
      BY <3>2, <3>6
  <2> QED
    BY <2>1, <2>2
<1> QED
  BY <1>1, MapInvariance, PTL
===============================================================================
