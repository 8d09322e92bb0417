--------------------------- MODULE SocketWire_proofs ---------------------------
(***************************************************************************)
(* Proofs about the outbox of a socket wire, ByteBufferAsyncProcessor, for *)
(* every number of packages and every set of closing threads, and then     *)
(* about one direction of the wire, which takes each of its steps together *)
(* with one of the outbox, for every number of connections, and last about *)
(* the heartbeat of a wire, for every value of MaximumHeartbeatDelay and   *)
(* however many pings there are.                                           *)
(***************************************************************************)
EXTENDS SocketWire, Heartbeat, SequenceTheorems, TLAPS

(* The outbox.                                                             *)

\* What taking the first element off a sequence does to the others.
LEMMA TailElements ==
  ASSUME NEW s \in Seq(Nat), s # <<>>
  PROVE  /\ Tail(s) \in Seq(Nat)
         /\ Head(s) \in Nat
         /\ Head(s) = s[1]
         /\ Len(s) \in Nat \ {0}
         /\ Len(Tail(s)) = Len(s) - 1
         /\ \A i \in 1..Len(Tail(s)) : Tail(s)[i] = s[i + 1]
  BY HeadTailProperties

\* What adding an element at the end of a sequence does.
LEMMA AppendElements ==
  ASSUME NEW s \in Seq(Nat), NEW e \in Nat
  PROVE  /\ Append(s, e) \in Seq(Nat)
         /\ Len(s) \in Nat
         /\ Len(Append(s, e)) = Len(s) + 1
         /\ \A i \in 1..Len(s) : Append(s, e)[i] = s[i]
         /\ Append(s, e)[Len(s) + 1] = e
  BY AppendProperties, LenProperties

\* What concatenation does.
LEMMA ConcatElements ==
  ASSUME NEW s \in Seq(Nat), NEW t \in Seq(Nat)
  PROVE  /\ s \o t \in Seq(Nat)
         /\ Len(s) \in Nat /\ Len(t) \in Nat
         /\ Len(s \o t) = Len(s) + Len(t)
         /\ \A i \in 1..(Len(s) + Len(t)) :
              (s \o t)[i] = IF i <= Len(s) THEN s[i] ELSE t[i - Len(s)]
  BY ConcatProperties, LenProperties

-----------------------------------------------------------------------------
\* Initially every container is empty and nothing has been numbered.
LEMMA InitInvariant == Init => IInv
  BY MaxPutAssumption
  DEF Init, IInv, TypeOK, Placement, Control, NoCall, InProcess, InReprocess,
      Threads, OwnerPCs, CloserPCs, Initialized, Terminated

\* reprocess pops only what is there: the number being trimmed has been
\* acknowledged, hence handed over, and no package is half-way between queue
\* and pending while reprocess holds queue_lock.
LEMMA PopsOnlyPendingLemma == IInv => PopsOnlyPending
  <1> SUFFICES ASSUME IInv, opc = "trim", current <= acked
               PROVE  pending # <<>>
    BY DEF PopsOnlyPending
  <1>1. handed = maxSent
    BY DEF IInv, Control, InProcess, InReprocess
  <1>2. current <= maxSent
    BY <1>1 DEF IInv, TypeOK, Control
  <1>3. Len(pending) # 0
    BY <1>2 DEF IInv, TypeOK, Placement
  <1>4. QED
    BY <1>3, EmptySeq

\* Every action keeps the types.
LEMMA TypeStep == IInv /\ [Next]_vars => TypeOK'
  <1> SUFFICES ASSUME TypeOK, Placement, Control, [Next]_vars
               PROVE  TypeOK'
    BY DEF IInv
  <1> USE MaxPutAssumption
      DEF TypeOK, Threads, OwnerPCs, CloserPCs, Initialized, AsyncProcessing,
          Stopping, Terminating, Terminated, ownerVars, sendVars
  <1>1. CASE Put
    <2>1. accepted + 1 \in 0..MaxPut /\ accepted + 1 \in Nat
      BY <1>1 DEF Put
    <2>2. Append(data, accepted + 1) \in Seq(Nat)
      BY <2>1, AppendElements
    <2>3. data' \in Seq(Nat) /\ accepted' \in 0..MaxPut
      BY <1>1, <2>1, <2>2 DEF Put
    <2>4. QED
      BY <1>1, <2>3 DEF Put, Notify
  <1>2. CASE Start
    BY <1>2 DEF Start
  <1>3. ASSUME NEW c \in Closers, NEW kind \in {Stopping, Terminating},
               CloseBegin(c, kind)
        PROVE  TypeOK'
    <2>1. state' \in Initialized..Terminated /\ tpc' \in Threads
      BY <1>3 DEF CloseBegin, Notify
    <2>2. cpc' \in [Closers -> CloserPCs]
      BY <1>3 DEF CloseBegin
    <2>3. UNCHANGED <<data, sendVars, pending, current, acked, balance, ownerVars,
                      accepted, handed, lastCall>>
      BY <1>3 DEF CloseBegin
    <2>4. QED
      BY <2>1, <2>2, <2>3
  <1>4. ASSUME NEW c \in Closers, CloseEnd(c)
        PROVE  TypeOK'
    BY <1>4 DEF CloseEnd, Notify
  <1>5. CASE SpuriousWakeup
    BY <1>5 DEF SpuriousWakeup
  <1>6. CASE ThreadReturn
    BY <1>6 DEF ThreadReturn
  <1>7. CASE ThreadWait
    BY <1>7 DEF ThreadWait
  <1>8. CASE ThreadTake
    BY <1>8, ConcatElements, EmptySeq DEF ThreadTake
  <1>9. CASE ProcessBegin
    BY <1>9 DEF ProcessBegin
  <1>10. CASE ProcessRecord
    BY <1>10, AppendElements, TailElements DEF ProcessRecord, Control
  <1>11. CASE ProcessEnd
    BY <1>11 DEF ProcessEnd
  <1>12. ASSUME NEW ok \in BOOLEAN, ProcessCall(ok)
         PROVE  TypeOK'
    BY <1>12, TailElements DEF ProcessCall
  <1>13. ASSUME NEW ok \in BOOLEAN, ResendCall(ok)
         PROVE  TypeOK'
    <2>1. pending[resent + 1] \in Nat
      BY <1>13, ElementOfSeq, LenProperties DEF ResendCall
    <2>2. QED
      BY <1>13, <2>1 DEF ResendCall
  <1>14. CASE PauseBegin
    BY <1>14 DEF PauseBegin, Control
  <1>15. CASE ResumeBegin
    BY <1>15 DEF ResumeBegin
  <1>16. CASE PauseEnd
    BY <1>16 DEF PauseEnd
  <1>17. CASE ReprocessBegin
    BY <1>17 DEF ReprocessBegin
  <1>18. CASE TrimAcknowledged
    <2>1. pending # <<>>
      BY <1>18, PopsOnlyPendingLemma DEF TrimAcknowledged, PopsOnlyPending, IInv
    <2>2. QED
      BY <1>18, <2>1, TailElements DEF TrimAcknowledged
  <1>19. CASE TrimEnd
    BY <1>19 DEF TrimEnd
  <1>20. CASE ResendEnd
    BY <1>20 DEF ResendEnd
  <1>21. CASE ResumeEnd
    BY <1>21 DEF ResumeEnd, Notify, Control
  <1>22. ASSUME NEW seqn \in 1..handed, Acknowledge(seqn)
         PROVE  TypeOK'
    BY <1>22 DEF Acknowledge
  <1>23. CASE Idle
    BY <1>23 DEF Idle, vars
  <1>24. CASE UNCHANGED vars
    BY <1>24 DEF vars
  <1>25. QED
    BY <1>1, <1>2, <1>3, <1>4, <1>5, <1>6, <1>7, <1>8, <1>9, <1>10, <1>11,
       <1>12, <1>13, <1>14, <1>15, <1>16, <1>17, <1>18, <1>19, <1>20, <1>21,
       <1>22, <1>23, <1>24
    DEF Next, ThreadStep, OwnerStep

-----------------------------------------------------------------------------
\* The actions that move no package and number nothing leave Placement alone.
LEMMA PlacementFrame ==
  ASSUME Placement, UNCHANGED <<data, queue, pending, maxSent, current, accepted>>
  PROVE  Placement'
  BY DEF Placement

\* Every action keeps every package in the container its number says.
LEMMA PlacementStep == IInv /\ [Next]_vars => Placement'
  <1> SUFFICES ASSUME TypeOK, Placement, Control, [Next]_vars
               PROVE  Placement'
    BY DEF IInv
  <1>0. /\ Len(data) \in Nat /\ Len(queue) \in Nat /\ Len(pending) \in Nat
        /\ maxSent \in Nat /\ current \in Nat /\ accepted \in Nat
    BY LenProperties, MaxPutAssumption DEF TypeOK
  <1>1. CASE Put
    <2> DEFINE d == Append(data, accepted + 1)
    <2>1. /\ data' = d /\ accepted' = accepted + 1
          /\ UNCHANGED <<queue, pending, maxSent, current>>
      BY <1>1 DEF Put, sendVars
    <2>2. /\ Len(d) = Len(data) + 1
          /\ \A i \in 1..Len(data) : d[i] = data[i]
          /\ d[Len(data) + 1] = accepted + 1
      BY <1>0, AppendElements DEF TypeOK
    <2> HIDE DEF d
    <2>3. \A i \in 1..Len(d) : d[i] = maxSent + Len(queue) + i
      <3> TAKE i \in 1..Len(d)
      <3>1. CASE i \in 1..Len(data)
        BY <3>1, <2>2 DEF Placement
      <3>2. CASE i = Len(data) + 1
        <4>1. accepted + 1 = maxSent + Len(queue) + i
          BY <3>2, <1>0 DEF Placement
        <4>2. QED
          BY <3>2, <4>1, <2>2
      <3>3. QED
        BY <3>1, <3>2, <2>2, <1>0
    <2>4. QED
      BY <1>0, <2>1, <2>2, <2>3 DEF Placement
  <1>2. CASE ThreadTake
    <2> DEFINE q == queue \o data
    <2>1. /\ queue' = q /\ data' = <<>>
          /\ UNCHANGED <<pending, maxSent, current, accepted>>
      BY <1>2 DEF ThreadTake
    <2>2. /\ Len(q) = Len(queue) + Len(data)
          /\ \A i \in 1..(Len(queue) + Len(data)) :
               q[i] = IF i <= Len(queue) THEN queue[i] ELSE data[i - Len(queue)]
      BY ConcatElements DEF TypeOK
    <2>3. \A i \in 1..Len(q) : q[i] = maxSent + i
      BY <1>0, <2>2 DEF Placement
    <2>4. Len(data') = 0
      BY <2>1
    <2>5. QED
      BY <1>0, <2>1, <2>2, <2>3, <2>4 DEF Placement
  <1>3. CASE ProcessRecord
    <2> DEFINE p == Append(pending, Head(queue))
               q == Tail(queue)
    <2>1. /\ pending' = p /\ queue' = q /\ maxSent' = maxSent + 1
          /\ UNCHANGED <<data, current, accepted>>
      BY <1>3 DEF ProcessRecord
    <2>2. /\ Head(queue) = queue[1] /\ Head(queue) \in Nat
          /\ Len(queue) \in Nat \ {0}
          /\ Len(q) = Len(queue) - 1
          /\ \A i \in 1..Len(q) : q[i] = queue[i + 1]
      BY <1>3, TailElements DEF ProcessRecord, Control, TypeOK
    <2>3. queue[1] = maxSent + 1
      BY <2>2 DEF Placement
    <2>4. /\ Len(p) = Len(pending) + 1
          /\ \A i \in 1..Len(pending) : p[i] = pending[i]
          /\ p[Len(pending) + 1] = maxSent + 1
      BY <2>2, <2>3, AppendElements DEF TypeOK
    <2> HIDE DEF p, q
    <2>5. \A i \in 1..Len(p) : p[i] = current + i - 1
      BY <1>0, <2>4 DEF Placement
    <2>6. \A i \in 1..Len(q) : q[i] = (maxSent + 1) + i
      BY <1>0, <2>2 DEF Placement
    <2>7. \A i \in 1..Len(data) : data[i] = (maxSent + 1) + Len(q) + i
      BY <1>0, <2>2 DEF Placement
    <2>8. current + Len(p) = (maxSent + 1) + 1 /\ accepted = (maxSent + 1) + Len(q) + Len(data)
      BY <1>0, <2>2, <2>4 DEF Placement
    <2>9. QED
      BY <2>1, <2>5, <2>6, <2>7, <2>8 DEF Placement
  <1>4. CASE TrimAcknowledged
    <2> DEFINE p == Tail(pending)
    <2>1. /\ pending' = p /\ current' = current + 1
          /\ UNCHANGED <<data, queue, maxSent, accepted>>
      BY <1>4 DEF TrimAcknowledged, sendVars
    <2>2. pending # <<>>
      BY <1>4, PopsOnlyPendingLemma DEF TrimAcknowledged, PopsOnlyPending, IInv
    <2>3. /\ Len(pending) \in Nat \ {0}
          /\ Len(p) = Len(pending) - 1
          /\ \A i \in 1..Len(p) : p[i] = pending[i + 1]
      BY <2>2, TailElements DEF TypeOK
    <2> HIDE DEF p
    <2>4. \A i \in 1..Len(p) : p[i] = (current + 1) + i - 1
      BY <1>0, <2>3 DEF Placement
    <2>5. (current + 1) + Len(p) = maxSent + 1
      BY <1>0, <2>3 DEF Placement
    <2>6. QED
      BY <2>1, <2>4, <2>5 DEF Placement
  <1>5. CASE UNCHANGED <<data, queue, pending, maxSent, current, accepted>>
    BY <1>5, PlacementFrame
  <1>6. QED
    BY <1>1, <1>2, <1>3, <1>4, <1>5
    DEF Next, ThreadStep, OwnerStep, vars, ownerVars, sendVars, Start,
        CloseBegin, CloseEnd, SpuriousWakeup, ThreadReturn, ThreadWait,
        ProcessBegin, ProcessEnd, ProcessCall, ResendCall, PauseBegin,
        ResumeBegin, PauseEnd, ReprocessBegin, TrimEnd, ResendEnd, ResumeEnd,
        Acknowledge, Idle

-----------------------------------------------------------------------------
\* Every action keeps what the control points rely on.
LEMMA ControlStep == IInv /\ [Next]_vars => Control'
  <1> SUFFICES ASSUME TypeOK, Placement, Control, [Next]_vars
               PROVE  Control'
    BY DEF IInv
  <1>0. /\ Len(pending) \in Nat /\ maxSent \in Nat /\ current \in Nat
        /\ acked \in Nat /\ handed \in Nat /\ resent \in Nat
    BY LenProperties DEF TypeOK
  <1> USE DEF Control, InProcess, InReprocess, ownerVars, sendVars, Initialized,
              AsyncProcessing, Stopping, Terminating, Terminated
  <1>1. CASE Put
    BY <1>1 DEF Put, Notify
  <1>2. CASE Start
    BY <1>2 DEF Start, LockFree
  <1>3. ASSUME NEW c \in Closers, NEW kind \in {Stopping, Terminating},
               CloseBegin(c, kind)
        PROVE  Control'
    BY <1>3 DEF CloseBegin, Notify
  <1>4. ASSUME NEW c \in Closers, CloseEnd(c)
        PROVE  Control'
    BY <1>4 DEF CloseEnd, Notify
  <1>5. CASE SpuriousWakeup
    BY <1>5 DEF SpuriousWakeup
  <1>6. CASE ThreadReturn \/ ThreadWait \/ ThreadTake
    BY <1>6 DEF ThreadReturn, ThreadWait, ThreadTake
  <1>7. CASE ProcessBegin \/ ProcessEnd
    BY <1>7 DEF ProcessBegin, ProcessEnd
  <1>8. CASE ProcessRecord
    BY <1>8, <1>0 DEF ProcessRecord
  <1>9. ASSUME NEW ok \in BOOLEAN, ProcessCall(ok)
        PROVE  Control'
    <2>1. Head(queue) = maxSent + 1
      <3>1. queue # <<>>
        BY <1>9 DEF ProcessCall
      <3>2. Head(queue) = queue[1] /\ Len(queue) \in Nat \ {0}
        BY <3>1, TailElements DEF TypeOK
      <3>3. 1 \in 1..Len(queue)
        BY <3>2
      <3>4. QED
        BY <3>2, <3>3 DEF Placement
    <2>2. lastCall'.item = lastCall'.seqn
      BY <1>9, <2>1 DEF ProcessCall
    <2>3. UNCHANGED <<state, queue, maxSent, current, acked, opc, resent, pending, balance>>
      BY <1>9 DEF ProcessCall
    <2>4. /\ tpc = "loop" /\ queue # <<>>
          /\ \/ handed' = maxSent + 1 /\ tpc' = "sent"
             \/ handed' = handed /\ tpc' = "top"
      BY <1>9 DEF ProcessCall
    <2>5. QED
      BY <1>0, <2>2, <2>3, <2>4
  <1>10. ASSUME NEW ok \in BOOLEAN, ResendCall(ok)
         PROVE  Control'
    <2>1. pending[resent + 1] = current + resent
      <3>1. resent + 1 \in 1..Len(pending)
        BY <1>10, <1>0 DEF ResendCall
      <3>2. pending[resent + 1] = current + (resent + 1) - 1
        BY <3>1 DEF Placement
      <3>3. QED
        BY <3>2, <1>0
    <2>2. lastCall'.item = lastCall'.seqn
      BY <1>10, <2>1 DEF ResendCall
    <2>3. /\ UNCHANGED <<state, queue, maxSent, current, acked, pending, balance, tpc,
                        handed>>
          /\ opc = "resend" /\ resent < Len(pending)
          /\ \/ opc' = "resend" /\ resent' = resent + 1
             \/ opc' = "resent" /\ resent' = resent
      BY <1>10 DEF ResendCall
    <2>4. QED
      BY <1>0, <2>2, <2>3
  <1>11. CASE PauseBegin \/ PauseEnd \/ ResumeBegin \/ ReprocessBegin
    BY <1>11 DEF PauseBegin, PauseEnd, ResumeBegin, ReprocessBegin
  <1>12. CASE TrimAcknowledged
    BY <1>12, <1>0 DEF TrimAcknowledged
  <1>13. CASE TrimEnd
    BY <1>13, <1>0 DEF TrimEnd
  <1>14. CASE ResendEnd \/ ResumeEnd
    BY <1>14 DEF ResendEnd, ResumeEnd, Notify
  <1>15. ASSUME NEW seqn \in 1..handed, Acknowledge(seqn)
         PROVE  Control'
    BY <1>15, <1>0 DEF Acknowledge
  <1>16. CASE Idle
    BY <1>16 DEF Idle, vars
  <1>17. CASE UNCHANGED vars
    BY <1>17 DEF vars
  <1>18. QED
    BY <1>1, <1>2, <1>3, <1>4, <1>5, <1>6, <1>7, <1>8, <1>9, <1>10, <1>11,
       <1>12, <1>13, <1>14, <1>15, <1>16, <1>17
    DEF Next, ThreadStep, OwnerStep

-----------------------------------------------------------------------------
\* The inductive invariant holds in every reachable state.
THEOREM Invariance == Spec => []IInv
  <1>1. IInv /\ [Next]_vars => IInv'
    BY TypeStep, PlacementStep, ControlStep DEF IInv
  <1>2. QED
    BY InitInvariant, <1>1, PTL DEF Spec

\* Types: in particular interrupt_balance never leaves {0, 1}.
THEOREM TypeCorrect == Spec => []TypeOK
  BY Invariance, PTL DEF IInv

\* processor is always called with the n-th accepted package under number n.
THEOREM NumberingCorrect == Spec => []NumberedByAcceptance
  <1>1. IInv => NumberedByAcceptance
    BY DEF IInv, Control, NumberedByAcceptance
  <1>2. QED
    BY <1>1, Invariance, PTL

\* reprocess never pops an empty deque.
THEOREM PopSafe == Spec => []PopsOnlyPending
  BY PopsOnlyPendingLemma, Invariance, PTL

\* Every package that is accepted and not known to be acknowledged is held,
\* once and in order.
THEOREM NothingLost == Spec => []HeldInOrder
  <1>1. ASSUME IInv
        PROVE  HeldInOrder
    <2>0. /\ Len(data) \in Nat /\ Len(queue) \in Nat /\ Len(pending) \in Nat
          /\ maxSent \in Nat /\ current \in Nat /\ accepted \in Nat
      BY <1>1, LenProperties, MaxPutAssumption DEF IInv, TypeOK
    <2> DEFINE pq == pending \o queue
    <2>1. /\ pq \in Seq(Nat)
          /\ Len(pq) = Len(pending) + Len(queue)
          /\ \A i \in 1..(Len(pending) + Len(queue)) :
               pq[i] = IF i <= Len(pending) THEN pending[i] ELSE queue[i - Len(pending)]
      BY <1>1, ConcatElements DEF IInv, TypeOK
    <2>2. Held = pq \o data
      BY DEF Held
    <2> HIDE DEF pq
    <2>3. /\ Len(Held) = Len(pq) + Len(data)
          /\ \A i \in 1..(Len(pq) + Len(data)) :
               Held[i] = IF i <= Len(pq) THEN pq[i] ELSE data[i - Len(pq)]
      BY <1>1, <2>1, <2>2, ConcatElements DEF IInv, TypeOK
    <2>4. PICK p \in Nat, q \in Nat, d \in Nat, m \in Nat, k \in Nat, n \in Nat :
            /\ Len(pending) = p /\ Len(queue) = q /\ Len(data) = d
            /\ maxSent = m /\ current = k /\ accepted = n
      BY <2>0, Zenon
    <2>5. k + p = m + 1 /\ n = m + q + d
      BY <1>1, <2>4 DEF IInv, Placement
    <2>6. Len(pq) = p + q /\ Len(Held) = p + q + d
      BY <2>1, <2>3, <2>4
    <2>7. current + Len(Held) = accepted + 1
      BY <2>4, <2>5, <2>6
    <2>8. ASSUME NEW i \in 1..(p + q + d)
          PROVE  Held[i] = k + i - 1
      <3>1. CASE i \in 1..p
        <4>1. Held[i] = pending[i]
          BY <2>1, <2>3, <2>4, <2>6, <3>1
        <4>2. pending[i] = k + i - 1
          BY <1>1, <2>4, <3>1 DEF IInv, Placement
        <4>3. QED
          BY <4>1, <4>2
      <3>2. ASSUME NEW j \in 1..q, i = p + j
            PROVE  Held[i] = k + i - 1
        <4>1. pq[i] = queue[j] /\ Held[i] = pq[i]
          <5>1. ~(i <= p) /\ i <= p + q /\ i - p = j /\ i \in 1..(p + q)
            BY <3>2
          <5>2. QED
            BY <2>1, <2>3, <2>4, <2>6, <5>1
        <4>2. queue[j] = m + j
          BY <1>1, <2>4 DEF IInv, Placement
        <4>3. m + j = k + i - 1
          BY <2>5, <3>2
        <4>4. QED
          BY <4>1, <4>2, <4>3
      <3>3. ASSUME NEW j \in 1..d, i = p + q + j
            PROVE  Held[i] = k + i - 1
        <4>1. Held[i] = data[j]
          <5>1. ~(i <= p + q) /\ i - (p + q) = j
            BY <3>3
          <5>2. QED
            BY <2>3, <2>4, <2>6, <5>1
        <4>2. data[j] = m + q + j
          BY <1>1, <2>4 DEF IInv, Placement
        <4>3. m + q + j = k + i - 1
          BY <2>5, <3>3
        <4>4. QED
          BY <4>1, <4>2, <4>3
      <3>4. \/ i \in 1..p
            \/ i - p \in 1..q /\ i = p + (i - p)
            \/ i - (p + q) \in 1..d /\ i = p + q + (i - (p + q))
        BY <2>4
      <3>5. QED
        BY <3>1, <3>2, <3>3, <3>4
    <2>9. QED
      BY <1>1, <2>4, <2>6, <2>7, <2>8 DEF HeldInOrder, IInv, Control
  <1>2. QED
    BY <1>1, Invariance, PTL

-----------------------------------------------------------------------------
\* The processor, seen through the refinement mapping, is a sliding window.
THEOREM WindowImplemented == Spec => ImplementsWindow
  <1> USE DEF Window!windowVars, ownerVars, sendVars
  <1>1. Init => Window!WindowInit
    BY DEF Init, NoCall, Window!WindowInit
  <1>2. IInv /\ [Next]_vars => [Window!WindowNext]_(Window!windowVars)
    <2> SUFFICES ASSUME IInv, [Next]_vars
                 PROVE  Window!WindowNext \/ UNCHANGED Window!windowVars
      OBVIOUS
    <2>0. /\ Len(pending) \in Nat /\ Len(queue) \in Nat /\ Len(data) \in Nat
          /\ maxSent \in Nat /\ current \in Nat /\ acked \in Nat
          /\ handed \in Nat /\ accepted \in Nat /\ resent \in Nat
          /\ current + Len(pending) = maxSent + 1
          /\ accepted = maxSent + Len(queue) + Len(data)
          /\ acked <= handed
      BY LenProperties, MaxPutAssumption DEF IInv, TypeOK, Placement, Control
    <2>1. CASE Put
      BY <2>1 DEF Put, Window!WindowNext, Window!Accept
    <2>2. ASSUME NEW ok \in BOOLEAN, ProcessCall(ok)
          PROVE  Window!WindowNext
      <3> DEFINE n == maxSent + 1
      <3>1. handed = maxSent /\ tpc = "loop" /\ queue # <<>>
        BY <2>2 DEF ProcessCall, IInv, Control
      <3>2. Len(queue) # 0
        BY <3>1, EmptySeq DEF IInv, TypeOK
      <3>3. n \in (acked + 1)..accepted
        BY <2>0, <3>1, <3>2
      <3>4. /\ lastCall'.seqn = n
            /\ handed' \in {handed, n}
            /\ UNCHANGED <<accepted, current, acked>>
        BY <2>2 DEF ProcessCall
      <3>5. Window!Try(n)
        BY <3>1, <3>4 DEF Window!Try
      <3>6. QED
        BY <3>3, <3>5 DEF Window!WindowNext
    <2>3. ASSUME NEW ok \in BOOLEAN, ResendCall(ok)
          PROVE  Window!WindowNext
      <3> DEFINE n == current + resent
      <3>1. /\ handed = maxSent /\ current = acked + 1 /\ resent < Len(pending)
        BY <2>3 DEF ResendCall, IInv, Control, InProcess, InReprocess
      <3>2. n \in (acked + 1)..accepted /\ n <= handed
        BY <2>0, <3>1
      <3>3. lastCall'.seqn = n /\ UNCHANGED <<accepted, current, acked, handed>>
        BY <2>3 DEF ResendCall
      <3>4. Window!Try(n)
        BY <3>2, <3>3 DEF Window!Try
      <3>5. QED
        BY <3>2, <3>4 DEF Window!WindowNext
    <2>4. ASSUME NEW seqn \in 1..handed, Acknowledge(seqn)
          PROVE  Window!WindowNext \/ UNCHANGED Window!windowVars
      <3>1. CASE seqn > acked
        <4>1. seqn \in (acked + 1)..handed
          BY <2>0, <3>1
        <4>2. Window!Acknowledged(seqn)
          BY <2>4, <3>1 DEF Acknowledge, Window!Acknowledged
        <4>3. QED
          BY <4>1, <4>2 DEF Window!WindowNext
      <3>2. CASE ~(seqn > acked)
        BY <2>4, <3>2 DEF Acknowledge
      <3>3. QED
        BY <3>1, <3>2
    <2>5. CASE TrimAcknowledged
      BY <2>5 DEF TrimAcknowledged, Window!WindowNext, Window!ThrowAway
    <2>6. CASE UNCHANGED <<accepted, current, acked, handed, lastCall>>
      BY <2>6
    <2>7. QED
      BY <2>1, <2>2, <2>3, <2>4, <2>5, <2>6
      DEF Next, ThreadStep, OwnerStep, vars, Start, CloseBegin, CloseEnd,
          SpuriousWakeup, ThreadReturn, ThreadWait, ThreadTake, ProcessBegin,
          ProcessRecord, ProcessEnd, PauseBegin, ResumeBegin, PauseEnd,
          ReprocessBegin, TrimEnd, ResendEnd, ResumeEnd, Idle
  <1>3. QED
    BY <1>1, <1>2, Invariance, PTL DEF Spec, ImplementsWindow, Window!WindowSpec

-----------------------------------------------------------------------------
(* The wire.                                                               *)

Package == [item : Nat, seqn : Nat, conn : 1..MaxConn]

\* The socket thread pauses and resumes in turn, it pauses only when it has
\* found the connection broken, and it serves a connection it has or, when it
\* is to end, none.
Phases ==
  /\ sockPC = "serving" <=> opc # "paused"
  /\ sockPC = "set" => conn > 0 \/ terminated
  /\ opc = "pausing" => ~up
  /\ up => conn > 0

\* What is under way carries numbers that have been handed over, each with the
\* package of that number, on connections in the order they were opened in.
Numbers ==
  /\ \A i \in 1..Len(toPeer) : /\ toPeer[i].item = toPeer[i].seqn
                               /\ toPeer[i].seqn \in 1..handed
                               /\ toPeer[i].conn <= conn
  /\ \A i, j \in 1..Len(toPeer) : i < j => toPeer[i].conn <= toPeer[j].conn
  /\ \A k \in 1..Len(toMe) : toMe[k] \in 1..handed

-----------------------------------------------------------------------------
\* Until it is resumed for the first time, the outbox has handed over nothing.
Untouched ==
  /\ handed = 0 /\ queue = <<>> /\ pending = <<>>
  /\ tpc \in {"top", "woken", "waiting", "done"}

NotYetResumed ==
  /\ conn = 0 /\ ~terminated => opc = "paused" /\ Untouched
  /\ up /\ opc # "running" => Untouched

\* The packages under way are the next ones for the receiving end, and none is
\* missing while the connection works.
NextInLine ==
  /\ \A i \in 1..Len(toPeer) : toPeer[i].seqn = maxReceived + i
  /\ maxReceived + Len(toPeer) <= handed
  /\ up => maxReceived + Len(toPeer) = handed

\* Before the first reconnection.
FirstConnection ==
  conn <= 1 => /\ NotYetResumed
               /\ NextInLine
               /\ ~misframed
               /\ delivered = [i \in 1..maxReceived |-> i]

-----------------------------------------------------------------------------
\* The number before the i-th package under way; Before(1) is the last number
\* the receiving end took.
Before(i) == IF i = 1 THEN maxReceived ELSE toPeer[i - 1].seqn

\* Each package under way follows the one before it, or repeats an older one.
NoGaps == \A i \in 1..Len(toPeer) : toPeer[i].seqn <= Before(i) + 1

\* The receiving end is ahead of the acknowledgements, and the packages under
\* way are ahead of what they acknowledge.
AcksBehind ==
  /\ acked <= maxReceived
  /\ \A i \in 1..Len(toPeer) : acked < toPeer[i].seqn
  /\ \A k \in 1..Len(toMe) : /\ toMe[k] <= maxReceived
                             /\ \A i \in 1..Len(toPeer) : toMe[k] < toPeer[i].seqn

\* Numbers rise on each connection.
Rising ==
  \A i, j \in 1..Len(toPeer) :
    i < j /\ toPeer[i].conn = toPeer[j].conn => toPeer[i].seqn < toPeer[j].seqn

\* A connection carries nothing before the outbox resends on it.
Unused ==
  opc \in {"paused", "resuming", "trim"} =>
    toMe = <<>> /\ \A i \in 1..Len(toPeer) : toPeer[i].conn < conn

\* The number the outbox tries next: while it resends, and otherwise.
NextOut == IF opc = "resend" THEN current + resent ELSE handed + 1

\* Then it carries everything up to the number tried next, and nothing else.
Used ==
  opc \in {"resend", "resent", "running"} =>
    /\ NextOut <= Before(Len(toPeer) + 1) + 1
    /\ \A i \in 1..Len(toPeer) : toPeer[i].conn = conn => toPeer[i].seqn < NextOut
    /\ \A k \in 1..Len(toMe) : toMe[k] < NextOut

\* Unless a package has overtaken those being resent.
Flow == ~overtook => NoGaps /\ AcksBehind /\ Rising /\ (up => Unused /\ Used)

-----------------------------------------------------------------------------
InRuns ==
  \A i \in 1..Len(delivered) :
    delivered[i] = 1 \/ (i > 1 /\ delivered[i] = delivered[i - 1] + 1)

\* The last run has come as far as the receiving end has.
UpToDate ==
  /\ IF Len(delivered) = 0 THEN maxReceived = 0
                           ELSE delivered[Len(delivered)] = maxReceived
  /\ \A n \in 1..maxReceived : \E i \in 1..Len(delivered) : delivered[i] = n

\* What has been dispatched are runs.
Dispatched == ~overtook => InRuns /\ (~misframed => UpToDate)

WireInv ==
  IInv /\ WireTypeOK /\ Phases /\ Numbers /\ FirstConnection /\ Flow /\ Dispatched

-----------------------------------------------------------------------------
\* What Append, Tail and taking a prefix do to a channel.
LEMMA Channel ==
  ASSUME NEW S, NEW s \in Seq(S)
  PROVE  /\ Len(s) \in Nat
         /\ \A i \in 1..Len(s) : s[i] \in S
         /\ \A p \in S :
              /\ Append(s, p) \in Seq(S)
              /\ Len(Append(s, p)) = Len(s) + 1
              /\ \A i \in 1..Len(s) + 1 :
                   Append(s, p)[i] = IF i = Len(s) + 1 THEN p ELSE s[i]
         /\ s # <<>> => /\ Len(s) > 0
                        /\ Head(s) = s[1]
                        /\ Tail(s) \in Seq(S)
                        /\ Len(Tail(s)) = Len(s) - 1
                        /\ \A i \in 1..Len(s) - 1 : Tail(s)[i] = s[i + 1]
         /\ \A k \in 0..Len(s) : /\ SubSeq(s, 1, k) \in Seq(S)
                                 /\ Len(SubSeq(s, 1, k)) = k
                                 /\ \A i \in 1..k : SubSeq(s, 1, k)[i] = s[i]
  <1>1. Len(s) \in Nat /\ \A i \in 1..Len(s) : s[i] \in S
    BY LenProperties, ElementOfSeq
  <1>2. ASSUME NEW p \in S
        PROVE  /\ Append(s, p) \in Seq(S)
               /\ Len(Append(s, p)) = Len(s) + 1
               /\ \A i \in 1..Len(s) + 1 :
                    Append(s, p)[i] = IF i = Len(s) + 1 THEN p ELSE s[i]
    BY <1>1, AppendProperties
  <1>3. ASSUME s # <<>>
        PROVE  /\ Len(s) > 0
               /\ Head(s) = s[1]
               /\ Tail(s) \in Seq(S)
               /\ Len(Tail(s)) = Len(s) - 1
               /\ \A i \in 1..Len(s) - 1 : Tail(s)[i] = s[i + 1]
    BY <1>1, <1>3, HeadTailProperties, EmptySeq
  <1>4. ASSUME NEW k \in 0..Len(s)
        PROVE  /\ SubSeq(s, 1, k) \in Seq(S)
               /\ Len(SubSeq(s, 1, k)) = k
               /\ \A i \in 1..k : SubSeq(s, 1, k)[i] = s[i]
    <2>1. k \in Int /\ \A i \in 1..k : s[i] \in S
      BY <1>1
    <2>2. /\ SubSeq(s, 1, k) \in Seq(S)
          /\ Len(SubSeq(s, 1, k)) = IF 1 <= k THEN k - 1 + 1 ELSE 0
          /\ \A i \in 1..(k - 1 + 1) : SubSeq(s, 1, k)[i] = s[1 + i - 1]
      BY <2>1, SubSeqProperties
    <2>3. QED
      BY <1>1, <2>2
  <1>5. QED
    BY <1>1, <1>2, <1>3, <1>4

\* Initially nothing has been sent, received or opened.
LEMMA WireInitInvariant == WireInit => WireInv
  <1> SUFFICES ASSUME WireInit PROVE WireInv
    OBVIOUS
  <1>1. IInv
    BY MaxPutAssumption
    DEF WireInit, IInv, TypeOK, Placement, Control, NoCall, InProcess, InReprocess,
        Threads, OwnerPCs, CloserPCs, Initialized, AsyncProcessing, Terminated
  <1>2. WireTypeOK
    <2>1. conn \in 0..MaxConn
      BY MaxConnAssumption DEF WireInit
    <2>2. toPeer \in Seq(Package) /\ toMe \in Seq(Nat) /\ delivered \in Seq(Nat)
      BY EmptySeq DEF WireInit
    <2>3. QED
      BY <1>1, <2>1, <2>2 DEF WireInit, WireTypeOK, IInv, Package
  <1>3. Phases /\ Numbers
    BY DEF WireInit, Phases, Numbers
  <1>4. FirstConnection
    <2>1. maxReceived = 0
      BY DEF WireInit
    <2>2. 1..maxReceived = {}
      BY <2>1
    <2>3. [i \in 1..maxReceived |-> i] = <<>>
      BY <2>2
    <2>4. QED
      BY <2>3 DEF WireInit, FirstConnection, NotYetResumed, NextInLine, Untouched
  <1>5. Flow /\ Dispatched
    BY DEF WireInit, Flow, NoGaps, AcksBehind, Rising, Dispatched, InRuns, UpToDate
  <1>6. QED
    BY <1>1, <1>2, <1>3, <1>4, <1>5 DEF WireInv

-----------------------------------------------------------------------------
\* An acknowledgement that is read is of a number that has been handed over.
LEMMA AckHanded ==
  ASSUME WireInv, toMe # <<>>
  PROVE  Head(toMe) \in 1..handed
  <1>1. Len(toMe) > 0 /\ Head(toMe) = toMe[1] /\ Len(toMe) \in Nat
    BY Channel DEF WireInv, WireTypeOK
  <1>2. QED
    BY <1>1 DEF WireInv, Numbers

\* Whatever the wire does with its outbox is a step of the outbox, or none.
LEMMA OutboxStep == WireInv /\ [WireNext]_allVars => [Next]_vars
  <1> SUFFICES ASSUME WireInv, [WireNext]_allVars
               PROVE  Next \/ UNCHANGED vars
    OBVIOUS
  <1>1. CASE ReadAck
    BY <1>1, AckHanded DEF ReadAck, Next
  <1>2. CASE UNCHANGED vars
    BY <1>2
  <1>3. ASSUME NEW ok \in BOOLEAN, SendNew(ok) \/ SendAgain(ok)
        PROVE  Next
    BY <1>3 DEF SendNew, SendAgain, Next
  <1>4. ASSUME NEW c \in Closers, Terminate(c) \/ CloseSocket(c)
        PROVE  Next
    BY <1>4 DEF Terminate, CloseSocket, Next
  <1>5. CASE Outbox
    BY <1>5 DEF Outbox, Next, OwnerStep
  <1>6. QED
    BY <1>1, <1>2, <1>3, <1>4, <1>5
    DEF WireNext, Send, Connect, AcceptClosed, Resume, LeaveThread, Disconnected,
        Paused, Break, Receive, WireIdle, Next, OwnerStep, allVars

\* Hence the outbox keeps its invariant.
LEMMA OutboxInvariant == WireInv /\ [WireNext]_allVars => IInv'
  BY OutboxStep, TypeStep, PlacementStep, ControlStep DEF WireInv, IInv

-----------------------------------------------------------------------------
\* The numbers that the invariant relates are numbers.
LEMMA Scalars ==
  ASSUME WireInv
  PROVE  /\ handed \in Nat /\ acked \in Nat /\ current \in Nat /\ resent \in Nat
         /\ maxReceived \in Nat /\ conn \in Nat
         /\ Len(toPeer) \in Nat /\ Len(toMe) \in Nat /\ Len(delivered) \in Nat
         /\ \A i \in 1..Len(toPeer) : /\ toPeer[i].seqn \in Nat
                                      /\ toPeer[i].conn \in Nat
         /\ \A k \in 1..Len(toMe) : toMe[k] \in Nat
         /\ \A i \in 1..Len(delivered) : delivered[i] \in Nat
  <1>1. /\ handed \in Nat /\ acked \in Nat /\ current \in Nat /\ resent \in Nat
        /\ maxReceived \in Nat /\ conn \in Nat
    BY MaxConnAssumption DEF WireInv, WireTypeOK, TypeOK
  <1>2. toPeer \in Seq(Package) /\ toMe \in Seq(Nat) /\ delivered \in Seq(Nat)
    BY DEF WireInv, WireTypeOK, Package
  <1>3. /\ Len(toPeer) \in Nat
        /\ \A i \in 1..Len(toPeer) : toPeer[i] \in Package
    BY <1>2, Channel
  <1>4. \A i \in 1..Len(toPeer) : toPeer[i].seqn \in Nat /\ toPeer[i].conn \in Nat
    BY <1>3, MaxConnAssumption DEF Package
  <1>5. /\ Len(toMe) \in Nat /\ Len(delivered) \in Nat
        /\ \A k \in 1..Len(toMe) : toMe[k] \in Nat
        /\ \A i \in 1..Len(delivered) : delivered[i] \in Nat
    BY <1>2, Channel
  <1>6. QED
    BY <1>1, <1>3, <1>4, <1>5

\* Package n joins those under way.
Sent(n) ==
  /\ Len(toPeer') = Len(toPeer) + 1
  /\ \A i \in 1..Len(toPeer) : toPeer'[i] = toPeer[i]
  /\ toPeer'[Len(toPeer) + 1].item = n
  /\ toPeer'[Len(toPeer) + 1].seqn = n
  /\ toPeer'[Len(toPeer) + 1].conn = conn

\* The first package under way leaves the others behind.
Taken ==
  /\ Len(toPeer) > 0 /\ Len(toPeer') = Len(toPeer) - 1
  /\ \A i \in 1..Len(toPeer) - 1 : toPeer'[i] = toPeer[i + 1]

\* What is under way loses a suffix.
Cut ==
  /\ Len(toPeer') \in 0..Len(toPeer)
  /\ \A i \in 1..Len(toPeer') : toPeer'[i] = toPeer[i]
  /\ Len(toMe') \in 0..Len(toMe)
  /\ \A k \in 1..Len(toMe') : toMe'[k] = toMe[k]

\* What send0 does to the network.
LEMMA TransmitEffect ==
  ASSUME WireInv, NEW n \in Nat, NEW ok \in BOOLEAN, Transmit(n, n, ok)
  PROVE  /\ toPeer' \in Seq(Package)
         /\ up => ok /\ Sent(n)
         /\ ~up => toPeer' = toPeer
         /\ UNCHANGED <<toMe, maxReceived, misframed, delivered, conn, up, sockPC,
                        terminated>>
  <1>1. toPeer \in Seq(Package)
    BY DEF WireInv, WireTypeOK, Package
  <1>2. UNCHANGED <<toMe, maxReceived, misframed, delivered, conn, up, sockPC,
                    terminated>>
    BY DEF Transmit, peerVars, sockVars
  <1>3. CASE up
    <2> DEFINE p == [item |-> n, seqn |-> n, conn |-> conn]
    <2>1. conn \in 1..MaxConn
      BY <1>3, MaxConnAssumption DEF WireInv, WireTypeOK, Phases
    <2>2. p \in Package /\ p.item = n /\ p.seqn = n /\ p.conn = conn
      BY <2>1 DEF Package
    <2>3. ok /\ toPeer' = Append(toPeer, p)
      BY <1>3 DEF Transmit
    <2> HIDE DEF p
    <2>4. /\ toPeer' \in Seq(Package)
          /\ Len(toPeer) \in Nat
          /\ Len(toPeer') = Len(toPeer) + 1
          /\ \A i \in 1..Len(toPeer) + 1 :
               toPeer'[i] = IF i = Len(toPeer) + 1 THEN p ELSE toPeer[i]
      BY <1>1, <2>2, <2>3, Channel
    <2>5. \A i \in 1..Len(toPeer) : toPeer'[i] = toPeer[i]
      BY <2>4
    <2>6. toPeer'[Len(toPeer) + 1] = p
      BY <2>4
    <2>7. QED
      BY <1>2, <1>3, <2>2, <2>3, <2>4, <2>5, <2>6 DEF Sent
  <1>4. CASE ~up
    BY <1>1, <1>2, <1>4 DEF Transmit
  <1>5. QED
    BY <1>3, <1>4

\* The asynchronous thread hands the next package over, under the next number.
LEMMA SendNewEffect ==
  ASSUME WireInv, NEW ok \in BOOLEAN, SendNew(ok)
  PROVE  /\ toPeer' \in Seq(Package)
         /\ tpc = "loop" /\ opc \notin {"trim", "resend"}
         /\ up => handed' = handed + 1 /\ Sent(handed + 1)
         /\ ~up => toPeer' = toPeer /\ handed' \in {handed, handed + 1}
         /\ overtook' = (overtook \/ (up /\ opc \in {"paused", "resuming"}))
         /\ UNCHANGED <<toMe, maxReceived, misframed, delivered, conn, up, sockPC,
                        terminated, acked, current, opc, resent, queue, pending>>
  <1>1. /\ tpc = "loop" /\ queue # <<>>
        /\ handed' = IF ok THEN maxSent + 1 ELSE handed
        /\ UNCHANGED <<acked, current, opc, resent, queue, pending>>
    BY DEF SendNew, ProcessCall, ownerVars, sendVars
  <1>2. handed = maxSent /\ opc \notin {"trim", "resend"}
    BY <1>1 DEF WireInv, IInv, Control, InProcess, InReprocess
  <1>3. Head(queue) = handed + 1 /\ handed + 1 \in Nat
    <2>1. Len(queue) > 0 /\ Len(queue) \in Nat /\ Head(queue) = queue[1]
      BY <1>1, Channel DEF WireInv, IInv, TypeOK
    <2>2. queue[1] = maxSent + 1
      BY <2>1 DEF WireInv, IInv, Placement
    <2>3. handed \in Nat
      BY Scalars
    <2>4. QED
      BY <1>2, <2>1, <2>2, <2>3
  <1>4. Transmit(handed + 1, handed + 1, ok)
    BY <1>2, <1>3 DEF SendNew
  <1>5. overtook' = (overtook \/ (up /\ opc \in {"paused", "resuming"}))
    BY DEF SendNew, NotResentYet
  <1>6. /\ toPeer' \in Seq(Package)
        /\ up => ok /\ Sent(handed + 1)
        /\ ~up => toPeer' = toPeer
        /\ UNCHANGED <<toMe, maxReceived, misframed, delivered, conn, up, sockPC,
                       terminated>>
    BY <1>3, <1>4, TransmitEffect
  <1>7. handed' \in {handed, handed + 1} /\ (ok => handed' = handed + 1)
    BY <1>1, <1>2
  <1>8. QED
    BY <1>1, <1>2, <1>5, <1>6, <1>7

\* The owner hands a package over again that has been handed over, and is not
\* known to be acknowledged, under its own number.
LEMMA SendAgainEffect ==
  ASSUME WireInv, NEW ok \in BOOLEAN, SendAgain(ok)
  PROVE  /\ toPeer' \in Seq(Package)
         /\ opc = "resend" /\ pending # <<>>
         /\ current + resent \in (acked + 1)..handed
         /\ up => Sent(current + resent) /\ opc' = "resend" /\ resent' = resent + 1
         /\ ~up => toPeer' = toPeer
         /\ opc' \in {"resend", "resent"}
         /\ UNCHANGED <<toMe, maxReceived, misframed, delivered, conn, up, sockPC,
                        terminated, acked, current, handed, queue, pending, tpc,
                        overtook>>
  <1>1. /\ opc = "resend" /\ resent < Len(pending)
        /\ IF ok THEN resent' = resent + 1 /\ opc' = opc
                 ELSE resent' = resent /\ opc' = "resent"
        /\ UNCHANGED <<acked, current, handed, queue, pending, tpc, overtook>>
    BY DEF SendAgain, ResendCall, sendVars
  <1>2. handed = maxSent /\ current = acked + 1
    BY <1>1 DEF WireInv, IInv, Control, InProcess, InReprocess
  <1>3. /\ Len(pending) \in Nat /\ resent \in Nat /\ current \in Nat
        /\ acked \in Nat /\ maxSent \in Nat
    BY LenProperties DEF WireInv, IInv, TypeOK
  <1>4. current + Len(pending) = maxSent + 1
    BY DEF WireInv, IInv, Placement
  <1>5. current + resent \in (acked + 1)..handed /\ current + resent \in Nat
    BY <1>1, <1>2, <1>3, <1>4
  <1>6. pending[resent + 1] = current + resent
    <2>1. resent + 1 \in 1..Len(pending)
      BY <1>1, <1>3
    <2>2. pending[resent + 1] = current + (resent + 1) - 1
      BY <2>1 DEF WireInv, IInv, Placement
    <2>3. QED
      BY <2>2, <1>3
  <1>7. pending # <<>>
    BY <1>1, <1>3
  <1>8. Transmit(current + resent, current + resent, ok)
    BY <1>6 DEF SendAgain
  <1>9. /\ toPeer' \in Seq(Package)
        /\ up => ok /\ Sent(current + resent)
        /\ ~up => toPeer' = toPeer
        /\ UNCHANGED <<toMe, maxReceived, misframed, delivered, conn, up, sockPC,
                       terminated>>
    BY <1>5, <1>8, TransmitEffect
  <1>10. QED
    BY <1>1, <1>5, <1>7, <1>9

\* A connection that breaks loses suffixes.
LEMMA BreakEffect ==
  ASSUME WireInv, Break
  PROVE  /\ toPeer' \in Seq(Package) /\ toMe' \in Seq(Nat)
         /\ Cut
         /\ up /\ ~up'
  <1>1. toPeer \in Seq(Package) /\ toMe \in Seq(Nat)
    BY DEF WireInv, WireTypeOK, Package
  <1>2. PICK k \in 0..Len(toPeer) : toPeer' = SubSeq(toPeer, 1, k)
    BY DEF Break
  <1>3. toPeer' \in Seq(Package) /\ Len(toPeer') = k
        /\ \A i \in 1..k : toPeer'[i] = toPeer[i]
    BY <1>1, <1>2, Channel
  <1>4. PICK m \in 0..Len(toMe) : toMe' = SubSeq(toMe, 1, m)
    BY DEF Break
  <1>5. toMe' \in Seq(Nat) /\ Len(toMe') = m
        /\ \A i \in 1..m : toMe'[i] = toMe[i]
    BY <1>1, <1>4, Channel
  <1>6. QED
    BY <1>3, <1>5 DEF Break, Cut

\* The number the receiving end acknowledges, if the sender will hear of it.
AcksFirst ==
  IF up /\ toPeer[1].conn = conn
    THEN /\ Len(toMe') = Len(toMe) + 1
         /\ \A k \in 1..Len(toMe) : toMe'[k] = toMe[k]
         /\ toMe'[Len(toMe) + 1] = toPeer[1].seqn
    ELSE toMe' = toMe

\* The receiving end takes the first package under way.
LEMMA ReceiveEffect ==
  ASSUME WireInv, Receive
  PROVE  /\ toPeer' \in Seq(Package) /\ toMe' \in Seq(Nat)
         /\ Taken /\ AcksFirst
         /\ toPeer[1].item = toPeer[1].seqn /\ toPeer[1].seqn \in 1..handed
         /\ IF toPeer[1].seqn <= maxReceived /\ toPeer[1].seqn # 1
              THEN misframed' = TRUE /\ UNCHANGED <<maxReceived, delivered>>
              ELSE /\ maxReceived' = toPeer[1].seqn
                   /\ delivered' = IF misframed THEN delivered
                                     ELSE Append(delivered, toPeer[1].seqn)
                   /\ misframed' = misframed
         /\ UNCHANGED <<vars, conn, up, sockPC, terminated, overtook>>
  <1>1. toPeer \in Seq(Package) /\ toMe \in Seq(Nat)
    BY DEF WireInv, WireTypeOK, Package
  <1>2. toPeer # <<>> /\ toPeer' = Tail(toPeer)
    BY DEF Receive
  <1>3. /\ Len(toPeer) > 0 /\ Len(toPeer) \in Nat /\ Head(toPeer) = toPeer[1]
        /\ toPeer' \in Seq(Package)
        /\ Taken
    BY <1>1, <1>2, Channel DEF Taken
  <1>4. toPeer[1].item = toPeer[1].seqn /\ toPeer[1].seqn \in 1..handed
        /\ toPeer[1].seqn \in Nat
    BY <1>3, Scalars DEF WireInv, Numbers
  <1>5. toMe' \in Seq(Nat) /\ AcksFirst
    <2>1. toMe' = IF up /\ toPeer[1].conn = conn THEN Append(toMe, toPeer[1].seqn)
                                                 ELSE toMe
      BY <1>3 DEF Receive
    <2> DEFINE n == toPeer[1].seqn
    <2>2. n \in Nat
      BY <1>4
    <2> HIDE DEF n
    <2>3. /\ Len(toMe) \in Nat
          /\ Append(toMe, n) \in Seq(Nat)
          /\ Len(Append(toMe, n)) = Len(toMe) + 1
          /\ \A i \in 1..Len(toMe) + 1 :
               Append(toMe, n)[i] = IF i = Len(toMe) + 1 THEN n ELSE toMe[i]
      BY <1>1, <2>2, Channel
    <2>4. /\ \A k \in 1..Len(toMe) : Append(toMe, n)[k] = toMe[k]
          /\ Append(toMe, n)[Len(toMe) + 1] = n
      BY <2>3
    <2>5. QED
      BY <1>1, <2>1, <2>3, <2>4 DEF AcksFirst, n
  <1>6. QED
    BY <1>3, <1>4, <1>5 DEF Receive, Duplicate, sockVars

\* What goes on inside the outbox moves the owner on, if anything.
LEMMA OutboxEffect ==
  ASSUME WireInv, Outbox
  PROVE  /\ UNCHANGED <<toPeer, toMe, maxReceived, misframed, delivered, conn, up,
                        sockPC, terminated, overtook, handed, acked>>
         /\ \/ UNCHANGED <<opc, current, resent>>
            \/ opc = "resuming" /\ opc' = "trim"
            \/ opc = "trim" /\ opc' = "trim"
            \/ opc = "trim" /\ opc' = "resend" /\ current' + resent' = acked + 1
            \/ opc = "resend" /\ opc' = "resent" /\ current + resent = handed + 1
            \/ opc = "resent" /\ opc' = "running"
  <1>1. UNCHANGED <<toPeer, toMe, maxReceived, misframed, delivered, conn, up,
                    sockPC, terminated, overtook>>
    BY DEF Outbox, wireVars, netVars, peerVars, sockVars
  <1>2. CASE SpuriousWakeup \/ ThreadStep
    BY <1>1, <1>2
    DEF SpuriousWakeup, ThreadStep, ThreadReturn, ThreadWait, ThreadTake,
        ProcessBegin, ProcessRecord, ProcessEnd, ownerVars
  <1>3. CASE ReprocessBegin \/ ResumeEnd
    BY <1>1, <1>3 DEF ReprocessBegin, ResumeEnd
  <1>4. CASE TrimAcknowledged
    BY <1>1, <1>4 DEF TrimAcknowledged, ownerVars
  <1>5. CASE TrimEnd
    <2>1. /\ opc = "trim" /\ opc' = "resend" /\ resent' = 0 /\ current > acked
          /\ UNCHANGED <<current, acked, handed>>
      BY <1>5 DEF TrimEnd
    <2>2. current <= acked + 1 /\ current \in Nat /\ acked \in Nat
      BY DEF WireInv, IInv, Control, TypeOK
    <2>3. QED
      BY <1>1, <2>1, <2>2
  <1>6. CASE ResendEnd
    <2>1. /\ opc = "resend" /\ opc' = "resent" /\ resent = Len(pending)
          /\ UNCHANGED <<acked, handed>>
      BY <1>6 DEF ResendEnd
    <2>2. handed = maxSent
      BY <2>1 DEF WireInv, IInv, Control, InProcess, InReprocess
    <2>3. current + Len(pending) = maxSent + 1
      BY DEF WireInv, IInv, Placement
    <2>4. QED
      BY <1>1, <2>1, <2>2, <2>3
  <1>7. QED
    BY <1>2, <1>3, <1>4, <1>5, <1>6 DEF Outbox

\* As long as it is paused or resuming, an untouched outbox stays untouched.
LEMMA UntouchedStep ==
  ASSUME WireInv, [WireNext]_allVars, Untouched, opc # "running"
  PROVE  Untouched'
  <1>1. [Next]_vars
    BY OutboxStep
  <1>2. balance # 0 /\ pending = <<>> /\ queue = <<>> /\ handed = 0
        /\ tpc \in {"top", "woken", "waiting", "done"}
    BY DEF WireInv, IInv, Control, Untouched
  <1>3. CASE TrimAcknowledged
    BY <1>2, <1>3, PopsOnlyPendingLemma
    DEF TrimAcknowledged, PopsOnlyPending, WireInv
  <1>4. CASE \E ok \in BOOLEAN : ResendCall(ok)
    <2>1. resent < Len(pending) /\ resent \in Nat
      BY <1>4 DEF ResendCall, WireInv, IInv, TypeOK
    <2>2. Len(pending) = 0
      BY <1>2
    <2>3. QED
      BY <2>1, <2>2
  <1>5. CASE ThreadTake
    BY <1>2, <1>5 DEF ThreadTake, NothingToDo
  <1>6. CASE Put \/ Start
    BY <1>2, <1>6 DEF Put, Start, Notify, Untouched, sendVars
  <1>7. ASSUME NEW c \in Closers, CloseEnd(c)
        PROVE  Untouched'
    BY <1>2, <1>7 DEF CloseEnd, Notify, Untouched, sendVars
  <1>8. ASSUME NEW c \in Closers, NEW kind \in {Stopping, Terminating},
               CloseBegin(c, kind)
        PROVE  Untouched'
    BY <1>2, <1>8 DEF CloseBegin, Notify, Untouched, sendVars
  <1>9. CASE SpuriousWakeup \/ ThreadReturn \/ ThreadWait
    BY <1>2, <1>9 DEF SpuriousWakeup, ThreadReturn, ThreadWait, Untouched, sendVars
  <1>10. CASE ProcessBegin \/ ProcessRecord \/ ProcessEnd
    BY <1>2, <1>10 DEF ProcessBegin, ProcessRecord, ProcessEnd
  <1>11. CASE \E ok \in BOOLEAN : ProcessCall(ok)
    BY <1>2, <1>11 DEF ProcessCall
  <1>12. CASE PauseBegin \/ ResumeBegin \/ PauseEnd \/ ReprocessBegin \/ TrimEnd
    BY <1>2, <1>12
    DEF PauseBegin, ResumeBegin, PauseEnd, ReprocessBegin, TrimEnd, Untouched, sendVars
  <1>13. CASE ResendEnd \/ ResumeEnd \/ \E seqn \in 1..handed : Acknowledge(seqn)
    BY <1>2, <1>13 DEF ResendEnd, ResumeEnd, Acknowledge, Notify, Untouched, sendVars
  <1>14. CASE UNCHANGED vars
    BY <1>2, <1>14 DEF vars, Untouched
  <1>15. QED
    BY <1>1, <1>3, <1>4, <1>5, <1>6, <1>7, <1>8, <1>9, <1>10, <1>11, <1>12,
       <1>13, <1>14
    DEF Next, ThreadStep, OwnerStep, Idle

-----------------------------------------------------------------------------
\* Every action keeps the types of the wire's own variables.
LEMMA WireTypeStep == WireInv /\ [WireNext]_allVars => WireTypeOK'
  <1> SUFFICES ASSUME WireInv, [WireNext]_allVars
               PROVE  WireTypeOK'
    OBVIOUS
  <1>1. TypeOK'
    BY OutboxInvariant DEF IInv
  <1>2. WireTypeOK
    BY DEF WireInv
  <1>3. toPeer \in Seq(Package) /\ toMe \in Seq(Nat) /\ delivered \in Seq(Nat)
    BY <1>2 DEF WireTypeOK, Package
  <1>4. SUFFICES
           /\ conn' \in 0..MaxConn /\ up' \in BOOLEAN /\ terminated' \in BOOLEAN
           /\ sockPC' \in {"connecting", "set", "serving", "gone"}
           /\ toPeer' \in Seq(Package) /\ toMe' \in Seq(Nat)
           /\ maxReceived' \in Nat /\ misframed' \in BOOLEAN /\ delivered' \in Seq(Nat)
           /\ overtook' \in BOOLEAN
    BY <1>1, <1>4 DEF WireTypeOK, Package
  <1> USE DEF WireTypeOK, netVars, peerVars, sockVars, wireVars
  <1>5. ASSUME NEW ok \in BOOLEAN, SendNew(ok) \/ SendAgain(ok)
        PROVE  /\ toPeer' \in Seq(Package) /\ overtook' \in BOOLEAN
               /\ UNCHANGED <<toMe, peerVars, sockVars>>
    BY <1>2, <1>5, SendNewEffect, SendAgainEffect
  <1>6. CASE Connect
    BY <1>2, <1>3, <1>6, EmptySeq, MaxConnAssumption DEF Connect
  <1>7. CASE ReadAck
    <2>1. Tail(toMe) \in Seq(Nat)
      BY <1>3, <1>7, Channel DEF ReadAck
    <2>2. QED
      BY <1>2, <1>3, <1>7, <2>1 DEF ReadAck
  <1>8. ASSUME NEW c \in Closers, CloseSocket(c)
        PROVE  /\ up' \in BOOLEAN /\ toMe' \in Seq(Nat)
               /\ UNCHANGED <<toPeer, peerVars, conn, sockPC, terminated, overtook>>
    BY <1>8, EmptySeq DEF CloseSocket
  <1>9. ASSUME NEW c \in Closers, Terminate(c)
        PROVE  /\ terminated' \in BOOLEAN
               /\ UNCHANGED <<netVars, peerVars, conn, up, sockPC, overtook>>
    BY <1>9 DEF Terminate
  <1>10. CASE Break
    BY <1>2, <1>3, <1>10, BreakEffect DEF Break
  <1>11. CASE Receive
    <2>0. toPeer[1].seqn \in 1..handed /\ handed \in Nat
      BY <1>11, ReceiveEffect, Scalars
    <2>1. toPeer[1].seqn \in Nat
      BY <2>0
    <2>2. Append(delivered, toPeer[1].seqn) \in Seq(Nat)
      BY <1>3, <2>1, AppendElements
    <2>3. maxReceived' \in Nat /\ misframed' \in BOOLEAN /\ delivered' \in Seq(Nat)
      BY <1>2, <1>3, <1>11, <2>1, <2>2, ReceiveEffect
    <2>4. QED
      BY <1>2, <1>11, <2>3, ReceiveEffect
  <1>12. CASE UNCHANGED wireVars
    BY <1>2, <1>3, <1>12
  <1>13. CASE AcceptClosed \/ Resume \/ LeaveThread \/ Paused
    BY <1>2, <1>3, <1>13 DEF AcceptClosed, Resume, LeaveThread, Paused
  <1>14. QED
    BY <1>2, <1>3, <1>5, <1>6, <1>7, <1>8, <1>9, <1>10, <1>11, <1>12, <1>13
    DEF WireNext, Send, Disconnected, Outbox, WireIdle, allVars

\* Every action keeps the two threads of control of the owner together.
LEMMA PhasesStep == WireInv /\ [WireNext]_allVars => Phases'
  <1> SUFFICES ASSUME WireInv, [WireNext]_allVars
               PROVE  Phases'
    OBVIOUS
  <1>1. Phases /\ conn \in Nat
    BY Scalars DEF WireInv
  <1> USE DEF Phases, netVars, peerVars, sockVars, wireVars
  <1>2. ASSUME NEW ok \in BOOLEAN, SendNew(ok)
        PROVE  Phases'
    BY <1>1, <1>2, SendNewEffect
  <1>3. ASSUME NEW ok \in BOOLEAN, SendAgain(ok)
        PROVE  Phases'
    BY <1>1, <1>3, SendAgainEffect
  <1>4. CASE Connect
    BY <1>1, <1>4 DEF Connect, vars
  <1>5. CASE AcceptClosed \/ LeaveThread \/ Break
    BY <1>1, <1>5 DEF AcceptClosed, LeaveThread, Break, vars
  <1>6. CASE Resume
    BY <1>1, <1>6 DEF Resume, ResumeBegin
  <1>7. CASE ReadAck
    BY <1>1, <1>7 DEF ReadAck, Acknowledge, ownerVars
  <1>8. CASE Disconnected
    BY <1>1, <1>8 DEF Disconnected, PauseBegin
  <1>9. CASE Paused
    BY <1>1, <1>9 DEF Paused, PauseEnd
  <1>10. CASE Outbox
    BY <1>1, <1>10, OutboxEffect
  <1>11. ASSUME NEW c \in Closers, Terminate(c) \/ CloseSocket(c)
         PROVE  Phases'
    BY <1>1, <1>11 DEF Terminate, CloseSocket, CloseBegin, CloseEnd, ownerVars
  <1>12. CASE Receive
    BY <1>1, <1>12, ReceiveEffect DEF vars
  <1>13. CASE Send \/ WireIdle \/ UNCHANGED allVars
    BY <1>1, <1>13 DEF Send, Put, WireIdle, Idle, allVars, vars, ownerVars
  <1>14. QED
    BY <1>2, <1>3, <1>4, <1>5, <1>6, <1>7, <1>8, <1>9, <1>10, <1>11, <1>12, <1>13
    DEF WireNext

-----------------------------------------------------------------------------
\* Arithmetic that the lemmas about sequences below need.
LEMMA Widen ==
  ASSUME NEW a \in Nat, NEW b \in Nat, a <= b, NEW x \in 1..a
  PROVE  x \in 1..b
  OBVIOUS

\* Facts about numbers, which the provers find at once when they are alone.
LEMMA Between ==
  ASSUME NEW a \in Nat, NEW b \in Nat, NEW c \in Nat, a <= b, b <= c
  PROVE  a <= c
  OBVIOUS

\* The place after one that is not the last is a place.
LEMMA NextIndex ==
  ASSUME NEW l \in Nat, NEW k \in 1..(l - 1)
  PROVE  k \in Nat /\ k + 1 \in 1..l
  OBVIOUS

\* So is one that is further on by what is before the window.
LEMMA Shifted ==
  ASSUME NEW m \in Nat, NEW d \in Nat, NEW l \in Nat, m + d <= l, NEW i \in 1..m
  PROVE  i \in Nat /\ i + d \in 1..l
  OBVIOUS

\* A package that joins those under way is the last of them.
LEMMA NumbersSent ==
  ASSUME WireInv, NEW n \in Nat, Sent(n), n \in 1..handed',
         handed' \in Nat, handed <= handed', UNCHANGED <<toMe, conn>>
  PROVE  Numbers'
  <1>1. Numbers
    BY DEF WireInv
  <1>2. /\ handed \in Nat /\ conn \in Nat /\ Len(toPeer) \in Nat
        /\ \A i \in 1..Len(toPeer) : toPeer[i].conn \in Nat
    BY Scalars
  <1>3. PICK L \in Nat : L = Len(toPeer)
    BY <1>2
  <1>4. /\ Len(toPeer') = L + 1
        /\ \A i \in 1..L : toPeer'[i] = toPeer[i]
        /\ toPeer'[L + 1].item = n /\ toPeer'[L + 1].seqn = n
        /\ toPeer'[L + 1].conn = conn
    BY <1>3 DEF Sent
  <1>5. ASSUME NEW i \in 1..(L + 1)
        PROVE  /\ toPeer'[i].item = toPeer'[i].seqn
               /\ toPeer'[i].seqn \in 1..handed'
               /\ toPeer'[i].conn <= conn
    <2>1. CASE i = L + 1
      BY <1>2, <1>4, <2>1
    <2>2. CASE i \in 1..L
      <3>1. /\ toPeer[i].item = toPeer[i].seqn
            /\ toPeer[i].seqn \in 1..handed
            /\ toPeer[i].conn <= conn
        BY <1>1, <1>3, <2>2 DEF Numbers
      <3>2. 1..handed \subseteq 1..handed'
        BY <1>2
      <3>3. toPeer'[i] = toPeer[i]
        BY <1>4, <2>2
      <3>4. QED
        BY <3>1, <3>2, <3>3
    <2>3. QED
      BY <2>1, <2>2
  <1>6. ASSUME NEW i \in 1..(L + 1), NEW j \in 1..(L + 1), i < j
        PROVE  toPeer'[i].conn <= toPeer'[j].conn
    <2>1. i \in 1..L
      BY <1>6
    <2>2. CASE j = L + 1
      BY <1>4, <1>5, <2>2
    <2>3. CASE j \in 1..L
      <3>1. toPeer[i].conn <= toPeer[j].conn
        BY <1>1, <1>3, <1>6, <2>1, <2>3 DEF Numbers
      <3>2. QED
        BY <1>4, <2>1, <2>3, <3>1
    <2>4. QED
      BY <2>2, <2>3
  <1>7. \A k \in 1..Len(toMe) : toMe[k] \in 1..handed'
    <2>1. \A k \in 1..Len(toMe) : toMe[k] \in 1..handed
      BY <1>1 DEF Numbers
    <2>2. QED
      BY <1>2, <2>1
  <1>8. Len(toMe') = Len(toMe) /\ \A k \in 1..Len(toMe) : toMe'[k] = toMe[k]
    OBVIOUS
  <1>9. QED
    BY <1>4, <1>5, <1>6, <1>7 DEF Numbers

\* Numbers is kept by what takes away, and by what hands over more.
LEMMA NumbersLess ==
  ASSUME WireInv, handed' \in Nat, handed <= handed', conn' \in Nat, conn <= conn',
         NEW d \in Nat,
         Len(toPeer') \in Nat, Len(toPeer') + d <= Len(toPeer),
         \A i \in 1..Len(toPeer') : toPeer'[i] = toPeer[i + d],
         \A k \in 1..Len(toMe') : toMe'[k] \in 1..handed
  PROVE  Numbers'
  <1>1. Numbers
    BY DEF WireInv
  <1>2. handed \in Nat /\ conn \in Nat /\ Len(toPeer) \in Nat
    BY Scalars
  <1>3. \A i \in 1..Len(toPeer) : toPeer[i].conn \in Nat
    BY Scalars
  <1>4. ASSUME NEW i \in 1..Len(toPeer')
        PROVE  /\ toPeer'[i].item = toPeer'[i].seqn
               /\ toPeer'[i].seqn \in 1..handed'
               /\ toPeer'[i].conn <= conn'
    <2>1. i + d \in 1..Len(toPeer) /\ toPeer'[i] = toPeer[i + d]
      BY <1>2, Shifted
    <2>2. /\ toPeer[i + d].item = toPeer[i + d].seqn
          /\ toPeer[i + d].seqn \in 1..handed
          /\ toPeer[i + d].conn <= conn
      BY <1>1, <2>1 DEF Numbers
    <2>3. toPeer[i + d].conn \in Nat
      BY <1>3, <2>1
    <2>4. toPeer[i + d].seqn \in 1..handed'
      BY <1>2, <2>2, Widen
    <2>5. toPeer[i + d].conn <= conn'
      BY <1>2, <2>2, <2>3, Between
    <2>6. QED
      BY <2>1, <2>2, <2>4, <2>5
  <1>5. ASSUME NEW i \in 1..Len(toPeer'), NEW j \in 1..Len(toPeer'), i < j
        PROVE  toPeer'[i].conn <= toPeer'[j].conn
    <2>1. i \in Nat /\ j \in Nat /\ i + d \in 1..Len(toPeer) /\ j + d \in 1..Len(toPeer)
      BY <1>2, Shifted
    <2>2. i + d < j + d
      BY <1>5, <2>1
    <2>3. toPeer[i + d].conn <= toPeer[j + d].conn
      BY <1>1, <2>1, <2>2 DEF Numbers
    <2>4. QED
      BY <2>3
  <1>6. \A k \in 1..Len(toMe') : toMe'[k] \in 1..handed'
    BY <1>2, Widen
  <1>7. QED
    BY <1>4, <1>5, <1>6 DEF Numbers

\* Every action keeps the numbers under way within those handed over.
LEMMA NumbersStep == WireInv /\ [WireNext]_allVars => Numbers'
  <1> SUFFICES ASSUME WireInv, [WireNext]_allVars
               PROVE  Numbers'
    OBVIOUS
  <1>1. /\ handed \in Nat /\ conn \in Nat /\ Len(toPeer) \in Nat /\ Len(toMe) \in Nat
        /\ toMe \in Seq(Nat)
    BY Scalars DEF WireInv, WireTypeOK
  <1>2. \A k \in 1..Len(toMe) : toMe[k] \in 1..handed
    BY DEF WireInv, Numbers
  <1>3. ASSUME handed' = handed, conn' \in {conn, conn + 1}, toPeer' = toPeer,
               \A k \in 1..Len(toMe') : toMe'[k] \in 1..handed
        PROVE  Numbers'
    <2>1. /\ Len(toPeer') = Len(toPeer)
          /\ \A i \in 1..Len(toPeer') : toPeer'[i] = toPeer[i + 0]
      BY <1>1, <1>3
    <2>2. /\ handed' \in Nat /\ handed <= handed' /\ conn' \in Nat /\ conn <= conn'
          /\ Len(toPeer') \in Nat /\ Len(toPeer') + 0 <= Len(toPeer)
      BY <1>1, <1>3, <2>1
    <2>3. QED
      BY <1>3, <2>1, <2>2, NumbersLess
  <1>4. ASSUME UNCHANGED <<handed, toPeer, conn, toMe>>
        PROVE  Numbers'
    BY <1>2, <1>3, <1>4
  <1>5. ASSUME NEW ok \in BOOLEAN, SendNew(ok)
        PROVE  Numbers'
    <2>1. CASE up
      <3>1. handed' = handed + 1 /\ Sent(handed + 1) /\ UNCHANGED <<toMe, conn>>
        BY <1>5, <2>1, SendNewEffect
      <3>2. handed + 1 \in Nat /\ handed' \in Nat /\ handed + 1 \in 1..handed'
            /\ handed <= handed'
        BY <1>1, <3>1
      <3>3. QED
        BY <3>1, <3>2, NumbersSent
    <2>2. CASE ~up
      <3>1. toPeer' = toPeer /\ handed' \in {handed, handed + 1}
            /\ toMe' = toMe /\ conn' = conn
        BY <1>5, <2>2, SendNewEffect
      <3>2. /\ handed' \in Nat /\ handed <= handed' /\ conn' \in Nat /\ conn <= conn'
            /\ Len(toPeer') \in Nat /\ Len(toPeer') + 0 <= Len(toPeer)
            /\ \A i \in 1..Len(toPeer') : toPeer'[i] = toPeer[i + 0]
        BY <1>1, <3>1
      <3>3. \A k \in 1..Len(toMe') : toMe'[k] \in 1..handed
        BY <1>2, <3>1
      <3>4. QED
        BY <3>2, <3>3, NumbersLess
    <2>3. QED
      BY <2>1, <2>2
  <1>6. ASSUME NEW ok \in BOOLEAN, SendAgain(ok)
        PROVE  Numbers'
    <2>1. UNCHANGED <<toMe, conn, handed>>
      BY <1>6, SendAgainEffect
    <2>2. CASE up
      <3>1. current + resent \in (acked + 1)..handed /\ Sent(current + resent)
        BY <1>6, <2>2, SendAgainEffect
      <3>2. acked \in Nat /\ current \in Nat /\ resent \in Nat
        BY Scalars
      <3>3. current + resent \in Nat /\ current + resent \in 1..handed'
            /\ handed' \in Nat /\ handed <= handed'
        BY <1>1, <2>1, <3>1, <3>2
      <3>4. QED
        BY <2>1, <3>1, <3>3, NumbersSent
    <2>3. CASE ~up
      BY <1>4, <1>6, <2>1, <2>3, SendAgainEffect
    <2>4. QED
      BY <2>2, <2>3
  <1>7. CASE Connect
    <2>1. toMe' = <<>> /\ conn' = conn + 1 /\ UNCHANGED <<handed, toPeer>>
      BY <1>7 DEF Connect, vars
    <2>2. Len(toMe') = 0
      BY <2>1
    <2>3. QED
      BY <1>3, <2>1, <2>2
  <1>8. CASE ReadAck
    <2>1. toMe # <<>> /\ toMe' = Tail(toMe) /\ UNCHANGED <<handed, toPeer, conn>>
      BY <1>8 DEF ReadAck, Acknowledge, sockVars
    <2>2. /\ Len(toMe') = Len(toMe) - 1
          /\ \A k \in 1..Len(toMe) - 1 : toMe'[k] = toMe[k + 1]
      BY <1>1, <2>1, Channel
    <2>3. ASSUME NEW k \in 1..Len(toMe')
          PROVE  toMe'[k] \in 1..handed
      <3>1. k \in 1..(Len(toMe) - 1) /\ k + 1 \in 1..Len(toMe)
        BY <1>1, <2>2, NextIndex
      <3>2. QED
        BY <1>2, <2>2, <3>1
    <2>4. QED
      BY <1>3, <2>1, <2>3
  <1>9. ASSUME NEW c \in Closers, CloseSocket(c)
        PROVE  Numbers'
    <2>1. toMe' = <<>> /\ UNCHANGED <<handed, toPeer, conn>>
      BY <1>9 DEF CloseSocket, CloseEnd
    <2>2. Len(toMe') = 0
      BY <2>1
    <2>3. QED
      BY <1>3, <2>1, <2>2
  <1>10. CASE Break
    <2>1. Cut /\ UNCHANGED <<handed, conn>>
      BY <1>10, BreakEffect DEF Break, vars
    <2>2. /\ handed' \in Nat /\ handed <= handed' /\ conn' \in Nat /\ conn <= conn'
          /\ Len(toPeer') \in Nat /\ Len(toPeer') + 0 <= Len(toPeer)
          /\ \A i \in 1..Len(toPeer') : toPeer'[i] = toPeer[i + 0]
      BY <1>1, <2>1 DEF Cut
    <2>3. \A k \in 1..Len(toMe') : toMe'[k] \in 1..handed
      BY <1>1, <1>2, <2>1 DEF Cut
    <2>4. QED
      BY <2>2, <2>3, NumbersLess
  <1>11. CASE Receive
    <2>1. Taken /\ AcksFirst /\ UNCHANGED <<handed, conn>>
          /\ toPeer[1].seqn \in 1..handed
      BY <1>11, ReceiveEffect DEF vars
    <2>2. /\ handed' \in Nat /\ handed <= handed' /\ conn' \in Nat /\ conn <= conn'
          /\ Len(toPeer') \in Nat /\ Len(toPeer') + 1 <= Len(toPeer)
          /\ \A i \in 1..Len(toPeer') : toPeer'[i] = toPeer[i + 1]
      BY <1>1, <2>1 DEF Taken
    <2>3. \A k \in 1..Len(toMe') : toMe'[k] \in 1..handed
      BY <1>1, <1>2, <2>1 DEF AcksFirst
    <2>4. QED
      BY <2>2, <2>3, NumbersLess
  <1>12. CASE Outbox
    BY <1>4, <1>12, OutboxEffect
  <1>13. ASSUME NEW c \in Closers, Terminate(c)
         PROVE  Numbers'
    BY <1>4, <1>13 DEF Terminate, CloseBegin, netVars
  <1>14. CASE AcceptClosed \/ Resume \/ LeaveThread \/ Disconnected \/ Paused
    BY <1>4, <1>14
    DEF AcceptClosed, Resume, LeaveThread, Disconnected, Paused, ResumeBegin,
        PauseBegin, PauseEnd, vars, wireVars, netVars, sockVars
  <1>15. CASE Send \/ WireIdle \/ UNCHANGED allVars
    BY <1>4, <1>15 DEF Send, Put, WireIdle, Idle, allVars, vars, wireVars, netVars, sockVars
  <1>16. QED
    BY <1>5, <1>6, <1>7, <1>8, <1>9, <1>10, <1>11, <1>12, <1>13, <1>14, <1>15
    DEF WireNext

-----------------------------------------------------------------------------
\* The course of the owner through a connection: it resumes what it has set, a
\* connection works from Connect on, and it pauses only a broken one.
LEMMA Course ==
  ASSUME WireInv, [WireNext]_allVars
  PROVE  /\ conn' \in {conn, conn + 1}
         /\ terminated => terminated'
         /\ opc = "paused" /\ opc' # "paused" => sockPC = "set"
         /\ up' /\ ~up => Connect
         /\ opc = "running" /\ opc' # "running" => ~up'
  <1> DEFINE Goal == /\ conn' \in {conn, conn + 1}
                     /\ terminated => terminated'
                     /\ opc = "paused" /\ opc' # "paused" => sockPC = "set"
                     /\ up' /\ ~up => Connect
                     /\ opc = "running" /\ opc' # "running" => ~up'
  <1> USE DEF netVars, peerVars, sockVars, wireVars, vars, ownerVars
  <1>1. ASSUME NEW ok \in BOOLEAN, SendNew(ok) \/ SendAgain(ok)
        PROVE  Goal
    BY <1>1, SendNewEffect, SendAgainEffect
  <1>2. CASE Connect \/ AcceptClosed \/ LeaveThread \/ Break \/ WireIdle
    BY <1>2 DEF Connect, AcceptClosed, LeaveThread, Break, WireIdle, Idle
  <1>3. CASE Resume \/ ReadAck
    BY <1>3 DEF Resume, ResumeBegin, ReadAck, Acknowledge
  <1>4. CASE Disconnected \/ Paused
    BY <1>4 DEF Disconnected, Paused, PauseBegin, PauseEnd
  <1>5. CASE Outbox
    BY <1>5, OutboxEffect
  <1>6. ASSUME NEW c \in Closers, Terminate(c) \/ CloseSocket(c)
        PROVE  Goal
    BY <1>6 DEF Terminate, CloseSocket, CloseBegin, CloseEnd
  <1>7. CASE Receive \/ Send \/ UNCHANGED allVars
    BY <1>7 DEF Receive, Send, Put, allVars
  <1>8. QED
    BY <1>1, <1>2, <1>3, <1>4, <1>5, <1>6, <1>7 DEF WireNext

\* Before the first resumption the outbox is untouched.
LEMMA NotYetResumedStep ==
  ASSUME WireInv, [WireNext]_allVars, NotYetResumed, conn' <= 1
  PROVE  NotYetResumed'
  <1>1. /\ conn' \in {conn, conn + 1} /\ conn \in Nat
        /\ terminated => terminated'
        /\ opc = "paused" /\ opc' # "paused" => sockPC = "set"
        /\ up' /\ ~up => Connect
        /\ opc = "running" /\ opc' # "running" => ~up'
        /\ sockPC = "set" => conn > 0 \/ terminated
    BY Course, Scalars DEF WireInv, Phases
  <1>2. ASSUME conn' = 0, ~terminated'
        PROVE  opc' = "paused" /\ Untouched'
    <2>1. conn = 0 /\ ~terminated
      BY <1>1, <1>2
    <2>2. opc = "paused" /\ Untouched
      BY <2>1 DEF NotYetResumed
    <2>3. Untouched'
      BY <2>2, UntouchedStep
    <2>4. QED
      BY <1>1, <2>1, <2>2, <2>3
  <1>3. ASSUME up', opc' # "running"
        PROVE  Untouched'
    <2>1. opc # "running" /\ Untouched
      <3>1. CASE up
        BY <1>1, <1>3, <3>1 DEF NotYetResumed
      <3>2. CASE ~up
        <4>1. Connect
          BY <1>1, <1>3, <3>2
        <4>2. conn = 0 /\ ~terminated
          BY <1>1, <1>3, <4>1 DEF Connect
        <4>3. QED
          BY <4>2 DEF NotYetResumed
      <3>3. QED
        BY <3>1, <3>2
    <2>2. QED
      BY <2>1, UntouchedStep
  <1>4. QED
    BY <1>2, <1>3 DEF NotYetResumed

\* The packages under way stay the next ones.
LEMMA NextInLineStep ==
  ASSUME WireInv, [WireNext]_allVars, NotYetResumed, NextInLine, conn' <= 1
  PROVE  NextInLine'
  <1>1. PICK L \in Nat : L = Len(toPeer)
    BY Scalars
  <1>2. handed \in Nat /\ maxReceived \in Nat /\ conn \in Nat
    BY Scalars
  <1>3. \A i \in 1..L : toPeer[i].seqn = maxReceived + i
    BY <1>1 DEF NextInLine
  <1>4. maxReceived + L <= handed
    BY <1>1 DEF NextInLine
  <1>5. up => maxReceived + L = handed
    BY <1>1 DEF NextInLine
  <1>6. ASSUME UNCHANGED <<toPeer, maxReceived>>, handed' \in {handed, handed + 1},
               up' => maxReceived + L = handed'
        PROVE  NextInLine'
    <2>1. Len(toPeer') = L /\ maxReceived + L <= handed'
      BY <1>1, <1>2, <1>4, <1>6
    <2>2. QED
      BY <1>3, <1>6, <2>1 DEF NextInLine
  <1>7. ASSUME UNCHANGED <<toPeer, maxReceived, handed>>, up' => up
        PROVE  NextInLine'
    BY <1>5, <1>6, <1>7
  <1>8. ASSUME NEW ok \in BOOLEAN, SendNew(ok)
        PROVE  NextInLine'
    <2>1. CASE up
      <3>1. handed' = handed + 1 /\ Sent(handed + 1) /\ maxReceived' = maxReceived
        BY <1>8, <2>1, SendNewEffect
      <3>2. handed = maxReceived + L
        BY <1>5, <2>1
      <3>3. /\ Len(toPeer') = L + 1
            /\ \A i \in 1..L : toPeer'[i].seqn = maxReceived + i
            /\ toPeer'[L + 1].seqn = maxReceived + (L + 1)
        BY <1>1, <1>2, <1>3, <3>1, <3>2 DEF Sent
      <3>4. \A i \in 1..(L + 1) : i \in 1..L \/ i = L + 1
        OBVIOUS
      <3>5. \A i \in 1..(L + 1) : toPeer'[i].seqn = maxReceived + i
        BY <3>3, <3>4
      <3>6. maxReceived + (L + 1) = handed'
        BY <1>2, <3>1, <3>2
      <3>7. maxReceived + (L + 1) <= handed'
        BY <1>2, <3>6
      <3>8. QED
        BY <3>1, <3>3, <3>5, <3>6, <3>7 DEF NextInLine
    <2>2. CASE ~up
      BY <1>6, <1>8, <2>2, SendNewEffect
    <2>3. QED
      BY <2>1, <2>2
  <1>9. ASSUME NEW ok \in BOOLEAN, SendAgain(ok)
        PROVE  NextInLine'
    <2>1. /\ opc = "resend" /\ pending # <<>>
          /\ UNCHANGED <<maxReceived, handed, up>>
          /\ ~up => toPeer' = toPeer
      BY <1>9, SendAgainEffect
    <2>2. ~up
      BY <2>1 DEF NotYetResumed, Untouched
    <2>3. QED
      BY <1>7, <2>1, <2>2
  <1>10. CASE Connect
    <2>1. /\ conn = 0 /\ ~terminated
          /\ UNCHANGED <<toPeer, maxReceived, handed>>
      BY <1>2, <1>10 DEF Connect, vars, peerVars
    <2>2. handed = 0
      BY <2>1 DEF NotYetResumed, Untouched
    <2>3. maxReceived + L = handed'
      BY <1>2, <1>4, <2>1, <2>2
    <2>4. QED
      BY <1>6, <2>1, <2>3
  <1>11. CASE Break
    <2>1. Cut /\ ~up' /\ UNCHANGED <<maxReceived, handed>>
      BY <1>11, BreakEffect DEF Break, vars, peerVars
    <2>2. PICK k \in 0..L : k = Len(toPeer')
      BY <1>1, <2>1 DEF Cut
    <2>3. \A i \in 1..k : i \in 1..L /\ toPeer'[i] = toPeer[i]
      BY <1>1, <2>1, <2>2 DEF Cut
    <2>4. \A i \in 1..k : toPeer'[i].seqn = maxReceived + i
      BY <1>3, <2>3
    <2>5. maxReceived + k <= handed
      BY <1>2, <1>4
    <2>6. QED
      BY <2>1, <2>2, <2>4, <2>5 DEF NextInLine
  <1>12. CASE Receive
    <2>1. L > 0 /\ Len(toPeer') = L - 1
          /\ \A i \in 1..L - 1 : toPeer'[i] = toPeer[i + 1]
      BY <1>1, <1>12, ReceiveEffect DEF Taken
    <2>2. toPeer[1].seqn = maxReceived + 1
      BY <1>3, <2>1
    <2>3. UNCHANGED <<handed, up>>
      BY <1>12, ReceiveEffect DEF vars
    <2>4. maxReceived' = maxReceived + 1
      <3>1. ~(toPeer[1].seqn <= maxReceived)
        BY <1>2, <2>2
      <3>2. QED
        BY <1>12, <2>2, <3>1, ReceiveEffect
    <2>5. ASSUME NEW i \in 1..(L - 1)
          PROVE  toPeer'[i].seqn = (maxReceived + 1) + i
      <3>1. i + 1 \in 1..L
        BY <2>1
      <3>2. toPeer[i + 1].seqn = maxReceived + (i + 1)
        BY <1>3, <3>1
      <3>3. maxReceived + (i + 1) = (maxReceived + 1) + i
        BY <1>2
      <3>4. QED
        BY <2>1, <3>2, <3>3
    <2>6. (maxReceived + 1) + (L - 1) = maxReceived + L
      BY <1>2
    <2>7. QED
      BY <1>4, <1>5, <2>1, <2>3, <2>4, <2>5, <2>6 DEF NextInLine
  <1>13. CASE Outbox
    BY <1>7, <1>13, OutboxEffect
  <1>14. ASSUME NEW c \in Closers, Terminate(c) \/ CloseSocket(c)
         PROVE  NextInLine'
    BY <1>7, <1>14
    DEF Terminate, CloseSocket, CloseBegin, CloseEnd, netVars, peerVars
  <1>15. CASE AcceptClosed \/ Resume \/ LeaveThread \/ Paused
    BY <1>7, <1>15
    DEF AcceptClosed, Resume, LeaveThread, Paused, ResumeBegin, PauseEnd, vars,
        netVars, peerVars
  <1>16. CASE ReadAck \/ Disconnected
    BY <1>7, <1>16
    DEF ReadAck, Disconnected, Acknowledge, PauseBegin, wireVars, netVars,
        peerVars, sockVars
  <1>17. CASE Send \/ WireIdle \/ UNCHANGED allVars
    BY <1>7, <1>17
    DEF Send, Put, WireIdle, Idle, allVars, vars, wireVars, netVars, peerVars, sockVars
  <1>18. QED
    BY <1>8, <1>9, <1>10, <1>11, <1>12, <1>13, <1>14, <1>15, <1>16, <1>17
    DEF WireNext

\* What the receiving end does to what it has dispatched is Receive's doing.
LEMMA PeerFrame ==
  ASSUME WireInv, [WireNext]_allVars, ~Receive
  PROVE  UNCHANGED <<maxReceived, misframed, delivered>>
  <1> USE DEF wireVars, peerVars
  <1>1. ASSUME NEW ok \in BOOLEAN, SendNew(ok) \/ SendAgain(ok)
        PROVE  UNCHANGED <<maxReceived, misframed, delivered>>
    BY <1>1, SendNewEffect, SendAgainEffect
  <1>2. ASSUME NEW c \in Closers, Terminate(c) \/ CloseSocket(c)
        PROVE  UNCHANGED <<maxReceived, misframed, delivered>>
    BY <1>2 DEF Terminate, CloseSocket
  <1>3. QED
    BY <1>1, <1>2
    DEF WireNext, Send, Connect, AcceptClosed, Resume, LeaveThread, ReadAck,
        Disconnected, Paused, Outbox, Break, WireIdle, allVars

\* Every action keeps the first connection exact.
LEMMA FirstConnectionStep == WireInv /\ [WireNext]_allVars => FirstConnection'
  <1> SUFFICES ASSUME WireInv, [WireNext]_allVars, conn' <= 1
               PROVE  /\ NotYetResumed' /\ NextInLine'
                      /\ ~misframed'
                      /\ delivered' = [i \in 1..maxReceived' |-> i]
    BY DEF FirstConnection
  <1>1. conn <= 1
    BY Course, Scalars
  <1>2. NotYetResumed /\ NextInLine /\ ~misframed
        /\ delivered = [i \in 1..maxReceived |-> i]
    BY <1>1 DEF WireInv, FirstConnection
  <1>3. NotYetResumed' /\ NextInLine'
    BY <1>2, NotYetResumedStep, NextInLineStep
  <1>4. CASE Receive
    <2>1. maxReceived \in Nat
      BY Scalars
    <2>2. PICK n \in Nat : n = maxReceived + 1
      BY <2>1
    <2>3. toPeer[1].seqn = n
      <3>1. 1 \in 1..Len(toPeer)
        BY <1>4, ReceiveEffect, Scalars DEF Taken
      <3>2. QED
        BY <1>2, <2>2, <3>1 DEF NextInLine
    <2>4. ~(n <= maxReceived)
      BY <2>1, <2>2
    <2>5. /\ maxReceived' = n /\ ~misframed'
          /\ delivered' = Append(delivered, n)
      BY <1>2, <1>4, <2>3, <2>4, ReceiveEffect
    <2>6. Append(delivered, n) = [i \in 1..n |-> i]
      <3> DEFINE d == [i \in 1..maxReceived |-> i]
                 e == [i \in 1..n |-> i]
      <3>1. d \in Seq(Nat) /\ Len(d) = maxReceived
            /\ e \in Seq(Nat) /\ Len(e) = n
        BY <2>1
      <3>2. /\ Append(d, n) \in Seq(Nat)
            /\ Len(Append(d, n)) = n
            /\ \A i \in 1..maxReceived : Append(d, n)[i] = d[i]
            /\ Append(d, n)[maxReceived + 1] = n
        BY <2>1, <2>2, <3>1, AppendProperties
      <3>3. \A i \in 1..n : i \in 1..maxReceived \/ i = maxReceived + 1
        BY <2>1, <2>2
      <3>4. \A i \in 1..n : Append(d, n)[i] = e[i]
        BY <2>2, <3>2, <3>3
      <3>5. Append(d, n) = e
        BY <3>1, <3>2, <3>4, SeqEqual
      <3>6. QED
        BY <1>2, <3>5
    <2>7. QED
      BY <1>3, <2>5, <2>6
  <1>5. CASE ~Receive
    BY <1>2, <1>3, <1>5, PeerFrame
  <1>6. QED
    BY <1>4, <1>5

-----------------------------------------------------------------------------
\* Steps that change nothing of the network and do not move the owner from one
\* half of the connection's life into the other.
LEMMA FlowFrame ==
  ASSUME Flow,
         UNCHANGED <<overtook, toPeer, maxReceived, acked, toMe, conn>>,
         up' => up,
         up' /\ opc' \in {"paused", "resuming", "trim"}
           => opc \in {"paused", "resuming", "trim"},
         up' /\ opc' \in {"resend", "resent", "running"}
           => opc \in {"resend", "resent", "running"} /\ NextOut' = NextOut
  PROVE  Flow'
  <1>1. SUFFICES ASSUME ~overtook
                 PROVE  NoGaps' /\ AcksBehind' /\ Rising' /\ (up' => Unused' /\ Used')
    BY <1>1 DEF Flow
  <1>2. NoGaps /\ AcksBehind /\ Rising /\ (up => Unused /\ Used)
    BY <1>1 DEF Flow
  <1>3. NoGaps' /\ AcksBehind' /\ Rising'
    BY <1>2 DEF NoGaps, AcksBehind, Rising, Before
  <1>4. ASSUME up' PROVE Unused'
    BY <1>2, <1>4 DEF Unused
  <1>5. ASSUME up' PROVE Used'
    <2>1. Before(Len(toPeer) + 1)' = Before(Len(toPeer) + 1)
      BY DEF Before
    <2>2. QED
      BY <1>2, <1>5, <2>1 DEF Used
  <1>6. QED
    BY <1>3, <1>4, <1>5

\* The package tried next goes out on a connection that works.
LEMMA FlowSent ==
  ASSUME WireInv, ~overtook, up, opc \in {"resend", "resent", "running"},
         NEW n \in Nat, n = NextOut, acked < n, Sent(n),
         UNCHANGED <<toMe, maxReceived, conn, acked>>,
         opc' \in {"resend", "resent", "running"}, NextOut' = n + 1
  PROVE  Flow'
  <1>1. NoGaps /\ AcksBehind /\ Rising /\ Used
    BY DEF WireInv, Flow
  <1>2. PICK L \in Nat : L = Len(toPeer)
    BY Scalars
  <1>3. acked \in Nat /\ maxReceived \in Nat
    BY Scalars
  <1>4. \A i \in 1..L : toPeer[i].seqn \in Nat
    BY <1>2, Scalars
  <1>5. \A k \in 1..Len(toMe) : toMe[k] \in Nat
    BY Scalars
  <1>6. /\ Len(toPeer') = L + 1
        /\ \A i \in 1..L : toPeer'[i] = toPeer[i]
        /\ toPeer'[L + 1].seqn = n /\ toPeer'[L + 1].conn = conn
    BY <1>2 DEF Sent
  <1>7. /\ n <= Before(L + 1) + 1
        /\ \A i \in 1..L : toPeer[i].conn = conn => toPeer[i].seqn < n
        /\ \A k \in 1..Len(toMe) : toMe[k] < n
    BY <1>1, <1>2 DEF Used
  <1>8. \A i \in 1..(L + 1) : i \in 1..L \/ i = L + 1
    OBVIOUS
  <1>9. \A i \in 1..(L + 1) : Before(i)' = Before(i)
    <2> TAKE i \in 1..(L + 1)
    <2>1. CASE i = 1
      BY <2>1 DEF Before
    <2>2. CASE i # 1
      <3>1. i - 1 \in 1..L
        BY <2>2
      <3>2. toPeer'[i - 1] = toPeer[i - 1]
        BY <1>6, <3>1
      <3>3. QED
        BY <2>2, <3>2 DEF Before
    <2>3. QED
      BY <2>1, <2>2
  <1>10. NoGaps'
    <2>1. \A i \in 1..L : toPeer'[i].seqn <= Before(i)' + 1
      <3> TAKE i \in 1..L
      <3>1. toPeer[i].seqn <= Before(i) + 1
        BY <1>1, <1>2 DEF NoGaps
      <3>2. i \in 1..(L + 1)
        OBVIOUS
      <3>3. QED
        BY <1>6, <1>9, <3>1, <3>2
    <2>2. toPeer'[L + 1].seqn <= Before(L + 1)' + 1
      BY <1>6, <1>7, <1>9
    <2>3. \A i \in 1..(L + 1) : toPeer'[i].seqn <= Before(i)' + 1
      BY <1>8, <2>1, <2>2
    <2>4. QED
      BY <1>6, <2>3 DEF NoGaps
  <1>11. AcksBehind'
    <2>1. \A i \in 1..(L + 1) : acked < toPeer'[i].seqn
      BY <1>1, <1>2, <1>6, <1>8 DEF AcksBehind
    <2>2. \A k \in 1..Len(toMe) : /\ toMe[k] <= maxReceived
                                  /\ \A i \in 1..(L + 1) : toMe[k] < toPeer'[i].seqn
      BY <1>1, <1>2, <1>6, <1>7, <1>8 DEF AcksBehind
    <2>3. acked <= maxReceived
      BY <1>1 DEF AcksBehind
    <2>4. QED
      BY <1>6, <2>1, <2>2, <2>3 DEF AcksBehind
  <1>12. Rising'
    <2>1. ASSUME NEW i \in 1..(L + 1), NEW j \in 1..(L + 1), i < j,
                 toPeer'[i].conn = toPeer'[j].conn
          PROVE  toPeer'[i].seqn < toPeer'[j].seqn
      <3>1. i \in 1..L
        BY <2>1
      <3>2. CASE j = L + 1
        BY <1>6, <1>7, <2>1, <3>1, <3>2
      <3>3. CASE j \in 1..L
        BY <1>1, <1>2, <1>6, <2>1, <3>1, <3>3 DEF Rising
      <3>4. QED
        BY <1>8, <3>2, <3>3
    <2>2. QED
      BY <1>6, <2>1 DEF Rising
  <1>13. Unused'
    BY DEF Unused
  <1>14. Used'
    <2>1. Before(L + 2)' = n
      <3>1. L + 2 # 1 /\ L + 2 - 1 = L + 1
        OBVIOUS
      <3>2. QED
        BY <1>6, <3>1 DEF Before
    <2>2. Before(Len(toPeer) + 1)' = n
      <3>1. Len(toPeer') + 1 = L + 2
        BY <1>6
      <3>2. QED
        BY <2>1, <3>1 DEF Before
    <2>3. \A i \in 1..(L + 1) : toPeer'[i].conn = conn => toPeer'[i].seqn < n + 1
      <3> TAKE i \in 1..(L + 1)
      <3>1. CASE i = L + 1
        BY <1>6, <3>1
      <3>2. CASE i \in 1..L
        <4>1. toPeer[i].seqn \in Nat /\ toPeer'[i] = toPeer[i]
          BY <1>4, <1>6, <3>2
        <4>2. toPeer[i].conn = conn => toPeer[i].seqn < n
          BY <1>7, <3>2
        <4>3. QED
          BY <4>1, <4>2
      <3>3. QED
        BY <1>8, <3>1, <3>2
    <2>4. \A k \in 1..Len(toMe) : toMe[k] < n + 1
      BY <1>5, <1>7
    <2>5. QED
      BY <1>6, <2>2, <2>3, <2>4 DEF Used
  <1>15. QED
    BY <1>10, <1>11, <1>12, <1>13, <1>14 DEF Flow

\* What is under way loses a suffix, and the connection with it.
LEMMA FlowCut ==
  ASSUME WireInv, ~overtook, Cut, ~up', UNCHANGED <<maxReceived, acked>>
  PROVE  Flow'
  <1>1. NoGaps /\ AcksBehind /\ Rising
    BY DEF WireInv, Flow
  <1>2. PICK L \in Nat : L = Len(toPeer)
    BY Scalars
  <1>3. PICK k \in 0..L : k = Len(toPeer')
    BY <1>2 DEF Cut
  <1>4. PICK m \in 0..Len(toMe) : m = Len(toMe')
    BY DEF Cut
  <1>5. \A i \in 1..k : i \in 1..L /\ toPeer'[i] = toPeer[i]
    BY <1>2, <1>3 DEF Cut
  <1>6. \A i \in 1..m : i \in 1..Len(toMe) /\ toMe'[i] = toMe[i]
    BY <1>4, Scalars DEF Cut
  <1>7. NoGaps'
    <2>1. ASSUME NEW i \in 1..k
          PROVE  toPeer'[i].seqn <= Before(i)' + 1
      <3>1. toPeer[i].seqn <= Before(i) + 1
        BY <1>1, <1>2, <1>5 DEF NoGaps
      <3>2. Before(i)' = Before(i)
        <4>1. CASE i = 1
          BY <4>1 DEF Before
        <4>2. CASE i # 1
          <5>1. i - 1 \in 1..k
            BY <4>2
          <5>2. toPeer'[i - 1] = toPeer[i - 1]
            BY <1>5, <5>1
          <5>3. QED
            BY <4>2, <5>2 DEF Before
        <4>3. QED
          BY <4>1, <4>2
      <3>3. QED
        BY <1>5, <3>1, <3>2
    <2>2. QED
      BY <1>3, <2>1 DEF NoGaps
  <1>8. AcksBehind'
    BY <1>1, <1>2, <1>3, <1>4, <1>5, <1>6 DEF AcksBehind
  <1>9. Rising'
    BY <1>1, <1>2, <1>3, <1>5 DEF Rising
  <1>10. QED
    BY <1>7, <1>8, <1>9 DEF Flow

\* A new connection is unused.
LEMMA FlowConnect ==
  ASSUME WireInv, ~overtook, Connect
  PROVE  Flow'
  <1>1. NoGaps /\ AcksBehind /\ Rising
    BY DEF WireInv, Flow
  <1>2. /\ toMe' = <<>> /\ conn' = conn + 1 /\ conn \in Nat
        /\ UNCHANGED <<toPeer, maxReceived, acked, opc>>
    BY Scalars DEF Connect, vars, peerVars, ownerVars
  <1>3. Len(toMe') = 0
    BY <1>2
  <1>4. opc = "paused"
    BY DEF WireInv, Phases, Connect
  <1>5. NoGaps' /\ Rising'
    BY <1>1, <1>2 DEF NoGaps, Rising, Before
  <1>6. AcksBehind'
    BY <1>1, <1>2, <1>3 DEF AcksBehind
  <1>7. Unused'
    <2>1. ASSUME NEW i \in 1..Len(toPeer)
          PROVE  toPeer[i].conn < conn + 1
      <3>1. toPeer[i].conn <= conn
        BY DEF WireInv, Numbers
      <3>2. toPeer[i].conn \in Nat
        BY Scalars
      <3>3. QED
        BY <1>2, <3>1, <3>2
    <2>2. QED
      BY <1>2, <2>1 DEF Unused
  <1>8. Used'
    BY <1>2, <1>4 DEF Used
  <1>9. QED
    BY <1>5, <1>6, <1>7, <1>8 DEF Flow

\* Resending begins with the first number that is not acknowledged.
LEMMA FlowTrimmed ==
  ASSUME WireInv, ~overtook,
         UNCHANGED <<overtook, toPeer, maxReceived, acked, toMe, conn, up>>,
         opc = "trim", opc' = "resend", current' + resent' = acked + 1
  PROVE  Flow'
  <1>1. NoGaps /\ AcksBehind /\ Rising /\ (up => Unused)
    BY DEF WireInv, Flow
  <1>2. NoGaps' /\ AcksBehind' /\ Rising'
    BY <1>1 DEF NoGaps, AcksBehind, Rising, Before
  <1>3. Unused'
    BY DEF Unused
  <1>4. ASSUME up PROVE Used'
    <2>1. toMe = <<>> /\ \A i \in 1..Len(toPeer) : toPeer[i].conn < conn
      BY <1>1, <1>4 DEF Unused
    <2>2. Len(toMe) = 0
      BY <2>1
    <2>3. PICK L \in Nat : L = Len(toPeer)
      BY Scalars
    <2>4. acked \in Nat /\ maxReceived \in Nat /\ conn \in Nat
      BY Scalars
    <2>5. \A i \in 1..L : toPeer[i].seqn \in Nat /\ toPeer[i].conn \in Nat
      BY <2>3, Scalars
    <2>6. acked <= Before(L + 1)
      <3>1. CASE L = 0
        BY <1>1, <3>1 DEF AcksBehind, Before
      <3>2. CASE L # 0
        <4>1. L \in 1..L /\ L + 1 # 1 /\ L + 1 - 1 = L
          BY <3>2
        <4>2. acked < toPeer[L].seqn /\ toPeer[L].seqn \in Nat
          BY <1>1, <2>3, <2>5, <4>1 DEF AcksBehind
        <4>3. Before(L + 1) = toPeer[L].seqn
          BY <4>1 DEF Before
        <4>4. QED
          BY <2>4, <4>2, <4>3
      <3>3. QED
        BY <3>1, <3>2
    <2>7. Before(L + 1) \in Nat
      <3>1. CASE L = 0
        BY <2>4, <3>1 DEF Before
      <3>2. CASE L # 0
        <4>1. L \in 1..L /\ L + 1 # 1 /\ L + 1 - 1 = L
          BY <3>2
        <4>2. QED
          BY <2>5, <4>1 DEF Before
      <3>3. QED
        BY <3>1, <3>2
    <2>8. NextOut' = acked + 1
      BY DEF NextOut
    <2>9. acked + 1 <= Before(L + 1) + 1
      BY <2>4, <2>6, <2>7
    <2>10. Before(Len(toPeer) + 1)' = Before(L + 1)
      BY <2>3 DEF Before
    <2>11. \A i \in 1..Len(toPeer) : toPeer[i].conn # conn
      BY <2>1, <2>3, <2>4, <2>5
    <2>12. QED
      BY <2>2, <2>8, <2>9, <2>10, <2>11 DEF Used
  <1>5. QED
    BY <1>2, <1>3, <1>4 DEF Flow

\* Acknowledgements that have arrived are as far behind as those under way.
LEMMA FlowAcked ==
  ASSUME WireInv, ~overtook, ReadAck
  PROVE  Flow'
  <1>1. NoGaps /\ AcksBehind /\ Rising /\ (up => Unused /\ Used)
    BY DEF WireInv, Flow
  <1>2. /\ UNCHANGED <<toPeer, maxReceived, conn, up, opc, current, resent, handed>>
        /\ toMe # <<>> /\ toMe' = Tail(toMe)
        /\ acked' = IF Head(toMe) > acked THEN Head(toMe) ELSE acked
        /\ opc = "running"
    BY DEF ReadAck, Acknowledge, ownerVars, peerVars, sockVars
  <1>3. PICK K \in Nat : K = Len(toMe)
    BY Scalars
  <1>4. /\ K > 0 /\ Head(toMe) = toMe[1]
        /\ Len(toMe') = K - 1
        /\ \A k \in 1..K - 1 : toMe'[k] = toMe[k + 1]
    BY <1>2, <1>3, Channel DEF WireInv, WireTypeOK
  <1>5. acked' \in {acked, toMe[1]}
    BY <1>2, <1>4
  <1>6. NoGaps' /\ Rising'
    BY <1>1, <1>2 DEF NoGaps, Rising, Before
  <1>7. ASSUME NEW k \in 1..(K - 1)
        PROVE  k + 1 \in 1..Len(toMe) /\ toMe'[k] = toMe[k + 1]
    BY <1>3, <1>4
  <1>8. AcksBehind'
    <2>1. toMe[1] <= maxReceived /\ \A i \in 1..Len(toPeer) : toMe[1] < toPeer[i].seqn
      <3>1. 1 \in 1..Len(toMe)
        BY <1>3, <1>4
      <3>2. QED
        BY <1>1, <3>1 DEF AcksBehind
    <2>2. acked' <= maxReceived /\ \A i \in 1..Len(toPeer) : acked' < toPeer[i].seqn
      BY <1>1, <1>5, <2>1 DEF AcksBehind
    <2>3. \A k \in 1..(K - 1) : /\ toMe'[k] <= maxReceived
                                /\ \A i \in 1..Len(toPeer) : toMe'[k] < toPeer[i].seqn
      BY <1>1, <1>7 DEF AcksBehind
    <2>4. QED
      BY <1>2, <1>4, <2>2, <2>3 DEF AcksBehind
  <1>9. Unused'
    BY <1>2 DEF Unused
  <1>10. ASSUME up PROVE Used'
    <2>1. NextOut' = NextOut /\ Before(Len(toPeer) + 1)' = Before(Len(toPeer) + 1)
      BY <1>2 DEF NextOut, Before
    <2>2. \A k \in 1..(K - 1) : toMe'[k] < NextOut
      BY <1>1, <1>2, <1>7, <1>10 DEF Used
    <2>3. QED
      BY <1>1, <1>2, <1>4, <1>10, <2>1, <2>2 DEF Used
  <1>11. QED
    BY <1>2, <1>6, <1>8, <1>9, <1>10 DEF Flow

\* The receiving end takes the first package under way, and acknowledges it.
LEMMA FlowReceived ==
  ASSUME WireInv, ~overtook, Receive
  PROVE  Flow'
  <1>1. NoGaps /\ AcksBehind /\ Rising /\ (up => Unused /\ Used)
    BY DEF WireInv, Flow
  <1>2. UNCHANGED <<acked, conn, up, opc, current, resent, handed>>
    BY ReceiveEffect DEF vars
  <1>3. PICK L \in Nat : L = Len(toPeer)
    BY Scalars
  <1>4. /\ L > 0 /\ Len(toPeer') = L - 1
        /\ \A i \in 1..L - 1 : toPeer'[i] = toPeer[i + 1]
    BY <1>3, ReceiveEffect DEF Taken
  <1>5. acked \in Nat /\ maxReceived \in Nat /\ conn \in Nat
    BY Scalars
  <1>6. \A i \in 1..L : toPeer[i].seqn \in Nat /\ toPeer[i].conn \in Nat
    BY <1>3, Scalars
  <1>7. PICK n \in Nat : n = toPeer[1].seqn
    BY <1>4, <1>6
  <1>8. n <= maxReceived + 1 /\ acked < n /\ acked <= maxReceived
    <2>1. 1 \in 1..Len(toPeer)
      BY <1>3, <1>4
    <2>2. QED
      BY <1>1, <1>7, <2>1 DEF NoGaps, AcksBehind, Before
  <1>9. maxReceived' \in {maxReceived, n} /\ n <= maxReceived'
    <2>1. IF n <= maxReceived /\ n # 1 THEN maxReceived' = maxReceived
                                       ELSE maxReceived' = n
      BY <1>7, ReceiveEffect
    <2>2. QED
      BY <1>5, <2>1
  <1>10. maxReceived' \in Nat /\ acked <= maxReceived'
    BY <1>5, <1>8, <1>9
  <1>11. ASSUME NEW i \in 1..(L - 1)
         PROVE  /\ i \in Nat /\ i + 1 \in 1..L /\ i + 1 \in 1..Len(toPeer)
                /\ toPeer'[i] = toPeer[i + 1]
    BY <1>3, <1>4, NextIndex
  \* Before moves up with the packages, or grows.
  <1>12. ASSUME NEW i \in 1..L
         PROVE  /\ Before(i + 1) \in Nat /\ Before(i)' \in Nat
                /\ Before(i + 1) <= Before(i)'
    <2>1. i + 1 # 1 /\ i + 1 - 1 = i
      OBVIOUS
    <2>2. Before(i + 1) = toPeer[i].seqn
      BY <2>1 DEF Before
    <2>3. CASE i = 1
      <3>1. Before(i)' = maxReceived' /\ Before(i + 1) = n
        BY <1>7, <2>2, <2>3 DEF Before
      <3>2. QED
        BY <1>9, <1>10, <3>1
    <2>4. CASE i # 1
      <3>1. i - 1 \in 1..(L - 1) /\ (i - 1) + 1 = i
        BY <2>4
      <3>2. toPeer'[i - 1] = toPeer[i]
        BY <1>11, <3>1
      <3>3. Before(i)' = toPeer[i].seqn
        BY <2>4, <3>2 DEF Before
      <3>4. toPeer[i].seqn \in Nat
        BY <1>6
      <3>5. QED
        BY <2>2, <3>3, <3>4
    <2>5. QED
      BY <2>3, <2>4
  <1>13. NoGaps'
    <2>1. ASSUME NEW i \in 1..(L - 1)
          PROVE  toPeer'[i].seqn <= Before(i)' + 1
      <3>1. toPeer[i + 1].seqn <= Before(i + 1) + 1
        BY <1>1, <1>11 DEF NoGaps
      <3>2. toPeer[i + 1].seqn \in Nat
        BY <1>6, <1>11
      <3>3. i \in 1..L
        OBVIOUS
      <3>4. /\ Before(i + 1) \in Nat /\ Before(i)' \in Nat
            /\ Before(i + 1) <= Before(i)'
        BY <1>12, <3>3
      <3>5. toPeer[i + 1].seqn <= Before(i)' + 1
        BY <3>1, <3>2, <3>4
      <3>6. QED
        BY <1>11, <3>5
    <2>2. QED
      BY <1>4, <2>1 DEF NoGaps
  <1>14. Rising'
    <2>1. ASSUME NEW i \in 1..(L - 1), NEW j \in 1..(L - 1), i < j,
                 toPeer'[i].conn = toPeer'[j].conn
          PROVE  toPeer'[i].seqn < toPeer'[j].seqn
      <3>1. i + 1 < j + 1
        BY <1>11, <2>1
      <3>2. QED
        BY <1>1, <1>11, <2>1, <3>1 DEF Rising
    <2>2. QED
      BY <1>4, <2>1 DEF Rising
  <1>used. ASSUME up, Used, \A k \in 1..Len(toMe') : toMe'[k] < NextOut
           PROVE  Used'
    <2>1. NextOut' = NextOut
      BY <1>2 DEF NextOut
    <2>2. SUFFICES ASSUME opc \in {"resend", "resent", "running"}
                   PROVE  /\ NextOut <= Before(Len(toPeer) + 1)' + 1
                          /\ \A i \in 1..(L - 1) :
                               toPeer'[i].conn = conn => toPeer'[i].seqn < NextOut
      BY <1>2, <1>4, <1>used, <2>1 DEF Used, Before
    <2>3. NextOut <= Before(L + 1) + 1
      BY <1>3, <1>used, <2>2 DEF Used
    <2>4. L \in 1..L /\ Len(toPeer') + 1 = L
      BY <1>4
    <2>5. Before(L + 1) \in Nat /\ Before(L)' \in Nat /\ Before(L + 1) <= Before(L)'
      BY <1>12, <2>4
    <2>6. NextOut \in Nat
      <3>1. current \in Nat /\ resent \in Nat /\ handed \in Nat
        BY Scalars
      <3>2. QED
        BY <3>1 DEF NextOut
    <2>7. NextOut <= Before(L)' + 1
      BY <2>3, <2>5, <2>6
    <2>8. Before(Len(toPeer) + 1)' = Before(L)'
      BY <2>4 DEF Before
    <2>9. \A i \in 1..(L - 1) : toPeer'[i].conn = conn => toPeer'[i].seqn < NextOut
      BY <1>11, <1>used, <2>2 DEF Used
    <2>10. QED
      BY <2>7, <2>8, <2>9
  <1>15. PICK K \in Nat : K = Len(toMe)
    BY Scalars
  <1>16. \A k \in 1..K : toMe[k] \in Nat
    BY <1>15, Scalars
  <1>17. CASE up /\ toPeer[1].conn = conn
    <2>1. /\ Len(toMe') = K + 1
          /\ \A k \in 1..K : toMe'[k] = toMe[k]
          /\ toMe'[K + 1] = n
      BY <1>7, <1>15, <1>17, ReceiveEffect DEF AcksFirst
    <2>2. \A k \in 1..(K + 1) : k \in 1..K \/ k = K + 1
      OBVIOUS
    <2>3. AcksBehind'
      <3>1. \A i \in 1..(L - 1) : acked < toPeer'[i].seqn
        BY <1>1, <1>11 DEF AcksBehind
      <3>2. ASSUME NEW i \in 1..(L - 1)
            PROVE  n < toPeer'[i].seqn
        <4>1. 1 \in 1..Len(toPeer) /\ 1 < i + 1
          BY <1>3, <1>4, <1>11
        <4>2. toPeer[1].conn <= toPeer[i + 1].conn /\ toPeer[i + 1].conn <= conn
          BY <1>11, <4>1 DEF WireInv, Numbers
        <4>3. toPeer[i + 1].conn \in Nat
          BY <1>6, <1>11
        <4>4. toPeer[i + 1].conn = conn
          BY <1>5, <1>17, <4>2, <4>3
        <4>5. toPeer[1].seqn < toPeer[i + 1].seqn
          BY <1>1, <1>11, <1>17, <4>1, <4>4 DEF Rising
        <4>6. QED
          BY <1>7, <1>11, <4>5
      <3>3. ASSUME NEW k \in 1..K
            PROVE  /\ toMe'[k] <= maxReceived'
                   /\ \A i \in 1..(L - 1) : toMe'[k] < toPeer'[i].seqn
        <4>1. k \in 1..Len(toMe) /\ 1 \in 1..Len(toPeer)
          BY <1>3, <1>4, <1>15
        <4>2. toMe[k] <= maxReceived /\ toMe[k] < n
          BY <1>1, <1>7, <4>1 DEF AcksBehind
        <4>3. toMe[k] \in Nat
          BY <1>16
        <4>4. toMe[k] <= maxReceived'
          BY <1>7, <1>9, <4>2, <4>3
        <4>5. \A i \in 1..(L - 1) : toMe[k] < toPeer'[i].seqn
          BY <1>1, <1>11, <4>1 DEF AcksBehind
        <4>6. QED
          BY <2>1, <4>4, <4>5
      <3>4. ASSUME NEW k \in 1..(K + 1)
            PROVE  /\ toMe'[k] <= maxReceived'
                   /\ \A i \in 1..(L - 1) : toMe'[k] < toPeer'[i].seqn
        BY <1>9, <2>1, <2>2, <3>2, <3>3
      <3>5. QED
        BY <1>2, <1>4, <1>10, <2>1, <3>1, <3>4 DEF AcksBehind
    <2>4. opc \notin {"paused", "resuming", "trim"}
      <3>1. 1 \in 1..Len(toPeer)
        BY <1>3, <1>4
      <3>2. ~(toPeer[1].conn < conn)
        BY <1>5, <1>17
      <3>3. QED
        BY <1>1, <1>17, <3>1, <3>2 DEF Unused
    <2>5. Unused'
      BY <1>2, <2>4 DEF Unused
    <2>6. ASSUME opc \in {"resend", "resent", "running"}
          PROVE  n < NextOut /\ \A k \in 1..(K + 1) : toMe'[k] < NextOut
      <3>1. 1 \in 1..Len(toPeer)
        BY <1>3, <1>4
      <3>2. n < NextOut
        BY <1>1, <1>7, <1>17, <2>6, <3>1 DEF Used
      <3>3. \A k \in 1..K : toMe[k] < NextOut
        BY <1>1, <1>15, <1>17, <2>6 DEF Used
      <3>4. QED
        BY <2>1, <2>2, <3>2, <3>3
    <2>7. Used'
      <3>1. CASE opc \in {"resend", "resent", "running"}
        BY <1>1, <1>17, <1>used, <2>1, <2>6, <3>1
      <3>2. CASE opc \notin {"resend", "resent", "running"}
        BY <1>2, <3>2 DEF Used
      <3>3. QED
        BY <3>1, <3>2
    <2>8. QED
      BY <1>13, <1>14, <2>3, <2>5, <2>7 DEF Flow
  <1>18. CASE ~(up /\ toPeer[1].conn = conn)
    <2>1. toMe' = toMe
      BY <1>18, ReceiveEffect DEF AcksFirst
    <2>2. AcksBehind'
      <3>1. \A i \in 1..(L - 1) : acked < toPeer'[i].seqn
        BY <1>1, <1>11 DEF AcksBehind
      <3>2. ASSUME NEW k \in 1..K
            PROVE  /\ toMe[k] <= maxReceived'
                   /\ \A i \in 1..(L - 1) : toMe[k] < toPeer'[i].seqn
        <4>1. k \in 1..Len(toMe) /\ 1 \in 1..Len(toPeer)
          BY <1>3, <1>4, <1>15
        <4>2. toMe[k] <= maxReceived /\ toMe[k] < n
          BY <1>1, <1>7, <4>1 DEF AcksBehind
        <4>3. toMe[k] \in Nat
          BY <1>16
        <4>4. toMe[k] <= maxReceived'
          BY <1>7, <1>9, <4>2, <4>3
        <4>5. \A i \in 1..(L - 1) : toMe[k] < toPeer'[i].seqn
          BY <1>1, <1>11, <4>1 DEF AcksBehind
        <4>6. QED
          BY <4>4, <4>5
      <3>3. QED
        BY <1>2, <1>4, <1>10, <1>15, <2>1, <3>1, <3>2 DEF AcksBehind
    <2>3. ASSUME up PROVE Unused'
      <3>1. Unused
        BY <1>1, <2>3
      <3>2. QED
        BY <1>2, <1>4, <1>11, <2>1, <3>1 DEF Unused
    <2>4. ASSUME up PROVE Used'
      <3>1. CASE opc \in {"resend", "resent", "running"}
        <4>1. \A k \in 1..Len(toMe) : toMe[k] < NextOut
          BY <1>1, <2>4, <3>1 DEF Used
        <4>2. QED
          BY <1>1, <1>used, <2>1, <2>4, <4>1
      <3>2. CASE opc \notin {"resend", "resent", "running"}
        BY <1>2, <3>2 DEF Used
      <3>3. QED
        BY <3>1, <3>2
    <2>5. QED
      BY <1>2, <1>13, <1>14, <2>2, <2>3, <2>4 DEF Flow
  <1>19. QED
    BY <1>17, <1>18

\* Every action keeps the flow of numbers.
LEMMA FlowStep == WireInv /\ [WireNext]_allVars => Flow'
  <1> SUFFICES ASSUME WireInv, [WireNext]_allVars
               PROVE  Flow'
    OBVIOUS
  <1>0. Flow
    BY DEF WireInv
  <1>1. CASE overtook
    <2>1. overtook'
      <3>1. ASSUME NEW ok \in BOOLEAN, SendNew(ok) \/ SendAgain(ok)
            PROVE  overtook'
        BY <1>1, <3>1, SendNewEffect, SendAgainEffect
      <3>2. ASSUME NEW c \in Closers, Terminate(c) \/ CloseSocket(c)
            PROVE  overtook'
        BY <1>1, <3>2 DEF Terminate, CloseSocket
      <3>3. QED
        BY <1>1, <3>1, <3>2
        DEF WireNext, Send, Connect, AcceptClosed, Resume, LeaveThread, ReadAck,
            Disconnected, Paused, Outbox, Break, Receive, WireIdle, allVars, wireVars
    <2>2. QED
      BY <2>1 DEF Flow
  <1>2. CASE ~overtook
    <2>1. ASSUME NEW ok \in BOOLEAN, SendNew(ok)
          PROVE  Flow'
      <3>1. CASE ~up
        <4>1. /\ UNCHANGED <<toPeer, maxReceived, acked, toMe, conn, up>>
              /\ overtook' = overtook
          BY <1>2, <2>1, <3>1, SendNewEffect DEF WireInv, WireTypeOK
        <4>2. QED
          BY <1>0, <3>1, <4>1, FlowFrame
      <3>2. CASE up /\ opc \in {"paused", "resuming"}
        BY <2>1, <3>2, SendNewEffect DEF Flow
      <3>3. CASE up /\ opc \notin {"paused", "resuming"}
        <4>1. /\ handed' = handed + 1 /\ Sent(handed + 1)
              /\ UNCHANGED <<toMe, maxReceived, conn, acked, opc, current, resent>>
              /\ opc \notin {"trim", "resend"}
          BY <2>1, <3>3, SendNewEffect
        <4>2. opc \in {"resent", "running"}
          BY <3>3, <4>1 DEF WireInv, IInv, TypeOK, OwnerPCs, Phases
        <4>3. handed \in Nat /\ acked \in Nat /\ acked <= handed
          BY Scalars DEF WireInv, IInv, Control
        <4>4. handed + 1 = NextOut /\ NextOut' = (handed + 1) + 1
          BY <4>1, <4>2 DEF NextOut
        <4>5. handed + 1 \in Nat /\ acked < handed + 1
          BY <4>3
        <4>6. QED
          BY <1>2, <3>3, <4>1, <4>2, <4>4, <4>5, FlowSent
      <3>4. QED
        BY <3>1, <3>2, <3>3
    <2>2. ASSUME NEW ok \in BOOLEAN, SendAgain(ok)
          PROVE  Flow'
      <3>1. CASE ~up
        BY <1>0, <2>2, <3>1, SendAgainEffect, FlowFrame
      <3>2. CASE up
        <4>1. /\ opc = "resend" /\ opc' = "resend" /\ resent' = resent + 1
              /\ current + resent \in (acked + 1)..handed /\ Sent(current + resent)
              /\ UNCHANGED <<toMe, maxReceived, conn, acked, current>>
          BY <2>2, <3>2, SendAgainEffect
        <4>2. current \in Nat /\ resent \in Nat /\ acked \in Nat /\ handed \in Nat
          BY Scalars
        <4>3. /\ current + resent \in Nat /\ acked < current + resent
              /\ current + (resent + 1) = (current + resent) + 1
          BY <4>1, <4>2
        <4>4. current + resent = NextOut /\ NextOut' = (current + resent) + 1
          BY <4>1, <4>3 DEF NextOut
        <4>5. QED
          BY <1>2, <3>2, <4>1, <4>3, <4>4, FlowSent
      <3>3. QED
        BY <3>1, <3>2
    <2>3. CASE Connect
      BY <1>2, <2>3, FlowConnect
    <2>4. CASE ReadAck
      BY <1>2, <2>4, FlowAcked
    <2>5. CASE Receive
      BY <1>2, <2>5, FlowReceived
    <2>6. CASE Break
      BY <1>2, <2>6, BreakEffect, FlowCut DEF Break, vars, peerVars
    <2>7. ASSUME NEW c \in Closers, CloseSocket(c)
          PROVE  Flow'
      <3>1. toMe' = <<>> /\ up' = FALSE
            /\ UNCHANGED <<toPeer, maxReceived, acked>>
        BY <2>7 DEF CloseSocket, CloseEnd, peerVars
      <3>2. Len(toMe') = 0 /\ Len(toMe) \in Nat /\ Len(toPeer) \in Nat
        BY <3>1, Scalars
      <3>3. Cut
        BY <3>1, <3>2 DEF Cut
      <3>4. QED
        BY <1>2, <3>1, <3>3, FlowCut
    <2>8. CASE Outbox
      <3>1. UNCHANGED <<toPeer, toMe, maxReceived, conn, up, overtook, handed, acked>>
        BY <2>8, OutboxEffect
      <3>2. CASE opc = "trim" /\ opc' = "resend" /\ current' + resent' = acked + 1
        BY <1>2, <3>1, <3>2, FlowTrimmed
      <3>3. CASE opc = "resend" /\ opc' = "resent" /\ current + resent = handed + 1
        <4>1. NextOut' = NextOut
          BY <3>1, <3>3 DEF NextOut
        <4>2. QED
          BY <1>0, <3>1, <3>3, <4>1, FlowFrame
      <3>4. CASE \/ UNCHANGED <<opc, current, resent>>
                 \/ opc = "resuming" /\ opc' = "trim"
                 \/ opc = "trim" /\ opc' = "trim"
                 \/ opc = "resent" /\ opc' = "running"
        <4>1. opc' \in {"resend", "resent", "running"}
                => NextOut' = NextOut /\ opc \in {"resend", "resent", "running"}
          BY <3>1, <3>4 DEF NextOut
        <4>2. opc' \in {"paused", "resuming", "trim"}
                => opc \in {"paused", "resuming", "trim"}
          BY <3>4
        <4>3. QED
          BY <1>0, <3>1, <4>1, <4>2, FlowFrame
      <3>5. QED
        BY <2>8, <3>2, <3>3, <3>4, OutboxEffect
    <2>9. ASSUME NEW c \in Closers, Terminate(c)
          PROVE  Flow'
      <3>1. UNCHANGED <<overtook, toPeer, maxReceived, acked, toMe, conn, up, opc,
                        current, resent, handed>>
        BY <2>9 DEF Terminate, CloseBegin, netVars, peerVars, ownerVars
      <3>2. NextOut' = NextOut
        BY <3>1 DEF NextOut
      <3>3. QED
        BY <1>0, <3>1, <3>2, FlowFrame
    <2>10. CASE AcceptClosed \/ LeaveThread \/ Send \/ WireIdle \/ UNCHANGED allVars
      <3>1. UNCHANGED <<overtook, toPeer, maxReceived, acked, toMe, conn, up, opc,
                        current, resent, handed>>
        BY <2>10
        DEF AcceptClosed, LeaveThread, Send, Put, WireIdle, Idle, allVars, vars,
            wireVars, netVars, peerVars, sockVars, ownerVars
      <3>2. NextOut' = NextOut
        BY <3>1 DEF NextOut
      <3>3. QED
        BY <1>0, <3>1, <3>2, FlowFrame
    <2>11. CASE Resume \/ Disconnected \/ Paused
      <3>1. /\ UNCHANGED <<overtook, toPeer, maxReceived, acked, toMe, conn>>
            /\ \/ opc = "paused" /\ opc' = "resuming" /\ up' = up
               \/ ~up'
        BY <2>11
        DEF Resume, ResumeBegin, Disconnected, PauseBegin, Paused, PauseEnd,
            wireVars, netVars, peerVars, sockVars
      <3>2. up' => up
        BY <2>11
        DEF Resume, Disconnected, Paused, wireVars, sockVars
      <3>3. QED
        BY <1>0, <3>1, <3>2, FlowFrame
    <2>12. QED
      BY <2>1, <2>2, <2>3, <2>4, <2>5, <2>6, <2>7, <2>8, <2>9, <2>10, <2>11
      DEF WireNext
  <1>3. QED
    BY <1>1, <1>2

-----------------------------------------------------------------------------
\* A number that starts a run, or goes on with it, joins what is dispatched.
LEMMA DispatchedMore ==
  ASSUME WireInv, InRuns, UpToDate, NEW n \in Nat, n = 1 \/ n = maxReceived + 1,
         maxReceived' = n, delivered' = Append(delivered, n)
  PROVE  InRuns' /\ UpToDate'
  <1>1. PICK D \in Nat : D = Len(delivered)
    BY Scalars
  <1>2. maxReceived \in Nat
    BY Scalars
  <1>3. /\ Len(delivered') = D + 1
        /\ \A i \in 1..D : delivered'[i] = delivered[i]
        /\ delivered'[D + 1] = n
    BY <1>1, AppendProperties DEF WireInv, WireTypeOK
  <1>4. InRuns'
    <2>1. ASSUME NEW i \in 1..(D + 1)
          PROVE  delivered'[i] = 1 \/ (i > 1 /\ delivered'[i] = delivered'[i - 1] + 1)
      <3>1. CASE i \in 1..D
        <4>1. delivered[i] = 1 \/ (i > 1 /\ delivered[i] = delivered[i - 1] + 1)
          BY <1>1, <3>1 DEF InRuns
        <4>2. i > 1 => i - 1 \in 1..D
          BY <3>1
        <4>3. QED
          BY <1>3, <3>1, <4>1, <4>2
      <3>2. CASE i = D + 1
        <4>1. CASE n = 1
          BY <1>3, <3>2, <4>1
        <4>2. CASE n # 1
          <5>1. n = maxReceived + 1 /\ maxReceived # 0
            BY <1>2, <4>2
          <5>2. D # 0 /\ delivered[D] = maxReceived
            <6>1. IF D = 0 THEN maxReceived = 0 ELSE delivered[D] = maxReceived
              BY <1>1 DEF UpToDate
            <6>2. QED
              BY <5>1, <6>1
          <5>3. i > 1 /\ i - 1 = D /\ D \in 1..D
            BY <3>2, <5>2
          <5>4. delivered'[i - 1] = maxReceived
            BY <1>3, <5>2, <5>3
          <5>5. QED
            BY <1>3, <3>2, <5>1, <5>3, <5>4
        <4>3. QED
          BY <4>1, <4>2
      <3>3. i \in 1..D \/ i = D + 1
        OBVIOUS
      <3>4. QED
        BY <3>1, <3>2, <3>3
    <2>2. QED
      BY <1>3, <2>1 DEF InRuns
  <1>5. \A k \in 1..n : \E i \in 1..(D + 1) : delivered'[i] = k
    <2> TAKE k \in 1..n
    <2>1. CASE k = n
      BY <1>3, <2>1
    <2>2. CASE k # n
      <3>1. k \in 1..maxReceived
        BY <1>2, <2>2
      <3>2. PICK i \in 1..D : delivered[i] = k
        BY <1>1, <3>1 DEF UpToDate
      <3>3. i \in 1..(D + 1) /\ delivered'[i] = k
        BY <1>3, <3>2
      <3>4. QED
        BY <3>3
    <2>3. QED
      BY <2>1, <2>2
  <1>6. UpToDate'
    <2>1. Len(delivered') # 0
      BY <1>3
    <2>2. delivered'[Len(delivered')] = maxReceived'
      BY <1>3
    <2>3. QED
      BY <1>3, <1>5, <2>1, <2>2 DEF UpToDate
  <1>7. QED
    BY <1>4, <1>6

\* Every action keeps what is dispatched in runs.
LEMMA DispatchedStep == WireInv /\ [WireNext]_allVars => Dispatched'
  <1> SUFFICES ASSUME WireInv, [WireNext]_allVars, ~overtook'
               PROVE  InRuns' /\ (~misframed' => UpToDate')
    BY DEF Dispatched
  <1>1. ~overtook
    <2>1. ASSUME NEW ok \in BOOLEAN, SendNew(ok) \/ SendAgain(ok)
          PROVE  ~overtook
      BY <2>1, SendNewEffect, SendAgainEffect
    <2>2. ASSUME NEW c \in Closers, Terminate(c) \/ CloseSocket(c)
          PROVE  ~overtook
      BY <2>2 DEF Terminate, CloseSocket
    <2>3. QED
      BY <2>1, <2>2
      DEF WireNext, Send, Connect, AcceptClosed, Resume, LeaveThread, ReadAck,
          Disconnected, Paused, Outbox, Break, Receive, WireIdle, allVars, wireVars
  <1>2. InRuns /\ (~misframed => UpToDate)
    BY <1>1 DEF WireInv, Dispatched
  <1>3. CASE Receive
    <2>1. maxReceived \in Nat
      BY Scalars
    <2>2. 1 \in 1..Len(toPeer)
      BY <1>3, ReceiveEffect, Scalars DEF Taken
    <2>3. PICK n \in Nat : n = toPeer[1].seqn
      BY <2>2, Scalars
    <2>4. n <= maxReceived + 1
      BY <1>1, <2>2, <2>3 DEF WireInv, Flow, NoGaps, Before
    <2>5. CASE n <= maxReceived /\ n # 1
      <3>1. misframed' = TRUE /\ UNCHANGED <<maxReceived, delivered>>
        BY <1>3, <2>3, <2>5, ReceiveEffect
      <3>2. QED
        BY <1>2, <3>1 DEF InRuns
    <2>6. CASE ~(n <= maxReceived /\ n # 1)
      <3>1. /\ maxReceived' = n /\ misframed' = misframed
            /\ delivered' = IF misframed THEN delivered ELSE Append(delivered, n)
        BY <1>3, <2>3, <2>6, ReceiveEffect
      <3>2. CASE misframed
        BY <1>2, <3>1, <3>2 DEF InRuns
      <3>3. CASE ~misframed
        <4>1. n = 1 \/ n = maxReceived + 1
          BY <2>1, <2>4, <2>6
        <4>2. QED
          BY <1>2, <3>1, <3>3, <4>1, DispatchedMore
      <3>4. QED
        BY <3>2, <3>3
    <2>7. QED
      BY <2>5, <2>6
  <1>4. CASE ~Receive
    BY <1>2, <1>4, PeerFrame DEF InRuns, UpToDate
  <1>5. QED
    BY <1>3, <1>4

-----------------------------------------------------------------------------
\* The inductive invariant of the wire holds in every reachable state.
THEOREM WireInvariance == WireSpec => []WireInv
  <1>1. WireInv /\ [WireNext]_allVars => WireInv'
    BY OutboxInvariant, WireTypeStep, PhasesStep, NumbersStep, FirstConnectionStep,
       FlowStep, DispatchedStep
    DEF WireInv
  <1>2. QED
    BY WireInitInvariant, <1>1, PTL DEF WireSpec

\* Types, of the wire and of its outbox.
THEOREM WireTypeCorrect == WireSpec => []WireTypeOK
  <1>1. WireInv => WireTypeOK
    BY DEF WireInv
  <1>2. QED
    BY <1>1, WireInvariance, PTL

\* Whatever the socket thread, the application and the termination do, they use
\* the outbox within the contract its own theorems are proved under.
THEOREM OutboxContract == WireSpec => UsesOutboxCorrectly
  <1>1. WireInv /\ [WireNext]_allVars => [Next]_vars
    BY OutboxStep
  <1>2. QED
    BY <1>1, WireInvariance, PTL DEF WireSpec, UsesOutboxCorrectly

\* Hence what is proved about the outbox alone holds for the outbox of a wire.
THEOREM OutboxKeepsAll == WireSpec => [](NumberedByAcceptance /\ PopsOnlyPending)
  <1>1. WireInv => NumberedByAcceptance /\ PopsOnlyPending
    BY PopsOnlyPendingLemma DEF WireInv, IInv, Control, NumberedByAcceptance
  <1>2. QED
    BY <1>1, WireInvariance, PTL

\* Before the first reconnection every message arrives once and in order.
THEOREM FirstConnectionIsExact == WireSpec => []FirstConnectionExact
  <1>1. WireInv => FirstConnectionExact
    BY DEF WireInv, FirstConnection, FirstConnectionExact
  <1>2. QED
    BY <1>1, WireInvariance, PTL

\* Across reconnections messages are dispatched in runs.
THEOREM RunsAreDispatched == WireSpec => []DispatchedInRuns
  <1>1. WireInv => DispatchedInRuns
    BY DEF WireInv, Dispatched, InRuns, DispatchedInRuns
  <1>2. QED
    BY <1>1, WireInvariance, PTL

\* What the sender may throw away has been dispatched.
THEOREM ThrownAwayIsDispatched == WireSpec => []AcknowledgedIsDispatched
  <1>1. ASSUME WireInv, ~overtook, ~misframed, NEW n \in 1..acked
        PROVE  \E i \in 1..Len(delivered) : delivered[i] = n
    <2>1. acked <= maxReceived /\ UpToDate
      BY <1>1 DEF WireInv, Flow, AcksBehind, Dispatched
    <2>2. acked \in Nat /\ maxReceived \in Nat
      BY <1>1, Scalars
    <2>3. n \in 1..maxReceived
      BY <2>1, <2>2, Widen
    <2>4. QED
      BY <2>1, <2>3 DEF UpToDate
  <1>2. WireInv => AcknowledgedIsDispatched
    BY <1>1 DEF AcknowledgedIsDispatched
  <1>3. QED
    BY <1>2, WireInvariance, PTL

-----------------------------------------------------------------------------
(* The heartbeat.                                                          *)

Ping == [sent : Nat, echo : Nat]

\* The pings on their way to an end are as old as they are far ahead, none is
\* older than what the end has heard already, and none echoes a ping that its
\* sender has not heard.
InChannel(e) ==
  /\ \A i \in 1..Len(pings[e]) : /\ heard[e] <= pings[e][i].sent
                                 /\ pings[e][i].sent <= timestamp[Other(e)]
                                 /\ pings[e][i].echo <= heard[Other(e)]
  /\ \A i, j \in 1..Len(pings[e]) : i <= j => pings[e][i].sent <= pings[e][j].sent

\* What an end knows of its counterpart, holds of it or is about to echo is never
\* ahead of it.
Knows(e) ==
  /\ heard[e] <= timestamp[Other(e)]
  /\ echoed[e] <= heard[Other(e)]
  /\ reader[e] = "echo" => taken[e] <= heard[Other(e)]
  /\ packed[e] <= heard[e]

\* The comparison that the socket thread is about to act on was right when it made it.
Compared(e) ==
  reader[e] = "set" => /\ taken[e] <= timestamp[e]
                       /\ taken[e] - heard[Other(e)] <= MaximumHeartbeatDelay

\* Between its own comparison and its ping the heartbeat thread leaves a belief
\* one beat less to live.
Checked == {"pack", "send", "count"}

Fresh(e) ==
  /\ pinger[e] # "asleep" => timestamp[e] < MaxTimestamp
  /\ alive[e] => timestamp[e] - heard[Other(e)] <= MaximumHeartbeatDelay + lag[e] + 1
  /\ alive[e] /\ pinger[e] \in Checked =>
       timestamp[e] - heard[Other(e)] <= MaximumHeartbeatDelay + lag[e]

BeatInv ==
  BeatTypeOK /\ \A e \in Ends : InChannel(e) /\ Knows(e) /\ Compared(e) /\ Fresh(e)

\* What Append, Tail and taking a prefix do to the pings under way.
LEMMA PingSequences ==
  ASSUME NEW s \in Seq(Ping)
  PROVE  /\ Len(s) \in Nat
         /\ \A i \in 1..Len(s) : s[i] \in Ping
         /\ \A p \in Ping :
              /\ Append(s, p) \in Seq(Ping)
              /\ Len(Append(s, p)) = Len(s) + 1
              /\ \A i \in 1..Len(s) + 1 :
                   Append(s, p)[i] = IF i = Len(s) + 1 THEN p ELSE s[i]
         /\ s # <<>> => /\ Len(s) > 0
                        /\ Head(s) = s[1]
                        /\ Tail(s) \in Seq(Ping)
                        /\ Len(Tail(s)) = Len(s) - 1
                        /\ \A i \in 1..Len(s) - 1 : Tail(s)[i] = s[i + 1]
         /\ \A k \in 0..Len(s) : /\ SubSeq(s, 1, k) \in Seq(Ping)
                                 /\ Len(SubSeq(s, 1, k)) = k
                                 /\ \A i \in 1..k : SubSeq(s, 1, k)[i] = s[i]
  <1>1. Len(s) \in Nat /\ \A i \in 1..Len(s) : s[i] \in Ping
    BY LenProperties, ElementOfSeq
  <1>2. ASSUME NEW p \in Ping
        PROVE  /\ Append(s, p) \in Seq(Ping)
               /\ Len(Append(s, p)) = Len(s) + 1
               /\ \A i \in 1..Len(s) + 1 :
                    Append(s, p)[i] = IF i = Len(s) + 1 THEN p ELSE s[i]
    BY <1>1, AppendProperties
  <1>3. ASSUME s # <<>>
        PROVE  /\ Len(s) > 0
               /\ Head(s) = s[1]
               /\ Tail(s) \in Seq(Ping)
               /\ Len(Tail(s)) = Len(s) - 1
               /\ \A i \in 1..Len(s) - 1 : Tail(s)[i] = s[i + 1]
    BY <1>1, <1>3, HeadTailProperties, EmptySeq
  <1>4. ASSUME NEW k \in 0..Len(s)
        PROVE  /\ SubSeq(s, 1, k) \in Seq(Ping)
               /\ Len(SubSeq(s, 1, k)) = k
               /\ \A i \in 1..k : SubSeq(s, 1, k)[i] = s[i]
    BY <1>1, SubSeqProperties
  <1>5. QED
    BY <1>1, <1>2, <1>3, <1>4

\* There are two ends.
LEMMA TwoEnds ==
  /\ \A e \in Ends : Other(e) \in Ends /\ Other(e) # e /\ Other(Other(e)) = e
  /\ \A e, f \in Ends : f = e \/ f = Other(e)
  BY DEF Ends, Other

\* Nothing has been sent and nobody is believed alive.
LEMMA BeatInitial == BeatInit => BeatInv
  BY BoundAssumption, DelayAssumption, EmptySeq
  DEF BeatInit, BeatInv, BeatTypeOK, InChannel, Knows, Compared, Fresh, Checked, Ends, Other

\* A step of one end moves none of its counters backwards and leaves the other
\* end's part alone ...
Beside(e, o) ==
  /\ heard[e] <= heard'[e] /\ timestamp[e] <= timestamp'[e]
  /\ heard'[o] = heard[o] /\ timestamp'[o] = timestamp[o] /\ echoed'[o] = echoed[o]
  /\ alive'[o] = alive[o] /\ pinger'[o] = pinger[o] /\ packed'[o] = packed[o]
  /\ reader'[o] = reader[o] /\ taken'[o] = taken[o] /\ lag'[o] = lag[o]

\* ... so what the other end knows, has compared and believes stays true.
LEMMA OthersBelieve ==
  ASSUME BeatInv, BeatTypeOK', NEW e \in Ends, NEW o \in Ends, o # e, Beside(e, o)
  PROVE  Knows(o)' /\ Compared(o)' /\ Fresh(o)'
  <1>1. Other(o) = e
    BY TwoEnds
  <1>2. /\ timestamp[o] \in Nat /\ heard[o] \in Nat /\ echoed[o] \in Nat
        /\ packed[o] \in Nat /\ taken[o] \in Nat /\ lag[o] \in Nat
        /\ heard[e] \in Nat /\ timestamp[e] \in Nat
        /\ heard'[e] \in Nat /\ timestamp'[e] \in Nat
    BY BoundAssumption DEF BeatInv, BeatTypeOK
  <1>3. Knows(o) /\ Compared(o) /\ Fresh(o)
    BY DEF BeatInv
  <1>4. Knows(o)' /\ Compared(o)'
    BY <1>1, <1>2, <1>3, DelayAssumption DEF Knows, Compared, Beside
  <1>5. \A b \in Int : timestamp[o] - heard[e] <= b => timestamp[o] - heard'[e] <= b
    BY <1>2 DEF Beside
  <1>6. MaximumHeartbeatDelay + lag[o] \in Int /\ MaximumHeartbeatDelay + lag[o] + 1 \in Int
    BY <1>2, DelayAssumption
  <1>7. Fresh(o)'
    BY <1>1, <1>3, <1>5, <1>6 DEF Fresh, Beside
  <1>8. QED
    BY <1>4, <1>7

\* What the invariant says of one end's numbers.
LEMMA BeatNumbers ==
  ASSUME BeatInv, NEW e \in Ends, NEW o \in Ends, o = Other(e)
  PROVE  /\ timestamp[e] \in Nat /\ heard[e] \in Nat /\ echoed[e] \in Nat
         /\ packed[e] \in Nat /\ taken[e] \in Nat /\ lag[e] \in Nat
         /\ timestamp[o] \in Nat /\ heard[o] \in Nat
         /\ heard[e] <= timestamp[o] /\ echoed[e] <= heard[o] /\ packed[e] <= heard[e]
         /\ reader[e] = "echo" => taken[e] <= heard[o]
         /\ reader[e] = "set" => /\ taken[e] <= timestamp[e]
                                /\ taken[e] - heard[o] <= MaximumHeartbeatDelay
         /\ pinger[e] # "asleep" => timestamp[e] < MaxTimestamp
         /\ alive[e] => timestamp[e] - heard[o] <= MaximumHeartbeatDelay + lag[e] + 1
         /\ alive[e] /\ pinger[e] \in Checked =>
              timestamp[e] - heard[o] <= MaximumHeartbeatDelay + lag[e]
  <1>1. /\ timestamp[e] \in Nat /\ heard[e] \in Nat /\ echoed[e] \in Nat
        /\ packed[e] \in Nat /\ taken[e] \in Nat /\ lag[e] \in Nat
        /\ timestamp[o] \in Nat /\ heard[o] \in Nat
    BY BoundAssumption DEF BeatInv, BeatTypeOK
  <1>2. Knows(e) /\ Compared(e) /\ Fresh(e)
    BY DEF BeatInv
  <1>3. QED
    BY <1>1, <1>2 DEF Knows, Compared, Fresh

\* A step that leaves the channels and the counters alone leaves the channels in
\* order.
LEMMA BeatFrame ==
  ASSUME BeatInv, UNCHANGED <<timestamp, heard, pings>>
  PROVE  \A f \in Ends : InChannel(f)'
  BY DEF BeatInv, InChannel

\* Every action of either end, and of the connection, keeps the invariant.
LEMMA BeatStep == BeatInv /\ [BeatNext]_beatVars => BeatInv'
  <1> SUFFICES ASSUME BeatInv, [BeatNext]_beatVars
               PROVE  BeatInv'
    OBVIOUS
  <1> USE BoundAssumption, DelayAssumption
  <1>t. BeatTypeOK
    BY DEF BeatInv
  <1>n. \A f \in Ends : /\ timestamp[f] \in Nat /\ heard[f] \in Nat /\ echoed[f] \in Nat
                        /\ packed[f] \in Nat /\ taken[f] \in Nat /\ lag[f] \in Nat
                        /\ pings[f] \in Seq(Ping) /\ Len(pings[f]) \in Nat
                        /\ \A i \in 1..Len(pings[f]) :
                             pings[f][i].sent \in Nat /\ pings[f][i].echo \in Nat
    BY PingSequences DEF BeatInv, BeatTypeOK, Ping
  <1>i. \A f \in Ends : InChannel(f) /\ Knows(f) /\ Compared(f) /\ Fresh(f)
    BY DEF BeatInv
  <1>1. ASSUME NEW e \in Ends, PingBegin(e)
        PROVE  BeatInv'
    <2>0. PICK o \in Ends : o = Other(e) /\ Other(o) = e /\ o # e
      BY TwoEnds
    <2>1. BeatTypeOK'
      <3>1. /\ pinger' \in [Ends -> {"asleep", "lower", "pack", "send", "count"}]
            /\ lag' \in [Ends -> Nat]
        <4>1. /\ pinger \in [Ends -> {"asleep", "lower", "pack", "send", "count"}]
              /\ lag \in [Ends -> Nat]
          BY <1>t DEF BeatTypeOK
        <4>2. QED
          BY <1>1, <4>1 DEF PingBegin
      <3>2. QED
        BY <1>1, <1>t, <3>1 DEF PingBegin, BeatTypeOK
    <2>2. /\ UNCHANGED <<timestamp, heard, echoed, alive, packed, reader, taken, pings>>
          /\ pinger'[o] = pinger[o] /\ lag'[o] = lag[o]
          /\ timestamp[e] < MaxTimestamp /\ pinger[e] = "asleep"
          /\ \/ /\ timestamp[e] - echoed[e] <= MaximumHeartbeatDelay
                /\ pinger'[e] = "pack" /\ lag'[e] = 0
             \/ pinger'[e] = "lower" /\ lag'[e] = lag[e]
      BY <1>1, <1>t, <2>0 DEF PingBegin, BeatTypeOK, connection_established
    <2>3. Knows(e)' /\ Compared(e)' /\ Fresh(e)'
      BY <2>0, <2>2, BeatNumbers DEF Knows, Compared, Fresh, Checked
    <2>4. Knows(o)' /\ Compared(o)' /\ Fresh(o)'
      <3>1. Beside(e, o)
        BY <1>n, <2>2 DEF Beside
      <3>2. QED
        BY <2>0, <2>1, <3>1, OthersBelieve
    <2>5. \A f \in Ends : InChannel(f)'
      BY <2>2, BeatFrame
    <2>6. QED
      BY <2>0, <2>1, <2>3, <2>4, <2>5, TwoEnds DEF BeatInv
  <1>2. ASSUME NEW e \in Ends, PingLower(e) \/ PingPack(e) \/ PingFailed(e)
        PROVE  BeatInv'
    <2>0. PICK o \in Ends : o = Other(e) /\ Other(o) = e /\ o # e
      BY TwoEnds
    <2>1. BeatTypeOK'
      <3>1. /\ pinger' \in [Ends -> {"asleep", "lower", "pack", "send", "count"}]
            /\ lag' \in [Ends -> Nat] /\ packed' \in [Ends -> Nat]
            /\ alive' \in [Ends -> BOOLEAN]
        <4>1. /\ pinger \in [Ends -> {"asleep", "lower", "pack", "send", "count"}]
              /\ lag \in [Ends -> Nat] /\ packed \in [Ends -> Nat]
              /\ alive \in [Ends -> BOOLEAN] /\ heard[e] \in Nat
          BY <1>t DEF BeatTypeOK
        <4>2. CASE PingLower(e)
          BY <4>1, <4>2 DEF PingLower
        <4>3. CASE PingPack(e)
          BY <4>1, <4>3 DEF PingPack
        <4>4. CASE PingFailed(e)
          BY <4>1, <4>4 DEF PingFailed
        <4>5. QED
          BY <1>2, <4>2, <4>3, <4>4
      <3>2. UNCHANGED <<timestamp, heard, echoed, reader, taken, pings, linked, broken>>
        BY <1>2 DEF PingLower, PingPack, PingFailed
      <3>3. QED
        BY <1>t, <3>1, <3>2 DEF BeatTypeOK
    <2>2. /\ UNCHANGED <<timestamp, heard, echoed, reader, taken, pings>>
          /\ pinger'[o] = pinger[o] /\ lag'[o] = lag[o] /\ packed'[o] = packed[o]
          /\ alive'[o] = alive[o]
      BY <1>2, <1>t, <2>0 DEF PingLower, PingPack, PingFailed, BeatTypeOK
    <2>3. /\ packed'[e] \in {0, packed[e], heard[e]}
          /\ pinger[e] # "asleep"
          /\ \/ alive'[e] = FALSE
             \/ /\ pinger[e] \in Checked /\ alive'[e] = alive[e] /\ lag'[e] = lag[e]
      BY <1>2, <1>t DEF PingLower, PingPack, PingFailed, BeatTypeOK, Checked
    <2>4. Knows(e)' /\ Compared(e)' /\ Fresh(e)'
      BY <2>0, <2>2, <2>3, BeatNumbers DEF Knows, Compared, Fresh
    <2>5. Knows(o)' /\ Compared(o)' /\ Fresh(o)'
      <3>1. Beside(e, o)
        BY <1>n, <2>2 DEF Beside
      <3>2. QED
        BY <2>0, <2>1, <3>1, OthersBelieve
    <2>6. \A f \in Ends : InChannel(f)'
      BY <2>2, BeatFrame
    <2>7. QED
      BY <2>0, <2>1, <2>4, <2>5, <2>6, TwoEnds DEF BeatInv
  <1>3. ASSUME NEW e \in Ends, PingSent(e)
        PROVE  BeatInv'
    <2>0. PICK o \in Ends : o = Other(e) /\ Other(o) = e /\ o # e
      BY TwoEnds
    <2>1. PICK p \in Ping : p = [sent |-> timestamp[e], echo |-> packed[e]]
      BY <1>n DEF Ping
    <2>2. p.sent = timestamp[e] /\ p.echo = packed[e] /\ packed[e] <= heard[e]
      BY <1>i, <2>1 DEF Knows
    <2>3. /\ UNCHANGED <<timestamp, heard, echoed, alive, reader, taken, lag, linked, broken>>
          /\ pinger[e] = "send" /\ pinger' = [pinger EXCEPT ![e] = "count"]
          /\ packed' = [packed EXCEPT ![e] = 0]
          /\ pings' \in {pings, [pings EXCEPT ![o] = Append(pings[o], p)]}
      BY <1>3, <2>0, <2>1 DEF PingSent
    <2>t. BeatTypeOK'
      <3>1. Append(pings[o], p) \in Seq(Ping)
        BY <1>n, PingSequences
      <3>2. pings' \in [Ends -> Seq(Ping)]
        BY <1>t, <2>3, <3>1 DEF BeatTypeOK, Ping
      <3>3. QED
        BY <1>t, <2>3, <3>2 DEF BeatTypeOK, Ping
    <2>p. /\ pinger'[e] = "count" /\ pinger'[o] = pinger[o]
          /\ packed'[e] = 0 /\ packed'[o] = packed[o]
          /\ pings'[e] = pings[e] /\ pings'[o] \in {pings[o], Append(pings[o], p)}
      BY <1>t, <2>0, <2>3 DEF BeatTypeOK
    <2>4. InChannel(e)'
      BY <1>i, <2>3, <2>p DEF InChannel
    <2>k. Knows(e)' /\ Compared(e)' /\ Fresh(e)'
      BY <2>0, <2>3, <2>p, BeatNumbers DEF Knows, Compared, Fresh, Checked
    <2>5. InChannel(o)'
      <3>1. CASE pings'[o] = pings[o]
        BY <1>i, <2>3, <3>1 DEF InChannel
      <3>2. CASE pings'[o] = Append(pings[o], p)
        <4>1. /\ Len(pings'[o]) = Len(pings[o]) + 1
              /\ \A i \in 1..Len(pings[o]) : pings'[o][i] = pings[o][i]
              /\ pings'[o][Len(pings[o]) + 1] = p
          BY <1>n, <3>2, PingSequences
        <4>2. /\ \A i \in 1..Len(pings[o]) : /\ heard[o] <= pings[o][i].sent
                                             /\ pings[o][i].sent <= timestamp[e]
                                             /\ pings[o][i].echo <= heard[e]
              /\ heard[o] <= timestamp[e]
          BY <1>i, <2>0 DEF InChannel, Knows
        <4>3. ASSUME NEW i \in 1..Len(pings'[o])
              PROVE  /\ heard[o] <= pings'[o][i].sent
                     /\ pings'[o][i].sent <= timestamp[e]
                     /\ pings'[o][i].sent \in Nat
                     /\ pings'[o][i].echo <= heard[e]
          <5>1. /\ Len(pings[o]) \in Nat /\ timestamp[e] \in Nat /\ heard[e] \in Nat
                /\ \A k \in 1..Len(pings[o]) : pings[o][k].sent \in Nat
            BY <1>n
          <5>2. CASE i = Len(pings[o]) + 1
            BY <2>2, <4>1, <4>2, <5>1, <5>2
          <5>3. CASE i \in 1..Len(pings[o])
            BY <4>1, <4>2, <5>1, <5>3
          <5>4. QED
            BY <4>1, <5>1, <5>2, <5>3
        <4>4. ASSUME NEW i \in 1..Len(pings'[o]), NEW j \in 1..Len(pings'[o]), i <= j
              PROVE  pings'[o][i].sent <= pings'[o][j].sent
          <5>1. CASE j = Len(pings[o]) + 1
            BY <2>2, <4>1, <4>3, <5>1
          <5>2. CASE j \in 1..Len(pings[o])
            <6>1. /\ Len(pings[o]) \in Nat
                  /\ \A k, m \in 1..Len(pings[o]) : k <= m => pings[o][k].sent <= pings[o][m].sent
              BY <1>n, <1>i DEF InChannel
            <6>2. i \in 1..Len(pings[o])
              BY <4>4, <5>2, <6>1
            <6>3. QED
              BY <4>1, <4>4, <5>2, <6>1, <6>2
          <5>3. QED
            BY <1>n, <4>1, <5>1, <5>2
        <4>5. UNCHANGED <<timestamp, heard>>
          BY <2>3
        <4>6. QED
          BY <2>0, <4>3, <4>4, <4>5 DEF InChannel
      <3>3. QED
        BY <2>p, <3>1, <3>2
    <2>6. Knows(o)' /\ Compared(o)' /\ Fresh(o)'
      <3>1. Beside(e, o)
        BY <1>n, <2>3, <2>p DEF Beside
      <3>2. QED
        BY <2>0, <2>t, <3>1, OthersBelieve
    <2>7. QED
      BY <2>0, <2>t, <2>4, <2>k, <2>5, <2>6, TwoEnds DEF BeatInv
  <1>4. ASSUME NEW e \in Ends, PingCount(e)
        PROVE  BeatInv'
    <2>0. PICK o \in Ends : o = Other(e) /\ Other(o) = e /\ o # e
      BY TwoEnds
    <2>1. /\ UNCHANGED <<heard, echoed, alive, packed, reader, taken, lag, pings>>
          /\ timestamp'[e] = timestamp[e] + 1 /\ timestamp'[o] = timestamp[o]
          /\ pinger[e] = "count" /\ pinger'[e] = "asleep" /\ pinger'[o] = pinger[o]
          /\ timestamp[e] < MaxTimestamp
      BY <1>4, <1>t, <1>i, <2>0 DEF PingCount, BeatTypeOK, Fresh
    <2>2. BeatTypeOK'
      <3>1. /\ pinger' \in [Ends -> {"asleep", "lower", "pack", "send", "count"}]
            /\ timestamp' \in [Ends -> 0..MaxTimestamp]
        <4>1. /\ pinger \in [Ends -> {"asleep", "lower", "pack", "send", "count"}]
              /\ timestamp \in [Ends -> 0..MaxTimestamp] /\ timestamp[e] \in Nat
          BY <1>t, <1>n DEF BeatTypeOK
        <4>2. timestamp[e] + 1 \in 0..MaxTimestamp
          BY <2>1, <4>1, BoundAssumption
        <4>3. QED
          BY <1>4, <4>1, <4>2 DEF PingCount
      <3>2. QED
        BY <1>4, <1>t, <3>1 DEF PingCount, BeatTypeOK
    <2>3. Knows(e)' /\ Compared(e)' /\ Fresh(e)'
      BY <2>0, <2>1, BeatNumbers DEF Knows, Compared, Fresh, Checked
    <2>4. Knows(o)' /\ Compared(o)' /\ Fresh(o)'
      <3>1. Beside(e, o)
        BY <1>n, <2>1 DEF Beside
      <3>2. QED
        BY <2>0, <2>2, <3>1, OthersBelieve
    <2>5. InChannel(e)'
      BY <1>i, <2>0, <2>1 DEF InChannel
    <2>6. InChannel(o)'
      <3>1. InChannel(o)
        BY <1>i
      <3>2. timestamp[e] \in Nat /\ \A i \in 1..Len(pings[o]) : pings[o][i].sent \in Nat
        BY <1>n
      <3>3. QED
        BY <2>0, <2>1, <3>1, <3>2 DEF InChannel
    <2>7. QED
      BY <2>0, <2>2, <2>3, <2>4, <2>5, <2>6, TwoEnds DEF BeatInv
  <1>5. ASSUME NEW e \in Ends, ReadPing(e)
        PROVE  BeatInv'
    <2>0. PICK o \in Ends : o = Other(e) /\ Other(o) = e /\ o # e
      BY TwoEnds
    <2>1. PICK s \in Seq(Ping) : s = pings[e] /\ s # <<>>
      BY <1>5, <1>n DEF ReadPing
    <2>2. /\ Len(s) \in Nat \ {0} /\ Head(s) = s[1] /\ s[1] \in Ping
          /\ Tail(s) \in Seq(Ping) /\ Len(Tail(s)) = Len(s) - 1
          /\ \A i \in 1..Len(s) - 1 : Tail(s)[i] = s[i + 1]
      BY <2>1, PingSequences
    <2>3. s[1].sent \in Nat /\ s[1].echo \in Nat
      BY <2>2 DEF Ping
    <2>4. /\ heard' = [heard EXCEPT ![e] = s[1].sent]
          /\ taken' = [taken EXCEPT ![e] = s[1].echo]
          /\ reader' = [reader EXCEPT ![e] = "echo"]
          /\ pings' = [pings EXCEPT ![e] = Tail(s)]
          /\ UNCHANGED <<timestamp, echoed, alive, pinger, packed, lag, linked, broken>>
      BY <1>5, <2>1, <2>2 DEF ReadPing
    <2>t. BeatTypeOK'
      BY <1>t, <2>2, <2>3, <2>4 DEF BeatTypeOK, Ping
    <2>p. /\ heard'[e] = s[1].sent /\ heard'[o] = heard[o]
          /\ taken'[e] = s[1].echo /\ taken'[o] = taken[o]
          /\ reader'[e] = "echo" /\ reader'[o] = reader[o]
          /\ pings'[e] = Tail(s) /\ pings'[o] = pings[o]
      BY <1>t, <2>0, <2>4 DEF BeatTypeOK
    <2>5. heard[e] <= s[1].sent /\ s[1].sent <= timestamp[o] /\ s[1].echo <= heard[o]
      BY <1>i, <2>0, <2>1, <2>2 DEF InChannel
    <2>6. InChannel(e)'
      <3>1. /\ \A i \in 1..Len(s) : /\ s[1].sent <= s[i].sent
                                    /\ s[i].sent <= timestamp[o]
                                    /\ s[i].echo <= heard[o]
            /\ \A i, j \in 1..Len(s) : i <= j => s[i].sent <= s[j].sent
        BY <1>i, <2>0, <2>1, <2>2 DEF InChannel
      <3>2. QED
        <4>1. heard'[e] = s[1].sent /\ heard'[o] = heard[o] /\ timestamp'[o] = timestamp[o]
          BY <2>4, <2>p
        <4>2. /\ Len(pings'[e]) = Len(s) - 1
              /\ \A i \in 1..Len(s) - 1 : pings'[e][i] = s[i + 1] /\ i + 1 \in 1..Len(s)
          BY <2>2, <2>p
        <4>3. \A i \in 1..Len(s) - 1 : /\ s[1].sent <= pings'[e][i].sent
                                        /\ pings'[e][i].sent <= timestamp[o]
                                        /\ pings'[e][i].echo <= heard[o]
          BY <3>1, <4>2
        <4>4. ASSUME NEW i \in 1..Len(s) - 1, NEW j \in 1..Len(s) - 1, i <= j
              PROVE  pings'[e][i].sent <= pings'[e][j].sent
          <5>1. /\ i + 1 \in 1..Len(s) /\ j + 1 \in 1..Len(s)
                /\ pings'[e][i] = s[i + 1] /\ pings'[e][j] = s[j + 1]
            BY <4>2
          <5>2. i + 1 <= j + 1
            BY <2>2, <4>4
          <5>4. s[i + 1].sent <= s[j + 1].sent
            BY <3>1, <5>1, <5>2
          <5>5. QED
            BY <5>1, <5>4
        <4>5. QED
          BY <2>0, <4>1, <4>2, <4>3, <4>4 DEF InChannel
    <2>7. InChannel(o)'
      <3>1. InChannel(o)
        BY <1>i
      <3>2. heard[e] \in Nat /\ \A i \in 1..Len(pings[o]) : pings[o][i].echo \in Nat
        BY <1>n
      <3>3. QED
        BY <2>0, <2>3, <2>4, <2>5, <2>p, <3>1, <3>2 DEF InChannel
    <2>8. Knows(e)' /\ Compared(e)' /\ Fresh(e)'
      BY <1>n, <1>i, <2>0, <2>3, <2>4, <2>5, <2>p DEF Knows, Compared, Fresh
    <2>9. Knows(o)' /\ Compared(o)' /\ Fresh(o)'
      <3>1. timestamp[e] <= timestamp[e]
        BY <1>n
      <3>2. Beside(e, o)
        BY <2>4, <2>5, <2>p, <3>1 DEF Beside
      <3>3. QED
        BY <2>0, <2>t, <3>2, OthersBelieve
    <2>10. QED
      BY <2>0, <2>t, <2>6, <2>7, <2>8, <2>9, TwoEnds DEF BeatInv
  <1>6. ASSUME NEW e \in Ends, ReadEcho(e) \/ Compare(e) \/ SetAlive(e)
        PROVE  BeatInv'
    <2>0. PICK o \in Ends : o = Other(e) /\ Other(o) = e /\ o # e
      BY TwoEnds
    <2>1. /\ UNCHANGED <<timestamp, heard, pinger, packed, pings, linked, broken>>
          /\ echoed'[o] = echoed[o] /\ alive'[o] = alive[o] /\ lag'[o] = lag[o]
          /\ reader'[o] = reader[o] /\ taken'[o] = taken[o]
      BY <1>6, <1>t, <2>0 DEF ReadEcho, Compare, SetAlive, BeatTypeOK
    <2>2. \A f \in Ends : InChannel(f)'
      BY <2>1, BeatFrame
    <2>3. ASSUME ReadEcho(e)
          PROVE  BeatTypeOK' /\ Knows(e)' /\ Compared(e)' /\ Fresh(e)'
      <3>1. BeatTypeOK'
        BY <2>3, <1>t DEF ReadEcho, BeatTypeOK
      <3>2. /\ reader[e] = "echo" /\ reader'[e] = "compare" /\ echoed'[e] = taken[e]
            /\ alive'[e] = alive[e] /\ lag'[e] = lag[e]
        BY <2>3, <1>t DEF ReadEcho, BeatTypeOK
      <3>3. Knows(e)' /\ Compared(e)' /\ Fresh(e)'
        BY <1>i, <2>0, <2>1, <3>2 DEF Knows, Compared, Fresh
      <3>4. QED
        BY <3>1, <3>3
    <2>4. ASSUME Compare(e)
          PROVE  BeatTypeOK' /\ Knows(e)' /\ Compared(e)' /\ Fresh(e)'
      <3>1. BeatTypeOK'
        <4>1. /\ reader' \in [Ends -> {"reading", "echo", "compare", "set"}]
              /\ taken' \in [Ends -> Nat]
          <5>1. /\ reader \in [Ends -> {"reading", "echo", "compare", "set"}]
                /\ taken \in [Ends -> Nat] /\ timestamp[e] \in Nat
            BY <1>t, <1>n DEF BeatTypeOK
          <5>2. QED
            BY <2>4, <5>1 DEF Compare
        <4>2. QED
          BY <2>4, <1>t, <4>1 DEF Compare, BeatTypeOK
      <3>2. /\ \/ /\ timestamp[e] - echoed[e] <= MaximumHeartbeatDelay
                  /\ reader'[e] = "set" /\ taken'[e] = timestamp[e]
               \/ reader'[e] = "reading"
            /\ echoed'[e] = echoed[e] /\ alive'[e] = alive[e] /\ lag'[e] = lag[e]
        BY <2>4, <1>t DEF Compare, BeatTypeOK, connection_established
      <3>3. Knows(e)' /\ Compared(e)' /\ Fresh(e)'
        BY <2>0, <2>1, <3>2, BeatNumbers DEF Knows, Compared, Fresh
      <3>4. QED
        BY <3>1, <3>3
    <2>5. ASSUME SetAlive(e)
          PROVE  BeatTypeOK' /\ Knows(e)' /\ Compared(e)' /\ Fresh(e)'
      <3>1. /\ reader[e] = "set" /\ reader'[e] = "reading" /\ echoed'[e] = echoed[e]
            /\ \/ alive[e] /\ lag'[e] = lag[e]
               \/ lag'[e] = timestamp[e] - taken[e]
        BY <2>5, <1>t DEF SetAlive, BeatTypeOK
      <3>2. taken[e] <= timestamp[e] /\ taken[e] - heard[o] <= MaximumHeartbeatDelay
        BY <1>i, <2>0, <3>1 DEF Compared
      <3>3. lag' \in [Ends -> Nat]
        <4>1. /\ lag \in [Ends -> Nat] /\ lag[e] \in Nat
              /\ timestamp[e] \in Nat /\ taken[e] \in Nat
          BY <1>t, <1>n DEF BeatTypeOK
        <4>2. timestamp[e] - taken[e] \in Nat
          BY <3>2, <4>1
        <4>3. QED
          BY <2>5, <4>1, <4>2 DEF SetAlive
      <3>4. BeatTypeOK'
        <4>1. /\ alive' \in [Ends -> BOOLEAN] /\ taken' \in [Ends -> Nat]
              /\ reader' \in [Ends -> {"reading", "echo", "compare", "set"}]
          BY <2>5, <1>t DEF SetAlive, BeatTypeOK
        <4>2. QED
          BY <2>5, <1>t, <3>3, <4>1 DEF SetAlive, BeatTypeOK
      <3>5. alive[e] /\ lag'[e] = lag[e] => Fresh(e)'
        BY <2>0, <2>1, <3>2, BeatNumbers DEF Fresh
      <3>7. lag'[e] = timestamp[e] - taken[e] => Fresh(e)'
        BY <2>0, <2>1, <3>2, BeatNumbers DEF Fresh
      <3>8. Knows(e)' /\ Compared(e)'
        BY <1>i, <2>0, <2>1, <3>1 DEF Knows, Compared
      <3>9. QED
        BY <3>1, <3>4, <3>5, <3>7, <3>8
    <2>6. BeatTypeOK' /\ Knows(e)' /\ Compared(e)' /\ Fresh(e)'
      BY <1>6, <2>3, <2>4, <2>5
    <2>7. Knows(o)' /\ Compared(o)' /\ Fresh(o)'
      <3>1. Beside(e, o)
        BY <1>n, <2>1 DEF Beside
      <3>2. QED
        BY <2>0, <2>6, <3>1, OthersBelieve
    <2>8. QED
      BY <2>0, <2>2, <2>6, <2>7, TwoEnds DEF BeatInv
  <1>7. CASE LoseConnection
    <2>1. PICK k \in 0..Len(pings[1]), m \in 0..Len(pings[2]) :
            pings' = [e \in Ends |-> SubSeq(pings[e], 1, IF e = 1 THEN k ELSE m)]
      BY <1>7 DEF LoseConnection
    <2>2. ASSUME NEW f \in Ends
          PROVE  \E n \in 0..Len(pings[f]) : pings'[f] = SubSeq(pings[f], 1, n)
      BY <2>1 DEF Ends
    <2>3. ASSUME NEW f \in Ends
          PROVE  /\ pings'[f] \in Seq(Ping)
                 /\ Len(pings'[f]) \in 0..Len(pings[f])
                 /\ \A i \in 1..Len(pings'[f]) : pings'[f][i] = pings[f][i]
      <3>1. PICK n \in 0..Len(pings[f]) : pings'[f] = SubSeq(pings[f], 1, n)
        BY <2>2
      <3>2. pings[f] \in Seq(Ping)
        BY <1>t DEF BeatTypeOK, Ping
      <3>3. QED
        BY <3>1, <3>2, PingSequences
    <2>c. /\ UNCHANGED <<timestamp, heard, echoed, alive, pinger, packed, reader, taken, lag>>
          /\ linked' = FALSE /\ broken < MaxBreak /\ broken' = broken + 1
      BY <1>7 DEF LoseConnection
    <2>4. BeatTypeOK'
      <3>1. pings' \in [Ends -> Seq(Ping)]
        BY <2>1, <2>3
      <3>2. broken' \in 0..MaxBreak
        BY <1>t, <2>c DEF BeatTypeOK
      <3>3. QED
        BY <1>t, <2>c, <3>1, <3>2 DEF BeatTypeOK, Ping
    <2>5. ASSUME NEW f \in Ends
          PROVE  InChannel(f)'
      <3>1. InChannel(f) /\ Len(pings[f]) \in Nat
        BY <1>n, <1>i
      <3>2. UNCHANGED <<timestamp, heard>>
        BY <2>c
      <3>3. /\ Len(pings'[f]) \in Nat /\ Len(pings'[f]) <= Len(pings[f])
            /\ \A i \in 1..Len(pings'[f]) :
                 i \in 1..Len(pings[f]) /\ pings'[f][i] = pings[f][i]
        BY <2>3, <3>1
      <3>4. QED
        BY <3>1, <3>2, <3>3 DEF InChannel
    <2>6. \A f \in Ends : Knows(f)' /\ Compared(f)' /\ Fresh(f)'
      BY <1>i, <2>c DEF Knows, Compared, Fresh
    <2>7. QED
      BY <2>4, <2>5, <2>6 DEF BeatInv
  <1>8. CASE Reconnect \/ Finished \/ UNCHANGED beatVars
    <2>1. /\ UNCHANGED <<timestamp, heard, echoed, alive, pinger, packed, reader, taken, lag,
                         pings, broken>>
          /\ linked' \in {TRUE, linked}
      BY <1>8 DEF Reconnect, Finished, beatVars
    <2>2. BeatTypeOK'
      BY <1>t, <2>1 DEF BeatTypeOK
    <2>3. \A f \in Ends : Knows(f)' /\ Compared(f)' /\ Fresh(f)'
      BY <1>i, <2>1 DEF Knows, Compared, Fresh
    <2>4. \A f \in Ends : InChannel(f)'
      BY <2>1, BeatFrame
    <2>5. QED
      BY <2>2, <2>3, <2>4 DEF BeatInv
  <1>9. QED
    BY <1>1, <1>2, <1>3, <1>4, <1>5, <1>6, <1>7, <1>8 DEF BeatNext

\* The channels never run ahead of their ends and beliefs are fresh, in every
\* behaviour.
THEOREM BeatInvariance == BeatSpec => []BeatInv
  BY BeatInitial, BeatStep, PTL DEF BeatSpec

\* The types of the heartbeat's variables (ping, read_header).
THEOREM BeatTypeCorrect == BeatSpec => []BeatTypeOK
  <1>1. BeatInv => BeatTypeOK
    BY DEF BeatInv
  <1>2. QED
    BY <1>1, BeatInvariance, PTL

\* An end that has set heartbeatAlive is right up to the pings counted between
\* its comparison and that: its counterpart has heard one of the last
\* MaximumHeartbeatDelay + 1 pings, or one of so many more (ping l.378-408,
\* read_header l.268-286).
THEOREM AliveIsHeard == BeatSpec => []AliveMeansHeard
  <1>1. ASSUME BeatInv, NEW e \in Ends, alive[e]
        PROVE  timestamp[e] - heard[Other(e)] <= MaximumHeartbeatDelay + 1 + lag[e]
    <2>1. /\ timestamp[e] \in Nat /\ heard[Other(e)] \in Nat /\ lag[e] \in Nat
          /\ Fresh(e)
      BY <1>1, BoundAssumption, TwoEnds DEF BeatInv, BeatTypeOK
    <2>2. QED
      BY <1>1, <2>1, DelayAssumption DEF Fresh
  <1>2. BeatInv => AliveMeansHeard
    BY <1>1 DEF AliveMeansHeard
  <1>3. QED
    BY <1>2, BeatInvariance, PTL
=============================================================================
