----------------------------- MODULE SendWindow -----------------------------
(***************************************************************************)
(* What an outbox with acknowledgements promises, whatever threads and     *)
(* containers it is made of.  Packages are numbered 1, 2, 3, ... in the    *)
(* order they are accepted in.  `sent' of them have been handed over, and  *)
(* those below `base' have been thrown away.                               *)
(*                                                                         *)
(*          1 .. base-1 .. acked .. sent .. accepted                       *)
(*                                                                         *)
(* The next number is tried only when all numbers below it have been       *)
(* handed over; a number that was handed over may be tried again until it  *)
(* is acknowledged, and never after; only acknowledged packages are thrown *)
(* away.                                                                   *)
(***************************************************************************)
EXTENDS Naturals

CONSTANT MaxPut

VARIABLES accepted, base, acked, sent,
          tried  \* the number last tried

windowVars == <<accepted, base, acked, sent, tried>>

WindowInit ==
  accepted = 0 /\ base = 1 /\ acked = 0 /\ sent = 0 /\ tried = 0

Accept ==
  /\ accepted < MaxPut
  /\ accepted' = accepted + 1
  /\ UNCHANGED <<base, acked, sent, tried>>

\* Try number n; it may be refused, and then nothing else changes.
Try(n) ==
  /\ tried' = n
  /\ \/ n = sent + 1 /\ sent' \in {sent, n}
     \/ n <= sent /\ sent' = sent
  /\ UNCHANGED <<accepted, base, acked>>

Acknowledged(n) ==
  /\ acked' = n
  /\ UNCHANGED <<accepted, base, sent, tried>>

ThrowAway ==
  /\ base <= acked
  /\ base' = base + 1
  /\ UNCHANGED <<accepted, acked, sent, tried>>

WindowNext ==
  \/ Accept
  \/ \E n \in (acked + 1)..accepted : Try(n)
  \/ \E n \in (acked + 1)..sent : Acknowledged(n)
  \/ ThrowAway

WindowSpec == WindowInit /\ [][WindowNext]_windowVars
=============================================================================
