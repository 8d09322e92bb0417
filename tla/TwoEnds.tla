------------------------------ MODULE TwoEnds ------------------------------
(***************************************************************************)
(* What the reactive entities have in common: the two ends that hold a     *)
(* replica each, the messages on their way between them, and whether an    *)
(* end's replica is bound to the wire.  Messages to one end arrive in the  *)
(* order they were sent in (SocketWire.tla); those for a replica that is   *)
(* not bound yet wait for it (MessageBroker.tla).                          *)
(***************************************************************************)
EXTENDS Naturals, Sequences, FiniteSets

CONSTANTS
  Ends,        \* the two ends of the protocol
  Values,      \* what a property, an element or an interned value may be
  None,        \* stands for an end, a value or an index that is not there
  MaxChanges   \* bound: how many changes are made at the two ends together

ASSUME EndsAssumption ==
  /\ IsFiniteSet(Ends) /\ Cardinality(Ends) = 2
  /\ None \notin Ends \union Values
  /\ MaxChanges \in Nat

VARIABLES
  bound,   \* bound[e]: the replica of e has gone through init
  wire,    \* wire[e]: the messages on their way to e
  master,  \* the end whose is_master is TRUE, or None
  changes  \* how many changes have been made

endVars == <<bound, wire, master, changes>>

Other(e) == CHOOSE f \in Ends : f # e

EndsInit ==
  /\ wire = [e \in Ends |-> <<>>]
  /\ master \in Ends \union {None}
  /\ changes = 0

(* Every message has arrived at a bound replica. *)
Quiet == \A e \in Ends : bound[e] /\ wire[e] = <<>>

(* A local change of e: its events are messages once e is bound. *)
Change(e, events) ==
  /\ changes < MaxChanges
  /\ changes' = changes + 1
  /\ wire' = IF bound[e] THEN [wire EXCEPT ![Other(e)] = @ \o events] ELSE wire
  /\ UNCHANGED <<bound, master>>

(* init: what the replica holds already is sent as if it was added now. *)
Bind(e, events) ==
  /\ ~bound[e]
  /\ bound' = [bound EXCEPT ![e] = TRUE]
  /\ wire' = [wire EXCEPT ![Other(e)] = @ \o events]
  /\ UNCHANGED <<master, changes>>

Arriving(e) == Head(wire[e])

(* A message is received by e, which sends replies. *)
Receive(e, replies) ==
  /\ bound[e]
  /\ wire[e] # <<>>
  /\ wire' = [wire EXCEPT ![e] = Tail(@), ![Other(e)] = @ \o replies]
  /\ UNCHANGED <<bound, master, changes>>

=============================================================================
