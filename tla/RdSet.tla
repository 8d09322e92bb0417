------------------------------- MODULE RdSet -------------------------------
(***************************************************************************)
(* RdSet.h: the elements of a set with a replica at either end.  Nothing   *)
(* is numbered and nothing is refused.                                     *)
(***************************************************************************)
EXTENDS TwoEnds, SequencesExt

VARIABLES
  elements,  \* elements[e]
  tangled    \* history: elements whose opposite changes have crossed

setVars == <<elements, tangled>>

SetInit ==
  /\ elements = [e \in Ends |-> {}]
  /\ tangled = {}

(* e makes a change of x with an opposite one on its way to it. *)
Tangles(e, kind, x) ==
  \E i \in 1 .. Len(wire[e]) : wire[e][i].value = x /\ wire[e][i].kind # kind

SetFire(kind, values) == [i \in 1 .. Len(values) |-> [kind |-> kind, value |-> values[i]]]

SetChange(e, kind, new, values) ==
  /\ Change(e, SetFire(kind, values))
  /\ elements' = [elements EXCEPT ![e] = new]
  /\ tangled' = tangled \union {x \in ToSet(values) : bound[e] /\ Tangles(e, kind, x)}

(* add and remove: without an effect they fire nothing. *)
SetAdd(e, x) ==
  x \notin elements[e] /\ SetChange(e, "add", elements[e] \union {x}, <<x>>)

SetRemove(e, x) ==
  x \in elements[e] /\ SetChange(e, "remove", elements[e] \ {x}, <<x>>)

(* mutation: clear forgets to fire for the last element *)
ClearsAllButOne(e) ==
  elements[e] # {} /\ SetChange(e, "remove", {}, Tail(SetToSeq(elements[e])))

SetClear(e) ==
  elements[e] # {} /\ SetChange(e, "remove", {}, SetToSeq(elements[e]))

(* init: advise replays the elements inside local_change. *)
SetBind(e) ==
  /\ Bind(e, SetFire("add", SetToSeq(elements[e])))
  /\ tangled' = tangled \union {x \in elements[e] : Tangles(e, "add", x)}
  /\ UNCHANGED elements

SetReceive(e) ==
  LET m == Arriving(e)
  IN  /\ Receive(e, <<>>)
      /\ elements' = [elements EXCEPT ![e] =
                        IF m.kind = "add" THEN @ \union {m.value} ELSE @ \ {m.value}]
      /\ UNCHANGED tangled

SetNext ==
  \E e \in Ends :
    \/ \E x \in Values : SetAdd(e, x) \/ SetRemove(e, x)
    \/ SetClear(e)
    \/ SetBind(e)
    \/ SetReceive(e)

-----------------------------------------------------------------------------

(* A set has no master and refuses nothing; yet its replicas agree on every
   element when every message has arrived, even if both ends have changed it
   at the same time, unless an end added what the other was removing or
   removed what the other was adding. *)
SetConverges ==
  Quiet => \A e, f \in Ends : \A x \in Values \ tangled :
             x \in elements[e] <=> x \in elements[f]

=============================================================================
