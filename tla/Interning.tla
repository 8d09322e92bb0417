----------------------------- MODULE Interning -----------------------------
(***************************************************************************)
(* InternRoot and SerializationCtx::writeInterned, readInterned: a value   *)
(* that is sent often is sent once, with an index, and then replaced by    *)
(* it.  Even indices are the writer's own, odd ones the counterpart's.     *)
(* Interned values are taken in by the socket thread as they arrive, while *)
(* the messages that use them wait for the default scheduler.              *)
(***************************************************************************)
EXTENDS TwoEnds, SequencesExt

CONSTANT Writers  \* the threads of an end that send

VARIABLES
  my_items,     \* my_items_lis[e]
  other_items,  \* other_items_list[e]
  inverse_map,  \* inverse_map[e]
  writing,      \* writing[e][t]: index and value of a message under way
  inserting,    \* inserting[e]: the insertion the socket thread is making
  queue         \* queue[e]: the uses that wait for the default scheduler

internVars == <<my_items, other_items, inverse_map, writing, inserting, queue>>

Nowhere == [index |-> None]

InternInit ==
  /\ my_items = [e \in Ends |-> <<>>]
  /\ other_items = [e \in Ends |-> <<>>]
  /\ inverse_map = [e \in Ends |-> <<>>]
  /\ writing = [e \in Ends |-> [t \in Writers |-> Nowhere]]
  /\ inserting = [e \in Ends |-> Nowhere]
  /\ queue = [e \in Ends |-> <<>>]

(* id ^ 1: what is the writer's own is the reader's other, and back. *)
Opposite(id) == IF id % 2 = 0 THEN id + 1 ELSE id - 1

is_index_owned(id) == id % 2 = 0

(* un_intern_value: None stands for an element that is not there. *)
Resolved(e, id) ==
  IF is_index_owned(id)
  THEN IF id \div 2 < Len(my_items[e]) THEN my_items[e][id \div 2 + 1] ELSE None
  ELSE IF id \div 2 \in DOMAIN other_items[e] THEN other_items[e][id \div 2] ELSE None

With(f, x, y) == [z \in DOMAIN f \union {x} |-> IF z = x THEN y ELSE f[z]]

(* mutation: the counterpart's values are counted too *)
CountsAllValues(e) == 2 * Cardinality(DOMAIN inverse_map[e])

NextIndex(e) == 2 * Len(my_items[e])

(* intern_value, under `lock': a value that has no index is sent first. *)
InternValue(e, t, v) ==
  /\ writing[e][t] = Nowhere
  /\ IF v \in DOMAIN inverse_map[e]
     THEN /\ writing' = [writing EXCEPT ![e][t] = [index |-> inverse_map[e][v], value |-> v]]
          /\ Change(e, <<>>)
          /\ UNCHANGED <<my_items, inverse_map>>
     ELSE LET index == NextIndex(e)
          IN  /\ writing' = [writing EXCEPT ![e][t] = [index |-> index, value |-> v]]
              /\ Change(e, <<[kind |-> "intern", index |-> index, value |-> v]>>)
              /\ my_items' = [my_items EXCEPT ![e] = Append(@, v)]
              /\ inverse_map' = [inverse_map EXCEPT ![e] = With(@, v, index)]
  /\ UNCHANGED <<other_items, inserting, queue>>

(* The message with the index in it is put into the wire's buffer. *)
SendUse(e, t) ==
  LET w == writing[e][t]
  IN  /\ w # Nowhere
      /\ wire' = [wire EXCEPT ![Other(e)] =
                    Append(@, [kind |-> "use", index |-> w.index, value |-> w.value])]
      /\ writing' = [writing EXCEPT ![e][t] = Nowhere]
      /\ UNCHANGED <<bound, master, changes, my_items, other_items, inverse_map, inserting, queue>>

(* InternRoot::on_wire_received, on the socket thread whatever the scheduler
   is doing; the reader takes no lock, so an insertion takes its time. *)
InsertBegin(e) ==
  /\ inserting[e] = Nowhere
  /\ Receive(e, <<>>)
  /\ Arriving(e).kind = "intern"
  /\ inserting' = [inserting EXCEPT ![e] = Arriving(e)]
  /\ UNCHANGED <<my_items, other_items, inverse_map, writing, queue>>

(* set_interned_correspondence *)
InsertEnd(e) ==
  LET m  == inserting[e]
      id == Opposite(m.index)
  IN  /\ m # Nowhere
      /\ other_items' = [other_items EXCEPT ![e] = With(@, id \div 2, m.value)]
      /\ inverse_map' = [inverse_map EXCEPT ![e] = With(@, m.value, id)]
      /\ inserting' = [inserting EXCEPT ![e] = Nowhere]
      /\ UNCHANGED <<endVars, my_items, writing, queue>>

(* MessageBroker::dispatch of a message with an index in it, by the same
   thread. *)
QueueUse(e) ==
  /\ inserting[e] = Nowhere
  /\ Receive(e, <<>>)
  /\ Arriving(e).kind = "use"
  /\ queue' = [queue EXCEPT ![e] = Append(@, Arriving(e))]
  /\ UNCHANGED <<my_items, other_items, inverse_map, writing, inserting>>

(* readInterned, on the default scheduler.  What it reads while the socket
   thread inserts is undefined and left out. *)
ReadUse(e) ==
  /\ queue[e] # <<>>
  /\ queue' = [queue EXCEPT ![e] = Tail(@)]
  /\ UNCHANGED <<endVars, my_items, other_items, inverse_map, writing, inserting>>

InternNext ==
  \E e \in Ends :
    \/ \E t \in Writers : (\E v \in Values : InternValue(e, t, v)) \/ SendUse(e, t)
    \/ InsertBegin(e) \/ InsertEnd(e) \/ QueueUse(e) \/ ReadUse(e)

-----------------------------------------------------------------------------

(* However the two ends intern the same values at the same time, from several
   threads, every index that has arrived in a message stands for the value
   its writer meant. *)
IndicesResolve ==
  \A e \in Ends : \A i \in 1 .. Len(queue[e]) :
    Resolved(e, Opposite(queue[e][i].index)) = queue[e][i].value

=============================================================================
