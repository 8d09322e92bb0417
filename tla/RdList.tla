------------------------------ MODULE RdList ------------------------------
(***************************************************************************)
(* RdList.h: the items of a list with a replica at either end.  Every      *)
(* change is numbered, by both ends with the same numbers, so that a       *)
(* message which crossed another one does not carry the number that is     *)
(* expected: "Are you modifying a list from two sides?".  What a list does *)
(* once it has reported that is left out.                                  *)
(***************************************************************************)
EXTENDS TwoEnds, SequencesExt

CONSTANT MaxLength  \* bound: items of a list

VARIABLES
  items,      \* items[e]
  expected,   \* next_version of e
  conflicts,  \* the ends that have reported a conflict
  crossed     \* history: an end made a change with a message on its way to it

listVars == <<items, expected, conflicts, crossed>>

ListInit ==
  /\ items = [e \in Ends |-> <<>>]
  /\ expected = [e \in Ends |-> 1]
  /\ conflicts = {}
  /\ crossed = FALSE

Added(i, v)   == [op |-> "add", index |-> i, value |-> v]
Updated(i, v) == [op |-> "update", index |-> i, value |-> v]
Removed(i, v) == [op |-> "remove", index |-> i, value |-> v]

(* The handler of advise numbers the messages it sends. *)
Numbered(e, events) ==
  [i \in 1 .. Len(events) |-> [version |-> expected[e] + i - 1, event |-> events[i]]]

Crosses(e) == wire[e] # <<>>

ListChange(e, new, events) ==
  /\ e \notin conflicts
  /\ Change(e, Numbered(e, events))
  /\ items' = [items EXCEPT ![e] = new]
  /\ expected' = IF bound[e] THEN [expected EXCEPT ![e] = @ + Len(events)] ELSE expected
  /\ crossed' = (crossed \/ (bound[e] /\ Crosses(e)))
  /\ UNCHANGED conflicts

ListAdd(e, i, v) ==
  /\ Len(items[e]) < MaxLength
  /\ ListChange(e, InsertAt(items[e], i, v), <<Added(i, v)>>)

ListUpdate(e, i, v) ==
  ListChange(e, ReplaceAt(items[e], i, v), <<Updated(i, v)>>)

ListRemoveAt(e, i) ==
  ListChange(e, RemoveAt(items[e], i), <<Removed(i, items[e][i])>>)

(* clear: the items are removed from the last to the first. *)
ListClear(e) ==
  LET n == Len(items[e])
  IN  /\ n > 0
      /\ ListChange(e, <<>>, [i \in 1 .. n |-> Removed(n + 1 - i, items[e][n + 1 - i])])

(* init: advise replays the items inside local_change. *)
ListBind(e) ==
  LET n == Len(items[e])
  IN  /\ Bind(e, Numbered(e, [i \in 1 .. n |-> Added(i, items[e][i])]))
      /\ expected' = [expected EXCEPT ![e] = @ + n]
      /\ crossed' = (crossed \/ (n > 0 /\ Crosses(e)))
      /\ UNCHANGED <<items, conflicts>>

Applied(s, event) ==
  CASE event.op = "add"    -> InsertAt(s, event.index, event.value)
    [] event.op = "update" -> ReplaceAt(s, event.index, event.value)
    [] event.op = "remove" -> RemoveAt(s, event.index)

(* mutation: the number is not looked at *)
ExpectsAnything(e, m) == e \in Ends

Expects(e, m) == m.version = expected[e]

ListReceive(e) ==
  LET m == Arriving(e)
  IN  /\ e \notin conflicts
      /\ Receive(e, <<>>)
      /\ IF Expects(e, m)
         THEN /\ expected' = [expected EXCEPT ![e] = @ + 1]
              /\ items' = [items EXCEPT ![e] = Applied(@, m.event)]
              /\ UNCHANGED <<conflicts, crossed>>
         ELSE /\ conflicts' = conflicts \union {e}
              /\ UNCHANGED <<items, expected, crossed>>

ListNext ==
  \E e \in Ends :
    \/ \E v \in Values :
         \/ \E i \in 1 .. Len(items[e]) + 1 : ListAdd(e, i, v)
         \/ \E i \in 1 .. Len(items[e]) : ListUpdate(e, i, v)
    \/ \E i \in 1 .. Len(items[e]) : ListRemoveAt(e, i)
    \/ ListClear(e)
    \/ ListBind(e)
    \/ ListReceive(e)

-----------------------------------------------------------------------------

(* A list may be changed from both ends as long as they take turns: a
   conflict is reported only if changes crossed, and if it is not, then none
   did and the replicas agree when every message has arrived. *)
ListReportsCrossing ==
  /\ conflicts # {} => crossed
  /\ Quiet /\ conflicts = {} => ~crossed /\ \A e, f \in Ends : items[e] = items[f]

=============================================================================
