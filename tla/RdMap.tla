------------------------------- MODULE RdMap -------------------------------
(***************************************************************************)
(* RdMap.h: the entries of a map with a replica at either end.  Changes of *)
(* the master carry a version and are acknowledged; until the master has   *)
(* seen the acknowledgement of a key it refuses what the slave sends for   *)
(* it.  A key of pendingForAck is a pointer: to the key inside the map, or *)
(* for a removal to the argument of remove, so it dangles once the entry   *)
(* is gone, and whether it is found from then on is left open.             *)
(***************************************************************************)
EXTENDS TwoEnds, SequencesExt

CONSTANT Keys

VARIABLES
  entries,        \* entries[e][k], None when k is not in the map of e
  next_version,   \* of the master
  pendingForAck,  \* of the master: version of the change of k, 0 when absent
  dangling,       \* the keys of pendingForAck that point to freed memory
  lost            \* history: the keys pendingForAck has lost track of

mapVars == <<entries, next_version, pendingForAck, dangling, lost>>

MapInit ==
  /\ entries = [e \in Ends |-> [k \in Keys |-> None]]
  /\ next_version = 0
  /\ pendingForAck = [k \in Keys |-> 0]
  /\ dangling = {}
  /\ lost = {}

(* Whether the master's last change of k has not been acknowledged, going by
   the messages on their way. *)
IsAbout(m, op, k) == m.op = op /\ m.key = k
Unacknowledged(k) ==
  \/ \E i \in 1 .. Len(wire[Other(master)]) : IsAbout(wire[Other(master)][i], "change", k)
  \/ \E i \in 1 .. Len(wire[master]) : IsAbout(wire[master][i], "ack", k)

(* The keys pendingForAck has an entry for and finds; a dangling one, or not. *)
Found == {found \in SUBSET {k \in Keys : pendingForAck[k] # 0} :
            \A k \in Keys \ dangling : pendingForAck[k] # 0 => k \in found}
NotFound(found) == dangling \ found

(* The message the handler of advise sends for the i-th of some events. *)
ChangeMessage(e, new, k, i) ==
  [op |-> "change", key |-> k, value |-> new[k],
   version |-> IF e = master THEN next_version + i ELSE 0]

Messages(e, new, keys) ==
  [i \in 1 .. Len(keys) |-> ChangeMessage(e, new, keys[i], i)]

(* What the handler remembers of its messages: emplace leaves an entry it
   finds as it is. *)
EmplacePending(e, messages) ==
  IF e # master \/ ~bound'[e]
  THEN UNCHANGED <<next_version, pendingForAck, dangling, lost>>
  ELSE \E found \in Found :
    LET sent(k)   == {i \in 1 .. Len(messages) : messages[i].key = k}
        fresh(k)  == sent(k) # {} /\ k \notin found
        removed   == {k \in Keys : \E i \in sent(k) : messages[i].value = None}
    IN  /\ next_version' = next_version + Len(messages)
        /\ pendingForAck' =
             [k \in Keys |-> IF fresh(k) THEN messages[CHOOSE i \in sent(k) : TRUE].version
                                         ELSE pendingForAck[k]]
        /\ dangling' = {k \in dangling : ~fresh(k)} \union removed
        /\ lost' = lost \union {k \in Keys :
                     sent(k) # {} /\ (Unacknowledged(k) \/ k \in NotFound(found))}

Fire(e, new, keys) ==
  /\ Change(e, Messages(e, new, keys))
  /\ EmplacePending(e, Messages(e, new, keys))
  /\ entries' = [entries EXCEPT ![e] = new]

(* set and remove: without an effect on the map they fire nothing. *)
MapSet(e, k, v) ==
  /\ entries[e][k] # v
  /\ Fire(e, [entries[e] EXCEPT ![k] = v], <<k>>)

MapRemove(e, k) ==
  /\ entries[e][k] # None
  /\ Fire(e, [entries[e] EXCEPT ![k] = None], <<k>>)

Present(e) == SetToSeq({k \in Keys : entries[e][k] # None})

MapClear(e) ==
  /\ Present(e) # <<>>
  /\ Fire(e, [k \in Keys |-> None], Present(e))

(* init: advise replays the entries inside local_change. *)
MapBind(e) ==
  /\ Bind(e, Messages(e, entries[e], Present(e)))
  /\ EmplacePending(e, Messages(e, entries[e], Present(e)))
  /\ UNCHANGED entries

(* on_wire_received of an acknowledgement: it erases the entry it is for. *)
ReceiveAck(e, m) ==
  /\ Receive(e, <<>>)
  /\ \E found \in Found :
       LET erased == m.key \in found /\ pendingForAck[m.key] = m.version
       IN  /\ pendingForAck' = IF erased THEN [pendingForAck EXCEPT ![m.key] = 0]
                                         ELSE pendingForAck
           /\ dangling' = IF erased THEN dangling \ {m.key} ELSE dangling
           /\ lost' = lost \union ({m.key} \intersect NotFound(found))
  /\ UNCHANGED <<entries, next_version>>

(* mutation: the slave's changes are accepted while the master's is pending *)
AcceptsPending(e, m, found) == TRUE

(* on_wire_received of a change: refused by a master with its own pending. *)
Accepts(e, m, found) == m.version # 0 \/ e # master \/ m.key \notin found

ReceiveChange(e, m) ==
  /\ Receive(e, IF m.version = 0 THEN <<>>
                ELSE <<[op |-> "ack", key |-> m.key, value |-> None, version |-> m.version]>>)
  /\ \E found \in Found :
       /\ entries' = IF Accepts(e, m, found)
                     THEN [entries EXCEPT ![e][m.key] = m.value] ELSE entries
       /\ lost' = IF e = master THEN lost \union ({m.key} \intersect NotFound(found)) ELSE lost
  /\ UNCHANGED <<next_version, pendingForAck, dangling>>

MapNext ==
  \E e \in Ends :
    \/ \E k \in Keys, v \in Values : MapSet(e, k, v)
    \/ \E k \in Keys : MapRemove(e, k)
    \/ MapClear(e)
    \/ MapBind(e)
    \/ ReceiveAck(e, Arriving(e)) /\ Arriving(e).op = "ack"
    \/ ReceiveChange(e, Arriving(e)) /\ Arriving(e).op = "change"

-----------------------------------------------------------------------------

(* Whatever changes cross, the replicas of a map with a master agree when
   every message has arrived, save for keys whose pending change
   pendingForAck has lost: one the master changed again before the
   acknowledgement, or one whose dangling entry was not found. *)
MapConverges ==
  Quiet /\ master # None =>
    \A k \in Keys \ lost, e, f \in Ends : entries[e][k] = entries[f][k]

=============================================================================
